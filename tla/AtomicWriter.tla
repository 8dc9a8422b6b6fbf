---------------------------- MODULE AtomicWriter ----------------------------
(***************************************************************************)
(* AtomicWriter._atomic_write_with_retry (shared/io.py): several processes *)
(* write one target file, each through a temporary file of its own name.   *)
(* The POSIX branch replaces the target in one step, the Windows branch    *)
(* unlinks it and renames the temporary file onto the free name.           *)
(***************************************************************************)
EXTENDS Integers

CONSTANTS Writer, Value,
          NoFile,       \* the target does not exist
          Partial,      \* a file that was opened and not written to its end
          Nobody,
          MaxRetries    \* max_retries

ASSUME WriterAssumption ==
  /\ MaxRetries \in Nat \ {0}
  /\ NoFile \notin Value /\ Partial \notin Value /\ NoFile # Partial
  /\ Nobody \notin Writer

VARIABLES windows,   \* os.name == 'nt'
          target,    \* content of the target file
          temp,      \* content of each writer's temporary file
          pc, value, attempt,
          taker,     \* history: the writer that took the target away, Nobody
                     \* while it is there or was never written
          fate       \* history: what became of that writer's call

history == <<taker, fate>>
vars == <<windows, target, temp, pc, value, attempt, history>>

Location == {"idle", "open", "fill", "exists", "unlink", "rename", "replace",
             "true", "error"}

Init ==
  /\ windows \in BOOLEAN
  /\ target = NoFile
  /\ temp = [w \in Writer |-> NoFile]
  /\ pc = [w \in Writer |-> "idle"]
  /\ value \in [Writer -> Value]
  /\ attempt = [w \in Writer |-> 1]
  /\ taker = Nobody /\ fate = "none"

GoTo(w, l) == pc' = [pc EXCEPT ![w] = l]

Begin(w, v) ==
  /\ pc[w] = "idle"
  /\ value' = [value EXCEPT ![w] = v]
  /\ attempt' = [attempt EXCEPT ![w] = 1]
  /\ GoTo(w, "open")
  /\ UNCHANGED <<windows, target, temp, history>>

OpenTemp(w) ==
  /\ pc[w] = "open"
  /\ temp' = [temp EXCEPT ![w] = Partial]
  /\ GoTo(w, "fill")
  /\ UNCHANGED <<windows, target, value, attempt, history>>

(* write, flush and fsync return: the file is whole.                        *)
FillTemp(w) ==
  /\ pc[w] = "fill"
  /\ temp' = [temp EXCEPT ![w] = value[w]]
  /\ GoTo(w, IF windows THEN "exists" ELSE "replace")
  /\ UNCHANGED <<windows, target, value, attempt, history>>

TargetExists(w) ==
  /\ pc[w] = "exists"
  /\ GoTo(w, IF target = NoFile THEN "rename" ELSE "unlink")
  /\ UNCHANGED <<windows, target, temp, value, attempt, history>>

Unlink(w) ==
  /\ pc[w] = "unlink" /\ target # NoFile
  /\ target' = NoFile
  /\ GoTo(w, "rename")
  /\ taker' = w /\ fate' = "pending"
  /\ UNCHANGED <<windows, temp, value, attempt>>

Move(w, content) ==
  /\ target' = content
  /\ temp' = [temp EXCEPT ![w] = NoFile]
  /\ GoTo(w, "true")
  /\ taker' = Nobody /\ fate' = "none"
  /\ UNCHANGED <<windows, value, attempt>>

(* Windows refuses to rename onto a name that exists.                       *)
Rename(w) == pc[w] = "rename" /\ target = NoFile /\ Move(w, temp[w])

(* Mutated: the temporary file is moved before it was written to its end.   *)
Replace_Early(w) == pc[w] = "fill" /\ Move(w, temp[w])

Replace(w) == pc[w] = "replace" /\ Move(w, temp[w])

(* Mutated: the last failed attempt is not raised to the caller.            *)
AttemptFails_Silent(w) ==
  /\ pc[w] \in {"open", "fill", "unlink", "rename", "replace"}
  /\ temp' = [temp EXCEPT ![w] = NoFile]
  /\ IF attempt[w] < MaxRetries
     THEN GoTo(w, "open") /\ attempt' = [attempt EXCEPT ![w] = @ + 1]
     ELSE GoTo(w, "true") /\ UNCHANGED attempt
  /\ UNCHANGED <<windows, target, value, history>>

(* Mutated: a rename that failed is taken for the success of another writer. *)
AttemptFails_Yields(w) ==
  /\ pc[w] \in {"open", "fill", "unlink", "rename", "replace"}
  /\ temp' = [temp EXCEPT ![w] = NoFile]
  /\ IF pc[w] = "rename" THEN GoTo(w, "true") /\ UNCHANGED attempt
     ELSE IF attempt[w] < MaxRetries
     THEN GoTo(w, "open") /\ attempt' = [attempt EXCEPT ![w] = @ + 1]
     ELSE GoTo(w, "error") /\ UNCHANGED attempt
  /\ UNCHANGED <<windows, target, value, history>>

(* Any OSError (in Unlink and Rename the other writers can cause it): the   *)
(* temporary file is removed and the whole write tried again, MaxRetries    *)
(* times in all; then AtomicIOError.                                        *)
AttemptFails(w) ==
  /\ pc[w] \in {"open", "fill", "unlink", "rename", "replace"}
  /\ temp' = [temp EXCEPT ![w] = NoFile]
  /\ IF attempt[w] < MaxRetries
     THEN GoTo(w, "open") /\ attempt' = [attempt EXCEPT ![w] = @ + 1]
     ELSE GoTo(w, "error") /\ UNCHANGED attempt
  /\ UNCHANGED <<windows, target, value, history>>

(* What the history says of the call when it ends.                          *)
Ends(w, end) == fate' = IF taker = w /\ fate = "pending" THEN end ELSE fate

Answer(w) ==
  /\ pc[w] \in {"true", "error"}
  /\ GoTo(w, "idle")
  /\ Ends(w, IF pc[w] = "true" THEN "done" ELSE "raised")
  /\ UNCHANGED <<windows, target, temp, value, attempt, taker>>

(* The process dies; its temporary file stays and no one looks at it again. *)
Crash(w) ==
  /\ pc[w] # "idle"
  /\ GoTo(w, "idle")
  /\ Ends(w, "died")
  /\ UNCHANGED <<windows, target, temp, value, attempt, taker>>

Next == \E w \in Writer :
  \/ \E v \in Value : Begin(w, v)
  \/ OpenTemp(w)
  \/ FillTemp(w)
  \/ TargetExists(w)
  \/ Unlink(w)
  \/ Rename(w)
  \/ Replace(w)
  \/ AttemptFails(w)
  \/ Answer(w)
  \/ Crash(w)

Spec == Init /\ [][Next]_vars

-----------------------------------------------------------------------------
TypeOK ==
  /\ target \in Value \cup {NoFile}
  /\ temp \in [Writer -> Value \cup {NoFile, Partial}]
  /\ pc \in [Writer -> Location]
  /\ value \in [Writer -> Value]
  /\ attempt \in [Writer -> 1 .. MaxRetries]
  /\ taker \in Writer \cup {Nobody}
  /\ fate \in {"none", "pending", "done", "raised", "died"}
  /\ windows \in BOOLEAN

(* What is in the temporary file when it is about to be moved, and which    *)
(* platform takes which branch.                                             *)
TempWhole ==
  \A w \in Writer :
    pc[w] \in {"exists", "unlink", "rename", "replace"} => temp[w] = value[w]

Branches ==
  \A w \in Writer :
    /\ pc[w] \in {"exists", "unlink", "rename"} => windows
    /\ pc[w] = "replace" => ~windows

(* A file that was written is missing only on Windows, and only because a   *)
(* write took it away that is still trying to put its own in its place, or  *)
(* that died, or whose caller was told of the failure: through retries and  *)
(* writers that cross each other, no write that answered True left the      *)
(* target missing.                                                          *)
LossIsKnown ==
  taker # Nobody =>
    /\ windows /\ target = NoFile
    /\ \/ fate = "pending" /\ pc[taker] \in {"open", "fill", "exists", "rename", "error"}
       \/ fate \in {"raised", "died"}

(* "Windows-safe atomic writes": a file that was written never disappears.  *)
NeverMissing == [][target # NoFile => target' # NoFile]_vars

(* The writer keeps the promise of AtomicFile: the replace or rename is the *)
(* moment a write takes effect, True means it did and an error that it did  *)
(* not, whatever the other writers, the retries and the crashes do; only on *)
(* Windows a write takes the old content away first.                        *)
StateOf(location) ==
  IF location = "idle" THEN "idle"
  ELSE IF location = "true" THEN "done"
  ELSE IF location = "error" THEN "raised"
  ELSE "pending"

Promise == INSTANCE AtomicFile
             WITH content <- target, arg <- value, mayVanish <- windows,
                  state <- [w \in Writer |-> StateOf(pc[w])]

ImplementsAtomicFile == Promise!Spec
=============================================================================
