----------------------------- MODULE AtomicFile -----------------------------
(***************************************************************************)
(* What an atomic file write promises.  A write takes effect at one moment *)
(* between its call and its answer, and all at once; it answers True when  *)
(* it took effect and raises when it did not; a process that dies leaves   *)
(* the old content or the new one.  Where a file cannot be replaced in one *)
(* step, a write may also take the old content away before it takes effect *)
(* or fails.                                                               *)
(***************************************************************************)
CONSTANTS Writer, Value, NoFile

VARIABLES content,   \* what the file holds
          state,     \* of each writer's call
          arg,       \* the value it writes
          mayVanish  \* no replacement in one step

Init ==
  /\ content = NoFile
  /\ state = [w \in Writer |-> "idle"]
  /\ arg \in [Writer -> Value]
  /\ mayVanish \in BOOLEAN

Begin(w, v) ==
  /\ state[w] = "idle"
  /\ state' = [state EXCEPT ![w] = "pending"]
  /\ arg' = [arg EXCEPT ![w] = v]
  /\ UNCHANGED <<content, mayVanish>>

Commit(w) ==
  /\ state[w] = "pending"
  /\ content' = arg[w]
  /\ state' = [state EXCEPT ![w] = "done"]
  /\ UNCHANGED <<arg, mayVanish>>

Fail(w) ==
  /\ state[w] = "pending"
  /\ state' = [state EXCEPT ![w] = "raised"]
  /\ UNCHANGED <<content, arg, mayVanish>>

Vanish(w) ==
  /\ mayVanish /\ state[w] = "pending"
  /\ content' = NoFile
  /\ UNCHANGED <<state, arg, mayVanish>>

(* The answer reaches the caller, or the process dies.                      *)
Leave(w) ==
  /\ state' = [state EXCEPT ![w] = "idle"]
  /\ UNCHANGED <<content, arg, mayVanish>>

Next == \E w \in Writer :
          Commit(w) \/ Fail(w) \/ Vanish(w) \/ Leave(w) \/ \E v \in Value : Begin(w, v)

Spec == Init /\ [][Next]_<<content, state, arg, mayVanish>>
=============================================================================
