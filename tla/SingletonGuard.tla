--------------------------- MODULE SingletonGuard ---------------------------
(***************************************************************************)
(* The pid-file guard of one service (shared/singleton.py, SingletonGuard) *)
(* as the three services use it in start(): acquire, validate the          *)
(* configuration, run the main loop, and in every case release().          *)
(*                                                                         *)
(* A process is identified by the pid the operating system gave it.  A pid *)
(* is free ("none") again once its process has ended, and may then be      *)
(* given to another instance of the service or to an unrelated program     *)
(* ("foreign").                                                            *)
(***************************************************************************)
EXTENDS FiniteSets

CONSTANTS Proc,      \* the pids
          NoPid      \* no pid file

ASSUME GuardAssumption == NoPid \notin Proc

VARIABLES windows,   \* os.name == 'nt', the same for ever
          pc,        \* where the process of each pid is in start()
          seen,      \* existing_pid, a local of acquire()
          pidFile,   \* content of <service>.pid
          raced,     \* history: two instances were inside acquire() together
          stolen,    \* history: a release() removed a live instance's pid file
          misled     \* history: a live owner was overlooked, its file not read or
                     \* its process not found

vars == <<windows, pc, seen, pidFile, raced, stolen, misled>>

Location == {"none", "foreign", "read", "probe", "write",
             "validate", "running", "release"}

Init ==
  /\ windows \in BOOLEAN
  /\ pc = [p \in Proc |-> "none"]
  /\ seen = [p \in Proc |-> NoPid]
  /\ pidFile = NoPid
  /\ raced = FALSE
  /\ stolen = FALSE
  /\ misled = FALSE

(* What os.kill(pid, 0) and tasklist are asked: is there a process with     *)
(* that pid, ours or not.                                                   *)
IsProcessRunning(p) == pc[p] # "none"

(* Past the pid check, with nothing on disk to show for it yet.            *)
InWindow(p) == pc[p] \in {"probe", "write"}

(* An instance whose acquire() returned True and that has not begun to end *)
Holds(p) == pc[p] \in {"validate", "running"}

GoTo(p, l) == pc' = [pc EXCEPT ![p] = l]

-----------------------------------------------------------------------------
Start(p) ==
  /\ pc[p] = "none"
  /\ GoTo(p, "read")
  /\ UNCHANGED <<windows, seen, pidFile, raced, stolen, misled>>

(* exists() and _read_pid(): no file, or one that disappears in between,    *)
(* sends acquire() straight to _write_pid(); so does a file that is there   *)
(* and cannot be read, for read_text() answers None for both.               *)
ReadPid(p) ==
  /\ pc[p] = "read"
  /\ \E content \in {pidFile, NoPid} :
       /\ seen' = [seen EXCEPT ![p] = content]
       /\ GoTo(p, IF content = NoPid THEN "write" ELSE "probe")
       /\ misled' = (misled \/ \E q \in Proc : Holds(q) /\ pidFile = q /\ content # q)
  /\ raced' = (raced \/ \E q \in Proc \ {p} : InWindow(q))
  /\ UNCHANGED <<windows, pidFile, stolen>>

(* Mutated: the answer of the probe is ignored, any file is overwritten.    *)
Probe_Ignored(p) ==
  /\ pc[p] = "probe"
  /\ GoTo(p, "write")
  /\ UNCHANGED <<windows, seen, pidFile, raced, stolen, misled>>

(* _is_process_running(existing_pid).  On Windows a dead pid, and a live    *)
(* one for which tasklist fails or answers nothing, gives False.  On POSIX  *)
(* a dead pid does not give False: evaluating the except clause raises      *)
(* UnboundLocalError (subprocess is imported in the nt branch only),        *)
(* acquire() turns it into SingletonError and start() ends as it does for a *)
(* live owner.                                                              *)
Probe(p) ==
  /\ pc[p] = "probe"
  /\ \/ /\ IsProcessRunning(seen[p]) \/ ~windows
        /\ GoTo(p, "release")
        /\ UNCHANGED misled
     \/ /\ windows
        /\ GoTo(p, "write")
        /\ misled' = (misled \/ Holds(seen[p]))
  /\ UNCHANGED <<windows, seen, pidFile, raced, stolen>>

(* _write_pid() on Windows unlinks the file that is there before it renames *)
(* its own.                                                                 *)
UnlinkPid(p) ==
  /\ windows
  /\ pc[p] = "write" /\ pidFile # NoPid
  /\ pidFile' = NoPid
  /\ UNCHANGED <<windows, pc, seen, raced, stolen, misled>>

(* Mutated: a write that failed is reported as a success.                   *)
WritePid_Lenient(p) ==
  /\ pc[p] = "write"
  /\ pidFile' \in {p, pidFile}
  /\ GoTo(p, "validate")
  /\ UNCHANGED <<windows, seen, raced, stolen, misled>>

(* The rename, or the end of the last attempt to write.                     *)
WritePid(p) ==
  /\ pc[p] = "write"
  /\ \/ /\ windows => pidFile = NoPid
        /\ pidFile' = p
        /\ GoTo(p, "validate")
     \/ /\ GoTo(p, "release")              \* AtomicIOError: acquire() is False
        /\ UNCHANGED pidFile
  /\ UNCHANGED <<windows, seen, raced, stolen, misled>>

ValidateConfig(p) ==
  /\ pc[p] = "validate"
  /\ \E l \in {"running", "release"} : GoTo(p, l)
  /\ UNCHANGED <<windows, seen, pidFile, raced, stolen, misled>>

(* The main loop ends: a signal cleared `running`, or the loop failed.     *)
MainLoopEnds(p) ==
  /\ pc[p] = "running"
  /\ GoTo(p, "release")
  /\ UNCHANGED <<windows, seen, pidFile, raced, stolen, misled>>

(* Mutated: release() leaves the file where it is.                          *)
Release_KeepsFile(p) ==
  /\ pc[p] = "release"
  /\ seen' = [seen EXCEPT ![p] = NoPid]
  /\ GoTo(p, "none")
  /\ UNCHANGED <<windows, pidFile, raced, stolen, misled>>

(* Mutated: the file is emptied, not unlinked.                              *)
Release_Empties(p) ==
  /\ pc[p] = "release"
  /\ pidFile' = ""
  /\ seen' = [seen EXCEPT ![p] = NoPid]
  /\ GoTo(p, "none")
  /\ UNCHANGED <<windows, raced, stolen, misled>>

(* The finally clause of start(): unlink the file, whoever it names.        *)
Release(p) ==
  /\ pc[p] = "release"
  /\ pidFile' = NoPid
  /\ stolen' = (stolen \/ \E q \in Proc \ {p} : pidFile = q /\ Holds(q))
  /\ seen' = [seen EXCEPT ![p] = NoPid]
  /\ GoTo(p, "none")
  /\ UNCHANGED <<windows, raced, misled>>

(* An unlink that fails raises, and start() ends all the same.              *)
ReleaseFails(p) ==
  /\ pc[p] = "release" /\ pidFile # NoPid
  /\ seen' = [seen EXCEPT ![p] = NoPid]
  /\ GoTo(p, "none")
  /\ UNCHANGED <<windows, pidFile, raced, stolen, misled>>

(* SIGKILL, TerminateProcess, power: the finally clause does not run.      *)
Crash(p) ==
  /\ pc[p] \notin {"none", "foreign"}
  /\ seen' = [seen EXCEPT ![p] = NoPid]
  /\ GoTo(p, "none")
  /\ UNCHANGED <<windows, pidFile, raced, stolen, misled>>

ForeignStart(p) ==
  /\ pc[p] = "none"
  /\ GoTo(p, "foreign")
  /\ UNCHANGED <<windows, seen, pidFile, raced, stolen, misled>>

ForeignExit(p) ==
  /\ pc[p] = "foreign"
  /\ GoTo(p, "none")
  /\ UNCHANGED <<windows, seen, pidFile, raced, stolen, misled>>

StartSteps(p) ==
  \/ ReadPid(p) \/ Probe(p) \/ UnlinkPid(p) \/ WritePid(p)
  \/ ValidateConfig(p) \/ Release(p) \/ ReleaseFails(p)

Next == \E p \in Proc :
  \/ Start(p)
  \/ StartSteps(p)
  \/ MainLoopEnds(p)
  \/ Crash(p)
  \/ ForeignStart(p)
  \/ ForeignExit(p)

Spec == Init /\ [][Next]_vars

-----------------------------------------------------------------------------
TypeOK ==
  /\ windows \in BOOLEAN
  /\ pc \in [Proc -> Location]
  /\ seen \in [Proc -> Proc \cup {NoPid}]
  /\ pidFile \in Proc \cup {NoPid}
  /\ raced \in BOOLEAN
  /\ stolen \in BOOLEAN
  /\ misled \in BOOLEAN

(* Every owner has been respected so far, and no two starts overlapped.     *)
Undisturbed == ~raced /\ ~stolen /\ ~misled

(* "Prevents multiple instances of the same service from running": of       *)
(* starts that do not overlap inside acquire(), and with every file read    *)
(* and every live process found, at most one leads to a running instance.   *)
MutualExclusion ==
  (~raced /\ ~misled) =>
    \A p, q \in Proc : pc[p] = "running" /\ pc[q] = "running" => p = q

(* Mutual exclusion can be lost in three ways only: two starters overlap    *)
(* inside acquire() (check-then-write); a live owner is overlooked, because *)
(* the read of its pid or the look for its process failed; or the           *)
(* unconditional release() of a refused, failed or stopping instance        *)
(* unlinks the file of a live one.  Crashes, stale files, reused pids,      *)
(* failed writes and the gap in a write on Windows never break it.          *)
ExclusiveUnlessDisturbed ==
  Undisturbed => \A p, q \in Proc : Holds(p) /\ Holds(q) => p = q

(* While nothing disturbed it, the pid file names the instance that runs:   *)
(* what is_running() and get_running_pid() tell the outside is the truth.   *)
PidFileNamesOwner ==
  Undisturbed => \A p \in Proc : Holds(p) => pidFile = p

(* Fairness: a process that is inside start() keeps taking steps.           *)
FairSpec == Spec /\ \A p \in Proc : WF_vars(StartSteps(p))

(* From some point on no other process has one of the pids, and p neither   *)
(* crashes nor has its write, its configuration or its unlink refused;      *)
(* whoever launches the service tries again each time it ended (WF of Start *)
(* in the property).                                                        *)
Alone(p) == pc[p] # "foreign" /\ \A q \in Proc \ {p} : pc[q] = "none"
Healthy(p) ==
  /\ (pc'[p] = "none" /\ pc[p] # "none") => Release(p)
  /\ (pc'[p] = "release") => pc[p] \in {"probe", "running", "release"}

(* Whatever pid file crashes and refused starts left behind, restarting the *)
(* service alone is enough to bring it back: a stale file (even one with    *)
(* the instance's own, reused pid) does not refuse it for ever.             *)
StaleFileRecovered ==
  \A p \in Proc :
    (<>[]Alone(p) /\ WF_vars(Start(p)) /\ <>[][Healthy(p)]_vars)
      => []<>(pc[p] = "running")

-----------------------------------------------------------------------------
(* Strengthening that makes the two conditional invariants inductive: an    *)
(* undisturbed window of acquire() has one starter in it, and an instance   *)
(* that holds meanwhile is the one that starter is about to find alive.     *)
WindowInv ==
  Undisturbed =>
    \A p \in Proc : InWindow(p) =>
      \A q \in Proc \ {p} :
        /\ ~InWindow(q)
        /\ Holds(q) => (pc[p] = "probe" /\ seen[p] = q)

GuardInv == TypeOK /\ PidFileNamesOwner /\ WindowInv
=============================================================================
