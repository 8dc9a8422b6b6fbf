------------------------------- MODULE AutoHeal -------------------------------
(***************************************************************************)
(* AutoHealService and its AutoHealFSM: a loop that looks at the age of    *)
(* every service's health file, decides on a restart or a quarantine for   *)
(* those that failed, and carries the decisions out one after the other,   *)
(* while the services go on; a global breaker blocks orders with STOP.TXT. *)
(* The FSM lives in memory and starts anew with the process. A restart of  *)
(* the feeder goes through the orchestrator, which stops every service and *)
(* the healer that .runtime/auto_heal.pid names: this one, as a rule.      *)
(***************************************************************************)
EXTENDS Integers

CONSTANTS Service,
          Feeder,             \* the service that the orchestrator restarts
          MaxRestartAttempts, \* max_restart_attempts
          QuarantineTicks     \* quarantine_duration, in ticks of the clock

ASSUME HealAssumption ==
  MaxRestartAttempts \in Nat \ {0} /\ QuarantineTicks \in Nat \ {0}

VARIABLES age,      \* what the health files say: environment
          sound,    \* every file the assessment reads holds objects: environment
          trouble,  \* ten failures of the web socket are on record: environment
          life,     \* of the process; "stops" is running = False inside a cycle
          pc,       \* where _run_heal_cycle is
          state,    \* ServiceHealth.state, "unknown" before the first assessment
          failures, \* consecutive_failures
          left,     \* ticks until quarantine_until
          todo,     \* decisions to carry out
          stopFile  \* STOP.TXT exists

fsm == <<state, failures, left>>
files == <<age, sound, trouble>>
healVars == <<age, sound, trouble, life, pc, state, failures, left, todo, stopFile>>

(* No record with a time, at most one threshold old, at most two, older.     *)
Age == {"none", "fresh", "late", "dead"}
Life == {"runs", "stops", "gone", "killed"}
State == {"unknown", "healthy", "degraded", "failed", "failed unread",
          "quarantined", "recovering"}
Decision == [service : Service, action : {"restart", "quarantine"}]
               \cup {[service |-> "system", action |-> "global_break"]}

HealInit ==
  /\ age \in [Service -> Age] /\ sound \in BOOLEAN /\ trouble \in BOOLEAN
  /\ life = "runs" /\ stopFile = FALSE
  /\ pc = "assess" /\ todo = {}
  /\ state = [s \in Service |-> "unknown"]
  /\ failures = [s \in Service |-> 0]
  /\ left = [s \in Service |-> 0]

(* The memory of the process goes with it: the next one knows nothing.       *)
Memory == <<pc, state, failures, left, todo>>
Forget ==
  /\ pc' = "assess" /\ todo' = {}
  /\ state' = [s \in Service |-> "unknown"]
  /\ failures' = [s \in Service |-> 0]
  /\ left' = [s \in Service |-> 0]

Alive == life \in {"runs", "stops"}

(* _determine_service_state; a record without an age has failed as well, and *)
(* is kept apart here for what the decision makes of it.                     *)
DetermineServiceState(a) ==
  [none |-> "failed unread", fresh |-> "healthy", late |-> "degraded",
   dead |-> "failed"][a]

(* get_all_health_status reads the files of the services, the environment's  *)
(* and the integration's: a record in one of them that is no object raises,  *)
(* and the last assessment stays. A signal that comes during the assessment  *)
(* finds the process where one right after it does.                          *)
AssessHealth ==
  /\ life = "runs" /\ pc = "assess"
  /\ IF sound
     THEN state' = [s \in Service |-> DetermineServiceState(age[s])]
     ELSE UNCHANGED state
  /\ pc' = "decide"
  /\ UNCHANGED <<files, life, failures, left, todo, stopFile>>

Quarantined(s) == left[s] > 0
HasFailed(s) == state[s] \in {"failed", "failed unread"} /\ ~Quarantined(s)
MayRestart(s) == failures[s] < MaxRestartAttempts

(* The reason of a restart formats the age: without one it raises, and       *)
(* make_heal_decisions answers with no decision for any service.             *)
Raises == \E s \in Service : HasFailed(s) /\ state[s] = "failed unread" /\ MayRestart(s)

(* Mutated: a service is given up after its last attempt.                    *)
Decisions_GiveUp ==
  IF trouble THEN {[service |-> "system", action |-> "global_break"]}
  ELSE IF Raises THEN {}
  ELSE {[service |-> s, action |-> "restart"] : s \in {r \in Service : HasFailed(r) /\ MayRestart(r)}}

(* Mutated: the breaker is looked at after the services.                     *)
Decisions_BreakerLast ==
  IF Raises THEN {}
  ELSE IF \E s \in Service : HasFailed(s)
  THEN {[service |-> s, action |-> IF MayRestart(s) THEN "restart" ELSE "quarantine"]
          : s \in {r \in Service : HasFailed(r)}}
  ELSE IF trouble THEN {[service |-> "system", action |-> "global_break"]}
  ELSE {}

(* Monitoring a degraded or quarantined service changes nothing.             *)
Decisions ==
  IF trouble THEN {[service |-> "system", action |-> "global_break"]}
  ELSE IF Raises THEN {}
  ELSE {[service |-> s, action |-> IF MayRestart(s) THEN "restart" ELSE "quarantine"]
          : s \in {r \in Service : HasFailed(r)}}

MakeHealDecisions ==
  /\ Alive /\ pc = "decide"
  /\ todo' = Decisions
  /\ pc' = "execute"
  /\ UNCHANGED <<files, life, fsm, stopFile>>

(* The stop and start commands both returned 0, or one did not, or took more *)
(* than 30 seconds, or does not exist. What they do to the services, and the *)
(* feeder's to all of them, shows in their health files, at any time.        *)
RestartService(s) ==
  \/ /\ failures' = [failures EXCEPT ![s] = 0]
     /\ left' = [left EXCEPT ![s] = 0]
     /\ state' = [state EXCEPT ![s] = "recovering"]
  \/ /\ failures' = [failures EXCEPT ![s] = @ + 1]
     /\ UNCHANGED <<left, state>>

(* Mutated: a quarantine counts as a failed attempt.                         *)
QuarantineService_Counts(s) ==
  /\ left' = [left EXCEPT ![s] = QuarantineTicks]
  /\ state' = [state EXCEPT ![s] = "quarantined"]
  /\ failures' = [failures EXCEPT ![s] = @ + 1]

(* Mutated: the attempts start anew with the quarantine.                     *)
QuarantineService_Resets(s) ==
  /\ left' = [left EXCEPT ![s] = QuarantineTicks]
  /\ state' = [state EXCEPT ![s] = "quarantined"]
  /\ failures' = [failures EXCEPT ![s] = 0]

QuarantineService(s) ==
  /\ left' = [left EXCEPT ![s] = QuarantineTicks]
  /\ state' = [state EXCEPT ![s] = "quarantined"]
  /\ UNCHANGED failures

ExecuteHealAction(d) ==
  /\ Alive /\ pc = "execute" /\ d \in todo
  /\ todo' = todo \ {d}
  /\ \/ d.action = "restart" /\ RestartService(d.service) /\ UNCHANGED stopFile
     \/ d.action = "quarantine" /\ QuarantineService(d.service) /\ UNCHANGED stopFile
     \/ d.action = "global_break" /\ stopFile' = TRUE /\ UNCHANGED fsm
  /\ UNCHANGED <<files, life, pc>>

(* The orchestrator's --stop takes no name: it begins with auto_heal, which  *)
(* is blocked waiting for that very command, so that SIGTERM only clears     *)
(* running and after ten seconds it is killed; then the other services stop, *)
(* and nobody is left to say --start. Should the pid file name another       *)
(* process, or the command not run, only the outcomes above are left.        *)
StopsItself(d) ==
  /\ Alive /\ pc = "execute" /\ d \in todo
  /\ d.action = "restart" /\ d.service = Feeder
  /\ life' = "killed" /\ Forget
  /\ UNCHANGED <<files, stopFile>>

(* An error while writing STOP.TXT is logged; the breaker is active without. *)
TriggerGlobalBreakFails(d) ==
  /\ Alive /\ pc = "execute" /\ d \in todo /\ d.action = "global_break"
  /\ todo' = todo \ {d}
  /\ UNCHANGED <<files, life, pc, fsm, stopFile>>

(* Thirty seconds later.                                                     *)
CycleEnds ==
  /\ Alive /\ pc = "execute" /\ todo = {}
  /\ pc' = "assess"
  /\ UNCHANGED <<files, life, fsm, todo, stopFile>>

(* SIGTERM and SIGINT clear running; the cycle goes on to its end.           *)
Stop ==
  /\ life = "runs" /\ life' = "stops"
  /\ UNCHANGED <<files, Memory, stopFile>>

(* The loop ends after the sleep of the cycle, and _cleanup runs.            *)
Cleanup ==
  /\ life = "stops" /\ pc = "assess"
  /\ life' = "gone" /\ Forget
  /\ UNCHANGED <<files, stopFile>>

Crash == Alive /\ life' = "gone" /\ Forget /\ UNCHANGED <<files, stopFile>>

Start == ~Alive /\ life' = "runs" /\ UNCHANGED <<files, Memory, stopFile>>

Tick ==
  /\ \E s \in Service : Quarantined(s)
  /\ left' = [s \in Service |-> IF Quarantined(s) THEN left[s] - 1 ELSE 0]
  /\ UNCHANGED <<files, life, pc, state, failures, todo, stopFile>>

(* A service reports, grows older, or its file disappears or is damaged.     *)
Reports(s) ==
  /\ \E a \in Age \ {age[s]} : age' = [age EXCEPT ![s] = a]
  /\ UNCHANGED <<sound, trouble, life, Memory, stopFile>>

FilesBreak == sound' = ~sound /\ UNCHANGED <<age, trouble, life, Memory, stopFile>>

SocketChanges == trouble' = ~trouble /\ UNCHANGED <<age, sound, life, Memory, stopFile>>

(* Nothing keeps a second healer from starting beside this one: it may block *)
(* orders too, its restarts are seen in the health files, and its end of     *)
(* this process is a crash.                                                  *)
AnotherHealer == trouble /\ stopFile' = TRUE /\ UNCHANGED <<files, life, Memory>>

Loop == \/ AssessHealth \/ MakeHealDecisions \/ CycleEnds \/ Cleanup
        \/ \E d \in todo : ExecuteHealAction(d) \/ StopsItself(d) \/ TriggerGlobalBreakFails(d)

Environment ==
  \/ Stop \/ Crash \/ Start \/ Tick
  \/ FilesBreak \/ SocketChanges \/ AnotherHealer
  \/ \E s \in Service : Reports(s)

HealNext == Loop \/ Environment

(* The loop catches every exception and goes on; time passes; a disk that    *)
(* takes the file again and again takes it once.                             *)
Fairness ==
  /\ WF_healVars(Loop) /\ WF_healVars(Tick)
  /\ SF_healVars(\E d \in todo : d.action = "global_break" /\ ExecuteHealAction(d))

HealSpec == HealInit /\ [][HealNext]_healVars /\ Fairness

-----------------------------------------------------------------------------
(* Types; the count of failed attempts never exceeds MaxRestartAttempts.     *)
HealTypeOK ==
  /\ age \in [Service -> Age] /\ sound \in BOOLEAN /\ trouble \in BOOLEAN
  /\ life \in Life /\ pc \in {"assess", "decide", "execute"}
  /\ state \in [Service -> State]
  /\ failures \in [Service -> 0..MaxRestartAttempts]
  /\ left \in [Service -> 0..QuarantineTicks]
  /\ todo \subseteq Decision /\ stopFile \in BOOLEAN

(* Every service's health file has an age, and no other file is in the way.  *)
Readable == sound /\ \A s \in Service : age[s] # "none"

(* A service that stays dead is restarted or quarantined again and again, or *)
(* the healer ends itself with a restart of the feeder, as long as nobody    *)
(* else stops it, no breaker stops the healing and every file that it reads, *)
(* not only this service's, is such as its reader expects.                   *)
FailedServiceHandled ==
  \A s \in Service :
    <>[](life \in {"runs", "killed"} /\ Readable /\ ~trouble /\ age[s] = "dead")
      => []<>(Quarantined(s) \/ state[s] = "recovering" \/ life = "killed")

(* The failed attempts are not forgotten when the quarantine ends: a service *)
(* that used up its attempts is quarantined again and again, and this        *)
(* process never restarts it by name any more, although the quarantine is    *)
(* for five minutes. (The feeder's restart takes the others along.)          *)
GivenUpForGood ==
  [][Alive /\ Alive' => \A s \in Service :
       failures[s] = MaxRestartAttempts =>
         /\ failures'[s] = MaxRestartAttempts
         /\ state[s] # "recovering" => state'[s] # "recovering"]_healVars

(* While the web socket keeps failing no service is healed in the way of the *)
(* breaker: STOP.TXT, the sign that orders are blocked, is there in the end. *)
BreakerBlocksOrders == <>[](life = "runs" /\ trouble) => <>stopFile

(* What is to be done: one thing at most for a service, and a restart only   *)
(* for one that has attempts left.                                           *)
OneDecisionEach == \A d, e \in todo : d.service = e.service => d = e
RestartsAllowed == \A d \in todo : d.action = "restart" => MayRestart(d.service)

(* The inductive invariant behind the types and GivenUpForGood.              *)
HealInv == HealTypeOK /\ OneDecisionEach /\ RestartsAllowed
=============================================================================
