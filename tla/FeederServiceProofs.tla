------------------------- MODULE FeederServiceProofs ------------------------
(***************************************************************************)
(* For any number of retries: one health update task per open connection,  *)
(* no giving up before max_retries errors in a row, and no work taken up    *)
(* after a signal, wherever the signal met the feeder.                     *)
(***************************************************************************)
EXTENDS FeederService, TLAPS

(* An attempt to connect is never made while an old task is left.            *)
ConnectsAlone == loop = "connecting" => healthTasks = 0

(* What a stopped feeder may still do, from where it is: open the connection *)
(* it is waiting for, and save the message it has.                           *)
LeftToDo ==
  ~running => /\ opened <= IF loop = "connecting" THEN 0 ELSE 1
              /\ taken = 0
              /\ saves <= IF loop \in {"message", "stored"} THEN 0 ELSE 1

FeederInv ==
  /\ FeederTypeOK
  /\ ConnectsAlone
  /\ OneHealthTask
  /\ RetryCountsErrors
  /\ GivesUpOnlyAfterOutage
  /\ LeftToDo

(* What a step leaves alone, variable by variable.                          *)
LEMMA Unchanged ==
  /\ UNCHANGED task => healthTasks' = healthTasks /\ healthDue' = healthDue
  /\ UNCHANGED afterSignal => opened' = opened /\ taken' = taken /\ saves' = saves
  /\ UNCHANGED service => /\ loop' = loop
                          /\ running' = running
                          /\ wsConnected' = wsConnected
                          /\ retryCount' = retryCount
  /\ UNCHANGED vars => /\ UNCHANGED service /\ UNCHANGED task /\ UNCHANGED afterSignal
                       /\ snapshot' = snapshot /\ failures' = failures
  BY Zenon DEF task, afterSignal, service, vars

(* The feeder starts with nothing under way.                                *)
LEMMA FeederInit == Init => FeederInv
<1> SUFFICES ASSUME Init
             PROVE  FeederInv
  OBVIOUS
<1>1. FeederTypeOK
  <2>1. running \in BOOLEAN /\ wsConnected \in BOOLEAN /\ healthDue \in BOOLEAN
    BY DEF Init
  <2>2. /\ retryCount \in 0 .. MaxRetries /\ failures \in 0 .. MaxRetries
        /\ healthTasks \in Nat /\ ~healthDue
        /\ opened \in 0 .. 2 /\ taken \in 0 .. 2 /\ saves \in 0 .. 2
        /\ loop = "down" /\ snapshot \in {"none", "behind"}
    BY FeederAssumption DEF Init
  <2> QED
    BY <2>1, <2>2 DEF FeederTypeOK
<1>2. /\ ConnectsAlone /\ OneHealthTask /\ RetryCountsErrors
      /\ GivesUpOnlyAfterOutage /\ LeftToDo
  BY DEF Init, ConnectsAlone, OneHealthTask, RetryCountsErrors, GivesUpOnlyAfterOutage,
         LeftToDo, Connected
<1> QED
  BY <1>1, <1>2 DEF FeederInv

(* The three flags, whatever the step.                                      *)
LEMMA FlagsStep ==
  FeederTypeOK /\ [Next]_vars =>
    running' \in BOOLEAN /\ wsConnected' \in BOOLEAN /\ healthDue' \in BOOLEAN
<1> SUFFICES ASSUME FeederTypeOK, [Next]_vars
             PROVE  running' \in BOOLEAN /\ wsConnected' \in BOOLEAN /\ healthDue' \in BOOLEAN
  OBVIOUS
<1>0. running \in BOOLEAN /\ wsConnected \in BOOLEAN /\ healthDue \in BOOLEAN
  BY DEF FeederTypeOK
<1>1. CASE OwnSteps
  BY <1>0, <1>1, Unchanged, Zenon
     DEF OwnSteps, ProcessTicker, SaveSnapshot, AppendEvent, BackoffEnds, UpdateHealth
<1>2. CASE Attempt \/ Start
  BY <1>0, <1>2, Unchanged, Zenon DEF Attempt, Connects, ConnectFails, Retry, Start
<1>3. CASE Stream
  BY <1>0, <1>3, Unchanged, Zenon DEF Stream, MessageArrives, StreamEnds, StreamBreaks, Retry
<1>4. CASE Stop
  <2>1. running' \in BOOLEAN /\ wsConnected' \in BOOLEAN
    BY <1>4, Zenon DEF Stop, Signalled
  <2>2. healthDue' \in BOOLEAN
    BY <1>0, <1>4, Unchanged, Zenon
       DEF Stop, StopEndsLoop, StopSwallowed, StopInMessage, StopInHealthUpdate,
           StopCountsAsError, StopWhileOpening, StopInFinally, Retry
  <2> QED
    BY <2>1, <2>2
<1>5. CASE Crash \/ HeartbeatEnds
  BY <1>0, <1>5, Unchanged, Zenon DEF Crash, Signalled, HeartbeatEnds
<1>6. CASE UNCHANGED vars
  BY <1>0, <1>6, Unchanged, Zenon
<1> QED
  BY <1>1, <1>2, <1>3, <1>4, <1>5, <1>6 DEF Next

(* The retry decision keeps the counts in their ranges: the series of errors *)
(* that a running loop has seen is not complete.                             *)
LEMMA RetryKeepsCounts ==
  ASSUME NEW count, count \in 0 .. MaxRetries, NEW tasks \in {0, 1},
         Retry(count, tasks)
  PROVE  /\ retryCount' = count
         /\ loop' \in {"backoff", "down"}
         /\ loop' = "backoff" => count < MaxRetries /\ healthTasks' = tasks
         /\ loop' = "down" => count = MaxRetries /\ healthTasks' = 0
         /\ ~healthDue'
  BY FeederAssumption DEF Retry

(* A signal or a crash starts the history, or leaves it as it is.            *)
LEMMA SignalledHistory ==
  ASSUME Signalled
  PROVE  /\ ~running'
         /\ (running /\ opened' = 0 /\ taken' = 0 /\ saves' = 0)
            \/ (~running /\ opened' = opened /\ taken' = taken /\ saves' = saves)
  BY Unchanged DEF Signalled

(* What is common to the kinds of step: of the loop's two counts and of the  *)
(* tasks.  The type invariant and three more conjuncts speak of these.       *)
CountsFit ==
  /\ loop \in {"down", "connecting", "streaming", "message", "stored", "saved", "backoff"}
  /\ retryCount \in 0 .. MaxRetries
  /\ failures \in 0 .. MaxRetries
  /\ RetryCountsErrors
  /\ GivesUpOnlyAfterOutage

TasksFit ==
  /\ healthTasks \in 0 .. 1
  /\ healthDue => healthTasks > 0
  /\ ConnectsAlone
  /\ OneHealthTask

(* The counts fit after every step.                                          *)
LEMMA CountsStep == FeederInv /\ [Next]_vars => CountsFit'
<1> SUFFICES ASSUME FeederInv, [Next]_vars
             PROVE  CountsFit'
  OBVIOUS
<1>a. MaxRetries \in Nat /\ MaxRetries > 0
  BY FeederAssumption
<1>b. CountsFit /\ healthTasks \in {0, 1}
  BY DEF FeederInv, FeederTypeOK, OneHealthTask, CountsFit
<1> USE DEF CountsFit, RetryCountsErrors, GivesUpOnlyAfterOutage
<1>1. CASE OwnSteps
  BY <1>b, <1>1, Unchanged
     DEF OwnSteps, ProcessTicker, SaveSnapshot, AppendEvent, BackoffEnds, UpdateHealth
<1>2. CASE Start \/ Connects \/ HeartbeatEnds
  BY <1>a, <1>b, <1>2, Unchanged DEF Start, Connects, HeartbeatEnds
<1>3. CASE ConnectFails
  BY <1>a, <1>b, <1>3 DEF ConnectFails, Retry
<1>4. CASE StreamEnds \/ StreamBreaks
  BY <1>a, <1>b, <1>4 DEF StreamEnds, StreamBreaks, Retry
<1>5. CASE MessageArrives
  BY <1>a, <1>b, <1>5 DEF MessageArrives, Retry
<1>6. CASE Stop
  <2>0. ~running'
    BY <1>6 DEF Stop, Signalled
  <2>1. CASE StopEndsLoop \/ StopSwallowed \/ StopInHealthUpdate
    BY <1>b, <2>0, <2>1 DEF StopEndsLoop, StopSwallowed, StopInHealthUpdate
  <2>2. CASE StopInMessage
    BY <1>b, <2>0, <2>2 DEF StopInMessage, Connected
  <2>3. CASE StopCountsAsError \/ StopInFinally
    BY <1>a, <1>b, <2>0, <2>3 DEF StopCountsAsError, StopInFinally, Retry, Connected
  <2>4. CASE StopWhileOpening
    <3>1. PICK count \in {retryCount, 0}, made \in {0, 1} :
             failures' = count + 1 /\ Retry(count + 1, made)
      BY <2>4 DEF StopWhileOpening
    <3>2. count + 1 \in 0 .. MaxRetries
      BY <1>a, <1>b, <2>4 DEF StopWhileOpening
    <3> QED
      BY <1>a, <2>0, <3>1, <3>2, RetryKeepsCounts
  <2> QED
    BY <1>6, <2>1, <2>2, <2>3, <2>4 DEF Stop
<1>7. CASE Crash
  BY <1>b, <1>7 DEF Crash, Signalled
<1>8. CASE UNCHANGED vars
  BY <1>b, <1>8, Unchanged
<1> QED
  BY <1>1, <1>2, <1>3, <1>4, <1>5, <1>6, <1>7, <1>8 DEF Next, Attempt, Stream

(* And so do the tasks.                                                      *)
LEMMA TasksStep == FeederInv /\ [Next]_vars => TasksFit'
<1> SUFFICES ASSUME FeederInv, [Next]_vars
             PROVE  TasksFit'
  OBVIOUS
<1>b. TasksFit /\ healthTasks \in {0, 1} /\ MaxRetries \in Nat
  BY FeederAssumption DEF FeederInv, FeederTypeOK, OneHealthTask, TasksFit
<1> USE DEF TasksFit, ConnectsAlone, OneHealthTask, Connected
<1>1. CASE ProcessTicker \/ SaveSnapshot \/ AppendEvent
  BY <1>b, <1>1, Unchanged DEF ProcessTicker, SaveSnapshot, AppendEvent
<1>2. CASE BackoffEnds
  BY <1>b, <1>2, Unchanged DEF BackoffEnds
<1>3. CASE UpdateHealth
  BY <1>b, <1>3, Unchanged DEF UpdateHealth, Awaiting
<1>4. CASE Start \/ HeartbeatEnds
  BY <1>b, <1>4, Unchanged DEF Start, HeartbeatEnds
<1>5. CASE Connects
  BY <1>b, <1>5 DEF Connects
<1>6. CASE ConnectFails \/ StreamEnds \/ StreamBreaks
  BY <1>b, <1>6 DEF ConnectFails, StreamEnds, StreamBreaks, Retry
<1>7. CASE MessageArrives
  BY <1>b, <1>7, Unchanged DEF MessageArrives, Retry
<1>8. CASE Stop
  <2>0. ~running'
    BY <1>8 DEF Stop, Signalled
  <2>1. CASE StopEndsLoop \/ StopSwallowed
    BY <1>b, <2>0, <2>1, Unchanged DEF StopEndsLoop, StopSwallowed
  <2>2. CASE StopInHealthUpdate
    BY <1>b, <2>0, <2>2 DEF StopInHealthUpdate, Awaiting
  <2>3. CASE StopInMessage
    BY <1>b, <2>0, <2>3, Unchanged DEF StopInMessage, Awaiting
  <2>4. CASE StopCountsAsError \/ StopInFinally
    BY <1>b, <2>0, <2>4 DEF StopCountsAsError, StopInFinally, Retry
  <2>5. CASE StopWhileOpening
    <3>1. PICK count \in {retryCount, 0}, made \in {0, 1} : Retry(count + 1, made)
      BY <2>5 DEF StopWhileOpening
    <3> QED
      BY <2>0, <3>1 DEF Retry
  <2> QED
    BY <1>8, <2>1, <2>2, <2>3, <2>4, <2>5 DEF Stop
<1>9. CASE Crash
  BY <1>9 DEF Crash, Signalled
<1>10. CASE UNCHANGED vars
  BY <1>b, <1>10, Unchanged
<1> QED
  BY <1>1, <1>2, <1>3, <1>4, <1>5, <1>6, <1>7, <1>8, <1>9, <1>10
     DEF Next, OwnSteps, Attempt, Stream

(* The rest of the type invariant.                                           *)
LEMMA RestTypeStep ==
  FeederTypeOK /\ [Next]_vars => /\ snapshot' \in {"none", "last", "behind"}
                                 /\ opened' \in 0 .. 2 /\ taken' \in 0 .. 2 /\ saves' \in 0 .. 2
<1> SUFFICES ASSUME FeederTypeOK, [Next]_vars
             PROVE  /\ snapshot' \in {"none", "last", "behind"}
                    /\ opened' \in 0 .. 2 /\ taken' \in 0 .. 2 /\ saves' \in 0 .. 2
  OBVIOUS
<1>0. /\ snapshot \in {"none", "last", "behind"}
      /\ opened \in 0 .. 2 /\ taken \in 0 .. 2 /\ saves \in 0 .. 2
  BY DEF FeederTypeOK
<1>1. ASSUME NEW count \in 0 .. 2 PROVE Since(count) \in 0 .. 2
  BY DEF Since
<1>2. CASE OwnSteps
  BY <1>0, <1>1, <1>2, Unchanged
     DEF OwnSteps, ProcessTicker, SaveSnapshot, AppendEvent, BackoffEnds, UpdateHealth
<1>3. CASE Attempt \/ Start \/ HeartbeatEnds
  BY <1>0, <1>1, <1>3, Unchanged DEF Attempt, Connects, ConnectFails, Start, HeartbeatEnds
<1>4. CASE Stream
  BY <1>0, <1>1, <1>4, Unchanged DEF Stream, MessageArrives, StreamEnds, StreamBreaks
<1>5. CASE Stop
  <2>1. opened' \in 0 .. 2 /\ taken' \in 0 .. 2 /\ saves' \in 0 .. 2
    BY <1>0, <1>5, SignalledHistory DEF Stop
  <2>2. snapshot' \in {"none", "last", "behind"}
    BY <1>0, <1>5
       DEF Stop, StopEndsLoop, StopSwallowed, StopInMessage, StopInHealthUpdate,
           StopCountsAsError, StopWhileOpening, StopInFinally, CutShort
  <2> QED
    BY <2>1, <2>2
<1>6. CASE Crash
  BY <1>0, <1>6, SignalledHistory DEF Crash, CutShort
<1>7. CASE UNCHANGED vars
  BY <1>0, <1>7, Unchanged
<1> QED
  BY <1>2, <1>3, <1>4, <1>5, <1>6, <1>7 DEF Next

(* What a stopped feeder does is taken from what it had left to do.          *)
LEMMA LeftToDoStep == FeederInv /\ [Next]_vars => LeftToDo'
<1> SUFFICES ASSUME FeederInv, [Next]_vars
             PROVE  LeftToDo'
  OBVIOUS
<1>0. LeftToDo /\ opened \in 0 .. 2 /\ taken \in 0 .. 2 /\ saves \in 0 .. 2
  BY DEF FeederInv, FeederTypeOK
<1> USE DEF LeftToDo
<1>1. CASE ProcessTicker \/ SaveSnapshot \/ AppendEvent
  BY <1>0, <1>1, Unchanged DEF ProcessTicker, SaveSnapshot, AppendEvent, Since
<1>2. CASE BackoffEnds \/ UpdateHealth \/ HeartbeatEnds
  BY <1>0, <1>2, Unchanged DEF BackoffEnds, UpdateHealth, HeartbeatEnds
<1>3. CASE Connects \/ Start
  BY <1>0, <1>3 DEF Connects, Start, Since
<1>4. CASE ConnectFails
  BY <1>0, <1>4, Unchanged DEF ConnectFails, Retry
<1>5. CASE StreamEnds \/ StreamBreaks
  BY <1>0, <1>5, Unchanged DEF StreamEnds, StreamBreaks, Retry
<1>6. CASE MessageArrives
  BY <1>0, <1>6 DEF MessageArrives, Retry, Since
<1>7. CASE Stop
  <2>1. Signalled
    BY <1>7 DEF Stop
  <2>2. CASE running
    BY <2>1, <2>2, SignalledHistory
  <2>3. CASE ~running
    <3>0. ~running' /\ opened' = opened /\ taken' = taken /\ saves' = saves
      BY <2>1, <2>3, SignalledHistory
    <3>1. \/ loop' = loop
          \/ loop \notin {"message", "stored"} /\ loop' \in {"down", "backoff"}
          \/ loop' \in {"down", "streaming", "saved", "backoff"}
      BY <1>7 DEF Stop, StopEndsLoop, StopSwallowed, StopInMessage, StopInHealthUpdate,
         StopCountsAsError, StopWhileOpening, StopInFinally, Retry
    <3> QED
      BY <1>0, <2>3, <3>0, <3>1
  <2> QED
    BY <2>2, <2>3
<1>8. CASE Crash
  BY <1>0, <1>8, SignalledHistory DEF Crash
<1>9. CASE UNCHANGED vars
  BY <1>0, <1>9, Unchanged
<1> QED
  BY <1>1, <1>2, <1>3, <1>4, <1>5, <1>6, <1>7, <1>8, <1>9 DEF Next, OwnSteps, Attempt, Stream

(* Every step keeps the inductive invariant.                                 *)
LEMMA FeederStep == FeederInv /\ [Next]_vars => FeederInv'
<1> SUFFICES ASSUME FeederInv, [Next]_vars
             PROVE  FeederInv'
  OBVIOUS
<1>1. CountsFit' /\ TasksFit' /\ LeftToDo'
  BY CountsStep, TasksStep, LeftToDoStep
<1>2. FeederTypeOK'
  <2>1. running' \in BOOLEAN /\ wsConnected' \in BOOLEAN /\ healthDue' \in BOOLEAN
    BY FlagsStep DEF FeederInv
  <2>2. /\ snapshot' \in {"none", "last", "behind"}
        /\ opened' \in 0 .. 2 /\ taken' \in 0 .. 2 /\ saves' \in 0 .. 2
    BY RestTypeStep DEF FeederInv
  <2>3. healthTasks' \in Nat
    BY <1>1 DEF TasksFit
  <2> QED
    BY <1>1, <2>1, <2>2, <2>3 DEF FeederTypeOK, CountsFit, TasksFit
<1> QED
  BY <1>1, <1>2 DEF FeederInv, CountsFit, TasksFit

(* The inductive invariant holds in every reachable state.                  *)
LEMMA FeederInvariant == Spec => []FeederInv
  BY FeederInit, FeederStep, PTL DEF Spec

(* Types: in particular no counter leaves its range.                        *)
THEOREM FeederTypesHold == Spec => []FeederTypeOK
  BY FeederInvariant, PTL DEF FeederInv

(* However a connection ends, its health update task ends with it, so that  *)
(* reconnecting never leaves two of them.                                   *)
THEOREM OneTaskPerConnection == Spec => []OneHealthTask
  BY FeederInvariant, PTL DEF FeederInv

(* For any max_retries: a feeder that leaves its loop without a signal or a *)
(* crash has seen that many errors since a connection was last opened.      *)
THEOREM OutageBeforeGivingUp == Spec => []GivesUpOnlyAfterOutage
  BY FeederInvariant, PTL DEF FeederInv

(* A feeder that got its signal opens at most the connection it was waiting  *)
(* for, takes no message any more and saves at most the one it had, wherever *)
(* the signal met it and whether or not its error was lost.                  *)
THEOREM StoppedFeederWindsDown == Spec => []StoppedWindsDown
<1>1. FeederInv => StoppedWindsDown
  BY DEF FeederInv, LeftToDo, StoppedWindsDown, FeederTypeOK
<1> QED
  BY <1>1, FeederInvariant, PTL
=============================================================================
