---------------------------- MODULE FeederService ---------------------------
(***************************************************************************)
(* The feeder (feeder/service.py) from start() to its end: one asyncio     *)
(* thread with the connection loop and, while a connection is open, the    *)
(* health update task.  The tasks switch only where they await, and a      *)
(* signal handler (stop()) may run at any point of either.                 *)
(*                                                                         *)
(* The pid-file guard around start() is SingletonGuard, what the snapshot  *)
(* says to its reader is AresService.                                      *)
(***************************************************************************)
EXTENDS Integers

CONSTANT MaxRetries     \* max_retries of _websocket_loop

ASSUME FeederAssumption == MaxRetries \in Nat \ {0}

VARIABLES loop,         \* where _websocket_loop is, "down" without a process
          running,      \* self.running
          wsConnected,  \* self.ws_connected
          retryCount,   \* retry_count
          healthTasks,  \* health update tasks that have not ended
          healthDue,    \* one of them is about to run, they sleep otherwise
          snapshot,     \* feeder_snapshot.json: "none", with the "last" ticker
                        \* processed, or "behind" it
          failures,     \* history: errors since a connection was last opened
          opened,       \* history: connections opened since the signal,
          taken,        \*   messages taken from the stream since,
          saves         \*   snapshots written since

service == <<loop, running, wsConnected, retryCount>>
task == <<healthTasks, healthDue>>
afterSignal == <<opened, taken, saves>>
vars == <<service, task, snapshot, failures, afterSignal>>

(* The tasks await here: the event loop polls its sockets and timers.       *)
Awaiting == loop \in {"connecting", "streaming", "backoff"}
Connected == loop \in {"streaming", "message", "stored", "saved"}

(* Counted from the signal on, and no further than two.                     *)
Since(count) == IF running \/ count = 2 THEN count ELSE count + 1

(* An earlier deployment may have left a snapshot behind.                   *)
Init ==
  /\ loop = "down"
  /\ running = FALSE
  /\ wsConnected = FALSE
  /\ retryCount = 0
  /\ healthTasks = 0
  /\ healthDue = FALSE
  /\ snapshot \in {"none", "behind"}
  /\ failures = 0
  /\ opened = 0 /\ taken = 0 /\ saves = 0

-----------------------------------------------------------------------------
Start ==
  /\ loop = "down"
  /\ loop' = "connecting"
  /\ running' = TRUE
  /\ wsConnected' = FALSE
  /\ retryCount' = 0
  /\ failures' = 0
  /\ UNCHANGED <<task, snapshot, afterSignal>>

(* Mutated: the count of failed attempts is never taken back.               *)
Connects_KeepsCount ==
  /\ loop = "connecting"
  /\ loop' = "streaming"
  /\ wsConnected' = TRUE
  /\ healthTasks' = healthTasks + 1
  /\ healthDue' = TRUE
  /\ failures' = 0
  /\ opened' = Since(opened)
  /\ UNCHANGED <<running, retryCount, snapshot, taken, saves>>

(* A signal that was lost in the attempt does not keep it from succeeding.   *)
Connects ==
  /\ loop = "connecting"
  /\ loop' = "streaming"
  /\ wsConnected' = TRUE
  /\ retryCount' = 0
  /\ healthTasks' = healthTasks + 1
  /\ healthDue' = TRUE
  /\ failures' = 0
  /\ opened' = Since(opened)
  /\ UNCHANGED <<running, snapshot, taken, saves>>

(* Mutated: one attempt more than max_retries.                              *)
Retry_OnceMore(count, tasks) ==
  /\ retryCount' = count
  /\ \/ count <= MaxRetries /\ loop' = "backoff" /\ healthTasks' = tasks
     \/ count > MaxRetries /\ loop' = "down" /\ healthTasks' = 0
  /\ healthDue' = FALSE

(* After an attempt, failed or not: sleep, or leave for good, which takes    *)
(* all tasks along.  An unbroken series of errors ends the process with      *)
(* `running` still set.                                                      *)
Retry(count, tasks) ==
  /\ retryCount' = count
  /\ \/ count < MaxRetries /\ loop' = "backoff" /\ healthTasks' = tasks
     \/ count >= MaxRetries /\ loop' = "down" /\ healthTasks' = 0
  /\ healthDue' = FALSE

(* Mutated: a refused connection does not count as an error.                *)
ConnectFails_Uncounted ==
  /\ loop = "connecting"
  /\ wsConnected' = FALSE
  /\ Retry(retryCount, 0)
  /\ UNCHANGED <<running, snapshot, failures, afterSignal>>

ConnectFails ==
  /\ loop = "connecting"
  /\ wsConnected' = FALSE
  /\ failures' = failures + 1
  /\ Retry(retryCount + 1, 0)
  /\ UNCHANGED <<running, snapshot, afterSignal>>

(* The exchange closes the connection in order: the `async for` just ends,  *)
(* nothing is counted and ws_connected stays set. The finally clause cancels *)
(* the health task and awaits it.                                            *)
StreamEnds ==
  /\ loop = "streaming"
  /\ Retry(retryCount, 0)
  /\ UNCHANGED <<running, wsConnected, snapshot, failures, afterSignal>>

(* Mutated: an error leaves the task of the lost connection running.        *)
StreamBreaks_LeavesTask ==
  /\ loop = "streaming"
  /\ wsConnected' = FALSE
  /\ failures' = failures + 1
  /\ Retry(retryCount + 1, healthTasks)
  /\ UNCHANGED <<running, snapshot, afterSignal>>

StreamBreaks ==
  /\ loop = "streaming"
  /\ wsConnected' = FALSE
  /\ failures' = failures + 1
  /\ Retry(retryCount + 1, 0)
  /\ UNCHANGED <<running, snapshot, afterSignal>>

(* Mutated: a stopped feeder works on what the stream still brings.         *)
MessageArrives_Always ==
  /\ loop = "streaming"
  /\ loop' = "message"
  /\ taken' = Since(taken)
  /\ UNCHANGED <<running, wsConnected, retryCount, task, snapshot, failures, opened, saves>>

(* The `break` of a stopped feeder leaves the connection like its end does. *)
MessageArrives ==
  /\ loop = "streaming"
  /\ \/ /\ running
        /\ loop' = "message"
        /\ taken' = Since(taken)
        /\ UNCHANGED <<retryCount, task>>
     \/ /\ ~running
        /\ Retry(retryCount, 0)
        /\ UNCHANGED taken
  /\ UNCHANGED <<running, wsConnected, snapshot, failures, opened, saves>>

(* _process_ticker_data: a message that is no ticker, or does not parse, is *)
(* logged and forgotten.                                                    *)
ProcessTicker ==
  /\ loop = "message"
  /\ \/ loop' = "streaming" /\ UNCHANGED snapshot
     \/ loop' = "stored" /\ snapshot' = IF snapshot = "none" THEN "none" ELSE "behind"
  /\ UNCHANGED <<running, wsConnected, retryCount, task, failures, afterSignal>>

(* _save_snapshot: a failed write is swallowed, on Windows it may leave no  *)
(* file at all (AtomicWriter).                                              *)
SaveSnapshot ==
  /\ loop = "stored"
  /\ loop' = "saved"
  /\ snapshot' \in {"last", "none", snapshot}
  /\ saves' = Since(saves)
  /\ UNCHANGED <<running, wsConnected, retryCount, task, failures, opened, taken>>

(* The event of the ticker (EventChain), whatever append_event answers.     *)
AppendEvent ==
  /\ loop = "saved"
  /\ loop' = "streaming"
  /\ UNCHANGED <<running, wsConnected, retryCount, task, snapshot, failures, afterSignal>>

(* Mutated: a stopped feeder connects again after its wait.                 *)
BackoffEnds_Reconnects ==
  /\ loop = "backoff"
  /\ loop' = "connecting"
  /\ UNCHANGED <<running, wsConnected, retryCount, task, snapshot, failures, afterSignal>>

(* Where the loop ends, asyncio.run() cancels what is left.                  *)
BackoffEnds ==
  /\ loop = "backoff"
  /\ \/ running /\ loop' = "connecting" /\ UNCHANGED task
     \/ ~running /\ loop' = "down" /\ healthTasks' = 0 /\ healthDue' = FALSE
  /\ UNCHANGED <<running, wsConnected, retryCount, snapshot, failures, afterSignal>>

(* _health_update_loop: whatever status _update_health finds, it calls a     *)
(* method HealthManager does not have, and the error is swallowed. In a      *)
(* stopped feeder the task ends, its connection or not.                      *)
UpdateHealth ==
  /\ Awaiting /\ healthDue
  /\ healthDue' = FALSE
  /\ healthTasks' = IF running THEN healthTasks ELSE healthTasks - 1
  /\ UNCHANGED <<service, snapshot, failures, afterSignal>>

(* The task's sleep is over.                                                 *)
HeartbeatEnds ==
  /\ healthTasks > 0 /\ ~healthDue
  /\ healthDue' = TRUE
  /\ UNCHANGED <<service, healthTasks, snapshot, failures, afterSignal>>

-----------------------------------------------------------------------------
(* stop(), from the signal handler, raises that same error once its own     *)
(* assignments are made.  Where the event loop itself runs, and in the code  *)
(* of the wait between two attempts, the error leaves asyncio.run() and ends *)
(* the service.                                                              *)
StopEndsLoop ==
  /\ Awaiting
  /\ loop' = "down"
  /\ healthTasks' = 0
  /\ healthDue' = FALSE
  /\ UNCHANGED <<retryCount, snapshot, failures>>

(* In a logging handler or a callback of the event loop the error is caught  *)
(* at once, and everything goes on, a connection being opened too.           *)
StopSwallowed == UNCHANGED <<loop, retryCount, task, snapshot, failures>>

(* A write that is cut short is through, has left the old file, or none.     *)
CutShort == snapshot' \in IF loop = "stored" THEN {"last", "none", snapshot} ELSE {snapshot}

(* In the middle of a message the error is caught there; what was under way  *)
(* is not finished. _save_snapshot catches its own, and the event follows.   *)
StopInMessage ==
  /\ Connected /\ ~Awaiting
  /\ loop' \in IF loop = "stored" THEN {"streaming", "saved"} ELSE {"streaming"}
  /\ CutShort
  /\ UNCHANGED <<retryCount, task, failures>>

(* So it is in a health update.                                              *)
StopInHealthUpdate ==
  /\ Awaiting /\ healthDue
  /\ healthDue' = FALSE
  /\ UNCHANGED <<loop, retryCount, healthTasks, snapshot, failures>>

(* Elsewhere the connection loop catches it, like a connection error.        *)
StopCountsAsError ==
  /\ Connected \/ loop = "connecting"
  /\ failures' = failures + 1
  /\ Retry(retryCount + 1, 0)
  /\ UNCHANGED snapshot

(* As it does in a connection just opened, where the count may be reset and  *)
(* the health task made that no finally clause cancels yet,                  *)
StopWhileOpening ==
  /\ loop = "connecting"
  /\ \E count \in {retryCount, 0}, made \in {0, 1} :
       /\ made = 1 => count = 0
       /\ failures' = count + 1
       /\ Retry(count + 1, made)
  /\ UNCHANGED snapshot

(* and in the finally clause, before it cancels.                             *)
StopInFinally ==
  /\ Connected
  /\ failures' = failures + 1
  /\ Retry(retryCount + 1, healthTasks)
  /\ UNCHANGED snapshot

(* The first signal starts the history of what comes after it.              *)
Signalled ==
  /\ running' = FALSE
  /\ wsConnected' = FALSE
  /\ IF running THEN opened' = 0 /\ taken' = 0 /\ saves' = 0 ELSE UNCHANGED afterSignal

Stop ==
  /\ loop # "down"
  /\ Signalled
  /\ \/ StopEndsLoop \/ StopSwallowed \/ StopInMessage \/ StopInHealthUpdate
     \/ StopCountsAsError \/ StopWhileOpening \/ StopInFinally

Crash ==
  /\ loop # "down"
  /\ Signalled
  /\ loop' = "down"
  /\ healthTasks' = 0
  /\ healthDue' = FALSE
  /\ CutShort
  /\ UNCHANGED <<retryCount, failures>>

OwnSteps == ProcessTicker \/ SaveSnapshot \/ AppendEvent \/ BackoffEnds \/ UpdateHealth
Attempt == Connects \/ ConnectFails
Stream == MessageArrives \/ StreamEnds \/ StreamBreaks

Next == Start \/ OwnSteps \/ Attempt \/ Stream \/ HeartbeatEnds \/ Stop \/ Crash

Spec == Init /\ [][Next]_vars

(* A process is scheduled, and its timers fire; an attempt to connect is     *)
(* answered or times out (open_timeout of the websockets library). Nothing   *)
(* is assumed of the stream: a connection that lives may be silent for ever. *)
FairSpec == Spec /\ WF_vars(OwnSteps) /\ WF_vars(Attempt)

-----------------------------------------------------------------------------
FeederTypeOK ==
  /\ loop \in {"down", "connecting", "streaming", "message", "stored", "saved", "backoff"}
  /\ running \in BOOLEAN
  /\ wsConnected \in BOOLEAN
  /\ retryCount \in 0 .. MaxRetries
  /\ healthTasks \in Nat
  /\ healthDue \in BOOLEAN
  /\ healthDue => healthTasks > 0
  /\ snapshot \in {"none", "last", "behind"}
  /\ failures \in 0 .. MaxRetries
  /\ opened \in 0 .. 2 /\ taken \in 0 .. 2 /\ saves \in 0 .. 2

(* However connections end (in order, broken, left by a stopped feeder or   *)
(* by an error of the handler), reconnecting never leaves two health update *)
(* tasks behind; only a signal can leave the one of its connection over, and *)
(* it does not outlive the loop.                                             *)
OneHealthTask ==
  /\ healthTasks <= 1
  /\ running => (healthTasks = 1 <=> Connected)
  /\ loop = "down" => healthTasks = 0

(* The feeder gives up (ends without a signal or a crash) only after        *)
(* max_retries errors in a row, whatever the outages before the last        *)
(* connection that was opened.                                              *)
GivesUpOnlyAfterOutage == (loop = "down" /\ running) => failures = MaxRetries

(* What makes it so: in a running loop retry_count is the number of errors  *)
(* since a connection was last opened, and the series is not complete.      *)
RetryCountsErrors == loop # "down" => retryCount = failures /\ failures < MaxRetries

(* Wherever the signal meets the feeder, and be its error lost: after it the *)
(* attempt under way may still open its connection, and the message under    *)
(* way be saved; no other connection is opened and no message taken.         *)
StoppedWindsDown == ~running => opened <= 1 /\ taken = 0 /\ saves <= 1

(* A signal ends the feeder in the end, unless a connection that was open,   *)
(* or being opened, stays open and brings nothing for ever: the feeder looks *)
(* at `running` when a message comes.                                        *)
StopEnds ==
  [](~running => <>(loop = "down") \/ <>[](loop = "streaming"))

(* A feeder without a connection has one again after some attempts, or      *)
(* gives up: it neither hangs nor retries for ever without success.         *)
ReconnectsOrGivesUp == loop \in {"connecting", "backoff"} ~> (Connected \/ loop = "down")
=============================================================================
