---------------------------- MODULE AresService -----------------------------
(***************************************************************************)
(* The ARES main loop (ares/service.py): check the feeder's health file,   *)
(* generate signals from the feeder's snapshot, save them, publish its own *)
(* health.                                                                 *)
(*                                                                         *)
(* The feeder appears through the files it leaves: it saves the snapshot,  *)
(* but no health file (the call in its _update_health does not exist in    *)
(* HealthManager and the error is swallowed), so health/feeder.json comes  *)
(* from outside the services.                                              *)
(*                                                                         *)
(* Any write may fail, and the error is swallowed; on Windows it unlinks   *)
(* the file before it renames the new one, and may end in between.         *)
(***************************************************************************)
EXTENDS ServiceFiles

CONSTANT OnWindows     \* os.name == 'nt'

ASSUME AresAssumption == OnWindows \in BOOLEAN

VARIABLES aresPc,      \* where the loop is, "off" when there is no process
          running,     \* self.running
          lastSignal,  \* age of last_signal_time, Never before the first signal
          pending,     \* the signals being saved
          judgement,   \* the status being published
          stampAge,    \* age of the last_update_ts it will carry
          unsaved,     \* history: the last signals generated are not in the file
          lag,         \* history: time from judging GREEN to its stamp
          aresLag, aresUnsaved  \* history: the same of the status in health/ares.json

aresMemory == <<lastSignal, pending, judgement, stampAge, unsaved, lag>>
aresLocal == <<aresPc, running, aresMemory, aresLag, aresUnsaved>>
aresVars == <<feederFiles, aresFiles, aresLocal>>

Never == -1

AresInit ==
  /\ FilesInit
  /\ aresPc = "off"
  /\ running = FALSE
  /\ lastSignal = Never
  /\ pending = {}
  /\ judgement = "NONE" /\ stampAge = 0
  /\ unsaved = FALSE /\ lag = 0
  /\ aresLag = 0 /\ aresUnsaved = FALSE

-----------------------------------------------------------------------------
(* _process_ticker_data, _save_snapshot: the prices the feeder holds by now *)
(* (a save that failed is caught up by the next one).                       *)
FeederSaves(quotes) ==
  /\ snapshot' = quotes
  /\ UNCHANGED <<feederStatus, feederAge, aresFiles, aresLocal>>

(* A status other than GREEN is to ARES what no file is.                    *)
FeederHealthWritten ==
  /\ feederStatus' = "GREEN"
  /\ feederAge' = 0
  /\ UNCHANGED <<snapshot, aresFiles, aresLocal>>

AresStart ==
  /\ aresPc = "off"
  /\ aresPc' = "check"
  /\ running' = TRUE
  /\ UNCHANGED <<feederFiles, aresFiles, aresMemory, aresLag, aresUnsaved>>

(* A blocked iteration sleeps and changes nothing, the health file included *)
AresCheck ==
  /\ aresPc = "check" /\ running
  /\ Healthy(feederStatus, feederAge, AresThreshold)
  /\ aresPc' = "generate"
  /\ UNCHANGED <<feederFiles, aresFiles, running, aresMemory, aresLag, aresUnsaved>>

(* _analyze_and_generate_signals: a signal for each move over 1%.           *)
SignalsOf(quotes) ==
  {g \in Signal : quotes[g.symbol] =
     [move |-> IF g.side = "BUY" THEN "up" ELSE "down", price |-> g.price]}

(* Mutated: the time of the last signal is refreshed on every pass.         *)
AresGenerate_AlwaysRefreshes ==
  /\ aresPc = "generate"
  /\ lastSignal' = 0
  /\ \/ /\ SignalsOf(snapshot) # {}
        /\ aresPc' = "save"
        /\ pending' = SignalsOf(snapshot)
        /\ unsaved' = TRUE
     \/ /\ aresPc' = "health"
        /\ UNCHANGED <<pending, unsaved>>
  /\ UNCHANGED <<feederFiles, aresFiles, running, judgement, stampAge, lag,
                 aresLag, aresUnsaved>>

(* _generate_signals: the snapshot's own timestamp is not looked at.        *)
(* Without signals, and when the snapshot cannot be read, the previous file *)
(* stays.                                                                   *)
AresGenerate ==
  /\ aresPc = "generate"
  /\ \/ /\ SignalsOf(snapshot) # {}
        /\ aresPc' = "save"
        /\ lastSignal' = 0
        /\ pending' = SignalsOf(snapshot)
        /\ unsaved' = TRUE
     \/ /\ aresPc' = "health"
        /\ UNCHANGED <<lastSignal, pending, unsaved>>
  /\ UNCHANGED <<feederFiles, aresFiles, running, judgement, stampAge, lag,
                 aresLag, aresUnsaved>>

UnlinkSignals ==
  /\ OnWindows
  /\ aresPc = "save" /\ signals # {}
  /\ signals' = {} /\ signalsAge' = Old
  /\ UNCHANGED <<feederFiles, aresStatus, aresAge, aresLocal>>

(* _save_signals.  The age of the file is that of the data in it: they are  *)
(* from last_signal_time.                                                   *)
SaveSignals ==
  /\ aresPc = "save"
  /\ \/ /\ OnWindows => signals = {}
        /\ signals' = pending
        /\ signalsAge' = lastSignal
        /\ unsaved' = FALSE
     \/ UNCHANGED <<signals, signalsAge, unsaved>>
  /\ aresPc' = "health"
  /\ pending' = {}
  /\ UNCHANGED <<feederFiles, aresStatus, aresAge, running, lastSignal, judgement,
                 stampAge, lag, aresLag, aresUnsaved>>

(* Mutated: HealthManager's own vocabulary instead of the traffic light.    *)
StatusOfSignalAge_Words(age) ==
  IF age = Never THEN "degraded" ELSE IF age <= AresThreshold THEN "ok" ELSE "error"

StatusOfSignalAge(age) ==
  IF age = Never THEN "YELLOW"
  ELSE IF age <= AresThreshold THEN "GREEN"
  ELSE IF age <= 2 * AresThreshold THEN "YELLOW"
  ELSE "RED"

(* _update_health decides first ...                                         *)
JudgeHealth ==
  /\ aresPc = "health"
  /\ aresPc' = "stamp"
  /\ judgement' = StatusOfSignalAge(lastSignal)
  /\ UNCHANGED <<feederFiles, aresFiles, running, lastSignal, pending, stampAge,
                 unsaved, lag, aresLag, aresUnsaved>>

(* ... then reads the feeder's health again, and only _write_health_file    *)
(* takes the time the status will carry.                                    *)
StampHealth ==
  /\ aresPc = "stamp"
  /\ aresPc' = "write"
  /\ stampAge' = 0
  /\ UNCHANGED <<feederFiles, aresFiles, running, lastSignal, pending, judgement,
                 unsaved, lag, aresLag, aresUnsaved>>

UnlinkHealth ==
  /\ OnWindows
  /\ aresPc = "write" /\ aresStatus # "NONE"
  /\ aresStatus' = "NONE" /\ aresAge' = Old
  /\ aresLag' = 0 /\ aresUnsaved' = FALSE
  /\ UNCHANGED <<feederFiles, signals, signalsAge, aresPc, running, aresMemory>>

WriteHealth ==
  /\ aresPc = "write"
  /\ \/ /\ OnWindows => aresStatus = "NONE"
        /\ aresStatus' = judgement /\ aresAge' = stampAge
        /\ aresLag' = lag /\ aresUnsaved' = (judgement = "GREEN" /\ unsaved)
     \/ UNCHANGED <<aresStatus, aresAge, aresLag, aresUnsaved>>
  /\ aresPc' = "check"
  /\ judgement' = "NONE" /\ stampAge' = 0 /\ lag' = 0
  /\ UNCHANGED <<feederFiles, signals, signalsAge, running, lastSignal, pending,
                 unsaved>>

(* The signal handler calls stop() in the middle of whatever the loop does: *)
(* the iteration it interrupts still ends with its own health update.  Its  *)
(* write may fail, on Windows after the unlink.                             *)
AresStop ==
  /\ aresPc # "off"
  /\ running' = FALSE
  /\ \/ /\ \/ aresStatus' = "RED" /\ aresAge' = 0
           \/ OnWindows /\ aresStatus' = "NONE" /\ aresAge' = Old
        /\ aresLag' = 0 /\ aresUnsaved' = FALSE
     \/ UNCHANGED <<aresStatus, aresAge, aresLag, aresUnsaved>>
  /\ UNCHANGED <<feederFiles, signals, signalsAge, aresPc, aresMemory>>

(* The process ends, and what it remembered with it.                        *)
AresEnds ==
  /\ aresPc' = "off"
  /\ running' = FALSE
  /\ lastSignal' = Never
  /\ pending' = {}
  /\ judgement' = "NONE" /\ stampAge' = 0
  /\ unsaved' = FALSE /\ lag' = 0
  /\ UNCHANGED <<feederFiles, aresFiles, aresLag, aresUnsaved>>

AresExit ==
  /\ aresPc = "check" /\ ~running
  /\ AresEnds

AresCrash ==
  /\ aresPc # "off"
  /\ AresEnds

AresTick ==
  /\ FilesTick
  /\ lastSignal' = IF lastSignal = Never THEN Never ELSE Older(lastSignal)
  /\ lag' = IF aresPc = "stamp" /\ judgement = "GREEN" THEN Older(lag) ELSE lag
  /\ stampAge' = IF aresPc = "write" THEN Older(stampAge) ELSE stampAge
  /\ UNCHANGED <<aresPc, running, pending, judgement, unsaved, aresLag, aresUnsaved>>

AresSteps ==
  \/ AresStart \/ AresCheck \/ AresGenerate \/ UnlinkSignals \/ SaveSignals
  \/ JudgeHealth \/ StampHealth \/ UnlinkHealth \/ WriteHealth \/ AresExit

AresNext ==
  \/ AresSteps
  \/ AresStop
  \/ AresCrash
  \/ AresTick
  \/ \E quotes \in [Sym -> Quote] : FeederSaves(quotes)
  \/ FeederHealthWritten

AresSpec == AresInit /\ [][AresNext]_aresVars

-----------------------------------------------------------------------------
AresTypeOK ==
  /\ FilesTypeOK
  /\ aresPc \in {"off", "check", "generate", "save", "health", "stamp", "write"}
  /\ running \in BOOLEAN
  /\ lastSignal \in Age \cup {Never}
  /\ pending \subseteq Signal
  /\ judgement \in Status /\ stampAge \in Age
  /\ unsaved \in BOOLEAN /\ lag \in Age
  /\ aresUnsaved \in BOOLEAN /\ aresLag \in Age

(* What a reader finds beside a GREEN status are no signals (they are being *)
(* replaced, or were lost doing so) or recent ones: at most the threshold   *)
(* older than the status itself, and than the time ARES took from judging   *)
(* to stamping it, which nothing in the code bounds.  One case apart: the   *)
(* signals the status was judged on could not be saved.  Crashes, stops,    *)
(* restarts and iterations that were skipped change nothing about it.       *)
GreenMeansRecentSignals ==
  (aresStatus = "GREEN" /\ ~aresUnsaved /\ signals # {}) =>
    signalsAge <= AresThreshold + aresLag + aresAge

(* What makes GreenMeansRecentSignals inductive: the signals file is at     *)
(* most as old as the last signal the instance remembers, signals being     *)
(* saved are younger than the status of the moment, and the status being    *)
(* published is as good as a published one.                                 *)
MemoryBehindFile ==
  /\ aresPc = "save" =>
       unsaved /\ lastSignal # Never /\ (aresStatus = "GREEN" => lastSignal <= aresAge)
  /\ (lastSignal # Never /\ ~unsaved /\ signals # {}) => signalsAge <= lastSignal

JudgementBehindFile ==
  (aresPc \in {"stamp", "write"} /\ judgement = "GREEN" /\ ~unsaved /\ signals # {}) =>
    signalsAge <= AresThreshold + lag + stampAge

(* Ages that do not run yet.                                                *)
ClocksAtRest ==
  /\ aresPc \notin {"stamp", "write"} => lag = 0
  /\ aresPc # "write" => stampAge = 0

AresInv ==
  /\ AresTypeOK /\ MemoryBehindFile /\ JudgementBehindFile /\ ClocksAtRest
  /\ GreenMeansRecentSignals
=============================================================================
