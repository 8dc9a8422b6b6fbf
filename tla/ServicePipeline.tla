--------------------------- MODULE ServicePipeline --------------------------
(***************************************************************************)
(* ARES and the trader as two processes over the shared files: each sees   *)
(* what the other last wrote, at any point of its own loop, and time       *)
(* passes between any two steps.                                           *)
(***************************************************************************)
EXTENDS AresService, TraderService

VARIABLES gateLag, gateUnsaved  \* history: aresLag and aresUnsaved of the status
                                \* that let the trader's iteration through

gate == <<gateLag, gateUnsaved>>
traderOwn == <<traderLocal, exchange, sent, logged>>
pipelineVars == <<feederFiles, aresFiles, aresLocal, traderOwn, gate>>

PipelineInit == AresInit /\ TraderInit /\ gateLag = 0 /\ gateUnsaved = FALSE

AresMoves ==
  /\ \/ AresSteps
     \/ AresStop
     \/ AresCrash
     \/ \E quotes \in [Sym -> Quote] : FeederSaves(quotes)
     \/ FeederHealthWritten
  /\ UNCHANGED <<traderOwn, gate>>

TraderMoves ==
  /\ TraderSteps \/ TraderCrash
  /\ IF traderPc = "check" /\ traderPc' = "load"
     THEN gateLag' = aresLag /\ gateUnsaved' = aresUnsaved
     ELSE gateLag' = 0 /\ gateUnsaved' = FALSE
  /\ UNCHANGED aresLocal

(* The account and the market, which neither process waits for.             *)
OthersMove == ExchangeMoves /\ UNCHANGED <<aresLocal, gate>>

Tick == AresTick /\ TraderTick /\ UNCHANGED gate

PipelineNext == AresMoves \/ TraderMoves \/ OthersMove \/ Tick

PipelineSpec == PipelineInit /\ [][PipelineNext]_pipelineVars

-----------------------------------------------------------------------------
(* The trader checks the age of ARES' health file, never that of the        *)
(* signals.  It is enough, or nearly so: signals it loads were generated at *)
(* most the sum of the two thresholds before the check, and the time ARES   *)
(* took between judging and stamping its status, however long ARES or the   *)
(* trader was stalled, stopped or restarted in between.  Signals that could *)
(* not be saved are the one exception.                                      *)
LoadedSignalsRecent ==
  (traderPc = "load" /\ ~gateUnsaved /\ signals # {}) =>
    signalsAge <= AresThreshold + gateLag + TraderThreshold + gateAge

(* "Trader blocks until ARES is healthy": the same with failing writes and  *)
(* delays, when an older signals file can stay behind a fresh GREEN status: *)
(* ARES counts signals it could not save.                                   *)
LoadedSignalsRecentAlways ==
  (traderPc = "load" /\ signals # {}) =>
    signalsAge <= AresThreshold + TraderThreshold + gateAge

PipelineInv == AresInv /\ TraderTypeOK /\ LoadedSignalsRecent
=============================================================================
