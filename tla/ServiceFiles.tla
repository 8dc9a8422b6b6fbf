---------------------------- MODULE ServiceFiles ----------------------------
(***************************************************************************)
(* The files the feeder, ARES and the trader talk through.  Timestamps are *)
(* kept as ages: Tick makes every age grow, up to Old, and a file that is  *)
(* written has age 0.  A file that does not exist has age Old and a        *)
(* content no reader acts on ("NONE", "absent", {}); so has one that was    *)
(* unlinked, as a write on Windows does before its rename.  The timestamp  *)
(* of the snapshot is left out: no service reads it.                       *)
(***************************************************************************)
EXTENDS Integers

CONSTANTS Sym,              \* traded symbols
          Price,            \* the prices a symbol may have
          AresThreshold,    \* ARES_FRESHNESS_THRESHOLD
          TraderThreshold,  \* TRADER_FRESHNESS_THRESHOLD
          Old               \* where ages stop growing

ASSUME FilesAssumption ==
  /\ Price \subseteq Nat \ {0} /\ Price # {}
  /\ AresThreshold \in Nat
  /\ TraderThreshold \in Nat
  /\ Old \in Nat
  /\ 2 * AresThreshold < Old
  /\ AresThreshold + TraderThreshold < Old

VARIABLES feederStatus, feederAge,  \* health/feeder.json
          snapshot,                 \* databus/feeder_snapshot.json
          signals, signalsAge,      \* ares_signals.json
          aresStatus, aresAge       \* health/ares.json

feederFiles == <<feederStatus, feederAge, snapshot>>
aresFiles == <<signals, signalsAge, aresStatus, aresAge>>

Status == {"GREEN", "YELLOW", "RED", "NONE"}
Side == {"BUY", "SELL"}
NoMove == [move |-> "flat", price |-> 0]       \* a change under 1%, or no data
Quote == [move : {"up", "down"}, price : Price] \cup {NoMove}
Signal == [symbol : Sym, side : Side, price : Price]
Age == 0 .. Old

FilesInit ==
  /\ feederStatus = "NONE"
  /\ feederAge = Old
  /\ snapshot = [s \in Sym |-> NoMove]
  /\ signals = {}
  /\ signalsAge = Old
  /\ aresStatus = "NONE"
  /\ aresAge = Old

Older(a) == IF a < Old THEN a + 1 ELSE a

FilesTick ==
  /\ feederAge' = Older(feederAge)
  /\ signalsAge' = Older(signalsAge)
  /\ aresAge' = Older(aresAge)
  /\ UNCHANGED <<feederStatus, snapshot, signals, aresStatus>>

(* Mutated: the age of the status is not looked at.                         *)
Healthy_AnyAge(status, age, threshold) == status = "GREEN"

(* _check_feeder_health and _check_ares_health: a GREEN status that is      *)
(* fresh (is_fresh: age <= threshold).                                      *)
Healthy(status, age, threshold) == status = "GREEN" /\ age <= threshold

FilesTypeOK ==
  /\ feederStatus \in Status
  /\ feederAge \in Age
  /\ snapshot \in [Sym -> Quote]
  /\ signals \subseteq Signal
  /\ signalsAge \in Age
  /\ aresStatus \in Status
  /\ aresAge \in Age
=============================================================================
