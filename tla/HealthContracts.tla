--------------------------- MODULE HealthContracts --------------------------
(***************************************************************************)
(* shared/health_contracts.py: all components publish into one health.json,*)
(* each by reading the file, replacing its own record and writing the file *)
(* back.  ARES reads the feeder's record first and the trader that of      *)
(* ARES; what they publish says whether that gate passed.                  *)
(*                                                                         *)
(* Timestamps are ages; time passes for the records in the file and for    *)
(* those a call holds.  A record is "ok" exactly when its gate passed; to  *)
(* every gate "error" is the same as "degraded".                           *)
(***************************************************************************)
EXTENDS Integers

CONSTANTS Plain,             \* components without a gate: feeder, memory
          FeederThreshold,   \* feeder_freshness_sec
          AresThreshold,     \* ares_freshness_sec
          Old,               \* where ages stop growing
          MaxCalls           \* bound: updates in a behaviour

ASSUME ContractsAssumption ==
  /\ "feeder" \in Plain /\ "ares" \notin Plain /\ "trader" \notin Plain
  /\ FeederThreshold \in Nat /\ AresThreshold \in Nat /\ Old \in Nat
  /\ MaxCalls \in Nat
  /\ FeederThreshold + AresThreshold < Old

Component == Plain \cup {"ares", "trader"}
Age == 0 .. Old
Record == [status : {"ok", "degraded", "none"}, age : Age]
None == [status |-> "none", age |-> Old]
Empty == [c \in Component |-> None]

VARIABLES calls,       \* updates so far
          file,        \* health.json
          pc,
          record,      \* health_data of each component's call
          loaded,      \* what it read of the file
          okAge,       \* history: how long ago the feeder reported ok
          overlapped,  \* history: a call loaded while another was to save
          damaged      \* history: a read or a write of the file failed

vars == <<calls, file, pc, record, loaded, okAge, overlapped, damaged>>

Init ==
  /\ calls = 0
  /\ file = Empty
  /\ pc = [c \in Component |-> "idle"]
  /\ record = [c \in Component |-> None]
  /\ loaded = [c \in Component |-> Empty]
  /\ okAge = Old
  /\ overlapped = FALSE
  /\ damaged = FALSE

-----------------------------------------------------------------------------
Publish(c, status) ==
  /\ pc[c] = "idle" /\ calls < MaxCalls
  /\ calls' = calls + 1
  /\ record' = [record EXCEPT ![c] = [status |-> status, age |-> 0]]
  /\ pc' = [pc EXCEPT ![c] = "load"]
  /\ UNCHANGED <<file, loaded, overlapped, damaged>>

(* update_feeder_health, update_memory_health: the caller's own findings.   *)
UpdatePlain(c) ==
  /\ c \in Plain
  /\ \E status \in {"ok", "degraded"} :
       /\ Publish(c, status)
       /\ okAge' = IF c = "feeder" /\ status = "ok" THEN 0 ELSE okAge

(* _is_component_healthy                                                    *)
Passes(seen, threshold) == seen.status = "ok" /\ seen.age <= threshold

Verdict(passes) == IF passes THEN "ok" ELSE "degraded"

(* What a read of the file may answer: a file that is missing at the moment *)
(* or cannot be read is taken for one without components.                   *)
Readings == {file, Empty}

(* update_ares_health                                                       *)
UpdateAres ==
  \E data \in Readings :
    /\ Publish("ares", Verdict(Passes(data["feeder"], FeederThreshold)))
    /\ UNCHANGED okAge

(* update_trader_health, with the caller's opinion of the balance.          *)
UpdateTrader ==
  \E data \in Readings, balanceOk \in BOOLEAN :
    /\ Publish("trader", Verdict(Passes(data["ares"], AresThreshold) /\ balanceOk))
    /\ UNCHANGED okAge

(* _update_component_health, first half                                     *)
Load(c) ==
  /\ pc[c] = "load"
  /\ loaded' \in {[loaded EXCEPT ![c] = data] : data \in Readings}
  /\ pc' = [pc EXCEPT ![c] = "save"]
  /\ overlapped' = (overlapped \/ \E d \in Component : pc[d] = "save")
  /\ damaged' = (damaged \/ loaded'[c] # file)
  /\ UNCHANGED <<calls, file, record, okAge>>

Returns(c) ==
  /\ pc' = [pc EXCEPT ![c] = "idle"]
  /\ record' = [record EXCEPT ![c] = None]
  /\ loaded' = [loaded EXCEPT ![c] = Empty]
  /\ UNCHANGED <<calls, okAge>>

(* Mutated: the record is stamped when it is written.                       *)
Save_Restamps(c) ==
  /\ pc[c] = "save"
  /\ file' = [loaded[c] EXCEPT ![c] = [record[c] EXCEPT !.age = 0]]
  /\ Returns(c)
  /\ UNCHANGED <<overlapped, damaged>>

(* Mutated: a file without the other records is written.                    *)
Save_OwnOnly(c) ==
  /\ pc[c] = "save"
  /\ file' = [Empty EXCEPT ![c] = record[c]]
  /\ Returns(c)
  /\ UNCHANGED <<overlapped, damaged>>

(* _update_component_health, second half                                    *)
Save(c) ==
  /\ pc[c] = "save"
  /\ file' = [loaded[c] EXCEPT ![c] = record[c]]
  /\ Returns(c)
  /\ UNCHANGED <<overlapped, damaged>>

(* The write raised, or the process died; a write that unlinks the file     *)
(* first may have taken it away.                                            *)
CallEnds(c) ==
  /\ pc[c] # "idle"
  /\ file' \in (IF pc[c] = "save" THEN {file, Empty} ELSE {file})
  /\ damaged' = TRUE
  /\ Returns(c)
  /\ UNCHANGED overlapped

Older(age) == IF age < Old THEN age + 1 ELSE Old
OlderRecord(r) == [r EXCEPT !.age = Older(@)]
OlderFile(f) == [c \in Component |-> OlderRecord(f[c])]

Tick ==
  /\ file' = OlderFile(file)
  /\ record' = [c \in Component |-> OlderRecord(record[c])]
  /\ loaded' = [c \in Component |-> OlderFile(loaded[c])]
  /\ okAge' = Older(okAge)
  /\ UNCHANGED <<calls, pc, overlapped, damaged>>

Next ==
  \/ \E c \in Component : UpdatePlain(c) \/ Load(c) \/ Save(c) \/ CallEnds(c)
  \/ UpdateAres
  \/ UpdateTrader
  \/ Tick

Spec == Init /\ [][Next]_vars

-----------------------------------------------------------------------------
TypeOK ==
  /\ calls \in 0 .. MaxCalls
  /\ file \in [Component -> Record]
  /\ pc \in [Component -> {"idle", "load", "save"}]
  /\ record \in [Component -> Record]
  /\ loaded \in [Component -> [Component -> Record]]
  /\ okAge \in Age
  /\ overlapped \in BOOLEAN
  /\ damaged \in BOOLEAN

(* What an "ok" in a record stands for: an ok report of the feeder, at most *)
(* the thresholds on the way older than the record.                         *)
Slack(c) ==
  IF c = "feeder" THEN 0
  ELSE IF c = "ares" THEN FeederThreshold
  ELSE FeederThreshold + AresThreshold

Backed(r, c) ==
  (c \in {"feeder", "ares", "trader"} /\ r.status = "ok") => okAge <= r.age + Slack(c)

(* Updates are lost, old records come back and files disappear, but no      *)
(* record claims more than it should: an "ok" of the trader, whoever wrote  *)
(* it back last, stands for an ok report of the feeder at most the two      *)
(* thresholds older than the record's own timestamp, and likewise for ARES. *)
OkGoesBackToFeeder == \A c \in Component : Backed(file[c], c)

(* Calls that do not overlap, and that could read and write the file, leave *)
(* each other's records alone.                                              *)
SerialUpdatesKeepRecords ==
  [][\A c \in Component :
       (Save(c) /\ ~overlapped /\ ~damaged) =>
         \A d \in Component \ {c} : file'[d] = file[d]]_vars

(* The inductive invariant: the same for the records that calls hold, and   *)
(* an undisturbed call is the only one between its load and its save, with  *)
(* the file still as it read it.                                            *)
RecordsBacked ==
  \A c \in Component :
    /\ Backed(file[c], c) /\ Backed(record[c], c)
    /\ \A d \in Component : Backed(loaded[d][c], c)

LoadedIsFile ==
  (~overlapped /\ ~damaged) =>
    \A c \in Component : pc[c] = "save" =>
      loaded[c] = file /\ \A d \in Component \ {c} : pc[d] # "save"

ContractsInv == TypeOK /\ RecordsBacked /\ LoadedIsFile
=============================================================================
