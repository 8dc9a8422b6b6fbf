----------------------- MODULE HealthContractsProofs ------------------------
(***************************************************************************)
(* For any thresholds, any further components and any number of updates:   *)
(* an ok record of ARES or the trader goes back to an ok report of the     *)
(* feeder, and undisturbed calls leave each other's records alone.         *)
(***************************************************************************)
EXTENDS HealthContracts, TLAPS

(* The components by name, and records that are not there: nothing to back. *)
LEMMA ComponentFacts ==
  /\ "feeder" \in Component /\ "ares" \in Component /\ "trader" \in Component
  /\ None \in Record /\ Empty \in [Component -> Record]
  /\ \A c \in Component : Backed(None, c) /\ Backed(Empty[c], c)
  /\ \A c : Slack(c) \in Nat
<1> USE ContractsAssumption
<1>1. None \in Record
  BY DEF None, Record, Age
<1>2. Empty \in [Component -> Record]
  BY <1>1 DEF Empty
<1>3. \A c \in Component : Empty[c] = None
  BY DEF Empty
<1>4. None.status # "ok"
  BY DEF None
<1> QED
  BY <1>1, <1>2, <1>3, <1>4 DEF Component, Backed, Slack

(* What growing older does to an age.                                       *)
LEMMA OlderFacts ==
  /\ \A a \in Age : Older(a) \in Age
  /\ \A r \in Record : OlderRecord(r) \in Record
  /\ \A f \in [Component -> Record] : OlderFile(f) \in [Component -> Record]
<1>1. \A a \in Age : Older(a) \in Age
  BY ContractsAssumption DEF Age, Older
<1>2. \A r \in Record : OlderRecord(r) \in Record
  BY <1>1 DEF Record, OlderRecord
<1> QED
  BY <1>1, <1>2 DEF OlderFile

(* Time passes for the record and for the report it stands for alike.       *)
LEMMA BackedAges ==
  ASSUME NEW r \in Record, NEW c \in Component, okAge \in Age,
         okAge' = Older(okAge), Backed(r, c)
  PROVE  Backed(OlderRecord(r), c)'
<1>1. Slack(c) \in Nat /\ Slack(c)' = Slack(c)
  BY ComponentFacts DEF Slack
<1>2. /\ OlderRecord(r)' = OlderRecord(r)
      /\ OlderRecord(r).status = r.status
      /\ OlderRecord(r).age = Older(r.age)
      /\ r.age \in Age
  BY DEF OlderRecord, Record, Older
<1>3. okAge <= r.age + Slack(c) => Older(okAge) <= Older(r.age) + Slack(c)
  BY <1>1, <1>2, ContractsAssumption DEF Older, Age
<1> QED
  BY <1>1, <1>2, <1>3 DEF Backed

(* A record that passes the gate of c hands its backing on.                 *)
LEMMA GatePasses ==
  ASSUME okAge \in Age
  PROVE  /\ \A seen \in Record :
              Backed(seen, "feeder") /\ Passes(seen, FeederThreshold)
                => okAge <= Slack("ares")
         /\ \A seen \in Record :
              Backed(seen, "ares") /\ Passes(seen, AresThreshold)
                => okAge <= Slack("trader")
<1> QED
  BY ContractsAssumption DEF Backed, Passes, Slack, Record, Age

(* Every step keeps records backed, those held by a call included.          *)
LEMMA ContractsInvStep == ContractsInv /\ [Next]_vars => ContractsInv'
<1> SUFFICES ASSUME ContractsInv, [Next]_vars
             PROVE  ContractsInv'
  OBVIOUS
<1> USE ContractsAssumption, ComponentFacts
<1>0. TypeOK /\ RecordsBacked /\ LoadedIsFile
  BY DEF ContractsInv
<1>1. ASSUME NEW c \in Component, NEW status \in {"ok", "degraded"}, Publish(c, status),
             okAge' \in {okAge, 0},
             (status = "ok" /\ c \in {"feeder", "ares", "trader"}) => okAge' <= Slack(c)
      PROVE  ContractsInv'
  <2> DEFINE new == [status |-> status, age |-> 0]
  <2>1. new \in Record /\ okAge' \in Age
    BY <1>0, <1>1 DEF Record, Age, TypeOK
  <2>2. TypeOK'
    <3>1. calls' \in 0 .. MaxCalls
      BY <1>0, <1>1 DEF Publish, TypeOK
    <3> QED
      BY <1>0, <1>1, <2>1, <3>1 DEF Publish, TypeOK
  <2>3. ASSUME NEW r \in Record, NEW d \in Component, Backed(r, d)
        PROVE  r.status = "ok" /\ d \in {"feeder", "ares", "trader"} => okAge' <= r.age + Slack(d)
    <3>1. r.age \in Nat /\ Slack(d) \in Nat /\ okAge \in Nat
      BY <1>0 DEF Record, Age, TypeOK
    <3> QED
      BY <1>1, <2>3, <3>1 DEF Backed
  <2>4. ASSUME NEW r \in Record, NEW d \in Component, Backed(r, d)
        PROVE  r.status = "ok" /\ d \in {"feeder", "ares", "trader"} => okAge' <= r.age + Slack(d)'
    BY <2>3, <2>4 DEF Slack
  <2>5. RecordsBacked'
    <3> SUFFICES ASSUME NEW d \in Component
                 PROVE  /\ Backed(file[d], d)' /\ Backed(record[d], d)'
                        /\ \A e \in Component : Backed(loaded[e][d], d)'
      BY DEF RecordsBacked
    <3>1. Backed(file[d], d)'
      BY <1>0, <1>1, <2>4 DEF Publish, RecordsBacked, TypeOK, Backed
    <3>2. ASSUME NEW e \in Component
          PROVE  Backed(loaded[e][d], d)'
      BY <1>0, <1>1, <2>4 DEF Publish, RecordsBacked, TypeOK, Backed
    <3>3. Backed(record[d], d)'
      <4>1. CASE d = c
        <5>1. record'[d] = new
          BY <1>0, <1>1, <4>1 DEF Publish, TypeOK
        <5>2. new.status = "ok" /\ d \in {"feeder", "ares", "trader"}
                => okAge' <= new.age + Slack(d)'
          BY <1>1, <2>1, <4>1 DEF Slack, Age
        <5> QED
          BY <5>1, <5>2 DEF Backed
      <4>2. CASE d # c
        <5>1. record'[d] = record[d] /\ record[d] \in Record /\ Backed(record[d], d)
          BY <1>0, <1>1, <4>2 DEF Publish, TypeOK, RecordsBacked
        <5> QED
          BY <5>1, <2>4 DEF Backed
      <4> QED
        BY <4>1, <4>2
    <3> QED
      BY <3>1, <3>2, <3>3
  <2>6. LoadedIsFile'
    BY <1>0, <1>1 DEF Publish, LoadedIsFile, TypeOK
  <2> QED
    BY <2>2, <2>5, <2>6 DEF ContractsInv
<1>2. ASSUME NEW c \in Component, UpdatePlain(c)
      PROVE  ContractsInv'
  <2>1. PICK status \in {"ok", "degraded"} :
          /\ Publish(c, status)
          /\ okAge' = IF c = "feeder" /\ status = "ok" THEN 0 ELSE okAge
    BY <1>2 DEF UpdatePlain
  <2>2. c \notin {"ares", "trader"}
    BY <1>2 DEF UpdatePlain
  <2>3. (status = "ok" /\ c \in {"feeder", "ares", "trader"}) => okAge' <= Slack(c)
    BY <2>1, <2>2
  <2> QED
    BY <1>1, <2>1, <2>3
<1>3. ASSUME UpdateAres
      PROVE  ContractsInv'
  <2>1. PICK data \in Readings :
          /\ Publish("ares", Verdict(Passes(data["feeder"], FeederThreshold)))
          /\ okAge' = okAge
    BY <1>3 DEF UpdateAres
  <2>2. data["feeder"] \in Record /\ Backed(data["feeder"], "feeder")
    BY <1>0 DEF Readings, TypeOK, RecordsBacked
  <2>3. Passes(data["feeder"], FeederThreshold) => okAge <= Slack("ares")
    BY <1>0, <2>2, GatePasses DEF TypeOK
  <2> DEFINE status == Verdict(Passes(data["feeder"], FeederThreshold))
  <2>4. status \in {"ok", "degraded"}
        /\ (status = "ok" => Passes(data["feeder"], FeederThreshold))
    BY DEF Verdict
  <2> HIDE DEF status
  <2>5. Publish("ares", status)
    BY <2>1 DEF status
  <2> QED
    BY <1>1, <2>1, <2>3, <2>4, <2>5
<1>4. ASSUME UpdateTrader
      PROVE  ContractsInv'
  <2>1. PICK data \in Readings, balanceOk \in BOOLEAN :
          /\ Publish("trader", Verdict(Passes(data["ares"], AresThreshold) /\ balanceOk))
          /\ okAge' = okAge
    BY <1>4 DEF UpdateTrader
  <2>2. data["ares"] \in Record /\ Backed(data["ares"], "ares")
    BY <1>0 DEF Readings, TypeOK, RecordsBacked
  <2>3. Passes(data["ares"], AresThreshold) => okAge <= Slack("trader")
    BY <1>0, <2>2, GatePasses DEF TypeOK
  <2> DEFINE status == Verdict(Passes(data["ares"], AresThreshold) /\ balanceOk)
  <2>4. status \in {"ok", "degraded"}
        /\ (status = "ok" => Passes(data["ares"], AresThreshold))
    BY DEF Verdict
  <2> HIDE DEF status
  <2>5. Publish("trader", status)
    BY <2>1 DEF status
  <2> QED
    BY <1>1, <2>1, <2>3, <2>4, <2>5
<1>5. ASSUME NEW c \in Component, Load(c)
      PROVE  ContractsInv'
  <2>1. PICK data \in Readings : loaded' = [loaded EXCEPT ![c] = data]
    BY <1>5 DEF Load
  <2>2. /\ data \in [Component -> Record]
        /\ \A d \in Component : Backed(data[d], d)
    BY <1>0 DEF Readings, TypeOK, RecordsBacked
  <2>3. TypeOK'
    BY <1>0, <1>5, <2>1, <2>2 DEF Load, TypeOK
  <2>4. RecordsBacked'
    BY <1>0, <1>5, <2>1, <2>2 DEF Load, TypeOK, RecordsBacked, Backed, Slack
  <2>5. LoadedIsFile'
    BY <1>0, <1>5, <2>1 DEF Load, TypeOK, LoadedIsFile
  <2> QED
    BY <2>3, <2>4, <2>5 DEF ContractsInv
<1>6. ASSUME NEW c \in Component, Save(c)
      PROVE  ContractsInv'
  <2>1. TypeOK'
    BY <1>0, <1>6 DEF Save, Returns, TypeOK
  <2>2. RecordsBacked'
    BY <1>0, <1>6 DEF Save, Returns, TypeOK, RecordsBacked, Backed, Slack
  <2>3. LoadedIsFile'
    BY <1>0, <1>6 DEF Save, Returns, TypeOK, LoadedIsFile
  <2> QED
    BY <2>1, <2>2, <2>3 DEF ContractsInv
<1>7. ASSUME NEW c \in Component, CallEnds(c)
      PROVE  ContractsInv'
  <2>1. file' \in {file, Empty}
    BY <1>7 DEF CallEnds
  <2>2. TypeOK'
    BY <1>0, <1>7, <2>1 DEF CallEnds, Returns, TypeOK
  <2>3. RecordsBacked'
    BY <1>0, <1>7, <2>1 DEF CallEnds, Returns, TypeOK, RecordsBacked, Backed, Slack
  <2>4. LoadedIsFile'
    BY <1>7 DEF CallEnds, LoadedIsFile
  <2> QED
    BY <2>2, <2>3, <2>4 DEF ContractsInv
<1>8. ASSUME Tick
      PROVE  ContractsInv'
  <2>1. TypeOK'
    BY <1>0, <1>8, OlderFacts DEF Tick, TypeOK
  <2>2. RecordsBacked'
    <3> SUFFICES ASSUME NEW d \in Component
                 PROVE  /\ Backed(file[d], d)' /\ Backed(record[d], d)'
                        /\ \A e \in Component : Backed(loaded[e][d], d)'
      BY DEF RecordsBacked
    <3>0. okAge \in Age /\ okAge' = Older(okAge)
      BY <1>0, <1>8 DEF Tick, TypeOK
    <3>1. Backed(file[d], d)'
      <4>1. file[d] \in Record /\ Backed(file[d], d) /\ file'[d] = OlderRecord(file[d])
        BY <1>0, <1>8 DEF Tick, TypeOK, RecordsBacked, OlderFile
      <4> QED
        BY <3>0, <4>1, BackedAges DEF Backed
    <3>2. Backed(record[d], d)'
      <4>1. record[d] \in Record /\ Backed(record[d], d)
            /\ record'[d] = OlderRecord(record[d])
        BY <1>0, <1>8 DEF Tick, TypeOK, RecordsBacked
      <4> QED
        BY <3>0, <4>1, BackedAges DEF Backed
    <3>3. ASSUME NEW e \in Component
          PROVE  Backed(loaded[e][d], d)'
      <4>1. loaded[e][d] \in Record /\ Backed(loaded[e][d], d)
            /\ loaded'[e][d] = OlderRecord(loaded[e][d])
        BY <1>0, <1>8 DEF Tick, TypeOK, RecordsBacked, OlderFile
      <4> QED
        BY <3>0, <4>1, BackedAges DEF Backed
    <3> QED
      BY <3>1, <3>2, <3>3
  <2>3. LoadedIsFile'
    BY <1>0, <1>8 DEF Tick, TypeOK, LoadedIsFile
  <2> QED
    BY <2>1, <2>2, <2>3 DEF ContractsInv
<1>9. CASE UNCHANGED vars
  <2>1. TypeOK' /\ LoadedIsFile'
    BY <1>0, <1>9 DEF vars, TypeOK, LoadedIsFile
  <2>2. RecordsBacked'
    BY <1>0, <1>9 DEF vars, RecordsBacked, Backed, Slack
  <2> QED
    BY <2>1, <2>2 DEF ContractsInv
<1> QED
  BY <1>2, <1>3, <1>4, <1>5, <1>6, <1>7, <1>8, <1>9 DEF Next

(* So they are backed in every reachable state.                             *)
LEMMA ContractsInvAlways == Spec => []ContractsInv
<1>1. Init => ContractsInv
  <2> SUFFICES ASSUME Init
               PROVE  ContractsInv
    OBVIOUS
  <2>1. TypeOK
    <3>1. calls \in 0 .. MaxCalls /\ okAge \in Age
      BY ContractsAssumption DEF Init, Age
    <3> QED
      BY <3>1, ComponentFacts DEF Init, TypeOK
  <2>2. RecordsBacked
    BY ComponentFacts DEF Init, RecordsBacked
  <2>3. LoadedIsFile
    BY DEF Init, LoadedIsFile
  <2> QED
    BY <2>1, <2>2, <2>3 DEF ContractsInv
<1> QED
  BY <1>1, ContractsInvStep, PTL DEF Spec

(* An "ok" of the trader in the file, however many updates were lost or     *)
(* undone, stands for an ok report of the feeder at most the two thresholds *)
(* older than its timestamp; one of ARES, at most the feeder's threshold.   *)
THEOREM OkBacked == Spec => []OkGoesBackToFeeder
<1>1. ContractsInv => OkGoesBackToFeeder
  BY DEF ContractsInv, RecordsBacked, OkGoesBackToFeeder
<1> QED
  BY <1>1, ContractsInvAlways, PTL

(* Calls that do not overlap and find the file readable and writable change *)
(* no record but their own.                                                 *)
THEOREM SerialUpdatesSafe == Spec => SerialUpdatesKeepRecords
<1>1. ContractsInv /\ [Next]_vars =>
        [\A c \in Component :
           (Save(c) /\ ~overlapped /\ ~damaged) =>
             \A d \in Component \ {c} : file'[d] = file[d]]_vars
  BY DEF ContractsInv, LoadedIsFile, TypeOK, Save
<1> QED
  BY <1>1, ContractsInvAlways, PTL DEF Spec, SerialUpdatesKeepRecords
=============================================================================
