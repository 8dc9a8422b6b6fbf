------------------------ MODULE SingletonGuardProofs ------------------------
(***************************************************************************)
(* For any set of pids and on either platform: the guard keeps one         *)
(* instance of the service as long as no two starters overlapped inside    *)
(* acquire(), no starter overlooked a live owner and no release() unlinked *)
(* a live instance's file.                                                 *)
(***************************************************************************)
EXTENDS SingletonGuard, TLAPS

(* No step takes a variable out of its type.                                *)
LEMMA TypeStep == TypeOK /\ [Next]_vars => TypeOK'
<1> USE GuardAssumption
<1> SUFFICES ASSUME TypeOK, [Next]_vars
             PROVE  TypeOK'
  OBVIOUS
<1>1. ASSUME NEW p \in Proc, Start(p) \/ Probe(p)
      PROVE  TypeOK'
  BY <1>1 DEF TypeOK, Location, Start, Probe, GoTo
<1>6. ASSUME NEW p \in Proc, ReadPid(p)
      PROVE  TypeOK'
  <2>1. PICK content \in {pidFile, NoPid} :
          /\ seen' = [seen EXCEPT ![p] = content]
          /\ GoTo(p, IF content = NoPid THEN "write" ELSE "probe")
          /\ misled' = (misled \/ \E q \in Proc : Holds(q) /\ pidFile = q /\ content # q)
    BY <1>6 DEF ReadPid
  <2>2. pc' \in [Proc -> Location]
    BY <2>1 DEF TypeOK, Location, GoTo
  <2>3. seen' \in [Proc -> Proc \cup {NoPid}]
    BY <2>1 DEF TypeOK
  <2>4. misled' \in BOOLEAN
    BY <2>1 DEF TypeOK
  <2>5. raced' \in BOOLEAN
    BY <1>6 DEF TypeOK, ReadPid
  <2>6. UNCHANGED <<windows, pidFile, stolen>>
    BY <1>6 DEF ReadPid
  <2> QED BY <2>2, <2>3, <2>4, <2>5, <2>6 DEF TypeOK
<1>2. ASSUME NEW p \in Proc,
             UnlinkPid(p) \/ WritePid(p) \/ ValidateConfig(p) \/ MainLoopEnds(p)
      PROVE  TypeOK'
  BY <1>2 DEF TypeOK, Location, UnlinkPid, WritePid, ValidateConfig, MainLoopEnds, GoTo
<1>3. ASSUME NEW p \in Proc, Release(p) \/ ReleaseFails(p) \/ Crash(p)
      PROVE  TypeOK'
  BY <1>3 DEF TypeOK, Location, Release, ReleaseFails, Crash, GoTo
<1>4. ASSUME NEW p \in Proc, ForeignStart(p) \/ ForeignExit(p)
      PROVE  TypeOK'
  BY <1>4 DEF TypeOK, Location, ForeignStart, ForeignExit, GoTo
<1>5. CASE UNCHANGED vars
  BY <1>5 DEF TypeOK, vars
<1> QED
  BY <1>1, <1>2, <1>3, <1>4, <1>5, <1>6 DEF Next, StartSteps

(* Every variable keeps its type, whatever the processes do.                *)
THEOREM TypeCorrect == Spec => []TypeOK
<1>1. Init => TypeOK
  BY GuardAssumption DEF Init, TypeOK, Location
<1> QED
  BY <1>1, TypeStep, PTL DEF Spec

(* The inductive step of the three conjuncts of GuardInv, action by action. *)
LEMMA GuardInvStep == GuardInv /\ [Next]_vars => GuardInv'
<1> USE GuardAssumption
<1> SUFFICES ASSUME GuardInv, [Next]_vars
             PROVE  GuardInv'
  OBVIOUS
<1> USE DEF GuardInv, PidFileNamesOwner, WindowInv, Undisturbed, Holds, InWindow,
            TypeOK, Location, GoTo
<1>1. ASSUME NEW p \in Proc, Start(p)
      PROVE  GuardInv'
  BY <1>1 DEF Start
<1>2. ASSUME NEW p \in Proc, ReadPid(p)
      PROVE  GuardInv'
  <2> HIDE DEF TypeOK
  <2>1. TypeOK'
    BY TypeStep
  <2>2. PICK content \in {pidFile, NoPid} :
          /\ seen' = [seen EXCEPT ![p] = content]
          /\ pc' = [pc EXCEPT ![p] = IF content = NoPid THEN "write" ELSE "probe"]
          /\ misled' = (misled \/ \E q \in Proc : Holds(q) /\ pidFile = q /\ content # q)
    BY <1>2 DEF ReadPid
  <2>3. Undisturbed' => Undisturbed /\ \A q \in Proc : Holds(q) /\ pidFile = q => content = q
    BY <1>2, <2>2 DEF ReadPid
  <2>4. Undisturbed' => \A q \in Proc \ {p} : ~InWindow(q)
    BY <1>2, <2>2 DEF ReadPid
  <2>5. \A q \in Proc : Holds(q)' => Holds(q) /\ q # p
    BY <1>2, <2>2 DEF ReadPid, TypeOK
  <2>6. PidFileNamesOwner'
    BY <1>2, <2>3, <2>5 DEF ReadPid
  <2>7. WindowInv'
    <3> SUFFICES ASSUME Undisturbed', NEW o \in Proc, InWindow(o)', NEW q \in Proc \ {o}
                 PROVE  ~InWindow(q)' /\ (Holds(q)' => pc'[o] = "probe" /\ seen'[o] = q)
      OBVIOUS
    <3>1. o = p
      BY <2>2, <2>4 DEF TypeOK
    <3>2. ~InWindow(q)'
      BY <2>2, <2>4, <3>1 DEF TypeOK
    <3>3. ASSUME Holds(q)' PROVE pc'[o] = "probe" /\ seen'[o] = q
      <4>1. pidFile = q /\ content = q
        BY <2>3, <2>5, <3>3
      <4> QED BY <2>2, <3>1, <4>1 DEF TypeOK
    <3> QED BY <3>2, <3>3
  <2> QED BY <2>1, <2>6, <2>7
<1>3. ASSUME NEW p \in Proc, Probe(p)
      PROVE  GuardInv'
  BY <1>3 DEF Probe, IsProcessRunning
<1>4. ASSUME NEW p \in Proc, UnlinkPid(p) \/ WritePid(p)
      PROVE  GuardInv'
  BY <1>4 DEF UnlinkPid, WritePid
<1>5. ASSUME NEW p \in Proc, ValidateConfig(p)
      PROVE  GuardInv'
  BY <1>5 DEF ValidateConfig
<1>6. ASSUME NEW p \in Proc, MainLoopEnds(p)
      PROVE  GuardInv'
  BY <1>6 DEF MainLoopEnds
<1>7. ASSUME NEW p \in Proc, Release(p)
      PROVE  GuardInv'
  <2>1. TypeOK'
    BY <1>7 DEF Release
  <2>2. Undisturbed' => Undisturbed
    BY <1>7 DEF Release
  <2>3. \A q \in Proc : (InWindow(q)' => InWindow(q)) /\ (Holds(q)' => Holds(q) /\ q # p)
    BY <1>7 DEF Release
  <2>4. Undisturbed' => \A q \in Proc : ~Holds(q)'
    (* Whoever still held would own the file just unlinked: stolen'. *)
    BY <1>7, <2>2, <2>3 DEF Release
  <2> QED BY <2>1, <2>2, <2>3, <2>4
<1>8. ASSUME NEW p \in Proc, ReleaseFails(p) \/ Crash(p)
      PROVE  GuardInv'
  BY <1>8 DEF ReleaseFails, Crash
<1>9. ASSUME NEW p \in Proc, ForeignStart(p) \/ ForeignExit(p)
      PROVE  GuardInv'
  BY <1>9 DEF ForeignStart, ForeignExit
<1>10. CASE UNCHANGED vars
  BY <1>10 DEF vars
<1> QED
  BY <1>1, <1>2, <1>3, <1>4, <1>5, <1>6, <1>7, <1>8, <1>9, <1>10 DEF Next, StartSteps

(* The invariant of the guard holds in every reachable state.               *)
LEMMA GuardInvAlways == Spec => []GuardInv
<1>1. Init => GuardInv
  BY GuardAssumption DEF Init, GuardInv, TypeOK, Location, PidFileNamesOwner,
                         WindowInv, Undisturbed, Holds, InWindow
<1> QED
  BY <1>1, GuardInvStep, PTL DEF Spec

(* An undisturbed pid file names the instance that runs.                    *)
THEOREM FileNamesOwner == Spec => []PidFileNamesOwner
<1>1. GuardInv => PidFileNamesOwner
  BY DEF GuardInv
<1> QED
  BY <1>1, GuardInvAlways, PTL

(* Undisturbed, at most one instance of the service holds the guard: two    *)
(* holders would both be named by the one pid file.                         *)
THEOREM Exclusive == Spec => []ExclusiveUnlessDisturbed
<1>1. GuardInv => ExclusiveUnlessDisturbed
  BY DEF GuardInv, PidFileNamesOwner, ExclusiveUnlessDisturbed
<1> QED
  BY <1>1, GuardInvAlways, PTL
=============================================================================
