------------------------- MODULE AtomicWriterProofs -------------------------
(***************************************************************************)
(* For any number of writers, values and retries, on either platform, the  *)
(* writer keeps the promise of AtomicFile, and a file that was written is  *)
(* missing only where a write that took it away is under way, died or told *)
(* its caller that it failed.                                              *)
(***************************************************************************)
EXTENDS AtomicWriter, TLAPS

(* The file that is about to be moved onto the target is whole, and every   *)
(* platform keeps to its branch.                                            *)
WriterInv == TypeOK /\ TempWhole /\ Branches /\ LossIsKnown

(* The inductive invariant of the writer, action by action.                 *)
LEMMA WriterInvAlways == Spec => []WriterInv
<1> USE WriterAssumption
<1>1. Init => WriterInv
  <2> SUFFICES ASSUME Init
               PROVE  WriterInv
    OBVIOUS
  <2>1. attempt \in [Writer -> 1 .. MaxRetries]
    BY DEF Init
  <2>2. TypeOK
    BY <2>1 DEF Init, TypeOK, Location
  <2> QED
    BY <2>2 DEF Init, WriterInv, TempWhole, Branches, LossIsKnown
<1>2. WriterInv /\ [Next]_vars => WriterInv'
  <2> SUFFICES ASSUME WriterInv, [Next]_vars
               PROVE  WriterInv'
    OBVIOUS
  <2> USE DEF WriterInv, TypeOK, TempWhole, Branches, LossIsKnown, Location, GoTo, history, Ends
  <2>1. ASSUME NEW w \in Writer, NEW v \in Value, Begin(w, v)
        PROVE  WriterInv'
    <3>1. TypeOK' /\ TempWhole' /\ Branches'
      BY <2>1 DEF Begin
    <3>2. LossIsKnown'
      BY <2>1 DEF Begin
    <3> QED
      BY <3>1, <3>2
  <2>2. ASSUME NEW w \in Writer, OpenTemp(w) \/ FillTemp(w)
        PROVE  WriterInv'
    <3>1. TypeOK' /\ TempWhole' /\ Branches'
      BY <2>2 DEF OpenTemp, FillTemp
    <3>2. LossIsKnown'
      BY <2>2 DEF OpenTemp, FillTemp
    <3> QED
      BY <3>1, <3>2
  <2>3. ASSUME NEW w \in Writer, TargetExists(w)
        PROVE  WriterInv'
    <3>1. TypeOK' /\ TempWhole' /\ Branches'
      BY <2>3 DEF TargetExists
    <3>2. LossIsKnown'
      BY <2>3 DEF TargetExists
    <3> QED
      BY <3>1, <3>2
  <2>8. ASSUME NEW w \in Writer, Unlink(w)
        PROVE  WriterInv'
    <3>1. TypeOK' /\ TempWhole' /\ Branches'
      BY <2>8 DEF Unlink
    <3>2. LossIsKnown'
      BY <2>8 DEF Unlink
    <3> QED
      BY <3>1, <3>2
  <2>4. ASSUME NEW w \in Writer, Rename(w) \/ Replace(w)
        PROVE  WriterInv'
    <3>1. target' = value[w] /\ value[w] \in Value
      BY <2>4 DEF Rename, Replace, Move
    <3>2. LossIsKnown'
      BY <2>4 DEF Rename, Replace, Move
    <3>3. TypeOK'
      BY <2>4, <3>1 DEF Rename, Replace, Move
    <3>4. TempWhole' /\ Branches'
      BY <2>4 DEF Rename, Replace, Move
    <3> QED
      BY <3>2, <3>3, <3>4
  <2>5. ASSUME NEW w \in Writer, AttemptFails(w)
        PROVE  WriterInv'
    <3>1. TypeOK' /\ TempWhole' /\ Branches'
      BY <2>5 DEF AttemptFails
    <3>2. LossIsKnown'
      BY <2>5 DEF AttemptFails
    <3> QED
      BY <3>1, <3>2
  <2>6. ASSUME NEW w \in Writer, Answer(w) \/ Crash(w)
        PROVE  WriterInv'
    <3>1. /\ UNCHANGED <<windows, target, temp, value, attempt, taker>>
          /\ pc' = [pc EXCEPT ![w] = "idle"] /\ fate' \in {fate, "done", "raised", "died"}
      BY <2>6 DEF Answer, Crash
    <3>2. TypeOK' /\ TempWhole' /\ Branches'
      BY <3>1
    <3>3. CASE Answer(w)
      BY <3>1, <3>3 DEF Answer
    <3>4. CASE Crash(w)
      BY <3>1, <3>4 DEF Crash
    <3> QED
      BY <2>6, <3>3, <3>4
  <2>7. CASE UNCHANGED vars
    BY <2>7 DEF vars
  <2> QED
    BY <2>1, <2>2, <2>3, <2>4, <2>5, <2>6, <2>7, <2>8 DEF Next
<1> QED
  BY <1>1, <1>2, PTL DEF Spec

(* Types, and where a writer is for each branch of the code.                *)
THEOREM WriterTypesHold == Spec => []TypeOK
<1>1. WriterInv => TypeOK
  BY DEF WriterInv
<1> QED
  BY <1>1, WriterInvAlways, PTL

(* No write that answered True leaves a target that was written missing:    *)
(* who took it away is still trying, died, or told its caller.              *)
THEOREM NoSilentLoss == Spec => []LossIsKnown
<1>1. WriterInv => LossIsKnown
  BY DEF WriterInv
<1> QED
  BY <1>1, WriterInvAlways, PTL

(* The writer implements the atomic file: opening and filling the temporary *)
(* file, and every attempt but the last, are stuttering steps; the unlink   *)
(* of the Windows branch is the vanishing the promise allows there.         *)
THEOREM WriterIsAtomic == Spec => ImplementsAtomicFile
<1> USE WriterAssumption
<1>1. Init => Promise!Init
  BY DEF Init, Promise!Init, StateOf
<1>2. WriterInv /\ [Next]_vars
        => [Promise!Next]_<<target, [w \in Writer |-> StateOf(pc[w])], value, windows>>
  <2> DEFINE state == [w \in Writer |-> StateOf(pc[w])]
             Goal == [Promise!Next]_<<target, state, value, windows>>
  <2> SUFFICES ASSUME WriterInv, [Next]_vars
               PROVE  Goal
    OBVIOUS
  <2> USE DEF WriterInv, TypeOK, GoTo, Location
  <2>1. ASSUME NEW w \in Writer, NEW v \in Value, Begin(w, v)
        PROVE  Goal
    <3>1. state[w] = "idle" /\ state' = [state EXCEPT ![w] = "pending"]
      BY <2>1 DEF Begin, StateOf
    <3> QED
      BY <2>1, <3>1 DEF Begin, Promise!Next, Promise!Begin
  <2>2. ASSUME NEW w \in Writer, OpenTemp(w) \/ FillTemp(w) \/ TargetExists(w)
        PROVE  Goal
    <3>1. state' = state
      BY <2>2 DEF OpenTemp, FillTemp, TargetExists, StateOf
    <3> QED
      BY <2>2, <3>1 DEF OpenTemp, FillTemp, TargetExists
  <2>3. ASSUME NEW w \in Writer, Unlink(w)
        PROVE  Goal
    <3>1. state[w] = "pending" /\ state' = state
      BY <2>3 DEF Unlink, StateOf
    <3>2. windows /\ target' = NoFile
      BY <2>3 DEF Unlink, Branches
    <3> QED
      BY <2>3, <3>1, <3>2 DEF Unlink, Promise!Next, Promise!Vanish
  <2>4. ASSUME NEW w \in Writer, Rename(w) \/ Replace(w)
        PROVE  Goal
    <3>1. state[w] = "pending" /\ state' = [state EXCEPT ![w] = "done"]
      BY <2>4 DEF Rename, Replace, Move, StateOf
    <3>2. target' = value[w] /\ value' = value /\ windows' = windows
      BY <2>4 DEF Rename, Replace, Move, TempWhole
    <3> QED
      BY <3>1, <3>2 DEF Promise!Next, Promise!Commit
  <2>5. ASSUME NEW w \in Writer, AttemptFails(w)
        PROVE  Goal
    <3>1. CASE attempt[w] < MaxRetries
      <4>1. state' = state
        BY <2>5, <3>1 DEF AttemptFails, StateOf
      <4> QED
        BY <2>5, <4>1 DEF AttemptFails
    <3>2. CASE ~(attempt[w] < MaxRetries)
      <4>1. state[w] = "pending" /\ state' = [state EXCEPT ![w] = "raised"]
        BY <2>5, <3>2 DEF AttemptFails, StateOf
      <4> QED
        BY <2>5, <4>1 DEF AttemptFails, Promise!Next, Promise!Fail
    <3> QED
      BY <3>1, <3>2
  <2>6. ASSUME NEW w \in Writer, Answer(w) \/ Crash(w)
        PROVE  Goal
    <3>1. state' = [state EXCEPT ![w] = "idle"]
      BY <2>6 DEF Answer, Crash, StateOf
    <3> QED
      BY <2>6, <3>1 DEF Answer, Crash, Promise!Next, Promise!Leave
  <2>7. CASE UNCHANGED vars
    BY <2>7 DEF vars
  <2> QED
    BY <2>1, <2>2, <2>3, <2>4, <2>5, <2>6, <2>7 DEF Next
<1> QED
  BY <1>1, <1>2, WriterInvAlways, PTL DEF Spec, ImplementsAtomicFile, Promise!Spec
=============================================================================
