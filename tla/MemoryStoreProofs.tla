-------------------------- MODULE MemoryStoreProofs --------------------------
(***************************************************************************)
(* For any processes, types, clocks and number of calls: the journal names *)
(* no snapshot that was never there, and a snapshot that was promised is   *)
(* kept, or gives way to another one of its type and second only.          *)
(***************************************************************************)
EXTENDS MemoryStore, WellFoundedInduction, TLAPS

Snapshot == [do : {"snapshot"}, type : Type, stamp : Nat, number : Nat]
Scan == [do : {"latest"}, type : Type, temps : SUBSET Snapshot]
Edit == [do : {"quarantine", "release"}, symbol : Symbol]

(* A call of create_snapshot under way.                                      *)
Creating(p) == pc[p] \in {"file", "delta"}

JobsInv ==
  /\ pc \in [Process -> {"idle", "file", "delta", "scan", "read", "write"}]
  /\ job \in [Process -> Snapshot \cup Scan \cup Edit \cup {NoJob}]
  /\ now \in Nat /\ calls \in Nat
  /\ stamped \subseteq Snapshot /\ leftover \subseteq stamped
  /\ \A s \in stamped : s.number < calls /\ s.stamp <= now
  /\ \A p \in Process : Creating(p) => job[p] \in stamped
  /\ \A p, q \in Process : Creating(p) /\ Creating(q) /\ job[p] = job[q] => p = q

(* What has not been written is neither in the directory nor promised.       *)
FilesInv ==
  /\ \A i \in DOMAIN directory : directory[i] \in stamped /\ SnapshotId(directory[i]) = i
  /\ created \subseteq stamped /\ deltas \subseteq stamped
  /\ \A p \in Process : pc[p] = "file" =>
       job[p] \notin created \cup deltas /\ \A i \in DOMAIN directory : directory[i] # job[p]

(* Taken, and neither promised nor in the journal nor written and about to   *)
(* be: such a snapshot has not been written, or its call failed.             *)
Unpromised(r) ==
  /\ r \in stamped \ (created \cup deltas)
  /\ \A p \in Process : pc[p] = "delta" => job[p] # r

(* The file of s is there, or was taken away for a snapshot of its id.       *)
Named(s) ==
  \/ SnapshotId(s) \in DOMAIN directory
  \/ windows /\ \E r \in stamped : SnapshotId(r) = SnapshotId(s) /\ Unpromised(r)

Kept(s) ==
  \/ SnapshotId(s) \in DOMAIN directory /\ directory[SnapshotId(s)] = s
  \/ \E r \in stamped \ {s} : SnapshotId(r) = SnapshotId(s)

(* The promises hold for the deltas and snapshots there are, and for the     *)
(* calls that are about to append their delta.                               *)
PromisesInv ==
  /\ \A d \in deltas : Named(d)
  /\ \A s \in created : Named(s) /\ Kept(s)
  /\ \A p \in Process : pc[p] = "delta" => Named(job[p]) /\ Kept(job[p])

StoreInv == JobsInv /\ FilesInv /\ PromisesInv

(* What no call of the validator and no tick of the clock touches.           *)
store == <<windows, directory, deltas, stamped, created>>

(* A step of the clock, or of one process outside of create_snapshot that    *)
(* stays outside, or ends it without a promise.                              *)
LEMMA QuietStep ==
  ASSUME StoreInv, UNCHANGED store, leftover' \subseteq stamped, now' \in Nat, now <= now',
         calls' \in Nat, calls <= calls',
         pc' \in [Process -> {"idle", "file", "delta", "scan", "read", "write"}],
         job' \in [Process -> Snapshot \cup Scan \cup Edit \cup {NoJob}],
         \A p \in Process : pc'[p] \in {"file", "delta"} => pc'[p] = pc[p] /\ job'[p] = job[p]
  PROVE  StoreInv'
<1> USE DEF StoreInv, store
<1>1. JobsInv'
  BY DEF JobsInv, Creating, Snapshot
<1>2. FilesInv'
  BY DEF FilesInv
<1>3. PromisesInv'
  <2>1. \A r : (Named(r) => Named(r)') /\ (Kept(r) => Kept(r)')
    BY DEF Named, Kept, Unpromised
  <2> QED
    BY <2>1 DEF PromisesInv
<1> QED
  BY <1>1, <1>2, <1>3

(* A new call makes a snapshot nobody has made before.                      *)
LEMMA CreateSnapshotStep ==
  ASSUME StoreInv, NEW p \in Process, NEW t \in Type, CreateSnapshot(p, t)
  PROVE  StoreInv'
<1> USE DEF StoreInv
<1> DEFINE s == [do |-> "snapshot", type |-> t, stamp |-> now, number |-> calls]
<1>1. /\ pc[p] = "idle" /\ calls' = calls + 1 /\ stamped' = stamped \cup {s}
      /\ job' = [job EXCEPT ![p] = s] /\ pc' = [pc EXCEPT ![p] = "file"]
      /\ UNCHANGED <<windows, now, directory, leftover, deltas, created>>
  BY DEF CreateSnapshot, Begin
<1>2. s \in Snapshot /\ s.number = calls /\ s.stamp = now
  BY DEF JobsInv, Snapshot
<1>3. s \notin stamped
  BY <1>2 DEF JobsInv
<1> HIDE DEF s
<1>4. JobsInv'
  BY <1>1, <1>2, <1>3 DEF JobsInv, Creating, Snapshot
<1>5. FilesInv'
  <2>1. s \notin created \cup deltas /\ \A i \in DOMAIN directory : directory[i] # s
    BY <1>3 DEF FilesInv
  <2> QED
    BY <1>1, <2>1 DEF FilesInv, JobsInv
<1>6. \A r : (Named(r) => Named(r)') /\ (Kept(r) => Kept(r)')
  BY <1>1 DEF Named, Kept, Unpromised, JobsInv
<1>7. PromisesInv'
  BY <1>1, <1>6 DEF PromisesInv, JobsInv
<1> QED
  BY <1>4, <1>5, <1>7

(* What is about to be written is neither promised nor in the journal.      *)
LEMMA WritingIsUnpromised ==
  ASSUME StoreInv, NEW p \in Process, pc[p] = "file"
  PROVE  Unpromised(job[p])
BY DEF StoreInv, JobsInv, FilesInv, Unpromised, Creating

(* A file is unlinked for another snapshot of its second.                   *)
LEMMA UnlinkSnapshotStep ==
  ASSUME StoreInv, NEW p \in Process, UnlinkSnapshot(p)
  PROVE  StoreInv'
<1> USE DEF StoreInv
<1> DEFINE id == SnapshotId(job[p])
<1>1. /\ pc[p] = "file" /\ windows /\ id \in DOMAIN directory
      /\ UNCHANGED <<windows, now, pc, job, calls, leftover, stamped, deltas, created>>
      /\ directory' = Without(id)
  BY DEF UnlinkSnapshot
<1>2. /\ DOMAIN directory' = DOMAIN directory \ {id}
      /\ \A i \in DOMAIN directory \ {id} : directory'[i] = directory[i]
  BY <1>1 DEF Without
<1>3. job[p] \in stamped /\ Unpromised(job[p])
  BY <1>1, WritingIsUnpromised DEF Unpromised
<1>4. JobsInv'
  BY <1>1 DEF JobsInv, Creating
<1>5. FilesInv'
  BY <1>1, <1>2 DEF FilesInv
<1>6. \A r : Unpromised(r)' <=> Unpromised(r)
  BY <1>1 DEF Unpromised
<1>7. ASSUME NEW r, Named(r)
      PROVE  Named(r)'
  <2>1. CASE SnapshotId(r) = id
    BY <1>1, <1>3, <1>6, <2>1 DEF Named
  <2>2. CASE SnapshotId(r) # id
    BY <1>1, <1>2, <1>6, <1>7, <2>2 DEF Named
  <2> QED
    BY <2>1, <2>2
<1>8. ASSUME NEW r, Kept(r), r # job[p]
      PROVE  Kept(r)'
  <2>1. CASE SnapshotId(r) = id
    BY <1>1, <1>3, <1>8, <2>1 DEF Kept
  <2>2. CASE SnapshotId(r) # id
    BY <1>1, <1>2, <1>8, <2>2 DEF Kept
  <2> QED
    BY <2>1, <2>2
<1>9. PromisesInv'
  <2>1. job[p] \notin created /\ \A q \in Process : pc[q] = "delta" => job[q] # job[p]
    BY <1>3 DEF Unpromised
  <2> QED
    BY <1>1, <1>7, <1>8, <2>1 DEF PromisesInv
<1> QED
  BY <1>4, <1>5, <1>9

(* A file that is replaced gives way to another snapshot of its second.     *)
LEMMA WriteSnapshotStep ==
  ASSUME StoreInv, NEW p \in Process, WriteSnapshot(p)
  PROVE  StoreInv'
<1> USE DEF StoreInv
<1> DEFINE id == SnapshotId(job[p])
<1>1. /\ pc[p] = "file" /\ pc' = [pc EXCEPT ![p] = "delta"]
      /\ UNCHANGED <<windows, now, job, calls, leftover, stamped, deltas, created>>
      /\ directory' = With(id, job[p])
  BY DEF WriteSnapshot
<1>2. /\ DOMAIN directory' = DOMAIN directory \cup {id}
      /\ directory'[id] = job[p]
      /\ \A i \in DOMAIN directory \ {id} : directory'[i] = directory[i]
  BY <1>1 DEF With
<1>3. job[p] \in stamped /\ Creating(p)
  BY <1>1 DEF JobsInv, Creating
<1>4. JobsInv'
  BY <1>1 DEF JobsInv, Creating
<1>5. FilesInv'
  <2>1. \A i \in DOMAIN directory' : directory'[i] \in stamped /\ SnapshotId(directory'[i]) = i
    BY <1>2, <1>3 DEF FilesInv
  <2>2. \A q \in Process : pc'[q] = "file" => pc[q] = "file" /\ job[q] # job[p]
    BY <1>1, <1>3 DEF JobsInv, Creating
  <2> QED
    BY <1>1, <1>2, <2>1, <2>2 DEF FilesInv
<1>6. ASSUME NEW r, Named(r)
      PROVE  Named(r)'
  <2>1. CASE SnapshotId(r) \in DOMAIN directory \cup {id}
    BY <1>2, <2>1 DEF Named
  <2>2. CASE SnapshotId(r) \notin DOMAIN directory \cup {id}
    <3>1. PICK u \in stamped : windows /\ SnapshotId(u) = SnapshotId(r) /\ Unpromised(u)
      BY <1>6, <2>2 DEF Named
    <3>2. u # job[p]
      BY <2>2, <3>1
    <3>3. Unpromised(u)'
      BY <1>1, <3>1, <3>2 DEF Unpromised, JobsInv
    <3> QED
      BY <1>1, <3>1, <3>3 DEF Named
  <2> QED
    BY <2>1, <2>2
<1>7. \A r : Kept(r) => Kept(r)'
  <2> SUFFICES ASSUME NEW r, Kept(r)
               PROVE  Kept(r)'
    OBVIOUS
  <2>1. CASE SnapshotId(r) = id /\ r # job[p]
    BY <1>1, <1>3, <2>1 DEF Kept
  <2>2. CASE r = job[p]
    BY <1>1, <1>2, <2>2 DEF Kept
  <2>3. CASE SnapshotId(r) # id
    BY <1>1, <1>2, <2>3 DEF Kept
  <2> QED
    BY <2>1, <2>2, <2>3
<1>8. Named(job[p])' /\ Kept(job[p])'
  BY <1>1, <1>2 DEF Named, Kept
<1>9. PromisesInv'
  BY <1>1, <1>6, <1>7, <1>8 DEF PromisesInv, JobsInv
<1> QED
  BY <1>4, <1>5, <1>9

(* A snapshot that fails promises nothing.                                  *)
LEMMA WriteSnapshotFailsStep ==
  ASSUME StoreInv, NEW p \in Process, WriteSnapshotFails(p)
  PROVE  StoreInv'
<1> USE DEF StoreInv
<1>1. /\ pc[p] = "file" /\ pc' = [pc EXCEPT ![p] = "idle"]
      /\ job' = [job EXCEPT ![p] = NoJob]
      /\ UNCHANGED <<windows, now, calls, directory, stamped, deltas, created>>
      /\ leftover' \subseteq leftover \cup {job[p]}
  BY DEF WriteSnapshotFails, Answer
<1>2. leftover' \subseteq stamped
  BY <1>1 DEF JobsInv, Creating
<1> QED
  BY <1>1, <1>2, QuietStep DEF JobsInv, store

(* What is recorded and promised here was in its file before.               *)
LEMMA AppendDeltaStep ==
  ASSUME StoreInv, NEW p \in Process, AppendDelta(p) \/ AppendDeltaFails(p)
  PROVE  StoreInv'
<1> USE DEF StoreInv
<1>1. /\ pc[p] = "delta" /\ pc' = [pc EXCEPT ![p] = "idle"]
      /\ job' = [job EXCEPT ![p] = NoJob]
      /\ UNCHANGED <<windows, now, calls, stamped, directory, leftover>>
      /\ deltas' \subseteq deltas \cup {job[p]} /\ created' \subseteq created \cup {job[p]}
  BY DEF AppendDelta, AppendDeltaFails, Answer
<1>2. job[p] \in stamped /\ Named(job[p]) /\ Kept(job[p])
  BY <1>1 DEF JobsInv, Creating, PromisesInv
<1>3. JobsInv'
  BY <1>1 DEF JobsInv, Creating
<1>4. FilesInv'
  <2>1. \A q \in Process : pc[q] = "file" => job[q] # job[p]
    BY <1>1 DEF JobsInv, Creating
  <2> QED
    BY <1>1, <1>2, <2>1 DEF FilesInv, JobsInv
<1>5. \A r : (Named(r) => Named(r)') /\ (Kept(r) => Kept(r)')
  <2>1. ASSUME NEW u, Unpromised(u)
        PROVE  Unpromised(u)'
    BY <1>1, <2>1 DEF Unpromised, JobsInv
  <2> QED
    BY <1>1, <2>1 DEF Named, Kept
<1>6. PromisesInv'
  BY <1>1, <1>2, <1>5 DEF PromisesInv, JobsInv
<1> QED
  BY <1>3, <1>4, <1>6

(* Neither reading the snapshots nor the validator touches the files.       *)
LEMMA OtherStep ==
  ASSUME StoreInv, NEW p \in Process,
         \/ \E t \in Type : GetLatest(p, t)
         \/ \E i \in unread[p] : ReadSnapshot(p, i) \/ SkipSnapshot(p, i)
         \/ ReadTemp(p) \/ AnswerLatest(p)
         \/ \E s \in Symbol : QuarantineSymbol(p, s) \/ ReleaseQuarantine(p, s)
         \/ ReadQuarantine(p) \/ UnlinkQuarantine(p) \/ WriteQuarantine(p)
         \/ WriteQuarantineFails(p)
  PROVE  StoreInv'
<1> USE DEF StoreInv
<1>1. UNCHANGED store /\ leftover' = leftover /\ now' = now
  BY DEF GetLatest, ReadSnapshot, SkipSnapshot, ReadTemp, AnswerLatest, QuarantineSymbol,
     ReleaseQuarantine, ReadQuarantine, UnlinkQuarantine, WriteQuarantine,
     WriteQuarantineFails, Begin, Answer, store, snapshots
<1>2. CASE \/ \E t \in Type : GetLatest(p, t)
           \/ \E s \in Symbol : QuarantineSymbol(p, s) \/ ReleaseQuarantine(p, s)
  <2>1. \E c \in Scan \cup Edit : job' = [job EXCEPT ![p] = c]
    <3>1. Temps \subseteq Snapshot
      BY DEF Temps, JobsInv, Creating
    <3>2. ASSUME NEW t \in Type, GetLatest(p, t)
          PROVE  \E c \in Scan : job' = [job EXCEPT ![p] = c]
      BY <3>1, <3>2 DEF GetLatest, Begin, Scan
    <3>3. ASSUME NEW s \in Symbol, QuarantineSymbol(p, s) \/ ReleaseQuarantine(p, s)
          PROVE  \E c \in Edit : job' = [job EXCEPT ![p] = c]
      BY <3>3 DEF QuarantineSymbol, ReleaseQuarantine, Begin, Edit
    <3> QED
      BY <1>2, <3>2, <3>3
  <2>2. /\ calls' = calls + 1
        /\ \E first \in {"scan", "read"} : pc' = [pc EXCEPT ![p] = first]
    BY <1>2 DEF GetLatest, QuarantineSymbol, ReleaseQuarantine, Begin
  <2> QED
    BY <1>1, <2>1, <2>2, QuietStep DEF JobsInv
<1>3. CASE \/ \E i \in unread[p] : ReadSnapshot(p, i) \/ SkipSnapshot(p, i)
           \/ ReadTemp(p) \/ AnswerLatest(p)
           \/ ReadQuarantine(p) \/ UnlinkQuarantine(p) \/ WriteQuarantine(p)
           \/ WriteQuarantineFails(p)
  <2>1. /\ calls' = calls
        /\ \/ pc' = pc /\ job' = job
           \/ pc' = [pc EXCEPT ![p] = "write"] /\ job' = job
           \/ pc' = [pc EXCEPT ![p] = "idle"] /\ job' = [job EXCEPT ![p] = NoJob]
    BY <1>3 DEF ReadSnapshot, SkipSnapshot, ReadTemp, AnswerLatest, ReadQuarantine,
       UnlinkQuarantine, WriteQuarantine, WriteQuarantineFails, Answer
  <2> QED
    BY <1>1, <2>1, QuietStep DEF JobsInv
<1> QED
  BY <1>2, <1>3

(* The invariant of the store holds in every reachable state.               *)
THEOREM StoreInvariant == Spec => []StoreInv
<1>1. Init => StoreInv
  BY DEF Init, StoreInv, JobsInv, FilesInv, PromisesInv, Creating
<1>2. StoreInv /\ [Next]_vars => StoreInv'
  <2> SUFFICES ASSUME StoreInv, [Next]_vars
               PROVE  StoreInv'
    OBVIOUS
  <2>1. CASE Tick
    BY <2>1, QuietStep DEF Tick, StoreInv, JobsInv, store, snapshots
  <2>2. ASSUME NEW p \in Process, Step(p)
        PROVE  StoreInv'
    <3>1. CASE \E t \in Type : CreateSnapshot(p, t)
      BY <3>1, CreateSnapshotStep
    <3>2. CASE WriteSnapshot(p)
      BY <3>2, WriteSnapshotStep
    <3>3. CASE WriteSnapshotFails(p)
      BY <3>3, WriteSnapshotFailsStep
    <3>4. CASE AppendDelta(p) \/ AppendDeltaFails(p)
      BY <3>4, AppendDeltaStep
    <3>5. CASE UnlinkSnapshot(p)
      BY <3>5, UnlinkSnapshotStep
    <3>6. CASE \/ \E t \in Type : GetLatest(p, t)
               \/ \E i \in unread[p] : ReadSnapshot(p, i) \/ SkipSnapshot(p, i)
               \/ ReadTemp(p) \/ AnswerLatest(p)
               \/ \E s \in Symbol : QuarantineSymbol(p, s) \/ ReleaseQuarantine(p, s)
               \/ ReadQuarantine(p) \/ UnlinkQuarantine(p) \/ WriteQuarantine(p)
               \/ WriteQuarantineFails(p)
      BY <3>6, OtherStep
    <3> QED
      BY <2>2, <3>1, <3>2, <3>3, <3>4, <3>5, <3>6 DEF Step
  <2>3. CASE UNCHANGED vars
    BY <2>3, QuietStep DEF vars, StoreInv, JobsInv, store, snapshots
  <2> QED
    BY <2>1, <2>2, <2>3 DEF Next
<1> QED
  BY <1>1, <1>2, PTL DEF Spec

(* A line of the journal names a snapshot that is in its file, unless, on    *)
(* Windows, one of its id that was not promised took the file away.          *)
THEOREM DeltasAreNames == Spec => []DeltasNameSnapshots
<1>1. StoreInv => DeltasNameSnapshots
  BY DEF StoreInv, PromisesInv, Named, Unpromised, DeltasNameSnapshots
<1> QED
  BY <1>1, StoreInvariant, PTL

(* A snapshot create_snapshot answered True for stays in its file, unless    *)
(* another snapshot of its type was taken within the same second.            *)
THEOREM PromisedIsKept == Spec => []CreatedKept
<1>1. StoreInv => CreatedKept
  BY DEF StoreInv, PromisesInv, Kept, CreatedKept
<1> QED
  BY <1>1, StoreInvariant, PTL

(* The least of a set of naturals, and the greatest of one below n.          *)
LEMMA NatMin ==
  ASSUME NEW T \in SUBSET Nat, T # {}
  PROVE  \E x \in T : \A y \in T : x <= y
<1>1. PICK x \in T : \A y \in T : ~ (<<y, x>> \in OpToRel(<, Nat))
  BY WFMin, NatLessThanWellFounded, Zenon
<1>2. ASSUME NEW y \in T
      PROVE  ~(y < x)
  <2>1. y \in Nat /\ x \in Nat
    OBVIOUS
  <2> QED
    BY <1>1, <2>1, Zenon DEF OpToRel
<1>3. \A y \in T : x <= y
  BY <1>2
<1> QED
  BY <1>3

(* The greatest of a set of naturals below n.                               *)
LEMMA NatMax ==
  ASSUME NEW n \in Nat, NEW T \in SUBSET Nat, T # {}, \A x \in T : x <= n
  PROVE  \E x \in T : \A y \in T : y <= x
<1> DEFINE Gaps == {n - x : x \in T}
<1>1. Gaps \in SUBSET Nat /\ Gaps # {}
  <2>1. \A x \in T : n - x \in Nat
    OBVIOUS
  <2>2. Gaps \subseteq Nat
    BY <2>1
  <2>3. Gaps # {}
    OBVIOUS
  <2> QED
    BY <2>2, <2>3
<1>2. PICK g \in Gaps : \A h \in Gaps : g <= h
  <2> HIDE DEF Gaps
  <2> QED
    BY <1>1, NatMin
<1>3. PICK x \in T : g = n - x
  BY <1>2
<1>4. \A y \in T : n - y \in Gaps
  OBVIOUS
<1>5. \A y \in T : n - x <= n - y
  BY <1>2, <1>3, <1>4
<1> QED
  BY <1>5

(* A later stamp is not of an earlier second.                                *)
LEMMA SecondsMonotone ==
  ASSUME NEW a \in Nat, NEW b \in Nat, a <= b
  PROVE  a \div TicksPerSecond <= b \div TicksPerSecond
<1> USE StoreAssumption
<1> QED
  OBVIOUS

Second(s) == s.stamp \div TicksPerSecond

(* What a call of get_latest_snapshot must take into account is still to be  *)
(* read, or it has read a snapshot of that second or of a later one.         *)
ScanInv(p) ==
  /\ job[p] \in Scan
  /\ held[p] \subseteq stamped
  /\ \A s \in owed[p] :
       /\ s \in created /\ s.type = job[p].type
       /\ SnapshotId(s) \in unread[p] \/ \E r \in held[p] : Second(s) <= Second(r)

ScansInv ==
  /\ DOMAIN held = Process /\ DOMAIN unread = Process /\ DOMAIN owed = Process
  /\ \A p \in Process : pc[p] \notin {"scan", "write"} => held[p] = {}
  /\ \A p \in Process : pc[p] = "scan" => ScanInv(p)

(* The steps of others, and those of the clock, leave a scan as it is.       *)
LEMMA ScanQuiet ==
  ASSUME NEW p \in Process, ScanInv(p),
         stamped \subseteq stamped', created \subseteq created',
         job'[p] = job[p], held'[p] = held[p], owed'[p] = owed[p], unread'[p] = unread[p]
  PROVE  ScanInv(p)'
BY DEF ScanInv, SnapshotId, Second

(* A step of p concerns no other scan.                                      *)
Beside(p) ==
  /\ \A q \in Process \ {p} :
       /\ pc'[q] = pc[q] /\ job'[q] = job[q] /\ held'[q] = held[q]
       /\ owed'[q] = owed[q] /\ unread'[q] = unread[q]
  /\ DOMAIN held' = Process /\ DOMAIN unread' = Process /\ DOMAIN owed' = Process
  /\ stamped \subseteq stamped' /\ created \subseteq created'

LEMMA ScansOf ==
  ASSUME ScansInv, NEW p \in Process, Beside(p),
         pc'[p] \notin {"scan", "write"} => held'[p] = {},
         pc'[p] = "scan" => ScanInv(p)'
  PROVE  ScansInv'
<1> USE DEF Beside
<1>1. \A q \in Process : pc'[q] = "scan" => ScanInv(q)'
  <2> SUFFICES ASSUME NEW q \in Process, q # p, pc[q] = "scan"
               PROVE  ScanInv(q)'
    OBVIOUS
  <2>1. ScanInv(q)
    BY DEF ScansInv
  <2> QED
    BY <2>1, ScanQuiet
<1>2. \A q \in Process : pc'[q] \notin {"scan", "write"} => held'[q] = {}
  BY DEF ScansInv
<1> QED
  BY <1>1, <1>2 DEF ScansInv

(* What a scan reads is of the second its name says.                        *)
LEMMA ReadSnapshotScan ==
  ASSUME StoreInv, ScansInv, NEW p \in Process, NEW i \in unread[p], ReadSnapshot(p, i)
  PROVE  ScansInv'
<1> USE DEF StoreInv
<1> DEFINE d == directory[i]
           seen == IF d.type = job[p].type THEN held[p] \cup {d} ELSE held[p]
<1>1. /\ pc[p] = "scan" /\ i \in DOMAIN directory
      /\ UNCHANGED <<pc, job, owed, stamped, created>>
      /\ held' = [held EXCEPT ![p] = seen]
      /\ unread' = [unread EXCEPT ![p] = unread[p] \ {i}]
  BY DEF ReadSnapshot, snapshots
<1>2. d \in stamped /\ SnapshotId(d) = i
  BY <1>1 DEF FilesInv
<1> HIDE DEF d
<1>3. ScanInv(p)
  BY <1>1 DEF ScansInv
<1>4. held'[p] = seen /\ unread'[p] = unread[p] \ {i} /\ owed'[p] = owed[p]
  BY <1>1 DEF ScansInv
<1>5. ASSUME NEW s \in owed[p]
      PROVE  \/ SnapshotId(s) \in unread'[p]
             \/ \E r \in held'[p] : Second(s) <= Second(r)
  <2>1. CASE SnapshotId(s) \in unread[p] \ {i}
    BY <1>4, <2>1
  <2>2. CASE SnapshotId(s) = i
    <3>1. d.type = s.type /\ Second(d) = Second(s)
      BY <1>2, <2>2 DEF SnapshotId, Second
    <3>2. d \in held'[p]
      BY <1>3, <1>4, <1>5, <3>1 DEF ScanInv
    <3>3. Second(s) \in Int
      BY <1>3, <1>5, StoreAssumption DEF ScanInv, FilesInv, JobsInv, Snapshot, Second
    <3> QED
      BY <3>1, <3>2, <3>3
  <2>3. CASE \E r \in held[p] : Second(s) <= Second(r)
    BY <1>4, <2>3
  <2> QED
    BY <1>3, <1>5, <2>1, <2>2, <2>3 DEF ScanInv
<1>6. ScanInv(p)'
  <2>1. job'[p] \in Scan /\ held'[p] \subseteq stamped'
    BY <1>1, <1>2, <1>3, <1>4 DEF ScanInv
  <2>2. \A s \in owed'[p] : s \in created' /\ s.type = job'[p].type
    BY <1>1, <1>3, <1>4 DEF ScanInv
  <2>3. \A s \in owed'[p] : \/ SnapshotId(s)' \in unread'[p]
                            \/ \E r \in held'[p] : Second(s) <= Second(r)
    BY <1>4, <1>5 DEF SnapshotId
  <2> QED
    BY <2>1, <2>2, <2>3 DEF ScanInv, SnapshotId, Second
<1>7. Beside(p) /\ pc'[p] = "scan"
  BY <1>1 DEF Beside, ScansInv
<1> QED
  BY <1>6, <1>7, ScansOf

(* A scan begins with everything it owes unread.                            *)
LEMMA GetLatestScan ==
  ASSUME StoreInv, ScansInv, NEW p \in Process, NEW t \in Type, GetLatest(p, t)
  PROVE  ScansInv'
<1> USE DEF StoreInv, JobsInv
<1>1. PICK temps \in SUBSET {s \in Temps : s.type = t} :
        Begin(p, [do |-> "latest", type |-> t, temps |-> temps], "scan")
  BY DEF GetLatest
<1> DEFINE call == [do |-> "latest", type |-> t, temps |-> temps]
<1>2. Temps \subseteq Snapshot
  BY DEF Temps, Creating
<1>3. call \in Scan
  BY <1>1, <1>2 DEF Scan
<1>4. pc[p] = "idle" /\ pc'[p] = "scan" /\ job'[p] = call /\ held'[p] = held[p]
  BY <1>1 DEF Begin
<1>5. /\ unread'[p] = DOMAIN directory /\ stamped' = stamped /\ created' = created
      /\ owed'[p] = {s \in created : s.type = t /\ SnapshotId(s) \in DOMAIN directory}
  BY DEF GetLatest, snapshots, ScansInv
<1>6. ScanInv(p)'
  <2>1. job'[p] \in Scan /\ job'[p].type = t
    BY <1>3, <1>4
  <2>2. held'[p] \subseteq stamped'
    BY <1>4 DEF ScansInv
  <2> HIDE DEF call
  <2>3. \A s \in owed'[p] : s \in created' /\ s.type = t /\ SnapshotId(s) \in unread'[p]
    BY <1>5
  <2> QED
    BY <2>1, <2>2, <2>3 DEF ScanInv, SnapshotId
<1>7. Beside(p)
  BY <1>1 DEF Beside, ScansInv, Begin, GetLatest, snapshots
<1> QED
  BY <1>4, <1>6, <1>7, ScansOf

(* A file that is skipped is not owed any more, and another reading only     *)
(* adds to what was found.                                                   *)
LEMMA GoOnScan ==
  ASSUME StoreInv, ScansInv, NEW p \in Process,
         ReadTemp(p) \/ \E i \in unread[p] : SkipSnapshot(p, i)
  PROVE  ScansInv'
<1> USE DEF StoreInv
<1>0. ScanInv(p) /\ pc'[p] = "scan" /\ UNCHANGED <<job, stamped, created>> /\ Beside(p)
  BY DEF ScansInv, ReadTemp, SkipSnapshot, Beside, snapshots, scans
<1>1. CASE ReadTemp(p)
  <2>1. PICK s \in Temps : held' = [held EXCEPT ![p] = @ \cup {s}]
    BY <1>1 DEF ReadTemp
  <2>2. s \in stamped
    BY DEF Temps, JobsInv, Creating
  <2>3. /\ held'[p] = held[p] \cup {s} /\ unread'[p] = unread[p] /\ owed'[p] = owed[p]
    BY <1>1, <2>1 DEF ReadTemp, scans, ScansInv
  <2>4. ScanInv(p)'
    BY <1>0, <2>2, <2>3 DEF ScanInv, SnapshotId, Second
  <2> QED
    BY <1>0, <2>4, ScansOf
<1>2. ASSUME NEW i \in unread[p], SkipSnapshot(p, i)
      PROVE  ScansInv'
  <2>1. /\ held'[p] = held[p] /\ unread'[p] = unread[p] \ {i}
        /\ owed'[p] = {s \in owed[p] : SnapshotId(s) # i}
    BY <1>2 DEF SkipSnapshot, ScansInv
  <2>2. ScanInv(p)'
    BY <1>0, <2>1 DEF ScanInv, SnapshotId, Second
  <2> QED
    BY <1>0, <2>2, ScansOf
<1> QED
  BY <1>1, <1>2

(* Every step keeps that.                                                   *)
LEMMA ScansStep == StoreInv /\ ScansInv /\ [Next]_vars => ScansInv'
<1> SUFFICES ASSUME StoreInv, ScansInv, [Next]_vars
             PROVE  ScansInv'
  OBVIOUS
<1> USE DEF StoreInv, JobsInv
<1>1. CASE Tick \/ UNCHANGED vars
  <2>1. /\ UNCHANGED <<pc, job, held, unread, owed, stamped, created>>
    BY <1>1 DEF Tick, vars, snapshots, scans
  <2>2. \A p \in Process : ScanInv(p) => ScanInv(p)'
    BY <2>1, ScanQuiet
  <2> QED
    BY <2>1, <2>2 DEF ScansInv
<1>2. ASSUME NEW p \in Process, Step(p)
      PROVE  ScansInv'
  <2>1. CASE \E t \in Type : GetLatest(p, t)
    BY <2>1, GetLatestScan
  <2>2. CASE \E i \in unread[p] : ReadSnapshot(p, i)
    BY <2>2, ReadSnapshotScan
  <2>3. CASE ReadTemp(p) \/ \E i \in unread[p] : SkipSnapshot(p, i)
    BY <2>3, GoOnScan
  <2>4. CASE \/ \E t \in Type : CreateSnapshot(p, t)
             \/ \E s \in Symbol : QuarantineSymbol(p, s) \/ ReleaseQuarantine(p, s)
    <3>1. Beside(p) /\ pc'[p] \in {"file", "read"} /\ held'[p] = {}
      BY <2>4 DEF CreateSnapshot, QuarantineSymbol, ReleaseQuarantine, Begin, Beside,
         ScansInv, snapshots, scans
    <3> QED
      BY <3>1, ScansOf
  <2>5. CASE \/ WriteSnapshotFails(p) \/ AppendDelta(p) \/ AppendDeltaFails(p) \/ AnswerLatest(p)
             \/ WriteQuarantine(p) \/ WriteQuarantineFails(p)
    <3>1. Answer(p) /\ stamped \subseteq stamped' /\ created \subseteq created'
      BY <2>5 DEF WriteSnapshotFails, AppendDelta, AppendDeltaFails, AnswerLatest,
         WriteQuarantine, WriteQuarantineFails, snapshots
    <3>2. \/ UNCHANGED scans
          \/ UNCHANGED unread /\ owed' = [owed EXCEPT ![p] = {}]
      BY <2>5 DEF WriteSnapshotFails, AppendDelta, AppendDeltaFails, AnswerLatest,
         WriteQuarantine, WriteQuarantineFails
    <3>3. Beside(p) /\ pc'[p] = "idle" /\ held'[p] = {}
      BY <3>1, <3>2 DEF Answer, Beside, ScansInv, scans
    <3> QED
      BY <3>3, ScansOf
  <2>6. CASE UnlinkSnapshot(p) \/ WriteSnapshot(p) \/ UnlinkQuarantine(p)
    <3>1. /\ Beside(p) /\ held'[p] = held[p]
          /\ \/ pc[p] = "file" /\ pc'[p] \in {"file", "delta"}
             \/ pc[p] = "write" /\ pc'[p] = "write"
      BY <2>6 DEF UnlinkSnapshot, WriteSnapshot, UnlinkQuarantine, Beside, ScansInv,
         snapshots, scans
    <3>2. pc'[p] \notin {"scan", "write"} => held'[p] = {}
      BY <3>1 DEF ScansInv
    <3> QED
      BY <3>1, <3>2, ScansOf
  <2>7. CASE ReadQuarantine(p)
    <3>1. UNCHANGED <<unread, owed, stamped, created>>
      BY <2>7 DEF ReadQuarantine, snapshots, scans
    <3>2. \/ Answer(p)
          \/ /\ pc' = [pc EXCEPT ![p] = "write"] /\ job' = job
             /\ \E seen : held' = [held EXCEPT ![p] = seen]
      BY <2>7 DEF ReadQuarantine
    <3>3. Beside(p) /\ (pc'[p] = "write" \/ (pc'[p] = "idle" /\ held'[p] = {}))
      BY <3>1, <3>2 DEF Answer, Beside, ScansInv
    <3> QED
      BY <3>3, ScansOf
  <2> QED
    BY <1>2, <2>1, <2>2, <2>3, <2>4, <2>5, <2>6, <2>7 DEF Step
<1> QED
  BY <1>1, <1>2 DEF Next

(* What get_latest_snapshot answers is from the second of the newest promised *)
(* snapshot it could read, or from a later one.                              *)
THEOREM LatestIsRecent == Spec => []LatestWithinASecond
<1>1. Init => ScansInv
  BY DEF Init, ScansInv
<1>2. StoreInv /\ ScansInv => LatestWithinASecond
  <2> SUFFICES ASSUME StoreInv, ScansInv, NEW p \in Process, pc[p] = "scan", unread[p] = {},
                      NEW s \in owed[p]
               PROVE  \E l \in held[p] : IsLatest(l, held[p]) /\ Second(s) <= Second(l)
    BY DEF LatestWithinASecond, Second
  <2> USE DEF StoreInv
  <2> DEFINE Stamps == {d.stamp : d \in held[p]}
  <2>1. ScanInv(p)
    BY DEF ScansInv
  <2>2. PICK r \in held[p] : Second(s) <= Second(r)
    BY <2>1 DEF ScanInv
  <2>3. \A d \in held[p] : d.stamp \in Nat /\ d.stamp <= now
    BY <2>1 DEF ScanInv, JobsInv, Snapshot
  <2>4. s.stamp \in Nat
    BY <2>1 DEF ScanInv, FilesInv, JobsInv, Snapshot
  <2>5. PICK m \in Stamps : \A x \in Stamps : x <= m
    <3>1. Stamps \in SUBSET Nat /\ Stamps # {} /\ \A x \in Stamps : x <= now
      BY <2>2, <2>3
    <3> HIDE DEF Stamps
    <3> QED
      BY <3>1, NatMax DEF JobsInv
  <2>6. PICK l \in held[p] : l.stamp = m
    BY <2>5
  <2>7. \A d \in held[p] : d.stamp <= l.stamp
    BY <2>5, <2>6
  <2>8. Second(r) <= Second(l)
    BY <2>2, <2>3, <2>7, SecondsMonotone DEF Second
  <2>9. Second(s) \in Int /\ Second(r) \in Int /\ Second(l) \in Int
    BY <2>2, <2>3, <2>4, StoreAssumption DEF Second
  <2>10. Second(s) <= Second(l)
    BY <2>2, <2>8, <2>9
  <2> QED
    BY <2>7, <2>10 DEF IsLatest
<1> QED
  BY <1>1, <1>2, ScansStep, StoreInvariant, PTL DEF Spec

-----------------------------------------------------------------------------
(* Only the edits of the quarantine file read it or are about to write it;   *)
(* and what such an edit rests on is what the file says, if the read was     *)
(* good, nobody has overtaken it and it has not unlinked the file itself.    *)
EditsInv == \A p \in Process : pc[p] \in {"read", "write"} => job[p] \in Edit
RestsOnFile(p) ==
  /\ pc[p] = "write" /\ basis[p] = "file" => quarantine = NoFile \/ held[p] = quarantine
  /\ pc[p] = "write" => held[p] \subseteq Symbol
BasisInv ==
  /\ basis \in [Process -> {"file", "failed", "overtaken"}]
  /\ quarantine = NoFile \/ quarantine \subseteq Symbol
  /\ \A p \in Process : RestsOnFile(p)

(* Every step keeps the first.                                              *)
LEMMA EditsInvStep == JobsInv /\ EditsInv /\ [Next]_vars => EditsInv'
<1> SUFFICES ASSUME JobsInv, EditsInv, [Next]_vars
             PROVE  EditsInv'
  OBVIOUS
<1> USE DEF JobsInv, EditsInv
<1>1. ASSUME NEW p \in Process, NEW s \in Symbol,
             QuarantineSymbol(p, s) \/ ReleaseQuarantine(p, s)
      PROVE  EditsInv'
  <2>1. \E e \in Edit : job' = [job EXCEPT ![p] = e]
    BY <1>1 DEF QuarantineSymbol, ReleaseQuarantine, Begin, Edit
  <2> QED
    BY <1>1, <2>1 DEF QuarantineSymbol, ReleaseQuarantine, Begin
<1>2. ASSUME NEW p \in Process, NEW t \in Type, CreateSnapshot(p, t) \/ GetLatest(p, t)
      PROVE  EditsInv'
  BY <1>2 DEF CreateSnapshot, GetLatest, Begin
<1>3. ASSUME NEW p \in Process,
             \/ UnlinkSnapshot(p) \/ WriteSnapshot(p) \/ WriteSnapshotFails(p)
             \/ AppendDelta(p) \/ AppendDeltaFails(p)
             \/ \E i \in unread[p] : ReadSnapshot(p, i) \/ SkipSnapshot(p, i)
             \/ ReadTemp(p) \/ AnswerLatest(p)
             \/ ReadQuarantine(p) \/ UnlinkQuarantine(p) \/ WriteQuarantine(p)
             \/ WriteQuarantineFails(p)
      PROVE  EditsInv'
  <2>1. \/ pc' = [pc EXCEPT ![p] = "idle"] /\ job' = [job EXCEPT ![p] = NoJob]
        \/ pc[p] = "file" /\ pc' = [pc EXCEPT ![p] = "delta"] /\ job' = job
        \/ pc[p] = "read" /\ pc' = [pc EXCEPT ![p] = "write"] /\ job' = job
        \/ pc' = pc /\ job' = job
    BY <1>3 DEF UnlinkSnapshot, WriteSnapshot, WriteSnapshotFails, AppendDelta, AppendDeltaFails,
       ReadSnapshot, SkipSnapshot, ReadTemp, AnswerLatest, ReadQuarantine, UnlinkQuarantine,
       WriteQuarantine, WriteQuarantineFails, Answer
  <2> QED
    BY <2>1
<1>4. CASE Tick \/ UNCHANGED vars
  BY <1>4 DEF Tick, vars
<1> QED
  BY <1>1, <1>2, <1>3, <1>4 DEF Next, Step

(* A step of p that does not touch the quarantine file: others' edits rest   *)
(* on what they rested on.                                                   *)
LEMMA BasisQuiet ==
  ASSUME StoreInv, ScansInv, BasisInv, NEW p \in Process, UNCHANGED edits,
         \A q \in Process \ {p} : pc'[q] = pc[q] /\ held'[q] = held[q],
         pc'[p] # "write"
  PROVE  BasisInv'
BY DEF BasisInv, RestsOnFile, edits

(* Nor do steps of the clock and of the snapshots.                          *)
LEMMA BasisSame ==
  ASSUME BasisInv, UNCHANGED edits,
         \A q \in Process : pc'[q] = "write" => pc[q] = "write" /\ held'[q] = held[q]
  PROVE  BasisInv'
BY DEF BasisInv, RestsOnFile, edits

(* What a call of the validator writes is a set of symbols.                 *)
LEMMA EditedAreSymbols ==
  ASSUME EditsInv, BasisInv, NEW p \in Process, pc[p] = "write"
  PROVE  Edited(p) \subseteq Symbol
BY DEF EditsInv, BasisInv, RestsOnFile, Edited, Edit

(* Every step keeps the second.                                             *)
LEMMA BasisStep == StoreInv /\ ScansInv /\ EditsInv /\ BasisInv /\ [Next]_vars => BasisInv'
<1> SUFFICES ASSUME StoreInv, ScansInv, EditsInv, BasisInv, [Next]_vars
             PROVE  BasisInv'
  OBVIOUS
<1> USE DEF StoreInv, JobsInv
<1>1. CASE Tick \/ UNCHANGED vars
  BY <1>1, BasisSame DEF Tick, vars, edits
<1>2. ASSUME NEW p \in Process, Step(p)
      PROVE  BasisInv'
  <2>1. CASE \/ \E t \in Type : CreateSnapshot(p, t) \/ GetLatest(p, t)
             \/ \E s \in Symbol : QuarantineSymbol(p, s) \/ ReleaseQuarantine(p, s)
    <3>1. UNCHANGED edits /\ held' = held
          /\ \E first \in {"file", "scan", "read"} : pc' = [pc EXCEPT ![p] = first]
      BY <2>1 DEF CreateSnapshot, GetLatest, QuarantineSymbol, ReleaseQuarantine, Begin
    <3> QED
      BY <3>1, BasisSame
  <2>2. CASE \/ WriteSnapshotFails(p) \/ AppendDelta(p) \/ AppendDeltaFails(p) \/ AnswerLatest(p)
             \/ WriteQuarantineFails(p)
    <3>1. UNCHANGED edits /\ Answer(p)
      BY <2>2 DEF WriteSnapshotFails, AppendDelta, AppendDeltaFails, AnswerLatest,
         WriteQuarantineFails
    <3> QED
      BY <3>1, BasisSame DEF Answer, ScansInv
  <2>3. CASE \/ UnlinkSnapshot(p) \/ WriteSnapshot(p) \/ ReadTemp(p)
             \/ \E i \in unread[p] : ReadSnapshot(p, i) \/ SkipSnapshot(p, i)
    <3>1. /\ UNCHANGED edits /\ pc[p] # "write" /\ pc'[p] # "write"
          /\ \A q \in Process \ {p} : pc'[q] = pc[q] /\ held'[q] = held[q]
      BY <2>3 DEF UnlinkSnapshot, WriteSnapshot, ReadTemp, ReadSnapshot, SkipSnapshot, ScansInv
    <3> QED
      BY <3>1, BasisQuiet
  <2>4. CASE ReadQuarantine(p)
    <3>1. PICK from \in {"file", "failed"} :
            LET seen == IF from = "file" THEN Content(quarantine) ELSE {} IN
            IF job[p].do = "release" /\ job[p].symbol \notin seen
            THEN Answer(p) /\ UNCHANGED basis
            ELSE /\ held' = [held EXCEPT ![p] = seen]
                 /\ basis' = [basis EXCEPT ![p] = from]
                 /\ pc' = [pc EXCEPT ![p] = "write"]
                 /\ UNCHANGED <<windows, now, job, calls>>
      BY <2>4 DEF ReadQuarantine
    <3> DEFINE seen == IF from = "file" THEN Content(quarantine) ELSE {}
    <3>2. quarantine' = quarantine
      BY <2>4 DEF ReadQuarantine
    <3>3. CASE Answer(p) /\ UNCHANGED basis
      BY <3>2, <3>3, BasisSame DEF Answer, ScansInv, edits
    <3>4. CASE /\ held' = [held EXCEPT ![p] = seen]
               /\ basis' = [basis EXCEPT ![p] = from]
               /\ pc' = [pc EXCEPT ![p] = "write"]
      <4>1. \A q \in Process \ {p} : basis'[q] = basis[q] /\ held'[q] = held[q] /\ pc'[q] = pc[q]
        BY <3>4
      <4>2. held'[p] = seen /\ basis'[p] = from
        BY <3>4 DEF ScansInv, BasisInv
      <4>3. /\ basis'[p] = "file" => quarantine' = NoFile \/ held'[p] = quarantine'
            /\ held'[p] \subseteq Symbol
        BY <3>2, <4>2 DEF Content, BasisInv
      <4>4. RestsOnFile(p)'
        BY <4>3 DEF RestsOnFile
      <4>5. \A q \in Process \ {p} : RestsOnFile(q)'
        BY <3>2, <4>1 DEF RestsOnFile, BasisInv
      <4> QED
        BY <3>2, <3>4, <4>1, <4>2, <4>4, <4>5 DEF BasisInv
    <3> QED
      BY <3>1, <3>3, <3>4
  <2>5. CASE UnlinkQuarantine(p) \/ WriteQuarantine(p)
    <3>1. /\ basis' = [q \in Process |-> IF q # p /\ pc[q] = "write" /\ basis[q] = "file"
                                         THEN "overtaken" ELSE basis[q]]
          /\ \A q \in Process \ {p} : pc'[q] = pc[q]
      BY <2>5 DEF UnlinkQuarantine, WriteQuarantine, Overtake, Answer
    <3>2. \A q \in Process \ {p} : RestsOnFile(q)'
      <4>1. \A q \in Process \ {p} : held'[q] = held[q]
        BY <2>5 DEF UnlinkQuarantine, WriteQuarantine, Answer, ScansInv
      <4> QED
        BY <3>1, <4>1 DEF RestsOnFile, BasisInv
    <3>3. RestsOnFile(p)'
      <4>1. CASE UnlinkQuarantine(p)
        <5>1. held' = held /\ pc' = pc /\ quarantine' = NoFile
          BY <4>1 DEF UnlinkQuarantine
        <5> QED
          BY <5>1 DEF RestsOnFile, BasisInv
      <4>2. CASE WriteQuarantine(p)
        BY <4>2 DEF WriteQuarantine, Answer, RestsOnFile
      <4> QED
        BY <2>5, <4>1, <4>2
    <3>5. quarantine' = NoFile \/ quarantine' \subseteq Symbol
      <4>1. CASE UnlinkQuarantine(p)
        BY <4>1 DEF UnlinkQuarantine
      <4>2. CASE WriteQuarantine(p)
        BY <4>2, EditedAreSymbols DEF WriteQuarantine
      <4> QED
        BY <2>5, <4>1, <4>2
    <3>4. \A q \in Process : basis'[q] \in {"file", "failed", "overtaken"}
      BY <3>1 DEF BasisInv
    <3> QED
      BY <3>1, <3>2, <3>3, <3>4, <3>5 DEF BasisInv
  <2> QED
    BY <1>2, <2>1, <2>2, <2>3, <2>4, <2>5 DEF Step
<1> QED
  BY <1>1, <1>2 DEF Next

(* A symbol leaves quarantine by its release, by an edit that another one    *)
(* overtook or whose read failed, or for as long as the file is unlinked.    *)
THEOREM QuarantineLeft == Spec => QuarantineLeftByReleaseOrOverlap
<1>1. Init => EditsInv /\ BasisInv /\ ScansInv
  BY DEF Init, EditsInv, BasisInv, RestsOnFile, ScansInv
<1>2. StoreInv => JobsInv
  BY DEF StoreInv
<1>3. EditsInv /\ BasisInv /\ ScansInv /\ StoreInv /\ [Next]_vars =>
        [\A s \in Content(quarantine) \ Content(quarantine') :
           \E p \in Process :
             /\ pc[p] = "write"
             /\ \/ job[p] = [do |-> "release", symbol |-> s]
                \/ basis[p] # "file"
                \/ windows /\ quarantine' = NoFile]_vars
  <2> SUFFICES ASSUME EditsInv, BasisInv, Next,
                      NEW s \in Content(quarantine) \ Content(quarantine')
               PROVE  \E p \in Process :
                        /\ pc[p] = "write"
                        /\ \/ job[p] = [do |-> "release", symbol |-> s]
                           \/ basis[p] # "file"
                           \/ windows /\ quarantine' = NoFile
    OBVIOUS
  <2>1. PICK p \in Process : UnlinkQuarantine(p) \/ WriteQuarantine(p)
    <3>1. quarantine' # quarantine
      OBVIOUS
    <3> QED
      BY <3>1 DEF Next, Step, Tick, CreateSnapshot, GetLatest, Begin, UnlinkSnapshot, WriteSnapshot,
       WriteSnapshotFails, AppendDelta, AppendDeltaFails, ReadSnapshot, SkipSnapshot, ReadTemp,
       AnswerLatest, QuarantineSymbol, ReleaseQuarantine, ReadQuarantine, WriteQuarantineFails,
       edits
  <2>2. CASE UnlinkQuarantine(p)
    BY <2>2 DEF UnlinkQuarantine
  <2>3. CASE WriteQuarantine(p) /\ basis[p] = "file"
    <3>1. pc[p] = "write" /\ job[p] \in Edit /\ quarantine' = Edited(p)
      BY <2>3 DEF WriteQuarantine, EditsInv
    <3>2. quarantine # NoFile /\ s \in quarantine
      BY DEF Content
    <3>3. s \in held[p]
      BY <2>3, <3>1, <3>2 DEF BasisInv, RestsOnFile
    <3>4. s \notin Edited(p)
      <4>1. quarantine' # NoFile
        BY <3>1, EditedAreSymbols, SymbolAssumption DEF NoFile
      <4>2. CASE quarantine' # NoFile
        BY <3>1, <4>2 DEF Content
      <4> QED
        BY <4>1, <4>2
    <3>5. job[p].do = "release" /\ job[p].symbol = s
      BY <3>3, <3>4 DEF Edited
    <3>6. job[p] = [do |-> "release", symbol |-> s]
      BY <3>1, <3>5 DEF Edit
    <3> QED
      BY <3>1, <3>6
  <2>4. CASE WriteQuarantine(p) /\ basis[p] # "file"
    BY <2>4 DEF WriteQuarantine
  <2> QED
    BY <2>1, <2>2, <2>3, <2>4
<1> QED
  BY <1>1, <1>2, <1>3, EditsInvStep, BasisStep, ScansStep, StoreInvariant, PTL
     DEF Spec, QuarantineLeftByReleaseOrOverlap

-----------------------------------------------------------------------------
(* The clock and the calls stay within their bounds, and a process has a     *)
(* call just as long as it is busy.                                          *)
BoundsInv == now \in 0 .. MaxTime /\ calls \in 0 .. MaxCalls
BusyInv == \A p \in Process : pc[p] = "idle" <=> job[p] = NoJob
OwedInv == \A p \in Process : owed[p] \subseteq created

(* No call is mistaken for the absence of one.                              *)
LEMMA JobsAreCalls == NoJob \notin Snapshot \cup Scan \cup Edit
<1>1. \A c \in Snapshot \cup Scan \cup Edit : c.do # "none"
  BY DEF Snapshot, Scan, Edit
<1>2. NoJob.do = "none"
  BY DEF NoJob
<1> QED BY <1>1, <1>2

(* Time passes and calls are begun one by one, up to the bounds.            *)
LEMMA BoundsStep == BoundsInv /\ [Next]_vars => BoundsInv'
<1> SUFFICES ASSUME BoundsInv, [Next]_vars
             PROVE  BoundsInv'
  OBVIOUS
<1>1. ASSUME NEW p \in Process, Step(p)
      PROVE  now' = now /\ (calls' = calls \/ (calls < MaxCalls /\ calls' = calls + 1))
  <2>1. CASE \/ \E t \in Type : CreateSnapshot(p, t) \/ GetLatest(p, t)
             \/ \E s \in Symbol : QuarantineSymbol(p, s) \/ ReleaseQuarantine(p, s)
    BY <2>1 DEF CreateSnapshot, GetLatest, QuarantineSymbol, ReleaseQuarantine, Begin
  <2>2. CASE \/ WriteSnapshotFails(p) \/ AppendDelta(p) \/ AppendDeltaFails(p) \/ AnswerLatest(p)
             \/ ReadQuarantine(p) \/ WriteQuarantine(p) \/ WriteQuarantineFails(p)
    BY <2>2 DEF WriteSnapshotFails, AppendDelta, AppendDeltaFails, AnswerLatest, ReadQuarantine,
       WriteQuarantine, WriteQuarantineFails, Answer
  <2>3. CASE \/ UnlinkSnapshot(p) \/ WriteSnapshot(p) \/ ReadTemp(p) \/ UnlinkQuarantine(p)
             \/ \E i \in unread[p] : ReadSnapshot(p, i) \/ SkipSnapshot(p, i)
    BY <2>3 DEF UnlinkSnapshot, WriteSnapshot, ReadTemp, UnlinkQuarantine, ReadSnapshot,
       SkipSnapshot
  <2> QED BY <1>1, <2>1, <2>2, <2>3 DEF Step
<1>2. CASE Tick
  BY <1>2, StoreAssumption DEF Tick, BoundsInv
<1>3. CASE UNCHANGED vars
  BY <1>3 DEF vars, BoundsInv
<1>4. ASSUME NEW p \in Process, Step(p)
      PROVE  BoundsInv'
  BY <1>1, <1>4, StoreAssumption DEF BoundsInv
<1> QED BY <1>2, <1>3, <1>4 DEF Next

(* A call goes from its first step to its answer.                           *)
LEMMA BusyStep == StoreInv /\ BusyInv /\ [Next]_vars => BusyInv'
<1> SUFFICES ASSUME StoreInv, BusyInv, [Next]_vars
             PROVE  BusyInv'
  OBVIOUS
<1> USE DEF StoreInv
<1>1. ASSUME NEW p \in Process, NEW c \in Snapshot \cup Scan \cup Edit,
             NEW first \in {"file", "scan", "read"}, Begin(p, c, first)
      PROVE  BusyInv'
  BY <1>1, JobsAreCalls DEF Begin, BusyInv, JobsInv
<1>2. ASSUME NEW p \in Process, Answer(p)
      PROVE  BusyInv'
  BY <1>2 DEF Answer, BusyInv, JobsInv
<1>3. ASSUME NEW p \in Process, pc[p] # "idle", job' = job,
             NEW next \in {"delta", "write"}, pc' = [pc EXCEPT ![p] = next]
      PROVE  BusyInv'
  BY <1>3 DEF BusyInv, JobsInv
<1>4. CASE UNCHANGED <<pc, job>>
  BY <1>4 DEF BusyInv
<1>5. ASSUME NEW p \in Process, NEW t \in Type, CreateSnapshot(p, t)
      PROVE  BusyInv'
  <2>1. [do |-> "snapshot", type |-> t, stamp |-> now, number |-> calls] \in Snapshot
    BY DEF JobsInv, Snapshot
  <2> QED BY <1>1, <1>5, <2>1 DEF CreateSnapshot
<1>6. ASSUME NEW p \in Process, NEW t \in Type, GetLatest(p, t)
      PROVE  BusyInv'
  <2>1. Temps \subseteq Snapshot
    BY DEF Temps, JobsInv, Creating
  <2>2. PICK temps \in SUBSET {s \in Temps : s.type = t} :
          Begin(p, [do |-> "latest", type |-> t, temps |-> temps], "scan")
    BY <1>6 DEF GetLatest
  <2>3. [do |-> "latest", type |-> t, temps |-> temps] \in Scan
    BY <2>1, <2>2 DEF Scan
  <2> QED BY <1>1, <2>2, <2>3
<1>7. ASSUME NEW p \in Process, NEW s \in Symbol, QuarantineSymbol(p, s) \/ ReleaseQuarantine(p, s)
      PROVE  BusyInv'
  <2>1. \A d \in {"quarantine", "release"} : [do |-> d, symbol |-> s] \in Edit
    BY DEF Edit
  <2> QED BY <1>1, <1>7, <2>1 DEF QuarantineSymbol, ReleaseQuarantine
<1>8. ASSUME NEW p \in Process, WriteSnapshot(p) \/ ReadQuarantine(p)
      PROVE  BusyInv'
  BY <1>2, <1>3, <1>8 DEF WriteSnapshot, ReadQuarantine
<1>9. ASSUME NEW p \in Process,
             \/ WriteSnapshotFails(p) \/ AppendDelta(p) \/ AppendDeltaFails(p)
             \/ AnswerLatest(p) \/ WriteQuarantine(p) \/ WriteQuarantineFails(p)
      PROVE  BusyInv'
  BY <1>2, <1>9 DEF WriteSnapshotFails, AppendDelta, AppendDeltaFails, AnswerLatest,
     WriteQuarantine, WriteQuarantineFails
<1>10. ASSUME NEW p \in Process,
              \/ UnlinkSnapshot(p) \/ ReadTemp(p) \/ UnlinkQuarantine(p)
              \/ \E i \in unread[p] : ReadSnapshot(p, i) \/ SkipSnapshot(p, i)
       PROVE  BusyInv'
  BY <1>4, <1>10 DEF UnlinkSnapshot, ReadTemp, UnlinkQuarantine, ReadSnapshot, SkipSnapshot
<1>11. CASE Tick \/ UNCHANGED vars
  BY <1>4, <1>11 DEF Tick, vars
<1> QED BY <1>5, <1>6, <1>7, <1>8, <1>9, <1>10, <1>11 DEF Next, Step

(* A scan owes no more than was promised.                                   *)
LEMMA OwedStep == ScansInv /\ OwedInv /\ [Next]_vars => OwedInv'
<1> SUFFICES ASSUME ScansInv, OwedInv, [Next]_vars
             PROVE  OwedInv'
  OBVIOUS
<1>1. created \subseteq created'
  BY DEF Next, Step, Tick, CreateSnapshot, GetLatest, UnlinkSnapshot, WriteSnapshot,
     WriteSnapshotFails, AppendDelta, AppendDeltaFails, ReadSnapshot, SkipSnapshot,
     ReadTemp, AnswerLatest, QuarantineSymbol, ReleaseQuarantine, ReadQuarantine,
     UnlinkQuarantine, WriteQuarantine, WriteQuarantineFails, vars, snapshots
<1>2. CASE owed' = owed
  BY <1>1, <1>2 DEF OwedInv
<1>3. ASSUME NEW p \in Process, NEW due \in SUBSET created, owed' = [owed EXCEPT ![p] = due]
      PROVE  OwedInv'
  BY <1>1, <1>3 DEF OwedInv, ScansInv
<1>4. ASSUME NEW p \in Process, NEW t \in Type, GetLatest(p, t)
      PROVE  OwedInv'
  BY <1>3, <1>4 DEF GetLatest
<1>5. ASSUME NEW p \in Process, NEW i \in unread[p], SkipSnapshot(p, i)
      PROVE  OwedInv'
  <2>1. {s \in owed[p] : SnapshotId(s) # i} \subseteq created
    BY DEF OwedInv
  <2> QED BY <1>3, <1>5, <2>1 DEF SkipSnapshot
<1>6. ASSUME NEW p \in Process, AnswerLatest(p)
      PROVE  OwedInv'
  BY <1>3, <1>6 DEF AnswerLatest
<1>7. \/ owed' = owed
      \/ \E p \in Process : \/ \E t \in Type : GetLatest(p, t)
                            \/ \E i \in unread[p] : SkipSnapshot(p, i)
                            \/ AnswerLatest(p)
  BY DEF Next, Step, Tick, CreateSnapshot, UnlinkSnapshot, WriteSnapshot,
     WriteSnapshotFails, AppendDelta, AppendDeltaFails, ReadSnapshot, ReadTemp,
     QuarantineSymbol, ReleaseQuarantine, ReadQuarantine,
     UnlinkQuarantine, WriteQuarantine, WriteQuarantineFails, vars, scans
<1> QED BY <1>2, <1>4, <1>5, <1>6, <1>7

(* Types: every file in the directory is the snapshot its name says, only    *)
(* snapshots that were really taken are promised, in the journal or left in  *)
(* temporary files, and a scan owes only what was promised.                  *)
THEOREM StoreTypesHold == Spec => []StoreTypeOK
<1>1. Init => EditsInv /\ BasisInv /\ ScansInv /\ BoundsInv /\ BusyInv /\ OwedInv
  <2>1. Init => EditsInv /\ BasisInv /\ ScansInv /\ BusyInv /\ OwedInv
    BY DEF Init, EditsInv, BasisInv, RestsOnFile, ScansInv, BusyInv, OwedInv
  <2>2. Init => BoundsInv
    BY StoreAssumption DEF Init, BoundsInv
  <2> QED BY <2>1, <2>2
<1>2. StoreInv => JobsInv
  BY DEF StoreInv
<1>3. StoreInv /\ BasisInv /\ BoundsInv /\ BusyInv /\ OwedInv => StoreTypeOK
  BY DEF StoreInv, BasisInv, BoundsInv, BusyInv, OwedInv, JobsInv, FilesInv, StoreTypeOK
<1> QED
  BY <1>1, <1>2, <1>3, EditsInvStep, BasisStep, ScansStep, BoundsStep, BusyStep, OwedStep,
     StoreInvariant, PTL DEF Spec
=============================================================================
