------------------------------ MODULE MemoryStore ------------------------------
(***************************************************************************)
(* The snapshots, the journal of deltas and the quarantine file of the     *)
(* memory directory, used by several processes without a lock:             *)
(* SnapshotStore.create_snapshot and get_latest_snapshot, and              *)
(* MemoryValidator.quarantine_symbol and release_quarantine. A file is     *)
(* written by AtomicWriter: as a whole, or not at all, and on Windows only *)
(* after the file it replaces was unlinked. Any read can fail; it answers  *)
(* then as if the file were not there.                                     *)
(***************************************************************************)
EXTENDS Integers, FiniteSets

CONSTANTS Process, Type, Symbol,
          TicksPerSecond, \* clock readings that fall into one second
          MaxTime,        \* bound: the clock
          MaxCalls        \* bound: calls made in all

ASSUME StoreAssumption ==
  TicksPerSecond \in Nat \ {0} /\ MaxTime \in Nat /\ MaxCalls \in Nat
ASSUME SymbolAssumption == "no file" \notin Symbol

VARIABLES windows,
          now,         \* utc_now_seconds()
          pc, job,     \* where each process is, and the call it makes
          directory,   \* snapshots/: id -> snapshot
          leftover,    \* snapshots in temporary files nobody removed
          deltas,      \* the snapshots named in readable lines of deltas.jsonl
          torn,        \* the last line of deltas.jsonl has no end
          quarantine,  \* the symbols in quarantine.json, or NoFile
          unread,      \* the files get_latest_snapshot has listed and not read
          held,        \* what a call has read
          calls,       \* calls begun (bounded by MaxCalls)
          stamped,     \* history: every snapshot that got a timestamp
          created,     \* history: the snapshots create_snapshot answered True for
          owed,        \* history: those of them a call of get_latest_snapshot must
                       \* take into account: listed, and their file not unreadable
          basis        \* history: what the edit of a quarantine call rests on: the
                       \* "file", a "failed" read, or one "overtaken" by a write

snapshots == <<directory, leftover, deltas, torn, stamped, created>>
scans == <<unread, owed>>
edits == <<quarantine, basis>>
vars == <<windows, now, pc, job, held, calls, snapshots, scans, edits>>

NoFile == {"no file"}
NoJob == [do |-> "none"]

(* Mutated: the id is the second alone.                                      *)
SnapshotId_AnyType(s) == <<s.stamp \div TicksPerSecond>>

(* f"{snapshot_type}_{int(timestamp)}"                                       *)
SnapshotId(s) == <<s.type, s.stamp \div TicksPerSecond>>

Init ==
  /\ windows \in BOOLEAN
  /\ now = 0 /\ calls = 0
  /\ pc = [p \in Process |-> "idle"] /\ job = [p \in Process |-> NoJob]
  /\ held = [p \in Process |-> {}]
  /\ directory = <<>> /\ leftover = {} /\ deltas = {} /\ torn = FALSE /\ stamped = {} /\ created = {}
  /\ unread = [p \in Process |-> {}] /\ owed = [p \in Process |-> {}]
  /\ quarantine = NoFile /\ basis = [p \in Process |-> "file"]

Tick ==
  /\ now < MaxTime /\ now' = now + 1
  /\ UNCHANGED <<windows, pc, job, held, calls, snapshots, scans, edits>>

Begin(p, call, first) ==
  /\ pc[p] = "idle" /\ calls < MaxCalls
  /\ calls' = calls + 1
  /\ job' = [job EXCEPT ![p] = call]
  /\ pc' = [pc EXCEPT ![p] = first]
  /\ UNCHANGED <<windows, now, held>>

(* Back to the caller.                                                       *)
Answer(p) ==
  /\ pc' = [pc EXCEPT ![p] = "idle"]
  /\ job' = [job EXCEPT ![p] = NoJob]
  /\ held' = [held EXCEPT ![p] = {}]
  /\ UNCHANGED <<windows, now, calls>>

-----------------------------------------------------------------------------
CreateSnapshot(p, t) ==
  LET s == [do |-> "snapshot", type |-> t, stamp |-> now, number |-> calls] IN
  /\ Begin(p, s, "file")
  /\ stamped' = stamped \cup {s}
  /\ UNCHANGED <<directory, leftover, deltas, torn, created, scans, edits>>

(* The directory with s in the file of that id.                              *)
With(id, s) ==
  [i \in DOMAIN directory \cup {id} |-> IF i = id THEN s ELSE directory[i]]

Without(id) == [i \in DOMAIN directory \ {id} |-> directory[i]]

(* On Windows the file of the same id goes first, at each attempt.           *)
UnlinkSnapshot(p) ==
  /\ pc[p] = "file" /\ windows /\ SnapshotId(job[p]) \in DOMAIN directory
  /\ directory' = Without(SnapshotId(job[p]))
  /\ UNCHANGED <<windows, now, pc, job, held, calls, leftover, deltas, torn, stamped,
                 created, scans, edits>>

(* Mutated: the delta is recorded before the snapshot is written.            *)
WriteSnapshot_DeltaFirst(p) ==
  /\ pc[p] = "file"
  /\ directory' = directory
  /\ deltas' = deltas \cup {job[p]}
  /\ pc' = [pc EXCEPT ![p] = "delta"]
  /\ UNCHANGED <<windows, now, job, held, calls, leftover, torn, stamped, created, scans,
                 edits>>

(* Mutated: the file is named after the whole timestamp, not after the id.   *)
WriteSnapshot_Fraction(p) ==
  /\ pc[p] = "file"
  /\ directory' = With(<<job[p].type, job[p].stamp>>, job[p])
  /\ pc' = [pc EXCEPT ![p] = "delta"]
  /\ UNCHANGED <<windows, now, job, held, calls, leftover, deltas, torn, stamped, created,
                 scans, edits>>

(* The written temporary file gets the name: on POSIX whatever has it, on    *)
(* Windows a free one (a taken one fails the attempt, and it is tried again). *)
WriteSnapshot(p) ==
  /\ pc[p] = "file"
  /\ windows => SnapshotId(job[p]) \notin DOMAIN directory
  /\ directory' = With(SnapshotId(job[p]), job[p])
  /\ pc' = [pc EXCEPT ![p] = "delta"]
  /\ UNCHANGED <<windows, now, job, held, calls, leftover, deltas, torn, stamped, created,
                 scans, edits>>

(* The last attempt fails, which is answered False, or the process dies; the *)
(* temporary file may stay.                                                  *)
WriteSnapshotFails(p) ==
  /\ pc[p] = "file"
  /\ leftover' \in {leftover, leftover \cup {job[p]}}
  /\ Answer(p)
  /\ UNCHANGED <<directory, deltas, torn, stamped, created, scans, edits>>

(* The delta goes to the end of the journal; after a line without an end the *)
(* two cannot be parsed.                                                     *)
AppendDelta(p) ==
  /\ pc[p] = "delta"
  /\ deltas' = IF torn THEN deltas ELSE deltas \cup {job[p]}
  /\ torn' = FALSE
  /\ created' = created \cup {job[p]}
  /\ Answer(p)
  /\ UNCHANGED <<directory, leftover, stamped, scans, edits>>

(* The write raises, or the process dies before it, in it or right after it.  *)
AppendDeltaFails(p) ==
  /\ pc[p] = "delta"
  /\ \/ torn' \in {torn, TRUE} /\ UNCHANGED deltas
     \/ torn' = FALSE /\ deltas' = IF torn THEN deltas ELSE deltas \cup {job[p]}
  /\ Answer(p)
  /\ UNCHANGED <<directory, leftover, stamped, created, scans, edits>>

-----------------------------------------------------------------------------
(* The temporary files there can be beside the snapshots.                    *)
Temps == leftover \cup {job[q] : q \in {q \in Process : pc[q] = "file"}}

(* get_latest_snapshot(t) lists *.json, which the names of the temporary     *)
(* files match too.                                                          *)
GetLatest(p, t) ==
  /\ \E temps \in SUBSET {s \in Temps : s.type = t} :
       Begin(p, [do |-> "latest", type |-> t, temps |-> temps], "scan")
  /\ unread' = [unread EXCEPT ![p] = DOMAIN directory]
  /\ owed' = [owed EXCEPT ![p] =
       {s \in created : s.type = t /\ SnapshotId(s) \in DOMAIN directory}]
  /\ UNCHANGED <<snapshots, edits>>

(* One listed file is read; a snapshot of another type is left out.          *)
ReadSnapshot(p, i) ==
  /\ pc[p] = "scan" /\ i \in unread[p] /\ i \in DOMAIN directory
  /\ unread' = [unread EXCEPT ![p] = @ \ {i}]
  /\ held' = [held EXCEPT ![p] =
       IF directory[i].type = job[p].type THEN @ \cup {directory[i]} ELSE @]
  /\ UNCHANGED <<windows, now, pc, job, calls, snapshots, owed, edits>>

(* The file is gone by now, or cannot be read: it is skipped.                *)
SkipSnapshot(p, i) ==
  /\ pc[p] = "scan" /\ i \in unread[p]
  /\ unread' = [unread EXCEPT ![p] = @ \ {i}]
  /\ owed' = [owed EXCEPT ![p] = {s \in @ : SnapshotId(s) # i}]
  /\ UNCHANGED <<windows, now, pc, job, held, calls, snapshots, edits>>

(* So is a temporary file that is whole and has not got its name yet: a       *)
(* snapshot that was never written can be the answer.                        *)
ReadTemp(p) ==
  /\ pc[p] = "scan"
  /\ \E s \in job[p].temps \cap Temps : held' = [held EXCEPT ![p] = @ \cup {s}]
  /\ UNCHANGED <<windows, now, pc, job, calls, snapshots, scans, edits>>

(* The answer is one with the greatest timestamp, or None.                   *)
IsLatest(s, found) == s \in found /\ \A r \in found : r.stamp <= s.stamp

AnswerLatest(p) ==
  /\ pc[p] = "scan" /\ unread[p] = {}
  /\ Answer(p)
  /\ owed' = [owed EXCEPT ![p] = {}]
  /\ UNCHANGED <<snapshots, unread, edits>>

-----------------------------------------------------------------------------
QuarantineSymbol(p, s) ==
  /\ Begin(p, [do |-> "quarantine", symbol |-> s], "read")
  /\ UNCHANGED <<snapshots, scans, edits>>
ReleaseQuarantine(p, s) ==
  /\ Begin(p, [do |-> "release", symbol |-> s], "read")
  /\ UNCHANGED <<snapshots, scans, edits>>

Content(f) == IF f = NoFile THEN {} ELSE f

(* read_json(default={}): a missing file is an empty one, and so is one that *)
(* cannot be read. Releasing a symbol that is not there answers True at once. *)
ReadQuarantine(p) ==
  /\ pc[p] = "read"
  /\ \E from \in {"file", "failed"} :
       LET seen == IF from = "file" THEN Content(quarantine) ELSE {} IN
       IF job[p].do = "release" /\ job[p].symbol \notin seen
       THEN Answer(p) /\ UNCHANGED basis
       ELSE /\ held' = [held EXCEPT ![p] = seen]
            /\ basis' = [basis EXCEPT ![p] = from]
            /\ pc' = [pc EXCEPT ![p] = "write"]
            /\ UNCHANGED <<windows, now, job, calls>>
  /\ UNCHANGED <<quarantine, snapshots, scans>>

(* Mutated: a release writes an empty file.                                  *)
Edited_ReleaseAll(p) ==
  IF job[p].do = "release" THEN {} ELSE held[p] \cup {job[p].symbol}

Edited(p) ==
  IF job[p].do = "release" THEN held[p] \ {job[p].symbol} ELSE held[p] \cup {job[p].symbol}

(* The file changes under the calls that have read it and not yet written.   *)
Overtake(p) ==
  basis' = [q \in Process |-> IF q # p /\ pc[q] = "write" /\ basis[q] = "file"
                              THEN "overtaken" ELSE basis[q]]

UnlinkQuarantine(p) ==
  /\ pc[p] = "write" /\ windows /\ quarantine # NoFile
  /\ quarantine' = NoFile
  /\ Overtake(p)
  /\ UNCHANGED <<windows, now, pc, job, held, calls, snapshots, scans>>

WriteQuarantine(p) ==
  /\ pc[p] = "write"
  /\ windows => quarantine = NoFile
  /\ quarantine' = Edited(p)
  /\ Overtake(p)
  /\ Answer(p)
  /\ UNCHANGED <<snapshots, scans>>

WriteQuarantineFails(p) ==
  /\ pc[p] = "write"
  /\ Answer(p)
  /\ UNCHANGED <<snapshots, scans, edits>>

-----------------------------------------------------------------------------
Step(p) ==
  \/ \E t \in Type : CreateSnapshot(p, t)
  \/ UnlinkSnapshot(p) \/ WriteSnapshot(p) \/ WriteSnapshotFails(p)
  \/ AppendDelta(p) \/ AppendDeltaFails(p)
  \/ \E t \in Type : GetLatest(p, t)
  \/ \E i \in unread[p] : ReadSnapshot(p, i) \/ SkipSnapshot(p, i)
  \/ ReadTemp(p) \/ AnswerLatest(p)
  \/ \E s \in Symbol : QuarantineSymbol(p, s) \/ ReleaseQuarantine(p, s)
  \/ ReadQuarantine(p)
  \/ UnlinkQuarantine(p) \/ WriteQuarantine(p) \/ WriteQuarantineFails(p)

Next == Tick \/ \E p \in Process : Step(p)

Spec == Init /\ [][Next]_vars

-----------------------------------------------------------------------------
StoreTypeOK ==
  /\ now \in 0..MaxTime /\ calls \in 0..MaxCalls
  /\ pc \in [Process -> {"idle", "file", "delta", "scan", "read", "write"}]
  /\ \A p \in Process : pc[p] = "idle" <=> job[p] = NoJob
  /\ quarantine = NoFile \/ quarantine \subseteq Symbol
  /\ basis \in [Process -> {"file", "failed", "overtaken"}]
  /\ \A i \in DOMAIN directory : directory[i] \in stamped /\ SnapshotId(directory[i]) = i
  /\ created \subseteq stamped /\ deltas \subseteq stamped /\ leftover \subseteq stamped
  /\ \A p \in Process : owed[p] \subseteq created

(* Whatever is cut short, a line of the journal names a snapshot that is     *)
(* there: it is written after the file. The file can only be missing on      *)
(* Windows, where another snapshot of the same type and second, one that has *)
(* not been promised, took it away and has not been written, or never is.    *)
DeltasNameSnapshots ==
  \A d \in deltas :
    \/ SnapshotId(d) \in DOMAIN directory
    \/ windows /\ \E r \in stamped \ (created \cup deltas) : SnapshotId(r) = SnapshotId(d)

(* A snapshot that was answered with True is found again, unless another     *)
(* snapshot of its type was taken within the same second.                    *)
CreatedKept ==
  \A s \in created :
    \/ SnapshotId(s) \in DOMAIN directory /\ directory[SnapshotId(s)] = s
    \/ \E r \in stamped \ {s} : SnapshotId(r) = SnapshotId(s)

(* get_latest_snapshot, which lists the directory and then reads file by     *)
(* file while others replace them: its answer is from the second of the      *)
(* newest snapshot promised before, or later, of all whose file was listed   *)
(* and not found missing or unreadable.                                      *)
LatestWithinASecond ==
  \A p \in Process : pc[p] = "scan" /\ unread[p] = {} =>
    \A s \in owed[p] : \E l \in held[p] :
      /\ IsLatest(l, held[p])
      /\ s.stamp \div TicksPerSecond <= l.stamp \div TicksPerSecond

(* A symbol leaves the quarantine file by its release; by an edit of what    *)
(* another process has changed since it was read; by an edit of nothing,     *)
(* after a read that failed; or, on Windows, as the file is unlinked before  *)
(* it is written again. A call whose read was good and that nobody overtook  *)
(* takes no other symbol's quarantine away.                                  *)
QuarantineLeftByReleaseOrOverlap ==
  [][\A s \in Content(quarantine) \ Content(quarantine') :
       \E p \in Process :
         /\ pc[p] = "write"
         /\ \/ job[p] = [do |-> "release", symbol |-> s]
            \/ basis[p] # "file"
            \/ windows /\ quarantine' = NoFile]_vars
=============================================================================
