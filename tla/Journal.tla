------------------------------ MODULE Journal ------------------------------
(***************************************************************************)
(* The durable core of GenesisBlockDB (src/src/lib.rs): the framed journal *)
(* wal/active.gwal + journal/*.gseg, the writer thread that appends, seals *)
(* and folds it, the snapshot state.json, and the recovery an open runs.   *)
(*                                                                         *)
(* A record (a graph node id) is in one of four states, the same four that *)
(* a journal frame can put it in:                                          *)
(*   "live"    Event::Node with valid_to = None                            *)
(*   "closed"  Event::Node with valid_to set (superseded version)          *)
(*   "dead"    NodeRetract; the id is kept in the tombstone registry       *)
(*   "absent"  nothing is known of the id                                  *)
(* together with the logical clock of the event that put it there.         *)
(* Every public operation holds commit_lock from its first read to its     *)
(* return, so one client call (pc) is in progress at a time; the writer    *)
(* thread (wpc) runs beside it, because it seals after it has sent the     *)
(* acknowledgement.                                                        *)
(***************************************************************************)
EXTENDS Integers, FiniteSets

CONSTANTS
    Keys,        \* node ids
    MaxSeq,      \* bound on frame sequence numbers
    MaxClock,    \* bound on the logical clock
    Faults,      \* which I/O steps may fail, a subset of FaultKinds
    Retention,   \* "frontier_only" | "full": does a checkpoint fold?
    Schema       \* 5: frames replay under LWW; 6: as unconditional transactions

FaultKinds ==
    { "append_io",         \* a frame's write, flush or sync
      "apply",             \* the SQLite projection, after the frame is durable
      "segment_io",        \* write_segment
      "remove_io",         \* a fold's removal of an old segment
      "seal_truncate_io",  \* the truncating open of a reset, in a seal
      "fold_truncate_io",  \*   the same, in a fold
      "header_io",         \* the header write of a reset
      "torn_header",       \* a crash that leaves part of that header
      "overlap_io",        \* the rewrite that trims the active file at open
      "snapshot_io" }      \* temp_save or the swap of its files

ASSUME ConstantsAssumption ==
    /\ MaxSeq \in Nat
    /\ MaxClock \in Nat
    /\ Faults \subseteq FaultKinds
    /\ Retention \in {"frontier_only", "full"}
    /\ Schema \in {5, 6}

VARIABLES
    \* ---- on disk ----
    segs,      \* sealed segments journal/*.gseg
    active,    \* wal/active.gwal: [hdr, frames, torn]
    snap,      \* state.json and its components: [st, frontier, cells, clock]
    \* ---- in the process ----
    phase,     \* "down" | "refused" | "replay" | "ready"
    mem,       \* nodes and tombstones, by key
    logical_clock,
    commit_sequence,
    next_seq,            \* the writer thread's frame counter
    recovery_required,
    cursor,    \* replay: frames at or below it are skipped, -1 for none
    done,      \* replay: the items already applied
    pc,        \* what the holder of commit_lock is doing
    wpc,       \* what the writer thread is doing
    cur,       \* the event the holder of commit_lock is writing
    job,       \* what called the checkpoint in progress
    \* ---- the world ----
    aged,      \* retractions with a clock up to this one are past retention
    was,       \* what memory held when a ready process last stopped
    want,      \* what clients were told: the state after every confirmed call
    unsure     \* events of the call in progress, or of one that failed

disk    == << segs, active, snap >>
replay  == << cursor, done >>
session == << phase, recovery_required, cursor, done >>
vars  == << segs, active, snap, phase, mem, logical_clock, commit_sequence,
            next_seq, recovery_required, cursor, done, pc, wpc, cur, job,
            aged, was, want, unsure >>

----------------------------------------------------------------------------
(* Data.                                                                   *)

States == {"live", "closed", "dead"}
Seqs   == 0 .. MaxSeq
Clocks == 0 .. MaxClock

Cell   == [st : States \cup {"absent"}, clock : Clocks]
Write  == [key : Keys, st : States, clock : Clocks]
Frame  == [seq : Seqs, key : Keys, st : States, clock : Clocks]

Absent    == [st |-> "absent", clock |-> 0]
NoCells   == [k \in Keys |-> Absent]
CellOf(w) == [st |-> w.st, clock |-> w.clock]

\* cur when no call is writing.
NoWrite == [st |-> "absent"]

\* encode_frame: an event stamped with its sequence number.
FrameOf(w, seq) == [seq |-> seq, key |-> w.key, st |-> w.st, clock |-> w.clock]

\* A segment file; a base ("B") segment has min = max = its frontier, the
\* sequence number of all its frames, a history ("J") segment the range of its
\* frames.
Segment == [kind : {"B", "J"}, min : Seqs, max : Seqs, frames : SUBSET Frame]

ActiveFile == [hdr : {"none", "partial", "ok"}, frames : SUBSET Frame,
               torn : BOOLEAN]

Snapshot == [st : {"none", "valid", "torn"}, frontier : Seqs,
             cells : [Keys -> Cell], clock : Clocks]

\* A frame to replay, with the sort key of the file it is read from.
Item == [min : 0 .. MaxSeq + 1, max : 0 .. MaxSeq + 1, base : BOOLEAN,
         f : Frame]

\* retention_expired, for a tombstone.
Expired(c) == c.st = "dead" /\ c.clock <= aged

\* What a client relies on: a live record, or a retraction that is still inside
\* its retention window.  This is also what build_compacted_wal writes.
Kept(c) == c.st = "live" \/ (c.st = "dead" /\ c.clock > aged)

\* The tombstone registry without its expired entries.
Sweep(cells) == [k \in Keys |-> IF Expired(cells[k]) THEN Absent ELSE cells[k]]

Compacted(cells, frontier) ==
    { [seq |-> frontier, key |-> k, st |-> cells[k].st, clock |-> cells[k].clock]
        : k \in {j \in Keys : Kept(cells[j])} }

\* The node map alone, without the tombstones: the file nodes.bin.
NodesBin(cells) ==
    [k \in Keys |-> IF cells[k].st = "dead" THEN Absent ELSE cells[k]]

\* history_horizon: h is the largest frontier of a base segment, 0 if none.
IsHorizon(h) ==
    /\ \A s \in segs : s.kind = "B" => s.max <= h
    /\ h = 0 \/ \E s \in segs : s.kind = "B" /\ s.max = h

\* Mutant: journal_max_seq looks at the segments only.
MaxSeqOfSegments(m, fs) ==
    /\ \A s \in segs : s.max <= m
    /\ m = 0 \/ \E s \in segs : s.max = m

\* journal_max_seq: m is the largest sequence number of a segment or of the
\* frames fs of the active file, 0 if there is none.
IsMaxSeq(m, fs) ==
    /\ \A s \in segs : s.max <= m
    /\ \A f \in fs : f.seq <= m
    /\ m = 0 \/ (\E s \in segs : s.max = m) \/ (\E f \in fs : f.seq = m)

----------------------------------------------------------------------------
(* A database without records after its first fold, from which sequence    *)
(* numbers are counted: one base segment (with the activation record, in   *)
(* schema 6) and an empty active file.  A database of schema 5, which the  *)
(* program no longer creates, says so in its state.json.                   *)

GenesisBase == [kind |-> "B", min |-> 0, max |-> 0, frames |-> {}]

Init ==
    /\ segs = {GenesisBase}
    /\ active = [hdr |-> "ok", frames |-> {}, torn |-> FALSE]
    /\ snap = [st |-> IF Schema = 5 THEN "valid" ELSE "none", frontier |-> 0,
               cells |-> NoCells, clock |-> 0]
    /\ phase = "ready"
    /\ mem = NoCells
    /\ logical_clock = 0
    /\ commit_sequence = 0
    /\ next_seq = 1
    /\ recovery_required = FALSE
    /\ cursor = -1
    /\ done = {}
    /\ pc = "idle"
    /\ wpc = "idle"
    /\ cur = NoWrite
    /\ job = "none"
    /\ aged = 0
    /\ was = NoCells
    /\ want = NoCells
    /\ unsure = {}

----------------------------------------------------------------------------
(* A local mutation: add_node, retract_node, supersede_node.  Each takes a *)
(* clock (next_clock), appends its frame and waits for the acknowledgement;*)
(* memory changes only after the frame is durable.                         *)

\* commit_lock is free, ensure_writable and ensure_readable pass.
Free == phase = "ready" /\ pc = "idle" /\ ~recovery_required

Send(k, st, clock, next) ==
    /\ cur' = [key |-> k, st |-> st, clock |-> clock]
    /\ unsure' = unsure \cup {cur'}
    /\ pc' = next

AddNode(k) ==
    /\ Free
    /\ next_seq <= MaxSeq /\ logical_clock < MaxClock
    /\ logical_clock' = logical_clock + 1
    /\ Send(k, "live", logical_clock + 1, "append")
    /\ UNCHANGED << disk, session, mem, commit_sequence, next_seq, wpc, job,
                    aged, was, want >>

\* An unknown id is not retracted: retract_node returns Ok and does nothing.
RetractNode(k) ==
    /\ Free
    /\ mem[k].st \in {"live", "closed"}
    /\ next_seq <= MaxSeq /\ logical_clock < MaxClock
    /\ logical_clock' = logical_clock + 1
    /\ Send(k, "dead", logical_clock + 1, "append")
    /\ UNCHANGED << disk, session, mem, commit_sequence, next_seq, wpc, job,
                    aged, was, want >>

\* First frame of supersede_node: the old version, its clock unchanged, with
\* valid_to set.
SupersedeNode(k) ==
    /\ Free
    /\ mem[k].st \in {"live", "closed"}
    /\ next_seq < MaxSeq /\ logical_clock < MaxClock
    /\ Send(k, "closed", mem[k].clock, "append_close")
    /\ UNCHANGED << disk, session, mem, logical_clock, commit_sequence,
                    next_seq, wpc, job, aged, was, want >>

Appending == pc \in {"append", "append_close"}

\* The writer thread writes, flushes and syncs the frame and acknowledges its
\* sequence number; afterwards it may find the active file over the seal
\* threshold.  A file without a header takes the frame all the same.
WriterAppend ==
    /\ Appending
    /\ wpc = "idle"
    /\ active' = [active EXCEPT !.frames = @ \cup {FrameOf(cur, next_seq)}]
    /\ next_seq' = next_seq + 1
    /\ commit_sequence' = next_seq
    /\ pc' = IF pc = "append" THEN "acked" ELSE "acked_close"
    /\ wpc' \in {"idle", "seal"}
    /\ UNCHANGED << segs, snap, session, mem, logical_clock, cur, job, aged, was,
                    want, unsure >>

\* The frame is not written, or torn, or complete in the file but not known to
\* be synced.
AppendResidue(a) ==
    { a, [a EXCEPT !.torn = TRUE],
      [a EXCEPT !.frames = @ \cup {FrameOf(cur, next_seq)}] }

\* Mutant: the failed append is reported, the handle goes on.
AppendFailsWritable ==
    /\ "append_io" \in Faults
    /\ Appending
    /\ wpc = "idle"
    /\ active' \in AppendResidue(active)
    /\ next_seq' = next_seq + 1
    /\ pc' = "idle"
    /\ cur' = NoWrite
    /\ wpc' \in {"idle", "seal"}
    /\ UNCHANGED << segs, snap, session, mem, logical_clock, commit_sequence,
                    job, aged, was, want, unsure >>

\* A failed write, flush or sync: the acknowledgement is None and the client
\* sets recovery_required (COMMIT_OUTCOME_UNKNOWN).  The writer thread is
\* poisoned; no append reaches it again before a reopen.
WriterAppendFails ==
    /\ "append_io" \in Faults
    /\ Appending
    /\ wpc = "idle"
    /\ active' \in AppendResidue(active)
    /\ next_seq' = next_seq + 1
    /\ recovery_required' = TRUE
    /\ pc' = "idle"
    /\ cur' = NoWrite
    /\ wpc' \in {"idle", "seal"}
    /\ UNCHANGED << segs, snap, phase, replay, mem, logical_clock,
                    commit_sequence, job, aged, was, want, unsure >>

\* The call applies its event to memory and returns Ok.
Apply ==
    /\ pc = "acked"
    /\ mem' = [mem EXCEPT ![cur.key] = CellOf(cur)]
    /\ want' = [want EXCEPT ![cur.key] = CellOf(cur)]
    /\ unsure' = {}
    /\ pc' = "idle"
    /\ cur' = NoWrite
    /\ UNCHANGED << disk, session, logical_clock, commit_sequence, next_seq,
                    wpc, job, aged, was >>

\* supersede_node goes on to its second frame; memory still holds the old
\* version.
SupersedeNext ==
    /\ pc = "acked_close"
    /\ logical_clock' = logical_clock + 1
    /\ Send(cur.key, "live", logical_clock + 1, "append")
    /\ UNCHANGED << disk, session, mem, commit_sequence, next_seq, wpc, job,
                    aged, was, want >>

\* Mutant: the failed projection is reported, the handle goes on.
ApplyFailsWritable ==
    /\ "apply" \in Faults
    /\ pc \in {"acked", "acked_close"}
    /\ pc' = "idle"
    /\ cur' = NoWrite
    /\ UNCHANGED << disk, session, mem, logical_clock, commit_sequence,
                    next_seq, wpc, job, aged, was, want, unsure >>

\* projection_apply_event fails after the frame is durable: durable_apply_error.
ApplyFails ==
    /\ "apply" \in Faults
    /\ pc \in {"acked", "acked_close"}
    /\ recovery_required' = TRUE
    /\ pc' = "idle"
    /\ cur' = NoWrite
    /\ UNCHANGED << disk, phase, replay, mem, logical_clock, commit_sequence,
                    next_seq, wpc, job, aged, was, want, unsure >>

----------------------------------------------------------------------------
(* journal_seal_active: the frames of a large active file become a history *)
(* segment, then the file is reset.  The writer thread ignores the result. *)

\* Nothing to seal: no frames, or a file whose header is not readable.
SealNothing ==
    /\ wpc = "seal"
    /\ active.hdr # "ok" \/ active.frames = {}
    /\ wpc' = "idle"
    /\ UNCHANGED << disk, session, mem, logical_clock, commit_sequence,
                    next_seq, pc, cur, job, aged, was, want, unsure >>

\* write_segment: the file J<lo>.gseg is durable under its final name; it
\* replaces an earlier one of that name.
SealWrite ==
    /\ wpc = "seal"
    /\ active.hdr = "ok"
    /\ \E lo, hi \in active.frames :
          /\ \A f \in active.frames : lo.seq <= f.seq /\ f.seq <= hi.seq
          /\ segs' = { s \in segs : s.kind = "B" \/ s.min # lo.seq } \cup
                     { [kind |-> "J", min |-> lo.seq, max |-> hi.seq,
                        frames |-> active.frames] }
    /\ wpc' = "seal_reset"
    /\ UNCHANGED << active, snap, session, mem, logical_clock, commit_sequence,
                    next_seq, pc, cur, job, aged, was, want, unsure >>

SealWriteFails ==
    /\ "segment_io" \in Faults
    /\ wpc = "seal"
    /\ active.hdr = "ok" /\ active.frames # {}
    /\ wpc' = "idle"
    /\ UNCHANGED << disk, session, mem, logical_clock, commit_sequence,
                    next_seq, pc, cur, job, aged, was, want, unsure >>

----------------------------------------------------------------------------
(* journal_reset_active, called by a seal and by a fold: truncate, write   *)
(* the header, go back to an append handle whatever happened.              *)

\* Mutant: a fold that came to the header sends no answer.
AnswerBeforeHeader(ok) ==
    pc' = IF wpc = "fold_reset"
          THEN (IF ok THEN "fold_ok" ELSE "fold_failed") ELSE pc

\* The fold's answer to the client that waits for it; a seal has none.
Answer(ok) ==
    pc' = IF wpc \in {"fold_reset", "fold_header"}
          THEN (IF ok THEN "fold_ok" ELSE "fold_failed") ELSE pc

ResetTruncate ==
    /\ wpc \in {"seal_reset", "fold_reset"}
    /\ active' = [hdr |-> "none", frames |-> {}, torn |-> FALSE]
    /\ wpc' = IF wpc = "seal_reset" THEN "seal_header" ELSE "fold_header"
    /\ UNCHANGED << segs, snap, session, mem, logical_clock, commit_sequence,
                    next_seq, pc, cur, job, aged, was, want, unsure >>

ResetTruncateFails ==
    /\ \/ wpc = "seal_reset" /\ "seal_truncate_io" \in Faults
       \/ wpc = "fold_reset" /\ "fold_truncate_io" \in Faults
    /\ Answer(FALSE)
    /\ wpc' = "idle"
    /\ UNCHANGED << disk, session, mem, logical_clock, commit_sequence,
                    next_seq, cur, job, aged, was, want, unsure >>

ResetHeader ==
    /\ wpc \in {"seal_header", "fold_header"}
    /\ active' = [active EXCEPT !.hdr = "ok"]
    /\ Answer(TRUE)
    /\ wpc' = "idle"
    /\ UNCHANGED << segs, snap, session, mem, logical_clock, commit_sequence,
                    next_seq, cur, job, aged, was, want, unsure >>

ResetHeaderFails ==
    /\ "header_io" \in Faults
    /\ wpc \in {"seal_header", "fold_header"}
    /\ \E h \in {"none", "partial"} : active' = [active EXCEPT !.hdr = h]
    /\ Answer(FALSE)
    /\ wpc' = "idle"
    /\ UNCHANGED << segs, snap, session, mem, logical_clock, commit_sequence,
                    next_seq, cur, job, aged, was, want, unsure >>

----------------------------------------------------------------------------
(* Checkpoints.  compact() folds the journal into a base segment;          *)
(* save_state() does so too under the frontier_only profile and then       *)
(* writes the snapshot, whether or not the fold succeeded.                 *)

\* build_compacted_wal sweeps expired tombstones and hands the payload to the
\* writer thread.  commit_lock is held, so memory stays as it is until the
\* fold has written it.
BeginFold(why) ==
    /\ Free
    /\ mem' = Sweep(mem)
    /\ job' = why
    /\ pc' = "fold"
    /\ UNCHANGED << disk, session, logical_clock, commit_sequence, next_seq,
                    wpc, cur, aged, was, want, unsure >>

Compact == BeginFold("compact")

SaveState == Retention = "frontier_only" /\ BeginFold("save")

\* The non-folding checkpoint sweeps the registry itself.
SaveStateNoFold ==
    /\ Retention = "full"
    /\ Free
    /\ mem' = Sweep(mem)
    /\ job' = "save"
    /\ pc' = "snapshot"
    /\ UNCHANGED << disk, session, logical_clock, commit_sequence, next_seq,
                    wpc, cur, aged, was, want, unsure >>

\* stable_frontier: the sequence number of the last acknowledged frame.
IsNewBase(s) == s.kind = "B" /\ s.max = commit_sequence

\* Mutant: the base is placed at the next sequence number.
FoldWriteBaseAtNext ==
    /\ pc = "fold"
    /\ wpc = "idle"
    /\ segs' = { s \in segs : ~IsNewBase(s) } \cup
               { [kind |-> "B", min |-> next_seq, max |-> next_seq,
                  frames |-> Compacted(mem, next_seq)] }
    /\ wpc' = "fold_remove"
    /\ UNCHANGED << active, snap, session, mem, logical_clock, commit_sequence,
                    next_seq, pc, cur, job, aged, was, want, unsure >>

\* journal_fold, first step: the base segment is durable.
FoldWriteBase ==
    /\ pc = "fold"
    /\ wpc = "idle"
    /\ segs' = { s \in segs : ~IsNewBase(s) } \cup
               { [kind |-> "B", min |-> commit_sequence, max |-> commit_sequence,
                  frames |-> Compacted(mem, commit_sequence)] }
    /\ wpc' = "fold_remove"
    /\ UNCHANGED << active, snap, session, mem, logical_clock, commit_sequence,
                    next_seq, pc, cur, job, aged, was, want, unsure >>

FoldWriteBaseFails ==
    /\ "segment_io" \in Faults
    /\ pc = "fold"
    /\ wpc = "idle"
    /\ pc' = "fold_failed"
    /\ UNCHANGED << disk, session, mem, logical_clock, commit_sequence,
                    next_seq, wpc, cur, job, aged, was, want, unsure >>

\* Mutant: the removal does not spare the base just written.
FoldRemoveAny(s) ==
    /\ wpc = "fold_remove"
    /\ s \in segs
    /\ segs' = segs \ {s}
    /\ UNCHANGED << active, snap, session, mem, logical_clock, commit_sequence,
                    next_seq, pc, wpc, cur, job, aged, was, want, unsure >>

\* Then every other segment is removed, in directory order; a failed removal
\* is ignored.
FoldRemove(s) ==
    /\ wpc = "fold_remove"
    /\ s \in segs /\ ~IsNewBase(s)
    /\ segs' = segs \ {s}
    /\ UNCHANGED << active, snap, session, mem, logical_clock, commit_sequence,
                    next_seq, pc, wpc, cur, job, aged, was, want, unsure >>

FoldRemoved ==
    /\ wpc = "fold_remove"
    /\ "remove_io" \in Faults \/ \A s \in segs : IsNewBase(s)
    /\ wpc' = "fold_reset"
    /\ UNCHANGED << disk, session, mem, logical_clock, commit_sequence,
                    next_seq, pc, cur, job, aged, was, want, unsure >>

\* checkpoint_wal_payload trims the projection's history after a good fold; a
\* failure of that is a durable_apply_error.
HistoryTrimmed ==
    \/ UNCHANGED recovery_required
    \/ pc = "fold_ok" /\ "apply" \in Faults /\ recovery_required' = TRUE

CompactReturns ==
    /\ job = "compact"
    /\ pc \in {"fold_ok", "fold_failed"}
    /\ HistoryTrimmed
    /\ pc' = "idle"
    /\ job' = "none"
    /\ UNCHANGED << disk, phase, replay, mem, logical_clock, commit_sequence,
                    next_seq, wpc, cur, aged, was, want, unsure >>

\* save_state() goes on after the fold, good or bad.
SnapshotNext ==
    /\ job = "save"
    /\ pc \in {"fold_ok", "fold_failed"}
    /\ HistoryTrimmed
    /\ pc' = "snapshot"
    /\ UNCHANGED << disk, phase, replay, mem, logical_clock, commit_sequence,
                    next_seq, wpc, cur, job, aged, was, want, unsure >>

\* The components are renamed over the old ones, under the old state.json:
\* its manifest's digests no longer match them, unless they did not change.
SnapshotSwap ==
    /\ pc = "snapshot"
    /\ snap' = IF NodesBin(snap.cells) = NodesBin(mem) THEN snap
               ELSE [snap EXCEPT !.st = IF @ = "valid" THEN "torn" ELSE @]
    /\ pc' = "publish"
    /\ UNCHANGED << segs, active, session, mem, logical_clock, commit_sequence,
                    next_seq, wpc, cur, job, aged, was, want, unsure >>

\* Mutant: the snapshot claims the frame that comes next.
SnapshotPublishAhead ==
    /\ pc = "publish"
    /\ snap' = [st |-> "valid", frontier |-> next_seq, cells |-> mem,
                clock |-> logical_clock]
    /\ pc' = "idle"
    /\ job' = "none"
    /\ UNCHANGED << segs, active, session, mem, logical_clock, commit_sequence,
                    next_seq, wpc, cur, aged, was, want, unsure >>

\* state.json, with the frontier, is renamed last.
SnapshotPublish ==
    /\ pc = "publish"
    /\ snap' = [st |-> "valid", frontier |-> commit_sequence, cells |-> mem,
                clock |-> logical_clock]
    /\ pc' = "idle"
    /\ job' = "none"
    /\ UNCHANGED << segs, active, session, mem, logical_clock, commit_sequence,
                    next_seq, wpc, cur, aged, was, want, unsure >>

SnapshotFails ==
    /\ "snapshot_io" \in Faults
    /\ pc \in {"snapshot", "publish"}
    /\ pc' = "idle"
    /\ job' = "none"
    /\ UNCHANGED << disk, session, mem, logical_clock, commit_sequence,
                    next_seq, wpc, cur, aged, was, want, unsure >>

----------------------------------------------------------------------------
(* The process stops.  A frame or a header being written may be missing,   *)
(* torn or complete.                                                       *)

CrashResidue ==
    IF Appending /\ wpc = "idle" THEN AppendResidue(active)
    ELSE IF wpc \in {"seal_header", "fold_header"}
    THEN { [active EXCEPT !.hdr = h] : h \in {"none", "ok"} \cup
              (IF "torn_header" \in Faults THEN {"partial"} ELSE {}) }
    ELSE {active}

Crash ==
    /\ phase \in {"replay", "ready"}
    /\ active' \in CrashResidue
    /\ phase' = "down"
    /\ mem' = NoCells
    /\ logical_clock' = 0
    /\ commit_sequence' = 0
    /\ next_seq' = 0
    /\ recovery_required' = FALSE
    /\ cursor' = -1
    /\ done' = {}
    /\ pc' = "idle"
    /\ wpc' = "idle"
    /\ cur' = NoWrite
    /\ job' = "none"
    /\ was' = IF phase = "ready" THEN mem ELSE was
    /\ UNCHANGED << segs, snap, aged, want, unsure >>

----------------------------------------------------------------------------
(* Opening the database.                                                   *)

\* preflight_journal, which every open runs before it repairs the active file: a
\* file that is not empty must have a whole header.
Unreadable ==
    \/ active.hdr = "partial"
    \/ active.hdr = "none" /\ (active.frames # {} \/ active.torn)

\* preflight_schema6_activation, which does not run when state.json names schema
\* 5: from file to file the sequence numbers must rise, and the signed activation,
\* which every base segment carries, must be there only once.
Misplaced ==
    \/ \E a, b \in segs : a # b /\ a.kind = "B" /\ b.kind = "B"
    \/ \E a, b \in segs : a # b /\ a.min <= b.min /\ b.min <= a.max
    \/ \E s \in segs, f \in active.frames :
          f.seq <= s.max /\ \A b \in segs : b.kind = "B" => f.seq > b.max

PreflightFails == Unreadable \/ (Schema = 6 /\ Misplaced)

OpenRefused ==
    /\ phase \in {"down", "refused"}
    /\ PreflightFails
    /\ phase' = "refused"
    /\ UNCHANGED << disk, replay, mem, logical_clock, commit_sequence, next_seq,
                    recovery_required, pc, wpc, cur, job, aged, was, want, unsure >>

\* The active file after journal_truncate_active_overlap, whose failure is
\* ignored: without the frames the base segment at h already covers.
Trimmed(h) ==
    { {f \in active.frames : f.seq > h} } \cup
    (IF "overlap_io" \in Faults THEN {active.frames} ELSE {})

\* journal_truncate_torn_active, journal_truncate_active_overlap,
\* journal_max_seq, journal_open_active.
OpenJournal(h, m) ==
    /\ phase = "down"
    /\ ~PreflightFails
    /\ IsHorizon(h)
    /\ \E fs \in Trimmed(h) :
          /\ IsMaxSeq(m, fs)
          /\ active' = [hdr |-> "ok", frames |-> fs, torn |-> FALSE]
    /\ next_seq' = m + 1
    /\ commit_sequence' = m
    /\ phase' = "replay"
    /\ UNCHANGED << segs, snap, recovery_required, done, pc, wpc, cur, job,
                    aged, was, want, unsure >>

\* The snapshot is loaded when its digests hold and no base segment is newer.
OpenWithSnapshot ==
    /\ snap.st = "valid"
    /\ \E h, m \in Seqs : h <= snap.frontier /\ OpenJournal(h, m)
    /\ mem' = snap.cells
    /\ logical_clock' = snap.clock
    /\ cursor' = snap.frontier

\* Otherwise the journal alone is replayed; also when a rerank sidecar may hold
\* rows newer than the snapshot (sidecar_tail).
OpenWithoutSnapshot ==
    /\ \E h, m \in Seqs :
          /\ snap.st # "valid" \/ h > snap.frontier \/ snap.frontier < m
          /\ OpenJournal(h, m)
    /\ mem' = NoCells
    /\ logical_clock' = 0
    /\ cursor' = -1

\* scan_journal: what is left to read past the cursor.  Of the active file,
\* frames that a base segment covers are skipped.
SegmentItems ==
    UNION { { [min |-> s.min, max |-> s.max, base |-> s.kind = "B", f |-> f]
                : f \in {g \in s.frames : g.seq > cursor} } : s \in segs }

ActiveItems ==
    { [min |-> MaxSeq + 1, max |-> MaxSeq + 1, base |-> FALSE, f |-> f]
        : f \in {g \in active.frames :
                   g.seq > cursor /\ \A s \in segs : s.kind = "B" => g.seq > s.max} }

Items == SegmentItems \cup ActiveItems

\* Mutant: no order among the frames of one file.
PrecedesByFile(x, y) ==
    \/ x.min < y.min
    \/ x.min = y.min /\ x.max < y.max

\* Segments in the order of (min_seq, max_seq), the active file last, the
\* frames of a file in order of their sequence numbers.
Precedes(x, y) ==
    \/ x.min < y.min
    \/ x.min = y.min /\ x.max < y.max
    \/ x.min = y.min /\ x.max = y.max /\ x.base = y.base /\ x.f.seq < y.f.seq

\* The LWW test of apply_event_memory, the same for a Node and a NodeRetract.
Older(w, c) ==
    \/ c.st \in {"live", "closed"} /\ c.clock > w.clock
    \/ c.st = "dead" /\ c.clock >= w.clock

\* apply_event_memory.  Base frames and the frames of schema 5 are plain graph
\* events and pass the LWW test; schema-6 frames are transactions and do not.
Replayed(x, c) ==
    IF (x.base \/ Schema = 5) /\ Older(x.f, c) THEN c ELSE CellOf(x.f)

\* Mutant: replay leaves the logical clock alone.
ReplayFrameOldClock(x) ==
    /\ phase = "replay"
    /\ x \in Items \ done
    /\ \A y \in Items \ done : ~Precedes(y, x)
    /\ mem' = [mem EXCEPT ![x.f.key] = Replayed(x, @)]
    /\ done' = done \cup {x}
    /\ UNCHANGED << disk, phase, logical_clock, commit_sequence, next_seq,
                    recovery_required, cursor, pc, wpc, cur, job, aged, was,
                    want, unsure >>

ReplayFrame(x) ==
    /\ phase = "replay"
    /\ x \in Items \ done
    /\ \A y \in Items \ done : ~Precedes(y, x)
    /\ mem' = [mem EXCEPT ![x.f.key] = Replayed(x, @)]
    /\ logical_clock' = IF x.f.clock > logical_clock THEN x.f.clock
                        ELSE logical_clock
    /\ done' = done \cup {x}
    /\ UNCHANGED << disk, phase, commit_sequence, next_seq, recovery_required,
                    cursor, pc, wpc, cur, job, aged, was, want, unsure >>

\* Recovery gave the record the state it was last confirmed to have, or the one
\* a call without a confirmed outcome would have given it.
Explained(k) ==
    \/ mem[k] = want[k]
    \/ \E w \in unsure : w.key = k /\ mem[k] = CellOf(w)

\* All is replayed: recovery is complete.
Recovered == phase = "replay" /\ Items \subseteq done

OpenDone ==
    /\ Recovered
    /\ phase' = "ready"
    /\ cursor' = -1
    /\ done' = {}
    /\ want' = [k \in Keys |-> IF Explained(k) THEN mem[k] ELSE want[k]]
    /\ unsure' = {}
    /\ UNCHANGED << disk, mem, logical_clock, commit_sequence, next_seq,
                    recovery_required, pc, wpc, cur, job, aged, was >>

----------------------------------------------------------------------------
(* Thirty days pass: the retraction of k, and every earlier one, leaves    *)
(* its retention window.                                                   *)

RetentionPasses(k) ==
    /\ pc = "idle"
    /\ want[k].st = "dead" /\ want[k].clock > aged
    /\ aged' = want[k].clock
    /\ UNCHANGED << disk, session, mem, logical_clock, commit_sequence,
                    next_seq, pc, wpc, cur, job, was, want, unsure >>

ClientStep ==
    \/ Apply \/ SupersedeNext \/ ApplyFails
    \/ CompactReturns \/ SnapshotNext \/ SnapshotSwap \/ SnapshotPublish
    \/ SnapshotFails

WriterStep ==
    \/ WriterAppend \/ WriterAppendFails
    \/ SealNothing \/ SealWrite \/ SealWriteFails
    \/ FoldWriteBase \/ FoldWriteBaseFails
    \/ (\E s \in segs : FoldRemove(s)) \/ FoldRemoved
    \/ ResetTruncate \/ ResetTruncateFails \/ ResetHeader \/ ResetHeaderFails

OpenStep ==
    \/ OpenRefused \/ OpenWithSnapshot \/ OpenWithoutSnapshot
    \/ (\E x \in Items : ReplayFrame(x)) \/ OpenDone

Next ==
    \/ \E k \in Keys : AddNode(k) \/ RetractNode(k) \/ SupersedeNode(k)
    \/ Compact \/ SaveState \/ SaveStateNoFold
    \/ ClientStep \/ WriterStep \/ OpenStep
    \/ Crash
    \/ \E k \in Keys : RetentionPasses(k)

\* The writer thread and the caller that holds commit_lock keep running.
Fairness == WF_vars(ClientStep) /\ WF_vars(WriterStep)

Spec == Init /\ [][Next]_vars

FairSpec == Spec /\ Fairness

----------------------------------------------------------------------------
(* Properties.                                                             *)

\* The type of every variable; in particular a segment never claims a sequence
\* number past the ones the writer thread has handed out.
TypeOK ==
    /\ segs \subseteq Segment
    /\ active \in ActiveFile
    /\ snap \in Snapshot
    /\ phase \in {"down", "refused", "replay", "ready"}
    /\ mem \in [Keys -> Cell]
    /\ logical_clock \in Clocks
    /\ commit_sequence \in Seqs
    /\ next_seq \in 0 .. MaxSeq + 1
    /\ recovery_required \in BOOLEAN
    /\ cursor \in -1 .. MaxSeq
    /\ done \subseteq Item
    /\ pc \in {"idle", "append", "append_close", "acked", "acked_close",
               "fold", "fold_ok", "fold_failed", "snapshot", "publish"}
    /\ wpc \in {"idle", "seal", "seal_reset", "seal_header", "fold_remove",
                "fold_reset", "fold_header"}
    /\ cur \in Write \cup {NoWrite}
    /\ job \in {"none", "compact", "save"}
    /\ aged \in Clocks
    /\ was \in [Keys -> Cell]
    /\ want \in [Keys -> Cell]
    /\ unsure \subseteq Write

\* A confirmed write is never lost: whatever crashed, failed or was torn, and
\* whether the snapshot is used or not, a recovery brings back every live
\* record and every retraction inside its retention window (invariants I1, I8
\* and I9 of the journal: append_wal_event, journal_seal_active, journal_fold,
\* save_state, replay_journal).
NoLostWrite ==
    Recovered => \A k \in Keys : Kept(want[k]) => Explained(k)

\* A segment a finished fold would have removed.
Stale(s) == \E b \in segs : b.kind = "B" /\ s # b /\ s.min <= b.max

\* Once no stale segment is left beside the base, a recovery brings back no
\* record that was deleted or superseded: a live record it finds is one the
\* clients know of.
NoResurrection ==
    Recovered /\ ~(\E s \in segs : Stale(s)) =>
        \A k \in Keys : mem[k].st = "live" => mem[k] = was[k] \/ Explained(k)

\* The frames of the whole journal.
AllFrames == active.frames \cup UNION {s.frames : s \in segs}

\* A new write is newer than anything a later replay can meet: once recovered,
\* the logical clock is not behind any frame on disk nor any record in memory
\* (next_clock, try_load_state, apply_event_memory).
ClockIsFresh ==
    phase = "ready" =>
        /\ \A f \in AllFrames : f.clock <= logical_clock
        /\ \A k \in Keys : mem[k].clock <= logical_clock

\* Whenever a fold may start, its frontier covers every frame in the journal:
\* otherwise the base would be placed below a frame it already contains, or
\* above one it does not (stable_frontier, journal_max_seq).
FrontierCovers ==
    Free => /\ next_seq = commit_sequence + 1
            /\ \A f \in AllFrames : f.seq <= commit_sequence

\* What a checkpoint writes down is what the clients were told: when a fold or
\* a snapshot may start, memory has every confirmed record, and no event of an
\* unconfirmed call is in the journal beyond it.
CheckpointIsComplete ==
    Free => /\ unsure = {}
            /\ \A k \in Keys : Kept(want[k]) => mem[k] = want[k]

\* Some file of the journal has reached sequence number q.
JournalReaches(q) ==
    q = 0 \/ (\E s \in segs : s.max >= q) \/ (\E f \in active.frames : f.seq >= q)

\* The journal never falls behind the snapshot: a snapshot that would be loaded
\* has a frontier that the journal has reached, so frames written after the
\* next open are above the replay cursor (save_state, try_load_state).
SnapshotNotAhead == snap.st = "valid" => JournalReaches(snap.frontier)

\* history_horizon never moves back, not even across crashes and reopens.
HorizonNeverRecedes ==
    [][\A h \in Seqs : IsHorizon(h) => \E s \in segs' : s.kind = "B" /\ s.max >= h]_vars

\* A call never waits forever for the writer thread.
CallsReturn == pc # "idle" ~> pc = "idle"

\* The format's promise that every crash window is safe, because replay skips
\* by sequence number: an open is never refused (journal_seal_active,
\* journal_fold, preflight_schema6_activation).
EveryCrashWindowOpens == phase # "refused"

============================================================================
