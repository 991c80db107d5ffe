----------------------------- MODULE Migration -----------------------------
(***************************************************************************)
(* The offline migration of a schema-5 database to schema 6                *)
(* (migrate_schema5_to6, src/src/lib.rs), and what the opens, checkpoints  *)
(* and folds of an ordinary handle make of the evidence it leaves.         *)
(*                                                                         *)
(* A migration is spread over four durable places: the sidecar marker      *)
(* schema6_migration.json, the upgrade fields of state.json, signed frames *)
(* in the journal (chunks, commit, generation receipt, activation), and    *)
(* rows in the SQLite projection.  A process may stop between any two.     *)
(*                                                                         *)
(* Only what tells these places apart is kept of the data.  An ordinary    *)
(* mutation is a frame without content; the digest of a snapshot is known  *)
(* by the frontier it contains; a generation is known by its id and its    *)
(* wal_frontier, and is published at the sequence number after that.       *)
(* Seals, and the crash windows inside one fold, are those of Journal.     *)
(***************************************************************************)
EXTENDS Integers, FiniteSets

CONSTANTS
    Manifests,   \* manifests a dry run may issue
    Chunks,      \* chunks of 256 baseline records in the source
    MaxSeq,      \* bound on frame sequence numbers
    MaxCrashes,  \* bound on crashes and failed steps
    Budget       \* bound on frames of ordinary handles

None == "none"
Torn == "torn"

ASSUME MigrationAssumption ==
    /\ Chunks \in Nat \ {0}
    /\ MaxSeq \in Nat
    /\ MaxCrashes \in Nat
    /\ Budget \in Nat
    /\ None \notin Manifests /\ Torn \notin Manifests

VARIABLES
    \* ---- on disk ----
    log,       \* the frames of the journal
    last,      \* journal_max_seq
    marker,    \* schema6_migration.json: None, Torn, or a manifest
    state,     \* state.json
    proj,      \* the migration's rows in the projection
    projFile,  \* projection.sqlite has the digest state.json gives for it
    synced,    \* the projection has the fingerprint of the journal's files
    \* ---- in the process ----
    pc,        \* "down", an ordinary handle's step, or a migration's
    who,       \* the manifest the migration runs with
    version,   \* storage_schema_version
    act,       \* schema6_activation
    gen,       \* published_generation
    at,        \* commit_seq of migrate_schema5_to6
    \* ---- the world ----
    approved,  \* the source_frontier of each manifest, -1 before its dry run
    budget,
    crashes,
    late,      \* a process stopped where the evidence was half written
    refused    \* a migration with the marker's own manifest was refused

journal == << log, last, synced >>
handle  == << who, version, act, gen, at >>
world   == << approved, budget, crashes, late, refused >>
vars == << log, last, marker, state, proj, projFile, synced, pc, who, version,
           act, gen, at, approved, budget, crashes, late, refused >>

----------------------------------------------------------------------------
(* Data.                                                                   *)

ChunkIds == 0 .. Chunks - 1
Seqs     == 0 .. MaxSeq
Kinds    == {"write", "chunk", "commit", "gen", "act"}

\* A frame of the journal, or an event of a base segment (base), which is
\* stamped with the fold's frontier.
Frame == [seq : Seqs, base : BOOLEAN, kind : Kinds, m : Manifests \cup {None},
          i : ChunkIds, at : Seqs, id : Seqs]

FrameAt(seq, kind, m, i, a, id) ==
    [seq |-> seq, base |-> FALSE, kind |-> kind, m |-> m, i |-> i, at |-> a,
     id |-> id]

Of(kind) == {f \in log : f.kind = kind}

\* GenerationInfo.
Generation == [id : Seqs, at : Seqs]
NoGen      == [id |-> 0, at |-> 0]
GenOf(f)   == [id |-> f.id, at |-> f.at]

\* Schema6MigrationActivationV1: the manifest, the commit, the receipt.
Proof    == [m : Manifests \cup {None}, at : Seqs, id : Seqs]
NoProof  == [m |-> None, at |-> 0, id |-> 0]
ProofOf(f) == [m |-> f.m, at |-> f.at, id |-> f.id]

\* state.json: schema_version, upgrade_state, migration_id, the migration's
\* receipt fields, the frontier, the p6 generation, and whether the component
\* files beside it still have their digests.
StateFile == [schema : {5, 6}, up : {None, "in_progress", "ready"},
              m : Manifests \cup {None}, proof : Proof, snap : Seqs,
              gen : Generation, comp : BOOLEAN]

\* hql2_schema6_migrations and hql2_schema6_migration_chunks.
Rows   == [m : Manifests \cup {None}, rows : SUBSET ChunkIds,
           st : {None, "in_progress", "committed"}, at : Seqs]
NoRows == [m |-> None, rows |-> {}, st |-> None, at |-> 0]

Init ==
    /\ log = {} /\ last = 0 /\ synced = TRUE
    /\ marker = None
    /\ state = [schema |-> 5, up |-> None, m |-> None, proof |-> NoProof,
                snap |-> 0, gen |-> NoGen, comp |-> TRUE]
    /\ proj = NoRows /\ projFile = TRUE
    /\ pc = "down"
    /\ who = None /\ version = 5 /\ act = NoProof /\ gen = NoGen /\ at = 0
    /\ approved = [m \in Manifests |-> -1]
    /\ budget = Budget
    /\ crashes = 0 /\ late = FALSE /\ refused = FALSE

----------------------------------------------------------------------------
(* Pieces of a handle's work.                                              *)

\* append_wal_event.
Append(f) ==
    /\ last < MaxSeq
    /\ log' = log \cup {f}
    /\ last' = last + 1
    /\ synced' = FALSE

\* A row changes in SQLite; its own checkpoint may reach the main file or not.
Touch == projFile' \in {projFile, FALSE}

\* Mutant: the fields of an earlier, ready state.json are not carried over.
SavedAfresh ==
    [schema |-> version, snap |-> last, gen |-> gen, comp |-> TRUE,
     up |-> IF version = 5 THEN None
            ELSE IF marker # None THEN "in_progress" ELSE "ready",
     m  |-> IF version = 5 THEN None ELSE marker,
     proof |-> NoProof]

\* save_state_checkpoint: the state.json it writes.
Saved ==
    LET carried == version = 6 /\ marker = None /\ state.up = "ready" IN
    [schema |-> version, snap |-> last, gen |-> gen, comp |-> TRUE,
     up |-> IF version = 5 THEN None
            ELSE IF marker # None THEN "in_progress" ELSE "ready",
     m  |-> IF act # NoProof THEN act.m
            ELSE IF version = 5 THEN None
            ELSE IF carried THEN state.m ELSE marker,
     proof |-> IF act # NoProof THEN act
               ELSE IF carried THEN state.proof ELSE NoProof]

Save == state' = Saved /\ projFile' = TRUE

\* Component files of the snapshot on disk differ from what memory would write.
Dirty == \E f \in Of("write") : f.seq > state.snap

\* scan_journal's order, for the events of a base segment as well.
Rank(f) == CASE f.kind = "write"  -> 0
             [] f.kind = "chunk"  -> 1
             [] f.kind = "commit" -> 2
             [] f.kind = "gen"    -> 3
             [] f.kind = "act"    -> 4
Before(f, g) == f.seq < g.seq \/ (f.base /\ g.base /\ Rank(f) < Rank(g))

\* preflight_schema6_activation: one activation, and before it, in this order,
\* all chunks, the commit and the receipt it names, each at its own place.
ActivationHolds(a) ==
    /\ Of("act") = {a}
    /\ \A f \in Of("chunk") : f.m = a.m
    /\ \A c \in Of("commit") : c.m = a.m /\ c.at = a.at
    /\ \E c \in Of("commit"), g \in Of("gen") :
          /\ g.id = a.id /\ g.at = a.at
          /\ c.base \/ c.seq = c.at
          /\ g.base \/ g.seq = g.at + 1
          /\ Before(c, g) /\ Before(g, a)
          /\ \A i \in ChunkIds : \E f \in Of("chunk") : f.i = i /\ Before(f, c)

\* validate_schema6_migration_authority of the state file st, with the rows p.
Authority(st, p) ==
    /\ st.up = "ready" /\ st.m # None
    /\ \A f \in Of("chunk") : f.m = st.m
    /\ \A c \in Of("commit") : c.m = st.m /\ c.at = st.proof.at
    /\ Of("commit") # {}
    /\ \A i \in ChunkIds : \E f \in Of("chunk") : f.i = i
    /\ \E g \in Of("gen") : g.id = st.proof.id /\ g.at = st.proof.at
    /\ p = [m |-> st.m, rows |-> ChunkIds, st |-> "committed",
            at |-> st.proof.at]

----------------------------------------------------------------------------
(* Recovery: what any open does with the snapshot, the tail of the journal *)
(* and the projection.                                                     *)

\* The newest generation among the frames up to q.
IsLatest(g, q) ==
    LET gens == {GenOf(f) : f \in {h \in Of("gen") : h.seq <= q}} IN
    /\ g \in gens \cup {NoGen}
    /\ \A h \in gens : h.id <= g.id

\* try_load_state, and the checks before it: no base segment is newer, the
\* components have their digests, the p6 generation is the journal's.
SnapshotLoads ==
    /\ state.comp
    /\ IsLatest(state.gen, state.snap)
    /\ ~ \E f \in log : f.base /\ f.seq > state.snap

Tail == IF SnapshotLoads THEN {f \in log : f.seq > state.snap} ELSE log

TailChunks  == {f \in Tail : f.kind = "chunk"}
TailCommits == {f \in Tail : f.kind = "commit"}

\* The chunks that have a row once the tail is replayed up to q.  In the order of
\* the journal apply_schema6_migration_chunk passes over a chunk that has its
\* row, adds the one that follows the rows, and refuses any other.
RowsBy(q) ==
    proj.rows \cup
    { i \in ChunkIds : \E t \in [0 .. i -> {f.seq : f \in TailChunks}] :
        \A j \in (0 .. i) \ proj.rows :
            /\ t[j] <= q
            /\ \E f \in TailChunks : f.i = j /\ f.seq = t[j]
            /\ \A k \in (0 .. j - 1) \ proj.rows : t[k] <= t[j] }

\* "migration chunk gap".
ChunkGap == \E f \in TailChunks : f.i \notin RowsBy(f.seq)

\* A chunk is refused as well once the rows are committed, and so is a commit
\* that lacks a chunk or is not the stored one.  A frame that is refused sets
\* recovery_required, and the replay goes on.
ReplayFails ==
    \/ ChunkGap
    \/ \E f \in TailChunks : \/ proj.st = "committed"
                             \/ \E c \in TailCommits : c.seq < f.seq
    \/ \E c \in TailCommits : \/ proj.st = "committed" /\ c.at # proj.at
                              \/ proj.st # "committed" /\ RowsBy(c.seq) # ChunkIds
                              \/ \E d \in TailCommits : d.at # c.at

\* The rows after the replay.
Replayed ==
    LET rows == RowsBy(MaxSeq)
        done == {c \in TailCommits : RowsBy(c.seq) = ChunkIds}
        m    == (CHOOSE f \in TailChunks \cup TailCommits : TRUE).m
    IN  IF proj.st = "committed" \/ (done = {} /\ rows = proj.rows) THEN proj
        ELSE IF done = {}
             THEN [m |-> m, rows |-> rows, st |-> "in_progress", at |-> 0]
             ELSE LET c == CHOOSE d \in done : \A e \in done : d.seq <= e.seq
                  IN [m |-> m, rows |-> rows, st |-> "committed", at |-> c.at]

\* projection_sync_on_open: a snapshot that was not loaded, or whose digest of
\* the projection does not hold, makes it replay the journal into an empty
\* projection, and that replay has no case for migration frames.
Rebuilt == ~SnapshotLoads \/ ~projFile

Recovered == IF Rebuilt THEN NoRows ELSE Replayed

\* A projection that was rebuilt, or brought up to the journal's fingerprint,
\* is published into the main file.
Recover ==
    /\ proj' = Recovered
    /\ projFile' = (~Rebuilt /\ synced)
    /\ synced' = TRUE

Reset == who' = None /\ version' = 5 /\ act' = NoProof /\ gen' = NoGen /\ at' = 0

----------------------------------------------------------------------------
(* An ordinary handle.                                                     *)

\* Mutant: the sidecar marker is not looked at.
GateOfStateOnly == state.up # "in_progress"

\* validate_schema_upgrade_state.
Gate == marker = None /\ state.up # "in_progress"

\* The activation an ordinary open reads from the journal, for schema 6.
Activated(a) == IF state.schema = 6
                THEN \E f \in Of("act") : ActivationHolds(f) /\ a = ProofOf(f)
                ELSE a = NoProof

Opens(a) ==
    /\ Gate
    /\ Activated(a)
    /\ ~ReplayFails
    /\ state.schema = 6 => Authority(state, Recovered) /\ state.proof = a

OpenOrdinary ==
    /\ pc = "down"
    /\ \E a \in {NoProof} \cup {ProofOf(f) : f \in Of("act")} : Opens(a) /\ act' = a
    /\ \E g \in {NoGen} \cup {GenOf(f) : f \in Of("gen")} :
          IsLatest(g, last) /\ gen' = g
    /\ Recover
    /\ version' = state.schema
    /\ pc' = "open"
    /\ UNCHANGED << log, last, marker, state, who, at, world >>

\* The gate lets the open pass, recovery has run, and the handle is not given
\* out; recovery_required keeps its Drop from saving.
OpenFails ==
    /\ pc = "down"
    /\ Gate
    /\ \E a \in {NoProof} \cup {ProofOf(f) : f \in Of("act")} :
          Activated(a) /\ ~Opens(a)
    /\ Recover
    /\ UNCHANGED << log, last, marker, state, pc, handle, world >>

\* Any mutation: the frame, then the projection.
Write ==
    /\ pc = "open" /\ budget > 0
    /\ Append(FrameAt(last + 1, "write", None, 0, 0, 0))
    /\ Touch
    /\ budget' = budget - 1
    /\ UNCHANGED << marker, state, proj, pc, handle, approved, crashes, late,
                    refused >>

\* publish_generation_unlocked: a snapshot of the frontier, then the receipt.
Publish ==
    /\ Save
    /\ gen' = [id |-> gen.id + 1, at |-> last]
    /\ Append(FrameAt(last + 1, "gen", None, 0, last, gen.id + 1))

PublishGeneration ==
    /\ pc = "open" /\ budget > 0
    /\ gen = NoGen \/ gen.at + 1 # last
    /\ Publish
    /\ budget' = budget - 1
    /\ UNCHANGED << marker, proj, pc, who, version, act, at, approved, crashes,
                    late, refused >>

Folded(f) == [f EXCEPT !.seq = last, !.base = TRUE]

\* Mutant: of the receipts, a fold keeps the current generation only.
FoldCurrentOnly ==
    /\ pc = "open"
    /\ log' = {Folded(f) : f \in {g \in log : g.kind # "gen" \/ GenOf(g) = gen}}
    /\ synced' = FALSE
    /\ pc' = "folded"
    /\ UNCHANGED << last, marker, state, proj, projFile, handle, world >>

\* build_compacted_wal and the fold: the journal is one base segment with the
\* live records, the migration's frames and its receipt, the current generation
\* and the activation.
Fold ==
    /\ pc = "open"
    /\ log' = {Folded(f) : f \in {g \in log : g.kind # "gen" \/ GenOf(g) = gen
                                     \/ (state.m # None /\ g.id = state.proof.id)}}
    /\ synced' = FALSE
    /\ pc' = "folded"
    /\ UNCHANGED << last, marker, state, proj, projFile, handle, world >>

\* The component files are replaced, state.json is not yet.
Swap ==
    /\ pc \in {"open", "folded"}
    /\ state' = [state EXCEPT !.comp = @ /\ ~Dirty]
    /\ Touch
    /\ pc' = "swapped"
    /\ UNCHANGED << journal, marker, proj, handle, world >>

PublishState ==
    /\ pc = "swapped"
    /\ Save
    /\ pc' = "open"
    /\ UNCHANGED << journal, marker, proj, handle, world >>

\* Mutant: a handle is dropped without a last save.
CloseUnsaved ==
    /\ pc \in {"open", "drop"}
    /\ Reset
    /\ pc' = "down"
    /\ UNCHANGED << journal, marker, state, proj, projFile, world >>

\* Drop for Storage, for an ordinary handle and at the end of a migration call.
Close ==
    /\ pc \in {"open", "drop"}
    /\ Save
    /\ Reset
    /\ pc' = "down"
    /\ UNCHANGED << journal, marker, proj, world >>

\* schema6_migration_dry_run: export_backup saves a snapshot of the frontier.
DryRun(m) ==
    /\ pc = "open" /\ version = 5 /\ state.schema = 5
    /\ approved[m] = -1
    /\ Save
    /\ approved' = [approved EXCEPT ![m] = last]
    /\ UNCHANGED << journal, marker, proj, pc, handle, budget, crashes, late,
                    refused >>

----------------------------------------------------------------------------
(* migrate_schema5_to6.                                                    *)

\* The call has no marker to resume: the source must be what was approved.
MigrateBegin(m) ==
    /\ pc = "open" /\ version = 5 /\ state.schema = 5
    /\ approved[m] = last
    /\ state.snap = last /\ state.comp /\ projFile
    /\ who' = m
    /\ pc' = "create"
    /\ UNCHANGED << journal, marker, state, proj, projFile, version, act, gen,
                    at, world >>

\* begin_schema6_migration: create_new, then the content, then state.json.
MarkerCreate ==
    /\ pc = "create"
    /\ marker' = Torn
    /\ pc' = "write"
    /\ UNCHANGED << journal, state, proj, projFile, handle, world >>

MarkerWrite ==
    /\ pc = "write"
    /\ marker' = who
    /\ pc' = "cutover"
    /\ UNCHANGED << journal, state, proj, projFile, handle, world >>

CutOver ==
    /\ pc = "cutover"
    /\ state' = [state EXCEPT !.schema = 6, !.up = "in_progress", !.m = who]
    /\ version' = 6
    /\ pc' = "checkpoint"
    /\ UNCHANGED << journal, marker, proj, projFile, who, act, gen, at, world >>

Checkpoint ==
    /\ pc \in {"checkpoint", "checkpoint2"}
    /\ Save
    /\ pc' = IF pc = "checkpoint" THEN "chunks" ELSE "receipt"
    /\ UNCHANGED << journal, marker, proj, handle, world >>

\* A chunk that has its row is passed over; the next one is appended.
NextChunk(i) == i \in ChunkIds \ proj.rows /\ \A j \in 0 .. i - 1 : j \in proj.rows

AppendChunk(i) ==
    /\ pc = "chunks"
    /\ NextChunk(i)
    /\ Append(FrameAt(last + 1, "chunk", who, i, 0, 0))
    /\ pc' = "chunk"
    /\ UNCHANGED << marker, state, proj, projFile, handle, world >>

\* Mutant: the rows are numbered from one.
ApplyChunkFromOne(i) ==
    /\ pc = "chunk"
    /\ NextChunk(i)
    /\ proj' = [m |-> who, rows |-> proj.rows \cup {i + 1}, st |-> "in_progress",
                at |-> 0]
    /\ Touch
    /\ pc' = "chunks"
    /\ UNCHANGED << journal, marker, state, handle, world >>

ApplyChunk(i) ==
    /\ pc = "chunk"
    /\ NextChunk(i)
    /\ proj' = [m |-> who, rows |-> proj.rows \cup {i}, st |-> "in_progress",
                at |-> 0]
    /\ Touch
    /\ pc' = "chunks"
    /\ UNCHANGED << journal, marker, state, handle, world >>

AppendCommit ==
    /\ pc = "chunks"
    /\ proj.rows = ChunkIds /\ proj.st = "in_progress"
    /\ Append(FrameAt(last + 1, "commit", who, 0, last + 1, 0))
    /\ at' = last + 1
    /\ pc' = "commit"
    /\ UNCHANGED << marker, state, proj, projFile, who, version, act, gen, world >>

\* Mutant: the rows do not say at which frame they were committed.
ApplyCommitUnplaced ==
    /\ pc = "commit"
    /\ proj' = [proj EXCEPT !.st = "committed"]
    /\ Touch
    /\ pc' = "checkpoint2"
    /\ UNCHANGED << journal, marker, state, handle, world >>

ApplyCommit ==
    /\ pc = "commit"
    /\ proj' = [proj EXCEPT !.st = "committed", !.at = at]
    /\ Touch
    /\ pc' = "checkpoint2"
    /\ UNCHANGED << journal, marker, state, handle, world >>

AlreadyCommitted ==
    /\ pc = "chunks"
    /\ proj.st = "committed"
    /\ at' = proj.at
    /\ pc' = "checkpoint2"
    /\ UNCHANGED << journal, marker, state, proj, projFile, who, version, act,
                    gen, world >>

PublishReceipt ==
    /\ pc = "receipt"
    /\ gen = NoGen \/ gen.at + 1 # last
    /\ Publish
    /\ pc' = "check"
    /\ UNCHANGED << marker, proj, who, version, act, at, world >>

KeepReceipt ==
    /\ pc = "receipt"
    /\ gen # NoGen /\ gen.at + 1 = last
    /\ pc' = "check"
    /\ UNCHANGED << journal, marker, state, proj, projFile, handle, world >>

\* The receipt is that of the commit, and its digest that of the snapshot just
\* saved.
ReceiptMatches == gen.at = at /\ gen.at = state.snap

\* The call returns a refusal; Drop still saves.
Refuse ==
    /\ refused' = TRUE
    /\ pc' = "drop"
    /\ UNCHANGED << journal, marker, state, proj, projFile, handle, approved,
                    budget, crashes, late >>

ReceiptMismatch ==
    /\ pc = "check"
    /\ ~ReceiptMatches
    /\ Refuse

\* install_schema6_activation.
InstallActivation ==
    /\ pc = "check"
    /\ ReceiptMatches
    /\ Of("act") = {}
    /\ act' = [m |-> who, at |-> at, id |-> gen.id]
    /\ Append(FrameAt(last + 1, "act", who, 0, at, gen.id))
    /\ pc' = "ready"
    /\ UNCHANGED << marker, state, proj, projFile, who, version, gen, at, world >>

ActivationConflict ==
    /\ pc = "check"
    /\ ReceiptMatches
    /\ Of("act") # {}
    /\ Refuse

\* finalize_schema6_migration: state.json, rewritten in place of the snapshot's.
WriteReady ==
    /\ pc = "ready"
    /\ state' = [state EXCEPT !.up = "ready", !.proof = act, !.gen = gen]
    /\ pc' = "authority"
    /\ UNCHANGED << journal, marker, proj, projFile, handle, world >>

CheckAuthority ==
    /\ pc = "authority"
    /\ Authority(state, proj)
    /\ pc' = "unmark"
    /\ UNCHANGED << journal, marker, state, proj, projFile, handle, world >>

AuthorityFails ==
    /\ pc = "authority"
    /\ ~Authority(state, proj)
    /\ Refuse

RemoveMarker ==
    /\ pc = "unmark"
    /\ marker' = None
    /\ pc' = "drop"
    /\ UNCHANGED << journal, state, proj, projFile, handle, world >>

----------------------------------------------------------------------------
(* Resuming with the manifest of the marker.                               *)

\* validate_schema6_migration_resume.
Resumes(m) ==
    /\ pc = "down"
    /\ marker = m
    /\ \/ state.schema = 5 /\ state.m = None
       \/ state.schema = 6 /\ state.m = m

\* open_schema6_migration.  A source that was not cut over is given a snapshot
\* of the new schema by the open itself; a ready one is only cleaned up.
MigrateResume(m) ==
    /\ Resumes(m)
    /\ ~ReplayFails
    /\ proj' = Recovered /\ synced' = TRUE
    /\ who' = m /\ version' = 6
    /\ \E g \in {NoGen} \cup {GenOf(f) : f \in Of("gen")} :
          IsLatest(g, last) /\ gen' = g
    /\ IF state.schema = 5
       THEN /\ state' = [schema |-> 6, up |-> "in_progress", m |-> m,
                         proof |-> NoProof, snap |-> last, gen |-> gen',
                         comp |-> TRUE]
            /\ projFile' = TRUE
       ELSE /\ state' = state
            /\ projFile' = (~Rebuilt /\ synced)
    /\ pc' = IF state.up = "ready" THEN "authority" ELSE "cutover"
    /\ UNCHANGED << log, last, marker, act, at, world >>

\* A replay that fails ends the open; the projection is synchronised all the same.
ResumeFails(m) ==
    /\ Resumes(m)
    /\ ReplayFails
    /\ Recover
    /\ refused' = TRUE
    /\ UNCHANGED << log, last, marker, state, pc, handle, approved, budget,
                    crashes, late >>

\* SCHEMA_UPGRADE_STATE_INVALID: the marker is not readable.
ResumeInvalid ==
    /\ pc = "down"
    /\ marker = Torn
    /\ refused' = TRUE
    /\ UNCHANGED << journal, marker, state, proj, projFile, pc, handle, approved,
                    budget, crashes, late >>

----------------------------------------------------------------------------
(* A process stops, or a step of the migration returns an I/O error.       *)

\* Where a migration, or a schema-5 handle, can stop and leave nothing that the
\* next open does not expect.
Early == {"create", "cutover", "checkpoint", "chunks", "chunk"}

Harmless == pc \in Early \/ (version = 5 /\ pc # "write")

Crash ==
    /\ pc # "down"
    /\ crashes < MaxCrashes
    /\ crashes' = crashes + 1
    /\ late' = (late \/ ~Harmless)
    /\ Reset
    /\ pc' = "down"
    /\ UNCHANGED << journal, marker, state, proj, projFile, approved, budget,
                    refused >>

\* An error that leaves the handle fit to save at its Drop.  Behind a marker
\* that is half written a save fails, and after a row that could not follow its
\* frame recovery_required prevents it: those calls end like a crash.
StepFails ==
    /\ pc \notin {"down", "open", "folded", "swapped", "drop", "write", "chunk",
                  "commit"}
    /\ crashes < MaxCrashes
    /\ crashes' = crashes + 1
    /\ late' = (late \/ pc \notin Early)
    /\ pc' = "drop"
    /\ UNCHANGED << journal, marker, state, proj, projFile, handle, approved,
                    budget, refused >>

Ordinary ==
    \/ OpenOrdinary \/ OpenFails \/ Write \/ PublishGeneration
    \/ Fold \/ Swap \/ PublishState \/ Close
    \/ \E m \in Manifests : DryRun(m)

Migrate ==
    \/ MarkerCreate \/ MarkerWrite \/ CutOver \/ Checkpoint
    \/ \E i \in ChunkIds : AppendChunk(i) \/ ApplyChunk(i)
    \/ AppendCommit \/ ApplyCommit \/ AlreadyCommitted
    \/ PublishReceipt \/ KeepReceipt \/ ReceiptMismatch
    \/ InstallActivation \/ ActivationConflict
    \/ WriteReady \/ CheckAuthority \/ AuthorityFails \/ RemoveMarker

Resume == ResumeInvalid \/ \E m \in Manifests : MigrateResume(m) \/ ResumeFails(m)

Next ==
    \/ Ordinary
    \/ \E m \in Manifests : MigrateBegin(m)
    \/ Migrate \/ Resume
    \/ Crash \/ StepFails

Spec == Init /\ [][Next]_vars

\* A migration that runs goes on, its handle is dropped at the end, and the
\* operator repeats a call that was interrupted.
FairSpec ==
    Spec /\ WF_vars(Migrate) /\ WF_vars(pc = "drop" /\ Close) /\ WF_vars(Resume)

----------------------------------------------------------------------------
(* Properties.                                                             *)

\* The types of the variables.
TypeOK ==
    /\ log \subseteq Frame
    /\ last \in Seqs
    /\ marker \in Manifests \cup {None, Torn}
    /\ state \in StateFile
    /\ proj \in Rows
    /\ projFile \in BOOLEAN /\ synced \in BOOLEAN
    /\ pc \in Early \cup {"down", "open", "folded", "swapped", "drop", "write",
                          "commit", "checkpoint2", "receipt", "check", "ready",
                          "authority", "unmark"}
    /\ who \in Manifests \cup {None}
    /\ version \in {5, 6}
    /\ act \in Proof /\ gen \in Generation /\ at \in Seqs
    /\ approved \in [Manifests -> Seqs \cup {-1}]
    /\ budget \in 0 .. Budget /\ crashes \in 0 .. MaxCrashes
    /\ late \in BOOLEAN /\ refused \in BOOLEAN

\* The database is migrated: no marker, and state.json says ready.
Ready == marker = None /\ state.up = "ready"

\* A database that says it is migrated can show it from the journal alone: the
\* chunks, the commit, the receipt and the activation are there in order, through
\* every later fold, generation and save (finalize_schema6_migration,
\* build_compacted_wal, save_state_checkpoint).
ReadyIsProven ==
    Ready => \E a \in Of("act") : ActivationHolds(a) /\ state.proof = ProofOf(a)

\* What is migrated is what was approved: from the source frontier of the
\* manifest to its commit the journal has no mutation and no frame of another
\* migration, whatever other handles and other manifests tried in between
\* (validate_schema_upgrade_state, validate_schema6_migration_resume).
SourceIsApproved ==
    \A c \in Of("commit") : ~c.base =>
        /\ approved[c.m] >= 0
        /\ \A f \in log : approved[c.m] < f.seq /\ f.seq < c.seq =>
              f.kind # "write" /\ f.m \in {c.m, None}

\* A migrated database opens again, after any number of folds, generations and
\* saves, as long as no process stopped where the evidence was half written.
ReadyOpens ==
    Ready /\ pc = "down" /\ ~late => \E a \in Of("act") : Opens(ProofOf(a))

\* Migration is one way and happens once: no step takes a ready state.json back
\* to schema 5 or to an upgrade in progress, or changes the proof it carries.
ReadyIsFinal ==
    [][Ready => Ready' /\ state'.schema = 6 /\ state'.proof = state.proof]_vars

\* A migration whose marker is written reaches ready, when every call that was
\* interrupted before its commit is repeated.  One thing can shut it out for good:
\* a rebuild of the projection dropped the rows that the snapshot's frontier
\* stands for, and the chunks of the tail cannot follow what is left
\* (apply_schema6_migration_chunk, projection_sync_on_open).
MigrationCompletes ==
    [](marker \in Manifests => <>(Ready \/ late \/ [](pc = "down" /\ ChunkGap)))

\* The decision record's requirement that the migration is crash-resumable: a
\* call that repeats the manifest of a readable marker is never refused.
CrashResumable == marker \in Manifests => ~refused

============================================================================
