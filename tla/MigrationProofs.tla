-------------------------- MODULE MigrationProofs --------------------------
(***************************************************************************)
(* Proofs about Migration, for any set of manifests, any number of chunks  *)
(* and all bounds: the types, that a ready database is proven by its       *)
(* journal, that what was committed is what was approved, that a ready     *)
(* database opens again, and that ready is final.                          *)
(*                                                                         *)
(* The inductive invariant MigrationInv has one part for each place the    *)
(* evidence is kept in: the journal's frames (PlaceInv), the running call  *)
(* (CallInv), and the database before the marker (FreshInv), behind it     *)
(* (MarkedLogInv, MarkedStateInv), and after it (ReadyInv).                *)
(***************************************************************************)
EXTENDS Migration, WellFoundedInduction, TLAPS

----------------------------------------------------------------------------
(* The inductive invariant.                                                *)

\* The steps of a call between the marker and its removal.
Behind == {"cutover", "checkpoint", "chunks", "chunk", "commit", "checkpoint2",
           "receipt", "check", "ready", "authority", "unmark"}

\* The steps of an ordinary handle.
Plain == {"open", "folded", "swapped"}

Evidence == {"chunk", "commit", "act"}

\* Every frame is at or below the frontier; a receipt is behind the frontier it
\* names, directly when it is not folded; a row has its chunk's frame.
PlaceInv ==
    /\ \A f \in log : f.seq <= last
    /\ \A g \in Of("gen") : g.at < g.seq /\ g.id <= last /\ (g.base \/ g.seq = g.at + 1)
    /\ \A a, b \in Of("act") : a = b
    /\ \A f \in log : f.kind \in Evidence => f.m \in Manifests
    /\ \A i \in proj.rows : \E f \in Of("chunk") : f.i = i

\* The newest generation of the whole journal.
Newest(g) ==
    /\ g \in {GenOf(f) : f \in Of("gen")} \cup {NoGen}
    /\ \A f \in Of("gen") : f.id <= g.id

\* What the step a process is at says of the marker, the version in memory and
\* state.json.
ControlInv ==
    /\ pc = "down" => version = 5 /\ act = NoProof
    /\ pc \in Plain => marker = None
    /\ pc \in {"create", "write"} =>
          /\ who \in Manifests /\ approved[who] = last
          /\ version = 5 /\ state.schema = 5
    /\ pc = "create" => marker = None
    /\ pc = "write" => marker = Torn
    /\ marker = Torn => pc \in {"write", "down"} /\ state.schema = 5
    /\ pc \in Behind => who \in Manifests /\ marker = who
    /\ pc \in Behind \ {"cutover"} => version = 6 /\ state.schema = 6
    /\ pc = "ready" => act # NoProof
    /\ state.up = "ready" => state.schema = 6

\* The generation in memory is the journal's, its activation is in the journal,
\* and a chunk that is to be applied has its frame.
CallInv ==
    /\ ControlInv
    /\ pc # "down" => gen.id <= last /\ Newest(gen)
    /\ act # NoProof => version = 6 /\ \E a \in Of("act") : act = ProofOf(a)
    /\ pc = "chunk" => \A i \in ChunkIds : NextChunk(i) =>
                          \E f \in Of("chunk") : f.i = i

\* Without a marker and before the end of a migration nothing has happened.
FreshInv ==
    marker \notin Manifests /\ state.up # "ready" =>
        /\ version = 5 /\ state.schema = 5 /\ state.up = None
        /\ \A f \in log : f.kind \notin Evidence

\* The evidence of the marker's migration is behind the approved frontier, and
\* nothing else is but receipts; a commit is behind all chunks.
MarkedLogInv ==
    marker \in Manifests =>
        /\ approved[marker] \in 0 .. last
        /\ \A f \in log : f.seq > approved[marker] =>
              ~f.base /\ f.kind # "write" /\ f.m \in {marker, None}
        /\ \A f \in log : f.kind \in Evidence =>
              f.seq > approved[marker] /\ f.m = marker
        /\ \A c \in Of("commit") :
              /\ c.seq = c.at
              /\ \A i \in ChunkIds : \E f \in Of("chunk") : f.i = i /\ f.seq < c.seq
        /\ \A a \in Of("act") : a.at = 0 \/ a.at + 1 < a.seq

\* What state.json says is of the marker's migration.
MarkedStateInv ==
    marker \in Manifests =>
        /\ state.schema = 6 => state.m = marker
        /\ state.up = "ready" => \E a \in Of("act") : state.proof = ProofOf(a)

\* state.json names an activation that the journal holds in order.
Proven == \E a \in Of("act") : ActivationHolds(a) /\ state.proof = ProofOf(a)

\* The rows are those of the proof in state.json.
Full == proj = [m |-> state.m, rows |-> ChunkIds, st |-> "committed",
                at |-> state.proof.at]

\* A migrated database, its handle, and the snapshot a clean close left.
ReadyInv ==
    /\ pc = "unmark" => state.up = "ready" /\ Proven /\ Full
    /\ Ready =>
          /\ state.m # None /\ state.m = state.proof.m
          /\ Proven
          /\ pc # "down" => version = 6 /\ pc \in Plain \cup {"drop"}
          /\ pc # "down" => Full
          /\ pc = "down" /\ ~late =>
                /\ Full
                /\ state.comp /\ projFile
                /\ state.snap = last /\ Newest(state.gen)

MigrationInv ==
    /\ TypeOK /\ PlaceInv /\ CallInv
    /\ FreshInv /\ MarkedLogInv /\ MarkedStateInv /\ ReadyInv
    /\ SourceIsApproved

----------------------------------------------------------------------------
(* Types.                                                                  *)

\* A set of sequence numbers that is not empty has a least one.
LEMMA LeastSeq ==
    ASSUME NEW S \in SUBSET Nat, S # {}
    PROVE  \E x \in S : \A y \in S : x <= y
<1>1. \E x \in S : \A y \in S : ~ (<<y, x>> \in OpToRel(<, Nat))
  BY NatLessThanWellFounded, WFMin
<1>2. PICK x \in S : \A y \in S : ~ (<<y, x>> \in OpToRel(<, Nat))
  BY <1>1
<1>3. ASSUME NEW y \in S PROVE x <= y
  <2>1. x \in Nat /\ y \in Nat
    OBVIOUS
  <2>2. <<y, x>> \in Nat \X Nat
    BY <2>1
  <2>3. ~ (y < x)
    BY <1>2, <2>2 DEF OpToRel
  <2> QED
    BY <2>1, <2>3
<1> QED
  BY <1>3

\* A replay keeps the rows and adds only those of chunks in the tail.
LEMMA RowsByKeeps ==
    ASSUME TypeOK, NEW q
    PROVE  /\ RowsBy(q) \in SUBSET ChunkIds
           /\ \A i \in RowsBy(q) : i \in proj.rows \/ \E f \in TailChunks : f.i = i
           /\ TailChunks = {} => RowsBy(q) = proj.rows
<1>1. proj.rows \in SUBSET ChunkIds
  BY DEF TypeOK, Rows
<1>2. RowsBy(q) \in SUBSET ChunkIds
  BY <1>1 DEF RowsBy
<1>3. ASSUME NEW i \in RowsBy(q), i \notin proj.rows
      PROVE  \E f \in TailChunks : f.i = i
  <2>1. i \in (0 .. i) \ proj.rows
    BY <1>2, <1>3, MigrationAssumption DEF ChunkIds
  <2>2. PICK t \in [0 .. i -> {f.seq : f \in TailChunks}] :
          \A j \in (0 .. i) \ proj.rows :
              \E f \in TailChunks : f.i = j /\ f.seq = t[j]
    BY <1>3 DEF RowsBy
  <2> QED
    BY <2>1, <2>2
<1>4. proj.rows \subseteq RowsBy(q)
  BY DEF RowsBy
<1> QED
  BY <1>2, <1>3, <1>4

\* The rows that a replay leaves are rows.
LEMMA RecoveredType ==
    ASSUME TypeOK
    PROVE  Recovered \in Rows
<1>1. TailChunks \subseteq Frame /\ TailCommits \subseteq Frame
  BY DEF TypeOK, TailChunks, TailCommits, Tail
<1>2. NoRows \in Rows
  BY MigrationAssumption DEF NoRows, Rows, Seqs
<1>3. proj \in Rows
  BY DEF TypeOK
<1> DEFINE rows == RowsBy(MaxSeq)
           done == {d \in TailCommits : RowsBy(d.seq) = ChunkIds}
           any  == CHOOSE f \in TailChunks \cup TailCommits : TRUE
           c    == CHOOSE d \in done : \A e \in done : d.seq <= e.seq
<1>4. CASE proj.st = "committed" \/ (done = {} /\ rows = proj.rows)
  BY <1>2, <1>3, <1>4 DEF Recovered, Replayed
<1>5. CASE ~(proj.st = "committed" \/ (done = {} /\ rows = proj.rows))
  <2>1. any \in TailChunks \cup TailCommits
    <3>1. rows # proj.rows => TailChunks # {}
      BY RowsByKeeps
    <3>2. done # {} => TailCommits # {}
      OBVIOUS
    <3> HIDE DEF rows, done
    <3> QED
      BY <1>5, <3>1, <3>2
  <2>2. any.m \in Manifests \cup {None}
    BY <1>1, <2>1 DEF Frame
  <2>3. rows \in SUBSET ChunkIds
    BY RowsByKeeps
  <2>4. CASE done # {}
    <3>0. done \subseteq TailCommits
      OBVIOUS
    <3>8. Replayed = [m |-> any.m, rows |-> rows, st |-> "committed", at |-> c.at]
      BY <1>5, <2>4 DEF Replayed
    <3> HIDE DEF any, rows, done
    <3>1. {d.seq : d \in done} \in SUBSET Nat
      <4>1. ASSUME NEW d \in done PROVE d.seq \in Nat
        BY <1>1, <3>0, MigrationAssumption DEF Frame, Seqs
      <4> QED
        BY <4>1
    <3>2. {d.seq : d \in done} # {}
      BY <2>4
    <3>3. PICK x \in {d.seq : d \in done} : \A y \in {d.seq : d \in done} : x <= y
      BY <3>1, <3>2, LeastSeq
    <3>4. PICK d \in done : x = d.seq
      BY <3>3
    <3>5. \A e \in done : d.seq <= e.seq
      BY <3>3, <3>4
    <3>6. c \in done
      BY <3>4, <3>5
    <3>7. c.at \in Seqs
      BY <1>1, <3>0, <3>6 DEF Frame
    <3> HIDE DEF c
    <3> QED
      BY <1>2, <2>2, <2>3, <3>7, <3>8 DEF Recovered, Rows
  <2>5. CASE done = {}
    <3>1. Replayed = [m |-> any.m, rows |-> rows, st |-> "in_progress", at |-> 0]
      BY <1>5, <2>5 DEF Replayed
    <3> HIDE DEF c, any, rows, done
    <3> QED
      BY <1>2, <2>2, <2>3, <3>1, MigrationAssumption DEF Recovered, Rows, Seqs
  <2> QED
    BY <2>4, <2>5
<1> QED
  BY <1>4, <1>5

\* The state.json that a save writes, while no marker is half written.
LEMMA SavedType ==
    ASSUME TypeOK, marker # Torn
    PROVE  Saved \in StateFile
<1>1. NoProof \in Proof
  BY MigrationAssumption DEF NoProof, Proof, Seqs
<1>2. state.m \in Manifests \cup {None} /\ state.proof \in Proof
  BY DEF TypeOK, StateFile
<1>3. act.m \in Manifests \cup {None} /\ act \in Proof
  BY DEF TypeOK, Proof
<1>4. marker \in Manifests \cup {None}
  BY DEF TypeOK
<1>5. version \in {5, 6} /\ last \in Seqs /\ gen \in Generation
  BY DEF TypeOK
<1> QED
  BY <1>1, <1>2, <1>3, <1>4, <1>5 DEF Saved, StateFile

\* What a save leaves in each field of state.json.
LEMMA SavedFields ==
    /\ Saved.schema = version /\ Saved.snap = last /\ Saved.gen = gen
    /\ Saved.comp = TRUE
    /\ version = 5 => Saved.up = None
    /\ version # 5 /\ marker # None => Saved.up = "in_progress"
    /\ version # 5 /\ marker = None => Saved.up = "ready"
    /\ act # NoProof => Saved.m = act.m /\ Saved.proof = act
    /\ act = NoProof /\ version = 6 /\ marker # None => Saved.m = marker
    /\ act = NoProof /\ version = 6 /\ marker = None /\ state.up = "ready" =>
          Saved.m = state.m /\ Saved.proof = state.proof
<1>1. Saved.schema = version /\ Saved.snap = last /\ Saved.gen = gen
  BY DEF Saved
<1>2. Saved.comp = TRUE
  BY Zenon DEF Saved
<1>3. /\ version = 5 => Saved.up = None
      /\ version # 5 /\ marker # None => Saved.up = "in_progress"
      /\ version # 5 /\ marker = None => Saved.up = "ready"
  BY DEF Saved
<1>4. act # NoProof => Saved.m = act.m /\ Saved.proof = act
  BY DEF Saved
<1>5. act = NoProof /\ version = 6 /\ marker # None => Saved.m = marker
  <2>1. version = 6 => version # 5
    OBVIOUS
  <2> QED
    BY <2>1, Zenon DEF Saved
<1>6. act = NoProof /\ version = 6 /\ marker = None /\ state.up = "ready" =>
          Saved.m = state.m /\ Saved.proof = state.proof
  <2>1. version = 6 => version # 5
    OBVIOUS
  <2> QED
    BY <2>1, Zenon DEF Saved
<1> QED
  BY <1>1, <1>2, <1>3, <1>4, <1>5, <1>6

\* An appended frame.
LEMMA AppendType ==
    ASSUME TypeOK, NEW f \in Frame, Append(f)
    PROVE  log' \subseteq Frame /\ last' \in Seqs /\ last' = last + 1 /\ synced' \in BOOLEAN
<1>1. last \in Seqs /\ log \subseteq Frame
  BY DEF TypeOK
<1>2. last < MaxSeq /\ log' = log \cup {f} /\ last' = last + 1 /\ synced' = FALSE
  BY DEF Append
<1>3. last' \in Seqs
  BY <1>1, <1>2, MigrationAssumption DEF Seqs
<1>4. log' \subseteq Frame
  BY <1>1, <1>2
<1> QED
  BY <1>2, <1>3, <1>4

LEMMA FrameAtType ==
    ASSUME NEW s \in Seqs, NEW k \in Kinds, NEW m \in Manifests \cup {None},
           NEW i \in ChunkIds, NEW a \in Seqs, NEW id \in Seqs
    PROVE  FrameAt(s, k, m, i, a, id) \in Frame
BY DEF FrameAt, Frame

\* Every step keeps the types.
LEMMA TypeStep ==
    ASSUME TypeOK, PlaceInv, CallInv, Next
    PROVE  TypeOK'
<1> USE DEF journal, handle, world
<1>0. /\ NoGen \in Generation /\ NoProof \in Proof
      /\ 0 \in Seqs /\ 0 \in ChunkIds
  BY MigrationAssumption DEF NoGen, NoProof, Generation, Proof, Seqs, ChunkIds
<1>1. \A f \in Of("gen") : GenOf(f) \in Generation
  BY DEF TypeOK, Frame, Of, GenOf, Generation
<1>2. \A f \in Of("act") : ProofOf(f) \in Proof
  BY DEF TypeOK, Frame, Of, ProofOf, Proof
<1>3. Recovered \in Rows
  BY RecoveredType
<1>4. marker # Torn => Saved \in StateFile
  BY SavedType
<1>5. Recover => proj' \in Rows /\ projFile' \in BOOLEAN /\ synced' \in BOOLEAN
  BY <1>3, Zenon DEF Recover, TypeOK
<1>6. marker # Torn /\ Save => state' \in StateFile /\ projFile' \in BOOLEAN
  BY <1>4, Zenon DEF Save
<1>7. Touch => projFile' \in BOOLEAN
  BY DEF Touch, TypeOK
<1>8. last \in Nat /\ MaxSeq \in Nat /\ last <= MaxSeq
  BY MigrationAssumption DEF TypeOK, Seqs
<1>9. last < MaxSeq => last + 1 \in Seqs
  BY <1>8 DEF Seqs
<1>10. CASE OpenOrdinary
  <2>1. act' \in Proof /\ gen' \in Generation
    BY <1>0, <1>1, <1>2, <1>10 DEF OpenOrdinary
  <2>2. version' \in {5, 6}
    BY <1>10 DEF OpenOrdinary, TypeOK, StateFile
  <2>3. proj' \in Rows /\ projFile' \in BOOLEAN /\ synced' \in BOOLEAN
    BY <1>10, <1>5 DEF OpenOrdinary
  <2> QED
    BY <1>10, <2>1, <2>2, <2>3 DEF OpenOrdinary, TypeOK
<1>11. CASE OpenFails
  BY <1>11, <1>5 DEF OpenFails, TypeOK
<1>12. CASE Write
  <2>1. FrameAt(last + 1, "write", None, 0, 0, 0) \in Frame
    BY <1>12, <1>9, <1>0, FrameAtType DEF Write, Append, Kinds
  <2>2. log' \subseteq Frame /\ last' \in Seqs /\ synced' \in BOOLEAN
    BY <1>12, <2>1, AppendType DEF Write
  <2>3. budget' \in 0 .. Budget
    BY <1>12, MigrationAssumption DEF Write, TypeOK
  <2> QED
    BY <1>12, <1>7, <2>2, <2>3 DEF Write, TypeOK
<1>13. ASSUME Publish, marker # Torn, pc # "down"
       PROVE  /\ log' \subseteq Frame /\ last' \in Seqs /\ synced' \in BOOLEAN
              /\ state' \in StateFile /\ projFile' \in BOOLEAN /\ gen' \in Generation
  <2>1. gen.id \in Nat /\ gen.id <= last /\ last < MaxSeq
    BY <1>13, <1>8 DEF Publish, Append, TypeOK, Generation, Seqs, CallInv
  <2>2. gen.id + 1 \in Seqs /\ last \in Seqs
    BY <2>1, <1>8 DEF Seqs
  <2>3. FrameAt(last + 1, "gen", None, 0, last, gen.id + 1) \in Frame
    BY <1>0, <1>9, <2>1, <2>2, FrameAtType DEF Kinds
  <2>4. log' \subseteq Frame /\ last' \in Seqs /\ synced' \in BOOLEAN
    BY <1>13, <2>3, AppendType DEF Publish
  <2>5. gen' \in Generation
    BY <1>13, <2>2 DEF Publish, Generation
  <2> QED
    BY <1>13, <1>6, <2>4, <2>5 DEF Publish
<1>14. CASE PublishGeneration
  <2>1. marker # Torn /\ pc # "down"
    BY <1>14 DEF PublishGeneration, CallInv, ControlInv
  <2>2. budget' \in 0 .. Budget
    BY <1>14, MigrationAssumption DEF PublishGeneration, TypeOK
  <2> QED
    BY <1>14, <1>13, <2>1, <2>2 DEF PublishGeneration, TypeOK
<1>15. CASE Fold
  <2>1. ASSUME NEW f \in log PROVE Folded(f) \in Frame
    BY DEF Folded, TypeOK, Frame
  <2>2. log' \subseteq Frame
    BY <1>15, <2>1 DEF Fold
  <2> QED
    BY <1>15, <2>2 DEF Fold, TypeOK
<1>16. CASE Swap
  <2>1. (state.comp /\ ~Dirty) \in BOOLEAN
    OBVIOUS
  <2>2. state' \in StateFile
    BY <1>16, <2>1 DEF Swap, TypeOK, StateFile
  <2> QED
    BY <1>16, <1>7, <2>2 DEF Swap, TypeOK
<1>17. CASE PublishState
  <2>1. marker # Torn
    BY <1>17 DEF PublishState, CallInv, ControlInv
  <2> QED
    BY <1>17, <1>6, <2>1 DEF PublishState, TypeOK
<1>18. CASE Close
  <2>1. marker # Torn
    BY <1>18 DEF Close, CallInv, ControlInv
  <2> QED
    BY <1>18, <1>0, <1>6, <2>1 DEF Close, Reset, TypeOK
<1>19. ASSUME NEW m \in Manifests, DryRun(m) PROVE TypeOK'
  <2>1. marker # Torn
    BY <1>19 DEF DryRun, CallInv, ControlInv
  <2>2. approved' \in [Manifests -> Seqs \cup {-1}]
    BY <1>19 DEF DryRun, TypeOK
  <2> QED
    BY <1>19, <1>6, <2>1, <2>2 DEF DryRun, TypeOK
<1>20. ASSUME NEW m \in Manifests, MigrateBegin(m) PROVE TypeOK'
  BY <1>20 DEF MigrateBegin, TypeOK, Early
<1>21. CASE MarkerCreate \/ MarkerWrite
  BY <1>21 DEF MarkerCreate, MarkerWrite, CallInv, ControlInv, TypeOK, Early
<1>22. CASE CutOver
  <2>1. who \in Manifests
    BY <1>22 DEF CutOver, CallInv, ControlInv, Behind
  <2>2. state' \in StateFile
    BY <1>22, <2>1 DEF CutOver, TypeOK, StateFile
  <2> QED
    BY <1>22, <2>2 DEF CutOver, TypeOK, Early
<1>23. CASE Checkpoint
  <2>1. marker # Torn
    BY <1>23 DEF Checkpoint, CallInv, ControlInv
  <2> QED
    BY <1>23, <1>6, <2>1 DEF Checkpoint, TypeOK, Early
<1>24. ASSUME NEW i \in ChunkIds, AppendChunk(i) PROVE TypeOK'
  <2>1. FrameAt(last + 1, "chunk", who, i, 0, 0) \in Frame
    BY <1>24, <1>9, <1>0, FrameAtType DEF AppendChunk, Append, Kinds, TypeOK
  <2>2. log' \subseteq Frame /\ last' \in Seqs /\ synced' \in BOOLEAN
    BY <1>24, <2>1, AppendType DEF AppendChunk
  <2> QED
    BY <1>24, <2>2 DEF AppendChunk, TypeOK, Early
<1>25. ASSUME NEW i \in ChunkIds, ApplyChunk(i) PROVE TypeOK'
  <2>1. proj' \in Rows
    BY <1>25, <1>0 DEF ApplyChunk, TypeOK, Rows
  <2> QED
    BY <1>25, <1>7, <2>1 DEF ApplyChunk, TypeOK, Early
<1>26. CASE AppendCommit
  <2>1. FrameAt(last + 1, "commit", who, 0, last + 1, 0) \in Frame
    BY <1>26, <1>9, <1>0, FrameAtType DEF AppendCommit, Append, Kinds, TypeOK
  <2>2. log' \subseteq Frame /\ last' \in Seqs /\ synced' \in BOOLEAN /\ at' \in Seqs
    BY <1>26, <1>9, <2>1, AppendType DEF AppendCommit, Append
  <2> QED
    BY <1>26, <2>2 DEF AppendCommit, TypeOK, Early
<1>27. CASE ApplyCommit
  <2>1. proj' \in Rows
    BY <1>27 DEF ApplyCommit, TypeOK, Rows
  <2> QED
    BY <1>27, <1>7, <2>1 DEF ApplyCommit, TypeOK, Early
<1>28. CASE AlreadyCommitted
  <2>1. at' \in Seqs
    BY <1>28 DEF AlreadyCommitted, TypeOK, Rows
  <2> QED
    BY <1>28, <2>1 DEF AlreadyCommitted, TypeOK, Early
<1>29. CASE PublishReceipt
  <2>1. marker # Torn /\ pc # "down"
    BY <1>29 DEF PublishReceipt, CallInv, ControlInv
  <2> QED
    BY <1>29, <1>13, <2>1 DEF PublishReceipt, TypeOK, Early
<1>30. CASE KeepReceipt
  BY <1>30 DEF KeepReceipt, TypeOK, Early
<1>31. CASE ReceiptMismatch \/ ActivationConflict \/ AuthorityFails
  BY <1>31 DEF ReceiptMismatch, ActivationConflict, AuthorityFails, Refuse,
     TypeOK, Early
<1>32. CASE InstallActivation
  <2>1. gen.id \in Seqs
    BY DEF TypeOK, Generation
  <2>2. FrameAt(last + 1, "act", who, 0, at, gen.id) \in Frame
    BY <1>32, <1>9, <1>0, <2>1, FrameAtType DEF InstallActivation, Append, Kinds,
       TypeOK
  <2>3. log' \subseteq Frame /\ last' \in Seqs /\ synced' \in BOOLEAN
    BY <1>32, <2>2, AppendType DEF InstallActivation
  <2>4. act' \in Proof
    BY <1>32, <2>1 DEF InstallActivation, TypeOK, Proof
  <2> QED
    BY <1>32, <2>3, <2>4 DEF InstallActivation, TypeOK, Early
<1>33. CASE WriteReady
  <2>1. state' \in StateFile
    BY <1>33 DEF WriteReady, TypeOK, StateFile
  <2> QED
    BY <1>33, <2>1 DEF WriteReady, TypeOK, Early
<1>34. CASE CheckAuthority \/ RemoveMarker
  BY <1>34 DEF CheckAuthority, RemoveMarker, TypeOK, Early
<1>35. CASE ResumeInvalid
  BY <1>35 DEF ResumeInvalid, TypeOK
<1>36. ASSUME NEW m \in Manifests, MigrateResume(m) PROVE TypeOK'
  <2>1. gen' \in Generation
    BY <1>0, <1>1, <1>36 DEF MigrateResume
  <2>2. state' \in StateFile
    <3>1. CASE state.schema = 5
      <4>1. state' = [schema |-> 6, up |-> "in_progress", m |-> m,
                      proof |-> NoProof, snap |-> last, gen |-> gen', comp |-> TRUE]
        BY <1>36, <3>1 DEF MigrateResume
      <4>2. last \in Seqs /\ TRUE \in BOOLEAN
        BY DEF TypeOK
      <4> QED
        BY <1>0, <2>1, <4>1, <4>2 DEF StateFile
    <3>2. CASE state.schema # 5
      BY <1>36, <3>2 DEF MigrateResume, TypeOK
    <3> QED
      BY <3>1, <3>2
  <2>3. projFile' \in BOOLEAN
    BY <1>36, Zenon DEF MigrateResume, TypeOK
  <2> QED
    BY <1>3, <1>36, <2>1, <2>2, <2>3 DEF MigrateResume, TypeOK, Early
<1>37. ASSUME NEW m \in Manifests, ResumeFails(m) PROVE TypeOK'
  BY <1>37, <1>5 DEF ResumeFails, TypeOK
<1>38. CASE Crash
  <2>1. late' \in BOOLEAN
    BY <1>38 DEF Crash
  <2>2. crashes' \in 0 .. MaxCrashes
    BY <1>38, MigrationAssumption DEF Crash, TypeOK
  <2> QED
    BY <1>38, <1>0, <2>1, <2>2 DEF Crash, Reset, TypeOK
<1>39. CASE StepFails
  <2>1. late' \in BOOLEAN
    BY <1>39 DEF StepFails
  <2>2. crashes' \in 0 .. MaxCrashes
    BY <1>39, MigrationAssumption DEF StepFails, TypeOK
  <2> QED
    BY <1>39, <2>1, <2>2 DEF StepFails, TypeOK
<1> QED
  BY <1>10, <1>11, <1>12, <1>14, <1>15, <1>16, <1>17, <1>18, <1>19, <1>20, <1>21,
     <1>22, <1>23, <1>24, <1>25, <1>26, <1>27, <1>28, <1>29, <1>30, <1>31, <1>32,
     <1>33, <1>34, <1>35, <1>36, <1>37, <1>38, <1>39
     DEF Next, Ordinary, Migrate, Resume

----------------------------------------------------------------------------
(* The journal's frames.                                                   *)

\* A replay adds a row only for a chunk it finds in the journal.
LEMMA RecoveredRows ==
    ASSUME TypeOK, PlaceInv
    PROVE  \A i \in Recovered.rows : \E f \in Of("chunk") : f.i = i
<1>1. \A f \in TailChunks : f \in Of("chunk")
  BY DEF TailChunks, Tail, Of
<1>2. Recovered \in {NoRows, proj} \/ Recovered.rows = RowsBy(MaxSeq)
  <2>1. Recovered = NoRows \/ Recovered = Replayed
    BY DEF Recovered
  <2>2. Replayed = proj \/ Replayed.rows = RowsBy(MaxSeq)
    BY DEF Replayed
  <2> QED
    BY <2>1, <2>2
<1>3. NoRows.rows = {}
  BY DEF NoRows
<1>4. \A i \in RowsBy(MaxSeq) : i \in proj.rows \/ \E f \in TailChunks : f.i = i
  BY RowsByKeeps
<1> QED
  BY <1>1, <1>2, <1>3, <1>4 DEF PlaceInv

\* The log, its frontier and the rows are as before.
SameJournal == log' = log /\ last' = last

LEMMA SamePlace ==
    ASSUME PlaceInv, SameJournal,
           \A i \in proj'.rows : \E f \in Of("chunk") : f.i = i
    PROVE  PlaceInv'
BY DEF PlaceInv, SameJournal, Of

\* A frame is appended, and the rows stay.
LEMMA AppendedPlace ==
    ASSUME TypeOK, PlaceInv, NEW f \in Frame, Append(f), proj' = proj,
           f.seq = last + 1,
           f.kind = "gen" => f.at = last /\ f.id <= last + 1,
           f.kind = "act" => Of("act") = {},
           f.kind \in Evidence => f.m \in Manifests
    PROVE  PlaceInv'
<1>1. log' = log \cup {f} /\ last' = last + 1 /\ last \in Nat
  BY MigrationAssumption DEF Append, TypeOK, Seqs
<1>2. \A h \in log : h.seq \in Nat /\ h.seq <= last /\ h.id \in Nat
  BY MigrationAssumption DEF TypeOK, Frame, Seqs, PlaceInv
<1>3. \A h \in log' : h.seq <= last'
  BY <1>1, <1>2
<1>4. \A g \in Of("gen")' : g.at < g.seq /\ g.id <= last' /\ (g.base \/ g.seq = g.at + 1)
  <2> SUFFICES ASSUME NEW g \in log', g.kind = "gen"
               PROVE  g.at < g.seq /\ g.id <= last' /\ (g.base \/ g.seq = g.at + 1)
    BY DEF Of
  <2>1. CASE g \in log
    BY <1>1, <1>2, <2>1 DEF PlaceInv, Of
  <2>2. CASE g = f
    BY <1>1, <2>2
  <2> QED
    BY <1>1, <2>1, <2>2
<1>5. /\ \A a, b \in Of("act")' : a = b
      /\ \A h \in log' : h.kind \in Evidence => h.m \in Manifests
  BY <1>1 DEF PlaceInv, Of
<1>6. \A i \in proj'.rows : \E h \in Of("chunk")' : h.i = i
  BY <1>1 DEF PlaceInv, Of
<1> QED
  BY <1>3, <1>4, <1>5, <1>6 DEF PlaceInv

\* Every step keeps the frames in place.
LEMMA PlaceStep ==
    ASSUME TypeOK, PlaceInv, CallInv, Next, TypeOK'
    PROVE  PlaceInv'
<1> USE DEF journal, handle, world
<1>0. last \in Nat
  BY MigrationAssumption DEF TypeOK, Seqs
<1>1. \A i \in proj.rows : \E f \in Of("chunk") : f.i = i
  BY DEF PlaceInv
<1>2. ASSUME SameJournal, proj' = proj \/ proj' = Recovered \/ proj'.rows = proj.rows
      PROVE  PlaceInv'
  BY <1>1, <1>2, RecoveredRows, SamePlace
<1>3. CASE Write
  <2> DEFINE f == FrameAt(last + 1, "write", None, 0, 0, 0)
  <2>1. f \in log' /\ Append(f) /\ proj' = proj
    BY <1>3 DEF Write, Append
  <2>2. f \in Frame /\ f.seq = last + 1 /\ f.kind = "write"
    BY <2>1 DEF TypeOK, FrameAt
  <2> QED
    BY <2>1, <2>2, AppendedPlace DEF Evidence
<1>4. ASSUME Publish, pc # "down", proj' = proj PROVE PlaceInv'
  <2> DEFINE f == FrameAt(last + 1, "gen", None, 0, last, gen.id + 1)
  <2>1. f \in log' /\ Append(f)
    BY <1>4 DEF Publish, Append
  <2>2. /\ f \in Frame /\ f.seq = last + 1 /\ f.kind = "gen" /\ f.at = last
        /\ f.id = gen.id + 1
    BY <2>1 DEF TypeOK, FrameAt
  <2>3. gen.id <= last /\ gen.id \in Nat
    BY <1>4, MigrationAssumption DEF CallInv, TypeOK, Generation, Seqs
  <2>4. f.id <= last + 1
    BY <1>0, <2>2, <2>3
  <2> QED
    BY <1>4, <2>1, <2>2, <2>4, AppendedPlace DEF Evidence
<1>5. CASE PublishGeneration \/ PublishReceipt
  BY <1>4, <1>5 DEF PublishGeneration, PublishReceipt
<1>6. CASE Fold
  <2>1. /\ last' = last /\ proj' = proj
        /\ \A h \in log' : \E f \in log : h = Folded(f)
        /\ \A f \in log : f.kind # "gen" => Folded(f) \in log'
    BY <1>6 DEF Fold
  <2>2. \A f \in log : /\ Folded(f).seq = last /\ Folded(f).base = TRUE
                       /\ Folded(f).kind = f.kind /\ Folded(f).m = f.m
                       /\ Folded(f).i = f.i /\ Folded(f).at = f.at
                       /\ Folded(f).id = f.id
    BY DEF Folded, TypeOK, Frame
  <2>3. \A f \in log : f.seq \in Nat /\ f.at \in Nat /\ f.seq <= last
    BY MigrationAssumption DEF TypeOK, Frame, Seqs, PlaceInv
  <2>4. \A h \in log' : h.seq <= last'
    BY <1>0, <2>1, <2>2
  <2>5. ASSUME NEW g \in Of("gen")'
        PROVE  g.at < g.seq /\ g.id <= last' /\ (g.base \/ g.seq = g.at + 1)
    <3>1. PICK f \in log : g = Folded(f)
      BY <2>1 DEF Of
    <3>2. f \in Of("gen")
      BY <2>2, <3>1 DEF Of
    <3>3. f.at < f.seq /\ f.id <= last
      BY <3>2 DEF PlaceInv
    <3> QED
      BY <1>0, <2>1, <2>2, <2>3, <3>1, <3>3
  <2>6. /\ \A a, b \in Of("act")' : a = b
        /\ \A h \in log' : h.kind \in Evidence => h.m \in Manifests
    BY <2>1, <2>2 DEF PlaceInv, Of
  <2>7. \A i \in proj'.rows : \E h \in Of("chunk")' : h.i = i
    <3> TAKE i \in proj'.rows
    <3>1. PICK f \in Of("chunk") : f.i = i
      BY <1>1, <2>1
    <3> QED
      BY <2>1, <2>2, <3>1 DEF Of
  <2> QED
    BY <2>4, <2>5, <2>6, <2>7 DEF PlaceInv
<1>7. ASSUME NEW i \in ChunkIds, AppendChunk(i) PROVE PlaceInv'
  <2> DEFINE f == FrameAt(last + 1, "chunk", who, i, 0, 0)
  <2>1. f \in log' /\ Append(f) /\ proj' = proj
    BY <1>7 DEF AppendChunk, Append
  <2>2. f \in Frame /\ f.seq = last + 1 /\ f.kind = "chunk" /\ f.m = who
    BY <2>1 DEF TypeOK, FrameAt
  <2>3. who \in Manifests
    BY <1>7 DEF AppendChunk, CallInv, ControlInv, Behind
  <2> QED
    BY <2>1, <2>2, <2>3, AppendedPlace
<1>8. ASSUME NEW i \in ChunkIds, ApplyChunk(i) PROVE PlaceInv'
  <2>1. SameJournal /\ proj'.rows = proj.rows \cup {i}
    BY <1>8 DEF ApplyChunk, SameJournal
  <2>2. \E f \in Of("chunk") : f.i = i
    BY <1>8 DEF ApplyChunk, CallInv
  <2> QED
    BY <1>1, <2>1, <2>2, SamePlace
<1>9. CASE AppendCommit
  <2> DEFINE f == FrameAt(last + 1, "commit", who, 0, last + 1, 0)
  <2>1. f \in log' /\ Append(f) /\ proj' = proj
    BY <1>9 DEF AppendCommit, Append
  <2>2. f \in Frame /\ f.seq = last + 1 /\ f.kind = "commit" /\ f.m = who
    BY <2>1 DEF TypeOK, FrameAt
  <2>3. who \in Manifests
    BY <1>9 DEF AppendCommit, CallInv, ControlInv, Behind
  <2> QED
    BY <2>1, <2>2, <2>3, AppendedPlace
<1>10. CASE InstallActivation
  <2> DEFINE f == FrameAt(last + 1, "act", who, 0, at, gen.id)
  <2>1. f \in log' /\ Append(f) /\ proj' = proj /\ Of("act") = {}
    BY <1>10 DEF InstallActivation, Append
  <2>2. f \in Frame /\ f.seq = last + 1 /\ f.kind = "act" /\ f.m = who
    BY <2>1 DEF TypeOK, FrameAt
  <2>3. who \in Manifests
    BY <1>10 DEF InstallActivation, CallInv, ControlInv, Behind
  <2> QED
    BY <2>1, <2>2, <2>3, AppendedPlace
<1>11. CASE OpenOrdinary \/ OpenFails \/ \E m \in Manifests : MigrateResume(m) \/ ResumeFails(m)
  BY <1>2, <1>11 DEF OpenOrdinary, OpenFails, MigrateResume, ResumeFails, Recover,
     SameJournal
<1>12. CASE Swap \/ PublishState \/ Close \/ \E m \in Manifests : DryRun(m) \/ MigrateBegin(m)
  BY <1>2, <1>12 DEF Swap, PublishState, Close, DryRun, MigrateBegin, SameJournal
<1>13. CASE MarkerCreate \/ MarkerWrite \/ CutOver \/ Checkpoint
  BY <1>2, <1>13 DEF MarkerCreate, MarkerWrite, CutOver, Checkpoint, SameJournal
<1>14. CASE AlreadyCommitted \/ KeepReceipt \/ ReceiptMismatch \/ ActivationConflict
  BY <1>2, <1>14 DEF AlreadyCommitted, KeepReceipt, ReceiptMismatch,
     ActivationConflict, Refuse, SameJournal
<1>15. CASE WriteReady \/ CheckAuthority \/ AuthorityFails \/ RemoveMarker
  BY <1>2, <1>15 DEF WriteReady, CheckAuthority, AuthorityFails, RemoveMarker,
     Refuse, SameJournal
<1>16. CASE ResumeInvalid \/ Crash \/ StepFails
  BY <1>2, <1>16 DEF ResumeInvalid, Crash, StepFails, SameJournal
<1>17. CASE ApplyCommit
  <2>1. proj'.rows = proj.rows
    BY <1>17 DEF ApplyCommit, TypeOK, Rows
  <2> QED
    BY <1>2, <1>17, <2>1 DEF ApplyCommit, SameJournal
<1> QED
  BY <1>3, <1>5, <1>6, <1>7, <1>8, <1>9, <1>10, <1>11, <1>12, <1>13, <1>14, <1>15,
     <1>16, <1>17 DEF Next, Ordinary, Migrate, Resume

----------------------------------------------------------------------------
(* The running call.                                                       *)

\* Every frame is at or below the frontier: the newest generation up to it is
\* the newest there is.
LEMMA LatestIsNewest ==
    ASSUME PlaceInv, NEW g
    PROVE  IsLatest(g, last) <=> Newest(g)
<1>1. {h \in Of("gen") : h.seq <= last} = Of("gen")
  BY DEF PlaceInv, Of
<1>2. \A f : GenOf(f).id = f.id
  BY DEF GenOf
<1> QED
  BY <1>1, <1>2 DEF IsLatest, Newest

\* A generation stays the newest while no receipt is added.
LEMMA NewestKept ==
    ASSUME NEW g, Newest(g), Of("gen")' = Of("gen")
    PROVE  Newest(g)'
BY DEF Newest, GenOf

\* The generation an open finds.
LEMMA LatestId ==
    ASSUME TypeOK, PlaceInv, NEW g, Newest(g)
    PROVE  g.id <= last
<1>1. CASE g = NoGen
  BY <1>1, MigrationAssumption DEF NoGen, TypeOK, Seqs
<1>2. ASSUME NEW f \in Of("gen"), g = GenOf(f) PROVE g.id <= last
  BY <1>2 DEF PlaceInv, GenOf
<1> QED
  BY <1>1, <1>2 DEF Newest

\* The receipt that is published becomes the newest one.
LEMMA PublishedNewest ==
    ASSUME TypeOK, Publish, Newest(gen), gen.id <= last
    PROVE  Newest(gen)' /\ gen'.id <= last'
<1> DEFINE f == FrameAt(last + 1, "gen", None, 0, last, gen.id + 1)
<1>1. log' = log \cup {f} /\ last' = last + 1
  BY DEF Publish, Append
<1>2. f.kind = "gen" /\ f.id = gen.id + 1 /\ f.at = last
  BY DEF FrameAt
<1>3. gen' = [id |-> gen.id + 1, at |-> last]
  BY DEF Publish
<1>4. gen.id \in Nat /\ last \in Nat
  BY MigrationAssumption DEF TypeOK, Generation, Seqs
<1>5. Of("gen")' = Of("gen") \cup {f}
  BY <1>1, <1>2 DEF Of
<1>6. \A h \in Of("gen") : h.id \in Nat /\ h.id <= gen.id
  BY MigrationAssumption DEF Newest, Of, TypeOK, Frame, Seqs
<1> HIDE DEF f
<1>7. gen' = GenOf(f) /\ gen'.id = gen.id + 1
  BY <1>2, <1>3 DEF GenOf
<1>8. \A h \in Of("gen")' : h.id <= gen'.id
  BY <1>2, <1>4, <1>5, <1>6, <1>7
<1>9. gen' \in {GenOf(h) : h \in Of("gen")'}
  BY <1>5, <1>7
<1>10. \A h : GenOf(h)' = GenOf(h)
  BY DEF GenOf
<1> QED
  BY <1>1, <1>4, <1>7, <1>8, <1>9 DEF Newest, GenOf

\* A fold keeps the receipt of the current generation.
LEMMA FoldedNewest ==
    ASSUME TypeOK, Fold, Newest(gen)
    PROVE  Newest(gen)'
<1>1. \A h \in log' : \E f \in log : h = Folded(f)
  BY DEF Fold
<1>2. \A f \in log : GenOf(f) = gen => Folded(f) \in log'
  BY DEF Fold
<1>3. \A f \in log : /\ Folded(f).kind = f.kind /\ Folded(f).at = f.at
                     /\ Folded(f).id = f.id
  BY DEF Folded, TypeOK, Frame
<1>4. gen' = gen
  BY DEF Fold, handle
<1>5. \A h \in Of("gen")' : h.id <= gen.id
  BY <1>1, <1>3 DEF Newest, Of
<1>6. gen = NoGen \/ \E h \in Of("gen")' : gen = GenOf(h)
  BY <1>2, <1>3 DEF Newest, Of, GenOf
<1> QED
  BY <1>4, <1>5, <1>6 DEF Newest, GenOf

\* Every step keeps to the control of the calls.
LEMMA ControlStep ==
    ASSUME TypeOK, PlaceInv, CallInv, Next
    PROVE  ControlInv'
<1> USE DEF journal, handle, world
<1>0. version \in {5, 6} /\ state.schema \in {5, 6} /\ marker \in Manifests \cup {None, Torn}
  BY DEF TypeOK, StateFile
<1>1. None \notin Manifests /\ Torn \notin Manifests /\ None # Torn
  BY MigrationAssumption DEF None, Torn
<1>2. /\ version = 6 => Saved.schema = 6
      /\ version = 5 => Saved.schema = 5
      /\ Saved.up = "ready" => Saved.schema = 6
  BY <1>0, SavedFields DEF None
<1>3. ControlInv
  BY DEF CallInv
<1>10. CASE OpenOrdinary
  BY <1>0, <1>1, <1>3, <1>10 DEF OpenOrdinary, Opens, Gate, ControlInv, Plain, Behind
<1>11. CASE OpenFails
  BY <1>3, <1>11 DEF OpenFails, ControlInv
<1>12. CASE Write
  BY <1>3, <1>12 DEF Write, ControlInv, Plain, Behind
<1>13. CASE PublishGeneration
  BY <1>2, <1>3, <1>13 DEF PublishGeneration, Publish, Save, ControlInv, Plain, Behind
<1>14. CASE Fold
  BY <1>3, <1>14 DEF Fold, ControlInv, Plain, Behind
<1>15. CASE Swap
  <2>1. state'.schema = state.schema /\ state'.up = state.up
    BY <1>15 DEF Swap, TypeOK, StateFile
  <2> QED
    BY <1>1, <1>3, <1>15, <2>1 DEF Swap, ControlInv, Plain, Behind
<1>16. CASE PublishState
  BY <1>1, <1>2, <1>3, <1>16 DEF PublishState, Save, ControlInv, Plain, Behind
<1>17. CASE Close
  BY <1>2, <1>3, <1>17 DEF Close, Save, Reset, ControlInv, Plain, Behind
<1>18. ASSUME NEW m \in Manifests, DryRun(m) PROVE ControlInv'
  BY <1>1, <1>2, <1>3, <1>18 DEF DryRun, Save, ControlInv, Plain, Behind
<1>19. ASSUME NEW m \in Manifests, MigrateBegin(m) PROVE ControlInv'
  BY <1>1, <1>3, <1>19 DEF MigrateBegin, ControlInv, Plain, Behind
<1>20. CASE MarkerCreate \/ MarkerWrite
  BY <1>1, <1>3, <1>20 DEF MarkerCreate, MarkerWrite, ControlInv, Plain, Behind
<1>21. CASE CutOver
  <2>1. state'.schema = 6
    BY <1>21 DEF CutOver, TypeOK, StateFile
  <2> QED
    BY <1>1, <1>3, <1>21, <2>1 DEF CutOver, ControlInv, Plain, Behind
<1>22. CASE Checkpoint
  BY <1>1, <1>2, <1>3, <1>22 DEF Checkpoint, Save, ControlInv, Plain, Behind
<1>23. ASSUME NEW i \in ChunkIds, AppendChunk(i) \/ ApplyChunk(i) PROVE ControlInv'
  BY <1>1, <1>3, <1>23 DEF AppendChunk, ApplyChunk, ControlInv, Plain, Behind
<1>24. CASE AppendCommit \/ ApplyCommit \/ AlreadyCommitted
  BY <1>1, <1>3, <1>24 DEF AppendCommit, ApplyCommit, AlreadyCommitted,
     ControlInv, Plain, Behind
<1>25. CASE PublishReceipt
  BY <1>1, <1>2, <1>3, <1>25 DEF PublishReceipt, Publish, Save, ControlInv, Plain, Behind
<1>26. CASE KeepReceipt \/ CheckAuthority
  BY <1>1, <1>3, <1>26 DEF KeepReceipt, CheckAuthority, ControlInv, Plain, Behind
<1>27. CASE ReceiptMismatch \/ ActivationConflict \/ AuthorityFails
  BY <1>1, <1>3, <1>27 DEF ReceiptMismatch, ActivationConflict, AuthorityFails,
     Refuse, ControlInv, Plain, Behind
<1>28. CASE InstallActivation
  <2>1. act' # NoProof
    BY <1>1, <1>3, <1>28 DEF InstallActivation, NoProof, ControlInv, Behind
  <2> QED
    BY <1>1, <1>3, <1>28, <2>1 DEF InstallActivation, ControlInv, Plain, Behind
<1>29. CASE WriteReady
  <2>1. state'.schema = state.schema
    BY <1>29 DEF WriteReady, TypeOK, StateFile
  <2> QED
    BY <1>1, <1>3, <1>29, <2>1 DEF WriteReady, ControlInv, Plain, Behind
<1>30. CASE RemoveMarker
  BY <1>1, <1>3, <1>30 DEF RemoveMarker, ControlInv, Plain, Behind
<1>31. CASE ResumeInvalid
  BY <1>3, <1>31 DEF ResumeInvalid, ControlInv
<1>32. ASSUME NEW m \in Manifests, MigrateResume(m) PROVE ControlInv'
  <2>1. /\ pc' = IF state.up = "ready" THEN "authority" ELSE "cutover"
        /\ marker' = m /\ who' = m /\ version' = 6
    BY <1>32 DEF MigrateResume, Resumes
  <2>2. state.schema = 5 => state'.schema = 6 /\ state'.up = "in_progress"
    BY <1>32 DEF MigrateResume
  <2>3. state.schema # 5 => state' = state
    BY <1>32 DEF MigrateResume
  <2> QED
    BY <1>0, <1>1, <1>3, <2>1, <2>2, <2>3 DEF ControlInv, Plain, Behind
<1>33. ASSUME NEW m \in Manifests, ResumeFails(m) PROVE ControlInv'
  BY <1>3, <1>33 DEF ResumeFails, ControlInv
<1>34. CASE Crash
  BY <1>1, <1>3, <1>34 DEF Crash, Reset, ControlInv, Plain, Behind
<1>35. CASE StepFails
  BY <1>1, <1>3, <1>35 DEF StepFails, ControlInv, Plain, Behind
<1> QED
  BY <1>10, <1>11, <1>12, <1>13, <1>14, <1>15, <1>16, <1>17, <1>18, <1>19, <1>20,
     <1>21, <1>22, <1>23, <1>24, <1>25, <1>26, <1>27, <1>28, <1>29, <1>30, <1>31,
     <1>32, <1>33, <1>34, <1>35 DEF Next, Ordinary, Migrate, Resume

\* The steps that change the journal.
Moves ==
    \/ Write \/ PublishGeneration \/ Fold \/ AppendCommit \/ PublishReceipt
    \/ InstallActivation
    \/ \E i \in ChunkIds : AppendChunk(i)

LEMMA StillSteps ==
    ASSUME Next, ~Moves
    PROVE  SameJournal
<1> USE DEF journal, handle, world, SameJournal
<1>1. CASE OpenOrdinary \/ OpenFails \/ Swap \/ PublishState \/ Close
  BY <1>1 DEF OpenOrdinary, OpenFails, Swap, PublishState, Close
<1>2. CASE \E m \in Manifests : DryRun(m) \/ MigrateBegin(m)
  BY <1>2 DEF DryRun, MigrateBegin
<1>3. CASE MarkerCreate \/ MarkerWrite \/ CutOver \/ Checkpoint
  BY <1>3 DEF MarkerCreate, MarkerWrite, CutOver, Checkpoint
<1>4. CASE ApplyCommit \/ AlreadyCommitted \/ \E i \in ChunkIds : ApplyChunk(i)
  BY <1>4 DEF ApplyCommit, AlreadyCommitted, ApplyChunk
<1>5. CASE KeepReceipt \/ ReceiptMismatch \/ ActivationConflict \/ AuthorityFails
  BY <1>5 DEF KeepReceipt, ReceiptMismatch, ActivationConflict, AuthorityFails, Refuse
<1>6. CASE WriteReady \/ CheckAuthority \/ RemoveMarker
  BY <1>6 DEF WriteReady, CheckAuthority, RemoveMarker
<1>7. CASE ResumeInvalid \/ Crash \/ StepFails
  BY <1>7 DEF ResumeInvalid, Crash, StepFails
<1>8. CASE \E m \in Manifests : MigrateResume(m) \/ ResumeFails(m)
  BY <1>8 DEF MigrateResume, ResumeFails
<1> QED
  BY <1>1, <1>2, <1>3, <1>4, <1>5, <1>6, <1>7, <1>8
     DEF Next, Ordinary, Migrate, Resume, Moves

\* A step leaves the generation in memory alone, ends the process, opens it with
\* the journal's newest, or publishes.
LEMMA GenSteps ==
    ASSUME PlaceInv, Next
    PROVE  \/ pc' = "down"
           \/ gen' = gen /\ pc # "down"
           \/ Publish /\ pc # "down"
           \/ Newest(gen') /\ SameJournal
<1> USE DEF journal, handle, world
<1>1. CASE OpenOrdinary \/ \E m \in Manifests : MigrateResume(m)
  <2>1. IsLatest(gen', last) /\ log' = log /\ last' = last
    BY <1>1 DEF OpenOrdinary, MigrateResume
  <2> QED
    BY <2>1, LatestIsNewest DEF SameJournal
<1>2. CASE OpenFails \/ ResumeInvalid \/ \E m \in Manifests : ResumeFails(m)
  <2>1. pc = "down" /\ pc' = pc
    BY <1>2 DEF OpenFails, ResumeInvalid, ResumeFails, Resumes
  <2> QED
    BY <2>1
<1>3. CASE PublishGeneration \/ PublishReceipt
  BY <1>3 DEF PublishGeneration, PublishReceipt
<1>4. CASE Write \/ Fold \/ Swap \/ PublishState \/ Close \/ \E m \in Manifests : DryRun(m)
  BY <1>4 DEF Write, Fold, Swap, PublishState, Close, DryRun
<1>5. CASE \E m \in Manifests : MigrateBegin(m)
  BY <1>5 DEF MigrateBegin
<1>6. CASE MarkerCreate \/ MarkerWrite \/ CutOver \/ Checkpoint
  BY <1>6 DEF MarkerCreate, MarkerWrite, CutOver, Checkpoint
<1>7. CASE AppendCommit \/ ApplyCommit \/ AlreadyCommitted
           \/ \E i \in ChunkIds : AppendChunk(i) \/ ApplyChunk(i)
  BY <1>7 DEF AppendCommit, ApplyCommit, AlreadyCommitted, AppendChunk, ApplyChunk
<1>8. CASE KeepReceipt \/ ReceiptMismatch \/ ActivationConflict \/ AuthorityFails
  BY <1>8 DEF KeepReceipt, ReceiptMismatch, ActivationConflict, AuthorityFails, Refuse
<1>9. CASE InstallActivation \/ WriteReady \/ CheckAuthority \/ RemoveMarker
  BY <1>9 DEF InstallActivation, WriteReady, CheckAuthority, RemoveMarker
<1>10. CASE Crash \/ StepFails
  BY <1>10 DEF Crash, StepFails
<1> QED
  BY <1>1, <1>2, <1>3, <1>4, <1>5, <1>6, <1>7, <1>8, <1>9, <1>10
     DEF Next, Ordinary, Migrate, Resume

\* The same for the activation in memory.
LEMMA ActSteps ==
    ASSUME TypeOK, CallInv, Next
    PROVE  \/ act' = NoProof
           \/ act' = act /\ (version' = version \/ version' = 6) /\ ~InstallActivation
           \/ OpenOrdinary \/ InstallActivation
<1> USE DEF journal, handle, world
<1>1. CASE OpenOrdinary \/ InstallActivation
  BY <1>1
<1>2. CASE OpenFails \/ ResumeInvalid \/ \E m \in Manifests : MigrateResume(m) \/ ResumeFails(m)
  BY <1>2 DEF OpenFails, ResumeInvalid, MigrateResume, ResumeFails, Resumes, CallInv,
     ControlInv
<1>3. CASE PublishGeneration \/ PublishReceipt
  BY <1>3 DEF PublishGeneration, PublishReceipt, InstallActivation
<1>4. CASE Write \/ Fold \/ Swap \/ PublishState \/ Close
  BY <1>4 DEF Write, Fold, Swap, PublishState, Close, Reset, InstallActivation
<1>5. CASE \E m \in Manifests : DryRun(m) \/ MigrateBegin(m)
  BY <1>5 DEF DryRun, MigrateBegin, InstallActivation
<1>6. CASE MarkerCreate \/ MarkerWrite \/ CutOver \/ Checkpoint
  BY <1>6 DEF MarkerCreate, MarkerWrite, CutOver, Checkpoint, InstallActivation
<1>7. CASE AppendCommit \/ ApplyCommit \/ AlreadyCommitted
           \/ \E i \in ChunkIds : AppendChunk(i) \/ ApplyChunk(i)
  BY <1>7 DEF AppendCommit, ApplyCommit, AlreadyCommitted, AppendChunk, ApplyChunk,
     InstallActivation
<1>8. CASE KeepReceipt \/ ReceiptMismatch \/ ActivationConflict \/ AuthorityFails
  BY <1>8 DEF KeepReceipt, ReceiptMismatch, ActivationConflict, AuthorityFails, Refuse,
     InstallActivation
<1>9. CASE WriteReady \/ CheckAuthority \/ RemoveMarker
  BY <1>9 DEF WriteReady, CheckAuthority, RemoveMarker, InstallActivation
<1>10. CASE Crash \/ StepFails
  BY <1>10 DEF Crash, Reset, StepFails, InstallActivation
<1> QED
  BY <1>1, <1>2, <1>3, <1>4, <1>5, <1>6, <1>7, <1>8, <1>9, <1>10
     DEF Next, Ordinary, Migrate, Resume

\* A step that changes the journal appends a frame, unless it folds.
LEMMA MoveSteps ==
    ASSUME Moves, ~Fold
    PROVE  /\ last' = last + 1 /\ log \subseteq log'
           /\ \E f : log' = log \cup {f} /\ f.seq = last + 1 /\ f.base = FALSE
<1>1. ASSUME NEW kind, NEW m, NEW i, NEW a, NEW id,
             Append(FrameAt(last + 1, kind, m, i, a, id))
      PROVE  /\ last' = last + 1 /\ log \subseteq log'
             /\ \E f : log' = log \cup {f} /\ f.seq = last + 1 /\ f.base = FALSE
  <2> DEFINE f == FrameAt(last + 1, kind, m, i, a, id)
  <2>1. f.seq = last + 1 /\ f.base = FALSE
    BY Zenon DEF FrameAt
  <2> QED
    BY <1>1, <2>1 DEF Append
<1> QED
  BY <1>1 DEF Moves, Write, PublishGeneration, PublishReceipt, Publish, AppendCommit,
     InstallActivation, AppendChunk

\* Every step keeps the call in order.
LEMMA CallStep ==
    ASSUME TypeOK, PlaceInv, CallInv, Next, TypeOK', PlaceInv'
    PROVE  CallInv'
<1> USE DEF journal, handle, world
<1>1. ControlInv'
  BY ControlStep
<1>2. pc' # "down" => Newest(gen)'
  <2> SUFFICES ASSUME pc' # "down" PROVE Newest(gen)'
    OBVIOUS
  <2>1. CASE Publish /\ pc # "down"
    BY <2>1, PublishedNewest DEF CallInv
  <2>2. CASE Newest(gen') /\ SameJournal
    BY <2>2 DEF Newest, SameJournal, Of, GenOf
  <2>3. CASE gen' = gen /\ pc # "down" /\ ~Publish
    <3>1. Newest(gen)
      BY <2>3 DEF CallInv
    <3>2. CASE Fold
      BY <3>1, <3>2, FoldedNewest
    <3>3. CASE Moves /\ ~Fold
      <4>1. Of("gen")' = Of("gen")
        BY <2>3, <3>3 DEF Moves, Write, PublishGeneration, PublishReceipt, AppendCommit,
           InstallActivation, AppendChunk, Append, FrameAt, Of
      <4> QED
        BY <2>3, <3>1, <4>1 DEF Newest, GenOf
    <3>4. CASE ~Moves
      BY <2>3, <3>1, <3>4, StillSteps DEF Newest, SameJournal, Of, GenOf
    <3> QED
      BY <3>2, <3>3, <3>4
  <2> QED
    BY <2>1, <2>2, <2>3, GenSteps
<1>3. pc' # "down" => gen'.id <= last'
  <2>1. ASSUME TypeOK', PlaceInv', Newest(gen)' PROVE (gen.id <= last)'
    <3>1. CASE gen' = NoGen
      BY <3>1, MigrationAssumption DEF NoGen, TypeOK, Seqs
    <3>2. ASSUME NEW f \in Of("gen")', gen' = GenOf(f) PROVE gen'.id <= last'
      BY <2>1, <3>2 DEF PlaceInv, GenOf
    <3> QED
      BY <2>1, <3>1, <3>2 DEF Newest, GenOf
  <2> QED
    BY <1>2, <2>1
<1>4. act' # NoProof => version' = 6 /\ \E a \in Of("act")' : act' = ProofOf(a)
  <2> SUFFICES ASSUME act' # NoProof
               PROVE  version' = 6 /\ \E a \in Of("act")' : act' = ProofOf(a)
    OBVIOUS
  <2>1. CASE OpenOrdinary
    BY <2>1 DEF OpenOrdinary, Opens, Activated, Of
  <2>2. CASE InstallActivation
    <3> DEFINE f == FrameAt(last + 1, "act", who, 0, at, gen.id)
    <3>1. version' = version /\ version = 6
      BY <2>2 DEF InstallActivation, CallInv, ControlInv, Behind
    <3>2. f \in log' /\ act' = [m |-> who, at |-> at, id |-> gen.id]
      BY <2>2 DEF InstallActivation, Append
    <3>3. f.kind = "act" /\ ProofOf(f) = [m |-> who, at |-> at, id |-> gen.id]
      BY DEF FrameAt, ProofOf
    <3> QED
      BY <3>1, <3>2, <3>3 DEF Of
  <2>3. CASE act' = act /\ (version' = version \/ version' = 6)
    <3>1. version' = 6 /\ \E a \in Of("act") : act' = ProofOf(a)
      BY <2>3 DEF CallInv
    <3>2. PICK a \in Of("act") : act' = ProofOf(a)
      BY <3>1
    <3>3. CASE Fold
      <4>1. Folded(a) \in log'
        BY <3>2, <3>3 DEF Fold, Of
      <4>2. Folded(a).kind = "act" /\ ProofOf(Folded(a)) = ProofOf(a)
        BY <3>2 DEF Folded, TypeOK, Frame, Of, ProofOf
      <4> QED
        BY <3>1, <3>2, <4>1, <4>2 DEF Of
    <3>4. CASE ~Fold
      <4>1. log \subseteq log'
        BY <3>4, StillSteps, MoveSteps DEF SameJournal
      <4> QED
        BY <3>1, <3>2, <4>1 DEF Of
    <3> QED
      BY <3>3, <3>4
  <2> QED
    BY <2>1, <2>2, <2>3, ActSteps
<1>5. pc' = "chunk" => \A i \in ChunkIds : NextChunk(i)' =>
                          \E f \in Of("chunk")' : f.i = i
  <2> SUFFICES ASSUME pc' = "chunk"
               PROVE  \A i \in ChunkIds : NextChunk(i)' =>
                         \E f \in Of("chunk")' : f.i = i
    OBVIOUS
  <2>1. \E i \in ChunkIds : AppendChunk(i)
    BY DEF Next, Ordinary, Migrate, Resume, OpenOrdinary, OpenFails, Write,
       PublishGeneration, Fold, Swap, PublishState, Close, DryRun, MigrateBegin,
       MarkerCreate, MarkerWrite, CutOver, Checkpoint, ApplyChunk, AppendCommit,
       ApplyCommit, AlreadyCommitted, PublishReceipt, KeepReceipt, ReceiptMismatch,
       InstallActivation, ActivationConflict, WriteReady, CheckAuthority,
       AuthorityFails, RemoveMarker, Refuse, ResumeInvalid, MigrateResume,
       ResumeFails, Resumes, Crash, StepFails
  <2>2. PICK i \in ChunkIds : AppendChunk(i)
    BY <2>1
  <2>3. proj' = proj /\ NextChunk(i)
    BY <2>2 DEF AppendChunk
  <2>4. ASSUME NEW j \in ChunkIds, NextChunk(j)' PROVE j = i
    <3>1. i \in Nat /\ j \in Nat
      BY MigrationAssumption DEF ChunkIds
    <3>2. i \notin proj.rows /\ j \notin proj.rows
      BY <2>3, <2>4 DEF NextChunk
    <3>3. \A k \in 0 .. i - 1 : k \in proj.rows
      BY <2>3 DEF NextChunk
    <3>4. \A k \in 0 .. j - 1 : k \in proj.rows
      BY <2>3, <2>4 DEF NextChunk
    <3> QED
      BY <3>1, <3>2, <3>3, <3>4
  <2>5. FrameAt(last + 1, "chunk", who, i, 0, 0) \in log'
    BY <2>2 DEF AppendChunk, Append
  <2>6. \E f \in Of("chunk")' : f.i = i
    BY <2>5 DEF Of, FrameAt
  <2> QED
    BY <2>4, <2>6
<1> QED
  BY <1>1, <1>2, <1>3, <1>4, <1>5 DEF CallInv, ProofOf

----------------------------------------------------------------------------
(* The three phases of a database: which steps each of them allows.        *)

\* Behind a marker only a migration runs.
LEMMA MarkedSteps ==
    ASSUME CallInv, marker \in Manifests, Next
    PROVE  \/ Close \/ Crash \/ StepFails
           \/ Migrate /\ ~MarkerCreate /\ ~MarkerWrite
           \/ \E m \in Manifests : MigrateResume(m) \/ ResumeFails(m)
<1>1. None \notin Manifests /\ Torn \notin Manifests
  BY MigrationAssumption
<1>2. pc \notin Plain /\ pc \notin {"create", "write"}
  BY <1>1 DEF CallInv, ControlInv
<1>3. ~(Write \/ PublishGeneration \/ Fold \/ Swap \/ PublishState)
  BY <1>2 DEF Write, PublishGeneration, Fold, Swap, PublishState, Plain
<1>4. ~(OpenOrdinary \/ OpenFails \/ ResumeInvalid)
  BY <1>1 DEF OpenOrdinary, OpenFails, Opens, Gate, ResumeInvalid
<1>5. ~(\E m \in Manifests : DryRun(m) \/ MigrateBegin(m))
  BY <1>2 DEF DryRun, MigrateBegin, Plain
<1>6. ~MarkerCreate /\ ~MarkerWrite
  BY <1>2 DEF MarkerCreate, MarkerWrite
<1> QED
  BY <1>3, <1>4, <1>5, <1>6 DEF Next, Ordinary, Resume

\* A migrated database is only opened, used and closed.
LEMMA ReadySteps ==
    ASSUME CallInv, ReadyInv, Ready, Next
    PROVE  \/ OpenOrdinary \/ OpenFails \/ Write \/ PublishGeneration
           \/ Fold \/ Swap \/ PublishState \/ Close \/ Crash
<1>1. marker = None /\ marker \notin Manifests /\ marker # Torn /\ state.schema # 5
  BY MigrationAssumption DEF Ready, CallInv, ControlInv, None, Torn
<1>2. pc \in {"down", "open", "folded", "swapped", "drop"}
  BY DEF ReadyInv, Plain
<1>3. ~(\E m \in Manifests : DryRun(m) \/ MigrateBegin(m))
  BY <1>1 DEF DryRun, MigrateBegin
<1>4. ~Migrate
  BY <1>2 DEF Migrate, MarkerCreate, MarkerWrite, CutOver, Checkpoint, AppendChunk,
     ApplyChunk, AppendCommit, ApplyCommit, AlreadyCommitted, PublishReceipt,
     KeepReceipt, ReceiptMismatch, InstallActivation, ActivationConflict, WriteReady,
     CheckAuthority, AuthorityFails, RemoveMarker
<1>5. ~Resume
  BY <1>1 DEF Resume, ResumeInvalid, MigrateResume, ResumeFails, Resumes
<1>6. ~StepFails
  BY <1>2 DEF StepFails
<1> QED
  BY <1>3, <1>4, <1>5, <1>6 DEF Next, Ordinary

\* Before a marker, a handle of schema 5 runs, or a migration that has not
\* written its marker.
LEMMA FreshSteps ==
    ASSUME CallInv, marker \notin Manifests, Next
    PROVE  \/ Ordinary \/ MarkerCreate \/ MarkerWrite \/ ResumeInvalid
           \/ Crash \/ StepFails
           \/ \E m \in Manifests : MigrateBegin(m)
<1>1. pc \notin Behind
  BY DEF CallInv, ControlInv
<1>2. Migrate => MarkerCreate \/ MarkerWrite
  BY <1>1 DEF Behind, Migrate, CutOver, Checkpoint, AppendChunk, ApplyChunk,
     AppendCommit, ApplyCommit, AlreadyCommitted, PublishReceipt, KeepReceipt,
     ReceiptMismatch, InstallActivation, ActivationConflict, WriteReady,
     CheckAuthority, AuthorityFails, RemoveMarker
<1>3. Resume => ResumeInvalid
  BY DEF Resume, MigrateResume, ResumeFails, Resumes
<1> QED
  BY <1>2, <1>3 DEF Next

\* The marker changes where it is created, written and removed.
LEMMA MarkerSteps ==
    ASSUME Next
    PROVE  \/ marker' = marker
           \/ MarkerCreate \/ MarkerWrite \/ RemoveMarker
<1> USE DEF journal, handle, world
<1>1. CASE Ordinary
  BY <1>1 DEF Ordinary, OpenOrdinary, OpenFails, Write, PublishGeneration, Fold, Swap,
     PublishState, Close, DryRun
<1>2. CASE \E m \in Manifests : MigrateBegin(m)
  BY <1>2 DEF MigrateBegin
<1>3. CASE Migrate
  BY <1>3 DEF Migrate, CutOver, Checkpoint, AppendChunk, ApplyChunk, AppendCommit,
     ApplyCommit, AlreadyCommitted, PublishReceipt, KeepReceipt, ReceiptMismatch,
     InstallActivation, ActivationConflict, WriteReady, CheckAuthority,
     AuthorityFails, Refuse
<1>4. CASE Resume
  BY <1>4 DEF Resume, ResumeInvalid, MigrateResume, ResumeFails
<1>5. CASE Crash \/ StepFails
  BY <1>5 DEF Crash, StepFails
<1> QED
  BY <1>1, <1>2, <1>3, <1>4, <1>5 DEF Next

\* A manifest's frontier is set by its dry run, once.
LEMMA ApprovedSteps ==
    ASSUME Next
    PROVE  approved' = approved \/ \E m \in Manifests : DryRun(m)
<1> USE DEF journal, handle, world
<1>1. CASE Ordinary
  BY <1>1 DEF Ordinary, OpenOrdinary, OpenFails, Write, PublishGeneration, Fold, Swap,
     PublishState, Close
<1>2. CASE \E m \in Manifests : MigrateBegin(m)
  BY <1>2 DEF MigrateBegin
<1>3. CASE Migrate
  BY <1>3 DEF Migrate, MarkerCreate, MarkerWrite, CutOver, Checkpoint, AppendChunk,
     ApplyChunk, AppendCommit, ApplyCommit, AlreadyCommitted, PublishReceipt,
     KeepReceipt, ReceiptMismatch, InstallActivation, ActivationConflict, WriteReady,
     CheckAuthority, AuthorityFails, RemoveMarker, Refuse
<1>4. CASE Resume
  BY <1>4 DEF Resume, ResumeInvalid, MigrateResume, ResumeFails
<1>5. CASE Crash \/ StepFails
  BY <1>5 DEF Crash, StepFails
<1> QED
  BY <1>1, <1>2, <1>3, <1>4, <1>5 DEF Next

\* Of a migrated database, the activation in memory is the one state.json names.
LEMMA SameActivation ==
    ASSUME PlaceInv, CallInv, ReadyInv, Ready, act # NoProof
    PROVE  act = state.proof
BY DEF PlaceInv, CallInv, ReadyInv, Proven

\* A save of a migrated database carries the migration over.
LEMMA SavedReady ==
    ASSUME PlaceInv, CallInv, ReadyInv, Ready, pc # "down"
    PROVE  /\ Saved.up = "ready" /\ Saved.schema = 6
           /\ Saved.m = state.m /\ Saved.proof = state.proof
<1>1. version = 6 /\ marker = None /\ state.up = "ready"
  BY DEF ReadyInv, Ready
<1>2. act # NoProof => act = state.proof /\ act.m = state.m
  BY SameActivation DEF ReadyInv
<1> QED
  BY <1>1, <1>2, SavedFields

\* A migrated database stays migrated, with the proof it has.
LEMMA ReadyKept ==
    ASSUME TypeOK, PlaceInv, CallInv, ReadyInv, Ready, Next
    PROVE  /\ Ready' /\ state'.schema = 6
           /\ state'.m = state.m /\ state'.proof = state.proof
<1> USE DEF journal, handle, world
<1>1. marker = None /\ state.up = "ready" /\ state.schema = 6
  BY DEF Ready, CallInv, ControlInv
<1>2. CASE OpenOrdinary \/ OpenFails \/ Write \/ Fold \/ Crash
  BY <1>1, <1>2 DEF OpenOrdinary, OpenFails, Write, Fold, Crash, Ready
<1>3. CASE PublishGeneration \/ PublishState \/ Close
  <2>1. state' = Saved /\ marker' = marker /\ pc # "down"
    BY <1>3 DEF PublishGeneration, Publish, PublishState, Close, Save
  <2> QED
    BY <1>1, <2>1, SavedReady DEF Ready
<1>4. CASE Swap
  <2>1. /\ state'.up = state.up /\ state'.schema = state.schema
        /\ state'.m = state.m /\ state'.proof = state.proof
    BY <1>4 DEF Swap, TypeOK, StateFile
  <2> QED
    BY <1>1, <1>4, <2>1 DEF Swap, Ready
<1> QED
  BY <1>2, <1>3, <1>4, ReadySteps

----------------------------------------------------------------------------
(* Before the marker.                                                      *)

LEMMA FreshStep ==
    ASSUME TypeOK, PlaceInv, CallInv, FreshInv, ReadyInv, Next
    PROVE  FreshInv'
<1> USE DEF journal, handle, world
<1> SUFFICES ASSUME marker' \notin Manifests, state'.up # "ready"
             PROVE  /\ version' = 5 /\ state'.schema = 5 /\ state'.up = None
                    /\ \A f \in log' : f.kind \notin Evidence
  BY DEF FreshInv
<1>1. marker \notin Manifests
  <2> SUFFICES ASSUME marker \in Manifests PROVE FALSE
    OBVIOUS
  <2>1. RemoveMarker
    BY MarkerSteps, MigrationAssumption DEF MarkerCreate, MarkerWrite, CallInv, ControlInv
  <2> QED
    BY <2>1 DEF RemoveMarker, ReadyInv
<1>2. state.up # "ready"
  <2> SUFFICES ASSUME state.up = "ready" PROVE FALSE
    OBVIOUS
  <2>1. marker = None
    BY <1>1 DEF TypeOK, CallInv, ControlInv
  <2> QED
    BY <2>1, ReadyKept DEF Ready
<1>3. /\ version = 5 /\ state.schema = 5 /\ state.up = None
      /\ \A f \in log : f.kind \notin Evidence
  BY <1>1, <1>2 DEF FreshInv
<1>4. Saved.schema = 5 /\ Saved.up = None
  BY <1>3, SavedFields
<1>5. CASE OpenOrdinary \/ OpenFails
  BY <1>3, <1>5 DEF OpenOrdinary, OpenFails
<1>6. CASE Write
  <2>1. version' = 5 /\ state' = state
    BY <1>3, <1>6 DEF Write
  <2>2. \A f \in log' : f.kind \notin Evidence
    BY <1>3, <1>6 DEF Write, Append, FrameAt, Evidence
  <2> QED
    BY <1>3, <2>1, <2>2
<1>7. CASE PublishGeneration
  <2>1. version' = 5 /\ state' = Saved
    BY <1>3, <1>7 DEF PublishGeneration, Publish, Save
  <2>2. \A f \in log' : f.kind \notin Evidence
    BY <1>3, <1>7 DEF PublishGeneration, Publish, Append, FrameAt, Evidence
  <2> QED
    BY <1>4, <2>1, <2>2
<1>8. CASE Fold
  <2>1. \A f \in log : Folded(f).kind = f.kind
    BY DEF Folded, TypeOK, Frame
  <2> QED
    BY <1>3, <1>8, <2>1 DEF Fold
<1>9. CASE Swap
  <2>1. state'.up = state.up /\ state'.schema = state.schema
    BY <1>9 DEF Swap, TypeOK, StateFile
  <2> QED
    BY <1>3, <1>9, <2>1 DEF Swap
<1>10. CASE PublishState \/ Close \/ \E m \in Manifests : DryRun(m)
  BY <1>3, <1>4, <1>10 DEF PublishState, Close, DryRun, Save, Reset
<1>11. CASE MarkerCreate \/ MarkerWrite \/ ResumeInvalid \/ \E m \in Manifests : MigrateBegin(m)
  BY <1>3, <1>11 DEF MarkerCreate, MarkerWrite, ResumeInvalid, MigrateBegin
<1>12. CASE Crash \/ StepFails
  BY <1>3, <1>12 DEF Crash, StepFails, Reset
<1> QED
  BY <1>1, <1>5, <1>6, <1>7, <1>8, <1>9, <1>10, <1>11, <1>12, FreshSteps DEF Ordinary

----------------------------------------------------------------------------
(* Behind the marker.                                                      *)

\* A marker that is written starts from the approved frontier.
LEMMA MarkerWritten ==
    ASSUME TypeOK, PlaceInv, CallInv, FreshInv, MarkerWrite
    PROVE  MarkedLogInv' /\ MarkedStateInv'
<1> USE DEF journal, handle, world
<1>1. /\ marker = Torn /\ who \in Manifests /\ approved[who] = last
      /\ state.schema = 5 /\ state.up # "ready"
  BY DEF MarkerWrite, CallInv, ControlInv
<1>2. /\ marker' = who /\ log' = log /\ last' = last /\ approved' = approved
      /\ state' = state
  BY DEF MarkerWrite
<1>3. \A f \in log : f.kind \notin Evidence
  BY <1>1, MigrationAssumption DEF FreshInv
<1>4. last \in Nat /\ \A f \in log : f.seq \in Nat /\ f.seq <= last
  BY MigrationAssumption DEF TypeOK, Frame, Seqs, PlaceInv
<1>5. MarkedLogInv'
  BY <1>1, <1>2, <1>3, <1>4 DEF MarkedLogInv, Of, Evidence
<1>6. MarkedStateInv'
  BY <1>1, <1>2 DEF MarkedStateInv
<1> QED
  BY <1>5, <1>6

\* A frame of the migration is appended behind the marker.
LEMMA AppendedMarked ==
    ASSUME TypeOK, PlaceInv, MarkedLogInv, marker \in Manifests,
           NEW f \in Frame, Append(f), marker' = marker, approved' = approved,
           f.seq = last + 1, ~f.base,
           \/ f.kind = "gen" /\ f.m = None
           \/ f.kind \in Evidence /\ f.m = marker,
           f.kind = "commit" => f.at = last + 1 /\ proj.rows = ChunkIds,
           f.kind = "act" => f.at = 0 \/ f.at < last
    PROVE  MarkedLogInv'
<1>0. log' = log \cup {f} /\ last' = last + 1
  BY DEF Append
<1>1. last \in Nat /\ \A h \in log : h.seq \in Nat /\ h.seq <= last
  BY MigrationAssumption DEF TypeOK, Frame, Seqs, PlaceInv
<1>2. approved[marker] \in 0 .. last
  BY DEF MarkedLogInv
<1>3. approved[marker] \in 0 .. last'
  BY <1>0, <1>1, <1>2
<1>4. f.kind # "write" /\ f.seq > approved[marker]
  BY <1>1, <1>2 DEF Evidence
<1>5. \A h \in log' : h.seq > approved[marker] =>
         ~h.base /\ h.kind # "write" /\ h.m \in {marker, None}
  BY <1>0, <1>4 DEF MarkedLogInv
<1>6. \A h \in log' : h.kind \in Evidence => h.seq > approved[marker] /\ h.m = marker
  <2>1. "gen" \notin Evidence
    BY DEF Evidence
  <2> QED
    BY <1>0, <1>4, <2>1 DEF MarkedLogInv
<1>7. ASSUME NEW c \in Of("commit")'
      PROVE  /\ c.seq = c.at
             /\ \A i \in ChunkIds : \E h \in Of("chunk")' : h.i = i /\ h.seq < c.seq
  <2>1. CASE c \in log
    <3>1. c \in Of("commit")
      BY <1>7, <2>1 DEF Of
    <3> QED
      BY <1>0, <3>1 DEF MarkedLogInv, Of
  <2>2. CASE c = f
    <3>1. f.kind = "commit"
      BY <1>7, <2>2 DEF Of
    <3>2. ASSUME NEW i \in ChunkIds PROVE \E h \in Of("chunk") : h.i = i /\ h.seq < last + 1
      <4>1. PICK h \in Of("chunk") : h.i = i
        BY <3>1 DEF PlaceInv
      <4>2. h.seq < last + 1
        BY <1>1, <4>1 DEF Of
      <4> QED
        BY <4>1, <4>2
    <3> QED
      BY <1>0, <2>2, <3>1, <3>2 DEF Of
  <2> QED
    BY <1>0, <1>7, <2>1, <2>2 DEF Of
<1>8. ASSUME NEW a \in Of("act")' PROVE a.at = 0 \/ a.at + 1 < a.seq
  <2>1. CASE a \in log
    BY <1>8, <2>1 DEF MarkedLogInv, Of
  <2>2. CASE a = f
    <3>1. f.at = 0 \/ f.at < last
      BY <1>8, <2>2 DEF Of
    <3>2. f.at < last => f.at + 1 < last + 1
      BY <1>1, MigrationAssumption DEF Frame, Seqs
    <3> QED
      BY <2>2, <3>1, <3>2
  <2> QED
    BY <1>0, <1>8, <2>1, <2>2 DEF Of
<1> QED
  BY <1>3, <1>5, <1>6, <1>7, <1>8 DEF MarkedLogInv

LEMMA MarkedLogStep ==
    ASSUME TypeOK, PlaceInv, CallInv, FreshInv, MarkedLogInv, Next, TypeOK'
    PROVE  MarkedLogInv'
<1> USE DEF journal, handle, world
<1> SUFFICES ASSUME marker' \in Manifests PROVE MarkedLogInv'
  BY DEF MarkedLogInv
<1>1. CASE MarkerWrite
  BY <1>1, MarkerWritten
<1>2. CASE ~MarkerWrite
  <2>1. marker' = marker /\ marker \in Manifests
    BY <1>2, MarkerSteps, MigrationAssumption DEF MarkerCreate, RemoveMarker
  <2>2. approved' = approved
    BY <2>1, ApprovedSteps, MigrationAssumption DEF DryRun, CallInv, ControlInv, Plain
  <2>3. pc \notin Plain
    BY <2>1, MigrationAssumption DEF CallInv, ControlInv
  <2>4. pc \in Behind => who = marker
    BY DEF CallInv, ControlInv
  <2>5. CASE ~Moves
    BY <2>1, <2>2, <2>5, StillSteps DEF SameJournal, MarkedLogInv, Of
  <2>6. CASE PublishReceipt
    <3> DEFINE f == FrameAt(last + 1, "gen", None, 0, last, gen.id + 1)
    <3>1. Append(f)
      BY <2>6 DEF PublishReceipt, Publish
    <3>2. f.seq = last + 1 /\ f.kind = "gen" /\ f.m = None
      BY DEF FrameAt
    <3>3. ~f.base /\ f \in Frame
      <4>1. f \in Frame
        BY <3>1 DEF Append, TypeOK
      <4> QED
        BY <4>1, Zenon DEF FrameAt
    <3> HIDE DEF f
    <3> QED
      BY <2>1, <2>2, <3>1, <3>2, <3>3, AppendedMarked
  <2>7. ASSUME NEW i \in ChunkIds, AppendChunk(i) PROVE MarkedLogInv'
    <3> DEFINE f == FrameAt(last + 1, "chunk", who, i, 0, 0)
    <3>1. Append(f) /\ who = marker
      BY <2>4, <2>7 DEF AppendChunk, Behind
    <3>2. f.seq = last + 1 /\ f.kind = "chunk" /\ f.m = who
      BY DEF FrameAt
    <3>3. ~f.base /\ f \in Frame
      <4>1. f \in Frame
        BY <3>1 DEF Append, TypeOK
      <4> QED
        BY <4>1, Zenon DEF FrameAt
    <3> HIDE DEF f
    <3> QED
      BY <2>1, <2>2, <3>1, <3>2, <3>3, AppendedMarked DEF Evidence
  <2>8. CASE AppendCommit
    <3> DEFINE f == FrameAt(last + 1, "commit", who, 0, last + 1, 0)
    <3>1. Append(f) /\ who = marker /\ proj.rows = ChunkIds
      BY <2>4, <2>8 DEF AppendCommit, Behind
    <3>2. f.seq = last + 1 /\ f.kind = "commit" /\ f.m = who /\ f.at = last + 1
      BY DEF FrameAt
    <3>3. ~f.base /\ f \in Frame
      <4>1. f \in Frame
        BY <3>1 DEF Append, TypeOK
      <4> QED
        BY <4>1, Zenon DEF FrameAt
    <3> HIDE DEF f
    <3> QED
      BY <2>1, <2>2, <3>1, <3>2, <3>3, AppendedMarked DEF Evidence
  <2>9. CASE InstallActivation
    <3> DEFINE f == FrameAt(last + 1, "act", who, 0, at, gen.id)
    <3>1. Append(f) /\ who = marker /\ gen.at = at
      BY <2>4, <2>9 DEF InstallActivation, ReceiptMatches, Behind
    <3>2. f.seq = last + 1 /\ f.kind = "act" /\ f.m = who /\ f.at = at
      BY DEF FrameAt
    <3>3. ~f.base /\ f \in Frame
      <4>1. f \in Frame
        BY <3>1 DEF Append, TypeOK
      <4> QED
        BY <4>1, Zenon DEF FrameAt
    <3>4. at = 0 \/ at < last
      <4>1. Newest(gen)
        BY <2>9 DEF InstallActivation, CallInv
      <4>2. CASE gen = NoGen
        BY <3>1, <4>2 DEF NoGen
      <4>3. ASSUME NEW g \in Of("gen"), gen = GenOf(g) PROVE at < last
        <5>1. gen.at = g.at /\ g.at < g.seq /\ g.seq <= last
          BY <4>3 DEF GenOf, PlaceInv, Of
        <5>2. g.at \in Nat /\ g.seq \in Nat /\ last \in Nat
          BY MigrationAssumption DEF TypeOK, Frame, Seqs, Of
        <5> QED
          BY <3>1, <5>1, <5>2
      <4> QED
        BY <4>1, <4>2, <4>3 DEF Newest
    <3> HIDE DEF f
    <3> QED
      BY <2>1, <2>2, <3>1, <3>2, <3>3, <3>4, AppendedMarked DEF Evidence
  <2>10. ~(Write \/ PublishGeneration \/ Fold)
    BY <2>3 DEF Write, PublishGeneration, Fold, Plain
  <2> QED
    BY <2>5, <2>6, <2>7, <2>8, <2>9, <2>10 DEF Moves
<1> QED
  BY <1>1, <1>2

LEMMA MarkedStateStep ==
    ASSUME TypeOK, PlaceInv, CallInv, FreshInv, MarkedLogInv, MarkedStateInv, Next
    PROVE  MarkedStateInv'
<1> USE DEF journal, handle, world
<1> SUFFICES ASSUME marker' \in Manifests
             PROVE  /\ state'.schema = 6 => state'.m = marker'
                    /\ state'.up = "ready" =>
                          \E a \in Of("act")' : state'.proof = ProofOf(a)
  BY DEF MarkedStateInv, ProofOf
<1>1. CASE MarkerWrite
  BY <1>1, MarkerWritten DEF MarkedStateInv, ProofOf
<1>2. CASE ~MarkerWrite
  <2>1. marker' = marker /\ marker \in Manifests /\ marker # None
    BY <1>2, MarkerSteps, MigrationAssumption DEF MarkerCreate, RemoveMarker
  <2>2. pc \notin Plain /\ (pc \in Behind => who = marker)
    BY <2>1 DEF CallInv, ControlInv
  <2>3. log \subseteq log'
    <3>1. ~Fold
      BY <2>2 DEF Fold, Plain
    <3> QED
      BY <3>1, StillSteps, MoveSteps DEF SameJournal
  <2>4. ASSUME state' = state
        PROVE  /\ state'.schema = 6 => state'.m = marker'
               /\ state'.up = "ready" =>
                     \E a \in Of("act")' : state'.proof = ProofOf(a)
    BY <2>1, <2>3, <2>4 DEF MarkedStateInv, Of
  <2>5. ASSUME state' = Saved
        PROVE  (state'.schema = 6 => state'.m = marker') /\ state'.up # "ready"
    <3>1. state'.up # "ready"
      BY <2>1, <2>5, SavedFields DEF None
    <3>2. CASE act # NoProof
      <4>1. PICK a \in Of("act") : act = ProofOf(a)
        BY <3>2 DEF CallInv
      <4>2. a.m = marker
        BY <2>1, <4>1 DEF MarkedLogInv, Of, Evidence
      <4>3. state'.m = act.m
        BY <2>5, <3>2, SavedFields
      <4> QED
        BY <2>1, <3>1, <4>1, <4>2, <4>3 DEF ProofOf
    <3>3. CASE act = NoProof
      BY <2>1, <2>5, <3>1, <3>3, SavedFields
    <3> QED
      BY <3>2, <3>3
  <2>6. CASE Close \/ Checkpoint \/ PublishReceipt
    BY <2>5, <2>6 DEF Close, Checkpoint, PublishReceipt, Publish, Save
  <2>7. CASE CutOver
    <3>1. state'.m = who /\ state'.up = "in_progress"
      BY <2>7 DEF CutOver, TypeOK, StateFile
    <3> QED
      BY <2>1, <2>2, <2>7, <3>1 DEF CutOver, Behind
  <2>8. CASE WriteReady
    <3>1. /\ state'.m = state.m /\ state'.schema = state.schema
          /\ state'.proof = act
      BY <2>8 DEF WriteReady, TypeOK, StateFile
    <3>2. \E a \in Of("act") : act = ProofOf(a)
      BY <2>8 DEF WriteReady, CallInv, ControlInv
    <3> QED
      BY <2>1, <2>3, <3>1, <3>2 DEF MarkedStateInv, Of
  <2>9. ASSUME NEW m \in Manifests, MigrateResume(m)
        PROVE  /\ state'.schema = 6 => state'.m = marker'
               /\ state'.up = "ready" =>
                     \E a \in Of("act")' : state'.proof = ProofOf(a)
    <3>1. CASE state.schema = 5
      <4>1. state'.m = m /\ state'.up = "in_progress"
        BY <2>9, <3>1 DEF MigrateResume
      <4> QED
        BY <2>1, <2>9, <4>1 DEF MigrateResume, Resumes
    <3>2. CASE state.schema # 5
      BY <2>4, <2>9, <3>2 DEF MigrateResume
    <3> QED
      BY <3>1, <3>2
  <2>10. CASE Crash \/ StepFails \/ \E m \in Manifests : ResumeFails(m)
    BY <2>4, <2>10 DEF Crash, StepFails, ResumeFails
  <2>11. CASE RemoveMarker \/ KeepReceipt \/ ReceiptMismatch \/ InstallActivation
    BY <2>4, <2>11 DEF RemoveMarker, KeepReceipt, ReceiptMismatch, InstallActivation,
       Refuse
  <2>12. CASE ActivationConflict \/ CheckAuthority \/ AuthorityFails
    BY <2>4, <2>12 DEF ActivationConflict, CheckAuthority, AuthorityFails, Refuse
  <2>13. CASE AppendCommit \/ ApplyCommit \/ AlreadyCommitted
              \/ \E i \in ChunkIds : AppendChunk(i) \/ ApplyChunk(i)
    BY <2>4, <2>13 DEF AppendCommit, ApplyCommit, AlreadyCommitted, AppendChunk,
       ApplyChunk
  <2> QED
    BY <2>1, <2>6, <2>7, <2>8, <2>9, <2>10, <2>11, <2>12, <2>13, MarkedSteps DEF Migrate
<1> QED
  BY <1>1, <1>2

\* Nothing gets between the approved frontier and a commit.
LEMMA SourceStep ==
    ASSUME TypeOK, PlaceInv, CallInv, MarkedLogInv, SourceIsApproved, Next, PlaceInv'
    PROVE  SourceIsApproved'
<1> USE DEF journal, handle, world
<1> SUFFICES ASSUME NEW c \in Of("commit")', ~c.base
             PROVE  /\ approved'[c.m] >= 0
                    /\ \A f \in log' : approved'[c.m] < f.seq /\ f.seq < c.seq =>
                          f.kind # "write" /\ f.m \in {c.m, None}
  BY DEF SourceIsApproved
<1>1. ~Fold
  <2> SUFFICES ASSUME Fold PROVE FALSE
    OBVIOUS
  <2>1. PICK f \in log : c = Folded(f)
    BY DEF Fold, Of
  <2>2. Folded(f).base
    BY Zenon, <2>1 DEF Folded, TypeOK, Frame
  <2> QED
    BY <2>1, <2>2
<1>2. last \in Nat /\ \A f \in log : f.seq \in Nat /\ f.seq <= last
  BY MigrationAssumption DEF TypeOK, Frame, Seqs, PlaceInv
<1>3. CASE c \in log
  <2>1. c \in Of("commit") /\ c.m \in Manifests
    BY <1>3 DEF Of, PlaceInv, Evidence
  <2>2. /\ approved[c.m] >= 0
        /\ \A f \in log : approved[c.m] < f.seq /\ f.seq < c.seq =>
              f.kind # "write" /\ f.m \in {c.m, None}
    BY <2>1 DEF SourceIsApproved
  <2>3. approved'[c.m] = approved[c.m]
    <3>1. ASSUME NEW m \in Manifests, DryRun(m) PROVE approved'[c.m] = approved[c.m]
      <4>1. approved[m] = -1 /\ approved' = [approved EXCEPT ![m] = last]
        BY <3>1 DEF DryRun
      <4>2. m # c.m
        BY <2>2, <4>1
      <4> QED
        BY <2>1, <4>1, <4>2 DEF TypeOK
    <3> QED
      BY <3>1, ApprovedSteps
  <2>4. \A f \in log' : f \in log \/ f.seq = last + 1
    BY <1>1, StillSteps, MoveSteps DEF SameJournal
  <2>5. ~(last + 1 < c.seq)
    BY <1>2, <1>3
  <2> QED
    BY <2>2, <2>3, <2>4, <2>5
<1>4. CASE c \notin log
  <2>1. AppendCommit
    <3>1. Moves
      BY <1>4, StillSteps DEF SameJournal, Of
    <3> QED
      BY <1>1, <1>4, <3>1 DEF Moves, Write, PublishGeneration, PublishReceipt, Publish,
         InstallActivation, AppendChunk, Append, FrameAt, Of
  <2>2. /\ log' = log \cup {c} /\ c.m = who /\ approved' = approved
    <3> DEFINE f == FrameAt(last + 1, "commit", who, 0, last + 1, 0)
    <3>1. log' = log \cup {f} /\ approved' = approved
      BY <2>1 DEF AppendCommit, Append
    <3>2. f.m = who
      BY DEF FrameAt
    <3>3. c \in log'
      BY DEF Of
    <3> HIDE DEF f
    <3> QED
      BY <1>4, <3>1, <3>2, <3>3
  <2>3. marker = who /\ who \in Manifests
    BY <2>1 DEF AppendCommit, CallInv, ControlInv, Behind
  <2>4. \A f \in log : f.seq > approved[who] => f.kind # "write" /\ f.m \in {who, None}
    BY <2>3 DEF MarkedLogInv
  <2>5. approved[who] \in 0 .. last
    BY <2>3 DEF MarkedLogInv
  <2>6. c.kind = "commit"
    BY DEF Of
  <2> QED
    BY <1>2, <2>2, <2>4, <2>5, <2>6
<1> QED
  BY <1>3, <1>4

----------------------------------------------------------------------------
(* After the marker.                                                       *)

\* The authority check at the end of a call finds every piece of the evidence
\* in its place: what preflight_schema6_activation will ask of later opens.
LEMMA AuthorityProves ==
    ASSUME TypeOK, PlaceInv, CallInv, MarkedLogInv, MarkedStateInv,
           pc = "authority", Authority(state, proj)
    PROVE  Proven /\ Full
<1>1. marker \in Manifests /\ state.up = "ready" /\ state.schema = 6
  BY DEF Authority, CallInv, ControlInv, Behind
<1>2. PICK a \in Of("act") : state.proof = ProofOf(a)
  BY <1>1 DEF MarkedStateInv
<1>3. /\ Of("act") = {a}
      /\ a.m = marker /\ state.m = marker
      /\ state.proof.at = a.at /\ state.proof.id = a.id
  BY <1>1, <1>2 DEF PlaceInv, MarkedLogInv, MarkedStateInv, ProofOf, Of, Evidence
<1>4. /\ \A f \in Of("chunk") : f.m = a.m
      /\ \A c \in Of("commit") : c.m = a.m /\ c.at = a.at
      /\ Of("commit") # {}
      /\ \E g \in Of("gen") : g.id = a.id /\ g.at = a.at
  BY <1>3 DEF Authority
<1>5. PICK c \in Of("commit") : TRUE
  BY <1>4
<1>6. PICK g \in Of("gen") : g.id = a.id /\ g.at = a.at
  BY <1>4
<1>7. /\ c.seq = c.at /\ c.at = a.at /\ c.seq > approved[marker]
      /\ approved[marker] \in 0 .. last
      /\ \A i \in ChunkIds : \E f \in Of("chunk") : f.i = i /\ f.seq < c.seq
  BY <1>1, <1>4, <1>5 DEF MarkedLogInv, Of, Evidence
<1>8. g.at < g.seq /\ (g.base \/ g.seq = g.at + 1)
  BY <1>6 DEF PlaceInv
<1>9. /\ g.seq \in Nat /\ c.seq \in Nat /\ a.seq \in Nat /\ a.at \in Nat /\ last \in Nat
      /\ a.at = 0 \/ a.at + 1 < a.seq
  BY <1>1, <1>2, <1>5, <1>6, MigrationAssumption
     DEF TypeOK, Frame, Seqs, Of, MarkedLogInv
<1>10. ~g.base
  <2>1. g.seq > approved[marker]
    BY <1>6, <1>7, <1>8, <1>9
  <2> QED
    BY <1>1, <1>6, <2>1 DEF MarkedLogInv, Of
<1>11. c.seq < g.seq /\ g.seq < a.seq
  BY <1>6, <1>7, <1>8, <1>9, <1>10
<1>12. Before(c, g) /\ Before(g, a)
  BY <1>11 DEF Before
<1>13. \A i \in ChunkIds : \E f \in Of("chunk") : f.i = i /\ Before(f, c)
  BY <1>7 DEF Before
<1>14. ActivationHolds(a)
  BY <1>3, <1>4, <1>5, <1>6, <1>7, <1>8, <1>12, <1>13 DEF ActivationHolds
<1> QED
  BY <1>2, <1>14 DEF Proven, Full, Authority

\* Ordinary frames do not touch the proof.
LEMMA AppendedProven ==
    ASSUME Proven, NEW f, Append(f), f.kind \in {"write", "gen"},
           state'.proof = state.proof
    PROVE  Proven'
<1>1. log' = log \cup {f}
  BY DEF Append
<1>2. /\ Of("act")' = Of("act") /\ Of("chunk")' = Of("chunk")
      /\ Of("commit")' = Of("commit") /\ Of("gen") \subseteq Of("gen")'
  BY <1>1 DEF Of
<1>3. PICK a \in Of("act") : ActivationHolds(a) /\ state.proof = ProofOf(a)
  BY DEF Proven
<1>4. ActivationHolds(a)'
  <2>1. \E c \in Of("commit")', g \in Of("gen")' :
           /\ g.id = a.id /\ g.at = a.at
           /\ c.base \/ c.seq = c.at
           /\ g.base \/ g.seq = g.at + 1
           /\ Before(c, g) /\ Before(g, a)
           /\ \A i \in ChunkIds : \E h \in Of("chunk")' : h.i = i /\ Before(h, c)
    BY <1>2, <1>3 DEF ActivationHolds
  <2>2. /\ Of("act")' = {a}
        /\ \A h \in Of("chunk")' : h.m = a.m
        /\ \A c \in Of("commit")' : c.m = a.m /\ c.at = a.at
    BY <1>2, <1>3 DEF ActivationHolds
  <2> QED
    BY <2>1, <2>2 DEF ActivationHolds, Before, Rank
<1> QED
  BY <1>2, <1>3, <1>4 DEF Proven, ProofOf

LEMMA SameProven ==
    ASSUME Proven, log' = log, state'.proof = state.proof
    PROVE  Proven'
<1>1. \A k : Of(k)' = Of(k)
  BY DEF Of
<1>2. PICK a \in Of("act") : ActivationHolds(a) /\ state.proof = ProofOf(a)
  BY DEF Proven
<1>3. ActivationHolds(a)'
  BY <1>2 DEF ActivationHolds, Before, Rank, Of
<1> QED
  BY <1>2, <1>3 DEF Proven, ProofOf, Of

\* A fold keeps the proof: the chunks, the commit, its receipt and the activation
\* become events of the base segment, in the order of their kinds.
LEMMA FoldedProven ==
    ASSUME TypeOK, Proven, state.m # None, Fold
    PROVE  Proven'
<1> USE DEF journal, handle, world
<1>1. PICK a \in Of("act") : ActivationHolds(a) /\ state.proof = ProofOf(a)
  BY DEF Proven
<1>2. /\ state' = state
      /\ \A h \in log' : \E f \in log : h = Folded(f)
      /\ \A f \in log : f.kind # "gen" \/ f.id = state.proof.id => Folded(f) \in log'
  BY DEF Fold
<1>3. \A f \in log : /\ Folded(f).kind = f.kind /\ Folded(f).m = f.m
                     /\ Folded(f).i = f.i /\ Folded(f).at = f.at
                     /\ Folded(f).id = f.id
  BY DEF Folded, TypeOK, Frame
<1>4. \A f \in log : Folded(f).base
  BY Zenon DEF Folded, TypeOK, Frame
<1>5. state.proof.id = a.id /\ ProofOf(Folded(a)) = ProofOf(a)
  BY <1>1, <1>3 DEF ProofOf, Of
<1>6. PICK c \in Of("commit"), g \in Of("gen") :
         /\ g.id = a.id /\ g.at = a.at
         /\ \A i \in ChunkIds : \E f \in Of("chunk") : f.i = i
  BY <1>1 DEF ActivationHolds
<1>7. /\ Folded(a) \in Of("act")' /\ Folded(c) \in Of("commit")'
      /\ Folded(g) \in Of("gen")'
  BY <1>1, <1>2, <1>3, <1>5, <1>6 DEF Of
<1>8. Of("act")' = {Folded(a)}
  <2>1. \A h \in Of("act")' : h = Folded(a)
    BY <1>1, <1>2, <1>3 DEF Of, ActivationHolds
  <2> QED
    BY <1>7, <2>1
<1>9. /\ \A h \in Of("chunk")' : h.m = Folded(a).m
      /\ \A h \in Of("commit")' : h.m = Folded(a).m /\ h.at = Folded(a).at
  BY <1>1, <1>2, <1>3 DEF Of, ActivationHolds
<1>10. \A f, h \in log : Rank(f) < Rank(h) => Before(Folded(f), Folded(h))
  BY <1>3, <1>4 DEF Before, Rank
<1>11. Before(Folded(c), Folded(g)) /\ Before(Folded(g), Folded(a))
  BY <1>1, <1>6, <1>10 DEF Rank, Of
<1>12. \A i \in ChunkIds : \E h \in Of("chunk")' : h.i = i /\ Before(h, Folded(c))
  <2> TAKE i \in ChunkIds
  <2>1. PICK f \in Of("chunk") : f.i = i
    BY <1>6
  <2>2. Folded(f) \in Of("chunk")' /\ Folded(f).i = i
    BY <1>2, <1>3, <2>1 DEF Of
  <2>3. Before(Folded(f), Folded(c))
    BY <1>6, <1>10, <2>1 DEF Rank, Of
  <2> QED
    BY <2>2, <2>3
<1>13. \E b : b = Folded(a)
  OBVIOUS
<1>14. PICK b : b = Folded(a)
  BY <1>13
<1>15. \E c1 \in Of("commit")', g1 \in Of("gen")' :
          /\ g1.id = b.id /\ g1.at = b.at
          /\ c1.base /\ g1.base
          /\ Before(c1, g1) /\ Before(g1, b)
          /\ \A i \in ChunkIds : \E h \in Of("chunk")' : h.i = i /\ Before(h, c1)
  <2>1. Folded(c).base /\ Folded(g).base
    BY <1>4, <1>6 DEF Of
  <2>2. Folded(g).id = b.id /\ Folded(g).at = b.at
    BY <1>1, <1>3, <1>6, <1>14 DEF Of
  <2> QED
    BY <1>7, <1>11, <1>12, <1>14, <2>1, <2>2
<1>16. ActivationHolds(b)'
  BY <1>8, <1>9, <1>14, <1>15 DEF ActivationHolds, Before, Rank
<1> QED
  BY <1>1, <1>2, <1>5, <1>7, <1>14, <1>16 DEF Proven, ProofOf

\* After a clean close nothing is left to replay, and the open finds its evidence.
LEMMA ReadyCanOpen ==
    ASSUME TypeOK, PlaceInv, CallInv, ReadyInv, Ready, pc = "down", ~late
    PROVE  /\ \E a \in Of("act") : Opens(ProofOf(a))
           /\ \A a : Activated(a) => Opens(a)
<1>1. /\ Proven /\ Full
      /\ state.comp /\ projFile /\ state.snap = last /\ Newest(state.gen)
      /\ state.m # None /\ state.m = state.proof.m
      /\ state.up = "ready" /\ marker = None /\ state.schema = 6
  BY DEF ReadyInv, Ready, CallInv, ControlInv
<1>2. last \in Nat /\ \A f \in log : f.seq \in Nat /\ f.seq <= last
  BY MigrationAssumption DEF TypeOK, Frame, Seqs, PlaceInv
<1>3. IsLatest(state.gen, state.snap)
  BY <1>1, LatestIsNewest
<1>4. SnapshotLoads
  BY <1>1, <1>2, <1>3 DEF SnapshotLoads
<1>5. Tail = {} /\ TailChunks = {} /\ TailCommits = {}
  BY <1>1, <1>2, <1>4 DEF Tail, TailChunks, TailCommits
<1>6. ~ReplayFails
  BY <1>5 DEF ReplayFails, ChunkGap
<1>7. Recovered = proj
  <2>1. RowsBy(MaxSeq) = proj.rows
    BY <1>5, RowsByKeeps
  <2>2. Replayed = proj
    BY <1>5, <2>1 DEF Replayed
  <2> QED
    BY <1>1, <1>4, <2>2 DEF Recovered, Rebuilt
<1>8. PICK a \in Of("act") : ActivationHolds(a) /\ state.proof = ProofOf(a)
  BY <1>1 DEF Proven
<1>9. state.proof.at = a.at /\ state.proof.id = a.id /\ state.m = a.m
  BY <1>1, <1>8 DEF ProofOf
<1>10. Authority(state, proj)
  BY <1>1, <1>8, <1>9 DEF Authority, ActivationHolds, Full
<1>11. Gate
  BY <1>1 DEF Gate
<1>12. \A p : Activated(p) <=> p = ProofOf(a)
  BY <1>1, <1>8 DEF Activated, ActivationHolds
<1> QED
  BY <1>1, <1>6, <1>7, <1>8, <1>10, <1>11, <1>12 DEF Opens

\* The removal of the marker makes a database ready.
LEMMA MarkerRemoved ==
    ASSUME TypeOK, CallInv, MarkedLogInv, MarkedStateInv, ReadyInv, RemoveMarker
    PROVE  ReadyInv'
<1> USE DEF journal, handle, world
<1>1. /\ pc = "unmark" /\ pc' = "drop" /\ marker' = None
      /\ log' = log /\ state' = state /\ proj' = proj /\ version' = version
  BY DEF RemoveMarker
<1>2. state.up = "ready" /\ Proven /\ Full
  BY <1>1 DEF ReadyInv
<1>3. version = 6 /\ state.schema = 6 /\ marker \in Manifests
  BY <1>1 DEF CallInv, ControlInv, Behind
<1>4. PICK a \in Of("act") : state.proof = ProofOf(a)
  BY <1>2 DEF Proven
<1>5. state.proof.m = marker /\ state.m = marker /\ marker # None
  BY <1>3, <1>4, MigrationAssumption DEF MarkedLogInv, MarkedStateInv, ProofOf, Of,
     Evidence
<1>6. Proven'
  BY <1>1, <1>2, SameProven
<1>7. Full'
  BY <1>1, <1>2 DEF Full
<1> QED
  BY <1>1, <1>2, <1>3, <1>5, <1>6, <1>7 DEF ReadyInv, Ready, Plain

\* Only the removal of the marker makes a database ready.
LEMMA BecomesReady ==
    ASSUME TypeOK, CallInv, FreshInv, ~Ready, Ready', Next
    PROVE  RemoveMarker
<1> USE DEF journal, handle, world
<1> SUFFICES ASSUME ~RemoveMarker PROVE FALSE
  OBVIOUS
<1>1. marker' = None /\ state'.up = "ready"
  BY DEF Ready
<1>2. marker = None
  BY <1>1, MarkerSteps, MigrationAssumption
     DEF MarkerCreate, MarkerWrite, CallInv, ControlInv, None, Torn
<1>3. marker \notin Manifests /\ state.up # "ready" /\ version = 5
  BY <1>1, <1>2, MigrationAssumption DEF Ready, FreshInv
<1>4. Saved.up # "ready"
  BY <1>3, SavedFields DEF None
<1>5. CASE OpenOrdinary \/ OpenFails \/ Write \/ Fold
  BY <1>1, <1>3, <1>5 DEF OpenOrdinary, OpenFails, Write, Fold
<1>6. CASE PublishGeneration \/ PublishState \/ Close \/ \E m \in Manifests : DryRun(m)
  BY <1>1, <1>4, <1>6 DEF PublishGeneration, Publish, PublishState, Close, DryRun, Save
<1>7. CASE Swap
  BY <1>1, <1>3, <1>7 DEF Swap, TypeOK, StateFile
<1>8. CASE MarkerCreate \/ MarkerWrite \/ ResumeInvalid \/ \E m \in Manifests : MigrateBegin(m)
  BY <1>1, <1>3, <1>8 DEF MarkerCreate, MarkerWrite, ResumeInvalid, MigrateBegin
<1>9. CASE Crash \/ StepFails
  BY <1>1, <1>3, <1>9 DEF Crash, StepFails
<1> QED
  BY <1>3, <1>5, <1>6, <1>7, <1>8, <1>9, FreshSteps DEF Ordinary

\* A migrated database through the steps of its handles.
LEMMA ReadyAgain ==
    ASSUME TypeOK, PlaceInv, CallInv, ReadyInv, Ready, Next
    PROVE  ReadyInv'
<1> USE DEF journal, handle, world
<1>1. /\ Ready' /\ state'.schema = 6
      /\ state'.m = state.m /\ state'.proof = state.proof
  BY ReadyKept
<1>2. /\ state.m # None /\ state.m = state.proof.m /\ Proven
      /\ pc # "down" => version = 6 /\ pc \in Plain \cup {"drop"} /\ Full
  BY DEF ReadyInv
<1>3. /\ state.up = "ready" /\ marker = None /\ state.schema = 6
  BY DEF Ready, CallInv, ControlInv
<1>4. Proven'
  <2>1. CASE Fold
    BY <1>2, <2>1, FoldedProven
  <2>2. CASE Write
    <3> DEFINE f == FrameAt(last + 1, "write", None, 0, 0, 0)
    <3>1. Append(f) /\ f.kind \in {"write", "gen"}
      BY <2>2 DEF Write, FrameAt
    <3> QED
      BY <1>1, <1>2, <3>1, AppendedProven
  <2>3. CASE PublishGeneration
    <3> DEFINE f == FrameAt(last + 1, "gen", None, 0, last, gen.id + 1)
    <3>1. Append(f) /\ f.kind \in {"write", "gen"}
      BY <2>3 DEF PublishGeneration, Publish, FrameAt
    <3> QED
      BY <1>1, <1>2, <3>1, AppendedProven
  <2>4. CASE OpenOrdinary \/ OpenFails \/ Swap \/ PublishState \/ Close \/ Crash
    <3>1. log' = log
      BY <2>4 DEF OpenOrdinary, OpenFails, Swap, PublishState, Close, Crash
    <3> QED
      BY <1>1, <1>2, <3>1, SameProven
  <2> QED
    BY <2>1, <2>2, <2>3, <2>4, ReadySteps
<1>5. ASSUME proj' = proj, Full PROVE Full'
  BY <1>1, <1>5 DEF Full
<1>6. pc' # "unmark"
  BY <1>2, ReadySteps DEF OpenOrdinary, OpenFails, Write, PublishGeneration, Fold, Swap,
     PublishState, Close, Crash, Plain
<1>7. pc' # "down" => version' = 6 /\ pc' \in Plain \cup {"drop"}
  BY <1>2, <1>3, ReadySteps DEF OpenOrdinary, OpenFails, Write, PublishGeneration, Fold,
     Swap, PublishState, Close, Crash, Plain
<1>8. pc' # "down" => Full'
  <2> SUFFICES ASSUME pc' # "down" PROVE Full'
    OBVIOUS
  <2>1. CASE OpenOrdinary
    <3>1. proj' = Recovered /\ Authority(state, Recovered)
      BY <1>3, <2>1 DEF OpenOrdinary, Opens, Recover
    <3> QED
      BY <1>1, <3>1 DEF Authority, Full
  <2>2. CASE Write \/ PublishGeneration \/ Fold \/ Swap \/ PublishState
    BY <1>2, <1>5, <2>2 DEF Write, PublishGeneration, Fold, Swap, PublishState
  <2> QED
    BY <2>1, <2>2, ReadySteps DEF OpenFails, Close, Crash
<1>9. pc' = "down" /\ ~late' =>
         /\ Full'
         /\ state'.comp /\ projFile'
         /\ state'.snap = last' /\ Newest(state.gen)'
  <2> SUFFICES ASSUME pc' = "down", ~late'
               PROVE  /\ Full'
                      /\ state'.comp /\ projFile'
                      /\ state'.snap = last' /\ Newest(state.gen)'
    OBVIOUS
  <2>1. CASE Close
    <3>1. state' = Saved /\ projFile' /\ log' = log /\ last' = last /\ proj' = proj
      BY <2>1 DEF Close, Save
    <3>2. pc # "down"
      BY <2>1 DEF Close
    <3>3. Newest(gen)
      BY <3>2 DEF CallInv
    <3>4. state'.comp /\ state'.snap = last' /\ state'.gen = gen
      BY <3>1, SavedFields
    <3>5. Newest(state.gen)'
      BY <3>1, <3>3, <3>4 DEF Newest, Of, GenOf
    <3> QED
      BY <1>2, <1>5, <3>1, <3>2, <3>4, <3>5
  <2>2. ~Crash
    <3> SUFFICES ASSUME Crash PROVE FALSE
      OBVIOUS
    <3>1. pc # "down" /\ Harmless
      BY DEF Crash
    <3> QED
      BY <1>2, <3>1 DEF Harmless, Early, Plain
  <2>3. ~OpenFails
    <3> SUFFICES ASSUME OpenFails PROVE FALSE
      OBVIOUS
    <3>1. pc = "down" /\ late' = late /\ \E a : Activated(a) /\ ~Opens(a)
      BY DEF OpenFails
    <3> QED
      BY <3>1, ReadyCanOpen
  <2>4. ~(OpenOrdinary \/ Write \/ PublishGeneration \/ Fold \/ Swap \/ PublishState)
    BY DEF OpenOrdinary, Write, PublishGeneration, Fold, Swap, PublishState
  <2> QED
    BY <2>1, <2>2, <2>3, <2>4, ReadySteps
<1> QED
  BY <1>1, <1>2, <1>4, <1>6, <1>7, <1>8, <1>9 DEF ReadyInv, Ready

LEMMA ReadyStep ==
    ASSUME TypeOK, PlaceInv, CallInv, FreshInv, MarkedLogInv, MarkedStateInv, ReadyInv,
           Next
    PROVE  ReadyInv'
<1> USE DEF journal, handle, world
<1>1. CASE Ready
  BY <1>1, ReadyAgain
<1>2. CASE RemoveMarker
  BY <1>2, MarkerRemoved
<1>3. CASE ~Ready /\ ~RemoveMarker
  <2>1. ~Ready'
    BY <1>3, BecomesReady
  <2>2. ASSUME pc' = "unmark" PROVE state'.up = "ready" /\ Proven' /\ Full'
    <3>1. CheckAuthority
      BY <2>2 DEF Next, Ordinary, Migrate, Resume, OpenOrdinary, OpenFails, Write,
         PublishGeneration, Fold, Swap, PublishState, Close, DryRun, MigrateBegin,
         MarkerCreate, MarkerWrite, CutOver, Checkpoint, AppendChunk, ApplyChunk,
         AppendCommit, ApplyCommit, AlreadyCommitted, PublishReceipt, KeepReceipt,
         ReceiptMismatch, InstallActivation, ActivationConflict, WriteReady,
         AuthorityFails, RemoveMarker, Refuse, ResumeInvalid, MigrateResume,
         ResumeFails, Resumes, Crash, StepFails
    <3>2. /\ state' = state /\ proj' = proj /\ log' = log
          /\ pc = "authority" /\ Authority(state, proj)
      BY <3>1 DEF CheckAuthority
    <3>3. Proven /\ Full /\ state.up = "ready"
      BY <3>2, AuthorityProves DEF Authority
    <3> QED
      BY <3>2, <3>3, SameProven DEF Full
  <2> QED
    BY <2>1, <2>2 DEF ReadyInv
<1> QED
  BY <1>1, <1>2, <1>3

----------------------------------------------------------------------------
(* The theorems.                                                           *)

LEMMA MigrationInit ==
    ASSUME Init
    PROVE  MigrationInv
<1>1. TypeOK
  <2>1. 0 \in Seqs /\ Budget \in 0 .. Budget /\ 0 \in 0 .. MaxCrashes
    BY MigrationAssumption DEF Seqs
  <2>2. NoGen \in Generation /\ NoProof \in Proof /\ NoRows \in Rows
    BY <2>1 DEF NoGen, Generation, NoProof, Proof, NoRows, Rows
  <2>3. state \in StateFile
    <3>1. state = [schema |-> 5, up |-> None, m |-> None, proof |-> NoProof,
                   snap |-> 0, gen |-> NoGen, comp |-> TRUE] /\ TRUE \in BOOLEAN
      BY DEF Init
    <3> QED
      BY <2>1, <2>2, <3>1 DEF StateFile
  <2>4. approved \in [Manifests -> Seqs \cup {-1}]
    BY DEF Init
  <2>5. log \subseteq Frame /\ projFile \in BOOLEAN /\ synced \in BOOLEAN
    BY DEF Init
  <2> QED
    BY <2>1, <2>2, <2>3, <2>4, <2>5 DEF Init, TypeOK
<1>2. PlaceInv
  BY DEF Init, PlaceInv, Of, NoRows
<1>3. CallInv /\ FreshInv
  BY MigrationAssumption DEF Init, CallInv, ControlInv, FreshInv, Plain, Behind, Of, None,
     Torn
<1>4. MarkedLogInv /\ MarkedStateInv
  BY MigrationAssumption DEF Init, MarkedLogInv, MarkedStateInv
<1>5. ReadyInv /\ SourceIsApproved
  BY DEF Init, ReadyInv, Ready, SourceIsApproved, Of, None
<1> QED
  BY <1>1, <1>2, <1>3, <1>4, <1>5 DEF MigrationInv

LEMMA MigrationStep ==
    ASSUME MigrationInv, [Next]_vars
    PROVE  MigrationInv'
<1>1. CASE Next
  <2>1. /\ TypeOK /\ PlaceInv /\ CallInv /\ FreshInv /\ MarkedLogInv /\ MarkedStateInv
        /\ ReadyInv /\ SourceIsApproved
    BY DEF MigrationInv
  <2>2. TypeOK'
    BY <1>1, <2>1, TypeStep
  <2>3. PlaceInv'
    BY <1>1, <2>1, <2>2, PlaceStep
  <2>4. CallInv'
    BY <1>1, <2>1, <2>2, <2>3, CallStep
  <2>5. FreshInv'
    BY <1>1, <2>1, FreshStep
  <2>6. MarkedLogInv' /\ MarkedStateInv'
    BY <1>1, <2>1, <2>2, MarkedLogStep, MarkedStateStep
  <2>7. ReadyInv'
    BY <1>1, <2>1, ReadyStep
  <2>8. SourceIsApproved'
    BY <1>1, <2>1, <2>3, SourceStep
  <2> QED
    BY <2>2, <2>3, <2>4, <2>5, <2>6, <2>7, <2>8 DEF MigrationInv
<1>2. CASE UNCHANGED vars
  BY <1>2 DEF vars, MigrationInv, TypeOK, PlaceInv, CallInv, ControlInv, FreshInv,
     MarkedLogInv, MarkedStateInv, ReadyInv, SourceIsApproved, Newest, GenOf, ProofOf,
     NextChunk, Ready, Proven, ActivationHolds, Before, Rank, Full, Of
<1> QED
  BY <1>1, <1>2

\* migrate_schema5_to6, every resumption of it and the ordinary handles before and
\* after keep marker, journal, state.json, rows and handle in the relation that
\* MigrationInv states, wherever a process stops or a step fails.
THEOREM MigrationInvariant == Spec => []MigrationInv
<1>1. Init => MigrationInv
  BY MigrationInit
<1>2. MigrationInv /\ [Next]_vars => MigrationInv'
  BY MigrationStep
<1> QED
  BY <1>1, <1>2, PTL DEF Spec

\* Type correctness: the sequence numbers, generation ids and frontiers that the
\* calls of migrate_schema5_to6 and the ordinary handles write stay within the
\* bound, and state.json and the rows have their shapes, also where a replay
\* recomputes them.
THEOREM TypesHold == Spec => []TypeOK
<1>1. MigrationInv => TypeOK
  BY DEF MigrationInv
<1> QED
  BY <1>1, MigrationInvariant, PTL

\* finalize_schema6_migration, build_compacted_wal, save_state_checkpoint: a
\* database that says it is migrated has the chunks, the commit, the receipt and
\* the activation in its journal, in order, and state.json names that activation,
\* for any number of manifests, chunks, crashes, folds and generations.
THEOREM ReadyIsAlwaysProven == Spec => []ReadyIsProven
<1>1. MigrationInv => ReadyIsProven
  BY DEF MigrationInv, ReadyInv, Proven, ReadyIsProven
<1> QED
  BY <1>1, MigrationInvariant, PTL

\* validate_schema_upgrade_state, validate_schema6_migration_resume: between the
\* approved source frontier of a manifest and its commit the journal has no
\* mutation and no frame of another migration.
THEOREM OnlyTheApprovedIsMigrated == Spec => []SourceIsApproved
<1>1. MigrationInv => SourceIsApproved
  BY DEF MigrationInv
<1> QED
  BY <1>1, MigrationInvariant, PTL

\* Storage::open on a migrated database: as long as no process stopped where the
\* evidence was half written, the next open finds snapshot, rows and activation
\* in agreement and succeeds.
THEOREM ReadyAlwaysOpens == Spec => []ReadyOpens
<1>1. MigrationInv => ReadyOpens
  BY ReadyCanOpen DEF MigrationInv, ReadyOpens
<1> QED
  BY <1>1, MigrationInvariant, PTL

\* Migration is one way: no step of any handle takes a ready state.json back, or
\* changes the proof it carries (save_state_checkpoint).
THEOREM ReadyStaysReady == Spec => ReadyIsFinal
<1>1. MigrationInv /\ [Next]_vars =>
         [Ready => Ready' /\ state'.schema = 6 /\ state'.proof = state.proof]_vars
  BY ReadyKept DEF MigrationInv
<1> QED
  BY <1>1, MigrationInvariant, PTL DEF Spec, ReadyIsFinal

============================================================================
