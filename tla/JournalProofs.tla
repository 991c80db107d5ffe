--------------------------- MODULE JournalProofs ---------------------------
(***************************************************************************)
(* Proofs about the journal, for every set of keys, every bound, either    *)
(* retention profile and either schema.                                    *)
(***************************************************************************)
EXTENDS Journal, TLAPS

Running == phase \in {"replay", "ready"}

Folding == wpc \in {"fold_remove", "fold_reset", "fold_header"}

\* Who may be doing what, and the room the bounds leave for a call that has
\* begun.
CallInv ==
    /\ pc # "idle" => phase = "ready"
    /\ pc \notin {"idle", "snapshot", "publish"} => ~recovery_required
    /\ wpc # "idle" => phase = "ready"
    /\ Folding => pc = "fold"
    /\ recovery_required => phase = "ready"
    /\ phase # "replay" => done = {}
    /\ pc \in {"append", "append_close", "acked", "acked_close"} => cur \in Write
    /\ Appending => next_seq <= MaxSeq
    /\ pc = "append_close" => next_seq < MaxSeq
    /\ pc = "acked_close" => next_seq <= MaxSeq
    /\ pc \in {"append_close", "acked_close"} => logical_clock < MaxClock

TypeInv == TypeOK /\ CallInv

LEMMA InitTypeInv == Init => TypeInv
<1> SUFFICES ASSUME Init PROVE TypeInv
    OBVIOUS
<1> USE ConstantsAssumption
<1>1. NoCells \in [Keys -> Cell]
    BY DEF NoCells, Absent, Cell, Clocks
<1>2. segs \subseteq Segment
    BY DEF Init, GenesisBase, Segment, Seqs
<1>3. active \in ActiveFile
    BY DEF Init, ActiveFile
<1>4. snap \in Snapshot
    BY <1>1 DEF Init, Snapshot, Seqs, Clocks
<1>5. CallInv
    BY DEF Init, CallInv, Folding, Appending
<1>6. recovery_required \in BOOLEAN
    BY Zenon DEF Init
<1> QED
    BY <1>1, <1>2, <1>3, <1>4, <1>5, <1>6 DEF Init, TypeInv, TypeOK, Seqs, Clocks

\* The frame the writer thread makes of the event it is sent.
LEMMA NewFrame == TypeInv /\ Appending => FrameOf(cur, next_seq) \in Frame
BY ConstantsAssumption DEF TypeInv, TypeOK, CallInv, Appending, FrameOf, Write,
   Frame, Seqs

LEMMA ResidueType ==
    TypeInv /\ Appending => AppendResidue(active) \subseteq ActiveFile
<1> SUFFICES ASSUME TypeInv, Appending, NEW a \in AppendResidue(active)
             PROVE  a \in ActiveFile
    OBVIOUS
<1> DEFINE g == FrameOf(cur, next_seq)
<1>1. active \in ActiveFile /\ g \in Frame
    BY NewFrame DEF TypeInv, TypeOK
<1> HIDE DEF g
<1>2. [active EXCEPT !.torn = TRUE] \in ActiveFile
    BY <1>1 DEF ActiveFile
<1>3. [active EXCEPT !.frames = @ \cup {g}] \in ActiveFile
    BY <1>1 DEF ActiveFile
<1> QED
    BY <1>1, <1>2, <1>3, Zenon DEF AppendResidue, g

LEMMA ItemType ==
    ASSUME TypeInv, NEW x \in Items PROVE x \in Item /\ x.f \in Frame
<1>1. CASE x \in SegmentItems
  <2>1. PICK s \in segs : \E f \in s.frames :
           x = [min |-> s.min, max |-> s.max, base |-> s.kind = "B", f |-> f]
    BY <1>1 DEF SegmentItems
  <2>2. PICK f \in s.frames :
           x = [min |-> s.min, max |-> s.max, base |-> s.kind = "B", f |-> f]
    BY <2>1
  <2>4. s \in Segment
    BY DEF TypeInv, TypeOK
  <2>3. (s.kind = "B") \in BOOLEAN
    OBVIOUS
  <2> QED
    BY <2>2, <2>3, <2>4, ConstantsAssumption DEF Segment, Item, Seqs
<1>2. CASE x \in ActiveItems
  <2>1. PICK f \in active.frames :
           x = [min |-> MaxSeq + 1, max |-> MaxSeq + 1, base |-> FALSE, f |-> f]
    BY <1>2 DEF ActiveItems
  <2>2. f \in Frame
    BY DEF TypeInv, TypeOK, ActiveFile
  <2>3. FALSE \in BOOLEAN
    OBVIOUS
  <2> QED
    BY <2>1, <2>2, <2>3, ConstantsAssumption DEF Item
<1> QED BY <1>1, <1>2 DEF Items

LEMMA NextTypeInv == TypeInv /\ [Next]_vars => TypeInv'
<1> SUFFICES ASSUME TypeInv, [Next]_vars PROVE TypeInv'
    OBVIOUS
<1> USE ConstantsAssumption
<1> USE DEF TypeInv, TypeOK, CallInv, Folding, Appending, disk, replay, session
<1>1. ASSUME NEW k \in Keys, AddNode(k) PROVE TypeInv'
    BY <1>1 DEF AddNode, Free, Send, Write, Seqs, Clocks, States
<1>2. ASSUME NEW k \in Keys, RetractNode(k) PROVE TypeInv'
    BY <1>2 DEF RetractNode, Free, Send, Write, Seqs, Clocks, States
<1>3. ASSUME NEW k \in Keys, SupersedeNode(k) PROVE TypeInv'
    BY <1>3 DEF SupersedeNode, Free, Send, Write, Cell, Seqs, Clocks, States
<1>4. CASE WriterAppend
  <2>1. FrameOf(cur, next_seq) \in Frame
    BY <1>4, NewFrame DEF WriterAppend
  <2>2. active' \in ActiveFile
    BY <1>4, <2>1 DEF WriterAppend, ActiveFile
  <2> QED
    BY <1>4, <2>2 DEF WriterAppend, Seqs
<1>5. CASE WriterAppendFails
  <2>1. active' \in ActiveFile
    BY <1>5, ResidueType DEF WriterAppendFails
  <2> QED
    BY <1>5, <2>1 DEF WriterAppendFails, Seqs
<1>6. CASE Apply
    BY <1>6 DEF Apply, CellOf, Cell, Write
<1>7. CASE SupersedeNext
    BY <1>7 DEF SupersedeNext, Send, Write, Seqs, Clocks, States
<1>8. CASE ApplyFails
    BY <1>8 DEF ApplyFails
<1>9. CASE SealNothing
    BY <1>9 DEF SealNothing
<1>10. CASE SealWrite
    BY <1>10 DEF SealWrite, Segment, ActiveFile, Frame
<1>11. CASE SealWriteFails
    BY <1>11 DEF SealWriteFails
<1>12. CASE ResetTruncate
    BY <1>12 DEF ResetTruncate, ActiveFile
<1>13. CASE ResetTruncateFails
    BY <1>13 DEF ResetTruncateFails, Answer
<1>14. CASE ResetHeader
    BY <1>14 DEF ResetHeader, Answer, ActiveFile
<1>15. CASE ResetHeaderFails
    BY <1>15 DEF ResetHeaderFails, Answer, ActiveFile
<1>16. CASE Compact \/ SaveState
    BY <1>16 DEF Compact, SaveState, BeginFold, Free, Sweep, Expired, Absent,
                 Cell, Clocks
<1>17. CASE SaveStateNoFold
    BY <1>17 DEF SaveStateNoFold, Free, Sweep, Expired, Absent, Cell, Clocks
<1>18. CASE FoldWriteBase
    BY <1>18 DEF FoldWriteBase, IsNewBase, Compacted, Kept, Segment, Frame,
                 Cell, States
<1>19. CASE FoldWriteBaseFails
    BY <1>19 DEF FoldWriteBaseFails
<1>20. ASSUME NEW s \in segs, FoldRemove(s) PROVE TypeInv'
    BY <1>20 DEF FoldRemove
<1>21. CASE FoldRemoved
    BY <1>21 DEF FoldRemoved
<1>22. CASE CompactReturns
    BY <1>22 DEF CompactReturns, HistoryTrimmed
<1>23. CASE SnapshotNext
    BY <1>23 DEF SnapshotNext, HistoryTrimmed
<1>24. CASE SnapshotSwap
    BY <1>24 DEF SnapshotSwap, Snapshot
<1>25. CASE SnapshotPublish
    BY <1>25 DEF SnapshotPublish, Snapshot
<1>26. CASE SnapshotFails
    BY <1>26 DEF SnapshotFails
<1>27. CASE Crash
  <2>1. active' \in ActiveFile
    <3>1. CASE Appending /\ wpc = "idle"
        BY <1>27, <3>1, ResidueType DEF Crash, CrashResidue
    <3>2. CASE ~(Appending /\ wpc = "idle")
        BY <1>27, <3>2 DEF Crash, CrashResidue, ActiveFile
    <3> QED BY <3>1, <3>2
  <2>2. NoCells \in [Keys -> Cell]
    BY DEF NoCells, Absent, Cell, Clocks
  <2>3. recovery_required' \in BOOLEAN
    BY <1>27, Zenon DEF Crash
  <2> QED
    BY <1>27, <2>1, <2>2, <2>3 DEF Crash, Clocks, Seqs
<1>28. CASE OpenRefused
    BY <1>28 DEF OpenRefused
<1>29. CASE OpenWithSnapshot
    BY <1>29 DEF OpenWithSnapshot, OpenJournal, Trimmed, ActiveFile,
                 Snapshot, Seqs
<1>30. CASE OpenWithoutSnapshot
    BY <1>30 DEF OpenWithoutSnapshot, OpenJournal, Trimmed, 
                 ActiveFile, NoCells, Absent, Cell, Clocks, Seqs
<1>31. ASSUME NEW x \in Items, ReplayFrame(x) PROVE TypeInv'
  <2>1. x \in Item /\ x.f \in Frame
    BY <1>31, ItemType
  <2>2. Replayed(x, mem[x.f.key]) \in Cell
    BY <2>1 DEF Replayed, CellOf, Frame, Cell
  <2> QED
    BY <1>31, <2>1, <2>2 DEF ReplayFrame, Frame
<1>32. CASE OpenDone
    BY <1>32 DEF OpenDone, Recovered
<1>33. ASSUME NEW k \in Keys, RetentionPasses(k) PROVE TypeInv'
    BY <1>33 DEF RetentionPasses, Cell
<1>34. CASE UNCHANGED vars
    BY <1>34 DEF vars
<1> QED
    BY <1>1, <1>2, <1>3, <1>4, <1>5, <1>6, <1>7, <1>8, <1>9, <1>10, <1>11,
       <1>12, <1>13, <1>14, <1>15, <1>16, <1>17, <1>18, <1>19, <1>20, <1>21,
       <1>22, <1>23, <1>24, <1>25, <1>26, <1>27, <1>28, <1>29, <1>30, <1>31,
       <1>32, <1>33, <1>34
       DEF Next, ClientStep, WriterStep, OpenStep

\* Type correctness of the journal, for every value of the constants.
THEOREM TypeCorrect == Spec => []TypeOK
<1>1. TypeInv => TypeOK
    BY DEF TypeInv
<1> QED
    BY InitTypeInv, NextTypeInv, <1>1, PTL DEF Spec

----------------------------------------------------------------------------
(* Sequence numbers.                                                       *)

\* The frames of a segment are inside its range; there is always a base.
SegmentInv ==
    /\ \A s \in segs : s.min <= s.max /\ \A f \in s.frames : f.seq <= s.max
    /\ \E s \in segs : s.kind = "B"

\* The writer thread's counter is above everything written, and right behind
\* the last acknowledged frame unless an append has failed.
CounterInv ==
    Running =>
        /\ commit_sequence < next_seq
        /\ ~recovery_required => next_seq = commit_sequence + 1
        /\ \A s \in segs : s.max < next_seq
        /\ \A f \in active.frames : f.seq < next_seq

\* Each removal of frames has them covered by a segment first.
CoverInv ==
    /\ Folding => \E s \in segs : IsNewBase(s)
    /\ wpc = "seal_reset" =>
          \E s \in segs : \A f \in active.frames : f.seq <= s.max
    /\ \A s \in segs, f \in active.frames :
          s.kind = "J" /\ f.seq = s.min =>
              \E g \in active.frames : g.seq >= s.max

\* The journal reaches the last acknowledged frame and the snapshot's frontier,
\* and the snapshot is never ahead of the last acknowledged frame.
ReachInv ==
    /\ SnapshotNotAhead
    /\ Running => JournalReaches(commit_sequence)
    /\ Running /\ snap.st = "valid" => snap.frontier <= commit_sequence

SeqInv == SegmentInv /\ CounterInv /\ CoverInv /\ ReachInv

\* A step that writes no frame, removes none and publishes no snapshot.
Quiet ==
    /\ segs' = segs
    /\ active'.frames = active.frames
    /\ next_seq' = next_seq
    /\ commit_sequence' = commit_sequence
    /\ Running' <=> Running
    /\ recovery_required => recovery_required'
    /\ snap'.st = "valid" => snap' = snap
    /\ Folding' => Folding
    /\ wpc' = "seal_reset" => wpc = "seal_reset"

LEMMA QuietKeeps == SeqInv /\ Quiet => SeqInv'
<1> SUFFICES ASSUME SeqInv, Quiet PROVE SeqInv'
    OBVIOUS
<1> USE DEF Quiet
<1>1. SegmentInv'
    BY DEF SeqInv, SegmentInv
<1>2. CounterInv'
    BY DEF SeqInv, CounterInv
<1>3. CoverInv'
    BY DEF SeqInv, CoverInv, IsNewBase
<1>4. ReachInv'
    BY DEF SeqInv, ReachInv, SnapshotNotAhead, JournalReaches
<1> QED
    BY <1>1, <1>2, <1>3, <1>4 DEF SeqInv

LEMMA QuietSteps ==
    ASSUME TypeInv,
           \/ \E k \in Keys : AddNode(k) \/ RetractNode(k) \/ SupersedeNode(k)
           \/ Apply \/ SupersedeNext \/ ApplyFails
           \/ SealNothing \/ SealWriteFails
           \/ ResetTruncateFails \/ ResetHeader \/ ResetHeaderFails
           \/ Compact \/ SaveState \/ SaveStateNoFold
           \/ FoldWriteBaseFails \/ FoldRemoved
           \/ CompactReturns \/ SnapshotNext \/ SnapshotSwap \/ SnapshotFails
           \/ OpenRefused \/ (\E x \in Items : ReplayFrame(x)) \/ OpenDone
           \/ \E k \in Keys : RetentionPasses(k)
           \/ UNCHANGED vars
    PROVE  Quiet
<1> USE DEF Quiet, Running, Folding, disk, session, replay
<1>1. CASE \E k \in Keys : AddNode(k) \/ RetractNode(k) \/ SupersedeNode(k)
    BY <1>1 DEF AddNode, RetractNode, SupersedeNode
<1>2. CASE Apply \/ SupersedeNext \/ ApplyFails
    BY <1>2 DEF Apply, SupersedeNext, ApplyFails
<1>3. CASE SealNothing \/ SealWriteFails
    BY <1>3 DEF SealNothing, SealWriteFails
<1>4. CASE ResetTruncateFails \/ ResetHeader \/ ResetHeaderFails
    BY <1>4 DEF ResetTruncateFails, ResetHeader, ResetHeaderFails, TypeInv,
                TypeOK, ActiveFile
<1>5. CASE Compact \/ SaveState \/ SaveStateNoFold
    BY <1>5 DEF Compact, SaveState, BeginFold, SaveStateNoFold
<1>6. CASE FoldWriteBaseFails \/ FoldRemoved
    BY <1>6 DEF FoldWriteBaseFails, FoldRemoved
<1>7. CASE CompactReturns
    BY <1>7 DEF CompactReturns, HistoryTrimmed, TypeInv, CallInv
<1>8. CASE SnapshotNext \/ SnapshotFails
    BY <1>8 DEF SnapshotNext, SnapshotFails, HistoryTrimmed
<1>9. CASE SnapshotSwap
    BY <1>9 DEF SnapshotSwap, TypeInv, TypeOK, Snapshot
<1>10. CASE OpenRefused \/ OpenDone
    BY <1>10 DEF OpenRefused, OpenDone, Recovered
<1>11. CASE \E x \in Items : ReplayFrame(x)
    BY <1>11 DEF ReplayFrame
<1>12. CASE \E k \in Keys : RetentionPasses(k)
    BY <1>12 DEF RetentionPasses
<1>13. CASE UNCHANGED vars
    BY <1>13 DEF vars
<1> QED
    BY <1>1, <1>2, <1>3, <1>4, <1>5, <1>6, <1>7, <1>8, <1>9, <1>10, <1>11,
       <1>12, <1>13

LEMMA InitSeqInv == Init => SeqInv
BY ConstantsAssumption DEF Init, GenesisBase, SeqInv, SegmentInv, CounterInv,
   CoverInv, ReachInv, SnapshotNotAhead, JournalReaches, Running, Folding

\* A frame is added to the active file, above all others.
LEMMA WriterAppendKeeps == TypeInv /\ SeqInv /\ WriterAppend => SeqInv'
<1> SUFFICES ASSUME TypeInv, SeqInv, WriterAppend PROVE SeqInv'
    OBVIOUS
<1> DEFINE g == FrameOf(cur, next_seq)
<1>1. /\ active'.frames = active.frames \cup {g}
      /\ g.seq = next_seq
      /\ Running
    BY DEF WriterAppend, TypeInv, TypeOK, CallInv, Appending, Running,
           ActiveFile, FrameOf
<1>2. /\ segs' = segs /\ snap' = snap /\ phase' = phase
      /\ next_seq' = next_seq + 1 /\ commit_sequence' = next_seq
      /\ wpc' \in {"idle", "seal"}
      /\ next_seq \in Nat /\ commit_sequence \in Nat
      /\ \A s \in segs : s.min \in Nat /\ s.max \in Nat
      /\ \A f \in active.frames : f.seq \in Nat
    BY DEF WriterAppend, session, TypeInv, TypeOK, Segment, ActiveFile, Frame,
           Seqs
<1> HIDE DEF g
<1>3. SegmentInv'
    BY <1>2 DEF SeqInv, SegmentInv
<1>4. CounterInv'
    BY <1>1, <1>2 DEF SeqInv, CounterInv, Running
<1>5. CoverInv'
    BY <1>1, <1>2 DEF SeqInv, SegmentInv, CounterInv, CoverInv, Folding
<1>6. ReachInv'
    BY <1>1, <1>2 DEF SeqInv, CounterInv, ReachInv, SnapshotNotAhead,
                      JournalReaches, TypeInv, TypeOK, Snapshot, Seqs
<1> QED
    BY <1>3, <1>4, <1>5, <1>6 DEF SeqInv

\* What a failed append or a crash leaves of the frame being written.
LEMMA ResidueFrames ==
    ASSUME TypeInv, NEW a \in AppendResidue(active)
    PROVE  \/ a.frames = active.frames
           \/ /\ a.frames = active.frames \cup {FrameOf(cur, next_seq)}
              /\ FrameOf(cur, next_seq).seq = next_seq
BY DEF AppendResidue, TypeInv, TypeOK, ActiveFile, FrameOf

LEMMA WriterAppendFailsKeeps ==
    TypeInv /\ SeqInv /\ WriterAppendFails => SeqInv'
<1> SUFFICES ASSUME TypeInv, SeqInv, WriterAppendFails PROVE SeqInv'
    OBVIOUS
<1> DEFINE g == FrameOf(cur, next_seq)
<1>1. \/ active'.frames = active.frames
      \/ active'.frames = active.frames \cup {g} /\ g.seq = next_seq
    BY ResidueFrames DEF WriterAppendFails
<1>2. /\ segs' = segs /\ snap' = snap /\ phase' = phase /\ Running
      /\ next_seq' = next_seq + 1 /\ commit_sequence' = commit_sequence
      /\ recovery_required'
      /\ wpc' \in {"idle", "seal"}
      /\ next_seq \in Nat /\ commit_sequence \in Nat
      /\ \A s \in segs : s.min \in Nat /\ s.max \in Nat
      /\ \A f \in active.frames : f.seq \in Nat
    BY DEF WriterAppendFails, replay, TypeInv, TypeOK, CallInv, Appending,
           Running, Segment, ActiveFile, Frame, Seqs
<1> HIDE DEF g
<1>3. SegmentInv'
    BY <1>2 DEF SeqInv, SegmentInv
<1>4. CounterInv'
    BY <1>1, <1>2 DEF SeqInv, CounterInv, Running
<1>5. CoverInv'
    BY <1>1, <1>2 DEF SeqInv, SegmentInv, CounterInv, CoverInv, Folding
<1>6. ReachInv'
    BY <1>1, <1>2 DEF SeqInv, CounterInv, ReachInv, SnapshotNotAhead,
                      JournalReaches, Running
<1> QED
    BY <1>3, <1>4, <1>5, <1>6 DEF SeqInv

\* The active file becomes a segment.  One it replaces began at the same frame,
\* so the active file reaches as far.
LEMMA SealWriteKeeps == TypeInv /\ SeqInv /\ SealWrite => SeqInv'
<1> SUFFICES ASSUME TypeInv, SeqInv, SealWrite PROVE SeqInv'
    OBVIOUS
<1>1. PICK lo \in active.frames, hi \in active.frames :
          /\ \A f \in active.frames : lo.seq <= f.seq /\ f.seq <= hi.seq
          /\ segs' = { s \in segs : s.kind = "B" \/ s.min # lo.seq } \cup
                     { [kind |-> "J", min |-> lo.seq, max |-> hi.seq,
                        frames |-> active.frames] }
    BY DEF SealWrite
<1> DEFINE new == [kind |-> "J", min |-> lo.seq, max |-> hi.seq,
                   frames |-> active.frames]
<1>2. /\ new \in segs'
      /\ new.kind = "J" /\ new.min = lo.seq /\ new.max = hi.seq
      /\ new.frames = active.frames
      /\ \A s \in segs' : s \in segs \/ s = new
      /\ \A s \in segs : s.kind = "B" \/ s.min # lo.seq => s \in segs'
    BY <1>1
<1> HIDE DEF new
<1>3. /\ active' = active /\ snap' = snap /\ phase' = phase
      /\ next_seq' = next_seq /\ commit_sequence' = commit_sequence
      /\ recovery_required' = recovery_required
      /\ wpc' = "seal_reset" /\ Running
      /\ next_seq \in Nat /\ commit_sequence \in Nat /\ snap.frontier \in Nat
      /\ \A s \in segs : s.kind \in {"B", "J"} /\ s.min \in Nat /\ s.max \in Nat
      /\ \A f \in active.frames : f.seq \in Nat
    BY DEF SealWrite, session, TypeInv, TypeOK, CallInv, Running, Segment,
           ActiveFile, Snapshot, Frame, Seqs
<1>4. SegmentInv'
    BY <1>1, <1>2, <1>3 DEF SeqInv, SegmentInv
<1>5. CounterInv'
    BY <1>1, <1>2, <1>3 DEF SeqInv, CounterInv, Running
<1>6. CoverInv'
    BY <1>1, <1>2, <1>3 DEF SeqInv, CoverInv, Folding
<1>7. ASSUME NEW q \in Nat, JournalReaches(q)
      PROVE  JournalReaches(q)'
  <2>1. CASE \E s \in segs : s.max >= q
    <3>1. PICK s \in segs : s.max >= q
        BY <2>1
    <3>2. CASE s.kind = "J" /\ s.min = lo.seq
        BY <1>1, <1>3, <3>1, <3>2 DEF SeqInv, CoverInv, JournalReaches
    <3>3. CASE s.kind = "B" \/ s.min # lo.seq
        BY <1>2, <3>1, <3>3 DEF JournalReaches
    <3> QED BY <1>3, <3>2, <3>3
  <2> QED BY <1>3, <1>7, <2>1 DEF JournalReaches
<1>8. ReachInv'
    BY <1>3, <1>7 DEF SeqInv, ReachInv, SnapshotNotAhead, Running, JournalReaches
<1> QED
    BY <1>4, <1>5, <1>6, <1>8 DEF SeqInv

\* The active file is emptied: a segment has its frames, or the base is at the
\* frontier.
LEMMA ResetTruncateKeeps == TypeInv /\ SeqInv /\ ResetTruncate => SeqInv'
<1> SUFFICES ASSUME TypeInv, SeqInv, ResetTruncate PROVE SeqInv'
    OBVIOUS
<1>1. /\ segs' = segs /\ snap' = snap /\ phase' = phase /\ active'.frames = {}
      /\ next_seq' = next_seq /\ commit_sequence' = commit_sequence
      /\ recovery_required' = recovery_required
      /\ wpc' \in {"seal_header", "fold_header"} /\ Running
      /\ (wpc = "seal_reset" /\ wpc' = "seal_header") \/ Folding
      /\ ~recovery_required \/ wpc = "seal_reset"
      /\ next_seq \in Nat /\ commit_sequence \in Nat /\ snap.frontier \in Nat
      /\ \A s \in segs : s.max \in Nat
      /\ \A f \in active.frames : f.seq \in Nat
    BY DEF ResetTruncate, session, TypeInv, TypeOK, CallInv, Running, Folding,
           Segment, ActiveFile, Snapshot, Frame, Seqs
<1>2. PICK s \in segs :
        \/ \A f \in active.frames : f.seq <= s.max
        \/ s.max = commit_sequence /\ next_seq = commit_sequence + 1
    BY <1>1 DEF SeqInv, CoverInv, CounterInv, IsNewBase
<1>3. \A f \in active.frames : f.seq <= s.max
    BY <1>1, <1>2 DEF SeqInv, CounterInv
<1>4. SegmentInv' /\ CounterInv' /\ CoverInv'
    BY <1>1 DEF SeqInv, SegmentInv, CounterInv, CoverInv, Running, Folding,
                IsNewBase
<1>5. ASSUME NEW q \in Nat, JournalReaches(q) PROVE JournalReaches(q)'
    BY <1>1, <1>3, <1>5 DEF JournalReaches
<1>6. ReachInv'
    BY <1>1, <1>5 DEF SeqInv, ReachInv, SnapshotNotAhead, Running, JournalReaches
<1> QED
    BY <1>4, <1>6 DEF SeqInv

\* A base at the frontier is added, or written anew.
LEMMA FoldWriteBaseKeeps == TypeInv /\ SeqInv /\ FoldWriteBase => SeqInv'
<1> SUFFICES ASSUME TypeInv, SeqInv, FoldWriteBase PROVE SeqInv'
    OBVIOUS
<1> DEFINE new == [kind |-> "B", min |-> commit_sequence,
                   max |-> commit_sequence,
                   frames |-> Compacted(mem, commit_sequence)]
<1>1. /\ new \in segs'
      /\ new.kind = "B" /\ new.min = commit_sequence
      /\ new.max = commit_sequence
      /\ \A f \in new.frames : f.seq = commit_sequence
      /\ \A s \in segs' : s \in segs \/ s = new
      /\ \A s \in segs : (s.kind = "B" /\ s.max = commit_sequence) \/ s \in segs'
    BY DEF FoldWriteBase, Compacted, IsNewBase
<1> HIDE DEF new
<1>2. /\ active' = active /\ snap' = snap /\ phase' = phase
      /\ next_seq' = next_seq /\ commit_sequence' = commit_sequence
      /\ recovery_required' = recovery_required
      /\ wpc' = "fold_remove" /\ Running
      /\ next_seq \in Nat /\ commit_sequence \in Nat /\ snap.frontier \in Nat
      /\ \A s \in segs : s.min \in Nat /\ s.max \in Nat
      /\ \A f \in active.frames : f.seq \in Nat
    BY DEF FoldWriteBase, session, TypeInv, TypeOK, CallInv, Running, Segment,
           ActiveFile, Snapshot, Frame, Seqs
<1>3. SegmentInv'
    BY <1>1, <1>2 DEF SeqInv, SegmentInv
<1>4. CounterInv'
    BY <1>1, <1>2 DEF SeqInv, CounterInv, Running
<1>5. CoverInv'
    BY <1>1, <1>2 DEF SeqInv, CoverInv, Folding, IsNewBase
<1>6. ASSUME NEW q \in Nat, JournalReaches(q) PROVE JournalReaches(q)'
    BY <1>1, <1>2, <1>6 DEF JournalReaches
<1>7. ReachInv'
    BY <1>2, <1>6 DEF SeqInv, ReachInv, SnapshotNotAhead, Running, JournalReaches
<1> QED
    BY <1>3, <1>4, <1>5, <1>7 DEF SeqInv

\* A segment goes, the new base stays, and nothing reaches further than it.
LEMMA FoldRemoveKeeps ==
    ASSUME TypeInv, SeqInv, NEW s \in segs, FoldRemove(s) PROVE SeqInv'
<1>1. PICK b \in segs : IsNewBase(b)
    BY DEF FoldRemove, SeqInv, CoverInv, Folding
<1>2. /\ segs' = segs \ {s} /\ b \in segs' /\ b.kind = "B"
      /\ b.max = commit_sequence /\ next_seq = commit_sequence + 1
    BY <1>1 DEF FoldRemove, IsNewBase, SeqInv, CounterInv, TypeInv, CallInv,
                Folding, Running
<1>3. /\ active' = active /\ snap' = snap /\ phase' = phase
      /\ next_seq' = next_seq /\ commit_sequence' = commit_sequence
      /\ recovery_required' = recovery_required
      /\ wpc' = wpc /\ wpc = "fold_remove" /\ Running
      /\ commit_sequence \in Nat /\ snap.frontier \in Nat
      /\ \A t \in segs : t.max \in Nat
      /\ \A f \in active.frames : f.seq \in Nat
    BY DEF FoldRemove, session, TypeInv, TypeOK, CallInv, Running, Segment,
           ActiveFile, Snapshot, Frame, Seqs
<1>4. SegmentInv' /\ CounterInv'
    BY <1>2, <1>3 DEF SeqInv, SegmentInv, CounterInv, Running
<1>5. CoverInv'
    BY <1>2, <1>3 DEF SeqInv, CoverInv, Folding, IsNewBase
<1>6. ASSUME NEW q \in Nat, JournalReaches(q) PROVE JournalReaches(q)'
    BY <1>2, <1>3, <1>6 DEF JournalReaches, SeqInv, CounterInv
<1>7. ReachInv'
    BY <1>3, <1>6 DEF SeqInv, ReachInv, SnapshotNotAhead, Running, JournalReaches
<1> QED
    BY <1>4, <1>5, <1>7 DEF SeqInv

LEMMA SnapshotPublishKeeps == TypeInv /\ SeqInv /\ SnapshotPublish => SeqInv'
<1> SUFFICES ASSUME TypeInv, SeqInv, SnapshotPublish PROVE SeqInv'
    OBVIOUS
<1>1. /\ segs' = segs /\ active' = active /\ phase' = phase /\ wpc' = wpc
      /\ next_seq' = next_seq /\ commit_sequence' = commit_sequence
      /\ recovery_required' = recovery_required
      /\ snap'.frontier = commit_sequence /\ Running
      /\ commit_sequence \in Nat
    BY DEF SnapshotPublish, session, TypeInv, TypeOK, CallInv, Running, Seqs
<1>2. SegmentInv' /\ CounterInv' /\ CoverInv'
    BY <1>1 DEF SeqInv, SegmentInv, CounterInv, CoverInv, Running, Folding,
                IsNewBase
<1>3. ReachInv'
    BY <1>1 DEF SeqInv, ReachInv, SnapshotNotAhead, JournalReaches, Running
<1> QED
    BY <1>2, <1>3 DEF SeqInv

LEMMA CrashKeeps == TypeInv /\ SeqInv /\ Crash => SeqInv'
<1> SUFFICES ASSUME TypeInv, SeqInv, Crash PROVE SeqInv'
    OBVIOUS
<1> DEFINE g == FrameOf(cur, next_seq)
<1>1. \/ active'.frames = active.frames
      \/ active'.frames = active.frames \cup {g} /\ g.seq = next_seq
  <2>1. CASE Appending /\ wpc = "idle"
    BY <2>1, ResidueFrames DEF Crash, CrashResidue
  <2>2. CASE ~(Appending /\ wpc = "idle")
    BY <2>2 DEF Crash, CrashResidue, TypeInv, TypeOK, ActiveFile
  <2> QED BY <2>1, <2>2
<1>2. /\ segs' = segs /\ snap' = snap /\ ~Running' /\ Running /\ wpc' = "idle"
      /\ next_seq \in Nat
      /\ \A s \in segs : s.min \in Nat /\ s.max \in Nat
      /\ \A f \in active.frames : f.seq \in Nat
    BY DEF Crash, Running, TypeInv, TypeOK, Segment, ActiveFile, Frame, Seqs
<1> HIDE DEF g
<1>3. SegmentInv' /\ CounterInv'
    BY <1>2 DEF SeqInv, SegmentInv, CounterInv
<1>4. CoverInv'
    BY <1>1, <1>2 DEF SeqInv, SegmentInv, CounterInv, CoverInv, Folding
<1>5. ReachInv'
    BY <1>1, <1>2 DEF SeqInv, ReachInv, SnapshotNotAhead, JournalReaches
<1> QED
    BY <1>3, <1>4, <1>5 DEF SeqInv

\* The frames an open drops are below the horizon, where a base is.
LEMMA OpenJournalKeeps ==
    ASSUME TypeInv, SeqInv, NEW h \in Seqs, NEW m \in Seqs,
           OpenJournal(h, m)
    PROVE  SeqInv'
<1>1. PICK fs \in Trimmed(h) :
          /\ IsMaxSeq(m, fs)
          /\ active' = [hdr |-> "ok", frames |-> fs, torn |-> FALSE]
    BY DEF OpenJournal
<1>2. /\ active'.frames = fs
      /\ fs \subseteq active.frames
      /\ \A f \in active.frames : f.seq > h => f \in fs
      /\ fs = active.frames \/ (\A f \in fs : f.seq > h)
    BY <1>1 DEF Trimmed
<1>3. /\ segs' = segs /\ snap' = snap /\ phase' = "replay" /\ wpc' = "idle"
      /\ next_seq' = m + 1 /\ commit_sequence' = m /\ h \in Nat /\ m \in Nat
      /\ snap.frontier \in Nat
      /\ \A s \in segs : s.min \in Nat /\ s.max \in Nat
      /\ \A f \in active.frames : f.seq \in Nat
    BY DEF OpenJournal, TypeInv, TypeOK, CallInv, Segment, ActiveFile, Snapshot,
           Frame, Seqs
<1>4. SegmentInv'
    BY <1>3 DEF SeqInv, SegmentInv
<1>5. CounterInv'
    BY <1>1, <1>2, <1>3 DEF IsMaxSeq, CounterInv
<1>6. CoverInv'
    BY <1>2, <1>3 DEF SeqInv, SegmentInv, CoverInv, Folding
<1>7. ASSUME NEW q \in Nat, JournalReaches(q)
      PROVE  JournalReaches(q)'
  <2>1. ASSUME NEW f \in active.frames, f.seq >= q, f.seq <= h
        PROVE  q = 0 \/ \E s \in segs : s.max >= q
    BY <1>3, <2>1 DEF OpenJournal, IsHorizon
  <2> QED BY <1>2, <1>3, <1>7, <2>1 DEF JournalReaches
<1>8. JournalReaches(m)'
    BY <1>1, <1>2, <1>3 DEF IsMaxSeq, JournalReaches
<1>9. ASSUME snap.st = "valid" PROVE snap.frontier <= m
  <2>1. JournalReaches(snap.frontier)'
    BY <1>3, <1>7, <1>9 DEF SeqInv, ReachInv, SnapshotNotAhead
  <2> QED BY <1>1, <1>2, <1>3, <2>1 DEF JournalReaches, IsMaxSeq
<1>10. ReachInv'
    BY <1>3, <1>7, <1>8, <1>9 DEF SeqInv, ReachInv, SnapshotNotAhead,
                                  JournalReaches
<1> QED
    BY <1>4, <1>5, <1>6, <1>10 DEF SeqInv

LEMMA NextSeqInv == TypeInv /\ SeqInv /\ [Next]_vars => SeqInv'
<1> SUFFICES ASSUME TypeInv, SeqInv, [Next]_vars PROVE SeqInv'
    OBVIOUS
<1>1. CASE OpenWithSnapshot
    BY <1>1, OpenJournalKeeps DEF OpenWithSnapshot
<1>2. CASE OpenWithoutSnapshot
    BY <1>2, OpenJournalKeeps DEF OpenWithoutSnapshot
<1>3. CASE \E s \in segs : FoldRemove(s)
    BY <1>3, FoldRemoveKeeps
<1>4. CASE Quiet
    BY <1>4, QuietKeeps
<1> QED
    BY <1>1, <1>2, <1>3, <1>4, QuietSteps, WriterAppendKeeps,
       WriterAppendFailsKeeps, SealWriteKeeps, ResetTruncateKeeps,
       FoldWriteBaseKeeps, SnapshotPublishKeeps, CrashKeeps
       DEF Next, ClientStep, WriterStep, OpenStep

LEMMA SeqInvariant == Spec => [](TypeInv /\ SeqInv)
BY InitTypeInv, NextTypeInv, InitSeqInv, NextSeqInv,
   PTL DEF Spec

\* stable_frontier is a safe place for a base: whenever commit_lock is free on
\* a writable handle, every frame of the journal is at or below it.
THEOREM FrontierCoversAlways == Spec => []FrontierCovers
<1>1. TypeInv /\ SeqInv => FrontierCovers
  <2> SUFFICES ASSUME TypeInv, SeqInv, Free PROVE
                 /\ next_seq = commit_sequence + 1
                 /\ \A f \in AllFrames : f.seq <= commit_sequence
    BY DEF FrontierCovers
  <2>1. /\ next_seq = commit_sequence + 1 /\ commit_sequence \in Nat
        /\ \A s \in segs : s.max \in Nat /\ \A f \in s.frames : f.seq \in Nat
        /\ \A f \in active.frames : f.seq \in Nat
    BY DEF Free, SeqInv, CounterInv, Running, TypeInv, TypeOK, Segment,
           ActiveFile, Frame, Seqs
  <2> QED
    BY <2>1 DEF AllFrames, Free, SeqInv, SegmentInv, CounterInv, Running
<1> QED
    BY <1>1, SeqInvariant, PTL

\* The journal never falls behind the snapshot: what is appended after a
\* reopen is above the cursor that a recovery from that snapshot skips to,
\* whatever writes and removals fail.
THEOREM SnapshotNeverAhead == Spec => []SnapshotNotAhead
<1>1. SeqInv => SnapshotNotAhead
    BY DEF SeqInv, ReachInv
<1> QED
    BY <1>1, SeqInvariant, PTL

\* history_horizon never moves back: the base a fold writes stays when it
\* removes the others.
THEOREM HorizonMonotone == Spec => HorizonNeverRecedes
<1> DEFINE Keeps == \A h \in Seqs : IsHorizon(h) =>
                       \E s \in segs' : s.kind = "B" /\ s.max >= h
<1>1. TypeInv /\ SeqInv /\ [Next]_vars => [Keeps]_vars
  <2> SUFFICES ASSUME TypeInv, SeqInv, [Next]_vars, NEW h \in Seqs, IsHorizon(h)
               PROVE  \E s \in segs' : s.kind = "B" /\ s.max >= h
    OBVIOUS
  <2>1. PICK b \in segs : b.kind = "B" /\ b.max >= h
    BY DEF IsHorizon, SeqInv, SegmentInv, TypeInv, TypeOK, Segment, Seqs
  <2>2. CASE segs' = segs
    BY <2>1, <2>2
  <2>3. CASE SealWrite
    BY <2>1, <2>3 DEF SealWrite
  <2>4. CASE FoldWriteBase
    <3> DEFINE new == [kind |-> "B", min |-> commit_sequence,
                       max |-> commit_sequence,
                       frames |-> Compacted(mem, commit_sequence)]
    <3>1. new \in segs' /\ new.kind = "B" /\ new.max = commit_sequence
        BY <2>4 DEF FoldWriteBase
    <3>2. b \in segs' \/ b.max = commit_sequence
        BY <2>4 DEF FoldWriteBase, IsNewBase
    <3> HIDE DEF new
    <3> QED
        BY <2>1, <3>1, <3>2
  <2>5. ASSUME NEW s \in segs, FoldRemove(s)
        PROVE  \E t \in segs' : t.kind = "B" /\ t.max >= h
    <3>1. PICK n \in segs : IsNewBase(n)
        BY <2>5 DEF FoldRemove, SeqInv, CoverInv, Folding
    <3>2. n \in segs' /\ n.kind = "B" /\ n.max = commit_sequence
        BY <2>5, <3>1 DEF FoldRemove, IsNewBase
    <3>3. b.max <= commit_sequence
        BY <2>5 DEF FoldRemove, SeqInv, CounterInv, TypeInv, TypeOK, CallInv,
                    Folding, Running, Segment, Seqs
    <3> QED
        BY <2>1, <3>2, <3>3 DEF TypeInv, TypeOK, Segment, Seqs
  <2>6. segs' = segs \/ SealWrite \/ FoldWriteBase \/ \E s \in segs : FoldRemove(s)
    <3>1. CASE WriterAppend \/ WriterAppendFails \/ ResetTruncate \/ SnapshotPublish
               \/ Crash
        BY <3>1 DEF WriterAppend, WriterAppendFails, ResetTruncate,
                    SnapshotPublish, Crash
    <3>2. CASE OpenWithSnapshot \/ OpenWithoutSnapshot
        BY <3>2 DEF OpenWithSnapshot, OpenWithoutSnapshot, OpenJournal
    <3>3. CASE Quiet
        BY <3>3 DEF Quiet
    <3> QED
        BY <3>1, <3>2, <3>3, QuietSteps
           DEF Next, ClientStep, WriterStep, OpenStep
  <2> QED
    BY <2>2, <2>3, <2>4, <2>5, <2>6
<1> QED
    BY <1>1, SeqInvariant, PTL DEF Spec, HorizonNeverRecedes

----------------------------------------------------------------------------
(* Clocks.                                                                 *)

Acked == pc \in {"acked", "acked_close"}

\* The snapshot's clock is not behind a record it holds nor a frame that a
\* recovery from it skips; while nothing has been appended since, not behind
\* any record in memory either.
SnapClockInv ==
    snap.st = "valid" =>
        /\ \A k \in Keys : snap.cells[k].clock <= snap.clock
        /\ \A f \in AllFrames : f.seq <= snap.frontier => f.clock <= snap.clock
        /\ Running /\ snap.frontier = commit_sequence =>
              \A k \in Keys : mem[k].clock <= snap.clock
        /\ Acked => snap.frontier < commit_sequence

\* A running process' clock is not behind a record in memory, nor behind the
\* event being written.
MemClockInv ==
    /\ Running => \A k \in Keys : mem[k].clock <= logical_clock
    /\ Appending \/ Acked => cur.clock <= logical_clock

\* Half-way through a recovery: a frame is either still to be replayed or not
\* ahead of the clock.
ReplayClockInv ==
    phase = "replay" =>
        /\ \A f \in AllFrames : f.seq <= cursor => f.clock <= logical_clock
        /\ \A x \in done : x.f.clock <= logical_clock
        /\ \A s \in segs, f \in active.frames : s.kind = "B" => s.max < f.seq

ClockInv == ClockIsFresh /\ SnapClockInv /\ MemClockInv /\ ReplayClockInv

Numbers ==
    /\ logical_clock \in Nat /\ commit_sequence \in Nat /\ next_seq \in Nat
    /\ snap.frontier \in Nat /\ snap.clock \in Nat /\ cursor \in Int
    /\ \A k \in Keys : mem[k].clock \in Nat /\ snap.cells[k].clock \in Nat
    /\ \A f \in AllFrames : f.seq \in Nat /\ f.clock \in Nat
    /\ \A s \in segs : s.max \in Nat

LEMMA NumbersAre == TypeInv => Numbers
<1> SUFFICES ASSUME TypeInv PROVE Numbers
    OBVIOUS
<1>1. AllFrames \subseteq Frame
    BY DEF AllFrames, TypeInv, TypeOK, Segment, ActiveFile
<1>2. \A k \in Keys : mem[k].clock \in Nat /\ snap.cells[k].clock \in Nat
    BY DEF TypeInv, TypeOK, Snapshot, Cell, Clocks
<1> QED
    BY <1>1, <1>2 DEF Numbers, TypeInv, TypeOK, Snapshot, Segment, Frame, Seqs,
                      Clocks

\* A step that leaves the clock alone and adds no frame, no newer record and no
\* newer event.
Still ==
    /\ AllFrames' \subseteq AllFrames
    /\ \A k \in Keys : mem'[k].clock \in Nat /\ mem'[k].clock <= mem[k].clock
    /\ logical_clock' = logical_clock
    /\ commit_sequence' = commit_sequence
    /\ phase' = phase
    /\ cursor' = cursor /\ done' = done
    /\ snap'.st = "valid" => snap' = snap
    /\ (Appending \/ Acked)' => cur' = cur /\ (Appending \/ Acked)
    /\ Acked' => Acked
    /\ phase = "replay" => segs' = segs /\ active'.frames = active.frames

LEMMA StillKeeps == TypeInv /\ ClockInv /\ Still => ClockInv'
<1> SUFFICES ASSUME TypeInv, ClockInv, Still PROVE ClockInv'
    OBVIOUS
<1>1. Numbers
    BY NumbersAre
<1> USE DEF Still
<1>2. ClockIsFresh'
    BY <1>1 DEF ClockInv, ClockIsFresh, Numbers
<1>3. SnapClockInv'
    BY <1>1 DEF ClockInv, SnapClockInv, Numbers, Running
<1>4. MemClockInv'
    BY <1>1 DEF ClockInv, MemClockInv, Numbers, Running
<1>5. ReplayClockInv'
    BY <1>1 DEF ClockInv, ReplayClockInv, Numbers
<1> QED
    BY <1>2, <1>3, <1>4, <1>5 DEF ClockInv

LEMMA SweepClocks ==
    ASSUME TypeInv, NEW k \in Keys
    PROVE  Sweep(mem)[k].clock \in Nat /\ Sweep(mem)[k].clock <= mem[k].clock
BY DEF Sweep, Absent, TypeInv, TypeOK, Cell, Clocks

LEMMA StillSteps ==
    ASSUME TypeInv,
           \/ ApplyFails \/ SealNothing \/ SealWrite \/ SealWriteFails
           \/ ResetTruncate \/ ResetTruncateFails
           \/ ResetHeader \/ ResetHeaderFails
           \/ Compact \/ SaveState \/ SaveStateNoFold
           \/ FoldWriteBaseFails \/ (\E s \in segs : FoldRemove(s)) \/ FoldRemoved
           \/ CompactReturns \/ SnapshotNext \/ SnapshotSwap \/ SnapshotFails
           \/ \E k \in Keys : RetentionPasses(k)
           \/ UNCHANGED vars
    PROVE  Still
<1>1. \A k \in Keys : mem[k].clock \in Nat /\ mem[k].clock <= mem[k].clock
    BY NumbersAre DEF Numbers
<1> USE DEF Still, Appending, Acked, AllFrames, disk, session, replay
<1>2. CASE ApplyFails \/ SealNothing \/ SealWriteFails
    BY <1>1, <1>2 DEF ApplyFails, SealNothing, SealWriteFails
<1>3. CASE SealWrite
  <2>1. AllFrames' \subseteq AllFrames
    BY <1>3 DEF SealWrite
  <2> QED
    BY <1>1, <1>3, <2>1 DEF SealWrite, TypeInv, CallInv
<1>4. CASE ResetTruncate
  <2>1. AllFrames' \subseteq AllFrames
    BY <1>4 DEF ResetTruncate
  <2> QED
    BY <1>1, <1>4, <2>1 DEF ResetTruncate, TypeInv, CallInv
<1>5. CASE ResetTruncateFails \/ ResetHeader \/ ResetHeaderFails
  <2>1. segs' = segs /\ active'.frames = active.frames
    BY <1>5 DEF ResetTruncateFails, ResetHeader, ResetHeaderFails, TypeInv,
                TypeOK, ActiveFile
  <2> QED
    BY <1>1, <1>5, <2>1 DEF ResetTruncateFails, ResetHeader, ResetHeaderFails,
                            Answer
<1>6. CASE Compact \/ SaveState
    BY <1>6, SweepClocks DEF Compact, SaveState, BeginFold
<1>7. CASE SaveStateNoFold
    BY <1>7, SweepClocks DEF SaveStateNoFold
<1>8. CASE FoldWriteBaseFails \/ FoldRemoved
    BY <1>1, <1>8 DEF FoldWriteBaseFails, FoldRemoved
<1>9. CASE \E s \in segs : FoldRemove(s)
  <2>1. AllFrames' \subseteq AllFrames
    BY <1>9 DEF FoldRemove
  <2> QED
    BY <1>1, <1>9, <2>1 DEF FoldRemove, TypeInv, CallInv
<1>10. CASE CompactReturns \/ SnapshotNext \/ SnapshotFails
    BY <1>1, <1>10 DEF CompactReturns, SnapshotNext, SnapshotFails
<1>11. CASE SnapshotSwap
    BY <1>1, <1>11 DEF SnapshotSwap, TypeInv, TypeOK, Snapshot
<1>12. CASE \E k \in Keys : RetentionPasses(k)
    BY <1>1, <1>12 DEF RetentionPasses
<1>13. CASE UNCHANGED vars
    BY <1>1, <1>13 DEF vars
<1> QED
    BY <1>2, <1>3, <1>4, <1>5, <1>6, <1>7, <1>8, <1>9, <1>10, <1>11, <1>12,
       <1>13

\* An event takes the next clock, or the one the record already has.
LEMMA EventKeeps ==
    ASSUME TypeInv, ClockInv,
           \/ SupersedeNext
           \/ \E k \in Keys : AddNode(k) \/ RetractNode(k) \/ SupersedeNode(k)
    PROVE  ClockInv'
<1>1. Numbers
    BY NumbersAre
<1>2. /\ AllFrames' = AllFrames /\ segs' = segs /\ active' = active
      /\ snap' = snap /\ mem' = mem /\ commit_sequence' = commit_sequence
      /\ phase' = phase /\ phase = "ready"
      /\ logical_clock' \in {logical_clock, logical_clock + 1}
      /\ ~Acked'
  <2>1. CASE SupersedeNext
    BY <2>1 DEF SupersedeNext, Send, disk, session, AllFrames, Acked, TypeInv,
                CallInv
  <2>2. CASE \E k \in Keys : AddNode(k) \/ RetractNode(k) \/ SupersedeNode(k)
    BY <2>2 DEF AddNode, RetractNode, SupersedeNode, Send, Free, disk, session,
                AllFrames, Acked
  <2> QED BY <2>1, <2>2
<1>3. cur'.clock <= logical_clock'
  <2>1. ASSUME NEW k \in Keys, SupersedeNode(k) PROVE cur'.clock <= logical_clock'
    BY <1>1, <1>2, <2>1 DEF SupersedeNode, Send, ClockInv, ClockIsFresh, Numbers
  <2> QED
    BY <1>1, <2>1 DEF SupersedeNext, AddNode, RetractNode, Send, Numbers
<1> QED
    BY <1>1, <1>2, <1>3 DEF ClockInv, ClockIsFresh, SnapClockInv, MemClockInv,
                            ReplayClockInv, Running, Numbers

\* A frame is added with the event's clock, above the snapshot's frontier.
LEMMA AppendClock ==
    ASSUME TypeInv, SeqInv, ClockInv, Appending,
           NEW f \in AllFrames \cup {FrameOf(cur, next_seq)}
    PROVE  /\ f.clock <= logical_clock
           /\ snap.st = "valid" /\ f.seq <= snap.frontier => f.clock <= snap.clock
<1>1. Numbers
    BY NumbersAre
<1>2. phase = "ready" /\ Running
    BY DEF TypeInv, CallInv, Appending, Running
<1>3. CASE f \in AllFrames
    BY <1>2, <1>3 DEF ClockInv, ClockIsFresh, SnapClockInv
<1>4. CASE f = FrameOf(cur, next_seq)
  <2>1. f.seq = next_seq /\ f.clock = cur.clock
    BY <1>4 DEF FrameOf
  <2>2. snap.st = "valid" => snap.frontier < next_seq
    BY <1>1, <1>2 DEF SeqInv, ReachInv, CounterInv, Numbers
  <2> QED
    BY <1>1, <2>1, <2>2 DEF ClockInv, MemClockInv, Numbers
<1> QED BY <1>3, <1>4

LEMMA WriterAppendClock ==
    ASSUME TypeInv, SeqInv, ClockInv, WriterAppend PROVE ClockInv'
<1>1. Numbers
    BY NumbersAre
<1>2. /\ Appending /\ phase = "ready" /\ Running
      /\ snap' = snap /\ mem' = mem /\ phase' = phase /\ cur' = cur
      /\ logical_clock' = logical_clock /\ commit_sequence' = next_seq
    BY DEF WriterAppend, session, TypeInv, CallInv, Appending, Running
<1>3. AllFrames' = AllFrames \cup {FrameOf(cur, next_seq)}
    BY DEF WriterAppend, AllFrames, TypeInv, TypeOK, ActiveFile
<1>4. snap.st = "valid" => snap.frontier < next_seq
    BY <1>1, <1>2 DEF SeqInv, ReachInv, CounterInv, Numbers
<1>5. ClockIsFresh'
    BY <1>2, <1>3, AppendClock DEF ClockInv, ClockIsFresh
<1>6. SnapClockInv'
    BY <1>1, <1>2, <1>3, <1>4, AppendClock DEF ClockInv, SnapClockInv, Numbers
<1>7. MemClockInv'
    BY <1>2 DEF ClockInv, MemClockInv, Running
<1>8. ReplayClockInv'
    BY <1>2 DEF ReplayClockInv
<1> QED
    BY <1>5, <1>6, <1>7, <1>8 DEF ClockInv

LEMMA WriterAppendFailsClock ==
    ASSUME TypeInv, SeqInv, ClockInv, WriterAppendFails PROVE ClockInv'
<1>2. /\ Appending /\ phase = "ready" /\ Running
      /\ snap' = snap /\ mem' = mem /\ phase' = phase /\ pc' = "idle"
      /\ logical_clock' = logical_clock /\ commit_sequence' = commit_sequence
    BY DEF WriterAppendFails, replay, TypeInv, CallInv, Appending, Running
<1>3. AllFrames' \subseteq AllFrames \cup {FrameOf(cur, next_seq)}
  <2>1. segs' = segs /\ active'.frames \subseteq
                        active.frames \cup {FrameOf(cur, next_seq)}
    BY ResidueFrames DEF WriterAppendFails
  <2> QED BY <2>1 DEF AllFrames
<1>5. ClockIsFresh'
    BY <1>2, <1>3, AppendClock DEF ClockInv, ClockIsFresh
<1>6. SnapClockInv'
    BY <1>2, <1>3, AppendClock DEF ClockInv, SnapClockInv, Running, Acked
<1>7. MemClockInv'
    BY <1>2 DEF ClockInv, MemClockInv, Running, Appending, Acked
<1>8. ReplayClockInv'
    BY <1>2 DEF ReplayClockInv
<1> QED
    BY <1>5, <1>6, <1>7, <1>8 DEF ClockInv

LEMMA ApplyClock == TypeInv /\ ClockInv /\ Apply => ClockInv'
<1> SUFFICES ASSUME TypeInv, ClockInv, Apply PROVE ClockInv'
    OBVIOUS
<1>1. Numbers
    BY NumbersAre
<1>2. /\ Acked /\ phase = "ready" /\ AllFrames' = AllFrames
      /\ snap' = snap /\ phase' = phase /\ pc' = "idle"
      /\ logical_clock' = logical_clock /\ commit_sequence' = commit_sequence
      /\ segs' = segs /\ active' = active
    BY DEF Apply, disk, session, TypeInv, CallInv, Acked, AllFrames
<1>3. \A k \in Keys : mem'[k].clock <= logical_clock
    BY <1>2 DEF Apply, CellOf, ClockInv, ClockIsFresh, MemClockInv, TypeInv,
                TypeOK
<1> QED
    BY <1>1, <1>2, <1>3 DEF ClockInv, ClockIsFresh, SnapClockInv, MemClockInv,
                            ReplayClockInv, Running, Appending, Acked, Numbers

\* The frames of the new base are as old as the records in memory.
LEMMA FoldWriteBaseClock ==
    ASSUME TypeInv, SeqInv, ClockInv, FoldWriteBase PROVE ClockInv'
<1>1. Numbers
    BY NumbersAre
<1>2. /\ phase = "ready" /\ Running
      /\ snap' = snap /\ mem' = mem /\ phase' = phase /\ pc' = pc /\ pc = "fold"
      /\ logical_clock' = logical_clock /\ commit_sequence' = commit_sequence
    BY DEF FoldWriteBase, session, TypeInv, CallInv, Running
<1>3. ASSUME NEW f \in AllFrames', f \notin AllFrames
      PROVE  f.seq = commit_sequence /\ \E k \in Keys : f.clock = mem[k].clock
    BY <1>3 DEF FoldWriteBase, AllFrames, Compacted
<1>4. ClockIsFresh'
    BY <1>2, <1>3 DEF ClockInv, ClockIsFresh
<1>5. SnapClockInv'
    BY <1>1, <1>2, <1>3 DEF ClockInv, SnapClockInv, SeqInv, ReachInv, Numbers,
                            Running, Acked
<1>6. MemClockInv' /\ ReplayClockInv'
    BY <1>2 DEF ClockInv, MemClockInv, ReplayClockInv, Running, Appending, Acked
<1> QED
    BY <1>4, <1>5, <1>6 DEF ClockInv

LEMMA SnapshotPublishClock ==
    TypeInv /\ SeqInv /\ ClockInv /\ SnapshotPublish => ClockInv'
<1> SUFFICES ASSUME TypeInv, SeqInv, ClockInv, SnapshotPublish PROVE ClockInv'
    OBVIOUS
<1>1. Numbers
    BY NumbersAre
<1>2. /\ phase = "ready" /\ AllFrames' = AllFrames
      /\ mem' = mem /\ phase' = phase /\ pc' = "idle"
      /\ logical_clock' = logical_clock /\ commit_sequence' = commit_sequence
      /\ snap'.cells = mem /\ snap'.clock = logical_clock
    BY DEF SnapshotPublish, session, TypeInv, CallInv, AllFrames
<1> QED
    BY <1>1, <1>2 DEF ClockInv, ClockIsFresh, SnapClockInv, MemClockInv,
                      ReplayClockInv, Running, Appending, Acked, Numbers

LEMMA CrashClock ==
    ASSUME TypeInv, SeqInv, ClockInv, Crash PROVE ClockInv'
<1>1. /\ snap' = snap /\ phase' = "down" /\ pc' = "idle" /\ segs' = segs
    BY DEF Crash
<1>2. \/ AllFrames' = AllFrames
      \/ Appending /\ AllFrames' \subseteq AllFrames \cup {FrameOf(cur, next_seq)}
  <2>1. CASE Appending /\ wpc = "idle"
    <3>1. active'.frames \subseteq active.frames \cup {FrameOf(cur, next_seq)}
        BY <2>1, ResidueFrames DEF Crash, CrashResidue
    <3> QED BY <1>1, <2>1, <3>1 DEF AllFrames
  <2>2. CASE ~(Appending /\ wpc = "idle")
    BY <2>2 DEF Crash, CrashResidue, TypeInv, TypeOK, ActiveFile, AllFrames
  <2> QED BY <2>1, <2>2
<1>3. \A f \in AllFrames' :
        snap.st = "valid" /\ f.seq <= snap.frontier => f.clock <= snap.clock
    BY <1>2, AppendClock DEF ClockInv, SnapClockInv
<1> QED
    BY <1>1, <1>3 DEF ClockInv, ClockIsFresh, SnapClockInv, MemClockInv,
                      ReplayClockInv, Running, Appending, Acked

LEMMA OpenRefusedClock == ClockInv /\ OpenRefused => ClockInv'
BY DEF OpenRefused, disk, replay, ClockInv, ClockIsFresh, SnapClockInv,
       MemClockInv, ReplayClockInv, Running, Appending, Acked, AllFrames

\* The active file is trimmed, and recovery starts from nothing or from the
\* snapshot.
LEMMA OpenClock ==
    ASSUME TypeInv, ClockInv, "overlap_io" \notin Faults,
           OpenWithSnapshot \/ OpenWithoutSnapshot
    PROVE  ClockInv'
<1>1. Numbers
    BY NumbersAre
<1>2. PICK h \in Seqs, m \in Seqs : OpenJournal(h, m)
    BY DEF OpenWithSnapshot, OpenWithoutSnapshot
<1>3. /\ segs' = segs /\ snap' = snap /\ phase' = "replay" /\ done' = {}
      /\ pc' = "idle"
      /\ active'.frames \subseteq {f \in active.frames : f.seq > h}
      /\ \A s \in segs : s.kind = "B" => s.max <= h
    BY <1>2 DEF OpenJournal, Trimmed, IsHorizon, TypeInv, CallInv
<1>4. AllFrames' \subseteq AllFrames
    BY <1>3 DEF AllFrames
<1>5. \/ snap.st = "valid" /\ mem' = snap.cells /\ cursor' = snap.frontier
         /\ logical_clock' = snap.clock
      \/ mem' = NoCells /\ cursor' = -1 /\ logical_clock' = 0
    BY DEF OpenWithSnapshot, OpenWithoutSnapshot
<1>6. \A k \in Keys : NoCells[k].clock = 0
    BY DEF NoCells, Absent
<1>7. SnapClockInv'
    BY <1>1, <1>3, <1>4, <1>5, <1>6 DEF ClockInv, SnapClockInv, Acked, Numbers
<1>8. MemClockInv'
    BY <1>3, <1>5, <1>6 DEF ClockInv, SnapClockInv, MemClockInv, Appending, Acked
<1>9. ReplayClockInv'
  <2>1. \A f \in AllFrames' : f.seq <= cursor' => f.clock <= logical_clock'
    BY <1>1, <1>4, <1>5 DEF ClockInv, SnapClockInv, Numbers
  <2>2. \A s \in segs, f \in active'.frames : s.kind = "B" => s.max < f.seq
    BY <1>1, <1>3 DEF Numbers, AllFrames, Seqs
  <2> QED
    BY <1>3, <2>1, <2>2 DEF ReplayClockInv
<1>10. ClockIsFresh'
    BY <1>3 DEF ClockIsFresh
<1> QED
    BY <1>7, <1>8, <1>9, <1>10 DEF ClockInv

LEMMA ReplayFrameClock ==
    ASSUME TypeInv, SeqInv, ClockInv, NEW x \in Items, ReplayFrame(x)
    PROVE  ClockInv'
<1>1. Numbers
    BY NumbersAre
<1>2. /\ segs' = segs /\ active' = active /\ snap' = snap
      /\ phase' = phase /\ phase = "replay" /\ pc' = "idle"
      /\ commit_sequence' = commit_sequence /\ cursor' = cursor
      /\ done' = done \cup {x}
    BY DEF ReplayFrame, disk, TypeInv, CallInv
<1>3. AllFrames' = AllFrames
    BY <1>2 DEF AllFrames
<1>4. x.f \in AllFrames /\ x.f.key \in Keys
  <2>1. x.f \in AllFrames
    BY DEF Items, SegmentItems, ActiveItems, AllFrames
  <2> QED BY <2>1, ItemType DEF Frame
<1>5. /\ logical_clock' \in Nat
      /\ logical_clock <= logical_clock' /\ x.f.clock <= logical_clock'
    BY <1>1, <1>4 DEF ReplayFrame, Numbers
<1>6. \A k \in Keys : mem'[k] = mem[k] \/ mem'[k].clock = x.f.clock
    BY DEF ReplayFrame, Replayed, CellOf, TypeInv, TypeOK
<1>7. SnapClockInv'
  <2> SUFFICES ASSUME snap.st = "valid", snap.frontier = commit_sequence
               PROVE  \A k \in Keys : mem'[k].clock <= snap.clock
    BY <1>2, <1>3 DEF ClockInv, SnapClockInv, Acked
  <2>1. x.f.seq <= commit_sequence
    BY <1>1, <1>2, <1>4 DEF SeqInv, SegmentInv, CounterInv, Running, AllFrames,
                            Numbers, TypeInv, CallInv
  <2> QED
    BY <1>2, <1>4, <1>6, <2>1 DEF ClockInv, SnapClockInv, Running
<1>8. MemClockInv'
    BY <1>1, <1>2, <1>5, <1>6 DEF ClockInv, MemClockInv, Running, Appending,
                                  Acked, Numbers
<1>9. ReplayClockInv'
  <2>1. \A y \in done : y.f.clock \in Nat
    BY DEF TypeInv, TypeOK, Item, Frame, Clocks
  <2> QED
    BY <1>1, <1>2, <1>3, <1>5, <2>1 DEF ClockInv, ReplayClockInv, Numbers
<1>10. ClockIsFresh'
    BY <1>2 DEF ClockIsFresh
<1> QED
    BY <1>7, <1>8, <1>9, <1>10 DEF ClockInv

\* At the end of a recovery every frame is below the cursor or was replayed.
LEMMA OpenDoneClock == TypeInv /\ ClockInv /\ OpenDone => ClockInv'
<1> SUFFICES ASSUME TypeInv, ClockInv, OpenDone PROVE ClockInv'
    OBVIOUS
<1>1. /\ AllFrames' = AllFrames /\ snap' = snap /\ mem' = mem /\ pc' = pc
      /\ phase = "replay" /\ phase' = "ready" /\ Items \subseteq done
      /\ cur' = cur
      /\ logical_clock' = logical_clock /\ commit_sequence' = commit_sequence
    BY DEF OpenDone, Recovered, disk, AllFrames
<1>2. ASSUME NEW f \in AllFrames, ~(f.seq <= cursor)
      PROVE  \E x \in Items : x.f = f
  <2>1. f.seq > cursor
    BY <1>2, NumbersAre DEF Numbers
  <2>2. CASE f \in active.frames
    <3>1. \A s \in segs : s.kind = "B" => f.seq > s.max
        BY <1>1, <2>2, NumbersAre DEF ClockInv, ReplayClockInv, Numbers, AllFrames
    <3> DEFINE x == [min |-> MaxSeq + 1, max |-> MaxSeq + 1, base |-> FALSE,
                     f |-> f]
    <3>2. x \in ActiveItems /\ x.f = f
        BY <2>1, <2>2, <3>1 DEF ActiveItems
    <3> QED BY <3>2 DEF Items
  <2>3. ASSUME NEW s \in segs, f \in s.frames PROVE \E x \in Items : x.f = f
    <3> DEFINE x == [min |-> s.min, max |-> s.max, base |-> s.kind = "B", f |-> f]
    <3>1. x \in SegmentItems /\ x.f = f
        BY <2>1, <2>3 DEF SegmentItems
    <3> QED BY <3>1 DEF Items
  <2> QED BY <2>2, <2>3 DEF AllFrames
<1>3. \A f \in AllFrames : f.clock <= logical_clock
    BY <1>1, <1>2 DEF ClockInv, ReplayClockInv
<1> QED
    BY <1>1, <1>3 DEF ClockInv, ClockIsFresh, SnapClockInv, MemClockInv,
                      ReplayClockInv, Running, Appending, Acked

LEMMA InitClockInv == Init => ClockInv
BY DEF Init, ClockInv, ClockIsFresh, SnapClockInv, MemClockInv, ReplayClockInv,
       Running, Appending, Acked, AllFrames, GenesisBase, NoCells, Absent

LEMMA NextClockInv ==
    ASSUME "overlap_io" \notin Faults
    PROVE  TypeInv /\ SeqInv /\ ClockInv /\ [Next]_vars => ClockInv'
<1> SUFFICES ASSUME TypeInv, SeqInv, ClockInv, [Next]_vars PROVE ClockInv'
    OBVIOUS
<1>1. CASE \E x \in Items : ReplayFrame(x)
    BY <1>1, ReplayFrameClock
<1>2. CASE Still
    BY <1>2, StillKeeps
<1>3. CASE OpenWithSnapshot \/ OpenWithoutSnapshot
    BY <1>3, OpenClock
<1> QED
    BY <1>1, <1>2, <1>3, StillSteps, EventKeeps, WriterAppendClock,
       WriterAppendFailsClock, ApplyClock, FoldWriteBaseClock,
       SnapshotPublishClock, CrashClock, OpenRefusedClock, OpenDoneClock
       DEF Next, ClientStep, WriterStep, OpenStep

\* A new write is newer than anything on disk: provided the rewrite that trims
\* the active file at open does not fail, recovery never leaves the logical
\* clock behind a frame or a record, whether it starts from the snapshot or not.
THEOREM ClockAlwaysFresh ==
    ASSUME "overlap_io" \notin Faults
    PROVE  Spec => []ClockIsFresh
<1>1. ClockInv => ClockIsFresh
    BY DEF ClockInv
<1> QED
    BY <1>1, InitClockInv, NextClockInv, SeqInvariant, PTL DEF Spec

=============================================================================
