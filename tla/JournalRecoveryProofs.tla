----------------------- MODULE JournalRecoveryProofs -----------------------
(***************************************************************************)
(* Proofs that a recovery of the journal loses no confirmed write and      *)
(* brings back none that was deleted.                                      *)
(*                                                                         *)
(* The invariant says what the files, taken together, have to say of each  *)
(* record (Outcome), and how what clients were told, what memory holds,    *)
(* what memory held before the last crash and what the snapshot holds are  *)
(* related to that.  The one exception is the last frame of a call that    *)
(* failed or was cut off (Hanging).  A step of the program either leaves   *)
(* the outcome of every record alone (Calm), or is one of seven that are   *)
(* treated one by one.                                                     *)
(***************************************************************************)
EXTENDS JournalProofs

----------------------------------------------------------------------------
(* What a recovery ought to find on disk.                                  *)

Bases == {s \in segs : s.kind = "B"}
Newest(b) == b \in Bases /\ \A c \in Bases : c.max <= b.max

\* The frames that events were appended as, in history segments and in the active
\* file; those of them that a base segment does not cover; and the frames of the
\* newest base.
Sealed     == UNION {s.frames : s \in segs \ Bases}
History    == active.frames \cup Sealed
Covered(f) == \E b \in Bases : f.seq <= b.max
Recent     == {f \in History : ~Covered(f)}
BaseFrames == UNION {b.frames : b \in {c \in Bases : Newest(c)}}

\* The disk says that k has the state c: by its last frame behind the newest base,
\* or else by that base.
Outcome(k, c) ==
    \/ \E f \in Recent : /\ f.key = k /\ c = CellOf(f)
                         /\ \A g \in Recent : g.key = k => g.seq <= f.seq
    \/ /\ \A g \in Recent : g.key # k
       /\ \/ \E f \in BaseFrames : f.key = k /\ c = CellOf(f)
          \/ (\A f \in BaseFrames : f.key # k) /\ c = Absent

\* The last frame of all is that of a call whose outcome is not known.
Hanging(k) ==
    \E f \in Recent :
        /\ f.key = k
        /\ \A g \in History : g.seq <= f.seq
        /\ \E w \in unsure : w.key = k /\ CellOf(w) = CellOf(f)
        /\ snap.st = "valid" => snap.frontier < f.seq

\* k has the state c by a sealed frame that a finished fold would have removed.
Leftover(k, c) == \E f \in Sealed : Covered(f) /\ f.key = k /\ c = CellOf(f)

----------------------------------------------------------------------------
(* The invariant.                                                          *)

\* Files: what their names and frames say.
FileInv ==
    /\ \A f, g \in History : f.seq = g.seq => f = g
    /\ \A s \in segs \ Bases : \A f \in s.frames : s.min <= f.seq
    /\ \A s \in segs \ Bases, f \in active.frames :
          f.seq = s.min => s.frames \subseteq active.frames
    /\ wpc = "seal_reset" => active.frames \subseteq Sealed
    /\ \A b \in Bases :
          /\ b.min = b.max
          /\ \A f \in b.frames : f.seq = b.max /\ f.st # "closed"
          /\ \A f, g \in b.frames : f.key = g.key => f = g
    /\ \A b, c \in Bases : b.max = c.max => b = c
    /\ Folding => BaseFrames = Compacted(mem, commit_sequence)

Calling == Appending \/ Acked

\* Calls: who may be unsure of what, and the frame of an acknowledged event.
UnsureInv ==
    /\ phase = "ready" /\ ~Calling /\ (pc = "idle" => ~recovery_required) =>
          unsure = {}
    /\ Calling => cur \in unsure /\ \A w \in unsure : w.key = cur.key
    /\ pc \in {"append", "acked"} => cur.st # "closed"
    /\ pc = "append" => \A f \in History : f.clock < cur.clock
    /\ pc = "append_close" => cur.st = "closed"
    /\ Acked => FrameOf(cur, commit_sequence) \in Recent

\* Clocks: an event that is not the closing of an old version is newer than every
\* frame before it, and a kept record is newer than the frames it replaces.
Newer(c, f) == CellOf(f) = c \/ f.clock < c.clock
OrderInv ==
    /\ \A f, g \in History : f.seq < g.seq /\ g.st # "closed" => f.clock < g.clock
    /\ \A b \in Bases : \A g \in b.frames, f \in History :
          f.key = g.key /\ f.seq <= b.max => Newer(CellOf(g), f)
    /\ phase = "ready" => \A f \in History :
          mem[f.key].st \in {"live", "dead"} /\ (\A w \in unsure : w.key # f.key) =>
              Newer(mem[f.key], f)
    /\ snap.st = "valid" => \A f \in History :
          snap.cells[f.key].st \in {"live", "dead"} /\ f.seq <= snap.frontier =>
              Newer(snap.cells[f.key], f)
    /\ \A w \in unsure, f \in History :
          w.st # "closed" /\ Covered(f) => f.clock < w.clock

\* A snapshot that a recovery may start from, as far as k is concerned.
Usable(k) ==
    /\ snap.st = "valid"
    /\ \A b \in Bases : b.max <= snap.frontier
    /\ \A f \in Recent : f.key = k => f.seq <= snap.frontier

WantInv(k) == Kept(want[k]) => Outcome(k, want[k]) \/ Hanging(k)

MemInv(k) ==
    phase = "ready" =>
        /\ Kept(want[k]) => mem[k] = want[k]
        /\ \A c \in Cell : Outcome(k, c) /\ Kept(c) => mem[k] = c \/ Hanging(k)
        /\ Kept(mem[k]) =>
              Outcome(k, mem[k]) \/ Hanging(k) \/ Leftover(k, mem[k])

WasInv(k) ==
    phase # "ready" => \A c \in Cell :
        Outcome(k, c) /\ c.st = "live" => was[k] = c \/ Hanging(k)

SnapInv(k) ==
    /\ Usable(k) =>
        /\ \A c \in Cell : Outcome(k, c) /\ Kept(c) => snap.cells[k] = c
        /\ Kept(snap.cells[k]) =>
              Outcome(k, snap.cells[k]) \/ Leftover(k, snap.cells[k])
    /\ phase = "ready" /\ snap.st = "valid" /\ snap.frontier = commit_sequence =>
          \/ mem[k] = snap.cells[k]
          \/ mem[k] = Absent /\ Expired(snap.cells[k])

\* Half-way through a recovery: frames are replayed in the order of their numbers,
\* and a record is what the last one made of it.
Start(k) == IF cursor = -1 THEN Absent ELSE snap.cells[k]
ReplayInv ==
    phase = "replay" =>
        /\ ~Misplaced
        /\ ~recovery_required
        /\ done \subseteq Items
        /\ cursor # -1 => /\ snap.st = "valid" /\ cursor = snap.frontier
                          /\ \A b \in Bases : b.max <= cursor
        /\ cursor = -1 /\ snap.st = "valid" => snap.frontier < commit_sequence
        /\ \A x \in done, y \in Items : y.f.seq < x.f.seq => y \in done
        /\ \A k \in Keys :
              \/ (\A x \in done : x.f.key # k) /\ mem[k] = Start(k)
              \/ \E x \in done : /\ x.f.key = k /\ mem[k] = CellOf(x.f)
                                 /\ \A y \in done : y.f.key = k => y.f.seq <= x.f.seq

RecordInv == \A k \in Keys : WantInv(k) /\ MemInv(k) /\ WasInv(k) /\ SnapInv(k)

BeforeInv == TypeInv /\ SeqInv /\ ClockInv

RecoveryInv ==
    BeforeInv /\ FileInv /\ UnsureInv /\ OrderInv /\ RecordInv /\ ReplayInv

----------------------------------------------------------------------------
(* What the disk says.                                                     *)

\* The types of what is on disk.
LEMMA DiskTypes ==
    ASSUME TypeInv
    PROVE  /\ History \subseteq Frame /\ Sealed \subseteq History /\ Recent \subseteq History
           /\ BaseFrames \subseteq Frame
           /\ Bases \subseteq segs
           /\ History \subseteq AllFrames
           /\ \A b \in Bases : b.max \in Nat /\ b.min \in Nat
           /\ \A f \in History \cup BaseFrames :
                 /\ f.seq \in Nat /\ f.clock \in Nat /\ f.key \in Keys
                 /\ CellOf(f) \in Cell /\ f.st \in States
           /\ snap.frontier \in Nat /\ commit_sequence \in Nat /\ next_seq \in Nat
<1>1. \A s \in segs : s.frames \subseteq Frame /\ s.max \in Nat /\ s.min \in Nat
  BY DEF TypeInv, TypeOK, Segment, Seqs
<1>2. active.frames \subseteq Frame
  BY DEF TypeInv, TypeOK, ActiveFile
<1>3. Bases \subseteq segs
  BY DEF Bases
<1>4. Sealed \subseteq Frame
  BY <1>1 DEF Sealed
<1>5. History \subseteq Frame /\ Sealed \subseteq History /\ Recent \subseteq History
  BY <1>2, <1>4 DEF History, Recent
<1>6. BaseFrames \subseteq Frame
  BY <1>1, <1>3 DEF BaseFrames
<1>7. History \subseteq AllFrames
  BY DEF History, Sealed, AllFrames
<1>8. \A f \in Frame : /\ f.seq \in Nat /\ f.clock \in Nat /\ f.key \in Keys
                       /\ CellOf(f) \in Cell /\ f.st \in States
  BY DEF Frame, Seqs, Clocks, CellOf, Cell
<1>9. snap.frontier \in Nat /\ commit_sequence \in Nat /\ next_seq \in Nat
  BY NumbersAre DEF Numbers
<1> QED
  BY <1>1, <1>3, <1>5, <1>6, <1>7, <1>8, <1>9

\* The disk says one thing of a record.
LEMMA OutcomeUnique ==
    ASSUME TypeInv, FileInv, NEW k, NEW c, NEW d, Outcome(k, c), Outcome(k, d)
    PROVE  c = d
<1>1. ASSUME NEW f \in Recent, NEW g \in Recent,
             f.seq <= g.seq, g.seq <= f.seq
      PROVE  f = g
  <2>1. f \in History /\ g \in History /\ f.seq \in Nat /\ g.seq \in Nat
    BY DiskTypes
  <2> QED
    BY <1>1, <2>1 DEF FileInv
<1>2. ASSUME NEW f \in BaseFrames, NEW g \in BaseFrames, f.key = g.key
      PROVE  f = g
  <2>1. PICK b \in Bases : Newest(b) /\ f \in b.frames
    BY DEF BaseFrames
  <2>2. PICK e \in Bases : Newest(e) /\ g \in e.frames
    BY DEF BaseFrames
  <2>3. b.max \in Nat /\ e.max \in Nat /\ b.max <= e.max /\ e.max <= b.max
    BY <2>1, <2>2, DiskTypes DEF Newest
  <2>4. b.max = e.max
    BY <2>3
  <2>5. b = e
    BY <2>4 DEF FileInv
  <2> QED
    BY <1>2, <2>1, <2>2, <2>5 DEF FileInv
<1> QED
  BY <1>1, <1>2 DEF Outcome

\* Nothing the records depend on has changed on disk.
LEMMA OutcomeSame ==
    ASSUME Recent' = Recent, BaseFrames' = BaseFrames
    PROVE  \A k, c : Outcome(k, c)' <=> Outcome(k, c)
BY DEF Outcome

\* The files are as they were.
LEMMA SameFiles ==
    ASSUME segs' = segs, active'.frames = active.frames
    PROVE  /\ Bases' = Bases /\ Sealed' = Sealed /\ History' = History
           /\ Recent' = Recent /\ BaseFrames' = BaseFrames
           /\ \A f : Covered(f)' <=> Covered(f)
           /\ \A k, c : Leftover(k, c)' <=> Leftover(k, c)
           /\ \A k, c : Outcome(k, c)' <=> Outcome(k, c)
<1>1. Bases' = Bases
  BY DEF Bases
<1>2. Sealed' = Sealed /\ \A f : Covered(f)' <=> Covered(f)
  BY <1>1 DEF Sealed, Covered
<1>3. History' = History
  BY <1>2 DEF History
<1>4. Recent' = Recent
  BY <1>2, <1>3 DEF Recent
<1>5. BaseFrames' = BaseFrames
  BY <1>1 DEF BaseFrames, Newest
<1>6. \A k, c : Leftover(k, c)' <=> Leftover(k, c)
  BY <1>2 DEF Leftover
<1> QED
  BY <1>1, <1>2, <1>3, <1>4, <1>5, <1>6, OutcomeSame

\* A frame that hangs goes on to hang.
LEMMA HangingStays ==
    ASSUME Recent' = Recent, History' \subseteq History, unsure \subseteq unsure',
           snap'.st = "valid" => snap' = snap
    PROVE  \A k : Hanging(k) => Hanging(k)'
BY DEF Hanging

----------------------------------------------------------------------------
(* Steps that change nothing of what the disk says of a record.            *)

\* History may lose frames that a base covers, and segments that a newer base
\* replaces; memory may lose expired retractions; new events are newer than every
\* frame.
Calm ==
    /\ Bases' \subseteq Bases
    /\ \A b \in Bases : \E c \in Bases' : b.max <= c.max
    /\ History' \subseteq History /\ Recent' = Recent /\ BaseFrames' = BaseFrames
    /\ snap'.st = "valid" => snap' = snap
    /\ unsure \subseteq unsure'
    /\ \A w \in unsure' \ unsure, f \in History : w.st # "closed" => f.clock < w.clock
    /\ want' = want /\ was' = was
    /\ aged' \in Nat /\ aged <= aged'
    /\ phase' = "ready" <=> phase = "ready"
    /\ phase = "ready" =>
          /\ commit_sequence' = commit_sequence
          /\ \A k \in Keys : mem'[k] = mem[k] \/ (mem'[k] = Absent /\ Expired(mem[k]))
    /\ \A k \in Keys, c \in Cell :
          /\ Leftover(k, c) /\ Kept(c)
          /\ (phase = "ready" /\ c = mem[k]) \/ (Usable(k) /\ c = snap.cells[k])
          => Leftover(k, c)' \/ Outcome(k, c)

LEMMA CalmBases ==
    ASSUME TypeInv, Calm
    PROVE  /\ \A f : Covered(f)' => Covered(f)
           /\ \A k : Usable(k)' => Usable(k) /\ snap' = snap
<1>1. \A f : Covered(f)' => Covered(f)
  BY DEF Calm, Covered
<1>2. ASSUME NEW k, Usable(k)' PROVE Usable(k) /\ snap' = snap
  <2>1. snap' = snap /\ snap.st = "valid"
    BY <1>2 DEF Usable, Calm
  <2>2. \A b \in Bases : b.max <= snap.frontier
    <3> SUFFICES ASSUME NEW b \in Bases PROVE b.max <= snap.frontier
      OBVIOUS
    <3>1. PICK c \in Bases' : b.max <= c.max
      BY DEF Calm
    <3>2. c \in Bases /\ c.max <= snap.frontier
      BY <1>2, <2>1 DEF Usable, Calm
    <3> QED
      BY <3>1, <3>2, DiskTypes
  <2> QED
    BY <1>2, <2>1, <2>2 DEF Usable, Calm
<1> QED
  BY <1>1, <1>2

LEMMA CalmOrder == TypeInv /\ OrderInv /\ Calm => OrderInv'
<1> SUFFICES ASSUME TypeInv, OrderInv, Calm PROVE OrderInv'
  OBVIOUS
<1>1. (\A f, g \in History : f.seq < g.seq /\ g.st # "closed" => f.clock < g.clock)'
  BY DEF OrderInv, Calm
<1>2. (\A b \in Bases : \A g \in b.frames, f \in History :
          f.key = g.key /\ f.seq <= b.max => Newer(CellOf(g), f))'
  BY DEF OrderInv, Calm, Newer
<1>3. (phase = "ready" => \A f \in History :
          mem[f.key].st \in {"live", "dead"} /\ (\A w \in unsure : w.key # f.key) =>
              Newer(mem[f.key], f))'
  <2> SUFFICES ASSUME phase' = "ready", NEW f \in History',
                      mem'[f.key].st \in {"live", "dead"}, \A w \in unsure' : w.key # f.key
               PROVE  Newer(mem'[f.key], f)
    BY DEF Newer
  <2>1. f \in History /\ f.key \in Keys
    BY DiskTypes DEF Calm
  <2>2. mem'[f.key] = mem[f.key]
    BY <2>1 DEF Calm, Absent
  <2> QED
    BY <2>1, <2>2 DEF Calm, OrderInv
<1>4. (snap.st = "valid" => \A f \in History :
          snap.cells[f.key].st \in {"live", "dead"} /\ f.seq <= snap.frontier =>
              Newer(snap.cells[f.key], f))'
  BY DEF OrderInv, Calm, Newer
<1>5. (\A w \in unsure, f \in History :
          w.st # "closed" /\ Covered(f) => f.clock < w.clock)'
  BY CalmBases DEF OrderInv, Calm
<1> QED
  BY <1>1, <1>2, <1>3, <1>4, <1>5 DEF OrderInv

\* Time only takes retractions out of their window.
LEMMA Ageing ==
    ASSUME aged \in Nat, aged' \in Nat, aged <= aged', NEW c \in Cell
    PROVE  /\ Kept(c)' => Kept(c)
           /\ Expired(c) => Expired(c)'
BY DEF Kept, Expired, Cell, Clocks

LEMMA CellTypes ==
    ASSUME TypeInv, NEW k \in Keys
    PROVE  /\ mem[k] \in Cell /\ want[k] \in Cell /\ was[k] \in Cell
           /\ snap.cells[k] \in Cell /\ aged \in Nat
BY DEF TypeInv, TypeOK, Snapshot, Clocks

LEMMA CalmRecords ==
    ASSUME TypeInv, RecordInv, Calm PROVE RecordInv'
<1> SUFFICES ASSUME NEW k \in Keys
             PROVE  WantInv(k)' /\ MemInv(k)' /\ WasInv(k)' /\ SnapInv(k)'
  BY DEF RecordInv
<1>1. WantInv(k) /\ MemInv(k) /\ WasInv(k) /\ SnapInv(k)
  BY DEF RecordInv
<1>2. /\ Hanging(k) => Hanging(k)'
      /\ \A c : Outcome(k, c)' <=> Outcome(k, c)
  BY HangingStays, OutcomeSame DEF Calm
<1>3. mem[k] \in Cell /\ want[k] \in Cell /\ snap.cells[k] \in Cell /\ aged \in Nat
  BY CellTypes
<1>4. \A c \in Cell : (Kept(c)' => Kept(c)) /\ (Expired(c) => Expired(c)')
  BY <1>3, Ageing DEF Calm
<1>5. phase = "ready" => mem'[k] = mem[k] \/ (mem'[k] = Absent /\ Expired(mem[k]))
  BY DEF Calm
<1>6. ~Kept(Absent)' /\ \A c \in Cell : Expired(c) => ~Kept(c) /\ c # Absent
  BY <1>3 DEF Kept, Absent, Expired, Cell, Clocks
<1>7. WantInv(k)'
  BY <1>1, <1>2, <1>3, <1>4 DEF WantInv, Calm
<1>8. MemInv(k)'
  <2> SUFFICES ASSUME phase = "ready"
               PROVE /\ Kept(want[k])' => mem'[k] = want[k]
                     /\ \A c \in Cell : Outcome(k, c)' /\ Kept(c)' => mem'[k] = c \/ Hanging(k)'
                     /\ Kept(mem[k])' => Outcome(k, mem[k])' \/ Hanging(k)' \/ Leftover(k, mem[k])'
    BY DEF MemInv, Calm
  <2>1. Kept(want[k])' => mem'[k] = want[k]
    BY <1>1, <1>3, <1>4, <1>5, <1>6 DEF MemInv, Calm
  <2>2. ASSUME NEW c \in Cell, Outcome(k, c)', Kept(c)'
        PROVE  mem'[k] = c \/ Hanging(k)'
    BY <1>1, <1>2, <1>3, <1>4, <1>5, <1>6, <2>2 DEF MemInv
  <2>3. ASSUME Kept(mem[k])'
        PROVE  Outcome(k, mem[k])' \/ Hanging(k)' \/ Leftover(k, mem[k])'
    <3>1. mem'[k] = mem[k] /\ Kept(mem[k])
      BY <1>3, <1>4, <1>5, <1>6, <2>3 DEF Kept
    <3>2. Outcome(k, mem[k]) \/ Hanging(k) \/ Leftover(k, mem[k])
      BY <1>1, <3>1 DEF MemInv
    <3>3. PICK c \in Cell : c = mem[k]
      BY <1>3
    <3>4. Outcome(k, c) \/ Hanging(k) \/ Leftover(k, c)'
      BY <3>1, <3>2, <3>3 DEF Calm
    <3>5. c = mem'[k]
      BY <3>1, <3>3
    <3>6. (Leftover(k, c)' => Leftover(k, mem[k])') /\ (Outcome(k, c)' => Outcome(k, mem[k])')
      BY <3>5 DEF Leftover, Outcome
    <3> QED
      BY <3>4, <3>6, <1>2
  <2> QED
    BY <2>1, <2>2, <2>3
<1>9. WasInv(k)'
  BY <1>1, <1>2 DEF WasInv, Calm
<1>10. SnapInv(k)'
  <2>1. ASSUME Usable(k)'
        PROVE  /\ \A c \in Cell : Outcome(k, c)' /\ Kept(c)' => snap'.cells[k] = c
               /\ Kept(snap.cells[k])' =>
                    Outcome(k, snap.cells[k])' \/ Leftover(k, snap.cells[k])'
    <3>1. Usable(k) /\ snap' = snap
      BY <2>1, CalmBases
    <3>2. \A c \in Cell : Outcome(k, c)' /\ Kept(c)' => snap'.cells[k] = c
      BY <1>1, <1>2, <1>4, <3>1 DEF SnapInv
    <3>3. PICK d \in Cell : d = snap.cells[k] /\ d = snap'.cells[k]
      BY <1>3, <3>1
    <3>4. ASSUME Kept(d)' PROVE Outcome(k, d)' \/ Leftover(k, d)'
      <4>1. Kept(d)
        BY <1>4, <3>4
      <4>2. Outcome(k, d) \/ Leftover(k, d)
        BY <1>1, <3>1, <3>3, <4>1 DEF SnapInv
      <4> QED
        BY <1>2, <3>1, <3>3, <4>1, <4>2 DEF Calm
    <3>5. /\ Kept(snap.cells[k])' => Kept(d)'
          /\ Outcome(k, d)' => Outcome(k, snap.cells[k])'
          /\ Leftover(k, d)' => Leftover(k, snap.cells[k])'
      BY <3>3 DEF Kept, Outcome, Leftover
    <3> QED
      BY <3>2, <3>4, <3>5
  <2>2. ASSUME phase' = "ready", snap'.st = "valid", snap'.frontier = commit_sequence'
        PROVE  mem'[k] = snap'.cells[k] \/ (mem'[k] = Absent /\ Expired(snap.cells[k])')
    <3>1. phase = "ready" /\ snap' = snap /\ commit_sequence' = commit_sequence
      BY <2>2 DEF Calm
    <3>2. mem[k] = snap.cells[k] \/ (mem[k] = Absent /\ Expired(snap.cells[k]))
      BY <1>1, <2>2, <3>1 DEF SnapInv
    <3>3. Expired(snap.cells[k]) => Expired(snap.cells[k])'
      BY <1>3, <1>4, <3>1 DEF Expired
    <3> QED
      BY <1>5, <1>6, <3>1, <3>2, <3>3
  <2> QED
    BY <2>1, <2>2 DEF SnapInv
<1> QED
  BY <1>7, <1>8, <1>9, <1>10

----------------------------------------------------------------------------
(* Steps that leave the files, the events and the confirmed records alone. *)

\* What pc and recovery_required say when no event may be under way.
Settled == phase = "ready" /\ ~Calling /\ (pc = "idle" => ~recovery_required)

\* A step that writes and removes no frame and does not change the calls.
Rest ==
    /\ segs' = segs /\ active'.frames = active.frames
    /\ snap'.st = "valid" => snap' = snap
    /\ UNCHANGED << unsure, want, was, commit_sequence >>
    /\ aged' \in Nat /\ aged <= aged'
    /\ phase' = "ready" <=> phase = "ready"
    /\ \A k \in Keys : mem'[k] = mem[k] \/ (mem'[k] = Absent /\ Expired(mem[k]))
    /\ phase' = "replay" =>
          UNCHANGED << phase, active, mem, cursor, done, recovery_required, snap >>
    /\ Calling' => pc' = pc /\ cur' = cur
    /\ Settled' => Settled
    /\ wpc' = "seal_reset" => wpc = "seal_reset"
    /\ Folding' => Folding /\ mem' = mem /\ aged' = aged

LEMMA RestSteps ==
    ASSUME TypeInv,
           \/ ApplyFails
           \/ SealNothing \/ SealWriteFails
           \/ ResetTruncateFails \/ ResetHeader \/ ResetHeaderFails
           \/ Compact \/ SaveState \/ SaveStateNoFold
           \/ FoldWriteBaseFails \/ FoldRemoved
           \/ CompactReturns \/ SnapshotNext \/ SnapshotSwap \/ SnapshotFails
           \/ OpenRefused
           \/ \E k \in Keys : RetentionPasses(k)
           \/ UNCHANGED vars
    PROVE  Rest
<1>1. aged \in Nat /\ aged <= aged /\ \A k \in Keys : want[k].clock \in Nat
  BY DEF TypeInv, TypeOK, Clocks, Cell
<1> USE DEF Rest, Settled, Calling, Appending, Acked, Folding, disk, session, replay
<1>2. CASE ApplyFails
  BY <1>1, <1>2 DEF ApplyFails, TypeInv, CallInv
<1>11. CASE SealNothing \/ SealWriteFails
  BY <1>1, <1>11 DEF SealNothing, SealWriteFails, TypeInv, CallInv
<1>3. CASE ResetTruncateFails \/ ResetHeader \/ ResetHeaderFails
  <2>1. active'.frames = active.frames
    BY <1>3 DEF ResetTruncateFails, ResetHeader, ResetHeaderFails, TypeInv, TypeOK,
       ActiveFile
  <2> QED
    BY <1>1, <1>3, <2>1 DEF ResetTruncateFails, ResetHeader, ResetHeaderFails, Answer,
       TypeInv, CallInv
<1>4. CASE Compact \/ SaveState \/ SaveStateNoFold
  <2>1. \A k \in Keys : mem'[k] = mem[k] \/ (mem'[k] = Absent /\ Expired(mem[k]))
    BY <1>4 DEF Compact, SaveState, SaveStateNoFold, BeginFold, Sweep
  <2>2. wpc' \notin {"fold_remove", "fold_reset", "fold_header"}
    BY <1>4 DEF Compact, SaveState, SaveStateNoFold, BeginFold, Free, TypeInv, CallInv
  <2> QED
    BY <1>1, <1>4, <2>1, <2>2 DEF Compact, SaveState, SaveStateNoFold, BeginFold, Free
<1>5. CASE FoldWriteBaseFails \/ FoldRemoved
  BY <1>1, <1>5 DEF FoldWriteBaseFails, FoldRemoved, TypeInv, CallInv
<1>6. CASE CompactReturns \/ SnapshotNext \/ SnapshotFails
  BY <1>1, <1>6 DEF CompactReturns, SnapshotNext, SnapshotFails, HistoryTrimmed,
     TypeInv, CallInv
<1>7. CASE SnapshotSwap
  BY <1>1, <1>7 DEF SnapshotSwap, TypeInv, TypeOK, Snapshot, CallInv
<1>8. CASE OpenRefused
  BY <1>1, <1>8 DEF OpenRefused, TypeInv, CallInv
<1>9. CASE \E k \in Keys : RetentionPasses(k)
  BY <1>1, <1>9 DEF RetentionPasses, TypeInv, CallInv
<1>10. CASE UNCHANGED vars
  BY <1>1, <1>10 DEF vars
<1> QED
  BY <1>2, <1>3, <1>4, <1>5, <1>6, <1>7, <1>8, <1>9, <1>10, <1>11

LEMMA RestKeeps ==
    ASSUME RecoveryInv, Rest
    PROVE  FileInv' /\ UnsureInv' /\ OrderInv' /\ RecordInv' /\ ReplayInv'
<1>1. TypeInv /\ FileInv /\ UnsureInv /\ OrderInv /\ RecordInv /\ ReplayInv
  BY DEF RecoveryInv, BeforeInv
<1>2. /\ Bases' = Bases /\ Sealed' = Sealed /\ History' = History
      /\ Recent' = Recent /\ BaseFrames' = BaseFrames
      /\ \A f : Covered(f)' <=> Covered(f)
      /\ \A k, c : Leftover(k, c)' <=> Leftover(k, c)
  BY SameFiles DEF Rest
<1>3. Calm
  <2>1. \A b \in Bases : b.max <= b.max
    BY <1>1, DiskTypes
  <2> QED
    BY <1>2, <2>1 DEF Calm, Rest
<1>4. OrderInv' /\ RecordInv'
  BY <1>1, <1>3, CalmOrder, CalmRecords
<1>5. FileInv'
  <2>1. Folding' => Compacted(mem, commit_sequence)' = Compacted(mem, commit_sequence)
    BY DEF Rest, Compacted, Kept
  <2> QED
    BY <1>1, <1>2, <2>1 DEF FileInv, Rest
<1>6. UnsureInv'
  <2>1. Calling' => Calling /\ pc' = pc /\ cur' = cur
    BY DEF Rest, Calling, Appending, Acked
  <2>2. Settled' => unsure' = {}
    BY <1>1 DEF UnsureInv, Settled, Rest
  <2> QED
    BY <1>1, <1>2, <2>1, <2>2 DEF UnsureInv, Settled, Rest, Calling, Appending, Acked
<1>7. ReplayInv'
  <2> SUFFICES ASSUME phase' = "replay" PROVE ReplayInv'
    BY DEF ReplayInv
  <2>1. UNCHANGED << segs, phase, active, mem, cursor, done, recovery_required, snap,
                     commit_sequence >>
    BY DEF Rest
  <2> QED
    BY <1>1, <1>2, <2>1 DEF ReplayInv, Misplaced, Items, SegmentItems, ActiveItems, Start
<1> QED
  BY <1>4, <1>5, <1>6, <1>7

----------------------------------------------------------------------------
(* Calls.                                                                  *)

\* A call begins, or goes on to its second event.
LEMMA SendKeeps ==
    ASSUME RecoveryInv,
           \/ SupersedeNext
           \/ \E k \in Keys : AddNode(k) \/ RetractNode(k) \/ SupersedeNode(k)
    PROVE  FileInv' /\ UnsureInv' /\ OrderInv' /\ RecordInv' /\ ReplayInv'
<1>1. TypeInv /\ FileInv /\ UnsureInv /\ OrderInv /\ RecordInv /\ ClockIsFresh
  BY DEF RecoveryInv, BeforeInv, ClockInv
<1>2. /\ UNCHANGED << segs, active, snap, phase, mem, commit_sequence, wpc, aged, was, want >>
      /\ phase = "ready"
      /\ pc' \in {"append", "append_close"}
      /\ unsure' = unsure \cup {cur'}
      /\ \A w \in unsure : w.key = cur'.key
      /\ pc' = "append_close" => cur'.st = "closed"
      /\ pc' = "append" => cur'.st # "closed" /\ cur'.clock = logical_clock + 1
  <2>1. CASE SupersedeNext
    BY <1>1, <2>1 DEF SupersedeNext, Send, disk, session, TypeInv, CallInv, UnsureInv,
       Calling, Acked
  <2>2. CASE \E k \in Keys : AddNode(k) \/ RetractNode(k) \/ SupersedeNode(k)
    <3>1. Free /\ unsure = {}
      BY <1>1, <2>2 DEF AddNode, RetractNode, SupersedeNode, Free, UnsureInv, Calling,
         Appending, Acked
    <3> QED
      BY <2>2, <3>1 DEF AddNode, RetractNode, SupersedeNode, Send, Free, disk, session
  <2> QED
    BY <2>1, <2>2
<1>3. /\ Bases' = Bases /\ Sealed' = Sealed /\ History' = History
      /\ Recent' = Recent /\ BaseFrames' = BaseFrames
      /\ \A f : Covered(f)' <=> Covered(f)
      /\ \A k, c : Leftover(k, c)' <=> Leftover(k, c)
  BY <1>2, SameFiles
<1>4. cur'.st # "closed" => \A f \in History : f.clock < cur'.clock
  <2>1. \A f \in History : f.clock \in Nat /\ f.clock <= logical_clock
    BY <1>1, <1>2, DiskTypes DEF ClockIsFresh
  <2>2. logical_clock \in Nat
    BY <1>1, NumbersAre DEF Numbers
  <2> QED
    BY <1>2, <2>1, <2>2
<1>5. Calm
  <2>1. (\A b \in Bases : b.max <= b.max) /\ aged \in Nat /\ aged <= aged
    BY <1>1, DiskTypes DEF TypeInv, TypeOK, Clocks
  <2> QED
    BY <1>2, <1>3, <1>4, <2>1 DEF Calm
<1>6. OrderInv' /\ RecordInv'
  BY <1>1, <1>5, CalmOrder, CalmRecords
<1>7. FileInv'
  <2>1. Compacted(mem, commit_sequence)' = Compacted(mem, commit_sequence)
    BY <1>2 DEF Compacted, Kept
  <2> QED
    BY <1>1, <1>2, <1>3, <2>1 DEF FileInv, Folding
<1>8. UnsureInv'
  BY <1>2, <1>3, <1>4 DEF UnsureInv, Calling, Appending, Acked
<1>9. ReplayInv'
  BY <1>2 DEF ReplayInv
<1> QED
  BY <1>6, <1>7, <1>8, <1>9

\* The writer thread adds the frame of the event being written.
Appended ==
    /\ Appending
    /\ active'.frames = active.frames \cup {FrameOf(cur, next_seq)}
    /\ UNCHANGED << segs, snap, want, unsure, aged >>

LEMMA AppendedFiles ==
    ASSUME Schema = 6, RecoveryInv, Appended
    PROVE  LET g == FrameOf(cur, next_seq)
           IN  /\ Bases' = Bases /\ Sealed' = Sealed /\ BaseFrames' = BaseFrames
               /\ History' = History \cup {g} /\ Recent' = Recent \cup {g}
               /\ \A f : Covered(f)' <=> Covered(f)
               /\ ~Covered(g)
               /\ g.seq = next_seq /\ g.key = cur.key /\ CellOf(g) = CellOf(cur)
               /\ g.st = cur.st /\ g.clock = cur.clock
               /\ \A f \in History : f.seq < next_seq
               /\ snap.st = "valid" => snap.frontier < next_seq
               /\ cur \in unsure /\ \A w \in unsure : w.key = cur.key
               /\ \A s \in segs : s.max < next_seq /\ s.min < next_seq
               /\ next_seq \in Nat
<1> DEFINE g == FrameOf(cur, next_seq)
<1>1. TypeInv /\ SeqInv /\ UnsureInv /\ phase = "ready"
  BY DEF RecoveryInv, BeforeInv, Appended, TypeInv, CallInv, Appending
<1>2. /\ g.seq = next_seq /\ g.key = cur.key /\ CellOf(g) = CellOf(cur)
      /\ g.st = cur.st /\ g.clock = cur.clock
  BY DEF FrameOf, CellOf
<1>3. next_seq \in Nat /\ commit_sequence \in Nat /\ snap.frontier \in Nat
      /\ \A s \in segs : s.max \in Nat /\ s.min \in Nat
  BY <1>1, DiskTypes DEF TypeInv, TypeOK, Segment, Seqs
<1>4. (\A s \in segs : s.max < next_seq) /\ \A f \in active.frames : f.seq < next_seq
  BY <1>1 DEF SeqInv, CounterInv, Running
<1>5. \A s \in segs : s.min < next_seq
  BY <1>1, <1>3, <1>4 DEF SeqInv, SegmentInv
<1>6. \A f \in History : f.seq < next_seq
  <2>1. ASSUME NEW s \in segs, NEW f \in s.frames PROVE f.seq < next_seq
    <3>1. f.seq <= s.max /\ s.max < next_seq
      BY <1>1, <1>4 DEF SeqInv, SegmentInv
    <3>2. f.seq \in Nat
      BY <1>1 DEF TypeInv, TypeOK, Segment, Frame, Seqs
    <3> QED
      BY <1>3, <3>1, <3>2
  <2> QED
    BY <1>4, <2>1 DEF History, Sealed
<1>7. snap.st = "valid" => snap.frontier < next_seq
  BY <1>1, <1>3 DEF SeqInv, ReachInv, CounterInv, Running
<1>8. cur \in unsure /\ \A w \in unsure : w.key = cur.key
  BY <1>1 DEF UnsureInv, Calling, Appended
<1>9. Bases' = Bases
  BY DEF Bases, Appended
<1>10. Sealed' = Sealed /\ BaseFrames' = BaseFrames /\ \A f : Covered(f)' <=> Covered(f)
  BY <1>9 DEF Sealed, BaseFrames, Newest, Covered, Appended
<1>11. ~Covered(g)
  BY <1>2, <1>3, <1>4 DEF Covered, Bases
<1> HIDE DEF g
<1>12. History' = History \cup {g}
  BY <1>10 DEF History, Appended, g
<1>13. Recent' = Recent \cup {g}
  BY <1>10, <1>11, <1>12 DEF Recent
<1> QED
  BY <1>2, <1>3, <1>4, <1>5, <1>6, <1>7, <1>8, <1>9, <1>10, <1>11, <1>12, <1>13 DEF g

LEMMA AppendedOrder ==
    ASSUME Schema = 6, RecoveryInv, Appended, phase' = "ready" => phase = "ready" /\ mem' = mem
    PROVE  OrderInv'
<1> DEFINE g == FrameOf(cur, next_seq)
<1>1. TypeInv /\ FileInv /\ OrderInv /\ UnsureInv
  BY DEF RecoveryInv, BeforeInv
<1>2. /\ Bases' = Bases
      /\ History' = History \cup {g}
      /\ \A f : Covered(f)' <=> Covered(f)
      /\ ~Covered(g)
      /\ g.seq = next_seq /\ g.key = cur.key /\ g.st = cur.st /\ g.clock = cur.clock
      /\ \A f \in History : f.seq < next_seq
      /\ snap.st = "valid" => snap.frontier < next_seq
      /\ cur \in unsure
      /\ \A s \in segs : s.max < next_seq
      /\ next_seq \in Nat
  BY AppendedFiles
<1>3. UNCHANGED << segs, snap, want, unsure, aged >> /\ Appending
  BY DEF Appended
<1>4. \A f \in History : f.seq \in Nat
  BY <1>1, DiskTypes
<1>5. g.st # "closed" => \A f \in History : f.clock < g.clock
  BY <1>1, <1>2, <1>3 DEF UnsureInv, Appending
<1> HIDE DEF g
<1>6. (\A f, h \in History : f.seq < h.seq /\ h.st # "closed" => f.clock < h.clock)'
  BY <1>1, <1>2, <1>4, <1>5 DEF OrderInv
<1>7. (\A b \in Bases : \A h \in b.frames, f \in History :
          f.key = h.key /\ f.seq <= b.max => Newer(CellOf(h), f))'
  <2> SUFFICES ASSUME NEW b \in Bases, NEW h \in b.frames, NEW f \in History \cup {g},
                      f.key = h.key, f.seq <= b.max
               PROVE  Newer(CellOf(h), f)
    BY <1>2 DEF Newer
  <2>1. b.max < next_seq /\ b.max \in Nat
    BY <1>1, <1>2, DiskTypes DEF Bases
  <2>2. f # g
    BY <1>2, <2>1
  <2> QED
    BY <1>1, <2>2 DEF OrderInv
<1>8. (phase = "ready" => \A f \in History :
          mem[f.key].st \in {"live", "dead"} /\ (\A w \in unsure : w.key # f.key) =>
              Newer(mem[f.key], f))'
  BY <1>1, <1>2, <1>3 DEF OrderInv, Newer
<1>9. (snap.st = "valid" => \A f \in History :
          snap.cells[f.key].st \in {"live", "dead"} /\ f.seq <= snap.frontier =>
              Newer(snap.cells[f.key], f))'
  <2>1. snap.frontier \in Nat
    BY <1>1, DiskTypes
  <2>2. snap.st = "valid" => ~(g.seq <= snap.frontier)
    BY <1>2, <2>1
  <2> QED
    BY <1>1, <1>2, <1>3, <2>2 DEF OrderInv, Newer
<1>10. (\A w \in unsure, f \in History :
          w.st # "closed" /\ Covered(f) => f.clock < w.clock)'
  BY <1>1, <1>2, <1>3 DEF OrderInv
<1> QED
  BY <1>6, <1>7, <1>8, <1>9, <1>10 DEF OrderInv

\* The names of the files still hold.
LEMMA AppendedNames ==
    ASSUME Schema = 6, RecoveryInv, Appended, wpc' # "seal_reset", ~Folding'
    PROVE  FileInv'
<1> DEFINE g == FrameOf(cur, next_seq)
<1>1. TypeInv /\ FileInv
  BY DEF RecoveryInv, BeforeInv
<1>2. /\ Bases' = Bases /\ segs' = segs /\ active'.frames = active.frames \cup {g}
      /\ History' = History \cup {g}
      /\ g.seq = next_seq
      /\ \A f \in History : f.seq < next_seq
      /\ \A s \in segs : s.min < next_seq
      /\ next_seq \in Nat
  BY AppendedFiles DEF Appended
<1>3. (\A f \in History : f.seq \in Nat) /\ \A s \in segs : s.min \in Nat
  BY <1>1, DiskTypes DEF TypeInv, TypeOK, Segment, Seqs
<1> HIDE DEF g
<1>4. (\A f, h \in History : f.seq = h.seq => f = h)'
  BY <1>1, <1>2, <1>3 DEF FileInv
<1>5. (\A s \in segs \ Bases, f \in active.frames :
          f.seq = s.min => s.frames \subseteq active.frames)'
  BY <1>1, <1>2, <1>3 DEF FileInv
<1> QED
  BY <1>1, <1>2, <1>4, <1>5 DEF FileInv

\* The frame hangs; of every other record the disk says what it said.
LEMMA AppendedRecords ==
    ASSUME Schema = 6, RecoveryInv, Appended, NEW k \in Keys
    PROVE  /\ k = cur.key => Hanging(k)' /\ ~Usable(k)'
           /\ k # cur.key => /\ ~Hanging(k)
                             /\ \A c : Outcome(k, c)' <=> Outcome(k, c)
                             /\ Usable(k)' <=> Usable(k)
           /\ \A c : Leftover(k, c)' <=> Leftover(k, c)
           /\ WantInv(k)'
           /\ \A c : Kept(c)' <=> Kept(c)
<1> DEFINE g == FrameOf(cur, next_seq)
<1>1. TypeInv /\ RecordInv
  BY DEF RecoveryInv, BeforeInv
<1>2. /\ Bases' = Bases /\ Sealed' = Sealed /\ BaseFrames' = BaseFrames
      /\ History' = History \cup {g} /\ Recent' = Recent \cup {g}
      /\ \A f : Covered(f)' <=> Covered(f)
      /\ g.seq = next_seq /\ g.key = cur.key /\ CellOf(g) = CellOf(cur)
      /\ \A f \in History : f.seq < next_seq
      /\ snap.st = "valid" => snap.frontier < next_seq
      /\ cur \in unsure /\ \A w \in unsure : w.key = cur.key
      /\ next_seq \in Nat
  BY AppendedFiles
<1>3. UNCHANGED << segs, snap, want, unsure, aged >>
  BY DEF Appended
<1>4. (\A f \in History : f.seq \in Nat) /\ snap.frontier \in Nat
  BY <1>1, DiskTypes
<1> HIDE DEF g
<1>5. \A f \in History' : f.seq <= g.seq
  BY <1>2, <1>4
<1>6. k = cur.key => Hanging(k)'
  BY <1>2, <1>3, <1>5 DEF Hanging
<1>7. k = cur.key => ~Usable(k)'
  BY <1>2, <1>3, <1>4 DEF Usable
<1>8. ASSUME k # cur.key
      PROVE  /\ ~Hanging(k)
             /\ \A c : Outcome(k, c)' <=> Outcome(k, c)
             /\ Usable(k)' <=> Usable(k)
  <2>1. ~Hanging(k)
    BY <1>2, <1>8 DEF Hanging
  <2>2. \A c : Outcome(k, c)' <=> Outcome(k, c)
    BY <1>2, <1>8 DEF Outcome
  <2>3. Usable(k)' <=> Usable(k)
    BY <1>2, <1>3, <1>8 DEF Usable
  <2> QED
    BY <2>1, <2>2, <2>3
<1>9. \A c : Leftover(k, c)' <=> Leftover(k, c)
  BY <1>2 DEF Leftover
<1>10. \A c : Kept(c)' <=> Kept(c)
  BY <1>3 DEF Kept
<1>11. WantInv(k)'
  <2>1. CASE k = cur.key
    BY <1>6, <2>1 DEF WantInv
  <2>2. CASE k # cur.key
    <3>1. Kept(want[k]) => Outcome(k, want[k])
      BY <1>1, <1>8, <2>2 DEF RecordInv, WantInv
    <3>2. PICK c : c = want[k] /\ c = want'[k]
      BY <1>3
    <3>3. Outcome(k, want[k]) => Outcome(k, c)
      BY <3>2
    <3>4. Outcome(k, c)' => Outcome(k, want[k])'
      BY <3>2 DEF Outcome
    <3>5. Kept(want[k])' => Kept(want[k])
      BY <1>3 DEF Kept
    <3> QED
      BY <1>8, <2>2, <3>1, <3>3, <3>4, <3>5 DEF WantInv
  <2> QED
    BY <2>1, <2>2
<1> QED
  BY <1>6, <1>7, <1>8, <1>9, <1>10, <1>11

\* What is left of RecordInv after a frame is added to a running process' journal.
LEMMA AppendedRunning ==
    ASSUME Schema = 6, RecoveryInv, Appended,
           phase' = "ready", mem' = mem,
           snap.st = "valid" /\ snap.frontier = commit_sequence' =>
               commit_sequence' = commit_sequence
    PROVE  RecordInv'
<1> SUFFICES ASSUME NEW k \in Keys
             PROVE  WantInv(k)' /\ MemInv(k)' /\ WasInv(k)' /\ SnapInv(k)'
  BY DEF RecordInv
<1>1. TypeInv /\ MemInv(k) /\ SnapInv(k) /\ phase = "ready"
  BY DEF RecoveryInv, BeforeInv, RecordInv, Appended, Appending, TypeInv, CallInv
<1>2. /\ k = cur.key => Hanging(k)' /\ ~Usable(k)'
      /\ k # cur.key => /\ ~Hanging(k)
                        /\ \A c : Outcome(k, c)' <=> Outcome(k, c)
                        /\ Usable(k)' <=> Usable(k)
      /\ \A c : Leftover(k, c)' <=> Leftover(k, c)
      /\ WantInv(k)'
      /\ \A c : Kept(c)' <=> Kept(c)
  BY AppendedRecords
<1>3. UNCHANGED << snap, want, aged >>
  BY DEF Appended
<1>4. PICK m, d : m = mem[k] /\ m = mem'[k] /\ d = snap.cells[k] /\ d = snap'.cells[k]
  BY <1>3
<1>5. /\ Outcome(k, m)' => Outcome(k, mem[k])'
      /\ Outcome(k, d)' => Outcome(k, snap.cells[k])'
      /\ Leftover(k, m)' => Leftover(k, mem[k])'
      /\ Leftover(k, d)' => Leftover(k, snap.cells[k])'
      /\ Kept(mem[k])' => Kept(m)
      /\ Kept(snap.cells[k])' => Kept(d)
      /\ Kept(want[k])' => Kept(want[k])
      /\ Expired(snap.cells[k]) => Expired(snap.cells[k])'
  BY <1>3, <1>4 DEF Outcome, Leftover, Kept, Expired
<1>6. MemInv(k)'
  <2>1. Kept(want[k])' => mem'[k] = want'[k]
    BY <1>1, <1>3, <1>5 DEF MemInv
  <2>2. CASE k = cur.key
    BY <1>2, <2>1, <2>2 DEF MemInv
  <2>3. CASE k # cur.key
    <3>1. \A c \in Cell : Outcome(k, c)' /\ Kept(c)' => mem'[k] = c
      BY <1>1, <1>2, <2>3 DEF MemInv
    <3>2. Kept(m) => Outcome(k, m) \/ Leftover(k, m)
      BY <1>1, <1>2, <1>4, <2>3 DEF MemInv
    <3>3. Kept(mem[k])' => Outcome(k, mem[k])' \/ Leftover(k, mem[k])'
      BY <1>2, <1>5, <2>3, <3>2
    <3> QED
      BY <2>1, <3>1, <3>3 DEF MemInv
  <2> QED
    BY <2>2, <2>3
<1>7. SnapInv(k)'
  <2>1. ASSUME Usable(k)'
        PROVE  /\ \A c \in Cell : Outcome(k, c)' /\ Kept(c)' => snap'.cells[k] = c
               /\ Kept(snap.cells[k])' =>
                    Outcome(k, snap.cells[k])' \/ Leftover(k, snap.cells[k])'
    <3>1. k # cur.key /\ Usable(k)
      BY <1>2, <2>1
    <3>2. Kept(d) => Outcome(k, d) \/ Leftover(k, d)
      BY <1>1, <1>4, <3>1 DEF SnapInv
    <3> QED
      BY <1>1, <1>2, <1>4, <1>5, <3>1, <3>2 DEF SnapInv
  <2>2. ASSUME snap'.st = "valid", snap'.frontier = commit_sequence'
        PROVE  mem'[k] = snap'.cells[k] \/ (mem'[k] = Absent /\ Expired(snap.cells[k])')
    <3>1. snap.st = "valid" /\ snap.frontier = commit_sequence
      BY <1>3, <2>2
    <3>2. mem[k] = snap.cells[k] \/ (mem[k] = Absent /\ Expired(snap.cells[k]))
      BY <1>1, <3>1 DEF SnapInv
    <3> QED
      BY <1>3, <1>5, <3>2
  <2> QED
    BY <2>1, <2>2 DEF SnapInv
<1>8. WasInv(k)'
  BY DEF WasInv
<1> QED
  BY <1>2, <1>6, <1>7, <1>8

LEMMA WriterAppendRecovery ==
    ASSUME Schema = 6, RecoveryInv, WriterAppend
    PROVE  FileInv' /\ UnsureInv' /\ OrderInv' /\ RecordInv' /\ ReplayInv'
<1>1. TypeInv /\ UnsureInv /\ phase = "ready" /\ phase' = "ready" /\ mem' = mem
      /\ cur' = cur /\ unsure' = unsure /\ commit_sequence' = next_seq
  BY DEF RecoveryInv, BeforeInv, WriterAppend, session, Appending, TypeInv, CallInv
<1>2. Appended
  BY <1>1 DEF WriterAppend, Appended, TypeInv, TypeOK, ActiveFile
<1>3. snap.st = "valid" => snap.frontier < next_seq
  BY <1>2, AppendedFiles
<1>4. RecordInv'
  <2>1. snap.frontier \in Nat /\ next_seq \in Nat
    BY <1>1, DiskTypes
  <2>2. snap.st = "valid" => snap.frontier # commit_sequence'
    BY <1>1, <1>3, <2>1
  <2> QED
    BY <1>1, <1>2, <2>2, AppendedRunning
<1>5. OrderInv'
  BY <1>1, <1>2, AppendedOrder
<1>6. FileInv'
  BY <1>2, AppendedNames DEF WriterAppend, Folding
<1>7. UnsureInv'
  <2>1. FrameOf(cur, next_seq) \in Recent'
    BY <1>2, AppendedFiles
  <2>2. FrameOf(cur', commit_sequence') = FrameOf(cur, next_seq)
    BY <1>1
  <2>3. cur \in unsure /\ \A w \in unsure : w.key = cur.key
    BY <1>2, AppendedFiles
  <2> QED
    BY <1>1, <2>1, <2>2, <2>3 DEF UnsureInv, WriterAppend, Calling, Appending, Acked
<1>8. ReplayInv'
  BY <1>1 DEF ReplayInv
<1> QED
  BY <1>4, <1>5, <1>6, <1>7, <1>8

\* After a failed append the call's outcome is unknown, and no call begins before
\* the next recovery.
LEMMA WriterAppendFailsRecovery ==
    ASSUME Schema = 6, RecoveryInv, WriterAppendFails
    PROVE  FileInv' /\ UnsureInv' /\ OrderInv' /\ RecordInv' /\ ReplayInv'
<1>1. TypeInv /\ UnsureInv /\ phase = "ready" /\ phase' = "ready" /\ mem' = mem
      /\ unsure' = unsure /\ commit_sequence' = commit_sequence
      /\ UNCHANGED << segs, snap, want, aged, was >> /\ Appending
      /\ pc' = "idle" /\ recovery_required' = TRUE
      /\ wpc' \in {"idle", "seal"}
  BY DEF RecoveryInv, BeforeInv, WriterAppendFails, replay, Appending, TypeInv, CallInv
<1>2. CASE Appended
  <2>1. RecordInv' /\ OrderInv'
    BY <1>1, <1>2, AppendedRunning, AppendedOrder
  <2>2. FileInv'
    BY <1>1, <1>2, AppendedNames DEF Folding
  <2>3. UnsureInv' /\ ReplayInv'
    BY <1>1 DEF UnsureInv, ReplayInv, Calling, Appending, Acked
  <2> QED
    BY <2>1, <2>2, <2>3
<1>3. CASE active'.frames = active.frames
  <2>1. (\A k \in Keys : mem'[k] = mem[k]) /\ aged \in Nat /\ aged <= aged
    BY <1>1 DEF TypeInv, TypeOK, Clocks
  <2>2. Rest
    BY <1>1, <1>3, <2>1 DEF Rest, Calling, Settled, Appending, Acked, Folding
  <2> QED
    BY <2>2, RestKeeps
<1>4. \/ active'.frames = active.frames
      \/ active'.frames = active.frames \cup {FrameOf(cur, next_seq)}
  BY <1>1, ResidueFrames DEF WriterAppendFails
<1> QED
  BY <1>1, <1>2, <1>3, <1>4 DEF Appended

\* The process stops, in the middle of an append or not.
LEMMA CrashRecovery ==
    ASSUME Schema = 6, RecoveryInv, Crash
    PROVE  FileInv' /\ UnsureInv' /\ OrderInv' /\ RecordInv' /\ ReplayInv'
<1>1. TypeInv /\ RecordInv /\ OrderInv /\ FileInv
  BY DEF RecoveryInv, BeforeInv
<1>2. /\ phase' = "down" /\ pc' = "idle" /\ wpc' = "idle"
      /\ UNCHANGED << segs, snap, aged, want, unsure >>
      /\ was' = IF phase = "ready" THEN mem ELSE was
      /\ aged \in Nat /\ aged <= aged
  BY <1>1 DEF Crash, TypeInv, TypeOK, Clocks
<1>3. UnsureInv' /\ ReplayInv'
  BY <1>2 DEF UnsureInv, ReplayInv, Calling, Appending, Acked
<1>4. ASSUME NEW k \in Keys, NEW c \in Cell, Outcome(k, c), c.st = "live"
      PROVE  was'[k] = c \/ Hanging(k)
  <2>1. MemInv(k) /\ WasInv(k) /\ Kept(c)
    BY <1>1, <1>4 DEF RecordInv, Kept
  <2> QED
    BY <1>2, <1>4, <2>1 DEF MemInv, WasInv
<1>5. CASE Appended
  <2>1. OrderInv' /\ FileInv'
    BY <1>2, <1>5, AppendedOrder, AppendedNames DEF Folding
  <2>2. ASSUME NEW k \in Keys
        PROVE  WantInv(k)' /\ MemInv(k)' /\ WasInv(k)' /\ SnapInv(k)'
    <3>1. /\ k = cur.key => Hanging(k)' /\ ~Usable(k)'
          /\ k # cur.key => /\ ~Hanging(k)
                            /\ \A c : Outcome(k, c)' <=> Outcome(k, c)
                            /\ Usable(k)' <=> Usable(k)
          /\ \A c : Leftover(k, c)' <=> Leftover(k, c)
          /\ WantInv(k)'
          /\ \A c : Kept(c)' <=> Kept(c)
      BY <1>5, AppendedRecords
    <3>2. MemInv(k)'
      BY <1>2 DEF MemInv
    <3>3. WasInv(k)'
      BY <1>4, <3>1 DEF WasInv
    <3>4. SnapInv(k)'
      <4>1. PICK d : d = snap.cells[k] /\ d = snap'.cells[k]
        BY <1>2
      <4>2. /\ Outcome(k, d)' => Outcome(k, snap.cells[k])'
            /\ Leftover(k, d)' => Leftover(k, snap.cells[k])'
            /\ Kept(snap.cells[k])' => Kept(d)
        BY <1>2, <4>1 DEF Outcome, Leftover, Kept
      <4>3. SnapInv(k)
        BY <1>1 DEF RecordInv
      <4>4. Usable(k) /\ Kept(d) => Outcome(k, d) \/ Leftover(k, d)
        BY <4>1, <4>3 DEF SnapInv
      <4> QED
        BY <1>2, <3>1, <4>1, <4>2, <4>3, <4>4 DEF SnapInv
    <3> QED
      BY <3>1, <3>2, <3>3, <3>4
  <2> QED
    BY <1>3, <2>1, <2>2 DEF RecordInv
<1>6. CASE active'.frames = active.frames
  <2>1. /\ Bases' = Bases /\ Sealed' = Sealed /\ History' = History
        /\ Recent' = Recent /\ BaseFrames' = BaseFrames
        /\ \A f : Covered(f)' <=> Covered(f)
        /\ \A k, c : Leftover(k, c)' <=> Leftover(k, c)
        /\ \A k, c : Outcome(k, c)' <=> Outcome(k, c)
    BY <1>2, <1>6, SameFiles
  <2>2. FileInv'
    BY <1>1, <1>2, <1>6, <2>1 DEF FileInv, Folding
  <2>3. OrderInv'
    BY <1>1, <1>2, <2>1 DEF OrderInv, Newer
  <2>4. ASSUME NEW k \in Keys
        PROVE  WantInv(k)' /\ MemInv(k)' /\ WasInv(k)' /\ SnapInv(k)'
    <3>1. Hanging(k) => Hanging(k)'
      BY <1>2, <2>1, HangingStays
    <3>2. WantInv(k) /\ SnapInv(k)
      BY <1>1 DEF RecordInv
    <3>3. PICK d, w : /\ d = snap.cells[k] /\ d = snap'.cells[k]
                      /\ w = want[k] /\ w = want'[k]
      BY <1>2
    <3>4. /\ Outcome(k, d)' => Outcome(k, snap.cells[k])'
          /\ Leftover(k, d)' => Leftover(k, snap.cells[k])'
          /\ Kept(snap.cells[k])' => Kept(d)
          /\ Outcome(k, w)' => Outcome(k, want[k])'
          /\ Kept(want[k])' => Kept(w)
          /\ Kept(want[k]) <=> Kept(w)
          /\ Outcome(k, want[k]) <=> Outcome(k, w)
      BY <1>2, <3>3 DEF Outcome, Leftover, Kept
    <3>5. \A c : Kept(c)' <=> Kept(c)
      BY <1>2 DEF Kept
    <3>6. WantInv(k)'
      BY <2>1, <3>1, <3>2, <3>3, <3>4 DEF WantInv
    <3>7. WasInv(k)'
      BY <1>4, <2>1, <3>1 DEF WasInv
    <3>8. Usable(k)' => Usable(k)
      BY <1>2, <2>1 DEF Usable
    <3>9. Usable(k) /\ Kept(d) => Outcome(k, d) \/ Leftover(k, d)
      BY <3>2, <3>3 DEF SnapInv
    <3>10. SnapInv(k)'
      BY <1>2, <2>1, <3>2, <3>3, <3>4, <3>5, <3>8, <3>9 DEF SnapInv
    <3>11. MemInv(k)'
      BY <1>2 DEF MemInv
    <3> QED
      BY <3>6, <3>7, <3>10, <3>11
  <2> QED
    BY <1>3, <2>2, <2>3, <2>4 DEF RecordInv
<1>7. \/ active'.frames = active.frames
      \/ Appending /\ active'.frames = active.frames \cup {FrameOf(cur, next_seq)}
  <2>1. CASE Appending /\ wpc = "idle"
    BY <1>1, <2>1, ResidueFrames DEF Crash, CrashResidue
  <2>2. CASE ~(Appending /\ wpc = "idle")
    BY <1>1, <2>2 DEF Crash, CrashResidue, TypeInv, TypeOK, ActiveFile
  <2> QED
    BY <2>1, <2>2
<1> QED
  BY <1>2, <1>5, <1>6, <1>7 DEF Appended

\* The last frame of all is that of an acknowledged event.
LEMMA AckedIsLast ==
    ASSUME RecoveryInv, Acked
    PROVE  LET g == FrameOf(cur, commit_sequence)
           IN  /\ g \in Recent /\ g.key = cur.key /\ CellOf(g) = CellOf(cur)
               /\ \A f \in History : f.seq <= g.seq
               /\ Outcome(cur.key, CellOf(cur))
<1> DEFINE g == FrameOf(cur, commit_sequence)
<1>1. TypeInv /\ SeqInv /\ UnsureInv /\ phase = "ready" /\ ~recovery_required
  BY DEF RecoveryInv, BeforeInv, Acked, TypeInv, CallInv
<1>2. g \in Recent
  BY <1>1 DEF UnsureInv
<1>3. g.key = cur.key /\ CellOf(g) = CellOf(cur) /\ g.seq = commit_sequence
  BY DEF FrameOf, CellOf
<1>4. \A f \in AllFrames : f.seq < commit_sequence + 1
  <2>1. /\ \A s \in segs : s.max < commit_sequence + 1
        /\ \A f \in active.frames : f.seq < commit_sequence + 1
    BY <1>1 DEF SeqInv, CounterInv, Running
  <2>2. ASSUME NEW s \in segs, NEW f \in s.frames PROVE f.seq < commit_sequence + 1
    <3>1. f.seq <= s.max /\ f.seq \in Nat /\ s.max \in Nat /\ commit_sequence \in Nat
      BY <1>1, NumbersAre DEF SeqInv, SegmentInv, Numbers, AllFrames
    <3> QED
      BY <2>1, <3>1
  <2> QED
    BY <2>1, <2>2 DEF AllFrames
<1> HIDE DEF g
<1>5. \A f \in History : f.seq <= g.seq
  BY <1>1, <1>3, <1>4, DiskTypes
<1>6. Outcome(cur.key, CellOf(cur))
  BY <1>1, <1>2, <1>3, <1>5, DiskTypes DEF Outcome
<1> QED
  BY <1>2, <1>3, <1>5, <1>6 DEF g

LEMMA ApplyRecovery ==
    ASSUME RecoveryInv, Apply
    PROVE  FileInv' /\ UnsureInv' /\ OrderInv' /\ RecordInv' /\ ReplayInv'
<1> DEFINE g == FrameOf(cur, commit_sequence)
<1>1. /\ TypeInv /\ FileInv /\ UnsureInv /\ OrderInv /\ RecordInv
      /\ Acked /\ pc = "acked" /\ phase = "ready" /\ cur.key \in Keys
      /\ snap.st = "valid" => snap.frontier < commit_sequence
  BY DEF RecoveryInv, BeforeInv, Apply, Acked, TypeInv, CallInv, Write, ClockInv,
     SnapClockInv
<1>2. /\ g \in Recent /\ g.key = cur.key /\ CellOf(g) = CellOf(cur)
      /\ \A f \in History : f.seq <= g.seq
      /\ Outcome(cur.key, CellOf(cur))
  BY <1>1, AckedIsLast
<1>3. /\ UNCHANGED << segs, active, snap, phase, commit_sequence, wpc, aged, was >>
      /\ unsure' = {} /\ pc' = "idle"
      /\ mem' = [mem EXCEPT ![cur.key] = CellOf(cur)]
      /\ want' = [want EXCEPT ![cur.key] = CellOf(cur)]
  BY DEF Apply, disk, session
<1>4. /\ Bases' = Bases /\ Sealed' = Sealed /\ History' = History
      /\ Recent' = Recent /\ BaseFrames' = BaseFrames
      /\ \A f : Covered(f)' <=> Covered(f)
      /\ \A k, c : Leftover(k, c)' <=> Leftover(k, c)
      /\ \A k, c : Outcome(k, c)' <=> Outcome(k, c)
  BY <1>3, SameFiles
<1>5. g \in History /\ \A f \in History : f.seq \in Nat
  BY <1>1, <1>2, DiskTypes
<1>6. cur.st # "closed" /\ (\A w \in unsure : w.key = cur.key)
  BY <1>1 DEF UnsureInv, Calling
<1>7. g.st = cur.st /\ g.clock = cur.clock /\ CellOf(cur).clock = cur.clock
  BY DEF FrameOf, CellOf
<1>8. /\ mem'[cur.key] = CellOf(cur) /\ want'[cur.key] = CellOf(cur)
      /\ \A k \in Keys : k # cur.key => mem'[k] = mem[k] /\ want'[k] = want[k]
  BY <1>1, <1>3 DEF TypeInv, TypeOK
<1> HIDE DEF g
<1>9. FileInv'
  <2>1. ~Folding'
    BY <1>1, <1>3 DEF Folding, TypeInv, CallInv, Acked
  <2> QED
    BY <1>1, <1>3, <1>4, <2>1 DEF FileInv
<1>10. UnsureInv' /\ ReplayInv'
  BY <1>1, <1>3 DEF UnsureInv, ReplayInv, Calling, Appending, Acked
<1>11. OrderInv'
  <2>1. ASSUME NEW f \in History, mem'[f.key].st \in {"live", "dead"}
        PROVE  Newer(mem'[f.key], f)
    <3>1. CASE f.key = cur.key
      <4>1. CASE f.seq = g.seq
        <5>1. f = g
          BY <1>1, <1>5, <4>1 DEF FileInv
        <5> QED
          BY <1>2, <1>8, <3>1, <5>1 DEF Newer
      <4>2. CASE f.seq < g.seq
        <5>1. f.clock < g.clock
          BY <1>1, <1>5, <1>6, <1>7, <4>2 DEF OrderInv
        <5> QED
          BY <1>7, <1>8, <3>1, <5>1 DEF Newer
      <4> QED
        BY <1>2, <1>5, <4>1, <4>2
    <3>2. CASE f.key # cur.key
      <4>1. f.key \in Keys /\ mem'[f.key] = mem[f.key]
        BY <1>1, <1>8, <3>2, DiskTypes
      <4> QED
        BY <1>1, <1>6, <2>1, <3>2, <4>1 DEF OrderInv
    <3> QED
      BY <3>1, <3>2
  <2> QED
    BY <1>1, <1>3, <1>4, <2>1 DEF OrderInv, Newer
<1>12. ASSUME NEW k \in Keys
       PROVE  WantInv(k)' /\ MemInv(k)' /\ WasInv(k)' /\ SnapInv(k)'
  <2>1. WantInv(k) /\ MemInv(k) /\ SnapInv(k)
    BY <1>1 DEF RecordInv
  <2>2. \A c : Kept(c)' <=> Kept(c)
    BY <1>3 DEF Kept
  <2>3. SnapInv(k)'
    <3>1. PICK d : d = snap.cells[k] /\ d = snap'.cells[k]
      BY <1>3
    <3>2. /\ Outcome(k, d)' => Outcome(k, snap.cells[k])'
          /\ Leftover(k, d)' => Leftover(k, snap.cells[k])'
          /\ Kept(snap.cells[k])' => Kept(d)
      BY <1>3, <3>1 DEF Outcome, Leftover, Kept
    <3>3. Usable(k)' => Usable(k)
      BY <1>3, <1>4 DEF Usable
    <3>4. Usable(k) /\ Kept(d) => Outcome(k, d) \/ Leftover(k, d)
      BY <2>1, <3>1 DEF SnapInv
    <3>5. snap'.st = "valid" => snap'.frontier # commit_sequence'
      BY <1>1, <1>3, DiskTypes
    <3> QED
      BY <1>4, <2>1, <2>2, <3>1, <3>2, <3>3, <3>4, <3>5 DEF SnapInv
  <2>4. WasInv(k)'
    BY <1>1, <1>3 DEF WasInv
  <2>5. PICK m, w : m = mem'[k] /\ w = want'[k]
    OBVIOUS
  <2>6. /\ Outcome(k, m)' => Outcome(k, mem[k])'
        /\ Outcome(k, w)' => Outcome(k, want[k])'
        /\ Leftover(k, m)' => Leftover(k, mem[k])'
        /\ Kept(mem[k])' => Kept(m)
        /\ Kept(want[k])' => Kept(w)
    BY <1>3, <2>5 DEF Outcome, Leftover, Kept
  <2>7. /\ Kept(w) => Outcome(k, w) /\ m = w
        /\ \A c \in Cell : Outcome(k, c) /\ Kept(c) => m = c
        /\ Kept(m) => Outcome(k, m) \/ Leftover(k, m)
    <3>1. CASE k = cur.key
      <4>1. m = CellOf(cur) /\ w = m /\ Outcome(k, m)
        BY <1>2, <1>8, <2>5, <3>1
      <4>2. \A c : Outcome(k, c) => m = c
        BY <1>1, <4>1, OutcomeUnique
      <4> QED
        BY <4>1, <4>2
    <3>2. CASE k # cur.key
      <4>1. ~Hanging(k)
        BY <1>6, <3>2 DEF Hanging
      <4>2. m = mem[k] /\ w = want[k]
        BY <1>8, <2>5, <3>2
      <4> QED
        BY <1>1, <2>1, <4>1, <4>2 DEF WantInv, MemInv
    <3> QED
      BY <3>1, <3>2
  <2>8. WantInv(k)'
    BY <1>4, <2>6, <2>7 DEF WantInv
  <2>9. MemInv(k)'
    BY <1>4, <2>2, <2>5, <2>6, <2>7 DEF MemInv
  <2> QED
    BY <2>3, <2>4, <2>8, <2>9
<1> QED
  BY <1>9, <1>10, <1>11, <1>12 DEF RecordInv

----------------------------------------------------------------------------
(* Seals, folds and snapshots.                                             *)

\* While no append has failed, the acknowledged sequence number is the last one.
LEMMA LastSequence ==
    ASSUME TypeInv, SeqInv, phase = "ready" \/ phase = "replay", ~recovery_required
    PROVE  /\ \A s \in segs : s.max <= commit_sequence
           /\ \A f \in History : f.seq <= commit_sequence
<1>1. /\ \A s \in segs : s.max < commit_sequence + 1
      /\ \A f \in active.frames : f.seq < commit_sequence + 1
  BY DEF SeqInv, CounterInv, Running
<1>2. /\ commit_sequence \in Nat
      /\ \A s \in segs : s.max \in Nat
      /\ \A f \in AllFrames : f.seq \in Nat
  BY NumbersAre DEF Numbers
<1>3. \A s \in segs : s.max <= commit_sequence
  BY <1>1, <1>2
<1>4. ASSUME NEW s \in segs, NEW f \in s.frames PROVE f.seq <= commit_sequence
  <2>1. f.seq <= s.max /\ f.seq \in Nat
    BY <1>2 DEF SeqInv, SegmentInv, AllFrames
  <2> QED
    BY <1>2, <1>3, <2>1
<1>5. \A f \in active.frames : f.seq <= commit_sequence
  BY <1>1, <1>2 DEF AllFrames
<1> QED
  BY <1>3, <1>4, <1>5 DEF History, Sealed

\* A seal copies the active file into a segment; one of the same name that it
\* replaces had no other frames.
LEMMA SealWriteRecovery ==
    ASSUME RecoveryInv, SealWrite
    PROVE  FileInv' /\ UnsureInv' /\ OrderInv' /\ RecordInv' /\ ReplayInv'
<1>1. TypeInv /\ FileInv /\ UnsureInv /\ OrderInv /\ RecordInv /\ phase = "ready"
      /\ aged \in Nat /\ aged <= aged
  BY DEF RecoveryInv, BeforeInv, TypeInv, TypeOK, Clocks, CallInv, SealWrite
<1>2. PICK lo \in active.frames, hi \in active.frames :
         /\ \A f \in active.frames : lo.seq <= f.seq /\ f.seq <= hi.seq
         /\ segs' = { s \in segs : s.kind = "B" \/ s.min # lo.seq } \cup
                    { [kind |-> "J", min |-> lo.seq, max |-> hi.seq,
                       frames |-> active.frames] }
  BY DEF SealWrite
<1>3. UNCHANGED << active, snap, phase, recovery_required, cursor, done, mem,
                   commit_sequence, pc, cur, aged, was, want, unsure >>
      /\ wpc' = "seal_reset" /\ wpc = "seal"
  BY DEF SealWrite, session
<1> DEFINE j == [kind |-> "J", min |-> lo.seq, max |-> hi.seq, frames |-> active.frames]
<1>4. j \in segs' /\ j.kind = "J" /\ j.min = lo.seq /\ j.frames = active.frames
  BY <1>2
<1>5. \A s \in segs' : s = j \/ (s \in segs /\ (s.kind = "B" \/ s.min # lo.seq))
  BY <1>2
<1>6. \A s \in segs : s \in segs' \/ (s.kind # "B" /\ s.min = lo.seq)
  BY <1>2
<1> HIDE DEF j
<1>7. Bases' = Bases
  BY <1>4, <1>5, <1>6 DEF Bases
<1>8. Sealed' = Sealed \cup active.frames
  <2>1. ASSUME NEW s \in segs \ Bases PROVE s.frames \subseteq Sealed'
    <3>1. CASE s \in segs'
      BY <1>7, <2>1, <3>1 DEF Sealed
    <3>2. CASE s.min = lo.seq
      <4>1. s.frames \subseteq active.frames
        BY <1>1, <2>1, <3>2 DEF FileInv
      <4>2. j \in segs' \ Bases'
        BY <1>4 DEF Bases
      <4> QED
        BY <1>4, <4>1, <4>2 DEF Sealed
    <3> QED
      BY <1>6, <2>1, <3>1, <3>2
  <2>2. active.frames \subseteq Sealed'
    BY <1>4 DEF Sealed, Bases
  <2>3. Sealed' \subseteq Sealed \cup active.frames
    BY <1>4, <1>5, <1>7 DEF Sealed
  <2> QED
    BY <2>1, <2>2, <2>3 DEF Sealed
<1>9. History' = History
  BY <1>3, <1>8 DEF History
<1>10. \A f : Covered(f)' <=> Covered(f)
  BY <1>7 DEF Covered
<1>11. Recent' = Recent /\ BaseFrames' = BaseFrames
  BY <1>7, <1>9, <1>10 DEF Recent, BaseFrames, Newest
<1>12. \A k, c : Leftover(k, c) => Leftover(k, c)'
  BY <1>8, <1>10 DEF Leftover
<1>13. Calm
  <2>1. \A b \in Bases : b.max <= b.max
    BY <1>1, DiskTypes
  <2> QED
    BY <1>1, <1>3, <1>7, <1>9, <1>11, <1>12, <2>1 DEF Calm
<1>14. OrderInv' /\ RecordInv'
  BY <1>1, <1>13, CalmOrder, CalmRecords
<1>15. FileInv'
  <2>1. (\A s \in segs \ Bases : \A f \in s.frames : s.min <= f.seq)'
    BY <1>1, <1>2, <1>4, <1>5, <1>7 DEF FileInv
  <2>2. (\A s \in segs \ Bases, f \in active.frames :
           f.seq = s.min => s.frames \subseteq active.frames)'
    BY <1>1, <1>3, <1>4, <1>5, <1>7 DEF FileInv
  <2>3. ~Folding' /\ active'.frames \subseteq Sealed'
    BY <1>3, <1>8 DEF Folding
  <2> QED
    BY <1>1, <1>7, <1>9, <2>1, <2>2, <2>3 DEF FileInv
<1>16. UnsureInv'
  BY <1>1, <1>3, <1>9, <1>11 DEF UnsureInv, Calling, Appending, Acked
<1>17. ReplayInv'
  BY <1>1, <1>3 DEF ReplayInv
<1> QED
  BY <1>14, <1>15, <1>16, <1>17

\* While a fold is under way its base is the newest and covers every frame.
LEMMA FoldingCovers ==
    ASSUME TypeInv, SeqInv, Folding
    PROVE  /\ phase = "ready" /\ pc = "fold" /\ ~recovery_required
           /\ \A f \in History : Covered(f)
           /\ Recent = {}
           /\ \E b \in Bases : b.max = commit_sequence
           /\ \A b \in Bases : b.max <= commit_sequence
<1>1. phase = "ready" /\ pc = "fold" /\ ~recovery_required
  BY DEF TypeInv, CallInv, Folding
<1>2. (\A s \in segs : s.max <= commit_sequence) /\ \A f \in History : f.seq <= commit_sequence
  BY <1>1, LastSequence
<1>3. \E b \in Bases : b.max = commit_sequence
  BY DEF SeqInv, CoverInv, IsNewBase, Bases
<1>4. \A f \in History : Covered(f)
  BY <1>2, <1>3 DEF Covered
<1> QED
  BY <1>1, <1>2, <1>3, <1>4 DEF Recent, Bases

\* A reset loses no frame: a seal has them in a segment, a fold in its base.
LEMMA ResetTruncateRecovery ==
    ASSUME RecoveryInv, ResetTruncate
    PROVE  FileInv' /\ UnsureInv' /\ OrderInv' /\ RecordInv' /\ ReplayInv'
<1>1. TypeInv /\ SeqInv /\ FileInv /\ UnsureInv /\ OrderInv /\ RecordInv /\ phase = "ready"
      /\ aged \in Nat /\ aged <= aged
  BY DEF RecoveryInv, BeforeInv, TypeInv, TypeOK, Clocks, CallInv, ResetTruncate
<1>2. UNCHANGED << segs, snap, phase, recovery_required, cursor, done, mem,
                   commit_sequence, pc, cur, aged, was, want, unsure >>
      /\ active'.frames = {} /\ wpc \in {"seal_reset", "fold_reset"}
      /\ wpc' = IF wpc = "seal_reset" THEN "seal_header" ELSE "fold_header"
  BY DEF ResetTruncate, session
<1>3. Bases' = Bases
  BY <1>2 DEF Bases
<1>4. Sealed' = Sealed /\ BaseFrames' = BaseFrames /\ (\A f : Covered(f)' <=> Covered(f))
  BY <1>2, <1>3 DEF Sealed, BaseFrames, Newest, Covered
<1>5. History' = Sealed /\ History' \subseteq History
  BY <1>2, <1>4 DEF History
<1>6. Recent' = Recent
  <2>1. CASE wpc = "seal_reset"
    <3>1. History' = History
      BY <1>1, <1>5, <2>1 DEF FileInv, History
    <3> QED
      BY <1>4, <3>1 DEF Recent
  <2>2. CASE wpc = "fold_reset"
    BY <1>1, <1>4, <1>5, <2>2, FoldingCovers DEF Folding, Recent
  <2> QED
    BY <1>2, <2>1, <2>2
<1>7. \A k, c : Leftover(k, c) => Leftover(k, c)'
  BY <1>4 DEF Leftover
<1>8. Calm
  <2>1. \A b \in Bases : b.max <= b.max
    BY <1>1, DiskTypes
  <2> QED
    BY <1>1, <1>2, <1>3, <1>4, <1>5, <1>6, <1>7, <2>1 DEF Calm
<1>9. OrderInv' /\ RecordInv'
  BY <1>1, <1>8, CalmOrder, CalmRecords
<1>10. FileInv'
  <2>1. Folding' => BaseFrames' = Compacted(mem, commit_sequence)'
    BY <1>1, <1>2, <1>4 DEF FileInv, Folding, Compacted, Kept
  <2> QED
    BY <1>1, <1>2, <1>3, <1>5, <2>1 DEF FileInv
<1>11. UnsureInv'
  BY <1>1, <1>2, <1>5, <1>6 DEF UnsureInv, Calling, Appending, Acked
<1>12. ReplayInv'
  BY <1>1, <1>2 DEF ReplayInv
<1> QED
  BY <1>9, <1>10, <1>11, <1>12

\* What the base of a fold in progress says of the records in memory and in a usable
\* snapshot.
LEMMA FoldingOutcome ==
    ASSUME RecoveryInv, Schema = 6, Folding, NEW k \in Keys
    PROVE  /\ Kept(mem[k]) => Outcome(k, mem[k])
           /\ Usable(k) /\ Kept(snap.cells[k]) => Outcome(k, snap.cells[k])
<1>1. TypeInv /\ SeqInv /\ FileInv /\ RecordInv
  BY DEF RecoveryInv, BeforeInv
<1>2. /\ phase = "ready" /\ Recent = {} /\ commit_sequence \in Nat /\ snap.frontier \in Nat
      /\ \E b \in Bases : b.max = commit_sequence
  BY <1>1, FoldingCovers, DiskTypes
<1>3. BaseFrames = Compacted(mem, commit_sequence)
  BY <1>1 DEF FileInv
<1>4. ASSUME Kept(mem[k]) PROVE Outcome(k, mem[k])
  <2> DEFINE f == [seq |-> commit_sequence, key |-> k, st |-> mem[k].st,
                   clock |-> mem[k].clock]
  <2>1. f \in BaseFrames /\ f.key = k
    BY <1>3, <1>4 DEF Compacted
  <2>2. CellOf(f) = mem[k]
    BY <1>1 DEF CellOf, TypeInv, TypeOK, Cell
  <2> QED
    BY <1>2, <2>1, <2>2 DEF Outcome
<1>5. ASSUME Usable(k), Kept(snap.cells[k]) PROVE Outcome(k, snap.cells[k])
  <2>1. snap.st = "valid" /\ commit_sequence <= snap.frontier
    BY <1>2, <1>5 DEF Usable
  <2>2. snap.frontier <= commit_sequence
    BY <1>1, <1>2, <2>1 DEF SeqInv, ReachInv, Running
  <2>3. snap.frontier = commit_sequence
    BY <1>2, <2>1, <2>2
  <2>4. SnapInv(k) /\ snap.cells[k].clock \in Nat /\ aged \in Nat
    BY <1>1 DEF RecordInv, TypeInv, TypeOK, Snapshot, Cell, Clocks
  <2>5. mem[k] = snap.cells[k]
    BY <1>2, <1>5, <2>1, <2>3, <2>4 DEF SnapInv, Expired, Kept
  <2> QED
    BY <1>4, <1>5, <2>5
<1> QED
  BY <1>4, <1>5

\* A segment is removed: what it says of a record, the base says too.
LEMMA FoldRemoveRecovery ==
    ASSUME Schema = 6, RecoveryInv, NEW s \in segs, FoldRemove(s)
    PROVE  FileInv' /\ UnsureInv' /\ OrderInv' /\ RecordInv' /\ ReplayInv'
<1>1. TypeInv /\ SeqInv /\ FileInv /\ UnsureInv /\ OrderInv /\ RecordInv /\ Folding
      /\ aged \in Nat /\ aged <= aged
  BY DEF RecoveryInv, BeforeInv, TypeInv, TypeOK, Clocks, Folding, FoldRemove
<1>2. UNCHANGED << active, snap, phase, recovery_required, cursor, done, mem,
                   commit_sequence, pc, wpc, cur, aged, was, want, unsure >>
      /\ segs' = segs \ {s} /\ wpc = "fold_remove"
      /\ ~(s.kind = "B" /\ s.max = commit_sequence)
  BY DEF FoldRemove, session, IsNewBase
<1>3. /\ phase = "ready" /\ pc = "fold" /\ \A f \in History : Covered(f)
      /\ Recent = {}
      /\ \A b \in Bases : b.max <= commit_sequence
  BY <1>1, FoldingCovers
<1>4. PICK nb \in Bases : nb.max = commit_sequence
  BY <1>1, FoldingCovers
<1>5. Bases' = Bases \ {s} /\ nb \in Bases' /\ Bases' \subseteq Bases
  BY <1>2, <1>4 DEF Bases
<1>6. Sealed' \subseteq Sealed
  BY <1>2, <1>5 DEF Sealed, Bases
<1>7. History' \subseteq History
  BY <1>2, <1>6 DEF History
<1>8. \A f \in History' : Covered(f)'
  BY <1>1, <1>2, <1>3, <1>4, <1>5, <1>7, LastSequence DEF Covered, TypeInv, CallInv
<1>9. Recent' = Recent
  BY <1>3, <1>8 DEF Recent
<1>10. (\A b \in Bases : b.max \in Nat) /\ commit_sequence \in Nat
  BY <1>1, DiskTypes
<1>11. \A c : Newest(c)' <=> Newest(c)
  <2>1. \A c : Newest(c) <=> c \in Bases /\ c.max = commit_sequence
    BY <1>3, <1>4, <1>10 DEF Newest
  <2>2. \A c : Newest(c)' <=> c \in Bases' /\ c.max = commit_sequence
    BY <1>3, <1>4, <1>5, <1>10 DEF Newest
  <2> QED
    BY <1>2, <1>5, <2>1, <2>2 DEF Bases
<1>12. BaseFrames' = BaseFrames
  BY <1>5, <1>11 DEF BaseFrames, Newest
<1>13. Calm
  <2>1. \A b \in Bases : \E c \in Bases' : b.max <= c.max
    BY <1>3, <1>4, <1>5
  <2>2. \A k \in Keys, c \in Cell :
          /\ Leftover(k, c) /\ Kept(c)
          /\ (phase = "ready" /\ c = mem[k]) \/ (Usable(k) /\ c = snap.cells[k])
          => Outcome(k, c)
    BY <1>1, FoldingOutcome
  <2> QED
    BY <1>1, <1>2, <1>5, <1>7, <1>9, <1>12, <2>1, <2>2 DEF Calm
<1>14. OrderInv' /\ RecordInv'
  BY <1>1, <1>13, CalmOrder, CalmRecords
<1>15. FileInv'
  <2>1. segs' \ Bases' \subseteq segs \ Bases
    BY <1>2, <1>5
  <2>2. BaseFrames' = Compacted(mem, commit_sequence)'
    BY <1>1, <1>2, <1>12 DEF FileInv, Compacted, Kept
  <2> QED
    BY <1>1, <1>2, <1>5, <1>7, <2>1, <2>2 DEF FileInv
<1>16. UnsureInv'
  BY <1>1, <1>2, <1>3 DEF UnsureInv, Calling, Appending, Acked
<1>17. ReplayInv'
  BY <1>2, <1>3 DEF ReplayInv
<1> QED
  BY <1>14, <1>15, <1>16, <1>17

\* A kept record in memory has its frame in the payload of a fold, and only that.
LEMMA CompactedCells ==
    ASSUME TypeInv, NEW n
    PROVE  /\ \A k \in Keys : Kept(mem[k]) =>
                 \E f \in Compacted(mem, n) : f.key = k /\ CellOf(f) = mem[k]
           /\ \A f \in Compacted(mem, n) :
                 /\ f.key \in Keys /\ CellOf(f) = mem[f.key] /\ Kept(mem[f.key])
                 /\ f.seq = n /\ f.st = mem[f.key].st
                 /\ f.st \in {"live", "dead"}
           /\ \A f, g \in Compacted(mem, n) : f.key = g.key => f = g
<1>1. \A k \in Keys : mem[k] = [st |-> mem[k].st, clock |-> mem[k].clock]
  BY DEF TypeInv, TypeOK, Cell
<1>2. ASSUME NEW k \in Keys, Kept(mem[k])
      PROVE  \E f \in Compacted(mem, n) : f.key = k /\ CellOf(f) = mem[k]
  <2> DEFINE f == [seq |-> n, key |-> k, st |-> mem[k].st, clock |-> mem[k].clock]
  <2>1. f \in Compacted(mem, n)
    BY <1>2 DEF Compacted
  <2>2. f.key = k /\ CellOf(f) = mem[k]
    BY <1>1 DEF CellOf
  <2> QED
    BY <2>1, <2>2
<1>3. ASSUME NEW f \in Compacted(mem, n)
      PROVE  /\ f.key \in Keys /\ CellOf(f) = mem[f.key] /\ Kept(mem[f.key])
             /\ f.seq = n /\ f.st = mem[f.key].st
             /\ f.st \in {"live", "dead"}
             /\ f = [seq |-> n, key |-> f.key, st |-> mem[f.key].st,
                     clock |-> mem[f.key].clock]
  <2>1. PICK k \in Keys : Kept(mem[k]) /\ f = [seq |-> n, key |-> k, st |-> mem[k].st,
                                               clock |-> mem[k].clock]
    BY DEF Compacted
  <2>2. f.key = k /\ f.seq = n /\ f.st = mem[k].st /\ f.clock = mem[k].clock
    BY <2>1
  <2> QED
    BY <1>1, <2>1, <2>2 DEF CellOf, Kept
<1> QED
  BY <1>2, <1>3

\* A fold's base covers every frame and has every kept record.
LEMMA FoldWriteBaseFiles ==
    ASSUME RecoveryInv, FoldWriteBase
    PROVE  LET nb == [kind |-> "B", min |-> commit_sequence, max |-> commit_sequence,
                      frames |-> Compacted(mem, commit_sequence)]
           IN  /\ Bases' = {b \in Bases : b.max # commit_sequence} \cup {nb}
               /\ Sealed' = Sealed /\ History' = History /\ segs' \ Bases' = segs \ Bases
               /\ Recent' = {}
               /\ BaseFrames' = Compacted(mem, commit_sequence)
               /\ unsure = {} /\ phase = "ready" /\ ~recovery_required
               /\ \A b \in Bases' : b.max <= commit_sequence
<1> DEFINE nb == [kind |-> "B", min |-> commit_sequence, max |-> commit_sequence,
                  frames |-> Compacted(mem, commit_sequence)]
<1>1. /\ TypeInv /\ SeqInv /\ FileInv /\ phase = "ready" /\ ~recovery_required
      /\ pc = "fold" /\ UnsureInv
  BY DEF RecoveryInv, BeforeInv, TypeInv, CallInv, FoldWriteBase
<1>2. unsure = {}
  BY <1>1 DEF UnsureInv, Calling, Appending, Acked
<1>3. segs' = { s \in segs : ~IsNewBase(s) } \cup {nb} /\ active' = active
  BY DEF FoldWriteBase
<1>4. nb.kind = "B" /\ nb.max = commit_sequence /\ nb.frames = Compacted(mem, commit_sequence)
  OBVIOUS
<1> HIDE DEF nb
<1>5. Bases' = {b \in Bases : b.max # commit_sequence} \cup {nb}
  BY <1>3, <1>4 DEF Bases, IsNewBase
<1>6. segs' \ Bases' = segs \ Bases
  BY <1>3, <1>4 DEF Bases, IsNewBase
<1>7. Sealed' = Sealed /\ History' = History
  BY <1>3, <1>6 DEF Sealed, History
<1>8. (\A s \in segs : s.max <= commit_sequence) /\ (\A f \in History : f.seq <= commit_sequence)
  BY <1>1, LastSequence
<1>9. Recent' = {}
  BY <1>4, <1>5, <1>7, <1>8 DEF Recent, Covered
<1>10. commit_sequence \in Nat /\ \A b \in Bases : b.max \in Nat
  BY <1>1, DiskTypes
<1>11. \A b \in Bases' : b.max <= commit_sequence
  BY <1>4, <1>5, <1>8, <1>10 DEF Bases
<1>12. \A c : Newest(c)' <=> c = nb
  <2>1. ASSUME NEW c, c = nb PROVE Newest(c)'
    BY <1>4, <1>5, <1>11, <2>1 DEF Newest
  <2>2. ASSUME NEW c, Newest(c)' PROVE c = nb
    <3>1. c \in Bases' /\ commit_sequence <= c.max
      BY <1>4, <1>5, <2>2 DEF Newest
    <3> QED
      BY <1>5, <1>10, <1>11, <3>1
  <2> QED
    BY <2>1, <2>2
<1>13. BaseFrames' = Compacted(mem, commit_sequence)
  BY <1>4, <1>5, <1>12 DEF BaseFrames
<1> QED
  BY <1>1, <1>2, <1>5, <1>6, <1>7, <1>9, <1>11, <1>13 DEF nb

LEMMA FoldWriteBaseRecovery ==
    ASSUME Schema = 6, RecoveryInv, FoldWriteBase
    PROVE  FileInv' /\ UnsureInv' /\ OrderInv' /\ RecordInv' /\ ReplayInv'
<1> DEFINE nb == [kind |-> "B", min |-> commit_sequence, max |-> commit_sequence,
                  frames |-> Compacted(mem, commit_sequence)]
<1>1. TypeInv /\ SeqInv /\ FileInv /\ UnsureInv /\ OrderInv /\ RecordInv
  BY DEF RecoveryInv, BeforeInv
<1>2. UNCHANGED << active, snap, phase, recovery_required, cursor, done, mem,
                   commit_sequence, pc, cur, aged, was, want, unsure >>
      /\ wpc' = "fold_remove" /\ pc = "fold"
  BY DEF FoldWriteBase, session
<1>3. /\ Bases' = {b \in Bases : b.max # commit_sequence} \cup {nb}
      /\ Sealed' = Sealed /\ History' = History /\ segs' \ Bases' = segs \ Bases
      /\ Recent' = {}
      /\ BaseFrames' = Compacted(mem, commit_sequence)
      /\ unsure = {} /\ phase = "ready"
      /\ \A b \in Bases' : b.max <= commit_sequence
  BY FoldWriteBaseFiles
<1>4. /\ nb.kind = "B" /\ nb.max = commit_sequence /\ nb.min = commit_sequence
      /\ nb.frames = Compacted(mem, commit_sequence)
  OBVIOUS
<1>5. /\ \A k \in Keys : Kept(mem[k]) =>
            \E f \in BaseFrames' : f.key = k /\ CellOf(f) = mem[k]
      /\ \A f \in BaseFrames' :
            /\ f.key \in Keys /\ CellOf(f) = mem[f.key] /\ Kept(mem[f.key])
            /\ f.seq = commit_sequence /\ f.st = mem[f.key].st
            /\ f.st \in {"live", "dead"}
      /\ \A f, g \in BaseFrames' : f.key = g.key => f = g
  BY <1>1, <1>3, CompactedCells
<1> HIDE DEF nb
<1>6. FileInv'
  <2>1. (\A b \in Bases :
          /\ b.min = b.max
          /\ \A f \in b.frames : f.seq = b.max /\ f.st # "closed"
          /\ \A f, g \in b.frames : f.key = g.key => f = g)'
    <3> SUFFICES ASSUME NEW b \in Bases'
                 PROVE  /\ b.min = b.max
                        /\ \A f \in b.frames : f.seq = b.max /\ f.st # "closed"
                        /\ \A f, g \in b.frames : f.key = g.key => f = g
      OBVIOUS
    <3>1. CASE b = nb
      <4>1. \A f \in BaseFrames' : f.seq = commit_sequence /\ f.st # "closed"
        BY <1>5
      <4> QED
        BY <1>3, <1>4, <1>5, <3>1, <4>1
    <3>2. CASE b \in Bases
      BY <1>1, <3>2 DEF FileInv
    <3> QED
      BY <1>3, <3>1, <3>2
  <2>2. (\A b, c \in Bases : b.max = c.max => b = c)'
    BY <1>1, <1>3, <1>4 DEF FileInv
  <2>3. BaseFrames' = Compacted(mem, commit_sequence)'
    BY <1>2, <1>3 DEF Compacted, Kept
  <2> QED
    BY <1>1, <1>2, <1>3, <2>1, <2>2, <2>3 DEF FileInv
<1>7. UnsureInv' /\ ReplayInv'
  BY <1>1, <1>2, <1>3 DEF UnsureInv, ReplayInv, Calling, Appending, Acked
<1>8. OrderInv'
  <2>1. (\A b \in Bases : \A g \in b.frames, f \in History :
          f.key = g.key /\ f.seq <= b.max => Newer(CellOf(g), f))'
    <3> SUFFICES ASSUME NEW b \in Bases', NEW g \in b.frames, NEW f \in History,
                        f.key = g.key, f.seq <= b.max
                 PROVE  Newer(CellOf(g), f)
      BY <1>3 DEF Newer
    <3>1. CASE b = nb
      <4>1. CellOf(g) = mem[f.key] /\ mem[f.key].st \in {"live", "dead"}
        BY <1>3, <1>4, <1>5, <3>1
      <4> QED
        BY <1>1, <1>3, <4>1 DEF OrderInv
    <3>2. CASE b \in Bases
      BY <1>1, <3>2 DEF OrderInv
    <3> QED
      BY <1>3, <3>1, <3>2
  <2> QED
    BY <1>1, <1>2, <1>3, <2>1 DEF OrderInv, Newer
<1>9. ASSUME NEW k \in Keys
      PROVE  WantInv(k)' /\ MemInv(k)' /\ WasInv(k)' /\ SnapInv(k)'
  <2>1. MemInv(k) /\ SnapInv(k)
    BY <1>1 DEF RecordInv
  <2>2. /\ Kept(mem[k])' => Kept(mem[k])
        /\ Kept(want[k])' => Kept(want[k])
        /\ Kept(snap.cells[k])' => Kept(snap.cells[k])
        /\ ~Kept(Absent) /\ \A c : Kept(c)' => Kept(c)
    BY <1>2 DEF Kept, Absent
  <2>3. \A c : (\E f \in BaseFrames' : f.key = k /\ c = CellOf(f)) => Outcome(k, c)'
    BY <1>3 DEF Outcome
  <2>4. PICK m : m = mem[k] /\ m = mem'[k]
    BY <1>2
  <2>5. Kept(m) => Outcome(k, m)'
    BY <1>5, <2>3, <2>4
  <2>6. ASSUME NEW c \in Cell, Outcome(k, c)', Kept(c)' PROVE m = c
    <3>1. c # Absent
      BY <2>2, <2>6
    <3>2. PICK f \in BaseFrames' : f.key = k /\ c = CellOf(f)
      BY <1>3, <2>6, <3>1 DEF Outcome
    <3> QED
      BY <1>5, <2>4, <3>2
  <2>7. /\ m = want'[k] => (Outcome(k, m)' => Outcome(k, want[k])')
        /\ Outcome(k, m)' => Outcome(k, mem[k])'
        /\ m = snap'.cells[k] => (Outcome(k, m)' => Outcome(k, snap.cells[k])')
    BY <2>4 DEF Outcome
  <2>8. Kept(want[k])' => m = want[k] /\ m = want'[k] /\ Kept(m)
    BY <1>2, <1>3, <2>1, <2>2, <2>4 DEF MemInv
  <2>9. WantInv(k)'
    BY <2>5, <2>7, <2>8 DEF WantInv
  <2>10. MemInv(k)'
    BY <2>2, <2>4, <2>5, <2>6, <2>7, <2>8 DEF MemInv
  <2>11. WasInv(k)'
    BY <1>2, <1>3 DEF WasInv
  <2>12. SnapInv(k)'
    <3>1. snap.frontier = commit_sequence /\ snap.st = "valid" =>
            mem[k] = snap.cells[k] \/ (mem[k] = Absent /\ Expired(snap.cells[k]))
      BY <1>3, <2>1 DEF SnapInv
    <3>2. ASSUME Usable(k)' PROVE snap.frontier = commit_sequence /\ snap.st = "valid"
      <4>1. snap.st = "valid" /\ commit_sequence <= snap.frontier
        BY <1>2, <1>3, <1>4, <3>2 DEF Usable
      <4>2. snap.frontier <= commit_sequence
        BY <1>1, <1>3, <4>1 DEF SeqInv, ReachInv, Running
      <4> QED
        BY <1>1, <4>1, <4>2, DiskTypes
    <3>3. Expired(snap.cells[k]) => ~Kept(snap.cells[k]) /\ Expired(snap.cells[k])'
      <4>1. snap.cells[k].clock \in Nat /\ aged \in Nat
        BY <1>1 DEF TypeInv, TypeOK, Snapshot, Cell, Clocks
      <4> QED
        BY <1>2, <4>1 DEF Expired, Kept
    <3>4. ASSUME Usable(k)'
          PROVE  /\ \A c \in Cell : Outcome(k, c)' /\ Kept(c)' => snap'.cells[k] = c
                 /\ Kept(snap.cells[k])' => Outcome(k, snap.cells[k])'
      <4>1. mem[k] = snap.cells[k] \/ (mem[k] = Absent /\ ~Kept(snap.cells[k]))
        BY <3>1, <3>2, <3>3, <3>4
      <4>2. \A c \in Cell : Outcome(k, c)' /\ Kept(c)' => snap'.cells[k] = c
        BY <1>2, <2>2, <2>4, <2>6, <4>1
      <4>3. Kept(snap.cells[k])' => m = snap'.cells[k] /\ Kept(m)
        BY <1>2, <2>2, <2>4, <4>1
      <4> QED
        BY <2>5, <2>7, <4>2, <4>3
    <3> QED
      BY <1>2, <1>3, <3>1, <3>3, <3>4 DEF SnapInv
  <2> QED
    BY <2>9, <2>10, <2>11, <2>12
<1> QED
  BY <1>6, <1>7, <1>8, <1>9 DEF RecordInv

\* The snapshot is what memory holds, and no event is under way.
LEMMA SnapshotPublishRecovery ==
    ASSUME RecoveryInv, SnapshotPublish
    PROVE  FileInv' /\ UnsureInv' /\ OrderInv' /\ RecordInv' /\ ReplayInv'
<1>1. TypeInv /\ FileInv /\ UnsureInv /\ OrderInv /\ RecordInv /\ phase = "ready"
  BY DEF RecoveryInv, BeforeInv, TypeInv, CallInv, SnapshotPublish
<1>2. UNCHANGED << segs, active, phase, recovery_required, mem,
                   commit_sequence, wpc, cur, aged, was, want, unsure >>
      /\ pc' = "idle" /\ pc = "publish"
      /\ snap'.cells = mem
  BY DEF SnapshotPublish, session
<1>3. unsure = {} /\ ~Folding
  BY <1>1, <1>2 DEF UnsureInv, Calling, Appending, Acked, TypeInv, CallInv
<1>4. /\ Bases' = Bases /\ Sealed' = Sealed /\ History' = History
      /\ Recent' = Recent /\ BaseFrames' = BaseFrames
      /\ \A f : Covered(f)' <=> Covered(f)
      /\ \A k, c : Leftover(k, c)' <=> Leftover(k, c)
      /\ \A k, c : Outcome(k, c)' <=> Outcome(k, c)
  BY <1>2, SameFiles
<1>5. FileInv' /\ UnsureInv' /\ ReplayInv'
  BY <1>1, <1>2, <1>3, <1>4 DEF FileInv, Folding, UnsureInv, ReplayInv, Calling, Appending,
     Acked
<1>6. OrderInv'
  BY <1>1, <1>2, <1>3, <1>4 DEF OrderInv, Newer
<1>7. ASSUME NEW k \in Keys
      PROVE  WantInv(k)' /\ MemInv(k)' /\ WasInv(k)' /\ SnapInv(k)'
  <2>1. WantInv(k) /\ MemInv(k) /\ ~Hanging(k)
    BY <1>1, <1>3 DEF RecordInv, Hanging
  <2>2. PICK m, w : m = mem[k] /\ m = mem'[k] /\ m = snap'.cells[k]
                    /\ w = want[k] /\ w = want'[k]
    BY <1>2
  <2>3. /\ Outcome(k, m)' => Outcome(k, mem[k])' /\ Outcome(k, snap.cells[k])'
        /\ Leftover(k, m)' => Leftover(k, mem[k])' /\ Leftover(k, snap.cells[k])'
        /\ Kept(mem[k])' => Kept(m)
        /\ Kept(snap.cells[k])' => Kept(m)
        /\ Outcome(k, w)' => Outcome(k, want[k])'
        /\ Kept(want[k])' => Kept(w)
        /\ \A c : Kept(c)' => Kept(c)
    BY <1>2, <2>2 DEF Outcome, Leftover, Kept
  <2>4. /\ Kept(w) => m = w /\ Outcome(k, w)
        /\ \A c \in Cell : Outcome(k, c) /\ Kept(c) => m = c
        /\ Kept(m) => Outcome(k, m) \/ Leftover(k, m)
    BY <1>1, <2>1, <2>2 DEF WantInv, MemInv
  <2>5. WantInv(k)' /\ MemInv(k)'
    BY <1>4, <2>2, <2>3, <2>4 DEF WantInv, MemInv
  <2>6. WasInv(k)'
    BY <1>1, <1>2 DEF WasInv
  <2>7. SnapInv(k)'
    BY <1>4, <2>2, <2>3, <2>4 DEF SnapInv
  <2> QED
    BY <2>5, <2>6, <2>7
<1> QED
  BY <1>5, <1>6, <1>7 DEF RecordInv

----------------------------------------------------------------------------
(* Recovery.                                                               *)

\* An open trims frames that the base covers, and no others: under schema 6 a file
\* without a header is refused, not emptied.
LEMMA OpenRecovery ==
    ASSUME Schema = 6, "overlap_io" \notin Faults, RecoveryInv,
           OpenWithSnapshot \/ OpenWithoutSnapshot
    PROVE  FileInv' /\ UnsureInv' /\ OrderInv' /\ RecordInv' /\ ReplayInv'
<1>1. TypeInv /\ SeqInv /\ FileInv /\ UnsureInv /\ OrderInv /\ RecordInv
      /\ aged \in Nat /\ aged <= aged
  BY DEF RecoveryInv, BeforeInv, TypeInv, TypeOK, Clocks
<1>2. PICK h \in Seqs, m \in Seqs :
         /\ OpenJournal(h, m)
         /\ \/ /\ snap.st = "valid" /\ h <= snap.frontier
               /\ cursor' = snap.frontier /\ mem' = snap.cells
            \/ /\ snap.st # "valid" \/ h > snap.frontier \/ snap.frontier < m
               /\ cursor' = -1 /\ mem' = NoCells
  BY DEF OpenWithSnapshot, OpenWithoutSnapshot
<1>3. /\ phase = "down" /\ phase' = "replay"
      /\ UNCHANGED << segs, snap, recovery_required, done, pc, wpc, cur, aged, was, want,
                      unsure >>
      /\ commit_sequence' = m
      /\ ~Unreadable /\ ~Misplaced /\ IsHorizon(h)
  BY <1>2 DEF OpenJournal, PreflightFails
<1>4. active'.frames = {f \in active.frames : f.seq > h} /\ IsMaxSeq(m, active'.frames)
  <2>1. PICK fs \in Trimmed(h) :
          IsMaxSeq(m, fs) /\ active' = [hdr |-> "ok", frames |-> fs, torn |-> FALSE]
    BY <1>2 DEF OpenJournal
  <2>2. Trimmed(h) = { {f \in active.frames : f.seq > h} }
    BY DEF Trimmed
  <2> QED
    BY <2>1, <2>2
<1>5. pc = "idle" /\ wpc = "idle" /\ done = {} /\ ~recovery_required
  BY <1>1, <1>3 DEF TypeInv, CallInv
<1>6. /\ h \in Nat /\ m \in Nat /\ snap.frontier \in Nat
      /\ \A b \in Bases : b.max \in Nat /\ b.max <= h
      /\ \A f \in History : f.seq \in Nat
  BY <1>1, <1>3, DiskTypes DEF IsHorizon, Bases, Seqs
<1>7. \E b \in Bases : h <= b.max
  <2>1. CASE h = 0
    BY <1>1, <1>6, <2>1 DEF SeqInv, SegmentInv, Bases
  <2>2. CASE h # 0
    BY <1>3, <1>6, <2>2 DEF IsHorizon, Bases
  <2> QED
    BY <2>1, <2>2
<1>8. \A f \in History : f.seq <= h <=> Covered(f)
  BY <1>6, <1>7 DEF Covered
<1>9. Bases' = Bases
  BY <1>3 DEF Bases
<1>10. Sealed' = Sealed /\ BaseFrames' = BaseFrames /\ \A f : Covered(f)' <=> Covered(f)
  BY <1>3, <1>9 DEF Sealed, BaseFrames, Newest, Covered
<1>11. History' \subseteq History
  BY <1>4, <1>10 DEF History
<1>12. Recent' = Recent
  <2>1. ASSUME NEW f \in Recent PROVE f \in Recent'
    <3>1. f \in History /\ ~Covered(f) /\ f.seq > h
      BY <1>6, <1>8 DEF Recent
    <3> QED
      BY <1>4, <1>10, <3>1 DEF History, Recent
  <2> QED
    BY <1>10, <1>11, <2>1 DEF Recent
<1>13. \A k, c : Leftover(k, c) => Leftover(k, c)'
  BY <1>10 DEF Leftover
<1>14. Calm
  <2>1. \A b \in Bases : b.max <= b.max
    BY <1>6
  <2> QED
    BY <1>1, <1>3, <1>9, <1>10, <1>11, <1>12, <1>13, <2>1 DEF Calm
<1>15. OrderInv' /\ RecordInv'
  BY <1>1, <1>14, CalmOrder, CalmRecords
<1>16. FileInv'
  <2>1. (\A s \in segs \ Bases, f \in active.frames :
          f.seq = s.min => s.frames \subseteq active.frames)'
    <3> SUFFICES ASSUME NEW s \in segs \ Bases, NEW f \in active.frames, f.seq > h,
                        f.seq = s.min, NEW g \in s.frames
                 PROVE  g \in active.frames /\ g.seq > h
      BY <1>3, <1>4, <1>9
    <3>1. g \in active.frames /\ s.min <= g.seq
      BY <1>1 DEF FileInv
    <3>2. g.seq \in Nat /\ f.seq \in Nat
      BY <1>6, <3>1 DEF History
    <3> QED
      BY <1>6, <3>1, <3>2
  <2>2. ~Folding' /\ wpc' = "idle"
    BY <1>3, <1>5 DEF Folding
  <2> QED
    BY <1>1, <1>3, <1>9, <1>11, <2>1, <2>2 DEF FileInv
<1>17. UnsureInv'
  BY <1>3, <1>5 DEF UnsureInv, Calling, Appending, Acked
<1>18. ReplayInv'
  <2>1. ~Misplaced'
    BY <1>3, <1>4 DEF Misplaced
  <2>2. cursor' # -1 => /\ snap'.st = "valid" /\ cursor' = snap'.frontier
                        /\ \A b \in Bases' : b.max <= cursor'
    BY <1>2, <1>3, <1>6, <1>9
  <2>3. cursor' = -1 /\ snap'.st = "valid" => snap'.frontier < commit_sequence'
    <3> SUFFICES ASSUME cursor' = -1, snap.st = "valid" PROVE snap.frontier < m
      BY <1>3
    <3>1. h > snap.frontier \/ snap.frontier < m
      BY <1>2, <1>6
    <3>2. h <= m
      BY <1>4, <1>6, <1>7, <1>3 DEF IsMaxSeq, Bases
    <3> QED
      BY <1>6, <3>1, <3>2
  <2>4. \A k \in Keys : mem'[k] = Start(k)'
    BY <1>2, <1>3, <1>6 DEF Start, NoCells
  <2>5. done' = {} /\ ~recovery_required'
    BY <1>3, <1>5
  <2> QED
    BY <2>1, <2>2, <2>3, <2>4, <2>5 DEF ReplayInv
<1> QED
  BY <1>15, <1>16, <1>17, <1>18

\* Where the frame of an item is: in a segment, or in the active file behind every
\* base.
LEMMA ItemPlace ==
    ASSUME RecoveryInv, phase = "replay", NEW x \in Items
    PROVE  /\ x.f.seq \in Nat /\ x.f.clock \in Nat /\ x.f.key \in Keys /\ x.f.seq > cursor
           /\ \/ \E s \in segs :
                    /\ x.f \in s.frames /\ x.f.seq <= s.max /\ s.min <= x.f.seq
                    /\ x.min = s.min /\ x.max = s.max /\ x.base = (s.kind = "B")
              \/ /\ x.f \in active.frames /\ x.min = MaxSeq + 1 /\ x.max = MaxSeq + 1
                 /\ x.base = FALSE /\ ~Covered(x.f)
                 /\ \A b \in Bases : b.max < x.f.seq
<1>1. TypeInv /\ SeqInv /\ FileInv /\ x.f \in Frame
  BY ItemType DEF RecoveryInv, BeforeInv
<1>2. x.f.seq \in Nat /\ x.f.clock \in Nat /\ x.f.key \in Keys
  BY <1>1 DEF Frame, Seqs, Clocks
<1>3. CASE x \in SegmentItems
  <2>1. PICK s \in segs : \E f \in s.frames : f.seq > cursor /\
           x = [min |-> s.min, max |-> s.max, base |-> s.kind = "B", f |-> f]
    BY <1>3 DEF SegmentItems
  <2>2. /\ x.f \in s.frames /\ x.f.seq > cursor
        /\ x.min = s.min /\ x.max = s.max /\ x.base = (s.kind = "B")
    BY <2>1
  <2>3. x.f.seq <= s.max
    BY <1>1, <2>2 DEF SeqInv, SegmentInv
  <2>4. s.min <= x.f.seq
    <3>1. CASE s \in Bases
      <4>1. s.min = s.max /\ x.f.seq = s.max
        BY <1>1, <2>2, <3>1 DEF FileInv
      <4> QED
        BY <1>2, <4>1
    <3>2. CASE s \notin Bases
      BY <1>1, <2>2, <3>2 DEF FileInv
    <3> QED
      BY <3>1, <3>2
  <2> QED
    BY <1>2, <2>2, <2>3, <2>4
<1>4. CASE x \in ActiveItems
  <2>1. PICK f \in active.frames :
           /\ f.seq > cursor /\ \A s \in segs : s.kind = "B" => f.seq > s.max
           /\ x = [min |-> MaxSeq + 1, max |-> MaxSeq + 1, base |-> FALSE, f |-> f]
    BY <1>4 DEF ActiveItems
  <2>2. /\ x.f = f /\ x.min = MaxSeq + 1 /\ x.max = MaxSeq + 1 /\ x.base = FALSE
    BY <2>1
  <2>3. \A b \in Bases : b.max < x.f.seq
    BY <1>1, <1>2, <2>1, <2>2, DiskTypes DEF Bases
  <2>4. ~Covered(x.f)
    BY <1>1, <1>2, <2>3, DiskTypes DEF Covered
  <2> QED
    BY <1>2, <2>1, <2>2, <2>3, <2>4
<1> QED
  BY <1>3, <1>4 DEF Items

\* Every frame above the cursor is an item: those of segments, and those of the
\* active file, which is trimmed.
LEMMA FrameIsItem ==
    ASSUME RecoveryInv, phase = "replay", NEW f \in History \cup BaseFrames, f.seq > cursor
    PROVE  \E x \in Items : x.f = f
<1>1. TypeInv /\ ReplayClockInv
  BY DEF RecoveryInv, BeforeInv, ClockInv
<1>2. CASE f \in active.frames
  <2>1. \A s \in segs : s.kind = "B" => f.seq > s.max
    BY <1>1, <1>2, NumbersAre DEF ReplayClockInv, Numbers, AllFrames
  <2> DEFINE x == [min |-> MaxSeq + 1, max |-> MaxSeq + 1, base |-> FALSE, f |-> f]
  <2>2. x \in ActiveItems /\ x.f = f
    BY <1>2, <2>1 DEF ActiveItems
  <2> QED
    BY <2>2 DEF Items
<1>3. ASSUME NEW s \in segs, f \in s.frames PROVE \E x \in Items : x.f = f
  <2> DEFINE x == [min |-> s.min, max |-> s.max, base |-> s.kind = "B", f |-> f]
  <2>1. x \in SegmentItems /\ x.f = f
    BY <1>3 DEF SegmentItems
  <2> QED
    BY <2>1 DEF Items
<1> QED
  BY <1>2, <1>3 DEF History, Sealed, BaseFrames, Bases

\* Frames are read in the order of their sequence numbers, whatever file they are in:
\* this is what the preflight's test of the files' order is for.
LEMMA ItemOrder ==
    ASSUME RecoveryInv, phase = "replay", NEW x \in Items, NEW y \in Items,
           y.f.seq < x.f.seq
    PROVE  Precedes(y, x)
<1>1. TypeInv /\ SeqInv /\ ~Misplaced /\ x.f.seq \in Nat /\ y.f.seq \in Nat
  BY ItemPlace DEF RecoveryInv, BeforeInv, ReplayInv
<1>2. \A s \in segs : s.min \in Nat /\ s.max \in Nat /\ s.max <= MaxSeq /\ s.min <= s.max
  BY <1>1 DEF TypeInv, TypeOK, Segment, Seqs, SeqInv, SegmentInv
<1>3. MaxSeq \in Nat
  BY ConstantsAssumption
<1>4. CASE y.min = MaxSeq + 1 /\ y.f \in active.frames /\ \A b \in Bases : b.max < y.f.seq
  <2>1. ASSUME NEW s \in segs, x.f.seq <= s.max PROVE FALSE
    <3>1. y.f.seq <= s.max
      BY <1>1, <1>2, <2>1
    <3>2. \A b \in segs : b.kind = "B" => y.f.seq > b.max
      BY <1>1, <1>2, <1>4 DEF Bases
    <3> QED
      BY <1>1, <1>4, <3>1, <3>2 DEF Misplaced
  <2>2. x.min = MaxSeq + 1 /\ x.max = MaxSeq + 1 /\ x.base = FALSE
    BY <2>1, ItemPlace
  <2>3. y.max = MaxSeq + 1 /\ y.base = FALSE
    <3>1. \A s \in segs : s.min # MaxSeq + 1
      BY <1>2, <1>3
    <3>2. ~ \E s \in segs : y.min = s.min
      BY <1>4, <3>1
    <3> QED
      BY <3>2, ItemPlace, Zenon
  <2> QED
    BY <1>4, <2>2, <2>3 DEF Precedes
<1>5. ASSUME NEW s \in segs, y.f \in s.frames, y.f.seq <= s.max, s.min <= y.f.seq,
             y.min = s.min, y.max = s.max, y.base = (s.kind = "B")
      PROVE  Precedes(y, x)
  <2>1. CASE x.min = MaxSeq + 1
    BY <1>2, <1>3, <1>5, <2>1 DEF Precedes
  <2>2. ASSUME NEW t \in segs, x.f \in t.frames, x.f.seq <= t.max,
               x.min = t.min, x.max = t.max, x.base = (t.kind = "B")
        PROVE  Precedes(y, x)
    <3>1. CASE s = t
      BY <1>5, <2>2, <3>1 DEF Precedes
    <3>2. CASE s # t
      <4>1. ~(t.min <= s.min /\ s.min <= t.max)
        BY <1>1, <3>2 DEF Misplaced
      <4>2. s.min <= t.max
        BY <1>1, <1>2, <1>5, <2>2
      <4>3. s.min < t.min
        BY <1>2, <4>1, <4>2
      <4> QED
        BY <1>5, <2>2, <4>3 DEF Precedes
    <3> QED
      BY <3>1, <3>2
  <2> QED
    BY <2>1, <2>2, ItemPlace
<1> QED
  BY <1>4, <1>5, ItemPlace

\* There is one base, and it is the newest.
LEMMA OneBase ==
    ASSUME RecoveryInv, phase = "replay"
    PROVE  \E b \in Bases : Bases = {b} /\ Newest(b) /\ BaseFrames = b.frames
<1>1. TypeInv /\ SeqInv /\ ~Misplaced
  BY DEF RecoveryInv, BeforeInv, ReplayInv
<1>2. PICK b \in Bases : TRUE
  BY <1>1 DEF SeqInv, SegmentInv, Bases
<1>3. Bases = {b}
  BY <1>1 DEF Misplaced, Bases
<1>4. b.max <= b.max
  BY <1>1, DiskTypes
<1> QED
  BY <1>3, <1>4 DEF Newest, BaseFrames

\* A frame of the journal replaces what is in memory; a base frame passes the LWW
\* test, which only ever meets older records.
LEMMA ReplayedCell ==
    ASSUME Schema = 6, RecoveryInv, phase = "replay", NEW x \in Items \ done,
           \A y \in done : y.f.key = x.f.key => y.f.seq <= x.f.seq
    PROVE  Replayed(x, mem[x.f.key]) = CellOf(x.f)
<1>1. TypeInv /\ FileInv /\ OrderInv /\ ReplayInv
  BY DEF RecoveryInv, BeforeInv
<1>2. x.f.key \in Keys /\ x.f.seq \in Nat /\ x.f.clock \in Nat /\ x.f.seq > cursor
  BY ItemPlace
<1>3. PICK b \in Bases : Bases = {b} /\ Newest(b) /\ BaseFrames = b.frames
  BY OneBase
<1>4. CASE x.base = FALSE
  <2>1. ~(x.base \/ Schema = 5)
    BY <1>4
  <2> QED
    BY <2>1, Zenon DEF Replayed
<1>5. CASE x.base = TRUE
  <2>1. x.f \in b.frames /\ x.f.seq = b.max
    <3>1. PICK s \in segs : x.f \in s.frames /\ x.base = (s.kind = "B")
      BY <1>5, ItemPlace
    <3>2. s = b
      BY <1>3, <1>5, <3>1 DEF Bases
    <3> QED
      BY <1>1, <3>1, <3>2 DEF FileInv
  <2>2. cursor = -1
    BY <1>1, <1>2, <2>1, DiskTypes DEF ReplayInv
  <2>3. CASE mem[x.f.key] = Absent
    BY <2>3 DEF Replayed, Older, Absent
  <2>4. ASSUME NEW y \in done, y.f.key = x.f.key, mem[x.f.key] = CellOf(y.f)
        PROVE  Replayed(x, mem[x.f.key]) = CellOf(x.f)
    <3>1. y \in Items /\ y.f.seq <= x.f.seq
      BY <1>1, <2>4 DEF ReplayInv
    <3>2. y.f.seq \in Nat /\ y.f.clock \in Nat
      BY <3>1, ItemPlace
    <3>3. CASE y.f \in b.frames
      <4>1. y.f = x.f
        BY <1>1, <2>1, <2>4, <3>3 DEF FileInv
      <4> QED
        BY <2>4, <4>1 DEF Replayed
    <3>4. CASE y.f \in History
      <4>1. Newer(CellOf(x.f), y.f)
        BY <1>1, <2>1, <2>4, <3>1, <3>4 DEF OrderInv
      <4>2. CellOf(y.f) = CellOf(x.f) \/ y.f.clock < x.f.clock
        BY <4>1 DEF Newer, CellOf
      <4>3. CASE y.f.clock < x.f.clock
        <5>1. mem[x.f.key].clock = y.f.clock
          BY <2>4 DEF CellOf
        <5>2. ~Older(x.f, mem[x.f.key])
          BY <1>2, <3>2, <4>3, <5>1 DEF Older
        <5> QED
          BY <5>2 DEF Replayed
      <4>4. CASE CellOf(y.f) = CellOf(x.f)
        BY <2>4, <4>4 DEF Replayed
      <4> QED
        BY <4>2, <4>3, <4>4
    <3>5. y.f \in b.frames \/ y.f \in History
      BY <1>3, <3>1, ItemPlace DEF History, Sealed
    <3> QED
      BY <3>3, <3>4, <3>5
  <2> QED
    BY <1>1, <1>2, <2>2, <2>3, <2>4 DEF ReplayInv, Start
<1>6. x.base \in BOOLEAN
  BY <1>1, ItemType DEF Item
<1> QED
  BY <1>4, <1>5, <1>6

LEMMA ReplayFrameRecovery ==
    ASSUME Schema = 6, RecoveryInv, NEW x \in Items, ReplayFrame(x)
    PROVE  FileInv' /\ UnsureInv' /\ OrderInv' /\ RecordInv' /\ ReplayInv'
<1>1. TypeInv /\ FileInv /\ OrderInv /\ RecordInv /\ ReplayInv
      /\ aged \in Nat /\ aged <= aged
  BY DEF RecoveryInv, BeforeInv, TypeInv, TypeOK, Clocks
<1>2. /\ phase = "replay" /\ phase' = "replay" /\ x \notin done
      /\ UNCHANGED << segs, active, snap, recovery_required, cursor, commit_sequence, pc,
                      wpc, cur, aged, was, want, unsure >>
      /\ done' = done \cup {x}
      /\ mem' = [mem EXCEPT ![x.f.key] = Replayed(x, mem[x.f.key])]
      /\ \A y \in Items \ done : ~Precedes(y, x)
  BY DEF ReplayFrame, disk
<1>3. pc = "idle" /\ wpc = "idle"
  BY <1>1, <1>2 DEF TypeInv, CallInv
<1>4. /\ Bases' = Bases /\ Sealed' = Sealed /\ History' = History
      /\ Recent' = Recent /\ BaseFrames' = BaseFrames
      /\ \A f : Covered(f)' <=> Covered(f)
      /\ \A k, c : Leftover(k, c)' <=> Leftover(k, c)
  BY <1>2, SameFiles
<1>5. Calm
  <2>1. \A b \in Bases : b.max <= b.max
    BY <1>1, DiskTypes
  <2> QED
    BY <1>1, <1>2, <1>4, <2>1 DEF Calm
<1>6. OrderInv' /\ RecordInv'
  BY <1>1, <1>5, CalmOrder, CalmRecords
<1>7. FileInv' /\ UnsureInv'
  BY <1>1, <1>2, <1>3, <1>4 DEF FileInv, Folding, UnsureInv, Calling, Appending, Acked
<1>8. Items' = Items
  BY <1>2 DEF Items, SegmentItems, ActiveItems
<1>9. \A y \in Items : y.f.seq \in Nat
  BY <1>2, ItemPlace
<1>10. \A y \in Items : y.f.seq < x.f.seq => y \in done
  BY <1>2, ItemOrder
<1>11. \A y \in done : y.f.seq <= x.f.seq
  BY <1>1, <1>2, <1>9 DEF ReplayInv
<1>12. mem'[x.f.key] = CellOf(x.f) /\ \A k \in Keys : k # x.f.key => mem'[k] = mem[k]
  <2>1. Replayed(x, mem[x.f.key]) = CellOf(x.f)
    BY <1>2, <1>11, ReplayedCell
  <2> QED
    BY <1>1, <1>2, <2>1, ItemPlace DEF TypeInv, TypeOK
<1>13. ReplayInv'
  <2>1. ASSUME NEW k \in Keys
        PROVE  \/ (\A z \in done' : z.f.key # k) /\ mem'[k] = Start(k)'
               \/ \E z \in done' : /\ z.f.key = k /\ mem'[k] = CellOf(z.f)
                                   /\ \A y \in done' : y.f.key = k => y.f.seq <= z.f.seq
    <3>1. CASE k = x.f.key
      BY <1>2, <1>9, <1>11, <1>12, <3>1
    <3>2. CASE k # x.f.key
      <4>1. Start(k)' = Start(k) /\ mem'[k] = mem[k]
        BY <1>2, <1>12, <3>2 DEF Start
      <4> QED
        BY <1>1, <1>2, <3>2, <4>1 DEF ReplayInv
    <3> QED
      BY <3>1, <3>2
  <2>2. \A z \in done', y \in Items' : y.f.seq < z.f.seq => y \in done'
    BY <1>1, <1>2, <1>8, <1>10 DEF ReplayInv
  <2>3. ~Misplaced' /\ ~recovery_required' /\ done' \subseteq Items'
    BY <1>1, <1>2, <1>8 DEF ReplayInv, Misplaced
  <2>4. /\ cursor' # -1 => /\ snap'.st = "valid" /\ cursor' = snap'.frontier
                           /\ \A b \in Bases' : b.max <= cursor'
        /\ cursor' = -1 /\ snap'.st = "valid" => snap'.frontier < commit_sequence'
    BY <1>1, <1>2, <1>4 DEF ReplayInv
  <2> QED
    BY <2>1, <2>2, <2>3, <2>4 DEF ReplayInv
<1> QED
  BY <1>6, <1>7, <1>13

\* What a complete recovery found: the outcome of a record's last frame behind the
\* base; or, without a snapshot, its outcome or that of its last frame in a segment
\* that a fold should have removed; or, with one, what the snapshot says.
LEMMA RecoveredCell ==
    ASSUME RecoveryInv, Recovered, NEW k \in Keys
    PROVE  \/ /\ Outcome(k, mem[k])
              /\ cursor = -1 \/ \E f \in Recent : f.seq > cursor
           \/ /\ cursor = -1 /\ Outcome(k, Absent)
              /\ \E e \in Sealed : /\ Covered(e) /\ e.key = k /\ mem[k] = CellOf(e)
                                   /\ \A f \in History : f.key = k => f.seq <= e.seq
           \/ cursor # -1 /\ Usable(k) /\ mem[k] = snap.cells[k]
<1>1. TypeInv /\ FileInv /\ ReplayInv /\ phase = "replay" /\ done = Items
  BY DEF RecoveryInv, BeforeInv, Recovered, ReplayInv
<1>2. PICK b \in Bases : Bases = {b} /\ Newest(b) /\ BaseFrames = b.frames
  BY <1>1, OneBase
<1>3. /\ \A f \in History \cup BaseFrames : f.seq \in Nat
      /\ b.max \in Nat /\ cursor \in Int /\ -1 <= cursor
      /\ \A f \in b.frames : f.seq = b.max
      /\ \A f : Covered(f) <=> f.seq <= b.max
  BY <1>1, <1>2, DiskTypes DEF TypeInv, TypeOK, FileInv, Covered
<1>4. \A x \in Items : /\ x.f.seq \in Nat /\ x.f.seq > cursor
                       /\ \/ x.f \in b.frames
                          \/ x.f \in Sealed
                          \/ x.f \in active.frames /\ ~Covered(x.f)
  BY <1>1, <1>2, ItemPlace DEF Sealed
<1>5. \A f \in History \cup BaseFrames : f.seq > cursor => \E x \in Items : x.f = f
  BY <1>1, FrameIsItem
<1>6. \A x \in Items : x.f \in b.frames => x.f \notin History
  <2> SUFFICES ASSUME NEW f \in b.frames, f \in History PROVE FALSE
    OBVIOUS
  <2>1. f.seq = b.max /\ b.min = b.max /\ b \in segs
    BY <1>1, <1>3 DEF FileInv, Bases
  <2>2. CASE f \in active.frames
    <3>1. b.max < f.seq
      BY <1>1, <2>1, <2>2 DEF RecoveryInv, BeforeInv, ClockInv, ReplayClockInv, Bases
    <3> QED
      BY <1>3, <2>1, <3>1
  <2>3. ASSUME NEW s \in segs \ Bases, f \in s.frames PROVE FALSE
    <3>1. s.min <= b.min /\ b.min <= s.max /\ s # b
      BY <1>1, <2>1, <2>3 DEF FileInv, RecoveryInv, BeforeInv, SeqInv, SegmentInv
    <3> QED
      BY <1>1, <2>1, <3>1 DEF ReplayInv, Misplaced
  <2> QED
    BY <2>2, <2>3 DEF History, Sealed
<1>7. ASSUME NEW f \in Recent, f.key = k, f.seq > cursor
      PROVE  Outcome(k, mem[k])
  <2>1. f \in History /\ ~Covered(f)
    BY DEF Recent
  <2>2. PICK z \in Items : z.f = f
    BY <1>5, <1>7, <2>1
  <2>3. PICK x \in Items : /\ x.f.key = k /\ mem[k] = CellOf(x.f)
                           /\ \A y \in Items : y.f.key = k => y.f.seq <= x.f.seq
    BY <1>1, <1>7, <2>2 DEF ReplayInv
  <2>4. f.seq <= x.f.seq /\ ~(f.seq <= b.max)
    BY <1>3, <1>7, <2>1, <2>2, <2>3
  <2>5. ~(x.f.seq <= b.max)
    BY <1>3, <1>4, <2>1, <2>4
  <2>6. x.f \in Recent
    BY <1>3, <1>4, <2>5 DEF Recent, History
  <2>7. ASSUME NEW g \in Recent, g.key = k PROVE g.seq <= x.f.seq
    <3>1. g \in History /\ g.seq \in Nat
      BY <1>3 DEF Recent
    <3>2. CASE g.seq > cursor
      BY <1>5, <2>3, <2>7, <3>1, <3>2
    <3>3. CASE ~(g.seq > cursor)
      BY <1>3, <1>4, <3>1, <3>3
    <3> QED
      BY <3>2, <3>3
  <2> QED
    BY <2>3, <2>6, <2>7 DEF Outcome
<1>8. ASSUME \A f \in Recent : f.key = k => ~(f.seq > cursor), cursor = -1
      PROVE  \/ Outcome(k, mem[k])
             \/ /\ Outcome(k, Absent)
                /\ \E e \in Sealed : /\ Covered(e) /\ e.key = k /\ mem[k] = CellOf(e)
                                     /\ \A f \in History : f.key = k => f.seq <= e.seq
  <2>1. \A f \in Recent : f.key # k
    BY <1>3, <1>8 DEF Recent
  <2>2. ASSUME NEW f \in BaseFrames, f.key = k PROVE Outcome(k, mem[k])
    <3>1. PICK z \in Items : z.f = f
      BY <1>3, <1>5, <1>8
    <3>2. PICK x \in Items : /\ x.f.key = k /\ mem[k] = CellOf(x.f)
                             /\ \A y \in Items : y.f.key = k => y.f.seq <= x.f.seq
      BY <1>1, <2>2, <3>1 DEF ReplayInv
    <3>3. b.max <= x.f.seq
      BY <1>2, <1>3, <2>2, <3>1, <3>2
    <3>4. x.f \in b.frames
      <4> SUFFICES ASSUME x.f \in History PROVE FALSE
        BY <1>4 DEF History
      <4>1. Covered(x.f)
        BY <2>1, <3>2 DEF Recent
      <4>2. x.f.seq = b.max /\ x.f \in Sealed
        BY <1>3, <1>4, <1>6, <3>3, <4>1
      <4>3. PICK s \in segs \ Bases : x.f \in s.frames
        BY <4>2 DEF Sealed
      <4>4. s.min <= b.min /\ b.min <= s.max /\ s # b /\ b \in segs
        BY <1>1, <4>2, <4>3 DEF FileInv, RecoveryInv, BeforeInv, SeqInv, SegmentInv, Bases
      <4> QED
        BY <1>1, <4>4 DEF ReplayInv, Misplaced
    <3> QED
      BY <1>2, <2>1, <3>2, <3>4 DEF Outcome
  <2>3. ASSUME \A f \in BaseFrames : f.key # k
        PROVE  \/ Outcome(k, mem[k])
               \/ /\ Outcome(k, Absent)
                  /\ \E e \in Sealed : /\ Covered(e) /\ e.key = k /\ mem[k] = CellOf(e)
                                       /\ \A f \in History : f.key = k => f.seq <= e.seq
    <3>1. Outcome(k, Absent)
      BY <2>1, <2>3 DEF Outcome
    <3>2. CASE mem[k] = Absent
      BY <3>1, <3>2
    <3>3. ASSUME NEW x \in Items, x.f.key = k, mem[k] = CellOf(x.f),
                 \A y \in Items : y.f.key = k => y.f.seq <= x.f.seq
          PROVE  \E e \in Sealed : /\ Covered(e) /\ e.key = k /\ mem[k] = CellOf(e)
                                   /\ \A f \in History : f.key = k => f.seq <= e.seq
      <4>1. x.f \in History
        BY <1>2, <1>4, <2>3, <3>3 DEF History
      <4>2. Covered(x.f)
        BY <2>1, <3>3, <4>1 DEF Recent
      <4>3. x.f \in Sealed
        BY <1>2, <1>4, <2>3, <3>3, <4>2
      <4>4. \A f \in History : f.key = k => f.seq <= x.f.seq
        BY <1>3, <1>5, <1>8, <3>3
      <4> QED
        BY <3>3, <4>2, <4>3, <4>4
    <3> QED
      BY <1>1, <1>8, <3>1, <3>2, <3>3 DEF ReplayInv, Start
  <2> QED
    BY <2>2, <2>3
<1>9. ASSUME \A f \in Recent : f.key = k => ~(f.seq > cursor), cursor # -1
      PROVE  Usable(k) /\ mem[k] = snap.cells[k]
  <2>1. snap.st = "valid" /\ cursor = snap.frontier /\ b.max <= cursor
    BY <1>1, <1>9 DEF ReplayInv
  <2>2. Usable(k)
    BY <1>2, <1>3, <1>9, <2>1 DEF Usable, Recent
  <2>3. \A x \in Items : x.f.key # k
    <3> SUFFICES ASSUME NEW x \in Items, x.f.key = k PROVE FALSE
      OBVIOUS
    <3>1. x.f.seq > cursor /\ x.f.seq \in Nat
      BY <1>4
    <3>2. ~(x.f.seq <= b.max)
      BY <1>3, <2>1, <3>1
    <3>3. x.f \in Recent
      BY <1>3, <1>4, <3>1, <3>2 DEF Recent, History
    <3> QED
      BY <1>9, <3>1, <3>3
  <2> QED
    BY <1>1, <1>9, <2>2, <2>3 DEF ReplayInv, Start
<1> QED
  BY <1>7, <1>8, <1>9

\* A frame that hangs is what the disk says of its record, and a snapshot that is
\* usable for the record has not seen it.
LEMMA HangingOutcome ==
    ASSUME TypeInv, NEW k \in Keys, Hanging(k)
    PROVE  /\ \E w \in unsure : w.key = k /\ Outcome(k, CellOf(w)) /\ CellOf(w) # Absent
           /\ ~Usable(k)
<1>1. PICK f \in Recent :
        /\ f.key = k
        /\ \A g \in History : g.seq <= f.seq
        /\ \E w \in unsure : w.key = k /\ CellOf(w) = CellOf(f)
        /\ snap.st = "valid" => snap.frontier < f.seq
  BY DEF Hanging
<1>2. f.seq \in Nat /\ snap.frontier \in Nat /\ f.st \in States /\ Recent \subseteq History
  BY DiskTypes
<1>3. Outcome(k, CellOf(f))
  BY <1>1, <1>2 DEF Outcome
<1>4. CellOf(f) # Absent
  BY <1>2 DEF CellOf, Absent, States
<1> QED
  BY <1>1, <1>2, <1>3, <1>4 DEF Usable

\* A recovery gives a record whose outcome the disk knows that outcome.
LEMMA RecoveredOutcome ==
    ASSUME RecoveryInv, Recovered, NEW k \in Keys, NEW c \in Cell, Outcome(k, c),
           Kept(c) \/ Hanging(k)
    PROVE  mem[k] = c
<1>1. TypeInv /\ FileInv /\ RecordInv
  BY DEF RecoveryInv, BeforeInv
<1>2. c # Absent
  <2>1. CASE Hanging(k)
    BY <1>1, <2>1, HangingOutcome, OutcomeUnique
  <2>2. CASE Kept(c)
    BY <2>2 DEF Kept, Absent
  <2> QED
    BY <2>1, <2>2
<1>3. \/ Outcome(k, mem[k])
      \/ Outcome(k, Absent)
      \/ Usable(k) /\ mem[k] = snap.cells[k]
  BY RecoveredCell
<1>4. CASE Outcome(k, mem[k]) \/ Outcome(k, Absent)
  BY <1>1, <1>2, <1>4, OutcomeUnique
<1>5. CASE Usable(k) /\ mem[k] = snap.cells[k]
  BY <1>1, <1>5, HangingOutcome DEF RecordInv, SnapInv
<1> QED
  BY <1>3, <1>4, <1>5

\* A record that hangs is explained by the call whose event it is.
LEMMA HangingExplained ==
    ASSUME RecoveryInv, Recovered, NEW k \in Keys, Hanging(k)
    PROVE  Explained(k)
<1>1. TypeInv
  BY DEF RecoveryInv, BeforeInv
<1>2. PICK w \in unsure : w.key = k /\ Outcome(k, CellOf(w))
  BY <1>1, HangingOutcome
<1>3. CellOf(w) \in Cell
  BY <1>1 DEF TypeInv, TypeOK, Write, CellOf, Cell
<1>4. mem[k] = CellOf(w)
  BY <1>2, <1>3, RecoveredOutcome
<1> QED
  BY <1>2, <1>4 DEF Explained

\* Every confirmed record is recovered.
LEMMA RecoveredIsExplained == RecoveryInv => NoLostWrite
<1> SUFFICES ASSUME RecoveryInv, Recovered, NEW k \in Keys, Kept(want[k])
             PROVE  Explained(k)
  BY DEF NoLostWrite
<1>1. TypeInv /\ WantInv(k) /\ want[k] \in Cell
  BY CellTypes DEF RecoveryInv, BeforeInv, RecordInv
<1>2. CASE Outcome(k, want[k])
  BY <1>1, <1>2, RecoveredOutcome DEF Explained
<1>3. CASE Hanging(k)
  BY <1>3, HangingExplained
<1> QED
  BY <1>1, <1>2, <1>3 DEF WantInv

\* A kept record that a recovery found is the disk's outcome, or that of a frame a
\* fold should have removed.
LEMMA RecoveredKept ==
    ASSUME RecoveryInv, Recovered, NEW k \in Keys, Kept(mem[k])
    PROVE  Outcome(k, mem[k]) \/ Leftover(k, mem[k])
<1>1. SnapInv(k)
  BY DEF RecoveryInv, RecordInv
<1> QED
  BY <1>1, RecoveredCell DEF SnapInv, Leftover

\* Without stale segments there are no frames that a fold should have removed.
LEMMA LeftoverIsStale ==
    ASSUME RecoveryInv, NEW k, NEW c, Leftover(k, c)
    PROVE  \E s \in segs : Stale(s)
<1>1. TypeInv /\ FileInv
  BY DEF RecoveryInv, BeforeInv
<1>2. PICK f \in Sealed : Covered(f)
  BY DEF Leftover
<1>3. PICK s \in segs \ Bases : f \in s.frames
  BY DEF Sealed
<1>4. PICK b \in Bases : f.seq <= b.max
  BY <1>2 DEF Covered
<1>5. s.min <= f.seq
  BY <1>1, <1>3 DEF FileInv
<1>6. s.min \in Nat /\ f.seq \in Nat /\ b.max \in Nat
  BY <1>1, DiskTypes DEF TypeInv, TypeOK, Segment, Seqs
<1>7. s.min <= b.max
  BY <1>4, <1>5, <1>6
<1> QED
  BY <1>3, <1>4, <1>7 DEF Stale, Bases

\* No other record is.
LEMMA RecoveredIsKnown == RecoveryInv => NoResurrection
<1> SUFFICES ASSUME RecoveryInv, Recovered, ~(\E s \in segs : Stale(s)),
                    NEW k \in Keys, mem[k].st = "live"
             PROVE  mem[k] = was[k] \/ Explained(k)
  BY DEF NoResurrection
<1>1. TypeInv /\ WasInv(k) /\ mem[k] \in Cell /\ phase # "ready"
  BY CellTypes DEF RecoveryInv, BeforeInv, RecordInv, Recovered
<1>2. Outcome(k, mem[k])
  BY RecoveredKept, LeftoverIsStale DEF Kept
<1>3. was[k] = mem[k] \/ Hanging(k)
  BY <1>1, <1>2 DEF WasInv
<1> QED
  BY <1>3, HangingExplained

\* A record recovered from the disk is newer than every frame it replaces.
LEMMA RecoveredOrder ==
    ASSUME RecoveryInv, Recovered, NEW f \in History, mem[f.key].st \in {"live", "dead"}
    PROVE  Newer(mem[f.key], f)
<1> DEFINE k == f.key
<1>1. TypeInv /\ FileInv /\ OrderInv /\ ReplayInv /\ phase = "replay"
  BY DEF RecoveryInv, BeforeInv, Recovered
<1>2. PICK b \in Bases : Bases = {b} /\ Newest(b) /\ BaseFrames = b.frames
  BY <1>1, OneBase
<1>3. /\ k \in Keys /\ b.max \in Nat /\ snap.frontier \in Nat
      /\ \A g \in History : g.seq \in Nat
      /\ \A g : Covered(g) <=> g.seq <= b.max
      /\ Sealed \subseteq History /\ Recent \subseteq History
  BY <1>1, <1>2, DiskTypes DEF Covered
<1> HIDE DEF k
<1>4. ASSUME NEW e \in History, mem[k] = CellOf(e), f.seq <= e.seq
      PROVE  Newer(mem[k], f)
  <2>1. e.st # "closed" /\ CellOf(e).clock = e.clock
    BY <1>4 DEF CellOf, k
  <2>2. CASE f.seq < e.seq
    BY <1>1, <1>4, <2>1, <2>2 DEF OrderInv, Newer
  <2>3. CASE f.seq = e.seq
    BY <1>1, <1>4, <2>3 DEF FileInv, Newer
  <2> QED
    BY <1>3, <1>4, <2>2, <2>3
<1>5. CASE Outcome(k, mem[k])
  <2>1. ASSUME NEW e \in Recent, mem[k] = CellOf(e),
               \A g \in Recent : g.key = k => g.seq <= e.seq
        PROVE  Newer(mem[k], f)
    <3>1. f \in Recent => f.seq <= e.seq
      BY <2>1 DEF k
    <3>2. f \notin Recent => f.seq <= e.seq
      BY <1>3 DEF Recent
    <3>3. e \in History /\ f.seq <= e.seq
      BY <1>3, <3>1, <3>2
    <3> QED
      BY <1>4, <2>1, <3>3
  <2>2. ASSUME \A g \in Recent : g.key # k, NEW e \in BaseFrames, e.key = k,
               mem[k] = CellOf(e)
        PROVE  Newer(mem[k], f)
    <3>1. f.seq <= b.max
      BY <1>3, <2>2 DEF Recent, k
    <3> QED
      BY <1>1, <1>2, <2>2, <3>1 DEF OrderInv, k
  <2>3. mem[k] # Absent
    BY DEF Absent, k
  <2> QED
    BY <1>5, <2>1, <2>2, <2>3 DEF Outcome, k
<1>6. ASSUME NEW e \in Sealed, mem[k] = CellOf(e), \A g \in History : g.key = k => g.seq <= e.seq
      PROVE  Newer(mem[k], f)
  BY <1>3, <1>4, <1>6 DEF k
<1>7. CASE cursor # -1 /\ Usable(k) /\ mem[k] = snap.cells[k]
  <2>1. snap.st = "valid" /\ b.max <= snap.frontier
    BY <1>7 DEF Usable
  <2>2. f.seq <= snap.frontier
    <3>1. CASE f \in Recent
      BY <1>7, <3>1 DEF Usable, k
    <3>2. CASE f \notin Recent
      BY <1>3, <2>1, <3>2 DEF Recent
    <3> QED
      BY <3>1, <3>2
  <2> QED
    BY <1>1, <1>7, <2>1, <2>2 DEF OrderInv, k
<1>8. Newer(mem[k], f)
  <2>1. \/ Outcome(k, mem[k])
        \/ \E e \in Sealed : /\ mem[k] = CellOf(e)
                             /\ \A g \in History : g.key = k => g.seq <= e.seq
        \/ cursor # -1 /\ Usable(k) /\ mem[k] = snap.cells[k]
    BY <1>3, RecoveredCell
  <2> QED
    BY <1>5, <1>6, <1>7, <2>1 DEF k
<1> QED
  BY <1>8 DEF k

LEMMA OpenDoneRecovery ==
    ASSUME RecoveryInv, OpenDone
    PROVE  FileInv' /\ UnsureInv' /\ OrderInv' /\ RecordInv' /\ ReplayInv'
<1>1. TypeInv /\ SeqInv /\ FileInv /\ OrderInv /\ RecordInv /\ ReplayInv
  BY DEF RecoveryInv, BeforeInv
<1>2. /\ Recovered /\ phase = "replay" /\ phase' = "ready" /\ unsure' = {}
      /\ want' = [k \in Keys |-> IF Explained(k) THEN mem[k] ELSE want[k]]
      /\ UNCHANGED << segs, active, snap, mem, commit_sequence, recovery_required, pc, wpc,
                      cur, aged, was >>
  BY DEF OpenDone, Recovered, disk
<1>3. pc = "idle" /\ wpc = "idle" /\ ~recovery_required
  BY <1>1, <1>2 DEF TypeInv, CallInv
<1>4. /\ Bases' = Bases /\ Sealed' = Sealed /\ History' = History
      /\ Recent' = Recent /\ BaseFrames' = BaseFrames
      /\ \A f : Covered(f)' <=> Covered(f)
      /\ \A k, c : Leftover(k, c)' <=> Leftover(k, c)
      /\ \A k, c : Outcome(k, c)' <=> Outcome(k, c)
  BY <1>2, SameFiles
<1>5. FileInv' /\ UnsureInv' /\ ReplayInv'
  BY <1>1, <1>2, <1>3, <1>4 DEF FileInv, Folding, UnsureInv, ReplayInv, Calling, Appending,
     Acked
<1>6. OrderInv'
  <2>1. \A f \in History : mem[f.key].st \in {"live", "dead"} => Newer(mem[f.key], f)
    BY <1>2, RecoveredOrder
  <2> QED
    BY <1>1, <1>2, <1>4, <2>1 DEF OrderInv, Newer
<1>7. ASSUME NEW k \in Keys
      PROVE  WantInv(k)' /\ MemInv(k)' /\ WasInv(k)' /\ SnapInv(k)'
  <2>1. WantInv(k) /\ SnapInv(k) /\ mem[k] \in Cell
    BY <1>1, CellTypes DEF RecordInv
  <2>2. PICK m, w, d : /\ m = mem[k] /\ m = mem'[k] /\ w = want'[k]
                       /\ d = snap.cells[k] /\ d = snap'.cells[k]
    BY <1>2
  <2>3. /\ Outcome(k, m)' => Outcome(k, mem[k])'
        /\ Leftover(k, m)' => Leftover(k, mem[k])'
        /\ Outcome(k, d)' => Outcome(k, snap.cells[k])'
        /\ Leftover(k, d)' => Leftover(k, snap.cells[k])'
        /\ Outcome(k, w)' => Outcome(k, want[k])'
        /\ Kept(mem[k])' => Kept(m)
        /\ Kept(snap.cells[k])' => Kept(d)
        /\ Kept(want[k])' => Kept(w)
        /\ \A c : Kept(c)' => Kept(c)
    BY <1>2, <2>2 DEF Outcome, Leftover, Kept
  <2>4. w = IF Explained(k) THEN m ELSE want[k]
    BY <1>2, <2>2
  <2>5. ASSUME Kept(w) PROVE w = m
    <3>1. CASE ~Explained(k)
      BY <1>2, <2>4, <2>5, <3>1, RecoveredIsExplained DEF NoLostWrite
    <3>2. CASE Explained(k)
      BY <2>4, <3>2
    <3> QED
      BY <3>1, <3>2
  <2>6. ASSUME Kept(w) PROVE Outcome(k, w)
    <3>1. Explained(k) /\ w = m /\ Kept(mem[k])
      BY <1>2, <2>2, <2>4, <2>5, <2>6, RecoveredIsExplained DEF NoLostWrite
    <3>2. Outcome(k, mem[k]) \/ Leftover(k, mem[k])
      BY <1>2, <3>1, RecoveredKept
    <3>3. CASE mem[k] = want[k]
      <4>1. CASE Hanging(k)
        <5>1. PICK u \in unsure : u.key = k /\ Outcome(k, CellOf(u))
          BY <1>1, <4>1, HangingOutcome
        <5>2. CellOf(u) \in Cell
          BY <1>1 DEF TypeInv, TypeOK, Write, CellOf, Cell
        <5>3. mem[k] = CellOf(u)
          BY <1>2, <4>1, <5>1, <5>2, RecoveredOutcome
        <5> QED
          BY <2>2, <3>1, <5>1, <5>3
      <4>2. CASE ~Hanging(k)
        BY <2>1, <2>2, <3>1, <3>3, <4>2 DEF WantInv
      <4> QED
        BY <4>1, <4>2
    <3>4. ASSUME NEW u \in unsure, u.key = k, mem[k] = CellOf(u)
          PROVE  ~Leftover(k, mem[k])
      <4> SUFFICES ASSUME NEW f \in Sealed, Covered(f), CellOf(f) = CellOf(u)
                   PROVE  FALSE
        BY <3>4 DEF Leftover
      <4>1. u.st # "closed" /\ f.clock = u.clock
        BY <3>1, <3>4 DEF Kept, CellOf
      <4>2. f \in History /\ f.clock \in Nat
        BY <1>1, DiskTypes
      <4>3. f.clock < u.clock
        BY <1>1, <4>1, <4>2 DEF OrderInv
      <4> QED
        BY <4>1, <4>2, <4>3
    <3> QED
      BY <2>2, <3>1, <3>2, <3>3, <3>4 DEF Explained
  <2>7. \A c \in Cell : Outcome(k, c) /\ Kept(c) => m = c
    BY <1>2, <2>2, RecoveredOutcome
  <2>8. Kept(m) => Outcome(k, m) \/ Leftover(k, m)
    BY <1>2, <2>2, RecoveredKept
  <2>9. WantInv(k)'
    BY <1>4, <2>3, <2>6 DEF WantInv
  <2>10. MemInv(k)'
    BY <1>4, <2>2, <2>3, <2>5, <2>7, <2>8 DEF MemInv
  <2>11. WasInv(k)'
    BY <1>2 DEF WasInv
  <2>12. SnapInv(k)'
    <3>1. Usable(k)' => Usable(k)
      BY <1>2, <1>4 DEF Usable
    <3>2. Usable(k) => /\ \A c \in Cell : Outcome(k, c) /\ Kept(c) => d = c
                       /\ Kept(d) => Outcome(k, d) \/ Leftover(k, d)
      BY <2>1, <2>2 DEF SnapInv
    <3>3. ASSUME snap.st = "valid", snap.frontier = commit_sequence
          PROVE  mem[k] = snap.cells[k]
      <4>1. cursor # -1 /\ cursor = commit_sequence
        BY <1>1, <1>2, <3>3, DiskTypes DEF ReplayInv
      <4>2. \A f \in Recent : ~(f.seq > cursor)
        <5>1. \A f \in Recent : f.seq <= commit_sequence /\ f.seq \in Nat
          BY <1>1, <1>2, <1>3, LastSequence, DiskTypes
        <5>2. commit_sequence \in Nat
          BY <1>1, DiskTypes
        <5> QED
          BY <4>1, <5>1, <5>2
      <4> QED
        BY <1>2, <4>1, <4>2, RecoveredCell
    <3> QED
      BY <1>2, <1>4, <2>2, <2>3, <3>1, <3>2, <3>3 DEF SnapInv
  <2> QED
    BY <2>9, <2>10, <2>11, <2>12
<1> QED
  BY <1>5, <1>6, <1>7 DEF RecordInv

----------------------------------------------------------------------------
(* The invariant holds.                                                    *)

LEMMA InitRecovery ==
    ASSUME Schema = 6, Init
    PROVE  FileInv /\ UnsureInv /\ OrderInv /\ RecordInv /\ ReplayInv
<1>1. /\ Bases = {GenesisBase} /\ GenesisBase.frames = {} /\ GenesisBase.min = 0
      /\ GenesisBase.max = 0
  BY DEF Init, Bases, GenesisBase
<1>2. Sealed = {} /\ History = {} /\ Recent = {} /\ BaseFrames = {}
  BY <1>1 DEF Init, Sealed, History, Recent, BaseFrames, Bases
<1>3. FileInv /\ UnsureInv /\ OrderInv /\ ReplayInv
  BY <1>1, <1>2 DEF Init, FileInv, Folding, UnsureInv, Calling, Appending, Acked, OrderInv,
     ReplayInv
<1>4. ASSUME NEW k \in Keys PROVE WantInv(k) /\ MemInv(k) /\ WasInv(k) /\ SnapInv(k)
  <2>1. mem[k] = Absent /\ want[k] = Absent /\ ~Kept(Absent) /\ phase = "ready"
        /\ snap.st # "valid"
    BY DEF Init, NoCells, Kept, Absent
  <2>2. \A c : Outcome(k, c) => c = Absent
    BY <1>2 DEF Outcome
  <2> QED
    BY <2>1, <2>2 DEF WantInv, MemInv, WasInv, SnapInv, Usable
<1> QED
  BY <1>3, <1>4 DEF RecordInv

LEMMA NextRecovery ==
    ASSUME Schema = 6, "overlap_io" \notin Faults, RecoveryInv, [Next]_vars
    PROVE  FileInv' /\ UnsureInv' /\ OrderInv' /\ RecordInv' /\ ReplayInv'
<1>1. TypeInv
  BY DEF RecoveryInv, BeforeInv
<1>2. CASE Rest
  BY <1>2, RestKeeps
<1>3. CASE \E x \in Items : ReplayFrame(x)
  BY <1>3, ReplayFrameRecovery
<1>4. CASE \E s \in segs : FoldRemove(s)
  BY <1>4, FoldRemoveRecovery
<1>5. CASE OpenWithSnapshot \/ OpenWithoutSnapshot
  BY <1>5, OpenRecovery
<1>6. CASE \/ SupersedeNext
           \/ \E k \in Keys : AddNode(k) \/ RetractNode(k) \/ SupersedeNode(k)
  BY <1>6, SendKeeps
<1> QED
  BY <1>1, <1>2, <1>3, <1>4, <1>5, <1>6, RestSteps, WriterAppendRecovery,
     WriterAppendFailsRecovery, CrashRecovery, ApplyRecovery, SealWriteRecovery,
     ResetTruncateRecovery, FoldWriteBaseRecovery, SnapshotPublishRecovery, OpenDoneRecovery
     DEF Next, ClientStep, WriterStep, OpenStep

LEMMA RecoveryInvariant ==
    ASSUME Schema = 6, "overlap_io" \notin Faults
    PROVE  Spec => []RecoveryInv
<1>1. Init /\ TypeInv /\ SeqInv /\ ClockInv => RecoveryInv
  BY InitRecovery DEF RecoveryInv, BeforeInv
<1>2. RecoveryInv /\ [Next]_vars /\ (TypeInv /\ SeqInv)' => RecoveryInv'
  <2> SUFFICES ASSUME RecoveryInv, [Next]_vars, (TypeInv /\ SeqInv)' PROVE RecoveryInv'
    OBVIOUS
  <2>1. ClockInv'
    BY NextClockInv DEF RecoveryInv, BeforeInv
  <2> QED
    BY <2>1, NextRecovery DEF RecoveryInv, BeforeInv
<1> QED
  BY <1>1, <1>2, InitClockInv, SeqInvariant, PTL DEF Spec

\* A confirmed write is never lost, for every set of keys, every bound and either
\* retention profile, under schema 6 and whatever fails except the rewrite that trims
\* the active file at open: appends, projections, segment writes, removals, truncations,
\* headers and snapshots may fail and the process may stop at any step, and still a
\* recovery brings back every confirmed live record and every retraction inside its
\* window (append_wal_event, journal_seal_active, journal_fold, save_state,
\* replay_journal).
THEOREM NoWriteIsEverLost ==
    ASSUME Schema = 6, "overlap_io" \notin Faults
    PROVE  Spec => []NoLostWrite
BY RecoveryInvariant, RecoveredIsExplained, PTL

\* Under the same conditions, once no stale segment is left beside the base, a recovery
\* brings back no record that was deleted or superseded (journal_fold,
\* replay_journal).
THEOREM NothingIsResurrected ==
    ASSUME Schema = 6, "overlap_io" \notin Faults
    PROVE  Spec => []NoResurrection
BY RecoveryInvariant, RecoveredIsKnown, PTL

\* Under the same conditions, whenever a fold or a snapshot may start, memory has every
\* confirmed record and no event of unknown outcome is in the journal
\* (ensure_writable, durable_apply_error, build_compacted_wal, save_state).
THEOREM CheckpointsAreComplete ==
    ASSUME Schema = 6, "overlap_io" \notin Faults
    PROVE  Spec => []CheckpointIsComplete
<1>1. RecoveryInv => CheckpointIsComplete
  BY DEF RecoveryInv, UnsureInv, RecordInv, MemInv, CheckpointIsComplete, Free, Calling,
     Appending, Acked
<1> QED
  BY <1>1, RecoveryInvariant, PTL

============================================================================
