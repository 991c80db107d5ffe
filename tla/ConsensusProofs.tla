-------------------------- MODULE ConsensusProofs --------------------------
(***************************************************************************)
(* Proofs about Consensus, for any roster, any ledger limits and any       *)
(* faults.                                                                 *)
(*                                                                         *)
(* The invariants rest on each other in this order.  MemoryInv: what a     *)
(* running process remembers is what its files hold, unless a write left   *)
(* them in doubt.  VoteInv: so a first vote is first in the file, too.     *)
(* MajorityInv: so a quorum of counted votes is a majority of bound        *)
(* members, and two of them share one.  LogInv: a completion speaks of a   *)
(* logged event.  JobInv and HeldInv: a commit under way is not one whose  *)
(* frame the journal still holds.  LinesInv: the files keep their limits.  *)
(***************************************************************************)
EXTENDS Consensus, FiniteSetTheorems, TLAPS

\* Type correctness is inductive.
LEMMA TypeInit == Init => TypeOK
  BY ConstantsAssumption DEF Init, TypeOK, Job, Free

LEMMA AtType ==
    ASSUME NEW i \in Ids, NEW e \in Events, NEW step \in {"quorum", "prepared", "framed"}
    PROVE  At(step, i, e) \in Job
  BY DEF At, Job

LEMMA JobFields ==
    ASSUME TypeOK, NEW r \in Peers, job[r] # Free
    PROVE  job[r].id \in Ids /\ job[r].event \in Events
  BY DEF TypeOK, Job

LEMMA StepType ==
    ASSUME TypeOK, NEW r \in Peers, job[r] # Free,
           NEW step \in {"quorum", "prepared", "framed"}, Step(r, step)
    PROVE  job' \in [Peers -> Job]
  <1>1. At(step, job[r].id, job[r].event) \in Job
    BY JobFields, AtType
  <1> QED BY <1>1 DEF Step, TypeOK

LEMMA ReturnType ==
    ASSUME TypeOK, NEW r \in Peers, Return(r)
    PROVE  job' \in [Peers -> Job]
  BY DEF TypeOK, Return, Job

LEMMA RecordType ==
    ASSUME NEW i \in Ids, NEW e \in Events, NEW done \in BOOLEAN
    PROVE  Record(i, e, done) \in Receipt
  BY DEF Record, Receipt

LEMMA AppendRecordType ==
    ASSUME TypeOK, NEW r \in Peers, NEW x \in Receipt, AppendRecord(r, x)
    PROVE  /\ commitLog' \in [Peers -> SUBSET Receipt]
           /\ commitLines' \in [Peers -> Nat]
           /\ receipts' \in [Peers -> SUBSET Receipt]
  BY DEF TypeOK, AppendRecord

LEMMA CommitLogType ==
    ASSUME TypeOK, NEW r \in Peers, NEW x \in Receipt,
           commitLog' = [commitLog EXCEPT ![r] = @ \cup {x}],
           commitLines' = [commitLines EXCEPT ![r] = @ + 1]
    PROVE  commitLog' \in [Peers -> SUBSET Receipt] /\ commitLines' \in [Peers -> Nat]
  BY DEF TypeOK

LEMMA AppendFailsType ==
    ASSUME TypeOK, NEW r \in Peers, NEW x \in Receipt, AppendFails(r, x)
    PROVE  /\ commitLog' \in [Peers -> SUBSET Receipt]
           /\ commitLines' \in [Peers -> Nat]
           /\ receipts' \in [Peers -> SUBSET Receipt]
           /\ commitPoisoned' \in [Peers -> BOOLEAN]
           /\ faults' \in 0 .. MaxFaults
  <1>1. commitPoisoned' \in [Peers -> BOOLEAN]
    BY DEF TypeOK, AppendFails
  <1> QED BY <1>1, ConstantsAssumption DEF TypeOK, AppendFails

LEMMA LockType ==
    ASSUME TypeOK, NEW r \in Peers, NEW b \in Ballot, Lock(r, b)
    PROVE  /\ voteLog' \in [Peers -> SUBSET Ballot]
           /\ voteLines' \in [Peers -> Nat]
           /\ locks' \in [Peers -> SUBSET Ballot]
  BY DEF TypeOK, Lock

LEMMA LockFailsType ==
    ASSUME TypeOK, NEW r \in Peers, NEW b \in Ballot, LockFails(r, b)
    PROVE  /\ voteLog' \in [Peers -> SUBSET Ballot]
           /\ voteLines' \in [Peers -> Nat]
           /\ locks' \in [Peers -> SUBSET Ballot]
           /\ votePoisoned' \in [Peers -> BOOLEAN]
           /\ faults' \in 0 .. MaxFaults
  <1>1. votePoisoned' \in [Peers -> BOOLEAN]
    BY DEF TypeOK, LockFails
  <1> QED BY <1>1, ConstantsAssumption DEF TypeOK, LockFails

LEMMA FramedType ==
    ASSUME TypeOK, NEW r \in Peers, job[r] # Free, Framed(r)
    PROVE  /\ frames' \in [Peers -> SUBSET Events]
           /\ logged' \in [Peers -> SUBSET Events]
           /\ appended' \in [Peers -> SUBSET Envelope]
           /\ twice' \in [Peers -> SUBSET Envelope]
  <1>1. Env(job[r].id, job[r].event) \in Envelope
    BY JobFields DEF Env, Envelope
  <1>2. Env(job[r].id, job[r].event).event \in Events
    BY <1>1 DEF Envelope
  <1> QED BY <1>1, <1>2 DEF TypeOK, Framed

LEMMA StopType ==
    ASSUME TypeOK, NEW r \in Peers, Stop(r)
    PROVE  /\ phase' \in [Peers -> {"down", "recovering", "up"}]
           /\ locks' \in [Peers -> SUBSET Ballot]
           /\ receipts' \in [Peers -> SUBSET Receipt]
           /\ proposals' \in [Peers -> SUBSET Envelope]
           /\ votePoisoned' \in [Peers -> BOOLEAN]
           /\ commitPoisoned' \in [Peers -> BOOLEAN]
           /\ recovery_required' \in [Peers -> BOOLEAN]
           /\ job' \in [Peers -> Job]
  BY DEF TypeOK, Stop, Job

LEMMA TypeStep == TypeOK /\ [Next]_vars => TypeOK'
  <1> SUFFICES ASSUME TypeOK, [Next]_vars PROVE TypeOK'
    OBVIOUS
  <1>1. ASSUME NEW r \in Peers, NEW i \in Ids, NEW e \in Events, Propose(r, i, e)
        PROVE  TypeOK'
    <2>1. Env(i, e) \in Envelope
      BY DEF Env, Envelope
    <2>2. proposals' \in [Peers -> SUBSET Envelope]
      BY <1>1, <2>1 DEF TypeOK, Propose
    <2> QED BY <1>1, <2>2 DEF TypeOK, Propose, ledgers, journal
  <1>2. ASSUME NEW r \in Peers, NEW i \in Ids, NEW e \in Events, Import(r, i, e)
        PROVE  TypeOK'
    <2>1. Env(i, e) \in Envelope
      BY DEF Env, Envelope
    <2>2. \E s \in SUBSET Envelope : proposals' = [proposals EXCEPT ![r] = s]
      <3>1. PICK kept \in SUBSET proposals[r] :
               \/ proposals' = [proposals EXCEPT ![r] = kept \cup {Env(i, e)}]
               \/ proposals' = [proposals EXCEPT ![r] = kept]
        BY <1>2 DEF Import
      <3>2. kept \subseteq Envelope /\ kept \cup {Env(i, e)} \subseteq Envelope
        BY <2>1 DEF TypeOK
      <3> QED BY <3>1, <3>2
    <2>3. proposals' \in [Peers -> SUBSET Envelope]
      BY <2>2 DEF TypeOK
    <2>4. CASE Close(r, i, e) /\ UNCHANGED << voteLog, voteLines, locks >>
      <3>1. AppendRecord(r, Record(i, e, TRUE))
        BY <2>4 DEF Close
      <3>2. /\ commitLog' \in [Peers -> SUBSET Receipt]
            /\ commitLines' \in [Peers -> Nat]
            /\ receipts' \in [Peers -> SUBSET Receipt]
        BY <3>1, RecordType, AppendRecordType
      <3> QED BY <1>2, <2>3, <2>4, <3>2 DEF TypeOK, Import, journal
    <2>5. CASE UNCHANGED ledgers
      BY <1>2, <2>3, <2>5 DEF TypeOK, Import, ledgers, journal
    <2> QED BY <1>2, <2>4, <2>5 DEF Import
  <1>3. ASSUME NEW r \in Peers, NEW i \in Ids, NEW e \in Events, NEW a \in BOOLEAN,
               SignVote(r, i, e, a)
        PROVE  TypeOK'
    <2> DEFINE b == Vote(r, i, e, a)
    <2>1. b \in Ballot
      BY DEF Vote, Ballot
    <2>2. ballots' \subseteq Ballot
      BY <1>3, <2>1 DEF TypeOK, SignVote
    <2>3. /\ voteLog' \in [Peers -> SUBSET Ballot]
          /\ voteLines' \in [Peers -> Nat]
          /\ locks' \in [Peers -> SUBSET Ballot]
          /\ commitLog' \in [Peers -> SUBSET Receipt]
          /\ commitLines' \in [Peers -> Nat]
          /\ receipts' \in [Peers -> SUBSET Receipt]
      <3>1. CASE Close(r, i, e) /\ UNCHANGED << voteLog, voteLines, locks >>
        <4>1. AppendRecord(r, Record(i, e, TRUE))
          BY <3>1 DEF Close
        <4> QED BY <3>1, <4>1, RecordType, AppendRecordType DEF TypeOK
      <3>2. CASE UNCHANGED ledgers
        BY <3>2 DEF TypeOK, ledgers
      <3>3. CASE Lock(r, b) /\ UNCHANGED << commitLog, commitLines, receipts >>
        BY <3>3, <2>1, LockType DEF TypeOK
      <3> QED BY <1>3, <3>1, <3>2, <3>3 DEF SignVote
    <2> QED BY <1>3, <2>2, <2>3 DEF TypeOK, SignVote, journal
  <1>4. ASSUME NEW r \in Peers, NEW b \in ballots, SubmitVote(r, b)
        PROVE  TypeOK'
    <2>1. b \in Ballot /\ b.id \in Ids /\ b.event \in Events
      BY DEF TypeOK, Ballot
    <2>2. job' \in [Peers -> Job]
      <3>1. At("quorum", b.id, b.event) \in Job /\ Free \in Job
        BY <2>1, AtType DEF Job
      <3> QED BY <1>4, <3>1 DEF TypeOK, SubmitVote
    <2>3. CASE UNCHANGED ledgers
      BY <1>4, <2>2, <2>3 DEF TypeOK, SubmitVote, ledgers, journal
    <2>4. CASE Lock(r, b) /\ UNCHANGED << commitLog, commitLines, receipts >>
      <3>1. /\ voteLog' \in [Peers -> SUBSET Ballot]
            /\ voteLines' \in [Peers -> Nat]
            /\ locks' \in [Peers -> SUBSET Ballot]
        BY <2>4, <2>1, LockType
      <3> QED BY <1>4, <2>2, <2>4, <3>1 DEF TypeOK, SubmitVote, journal
    <2> QED BY <1>4, <2>3, <2>4 DEF SubmitVote
  <1>5. ASSUME NEW r \in Peers, NEW b \in ballots, SubmitToCommitted(r, b)
        PROVE  TypeOK'
    <2>1. b.id \in Ids /\ b.event \in Events
      BY DEF TypeOK, Ballot
    <2>2. AppendRecord(r, Record(b.id, b.event, TRUE))
      BY <1>5 DEF SubmitToCommitted, Close
    <2>3. /\ commitLog' \in [Peers -> SUBSET Receipt]
          /\ commitLines' \in [Peers -> Nat]
          /\ receipts' \in [Peers -> SUBSET Receipt]
      BY <2>1, <2>2, RecordType, AppendRecordType
    <2> QED BY <1>5, <2>3 DEF TypeOK, SubmitToCommitted, journal
  <1>6. ASSUME NEW r \in Peers, NEW b \in Ballot, VoteFails(r, b)
        PROVE  TypeOK'
    <2>1. LockFails(r, b)
      BY <1>6 DEF VoteFails
    <2> QED BY <1>6, <2>1, LockFailsType DEF TypeOK, VoteFails, journal
  <1>7. ASSUME NEW r \in Peers, NEW i \in Ids, NEW e \in Events, CloseFails(r, i, e)
        PROVE  TypeOK'
    <2>1. AppendFails(r, Record(i, e, TRUE))
      BY <1>7 DEF CloseFails
    <2>2. Record(i, e, TRUE) \in Receipt
      BY RecordType
    <2> QED BY <1>7, <2>1, <2>2, AppendFailsType DEF TypeOK, CloseFails, journal
  <1>8. ASSUME NEW r \in Peers, Prepare(r)
        PROVE  TypeOK'
    <2>0. job[r] # Free
      BY <1>8 DEF Prepare, Doing
    <2>1. job' \in [Peers -> Job]
      BY <1>8, <2>0, StepType DEF Prepare
    <2>2. CASE UNCHANGED ledgers
      BY <1>8, <2>1, <2>2 DEF TypeOK, Prepare, ledgers, journal
    <2>3. CASE /\ AppendRecord(r, Record(job[r].id, job[r].event, FALSE))
               /\ UNCHANGED << voteLog, voteLines, locks >>
      <3>1. Record(job[r].id, job[r].event, FALSE) \in Receipt
        BY <2>0, JobFields, RecordType
      <3>2. /\ commitLog' \in [Peers -> SUBSET Receipt]
            /\ commitLines' \in [Peers -> Nat]
            /\ receipts' \in [Peers -> SUBSET Receipt]
        BY <2>3, <3>1, AppendRecordType
      <3> QED BY <1>8, <2>1, <2>3, <3>2 DEF TypeOK, Prepare, journal
    <2> QED BY <1>8, <2>2, <2>3 DEF Prepare
  <1>9. ASSUME NEW r \in Peers, PrepareRefused(r) \/ FrameRejected(r)
        PROVE  TypeOK'
    <2>1. job' \in [Peers -> Job]
      BY <1>9, ReturnType DEF PrepareRefused, FrameRejected
    <2> QED BY <1>9, <2>1 DEF TypeOK, PrepareRefused, FrameRejected, ledgers, journal
  <1>10. ASSUME NEW r \in Peers, PrepareFails(r)
         PROVE  TypeOK'
    <2>1. job' \in [Peers -> Job]
      BY <1>10, ReturnType DEF PrepareFails
    <2>2. Record(job[r].id, job[r].event, FALSE) \in Receipt
      BY <1>10, JobFields, RecordType DEF PrepareFails, Doing
    <2>3. AppendFails(r, Record(job[r].id, job[r].event, FALSE))
      BY <1>10 DEF PrepareFails
    <2> QED BY <1>10, <2>1, <2>2, <2>3, AppendFailsType DEF TypeOK, PrepareFails, journal
  <1>11. ASSUME NEW r \in Peers, AppendFrame(r)
         PROVE  TypeOK'
    <2>1. job[r] # Free
      BY <1>11 DEF AppendFrame, Doing
    <2>2. job' \in [Peers -> Job]
      BY <1>11, <2>1, StepType DEF AppendFrame
    <2> QED BY <1>11, <2>1, <2>2, FramedType DEF TypeOK, AppendFrame, ledgers
  <1>12. ASSUME NEW r \in Peers, FrameFails(r)
         PROVE  TypeOK'
    <2>1. job[r] # Free
      BY <1>12 DEF FrameFails, Doing
    <2>2. job' \in [Peers -> Job]
      BY <1>12, ReturnType DEF FrameFails
    <2>3. recovery_required' \in [Peers -> BOOLEAN]
      BY <1>12 DEF FrameFails, TypeOK
    <2>4. faults' \in 0 .. MaxFaults
      BY <1>12, ConstantsAssumption DEF FrameFails, TypeOK
    <2>5. CASE UNCHANGED journal
      BY <1>12, <2>2, <2>3, <2>4, <2>5 DEF TypeOK, FrameFails, ledgers, journal
    <2>6. CASE Framed(r)
      BY <1>12, <2>1, <2>2, <2>3, <2>4, <2>6, FramedType DEF TypeOK, FrameFails, ledgers
    <2> QED BY <1>12, <2>5, <2>6 DEF FrameFails
  <1>13. ASSUME NEW r \in Peers, Complete(r)
         PROVE  TypeOK'
    <2>1. job' \in [Peers -> Job]
      BY <1>13, ReturnType DEF Complete
    <2>2. Record(job[r].id, job[r].event, TRUE) \in Receipt
      BY <1>13, JobFields, RecordType DEF Complete, Doing
    <2>3. AppendRecord(r, Record(job[r].id, job[r].event, TRUE))
      BY <1>13 DEF Complete
    <2> QED BY <1>13, <2>1, <2>2, <2>3, AppendRecordType DEF TypeOK, Complete, journal
  <1>14. ASSUME NEW r \in Peers, CompleteFails(r)
         PROVE  TypeOK'
    <2>1. job' \in [Peers -> Job]
      BY <1>14, ReturnType DEF CompleteFails
    <2>2. Record(job[r].id, job[r].event, TRUE) \in Receipt
      BY <1>14, JobFields, RecordType DEF CompleteFails, Doing
    <2>3. CASE AppendFails(r, Record(job[r].id, job[r].event, TRUE))
      BY <1>14, <2>1, <2>2, <2>3, AppendFailsType DEF TypeOK, CompleteFails, journal
    <2>4. CASE UNCHANGED << commitLog, commitLines, receipts, commitPoisoned, faults >>
      BY <1>14, <2>1, <2>4 DEF TypeOK, CompleteFails, journal
    <2> QED BY <1>14, <2>3, <2>4 DEF CompleteFails
  <1>15. ASSUME NEW r \in Peers, NEW e \in Events, Reconcile(r, e)
         PROVE  TypeOK'
    BY <1>15 DEF TypeOK, Reconcile, ledgers
  <1>16. ASSUME NEW r \in Peers, Fold(r)
         PROVE  TypeOK'
    BY <1>16 DEF TypeOK, Fold, ledgers
  <1>17. ASSUME NEW r \in Peers, Crash(r)
         PROVE  TypeOK'
    BY <1>17, StopType DEF TypeOK, Crash, journal
  <1>18. ASSUME NEW r \in Peers, Open(r)
         PROVE  TypeOK'
    BY <1>18 DEF TypeOK, Open, journal
  <1>19. ASSUME NEW r \in Peers, NEW i \in Ids, NEW e \in Events, Recover(r, i, e)
         PROVE  TypeOK'
    <2>1. AppendRecord(r, Record(i, e, TRUE))
      BY <1>19 DEF Recover, Close
    <2>2. Record(i, e, TRUE) \in Receipt
      BY RecordType
    <2> QED BY <1>19, <2>1, <2>2, AppendRecordType DEF TypeOK, Recover, journal
  <1>20. ASSUME NEW r \in Peers, NEW i \in Ids, NEW e \in Events, RecoverFails(r, i, e)
         PROVE  TypeOK'
    <2>1. /\ commitLog' \in [Peers -> SUBSET Receipt]
          /\ commitLines' \in [Peers -> Nat]
          /\ faults' \in 0 .. MaxFaults
      <3>1. Record(i, e, TRUE) \in Receipt
        BY RecordType
      <3>2. faults' \in 0 .. MaxFaults
        BY <1>20, ConstantsAssumption DEF TypeOK, RecoverFails
      <3>3. CASE UNCHANGED << commitLog, commitLines >>
        BY <3>2, <3>3 DEF TypeOK
      <3>4. CASE /\ commitLog' = [commitLog EXCEPT ![r] = @ \cup {Record(i, e, TRUE)}]
                 /\ commitLines' = [commitLines EXCEPT ![r] = @ + 1]
        BY <3>1, <3>2, <3>4, CommitLogType
      <3> QED BY <1>20, <3>3, <3>4 DEF RecoverFails
    <2>2. Stop(r)
      BY <1>20 DEF RecoverFails
    <2> QED BY <1>20, <2>1, <2>2, StopType DEF TypeOK, RecoverFails, journal
  <1>21. ASSUME NEW r \in Peers, OpenDone(r)
         PROVE  TypeOK'
    BY <1>21 DEF TypeOK, OpenDone, ledgers, journal
  <1>22. CASE UNCHANGED vars
    BY <1>22 DEF vars, TypeOK
  <1> QED
    BY <1>1, <1>2, <1>3, <1>4, <1>5, <1>6, <1>7, <1>8, <1>9, <1>10, <1>11, <1>12,
       <1>13, <1>14, <1>15, <1>16, <1>17, <1>18, <1>19, <1>20, <1>21, <1>22
       DEF Next, Member, Proposal, Voting, Commit, JournalStep, Restart

\* Every variable of the members and of their ledgers keeps its type.
THEOREM ConsensusTypeCorrect == Spec => []TypeOK
  BY TypeInit, TypeStep, PTL DEF Spec

----------------------------------------------------------------------------
(* What a step of member r does to its ledgers, whichever action it is.    *)

\* The process keeps running, or has just finished its recovery.
Runs(r) == \/ UNCHANGED phase
           \/ phase[r] = "recovering" /\ phase' = [phase EXCEPT ![r] = "up"]

Down(r)  == phase' = [phase EXCEPT ![r] = "down"]
Opens(r) == phase[r] = "down" /\ phase' = [phase EXCEPT ![r] = "recovering"]

\* A record enters the vote-lock ledger.
VoteAdded(r, b) ==
    /\ phase[r] = "up" /\ ~votePoisoned[r] /\ UNCHANGED phase
    /\ Cardinality(locks[r]) < MaxRecords
    /\ LockOf(r, b.id, b.peer) = {}
    /\ b.peer = r \/ b \in ballots
    /\ voteLog' = [voteLog EXCEPT ![r] = @ \cup {b}]
    /\ voteLines' = [voteLines EXCEPT ![r] = @ + 1]

VoteEffect(r) ==
    \/ Runs(r) /\ UNCHANGED << voteLog, voteLines, locks, votePoisoned >>
    \/ \E b \in Ballot :
          /\ VoteAdded(r, b)
          /\ \/ /\ locks' = [locks EXCEPT ![r] = @ \cup {b}]
                /\ UNCHANGED votePoisoned
             \/ /\ votePoisoned' = [votePoisoned EXCEPT ![r] = TRUE]
                /\ UNCHANGED locks
    \/ /\ votePoisoned' = [votePoisoned EXCEPT ![r] = TRUE]
       /\ UNCHANGED << voteLog, voteLines, locks, phase >>
    \/ /\ Down(r)
       /\ locks' = [locks EXCEPT ![r] = {}]
       /\ votePoisoned' = [votePoisoned EXCEPT ![r] = FALSE]
       /\ UNCHANGED << voteLog, voteLines >>
    \/ /\ Opens(r)
       /\ locks' = [locks EXCEPT ![r] = voteLog[r]]
       /\ UNCHANGED << voteLog, voteLines, votePoisoned >>

LEMMA VoteEffects ==
    ASSUME TypeOK, NEW r \in Peers, Member(r)
    PROVE  VoteEffect(r)
  <1>1. CASE \/ \E i \in Ids, e \in Events : Propose(r, i, e)
             \/ PrepareRefused(r) \/ AppendFrame(r) \/ FrameRejected(r)
             \/ FrameFails(r) \/ Fold(r)
             \/ \E e \in Events : Reconcile(r, e)
    BY <1>1 DEF VoteEffect, Runs, Propose, PrepareRefused, AppendFrame,
       FrameRejected, FrameFails, Fold, Reconcile, ledgers
  <1>2. CASE \/ PrepareFails(r) \/ Complete(r) \/ CompleteFails(r)
             \/ \E i \in Ids, e \in Events : CloseFails(r, i, e)
             \/ \E i \in Ids, e \in Events : Recover(r, i, e)
             \/ \E b \in ballots : SubmitToCommitted(r, b)
    BY <1>2 DEF VoteEffect, Runs, PrepareFails, Complete, CompleteFails,
       CloseFails, Recover, SubmitToCommitted
  <1>3. CASE (\E i \in Ids, e \in Events : Import(r, i, e)) \/ Prepare(r)
    BY <1>3 DEF VoteEffect, Runs, Import, Prepare, ledgers
  <1>4. CASE OpenDone(r)
    BY <1>4 DEF VoteEffect, Runs, OpenDone, ledgers
  <1>5. ASSUME NEW i \in Ids, NEW e \in Events, NEW a \in BOOLEAN,
               SignVote(r, i, e, a)
        PROVE  VoteEffect(r)
    <2>1. CASE Close(r, i, e) /\ UNCHANGED << voteLog, voteLines, locks >>
      BY <1>5, <2>1 DEF VoteEffect, Runs, SignVote
    <2>2. CASE UNCHANGED ledgers
      BY <1>5, <2>2 DEF VoteEffect, Runs, SignVote, ledgers
    <2>3. CASE LockOf(r, i, r) = {} /\ Lock(r, Vote(r, i, e, a))
      <3>1. PICK b \in Ballot : b = Vote(r, i, e, a)
        BY DEF Vote, Ballot
      <3>2. b.id = i /\ b.peer = r
        BY <3>1 DEF Vote
      <3>3. Lock(r, b) /\ LockOf(r, b.id, b.peer) = {} /\ UNCHANGED << phase, votePoisoned >>
        BY <1>5, <2>3, <3>1, <3>2 DEF SignVote
      <3>4. phase[r] = "up"
        BY <1>5 DEF SignVote, Idle
      <3>5. VoteAdded(r, b)
        BY <3>2, <3>3, <3>4 DEF VoteAdded, Lock
      <3> QED BY <3>3, <3>5 DEF VoteEffect, Lock
    <2> QED BY <1>5, <2>1, <2>2, <2>3 DEF SignVote
  <1>6. ASSUME NEW b \in ballots, SubmitVote(r, b)
        PROVE  VoteEffect(r)
    <2>1. CASE UNCHANGED ledgers
      BY <1>6, <2>1 DEF VoteEffect, Runs, SubmitVote, ledgers
    <2>2. CASE LockOf(r, b.id, b.peer) = {} /\ Lock(r, b)
      <3>1. b \in Ballot
        BY DEF TypeOK
      <3>2. UNCHANGED << phase, votePoisoned >>
        BY <1>6 DEF SubmitVote
      <3>3. phase[r] = "up"
        BY <1>6 DEF SubmitVote, Admissible, Idle
      <3>4. VoteAdded(r, b)
        BY <2>2, <3>2, <3>3 DEF VoteAdded, Lock
      <3> QED BY <2>2, <3>1, <3>2, <3>4 DEF VoteEffect, Lock
    <2> QED BY <1>6, <2>1, <2>2 DEF SubmitVote
  <1>7. ASSUME NEW b \in Ballot, VoteFails(r, b)
        PROVE  VoteEffect(r)
    <2>1. /\ votePoisoned' = [votePoisoned EXCEPT ![r] = TRUE]
          /\ UNCHANGED << locks, phase >>
      BY <1>7 DEF VoteFails, LockFails
    <2>2. CASE UNCHANGED << voteLog, voteLines >>
      BY <2>1, <2>2 DEF VoteEffect
    <2>3. CASE /\ voteLog' = [voteLog EXCEPT ![r] = @ \cup {b}]
               /\ voteLines' = [voteLines EXCEPT ![r] = @ + 1]
      <3>1. VoteAdded(r, b)
        BY <1>7, <2>1, <2>3 DEF VoteAdded, VoteFails, LockFails, Idle
      <3> QED BY <2>1, <3>1 DEF VoteEffect
    <2> QED BY <1>7, <2>2, <2>3 DEF VoteFails, LockFails
  <1>8. CASE Crash(r) \/ \E i \in Ids, e \in Events : RecoverFails(r, i, e)
    BY <1>8 DEF VoteEffect, Down, Crash, RecoverFails, Stop
  <1>9. CASE Open(r)
    BY <1>9 DEF VoteEffect, Opens, Open
  <1> QED
    BY <1>1, <1>2, <1>3, <1>4, <1>5, <1>6, <1>7, <1>8, <1>9
       DEF Member, Proposal, Voting, Commit, JournalStep, Restart

\* A record enters the commit ledger.
CommitAdded(r, x) ==
    /\ phase[r] # "down"
    /\ phase[r] = "up" => ~commitPoisoned[r]
    /\ \/ /\ x.committed
          /\ Closes(r, x.id, x.event)
       \/ /\ x.committed
          /\ Doing(r, "framed") /\ job[r].id = x.id /\ job[r].event = x.event
       \/ /\ ~x.committed
          /\ Doing(r, "quorum") /\ job[r].id = x.id /\ job[r].event = x.event
          /\ HasCapacity(r, x.id) /\ x.id \notin Retained(r)
    /\ commitLog' = [commitLog EXCEPT ![r] = @ \cup {x}]
    /\ commitLines' = [commitLines EXCEPT ![r] = @ + 1]

\* What memory keeps of it.
CommitKept(r, x) ==
    \/ /\ receipts' = [receipts EXCEPT ![r] = @ \cup {x}]
       /\ UNCHANGED << commitPoisoned, phase >>
    \/ /\ commitPoisoned' = [commitPoisoned EXCEPT ![r] = TRUE]
       /\ phase[r] = "up"
       /\ UNCHANGED << receipts, phase >>
    \/ /\ Down(r)
       /\ receipts' = [receipts EXCEPT ![r] = {}]
       /\ commitPoisoned' = [commitPoisoned EXCEPT ![r] = FALSE]

CommitEffect(r) ==
    \/ Runs(r) /\ UNCHANGED << commitLog, commitLines, receipts, commitPoisoned >>
    \/ \E x \in Receipt : CommitAdded(r, x) /\ CommitKept(r, x)
    \/ /\ phase[r] = "up"
       /\ commitPoisoned' = [commitPoisoned EXCEPT ![r] = TRUE]
       /\ UNCHANGED << commitLog, commitLines, receipts, phase >>
    \/ /\ Down(r)
       /\ receipts' = [receipts EXCEPT ![r] = {}]
       /\ commitPoisoned' = [commitPoisoned EXCEPT ![r] = FALSE]
       /\ UNCHANGED << commitLog, commitLines >>
    \/ /\ Opens(r)
       /\ receipts' = [receipts EXCEPT ![r] = commitLog[r]]
       /\ UNCHANGED << commitLog, commitLines, commitPoisoned >>

LEMMA CompletionRecord ==
    ASSUME NEW i \in Ids, NEW e \in Events
    PROVE  \E x \in Receipt : /\ x = Record(i, e, TRUE)
                              /\ x.id = i /\ x.event = e /\ x.committed
  <1>1. Record(i, e, TRUE) \in Receipt
    BY RecordType
  <1>2. /\ Record(i, e, TRUE).id = i /\ Record(i, e, TRUE).event = e
        /\ Record(i, e, TRUE).committed
    BY DEF Record
  <1> QED BY <1>1, <1>2, Zenon

LEMMA PrepareRecord ==
    ASSUME NEW i \in Ids, NEW e \in Events
    PROVE  \E x \in Receipt : /\ x = Record(i, e, FALSE)
                              /\ x.id = i /\ x.event = e /\ ~x.committed
  <1>1. Record(i, e, FALSE) \in Receipt
    BY RecordType
  <1>2. /\ Record(i, e, FALSE).id = i /\ Record(i, e, FALSE).event = e
        /\ ~Record(i, e, FALSE).committed
    BY DEF Record
  <1> QED BY <1>1, <1>2, Zenon

\* A completed receipt is one that a commit or a recovery was to complete.
LEMMA CompletionAdded ==
    ASSUME NEW r \in Peers, NEW i \in Ids, NEW e \in Events, phase[r] # "down",
           phase[r] = "up" => ~commitPoisoned[r],
           \/ Closes(r, i, e)
           \/ Doing(r, "framed") /\ job[r].id = i /\ job[r].event = e,
           commitLog' = [commitLog EXCEPT ![r] = @ \cup {Record(i, e, TRUE)}],
           commitLines' = [commitLines EXCEPT ![r] = @ + 1]
    PROVE  \E x \in Receipt : x = Record(i, e, TRUE) /\ CommitAdded(r, x)
  <1>1. PICK x \in Receipt : /\ x = Record(i, e, TRUE)
                             /\ x.id = i /\ x.event = e /\ x.committed
    BY CompletionRecord
  <1>2. commitLog' = [commitLog EXCEPT ![r] = @ \cup {x}]
    BY <1>1
  <1>3. CommitAdded(r, x)
    BY <1>1, <1>2 DEF CommitAdded
  <1> QED BY <1>1, <1>3

LEMMA Completed ==
    ASSUME NEW r \in Peers, NEW i \in Ids, NEW e \in Events, phase[r] # "down",
           \/ Closes(r, i, e)
           \/ Doing(r, "framed") /\ job[r].id = i /\ job[r].event = e,
           AppendRecord(r, Record(i, e, TRUE)), UNCHANGED << phase, commitPoisoned >>
    PROVE  CommitEffect(r)
  <1>1. PICK x \in Receipt : x = Record(i, e, TRUE) /\ CommitAdded(r, x)
    BY CompletionAdded DEF AppendRecord
  <1>2. CommitKept(r, x)
    BY <1>1 DEF AppendRecord, CommitKept
  <1> QED BY <1>1, <1>2 DEF CommitEffect

LEMMA CompletionFailed ==
    ASSUME NEW r \in Peers, NEW i \in Ids, NEW e \in Events, phase[r] = "up",
           \/ Closes(r, i, e)
           \/ Doing(r, "framed") /\ job[r].id = i /\ job[r].event = e,
           AppendFails(r, Record(i, e, TRUE)), UNCHANGED phase
    PROVE  CommitEffect(r)
  <1>1. UNCHANGED receipts /\ ~commitPoisoned[r]
    BY DEF AppendFails
  <1>2. CASE UNCHANGED << commitLog, commitLines, commitPoisoned >>
    BY <1>1, <1>2 DEF CommitEffect, Runs
  <1>3. CASE /\ commitPoisoned' = [commitPoisoned EXCEPT ![r] = TRUE]
             /\ UNCHANGED << commitLog, commitLines >>
    BY <1>1, <1>3 DEF CommitEffect
  <1>4. CASE /\ commitPoisoned' = [commitPoisoned EXCEPT ![r] = TRUE]
             /\ commitLog' = [commitLog EXCEPT ![r] = @ \cup {Record(i, e, TRUE)}]
             /\ commitLines' = [commitLines EXCEPT ![r] = @ + 1]
    <2>1. PICK x \in Receipt : x = Record(i, e, TRUE) /\ CommitAdded(r, x)
      BY <1>1, <1>4, CompletionAdded
    <2>2. CommitKept(r, x)
      BY <1>1, <1>4 DEF CommitKept
    <2> QED BY <2>1, <2>2 DEF CommitEffect
  <1> QED BY <1>2, <1>3, <1>4 DEF AppendFails

LEMMA CommitEffects ==
    ASSUME TypeOK, NEW r \in Peers, Member(r)
    PROVE  CommitEffect(r)
  <1>1. CASE \/ \E i \in Ids, e \in Events : Propose(r, i, e)
             \/ PrepareRefused(r) \/ AppendFrame(r) \/ FrameRejected(r)
             \/ FrameFails(r) \/ Fold(r)
             \/ \E e \in Events : Reconcile(r, e)
    BY <1>1 DEF CommitEffect, Runs, Propose, PrepareRefused, AppendFrame,
       FrameRejected, FrameFails, Fold, Reconcile, ledgers
  <1>2. CASE OpenDone(r)
    BY <1>2 DEF CommitEffect, Runs, OpenDone, ledgers
  <1>3. CASE \/ \E b \in ballots : SubmitVote(r, b)
             \/ \E b \in Ballot : VoteFails(r, b)
    BY <1>3 DEF CommitEffect, Runs, SubmitVote, VoteFails, ledgers
  <1>4. ASSUME NEW i \in Ids, NEW e \in Events, Import(r, i, e)
        PROVE  CommitEffect(r)
    <2>0. phase[r] = "up" /\ UNCHANGED << phase, commitPoisoned >>
      BY <1>4 DEF Import, Idle
    <2>1. CASE Close(r, i, e)
      BY <2>0, <2>1, Completed DEF Close
    <2>2. CASE UNCHANGED ledgers
      BY <2>0, <2>2 DEF CommitEffect, Runs, ledgers
    <2> QED BY <1>4, <2>1, <2>2 DEF Import
  <1>5. ASSUME NEW i \in Ids, NEW e \in Events, NEW a \in BOOLEAN,
               SignVote(r, i, e, a)
        PROVE  CommitEffect(r)
    <2>0. phase[r] = "up" /\ UNCHANGED << phase, commitPoisoned >>
      BY <1>5 DEF SignVote, Idle
    <2>1. CASE Close(r, i, e)
      BY <2>0, <2>1, Completed DEF Close
    <2>2. CASE UNCHANGED << commitLog, commitLines, receipts >>
      BY <2>0, <2>2 DEF CommitEffect, Runs
    <2> QED BY <1>5, <2>1, <2>2 DEF SignVote, ledgers
  <1>6. ASSUME NEW b \in ballots, SubmitToCommitted(r, b)
        PROVE  CommitEffect(r)
    <2>1. phase[r] = "up" /\ UNCHANGED << phase, commitPoisoned >> /\ Close(r, b.id, b.event)
      BY <1>6 DEF SubmitToCommitted, Admissible, Idle
    <2>2. b.id \in Ids /\ b.event \in Events
      BY DEF TypeOK, Ballot
    <2> QED BY <2>1, <2>2, Completed DEF Close
  <1>7. ASSUME NEW i \in Ids, NEW e \in Events, CloseFails(r, i, e)
        PROVE  CommitEffect(r)
    BY <1>7, CompletionFailed DEF CloseFails, Idle
  <1>8. ASSUME Doing(r, "quorum")
        PROVE  \E x \in Receipt : /\ x = Record(job[r].id, job[r].event, FALSE)
                                  /\ x.id = job[r].id /\ x.event = job[r].event
                                  /\ ~x.committed
    <2>1. job[r].id \in Ids /\ job[r].event \in Events
      BY <1>8, JobFields DEF Doing
    <2> QED BY <2>1, PrepareRecord
  <1>9. CASE Prepare(r)
    <2>0. Doing(r, "quorum") /\ UNCHANGED << phase, commitPoisoned >>
      BY <1>9 DEF Prepare
    <2>1. CASE UNCHANGED ledgers
      BY <2>0, <2>1 DEF CommitEffect, Runs, ledgers
    <2>2. CASE /\ job[r].id \notin Retained(r)
               /\ AppendRecord(r, Record(job[r].id, job[r].event, FALSE))
      <3>1. PICK x \in Receipt : /\ x = Record(job[r].id, job[r].event, FALSE)
                                 /\ x.id = job[r].id /\ x.event = job[r].event
                                 /\ ~x.committed
        BY <1>8, <2>0
      <3>2. AppendRecord(r, x)
        BY <2>2, <3>1
      <3>3. HasCapacity(r, x.id)
        BY <1>9, <3>1 DEF Prepare
      <3>4. CommitAdded(r, x)
        BY <2>0, <2>2, <3>1, <3>2, <3>3 DEF CommitAdded, AppendRecord, Doing
      <3>5. CommitKept(r, x)
        BY <2>0, <3>2 DEF CommitKept, AppendRecord
      <3> QED BY <3>4, <3>5 DEF CommitEffect
    <2> QED BY <1>9, <2>1, <2>2 DEF Prepare
  <1>10. CASE PrepareFails(r)
    <2>0. Doing(r, "quorum") /\ UNCHANGED phase /\ phase[r] = "up"
      BY <1>10 DEF PrepareFails, Doing
    <2>1. PICK x \in Receipt : /\ x = Record(job[r].id, job[r].event, FALSE)
                               /\ x.id = job[r].id /\ x.event = job[r].event
                               /\ ~x.committed
      BY <1>8, <2>0
    <2>2. AppendFails(r, x) /\ HasCapacity(r, x.id) /\ x.id \notin Retained(r)
      BY <1>10, <2>1 DEF PrepareFails
    <2>3. CASE UNCHANGED << commitLog, commitLines, commitPoisoned >>
      BY <2>0, <2>2, <2>3 DEF CommitEffect, Runs, AppendFails
    <2>4. CASE /\ commitPoisoned' = [commitPoisoned EXCEPT ![r] = TRUE]
               /\ UNCHANGED << commitLog, commitLines >>
      BY <2>0, <2>2, <2>4 DEF CommitEffect, AppendFails
    <2>5. CASE /\ commitPoisoned' = [commitPoisoned EXCEPT ![r] = TRUE]
               /\ commitLog' = [commitLog EXCEPT ![r] = @ \cup {x}]
               /\ commitLines' = [commitLines EXCEPT ![r] = @ + 1]
      <3>1. CommitAdded(r, x)
        BY <2>0, <2>1, <2>2, <2>5 DEF CommitAdded, AppendFails
      <3>2. CommitKept(r, x)
        BY <2>0, <2>2, <2>5 DEF CommitKept, AppendFails
      <3> QED BY <3>1, <3>2 DEF CommitEffect
    <2> QED BY <2>2, <2>3, <2>4, <2>5 DEF AppendFails
  <1>11. CASE Complete(r)
    <2>1. /\ Doing(r, "framed") /\ phase[r] = "up"
          /\ job[r].id \in Ids /\ job[r].event \in Events
      BY <1>11, JobFields DEF Complete, Doing
    <2> QED BY <1>11, <2>1, Completed DEF Complete
  <1>12. CASE CompleteFails(r)
    <2>1. /\ Doing(r, "framed") /\ phase[r] = "up" /\ UNCHANGED phase
          /\ job[r].id \in Ids /\ job[r].event \in Events
      BY <1>12, JobFields DEF CompleteFails, Doing
    <2>2. CASE AppendFails(r, Record(job[r].id, job[r].event, TRUE))
      BY <2>1, <2>2, CompletionFailed
    <2>3. CASE UNCHANGED << commitLog, commitLines, receipts, commitPoisoned, faults >>
      BY <2>1, <2>3 DEF CommitEffect, Runs
    <2> QED BY <1>12, <2>2, <2>3 DEF CompleteFails
  <1>13. ASSUME NEW i \in Ids, NEW e \in Events, Recover(r, i, e)
         PROVE  CommitEffect(r)
    BY <1>13, Completed DEF Recover, Close
  <1>14. ASSUME NEW i \in Ids, NEW e \in Events, RecoverFails(r, i, e)
         PROVE  CommitEffect(r)
    <2>1. /\ Down(r)
          /\ receipts' = [receipts EXCEPT ![r] = {}]
          /\ commitPoisoned' = [commitPoisoned EXCEPT ![r] = FALSE]
          /\ phase[r] = "recovering" /\ Closes(r, i, e)
      BY <1>14 DEF RecoverFails, Stop, Down
    <2>2. CASE UNCHANGED << commitLog, commitLines >>
      BY <2>1, <2>2 DEF CommitEffect
    <2>3. CASE /\ commitLog' = [commitLog EXCEPT ![r] = @ \cup {Record(i, e, TRUE)}]
               /\ commitLines' = [commitLines EXCEPT ![r] = @ + 1]
      <3>1. PICK x \in Receipt : x = Record(i, e, TRUE) /\ CommitAdded(r, x)
        BY <2>1, <2>3, CompletionAdded
      <3>2. CommitKept(r, x)
        BY <2>1 DEF CommitKept
      <3> QED BY <3>1, <3>2 DEF CommitEffect
    <2> QED BY <1>14, <2>2, <2>3 DEF RecoverFails
  <1>15. CASE Crash(r)
    BY <1>15 DEF CommitEffect, Crash, Stop, Down
  <1>16. CASE Open(r)
    BY <1>16 DEF CommitEffect, Open, Opens
  <1> QED
    BY <1>1, <1>2, <1>3, <1>4, <1>5, <1>6, <1>7, <1>9, <1>10, <1>11, <1>12, <1>13,
       <1>14, <1>15, <1>16
       DEF Member, Proposal, Voting, Commit, JournalStep, Restart

----------------------------------------------------------------------------
(* Memory follows the files until a write fails half-way.                  *)

MemoryInv ==
    \A r \in Peers :
        /\ locks[r] \subseteq voteLog[r]
        /\ phase[r] # "down" /\ ~votePoisoned[r] => locks[r] = voteLog[r]
        /\ receipts[r] \subseteq commitLog[r]
        /\ phase[r] # "down" /\ ~commitPoisoned[r] => receipts[r] = commitLog[r]
        /\ phase[r] # "up" => ~commitPoisoned[r]

LEMMA MemoryInit == Init => MemoryInv
  BY DEF Init, MemoryInv

LEMMA MemoryStep == TypeOK /\ MemoryInv /\ [Next]_vars => MemoryInv'
  <1> SUFFICES ASSUME TypeOK, MemoryInv, [Next]_vars PROVE MemoryInv'
    OBVIOUS
  <1>1. CASE UNCHANGED vars
    BY <1>1 DEF vars, MemoryInv
  <1>2. ASSUME NEW r \in Peers, Member(r) PROVE MemoryInv'
    <2>1. VoteEffect(r) /\ CommitEffect(r)
      BY <1>2, VoteEffects, CommitEffects
    <2> SUFFICES ASSUME NEW q \in Peers
                 PROVE  (/\ locks[q] \subseteq voteLog[q]
                         /\ phase[q] # "down" /\ ~votePoisoned[q] => locks[q] = voteLog[q]
                         /\ receipts[q] \subseteq commitLog[q]
                         /\ phase[q] # "down" /\ ~commitPoisoned[q] => receipts[q] = commitLog[q]
                         /\ phase[q] # "up" => ~commitPoisoned[q])'
      BY DEF MemoryInv
    <2>2. /\ locks'[q] \subseteq voteLog'[q]
          /\ phase'[q] # "down" /\ ~votePoisoned'[q] => locks'[q] = voteLog'[q]
      <3> DEFINE Goal == /\ locks'[q] \subseteq voteLog'[q]
                         /\ phase'[q] # "down" /\ ~votePoisoned'[q]
                               => locks'[q] = voteLog'[q]
      <3>1. CASE Runs(r) /\ UNCHANGED << voteLog, voteLines, locks, votePoisoned >>
        BY <3>1 DEF Runs, MemoryInv, TypeOK
      <3>2. ASSUME NEW b \in Ballot, VoteAdded(r, b),
                   locks' = [locks EXCEPT ![r] = @ \cup {b}], UNCHANGED votePoisoned
            PROVE  Goal
        BY <3>2 DEF VoteAdded, MemoryInv, TypeOK
      <3>3. ASSUME NEW b \in Ballot, VoteAdded(r, b), UNCHANGED locks,
                   votePoisoned' = [votePoisoned EXCEPT ![r] = TRUE]
            PROVE  Goal
        BY <3>3 DEF VoteAdded, MemoryInv, TypeOK
      <3>4. CASE /\ votePoisoned' = [votePoisoned EXCEPT ![r] = TRUE]
                 /\ UNCHANGED << voteLog, voteLines, locks, phase >>
        BY <3>4 DEF MemoryInv, TypeOK
      <3>5. CASE /\ Down(r)
                 /\ locks' = [locks EXCEPT ![r] = {}]
                 /\ votePoisoned' = [votePoisoned EXCEPT ![r] = FALSE]
                 /\ UNCHANGED << voteLog, voteLines >>
        BY <3>5 DEF Down, MemoryInv, TypeOK
      <3>6. CASE /\ Opens(r)
                 /\ locks' = [locks EXCEPT ![r] = voteLog[r]]
                 /\ UNCHANGED << voteLog, voteLines, votePoisoned >>
        BY <3>6 DEF Opens, MemoryInv, TypeOK
      <3> QED BY <2>1, <3>1, <3>2, <3>3, <3>4, <3>5, <3>6 DEF VoteEffect
    <2>3. /\ receipts'[q] \subseteq commitLog'[q]
          /\ phase'[q] # "down" /\ ~commitPoisoned'[q] => receipts'[q] = commitLog'[q]
          /\ phase'[q] # "up" => ~commitPoisoned'[q]
      <3> DEFINE Goal == /\ receipts'[q] \subseteq commitLog'[q]
                         /\ phase'[q] # "down" /\ ~commitPoisoned'[q]
                               => receipts'[q] = commitLog'[q]
                         /\ phase'[q] # "up" => ~commitPoisoned'[q]
      <3>1. CASE Runs(r) /\ UNCHANGED << commitLog, commitLines, receipts, commitPoisoned >>
        BY <3>1 DEF Runs, MemoryInv, TypeOK
      <3>2. ASSUME NEW x \in Receipt, CommitAdded(r, x), UNCHANGED << commitPoisoned, phase >>,
                   receipts' = [receipts EXCEPT ![r] = @ \cup {x}]
            PROVE  Goal
        <4>1. commitLog' = [commitLog EXCEPT ![r] = @ \cup {x}]
          BY <3>2 DEF CommitAdded
        <4> QED BY <3>2, <4>1 DEF MemoryInv, TypeOK
      <3>3. ASSUME NEW x \in Receipt, CommitAdded(r, x), UNCHANGED << receipts, phase >>,
                   phase[r] = "up",
                   commitPoisoned' = [commitPoisoned EXCEPT ![r] = TRUE]
            PROVE  Goal
        <4>1. commitLog' = [commitLog EXCEPT ![r] = @ \cup {x}]
          BY <3>3 DEF CommitAdded
        <4> QED BY <3>3, <4>1 DEF MemoryInv, TypeOK
      <3>4. ASSUME NEW x \in Receipt, CommitAdded(r, x) \/ UNCHANGED commitLog, Down(r),
                   receipts' = [receipts EXCEPT ![r] = {}],
                   commitPoisoned' = [commitPoisoned EXCEPT ![r] = FALSE]
            PROVE  Goal
        <4>1. commitLog' = [commitLog EXCEPT ![r] = @ \cup {x}] \/ commitLog' = commitLog
          BY <3>4 DEF CommitAdded
        <4> QED BY <3>4, <4>1 DEF Down, MemoryInv, TypeOK
      <3>5. CASE /\ phase[r] = "up"
                 /\ commitPoisoned' = [commitPoisoned EXCEPT ![r] = TRUE]
                 /\ UNCHANGED << commitLog, commitLines, receipts, phase >>
        BY <3>5 DEF MemoryInv, TypeOK
      <3>6. CASE /\ Down(r)
                 /\ receipts' = [receipts EXCEPT ![r] = {}]
                 /\ commitPoisoned' = [commitPoisoned EXCEPT ![r] = FALSE]
                 /\ UNCHANGED << commitLog, commitLines >>
        BY <3>6 DEF Down, MemoryInv, TypeOK
      <3>7. CASE /\ Opens(r)
                 /\ receipts' = [receipts EXCEPT ![r] = commitLog[r]]
                 /\ UNCHANGED << commitLog, commitLines, commitPoisoned >>
        BY <3>7 DEF Opens, MemoryInv, TypeOK
      <3> QED BY <2>1, <3>1, <3>2, <3>3, <3>4, <3>5, <3>6, <3>7 DEF CommitEffect, CommitKept
    <2> QED BY <2>2, <2>3
  <1> QED BY <1>1, <1>2 DEF Next

----------------------------------------------------------------------------
(* Votes are bound: a ledger has one record for each proposal and voter,   *)
(* and whatever vote is anywhere is in the ledger of the voter.            *)

VoteInv ==
    /\ \A r \in Peers : \A b, c \in voteLog[r] :
          b.id = c.id /\ b.peer = c.peer => b = c
    /\ \A r \in Peers : \A b \in voteLog[r] : b \in voteLog[b.peer]
    /\ \A b \in ballots : b \in voteLog[b.peer]

LEMMA VoteInit == Init => VoteInv
  BY DEF Init, VoteInv

\* No ledger loses a record.
LEMMA VotesStay ==
    ASSUME TypeOK, NEW r \in Peers, Member(r), NEW q \in Peers
    PROVE  voteLog[q] \subseteq voteLog'[q] /\ commitLog[q] \subseteq commitLog'[q]
  <1>1. voteLog[q] \subseteq voteLog'[q]
    BY VoteEffects DEF VoteEffect, VoteAdded, TypeOK
  <1>2. commitLog[q] \subseteq commitLog'[q]
    BY CommitEffects DEF CommitEffect, CommitAdded, TypeOK
  <1> QED BY <1>1, <1>2

\* A signature that a step returns is in the ledger of the member that made it.
LEMMA BallotStep ==
    ASSUME TypeOK, MemoryInv, NEW r \in Peers, Member(r), NEW b \in ballots'
    PROVE  b \in ballots \/ (b.peer = r /\ b \in voteLog'[r])
  <1>1. CASE UNCHANGED ballots
    BY <1>1
  <1>2. ASSUME NEW i \in Ids, NEW e \in Events, NEW a \in BOOLEAN,
               SignVote(r, i, e, a)
        PROVE  b \in ballots \/ (b.peer = r /\ b \in voteLog'[r])
    <2> DEFINE w == Vote(r, i, e, a)
    <2>0. w.peer = r
      BY DEF Vote
    <2>1. PICK v : v = w /\ v.peer = r
      BY <2>0, Zenon
    <2>2. b \in ballots \/ b = v
      BY <1>2, <2>1 DEF SignVote
    <2>3. b \notin ballots => v \in locks[r] \/ Lock(r, v)
      <3>1. ballots' = ballots \cup ({v} \cap LockOf(r, i, r)) => b \in ballots \/ v \in locks[r]
        BY DEF LockOf
      <3> QED BY <1>2, <2>1, <3>1 DEF SignVote
    <2>4. locks[r] \subseteq voteLog'[r]
      BY VotesStay DEF MemoryInv
    <2>5. Lock(r, v) => v \in voteLog'[r]
      BY DEF Lock, TypeOK
    <2> QED BY <2>1, <2>2, <2>3, <2>4, <2>5
  <1>3. \/ UNCHANGED ballots
        \/ \E i \in Ids, e \in Events, a \in BOOLEAN : SignVote(r, i, e, a)
    BY DEF Member, Proposal, Voting, Commit, JournalStep, Restart, Propose, Import,
       SubmitVote, SubmitToCommitted, VoteFails, CloseFails, Prepare, PrepareRefused,
       PrepareFails, AppendFrame, FrameRejected, FrameFails, Complete, CompleteFails,
       Fold, Reconcile, Crash, Open, OpenDone, Recover, RecoverFails
  <1> QED BY <1>1, <1>2, <1>3

LEMMA VoteStep == TypeOK /\ MemoryInv /\ VoteInv /\ [Next]_vars => VoteInv'
  <1> SUFFICES ASSUME TypeOK, MemoryInv, VoteInv, [Next]_vars PROVE VoteInv'
    OBVIOUS
  <1>1. CASE UNCHANGED vars
    BY <1>1 DEF vars, VoteInv
  <1>2. ASSUME NEW r \in Peers, Member(r) PROVE VoteInv'
    <2>1. VoteEffect(r)
      BY <1>2, VoteEffects
    <2>2. TypeOK'
      BY <1>2, TypeStep DEF Next
    <2>3. \/ UNCHANGED voteLog
          \/ \E v \in Ballot : VoteAdded(r, v)
      BY <2>1 DEF VoteEffect
    <2>4. ASSUME NEW v \in Ballot, VoteAdded(r, v)
          PROVE  /\ voteLog' = [voteLog EXCEPT ![r] = @ \cup {v}]
                 /\ \A b \in voteLog[r] : ~(b.id = v.id /\ b.peer = v.peer)
                 /\ v.peer = r \/ v \in voteLog[v.peer]
      BY <2>4 DEF VoteAdded, LockOf, MemoryInv, VoteInv
    <2>5. ASSUME NEW q \in Peers, NEW b \in voteLog'[q], NEW c \in voteLog'[q],
                 b.id = c.id, b.peer = c.peer
          PROVE  b = c
      <3>1. CASE UNCHANGED voteLog
        BY <2>5, <3>1 DEF VoteInv
      <3>2. ASSUME NEW v \in Ballot, VoteAdded(r, v) PROVE b = c
        <4>1. /\ voteLog' = [voteLog EXCEPT ![r] = @ \cup {v}]
              /\ \A w \in voteLog[r] : ~(w.id = v.id /\ w.peer = v.peer)
          BY <3>2, <2>4
        <4>2. b \in voteLog[q] \/ (q = r /\ b = v)
          BY <4>1 DEF TypeOK
        <4>3. c \in voteLog[q] \/ (q = r /\ c = v)
          BY <4>1 DEF TypeOK
        <4> QED BY <2>5, <4>1, <4>2, <4>3 DEF VoteInv
      <3> QED BY <2>3, <3>1, <3>2
    <2>6. ASSUME NEW q \in Peers, NEW b \in voteLog'[q]
          PROVE  b \in voteLog'[b.peer]
      <3>0. b.peer \in Peers
        BY <2>2 DEF TypeOK, Ballot
      <3>1. voteLog[b.peer] \subseteq voteLog'[b.peer]
        BY <1>2, <3>0, VotesStay
      <3>2. CASE UNCHANGED voteLog
        BY <3>2 DEF VoteInv
      <3>3. ASSUME NEW v \in Ballot, VoteAdded(r, v) PROVE b \in voteLog'[b.peer]
        <4>1. /\ voteLog' = [voteLog EXCEPT ![r] = @ \cup {v}]
              /\ v.peer = r \/ v \in voteLog[v.peer]
          BY <3>3, <2>4
        <4>2. b \in voteLog[q] \/ (q = r /\ b = v)
          BY <4>1 DEF TypeOK
        <4>3. v \in voteLog'[r]
          BY <4>1 DEF TypeOK
        <4> QED BY <3>1, <4>1, <4>2, <4>3 DEF VoteInv
      <3> QED BY <2>3, <3>2, <3>3
    <2>7. ASSUME NEW b \in ballots' PROVE b \in voteLog'[b.peer]
      <3>1. b \in ballots \/ (b.peer = r /\ b \in voteLog'[r])
        BY <1>2, BallotStep
      <3>2. b.peer \in Peers
        BY <2>2 DEF TypeOK, Ballot
      <3>3. voteLog[b.peer] \subseteq voteLog'[b.peer]
        BY <1>2, <3>2, VotesStay
      <3> QED BY <3>1, <3>3 DEF VoteInv
    <2> QED BY <2>5, <2>6, <2>7 DEF VoteInv
  <1> QED BY <1>1, <1>2 DEF Next

\* sign_vote: a member never gives out signatures for two choices of a proposal,
\* however many restarts and failed ledger writes lie between the calls.
THEOREM VotesAreBound == Spec => []NoEquivocation
  <1>1. TypeOK /\ VoteInv => NoEquivocation
    BY DEF TypeOK, Ballot, VoteInv, NoEquivocation
  <1>2. Init => TypeOK /\ MemoryInv /\ VoteInv
    BY TypeInit, MemoryInit, VoteInit
  <1>3. TypeOK /\ MemoryInv /\ VoteInv /\ [Next]_vars => (TypeOK /\ MemoryInv /\ VoteInv)'
    BY TypeStep, MemoryStep, VoteStep
  <1> QED BY <1>1, <1>2, <1>3, PTL DEF Spec

----------------------------------------------------------------------------
(* A commit is under way, or was made, only for an event to which a        *)
(* majority is bound.                                                      *)

MajorityInv ==
    /\ \A r \in Peers : job[r] # Free => MajorityBound(job[r].id, job[r].event)
    /\ CommitNeedsMajority

LEMMA MajorityInit == Init => MajorityInv
  BY DEF Init, MajorityInv, CommitNeedsMajority

LEMMA BoundFinite ==
    ASSUME NEW i, NEW e
    PROVE  IsFiniteSet(Bound(i, e)) /\ Cardinality(Bound(i, e)) \in Nat
  <1>1. Bound(i, e) \subseteq Peers
    BY DEF Bound
  <1> QED BY <1>1, ConstantsAssumption, FS_Subset, FS_CardinalityType

\* No member is ever released from its vote.
LEMMA BoundGrows ==
    ASSUME TypeOK, NEW r \in Peers, Member(r), NEW i, NEW e, MajorityBound(i, e)
    PROVE  MajorityBound(i, e)'
  <1>1. Bound(i, e) \subseteq Bound(i, e)'
    BY VotesStay DEF Bound
  <1>2. Bound(i, e)' \subseteq Peers
    BY DEF Bound
  <1>3. IsFiniteSet(Bound(i, e)')
    BY <1>2, ConstantsAssumption, FS_Subset
  <1>4. Cardinality(Bound(i, e)) <= Cardinality(Bound(i, e)')
    BY <1>1, <1>3, FS_Subset
  <1>5. /\ Cardinality(Bound(i, e)) \in Nat /\ Cardinality(Bound(i, e)') \in Nat
        /\ Cardinality(Peers) \in Nat
    BY <1>3, BoundFinite, ConstantsAssumption, FS_CardinalityType
  <1> QED BY <1>4, <1>5 DEF MajorityBound

\* submit_vote counts only votes for its event, and each is bound at its voter.
LEMMA QuorumIsBound ==
    ASSUME TypeOK', MemoryInv', VoteInv', NEW r \in Peers, NEW b \in ballots,
           TypeOK, SubmitVote(r, b), IsQuorum(Approvals(locks'[r], b.id))
    PROVE  MajorityBound(b.id, b.event)'
  <1>1. ASSUME NEW c \in locks'[r], c.id = b.id PROVE c.event = b.event
    <2>1. c \in locks[r] \/ c = b
      BY <1>1 DEF SubmitVote, Lock, ledgers, TypeOK
    <2>2. \A d \in locks[r] : d.id = b.id => d.event = b.event
      BY DEF SubmitVote, Admissible, Unbound
    <2> QED BY <1>1, <2>1, <2>2
  <1>2. Approvals(locks'[r], b.id) \subseteq Bound(b.id, b.event)'
    <2> SUFFICES ASSUME NEW c \in locks'[r], c.id = b.id, c.approve
                 PROVE  c.peer \in Bound(b.id, b.event)'
      BY DEF Approvals
    <2>1. c \in voteLog'[r]
      BY DEF MemoryInv
    <2>2. c \in voteLog'[c.peer]
      BY <2>1 DEF VoteInv
    <2>3. c \in Ballot
      BY DEF TypeOK
    <2>4. c.peer \in Peers
      BY <2>3 DEF Ballot
    <2>5. c = Vote(c.peer, b.id, b.event, TRUE)
      <3>1. c.event = b.event
        BY <1>1
      <3>2. c = [peer |-> c.peer, id |-> c.id, event |-> c.event, approve |-> c.approve]
        BY <2>3 DEF Ballot
      <3>3. c.approve = TRUE
        BY <2>3 DEF Ballot
      <3> QED BY <3>1, <3>2, <3>3 DEF Vote
    <2> QED BY <2>2, <2>4, <2>5 DEF Bound
  <1>3. Bound(b.id, b.event)' \subseteq Peers
    BY DEF Bound
  <1>4. IsFiniteSet(Bound(b.id, b.event)')
    BY <1>3, ConstantsAssumption, FS_Subset
  <1>5. /\ Cardinality(Approvals(locks'[r], b.id)) <= Cardinality(Bound(b.id, b.event)')
        /\ IsFiniteSet(Approvals(locks'[r], b.id))
    BY <1>2, <1>4, FS_Subset
  <1>6. /\ Cardinality(Approvals(locks'[r], b.id)) \in Nat
        /\ Cardinality(Bound(b.id, b.event)') \in Nat
        /\ Cardinality(Peers) \in Nat
    BY <1>4, <1>5, ConstantsAssumption, FS_CardinalityType
  <1>7. ASSUME NEW n \in Nat, NEW k \in Nat, k > n \div 2 PROVE 2 * k > n
    BY <1>7
  <1> QED BY <1>5, <1>6, <1>7 DEF IsQuorum, MajorityBound

\* Where the job of a member comes from.
LEMMA JobStep ==
    ASSUME TypeOK, NEW r \in Peers, Member(r), NEW q \in Peers, job'[q] # Free
    PROVE  \/ /\ job[q] # Free
              /\ job'[q].id = job[q].id /\ job'[q].event = job[q].event
           \/ /\ q = r
              /\ \E b \in ballots :
                    /\ SubmitVote(r, b)
                    /\ IsQuorum(Approvals(locks'[r], b.id))
                    /\ job'[r].id = b.id /\ job'[r].event = b.event
  <1>1. CASE UNCHANGED job
    BY <1>1
  <1>2. CASE job' = [job EXCEPT ![r] = Free]
    BY <1>2 DEF TypeOK
  <1>3. ASSUME NEW step, Step(r, step), job[r] # Free
        PROVE  job[q] # Free /\ job'[q].id = job[q].id /\ job'[q].event = job[q].event
    BY <1>3 DEF Step, At, TypeOK
  <1>4. ASSUME NEW b \in ballots, SubmitVote(r, b)
        PROVE  \/ /\ job[q] # Free
                  /\ job'[q].id = job[q].id /\ job'[q].event = job[q].event
               \/ /\ q = r
                  /\ IsQuorum(Approvals(locks'[r], b.id))
                  /\ job'[r].id = b.id /\ job'[r].event = b.event
    <2>1. CASE IsQuorum(Approvals(locks'[r], b.id))
      <3>1. job' = [job EXCEPT ![r] = At("quorum", b.id, b.event)]
        BY <1>4, <2>1 DEF SubmitVote
      <3> QED BY <2>1, <3>1 DEF At, TypeOK
    <2>2. CASE ~IsQuorum(Approvals(locks'[r], b.id))
      <3>1. job' = [job EXCEPT ![r] = Free]
        BY <1>4, <2>2 DEF SubmitVote
      <3> QED BY <3>1 DEF TypeOK
    <2> QED BY <2>1, <2>2
  <1>5. \/ UNCHANGED job
        \/ job' = [job EXCEPT ![r] = Free]
        \/ job[r] # Free /\ (Step(r, "prepared") \/ Step(r, "framed"))
        \/ \E b \in ballots : SubmitVote(r, b)
    BY DEF Member, Proposal, Voting, Commit, JournalStep, Restart, Propose, Import,
       SignVote, SubmitToCommitted, VoteFails, CloseFails, Prepare, PrepareRefused,
       PrepareFails, AppendFrame, FrameRejected, FrameFails, Complete, CompleteFails,
       Fold, Reconcile, Crash, Open, OpenDone, Recover, RecoverFails, Stop, Return, Doing
  <1> QED BY <1>1, <1>2, <1>3, <1>4, <1>5

\* Only a prepared commit appends an event, its own.
LEMMA AppendedStep ==
    ASSUME TypeOK, NEW r \in Peers, Member(r)
    PROVE  \/ UNCHANGED << appended, twice >>
           \/ Doing(r, "prepared") /\ Framed(r)
  BY DEF Member, Proposal, Voting, Commit, JournalStep, Restart, Propose, Import,
     SignVote, SubmitVote, SubmitToCommitted, VoteFails, CloseFails, Prepare,
     PrepareRefused, PrepareFails, AppendFrame, FrameRejected, FrameFails, Complete,
     CompleteFails, Fold, Reconcile, Crash, Open, OpenDone, Recover, RecoverFails,
     journal

\* A receipt to be completed is already retained for that event.
LEMMA ClosesRetained ==
    ASSUME NEW r \in Peers, NEW i, NEW e, Closes(r, i, e)
    PROVE  \E y \in receipts[r] : y.id = i /\ y.event = e
  BY DEF Closes, Fits, Unfinished, Retained

LEMMA MajorityStep ==
    TypeOK /\ MemoryInv /\ VoteInv /\ MajorityInv /\ [Next]_vars => MajorityInv'
  <1> SUFFICES ASSUME TypeOK, MemoryInv, VoteInv, MajorityInv, [Next]_vars
               PROVE  MajorityInv'
    OBVIOUS
  <1>1. CASE UNCHANGED vars
    BY <1>1 DEF vars, MajorityInv, CommitNeedsMajority, MajorityBound, Bound
  <1>2. ASSUME NEW r \in Peers, Member(r) PROVE MajorityInv'
    <2>0. TypeOK' /\ MemoryInv' /\ VoteInv'
      BY TypeStep, MemoryStep, VoteStep
    <2>1. ASSUME NEW q \in Peers, job'[q] # Free
          PROVE  MajorityBound(job[q].id, job[q].event)'
      <3>1. CASE /\ job[q] # Free
                 /\ job'[q].id = job[q].id /\ job'[q].event = job[q].event
        <4>1. MajorityBound(job[q].id, job[q].event)
          BY <3>1 DEF MajorityInv
        <4>2. PICK i, e : i = job[q].id /\ e = job[q].event
          OBVIOUS
        <4>3. MajorityBound(i, e)'
          BY <1>2, <4>1, <4>2, BoundGrows
        <4>4. i = job'[q].id /\ e = job'[q].event
          BY <3>1, <4>2
        <4> QED BY <4>3, <4>4
      <3>2. ASSUME q = r, NEW b \in ballots, SubmitVote(r, b),
                   IsQuorum(Approvals(locks'[r], b.id)),
                   job'[r].id = b.id, job'[r].event = b.event
            PROVE  MajorityBound(job[q].id, job[q].event)'
        <4>1. MajorityBound(b.id, b.event)'
          BY <2>0, <3>2, QuorumIsBound
        <4> QED BY <3>2, <4>1
      <3> QED BY <1>2, <2>1, <3>1, <3>2, JobStep
    <2>2. ASSUME NEW q \in Peers, NEW v \in appended'[q]
          PROVE  MajorityBound(v.id, v.event)'
      <3>1. CASE v \in appended[q]
        <4>1. MajorityBound(v.id, v.event)
          BY <3>1 DEF MajorityInv, CommitNeedsMajority
        <4> QED BY <1>2, <4>1, BoundGrows
      <3>2. CASE /\ job[r] # Free
                 /\ v = Env(job[r].id, job[r].event)
        <4>1. PICK i, e : i = job[r].id /\ e = job[r].event
          OBVIOUS
        <4>2. MajorityBound(i, e)
          BY <3>2, <4>1 DEF MajorityInv
        <4>3. MajorityBound(i, e)'
          BY <1>2, <4>2, BoundGrows
        <4>4. v.id = i /\ v.event = e
          BY <3>2, <4>1 DEF Env
        <4> QED BY <4>3, <4>4
      <3>3. Framed(r) => v \in appended[q] \/ v = Env(job[r].id, job[r].event)
        BY DEF Framed, TypeOK
      <3> QED BY <1>2, <3>1, <3>2, <3>3, AppendedStep DEF Doing
    <2>3. ASSUME NEW q \in Peers, NEW x \in commitLog'[q]
          PROVE  MajorityBound(x.id, x.event)'
      <3>1. MajorityBound(x.id, x.event)
        <4>1. CASE x \in commitLog[q]
          BY <4>1 DEF MajorityInv, CommitNeedsMajority
        <4>2. CASE CommitAdded(r, x)
          <5>1. CASE Closes(r, x.id, x.event)
            BY <5>1, ClosesRetained DEF MemoryInv, MajorityInv, CommitNeedsMajority
          <5>2. CASE job[r] # Free /\ job[r].id = x.id /\ job[r].event = x.event
            BY <5>2 DEF MajorityInv
          <5> QED BY <4>2, <5>1, <5>2 DEF CommitAdded, Doing
        <4>3. x \in commitLog[q] \/ CommitAdded(r, x)
          <5>1. CommitEffect(r)
            BY <1>2, CommitEffects
          <5>2. UNCHANGED commitLog \/ \E y \in Receipt : CommitAdded(r, y)
            BY <5>1 DEF CommitEffect
          <5>3. ASSUME NEW y \in Receipt, CommitAdded(r, y)
                PROVE  x \in commitLog[q] \/ CommitAdded(r, x)
            <6>1. commitLog' = [commitLog EXCEPT ![r] = @ \cup {y}]
              BY <5>3 DEF CommitAdded
            <6>2. x \in commitLog[q] \/ x = y
              BY <6>1 DEF TypeOK
            <6> QED BY <5>3, <6>2
          <5> QED BY <5>2, <5>3
        <4> QED BY <4>1, <4>2, <4>3
      <3> QED BY <1>2, <3>1, BoundGrows
    <2> QED BY <2>1, <2>2, <2>3 DEF MajorityInv, CommitNeedsMajority
  <1> QED BY <1>1, <1>2 DEF Next

\* submit_vote: whatever was appended or receipted anywhere, a strict majority of
\* the roster holds its own durable lock for it.
THEOREM CommitsHaveMajority == Spec => []CommitNeedsMajority
  <1>1. MajorityInv => CommitNeedsMajority
    BY DEF MajorityInv
  <1>2. Init => TypeOK /\ MemoryInv /\ VoteInv /\ MajorityInv
    BY TypeInit, MemoryInit, VoteInit, MajorityInit
  <1>3. TypeOK /\ MemoryInv /\ VoteInv /\ MajorityInv /\ [Next]_vars
           => (TypeOK /\ MemoryInv /\ VoteInv /\ MajorityInv)'
    BY TypeStep, MemoryStep, VoteStep, MajorityStep
  <1> QED BY <1>1, <1>2, <1>3, PTL DEF Spec

\* Two majorities share a member, which is bound to one event only.
LEMMA Agreement ==
    ASSUME VoteInv, NEW i \in Ids, NEW e, NEW f, MajorityBound(i, e), MajorityBound(i, f)
    PROVE  e = f
  <1> DEFINE A == Bound(i, e)
             B == Bound(i, f)
  <1>1. /\ IsFiniteSet(A) /\ Cardinality(A) \in Nat
        /\ IsFiniteSet(B) /\ Cardinality(B) \in Nat
    BY BoundFinite
  <1>2. A \cup B \in SUBSET Peers /\ Cardinality(Peers) \in Nat
    BY ConstantsAssumption, FS_CardinalityType DEF Bound
  <1>3. Cardinality(A \cup B) <= Cardinality(Peers)
    BY <1>2, ConstantsAssumption, FS_Subset
  <1>4. Cardinality(A \cup B) = Cardinality(A) + Cardinality(B) - Cardinality(A \cap B)
    BY <1>1, FS_Union
  <1>5. 2 * Cardinality(A) > Cardinality(Peers) /\ 2 * Cardinality(B) > Cardinality(Peers)
    BY DEF MajorityBound
  <1>6. A \cap B # {}
    <2> SUFFICES ASSUME A \cap B = {} PROVE FALSE
      OBVIOUS
    <2>1. Cardinality(A \cap B) = 0
      BY FS_EmptySet
    <2> HIDE DEF A, B
    <2> QED BY <1>1, <1>2, <1>3, <1>4, <1>5, <2>1
  <1>7. PICK p \in Peers : Vote(p, i, e, TRUE) \in voteLog[p] /\ Vote(p, i, f, TRUE) \in voteLog[p]
    BY <1>6 DEF Bound
  <1>8. Vote(p, i, e, TRUE) = Vote(p, i, f, TRUE)
    <2>1. /\ Vote(p, i, e, TRUE).id = Vote(p, i, f, TRUE).id
          /\ Vote(p, i, e, TRUE).peer = Vote(p, i, f, TRUE).peer
      BY DEF Vote
    <2> QED BY <1>7, <2>1, Zenon DEF VoteInv
  <1> QED BY <1>8 DEF Vote

\* A step of a member decides an event, or decides nothing new.
LEMMA DecisionStep ==
    ASSUME TypeOK, VoteInv, MajorityInv, NEW r \in Peers, Member(r)
    PROVE  D!Next \/ UNCHANGED Decided
  <1>1. CASE UNCHANGED appended
    BY <1>1 DEF Decided
  <1>2. CASE Doing(r, "prepared") /\ Framed(r)
    <2>1. PICK i, e : i = job[r].id /\ e = job[r].event
      OBVIOUS
    <2>2. i \in Ids /\ e \in Events /\ MajorityBound(i, e)
      BY <1>2, <2>1, JobFields DEF Doing, MajorityInv
    <2>3. appended' = [appended EXCEPT ![r] = @ \cup {Env(i, e)}]
      BY <1>2, <2>1 DEF Framed
    <2>4. ASSUME NEW q \in Peers, NEW j \in Ids, NEW f \in Events
          PROVE  Env(j, f) \in appended'[q]
                    <=> Env(j, f) \in appended[q] \/ (q = r /\ j = i /\ f = e)
      <3>1. Env(j, f) = Env(i, e) <=> j = i /\ f = e
        BY DEF Env
      <3> QED BY <2>3, <3>1 DEF TypeOK
    <2>5. ASSUME NEW j \in Ids, NEW f \in Events
          PROVE  (\E q \in Peers : Env(j, f) \in appended'[q])
                    <=> (\E q \in Peers : Env(j, f) \in appended[q]) \/ (j = i /\ f = e)
      BY <2>4
    <2>6. Decided' = [Decided EXCEPT ![i] = @ \cup {e}]
      <3>1. ASSUME NEW j \in Ids PROVE Decided'[j] = IF j = i THEN Decided[i] \cup {e} ELSE Decided[j]
        BY <2>2, <2>5 DEF Decided
      <3>2. Decided' = [j \in Ids |-> Decided'[j]] /\ Decided = [j \in Ids |-> Decided[j]]
        BY DEF Decided
      <3> QED BY <3>1, <3>2
    <2>7. \A f \in Decided[i] : f = e
      <3> SUFFICES ASSUME NEW f \in Decided[i] PROVE f = e
        OBVIOUS
      <3>1. PICK q \in Peers : Env(i, f) \in appended[q]
        BY <2>2 DEF Decided
      <3>2. MajorityBound(i, f)
        <4>1. Env(i, f).id = i /\ Env(i, f).event = f
          BY DEF Env
        <4>2. MajorityBound(Env(i, f).id, Env(i, f).event)
          BY <3>1 DEF MajorityInv, CommitNeedsMajority
        <4> QED BY <4>1, <4>2
      <3> QED BY <2>2, <3>2, Agreement
    <2>8. CASE Decided[i] = {}
      <3>1. Decided' = [Decided EXCEPT ![i] = {e}]
        BY <2>6, <2>8
      <3> QED BY <2>2, <2>8, <3>1 DEF D!Next, D!Decide
    <2>9. CASE Decided[i] # {}
      <3>1. Decided[i] \cup {e} = Decided[i]
        BY <2>7, <2>9
      <3>2. Decided = [j \in Ids |-> Decided[j]]
        BY DEF Decided
      <3> QED BY <2>2, <2>6, <3>1, <3>2
    <2> QED BY <2>8, <2>9
  <1> QED BY <1>1, <1>2, AppendedStep

\* Consensus implements Decision: the members of any roster commit at most one
\* event under a proposal id.
THEOREM DecidesOnce == Spec => ImplementsDecision
  <1>1. Init => D!Init
    BY DEF Init, D!Init, Decided
  <1>2. TypeOK /\ VoteInv /\ MajorityInv /\ [Next]_vars => [D!Next]_Decided
    <2>1. UNCHANGED vars => UNCHANGED Decided
      BY DEF vars, Decided
    <2> QED BY <2>1, DecisionStep DEF Next
  <1>3. Init => TypeOK /\ MemoryInv /\ VoteInv /\ MajorityInv
    BY TypeInit, MemoryInit, VoteInit, MajorityInit
  <1>4. TypeOK /\ MemoryInv /\ VoteInv /\ MajorityInv /\ [Next]_vars
           => (TypeOK /\ MemoryInv /\ VoteInv /\ MajorityInv)'
    BY TypeStep, MemoryStep, VoteStep, MajorityStep
  <1> QED BY <1>1, <1>2, <1>3, <1>4, PTL DEF Spec, ImplementsDecision, D!Spec

----------------------------------------------------------------------------
(* Receipts against the journal.                                           *)

\* A completion receipt, and a job that is about to write one, speak of an event
\* that was in the journal.
LogInv ==
    \A r \in Peers :
        /\ frames[r] \subseteq logged[r]
        /\ job[r] # Free /\ job[r].at = "framed" => job[r].event \in logged[r]
        /\ \A x \in commitLog[r] : x.committed => x.event \in logged[r]

LEMMA LogInit == Init => LogInv
  BY DEF Init, LogInv

\* What a step does to the journal.
LEMMA JournalEffects ==
    ASSUME TypeOK, NEW r \in Peers, Member(r)
    PROVE  \/ UNCHANGED journal
           \/ Doing(r, "prepared") /\ Framed(r)
           \/ Idle(r) /\ UNCHANGED << job, receipts, appended, twice, phase, logged >>
                 /\ frames' = [frames EXCEPT ![r] = {}]
           \/ Idle(r) /\ UNCHANGED << job, receipts, appended, twice, phase >>
                 /\ \E e \in Events :
                       /\ frames' = [frames EXCEPT ![r] = @ \cup {e}]
                       /\ logged' = [logged EXCEPT ![r] = @ \cup {e}]
  BY DEF Member, Proposal, Voting, Commit, JournalStep, Restart, Propose, Import,
     SignVote, SubmitVote, SubmitToCommitted, VoteFails, CloseFails, Prepare,
     PrepareRefused, PrepareFails, AppendFrame, FrameRejected, FrameFails, Complete,
     CompleteFails, Fold, Reconcile, Crash, Open, OpenDone, Recover, RecoverFails,
     ledgers

LEMMA LoggedStays ==
    ASSUME TypeOK, LogInv, NEW r \in Peers, Member(r), NEW q \in Peers
    PROVE  logged[q] \subseteq logged'[q] /\ frames'[q] \subseteq logged'[q]
  <1>1. CASE UNCHANGED journal
    BY <1>1 DEF journal, LogInv
  <1>2. CASE Framed(r)
    <2>1. PICK e : /\ frames' = [frames EXCEPT ![r] = @ \cup {e}]
                   /\ logged' = [logged EXCEPT ![r] = @ \cup {e}]
      BY <1>2 DEF Framed
    <2> QED BY <2>1 DEF LogInv, TypeOK
  <1>3. CASE frames' = [frames EXCEPT ![r] = {}] /\ UNCHANGED logged
    BY <1>3 DEF LogInv, TypeOK
  <1>4. ASSUME NEW e \in Events, frames' = [frames EXCEPT ![r] = @ \cup {e}],
               logged' = [logged EXCEPT ![r] = @ \cup {e}]
        PROVE  logged[q] \subseteq logged'[q] /\ frames'[q] \subseteq logged'[q]
    BY <1>4 DEF LogInv, TypeOK
  <1> QED BY <1>1, <1>2, <1>3, <1>4, JournalEffects

\* Where a job that has appended its frame comes from.
LEMMA FramedJob ==
    ASSUME TypeOK, NEW r \in Peers, Member(r), NEW q \in Peers,
           job'[q] # Free, job'[q].at = "framed"
    PROVE  job'[q] = job[q] \/ (q = r /\ AppendFrame(r) /\ job'[r].event = job[r].event)
  <1>1. CASE UNCHANGED job
    BY <1>1
  <1>2. CASE job' = [job EXCEPT ![r] = Free]
    BY <1>2 DEF TypeOK
  <1>3. CASE Step(r, "prepared")
    BY <1>3 DEF Step, At, TypeOK
  <1>4. CASE AppendFrame(r)
    BY <1>4 DEF AppendFrame, Step, At, TypeOK
  <1>5. ASSUME NEW b \in ballots, SubmitVote(r, b)
        PROVE  job'[q] = job[q]
    <2>1. \/ job' = [job EXCEPT ![r] = At("quorum", b.id, b.event)]
          \/ job' = [job EXCEPT ![r] = Free]
      BY <1>5 DEF SubmitVote
    <2> QED BY <2>1 DEF At, TypeOK
  <1>6. \/ UNCHANGED job
        \/ job' = [job EXCEPT ![r] = Free]
        \/ Step(r, "prepared")
        \/ AppendFrame(r)
        \/ \E b \in ballots : SubmitVote(r, b)
    BY DEF Member, Proposal, Voting, Commit, JournalStep, Restart, Propose, Import,
       SignVote, SubmitToCommitted, VoteFails, CloseFails, Prepare, PrepareRefused,
       PrepareFails, FrameRejected, FrameFails, Complete, CompleteFails,
       Fold, Reconcile, Crash, Open, OpenDone, Recover, RecoverFails, Stop, Return
  <1> QED BY <1>1, <1>2, <1>3, <1>4, <1>5, <1>6

\* The record a step adds to a commit ledger, if it adds one.
LEMMA CommitLogStep ==
    ASSUME TypeOK, NEW r \in Peers, Member(r)
    PROVE  \/ UNCHANGED << commitLog, commitLines >>
           \/ \E x \in Receipt : /\ CommitAdded(r, x)
                                 /\ commitLog' = [commitLog EXCEPT ![r] = @ \cup {x}]
                                 /\ commitLines' = [commitLines EXCEPT ![r] = @ + 1]
  <1>1. CommitEffect(r)
    BY CommitEffects
  <1>2. ASSUME NEW x \in Receipt, CommitAdded(r, x)
        PROVE  /\ commitLog' = [commitLog EXCEPT ![r] = @ \cup {x}]
               /\ commitLines' = [commitLines EXCEPT ![r] = @ + 1]
    BY <1>2 DEF CommitAdded
  <1> QED BY <1>1, <1>2 DEF CommitEffect

LEMMA LogStep == TypeOK /\ LogInv /\ [Next]_vars => LogInv'
  <1> SUFFICES ASSUME TypeOK, LogInv, [Next]_vars PROVE LogInv'
    OBVIOUS
  <1>1. CASE UNCHANGED vars
    BY <1>1 DEF vars, LogInv
  <1>2. ASSUME NEW r \in Peers, Member(r) PROVE LogInv'
    <2> SUFFICES ASSUME NEW q \in Peers
                 PROVE  (/\ frames[q] \subseteq logged[q]
                         /\ job[q] # Free /\ job[q].at = "framed"
                               => job[q].event \in logged[q]
                         /\ \A x \in commitLog[q] : x.committed => x.event \in logged[q])'
      BY DEF LogInv
    <2>1. logged[q] \subseteq logged'[q] /\ frames'[q] \subseteq logged'[q]
      BY <1>2, LoggedStays
    <2>2. ASSUME job'[q] # Free, job'[q].at = "framed"
          PROVE  job'[q].event \in logged'[q]
      <3>1. CASE job'[q] = job[q]
        BY <2>1, <2>2, <3>1 DEF LogInv
      <3>2. CASE q = r /\ AppendFrame(r) /\ job'[r].event = job[r].event
        <4>1. logged' = [logged EXCEPT ![r] = @ \cup {job[r].event}]
          BY <3>2 DEF AppendFrame, Framed, Env
        <4> QED BY <3>2, <4>1 DEF TypeOK
      <3> QED BY <1>2, <2>2, <3>1, <3>2, FramedJob
    <2>3. ASSUME NEW x \in commitLog'[q], x.committed
          PROVE  x.event \in logged'[q]
      <3>1. CASE x \in commitLog[q]
        BY <2>1, <2>3, <3>1 DEF LogInv
      <3>2. CASE q = r /\ CommitAdded(r, x)
        <4>1. x.event \in frames[r] \/ (job[r] # Free /\ job[r].at = "framed" /\ job[r].event = x.event)
          BY <2>3, <3>2 DEF CommitAdded, Closes, Doing
        <4> QED BY <2>1, <3>2, <4>1 DEF LogInv
      <3>3. x \in commitLog[q] \/ (q = r /\ CommitAdded(r, x))
        BY <1>2, CommitLogStep DEF TypeOK
      <3> QED BY <3>1, <3>2, <3>3
    <2> QED BY <2>1, <2>2, <2>3
  <1> QED BY <1>1, <1>2 DEF Next

\* complete_consensus_commit and the recovery: a completion receipt in the ledger
\* speaks of an event that was in this member's journal.
THEOREM ReceiptsAreTrue == Spec => []ReceiptIsTrue
  <1>1. LogInv => ReceiptIsTrue
    BY DEF LogInv, ReceiptIsTrue
  <1> QED BY <1>1, TypeInit, LogInit, TypeStep, LogStep, PTL DEF Spec

----------------------------------------------------------------------------
(* The commit under way against the receipts and the journal.              *)

JobInv ==
    \A r \in Peers : job[r] # Free =>
        /\ phase[r] = "up"
        /\ Fits(r, job[r].id, job[r].event)
        /\ ~Committed(r, job[r].id)
        /\ job[r].at # "quorum" => job[r].id \in Retained(r)
        /\ job[r].at # "framed" /\ Env(job[r].id, job[r].event) \in appended[r]
              => job[r].event \notin frames[r]

\* What was appended has its receipt, in the file and in a running process.
HeldInv ==
    \A r \in Peers : \A v \in appended[r] :
        /\ \E x \in commitLog[r] : x.id = v.id
        /\ phase[r] # "down" => \E x \in receipts[r] : x.id = v.id

LEMMA JobInit == Init => JobInv /\ HeldInv
  BY DEF Init, JobInv, HeldInv

\* A step of another member touches none of it.
LEMMA Elsewhere ==
    ASSUME TypeOK, NEW r \in Peers, Member(r), NEW q \in Peers, q # r
    PROVE  /\ job'[q] = job[q] /\ phase'[q] = phase[q]
           /\ receipts'[q] = receipts[q] /\ commitLog'[q] = commitLog[q]
           /\ frames'[q] = frames[q] /\ appended'[q] = appended[q]
           /\ twice'[q] = twice[q]
  <1>1. job'[q] = job[q]
    BY DEF TypeOK, Member, Proposal, Voting, Commit, JournalStep, Restart, Propose,
       Import, SignVote, SubmitVote, SubmitToCommitted, VoteFails, CloseFails, Prepare,
       PrepareRefused, PrepareFails, AppendFrame, FrameRejected, FrameFails, Complete,
       CompleteFails, Fold, Reconcile, Crash, Open, OpenDone, Recover, RecoverFails,
       Stop, Return, Step
  <1>2. phase'[q] = phase[q] /\ receipts'[q] = receipts[q]
    BY CommitEffects DEF TypeOK, CommitEffect, CommitAdded, CommitKept, Runs, Down, Opens
  <1>3. commitLog'[q] = commitLog[q]
    BY CommitLogStep DEF TypeOK
  <1>4. frames'[q] = frames[q] /\ appended'[q] = appended[q] /\ twice'[q] = twice[q]
    BY JournalEffects DEF TypeOK, Framed, journal
  <1> QED BY <1>1, <1>2, <1>3, <1>4

LEMMA JobInvStep ==
    TypeOK /\ JobInv /\ HeldInv /\ [Next]_vars => JobInv'
  <1> SUFFICES ASSUME TypeOK, JobInv, HeldInv, [Next]_vars PROVE JobInv'
    OBVIOUS
  <1>1. CASE UNCHANGED vars
    BY <1>1 DEF vars, JobInv, Fits, Committed, Retained
  <1>2. ASSUME NEW r \in Peers, Member(r) PROVE JobInv'
    <2> DEFINE Good(q) == /\ phase[q] = "up"
                          /\ Fits(q, job[q].id, job[q].event)
                          /\ ~Committed(q, job[q].id)
                          /\ job[q].at # "quorum" => job[q].id \in Retained(q)
                          /\ job[q].at # "framed" /\ Env(job[q].id, job[q].event) \in appended[q]
                                => job[q].event \notin frames[q]
    <2> SUFFICES ASSUME NEW q \in Peers, job'[q] # Free PROVE Good(q)'
      BY DEF JobInv
    <2>1. CASE q # r
      <3>1. /\ job'[q] = job[q] /\ phase'[q] = phase[q] /\ receipts'[q] = receipts[q]
            /\ frames'[q] = frames[q] /\ appended'[q] = appended[q]
        BY <1>2, <2>1, Elsewhere
      <3>2. Good(q)
        BY <3>1 DEF JobInv
      <3> QED BY <3>1, <3>2 DEF Fits, Committed, Retained
    <2>2. CASE q = r /\ Prepare(r)
      <3>1. /\ job[r] # Free /\ job[r].at = "quorum" /\ phase[r] = "up"
            /\ Step(r, "prepared")
            /\ UNCHANGED << frames, appended, phase >>
        BY <2>2 DEF Prepare, Doing, journal
      <3>2. job'[r].id = job[r].id /\ job'[r].event = job[r].event /\ job'[r].at = "prepared"
        BY <3>1 DEF Step, At, TypeOK
      <3>3. Good(r)
        BY <3>1 DEF JobInv
      <3>4. CASE job[r].id \in Retained(r) /\ UNCHANGED receipts
        BY <2>2, <3>1, <3>2, <3>3, <3>4 DEF Fits, Committed, Retained
      <3>5. CASE AppendRecord(r, Record(job[r].id, job[r].event, FALSE))
        <4>1. job[r].id \in Ids /\ job[r].event \in Events
          BY <3>1, JobFields
        <4>2. PICK x \in Receipt : /\ x = Record(job[r].id, job[r].event, FALSE)
                                   /\ x.id = job[r].id /\ x.event = job[r].event
                                   /\ ~x.committed
          BY <4>1, PrepareRecord
        <4>3. receipts'[r] = receipts[r] \cup {x}
          BY <3>5, <4>2 DEF AppendRecord, TypeOK
        <4> QED BY <2>2, <3>1, <3>2, <3>3, <4>2, <4>3 DEF Fits, Committed, Retained
      <3> QED BY <2>2, <3>4, <3>5 DEF Prepare, ledgers
    <2>3. CASE q = r /\ AppendFrame(r)
      <3>1. /\ job[r] # Free /\ job[r].at = "prepared" /\ phase[r] = "up"
            /\ Step(r, "framed")
            /\ UNCHANGED << receipts, phase >>
        BY <2>3 DEF AppendFrame, Doing, ledgers
      <3>2. job'[r].id = job[r].id /\ job'[r].event = job[r].event /\ job'[r].at = "framed"
        BY <3>1 DEF Step, At, TypeOK
      <3>3. Good(r)
        BY <3>1 DEF JobInv
      <3> QED BY <2>3, <3>1, <3>2, <3>3 DEF Fits, Committed, Retained
    <2>4. ASSUME q = r, NEW b \in ballots, SubmitVote(r, b) PROVE Good(q)'
      <3>1. /\ phase[r] = "up" /\ Fits(r, b.id, b.event) /\ ~Committed(r, b.id)
            /\ ~Closes(r, b.id, b.event)
            /\ UNCHANGED << receipts, phase, frames, appended >>
        BY <2>4 DEF SubmitVote, Admissible, Idle, ledgers, journal
      <3>2. job'[r] = At("quorum", b.id, b.event)
        <4>1. \/ job' = [job EXCEPT ![r] = At("quorum", b.id, b.event)]
              \/ job' = [job EXCEPT ![r] = Free]
          BY <2>4 DEF SubmitVote
        <4> QED BY <2>4, <4>1 DEF TypeOK
      <3>3. job'[r].id = b.id /\ job'[r].event = b.event /\ job'[r].at = "quorum"
        BY <3>2 DEF At
      <3>4. ASSUME Env(b.id, b.event) \in appended[r] PROVE b.event \notin frames[r]
        <4>1. PICK v \in appended[r] : v.id = b.id
          BY <3>4 DEF Env
        <4>2. \E x \in receipts[r] : x.id = b.id
          BY <3>1, <4>1 DEF HeldInv
        <4> QED BY <3>1, <4>2 DEF Closes, Unfinished, Retained
      <3> QED BY <2>4, <3>1, <3>3, <3>4 DEF Fits, Committed, Retained
    <2>5. CASE q = r /\ job[r] = Free /\ ~\E b \in ballots : SubmitVote(r, b)
      <3>1. job'[r] = Free
        BY <1>2, <2>5 DEF TypeOK, Member, Proposal, Voting, Commit, JournalStep, Restart,
           Propose, Import, SignVote, SubmitToCommitted, VoteFails, CloseFails, Prepare,
           PrepareRefused, PrepareFails, AppendFrame, FrameRejected, FrameFails, Complete,
           CompleteFails, Fold, Reconcile, Crash, Open, OpenDone, Recover, RecoverFails,
           Stop, Return, Doing
      <3> QED BY <2>5, <3>1
    <2>6. CASE q = r /\ job[r] # Free
      <3>1. phase[r] = "up"
        BY <2>6 DEF JobInv
      <3>2. Commit(r) \/ Crash(r)
        BY <1>2, <2>6, <3>1 DEF Member, Proposal, Voting, JournalStep, Restart, Propose,
           Import, SignVote, SubmitVote, SubmitToCommitted, Admissible, VoteFails,
           CloseFails, Idle, Fold, Reconcile, Open, OpenDone, Recover, RecoverFails
      <3>3. Prepare(r) \/ AppendFrame(r) \/ job'[r] = Free
        BY <3>2 DEF TypeOK, Commit, PrepareRefused, PrepareFails, FrameRejected, FrameFails,
           Complete, CompleteFails, Crash, Stop, Return
      <3> QED BY <2>2, <2>3, <2>6, <3>3
    <2> QED BY <2>1, <2>2, <2>3, <2>4, <2>5, <2>6
  <1> QED BY <1>1, <1>2 DEF Next

LEMMA HeldStep ==
    TypeOK /\ MemoryInv /\ JobInv /\ HeldInv /\ [Next]_vars => HeldInv'
  <1> SUFFICES ASSUME TypeOK, MemoryInv, JobInv, HeldInv, [Next]_vars PROVE HeldInv'
    OBVIOUS
  <1>1. CASE UNCHANGED vars
    BY <1>1 DEF vars, HeldInv
  <1>2. ASSUME NEW r \in Peers, Member(r) PROVE HeldInv'
    <2> SUFFICES ASSUME NEW q \in Peers, NEW v \in appended'[q]
                 PROVE  (/\ \E x \in commitLog[q] : x.id = v.id
                         /\ phase[q] # "down" => \E x \in receipts[q] : x.id = v.id)'
      BY DEF HeldInv
    <2>1. CASE q # r
      BY <1>2, <2>1, Elsewhere DEF HeldInv
    <2>2. CASE q = r
      <3>1. /\ \E x \in commitLog[r] : x.id = v.id
            /\ phase[r] # "down" => \E x \in receipts[r] : x.id = v.id
        <4>1. CASE v \in appended[r]
          BY <4>1 DEF HeldInv
        <4>2. CASE Doing(r, "prepared") /\ v = Env(job[r].id, job[r].event)
          <5>1. v.id = job[r].id /\ job[r].id \in Retained(r)
            BY <4>2 DEF Doing, JobInv, Env
          <5>2. \E x \in receipts[r] : x.id = v.id
            BY <5>1 DEF Retained
          <5> QED BY <5>2 DEF MemoryInv
        <4>3. v \in appended[r] \/ (Doing(r, "prepared") /\ v = Env(job[r].id, job[r].event))
          BY <1>2, <2>2, AppendedStep DEF Framed, TypeOK
        <4> QED BY <4>1, <4>2, <4>3
      <3>2. \E x \in commitLog'[r] : x.id = v.id
        BY <1>2, <3>1, VotesStay
      <3>3. phase'[r] # "down" => \/ phase[r] # "down" /\ receipts[r] \subseteq receipts'[r]
                                  \/ receipts'[r] = commitLog[r]
        BY <1>2, CommitEffects DEF TypeOK, CommitEffect, CommitKept, Runs, Down, Opens
      <3> QED BY <2>2, <3>1, <3>2, <3>3
    <2> QED BY <2>1, <2>2
  <1> QED BY <1>1, <1>2 DEF Next

\* proposal_has_durable_commit: no retry, late vote or restart makes submit_vote
\* append an event again while its signed frame is in the journal.
THEOREM HeldFramesStaySingle == Spec => NeverAppendsHeld
  <1> DEFINE Hold == \A r \in Peers : \A v \in twice'[r] \ twice[r] : v.event \notin frames[r]
  <1>1. TypeOK /\ JobInv /\ [Next]_vars => [Hold]_vars
    <2> SUFFICES ASSUME TypeOK, JobInv, NEW r \in Peers, Member(r) PROVE Hold
      BY DEF Next
    <2> SUFFICES ASSUME NEW q \in Peers, NEW v \in twice'[q], v \notin twice[q]
                 PROVE  v.event \notin frames[q]
      OBVIOUS
    <2>1. q = r /\ Doing(r, "prepared") /\ Framed(r)
      BY Elsewhere, AppendedStep
    <2>2. v = Env(job[r].id, job[r].event) /\ v \in appended[r]
      BY <2>1 DEF Framed, TypeOK
    <2>3. v.event = job[r].event
      BY <2>2 DEF Env
    <2> QED BY <2>1, <2>2, <2>3 DEF JobInv, Doing
  <1>2. Init => TypeOK /\ MemoryInv /\ JobInv /\ HeldInv
    BY TypeInit, MemoryInit, JobInit
  <1>3. TypeOK /\ MemoryInv /\ JobInv /\ HeldInv /\ [Next]_vars
           => (TypeOK /\ MemoryInv /\ JobInv /\ HeldInv)'
    BY TypeStep, MemoryStep, JobInvStep, HeldStep
  <1> QED BY <1>1, <1>2, <1>3, PTL DEF Spec, NeverAppendsHeld

----------------------------------------------------------------------------
(* The files within their limits.                                          *)

LinesInv ==
    \A r \in Peers :
        /\ IsFiniteSet(voteLog[r]) /\ voteLines[r] = Cardinality(voteLog[r])
        /\ voteLines[r] <= MaxRecords
        /\ IsFiniteSet(commitLog[r]) /\ commitLines[r] = Cardinality(commitLog[r])
        /\ CommitLogLoads(r)

LEMMA LinesInit == Init => LinesInv
  <1> SUFFICES ASSUME Init, NEW r \in Peers
               PROVE  /\ IsFiniteSet(voteLog[r]) /\ voteLines[r] = Cardinality(voteLog[r])
                      /\ voteLines[r] <= MaxRecords
                      /\ IsFiniteSet(commitLog[r]) /\ commitLines[r] = Cardinality(commitLog[r])
                      /\ CommitLogLoads(r)
    BY DEF LinesInv
  <1>1. IsFiniteSet({}) /\ Cardinality({}) = 0
    BY FS_EmptySet
  <1>2. voteLog[r] = {} /\ voteLines[r] = 0 /\ commitLog[r] = {} /\ commitLines[r] = 0
    BY DEF Init
  <1>3. CommitLogLoads(r)
    <2> DEFINE ids  == {x.id : x \in commitLog[r]}
               done == {x.id : x \in {y \in commitLog[r] : y.committed}}
    <2>1. ids = {} /\ ids \ done = {}
      BY <1>2
    <2>2. 0 <= MaxRecords \div 2 /\ 0 + 0 <= MaxRecords
      BY ConstantsAssumption
    <2> QED BY <1>1, <1>2, <2>1, <2>2 DEF CommitLogLoads
  <1> QED BY <1>1, <1>2, <1>3, ConstantsAssumption

\* The vote-lock ledger grows by a record that it does not have.
LEMMA VoteLinesStep ==
    ASSUME TypeOK, MemoryInv, LinesInv, NEW r \in Peers, Member(r), NEW q \in Peers
    PROVE  /\ IsFiniteSet(voteLog'[q]) /\ voteLines'[q] = Cardinality(voteLog'[q])
           /\ voteLines'[q] <= MaxRecords
  <1>1. CASE UNCHANGED << voteLog, voteLines >>
    BY <1>1 DEF LinesInv
  <1>2. ASSUME NEW b \in Ballot, VoteAdded(r, b)
        PROVE  /\ IsFiniteSet(voteLog'[q]) /\ voteLines'[q] = Cardinality(voteLog'[q])
               /\ voteLines'[q] <= MaxRecords
    <2>1. /\ voteLog' = [voteLog EXCEPT ![r] = @ \cup {b}]
          /\ voteLines' = [voteLines EXCEPT ![r] = @ + 1]
          /\ locks[r] = voteLog[r] /\ Cardinality(locks[r]) < MaxRecords
      BY <1>2 DEF VoteAdded, MemoryInv
    <2>2. CASE q # r
      BY <2>1, <2>2 DEF TypeOK, LinesInv
    <2>3. CASE q = r
      <3>1. b \notin voteLog[r]
        BY <1>2, <2>1 DEF VoteAdded, LockOf
      <3>2. voteLog'[r] = voteLog[r] \cup {b} /\ voteLines'[r] = voteLines[r] + 1
        BY <2>1 DEF TypeOK
      <3>3. IsFiniteSet(voteLog[r]) /\ voteLines[r] = Cardinality(voteLog[r])
        BY DEF LinesInv
      <3>4. /\ IsFiniteSet(voteLog'[r])
            /\ Cardinality(voteLog'[r]) = Cardinality(voteLog[r]) + 1
        BY <3>1, <3>2, <3>3, FS_AddElement
      <3>5. Cardinality(voteLog[r]) \in Nat
        BY <3>3, FS_CardinalityType
      <3> QED BY <2>1, <2>3, <3>2, <3>3, <3>4, <3>5, ConstantsAssumption
    <2> QED BY <2>2, <2>3
  <1>3. VoteEffect(r)
    BY VoteEffects
  <1> QED BY <1>1, <1>2, <1>3 DEF VoteEffect

\* The commit ledger keeps a slot for the completion of every prepared receipt.
LEMMA CommitLinesStep ==
    ASSUME TypeOK, MemoryInv, JobInv, LinesInv, NEW r \in Peers, NEW x \in Receipt,
           CommitAdded(r, x),
           commitLog' = [commitLog EXCEPT ![r] = @ \cup {x}],
           commitLines' = [commitLines EXCEPT ![r] = @ + 1]
    PROVE  /\ IsFiniteSet(commitLog'[r]) /\ commitLines'[r] = Cardinality(commitLog'[r])
           /\ CommitLogLoads(r)'
  <1> DEFINE ids   == {y.id : y \in commitLog[r]}
             done  == {y.id : y \in {z \in commitLog[r] : z.committed}}
             ids2  == {y.id : y \in commitLog'[r]}
             done2 == {y.id : y \in {z \in commitLog'[r] : z.committed}}
  <1>1. commitLog'[r] = commitLog[r] \cup {x} /\ commitLines'[r] = commitLines[r] + 1
    BY DEF TypeOK
  <1>2. receipts[r] = commitLog[r]
    <2>1. phase[r] # "down" /\ ~commitPoisoned[r]
      BY DEF CommitAdded, MemoryInv, TypeOK
    <2> QED BY <2>1 DEF MemoryInv
  <1>3. ids \in SUBSET Ids /\ done \in SUBSET ids /\ x.id \in Ids
    BY DEF TypeOK, Receipt
  <1>4. IsFiniteSet(ids) /\ Cardinality(ids) \in Nat
    BY <1>3, ConstantsAssumption, FS_Subset, FS_CardinalityType
  <1>5. IsFiniteSet(ids \ done) /\ Cardinality(ids \ done) \in Nat
    <2>1. (ids \ done) \in SUBSET ids
      OBVIOUS
    <2> HIDE DEF ids, done
    <2> QED BY <1>4, <2>1, FS_Subset, FS_CardinalityType
  <1>6. Retained(r) = ids /\ Unfinished(r) = ids \ done
    BY <1>2 DEF Retained, Unfinished, Committed
  <1>7. /\ \A y, z \in commitLog[r] : y.id = z.id => y.event = z.event
        /\ Cardinality(ids) <= MaxRecords \div 2
        /\ commitLines[r] + Cardinality(ids \ done) <= MaxRecords
    BY DEF LinesInv, CommitLogLoads
  <1>8. /\ IsFiniteSet(commitLog[r]) /\ commitLines[r] = Cardinality(commitLog[r])
        /\ commitLines[r] \in Nat
    BY DEF LinesInv, TypeOK
  <1>9. ASSUME x \notin commitLog[r]
        PROVE  IsFiniteSet(commitLog'[r]) /\ commitLines'[r] = Cardinality(commitLog'[r])
    BY <1>1, <1>8, <1>9, FS_AddElement
  <1>10. ids2 = ids \cup {x.id}
    BY <1>1
  <1>11. ASSUME \A y \in commitLog[r] : y.id = x.id => y.event = x.event
         PROVE  \A y, z \in commitLog'[r] : y.id = z.id => y.event = z.event
    BY <1>1, <1>7, <1>11
  <1>12. CASE x.committed
    <2>1. Fits(r, x.id, x.event) /\ x.id \in Unfinished(r)
      <3>1. CASE Closes(r, x.id, x.event)
        BY <3>1 DEF Closes
      <3>2. CASE Doing(r, "framed") /\ job[r].id = x.id /\ job[r].event = x.event
        BY <3>2 DEF JobInv, Doing, Unfinished
      <3> QED BY <1>12, <3>1, <3>2 DEF CommitAdded
    <2>2. x.id \in ids \ done
      BY <2>1, <1>6
    <2>3. x \notin commitLog[r]
      BY <1>12, <2>2
    <2>4. done2 = done \cup {x.id}
      BY <1>1, <1>12
    <2>5. ids2 = ids /\ ids2 \ done2 = (ids \ done) \ {x.id}
      BY <1>10, <2>2, <2>4
    <2>6. Cardinality(ids2 \ done2) = Cardinality(ids \ done) - 1
      <3> HIDE DEF ids, done, ids2, done2
      <3> QED BY <1>5, <2>2, <2>5, FS_RemoveElement
    <2>7. \A y, z \in commitLog'[r] : y.id = z.id => y.event = z.event
      BY <1>2, <1>11, <2>1 DEF Fits
    <2>8. /\ Cardinality(ids2) <= MaxRecords \div 2
          /\ commitLines'[r] + Cardinality(ids2 \ done2) <= MaxRecords
      <3> HIDE DEF ids, done, ids2, done2
      <3> QED BY <1>1, <1>5, <1>7, <1>8, <2>5, <2>6, ConstantsAssumption
    <2> QED BY <1>9, <2>3, <2>7, <2>8 DEF CommitLogLoads
  <1>13. CASE ~x.committed
    <2>1. HasCapacity(r, x.id) /\ x.id \notin ids
      BY <1>6, <1>13 DEF CommitAdded
    <2>2. x \notin commitLog[r]
      BY <2>1
    <2>3. done2 = done
      BY <1>1, <1>13
    <2>4. ids2 \ done2 = (ids \ done) \cup {x.id}
      BY <1>3, <1>10, <2>1, <2>3
    <2>5. /\ Cardinality(ids2) = Cardinality(ids) + 1
          /\ Cardinality(ids2 \ done2) = Cardinality(ids \ done) + 1
      <3>1. x.id \notin ids /\ x.id \notin ids \ done
        BY <2>1
      <3> HIDE DEF ids, done, ids2, done2
      <3> QED BY <1>4, <1>5, <1>10, <2>4, <3>1, FS_AddElement
    <2>6. \A y, z \in commitLog'[r] : y.id = z.id => y.event = z.event
      BY <1>11, <2>1
    <2>7. /\ Cardinality(ids) < MaxRecords \div 2
          /\ Cardinality(commitLog[r]) + Cardinality(ids \ done) + 2 <= MaxRecords
      <3> HIDE DEF ids, done, ids2, done2
      <3> QED BY <1>2, <1>6, <2>1 DEF HasCapacity
    <2>8. /\ Cardinality(ids2) <= MaxRecords \div 2
          /\ commitLines'[r] + Cardinality(ids2 \ done2) <= MaxRecords
      <3>1. MaxRecords \div 2 \in Nat
        BY ConstantsAssumption
      <3> HIDE DEF ids, done, ids2, done2
      <3> QED BY <1>1, <1>4, <1>5, <1>8, <2>5, <2>7, <3>1, ConstantsAssumption
    <2> QED BY <1>9, <2>2, <2>6, <2>8 DEF CommitLogLoads
  <1> QED BY <1>12, <1>13

LEMMA LinesStep ==
    TypeOK /\ MemoryInv /\ JobInv /\ LinesInv /\ [Next]_vars => LinesInv'
  <1> SUFFICES ASSUME TypeOK, MemoryInv, JobInv, LinesInv, [Next]_vars PROVE LinesInv'
    OBVIOUS
  <1>1. CASE UNCHANGED vars
    BY <1>1 DEF vars, LinesInv, CommitLogLoads
  <1>2. ASSUME NEW r \in Peers, Member(r) PROVE LinesInv'
    <2> SUFFICES ASSUME NEW q \in Peers
                 PROVE  /\ IsFiniteSet(commitLog'[q])
                        /\ commitLines'[q] = Cardinality(commitLog'[q])
                        /\ CommitLogLoads(q)'
      BY <1>2, VoteLinesStep DEF LinesInv
    <2>1. CASE UNCHANGED << commitLog, commitLines >>
      BY <2>1 DEF LinesInv, CommitLogLoads
    <2>2. ASSUME NEW x \in Receipt, CommitAdded(r, x),
                 commitLog' = [commitLog EXCEPT ![r] = @ \cup {x}],
                 commitLines' = [commitLines EXCEPT ![r] = @ + 1]
          PROVE  /\ IsFiniteSet(commitLog'[q])
                 /\ commitLines'[q] = Cardinality(commitLog'[q])
                 /\ CommitLogLoads(q)'
      <3>1. CASE q = r
        BY <2>2, <3>1, CommitLinesStep
      <3>2. CASE q # r
        <4>1. commitLog'[q] = commitLog[q] /\ commitLines'[q] = commitLines[q]
          BY <2>2, <3>2 DEF TypeOK
        <4> QED BY <4>1 DEF LinesInv, CommitLogLoads
      <3> QED BY <3>1, <3>2
    <2> QED BY <1>2, <2>1, <2>2, CommitLogStep
  <1> QED BY <1>1, <1>2 DEF Next

\* load_consensus_vote_locks and load_consensus_commit_receipts: whatever failed
\* or stopped before, open accepts the ledgers.
THEOREM LedgersAlwaysLoad == Spec => []LedgersLoad
  <1>1. VoteInv /\ LinesInv => LedgersLoad
    BY DEF VoteInv, LinesInv, LedgersLoad, VoteLogLoads
  <1>2. Init => TypeOK /\ MemoryInv /\ VoteInv /\ JobInv /\ HeldInv /\ LinesInv
    BY TypeInit, MemoryInit, VoteInit, JobInit, LinesInit
  <1>3. TypeOK /\ MemoryInv /\ VoteInv /\ JobInv /\ HeldInv /\ LinesInv /\ [Next]_vars
           => (TypeOK /\ MemoryInv /\ VoteInv /\ JobInv /\ HeldInv /\ LinesInv)'
    BY TypeStep, MemoryStep, VoteStep, JobInvStep, HeldStep, LinesStep
  <1> QED BY <1>1, <1>2, <1>3, PTL DEF Spec

----------------------------------------------------------------------------
(* Exactly once.                                                           *)

\* The commit ledger has the completion of the proposal.
Done(r, i) == \E x \in commitLog[r] : x.id = i /\ x.committed

\* Without failed writes: what was appended has a receipt of its own event, is
\* in the journal until its completion is recorded, and is completed before a
\* process takes another call.
OnceInv ==
    \A r \in Peers :
        /\ twice[r] = {}
        /\ ~commitPoisoned[r]
        /\ \A v \in appended[r] :
              /\ \E x \in commitLog[r] : x.id = v.id /\ x.event = v.event
              /\ v.event \in frames[r] \/ Done(r, v.id)
              /\ phase[r] = "up" =>
                    Done(r, v.id) \/ job[r] = At("framed", v.id, v.event)

\* With full retention: what was appended stays in the journal.
KeptInv ==
    \A r \in Peers : twice[r] = {} /\ \A v \in appended[r] : v.event \in frames[r]

\* The steps of a member that change its journal.
LEMMA FrameSteps ==
    ASSUME TypeOK, NEW r \in Peers, Member(r)
    PROVE  \/ UNCHANGED journal
           \/ Doing(r, "prepared") /\ Framed(r)
           \/ Fold(r)
           \/ \E e \in Events : Reconcile(r, e)
  BY DEF Member, Proposal, Voting, Commit, JournalStep, Restart, Propose, Import,
     SignVote, SubmitVote, SubmitToCommitted, VoteFails, CloseFails, Prepare,
     PrepareRefused, PrepareFails, AppendFrame, FrameRejected, FrameFails, Complete,
     CompleteFails, Crash, Open, OpenDone, Recover, RecoverFails

\* What a member appends with a frame.
LEMMA FramedFields ==
    ASSUME TypeOK, NEW r \in Peers, Framed(r)
    PROVE  /\ frames'[r] = frames[r] \cup {job[r].event}
           /\ appended'[r] = appended[r] \cup {Env(job[r].id, job[r].event)}
           /\ twice'[r] = twice[r] \cup ({Env(job[r].id, job[r].event)} \cap appended[r])
  <1>1. Env(job[r].id, job[r].event).event = job[r].event
    BY DEF Env
  <1> QED BY <1>1 DEF Framed, TypeOK

LEMMA KeptStep ==
    ASSUME TypeOK, JobInv, KeptInv, Retention = "full", [Next]_vars
    PROVE  KeptInv'
  <1>1. CASE UNCHANGED vars
    BY <1>1 DEF vars, KeptInv
  <1>2. ASSUME NEW r \in Peers, Member(r) PROVE KeptInv'
    <2> SUFFICES ASSUME NEW q \in Peers
                 PROVE  twice'[q] = {} /\ \A v \in appended'[q] : v.event \in frames'[q]
      BY DEF KeptInv
    <2>0. twice[q] = {} /\ \A v \in appended[q] : v.event \in frames[q]
      BY DEF KeptInv
    <2>1. CASE q # r
      BY <1>2, <2>0, <2>1, Elsewhere
    <2>2. CASE q = r /\ UNCHANGED journal
      BY <2>0, <2>2 DEF journal
    <2>3. CASE q = r /\ Doing(r, "prepared") /\ Framed(r)
      <3> DEFINE v == Env(job[r].id, job[r].event)
      <3>1. v.event = job[r].event
        BY DEF Env
      <3>2. v \notin appended[r]
        BY <2>0, <2>3, <3>1 DEF JobInv, Doing
      <3>3. /\ frames'[r] = frames[r] \cup {job[r].event}
            /\ appended'[r] = appended[r] \cup {v}
            /\ twice'[r] = twice[r] \cup ({v} \cap appended[r])
        BY <2>3, FramedFields
      <3> HIDE DEF v
      <3> QED BY <2>0, <2>3, <3>1, <3>2, <3>3
    <2>4. ASSUME q = r, NEW e \in Events, Reconcile(r, e)
          PROVE  twice'[q] = {} /\ \A v \in appended'[q] : v.event \in frames'[q]
      <3>1. frames'[r] = frames[r] \cup {e} /\ UNCHANGED << appended, twice >>
        BY <2>4 DEF Reconcile, TypeOK
      <3> QED BY <2>0, <2>4, <3>1
    <2>5. ~Fold(r)
      BY DEF Fold
    <2> QED BY <1>2, <2>1, <2>2, <2>3, <2>4, <2>5, FrameSteps
  <1> QED BY <1>1, <1>2 DEF Next

\* Without failed writes no ledger is poisoned and a completion always finds
\* the slot that was kept for it.
LEMMA NoFailure ==
    ASSUME TypeOK, MaxFaults = 0
    PROVE  ~(faults < MaxFaults)
  BY DEF TypeOK

LEMMA NeverPoisoned ==
    ASSUME TypeOK, OnceInv, MaxFaults = 0, NEW r \in Peers, Member(r), NEW q \in Peers
    PROVE  ~commitPoisoned'[q]
  <1>1. ~(faults < MaxFaults) /\ ~commitPoisoned[q]
    BY NoFailure DEF OnceInv
  <1>2. commitPoisoned' = commitPoisoned \/ commitPoisoned' = [commitPoisoned EXCEPT ![r] = FALSE]
    BY <1>1 DEF Member, Proposal, Voting, Commit, JournalStep, Restart, Propose, Import,
       SignVote, SubmitVote, SubmitToCommitted, VoteFails, CloseFails, Prepare,
       PrepareRefused, PrepareFails, AppendFrame, FrameRejected, FrameFails, Complete,
       CompleteFails, Fold, Reconcile, Crash, Open, OpenDone, Recover, RecoverFails, Stop,
       AppendFails
  <1> QED BY <1>1, <1>2 DEF TypeOK

LEMMA SlotIsKept ==
    ASSUME TypeOK, MemoryInv, JobInv, LinesInv, OnceInv, NEW r \in Peers,
           Doing(r, "framed")
    PROVE  ~AppendRefused(r)
  <1> DEFINE ids  == {x.id : x \in commitLog[r]}
             done == {x.id : x \in {y \in commitLog[r] : y.committed}}
  <1>1. receipts[r] = commitLog[r] /\ ~commitPoisoned[r]
    BY DEF MemoryInv, OnceInv, Doing
  <1>2. job[r].id \in ids \ done
    BY <1>1 DEF JobInv, Doing, Retained, Committed
  <1>3. IsFiniteSet(ids \ done) /\ Cardinality(ids \ done) \in Nat
    <2>1. (ids \ done) \in SUBSET Ids
      BY DEF TypeOK, Receipt
    <2> HIDE DEF ids, done
    <2> QED BY <2>1, ConstantsAssumption, FS_Subset, FS_CardinalityType
  <1>4. Cardinality(ids \ done) # 0
    <2> HIDE DEF ids, done
    <2> QED BY <1>2, <1>3, FS_EmptySet
  <1>5. /\ commitLines[r] + Cardinality(ids \ done) <= MaxRecords
        /\ commitLines[r] = Cardinality(commitLog[r]) /\ commitLines[r] \in Nat
    BY DEF LinesInv, CommitLogLoads, TypeOK
  <1>6. Cardinality(receipts[r]) < MaxRecords
    <2> HIDE DEF ids, done
    <2> QED BY <1>1, <1>3, <1>4, <1>5, ConstantsAssumption
  <1>7. ~(Cardinality(receipts[r]) >= MaxRecords)
    BY <1>1, <1>5, <1>6, ConstantsAssumption
  <1> QED BY <1>1, <1>7 DEF AppendRefused


\* A member inside submit_vote takes a step of its commit, or stops.
LEMMA JobSteps ==
    ASSUME JobInv, NEW r \in Peers, Member(r), job[r] # Free
    PROVE  Commit(r) \/ Crash(r)
  <1>1. phase[r] = "up"
    BY DEF JobInv
  <1> QED BY <1>1 DEF Member, Proposal, Voting, JournalStep, Restart, Propose,
     Import, SignVote, SubmitVote, SubmitToCommitted, Admissible, VoteFails,
     CloseFails, Idle, Fold, Reconcile, Open, OpenDone, Recover, RecoverFails

LEMMA AtFields ==
    ASSUME NEW step, step # "idle", NEW i, NEW e
    PROVE  /\ At(step, i, e) # Free /\ At(step, i, e).at = step
           /\ At(step, i, e).id = i /\ At(step, i, e).event = e
  <1>1. /\ At(step, i, e).at = step
        /\ At(step, i, e).id = i /\ At(step, i, e).event = e
    BY DEF At
  <1>2. Free.at = "idle"
    BY DEF Free
  <1> QED BY <1>1, <1>2

\* Without failed writes an appended frame is completed before submit_vote
\* returns.
LEMMA FramedCompletes ==
    ASSUME TypeOK, MemoryInv, JobInv, LinesInv, OnceInv, MaxFaults = 0,
           NEW r \in Peers, Member(r), job[r] # Free, job[r].at = "framed"
    PROVE  phase'[r] = "up" => \E x \in commitLog'[r] : x.id = job[r].id /\ x.committed
  <1>1. CASE Crash(r)
    BY <1>1 DEF Crash, Stop, TypeOK
  <1>2. CASE Complete(r)
    <2>1. job[r].id \in Ids /\ job[r].event \in Events
      BY JobFields
    <2>2. PICK x \in Receipt : /\ x = Record(job[r].id, job[r].event, TRUE)
                               /\ x.id = job[r].id /\ x.committed
      BY <2>1, CompletionRecord
    <2>3. x \in commitLog'[r]
      BY <1>2, <2>2 DEF Complete, AppendRecord, TypeOK
    <2> QED BY <2>2, <2>3
  <1>3. ~CompleteFails(r)
    BY NoFailure, SlotIsKept DEF CompleteFails, AppendFails
  <1>4. Complete(r) \/ CompleteFails(r) \/ Crash(r)
    BY JobSteps DEF Commit, Prepare, PrepareRefused, PrepareFails, AppendFrame,
       FrameRejected, FrameFails, Doing
  <1> QED BY <1>1, <1>2, <1>3, <1>4

\* What recovery leaves open when the database is ready was never appended.
LEMMA RecoveredIsDone ==
    ASSUME TypeOK, MemoryInv, LinesInv, OnceInv, NEW r \in Peers, OpenDone(r),
           NEW v \in appended[r]
    PROVE  Done(r, v.id)
  <1> SUFFICES ASSUME ~Done(r, v.id) PROVE FALSE
    OBVIOUS
  <1>1. receipts[r] = commitLog[r]
    BY DEF MemoryInv, OnceInv, OpenDone
  <1>2. PICK x \in commitLog[r] : x.id = v.id /\ x.event = v.event
    BY DEF OnceInv
  <1>3. v.event \in frames[r]
    BY DEF OnceInv
  <1>4. Fits(r, x.id, x.event)
    BY <1>1 DEF LinesInv, CommitLogLoads, Fits
  <1>5. x.id \in Unfinished(r)
    BY <1>1, <1>2 DEF Unfinished, Retained, Committed, Done
  <1>6. Closes(r, x.id, x.event)
    BY <1>2, <1>3, <1>4, <1>5 DEF Closes
  <1> QED BY <1>1, <1>6 DEF OpenDone

\* Only the end of open makes a member ready.
LEMMA ReadyStep ==
    ASSUME TypeOK, NEW r \in Peers, Member(r), phase'[r] = "up"
    PROVE  phase[r] = "up" \/ OpenDone(r)
  BY DEF TypeOK, Member, Proposal, Voting, Commit, JournalStep, Restart, Propose,
     Import, SignVote, SubmitVote, SubmitToCommitted, VoteFails, CloseFails, Prepare,
     PrepareRefused, PrepareFails, AppendFrame, FrameRejected, FrameFails, Complete,
     CompleteFails, Fold, Reconcile, Crash, Open, Recover, RecoverFails, Stop

\* The parts of OnceInv about one appended envelope.
Settled(r, v) ==
    /\ \E x \in commitLog[r] : x.id = v.id /\ x.event = v.event
    /\ v.event \in frames[r] \/ Done(r, v.id)
    /\ phase[r] = "up" => Done(r, v.id) \/ job[r] = At("framed", v.id, v.event)

LEMMA SettledStays ==
    ASSUME TypeOK, MemoryInv, JobInv, LinesInv, OnceInv, MaxFaults = 0,
           NEW r \in Peers, Member(r), NEW v \in appended[r]
    PROVE  Settled(r, v)'
  <1>1. commitLog[r] \subseteq commitLog'[r]
    BY VotesStay
  <1>2. Settled(r, v)
    BY DEF OnceInv, Settled
  <1>3. \E x \in commitLog'[r] : x.id = v.id /\ x.event = v.event
    BY <1>1, <1>2 DEF Settled
  <1>4. Done(r, v.id) => Done(r, v.id)'
    BY <1>1 DEF Done
  <1>5. ASSUME ~Done(r, v.id) PROVE v.event \in frames'[r]
    <2>1. v.event \in frames[r]
      BY <1>2, <1>5 DEF Settled
    <2>2. CASE UNCHANGED journal
      BY <2>1, <2>2 DEF journal
    <2>3. CASE Framed(r)
      BY <2>1, <2>3, FramedFields
    <2>4. ~Fold(r)
      BY <1>2, <1>5, AtFields DEF Fold, Idle, Settled
    <2>5. ASSUME NEW e \in Events, Reconcile(r, e) PROVE v.event \in frames'[r]
      BY <2>1, <2>5 DEF Reconcile, TypeOK
    <2> QED BY <2>2, <2>3, <2>4, <2>5, FrameSteps
  <1>6. ASSUME phase'[r] = "up", ~Done(r, v.id) PROVE Done(r, v.id)'
    <2>1. phase[r] = "up"
      BY <1>6, ReadyStep, RecoveredIsDone
    <2>2. job[r] = At("framed", v.id, v.event)
      BY <1>2, <1>6, <2>1 DEF Settled
    <2>3. job[r] # Free /\ job[r].at = "framed" /\ job[r].id = v.id
      BY <2>2, AtFields
    <2>4. \E x \in commitLog'[r] : x.id = v.id /\ x.committed
      BY <1>6, <2>3, FramedCompletes
    <2> QED BY <2>4 DEF Done
  <1> QED BY <1>3, <1>4, <1>5, <1>6 DEF Settled


\* A quorum appends an event that the member never appended.
LEMMA NewFrame ==
    ASSUME TypeOK, MemoryInv, JobInv, OnceInv, MaxFaults = 0,
           NEW r \in Peers, Member(r), Doing(r, "prepared"), Framed(r),
           NEW v, v = Env(job[r].id, job[r].event)
    PROVE  v \notin appended[r] /\ Settled(r, v)'
  <1>1. v.id = job[r].id /\ v.event = job[r].event
    BY DEF Env
  <1>2. /\ phase[r] = "up" /\ job[r] # Free /\ job[r].at = "prepared"
        /\ receipts[r] = commitLog[r]
    BY DEF Doing, MemoryInv, OnceInv
  <1>3. ~Done(r, v.id)
    BY <1>1, <1>2 DEF JobInv, Committed, Done
  <1>4. job[r] # At("framed", v.id, v.event)
    BY <1>2, AtFields
  <1>5. v \notin appended[r]
    BY <1>2, <1>3, <1>4 DEF OnceInv
  <1>6. \E x \in commitLog[r] : x.id = v.id /\ x.event = v.event
    BY <1>1, <1>2 DEF JobInv, Retained, Fits
  <1>7. \E x \in commitLog'[r] : x.id = v.id /\ x.event = v.event
    BY <1>6, VotesStay
  <1>8. v.event \in frames'[r] /\ v \in appended'[r]
    BY <1>1, FramedFields
  <1>9. ~UNCHANGED appended
    BY <1>5, <1>8
  <1>10. Step(r, "framed")
    <2>1. ~FrameFails(r)
      BY NoFailure DEF FrameFails
    <2> QED BY <1>2, <1>9, <2>1, JobSteps DEF Commit, Prepare, PrepareRefused, PrepareFails,
       AppendFrame, FrameRejected, Complete, CompleteFails, Crash, Doing, journal
  <1>11. job'[r] = At("framed", v.id, v.event)
    BY <1>1, <1>10 DEF Step, TypeOK
  <1> QED BY <1>5, <1>7, <1>8, <1>11 DEF Settled

LEMMA OnceStep ==
    ASSUME TypeOK, MemoryInv, JobInv, LinesInv, OnceInv, MaxFaults = 0, [Next]_vars
    PROVE  OnceInv'
  <1>1. CASE UNCHANGED vars
    BY <1>1 DEF vars, OnceInv, Done
  <1>2. ASSUME NEW r \in Peers, Member(r) PROVE OnceInv'
    <2> SUFFICES ASSUME NEW q \in Peers
                 PROVE  twice'[q] = {} /\ \A v \in appended'[q] : Settled(q, v)'
      BY <1>2, NeverPoisoned DEF OnceInv, Settled
    <2>0. twice[q] = {} /\ \A v \in appended[q] : Settled(q, v)
      BY DEF OnceInv, Settled
    <2>1. CASE q # r
      <3>1. /\ job'[q] = job[q] /\ phase'[q] = phase[q] /\ commitLog'[q] = commitLog[q]
            /\ frames'[q] = frames[q] /\ appended'[q] = appended[q] /\ twice'[q] = twice[q]
        BY <1>2, <2>1, Elsewhere
      <3> QED BY <2>0, <3>1 DEF Settled, Done
    <2>2. CASE q = r
      <3>1. \A v \in appended[r] : Settled(r, v)'
        BY <1>2, SettledStays
      <3>2. CASE UNCHANGED << appended, twice >>
        BY <2>0, <2>2, <3>1, <3>2
      <3>3. CASE Doing(r, "prepared") /\ Framed(r)
        <4>1. PICK v : v = Env(job[r].id, job[r].event)
          OBVIOUS
        <4>2. v \notin appended[r] /\ Settled(r, v)'
          BY <1>2, <3>3, <4>1, NewFrame
        <4>3. /\ appended'[r] = appended[r] \cup {v}
              /\ twice'[r] = twice[r] \cup ({v} \cap appended[r])
          BY <3>3, <4>1, FramedFields
        <4>4. twice'[r] = {}
          BY <2>0, <2>2, <4>2, <4>3
        <4>5. \A w \in appended'[r] : Settled(r, w)'
          BY <3>1, <4>2, <4>3
        <4> QED BY <2>2, <4>4, <4>5
      <3> QED BY <1>2, <3>2, <3>3, AppendedStep
    <2> QED BY <2>1, <2>2
  <1> QED BY <1>1, <1>2 DEF Next

\* submit_vote, "crossing quorum applies + persists the event exactly once": holds
\* when checkpoints fold no journal, or when no ledger, journal or projection
\* write fails; crashes, restarts and repeated or late votes may come at any
\* point.  Without both, the completion of a durable commit may fail, a
\* checkpoint then folds its signed frame away, and a late vote appends the
\* event again.
THEOREM CommitsAppendOnce ==
    ASSUME Retention = "full" \/ MaxFaults = 0
    PROVE  Spec => []AppendedOnce
  <1> DEFINE Inv  == TypeOK /\ MemoryInv /\ JobInv /\ HeldInv /\ LinesInv
             Once == (Retention = "full" /\ KeptInv) \/ (MaxFaults = 0 /\ OnceInv)
  <1>1. Init => Inv /\ Once
    <2> SUFFICES ASSUME Init PROVE KeptInv /\ OnceInv
      BY TypeInit, MemoryInit, JobInit, LinesInit
    <2> QED BY DEF Init, KeptInv, OnceInv
  <1>2. Inv /\ Once /\ [Next]_vars => (Inv /\ Once)'
    <2>1. Inv /\ [Next]_vars => Inv'
      BY TypeStep, MemoryStep, JobInvStep, HeldStep, LinesStep
    <2>2. Inv /\ Once /\ [Next]_vars => Once'
      BY KeptStep, OnceStep
    <2> QED BY <2>1, <2>2
  <1>3. Once => AppendedOnce
    BY DEF KeptInv, OnceInv, AppendedOnce
  <1> QED BY <1>1, <1>2, <1>3, PTL DEF Spec

============================================================================
