----------------------------- MODULE Consensus -----------------------------
(***************************************************************************)
(* Consensus on MASTER events (src/src/lib.rs): proposals, the durable     *)
(* vote-lock ledger consensus-votes.jsonl, the commit ledger               *)
(* consensus-commits.jsonl and the recovery that closes a commit a crash   *)
(* interrupted.                                                            *)
(*                                                                         *)
(* Every member of a closed roster runs this code.  Envelopes and signed   *)
(* votes travel through applications and gossip, which may deliver them    *)
(* anywhere, late, twice or never: an envelope is any pair of an id and a  *)
(* signed event, a vote any signature that sign_vote returned.  An event   *)
(* stands for the digest of the complete signed event.                     *)
(*                                                                         *)
(* Every call holds commit_lock.  Only submit_vote goes through several    *)
(* durable steps, which are its job; between two of them the process may   *)
(* stop.                                                                   *)
(***************************************************************************)
EXTENDS Integers, FiniteSets

CONSTANTS
    Peers,         \* the roster, this node included
    Ids,           \* proposal ids
    Events,        \* signed events
    MaxRecords,    \* MAX_CONSENSUS_LEDGER_RECORDS
    MaxProposals,  \* MAX_CONSENSUS_PROPOSALS
    MaxFaults,     \* bound on failed ledger, journal and projection writes
    Retention      \* "frontier_only": checkpoints fold the journal; "full": never

ASSUME ConstantsAssumption ==
    /\ IsFiniteSet(Peers)
    /\ IsFiniteSet(Ids)
    /\ IsFiniteSet(Events)
    /\ MaxRecords \in Nat
    /\ MaxProposals \in Nat
    /\ MaxFaults \in Nat
    /\ Retention \in {"frontier_only", "full"}

VARIABLES
    \* ---- on disk, for each member ----
    voteLog,     \* consensus-votes.jsonl: its complete records
    voteLines,   \*   and how many lines it has
    commitLog,   \* consensus-commits.jsonl
    commitLines,
    frames,      \* consensus events whose signed frame the journal holds
    \* ---- in the process ----
    phase,       \* "down" | "recovering" | "up"
    locks,       \* consensus_vote_locks
    receipts,    \* consensus_commit_receipts: the records they come from
    proposals,   \* the proposals retained in memory
    votePoisoned, commitPoisoned, recovery_required,
    job,         \* where submit_vote is in its commit
    \* ---- the world ----
    ballots,     \* the signatures sign_vote returned
    logged,      \* events that were ever in the journal
    appended,    \* envelopes whose event submit_vote appended to the journal
    twice,       \*   and those it appended again
    faults

ledgers == << voteLog, voteLines, commitLog, commitLines, receipts, locks >>
journal == << frames, logged, appended, twice >>
vars    == << voteLog, voteLines, commitLog, commitLines, frames, phase, locks,
              receipts, proposals, votePoisoned, commitPoisoned,
              recovery_required, job, ballots, logged, appended, twice, faults >>

----------------------------------------------------------------------------
(* Data.                                                                   *)

Envelope == [id : Ids, event : Events]
Ballot   == [peer : Peers, id : Ids, event : Events, approve : BOOLEAN]
Receipt  == [id : Ids, event : Events, committed : BOOLEAN]

Env(i, e)        == [id |-> i, event |-> e]
Vote(p, i, e, a) == [peer |-> p, id |-> i, event |-> e, approve |-> a]

\* Mutant: the arguments of the receipt are swapped.
RecordSwapped(i, e, done) == [id |-> e, event |-> i, committed |-> done]

Record(i, e, done) == [id |-> i, event |-> e, committed |-> done]

Free == [at |-> "idle"]
Job  == {Free} \cup
        [at : {"quorum", "prepared", "framed"}, id : Ids, event : Events]
At(step, i, e) == [at |-> step, id |-> i, event |-> e]

Init ==
    /\ voteLog = [r \in Peers |-> {}]
    /\ voteLines = [r \in Peers |-> 0]
    /\ commitLog = [r \in Peers |-> {}]
    /\ commitLines = [r \in Peers |-> 0]
    /\ frames = [r \in Peers |-> {}]
    /\ phase = [r \in Peers |-> "up"]
    /\ locks = [r \in Peers |-> {}]
    /\ receipts = [r \in Peers |-> {}]
    /\ proposals = [r \in Peers |-> {}]
    /\ votePoisoned = [r \in Peers |-> FALSE]
    /\ commitPoisoned = [r \in Peers |-> FALSE]
    /\ recovery_required = [r \in Peers |-> FALSE]
    /\ job = [r \in Peers |-> Free]
    /\ ballots = {}
    /\ logged = [r \in Peers |-> {}]
    /\ appended = [r \in Peers |-> {}]
    /\ twice = [r \in Peers |-> {}]
    /\ faults = 0

\* A call may start: commit_lock is free and ensure_writable agrees.
Idle(r) == phase[r] = "up" /\ job[r] = Free /\ ~recovery_required[r]

----------------------------------------------------------------------------
(* The vote-lock ledger.                                                   *)

\* persist_consensus_vote_lock: the record is synced, then kept in memory.
Lock(r, b) ==
    /\ ~votePoisoned[r]
    /\ Cardinality(locks[r]) < MaxRecords
    /\ voteLog' = [voteLog EXCEPT ![r] = @ \cup {b}]
    /\ voteLines' = [voteLines EXCEPT ![r] = @ + 1]
    /\ locks' = [locks EXCEPT ![r] = @ \cup {b}]

\* Mutant: the ledger stays writable after its directory could not be synced.
LockFailsWritable(r, b) ==
    /\ ~votePoisoned[r]
    /\ Cardinality(locks[r]) < MaxRecords
    /\ faults < MaxFaults
    /\ faults' = faults + 1
    /\ voteLog' = [voteLog EXCEPT ![r] = @ \cup {b}]
    /\ voteLines' = [voteLines EXCEPT ![r] = @ + 1]
    /\ UNCHANGED << locks, votePoisoned >>

\* The record's write or the rollback after it, or the sync of the directory
\* fails: the record may be complete in the file, memory does not have it.  A
\* write that is rolled back leaves everything as it was.
LockFails(r, b) ==
    /\ ~votePoisoned[r]
    /\ Cardinality(locks[r]) < MaxRecords
    /\ faults < MaxFaults
    /\ faults' = faults + 1
    /\ votePoisoned' = [votePoisoned EXCEPT ![r] = TRUE]
    /\ \/ /\ voteLog' = [voteLog EXCEPT ![r] = @ \cup {b}]
          /\ voteLines' = [voteLines EXCEPT ![r] = @ + 1]
       \/ UNCHANGED << voteLog, voteLines >>
    /\ UNCHANGED locks

\* restore_consensus_vote_locks: no lock binds the id to another event.
Unbound(r, i, e) == \A b \in locks[r] : b.id = i => b.event = e

\* Mutant: rejections count too.
ApprovalsOfAny(bs, i) == {b.peer : b \in {c \in bs : c.id = i}}

\* Mutant: half of the roster is enough.
IsHalf(ps) == Cardinality(ps) >= Cardinality(Peers) \div 2

\* verified_consensus_approval_count, and the strict majority of submit_vote.
Approvals(bs, i) == {b.peer : b \in {c \in bs : c.id = i /\ c.approve}}
IsQuorum(ps)     == Cardinality(ps) > Cardinality(Peers) \div 2

----------------------------------------------------------------------------
(* The commit ledger.                                                      *)

Retained(r)     == {x.id : x \in receipts[r]}
Committed(r, i) == \E x \in receipts[r] : x.id = i /\ x.committed
Unfinished(r)   == {i \in Retained(r) : ~Committed(r, i)}

\* The id has no receipt for another event.
Fits(r, i, e) == \A x \in receipts[r] : x.id = i => x.event = e

\* append_consensus_commit_record; consensus_commit_ledger_records counts the
\* records in memory.
AppendRecord(r, x) ==
    /\ ~commitPoisoned[r]
    /\ Cardinality(receipts[r]) < MaxRecords
    /\ commitLog' = [commitLog EXCEPT ![r] = @ \cup {x}]
    /\ commitLines' = [commitLines EXCEPT ![r] = @ + 1]
    /\ receipts' = [receipts EXCEPT ![r] = @ \cup {x}]

\* It fails: rolled back, or poisoned with or without the record in the file.
AppendFails(r, x) ==
    /\ ~commitPoisoned[r]
    /\ Cardinality(receipts[r]) < MaxRecords
    /\ faults < MaxFaults
    /\ faults' = faults + 1
    /\ \/ UNCHANGED << commitLog, commitLines, commitPoisoned >>
       \/ /\ commitPoisoned' = [commitPoisoned EXCEPT ![r] = TRUE]
          /\ \/ /\ commitLog' = [commitLog EXCEPT ![r] = @ \cup {x}]
                /\ commitLines' = [commitLines EXCEPT ![r] = @ + 1]
             \/ UNCHANGED << commitLog, commitLines >>
    /\ UNCHANGED receipts

\* It refuses before it writes.
AppendRefused(r) == commitPoisoned[r] \/ Cardinality(receipts[r]) >= MaxRecords

\* Mutant: a prepared receipt counts as committed, whatever the journal holds.
ClosesUnseen(r, i, e) == Fits(r, i, e) /\ i \in Unfinished(r)

\* Mutant: the journal is searched when the database is opened, and only then.
ClosesAtOpen(r, i, e) ==
    /\ phase[r] = "recovering"
    /\ Fits(r, i, e) /\ i \in Unfinished(r) /\ e \in frames[r]

\* proposal_has_durable_commit: a prepared receipt whose signed event is in the
\* journal is to be completed.
Closes(r, i, e) == Fits(r, i, e) /\ i \in Unfinished(r) /\ e \in frames[r]
Close(r, i, e)  == Closes(r, i, e) /\ AppendRecord(r, Record(i, e, TRUE))

\* ensure_consensus_commit_capacity: a new receipt needs two records, and every
\* unfinished one keeps one for its completion.
HasCapacity(r, i) ==
    LET reserved == Cardinality(Unfinished(r))
        new      == i \notin Retained(r)
    IN  /\ new => Cardinality(Retained(r)) < MaxRecords \div 2
        /\ Cardinality(receipts[r]) + reserved + (IF new THEN 2 ELSE 0)
              <= MaxRecords

----------------------------------------------------------------------------
(* Proposals.  They live in memory, may expire at any call that prunes     *)
(* them, and are gone after a restart.                                     *)

\* propose_consensus: a fresh uuid.
Propose(r, i, e) ==
    /\ Idle(r)
    /\ \A s \in Peers : /\ i \notin {p.id : p \in proposals[s]}
                        /\ i \notin {b.id : b \in voteLog[s]}
    /\ \E kept \in SUBSET proposals[r] :
          /\ Cardinality(kept) < MaxProposals
          /\ proposals' = [proposals EXCEPT ![r] = kept \cup {Env(i, e)}]
    /\ UNCHANGED << ledgers, journal, phase, votePoisoned, commitPoisoned,
                    recovery_required, job, ballots, faults >>

\* The ledgers agree with the envelope; a completion it calls for can be written.
Checked(r, i, e) ==
    /\ Unbound(r, i, e)
    /\ Fits(r, i, e)
    /\ Closes(r, i, e) => ~AppendRefused(r)

\* The retained proposals agree too, or there is room for one more.
Admits(r, i, e, kept) ==
    LET known == {p.event : p \in {q \in kept : q.id = i}}
    IN  /\ Checked(r, i, e)
        /\ known \subseteq {e}
        /\ known = {} => Cardinality(kept) < MaxProposals

\* accept_consensus_proposal: prunes, checks the envelope against the ledgers and
\* the retained proposals, and completes an interrupted commit on the way.
Import(r, i, e) ==
    /\ Idle(r)
    /\ \E kept \in SUBSET proposals[r] :
          proposals' = [proposals EXCEPT ![r] =
              IF Admits(r, i, e, kept) THEN kept \cup {Env(i, e)} ELSE kept]
    /\ IF Checked(r, i, e) /\ Closes(r, i, e)
       THEN Close(r, i, e) /\ UNCHANGED << voteLog, voteLines, locks >>
       ELSE UNCHANGED ledgers
    /\ UNCHANGED << journal, phase, votePoisoned, commitPoisoned,
                    recovery_required, job, ballots, faults >>

----------------------------------------------------------------------------
(* Votes.                                                                  *)

\* The lock of the pair of a proposal and a voter, if there is one.
LockOf(r, i, p) == {b \in locks[r] : b.id = i /\ b.peer = p}

\* sign_vote: the first choice of this member is locked before its signature is
\* returned; later calls return that signature or an error.
SignVote(r, i, e, a) ==
    LET b == Vote(r, i, e, a)
    IN  /\ Idle(r)
        /\ Env(i, e) \in proposals[r]
        /\ Fits(r, i, e)
        /\ \/ /\ Closes(r, i, e)
              /\ Close(r, i, e)
              /\ ballots' = ballots \cup ({b} \cap LockOf(r, i, r))
              /\ UNCHANGED << voteLog, voteLines, locks >>
           \/ /\ ~Closes(r, i, e)
              /\ b \in locks[r]
              /\ ballots' = ballots \cup {b}
              /\ UNCHANGED ledgers
           \/ /\ ~Closes(r, i, e)
              /\ ~Committed(r, i)
              /\ LockOf(r, i, r) = {}
              /\ Lock(r, b)
              /\ ballots' = ballots \cup {b}
              /\ UNCHANGED << commitLog, commitLines, receipts >>
        /\ UNCHANGED << journal, phase, proposals, votePoisoned, commitPoisoned,
                        recovery_required, job, faults >>

\* submit_vote gets as far as the vote itself: the signature verifies for the
\* retained proposal, and neither ledger speaks against it.
Admissible(r, b) ==
    /\ Idle(r)
    /\ Env(b.id, b.event) \in proposals[r]
    /\ Unbound(r, b.id, b.event)
    /\ Fits(r, b.id, b.event)

\* submit_vote finds the commit already durable and closes it.
SubmitToCommitted(r, b) ==
    /\ Admissible(r, b)
    /\ Close(r, b.id, b.event)
    /\ UNCHANGED << journal, phase, voteLog, voteLines, locks, proposals,
                    votePoisoned, commitPoisoned, recovery_required, job,
                    ballots, faults >>

\* submit_vote records the vote, unless its lock is already there, and counts.
SubmitVote(r, b) ==
    /\ Admissible(r, b)
    /\ ~Closes(r, b.id, b.event)
    /\ ~Committed(r, b.id)
    /\ \/ b \in locks[r] /\ UNCHANGED ledgers
       \/ /\ LockOf(r, b.id, b.peer) = {}
          /\ Lock(r, b)
          /\ UNCHANGED << commitLog, commitLines, receipts >>
    /\ job' = [job EXCEPT ![r] =
          IF IsQuorum(Approvals(locks'[r], b.id))
          THEN At("quorum", b.id, b.event) ELSE Free]
    /\ UNCHANGED << journal, phase, proposals, votePoisoned, commitPoisoned,
                    recovery_required, ballots, faults >>

\* The ledger write of sign_vote or submit_vote fails, and so does the call.
VoteFails(r, b) ==
    /\ Idle(r)
    /\ Env(b.id, b.event) \in proposals[r]
    /\ Fits(r, b.id, b.event)
    /\ b.peer = r \/ (b \in ballots /\ Unbound(r, b.id, b.event))
    /\ ~Closes(r, b.id, b.event)
    /\ ~Committed(r, b.id)
    /\ LockOf(r, b.id, b.peer) = {}
    /\ LockFails(r, b)
    /\ UNCHANGED << journal, phase, commitLog, commitLines, receipts, proposals,
                    commitPoisoned, recovery_required, job, ballots >>

\* The completion that a call owes an interrupted commit fails, and so does the
\* call.
CloseFails(r, i, e) ==
    /\ Idle(r)
    /\ Env(i, e) \in proposals[r]
    /\ Closes(r, i, e)
    /\ AppendFails(r, Record(i, e, TRUE))
    /\ UNCHANGED << journal, phase, voteLog, voteLines, locks, proposals,
                    votePoisoned, recovery_required, job, ballots >>

----------------------------------------------------------------------------
(* The commit of submit_vote: prepare receipt, frame, completion receipt.  *)

Doing(r, step) == phase[r] = "up" /\ job[r] # Free /\ job[r].at = step
Step(r, step)  == job' = [job EXCEPT ![r] = At(step, @.id, @.event)]
Return(r)      == job' = [job EXCEPT ![r] = Free]

\* prepare_consensus_commit: a receipt that an earlier attempt left is used.
Prepare(r) ==
    /\ Doing(r, "quorum")
    /\ HasCapacity(r, job[r].id)
    /\ IF job[r].id \in Retained(r)
       THEN UNCHANGED ledgers
       ELSE /\ AppendRecord(r, Record(job[r].id, job[r].event, FALSE))
            /\ UNCHANGED << voteLog, voteLines, locks >>
    /\ Step(r, "prepared")
    /\ UNCHANGED << journal, phase, proposals, votePoisoned, commitPoisoned,
                    recovery_required, ballots, faults >>

\* No capacity, or the ledger is poisoned.
PrepareRefused(r) ==
    /\ Doing(r, "quorum")
    /\ \/ ~HasCapacity(r, job[r].id)
       \/ job[r].id \notin Retained(r) /\ AppendRefused(r)
    /\ Return(r)
    /\ UNCHANGED << ledgers, journal, phase, proposals, votePoisoned,
                    commitPoisoned, recovery_required, ballots, faults >>

PrepareFails(r) ==
    /\ Doing(r, "quorum")
    /\ HasCapacity(r, job[r].id)
    /\ job[r].id \notin Retained(r)
    /\ AppendFails(r, Record(job[r].id, job[r].event, FALSE))
    /\ Return(r)
    /\ UNCHANGED << journal, phase, voteLog, voteLines, locks, proposals,
                    votePoisoned, recovery_required, ballots >>

\* The frame of the committed event is durable.
Framed(r) ==
    LET env == Env(job[r].id, job[r].event)
    IN  /\ frames' = [frames EXCEPT ![r] = @ \cup {env.event}]
        /\ logged' = [logged EXCEPT ![r] = @ \cup {env.event}]
        /\ appended' = [appended EXCEPT ![r] = @ \cup {env}]
        /\ twice' = [twice EXCEPT ![r] = @ \cup ({env} \cap appended[r])]

\* persist_signed, then the update of memory.
AppendFrame(r) ==
    /\ Doing(r, "prepared")
    /\ Framed(r)
    /\ Step(r, "framed")
    /\ UNCHANGED << ledgers, phase, proposals, votePoisoned, commitPoisoned,
                    recovery_required, ballots, faults >>

\* The preflight of persist_signed rejects the event (a collection or relational
\* definition changed, say); the receipt stays prepared.
FrameRejected(r) ==
    /\ Doing(r, "prepared")
    /\ Return(r)
    /\ UNCHANGED << ledgers, journal, phase, proposals, votePoisoned,
                    commitPoisoned, recovery_required, ballots, faults >>

\* COMMIT_OUTCOME_UNKNOWN, or DURABLE_COMMIT_APPLY_FAILED after the frame.
FrameFails(r) ==
    /\ Doing(r, "prepared")
    /\ faults < MaxFaults
    /\ faults' = faults + 1
    /\ Framed(r) \/ UNCHANGED journal
    /\ recovery_required' = [recovery_required EXCEPT ![r] = TRUE]
    /\ Return(r)
    /\ UNCHANGED << ledgers, phase, proposals, votePoisoned, commitPoisoned,
                    ballots >>

\* complete_consensus_commit
Complete(r) ==
    /\ Doing(r, "framed")
    /\ AppendRecord(r, Record(job[r].id, job[r].event, TRUE))
    /\ Return(r)
    /\ UNCHANGED << journal, phase, voteLog, voteLines, locks, proposals,
                    votePoisoned, commitPoisoned, recovery_required, ballots,
                    faults >>

\* It fails: the caller gets an error for a commit that is durable.
CompleteFails(r) ==
    /\ Doing(r, "framed")
    /\ \/ AppendFails(r, Record(job[r].id, job[r].event, TRUE))
       \/ /\ AppendRefused(r)
          /\ UNCHANGED << commitLog, commitLines, receipts, commitPoisoned, faults >>
    /\ Return(r)
    /\ UNCHANGED << journal, phase, voteLog, voteLines, locks, proposals,
                    votePoisoned, recovery_required, ballots >>

----------------------------------------------------------------------------
(* The journal beside it: replication may bring a frame that another       *)
(* member committed, a checkpoint replaces all frames by new ones.         *)

\* reconcile_state persists a replicated frame with its original signature.
Reconcile(r, e) ==
    /\ Idle(r)
    /\ \E s \in Peers \ {r} : e \in frames[s]
    /\ frames' = [frames EXCEPT ![r] = @ \cup {e}]
    /\ logged' = [logged EXCEPT ![r] = @ \cup {e}]
    /\ UNCHANGED << ledgers, phase, proposals, votePoisoned, commitPoisoned,
                    recovery_required, job, ballots, appended, twice, faults >>

\* save_state and compact fold the journal; the frames of the base carry other
\* signatures.
Fold(r) ==
    /\ Retention = "frontier_only"
    /\ Idle(r)
    /\ frames' = [frames EXCEPT ![r] = {}]
    /\ UNCHANGED << ledgers, phase, proposals, votePoisoned, commitPoisoned,
                    recovery_required, job, ballots, logged, appended, twice,
                    faults >>

----------------------------------------------------------------------------
(* Restart.                                                                *)

\* Memory is gone; what the ledgers and the journal hold stays.
Stop(r) ==
    /\ phase' = [phase EXCEPT ![r] = "down"]
    /\ locks' = [locks EXCEPT ![r] = {}]
    /\ receipts' = [receipts EXCEPT ![r] = {}]
    /\ proposals' = [proposals EXCEPT ![r] = {}]
    /\ votePoisoned' = [votePoisoned EXCEPT ![r] = FALSE]
    /\ commitPoisoned' = [commitPoisoned EXCEPT ![r] = FALSE]
    /\ recovery_required' = [recovery_required EXCEPT ![r] = FALSE]
    /\ job' = [job EXCEPT ![r] = Free]

Crash(r) ==
    /\ phase[r] # "down"
    /\ Stop(r)
    /\ UNCHANGED << voteLog, voteLines, commitLog, commitLines, journal, ballots,
                    faults >>

\* load_consensus_vote_locks accepts the file: one record for each pair of a
\* proposal and a voter, within the limit.
VoteLogLoads(r) ==
    /\ voteLines[r] <= MaxRecords
    /\ voteLines[r] = Cardinality(voteLog[r])
    /\ \A b, c \in voteLog[r] : b.id = c.id /\ b.peer = c.peer => b = c

\* load_consensus_commit_receipts: one event for each proposal, and room for the
\* completion of every prepared receipt.
CommitLogLoads(r) ==
    LET ids  == {x.id : x \in commitLog[r]}
        done == {x.id : x \in {y \in commitLog[r] : y.committed}}
    IN  /\ \A x, y \in commitLog[r] : x.id = y.id => x.event = y.event
        /\ Cardinality(ids) <= MaxRecords \div 2
        /\ commitLines[r] + Cardinality(ids \ done) <= MaxRecords

\* Mutant: the vote locks are not loaded.
OpenForgetsVotes(r) ==
    /\ phase[r] = "down"
    /\ VoteLogLoads(r)
    /\ CommitLogLoads(r)
    /\ phase' = [phase EXCEPT ![r] = "recovering"]
    /\ receipts' = [receipts EXCEPT ![r] = commitLog[r]]
    /\ UNCHANGED << voteLog, voteLines, locks, commitLog, commitLines, journal,
                    proposals, votePoisoned, commitPoisoned, recovery_required,
                    job, ballots, faults >>

\* open loads both ledgers; it fails if one of them does not load.
Open(r) ==
    /\ phase[r] = "down"
    /\ VoteLogLoads(r)
    /\ CommitLogLoads(r)
    /\ phase' = [phase EXCEPT ![r] = "recovering"]
    /\ locks' = [locks EXCEPT ![r] = voteLog[r]]
    /\ receipts' = [receipts EXCEPT ![r] = commitLog[r]]
    /\ UNCHANGED << voteLog, voteLines, commitLog, commitLines, journal,
                    proposals, votePoisoned, commitPoisoned, recovery_required,
                    job, ballots, faults >>

\* recover_pending_consensus_commits, one receipt at a time.
Recover(r, i, e) ==
    /\ phase[r] = "recovering"
    /\ Close(r, i, e)
    /\ UNCHANGED << journal, phase, voteLog, voteLines, locks, proposals,
                    votePoisoned, commitPoisoned, recovery_required, job,
                    ballots, faults >>

\* A completion fails; open returns the error.
RecoverFails(r, i, e) ==
    /\ phase[r] = "recovering"
    /\ Closes(r, i, e)
    /\ faults < MaxFaults
    /\ faults' = faults + 1
    /\ \/ /\ commitLog' = [commitLog EXCEPT ![r] = @ \cup {Record(i, e, TRUE)}]
          /\ commitLines' = [commitLines EXCEPT ![r] = @ + 1]
       \/ UNCHANGED << commitLog, commitLines >>
    /\ Stop(r)
    /\ UNCHANGED << voteLog, voteLines, journal, ballots >>

\* Mutant: the database is ready before pending commits are recovered.
OpenDoneAtOnce(r) ==
    /\ phase[r] = "recovering"
    /\ phase' = [phase EXCEPT ![r] = "up"]
    /\ UNCHANGED << ledgers, journal, proposals, votePoisoned, commitPoisoned,
                    recovery_required, job, ballots, faults >>

\* Every receipt that can be completed is.
OpenDone(r) ==
    /\ phase[r] = "recovering"
    /\ \A x \in receipts[r] : ~Closes(r, x.id, x.event)
    /\ phase' = [phase EXCEPT ![r] = "up"]
    /\ UNCHANGED << ledgers, journal, proposals, votePoisoned, commitPoisoned,
                    recovery_required, job, ballots, faults >>

----------------------------------------------------------------------------

Proposal(r) == \E i \in Ids, e \in Events : Propose(r, i, e) \/ Import(r, i, e)

Voting(r) ==
    \/ \E i \in Ids, e \in Events, a \in BOOLEAN : SignVote(r, i, e, a)
    \/ \E b \in ballots : SubmitVote(r, b) \/ SubmitToCommitted(r, b)
    \/ \E b \in Ballot : VoteFails(r, b)
    \/ \E i \in Ids, e \in Events : CloseFails(r, i, e)

Commit(r) ==
    \/ Prepare(r) \/ PrepareRefused(r) \/ PrepareFails(r)
    \/ AppendFrame(r) \/ FrameRejected(r) \/ FrameFails(r)
    \/ Complete(r) \/ CompleteFails(r)

JournalStep(r) == Fold(r) \/ \E e \in Events : Reconcile(r, e)

Restart(r) ==
    \/ Crash(r) \/ Open(r) \/ OpenDone(r)
    \/ \E i \in Ids, e \in Events : Recover(r, i, e) \/ RecoverFails(r, i, e)

Member(r) == Proposal(r) \/ Voting(r) \/ Commit(r) \/ JournalStep(r) \/ Restart(r)

Next == \E r \in Peers : Member(r)

Spec == Init /\ [][Next]_vars

----------------------------------------------------------------------------
(* Properties.                                                             *)

\* Every variable has its type.
TypeOK ==
    /\ voteLog \in [Peers -> SUBSET Ballot]
    /\ voteLines \in [Peers -> Nat]
    /\ commitLog \in [Peers -> SUBSET Receipt]
    /\ commitLines \in [Peers -> Nat]
    /\ frames \in [Peers -> SUBSET Events]
    /\ phase \in [Peers -> {"down", "recovering", "up"}]
    /\ locks \in [Peers -> SUBSET Ballot]
    /\ receipts \in [Peers -> SUBSET Receipt]
    /\ proposals \in [Peers -> SUBSET Envelope]
    /\ votePoisoned \in [Peers -> BOOLEAN]
    /\ commitPoisoned \in [Peers -> BOOLEAN]
    /\ recovery_required \in [Peers -> BOOLEAN]
    /\ job \in [Peers -> Job]
    /\ ballots \in SUBSET Ballot
    /\ logged \in [Peers -> SUBSET Events]
    /\ appended \in [Peers -> SUBSET Envelope]
    /\ twice \in [Peers -> SUBSET Envelope]
    /\ faults \in 0 .. MaxFaults

\* sign_vote: whatever crashes and failed writes come between two calls, a member
\* never gives out signatures for two choices of one proposal.
NoEquivocation ==
    \A b, c \in ballots : b.id = c.id /\ b.peer = c.peer => b = c

\* submit_vote: an event enters the journal, and a receipt the commit ledger, only
\* after a strict majority of the roster bound itself to it, each member in its
\* own vote-lock ledger.
Bound(i, e) == {p \in Peers : Vote(p, i, e, TRUE) \in voteLog[p]}
MajorityBound(i, e) == 2 * Cardinality(Bound(i, e)) > Cardinality(Peers)
CommitNeedsMajority ==
    \A r \in Peers :
        /\ \A v \in appended[r] : MajorityBound(v.id, v.event)
        /\ \A x \in commitLog[r] : MajorityBound(x.id, x.event)

\* Consensus implements Decision: whatever is lost, repeated or restarted, the
\* members never commit different events under one proposal id.  An event is
\* decided when submit_vote has appended it somewhere.
Decided == [i \in Ids |-> {e \in Events : \E r \in Peers : Env(i, e) \in appended[r]}]
D == INSTANCE Decision WITH decided <- Decided
ImplementsDecision == D!Spec

\* The ledgers a process leaves behind are ones the next open accepts.
LedgersLoad == \A r \in Peers : VoteLogLoads(r) /\ CommitLogLoads(r)

\* A completion receipt says that the event was in this member's journal.
ReceiptIsTrue ==
    \A r \in Peers : \A x \in commitLog[r] : x.committed => x.event \in logged[r]

\* proposal_has_durable_commit: while the signed event is in the journal, no
\* retry, late vote or restart appends the event of the proposal again.
NeverAppendsHeld ==
    [][\A r \in Peers : \A v \in twice'[r] \ twice[r] : v.event \notin frames[r]]_vars

\* "crossing quorum applies + persists the event exactly once".
AppendedOnce == \A r \in Peers : twice[r] = {}

============================================================================
