------------------------------ MODULE Serving ------------------------------
(***************************************************************************)
(* How a running database serves vectors (src/src/lib.rs): writes stage a  *)
(* row in the collection's arena and hand its insertion to the index       *)
(* thread through a bounded queue; compaction renumbers the rows; reads    *)
(* may be pinned to a published generation by a lease.                     *)
(*                                                                         *)
(* Every public call below holds commit_lock, so at most one is under way; *)
(* the index thread never takes it, and the flush of the bindings does not *)
(* either.  Steps of a call between which neither of them can be observed  *)
(* are one action.                                                         *)
(*                                                                         *)
(* One collection is modelled.  A vector is known by its node and by the   *)
(* frame that carried it.  What quantisation makes of it is known by the   *)
(* center in use, a number that a compaction may replace.  The digest of a *)
(* generation's components is the content they hold.                       *)
(***************************************************************************)
EXTENDS Integers, Sequences, FiniteSets

CONSTANTS
    Nodes,       \* node ids
    Capacity,    \* capacity of the index queue
    Retention,   \* "frontier_only", or "full": compaction keeps retired rows
    MaxSeq,      \* bound on frame sequence numbers
    MaxLeases,   \* bound on leases that have not expired
    MaxAdmin     \* bound on new centers, revocations, openings and flushes
                 \* and waits that begin without commit_lock

ASSUME ServingAssumption ==
    /\ Capacity \in Nat \ {0}
    /\ MaxSeq \in Nat
    /\ MaxAdmin \in Nat
    /\ MaxLeases \in Nat

VARIABLES
    \* ---- durable ----
    seq,        \* commit_sequence
    live,       \* nodes
    acl,        \* revision of the access policy
    gen,        \* published_generation
    \* ---- the collection ----
    rows,       \* metadata and arena
    center,     \* bq_center
    hnsw,       \* points of the index
    \* ---- the index thread ----
    queue,      \* index_tx
    pending,    \* index_pending
    job,        \* the job in the thread's hands
    acked,      \* flushes it has answered
    \* ---- the call that holds commit_lock, and a flush without it ----
    op,
    goal,       \* what the call does after its flush
    todo,       \* nodes of the call still to be staged
    staged,     \* their points
    other,      \* a flush that does not hold commit_lock is waiting
    flushes,    \* flushes and waits that began without commit_lock so far
    waiting,    \* validate_index_coverage was found readable and waits for the lock
    \* ---- leases ----
    owner,      \* owner_token
    epoch,      \* fencing_epoch
    leases,     \* leases that were given out and have not expired
    poisoned    \* recovery_required

durable == << seq, live, acl, gen >>
arena   == << rows, center >>
thread  == << queue, pending, job, acked >>
call    == << op, goal, todo, staged >>
others  == << other, flushes, waiting >>
lessor  == << owner, epoch, leases, poisoned >>
vars == << durable, arena, hnsw, thread, call, others, lessor >>

----------------------------------------------------------------------------
(* Data.                                                                   *)

Seqs == 0 .. MaxSeq

\* NodeMetadata and its arena slot.
Row == [id : Nat \ {0}, node : Nodes, created : Seqs, retired : Seqs,
        center : 0 .. MaxAdmin]
Ids == {r.id : r \in rows}

\* A vector under an arena id, before and after it is quantised.
Item  == [id : Nat \ {0}, node : Nodes, created : Seqs]
Point == [id : Nat \ {0}, node : Nodes, created : Seqs, center : 0 .. MaxAdmin]

Coded(item, c) == [id |-> item.id, node |-> item.node, created |-> item.created,
                   center |-> c]

\* IndexJob.
Insert(items) == [kind |-> "insert", items |-> items, by |-> "none"]
Flush(who)    == [kind |-> "flush", items |-> {}, by |-> who]
Job   == [kind : {"insert", "flush"}, items : SUBSET Item,
          by : {"none", "call", "other"}]
NoJob == [at |-> "recv", items |-> {}, center |-> 0]

\* What a current-view search can find, and what it ought to find.
IsCurrent(r) == r.retired = 0 /\ r.node \in live
Current == {<< r.node, r.created >> : r \in {q \in rows : IsCurrent(q)}}
Visible ==
    {<< hit[1].node, hit[2].created >> :
        hit \in {h \in rows \X hnsw : h[1].id = h[2].id /\ IsCurrent(h[1])}}

\* GenerationInfo; it is published at the frame after its frontier.
NoGen == [id |-> 0, frontier |-> 0, acl |-> 0, digest |-> {}]
Lease == [owner |-> owner, gen |-> gen, epoch |-> epoch]

Init ==
    /\ seq = 0 /\ live = {} /\ acl = 0 /\ gen = NoGen
    /\ rows = {} /\ center = 0 /\ hnsw = {}
    /\ queue = << >> /\ pending = 0 /\ job = NoJob /\ acked = {}
    /\ op = "idle" /\ goal = "none" /\ todo = {} /\ staged = {}
    /\ other = FALSE /\ flushes = 0 /\ waiting = FALSE
    /\ owner = 0 /\ epoch = 0 /\ leases = {} /\ poisoned = FALSE

----------------------------------------------------------------------------
(* Writes.                                                                 *)

\* ensure_readable with commit_lock held, as every call but
\* validate_index_coverage has it.
Enter == op = "idle" /\ ~poisoned

\* add_node, add_vector and execute_batch: one frame, the nodes, then the rows.
AddVectors(S) ==
    /\ Enter
    /\ seq < MaxSeq
    /\ seq' = seq + 1
    /\ live' = live \cup S
    /\ todo' = S
    /\ op' = "stage"
    /\ UNCHANGED << acl, gen, arena, hnsw, thread, goal, staged, others, lessor >>

\* stage: the new row, and the row of the same node it displaces.
Stamped(n, q) == {IF r.node = n /\ r.retired = 0
                  THEN [r EXCEPT !.retired = q] ELSE r : r \in rows}
NewRow(n) == [id |-> Cardinality(rows) + 1, node |-> n, created |-> seq,
              retired |-> 0, center |-> center]

Stage(n) ==
    /\ op = "stage" /\ n \in todo
    /\ rows' = Stamped(n, seq) \cup {NewRow(n)}
    /\ staged' = staged \cup {[id |-> NewRow(n).id, node |-> n, created |-> seq]}
    /\ todo' = todo \ {n}
    /\ UNCHANGED << durable, center, hnsw, thread, op, goal, others, lessor >>

\* durable_apply_error: the row's sidecar could not be written.
StageFails ==
    /\ op = "stage" /\ todo # {}
    /\ poisoned' = TRUE
    /\ op' = "idle" /\ staged' = {}
    /\ UNCHANGED << durable, arena, hnsw, thread, goal, todo, others, owner, epoch,
                    leases >>

\* Mutant: a batch is counted as one vector.
CountBatchOnce ==
    /\ op = "stage" /\ todo = {}
    /\ pending' = pending + 1
    /\ op' = "send"
    /\ UNCHANGED << durable, arena, hnsw, queue, job, acked, goal, todo, staged,
                    others, lessor >>

\* enqueue_one and enqueue_batch: index_pending first, then the queue, which
\* blocks when it is full.
Count ==
    /\ op = "stage" /\ todo = {}
    /\ pending' = pending + Cardinality(staged)
    /\ op' = "send"
    /\ UNCHANGED << durable, arena, hnsw, queue, job, acked, goal, todo, staged,
                    others, lessor >>

\* Mutant: a full queue drops the job.
SendOrDrop ==
    /\ op = "send"
    /\ queue' = IF Len(queue) < Capacity THEN Append(queue, Insert(staged)) ELSE queue
    /\ staged' = {}
    /\ op' = "idle"
    /\ UNCHANGED << durable, arena, hnsw, pending, job, acked, goal, todo, others,
                    lessor >>

Send ==
    /\ op = "send"
    /\ Len(queue) < Capacity
    /\ queue' = Append(queue, Insert(staged))
    /\ staged' = {}
    /\ op' = "idle"
    /\ UNCHANGED << durable, arena, hnsw, pending, job, acked, goal, todo, others,
                    lessor >>

\* retract_node: every row of the node is stamped.
RetractNode(n) ==
    /\ Enter
    /\ n \in live /\ seq < MaxSeq
    /\ seq' = seq + 1
    /\ live' = live \ {n}
    /\ rows' = Stamped(n, seq + 1)
    /\ UNCHANGED << acl, gen, center, hnsw, thread, call, others, lessor >>

\* replace_access_policy.
ReplaceAccessPolicy ==
    /\ Enter
    /\ seq < MaxSeq
    /\ seq' = seq + 1 /\ acl' = acl + 1
    /\ UNCHANGED << live, gen, arena, hnsw, thread, call, others, lessor >>

----------------------------------------------------------------------------
(* The index thread.                                                       *)

\* Mutant: the vectors are counted as done when the job is taken.
IndexTakeDone ==
    /\ job = NoJob /\ queue # << >> /\ Head(queue).kind = "insert"
    /\ job' = [at |-> "insert", items |-> Head(queue).items, center |-> center]
    /\ pending' = pending - Cardinality(Head(queue).items)
    /\ queue' = Tail(queue)
    /\ UNCHANGED << durable, arena, hnsw, acked, call, others, lessor >>

\* Mutant: the thread takes commit_lock for each job.
IndexTakeLocked ==
    /\ op = "idle"
    /\ job = NoJob /\ queue # << >> /\ Head(queue).kind = "insert"
    /\ job' = [at |-> "insert", items |-> Head(queue).items, center |-> center]
    /\ queue' = Tail(queue)
    /\ UNCHANGED << durable, arena, hnsw, pending, acked, call, others, lessor >>

\* A job is received, and the center read.
IndexTake ==
    /\ job = NoJob /\ queue # << >> /\ Head(queue).kind = "insert"
    /\ job' = [at |-> "insert", items |-> Head(queue).items, center |-> center]
    /\ queue' = Tail(queue)
    /\ UNCHANGED << durable, arena, hnsw, pending, acked, call, others, lessor >>

IndexInsert ==
    /\ job.at = "insert"
    /\ hnsw' = hnsw \cup {Coded(item, job.center) : item \in job.items}
    /\ job' = [job EXCEPT !.at = "count"]
    /\ UNCHANGED << durable, arena, queue, pending, acked, call, others, lessor >>

IndexCount ==
    /\ job.at = "count"
    /\ pending' = pending - Cardinality(job.items)
    /\ job' = NoJob
    /\ UNCHANGED << durable, arena, hnsw, queue, acked, call, others, lessor >>

IndexAcknowledge ==
    /\ job = NoJob /\ queue # << >> /\ Head(queue).kind = "flush"
    /\ acked' = acked \cup {Head(queue).by}
    /\ queue' = Tail(queue)
    /\ UNCHANGED << durable, arena, hnsw, pending, job, call, others, lessor >>

IndexThread == IndexTake \/ IndexInsert \/ IndexCount \/ IndexAcknowledge

----------------------------------------------------------------------------
(* flush_index, by a call that holds commit_lock and by one that does not. *)

\* Mutant: compaction does not drain the queue.
BeginUndrained(g) ==
    /\ Enter
    /\ op' = (IF g = "compact" THEN "compact" ELSE "flush") /\ goal' = g
    /\ UNCHANGED << durable, arena, hnsw, thread, todo, staged, others, lessor >>

Begin(g) ==
    /\ Enter
    /\ op' = "flush" /\ goal' = g
    /\ UNCHANGED << durable, arena, hnsw, thread, todo, staged, others, lessor >>

\* validate_index_coverage calls ensure_readable first and takes commit_lock
\* then: the call it waited for may have failed meanwhile.
ArriveCoverage ==
    /\ op # "recover" /\ ~poisoned /\ ~waiting
    /\ flushes < MaxAdmin
    /\ waiting' = TRUE /\ flushes' = flushes + 1
    /\ UNCHANGED << durable, arena, hnsw, thread, call, other, lessor >>

BeginCoverage ==
    /\ op = "idle" /\ waiting
    /\ waiting' = FALSE
    /\ op' = "flush" /\ goal' = "coverage"
    /\ UNCHANGED << durable, arena, hnsw, thread, todo, staged, other, flushes, lessor >>

FlushSend ==
    /\ op = "flush"
    /\ Len(queue) < Capacity
    /\ queue' = Append(queue, Flush("call"))
    /\ op' = "wait"
    /\ UNCHANGED << durable, arena, hnsw, pending, job, acked, goal, todo, staged,
                    others, lessor >>

FlushReturns ==
    /\ op = "wait" /\ "call" \in acked
    /\ acked' = acked \ {"call"}
    /\ op' = goal
    /\ UNCHANGED << durable, arena, hnsw, queue, pending, job, goal, todo, staged,
                    others, lessor >>

OtherFlush ==
    /\ ~other /\ flushes < MaxAdmin
    /\ Len(queue) < Capacity
    /\ queue' = Append(queue, Flush("other"))
    /\ other' = TRUE /\ flushes' = flushes + 1 /\ UNCHANGED waiting
    /\ UNCHANGED << durable, arena, hnsw, pending, job, acked, call, lessor >>

OtherReturns ==
    /\ other /\ "other" \in acked
    /\ acked' = acked \ {"other"}
    /\ other' = FALSE /\ UNCHANGED << flushes, waiting >>
    /\ UNCHANGED << durable, arena, hnsw, queue, pending, job, call, lessor >>

----------------------------------------------------------------------------
(* Compaction, rebuild, and reads of one's own writes.                     *)

Returns == op' = "idle" /\ goal' = "none" /\ UNCHANGED << todo, staged >>

Survives(r) == IF r.retired = 0 THEN r.node \in live ELSE Retention = "full"

\* The rows rs move up in their order, and are quantised with the center c.
Renumbered(rs, c) ==
    {[r EXCEPT !.id = Cardinality({q \in rs : q.id <= r.id}), !.center = c] :
        r \in rs}

\* perform_index_compaction: the surviving rows move up; with exact vectors at
\* hand, the center may be computed anew and all rows are quantised again.
Compact ==
    /\ op = "compact"
    /\ \E c \in {center, center + 1} :
          /\ c <= MaxAdmin
          /\ center' = c
          /\ rows' = Renumbered({r \in rows : Survives(r)}, c)
    /\ op' = "rebuild"
    /\ UNCHANGED << durable, hnsw, thread, goal, todo, staged, others, lessor >>

\* rehydrate: a new index of all rows, from the codes in the arena.
PointsOf(rs) ==
    {[id |-> r.id, node |-> r.node, created |-> r.created, center |-> r.center] :
        r \in rs}

Rebuild ==
    /\ op = "rebuild"
    /\ hnsw' = PointsOf(rows)
    /\ Returns
    /\ UNCHANGED << durable, arena, thread, others, lessor >>

\* validate_coverage: what the report says of the collection.
Coverage ==
    IF pending > 0 THEN "CATCHING_UP"
    ELSE IF {p.id : p \in hnsw} = Ids THEN "READY" ELSE "FAILED"

\* A query with read-your-write consistency, or the coverage report.
Query ==
    /\ op \in {"query", "coverage"}
    /\ Returns
    /\ UNCHANGED << durable, arena, hnsw, thread, others, lessor >>

----------------------------------------------------------------------------
(* Generations and leases.                                                 *)

IsPublished == gen # NoGen /\ gen.frontier + 1 = seq

NextGen == [id |-> gen.id + 1, frontier |-> seq, acl |-> acl, digest |-> Current]

\* publish_generation_unlocked, after its flush: the components are saved and
\* the receipt is appended.  pin_generation gives out a lease on it.
Publish ==
    /\ op \in {"publish", "pin"}
    /\ gen' = NextGen
    /\ seq' = seq + 1
    /\ leases' = leases \cup
         (IF op = "pin" THEN {[owner |-> owner, gen |-> gen', epoch |-> epoch]} ELSE {})
    /\ Returns
    /\ UNCHANGED << live, acl, arena, hnsw, thread, others, owner, epoch, poisoned >>

\* The components could not be saved; or the append was not acknowledged, and
\* the receipt is in the journal or not: the handle must be opened again.
PublishFails ==
    /\ op \in {"publish", "pin"}
    /\ \/ UNCHANGED << seq, gen, poisoned >>
       \/ poisoned' = TRUE /\ UNCHANGED << seq, gen >>
       \/ poisoned' = TRUE /\ seq' = seq + 1 /\ gen' = NextGen
    /\ Returns
    /\ UNCHANGED << live, acl, arena, hnsw, thread, others, owner, epoch, leases >>

\* pin_generation of the generation that is still the frontier.
PinPublished ==
    /\ Enter
    /\ IsPublished /\ Cardinality(leases) < MaxLeases
    /\ leases' = leases \cup {Lease}
    /\ UNCHANGED << durable, arena, hnsw, thread, call, others, owner, epoch, poisoned >>

\* revoke_lease.
RevokeLease(l) ==
    /\ Enter
    /\ l.owner = owner
    /\ epoch < MaxAdmin
    /\ epoch' = epoch + 1
    /\ UNCHANGED << durable, arena, hnsw, thread, call, others, owner, leases, poisoned >>

\* The lease's time to live ends.
Expire(l) ==
    /\ leases' = leases \ {l}
    /\ UNCHANGED << durable, arena, hnsw, thread, call, others, owner, epoch, poisoned >>

\* Mutant: the frontier is not compared.
ValidIfPublished(l) ==
    /\ ~poisoned
    /\ l.owner = owner
    /\ l.epoch = epoch
    /\ l.gen.acl = acl
    /\ l.gen = gen

\* validate_lease_unlocked.
Valid(l) ==
    /\ ~poisoned
    /\ l.owner = owner
    /\ l.epoch = epoch
    /\ l.gen.acl = acl
    /\ seq = l.gen.frontier + 1
    /\ l.gen = gen

----------------------------------------------------------------------------
(* The process ends, at any step, and the database is opened again.        *)

Crash ==
    /\ op # "recover"
    /\ owner < MaxAdmin
    /\ op' = "recover" /\ goal' = "none" /\ staged' = {}
    /\ queue' = << >> /\ pending' = 0 /\ job' = NoJob /\ acked' = {}
    /\ other' = FALSE /\ waiting' = FALSE
    /\ UNCHANGED << durable, arena, hnsw, todo, flushes, lessor >>

\* replay_vector: the frame of a row that was not staged is replayed; nothing is
\* put into the index queue.
Replay(n) ==
    /\ op = "recover" /\ n \in todo
    /\ rows' = Stamped(n, seq) \cup {NewRow(n)}
    /\ todo' = todo \ {n}
    /\ UNCHANGED << durable, center, hnsw, thread, op, goal, staged, others, lessor >>

\* Mutant: the token belongs to the database, not to the handle.
OpenedSameOwner ==
    /\ op = "recover" /\ todo = {}
    /\ \E keep \in {rows, {r \in rows : IsCurrent(r)}}, c \in 0 .. center :
          /\ center' = c
          /\ rows' = Renumbered(keep, c)
          /\ hnsw' = PointsOf(rows')
    /\ epoch' = 0 /\ poisoned' = FALSE
    /\ op' = "idle"
    /\ UNCHANGED << durable, thread, goal, todo, staged, others, owner, leases >>

\* open_internal_with_budget: the rows of the last snapshot, whose center may be
\* an older one, or only those a folded journal has; the index of all of them; a
\* new owner_token.
Opened ==
    /\ op = "recover" /\ todo = {}
    /\ \E keep \in {rows, {r \in rows : IsCurrent(r)}}, c \in 0 .. center :
          /\ center' = c
          /\ rows' = Renumbered(keep, c)
          /\ hnsw' = PointsOf(rows')
    /\ owner' = owner + 1 /\ epoch' = 0 /\ poisoned' = FALSE
    /\ op' = "idle"
    /\ UNCHANGED << durable, thread, goal, todo, staged, others, leases >>

----------------------------------------------------------------------------

\* A call that has begun.
Proceed ==
    \/ \E n \in Nodes : Stage(n) \/ Replay(n)
    \/ Count \/ Send \/ FlushSend \/ FlushReturns
    \/ Compact \/ Rebuild \/ Query \/ Publish \/ PublishFails
    \/ Opened

Next ==
    \/ \E S \in SUBSET Nodes \ {{}} : AddVectors(S)
    \/ \E n \in Nodes : RetractNode(n)
    \/ ReplaceAccessPolicy
    \/ Begin("compact") \/ Begin("rebuild") \/ Begin("query")
    \/ ArriveCoverage \/ BeginCoverage
    \/ ~IsPublished /\ seq < MaxSeq /\ Begin("publish")
    \/ /\ ~IsPublished /\ seq < MaxSeq /\ Cardinality(leases) < MaxLeases
       /\ Begin("pin")
    \/ PinPublished
    \/ \E l \in leases : RevokeLease(l) \/ Expire(l)
    \/ Proceed \/ StageFails
    \/ IndexThread
    \/ OtherFlush \/ OtherReturns
    \/ Crash

Spec == Init /\ [][Next]_vars

\* The threads run.
FairSpec == Spec /\ WF_vars(IndexThread) /\ WF_vars(Proceed) /\ WF_vars(OtherReturns)

----------------------------------------------------------------------------
(* Properties.                                                             *)

\* The types of the variables; arena ids are consecutive, index_pending is
\* unsigned.
TypeOK ==
    /\ seq \in Seqs /\ live \subseteq Nodes /\ acl \in Seqs
    /\ gen.frontier \in Seqs /\ gen.digest \subseteq Nodes \X Seqs
    /\ rows \subseteq Row /\ Ids = 1 .. Cardinality(rows) /\ center \in 0 .. MaxAdmin
    /\ \A p \in hnsw : p \in Point
    /\ queue \in Seq(Job) /\ Len(queue) <= Capacity /\ pending \in Nat
    /\ job.at \in {"recv", "insert", "count"}
    /\ acked \subseteq {"call", "other"}
    /\ op \in {"idle", "stage", "send", "flush", "wait", "compact", "rebuild",
               "query", "coverage", "publish", "pin", "recover"}
    /\ todo \subseteq Nodes /\ other \in BOOLEAN /\ waiting \in BOOLEAN
    /\ owner \in 0 .. MaxAdmin /\ epoch \in 0 .. MaxAdmin /\ poisoned \in BOOLEAN

\* A point of the index is the row that has its arena id now, quantised as that
\* row is: no insertion that was queued before a compaction lands on the id, or
\* with the center, of another row (flush_index, perform_index_compaction).
IndexAgrees ==
    op \notin {"rebuild", "recover"} =>
        hnsw \subseteq PointsOf(rows)

\* When flush_index has returned to a call of a readable handle, everything staged
\* before is in the index and the coverage is READY; and whenever the coverage is
\* READY, also for a caller that waited while a batch failed, a search finds
\* exactly the current vectors (flush_index, validate_index_coverage).
FlushedIsComplete ==
    op \in {"query", "coverage"} =>
        /\ ~poisoned \/ op = "query" => Coverage = "READY"
        /\ Coverage = "READY" => Visible = Current

\* index_lag promises neither too much nor too little: when it is zero and no call
\* is under way, every row is searchable; after a flush it is zero, so that the
\* coverage is never CATCHING_UP.
LagIsHonest ==
    /\ op = "idle" /\ ~poisoned /\ pending = 0 => {p.id : p \in hnsw} = Ids
    /\ op \in {"query", "coverage"} => pending = 0

\* Reads under one lease repeat: as long as the lease is valid, a search finds
\* what its generation was published with, whatever is compacted, rebuilt,
\* revoked or opened again meanwhile (validate_lease_unlocked,
\* publish_generation_unlocked).
LeaseIsRepeatable ==
    op = "idle" => \A l \in leases : Valid(l) => Visible = l.gen.digest

\* A lease that has become invalid, by a write, a policy, a revocation, a failure
\* or a new process, is never valid again.
LeaseStaysDead == [][\A l \in leases : ~Valid(l) => ~Valid(l)']_vars

\* Every call that waits on the index thread returns, with the queue full and
\* commit_lock held as well.
CallsReturn == (op # "idle" ~> op = "idle") /\ (other ~> ~other)

============================================================================
