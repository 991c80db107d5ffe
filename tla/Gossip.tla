------------------------------- MODULE Gossip -------------------------------
(***************************************************************************)
(* Anti-entropy replication of GenesisBlockDB (src/src/lib.rs):            *)
(* start_gossip_manager, sync_delta and reconcile_state.                   *)
(*                                                                         *)
(* Every replica sends heartbeats with a digest of its graph.  A replica   *)
(* that sees another digest than its own pulls the frames past its cursor  *)
(* for that peer; the answer carries a signed receipt for the request's    *)
(* nonce, and only a receipt for the outstanding request moves the cursor. *)
(* Datagrams may be lost, duplicated and reordered; cursors and requests   *)
(* live in the gossip task's memory, so a restart forgets them.            *)
(*                                                                         *)
(* With Schema = 5 a mutation is a Node or NodeRetract event and merges by *)
(* last writer wins.  With Schema = 6 it is a transaction with a revision: *)
(* it names the revision it replaces, and is refused if that is not the    *)
(* current one.  Journal models how a frame becomes durable; here an       *)
(* append is one step.  A pull is answered in one step as well.            *)
(***************************************************************************)
EXTENDS Integers, FiniteSets

CONSTANTS
    Peers,      \* replicas; the order of the numbers breaks ties of clocks
    Keys,       \* node ids
    NodeBytes, RetractBytes, DefinitionBytes,
                \* JSON of a Node event, of a NodeRetract, of all definitions
    DeltaBytes, \* what a datagram takes (MAX_GOSSIP_DELTA_JSON_BYTES)
    Large,      \* keys whose Node exceeds MAX_GOSSIP_EVENT_JSON_BYTES
    MaxTime,    \* bound on the logical time at which a replica writes
    MaxSeq,     \* bound on the frames a replica appends
    MaxFaults,  \* bound on lost and duplicated datagrams, late heartbeats,
                \* retries of what is still under way, expiries and restarts
    Retention,  \* "frontier_only": checkpoints fold the journal; "full": never
    Schema      \* 5 | 6

ASSUME ConstantsAssumption ==
    /\ Peers \subseteq Nat \ {0}
    /\ {NodeBytes, RetractBytes, DefinitionBytes, DeltaBytes} \subseteq Nat \ {0}
    /\ Large \subseteq Keys
    /\ MaxTime \in Nat
    /\ MaxSeq \in Nat
    /\ MaxFaults \in Nat
    /\ Retention \in {"frontier_only", "full"}
    /\ Schema \in {5, 6}
    /\ Schema = 6 => Retention = "full"   \* revision checkpoints: not modelled

VARIABLES
    node,       \* nodes and tombstones of each replica, by key
    time,       \* logical_clock
    frames,     \* the journal: base and later frames
    frontier,   \* sequence number of the last frame
    horizon,    \* history_horizon: the frontier of the last fold
    head,       \* schema 6: the current revision of each key, in the projection
    cursors,    \* sync_cursors[q][p]: q is current through this frame of p
    pending,    \* pending_sync_requests[q][p]
    net,        \* requests and answers in flight
    rx,         \* the delta a replica is reconciling, under its commit_lock
    faults      \* how many faults there were

graph == << node, time, frames, frontier, horizon, head >>
vars  == << node, time, frames, frontier, horizon, head, cursors, pending,
            net, rx, faults >>

----------------------------------------------------------------------------
(* Data.                                                                   *)

Clock == [time : Nat, peer : Nat]
Zero  == [time |-> 0, peer |-> 0]

\* The order of LogicalClock: by time, then by peer id.
Before(a, b) == a.time < b.time \/ (a.time = b.time /\ a.peer < b.peer)

Cell  == [st : {"absent", "live", "dead"}, clock : Clock]
Frame == [seq : Nat, key : Keys, st : {"live", "dead"}, clock : Clock, exp : Clock]

\* Request nonces are random; one is used again only when no trace of it is left,
\* and every fault leaves at most one datagram of an old request behind.
Nonces == 1 .. MaxFaults + 1

Request == [type : {"pull"}, from : Peers, to : Peers, cursor : Nat,
            nonce : Nonces]
Delta   == [type : {"delta"}, from : Peers, to : Peers, cursor : Nat,
            nonce : Nonces, frames : SUBSET Frame, through : Nat]

\* No request is outstanding; no batch is being reconciled.
NoPull  == [nonce |-> 0, cursor |-> 0]
NoBatch == [from |-> 0, todo |-> {}, through |-> 0]

Outstanding == [nonce : Nonces, cursor : Nat] \cup {NoPull}
Batch       == [from : Peers \cup {0}, todo : SUBSET Frame, through : Nat]

\* get_merkle_root: the live nodes with their clocks.  Tombstones are not in it.
Root(p)  == { <<k, node[p][k].clock>> : k \in {j \in Keys : node[p][j].st = "live"} }

----------------------------------------------------------------------------
Init ==
    /\ node = [p \in Peers |-> [k \in Keys |-> [st |-> "absent", clock |-> Zero]]]
    /\ time = [p \in Peers |-> 0]
    /\ frames = [p \in Peers |-> {}]
    /\ frontier = [p \in Peers |-> 0]
    /\ horizon = [p \in Peers |-> 0]
    /\ head = [p \in Peers |-> [k \in Keys |-> Zero]]
    /\ cursors = [q \in Peers |-> [p \in Peers |-> 0]]
    /\ pending = [q \in Peers |-> [p \in Peers |-> NoPull]]
    /\ net = {}
    /\ rx = [p \in Peers |-> NoBatch]
    /\ faults = 0

----------------------------------------------------------------------------
(* Local mutations and folds.  reconcile_state holds commit_lock, and the  *)
(* gossip task waits for it, so a replica that reconciles does nothing     *)
(* else.                                                                   *)

Idle(p) == rx[p] = NoBatch

\* The frame w is appended and applied to memory.
Put(p, w) ==
    /\ frontier[p] < MaxSeq
    /\ frontier' = [frontier EXCEPT ![p] = @ + 1]
    /\ frames' = [frames EXCEPT ![p] = @ \cup
          {[seq |-> frontier[p] + 1, key |-> w.key, st |-> w.st,
            clock |-> w.clock, exp |-> w.exp]}]
    /\ node' = [node EXCEPT ![p][w.key] = [st |-> w.st, clock |-> w.clock]]

\* next_clock, then persist_local_graph_mutations: a schema-6 transaction
\* expects the revision the projection has now.
Mutate(p, k, st) ==
    LET c == [time |-> time[p] + 1, peer |-> p] IN
    /\ Idle(p)
    /\ time[p] < MaxTime
    /\ time' = [time EXCEPT ![p] = @ + 1]
    /\ Put(p, [key |-> k, st |-> st, clock |-> c, exp |-> head[p][k]])
    /\ head' = IF Schema = 6 THEN [head EXCEPT ![p][k] = c] ELSE head
    /\ UNCHANGED << horizon, cursors, pending, net, rx, faults >>

AddNode(p, k) == Mutate(p, k, "live")

RetractNode(p, k) == node[p][k].st = "live" /\ Mutate(p, k, "dead")

\* Mutant: a fold writes a frame for an id that has neither node nor tombstone.
FoldEveryId(p) ==
    /\ Retention = "frontier_only"
    /\ Idle(p)
    /\ horizon[p] < frontier[p]
    /\ horizon' = [horizon EXCEPT ![p] = frontier[p]]
    /\ frames' = [frames EXCEPT ![p] =
          { [seq |-> frontier[p], key |-> k, st |-> node[p][k].st,
             clock |-> node[p][k].clock, exp |-> Zero] : k \in Keys }]
    /\ UNCHANGED << node, time, frontier, head, cursors, pending, net, rx,
                    faults >>

\* A checkpoint folds the journal into a base segment at the frontier: live
\* nodes and the tombstones inside their retention window.
Fold(p) ==
    /\ Retention = "frontier_only"
    /\ Idle(p)
    /\ horizon[p] < frontier[p]
    /\ horizon' = [horizon EXCEPT ![p] = frontier[p]]
    /\ frames' = [frames EXCEPT ![p] =
          { [seq |-> frontier[p], key |-> k, st |-> node[p][k].st,
             clock |-> node[p][k].clock, exp |-> Zero]
              : k \in {j \in Keys : node[p][j].st # "absent"} }]
    /\ UNCHANGED << node, time, frontier, head, cursors, pending, net, rx,
                    faults >>

----------------------------------------------------------------------------
(* Heartbeats.  A heartbeat is compared where it arrives with the state in *)
(* which it was sent; one that is late, and so differs from the sender's   *)
(* present state, is counted as a fault.                                   *)

\* A heartbeat of p arrives at q, and its digest is not q's.  What it makes q
\* send is regular if the heartbeat is not late and nothing of it is under way.
Differs(q, p, regular) ==
    /\ p # q
    /\ Idle(q)
    /\ \/ regular /\ Root(p) # Root(q) /\ UNCHANGED faults
       \/ faults < MaxFaults /\ faults' = faults + 1

\* The datagrams of q's requests to p, with the answers.
Exchange(q, p) == { m \in net : IF m.type = "pull" THEN m.from = q /\ m.to = p
                                                   ELSE m.from = p /\ m.to = q }

PullOf(q, p, n, c) == [type |-> "pull", from |-> q, to |-> p, cursor |-> c,
                       nonce |-> n]

\* A nonce of which the network has no trace.
FreshNonce(q, p, n) == \A m \in Exchange(q, p) : m.nonce # n

\* No request to p is outstanding: a new one, with a fresh nonce, from the cursor.
RequestPull(q, p) ==
    /\ pending[q][p] = NoPull
    /\ Differs(q, p, TRUE)
    /\ \E n \in Nonces :
          /\ FreshNonce(q, p, n)
          /\ \A i \in Nonces : FreshNonce(q, p, i) => n <= i
          /\ pending' = [pending EXCEPT ![q][p] =
                            [nonce |-> n, cursor |-> cursors[q][p]]]
          /\ net' = net \cup {PullOf(q, p, n, cursors[q][p])}
    /\ UNCHANGED << graph, cursors, rx >>

\* A request is outstanding: it is sent again, with its nonce and its cursor.
\* A heartbeat inside the retry interval does nothing, like a lost one.
RetryPull(q, p) ==
    /\ pending[q][p] # NoPull
    /\ Differs(q, p, FreshNonce(q, p, pending[q][p].nonce))
    /\ net' = net \cup {PullOf(q, p, pending[q][p].nonce, pending[q][p].cursor)}
    /\ UNCHANGED << graph, cursors, pending, rx >>

----------------------------------------------------------------------------
(* Answering a pull.                                                       *)

\* The datagram m is taken from the network, and reply put on it.  A
\* duplicated datagram stays there.
Take(m, reply) ==
    \/ net' = (net \ {m}) \cup reply /\ UNCHANGED faults
    \/ faults < MaxFaults /\ net' = net \cup reply /\ faults' = faults + 1

BeyondHorizon(p, cursor) == cursor # 0 /\ cursor < horizon[p]

\* scan_journal from a cursor; 0 asks for everything.
Since(p, cursor) == { f \in frames[p] : cursor = 0 \/ f.seq > cursor }

\* The bytes of a set of events.
Size(fs) == NodeBytes * Cardinality({f \in fs : f.st = "live"})
            + RetractBytes * Cardinality({f \in fs : f.st = "dead"})

\* Mutant: a group that does not fit is cut, and its sequence number sent.
ThroughCut(p, cursor, t) ==
    LET fits == { s \in SUBSET { f \in Since(p, cursor) : f.seq <= t } :
                    Size(s) + DefinitionBytes <= DeltaBytes } IN
    CHOOSE s \in fits : \A r \in fits : Cardinality(r) <= Cardinality(s)

\* The frames after the cursor up to t.
Through(p, cursor, t) == { f \in Since(p, cursor) : f.seq <= t }

\* sync_delta packs the frames of one sequence number together, as long as the
\* events alone fit a datagram; t is where it stops.
DeltaReaches(p, cursor, t) ==
    /\ \E f \in Since(p, cursor) : f.seq = t
    /\ Size(Through(p, cursor, t)) <= DeltaBytes
    /\ \A f \in Since(p, cursor) :
          f.seq > t => Size(Through(p, cursor, f.seq)) > DeltaBytes

\* The frames it has looked at by then: up to the group that did not fit.
LookedAt(p, cursor, t) ==
    { f \in Since(p, cursor) :
        \A g \in Since(p, cursor) : g.seq > t => f.seq <= g.seq }

\* SYNC_BOOTSTRAP_REQUIRED: an event is too large, or the packed events leave no
\* room for the collection definitions that are put before them.
ExceedsDatagram(p, cursor, t) ==
    \/ \E f \in LookedAt(p, cursor, t) : f.st = "live" /\ f.key \in Large
    \/ Size(Through(p, cursor, t)) + DefinitionBytes > DeltaBytes

\* The delta from the cursor can be sent, and ends at t.
DeltaEnds(p, cursor, t) ==
    DeltaReaches(p, cursor, t) /\ ~ExceedsDatagram(p, cursor, t)

\* The answer to m is a delta, with the receipt for its nonce and its cursor.
AnswerPull(m) ==
    /\ m \in net /\ m.type = "pull"
    /\ Idle(m.to)
    /\ ~BeyondHorizon(m.to, m.cursor)
    /\ \E f \in Since(m.to, m.cursor) :
          /\ DeltaEnds(m.to, m.cursor, f.seq)
          /\ Take(m, {[type |-> "delta", from |-> m.to, to |-> m.from,
                       cursor |-> m.cursor, nonce |-> m.nonce,
                       frames |-> Through(m.to, m.cursor, f.seq),
                       through |-> f.seq]})
    /\ UNCHANGED << graph, cursors, pending, rx >>

\* No delta can be sent: the cursor is below the horizon, there is nothing
\* newer, the first group does not fit, or the delta exceeds the datagram.  The
\* BeyondHorizon and BootstrapRequired answers are only logged by their receiver.
RefusePull(m) ==
    /\ m \in net /\ m.type = "pull"
    /\ Idle(m.to)
    /\ \/ BeyondHorizon(m.to, m.cursor)
       \/ ~(\E f \in Since(m.to, m.cursor) : DeltaEnds(m.to, m.cursor, f.seq))
    /\ Take(m, {})
    /\ UNCHANGED << graph, cursors, pending, rx >>

----------------------------------------------------------------------------
(* Receiving a delta: reconcile_state applies its events one after the     *)
(* other, then the cursor moves.                                           *)

\* Mutant: any receipt of the peer will do.
VerifiedAnyReceipt(m) == pending[m.to][m.from] # NoPull

\* verify_sync_progress_receipt: it answers the outstanding request.
Verified(m) ==
    pending[m.to][m.from] = [nonce |-> m.nonce, cursor |-> m.cursor]

ReceiveDelta(m) ==
    /\ m \in net /\ m.type = "delta"
    /\ Idle(m.to)
    /\ rx' = [rx EXCEPT ![m.to] =
          [from |-> m.from, todo |-> m.frames,
           through |-> IF Verified(m) THEN m.through ELSE 0]]
    /\ Take(m, {})
    /\ UNCHANGED << graph, cursors, pending >>

\* The next frame of the batch; frames of a base segment share a number.
NextFrame(q, f) ==
    /\ f \in rx[q].todo
    /\ \A g \in rx[q].todo : f.seq <= g.seq

Drop(q, f) == rx' = [rx EXCEPT ![q].todo = @ \ {f}]

\* Mutant: a Node or NodeRetract is not compared with a tombstone.
LosesLiveOnly(f, c) == c.st = "live" /\ Before(f.clock, c.clock)

\* Mutant: writes of one logical time are not ordered by their peer.
LosesTie(f, c) == c.st # "absent" /\ f.clock.time <= c.clock.time

\* The last-writer-wins test of reconcile_state, the same for a Node and a
\* NodeRetract: a strictly newer node wins, a tombstone wins a tie too.
Loses(f, c) ==
    \/ c.st = "live" /\ Before(f.clock, c.clock)
    \/ c.st = "dead" /\ ~Before(c.clock, f.clock)

ReconcileSkip(q, f) ==
    /\ Schema = 5
    /\ NextFrame(q, f)
    /\ Loses(f, node[q][f.key])
    /\ Drop(q, f)
    /\ UNCHANGED << graph, cursors, pending, net, faults >>

LaterOf(a, b) == IF a < b THEN b ELSE a

\* persist_signed and the update of memory, with a frame of its own.
ReconcileApply(q, f) ==
    /\ Schema = 5
    /\ NextFrame(q, f)
    /\ ~Loses(f, node[q][f.key])
    /\ time' = [time EXCEPT ![q] = LaterOf(@, f.clock.time)]
    /\ Put(q, f)
    /\ Drop(q, f)
    /\ UNCHANGED << horizon, head, cursors, pending, net, faults >>

\* applied_transactions: what the projection of q has.
Applied(q) == { f.clock : f \in frames[q] }

\* Schema 6, Event::Transaction: preflight_signed_relational_event accepts the
\* successor of the current revision, and a transaction it knows.  Either one is
\* appended and put into memory by apply_transaction_memory; the projection
\* takes a known one for done.
ReconcileTransaction(q, f) ==
    /\ Schema = 6
    /\ NextFrame(q, f)
    /\ f.clock \in Applied(q) \/ f.exp = head[q][f.key]
    /\ time' = [time EXCEPT ![q] = LaterOf(@, f.clock.time)]
    /\ Put(q, f)
    /\ head' = IF f.clock \in Applied(q) THEN head
               ELSE [head EXCEPT ![q][f.key] = f.clock]
    /\ Drop(q, f)
    /\ UNCHANGED << horizon, cursors, pending, net, faults >>

\* Mutant: the receipt counts although the batch failed.
ConflictMovesCursor(q, f) ==
    /\ Schema = 6
    /\ NextFrame(q, f)
    /\ f.clock \notin Applied(q) /\ f.exp # head[q][f.key]
    /\ rx' = [rx EXCEPT ![q].todo = {}]
    /\ UNCHANGED << graph, cursors, pending, net, faults >>

\* Schema 6: REVISION_CONFLICT.  reconcile_state fails, the rest of the batch is
\* dropped, the cursor stays and the request stays outstanding.
ReconcileConflict(q, f) ==
    /\ Schema = 6
    /\ NextFrame(q, f)
    /\ f.clock \notin Applied(q) /\ f.exp # head[q][f.key]
    /\ rx' = [rx EXCEPT ![q] = NoBatch]
    /\ UNCHANGED << graph, cursors, pending, net, faults >>

\* The batch is done; with a verified receipt the cursor moves and the request
\* is no longer outstanding.
ReconcileDone(q) ==
    LET p == rx[q].from IN
    /\ ~Idle(q)
    /\ rx[q].todo = {}
    /\ rx' = [rx EXCEPT ![q] = NoBatch]
    /\ IF rx[q].through = 0 THEN UNCHANGED << cursors, pending >>
       ELSE /\ cursors' = [cursors EXCEPT ![q][p] = rx[q].through]
            /\ pending' = [pending EXCEPT ![q][p] = NoPull]
    /\ UNCHANGED << graph, net, faults >>

----------------------------------------------------------------------------
(* Faults.                                                                 *)

Lose(m) ==
    /\ faults < MaxFaults
    /\ m \in net
    /\ net' = net \ {m}
    /\ faults' = faults + 1
    /\ UNCHANGED << graph, cursors, pending, rx >>

\* prune_gossip_state: a request outlives GOSSIP_PENDING_SYNC_TTL.
PendingExpires(q, p) ==
    /\ faults < MaxFaults
    /\ Idle(q)
    /\ pending[q][p] # NoPull
    /\ pending' = [pending EXCEPT ![q][p] = NoPull]
    /\ faults' = faults + 1
    /\ UNCHANGED << graph, cursors, net, rx >>

\* prune_gossip_state: p was silent for GOSSIP_PEER_TTL_SECS; its cursor and its
\* request go with it.
PeerExpires(q, p) ==
    /\ faults < MaxFaults
    /\ Idle(q)
    /\ pending[q][p] # NoPull \/ cursors[q][p] # 0
    /\ pending' = [pending EXCEPT ![q][p] = NoPull]
    /\ cursors' = [cursors EXCEPT ![q][p] = 0]
    /\ faults' = faults + 1
    /\ UNCHANGED << graph, net, rx >>

\* The process of q stops, perhaps inside a batch, and recovers its graph from
\* the journal.  The gossip task starts with empty maps.
Restart(q) ==
    /\ faults < MaxFaults
    /\ rx' = [rx EXCEPT ![q] = NoBatch]
    /\ pending' = [pending EXCEPT ![q] = [p \in Peers |-> NoPull]]
    /\ cursors' = [cursors EXCEPT ![q] = [p \in Peers |-> 0]]
    /\ faults' = faults + 1
    /\ UNCHANGED << graph, net >>

----------------------------------------------------------------------------
Local(p)     == \E k \in Keys : AddNode(p, k) \/ RetractNode(p, k)
Pull(q, p)   == RequestPull(q, p) \/ RetryPull(q, p)
Answer(p)    == \E m \in net : m.to = p /\ (AnswerPull(m) \/ RefusePull(m))
Receive(q)   == \E m \in net : m.to = q /\ ReceiveDelta(m)
Reconcile(q) ==
    \/ \E f \in rx[q].todo : \/ ReconcileSkip(q, f) \/ ReconcileApply(q, f)
                             \/ ReconcileTransaction(q, f)
                             \/ ReconcileConflict(q, f)
    \/ ReconcileDone(q)
Fault ==
    \/ \E m \in net : Lose(m)
    \/ \E q \in Peers : Restart(q)
    \/ \E q, p \in Peers : PendingExpires(q, p) \/ PeerExpires(q, p)

Next ==
    \/ \E p \in Peers : \/ Local(p) \/ Fold(p) \/ Answer(p) \/ Receive(p)
                        \/ Reconcile(p)
    \/ \E p, q \in Peers : Pull(q, p)
    \/ Fault

Spec == Init /\ [][Next]_vars

\* The gossip task of every replica keeps running and its timer keeps firing;
\* a datagram that is not lost is delivered.
Fairness ==
    \A p \in Peers :
        /\ WF_vars(Answer(p)) /\ WF_vars(Receive(p)) /\ WF_vars(Reconcile(p))
        /\ \A q \in Peers : WF_vars(Pull(p, q))

FairSpec == Spec /\ Fairness

----------------------------------------------------------------------------
(* Properties.                                                             *)

\* The type of every variable.
TypeOK ==
    /\ node \in [Peers -> [Keys -> Cell]]
    /\ time \in [Peers -> Nat]
    /\ frames \in [Peers -> SUBSET Frame]
    /\ frontier \in [Peers -> Nat]
    /\ horizon \in [Peers -> Nat]
    /\ head \in [Peers -> [Keys -> Clock]]
    /\ cursors \in [Peers -> [Peers -> Nat]]
    /\ pending \in [Peers -> [Peers -> Outstanding]]
    /\ net \subseteq Request \cup Delta
    /\ rx \in [Peers -> Batch]
    /\ faults \in 0 .. MaxFaults

\* Whatever is lost, delivered twice or late, a record never goes back to an
\* older version, and a retracted one comes back only by a newer write
\* (reconcile_state's last-writer-wins and tombstone gates, next_clock).
NoRegression ==
    [][\A p \in Peers, k \in Keys :
          /\ ~Before(node'[p][k].clock, node[p][k].clock)
          /\ node[p][k].st = "dead" /\ node'[p][k].st = "live" =>
                 Before(node[p][k].clock, node'[p][k].clock)]_vars

\* A cursor never runs ahead: the requester has, or has something newer than,
\* every event of the peer's journal at or below it (sync_delta's grouping by
\* sequence number, no cursor movement for a batch that failed).
CursorCovers ==
    \A q, p \in Peers : \A f \in frames[p] :
        f.seq <= cursors[q][p] =>
            IF Schema = 6 THEN f.clock \in Applied(q)
            ELSE ~Before(node[q][f.key].clock, f.clock)

\* A duplicated or late answer never moves a cursor back; only an expiry or a
\* restart resets it (pending_sync_requests, the receipt's nonce and from_seq).
CursorNeverRecedes ==
    [][\A q, p \in Peers :
          cursors'[q][p] >= cursors[q][p] \/ cursors'[q][p] = 0]_vars

\* p's journal goes on past q's cursor, and sync_delta has no datagram for it.
Blocked(q, p) ==
    /\ Since(p, cursors[q][p]) # {}
    /\ ~(\E f \in Since(p, cursors[q][p]) : DeltaEnds(p, cursors[q][p], f.seq))

Converged(p, q) == Root(p) = Root(q) \/ Blocked(p, q) \/ Blocked(q, p)

\* When the clients have stopped writing, any two replicas come to hold the same
\* live records and stay so, whatever datagrams were lost; only a delta that
\* sync_delta refuses for its size can keep them apart.
Convergence == <>[](\A p, q \in Peers : Converged(p, q))

============================================================================
