---------------------------- MODULE GossipProofs ----------------------------
(***************************************************************************)
(* Proofs about Gossip, for any number of replicas and records, any bounds *)
(* and any faults.                                                         *)
(*                                                                         *)
(* The inductive invariant has three parts beside TypeOK.  ClockInv ties   *)
(* the records of a replica to its logical clock and to its journal.       *)
(* RequestInv ties an outstanding request to the cursor it was made from.  *)
(* CoverInv says of every sequence number a replica may ever take for a    *)
(* cursor (its cursor, a request or an answer in flight, a batch being     *)
(* reconciled) that it has every event up to there, or will have it with   *)
(* the batch.                                                              *)
(***************************************************************************)
EXTENDS Gossip, TLAPS

\* Replica q has the event f: its projection has applied the transaction, or its
\* record is not older.
Has(q, f) == IF Schema = 6 THEN f.clock \in Applied(q)
             ELSE ~Before(node[q][f.key].clock, f.clock)

\* A replica that reconciles g then has f.
Gives(g, f) == /\ g.key = f.key
               /\ IF Schema = 6 THEN g.clock = f.clock
                  ELSE ~Before(g.clock, f.clock)

\* Replica q has, once it has reconciled s, every event of p's journal up to b.
Upto(q, p, b, s) ==
    /\ b <= frontier[p]
    /\ \A f \in frames[p] :
          f.seq <= b => Has(q, f) \/ \E g \in s : Gives(g, f)

ClockInv ==
    /\ \A p \in Peers, k \in Keys :
          /\ node[p][k].clock.time <= time[p]
          /\ node[p][k].st = "absent" => node[p][k].clock = Zero
          /\ node[p][k].st # "absent" =>
                 \E f \in frames[p] : f.key = k /\ f.clock = node[p][k].clock
    /\ \A p \in Peers : \A f \in frames[p] : 1 <= f.seq /\ f.seq <= frontier[p]

RequestInv ==
    /\ \A q, p \in Peers :
          pending[q][p] # NoPull => pending[q][p].cursor = cursors[q][p]
    /\ \A m \in net : m.type = "delta" => m.cursor <= m.through
    /\ \A q \in Peers : rx[q].through # 0 =>
          /\ rx[q].from \in Peers
          /\ cursors[q][rx[q].from] <= rx[q].through

CoverInv ==
    /\ \A q, p \in Peers : Upto(q, p, cursors[q][p], {})
    /\ \A m \in net : m.type = "pull" => Upto(m.from, m.to, m.cursor, {})
    /\ \A m \in net : m.type = "delta" => Upto(m.to, m.from, m.through, m.frames)
    /\ \A q \in Peers : rx[q].through # 0 =>
          Upto(q, rx[q].from, rx[q].through, rx[q].todo)

----------------------------------------------------------------------------
\* The order of clocks is total: what is not before is at or after.
LEMMA BeforeOrder ==
    ASSUME NEW a \in Clock, NEW b \in Clock, NEW c \in Clock
    PROVE  /\ Before(a, b) => ~Before(b, a)
           /\ ~Before(a, b) /\ ~Before(b, c) => ~Before(a, c)
           /\ ~Before(a, a)
           /\ ~Before(a, Zero)
  BY DEF Before, Clock, Zero


\* Type correctness is inductive.
LEMMA TypeInit == Init => TypeOK
  BY ConstantsAssumption DEF Init, TypeOK, Cell, Clock, Zero, NoPull, NoBatch,
     Outstanding, Batch

\* Put, with the type of what it writes.
LEMMA PutType ==
    ASSUME TypeOK, NEW p \in Peers, NEW w, w.key \in Keys, w.st \in {"live", "dead"},
           w.clock \in Clock, w.exp \in Clock, Put(p, w)
    PROVE  /\ node' \in [Peers -> [Keys -> Cell]]
           /\ frames' \in [Peers -> SUBSET Frame]
           /\ frontier' \in [Peers -> Nat]
  <1>1. frontier' \in [Peers -> Nat]
    BY DEF Put, TypeOK
  <1>2. [seq |-> frontier[p] + 1, key |-> w.key, st |-> w.st,
         clock |-> w.clock, exp |-> w.exp] \in Frame
    BY DEF TypeOK, Frame
  <1>3. frames' \in [Peers -> SUBSET Frame]
    BY <1>2 DEF Put, TypeOK
  <1>4. [st |-> w.st, clock |-> w.clock] \in Cell
    BY DEF Cell
  <1>5. node' \in [Peers -> [Keys -> Cell]]
    BY <1>4 DEF Put, TypeOK
  <1> QED BY <1>1, <1>3, <1>5

LEMMA TakeType ==
    ASSUME TypeOK, NEW m, NEW reply, reply \subseteq Request \cup Delta, Take(m, reply)
    PROVE  net' \subseteq Request \cup Delta /\ faults' \in 0 .. MaxFaults
  BY ConstantsAssumption DEF TypeOK, Take

LEMMA DiffersType ==
    ASSUME TypeOK, NEW q, NEW p, NEW r, Differs(q, p, r)
    PROVE  faults' \in 0 .. MaxFaults
  BY ConstantsAssumption DEF TypeOK, Differs

\* The fields of the messages and of the batches.
LEMMA MessageFields ==
    ASSUME TypeOK, NEW m \in net
    PROVE  /\ m.from \in Peers /\ m.to \in Peers
           /\ m.cursor \in Nat /\ m.nonce \in Nonces
           /\ m.type \in {"pull", "delta"}
           /\ m.type = "delta" => m.frames \subseteq Frame /\ m.through \in Nat
  BY DEF TypeOK, Request, Delta

LEMMA BatchFields ==
    ASSUME TypeOK, NEW q \in Peers
    PROVE  /\ rx[q].from \in Peers \cup {0}
           /\ rx[q].todo \subseteq Frame
           /\ rx[q].through \in Nat
  BY DEF TypeOK, Batch

LEMMA UpdateType ==
    ASSUME NEW S, NEW T, NEW F \in [S -> [S -> T]], NEW a \in S, NEW b, NEW v \in T
    PROVE  [F EXCEPT ![a][b] = v] \in [S -> [S -> T]]
  <1> DEFINE G == [F[a] EXCEPT ![b] = v]
  <1>1. G \in [S -> T]
    <2>1. G = [x \in S |-> IF x = b THEN v ELSE F[a][x]]
      OBVIOUS
    <2> QED BY <2>1
  <1>2. [F EXCEPT ![a][b] = v] = [F EXCEPT ![a] = G]
    OBVIOUS
  <1> HIDE DEF G
  <1> QED BY <1>1, <1>2

LEMMA DropType ==
    ASSUME TypeOK, NEW q \in Peers, NEW f, Drop(q, f)
    PROVE  rx' \in [Peers -> Batch]
  BY DEF TypeOK, Drop, Batch

LEMMA TypeStep == TypeOK /\ [Next]_vars => TypeOK'
  <1> SUFFICES ASSUME TypeOK, [Next]_vars PROVE TypeOK'
    OBVIOUS
  <1>1. ASSUME NEW p \in Peers, NEW k \in Keys, NEW st \in {"live", "dead"},
               Mutate(p, k, st)
        PROVE  TypeOK'
    <2> DEFINE c == [time |-> time[p] + 1, peer |-> p]
               w == [key |-> k, st |-> st, clock |-> c, exp |-> head[p][k]]
    <2>1. c \in Clock /\ w.key \in Keys /\ w.st \in {"live", "dead"}
          /\ w.clock \in Clock /\ w.exp \in Clock
      BY ConstantsAssumption DEF TypeOK, Clock
    <2>2. Put(p, w)
      BY <1>1 DEF Mutate
    <2>3. time' \in [Peers -> Nat] /\ head' \in [Peers -> [Keys -> Clock]]
      BY <1>1, <2>1 DEF TypeOK, Mutate
    <2> HIDE DEF w
    <2> QED BY <1>1, <2>1, <2>2, <2>3, PutType DEF Mutate, TypeOK
  <1>2. ASSUME NEW p \in Peers, Fold(p) PROVE TypeOK'
    <2>1. \A k \in {j \in Keys : node[p][j].st # "absent"} :
             [seq |-> frontier[p], key |-> k, st |-> node[p][k].st,
              clock |-> node[p][k].clock, exp |-> Zero] \in Frame
      BY DEF TypeOK, Frame, Cell, Clock, Zero
    <2>2. frames' \in [Peers -> SUBSET Frame]
      BY <1>2, <2>1 DEF Fold, TypeOK
    <2> QED BY <1>2, <2>2 DEF Fold, TypeOK
  <1>3. ASSUME NEW q \in Peers, NEW p \in Peers, RequestPull(q, p) PROVE TypeOK'
    <2> PICK n \in Nonces :
            /\ pending' = [pending EXCEPT ![q][p] =
                             [nonce |-> n, cursor |-> cursors[q][p]]]
            /\ net' = net \cup {PullOf(q, p, n, cursors[q][p])}
      BY <1>3 DEF RequestPull
    <2>1. cursors[q][p] \in Nat
      BY DEF TypeOK
    <2>2. PullOf(q, p, n, cursors[q][p]) \in Request
      BY <2>1 DEF PullOf, Request
    <2>3. pending' \in [Peers -> [Peers -> Outstanding]]
      BY <2>1 DEF TypeOK, Outstanding
    <2> QED BY <1>3, <2>2, <2>3, DiffersType DEF RequestPull, TypeOK, graph
  <1>4. ASSUME NEW q \in Peers, NEW p \in Peers, RetryPull(q, p) PROVE TypeOK'
    <2>1. pending[q][p] \in Outstanding /\ pending[q][p] # NoPull
      BY <1>4 DEF TypeOK, RetryPull
    <2>2. pending[q][p].nonce \in Nonces /\ pending[q][p].cursor \in Nat
      BY <2>1 DEF Outstanding
    <2>3. faults' \in 0 .. MaxFaults
      BY <1>4, DiffersType DEF RetryPull
    <2> QED BY <1>4, <2>2, <2>3 DEF RetryPull, TypeOK, graph, PullOf, Request
  <1>5. ASSUME NEW m \in net, AnswerPull(m) PROVE TypeOK'
    <2>1. PICK f \in Since(m.to, m.cursor) :
             Take(m, {[type |-> "delta", from |-> m.to, to |-> m.from,
                       cursor |-> m.cursor, nonce |-> m.nonce,
                       frames |-> Through(m.to, m.cursor, f.seq),
                       through |-> f.seq]})
      BY <1>5 DEF AnswerPull
    <2>2. Since(m.to, m.cursor) \subseteq Frame
      BY MessageFields DEF Since, TypeOK
    <2>3. Through(m.to, m.cursor, f.seq) \subseteq Frame /\ f.seq \in Nat
      BY <2>2 DEF Through, Frame
    <2>4. [type |-> "delta", from |-> m.to, to |-> m.from,
           cursor |-> m.cursor, nonce |-> m.nonce,
           frames |-> Through(m.to, m.cursor, f.seq),
           through |-> f.seq] \in Delta
      BY <2>3, MessageFields DEF Delta
    <2>5. net' \subseteq Request \cup Delta /\ faults' \in 0 .. MaxFaults
      BY <2>1, <2>4, TakeType
    <2> QED BY <1>5, <2>5 DEF AnswerPull, TypeOK, graph
  <1>6. ASSUME NEW m \in net, RefusePull(m) PROVE TypeOK'
    BY <1>6, TakeType DEF RefusePull, TypeOK, graph
  <1>7. ASSUME NEW m \in net, ReceiveDelta(m) PROVE TypeOK'
    <2>1. rx' \in [Peers -> Batch]
      BY <1>7, MessageFields DEF ReceiveDelta, TypeOK, Batch
    <2> QED BY <1>7, <2>1, TakeType DEF ReceiveDelta, TypeOK, graph
  <1>8. ASSUME NEW q \in Peers, NEW f \in rx[q].todo, ReconcileSkip(q, f)
        PROVE  TypeOK'
    BY <1>8, DropType DEF ReconcileSkip, TypeOK, graph
  <1>9. ASSUME NEW q \in Peers, NEW f \in rx[q].todo, ReconcileApply(q, f)
        PROVE  TypeOK'
    <2>1. f \in Frame
      BY BatchFields
    <2>2. f.key \in Keys /\ f.st \in {"live", "dead"} /\ f.clock \in Clock
          /\ f.exp \in Clock /\ f.clock.time \in Nat
      BY <2>1 DEF Frame, Clock
    <2>3. time' \in [Peers -> Nat]
      BY <1>9, <2>2 DEF ReconcileApply, TypeOK, LaterOf
    <2> QED BY <1>9, <2>2, <2>3, PutType, DropType DEF ReconcileApply, TypeOK
  <1>10. ASSUME NEW q \in Peers, NEW f \in rx[q].todo, ReconcileTransaction(q, f)
         PROVE  TypeOK'
    <2>1. f \in Frame
      BY BatchFields
    <2>2. f.key \in Keys /\ f.st \in {"live", "dead"} /\ f.clock \in Clock
          /\ f.exp \in Clock /\ f.clock.time \in Nat
      BY <2>1 DEF Frame, Clock
    <2>3. time' \in [Peers -> Nat] /\ head' \in [Peers -> [Keys -> Clock]]
      BY <1>10, <2>2 DEF ReconcileTransaction, TypeOK, LaterOf
    <2> QED BY <1>10, <2>2, <2>3, PutType, DropType DEF ReconcileTransaction, TypeOK
  <1>11. ASSUME NEW q \in Peers, NEW f \in rx[q].todo, ReconcileConflict(q, f)
         PROVE  TypeOK'
    BY <1>11 DEF ReconcileConflict, TypeOK, graph, NoBatch, Batch
  <1>12. ASSUME NEW q \in Peers, ReconcileDone(q) PROVE TypeOK'
    <2>1. rx' \in [Peers -> Batch]
      BY <1>12 DEF ReconcileDone, TypeOK, NoBatch, Batch
    <2>2. rx[q].through \in Nat
      BY BatchFields
    <2>3. \/ cursors' = [cursors EXCEPT ![q][rx[q].from] = rx[q].through]
             /\ pending' = [pending EXCEPT ![q][rx[q].from] = NoPull]
          \/ UNCHANGED << cursors, pending >>
      BY <1>12 DEF ReconcileDone
    <2>4. cursors' \in [Peers -> [Peers -> Nat]]
          /\ pending' \in [Peers -> [Peers -> Outstanding]]
      <3>1. CASE UNCHANGED << cursors, pending >>
        BY <3>1 DEF TypeOK
      <3>2. CASE /\ cursors' = [cursors EXCEPT ![q][rx[q].from] = rx[q].through]
                 /\ pending' = [pending EXCEPT ![q][rx[q].from] = NoPull]
        <4>1. \A v \in Nat : \A b : [cursors EXCEPT ![q][b] = v] \in [Peers -> [Peers -> Nat]]
          BY UpdateType DEF TypeOK
        <4>2. NoPull \in Outstanding
          BY DEF Outstanding
        <4>3. \A b : [pending EXCEPT ![q][b] = NoPull] \in [Peers -> [Peers -> Outstanding]]
          BY <4>2, UpdateType DEF TypeOK
        <4> QED BY <2>2, <3>2, <4>1, <4>3, Zenon
      <3> QED BY <2>3, <3>1, <3>2
    <2> QED BY <1>12, <2>1, <2>4 DEF ReconcileDone, TypeOK, graph
  <1>13. ASSUME NEW m \in net, Lose(m) PROVE TypeOK'
    BY <1>13, ConstantsAssumption DEF Lose, TypeOK, graph
  <1>14. ASSUME NEW q \in Peers, Restart(q) PROVE TypeOK'
    BY <1>14, ConstantsAssumption DEF Restart, TypeOK, graph, NoBatch, Batch,
       Outstanding
  <1>15. ASSUME NEW q \in Peers, NEW p \in Peers, PendingExpires(q, p) PROVE TypeOK'
    BY <1>15, ConstantsAssumption DEF PendingExpires, TypeOK, graph, Outstanding
  <1>16. ASSUME NEW q \in Peers, NEW p \in Peers, PeerExpires(q, p) PROVE TypeOK'
    BY <1>16, ConstantsAssumption DEF PeerExpires, TypeOK, graph, Outstanding
  <1>17. CASE UNCHANGED vars
    BY <1>17 DEF vars, TypeOK
  <1> QED
    BY <1>1, <1>2, <1>3, <1>4, <1>5, <1>6, <1>7, <1>8, <1>9, <1>10, <1>11, <1>12,
       <1>13, <1>14, <1>15, <1>16, <1>17
    DEF Next, Local, AddNode, RetractNode, Pull, Answer, Receive, Reconcile, Fault

\* Type correctness, for every value of the constants.
THEOREM GossipTypeCorrect == Spec => []TypeOK
  BY TypeInit, TypeStep, PTL DEF Spec

----------------------------------------------------------------------------
(* The records, their clocks and the journal.                              *)

\* Only four kinds of steps change the graph and the journal of a replica.
LEMMA GraphSteps ==
    ASSUME [Next]_vars
    PROVE  \/ UNCHANGED graph
           \/ \E p \in Peers, k \in Keys, st \in {"live", "dead"} : Mutate(p, k, st)
           \/ \E p \in Peers : Fold(p)
           \/ \E q \in Peers : \E f \in rx[q].todo : ReconcileApply(q, f)
           \/ \E q \in Peers : \E f \in rx[q].todo : ReconcileTransaction(q, f)
  BY DEF Next, vars, graph, Local, AddNode, RetractNode, Pull, Answer, Receive,
     Reconcile, Fault, RequestPull, RetryPull, AnswerPull, RefusePull, ReceiveDelta,
     ReconcileSkip, ReconcileConflict, ReconcileDone, Lose, Restart, PendingExpires,
     PeerExpires

LEMMA ClockInit == Init => ClockInv
  BY DEF Init, ClockInv, Zero

\* What an appended frame does to one replica, and to no other.
LEMMA PutFacts ==
    ASSUME TypeOK, NEW p \in Peers, NEW w, w.key \in Keys, Put(p, w)
    PROVE  /\ \A r \in Peers : r # p => /\ node'[r] = node[r]
                                        /\ frames'[r] = frames[r]
                                        /\ frontier'[r] = frontier[r]
           /\ frontier'[p] = frontier[p] + 1
           /\ frames'[p] = frames[p] \cup
                 {[seq |-> frontier[p] + 1, key |-> w.key, st |-> w.st,
                   clock |-> w.clock, exp |-> w.exp]}
           /\ node'[p][w.key] = [st |-> w.st, clock |-> w.clock]
           /\ \A k \in Keys : k # w.key => node'[p][k] = node[p][k]
  BY DEF Put, TypeOK

LEMMA PutElsewhere ==
    ASSUME TypeOK, NEW p \in Peers, NEW w, w.key \in Keys, Put(p, w),
           NEW r \in Peers, NEW k \in Keys, ~(p = r /\ w.key = k)
    PROVE  node'[r][k] = node[r][k]
  BY DEF Put, TypeOK

LEMMA PutClock ==
    ASSUME TypeOK, ClockInv, NEW p \in Peers, NEW w, w.key \in Keys,
           w.st \in {"live", "dead"}, w.clock \in Clock, Put(p, w),
           NEW x \in Nat, time' = [time EXCEPT ![p] = x],
           time[p] <= x, w.clock.time <= x
    PROVE  ClockInv'
  <1> DEFINE new == [seq |-> frontier[p] + 1, key |-> w.key, st |-> w.st,
                     clock |-> w.clock, exp |-> w.exp]
  <1>1. /\ \A r \in Peers : r # p => /\ node'[r] = node[r]
                                     /\ frames'[r] = frames[r]
                                     /\ frontier'[r] = frontier[r]
        /\ frontier'[p] = frontier[p] + 1
        /\ frames'[p] = frames[p] \cup {new}
        /\ node'[p][w.key] = [st |-> w.st, clock |-> w.clock]
        /\ \A k \in Keys : k # w.key => node'[p][k] = node[p][k]
    BY PutFacts
  <1>2. new.seq = frontier[p] + 1 /\ new.key = w.key /\ new.clock = w.clock
    OBVIOUS
  <1> HIDE DEF new
  <1>3. \A r \in Peers : time'[r] \in Nat /\ time[r] \in Nat /\ time[r] <= time'[r]
    BY DEF TypeOK
  <1>4. ASSUME NEW r \in Peers, NEW k \in Keys
        PROVE  /\ node'[r][k].clock.time <= time'[r]
               /\ node'[r][k].st = "absent" => node'[r][k].clock = Zero
               /\ node'[r][k].st # "absent" =>
                      \E f \in frames'[r] : f.key = k /\ f.clock = node'[r][k].clock
    <2>1. CASE r = p /\ k = w.key
      <3>1. node'[r][k].st = w.st /\ node'[r][k].clock = w.clock
        BY <1>1, <2>1
      <3>2. time'[p] = x
        BY DEF TypeOK
      <3> QED BY <1>1, <1>2, <2>1, <3>1, <3>2
    <2>2. CASE ~(r = p /\ k = w.key)
      <3>1. node'[r][k] = node[r][k] /\ frames[r] \subseteq frames'[r]
        BY <1>1, <2>2
      <3>2. node[r][k].clock.time \in Nat
        BY DEF TypeOK, Cell, Clock
      <3>3. /\ node[r][k].clock.time <= time[r]
            /\ node[r][k].st = "absent" => node[r][k].clock = Zero
            /\ node[r][k].st # "absent" =>
                   \E f \in frames[r] : f.key = k /\ f.clock = node[r][k].clock
        BY DEF ClockInv
      <3> QED BY <1>3, <3>1, <3>2, <3>3
    <2> QED BY <2>1, <2>2
  <1>5. ASSUME NEW r \in Peers, NEW f \in frames'[r]
        PROVE  1 <= f.seq /\ f.seq <= frontier'[r]
    <2>1. CASE r = p /\ f = new
      BY <1>1, <1>2, <2>1 DEF TypeOK
    <2>2. CASE f \in frames[r]
      <3>1. f.seq \in Nat /\ frontier[r] \in Nat /\ 1 <= f.seq /\ f.seq <= frontier[r]
        BY <2>2 DEF TypeOK, Frame, ClockInv
      <3> QED BY <1>1, <3>1
    <2> QED BY <1>1, <2>1, <2>2
  <1> QED BY <1>4, <1>5 DEF ClockInv

LEMMA ClockStep == TypeOK /\ ClockInv /\ [Next]_vars => ClockInv'
  <1> SUFFICES ASSUME TypeOK, ClockInv, [Next]_vars PROVE ClockInv'
    OBVIOUS
  <1>1. CASE UNCHANGED graph
    BY <1>1 DEF graph, ClockInv
  <1>2. ASSUME NEW p \in Peers, NEW k \in Keys, NEW st \in {"live", "dead"},
               Mutate(p, k, st)
        PROVE  ClockInv'
    <2> DEFINE c == [time |-> time[p] + 1, peer |-> p]
               w == [key |-> k, st |-> st, clock |-> c, exp |-> head[p][k]]
    <2>1. /\ c \in Clock /\ c.time = time[p] + 1
          /\ w.key = k /\ w.st = st /\ w.clock = c
      BY ConstantsAssumption DEF TypeOK, Clock
    <2>2. Put(p, w) /\ time' = [time EXCEPT ![p] = time[p] + 1]
      BY <1>2 DEF Mutate
    <2>3. /\ time[p] + 1 \in Nat /\ time[p] <= time[p] + 1
          /\ w.clock.time <= time[p] + 1 /\ w.clock \in Clock
          /\ w.key \in Keys /\ w.st \in {"live", "dead"}
      BY <2>1 DEF TypeOK
    <2> HIDE DEF c, w
    <2> QED BY <2>2, <2>3, PutClock
  <1>3. ASSUME NEW p \in Peers, Fold(p) PROVE ClockInv'
    <2> DEFINE base == { [seq |-> frontier[p], key |-> k, st |-> node[p][k].st,
                          clock |-> node[p][k].clock, exp |-> Zero]
                            : k \in {j \in Keys : node[p][j].st # "absent"} }
    <2>1. /\ frames'[p] = base
          /\ \A r \in Peers : r # p => frames'[r] = frames[r]
          /\ UNCHANGED << node, time, frontier >>
      BY <1>3 DEF Fold, TypeOK
    <2>2. \A f \in base : f.seq = frontier[p]
      OBVIOUS
    <2>3. \A k \in Keys : node[p][k].st # "absent" =>
             \E f \in base : f.key = k /\ f.clock = node[p][k].clock
      <3> TAKE k \in Keys
      <3> HAVE node[p][k].st # "absent"
      <3> DEFINE f == [seq |-> frontier[p], key |-> k, st |-> node[p][k].st,
                       clock |-> node[p][k].clock, exp |-> Zero]
      <3>1. f \in base
        OBVIOUS
      <3>2. f.key = k /\ f.clock = node[p][k].clock
        OBVIOUS
      <3> HIDE DEF f, base
      <3> QED BY <3>1, <3>2
    <2> HIDE DEF base
    <2>4. frontier[p] \in Nat /\ 1 <= frontier[p]
      BY <1>3 DEF TypeOK, Fold
    <2> QED BY <2>1, <2>2, <2>3, <2>4 DEF ClockInv
  <1>4. ASSUME NEW q \in Peers, NEW f \in rx[q].todo,
               ReconcileApply(q, f) \/ ReconcileTransaction(q, f)
        PROVE  ClockInv'
    <2>1. /\ f.key \in Keys /\ f.st \in {"live", "dead"}
          /\ f.clock \in Clock /\ f.clock.time \in Nat
      BY BatchFields DEF Frame, Clock
    <2>2. Put(q, f) /\ time' = [time EXCEPT ![q] = LaterOf(time[q], f.clock.time)]
      BY <1>4 DEF ReconcileApply, ReconcileTransaction
    <2>3. /\ LaterOf(time[q], f.clock.time) \in Nat
          /\ time[q] <= LaterOf(time[q], f.clock.time)
          /\ f.clock.time <= LaterOf(time[q], f.clock.time)
      BY <2>1 DEF LaterOf, TypeOK
    <2> QED BY <2>1, <2>2, <2>3, PutClock
  <1> QED BY <1>1, <1>2, <1>3, <1>4, GraphSteps

----------------------------------------------------------------------------
(* Schema 5: no record goes back.                                          *)

LEMMA NodeForward ==
    ASSUME Schema = 5, TypeOK, ClockInv, [Next]_vars, NEW r \in Peers, NEW k \in Keys
    PROVE  /\ ~Before(node'[r][k].clock, node[r][k].clock)
           /\ node[r][k].st = "dead" /\ node'[r][k].st = "live" =>
                  Before(node[r][k].clock, node'[r][k].clock)
  <1> DEFINE c == node[r][k]
  <1>1. /\ c.clock \in Clock /\ c.st \in {"absent", "live", "dead"}
        /\ c.clock.time \in Nat /\ c.clock.time <= time[r] /\ time[r] \in Nat
        /\ c.st = "absent" => c.clock = Zero
    BY DEF TypeOK, Cell, Clock, ClockInv
  <1>2. ASSUME node'[r][k] = c
        PROVE  /\ ~Before(node'[r][k].clock, c.clock)
               /\ ~(c.st = "dead" /\ node'[r][k].st = "live")
    <2>1. ~Before(c.clock, c.clock)
      BY <1>1, BeforeOrder
    <2> QED BY <1>2, <2>1
  <1>3. CASE UNCHANGED graph \/ \E p \in Peers : Fold(p)
    BY <1>2, <1>3 DEF graph, Fold
  <1>4. ASSUME NEW p \in Peers, NEW j \in Keys, NEW st \in {"live", "dead"},
               Mutate(p, j, st), p = r, j = k
        PROVE  Before(c.clock, node'[r][k].clock)
    <2> DEFINE w == [key |-> k, st |-> st, clock |-> [time |-> time[r] + 1, peer |-> r],
                     exp |-> head[r][k]]
    <2>1. Put(r, w) /\ w.key \in Keys /\ w.key = k /\ w.clock.time = time[r] + 1
      BY <1>4 DEF Mutate
    <2> HIDE DEF w
    <2>2. node'[r][k] = [st |-> w.st, clock |-> w.clock]
      BY <2>1, PutFacts
    <2>3. node'[r][k].clock.time = time[r] + 1
      BY <2>1, <2>2
    <2> QED BY <1>1, <2>3 DEF Before
  <1>5. ASSUME NEW f \in rx[r].todo, ReconcileApply(r, f), f.key = k
        PROVE  /\ ~Before(node'[r][k].clock, c.clock)
               /\ c.st = "dead" => Before(c.clock, node'[r][k].clock)
    <2>1. f.clock \in Clock
      BY BatchFields DEF Frame
    <2>2. node'[r][k] = [st |-> f.st, clock |-> f.clock]
      BY <1>5, PutFacts DEF ReconcileApply
    <2>3. ~Loses(f, c)
      BY <1>5 DEF ReconcileApply
    <2>4. CASE c.st = "dead"
      BY <1>1, <2>1, <2>2, <2>3, <2>4, BeforeOrder DEF Loses
    <2>5. CASE c.st = "live"
      BY <2>2, <2>3, <2>5 DEF Loses
    <2>6. CASE c.st = "absent"
      BY <1>1, <2>1, <2>2, <2>6, BeforeOrder
    <2> QED BY <1>1, <2>4, <2>5, <2>6
  <1>7. CASE \E p \in Peers, j \in Keys, st \in {"live", "dead"} : Mutate(p, j, st)
    <2> PICK p \in Peers, j \in Keys, st \in {"live", "dead"} : Mutate(p, j, st)
      BY <1>7
    <2>1. CASE p = r /\ j = k
      <3>1. Before(c.clock, node'[r][k].clock)
        BY <1>4, <2>1
      <3>2. node' \in [Peers -> [Keys -> Cell]]
        BY TypeStep DEF TypeOK
      <3>3. node'[r][k].clock \in Clock
        BY <3>2 DEF Cell
      <3> QED BY <1>1, <3>1, <3>3, BeforeOrder
    <2>2. CASE ~(p = r /\ j = k)
      <3> DEFINE w == [key |-> j, st |-> st,
                       clock |-> [time |-> time[p] + 1, peer |-> p],
                       exp |-> head[p][j]]
      <3>1. Put(p, w) /\ w.key = j
        BY DEF Mutate
      <3> HIDE DEF w
      <3>2. node'[r][k] = c
        BY <2>2, <3>1, PutElsewhere
      <3> QED BY <1>2, <3>2
    <2> QED BY <2>1, <2>2
  <1>8. CASE \E q \in Peers : \E f \in rx[q].todo : ReconcileApply(q, f)
    <2> PICK q \in Peers : \E f \in rx[q].todo : ReconcileApply(q, f)
      BY <1>8
    <2> PICK f \in rx[q].todo : ReconcileApply(q, f)
      OBVIOUS
    <2>1. f.key \in Keys /\ Put(q, f)
      BY BatchFields DEF Frame, ReconcileApply
    <2>2. CASE q = r /\ f.key = k
      BY <1>5, <2>2
    <2>3. CASE ~(q = r /\ f.key = k)
      <3>1. node'[r][k] = c
        BY <2>1, <2>3, PutElsewhere
      <3> QED BY <1>2, <3>1
    <2> QED BY <2>2, <2>3
  <1>9. ~\E q \in Peers : \E f \in rx[q].todo : ReconcileTransaction(q, f)
    BY DEF ReconcileTransaction
  <1> QED BY <1>3, <1>7, <1>8, <1>9, GraphSteps

\* Schema 5: whatever the network does, no record goes back to an older version
\* and no tombstone gives way to anything but a newer write.
THEOREM LwwNeverRegresses ==
    ASSUME Schema = 5
    PROVE  Spec => NoRegression
  <1>1. TypeOK /\ ClockInv /\ [Next]_vars =>
          [\A p \in Peers, k \in Keys :
             /\ ~Before(node'[p][k].clock, node[p][k].clock)
             /\ node[p][k].st = "dead" /\ node'[p][k].st = "live" =>
                    Before(node[p][k].clock, node'[p][k].clock)]_vars
    BY NodeForward
  <1> QED
    BY <1>1, TypeInit, TypeStep, ClockInit, ClockStep, PTL DEF Spec, NoRegression

----------------------------------------------------------------------------
(* Requests, answers and cursors.                                          *)

\* A reply is all that Take adds to the network.
LEMMA TakeNet ==
    ASSUME NEW m, NEW reply, Take(m, reply)
    PROVE  net' \subseteq net \cup reply
  BY DEF Take

\* An answer ends at or after the cursor it was asked from.
LEMMA AnswerAfterCursor ==
    ASSUME TypeOK, NEW m \in net, NEW f \in Since(m.to, m.cursor)
    PROVE  /\ f \in frames[m.to] /\ f \in Frame /\ f.seq \in Nat
           /\ m.cursor <= f.seq
  <1>1. f \in frames[m.to] /\ (m.cursor = 0 \/ f.seq > m.cursor)
    BY DEF Since
  <1>2. f \in Frame /\ m.cursor \in Nat
    BY <1>1, MessageFields DEF TypeOK
  <1> QED BY <1>1, <1>2 DEF Frame

LEMMA RequestInit == Init => RequestInv
  BY DEF Init, RequestInv, NoBatch

LEMMA RequestStep == TypeOK /\ RequestInv /\ [Next]_vars => RequestInv'
  <1> SUFFICES ASSUME TypeOK, RequestInv, [Next]_vars PROVE RequestInv'
    OBVIOUS
  <1>1. ASSUME UNCHANGED << cursors, pending >>, rx' = rx, net' \subseteq net
        PROVE  RequestInv'
    BY <1>1 DEF RequestInv
  <1>2. ASSUME NEW p \in Peers, NEW k \in Keys, NEW st \in {"live", "dead"},
               Mutate(p, k, st)
        PROVE  RequestInv'
    BY <1>1, <1>2 DEF Mutate
  <1>3. ASSUME NEW p \in Peers, Fold(p) PROVE RequestInv'
    BY <1>1, <1>3 DEF Fold
  <1>4. ASSUME NEW q \in Peers, NEW p \in Peers, RequestPull(q, p) PROVE RequestInv'
    <2> PICK n \in Nonces :
            /\ pending' = [pending EXCEPT ![q][p] =
                             [nonce |-> n, cursor |-> cursors[q][p]]]
            /\ net' = net \cup {PullOf(q, p, n, cursors[q][p])}
      BY <1>4 DEF RequestPull
    <2>1. UNCHANGED << cursors, rx >>
      BY <1>4 DEF RequestPull
    <2>2. \A a, b \in Peers :
             pending'[a][b] # NoPull => pending'[a][b].cursor = cursors'[a][b]
      BY <2>1 DEF RequestInv, TypeOK
    <2>3. PullOf(q, p, n, cursors[q][p]).type # "delta"
      BY DEF PullOf
    <2> QED BY <2>1, <2>2, <2>3 DEF RequestInv
  <1>5. ASSUME NEW q \in Peers, NEW p \in Peers, RetryPull(q, p) PROVE RequestInv'
    BY <1>5 DEF RetryPull, RequestInv, PullOf
  <1>6. ASSUME NEW m \in net, AnswerPull(m) PROVE RequestInv'
    <2> PICK f \in Since(m.to, m.cursor) :
             Take(m, {[type |-> "delta", from |-> m.to, to |-> m.from,
                       cursor |-> m.cursor, nonce |-> m.nonce,
                       frames |-> Through(m.to, m.cursor, f.seq),
                       through |-> f.seq]})
      BY <1>6 DEF AnswerPull
    <2> DEFINE d == [type |-> "delta", from |-> m.to, to |-> m.from,
                     cursor |-> m.cursor, nonce |-> m.nonce,
                     frames |-> Through(m.to, m.cursor, f.seq),
                     through |-> f.seq]
    <2>1. net' \subseteq net \cup {d}
      BY TakeNet
    <2>2. d.cursor <= d.through
      BY AnswerAfterCursor
    <2>3. UNCHANGED << cursors, pending, rx >>
      BY <1>6 DEF AnswerPull
    <2> HIDE DEF d
    <2> QED BY <2>1, <2>2, <2>3 DEF RequestInv
  <1>7. ASSUME NEW m \in net, RefusePull(m) PROVE RequestInv'
    BY <1>1, <1>7, TakeNet DEF RefusePull
  <1>8. ASSUME NEW m \in net, ReceiveDelta(m) PROVE RequestInv'
    <2>1. net' \subseteq net /\ UNCHANGED << cursors, pending >> /\ m.type = "delta"
      BY <1>8, TakeNet DEF ReceiveDelta
    <2>2. /\ m.to \in Peers /\ m.from \in Peers /\ m.nonce \in Nonces
          /\ m.cursor <= m.through
      BY <2>1, MessageFields DEF RequestInv
    <2>3. /\ rx'[m.to].from = m.from
          /\ rx'[m.to].through = IF Verified(m) THEN m.through ELSE 0
          /\ \A q \in Peers : q # m.to => rx'[q] = rx[q]
      BY <1>8, <2>2 DEF ReceiveDelta, TypeOK
    <2>4. Verified(m) => cursors[m.to][m.from] = m.cursor
      <3> HAVE Verified(m)
      <3>1. pending[m.to][m.from].nonce = m.nonce
            /\ pending[m.to][m.from].cursor = m.cursor
        BY DEF Verified
      <3>2. m.nonce # 0
        BY <2>2, ConstantsAssumption DEF Nonces
      <3>3. pending[m.to][m.from] # NoPull
        BY <3>1, <3>2 DEF NoPull
      <3> QED BY <2>2, <3>1, <3>3 DEF RequestInv
    <2> QED BY <2>1, <2>2, <2>3, <2>4 DEF RequestInv
  <1>9. ASSUME NEW q \in Peers, NEW f, Drop(q, f), UNCHANGED << cursors, pending, net >>
        PROVE  RequestInv'
    <2>1. \A r \in Peers : rx'[r].from = rx[r].from /\ rx'[r].through = rx[r].through
      BY <1>9 DEF Drop, TypeOK, Batch
    <2> QED BY <1>9, <2>1 DEF RequestInv
  <1>10. ASSUME NEW q \in Peers, NEW f \in rx[q].todo,
                ReconcileSkip(q, f) \/ ReconcileApply(q, f) \/ ReconcileTransaction(q, f)
         PROVE  RequestInv'
    BY <1>9, <1>10 DEF ReconcileSkip, ReconcileApply, ReconcileTransaction
  <1>11. ASSUME NEW q \in Peers, NEW f \in rx[q].todo, ReconcileConflict(q, f)
         PROVE  RequestInv'
    BY <1>11 DEF ReconcileConflict, RequestInv, NoBatch, TypeOK
  <1>12. ASSUME NEW q \in Peers, ReconcileDone(q) PROVE RequestInv'
    <2>1. /\ net' = net
          /\ rx'[q].through = 0
          /\ \A r \in Peers : r # q => rx'[r] = rx[r]
      BY <1>12 DEF ReconcileDone, NoBatch, TypeOK
    <2>2. \A r \in Peers : r # q => cursors'[r] = cursors[r] /\ pending'[r] = pending[r]
      BY <1>12 DEF ReconcileDone, TypeOK
    <2>3. \A p \in Peers :
             pending'[q][p] # NoPull => pending'[q][p].cursor = cursors'[q][p]
      <3>1. CASE rx[q].through = 0
        BY <1>12, <3>1 DEF ReconcileDone, RequestInv
      <3>2. CASE rx[q].through # 0
        <4>1. rx[q].from \in Peers
          BY <3>2 DEF RequestInv
        <4>2. /\ cursors' = [cursors EXCEPT ![q][rx[q].from] = rx[q].through]
              /\ pending' = [pending EXCEPT ![q][rx[q].from] = NoPull]
          BY <1>12, <3>2 DEF ReconcileDone
        <4> QED BY <4>1, <4>2 DEF RequestInv, TypeOK
      <3> QED BY <3>1, <3>2
    <2> QED BY <2>1, <2>2, <2>3 DEF RequestInv
  <1>13. ASSUME NEW m \in net, Lose(m) PROVE RequestInv'
    BY <1>1, <1>13 DEF Lose
  <1>14. ASSUME NEW q \in Peers, Restart(q) PROVE RequestInv'
    <2>1. /\ net' = net
          /\ rx'[q].through = 0
          /\ \A p \in Peers : pending'[q][p] = NoPull
          /\ \A r \in Peers : r # q => /\ rx'[r] = rx[r]
                                       /\ cursors'[r] = cursors[r]
                                       /\ pending'[r] = pending[r]
      BY <1>14 DEF Restart, NoBatch, TypeOK
    <2> QED BY <2>1 DEF RequestInv
  <1>15. ASSUME NEW q \in Peers, NEW p \in Peers, PendingExpires(q, p)
         PROVE  RequestInv'
    <2>1. \A a, b \in Peers : pending'[a][b] # NoPull => pending'[a][b] = pending[a][b]
      BY <1>15 DEF PendingExpires, TypeOK
    <2> QED BY <1>15, <2>1 DEF PendingExpires, RequestInv
  <1>16. ASSUME NEW q \in Peers, NEW p \in Peers, PeerExpires(q, p) PROVE RequestInv'
    <2>1. \A a, b \in Peers : pending'[a][b] # NoPull =>
             pending'[a][b] = pending[a][b] /\ cursors'[a][b] = cursors[a][b]
      BY <1>16 DEF PeerExpires, TypeOK
    <2>2. \A a \in Peers : a # q => cursors'[a] = cursors[a]
      BY <1>16 DEF PeerExpires, TypeOK
    <2>3. net' = net /\ rx' = rx /\ rx[q].through = 0
      BY <1>16 DEF PeerExpires, Idle, NoBatch
    <2> QED BY <2>1, <2>2, <2>3 DEF RequestInv
  <1>17. CASE UNCHANGED vars
    BY <1>17 DEF vars, RequestInv
  <1> QED
    BY <1>2, <1>3, <1>4, <1>5, <1>6, <1>7, <1>8, <1>10, <1>11, <1>12,
       <1>13, <1>14, <1>15, <1>16, <1>17
    DEF Next, Local, AddNode, RetractNode, Pull, Answer, Receive, Reconcile, Fault

\* A step moves a cursor forward or resets it.
LEMMA CursorStep ==
    ASSUME TypeOK, RequestInv, [Next]_vars, NEW a \in Peers, NEW b \in Peers
    PROVE  cursors'[a][b] >= cursors[a][b] \/ cursors'[a][b] = 0
  <1>1. CASE cursors' = cursors
    BY <1>1 DEF TypeOK
  <1>2. ASSUME NEW q \in Peers, ReconcileDone(q), cursors' # cursors
        PROVE  cursors'[a][b] >= cursors[a][b]
    <2>1. rx[q].through # 0 /\ cursors' = [cursors EXCEPT ![q][rx[q].from] = rx[q].through]
      BY <1>2 DEF ReconcileDone
    <2>2. rx[q].from \in Peers /\ cursors[q][rx[q].from] <= rx[q].through
      BY <2>1 DEF RequestInv
    <2>3. rx[q].through \in Nat
      BY BatchFields
    <2> QED BY <2>1, <2>2, <2>3 DEF TypeOK
  <1>3. ASSUME NEW q \in Peers, Restart(q)
        PROVE  cursors'[a][b] = cursors[a][b] \/ cursors'[a][b] = 0
    BY <1>3 DEF Restart, TypeOK
  <1>4. ASSUME NEW q \in Peers, NEW p \in Peers, PeerExpires(q, p)
        PROVE  cursors'[a][b] = cursors[a][b] \/ cursors'[a][b] = 0
    BY <1>4 DEF PeerExpires, TypeOK
  <1>5. \/ cursors' = cursors
        \/ \E q \in Peers : ReconcileDone(q)
        \/ \E q \in Peers : Restart(q)
        \/ \E q, p \in Peers : PeerExpires(q, p)
    BY DEF Next, vars, graph, Local, AddNode, RetractNode, Mutate, Fold, Pull, Answer,
       Receive, Reconcile, Fault, RequestPull, RetryPull, AnswerPull, RefusePull,
       ReceiveDelta, ReconcileSkip, ReconcileApply, ReconcileTransaction,
       ReconcileConflict, Lose, PendingExpires
  <1>6. cursors[a][b] \in Nat
    BY DEF TypeOK
  <1>7. cursors'[a][b] \in Nat
    BY TypeStep DEF TypeOK
  <1> QED BY <1>1, <1>2, <1>3, <1>4, <1>5, <1>6, <1>7

\* A late or duplicated answer never moves a cursor back, in either schema.
THEOREM CursorsNeverRecede == Spec => CursorNeverRecedes
  <1>1. TypeOK /\ RequestInv /\ [Next]_vars =>
          [\A q, p \in Peers :
             cursors'[q][p] >= cursors[q][p] \/ cursors'[q][p] = 0]_vars
    BY CursorStep
  <1> QED
    BY <1>1, TypeInit, TypeStep, RequestInit, RequestStep, PTL
    DEF Spec, CursorNeverRecedes

----------------------------------------------------------------------------
(* A cursor never runs ahead of what its replica has.                      *)

\* What a replica has, it keeps.
LEMMA HasStep ==
    ASSUME TypeOK, ClockInv, [Next]_vars, NEW q \in Peers, NEW f \in Frame, Has(q, f)
    PROVE  Has(q, f)'
  <1>1. CASE Schema = 6
    <2>1. frames[q] \subseteq frames'[q]
      <3>1. CASE UNCHANGED graph
        BY <3>1 DEF graph
      <3>2. ~\E p \in Peers : Fold(p)
        BY <1>1, ConstantsAssumption DEF Fold
      <3>3. CASE \E p \in Peers, k \in Keys, st \in {"live", "dead"} : Mutate(p, k, st)
        BY <3>3 DEF Mutate, Put, TypeOK
      <3>4. CASE \E p \in Peers : \E g \in rx[p].todo :
                    ReconcileApply(p, g) \/ ReconcileTransaction(p, g)
        BY <3>4 DEF ReconcileApply, ReconcileTransaction, Put, TypeOK
      <3> QED BY <3>1, <3>2, <3>3, <3>4, GraphSteps
    <2> QED BY <1>1, <2>1 DEF Has, Applied
  <1>2. CASE Schema # 6
    <2>1. f.key \in Keys /\ f.clock \in Clock /\ Schema = 5
      BY <1>2, ConstantsAssumption DEF Frame
    <2>2. node[q][f.key].clock \in Clock
      BY <2>1 DEF TypeOK, Cell
    <2>3. node'[q][f.key].clock \in Clock
      BY <2>1, TypeStep DEF TypeOK, Cell
    <2>4. ~Before(node'[q][f.key].clock, node[q][f.key].clock)
      BY <2>1, NodeForward
    <2>5. ~Before(node'[q][f.key].clock, f.clock)
      BY <1>2, <2>1, <2>2, <2>3, <2>4, BeforeOrder DEF Has
    <2> QED BY <1>2, <2>5 DEF Has
  <1> QED BY <1>1, <1>2

\* A frame at or below a sequence number that was reached stands for one that
\* was there before: an append is past it, and a fold keeps key and clock.
LEMMA FramesStep ==
    ASSUME TypeOK, ClockInv, [Next]_vars, NEW p \in Peers, NEW b \in Nat,
           b <= frontier[p]
    PROVE  /\ b <= frontier'[p]
           /\ \A f \in frames'[p] : f.seq <= b =>
                 \E g \in frames[p] : g.seq <= b /\ g.key = f.key /\ g.clock = f.clock
  <1>0. frontier[p] \in Nat
    BY DEF TypeOK
  <1>1. CASE UNCHANGED graph
    BY <1>1 DEF graph
  <1>2. ASSUME NEW r \in Peers, NEW w, w.key \in Keys, Put(r, w)
        PROVE  /\ b <= frontier'[p]
               /\ \A f \in frames'[p] : f.seq <= b => f \in frames[p]
    <2>1. CASE r # p
      <3>1. frontier'[p] = frontier[p] /\ frames'[p] = frames[p]
        BY <1>2, <2>1 DEF Put, TypeOK
      <3> QED BY <3>1
    <2>2. CASE r = p
      <3>1. /\ frontier'[p] = frontier[p] + 1
            /\ \A f \in frames'[p] : f \in frames[p] \/ f.seq = frontier[p] + 1
        BY <1>2, <2>2 DEF Put, TypeOK
      <3> QED BY <1>0, <3>1
    <2> QED BY <2>1, <2>2
  <1>3. ASSUME NEW r \in Peers, NEW k \in Keys, NEW st \in {"live", "dead"},
               Mutate(r, k, st)
        PROVE  \E w : w.key \in Keys /\ Put(r, w)
    <2> DEFINE w == [key |-> k, st |-> st,
                     clock |-> [time |-> time[r] + 1, peer |-> r],
                     exp |-> head[r][k]]
    <2>1. w.key \in Keys /\ Put(r, w)
      BY <1>3 DEF Mutate
    <2> HIDE DEF w
    <2> QED BY <2>1
  <1>4. ASSUME NEW r \in Peers, Fold(r)
        PROVE  /\ b <= frontier'[p]
               /\ \A f \in frames'[p] : f.seq <= b =>
                     \E g \in frames[p] : /\ g.seq <= b
                                          /\ g.key = f.key /\ g.clock = f.clock
    <2>1. frontier' = frontier
      BY <1>4 DEF Fold
    <2>2. CASE r # p
      <3>1. frames'[p] = frames[p]
        BY <1>4, <2>2 DEF Fold, TypeOK
      <3> QED BY <2>1, <3>1
    <2>3. CASE r = p
      <3> SUFFICES ASSUME NEW f \in frames'[p], f.seq <= b
                   PROVE  \E g \in frames[p] : /\ g.seq <= b
                                               /\ g.key = f.key /\ g.clock = f.clock
        BY <2>1
      <3>1. PICK k \in Keys : /\ node[p][k].st # "absent"
                              /\ f = [seq |-> frontier[p], key |-> k,
                                      st |-> node[p][k].st,
                                      clock |-> node[p][k].clock, exp |-> Zero]
        BY <1>4, <2>3 DEF Fold, TypeOK
      <3>2. f.seq = frontier[p] /\ f.key = k /\ f.clock = node[p][k].clock
        BY <3>1
      <3>3. PICK g \in frames[p] : g.key = k /\ g.clock = node[p][k].clock
        BY <3>1 DEF ClockInv
      <3>4. g.seq <= frontier[p] /\ g.seq \in Nat
        BY DEF ClockInv, TypeOK, Frame
      <3> QED BY <1>0, <3>2, <3>3, <3>4
    <2> QED BY <2>2, <2>3
  <1>5. ASSUME NEW q \in Peers, NEW f \in rx[q].todo,
               ReconcileApply(q, f) \/ ReconcileTransaction(q, f)
        PROVE  f.key \in Keys /\ Put(q, f)
    BY <1>5, BatchFields DEF ReconcileApply, ReconcileTransaction, Frame
  <1>6. CASE \E r \in Peers : \E w : w.key \in Keys /\ Put(r, w)
    BY <1>2, <1>6
  <1>7. \/ UNCHANGED graph
        \/ \E r \in Peers : Fold(r)
        \/ \E r \in Peers : \E w : w.key \in Keys /\ Put(r, w)
    BY <1>3, <1>5, GraphSteps
  <1> QED BY <1>1, <1>4, <1>6, <1>7

LEMMA UptoStep ==
    ASSUME TypeOK, ClockInv, [Next]_vars, NEW q \in Peers, NEW p \in Peers,
           NEW b \in Nat, NEW s, Upto(q, p, b, s)
    PROVE  Upto(q, p, b, s)'
  <1>1. /\ b <= frontier'[p]
        /\ \A f \in frames'[p] : f.seq <= b =>
              \E g \in frames[p] : g.seq <= b /\ g.key = f.key /\ g.clock = f.clock
    BY FramesStep DEF Upto
  <1>2. ASSUME NEW f \in frames'[p], f.seq <= b
        PROVE  Has(q, f)' \/ \E g \in s : Gives(g, f)
    <2>1. PICK h \in frames[p] : h.seq <= b /\ h.key = f.key /\ h.clock = f.clock
      BY <1>1, <1>2
    <2>2. h \in Frame
      BY DEF TypeOK
    <2>3. Has(q, h) \/ \E g \in s : Gives(g, h)
      BY <2>1 DEF Upto
    <2>4. CASE Has(q, h)
      <3>1. Has(q, h)'
        BY <2>2, <2>4, HasStep
      <3> QED BY <2>1, <3>1 DEF Has
    <2>5. CASE \E g \in s : Gives(g, h)
      BY <2>1, <2>5 DEF Gives
    <2> QED BY <2>3, <2>4, <2>5
  <1> QED BY <1>1, <1>2 DEF Upto, Gives

\* Every event gives itself, and what a replica has gives it what it stands for.
LEMMA GivesItself == ASSUME NEW f \in Frame PROVE Gives(f, f)
  <1>1. f.clock \in Clock
    BY DEF Frame
  <1> QED BY <1>1, BeforeOrder DEF Gives

LEMMA GivesHas ==
    ASSUME TypeOK', NEW q \in Peers, NEW g \in Frame, NEW f \in Frame,
           Has(q, g)', Gives(g, f)
    PROVE  Has(q, f)'
  <1>1. CASE Schema = 6
    BY <1>1 DEF Has, Gives
  <1>2. CASE Schema # 6
    <2>1. /\ g.clock \in Clock /\ f.clock \in Clock /\ g.key = f.key /\ f.key \in Keys
          /\ ~Before(node'[q][g.key].clock, g.clock) /\ ~Before(g.clock, f.clock)
      BY <1>2 DEF Has, Gives, Frame
    <2>2. node'[q][f.key].clock \in Clock
      BY <2>1 DEF TypeOK, Cell
    <2>3. ~Before(node'[q][f.key].clock, f.clock)
      BY <2>1, <2>2, BeforeOrder
    <2> QED BY <1>2, <2>3 DEF Has
  <1> QED BY <1>1, <1>2

\* What is covered stays covered while cursors, datagrams and batches stay.
LEMMA CoverKeep ==
    ASSUME TypeOK, ClockInv, RequestInv, CoverInv, [Next]_vars
    PROVE  /\ \A q, p \in Peers : \A b \in Nat :
                 b = cursors[q][p] => Upto(q, p, b, {})'
           /\ \A m \in net : m.type = "pull" => Upto(m.from, m.to, m.cursor, {})'
           /\ \A m \in net : m.type = "delta" =>
                 Upto(m.to, m.from, m.through, m.frames)'
           /\ \A q, p \in Peers : \A b \in Nat : \A s :
                 /\ b # 0 /\ b = rx[q].through
                 /\ p = rx[q].from /\ s = rx[q].todo
                 => Upto(q, p, b, s)'
  <1>1. ASSUME NEW q \in Peers, NEW p \in Peers, NEW b \in Nat, b = cursors[q][p]
        PROVE  Upto(q, p, b, {})'
    <2>1. Upto(q, p, b, {})
      BY <1>1 DEF CoverInv
    <2> QED BY <2>1, UptoStep
  <1>2. ASSUME NEW m \in net, m.type = "pull"
        PROVE  Upto(m.from, m.to, m.cursor, {})'
    BY <1>2, UptoStep, MessageFields DEF CoverInv
  <1>3. ASSUME NEW m \in net, m.type = "delta"
        PROVE  Upto(m.to, m.from, m.through, m.frames)'
    BY <1>3, UptoStep, MessageFields DEF CoverInv
  <1>4. ASSUME NEW q \in Peers, NEW p \in Peers, NEW b \in Nat, NEW s,
               b # 0, b = rx[q].through, p = rx[q].from, s = rx[q].todo
        PROVE  Upto(q, p, b, s)'
    <2>1. Upto(q, p, b, s)
      BY <1>4 DEF CoverInv
    <2> QED BY <2>1, UptoStep
  <1> QED BY <1>1, <1>2, <1>3, <1>4

LEMMA CoverInit == Init => CoverInv
  BY DEF Init, CoverInv, Upto, NoBatch

LEMMA CoverStep ==
    TypeOK /\ ClockInv /\ RequestInv /\ CoverInv /\ [Next]_vars => CoverInv'
  <1> SUFFICES ASSUME TypeOK, ClockInv, RequestInv, CoverInv, [Next]_vars
               PROVE  CoverInv'
    OBVIOUS
  <1>0. TypeOK' /\ ClockInv' /\ RequestInv'
    BY TypeStep, ClockStep, RequestStep
  <1> DEFINE Cursors == \A q, p \in Peers : Upto(q, p, cursors[q][p], {})
             Pulls   == \A m \in net : m.type = "pull" => Upto(m.from, m.to, m.cursor, {})
             Deltas  == \A m \in net : m.type = "delta" =>
                           Upto(m.to, m.from, m.through, m.frames)
             Batches == \A q \in Peers : rx[q].through # 0 =>
                           Upto(q, rx[q].from, rx[q].through, rx[q].todo)
  <1>A. ASSUME cursors' = cursors PROVE Cursors'
    <2>1. \A q, p \in Peers : cursors[q][p] \in Nat
      BY DEF TypeOK
    <2> QED BY <1>A, <2>1, CoverKeep DEF Upto
  <1>B. ASSUME net' \subseteq net PROVE Pulls' /\ Deltas'
    BY <1>B, CoverKeep DEF Upto
  <1>C. ASSUME NEW r \in Peers, rx'[r] = rx[r], rx'[r].through # 0
        PROVE  Upto(r, rx[r].from, rx[r].through, rx[r].todo)'
    <2>1. /\ rx[r].from \in Peers /\ rx[r].through \in Nat /\ rx[r].through # 0
      BY <1>C, BatchFields DEF RequestInv
    <2> QED BY <1>C, <2>1, CoverKeep DEF Upto
  <1>D. ASSUME rx' = rx PROVE Batches'
    BY <1>C, <1>D
  <1> HIDE DEF Cursors, Pulls, Deltas, Batches
  <1>E. Cursors' /\ Pulls' /\ Deltas' /\ Batches' => CoverInv'
    BY DEF Cursors, Pulls, Deltas, Batches, CoverInv
  <1>1. ASSUME NEW p \in Peers, NEW k \in Keys, NEW st \in {"live", "dead"},
               Mutate(p, k, st)
        PROVE  CoverInv'
    BY <1>1, <1>A, <1>B, <1>D, <1>E DEF Mutate
  <1>2. ASSUME NEW p \in Peers, Fold(p) PROVE CoverInv'
    BY <1>2, <1>A, <1>B, <1>D, <1>E DEF Fold
  <1>3. ASSUME NEW q \in Peers, NEW p \in Peers, RequestPull(q, p) \/ RetryPull(q, p)
        PROVE  CoverInv'
    <2>1. UNCHANGED << cursors, rx >>
      BY <1>3 DEF RequestPull, RetryPull
    <2>2. PICK n \in Nonces : net' = net \cup {PullOf(q, p, n, cursors[q][p])}
      <3>1. CASE RequestPull(q, p)
        BY <3>1 DEF RequestPull
      <3>2. CASE RetryPull(q, p)
        <4>1. /\ pending[q][p] \in Outstanding /\ pending[q][p] # NoPull
              /\ pending[q][p].cursor = cursors[q][p]
          BY <3>2 DEF RetryPull, TypeOK, RequestInv
        <4>2. pending[q][p].nonce \in Nonces
          BY <4>1 DEF Outstanding
        <4> QED BY <3>2, <4>1, <4>2 DEF RetryPull
      <3> QED BY <1>3, <3>1, <3>2
    <2>3. cursors[q][p] \in Nat
      BY DEF TypeOK
    <2>4. PICK b \in Nat : b = cursors[q][p]
      BY <2>3
    <2>5. Upto(q, p, b, {})'
      BY <2>4, CoverKeep
    <2>6. PICK m : m = PullOf(q, p, n, b)
      OBVIOUS
    <2>7. /\ m.type = "pull" /\ m.from = q /\ m.to = p /\ m.cursor = b
          /\ net' = net \cup {m}
      BY <2>2, <2>4, <2>6 DEF PullOf
    <2>8. Pulls'
      BY <2>5, <2>7, CoverKeep DEF Pulls
    <2>9. Deltas'
      BY <2>7, CoverKeep DEF Deltas
    <2> QED BY <1>A, <1>D, <1>E, <2>1, <2>8, <2>9
  <1>4. ASSUME NEW m \in net, AnswerPull(m) PROVE CoverInv'
    <2> PICK f \in Since(m.to, m.cursor) :
             Take(m, {[type |-> "delta", from |-> m.to, to |-> m.from,
                       cursor |-> m.cursor, nonce |-> m.nonce,
                       frames |-> Through(m.to, m.cursor, f.seq),
                       through |-> f.seq]})
      BY <1>4 DEF AnswerPull
    <2>1. UNCHANGED << node, frames, frontier, cursors, rx >> /\ m.type = "pull"
      BY <1>4 DEF AnswerPull, graph
    <2>2. PICK d : d = [type |-> "delta", from |-> m.to, to |-> m.from,
                        cursor |-> m.cursor, nonce |-> m.nonce,
                        frames |-> Through(m.to, m.cursor, f.seq),
                        through |-> f.seq]
      OBVIOUS
    <2>3. /\ net' \subseteq net \cup {d} /\ d.type = "delta"
          /\ d.from = m.to /\ d.to = m.from /\ d.through = f.seq
          /\ d.frames = Through(m.to, m.cursor, f.seq)
      BY <2>2, TakeNet
    <2>4. /\ m.to \in Peers /\ m.from \in Peers /\ m.cursor \in Nat
          /\ f \in frames[m.to] /\ f.seq \in Nat /\ f.seq <= frontier[m.to]
      BY MessageFields, AnswerAfterCursor DEF ClockInv
    <2>5. ASSUME NEW h \in frames[m.to], h.seq <= f.seq
          PROVE  Has(m.from, h) \/ \E g \in d.frames : Gives(g, h)
      <3>1. h \in Frame /\ h.seq \in Nat
        BY <2>4 DEF TypeOK, Frame
      <3>2. CASE h.seq <= m.cursor
        BY <2>1, <3>2 DEF CoverInv, Upto
      <3>3. CASE h.seq > m.cursor
        BY <2>3, <2>5, <3>1, <3>3, GivesItself DEF Through, Since
      <3> QED BY <2>4, <3>1, <3>2, <3>3
    <2>6. Upto(m.from, m.to, f.seq, d.frames)
      BY <2>4, <2>5 DEF Upto
    <2>7. Upto(d.to, d.from, d.through, d.frames)'
      BY <2>3, <2>4, <2>6, UptoStep
    <2>8. Pulls'
      BY <2>3, CoverKeep DEF Pulls
    <2>9. Deltas'
      BY <2>3, <2>7, CoverKeep DEF Deltas
    <2> QED BY <1>A, <1>D, <1>E, <2>1, <2>8, <2>9
  <1>5. ASSUME NEW m \in net, RefusePull(m) PROVE CoverInv'
    BY <1>5, <1>A, <1>B, <1>D, <1>E, TakeNet DEF RefusePull
  <1>6. ASSUME NEW m \in net, ReceiveDelta(m) PROVE CoverInv'
    <2>1. net' \subseteq net /\ cursors' = cursors /\ m.type = "delta"
      BY <1>6, TakeNet DEF ReceiveDelta
    <2>2. m.to \in Peers
      BY MessageFields
    <2>3. /\ rx'[m.to].from = m.from /\ rx'[m.to].todo = m.frames
          /\ rx'[m.to].through = IF Verified(m) THEN m.through ELSE 0
          /\ \A q \in Peers : q # m.to => rx'[q] = rx[q]
      BY <1>6, <2>2 DEF ReceiveDelta, TypeOK
    <2>4. Upto(m.to, m.from, m.through, m.frames)'
      BY <2>1, CoverKeep
    <2>5. rx'[m.to].through # 0 =>
             Upto(m.to, rx[m.to].from, rx[m.to].through, rx[m.to].todo)'
      BY <2>3, <2>4 DEF Upto
    <2>6. Batches'
      BY <1>C, <2>3, <2>5 DEF Batches
    <2> QED BY <1>A, <1>B, <1>E, <2>1, <2>6
  <1>7. ASSUME NEW q \in Peers, NEW f \in rx[q].todo, Drop(q, f), Has(q, f)',
               UNCHANGED << cursors, net >>
        PROVE  CoverInv'
    <2>1. /\ rx'[q].from = rx[q].from /\ rx'[q].through = rx[q].through
          /\ rx'[q].todo = rx[q].todo \ {f}
          /\ \A r \in Peers : r # q => rx'[r] = rx[r]
      BY <1>7 DEF Drop, TypeOK, Batch
    <2>2. ASSUME rx[q].through # 0
          PROVE  Upto(q, rx[q].from, rx[q].through, rx[q].todo)'
      <3>1. rx[q].from \in Peers /\ rx[q].through \in Nat /\ rx[q].todo \subseteq Frame
        BY <2>2, BatchFields DEF RequestInv
      <3>2. PICK p \in Peers : p = rx[q].from
        BY <3>1
      <3>3. PICK b \in Nat : b = rx[q].through
        BY <3>1
      <3>4. PICK s : s = rx[q].todo
        OBVIOUS
      <3>5. Upto(q, p, b, s)'
        BY <2>2, <3>2, <3>3, <3>4, CoverKeep
      <3>6. ASSUME NEW h \in frames'[p], h.seq <= b
            PROVE  Has(q, h)' \/ \E g \in rx'[q].todo : Gives(g, h)
        <4>1. Has(q, h)' \/ \E g \in s : Gives(g, h)
          BY <3>5, <3>6 DEF Upto, Gives
        <4>2. h \in Frame
          BY <1>0 DEF TypeOK
        <4>3. Gives(f, h) => Has(q, h)'
          BY <1>0, <1>7, <3>1, <4>2, GivesHas
        <4> QED BY <2>1, <3>4, <4>1, <4>3
      <3>7. b <= frontier'[p]
        BY <3>5 DEF Upto
      <3> QED BY <2>1, <3>2, <3>3, <3>6, <3>7 DEF Upto, Gives
    <2>3. Batches'
      BY <1>C, <2>1, <2>2 DEF Batches
    <2> QED BY <1>7, <1>A, <1>B, <1>E, <2>3
  <1>8. ASSUME NEW q \in Peers, NEW f \in rx[q].todo, ReconcileSkip(q, f)
        PROVE  CoverInv'
    <2>1. f.clock \in Clock /\ f.key \in Keys
      BY BatchFields DEF Frame
    <2>2. node[q][f.key].clock \in Clock
      BY <2>1 DEF TypeOK, Cell
    <2>3. ~Before(node'[q][f.key].clock, f.clock)
      BY <1>8, <2>1, <2>2, BeforeOrder DEF ReconcileSkip, Loses, graph
    <2>4. Has(q, f)'
      BY <1>8, <2>3 DEF Has, ReconcileSkip
    <2> QED BY <1>7, <1>8, <2>4 DEF ReconcileSkip
  <1>9. ASSUME NEW q \in Peers, NEW f \in rx[q].todo, ReconcileApply(q, f)
        PROVE  CoverInv'
    <2>1. f.clock \in Clock /\ f.key \in Keys
      BY BatchFields DEF Frame
    <2>2. node'[q][f.key].clock = f.clock
      BY <1>9, <2>1 DEF ReconcileApply, Put, TypeOK
    <2>3. Has(q, f)'
      BY <1>9, <2>1, <2>2, BeforeOrder DEF Has, ReconcileApply
    <2> QED BY <1>7, <1>9, <2>3 DEF ReconcileApply
  <1>10. ASSUME NEW q \in Peers, NEW f \in rx[q].todo, ReconcileTransaction(q, f)
         PROVE  CoverInv'
    <2>1. \E g \in frames'[q] : g.clock = f.clock
      <3>1. PICK g : g = [seq |-> frontier[q] + 1, key |-> f.key, st |-> f.st,
                          clock |-> f.clock, exp |-> f.exp]
        OBVIOUS
      <3>2. g \in frames'[q]
        BY <1>10, <3>1 DEF ReconcileTransaction, Put, TypeOK
      <3>3. g.clock = f.clock
        BY <3>1
      <3> QED BY <3>2, <3>3
    <2>2. Has(q, f)'
      BY <1>10, <2>1 DEF Has, Applied, ReconcileTransaction
    <2> QED BY <1>7, <1>10, <2>2 DEF ReconcileTransaction
  <1>11. ASSUME NEW q \in Peers, NEW f \in rx[q].todo, ReconcileConflict(q, f)
         PROVE  CoverInv'
    <2>1. /\ rx'[q].through = 0 /\ \A r \in Peers : r # q => rx'[r] = rx[r]
          /\ UNCHANGED << cursors, net >>
      BY <1>11 DEF ReconcileConflict, NoBatch, TypeOK
    <2>2. Batches'
      BY <1>C, <2>1 DEF Batches
    <2> QED BY <1>A, <1>B, <1>E, <2>1, <2>2
  <1>12. ASSUME NEW q \in Peers, ReconcileDone(q) PROVE CoverInv'
    <2>1. /\ rx'[q].through = 0 /\ \A r \in Peers : r # q => rx'[r] = rx[r]
          /\ net' = net
      BY <1>12 DEF ReconcileDone, NoBatch, TypeOK
    <2>2. Batches'
      BY <1>C, <2>1 DEF Batches
    <2>3. CASE cursors' = cursors
      BY <1>A, <1>B, <1>E, <2>1, <2>2, <2>3
    <2>4. CASE cursors' # cursors
      <3>1. /\ rx[q].through # 0 /\ rx[q].todo = {}
            /\ cursors' = [cursors EXCEPT ![q][rx[q].from] = rx[q].through]
        BY <1>12, <2>4 DEF ReconcileDone
      <3>2. rx[q].from \in Peers /\ rx[q].through \in Nat
        BY <3>1, BatchFields DEF RequestInv
      <3>3. PICK p \in Peers : p = rx[q].from
        BY <3>2
      <3>4. PICK b \in Nat : b = rx[q].through
        BY <3>2
      <3>5. Upto(q, p, b, {})'
        BY <3>1, <3>3, <3>4, CoverKeep
      <3>6. /\ cursors'[q][p] = b
            /\ \A i, j \in Peers : i # q \/ j # p => cursors'[i][j] = cursors[i][j]
        BY <3>1, <3>3, <3>4 DEF TypeOK
      <3>7. ASSUME NEW i \in Peers, NEW j \in Peers
            PROVE  Upto(i, j, cursors[i][j], {})'
        <4>1. CASE i = q /\ j = p
          BY <3>5, <3>6, <4>1 DEF Upto
        <4>2. CASE i # q \/ j # p
          <5>1. PICK c \in Nat : c = cursors[i][j]
            BY DEF TypeOK
          <5>2. Upto(i, j, c, {})'
            BY <5>1, CoverKeep
          <5> QED BY <3>6, <4>2, <5>1, <5>2 DEF Upto
        <4> QED BY <4>1, <4>2
      <3>8. Cursors'
        BY <3>7 DEF Cursors
      <3> QED BY <1>B, <1>E, <2>1, <2>2, <3>8
    <2> QED BY <2>3, <2>4
  <1>13. ASSUME NEW m \in net, Lose(m) PROVE CoverInv'
    BY <1>13, <1>A, <1>B, <1>D, <1>E DEF Lose
  <1>14. ASSUME NEW q \in Peers, Restart(q) \/ \E p \in Peers : PeerExpires(q, p)
         PROVE  CoverInv'
    <2>1. /\ net' = net
          /\ \A r \in Peers : rx'[r].through # 0 => rx'[r] = rx[r]
          /\ \A i, j \in Peers : cursors'[i][j] \in {0, cursors[i][j]}
      <3>1. CASE Restart(q)
        BY <3>1 DEF Restart, NoBatch, TypeOK
      <3>2. ASSUME NEW p \in Peers, PeerExpires(q, p)
            PROVE  /\ net' = net /\ rx' = rx
                   /\ \A i, j \in Peers : cursors'[i][j] \in {0, cursors[i][j]}
        BY <3>2 DEF PeerExpires, TypeOK
      <3> QED BY <1>14, <3>1, <3>2
    <2>2. Batches'
      BY <1>C, <2>1 DEF Batches
    <2>3. ASSUME NEW i \in Peers, NEW j \in Peers
          PROVE  Upto(i, j, cursors[i][j], {})'
      <3>1. CASE cursors'[i][j] = 0
        <4>1. \A f \in frames'[j] : 1 <= f.seq /\ f.seq \in Nat
          BY <1>0 DEF ClockInv, TypeOK, Frame
        <4>2. 0 <= frontier'[j]
          BY <1>0 DEF TypeOK
        <4> QED BY <3>1, <4>1, <4>2 DEF Upto
      <3>2. CASE cursors'[i][j] = cursors[i][j]
        <4>1. PICK c \in Nat : c = cursors[i][j]
          BY DEF TypeOK
        <4>2. Upto(i, j, c, {})'
          BY <4>1, CoverKeep
        <4> QED BY <3>2, <4>1, <4>2 DEF Upto
      <3> QED BY <2>1, <3>1, <3>2
    <2>4. Cursors'
      BY <2>3 DEF Cursors
    <2> QED BY <1>B, <1>E, <2>1, <2>2, <2>4
  <1>15. ASSUME NEW q \in Peers, NEW p \in Peers, PendingExpires(q, p)
         PROVE  CoverInv'
    BY <1>15, <1>A, <1>B, <1>D, <1>E DEF PendingExpires
  <1>16. CASE UNCHANGED vars
    BY <1>16, <1>A, <1>B, <1>D, <1>E DEF vars
  <1> QED
    BY <1>1, <1>2, <1>3, <1>4, <1>5, <1>6, <1>8, <1>9, <1>10, <1>11, <1>12,
       <1>13, <1>14, <1>15, <1>16
    DEF Next, Local, AddNode, RetractNode, Pull, Answer, Receive, Reconcile, Fault

\* In either schema a cursor never passes an event that its replica lacks,
\* whatever is lost, duplicated or reordered, and wherever a batch fails.
THEOREM CursorsCover == Spec => []CursorCovers
  <1>1. TypeOK /\ CoverInv => CursorCovers
    <2> SUFFICES ASSUME TypeOK, CoverInv, NEW q \in Peers, NEW p \in Peers,
                        NEW f \in frames[p], f.seq <= cursors[q][p]
                 PROVE  IF Schema = 6 THEN f.clock \in Applied(q)
                        ELSE ~Before(node[q][f.key].clock, f.clock)
      BY DEF CursorCovers
    <2>1. Has(q, f)
      BY DEF CoverInv, Upto
    <2> QED BY <2>1 DEF Has
  <1> QED
    BY <1>1, TypeInit, TypeStep, ClockInit, ClockStep, RequestInit, RequestStep,
       CoverInit, CoverStep, PTL
    DEF Spec

============================================================================
