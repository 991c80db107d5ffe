--------------------------- MODULE ServingProofs ---------------------------
(***************************************************************************)
(* Proofs about Serving, for every set of nodes, every queue capacity,     *)
(* retention and bound: types (TypeOK), the points of the index are rows   *)
(* of the arena (IndexAgrees), a flush leaves a complete index             *)
(* (FlushedIsComplete), index_lag is honest (LagIsHonest), a lease that    *)
(* died stays dead (LeaseStaysDead), and reads under a valid lease repeat  *)
(* (LeaseIsRepeatable).                                                    *)
(*                                                                         *)
(* FlowInv says what each step of a call may assume of the queue, above    *)
(* all that a flush was answered only when nothing is left to insert.      *)
(* PointInv says that the index and the insertions still to come are       *)
(* together the rows, LagInv that index_pending is the number of those     *)
(* insertions.  LeaseInv says that a lease is never ahead of what it is    *)
(* compared with, and PublishedInv that nothing has changed while a        *)
(* published generation is still the frontier.                             *)
(***************************************************************************)
EXTENDS Serving, TLAPS, FiniteSetTheorems

----------------------------------------------------------------------------
(* The arena.                                                              *)

\* The rows of a collection: finitely many, each with an arena id of its own that
\* is not above their number.
ArenaOK(rs) ==
    /\ rs \subseteq Row
    /\ IsFiniteSet(rs)
    /\ \A r, s \in rs : r.id = s.id => r = s
    /\ \A r \in rs : r.id <= Cardinality(rs)

\* Stamping a row changes no other field.
LEMMA StampRow ==
    ASSUME NEW r \in Row, NEW q \in Seqs
    PROVE  LET s == [r EXCEPT !.retired = q]
           IN  /\ s \in Row /\ s.id = r.id /\ s.node = r.node
               /\ s.created = r.created /\ s.center = r.center /\ s.retired = q
BY DEF Row

\* Rows that are mapped one to one stay as many, with different ids.
LEMMA Relabelled ==
    ASSUME NEW S, IsFiniteSet(S), NEW T, NEW f \in [S -> T],
           \A t \in T : \E x \in S : t = f[x],
           \A x, y \in S : f[x].id = f[y].id => x = y
    PROVE  /\ IsFiniteSet(T)
           /\ Cardinality(T) = Cardinality(S)
           /\ \A r, s \in T : r.id = s.id => r = s
<1>1. f \in Bijection(S, T)
  <2>1. \A x, y \in S : f[x] = f[y] => x = y
    OBVIOUS
  <2>2. f \in Injection(S, T)
    BY <2>1 DEF Injection, IsInjective
  <2>3. f \in Surjection(S, T)
    BY DEF Surjection
  <2> QED
    BY <2>2, <2>3 DEF Bijection
<1>2. ExistsBijection(S, T)
  BY <1>1 DEF ExistsBijection
<1> QED
  BY <1>2, FS_Bijection

\* Stamping rows keeps the arena in order and its points as they are.
LEMMA StampedArena ==
    ASSUME ArenaOK(rows), NEW n, NEW q \in Seqs
    PROVE  /\ ArenaOK(Stamped(n, q))
           /\ PointsOf(Stamped(n, q)) = PointsOf(rows)
           /\ \A s \in Stamped(n, q) : \E r \in rows : s.center = r.center
           /\ Cardinality(Stamped(n, q)) = Cardinality(rows)
<1> DEFINE st(r) == IF r.node = n /\ r.retired = 0 THEN [r EXCEPT !.retired = q]
                    ELSE r
           T == Stamped(n, q)
           f == [r \in rows |-> st(r)]
<1>1. \A r \in rows : /\ st(r) \in Row /\ st(r).id = r.id /\ st(r).node = r.node
                      /\ st(r).created = r.created /\ st(r).center = r.center
  BY StampRow DEF ArenaOK
<1>2. T = {st(r) : r \in rows}
  BY DEF Stamped
<1> HIDE DEF st, T
<1>3. f \in [rows -> T] /\ \A t \in T : \E x \in rows : t = f[x]
  BY <1>2
<1>4. \A x, y \in rows : f[x].id = f[y].id => x = y
  BY <1>1 DEF ArenaOK
<1>5. /\ IsFiniteSet(T) /\ Cardinality(T) = Cardinality(rows)
      /\ \A r, s \in T : r.id = s.id => r = s
  <2> HIDE DEF f
  <2> QED BY <1>3, <1>4, Relabelled DEF ArenaOK
<1>6. ArenaOK(T)
  <2>1. T \subseteq Row
    BY <1>1, <1>2
  <2>2. \A s \in T : s.id <= Cardinality(T)
    BY <1>1, <1>2, <1>5 DEF ArenaOK
  <2> QED
    BY <2>1, <2>2, <1>5 DEF ArenaOK
<1>7. PointsOf(T) = PointsOf(rows)
  BY <1>1, <1>2 DEF PointsOf
<1>8. \A s \in T : \E r \in rows : s.center = r.center
  BY <1>1, <1>2
<1> QED
  BY <1>5, <1>6, <1>7, <1>8 DEF T

\* The place of a row among the rows rs.
Place(rs, r) == Cardinality({q \in rs : q.id <= r.id})

\* Places are the numbers from one, each taken by one row.
LEMMA Places ==
    ASSUME NEW rs \in SUBSET Row, IsFiniteSet(rs),
           \A r, s \in rs : r.id = s.id => r = s
    PROVE  /\ \A r \in rs : Place(rs, r) \in Nat \ {0} /\ Place(rs, r) <= Cardinality(rs)
           /\ \A r, s \in rs : Place(rs, r) = Place(rs, s) => r = s
<1> DEFINE upto(r) == {q \in rs : q.id <= r.id}
<1>1. \A r \in rs : /\ IsFiniteSet(upto(r)) /\ Cardinality(upto(r)) <= Cardinality(rs)
                    /\ Cardinality(upto(r)) \in Nat
  BY FS_Subset, FS_CardinalityType
<1>2. \A r \in rs : r \in upto(r)
  BY DEF Row
<1>3. \A r \in rs : Cardinality(upto(r)) # 0
  BY <1>1, <1>2, FS_EmptySet
<1>4. ASSUME NEW r \in rs, NEW s \in rs, r.id < s.id
      PROVE  Cardinality(upto(r)) # Cardinality(upto(s))
  <2>1. upto(r) \subseteq upto(s) /\ s \notin upto(r)
    BY <1>4 DEF Row
  <2> QED
    BY <2>1, <1>1, <1>2, FS_Subset
<1>5. ASSUME NEW r \in rs, NEW s \in rs, r # s
      PROVE  r.id < s.id \/ s.id < r.id
  BY <1>5 DEF Row
<1> QED
  BY <1>1, <1>3, <1>4, <1>5 DEF Place

\* Renumbering gives an arena in order again, with one center, and changes nothing
\* else in a row.
LEMMA RenumberedArena ==
    ASSUME NEW rs, rs \subseteq rows, ArenaOK(rows), NEW c \in 0 .. MaxAdmin
    PROVE  /\ ArenaOK(Renumbered(rs, c))
           /\ \A s \in Renumbered(rs, c) :
                 /\ s.center = c
                 /\ \E r \in rs : /\ s.node = r.node /\ s.created = r.created
                                  /\ s.retired = r.retired
           /\ \A r \in rs : \E s \in Renumbered(rs, c) :
                 s.node = r.node /\ s.created = r.created /\ s.retired = r.retired
<1> DEFINE mv(r) == [r EXCEPT !.id = Cardinality({q \in rs : q.id <= r.id}),
                              !.center = c]
           T == Renumbered(rs, c)
           f == [r \in rs |-> mv(r)]
<1>1. rs \in SUBSET Row /\ IsFiniteSet(rs) /\ \A r, s \in rs : r.id = s.id => r = s
  BY FS_Subset DEF ArenaOK
<1>2. /\ \A r \in rs : Place(rs, r) \in Nat \ {0} /\ Place(rs, r) <= Cardinality(rs)
      /\ \A r, s \in rs : Place(rs, r) = Place(rs, s) => r = s
  BY <1>1, Places
<1>3. \A r \in rs : mv(r) = [r EXCEPT !.id = Place(rs, r), !.center = c]
  BY DEF Place
<1>4. T = {mv(r) : r \in rs}
  BY DEF Renumbered
<1> HIDE DEF mv, T
<1>5. \A r \in rs : /\ mv(r) \in Row /\ mv(r).id = Place(rs, r)
                    /\ mv(r).node = r.node /\ mv(r).created = r.created
                    /\ mv(r).center = c /\ mv(r).retired = r.retired
  <2> TAKE r \in rs
  <2>1. r \in Row /\ Place(rs, r) \in Nat \ {0}
    BY <1>1, <1>2
  <2>2. mv(r) = [r EXCEPT !.id = Place(rs, r), !.center = c]
    BY <1>3
  <2> HIDE DEF f
  <2> QED
    BY <2>1, <2>2 DEF Row
<1>6. f \in [rs -> T] /\ \A t \in T : \E x \in rs : t = f[x]
  BY <1>4
<1>7. \A x, y \in rs : f[x].id = f[y].id => x = y
  BY <1>2, <1>5
<1>8. /\ IsFiniteSet(T) /\ Cardinality(T) = Cardinality(rs)
      /\ \A r, s \in T : r.id = s.id => r = s
  <2> HIDE DEF f
  <2> QED BY <1>1, <1>6, <1>7, Relabelled
<1>9. ArenaOK(T)
  <2>1. T \subseteq Row
    BY <1>4, <1>5
  <2>2. \A s \in T : s.id <= Cardinality(T)
    BY <1>2, <1>4, <1>5, <1>8
  <2> QED
    BY <2>1, <2>2, <1>8 DEF ArenaOK
<1> QED
  BY <1>4, <1>5, <1>9 DEF T

----------------------------------------------------------------------------
(* The calls, the queue and the flush.                                     *)

Goals == {"compact", "rebuild", "query", "coverage", "publish", "pin"}

\* The types the proofs need.
ShapeInv ==
    /\ ArenaOK(rows)
    /\ center \in 0 .. MaxAdmin /\ \A r \in rows : r.center = center
    /\ seq \in Seqs
    /\ todo \subseteq Nodes
    /\ staged \subseteq Item
    /\ queue \in Seq(Job)
    /\ \A i \in DOMAIN queue : queue[i].kind = "flush" => queue[i].items = {}
    /\ job \in [at : {"recv", "insert", "count"}, items : SUBSET Item,
                center : 0 .. MaxAdmin]

\* What a call may assume at each of its steps: a call that publishes found room
\* for its frame, a poisoned handle has no call but the coverage report, rows are
\* staged by one call at a time.
PhaseInv ==
    /\ op \in Goals \cup {"idle", "stage", "send", "flush", "wait", "recover"}
    /\ op \in {"flush", "wait"} => goal \in Goals
    /\ op \in {"flush", "wait"} /\ goal \in {"publish", "pin"} => seq < MaxSeq
    /\ op \in {"publish", "pin"} => seq < MaxSeq
    /\ poisoned => \/ op \in {"idle", "recover", "coverage"}
                   \/ op \in {"flush", "wait"} /\ goal = "coverage"
    /\ op \notin {"stage", "send"} => staged = {}
    /\ ~poisoned /\ op \notin {"stage", "recover"} => todo = {}

\* No insertion is queued or in the thread's hands.
Drained == job = NoJob /\ \A i \in DOMAIN queue : queue[i].kind = "flush"

\* The thread answers a call's flush when everything queued before it is done,
\* and nothing is queued behind it until the call goes on.
DrainInv ==
    /\ op \in Goals \cup {"recover"} => Drained
    /\ op = "wait" /\ "call" \in acked =>
          Drained /\ \A i \in DOMAIN queue : queue[i].by # "call"
    /\ op = "wait" => \A i, j \in DOMAIN queue : queue[i].by = "call" /\ i < j =>
          queue[j].kind = "flush" /\ queue[j].by # "call"
    /\ op # "wait" => /\ "call" \notin acked
                      /\ \A i \in DOMAIN queue : queue[i].by # "call"

FlowInv == ShapeInv /\ PhaseInv /\ DrainInv

\* A job at the end of the queue.
LEMMA QueueAppend ==
    ASSUME NEW s \in Seq(Job), NEW e \in Job
    PROVE  /\ Append(s, e) \in Seq(Job)
           /\ \A i \in DOMAIN Append(s, e) :
                 \/ i \in DOMAIN s /\ Append(s, e)[i] = s[i]
                 \/ i \notin DOMAIN s /\ Append(s, e)[i] = e
           /\ \A i \in DOMAIN s : i \in DOMAIN Append(s, e) /\ Append(s, e)[i] = s[i]
           /\ \E i \in DOMAIN Append(s, e) : Append(s, e)[i] = e
           /\ \A i \in DOMAIN Append(s, e), j \in DOMAIN s :
                 i \notin DOMAIN s => j < i
<1>1. /\ Append(s, e) \in Seq(Job) /\ Len(Append(s, e)) = Len(s) + 1
      /\ DOMAIN Append(s, e) = 1 .. Len(s) + 1 /\ DOMAIN s = 1 .. Len(s)
      /\ Len(s) \in Nat
      /\ \A i \in 1 .. Len(s) : Append(s, e)[i] = s[i]
      /\ Append(s, e)[Len(s) + 1] = e
  OBVIOUS
<1> QED
  BY <1>1

\* The job at its head is taken.
LEMMA QueueTail ==
    ASSUME NEW s \in Seq(Job), s # << >>
    PROVE  /\ Tail(s) \in Seq(Job)
           /\ 1 \in DOMAIN s /\ Head(s) = s[1] /\ Head(s) \in Job
           /\ \A i \in DOMAIN Tail(s) : i + 1 \in DOMAIN s /\ Tail(s)[i] = s[i + 1]
           /\ \A i \in DOMAIN s : \/ i = 1
                                  \/ i - 1 \in DOMAIN Tail(s) /\ Tail(s)[i - 1] = s[i]
           /\ DOMAIN s \subseteq Nat \ {0} /\ DOMAIN Tail(s) \subseteq Nat \ {0}
<1>1. /\ Tail(s) \in Seq(Job) /\ Len(s) \in Nat \ {0}
      /\ DOMAIN s = 1 .. Len(s) /\ DOMAIN Tail(s) = 1 .. Len(s) - 1
      /\ \A i \in 1 .. Len(s) - 1 : Tail(s)[i] = s[i + 1]
      /\ Head(s) = s[1]
  OBVIOUS
<1> QED
  BY <1>1

\* FlowInv holds when the database is opened for the first time.
LEMMA FlowInvInit ==
    Init => FlowInv
<1> SUFFICES ASSUME Init PROVE FlowInv
  OBVIOUS
<1>1. IsFiniteSet({}) /\ Cardinality({}) = 0
  BY FS_EmptySet
<1>2. ShapeInv
  BY <1>1, ServingAssumption DEF Init, ShapeInv, ArenaOK, Seqs, NoJob, Item
<1> QED
  BY <1>2 DEF Init, FlowInv, PhaseInv, DrainInv, Goals

\* A new row, by a call or by replay.
LEMMA NewRowArena ==
    ASSUME ShapeInv, NEW n \in Nodes,
           rows' = Stamped(n, seq) \cup {NewRow(n)}
    PROVE  /\ ArenaOK(rows)'
           /\ \A r \in rows' : r.center = center
           /\ PointsOf(rows') = PointsOf(rows) \cup PointsOf({NewRow(n)})
           /\ NewRow(n).id \in Nat \ {0}
           /\ Cardinality(rows) \in Nat
           /\ Cardinality(rows') = Cardinality(rows) + 1
<1> DEFINE T == Stamped(n, seq)
           new == NewRow(n)
<1>1. /\ ArenaOK(T) /\ PointsOf(T) = PointsOf(rows)
      /\ \A s \in T : \E r \in rows : s.center = r.center
      /\ Cardinality(T) = Cardinality(rows)
  BY StampedArena DEF ShapeInv
<1> HIDE DEF T
<1>2. Cardinality(rows) \in Nat
  BY FS_CardinalityType DEF ShapeInv, ArenaOK
<1>3. new \in Row /\ new.id = Cardinality(T) + 1 /\ new.center = center
  BY <1>1, <1>2, ServingAssumption DEF NewRow, Row, ShapeInv, Seqs
<1> HIDE DEF new
<1>4. new \notin T
  BY <1>1, <1>2, <1>3 DEF ArenaOK, Row
<1>5. rows' = T \cup {new}
  BY DEF T, new
<1>6. IsFiniteSet(rows') /\ Cardinality(rows') = Cardinality(T) + 1
  BY <1>1, <1>4, <1>5, FS_AddElement DEF ArenaOK
<1>7. \A r \in T : r.id <= Cardinality(T) /\ r.id \in Nat /\ r \in Row
  BY <1>1 DEF ArenaOK, Row
<1>8. \A r, s \in rows' : r.id = s.id => r = s
  BY <1>1, <1>2, <1>3, <1>5, <1>7 DEF ArenaOK
<1>9. \A r \in rows' : r.id <= Cardinality(rows') /\ r \in Row
  BY <1>1, <1>2, <1>3, <1>5, <1>6, <1>7
<1>10. ArenaOK(rows)'
  BY <1>6, <1>8, <1>9 DEF ArenaOK
<1>11. \A r \in rows' : r.center = center
  BY <1>1, <1>3, <1>5 DEF ShapeInv
<1>12. PointsOf(rows') = PointsOf(rows) \cup PointsOf({new})
  BY <1>1, <1>5 DEF PointsOf
<1>13. new.id \in Nat \ {0}
  BY <1>3 DEF Row
<1> QED
  BY <1>1, <1>2, <1>6, <1>10, <1>11, <1>12, <1>13 DEF new

\* What FlowInv is about.
FlowVars == << rows, center, seq, todo, staged, queue, job, op, goal, acked,
               poisoned >>

\* Steps that touch nothing FlowInv is about.
LEMMA FlowInvApart ==
    ASSUME FlowInv, UNCHANGED FlowVars
    PROVE  FlowInv'
BY DEF FlowInv, FlowVars, ShapeInv, PhaseInv, DrainInv, Drained, ArenaOK

\* The steps of writers.
LEMMA FlowInvWrites ==
    ASSUME FlowInv,
           \/ \E S \in SUBSET Nodes \ {{}} : AddVectors(S)
           \/ \E n \in Nodes : Stage(n) \/ RetractNode(n)
           \/ StageFails \/ Count \/ Send \/ ReplaceAccessPolicy
    PROVE  FlowInv'
<1>1. ASSUME NEW S \in SUBSET Nodes, AddVectors(S) PROVE FlowInv'
  <2>1. ShapeInv'
    BY <1>1, ServingAssumption
       DEF AddVectors, FlowInv, ShapeInv, ArenaOK, arena, thread, Seqs
  <2> QED
    BY <1>1, <2>1 DEF AddVectors, Enter, FlowInv, PhaseInv, DrainInv, Drained,
       thread, lessor, Goals
<1>2. ASSUME NEW n \in Nodes, Stage(n) PROVE FlowInv'
  <2>1. /\ ArenaOK(rows)' /\ \A r \in rows' : r.center = center
        /\ NewRow(n).id \in Nat \ {0}
    BY <1>2, NewRowArena DEF Stage, FlowInv
  <2>2. staged' \subseteq Item
    BY <1>2, <2>1 DEF Stage, FlowInv, ShapeInv, Item
  <2>3. ShapeInv'
    BY <1>2, <2>1, <2>2 DEF Stage, FlowInv, ShapeInv, thread, durable
  <2> QED
    BY <1>2, <2>3 DEF Stage, FlowInv, PhaseInv, DrainInv, Drained, thread,
       lessor, durable, Goals
<1>3. ASSUME NEW n \in Nodes, RetractNode(n) PROVE FlowInv'
  <2>1. seq + 1 \in Seqs
    BY <1>3, ServingAssumption DEF RetractNode, FlowInv, ShapeInv, Seqs
  <2>2. /\ ArenaOK(Stamped(n, seq + 1))
        /\ \A s \in Stamped(n, seq + 1) : \E r \in rows : s.center = r.center
    BY <2>1, StampedArena DEF FlowInv, ShapeInv
  <2>3. rows' = Stamped(n, seq + 1)
    BY <1>3 DEF RetractNode
  <2>4. ArenaOK(rows)' /\ \A r \in rows' : r.center = center
    BY <2>2, <2>3 DEF FlowInv, ShapeInv, ArenaOK
  <2>5. ShapeInv'
    BY <1>3, <2>1, <2>4 DEF RetractNode, FlowInv, ShapeInv, thread, call
  <2> QED
    BY <1>3, <2>5 DEF RetractNode, Enter, FlowInv, PhaseInv, DrainInv, Drained,
       thread, lessor, call, Goals
<1>4. CASE StageFails
  <2>1. ShapeInv'
    BY <1>4 DEF StageFails, FlowInv, ShapeInv, ArenaOK, arena, thread, durable
  <2> QED
    BY <1>4, <2>1 DEF StageFails, FlowInv, PhaseInv, DrainInv, Drained, thread,
       durable, Goals
<1>5. CASE Count
  <2>1. ShapeInv'
    BY <1>5 DEF Count, FlowInv, ShapeInv, ArenaOK, arena, durable
  <2> QED
    BY <1>5, <2>1 DEF Count, FlowInv, PhaseInv, DrainInv, Drained, durable,
       lessor, Goals
<1>6. CASE Send
  <2>1. Insert(staged) \in Job /\ Insert(staged).kind = "insert"
        /\ Insert(staged).by = "none"
    BY DEF FlowInv, ShapeInv, Insert, Job
  <2>2. queue' = Append(queue, Insert(staged)) /\ queue \in Seq(Job)
    BY <1>6 DEF Send, FlowInv, ShapeInv
  <2>3. /\ queue' \in Seq(Job)
        /\ \A i \in DOMAIN queue' : \/ i \in DOMAIN queue /\ queue'[i] = queue[i]
                                    \/ queue'[i] = Insert(staged)
    BY <2>1, <2>2, QueueAppend
  <2>4. ShapeInv'
    BY <1>6, <2>1, <2>3 DEF Send, FlowInv, ShapeInv, ArenaOK, arena, durable
  <2>5. DrainInv'
    BY <1>6, <2>1, <2>3 DEF Send, FlowInv, DrainInv, Drained, Goals
  <2> QED
    BY <1>6, <2>4, <2>5 DEF Send, FlowInv, PhaseInv, durable, lessor, Goals
<1>7. CASE ReplaceAccessPolicy
  <2>1. ShapeInv'
    BY <1>7, ServingAssumption
       DEF ReplaceAccessPolicy, FlowInv, ShapeInv, ArenaOK, arena, thread, call, Seqs
  <2> QED
    BY <1>7, <2>1 DEF ReplaceAccessPolicy, Enter, FlowInv, PhaseInv, DrainInv,
       Drained, thread, lessor, call, Goals
<1> QED
  BY <1>1, <1>2, <1>3, <1>4, <1>5, <1>6, <1>7

\* The steps of the index thread.
LEMMA FlowInvIndex ==
    ASSUME FlowInv, IndexThread
    PROVE  FlowInv'
<1> USE DEF FlowInv
<1>1. CASE IndexTake
  <2>1. /\ queue # << >> /\ queue \in Seq(Job) /\ queue' = Tail(queue)
        /\ Head(queue).kind = "insert"
        /\ job' = [at |-> "insert", items |-> Head(queue).items, center |-> center]
    BY <1>1 DEF IndexTake, ShapeInv
  <2>2. /\ Tail(queue) \in Seq(Job)
        /\ 1 \in DOMAIN queue /\ Head(queue) = queue[1] /\ Head(queue) \in Job
        /\ \A i \in DOMAIN Tail(queue) :
              i \in Nat /\ i + 1 \in DOMAIN queue /\ Tail(queue)[i] = queue[i + 1]
    BY <2>1, QueueTail
  <2>3. ShapeInv'
    BY <1>1, <2>1, <2>2 DEF IndexTake, ShapeInv, ArenaOK, arena, durable, call, Job
  <2>4. ~Drained
    BY <2>1, <2>2 DEF Drained
  <2>5. DrainInv'
    BY <1>1, <2>1, <2>2, <2>4 DEF IndexTake, DrainInv, call
  <2> QED
    BY <1>1, <2>3, <2>5 DEF IndexTake, PhaseInv, durable, lessor, call
<1>2. CASE IndexInsert
  <2>1. ShapeInv'
    BY <1>2 DEF IndexInsert, ShapeInv, ArenaOK, arena, durable, call
  <2>2. job # NoJob
    BY <1>2 DEF IndexInsert, NoJob
  <2>3. DrainInv'
    BY <1>2, <2>2 DEF IndexInsert, DrainInv, Drained, call
  <2> QED
    BY <1>2, <2>1, <2>3 DEF IndexInsert, PhaseInv, durable, lessor, call
<1>3. CASE IndexCount
  <2>1. ShapeInv'
    BY <1>3, ServingAssumption DEF IndexCount, ShapeInv, ArenaOK, arena, durable, call,
       NoJob
  <2>2. job # NoJob
    BY <1>3 DEF IndexCount, NoJob
  <2>3. DrainInv'
    BY <1>3, <2>2 DEF IndexCount, DrainInv, Drained, call
  <2> QED
    BY <1>3, <2>1, <2>3 DEF IndexCount, PhaseInv, durable, lessor, call
<1>4. CASE IndexAcknowledge
  <2>1. /\ queue # << >> /\ queue \in Seq(Job) /\ queue' = Tail(queue)
        /\ Head(queue).kind = "flush" /\ job = NoJob /\ UNCHANGED << job, op >>
        /\ acked' = acked \cup {Head(queue).by}
    BY <1>4 DEF IndexAcknowledge, ShapeInv, call
  <2>2. /\ Tail(queue) \in Seq(Job)
        /\ 1 \in DOMAIN queue /\ Head(queue) = queue[1] /\ Head(queue) \in Job
        /\ \A i \in DOMAIN Tail(queue) :
              i \in Nat \ {0} /\ i + 1 \in DOMAIN queue /\ Tail(queue)[i] = queue[i + 1]
    BY <2>1, QueueTail
  <2>3. ShapeInv'
    BY <1>4, <2>1, <2>2 DEF IndexAcknowledge, ShapeInv, ArenaOK, arena, durable, call
  <2>4. Drained => Drained'
    BY <2>1, <2>2 DEF Drained
  <2>5. Head(queue).by = "call" =>
            op = "wait" /\ Drained' /\ \A i \in DOMAIN queue' : queue'[i].by # "call"
    <3> SUFFICES ASSUME Head(queue).by = "call"
                 PROVE  /\ op = "wait" /\ Drained'
                        /\ \A i \in DOMAIN queue' : queue'[i].by # "call"
      OBVIOUS
    <3>1. op = "wait"
      BY <2>2 DEF DrainInv
    <3>2. \A j \in DOMAIN queue : 1 < j =>
              queue[j].kind = "flush" /\ queue[j].by # "call"
      BY <2>2, <3>1 DEF DrainInv
    <3>3. \A i \in DOMAIN queue' :
              queue'[i].kind = "flush" /\ queue'[i].by # "call"
      BY <2>1, <2>2, <3>2
    <3> QED
      BY <2>1, <3>1, <3>3 DEF Drained
  <2>6. DrainInv'
    BY <2>1, <2>2, <2>4, <2>5 DEF DrainInv
  <2> QED
    BY <1>4, <2>3, <2>6 DEF IndexAcknowledge, PhaseInv, durable, lessor, call
<1> QED
  BY <1>1, <1>2, <1>3, <1>4 DEF IndexThread

\* The flushes.
LEMMA FlowInvFlush ==
    ASSUME FlowInv,
           \/ \E g \in Goals : Begin(g) /\ (g \in {"publish", "pin"} => seq < MaxSeq)
           \/ BeginCoverage
           \/ FlushSend \/ FlushReturns \/ OtherFlush \/ OtherReturns
    PROVE  FlowInv'
<1> USE DEF FlowInv
<1>1. ASSUME NEW g \in Goals, Begin(g), g \in {"publish", "pin"} => seq < MaxSeq
      PROVE  FlowInv'
  <2>1. ShapeInv'
    BY <1>1 DEF Begin, ShapeInv, ArenaOK, arena, thread, durable
  <2> QED
    BY <1>1, <2>1 DEF Begin, Enter, PhaseInv, DrainInv, Drained, thread, durable,
       lessor, Goals
<1>2. CASE FlushSend
  <2>1. Flush("call") \in Job /\ Flush("call").kind = "flush"
        /\ Flush("call").items = {}
    BY DEF Flush, Job
  <2>2. queue' = Append(queue, Flush("call")) /\ queue \in Seq(Job)
    BY <1>2 DEF FlushSend, ShapeInv
  <2>3. /\ queue' \in Seq(Job)
        /\ \A i \in DOMAIN queue' :
              \/ i \in DOMAIN queue /\ queue'[i] = queue[i]
              \/ i \notin DOMAIN queue /\ queue'[i] = Flush("call")
        /\ \A i \in DOMAIN queue', j \in DOMAIN queue : i \notin DOMAIN queue => j < i
        /\ \A i \in DOMAIN queue' : i \in Nat
    BY <2>1, <2>2, QueueAppend
  <2>4. ShapeInv'
    BY <1>2, <2>1, <2>3 DEF FlushSend, ShapeInv, ArenaOK, arena, durable
  <2>5. DrainInv'
    <3>1. op = "flush" /\ op' = "wait" /\ acked' = acked
      BY <1>2 DEF FlushSend
    <3>2. ASSUME NEW i \in DOMAIN queue', NEW j \in DOMAIN queue',
                 queue'[i].by = "call", i < j
          PROVE  queue'[j].kind = "flush" /\ queue'[j].by # "call"
      <4>1. i \notin DOMAIN queue
        BY <2>3, <3>1, <3>2 DEF DrainInv
      <4>2. j \notin DOMAIN queue
        BY <2>3, <3>2, <4>1
      <4>3. FALSE
        BY <2>2, <2>3, <4>1, <4>2, <3>2
      <4> QED
        BY <4>3
    <3> QED
      BY <3>1, <3>2 DEF DrainInv, Goals
  <2> QED
    BY <1>2, <2>4, <2>5 DEF FlushSend, PhaseInv, durable, lessor, Goals
<1>3. CASE FlushReturns
  <2>1. ShapeInv'
    BY <1>3 DEF FlushReturns, ShapeInv, ArenaOK, arena, durable
  <2>2. /\ Drained /\ goal \in Goals /\ op' = goal /\ "call" \notin acked'
        /\ UNCHANGED << queue, job >> /\ op = "wait"
    BY <1>3 DEF FlushReturns, DrainInv, PhaseInv
  <2>3. \A i \in DOMAIN queue : queue[i].by # "call"
    BY <1>3 DEF FlushReturns, DrainInv
  <2>4. DrainInv'
    BY <2>2, <2>3 DEF DrainInv, Drained, Goals
  <2> QED
    BY <1>3, <2>1, <2>2, <2>4 DEF FlushReturns, PhaseInv, durable, lessor, Goals
<1>4. CASE OtherFlush
  <2>1. Flush("other") \in Job /\ Flush("other").kind = "flush"
        /\ Flush("other").items = {} /\ Flush("other").by # "call"
    BY DEF Flush, Job
  <2>2. queue' = Append(queue, Flush("other")) /\ queue \in Seq(Job)
    BY <1>4 DEF OtherFlush, ShapeInv
  <2>3. /\ queue' \in Seq(Job)
        /\ \A i \in DOMAIN queue' :
              \/ i \in DOMAIN queue /\ queue'[i] = queue[i]
              \/ queue'[i] = Flush("other")
        /\ \A i \in DOMAIN queue', j \in DOMAIN queue : i \notin DOMAIN queue => j < i
        /\ \A i \in DOMAIN queue' : i \in Nat
    BY <2>1, <2>2, QueueAppend
  <2>4. ShapeInv'
    BY <1>4, <2>1, <2>3 DEF OtherFlush, ShapeInv, ArenaOK, arena, durable, call
  <2>5. UNCHANGED << op, acked, job >>
    BY <1>4 DEF OtherFlush, call
  <2>6. Drained => Drained'
    BY <2>1, <2>3, <2>5 DEF Drained
  <2>7. DrainInv'
    BY <2>1, <2>3, <2>5, <2>6 DEF DrainInv
  <2> QED
    BY <1>4, <2>4, <2>7 DEF OtherFlush, PhaseInv, durable, lessor, call
<1>5. CASE OtherReturns
  <2>1. ShapeInv'
    BY <1>5 DEF OtherReturns, ShapeInv, ArenaOK, arena, durable, call
  <2> QED
    BY <1>5, <2>1 DEF OtherReturns, PhaseInv, DrainInv, Drained, durable, lessor, call
<1>6. CASE BeginCoverage
  <2>1. ShapeInv'
    BY <1>6 DEF BeginCoverage, ShapeInv, ArenaOK, arena, thread, durable
  <2> QED
    BY <1>6, <2>1 DEF BeginCoverage, PhaseInv, DrainInv, Drained, thread, durable,
       lessor, Goals
<1> QED
  BY <1>1, <1>2, <1>3, <1>4, <1>5, <1>6

\* Compaction, rebuild, queries and publications.
LEMMA FlowInvCalls ==
    ASSUME FlowInv, Compact \/ Rebuild \/ Query \/ Publish \/ PublishFails
    PROVE  FlowInv'
<1> USE DEF FlowInv
<1>1. CASE Compact
  <2>1. PICK c \in {center, center + 1} :
            /\ c <= MaxAdmin /\ center' = c
            /\ rows' = Renumbered({r \in rows : Survives(r)}, c)
    BY <1>1 DEF Compact
  <2>2. c \in 0 .. MaxAdmin
    BY <2>1, ServingAssumption DEF ShapeInv
  <2>3. ArenaOK(rows)' /\ \A r \in rows' : r.center = center'
    <3>1. PICK kept : kept \subseteq rows /\ rows' = Renumbered(kept, c)
      BY <2>1
    <3>2. ArenaOK(rows)
      BY DEF ShapeInv
    <3>3. ArenaOK(Renumbered(kept, c)) /\ \A r \in Renumbered(kept, c) : r.center = c
      BY <2>2, <3>1, <3>2, RenumberedArena, Zenon
    <3> QED
      BY <2>1, <3>1, <3>3 DEF ArenaOK
  <2>4. ShapeInv'
    BY <1>1, <2>1, <2>2, <2>3 DEF Compact, ShapeInv, thread, durable
  <2> QED
    BY <1>1, <2>4 DEF Compact, PhaseInv, DrainInv, Drained, thread, durable,
       lessor, Goals
<1>2. CASE Rebuild \/ Query
  <2>1. ShapeInv'
    BY <1>2 DEF Rebuild, Query, Returns, ShapeInv, ArenaOK, arena, thread, durable
  <2> QED
    BY <1>2, <2>1 DEF Rebuild, Query, Returns, PhaseInv, DrainInv, Drained, thread,
       durable, lessor, Goals
<1>3. CASE Publish
  <2>1. ShapeInv'
    BY <1>3, ServingAssumption
       DEF Publish, Returns, PhaseInv, ShapeInv, ArenaOK, arena, thread, Seqs
  <2> QED
    BY <1>3, <2>1 DEF Publish, Returns, PhaseInv, DrainInv, Drained, thread, Goals
<1>4. CASE PublishFails
  <2>1. seq' \in Seqs
    BY <1>4, ServingAssumption DEF PublishFails, PhaseInv, ShapeInv, Seqs
  <2>2. ShapeInv'
    BY <1>4, <2>1 DEF PublishFails, Returns, ShapeInv, ArenaOK, arena, thread
  <2> QED
    BY <1>4, <2>2 DEF PublishFails, Returns, PhaseInv, DrainInv, Drained, thread, Goals
<1> QED
  BY <1>1, <1>2, <1>3, <1>4

\* The end of the process and the next open.
LEMMA FlowInvOpen ==
    ASSUME FlowInv, Crash \/ (\E n \in Nodes : Replay(n)) \/ Opened
    PROVE  FlowInv'
<1> USE DEF FlowInv
<1>1. CASE Crash
  <2>1. queue' = << >> /\ DOMAIN queue' = {} /\ queue' \in Seq(Job)
    BY <1>1 DEF Crash
  <2>2. ShapeInv'
    BY <1>1, <2>1, ServingAssumption
       DEF Crash, ShapeInv, ArenaOK, arena, durable, NoJob
  <2> QED
    BY <1>1, <2>1, <2>2 DEF Crash, PhaseInv, DrainInv, Drained, lessor, durable, Goals
<1>2. ASSUME NEW n \in Nodes, Replay(n) PROVE FlowInv'
  <2>1. ArenaOK(rows)' /\ \A r \in rows' : r.center = center
    BY <1>2, NewRowArena DEF Replay
  <2>2. ShapeInv'
    BY <1>2, <2>1 DEF Replay, ShapeInv, thread, durable
  <2> QED
    BY <1>2, <2>2 DEF Replay, PhaseInv, DrainInv, Drained, thread, durable, lessor,
       Goals
<1>3. CASE Opened
  <2>1. PICK keep \in {rows, {r \in rows : IsCurrent(r)}}, c \in 0 .. center :
            center' = c /\ rows' = Renumbered(keep, c)
    BY <1>3 DEF Opened
  <2>2. c \in 0 .. MaxAdmin /\ keep \subseteq rows
    BY <2>1, ServingAssumption DEF ShapeInv
  <2>3. ArenaOK(rows)' /\ \A r \in rows' : r.center = center'
    <3>1. ArenaOK(rows)
      BY DEF ShapeInv
    <3>2. ArenaOK(Renumbered(keep, c)) /\ \A r \in Renumbered(keep, c) : r.center = c
      BY <2>2, <3>1, RenumberedArena, Zenon
    <3> QED
      BY <2>1, <3>2 DEF ArenaOK
  <2>4. ShapeInv'
    BY <1>3, <2>1, <2>2, <2>3 DEF Opened, ShapeInv, thread, durable
  <2> QED
    BY <1>3, <2>4 DEF Opened, PhaseInv, DrainInv, Drained, thread, durable, Goals
<1> QED
  BY <1>1, <1>2, <1>3

\* Every step keeps FlowInv.
LEMMA FlowInvStep ==
    ASSUME FlowInv, [Next]_vars
    PROVE  FlowInv'
<1>1. CASE \/ UNCHANGED vars \/ PinPublished \/ ArriveCoverage
           \/ \E l \in leases : RevokeLease(l) \/ Expire(l)
  <2>1. UNCHANGED FlowVars
    BY <1>1 DEF vars, PinPublished, ArriveCoverage, RevokeLease, Expire, FlowVars,
       durable, arena,
       thread, call, lessor
  <2> QED
    BY <2>1, FlowInvApart
<1>2. CASE \/ \E S \in SUBSET Nodes \ {{}} : AddVectors(S)
           \/ \E n \in Nodes : Stage(n) \/ RetractNode(n)
           \/ StageFails \/ Count \/ Send \/ ReplaceAccessPolicy
  BY <1>2, FlowInvWrites
<1>3. CASE IndexThread
  BY <1>3, FlowInvIndex
<1>4. CASE \/ \E g \in Goals : Begin(g) /\ (g \in {"publish", "pin"} => seq < MaxSeq)
           \/ BeginCoverage
           \/ FlushSend \/ FlushReturns \/ OtherFlush \/ OtherReturns
  BY <1>4, FlowInvFlush
<1>5. CASE Compact \/ Rebuild \/ Query \/ Publish \/ PublishFails
  BY <1>5, FlowInvCalls
<1>6. CASE Crash \/ (\E n \in Nodes : Replay(n)) \/ Opened
  BY <1>6, FlowInvOpen
<1> QED
  BY <1>1, <1>2, <1>3, <1>4, <1>5, <1>6 DEF Next, Proceed, Goals

----------------------------------------------------------------------------
(* Rows, insertions under way, and the points of the index.                *)

\* The insertion of x is still to come.
InQueue(x) == \E i \in DOMAIN queue : x \in queue[i].items
Waiting(x) == x \in staged \/ InQueue(x) \/ (job.at = "insert" /\ x \in job.items)

\* Outside of a rebuild, the index and the insertions still to come are together
\* the rows of the arena, in the codes of the present center.
PointInv ==
    /\ job.at = "insert" => job.center = center
    /\ op \notin {"rebuild", "recover"} =>
          /\ hnsw \subseteq PointsOf(rows)
          /\ \A x : Waiting(x) => Coded(x, center) \in PointsOf(rows)
          /\ ~poisoned => \A p \in PointsOf(rows) :
                p \in hnsw \/ \E x : Waiting(x) /\ p = Coded(x, center)

\* When the queue is drained and no row is being staged, nothing waits.
LEMMA NothingWaits ==
    ASSUME FlowInv, Drained, op \notin {"stage", "send"}
    PROVE  \A x : ~Waiting(x)
BY DEF FlowInv, ShapeInv, PhaseInv, Drained, Waiting, InQueue, NoJob

\* A step that leaves rows, index, center and the insertions to come as they are.
LEMMA PointInvSame ==
    ASSUME PointInv, UNCHANGED << hnsw, center, job >>,
           PointsOf(rows') = PointsOf(rows),
           \A x : Waiting(x)' <=> Waiting(x),
           op \in {"rebuild", "recover"} => op' \in {"rebuild", "recover"},
           poisoned => poisoned'
    PROVE  PointInv'
BY DEF PointInv

\* PointInv holds for the empty collection.
LEMMA PointInvInit ==
    Init => PointInv
BY DEF Init, PointInv, NoJob, Waiting, InQueue, PointsOf

\* The steps of writers keep PointInv: a row that is staged is an insertion to come.
LEMMA PointInvWrites ==
    ASSUME FlowInv, PointInv,
           \/ \E S \in SUBSET Nodes \ {{}} : AddVectors(S)
           \/ \E n \in Nodes : Stage(n) \/ RetractNode(n)
           \/ StageFails \/ Count \/ Send \/ ReplaceAccessPolicy
    PROVE  PointInv'
<1>1. CASE \/ \E S \in SUBSET Nodes \ {{}} : AddVectors(S)
           \/ Count \/ ReplaceAccessPolicy
  <2>1. /\ UNCHANGED << hnsw, center, job, rows, queue, staged, poisoned >>
        /\ op \notin {"rebuild", "recover"}
    BY <1>1 DEF AddVectors, Count, ReplaceAccessPolicy, Enter, arena, thread, lessor,
       call
  <2>2. \A x : Waiting(x)' <=> Waiting(x)
    BY <2>1 DEF Waiting, InQueue
  <2> QED
    BY <2>1, <2>2, PointInvSame
<1>2. ASSUME NEW n \in Nodes, Stage(n) PROVE PointInv'
  <2> DEFINE x0 == [id |-> NewRow(n).id, node |-> n, created |-> seq]
             p0 == Coded(x0, center)
  <2>1. PointsOf(rows') = PointsOf(rows) \cup PointsOf({NewRow(n)})
    BY <1>2, NewRowArena DEF Stage, FlowInv
  <2>2. PointsOf({NewRow(n)}) = {p0}
    BY DEF PointsOf, NewRow, Coded
  <2>3. /\ UNCHANGED << hnsw, center, job, queue, op, poisoned >>
        /\ staged' = staged \cup {x0} /\ op = "stage"
    BY <1>2 DEF Stage, thread, lessor
  <2> HIDE DEF x0
  <2>4. \A x : Waiting(x)' <=> Waiting(x) \/ x = x0
    BY <2>3 DEF Waiting, InQueue
  <2> HIDE DEF p0
  <2> QED
    BY <2>1, <2>2, <2>3, <2>4 DEF PointInv, p0
<1>3. ASSUME NEW n \in Nodes, RetractNode(n) PROVE PointInv'
  <2>1. seq + 1 \in Seqs
    BY <1>3, ServingAssumption DEF RetractNode, FlowInv, ShapeInv, Seqs
  <2>2. PointsOf(Stamped(n, seq + 1)) = PointsOf(rows)
    BY <2>1, StampedArena DEF FlowInv, ShapeInv
  <2>3. /\ rows' = Stamped(n, seq + 1) /\ op = "idle"
        /\ UNCHANGED << hnsw, center, job, queue, staged, poisoned >>
    BY <1>3 DEF RetractNode, Enter, thread, call, lessor
  <2>4. \A x : Waiting(x)' <=> Waiting(x)
    BY <2>3 DEF Waiting, InQueue
  <2> QED
    BY <2>2, <2>3, <2>4, PointInvSame
<1>4. CASE StageFails
  <2>1. /\ UNCHANGED << rows, hnsw, center, job, queue >> /\ staged' = {}
        /\ op = "stage" /\ poisoned'
    BY <1>4 DEF StageFails, arena, thread
  <2>2. \A x : Waiting(x)' => Waiting(x)
    BY <2>1 DEF Waiting, InQueue
  <2> QED
    BY <2>1, <2>2 DEF PointInv
<1>5. CASE Send
  <2>1. /\ UNCHANGED << rows, hnsw, center, job, poisoned >> /\ staged' = {}
        /\ op = "send" /\ queue' = Append(queue, Insert(staged))
    BY <1>5 DEF Send, arena, lessor
  <2>2. Insert(staged) \in Job /\ Insert(staged).items = staged /\ queue \in Seq(Job)
    BY DEF FlowInv, ShapeInv, Insert, Job
  <2>3. /\ \A i \in DOMAIN queue' : \/ i \in DOMAIN queue /\ queue'[i] = queue[i]
                                    \/ queue'[i] = Insert(staged)
        /\ \A i \in DOMAIN queue : i \in DOMAIN queue' /\ queue'[i] = queue[i]
        /\ \E i \in DOMAIN queue' : queue'[i] = Insert(staged)
    BY <2>1, <2>2, QueueAppend
  <2>4. \A x : InQueue(x)' <=> InQueue(x) \/ x \in staged
    BY <2>2, <2>3 DEF InQueue
  <2>5. \A x : Waiting(x)' <=> Waiting(x)
    BY <2>1, <2>4 DEF Waiting
  <2> QED
    BY <2>1, <2>5, PointInvSame
<1> QED
  BY <1>1, <1>2, <1>3, <1>4, <1>5

\* The thread takes insertions off the list of those to come, a flush adds none.
LEMMA TakenFromQueue ==
    ASSUME FlowInv, queue # << >>, queue' = Tail(queue)
    PROVE  \A x : InQueue(x) <=> x \in Head(queue).items \/ InQueue(x)'
<1>1. /\ 1 \in DOMAIN queue /\ Head(queue) = queue[1]
      /\ \A i \in DOMAIN Tail(queue) : i + 1 \in DOMAIN queue /\ Tail(queue)[i] = queue[i + 1]
      /\ \A i \in DOMAIN queue : i # 1 =>
            i - 1 \in DOMAIN Tail(queue) /\ Tail(queue)[i - 1] = queue[i]
  <2>1. queue \in Seq(Job)
    BY DEF FlowInv, ShapeInv
  <2> QED
    BY <2>1, QueueTail, Zenon
<1> QED
  BY <1>1 DEF InQueue

\* What each step of the thread does to the insertions to come.
LEMMA WaitingIndex ==
    ASSUME FlowInv, IndexThread
    PROVE  /\ IndexTake => \A x : Waiting(x)' <=> Waiting(x)
           /\ IndexInsert => \A x : Waiting(x) <=> Waiting(x)' \/ x \in job.items
           /\ IndexCount => \A x : Waiting(x)' <=> Waiting(x)
           /\ IndexAcknowledge => \A x : Waiting(x)' <=> Waiting(x)
           /\ \A x : Waiting(x)' => Waiting(x)
<1>1. ASSUME IndexTake PROVE \A x : Waiting(x)' <=> Waiting(x)
  <2>1. \A x : InQueue(x) <=> x \in Head(queue).items \/ InQueue(x)'
    BY <1>1, TakenFromQueue DEF IndexTake
  <2> QED
    BY <1>1, <2>1 DEF IndexTake, Waiting, NoJob, call
<1>2. ASSUME IndexInsert PROVE \A x : Waiting(x) <=> Waiting(x)' \/ x \in job.items
  <2>1. job.at = "insert" /\ job'.at = "count" /\ UNCHANGED << queue, staged >>
    BY <1>2 DEF IndexInsert, FlowInv, ShapeInv, call
  <2> QED
    BY <2>1 DEF Waiting, InQueue
<1>3. ASSUME IndexCount PROVE \A x : Waiting(x)' <=> Waiting(x)
  BY <1>3 DEF IndexCount, Waiting, InQueue, NoJob, call
<1>4. ASSUME IndexAcknowledge PROVE \A x : Waiting(x)' <=> Waiting(x)
  <2>1. Head(queue).items = {}
    <3>1. queue # << >> /\ queue \in Seq(Job) /\ Head(queue).kind = "flush"
      BY <1>4 DEF IndexAcknowledge, FlowInv, ShapeInv
    <3>2. 1 \in DOMAIN queue /\ Head(queue) = queue[1]
      BY <3>1, QueueTail
    <3> QED
      BY <3>1, <3>2 DEF FlowInv, ShapeInv
  <2>2. \A x : InQueue(x)' <=> InQueue(x)
    BY <1>4, <2>1, TakenFromQueue DEF IndexAcknowledge
  <2> QED
    BY <1>4, <2>2 DEF IndexAcknowledge, Waiting, call
<1> QED
  BY <1>1, <1>2, <1>3, <1>4 DEF IndexThread

\* A flush is not an insertion.
LEMMA WaitingFlush ==
    ASSUME FlowInv,
           \/ \E g \in Goals : Begin(g)
           \/ BeginCoverage
           \/ FlushSend \/ FlushReturns \/ OtherFlush \/ OtherReturns
    PROVE  \A x : Waiting(x)' <=> Waiting(x)
<1>1. CASE (\E g \in Goals : Begin(g)) \/ BeginCoverage \/ FlushReturns \/ OtherReturns
  BY <1>1 DEF Begin, BeginCoverage, FlushReturns, OtherReturns, thread, call, Waiting,
     InQueue
<1>2. CASE FlushSend \/ OtherFlush
  <2>1. PICK e \in {Flush("call"), Flush("other")} : queue' = Append(queue, e)
    BY <1>2 DEF FlushSend, OtherFlush
  <2>2. e \in Job /\ e.items = {} /\ queue \in Seq(Job)
    BY <2>1 DEF Flush, Job, FlowInv, ShapeInv
  <2>3. /\ \A i \in DOMAIN queue' : \/ i \in DOMAIN queue /\ queue'[i] = queue[i]
                                    \/ queue'[i] = e
        /\ \A i \in DOMAIN queue : i \in DOMAIN queue' /\ queue'[i] = queue[i]
    BY <2>1, <2>2, QueueAppend
  <2>4. \A x : InQueue(x)' <=> InQueue(x)
    BY <2>2, <2>3 DEF InQueue
  <2> QED
    BY <1>2, <2>4 DEF FlushSend, OtherFlush, call, Waiting
<1> QED
  BY <1>1, <1>2

\* The thread's steps keep PointInv.
LEMMA PointInvIndex ==
    ASSUME FlowInv, PointInv, IndexThread
    PROVE  PointInv'
<1>1. CASE IndexTake
  <2>1. /\ job' = [at |-> "insert", items |-> Head(queue).items, center |-> center]
        /\ UNCHANGED << rows, hnsw, center, op, poisoned >>
    BY <1>1 DEF IndexTake, arena, call, lessor
  <2> QED
    BY <1>1, <2>1, WaitingIndex DEF PointInv
<1>2. CASE IndexInsert
  <2>1. /\ job.at = "insert" /\ job'.at = "count" /\ job.center = center
        /\ hnsw' = hnsw \cup {Coded(item, job.center) : item \in job.items}
        /\ UNCHANGED << rows, center, op, poisoned >>
    BY <1>2 DEF IndexInsert, FlowInv, ShapeInv, PointInv, arena, call, lessor
  <2>2. \A x : Waiting(x) <=> Waiting(x)' \/ x \in job.items
    BY <1>2, WaitingIndex
  <2> QED
    BY <2>1, <2>2 DEF PointInv
<1>3. CASE IndexCount
  <2>1. job' = NoJob /\ UNCHANGED << rows, hnsw, center, op, poisoned >>
    BY <1>3 DEF IndexCount, arena, call, lessor
  <2> QED
    BY <1>3, <2>1, WaitingIndex DEF PointInv, NoJob
<1>4. CASE IndexAcknowledge
  <2>1. UNCHANGED << rows, hnsw, center, job, op, poisoned >>
    BY <1>4 DEF IndexAcknowledge, arena, call, lessor
  <2> QED
    BY <1>4, <2>1, WaitingIndex, PointInvSame
<1> QED
  BY <1>1, <1>2, <1>3, <1>4 DEF IndexThread

\* Flushes keep PointInv.
LEMMA PointInvFlush ==
    ASSUME FlowInv, PointInv,
           \/ \E g \in Goals : Begin(g)
           \/ BeginCoverage
           \/ FlushSend \/ FlushReturns \/ OtherFlush \/ OtherReturns
    PROVE  PointInv'
<1>1. /\ UNCHANGED << rows, hnsw, center, job, poisoned >>
      /\ op \notin {"rebuild", "recover"} \/ op' = op
  BY DEF Begin, BeginCoverage, Enter, FlushSend, FlushReturns, OtherFlush,
     OtherReturns, arena,
     thread, call, lessor
<1>2. \A x : Waiting(x)' <=> Waiting(x)
  BY WaitingFlush
<1> QED
  BY <1>1, <1>2, PointInvSame

\* Compaction, rebuild, queries and publications keep PointInv.
LEMMA PointInvCalls ==
    ASSUME FlowInv, PointInv, Compact \/ Rebuild \/ Query \/ Publish \/ PublishFails
    PROVE  PointInv'
<1>1. CASE Compact
  <2>1. job = NoJob /\ job' = job /\ op' = "rebuild"
    BY <1>1 DEF Compact, FlowInv, DrainInv, Drained, Goals, thread
  <2> QED
    BY <2>1 DEF PointInv, NoJob
<1>2. CASE Rebuild
  <2>1. /\ hnsw' = PointsOf(rows) /\ op = "rebuild" /\ op' = "idle"
        /\ UNCHANGED << rows, center, job, queue, staged >>
    BY <1>2 DEF Rebuild, Returns, arena, thread
  <2>2. \A x : ~Waiting(x)
    BY <2>1, NothingWaits DEF FlowInv, DrainInv, Goals
  <2>3. \A x : ~Waiting(x)'
    BY <2>1, <2>2 DEF Waiting, InQueue
  <2> QED
    BY <2>1, <2>3 DEF PointInv
<1>3. CASE Query \/ Publish \/ PublishFails
  <2>1. /\ UNCHANGED << rows, hnsw, center, job, queue, staged >>
        /\ op \notin {"rebuild", "recover"} /\ (poisoned => poisoned')
    BY <1>3 DEF Query, Publish, PublishFails, Returns, arena, thread, lessor
  <2>2. \A x : Waiting(x)' <=> Waiting(x)
    BY <2>1 DEF Waiting, InQueue
  <2> QED
    BY <2>1, <2>2, PointInvSame
<1> QED
  BY <1>1, <1>2, <1>3

\* A new process builds the index from the rows.
LEMMA PointInvOpen ==
    ASSUME FlowInv, PointInv, Crash \/ (\E n \in Nodes : Replay(n)) \/ Opened
    PROVE  PointInv'
<1>1. CASE Crash
  BY <1>1 DEF Crash, PointInv, NoJob
<1>2. ASSUME NEW n \in Nodes, Replay(n) PROVE PointInv'
  BY <1>2 DEF Replay, PointInv, thread
<1>3. CASE Opened
  <2>1. /\ hnsw' = PointsOf(rows') /\ op = "recover" /\ op' = "idle"
        /\ UNCHANGED << job, queue, staged >>
    BY <1>3 DEF Opened, thread
  <2>2. Drained /\ \A x : ~Waiting(x)
    BY <2>1, NothingWaits DEF FlowInv, DrainInv
  <2>3. \A x : ~Waiting(x)'
    BY <2>1, <2>2 DEF Waiting, InQueue
  <2> QED
    BY <2>1, <2>2, <2>3 DEF PointInv, Drained, NoJob
<1> QED
  BY <1>1, <1>2, <1>3

\* Every step keeps PointInv.
LEMMA PointInvStep ==
    ASSUME FlowInv, PointInv, [Next]_vars
    PROVE  PointInv'
<1>1. CASE \/ UNCHANGED vars \/ PinPublished \/ ArriveCoverage
           \/ \E l \in leases : RevokeLease(l) \/ Expire(l)
  <2>1. UNCHANGED << rows, hnsw, center, job, queue, staged, op, poisoned >>
    BY <1>1 DEF vars, PinPublished, ArriveCoverage, RevokeLease, Expire, durable,
       arena, thread,
       call, lessor
  <2>2. \A x : Waiting(x)' <=> Waiting(x)
    BY <2>1 DEF Waiting, InQueue
  <2> QED
    BY <2>1, <2>2, PointInvSame
<1>2. CASE \/ \E S \in SUBSET Nodes \ {{}} : AddVectors(S)
           \/ \E n \in Nodes : Stage(n) \/ RetractNode(n)
           \/ StageFails \/ Count \/ Send \/ ReplaceAccessPolicy
  BY <1>2, PointInvWrites
<1>3. CASE IndexThread
  BY <1>3, PointInvIndex
<1>4. CASE \/ \E g \in Goals : Begin(g)
           \/ BeginCoverage
           \/ FlushSend \/ FlushReturns \/ OtherFlush \/ OtherReturns
  BY <1>4, PointInvFlush
<1>5. CASE Compact \/ Rebuild \/ Query \/ Publish \/ PublishFails
  BY <1>5, PointInvCalls
<1>6. CASE Crash \/ (\E n \in Nodes : Replay(n)) \/ Opened
  BY <1>6, PointInvOpen
<1> QED
  BY <1>1, <1>2, <1>3, <1>4, <1>5, <1>6 DEF Next, Proceed, Goals

\* Both invariants hold in every reachable state.
LEMMA PointInvAlways ==
    Spec => [](FlowInv /\ PointInv)
<1>1. FlowInv /\ PointInv /\ [Next]_vars => (FlowInv /\ PointInv)'
  BY FlowInvStep, PointInvStep
<1>2. Init => FlowInv /\ PointInv
  BY FlowInvInit, PointInvInit
<1> QED
  BY <1>1, <1>2, PTL DEF Spec

\* No insertion of the index thread ever lands on the arena id, or with the
\* center, of another row: compaction and rebuild find the queue drained
\* (flush_index, perform_index_compaction).
THEOREM IndexAlwaysAgrees ==
    Spec => []IndexAgrees
<1>1. FlowInv /\ PointInv => IndexAgrees
  BY DEF PointInv, IndexAgrees
<1> QED
  BY <1>1, PointInvAlways, PTL

\* A complete index finds the current vectors.
LEMMA CompleteFindsCurrent ==
    ASSUME ArenaOK(rows), hnsw = PointsOf(rows)
    PROVE  Visible = Current
<1>1. ASSUME NEW r \in rows, NEW p \in hnsw, r.id = p.id PROVE p.created = r.created
  BY <1>1 DEF PointsOf, ArenaOK
<1>2. ASSUME NEW r \in rows PROVE \E p \in hnsw : r.id = p.id /\ p.created = r.created
  <2>1. PICK p \in hnsw : p = [id |-> r.id, node |-> r.node, created |-> r.created,
                               center |-> r.center]
    BY DEF PointsOf
  <2> QED
    BY <2>1
<1>3. \A y \in Visible : y \in Current
  BY <1>1 DEF Visible, Current
<1>4. \A y \in Current : y \in Visible
  <2> TAKE y \in Current
  <2>1. PICK r \in rows : IsCurrent(r) /\ y = << r.node, r.created >>
    BY DEF Current
  <2>2. PICK p \in hnsw : r.id = p.id /\ p.created = r.created
    BY <1>2
  <2>3. << r, p >> \in {h \in rows \X hnsw : h[1].id = h[2].id /\ IsCurrent(h[1])}
    BY <2>1, <2>2
  <2> QED
    BY <2>1, <2>2, <2>3 DEF Visible
<1> QED
  BY <1>3, <1>4

\* A complete index has a point under every arena id in use, and under no other.
LEMMA CompleteHasIds ==
    ASSUME hnsw = PointsOf(rows)
    PROVE  {p.id : p \in hnsw} = Ids
<1>1. \A p \in hnsw : \E r \in rows : p.id = r.id
  BY DEF PointsOf
<1>2. ASSUME NEW r \in rows PROVE \E p \in hnsw : p.id = r.id
  <2>1. PICK p \in hnsw : p = [id |-> r.id, node |-> r.node, created |-> r.created,
                               center |-> r.center]
    BY DEF PointsOf
  <2> QED
    BY <2>1
<1> QED
  BY <1>1, <1>2 DEF Ids

----------------------------------------------------------------------------
(* What index_pending counts.                                              *)

\* The insertions that were counted and are not counted as done.
Due == {x \in Item : InQueue(x) \/ x \in job.items \/ (op = "send" /\ x \in staged)}

\* index_pending is the number of these insertions.  The queue, the thread and the
\* call hold different ones: each has an arena id of its own, and a row that is
\* staged gets one that none of them has.
LagInv ==
    /\ IsFiniteSet(Due) /\ pending = Cardinality(Due)
    /\ IsFiniteSet(staged)
    /\ \A x \in Due \cup staged : x.id <= Cardinality(rows)
    /\ \A x \in staged : ~InQueue(x) /\ x \notin job.items
    /\ \A x \in job.items : ~InQueue(x)
    /\ \A i, j \in DOMAIN queue : \A x \in queue[i].items :
          x \in queue[j].items => i = j

\* Nothing is counted at first.
LEMMA LagInvInit ==
    Init => LagInv
<1> SUFFICES ASSUME Init PROVE LagInv
  OBVIOUS
<1>1. Due = {}
  BY DEF Init, Due, InQueue, NoJob
<1> QED
  BY <1>1, FS_EmptySet DEF Init, LagInv, InQueue, NoJob

\* Whatever is in the queue, in the thread's hands or staged is an item.
LEMMA DueItems ==
    ASSUME FlowInv
    PROVE  /\ \A x : InQueue(x) => x \in Item
           /\ job.items \subseteq Item /\ staged \subseteq Item
           /\ \A x : x \in Due <=> \/ InQueue(x) \/ x \in job.items
                                   \/ op = "send" /\ x \in staged
<1>1. \A i \in DOMAIN queue : queue[i].items \subseteq Item
  <2>1. \A i \in DOMAIN queue : queue[i] \in Job
    BY DEF FlowInv, ShapeInv
  <2> QED
    BY <2>1 DEF Job
<1>2. job.items \subseteq Item /\ staged \subseteq Item
  BY DEF FlowInv, ShapeInv
<1> QED
  BY <1>1, <1>2 DEF Due, InQueue

\* When the queue is drained and no row is being staged, nothing is counted.
LEMMA NothingDue ==
    ASSUME FlowInv, Drained, op \notin {"stage", "send"}
    PROVE  Due = {} /\ staged = {} /\ job.items = {} /\ \A x : ~InQueue(x)
<1>1. \A x : ~Waiting(x)
  BY NothingWaits
<1> QED
  BY <1>1 DEF Drained, Waiting, Due, NoJob

\* A step that leaves alone what is counted, and does not lower the number of rows.
LEMMA LagInvSame ==
    ASSUME LagInv, UNCHANGED << pending, queue, staged, job >>,
           op = "send" <=> op' = "send",
           Cardinality(rows') = Cardinality(rows)
    PROVE  LagInv'
<1>1. Due' = Due /\ \A x : InQueue(x)' <=> InQueue(x)
  BY DEF Due, InQueue
<1> QED
  BY <1>1 DEF LagInv

\* A step after which nothing is counted.
LEMMA LagInvNone ==
    ASSUME Due' = {}, pending' = 0, staged' = {}, job'.items = {},
           \A x : ~InQueue(x)'
    PROVE  LagInv'
BY FS_EmptySet DEF LagInv, InQueue

\* The steps of writers.
LEMMA LagInvWrites ==
    ASSUME FlowInv, FlowInv', LagInv,
           \/ \E S \in SUBSET Nodes \ {{}} : AddVectors(S)
           \/ \E n \in Nodes : Stage(n) \/ RetractNode(n)
           \/ StageFails \/ Count \/ Send \/ ReplaceAccessPolicy
    PROVE  LagInv'
<1>1. CASE \/ \E S \in SUBSET Nodes \ {{}} : AddVectors(S)
           \/ ReplaceAccessPolicy
  BY <1>1, LagInvSame DEF AddVectors, ReplaceAccessPolicy, Enter, arena, thread, call
<1>2. ASSUME NEW n \in Nodes, Stage(n) PROVE LagInv'
  <2> DEFINE x0 == [id |-> NewRow(n).id, node |-> n, created |-> seq]
  <2>1. /\ Cardinality(rows) \in Nat /\ Cardinality(rows') = Cardinality(rows) + 1
    BY <1>2, NewRowArena DEF Stage, FlowInv
  <2>2. x0.id = Cardinality(rows) + 1
    BY DEF NewRow
  <2>3. /\ staged' = staged \cup {x0} /\ op = "stage" /\ op' = op
        /\ UNCHANGED << queue, pending, job >>
    BY <1>2 DEF Stage, thread
  <2> HIDE DEF x0
  <2>4. Due' = Due /\ \A x : InQueue(x)' <=> InQueue(x)
    BY <2>3 DEF Due, InQueue
  <2>5. x0 \notin Due /\ x0 \notin staged
    BY <2>1, <2>2 DEF LagInv
  <2>6. ~InQueue(x0) /\ x0 \notin job.items
    BY <2>5, DueItems
  <2>7. IsFiniteSet(staged')
    BY <2>3, FS_AddElement DEF LagInv
  <2>8. \A x \in Due' \cup staged' : x.id <= Cardinality(rows')
    <3>1. \A x \in Due \cup staged : x.id \in Nat
      BY DueItems DEF Item, Due
    <3> QED
      BY <2>1, <2>2, <2>3, <2>4, <3>1 DEF LagInv
  <2> QED
    BY <2>3, <2>4, <2>6, <2>7, <2>8 DEF LagInv
<1>3. ASSUME NEW n \in Nodes, RetractNode(n) PROVE LagInv'
  <2>1. seq + 1 \in Seqs
    BY <1>3, ServingAssumption DEF RetractNode, FlowInv, ShapeInv, Seqs
  <2>2. Cardinality(Stamped(n, seq + 1)) = Cardinality(rows)
    BY <2>1, StampedArena DEF FlowInv, ShapeInv
  <2> QED
    BY <1>3, <2>2, LagInvSame DEF RetractNode, thread, call
<1>4. CASE StageFails
  <2>1. /\ UNCHANGED << rows, pending, job, queue >> /\ staged' = {}
        /\ op = "stage" /\ op' = "idle"
    BY <1>4 DEF StageFails, arena, thread
  <2>2. Due' = Due /\ \A x : InQueue(x)' <=> InQueue(x)
    BY <2>1 DEF Due, InQueue
  <2> QED
    BY <2>1, <2>2, FS_EmptySet DEF LagInv
<1>5. CASE Count
  <2>1. /\ UNCHANGED << rows, job, queue, staged >>
        /\ op = "stage" /\ op' = "send"
        /\ pending' = pending + Cardinality(staged)
    BY <1>5 DEF Count, arena
  <2>2. /\ \A x : InQueue(x)' <=> InQueue(x)
        /\ Due' = Due \cup staged /\ Due \cap staged = {}
    <3>1. \A x : InQueue(x)' <=> InQueue(x)
      BY <2>1 DEF InQueue
    <3>2. \A x \in staged : x \notin Due
      BY <2>1, DueItems DEF LagInv
    <3>3. \A x : x \in Due' <=> x \in Due \cup staged
      BY <2>1, <3>1, DueItems DEF Due
    <3> QED
      BY <3>1, <3>2, <3>3
  <2>3. IsFiniteSet(Due') /\ Cardinality(Due') = Cardinality(Due) + Cardinality(staged)
    <3>1. /\ IsFiniteSet(Due \cup staged)
          /\ Cardinality(Due \cup staged)
                = Cardinality(Due) + Cardinality(staged) - Cardinality(Due \cap staged)
      BY FS_Union DEF LagInv
    <3>2. Cardinality(Due) \in Nat /\ Cardinality(staged) \in Nat
      BY FS_CardinalityType DEF LagInv
    <3>3. Cardinality(Due \cap staged) = 0
      BY <2>2, FS_EmptySet
    <3>4. IsFiniteSet(Due') /\ Cardinality(Due')
              = Cardinality(Due) + Cardinality(staged) - Cardinality(Due \cap staged)
      BY <2>2, <3>1
    <3> QED
      BY <3>2, <3>3, <3>4
  <2> QED
    BY <2>1, <2>2, <2>3 DEF LagInv
<1>6. CASE Send
  <2>1. /\ UNCHANGED << rows, job, pending >> /\ staged' = {}
        /\ op = "send" /\ op' = "idle" /\ queue' = Append(queue, Insert(staged))
    BY <1>6 DEF Send, arena
  <2>2. Insert(staged) \in Job /\ Insert(staged).items = staged /\ queue \in Seq(Job)
    BY DEF FlowInv, ShapeInv, Insert, Job
  <2>3. /\ \A i \in DOMAIN queue' :
              \/ i \in DOMAIN queue /\ queue'[i] = queue[i]
              \/ i \notin DOMAIN queue /\ queue'[i] = Insert(staged)
        /\ \A i \in DOMAIN queue : i \in DOMAIN queue' /\ queue'[i] = queue[i]
        /\ \E i \in DOMAIN queue' : queue'[i] = Insert(staged)
        /\ \A i, j \in DOMAIN queue' : i \notin DOMAIN queue /\ j \notin DOMAIN queue =>
              i = j
    <3>1. /\ DOMAIN queue = 1 .. Len(queue) /\ Len(queue) \in Nat
          /\ DOMAIN queue' = 1 .. Len(queue) + 1
      BY <2>1, <2>2
    <3> QED
      BY <2>1, <2>2, <3>1, QueueAppend
  <2>4. \A x : InQueue(x)' <=> InQueue(x) \/ x \in staged
    BY <2>2, <2>3 DEF InQueue
  <2>5. Due' = Due
    <3>1. \A x : x \in Due' <=> x \in Due
      BY <2>1, <2>4, DueItems DEF Due
    <3> QED
      BY <3>1 DEF Due
  <2>6. \A i, j \in DOMAIN queue' : \A x \in queue'[i].items :
            x \in queue'[j].items => i = j
    <3> SUFFICES ASSUME NEW i \in DOMAIN queue', NEW j \in DOMAIN queue',
                        NEW x \in queue'[i].items, x \in queue'[j].items
                 PROVE  i = j
      OBVIOUS
    <3>1. i \in DOMAIN queue <=> j \in DOMAIN queue
      BY <2>2, <2>3 DEF LagInv, InQueue
    <3> QED
      BY <2>3, <3>1 DEF LagInv
  <2> QED
    BY <2>1, <2>4, <2>5, <2>6, FS_EmptySet DEF LagInv
<1> QED
  BY <1>1, <1>2, <1>3, <1>4, <1>5, <1>6

\* The steps of the index thread: what it takes moves from the queue into its
\* hands, and leaves the count when it is in the index.
LEMMA LagInvIndex ==
    ASSUME FlowInv, FlowInv', LagInv, IndexThread
    PROVE  LagInv'
<1>1. CASE IndexTake \/ IndexAcknowledge
  <2>1. /\ UNCHANGED << rows, pending, staged, op >>
        /\ queue # << >> /\ queue' = Tail(queue) /\ job = NoJob
        /\ queue \in Seq(Job)
    BY <1>1 DEF IndexTake, IndexAcknowledge, arena, call, FlowInv, ShapeInv
  <2>2. /\ 1 \in DOMAIN queue /\ Head(queue) = queue[1]
        /\ \A i \in DOMAIN queue' :
              /\ i + 1 \in DOMAIN queue /\ queue'[i] = queue[i + 1]
              /\ i \in Nat \ {0}
    BY <2>1, QueueTail
  <2>3. \A x : InQueue(x) <=> x \in Head(queue).items \/ InQueue(x)'
    BY <2>1, TakenFromQueue
  <2>4. job'.items = Head(queue).items
    <3>1. CASE IndexTake
      BY <3>1 DEF IndexTake
    <3>2. CASE IndexAcknowledge
      BY <2>1, <2>2, <3>2 DEF IndexAcknowledge, FlowInv, ShapeInv, NoJob
    <3> QED
      BY <1>1, <3>1, <3>2
  <2>5. Due' = Due
    <3>1. \A x : x \in Due' <=> x \in Due
      BY <2>1, <2>3, <2>4, DueItems DEF Due, NoJob
    <3> QED
      BY <3>1 DEF Due
  <2>6. \A x \in job'.items : ~InQueue(x)'
    <3> SUFFICES ASSUME NEW x \in queue[1].items, NEW i \in DOMAIN queue',
                        x \in queue'[i].items
                 PROVE  FALSE
      BY <2>2, <2>4 DEF InQueue
    <3>1. x \in queue[i + 1].items /\ i + 1 \in DOMAIN queue /\ i \in Nat \ {0}
      BY <2>2
    <3>2. 1 = i + 1
      BY <2>2, <3>1 DEF LagInv
    <3> QED
      BY <3>1, <3>2
  <2>7. \A i, j \in DOMAIN queue' : \A x \in queue'[i].items :
            x \in queue'[j].items => i = j
    <3> SUFFICES ASSUME NEW i \in DOMAIN queue', NEW j \in DOMAIN queue',
                        NEW x \in queue'[i].items, x \in queue'[j].items
                 PROVE  i = j
      OBVIOUS
    <3>1. i + 1 = j + 1
      BY <2>2 DEF LagInv
    <3> QED
      BY <2>2, <3>1
  <2>8. \A x \in staged' : ~InQueue(x)' /\ x \notin job'.items
    BY <2>1, <2>3, <2>4 DEF LagInv
  <2> QED
    BY <2>1, <2>5, <2>6, <2>7, <2>8 DEF LagInv
<1>2. CASE IndexInsert
  <2>1. /\ UNCHANGED << rows, pending, staged, op, queue >> /\ job'.items = job.items
    BY <1>2 DEF IndexInsert, arena, call, FlowInv, ShapeInv
  <2>2. Due' = Due /\ \A x : InQueue(x)' <=> InQueue(x)
    BY <2>1 DEF Due, InQueue
  <2> QED
    BY <2>1, <2>2 DEF LagInv
<1>3. CASE IndexCount
  <2>1. /\ UNCHANGED << rows, staged, op, queue >> /\ job'.items = {}
        /\ pending' = pending - Cardinality(job.items)
    BY <1>3 DEF IndexCount, arena, call, NoJob
  <2>2. \A x : InQueue(x)' <=> InQueue(x)
    BY <2>1 DEF InQueue
  <2>3. job.items \subseteq Due /\ Due' = Due \ job.items
    <3>1. \A x : x \in Due' <=> x \in Due /\ x \notin job.items
      BY <2>1, <2>2, DueItems DEF Due, LagInv
    <3> QED
      BY <3>1, DueItems DEF Due
  <2>4. IsFiniteSet(Due') /\ Cardinality(Due') = Cardinality(Due) - Cardinality(job.items)
    <3>1. /\ IsFiniteSet(Due \ job.items)
          /\ Cardinality(Due \ job.items) = Cardinality(Due) - Cardinality(Due \cap job.items)
      BY FS_Difference DEF LagInv
    <3>2. Due \cap job.items = job.items
      BY <2>3
    <3> QED
      BY <2>3, <3>1, <3>2
  <2> QED
    BY <2>1, <2>2, <2>3, <2>4 DEF LagInv
<1> QED
  BY <1>1, <1>2, <1>3 DEF IndexThread

\* Flushes add nothing to the count.
LEMMA LagInvFlush ==
    ASSUME FlowInv, FlowInv', LagInv,
           \/ \E g \in Goals : Begin(g)
           \/ BeginCoverage
           \/ FlushSend \/ FlushReturns \/ OtherFlush \/ OtherReturns
    PROVE  LagInv'
<1>1. CASE (\E g \in Goals : Begin(g)) \/ BeginCoverage \/ FlushReturns \/ OtherReturns
  <2>1. /\ UNCHANGED << rows, pending, staged, queue, job >>
        /\ op = "send" <=> op' = "send"
    BY <1>1 DEF Begin, BeginCoverage, Enter, FlushReturns, OtherReturns, FlowInv,
       PhaseInv, Goals,
       arena, thread, call
  <2> QED
    BY <2>1, LagInvSame
<1>2. CASE FlushSend \/ OtherFlush
  <2>1. PICK e \in {Flush("call"), Flush("other")} : queue' = Append(queue, e)
    BY <1>2 DEF FlushSend, OtherFlush
  <2>2. e \in Job /\ e.items = {} /\ queue \in Seq(Job)
    BY <2>1 DEF Flush, Job, FlowInv, ShapeInv
  <2>3. /\ \A i \in DOMAIN queue' : \/ i \in DOMAIN queue /\ queue'[i] = queue[i]
                                    \/ queue'[i] = e
        /\ \A i \in DOMAIN queue : i \in DOMAIN queue' /\ queue'[i] = queue[i]
    BY <2>1, <2>2, QueueAppend
  <2>4. \A x : InQueue(x)' <=> InQueue(x)
    BY <2>2, <2>3 DEF InQueue
  <2>5. /\ UNCHANGED << rows, pending, staged, job >>
        /\ op = "send" <=> op' = "send"
    BY <1>2 DEF FlushSend, OtherFlush, arena, call
  <2>6. Due' = Due
    BY <2>4, <2>5 DEF Due
  <2>7. \A i, j \in DOMAIN queue' : \A x \in queue'[i].items :
            x \in queue'[j].items => i = j
    BY <2>2, <2>3 DEF LagInv
  <2> QED
    BY <2>4, <2>5, <2>6, <2>7 DEF LagInv
<1> QED
  BY <1>1, <1>2

\* The other calls, the end of the process and the next open find nothing counted,
\* or leave the count alone.
LEMMA LagInvCalls ==
    ASSUME FlowInv, FlowInv', LagInv,
           \/ Compact \/ Rebuild \/ Query \/ Publish \/ PublishFails
           \/ Crash \/ (\E n \in Nodes : Replay(n)) \/ Opened
    PROVE  LagInv'
<1>1. CASE Crash
  <2>1. /\ queue' = << >> /\ pending' = 0 /\ job' = NoJob /\ staged' = {}
        /\ op' = "recover"
    BY <1>1 DEF Crash
  <2> QED
    BY <2>1, LagInvNone DEF Due, InQueue, NoJob
<1>2. CASE \/ Compact \/ Rebuild \/ Query \/ Publish \/ PublishFails
           \/ (\E n \in Nodes : Replay(n)) \/ Opened
  <2>1. /\ UNCHANGED << queue, pending, job, staged >>
        /\ op \in Goals \cup {"recover"} /\ op' \notin {"stage", "send"}
    BY <1>2 DEF Compact, Rebuild, Query, Publish, PublishFails, Replay, Opened,
       Returns, Goals,
       thread
  <2>2. Due = {} /\ staged = {} /\ job.items = {} /\ \A x : ~InQueue(x)
    BY <2>1, NothingDue DEF FlowInv, DrainInv, Goals
  <2>3. Due' = {} /\ \A x : ~InQueue(x)'
    BY <2>1, <2>2 DEF Due, InQueue
  <2>4. pending' = 0
    BY <2>1, <2>2, FS_EmptySet DEF LagInv
  <2> QED
    BY <2>1, <2>2, <2>3, <2>4, LagInvNone
<1> QED
  BY <1>1, <1>2

\* Every step keeps LagInv.
LEMMA LagInvStep ==
    ASSUME FlowInv, FlowInv', LagInv, [Next]_vars
    PROVE  LagInv'
<1>1. CASE \/ UNCHANGED vars \/ PinPublished \/ ArriveCoverage
           \/ \E l \in leases : RevokeLease(l) \/ Expire(l)
  BY <1>1, LagInvSame DEF vars, PinPublished, ArriveCoverage, RevokeLease, Expire,
     arena, thread, call
<1>2. CASE \/ \E S \in SUBSET Nodes \ {{}} : AddVectors(S)
           \/ \E n \in Nodes : Stage(n) \/ RetractNode(n)
           \/ StageFails \/ Count \/ Send \/ ReplaceAccessPolicy
  BY <1>2, LagInvWrites
<1>3. CASE IndexThread
  BY <1>3, LagInvIndex
<1>4. CASE \/ \E g \in Goals : Begin(g)
           \/ BeginCoverage
           \/ FlushSend \/ FlushReturns \/ OtherFlush \/ OtherReturns
  BY <1>4, LagInvFlush
<1>5. CASE \/ Compact \/ Rebuild \/ Query \/ Publish \/ PublishFails
           \/ Crash \/ (\E n \in Nodes : Replay(n)) \/ Opened
  BY <1>5, LagInvCalls
<1> QED
  BY <1>1, <1>2, <1>3, <1>4, <1>5 DEF Next, Proceed, Goals

\* LagInv holds in every reachable state.
LEMMA LagInvAlways ==
    Spec => []LagInv
<1>1. FlowInv /\ FlowInv' /\ LagInv /\ [Next]_vars => LagInv'
  BY LagInvStep
<1> QED
  BY LagInvInit, <1>1, PointInvAlways, PTL DEF Spec

\* Nothing is counted when a call has come back from its flush.
LEMMA FlushedLeavesNone ==
    ASSUME FlowInv, LagInv, op \in Goals
    PROVE  pending = 0
<1>1. Due = {}
  BY NothingDue DEF FlowInv, DrainInv, Goals
<1> QED
  BY <1>1, FS_EmptySet DEF LagInv

\* Arena ids that are all in the index leave no row out of it: with IndexAgrees,
\* READY means a complete index.
LEMMA IdsMakeComplete ==
    ASSUME ArenaOK(rows), hnsw \subseteq PointsOf(rows), {p.id : p \in hnsw} = Ids
    PROVE  hnsw = PointsOf(rows)
<1> SUFFICES ASSUME NEW r \in rows
             PROVE  [id |-> r.id, node |-> r.node, created |-> r.created,
                     center |-> r.center] \in hnsw
  BY DEF PointsOf
<1>1. r.id \in Ids
  BY DEF Ids
<1>2. PICK p \in hnsw : p.id = r.id
  BY <1>1
<1>3. PICK q \in rows : p = [id |-> q.id, node |-> q.node, created |-> q.created,
                             center |-> q.center]
  BY <1>2 DEF PointsOf
<1>4. q = r
  BY <1>2, <1>3 DEF ArenaOK
<1> QED
  BY <1>2, <1>3, <1>4

\* A query with read-your-write consistency finds every vector that was staged
\* before it, and only current ones: its flush returns when nothing is left to
\* insert.  validate_index_coverage, which does not look again whether the handle is
\* readable once it has commit_lock, says READY only of such an index, and says it
\* of every readable handle (flush_index, validate_index_coverage).
THEOREM FlushesAreComplete ==
    Spec => []FlushedIsComplete
<1>1. ASSUME FlowInv, PointInv, LagInv, op \in {"query", "coverage"}
      PROVE  /\ ~poisoned \/ op = "query" => Coverage = "READY"
             /\ Coverage = "READY" => Visible = Current
  <2>1. Drained /\ ArenaOK(rows) /\ hnsw \subseteq PointsOf(rows) /\ pending = 0
    BY <1>1, FlushedLeavesNone DEF FlowInv, ShapeInv, DrainInv, PointInv, Goals
  <2>2. \A x : ~Waiting(x)
    BY <1>1, <2>1, NothingWaits
  <2>3. op = "query" => ~poisoned
    BY <1>1 DEF FlowInv, PhaseInv
  <2>4. ASSUME ~poisoned PROVE Coverage = "READY"
    <3>1. hnsw = PointsOf(rows)
      BY <1>1, <2>1, <2>2, <2>4 DEF PointInv
    <3>2. {p.id : p \in hnsw} = Ids
      BY <3>1, CompleteHasIds
    <3> QED
      BY <2>1, <3>2 DEF Coverage
  <2>5. ASSUME Coverage = "READY" PROVE Visible = Current
    <3>1. {p.id : p \in hnsw} = Ids
      BY <2>1, <2>5 DEF Coverage
    <3> QED
      BY <2>1, <3>1, IdsMakeComplete, CompleteFindsCurrent
  <2> QED
    BY <2>3, <2>4, <2>5
<1>2. FlowInv /\ PointInv /\ LagInv => FlushedIsComplete
  BY <1>1 DEF FlushedIsComplete
<1> QED
  BY <1>2, PointInvAlways, LagInvAlways, PTL

\* index_lag promises neither too much nor too little: the atomic counter that
\* writers raise before their job is queued, and the thread lowers after its last
\* insertion, is zero exactly when every staged row is searchable (enqueue_batch,
\* flush_index).
THEOREM LagIsAlwaysHonest ==
    Spec => []LagIsHonest
<1>1. ASSUME FlowInv, PointInv, LagInv PROVE LagIsHonest
  <2>1. ASSUME op = "idle", ~poisoned, pending = 0 PROVE {p.id : p \in hnsw} = Ids
    <3>1. Due = {}
      BY <1>1, <2>1, FS_EmptySet DEF LagInv
    <3>2. \A x : ~Waiting(x)
      BY <1>1, <2>1, <3>1, DueItems DEF Waiting, FlowInv, PhaseInv
    <3>3. hnsw = PointsOf(rows)
      BY <1>1, <2>1, <3>2 DEF PointInv
    <3> QED
      BY <3>3, CompleteHasIds
  <2>2. op \in {"query", "coverage"} => pending = 0
    BY <1>1, FlushedLeavesNone DEF Goals
  <2> QED
    BY <2>1, <2>2 DEF LagIsHonest
<1>2. FlowInv /\ PointInv /\ LagInv => LagIsHonest
  BY <1>1
<1> QED
  BY <1>2, PointInvAlways, LagInvAlways, PTL

----------------------------------------------------------------------------
(* What a lease is compared with only moves forward.                       *)

\* The counters a lease is checked against.
CounterInv ==
    /\ seq \in Nat /\ acl \in Nat /\ owner \in Nat /\ epoch \in Nat
    /\ gen.id \in Nat /\ gen.frontier \in Nat /\ gen.acl \in Nat

\* One lease was taken from the present counters or from earlier ones: an
\* earlier process, or this one and not a later epoch; a policy, a frontier and
\* a generation that are not ahead.
Taken(l) ==
    /\ l.owner \in Nat /\ l.epoch \in Nat
    /\ l.gen.id \in Nat \ {0} /\ l.gen.frontier \in Nat /\ l.gen.acl \in Nat
    /\ l.owner <= owner
    /\ l.owner = owner => l.epoch <= epoch
    /\ l.gen.acl <= acl
    /\ l.gen.frontier < seq
    /\ l.gen.id <= gen.id

\* A published generation was cut before the frame that carries its receipt.
GenInv == gen = NoGen \/ (gen.id > 0 /\ gen.frontier < seq /\ gen.acl <= acl)

LeaseInv ==
    /\ CounterInv
    /\ GenInv
    /\ \A l \in leases : Taken(l)

\* The steps that touch neither leases nor what they are compared with.
Apart == UNCHANGED << seq, acl, gen, owner, epoch, leases, poisoned >>

\* There is no lease at first.
LEMMA LeaseInvInit ==
    Init => LeaseInv
BY DEF Init, LeaseInv, CounterInv, GenInv, NoGen

\* Every step either is apart, or is one of those that are not.
LEMMA ApartSteps ==
    ASSUME [Next]_vars
    PROVE  \/ Apart
           \/ \E S \in SUBSET Nodes \ {{}} : AddVectors(S)
           \/ \E n \in Nodes : RetractNode(n)
           \/ ReplaceAccessPolicy
           \/ StageFails
           \/ Publish
           \/ PublishFails
           \/ PinPublished
           \/ \E l \in leases : RevokeLease(l) \/ Expire(l)
           \/ Opened
<1>1. CASE UNCHANGED vars
  BY <1>1 DEF vars, durable, lessor, Apart
<1>2. CASE Proceed
  BY <1>2 DEF Proceed, Stage, Replay, Count, Send, FlushSend, FlushReturns,
       Compact, Rebuild, Query, durable, lessor, Apart
<1>3. CASE IndexThread
  BY <1>3 DEF IndexThread, IndexTake, IndexInsert, IndexCount,
       IndexAcknowledge, durable, lessor, Apart
<1>4. CASE \E g \in {"compact", "rebuild", "query", "publish", "pin"} : Begin(g)
  BY <1>4 DEF Begin, durable, lessor, Apart
<1>5. CASE ArriveCoverage \/ BeginCoverage \/ OtherFlush \/ OtherReturns \/ Crash
  BY <1>5 DEF ArriveCoverage, BeginCoverage, OtherFlush, OtherReturns, Crash, durable,
     lessor, Apart
<1> QED
  BY <1>1, <1>2, <1>3, <1>4, <1>5 DEF Next

----------------------------------------------------------------------------
(* The invariant.                                                          *)

\* Nothing that a lease is compared with is ever taken back.
LEMMA LeaseInvStep ==
    ASSUME LeaseInv, [Next]_vars
    PROVE  LeaseInv'
<1> USE DEF LeaseInv, CounterInv, GenInv, Taken
<1>1. CASE Apart
  BY <1>1 DEF Apart
<1>2. CASE \E S \in SUBSET Nodes \ {{}} : AddVectors(S)
  BY <1>2 DEF AddVectors, lessor
<1>3. CASE \E n \in Nodes : RetractNode(n)
  BY <1>3 DEF RetractNode, lessor
<1>4. CASE ReplaceAccessPolicy
  BY <1>4 DEF ReplaceAccessPolicy, lessor
<1>5. CASE StageFails
  BY <1>5 DEF StageFails, durable
<1>6. CASE Publish
  <2>1. /\ gen'.id = gen.id + 1 /\ gen'.frontier = seq /\ gen'.acl = acl
        /\ seq' = seq + 1
        /\ UNCHANGED << acl, owner, epoch >>
    BY <1>6 DEF Publish, NextGen
  <2>2. \A l \in leases' : \/ l \in leases
                           \/ l = [owner |-> owner, gen |-> gen', epoch |-> epoch]
    BY <1>6 DEF Publish
  <2> QED
    BY <2>1, <2>2 DEF NoGen
<1>7. CASE PinPublished
  <2>1. UNCHANGED << seq, acl, gen, owner, epoch >>
    BY <1>7 DEF PinPublished, durable
  <2>2. gen # NoGen /\ \A l \in leases' : l \in leases \/ l = Lease
    BY <1>7 DEF PinPublished, IsPublished
  <2> QED
    BY <2>1, <2>2 DEF Lease
<1>8. CASE \E l \in leases : RevokeLease(l)
  BY <1>8 DEF RevokeLease, durable
<1>9. CASE \E l \in leases : Expire(l)
  BY <1>9 DEF Expire, durable
<1>10. CASE Opened
  BY <1>10 DEF Opened, durable
<1>11. CASE PublishFails
  <2>1. CASE UNCHANGED << seq, gen >>
    BY <1>11, <2>1 DEF PublishFails
  <2>2. CASE seq' = seq + 1 /\ gen' = NextGen
    <3>1. gen'.id = gen.id + 1 /\ gen'.frontier = seq /\ gen'.acl = acl
      BY <2>2 DEF NextGen
    <3> QED
      BY <1>11, <2>2, <3>1 DEF PublishFails, NoGen
  <2> QED
    BY <1>11, <2>1, <2>2 DEF PublishFails
<1> QED
  BY ApartSteps, <1>1, <1>2, <1>3, <1>4, <1>5, <1>6, <1>7, <1>8, <1>9, <1>10, <1>11

\* A step from a state in which the lease is not valid leaves it so: the
\* comparison that fails has the lease's side behind, and the other side moves
\* forward only.
LEMMA DeadStaysDead ==
    ASSUME LeaseInv, [Next]_vars, NEW l \in leases, ~Valid(l)
    PROVE  ~Valid(l)'
<1> USE DEF LeaseInv, CounterInv, Taken, Valid
<1>1. CASE Apart
  BY <1>1 DEF Apart
<1>2. CASE \E S \in SUBSET Nodes \ {{}} : AddVectors(S)
  BY <1>2 DEF AddVectors, lessor
<1>3. CASE \E n \in Nodes : RetractNode(n)
  BY <1>3 DEF RetractNode, lessor
<1>4. CASE ReplaceAccessPolicy
  BY <1>4 DEF ReplaceAccessPolicy, lessor
<1>5. CASE StageFails
  BY <1>5 DEF StageFails, durable
<1>6. CASE Publish
  BY <1>6 DEF Publish, NextGen
<1>7. CASE PinPublished
  BY <1>7 DEF PinPublished, durable
<1>8. CASE \E m \in leases : RevokeLease(m)
  BY <1>8 DEF RevokeLease, durable
<1>9. CASE \E m \in leases : Expire(m)
  BY <1>9 DEF Expire, durable
<1>10. CASE Opened
  BY <1>10 DEF Opened, durable
<1>11. CASE PublishFails
  BY <1>11 DEF PublishFails, NextGen
<1> QED
  BY ApartSteps, <1>1, <1>2, <1>3, <1>4, <1>5, <1>6, <1>7, <1>8, <1>9, <1>10, <1>11

\* LeaseInv holds in every reachable state.
LEMMA LeaseInvAlways ==
    Spec => []LeaseInv
<1>1. LeaseInv /\ [Next]_vars => LeaseInv'
  BY LeaseInvStep
<1> QED
  BY LeaseInvInit, <1>1, PTL DEF Spec

\* A lease that a write, a policy, a revocation, a failed call or a new process
\* made invalid is refused by validate_lease_unlocked for ever.
THEOREM DeadLeasesStayDead ==
    Spec => LeaseStaysDead
<1>1. LeaseInv /\ [Next]_vars => [\A l \in leases : ~Valid(l) => ~Valid(l)']_vars
  BY DeadStaysDead
<1> QED
  BY LeaseInvAlways, <1>1, PTL DEF Spec, LeaseStaysDead

----------------------------------------------------------------------------
(* Reads under a lease.                                                    *)

\* As long as the published generation is the frontier, no row is being staged,
\* replayed or indexed, and the current vectors are those it was published with.
PublishedInv ==
    IsPublished => /\ op \notin {"stage", "send"}
                   /\ todo = {}
                   /\ \A x : ~Waiting(x)
                   /\ Current = gen.digest

\* Renumbering keeps the current vectors.
LEMMA CurrentRenumbered ==
    ASSUME ArenaOK(rows), NEW kept, kept \subseteq rows,
           \A r \in rows : IsCurrent(r) => r \in kept,
           NEW c \in 0 .. MaxAdmin,
           rows' = Renumbered(kept, c), live' = live
    PROVE  Current' = Current
<1>1. /\ \A s \in rows' : \E r \in kept :
            s.node = r.node /\ s.created = r.created /\ s.retired = r.retired
      /\ \A r \in kept : \E s \in rows' :
            s.node = r.node /\ s.created = r.created /\ s.retired = r.retired
  BY RenumberedArena
<1>2. \A y \in Current' : y \in Current
  BY <1>1 DEF Current, IsCurrent
<1>3. \A y \in Current : y \in Current'
  BY <1>1 DEF Current, IsCurrent
<1> QED
  BY <1>2, <1>3 DEF Current

\* There is no generation at first.
LEMMA PublishedInvInit ==
    Init => PublishedInv
BY DEF Init, PublishedInv, IsPublished

\* Every step keeps PublishedInv: one that changes the rows' content moves the
\* frontier.
LEMMA PublishedInvStep ==
    ASSUME FlowInv, LeaseInv, PublishedInv, [Next]_vars
    PROVE  PublishedInv'
<1>1. CASE \/ \E S \in SUBSET Nodes \ {{}} : AddVectors(S)
           \/ \E n \in Nodes : RetractNode(n)
           \/ ReplaceAccessPolicy
  <2>1. seq' = seq + 1 /\ gen' = gen
    BY <1>1 DEF AddVectors, RetractNode, ReplaceAccessPolicy
  <2>2. ~IsPublished'
    BY <2>1 DEF LeaseInv, CounterInv, GenInv, IsPublished
  <2> QED
    BY <2>2 DEF PublishedInv
<1>2. CASE (\E n \in Nodes : Stage(n) \/ Replay(n)) \/ StageFails \/ Count \/ Send
  <2>1. UNCHANGED << seq, gen >> /\ (op \in {"stage", "send"} \/ todo # {})
    BY <1>2 DEF Stage, Replay, StageFails, Count, Send, durable
  <2> QED
    BY <2>1 DEF PublishedInv, IsPublished
<1>3. CASE IndexThread
  <2>1. UNCHANGED << seq, gen, live, rows, op, todo >>
    BY <1>3 DEF IndexThread, IndexTake, IndexInsert, IndexCount, IndexAcknowledge,
       durable, arena, call
  <2>2. \A x : Waiting(x)' => Waiting(x)
    BY <1>3, WaitingIndex
  <2> QED
    BY <2>1, <2>2 DEF PublishedInv, IsPublished, Current, IsCurrent
<1>4. CASE \/ \E g \in Goals : Begin(g)
           \/ BeginCoverage
           \/ FlushSend \/ FlushReturns \/ OtherFlush \/ OtherReturns
  <2>1. /\ UNCHANGED << seq, gen, live, rows, todo >>
        /\ op' = op \/ op' \notin {"stage", "send"}
    BY <1>4 DEF Begin, BeginCoverage, FlushSend, FlushReturns, OtherFlush,
       OtherReturns, FlowInv,
       PhaseInv, Goals, durable, arena, call
  <2>2. \A x : Waiting(x)' <=> Waiting(x)
    BY <1>4, WaitingFlush
  <2> QED
    BY <2>1, <2>2 DEF PublishedInv, IsPublished, Current, IsCurrent
<1>5. CASE Compact
  <2>1. PICK c \in {center, center + 1} :
            c <= MaxAdmin /\ rows' = Renumbered({r \in rows : Survives(r)}, c)
    BY <1>5 DEF Compact
  <2>2. c \in 0 .. MaxAdmin /\ ArenaOK(rows)
    BY <2>1, ServingAssumption DEF FlowInv, ShapeInv
  <2>3. PICK kept : /\ kept \subseteq rows /\ rows' = Renumbered(kept, c)
                    /\ \A r \in rows : IsCurrent(r) => r \in kept
    BY <2>1 DEF IsCurrent, Survives
  <2>4. UNCHANGED << seq, gen, live, todo, queue, job, staged >> /\ op' = "rebuild"
    BY <1>5 DEF Compact, durable, thread
  <2>5. Current' = Current
    BY <2>2, <2>3, <2>4, CurrentRenumbered
  <2> QED
    BY <2>4, <2>5 DEF PublishedInv, IsPublished, Waiting, InQueue
<1>6. CASE Rebuild \/ Query
  <2>1. UNCHANGED << seq, gen, live, rows, todo, queue, job, staged >> /\ op' = "idle"
    BY <1>6 DEF Rebuild, Query, Returns, durable, arena, thread
  <2> QED
    BY <2>1 DEF PublishedInv, IsPublished, Waiting, InQueue, Current, IsCurrent
<1>7. CASE Publish
  <2>1. /\ UNCHANGED << live, rows, todo, queue, job, staged >> /\ op' = "idle"
        /\ gen'.digest = Current /\ op \in {"publish", "pin"}
    BY <1>7 DEF Publish, NextGen, Returns, arena, thread
  <2>2. Drained /\ todo = {}
    BY <2>1 DEF FlowInv, PhaseInv, DrainInv, Goals
  <2>3. \A x : ~Waiting(x)
    BY <2>1, <2>2, NothingWaits
  <2>4. Current' = Current
    BY <2>1 DEF Current, IsCurrent
  <2> QED
    BY <2>1, <2>2, <2>3, <2>4 DEF PublishedInv, Waiting, InQueue
<1>8. CASE Crash
  <2>1. /\ UNCHANGED << seq, gen, live, rows, todo >> /\ op' = "recover"
        /\ queue' = << >> /\ job' = NoJob /\ staged' = {}
    BY <1>8 DEF Crash, durable, arena
  <2>2. \A x : ~Waiting(x)'
    BY <2>1 DEF Waiting, InQueue, NoJob
  <2> QED
    BY <2>1, <2>2 DEF PublishedInv, IsPublished, Current, IsCurrent
<1>9. CASE Opened
  <2>1. PICK kept \in {rows, {r \in rows : IsCurrent(r)}}, c \in 0 .. center :
            rows' = Renumbered(kept, c)
    BY <1>9 DEF Opened
  <2>2. c \in 0 .. MaxAdmin /\ ArenaOK(rows)
    BY <2>1, ServingAssumption DEF FlowInv, ShapeInv
  <2>3. kept \subseteq rows /\ \A r \in rows : IsCurrent(r) => r \in kept
    BY <2>1
  <2>4. UNCHANGED << seq, gen, live, todo, queue, job, staged >> /\ op' = "idle"
    BY <1>9 DEF Opened, durable, thread
  <2>5. Current' = Current
    BY <2>1, <2>2, <2>3, <2>4, CurrentRenumbered
  <2> QED
    BY <2>4, <2>5 DEF PublishedInv, IsPublished, Waiting, InQueue
<1>10. CASE \/ UNCHANGED vars \/ PinPublished \/ ArriveCoverage
            \/ \E l \in leases : RevokeLease(l) \/ Expire(l)
  <2>1. UNCHANGED << seq, gen, live, rows, todo, queue, job, staged, op >>
    BY <1>10 DEF vars, PinPublished, ArriveCoverage, RevokeLease, Expire, durable,
       arena, thread, call
  <2> QED
    BY <2>1 DEF PublishedInv, IsPublished, Waiting, InQueue, Current, IsCurrent
<1>11. CASE PublishFails
  <2>1. /\ UNCHANGED << live, rows, todo, queue, job, staged >> /\ op' = "idle"
        /\ op \in {"publish", "pin"}
    BY <1>11 DEF PublishFails, Returns, arena, thread
  <2>2. Drained /\ todo = {}
    BY <2>1 DEF FlowInv, PhaseInv, DrainInv, Goals
  <2>3. \A x : ~Waiting(x)
    BY <2>1, <2>2, NothingWaits
  <2>4. Current' = Current
    BY <2>1 DEF Current, IsCurrent
  <2>5. UNCHANGED << seq, gen >> \/ gen'.digest = Current
    BY <1>11 DEF PublishFails, NextGen
  <2> QED
    BY <2>1, <2>2, <2>3, <2>4, <2>5 DEF PublishedInv, IsPublished, Waiting, InQueue
<1> QED
  BY <1>1, <1>2, <1>3, <1>4, <1>5, <1>6, <1>7, <1>8, <1>9, <1>10, <1>11
     DEF Next, Proceed, Goals

\* Reads under one lease repeat: as long as validate_lease_unlocked accepts a
\* lease, a search finds exactly the vectors its generation was published with.
THEOREM LeasesAreRepeatable ==
    Spec => []LeaseIsRepeatable
<1>1. Init => PublishedInv
  BY PublishedInvInit
<1>2. FlowInv /\ LeaseInv /\ PublishedInv /\ [Next]_vars => PublishedInv'
  BY PublishedInvStep
<1>3. ASSUME FlowInv, PointInv, LeaseInv, PublishedInv
      PROVE  LeaseIsRepeatable
  <2> SUFFICES ASSUME op = "idle", NEW l \in leases, Valid(l)
               PROVE  Visible = l.gen.digest
    BY DEF LeaseIsRepeatable
  <2>1. IsPublished /\ gen = l.gen /\ ~poisoned
    BY <1>3 DEF Valid, LeaseInv, Taken, IsPublished, NoGen
  <2>2. Current = l.gen.digest /\ \A x : ~Waiting(x)
    BY <1>3, <2>1 DEF PublishedInv
  <2>3. hnsw = PointsOf(rows)
    BY <1>3, <2>1, <2>2 DEF PointInv
  <2>4. Visible = Current
    BY <1>3, <2>3, CompleteFindsCurrent DEF FlowInv, ShapeInv
  <2> QED
    BY <2>2, <2>4
<1>4. FlowInv /\ PointInv /\ LeaseInv /\ PublishedInv => LeaseIsRepeatable
  BY <1>3
<1> QED
  BY <1>1, <1>2, <1>4, PointInvAlways, LeaseInvAlways, PTL DEF Spec

----------------------------------------------------------------------------
(* Types.                                                                  *)

\* The arena ids in use are the numbers from one.
LEMMA IdsAreConsecutive ==
    ASSUME ArenaOK(rows)
    PROVE  Ids = 1 .. Cardinality(rows)
<1> DEFINE f == [r \in rows |-> r.id]
<1>1. /\ IsFiniteSet(rows) /\ Cardinality(rows) \in Nat
      /\ \A r \in rows : r.id \in Nat \ {0} /\ r.id <= Cardinality(rows)
      /\ \A r, s \in rows : r.id = s.id => r = s
  BY FS_CardinalityType DEF ArenaOK, Row
<1>2. Ids \subseteq 1 .. Cardinality(rows)
  BY <1>1 DEF Ids
<1>3. f \in Bijection(rows, Ids)
  <2>1. f \in [rows -> Ids] /\ \A t \in Ids : \E x \in rows : f[x] = t
    BY DEF Ids
  <2>2. \A x, y \in rows : f[x] = f[y] => x = y
    BY <1>1
  <2>3. f \in Injection(rows, Ids)
    BY <2>1, <2>2 DEF Injection, IsInjective
  <2>4. f \in Surjection(rows, Ids)
    BY <2>1 DEF Surjection
  <2> QED
    BY <2>3, <2>4 DEF Bijection
<1>4. Cardinality(Ids) = Cardinality(rows)
  BY <1>1, <1>3, FS_Bijection DEF ExistsBijection
<1>5. /\ IsFiniteSet(1 .. Cardinality(rows))
      /\ Cardinality(1 .. Cardinality(rows)) = Cardinality(rows)
  BY <1>1, FS_Interval
<1> QED
  BY <1>2, <1>4, <1>5, FS_Subset

\* What TypeOK says beyond FlowInv and LagInv; the policy's revision is behind the
\* frame that carried it, only a flush has somebody who waits for it.
KindInv ==
    /\ live \subseteq Nodes /\ acl \in Nat /\ acl <= seq
    /\ gen.frontier \in Seqs /\ gen.digest \subseteq Nodes \X Seqs
    /\ \A p \in hnsw : p \in Point
    /\ Len(queue) <= Capacity
    /\ \A i \in DOMAIN queue : queue[i].kind = "flush" => queue[i].by \in {"call", "other"}
    /\ acked \subseteq {"call", "other"}
    /\ other \in BOOLEAN /\ waiting \in BOOLEAN /\ poisoned \in BOOLEAN
    /\ owner \in 0 .. MaxAdmin /\ epoch \in 0 .. MaxAdmin
    /\ op = "recover" => owner < MaxAdmin

\* KindInv holds when the database is opened for the first time.
LEMMA KindInvInit ==
    Init => KindInv
<1> SUFFICES ASSUME Init PROVE KindInv
  OBVIOUS
<1>1. queue = << >> /\ DOMAIN queue = {} /\ Len(queue) = 0
  BY DEF Init
<1>2. other \in BOOLEAN /\ waiting \in BOOLEAN /\ poisoned \in BOOLEAN
  BY DEF Init
<1>3. gen.frontier = 0 /\ gen.digest = {}
  BY DEF Init, NoGen
<1> QED
  BY <1>1, <1>2, <1>3, ServingAssumption DEF Init, KindInv, Seqs

\* The points of an arena have their type.
LEMMA PointsHaveType ==
    ASSUME NEW rs \in SUBSET Row
    PROVE  \A p \in PointsOf(rs) : p \in Point
BY DEF Row, Point, PointsOf

\* Jobs put into the queue, and taken from it.
LEMMA KindInvQueue ==
    ASSUME FlowInv, KindInv,
           \/ Send \/ FlushSend \/ OtherFlush
           \/ IndexTake \/ IndexAcknowledge
    PROVE  /\ Len(queue') <= Capacity
           /\ \A i \in DOMAIN queue' :
                 queue'[i].kind = "flush" => queue'[i].by \in {"call", "other"}
           /\ acked' \subseteq {"call", "other"}
<1>1. queue \in Seq(Job)
  BY DEF FlowInv, ShapeInv
<1>2. CASE Send \/ FlushSend \/ OtherFlush
  <2>1. PICK e \in {Insert(staged), Flush("call"), Flush("other")} :
            queue' = Append(queue, e) /\ Len(queue) < Capacity /\ acked' = acked
    BY <1>2 DEF Send, FlushSend, OtherFlush
  <2>2. e \in Job /\ (e.kind = "flush" => e.by \in {"call", "other"})
    BY <2>1 DEF Insert, Flush, Job, FlowInv, ShapeInv
  <2>3. \A i \in DOMAIN queue' : \/ i \in DOMAIN queue /\ queue'[i] = queue[i]
                                 \/ queue'[i] = e
    BY <1>1, <2>1, <2>2, QueueAppend
  <2>4. Len(queue') = Len(queue) + 1 /\ Len(queue) \in Nat
    BY <1>1, <2>1, <2>2
  <2> QED
    BY <2>1, <2>2, <2>3, <2>4, ServingAssumption DEF KindInv
<1>3. CASE IndexTake \/ IndexAcknowledge
  <2>1. queue # << >> /\ queue' = Tail(queue)
    BY <1>3 DEF IndexTake, IndexAcknowledge
  <2>2. /\ 1 \in DOMAIN queue /\ Head(queue) = queue[1]
        /\ \A i \in DOMAIN queue' : i + 1 \in DOMAIN queue /\ queue'[i] = queue[i + 1]
    BY <1>1, <2>1, QueueTail
  <2>3. Len(queue') = Len(queue) - 1 /\ Len(queue) \in Nat
    BY <1>1, <2>1
  <2>4. acked' \subseteq {"call", "other"}
    BY <1>3, <2>2 DEF IndexTake, IndexAcknowledge, KindInv
  <2> QED
    BY <2>2, <2>3, <2>4, ServingAssumption DEF KindInv
<1> QED
  BY <1>2, <1>3

\* Every step keeps KindInv.
LEMMA KindInvStep ==
    ASSUME FlowInv, FlowInv', KindInv, [Next]_vars
    PROVE  KindInv'
<1>1. seq \in Seqs /\ seq' \in Seqs /\ rows \in SUBSET Row /\ rows' \in SUBSET Row
  BY DEF FlowInv, ShapeInv, ArenaOK
<1>2. CASE \/ UNCHANGED vars \/ PinPublished \/ ArriveCoverage
           \/ \E l \in leases : RevokeLease(l) \/ Expire(l)
  <2>1. /\ UNCHANGED << seq, live, acl, gen, hnsw, queue, acked, other, poisoned, owner,
                        op >>
        /\ waiting' \in BOOLEAN
    BY <1>2 DEF KindInv, vars, PinPublished, ArriveCoverage, RevokeLease, Expire, durable,
       thread, call, lessor, others
  <2>2. epoch' \in 0 .. MaxAdmin
    BY <1>2, ServingAssumption
       DEF KindInv, vars, PinPublished, ArriveCoverage, RevokeLease, Expire, lessor
  <2> QED
    BY <2>1, <2>2 DEF KindInv
<1>3. CASE \/ \E S \in SUBSET Nodes \ {{}} : AddVectors(S)
           \/ \E n \in Nodes : RetractNode(n)
           \/ ReplaceAccessPolicy
  <2>1. /\ UNCHANGED << gen, hnsw, queue, acked, other, waiting, poisoned, owner, epoch >>
        /\ op' # "recover" /\ live' \subseteq Nodes
    BY <1>3 DEF KindInv, AddVectors, RetractNode, ReplaceAccessPolicy, Enter, thread,
       call, lessor, others
  <2>2. acl' \in Nat /\ acl' <= seq'
    BY <1>1, <1>3, ServingAssumption
       DEF KindInv, AddVectors, RetractNode, ReplaceAccessPolicy, Seqs
  <2> QED
    BY <2>1, <2>2 DEF KindInv
<1>4. CASE \/ \E n \in Nodes : Stage(n) \/ Replay(n)
           \/ StageFails \/ Count \/ FlushReturns \/ OtherReturns \/ Query
           \/ BeginCoverage \/ \E g \in Goals : Begin(g)
  <2>1. /\ UNCHANGED << seq, live, acl, gen, hnsw, queue, owner, epoch >>
        /\ acked' \subseteq acked
        /\ op' = op \/ op' # "recover"
    BY <1>4 DEF Stage, Replay, StageFails, Count, FlushReturns, OtherReturns, Query,
       Begin, BeginCoverage, Returns, FlowInv, PhaseInv, Goals, durable, thread, call, lessor
  <2>2. other' \in BOOLEAN /\ waiting' \in BOOLEAN /\ poisoned' \in BOOLEAN
    BY <1>4 DEF KindInv, Stage, Replay, StageFails, Count, FlushReturns, OtherReturns,
       Query, Begin, BeginCoverage, lessor, others
  <2> QED
    BY <2>1, <2>2 DEF KindInv
<1>5. CASE Send \/ FlushSend \/ OtherFlush \/ IndexTake \/ IndexAcknowledge
  <2>1. /\ UNCHANGED << seq, live, acl, gen, hnsw, poisoned, owner, epoch >>
        /\ other' \in BOOLEAN /\ waiting' = waiting /\ (op' = op \/ op' # "recover")
    BY <1>5 DEF KindInv, Send, FlushSend, OtherFlush, IndexTake, IndexAcknowledge,
       durable, call, lessor, others
  <2> QED
    BY <1>5, <2>1, KindInvQueue DEF KindInv
<1>6. CASE IndexInsert \/ IndexCount
  <2>1. UNCHANGED << seq, live, acl, gen, queue, acked, other, waiting, poisoned, owner,
                     epoch, op >>
    BY <1>6 DEF IndexInsert, IndexCount, durable, call, lessor, others
  <2>2. \A p \in hnsw' : p \in Point
    <3>1. \A x \in job.items : Coded(x, job.center) \in Point
      BY DEF FlowInv, ShapeInv, Coded, Item, Point
    <3> QED
      BY <1>6, <3>1 DEF IndexInsert, IndexCount, KindInv
  <2> QED
    BY <2>1, <2>2 DEF KindInv
<1>7. CASE Compact
  BY <1>7 DEF KindInv, Compact, durable, thread, lessor, others
<1>8. CASE Rebuild
  <2>1. \A p \in hnsw' : p \in Point
    BY <1>1, <1>8, PointsHaveType DEF Rebuild
  <2> QED
    BY <1>8, <2>1 DEF KindInv, Rebuild, Returns, durable, thread, lessor, others
<1>9. CASE Publish
  <2>1. /\ gen'.frontier = seq /\ gen'.digest = Current /\ seq' = seq + 1
        /\ UNCHANGED << live, acl, hnsw, queue, acked, other, waiting, poisoned, owner,
                        epoch >>
        /\ op' = "idle"
    BY <1>9 DEF Publish, NextGen, Returns, thread, others
  <2>2. Current \subseteq Nodes \X Seqs
    BY <1>1 DEF Row, Current
  <2> QED
    BY <1>1, <2>1, <2>2 DEF KindInv, Seqs
<1>10. CASE Crash
  <2>1. /\ UNCHANGED << seq, live, acl, gen, hnsw, poisoned, owner, epoch >>
        /\ queue' = << >> /\ acked' = {} /\ other' = FALSE /\ waiting' = FALSE
        /\ owner < MaxAdmin
    BY <1>10 DEF Crash, durable, lessor
  <2>2. Len(queue') = 0 /\ DOMAIN queue' = {}
    BY <2>1
  <2>3. other' \in BOOLEAN /\ waiting' \in BOOLEAN
    BY <2>1
  <2> QED
    BY <2>1, <2>2, <2>3, ServingAssumption DEF KindInv
<1>11. CASE Opened
  <2>1. /\ UNCHANGED << seq, live, acl, gen, queue, acked, other, waiting >>
        /\ hnsw' = PointsOf(rows') /\ owner' = owner + 1 /\ epoch' = 0
        /\ poisoned' = FALSE /\ op = "recover" /\ op' = "idle"
    BY <1>11 DEF Opened, durable, thread, others
  <2>2. \A p \in hnsw' : p \in Point
    BY <1>1, <2>1, PointsHaveType
  <2>3. poisoned' \in BOOLEAN
    BY <2>1
  <2>4. owner' \in 0 .. MaxAdmin /\ epoch' \in 0 .. MaxAdmin
    BY <2>1, ServingAssumption DEF KindInv
  <2> QED
    BY <2>1, <2>2, <2>3, <2>4 DEF KindInv
<1>12. CASE PublishFails
  <2>1. /\ UNCHANGED << live, acl, hnsw, queue, acked, other, waiting, owner, epoch >>
        /\ op' = "idle" /\ seq <= seq'
    BY <1>1, <1>12 DEF PublishFails, Returns, thread, others, Seqs
  <2>2. poisoned' \in BOOLEAN
    BY <1>12 DEF PublishFails, KindInv
  <2>3. Current \subseteq Nodes \X Seqs
    BY <1>1 DEF Row, Current
  <2>4. gen'.frontier \in Seqs /\ gen'.digest \subseteq Nodes \X Seqs
    BY <1>1, <1>12, <2>3 DEF PublishFails, NextGen, KindInv
  <2> QED
    BY <1>1, <2>1, <2>2, <2>4 DEF KindInv, Seqs
<1> QED
  BY <1>2, <1>3, <1>4, <1>5, <1>6, <1>7, <1>8, <1>9, <1>10, <1>11, <1>12
     DEF Next, Proceed, IndexThread, Goals

\* Every variable keeps its type: arena ids stay consecutive through staging,
\* replay, compaction and opening again, the index queue never exceeds its
\* capacity, and the unsigned index_pending is never lowered below zero.
THEOREM TypeAlwaysOK ==
    Spec => []TypeOK
<1>1. FlowInv /\ FlowInv' /\ KindInv /\ [Next]_vars => KindInv'
  BY KindInvStep
<1>2. ASSUME FlowInv, LagInv, KindInv PROVE TypeOK
  <2>1. Ids = 1 .. Cardinality(rows)
    BY <1>2, IdsAreConsecutive DEF FlowInv, ShapeInv
  <2>2. pending \in Nat
    BY <1>2, FS_CardinalityType DEF LagInv
  <2>3. acl \in Seqs /\ seq \in Seqs
    BY <1>2, ServingAssumption DEF FlowInv, ShapeInv, KindInv, Seqs
  <2>4. /\ rows \subseteq Row /\ center \in 0 .. MaxAdmin /\ queue \in Seq(Job)
        /\ job.at \in {"recv", "insert", "count"} /\ todo \subseteq Nodes
        /\ op \in {"idle", "stage", "send", "flush", "wait", "compact", "rebuild",
                   "query", "coverage", "publish", "pin", "recover"}
    BY <1>2 DEF FlowInv, ShapeInv, PhaseInv, ArenaOK, Goals
  <2> QED
    BY <1>2, <2>1, <2>2, <2>3, <2>4 DEF TypeOK, KindInv
<1>3. FlowInv /\ LagInv /\ KindInv => TypeOK
  BY <1>2
<1> QED
  BY KindInvInit, <1>1, <1>3, PointInvAlways, LagInvAlways, PTL DEF Spec

============================================================================
