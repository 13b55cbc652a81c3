------------------------- MODULE CommandQueueProofs -------------------------
(***************************************************************************)
(* Proofs about CommandQueue.  The inductive invariant IInv adds to the    *)
(* safety invariants that every known id is below nextId, without which    *)
(* the entry inserted last could not be shown to be the youngest.          *)
(*                                                                         *)
(* Every critical section other than an insertion thins the queue out: it  *)
(* removes entries and keeps the order of the others.  Thins states that   *)
(* once, so each invariant is shown to survive thinning in one place.      *)
(***************************************************************************)
EXTENDS CommandQueue, QueueLemmas

Thins(r, q) ==
    /\ r \in Seq(Cmd)
    /\ Len(r) <= Len(q)
    /\ \A m \in 1..Len(r) : \E i \in 1..Len(q) : r[m] = q[i]
    /\ \A m, n \in 1..Len(r) : m < n =>
          \E i, j \in 1..Len(q) : i < j /\ r[m] = q[i] /\ r[n] = q[j]

\* The invariants as predicates of a queue value.
Ordered(q)    == \A i, j \in 1..Len(q) : i < j => Before(q[i], q[j])
Distinct(q)   == \A i, j \in 1..Len(q) : i < j => q[i].id # q[j].id
Known(q, n)   == \A i \in 1..Len(q) : q[i].id < n
Bounded(q)    == Len(q) > MaxQueueSize => \A i \in 1..Len(q) : q[i].kind \in Essential
Apart(q, c)   == \A i \in 1..Len(q) : q[i].id # c.id

IInv ==
    /\ TypeOK
    /\ Ordered(queue)
    /\ Distinct(queue)
    /\ Known(queue, nextId)
    /\ Bounded(queue)
    /\ current # NoCmd => current.id < nextId /\ Apart(queue, current)
    /\ (proc = "busy") = (current # NoCmd)
    /\ NoLostWakeup

-----------------------------------------------------------------------------
(* The operators on queue values. *)

(* Without returns the entries not named, in their order.                  *)
LEMMA WithoutThins ==
  ASSUME NEW q \in Seq(Cmd), NEW ids
  PROVE  Thins(Without(q, ids), q)
<1> DEFINE K == {i \in DOMAIN q : q[i].id \notin ids}
           upto(i) == {j \in K : j <= i}
           rank == [i \in K |-> Cardinality(upto(i))]
           at(n) == CHOOSE i \in K : Cardinality(upto(i)) = n
           C == Cardinality(K)
<1>0. Len(q) \in Nat /\ DOMAIN q = 1..Len(q) /\ \A i \in 1..Len(q) : q[i] \in Cmd
  OBVIOUS
<1>1. IsFiniteSet(K) /\ K \subseteq 1..Len(q) /\ C \in Nat /\ C <= Len(q)
  <2>1. IsFiniteSet(1..Len(q)) /\ Cardinality(1..Len(q)) = Len(q)
    BY <1>0, CardInterval
  <2>2. K \in SUBSET (1..Len(q)) BY <1>0
  <2> HIDE DEF K
  <2> QED BY <2>1, <2>2, FS_Subset, FS_CardinalityType
<1>11. \A i \in K : i \in Nat BY <1>0
<1> HIDE DEF K
<1>2. \A i \in K : upto(i) \in SUBSET K /\ IsFiniteSet(upto(i))
  BY <1>1, FS_Subset
<1>3. \A i, j \in K : i < j => Cardinality(upto(i)) < Cardinality(upto(j))
  <2> SUFFICES ASSUME NEW i \in K, NEW j \in K, i < j
               PROVE  Cardinality(upto(i)) < Cardinality(upto(j))
    OBVIOUS
  <2>0. i \in Nat /\ j \in Nat BY <1>11
  <2>1. upto(i) \in SUBSET upto(j) /\ j \in upto(j) /\ j \notin upto(i)
    <3>1. \A k \in K : k <= i => k <= j BY <2>0, <1>11
    <3>2. j <= j /\ ~(j <= i) BY <2>0
    <3> QED BY <3>1, <3>2
  <2>2. IsFiniteSet(upto(i)) /\ IsFiniteSet(upto(j)) BY <1>2
  <2> HIDE DEF upto
  <2>3. Cardinality(upto(i)) <= Cardinality(upto(j)) BY <2>1, <2>2, FS_Subset
  <2>4. Cardinality(upto(i)) # Cardinality(upto(j)) BY <2>1, <2>2, FS_Subset
  <2>5. Cardinality(upto(i)) \in Nat /\ Cardinality(upto(j)) \in Nat
    BY <2>2, FS_CardinalityType
  <2> QED BY <2>3, <2>4, <2>5
<1>4. \A i \in K : Cardinality(upto(i)) \in 1..C
  <2> SUFFICES ASSUME NEW i \in K PROVE Cardinality(upto(i)) \in 1..C OBVIOUS
  <2>1. upto(i) \in SUBSET K /\ IsFiniteSet(upto(i)) BY <1>2
  <2>2. i \in upto(i) BY <1>1
  <2> HIDE DEF upto
  <2>3. Cardinality(upto(i)) <= C BY <2>1, <1>1, FS_Subset
  <2>4. Cardinality(upto(i)) \in Nat BY <2>1, FS_CardinalityType
  <2>5. Cardinality(upto(i)) # 0 BY <2>1, <2>2, FS_EmptySet
  <2> QED BY <2>3, <2>4, <2>5, <1>1
<1>5. \A n \in 1..C : \E i \in K : Cardinality(upto(i)) = n
  <2> HIDE DEF upto
  <2>1. rank \in [K -> 1..C] BY <1>4
  <2>2. \A i, j \in K : i # j => Cardinality(upto(i)) # Cardinality(upto(j))
    <3> SUFFICES ASSUME NEW i \in K, NEW j \in K, i # j
                 PROVE  Cardinality(upto(i)) # Cardinality(upto(j))
      OBVIOUS
    <3>1. i \in Nat /\ j \in Nat BY <1>11
    <3>2. Cardinality(upto(i)) \in Nat /\ Cardinality(upto(j)) \in Nat
      BY <1>4
    <3>3. i < j \/ j < i BY <3>1
    <3> QED BY <3>2, <3>3, <1>3
  <2>3. rank \in Injection(K, 1..C) BY <2>1, <2>2 DEF Injection, IsInjective
  <2>4. IsFiniteSet(1..C) /\ Cardinality(1..C) = C BY <1>1, CardInterval
  <2> HIDE DEF rank
  <2>5. rank \in Surjection(K, 1..C) BY <2>3, <2>4, FS_Injection
  <2>6. \A n \in 1..C : \E i \in K : rank[i] = n BY <2>5 DEF Surjection
  <2> QED BY <2>6 DEF rank
<1>6. \A n \in 1..C : at(n) \in K /\ Cardinality(upto(at(n))) = n BY <1>5
<1>7. \A m, n \in 1..C : m < n => at(m) < at(n)
  <2> SUFFICES ASSUME NEW m \in 1..C, NEW n \in 1..C, m < n
               PROVE  at(m) < at(n)
    OBVIOUS
  <2>1. at(m) \in K /\ at(n) \in K BY <1>6
  <2>2. Cardinality(upto(at(m))) = m /\ Cardinality(upto(at(n))) = n BY <1>6
  <2> HIDE DEF at, upto
  <2>3. at(m) \in Nat /\ at(n) \in Nat BY <2>1, <1>11
  <2>4. ~(at(n) < at(m)) BY <2>1, <2>2, <2>3, <1>3
  <2>5. at(n) # at(m) BY <2>2
  <2> QED BY <2>3, <2>4, <2>5
<1> DEFINE r == [n \in 1..C |-> q[at(n)]]
<1>8. Without(q, ids) = r BY DEF Without, K
<1> HIDE DEF at, upto, C
<1>9. \A n \in 1..C : at(n) \in 1..Len(q) BY <1>6, <1>1
<1>10. r \in Seq(Cmd) /\ Len(r) = C /\ \A n \in 1..C : r[n] = q[at(n)]
  BY <1>0, <1>1, <1>9
<1> HIDE DEF r
<1> QED BY <1>1, <1>7, <1>8, <1>9, <1>10 DEF Thins

(* Whatever a queue satisfies, its thinned form satisfies.                 *)
LEMMA ThinsKeeps ==
  ASSUME NEW q \in Seq(Cmd), NEW r, Thins(r, q), NEW n, NEW c
  PROVE  /\ Ordered(q) => Ordered(r)
         /\ Distinct(q) => Distinct(r)
         /\ Known(q, n) => Known(r, n)
         /\ Bounded(q) => Bounded(r)
         /\ Apart(q, c) => Apart(r, c)
<1>1. r \in Seq(Cmd) /\ Len(r) \in Nat /\ Len(q) \in Nat /\ Len(r) <= Len(q)
  BY DEF Thins
<1>2. \A m \in 1..Len(r) : \E i \in 1..Len(q) : r[m] = q[i] BY DEF Thins
<1>3. ASSUME Ordered(q) PROVE Ordered(r)
  <2> SUFFICES ASSUME NEW a \in 1..Len(r), NEW b \in 1..Len(r), a < b
               PROVE  Before(r[a], r[b])
    BY DEF Ordered
  <2>1. PICK i \in 1..Len(q), j \in 1..Len(q) : i < j /\ r[a] = q[i] /\ r[b] = q[j]
    BY DEF Thins
  <2> QED BY <1>3, <2>1 DEF Ordered
<1>7. ASSUME Distinct(q) PROVE Distinct(r)
  <2> SUFFICES ASSUME NEW a \in 1..Len(r), NEW b \in 1..Len(r), a < b
               PROVE  r[a].id # r[b].id
    BY DEF Distinct
  <2>1. PICK i \in 1..Len(q), j \in 1..Len(q) : i < j /\ r[a] = q[i] /\ r[b] = q[j]
    BY DEF Thins
  <2> QED BY <1>7, <2>1 DEF Distinct
<1>4. Known(q, n) => Known(r, n) BY <1>2 DEF Known
<1>5. ASSUME Bounded(q) PROVE Bounded(r)
  <2> SUFFICES ASSUME Len(r) > MaxQueueSize, NEW m \in 1..Len(r)
               PROVE  r[m].kind \in Essential
    BY DEF Bounded
  <2>1. Len(q) > MaxQueueSize BY <1>1, LimitAssumption
  <2> QED BY <1>2, <1>5, <2>1 DEF Bounded
<1>6. Apart(q, c) => Apart(r, c) BY <1>2 DEF Apart
<1> QED BY <1>3, <1>4, <1>5, <1>6, <1>7

LEMMA EmptyThins == ASSUME NEW q \in Seq(Cmd) PROVE Thins(<<>>, q)
  BY DEF Thins

LEMMA TailThins ==
  ASSUME NEW q \in Seq(Cmd), q # <<>>
  PROVE  Thins(Tail(q), q)
<1>1. /\ Tail(q) \in Seq(Cmd) /\ Len(Tail(q)) = Len(q) - 1 /\ Len(q) \in Nat
      /\ \A i \in 1..Len(q) - 1 : Tail(q)[i] = q[i + 1]
  BY HeadTailProperties
<1>2. \A m \in 1..Len(q) - 1 : m + 1 \in 1..Len(q) BY <1>1
<1>3. \A m, n \in 1..Len(q) - 1 : m < n => m + 1 < n + 1 BY <1>1
<1> QED BY <1>1, <1>2, <1>3 DEF Thins

LEMMA RemoveAtThins ==
  ASSUME NEW q \in Seq(Cmd), NEW i \in 1..Len(q)
  PROVE  Thins(RemoveAt(q, i), q)
<1> DEFINE r == RemoveAt(q, i)
           from(k) == IF k < i THEN k ELSE k + 1
<1>1. /\ r \in Seq(Cmd) /\ Len(r) = Len(q) - 1 /\ Len(q) \in Nat /\ i \in Nat
      /\ \A j \in 1..Len(q) - 1 : r[j] = IF j < i THEN q[j] ELSE q[j + 1]
  BY RemoveAtProps
<1> HIDE DEF r
<1>2. \A j \in 1..Len(r) : from(j) \in 1..Len(q) BY <1>1
<1>3. \A j, k \in 1..Len(r) : j < k => from(j) < from(k) BY <1>1
<1>4. \A j \in 1..Len(r) : r[j] = q[from(j)] BY <1>1
<1> HIDE DEF from
<1>5. Len(r) <= Len(q) BY <1>1
<1>6. Thins(r, q) BY <1>1, <1>2, <1>3, <1>4, <1>5 DEF Thins
<1> QED BY <1>6 DEF r

LEMMA TrimThins ==
  ASSUME NEW q \in Seq(Cmd)
  PROVE  Thins(Trim(q), q)
<1>1. CASE Trim(q) = q
  <2>1. Len(q) \in Nat OBVIOUS
  <2> QED BY <1>1, <2>1 DEF Thins
<1>2. CASE \E i \in Droppable(q) : Trim(q) = RemoveAt(q, i)
  <2>1. Droppable(q) \subseteq 1..Len(q) BY DEF Droppable
  <2> QED BY <1>2, <2>1, RemoveAtThins
<1> QED BY <1>1, <1>2, TrimProps

(* The queue with c at its insertion point, before any trimming.           *)
Placed(q, c) == InsertAt(q, InsertPos(q, c.prio), c)

(* Placing the youngest command keeps the queue typed, ordered and known,  *)
(* and adds that command and nothing else.                                 *)
LEMMA PlacedKeeps ==
  ASSUME NEW q \in Seq(Cmd), NEW c \in Cmd, Ordered(q), Distinct(q), Known(q, c.id)
  PROVE  /\ Placed(q, c) \in Seq(Cmd)
         /\ Len(Placed(q, c)) = Len(q) + 1
         /\ Ordered(Placed(q, c))
         /\ Distinct(Placed(q, c))
         /\ Known(Placed(q, c), c.id + 1)
         /\ ToSet(Placed(q, c)) = ToSet(q) \cup {c}
<1> DEFINE p == InsertPos(q, c.prio)
           s == InsertAt(q, p, c)
<1>0. Len(q) \in Nat /\ c.prio \in Priority /\ c.id \in Nat BY DEF Cmd
<1>1. /\ p \in 1..Len(q) + 1
      /\ \A j \in 1..p - 1 : q[j].prio <= c.prio
      /\ p <= Len(q) => q[p].prio > c.prio
  <2>1. \A d \in Cmd : d.prio \in Priority BY DEF Cmd
  <2> QED BY <2>1, <1>0, InsertPosProps
<1> HIDE DEF p
<1>2. /\ s \in Seq(Cmd) /\ Len(s) = Len(q) + 1
      /\ \A j \in 1..Len(q) + 1 :
            s[j] = IF j < p THEN q[j] ELSE IF j = p THEN c ELSE q[j - 1]
  BY <1>1, InsertAtProps
<1> HIDE DEF s
<1>3. Placed(q, c) = s BY DEF Placed, s, p
<1>4. /\ p \in Nat
      /\ \A j \in 1..Len(q) : q[j].prio \in Int /\ q[j].id \in Nat
      /\ c.prio \in Int
  <2>1. \A x \in Priority : x \in Int
    BY DEF Priority, Critical, High, Normal, Low
  <2>2. \A i \in 1..Len(q) : q[i] \in Cmd OBVIOUS
  <2>3. \A d \in Cmd : d.prio \in Priority /\ d.id \in Nat BY DEF Cmd
  <2> QED BY <1>0, <1>1, <2>1, <2>2, <2>3
<1>5. Ordered(s)
  <2> SUFFICES ASSUME NEW a \in 1..Len(s), NEW b \in 1..Len(s), a < b
               PROVE  Before(s[a], s[b])
    BY DEF Ordered
  <2>0. a \in Nat /\ b \in Nat /\ a \in 1..Len(q) + 1 /\ b \in 1..Len(q) + 1
    BY <1>2
  <2>1. CASE b < p
    <3>1. a < p /\ a \in 1..Len(q) /\ b \in 1..Len(q) BY <2>0, <2>1, <1>0, <1>1, <1>4
    <3>2. s[a] = q[a] /\ s[b] = q[b] BY <2>0, <2>1, <3>1, <1>2
    <3> QED BY <3>1, <3>2 DEF Ordered
  <2>2. CASE b = p
    <3>1. a \in 1..p - 1 /\ a \in 1..Len(q) BY <2>0, <2>2, <1>0, <1>1, <1>4
    <3>2. s[a] = q[a] /\ s[b] = c BY <2>0, <2>2, <3>1, <1>2
    <3>3. q[a].prio <= c.prio /\ q[a].id < c.id BY <3>1, <1>1 DEF Known
    <3> QED BY <3>1, <3>2, <3>3, <1>4 DEF Before
  <2>3. CASE b > p /\ a < p
    <3>1. a \in 1..p - 1 /\ a \in 1..Len(q) /\ b - 1 \in 1..Len(q) /\ a < b - 1
      BY <2>0, <2>3, <1>0, <1>1, <1>4
    <3>2. s[a] = q[a] /\ s[b] = q[b - 1]
      <4>1. ~(b < p) /\ b # p BY <2>0, <2>3, <1>4
      <4> QED BY <2>0, <2>3, <4>1, <1>2
    <3> QED BY <3>1, <3>2 DEF Ordered
  <2>4. CASE b > p /\ a = p
    <3>1. b - 1 \in 1..Len(q) /\ p \in 1..Len(q) /\ (p = b - 1 \/ p < b - 1)
      BY <2>0, <2>4, <1>0, <1>1, <1>4
    <3>2. s[a] = c /\ s[b] = q[b - 1] BY <2>0, <2>4, <1>2
    <3>3. q[p].prio > c.prio BY <3>1, <1>1
    <3>4. q[p].prio <= q[b - 1].prio
      <4>1. CASE p = b - 1 BY <4>1, <3>1, <1>4
      <4>2. CASE p < b - 1
        <5>1. Before(q[p], q[b - 1]) BY <3>1, <4>2 DEF Ordered
        <5> QED BY <5>1, <3>1, <1>4 DEF Before
      <4> QED BY <3>1, <4>1, <4>2
    <3> QED BY <3>1, <3>2, <3>3, <3>4, <1>4 DEF Before
  <2>5. CASE b > p /\ a > p
    <3>1. a - 1 \in 1..Len(q) /\ b - 1 \in 1..Len(q) /\ a - 1 < b - 1
      BY <2>0, <2>5, <1>0, <1>1, <1>4
    <3>2. s[a] = q[a - 1] /\ s[b] = q[b - 1]
      <4>1. ~(a < p) /\ a # p /\ ~(b < p) /\ b # p BY <2>0, <2>5, <1>4
      <4> QED BY <2>0, <4>1, <1>2
    <3> QED BY <3>1, <3>2 DEF Ordered
  <2>6. b < p \/ b = p \/ (b > p /\ (a < p \/ a = p \/ a > p)) BY <2>0, <1>4
  <2> QED BY <2>1, <2>2, <2>3, <2>4, <2>5, <2>6
<1>6. \A j \in 1..Len(s) : s[j] = c \/ \E i \in 1..Len(q) : s[j] = q[i]
  <2> SUFFICES ASSUME NEW j \in 1..Len(s)
               PROVE  s[j] = c \/ \E i \in 1..Len(q) : s[j] = q[i]
    OBVIOUS
  <2>1. j \in 1..Len(q) + 1 BY <1>2
  <2>2. CASE j < p
    <3>1. j \in 1..Len(q) BY <2>1, <2>2, <1>0, <1>1
    <3> QED BY <2>1, <2>2, <3>1, <1>2
  <2>3. CASE j > p
    <3>1. j - 1 \in 1..Len(q) /\ ~(j < p) /\ j # p BY <2>1, <2>3, <1>0, <1>1, <1>4
    <3> QED BY <2>1, <3>1, <1>2
  <2>4. CASE j = p BY <2>1, <2>4, <1>2, <1>4
  <2> QED BY <2>1, <2>2, <2>3, <2>4, <1>4
<1>14. Distinct(s)
  <2> SUFFICES ASSUME NEW a \in 1..Len(s), NEW b \in 1..Len(s), a < b
               PROVE  s[a].id # s[b].id
    BY DEF Distinct
  <2> DEFINE from(k) == IF k < p THEN k ELSE k - 1
  <2>0. a \in 1..Len(q) + 1 /\ b \in 1..Len(q) + 1 BY <1>2
  <2>1. \A k \in 1..Len(q) + 1 : k # p => from(k) \in 1..Len(q) /\ s[k] = q[from(k)]
    <3> SUFFICES ASSUME NEW k \in 1..Len(q) + 1, k # p
                 PROVE  from(k) \in 1..Len(q) /\ s[k] = q[from(k)]
      OBVIOUS
    <3>1. from(k) \in 1..Len(q) BY <1>0, <1>1, <1>4
    <3>2. CASE k < p BY <3>1, <3>2, <1>2
    <3>3. CASE ~(k < p) BY <3>1, <3>3, <1>2
    <3> QED BY <3>1, <3>2, <3>3
  <2>2. CASE a # p /\ b # p
    <3>1. from(a) < from(b) BY <2>0, <2>2, <1>4
    <3> HIDE DEF from
    <3> QED BY <2>0, <2>1, <2>2, <3>1 DEF Distinct
  <2>3. CASE a = p
    <3>1. b # p BY <2>3, <1>4
    <3>2. s[a] = c BY <2>0, <2>3, <1>2, <1>4
    <3> HIDE DEF from
    <3>3. s[b].id < c.id BY <2>0, <2>1, <3>1 DEF Known
    <3> QED BY <3>2, <3>3, <1>0
  <2>4. CASE b = p
    <3>1. a # p BY <2>4, <1>4
    <3>2. s[b] = c BY <2>0, <2>4, <1>2, <1>4
    <3> HIDE DEF from
    <3>3. s[a].id < c.id BY <2>0, <2>1, <3>1 DEF Known
    <3> QED BY <3>2, <3>3, <1>0
  <2> QED BY <2>2, <2>3, <2>4
<1>7. Known(s, c.id + 1)
  <2>1. \A i \in 1..Len(q) : q[i].id < c.id + 1 BY <1>0, <1>4 DEF Known
  <2>2. c.id < c.id + 1 BY <1>0
  <2> QED BY <1>6, <2>1, <2>2 DEF Known
<1>8. ToSet(s) = ToSet(q) \cup {c}
  <2>1. DOMAIN s = 1..Len(s) /\ DOMAIN q = 1..Len(q) BY <1>2
  <2>2. \A x \in ToSet(s) : x \in ToSet(q) \cup {c} BY <1>6, <2>1 DEF ToSet
  <2>3. s[p] = c /\ p \in 1..Len(s) BY <1>1, <1>2, <1>4
  <2>4. ASSUME NEW i \in 1..Len(q) PROVE \E j \in 1..Len(s) : s[j] = q[i]
    <3>1. CASE i < p
      <4>1. i \in 1..Len(q) + 1 BY <1>0
      <4>2. s[i] = q[i] BY <1>2, <3>1, <4>1
      <4> QED BY <4>1, <4>2, <1>2
    <3>2. CASE ~(i < p)
      <4>1. /\ i + 1 \in 1..Len(q) + 1 /\ ~(i + 1 < p) /\ i + 1 # p
            /\ (i + 1) - 1 = i
        BY <1>0, <1>4, <3>2
      <4>2. s[i + 1] = q[i] BY <1>2, <4>1
      <4> QED BY <4>1, <4>2, <1>2
    <3> QED BY <3>1, <3>2
  <2> QED BY <2>1, <2>2, <2>3, <2>4 DEF ToSet
<1> QED BY <1>2, <1>3, <1>5, <1>7, <1>8, <1>14

(* An insertion keeps the queue typed, ordered, known and bounded.         *)
LEMMA InsertedKeeps ==
  ASSUME NEW q \in Seq(Cmd), NEW c \in Cmd, Ordered(q), Distinct(q), Known(q, c.id),
         Bounded(q)
  PROVE  /\ Inserted(q, c) \in Seq(Cmd)
         /\ Ordered(Inserted(q, c))
         /\ Distinct(Inserted(q, c))
         /\ Known(Inserted(q, c), c.id + 1)
         /\ Bounded(Inserted(q, c))
         /\ \A d : Apart(q, d) /\ d.id # c.id => Apart(Inserted(q, c), d)
<1> DEFINE p == InsertPos(q, c.prio)
           s == InsertAt(q, p, c)
<1>0. Len(q) \in Nat /\ c.prio \in Priority /\ c.id \in Nat BY DEF Cmd
<1>1. /\ p \in 1..Len(q) + 1
      /\ \A j \in 1..p - 1 : q[j].prio <= c.prio
      /\ p <= Len(q) => q[p].prio > c.prio
  <2>1. \A d \in Cmd : d.prio \in Priority BY DEF Cmd
  <2> QED BY <2>1, <1>0, InsertPosProps
<1> HIDE DEF p
<1>2. /\ s \in Seq(Cmd) /\ Len(s) = Len(q) + 1
      /\ \A j \in 1..Len(q) + 1 :
            s[j] = IF j < p THEN q[j] ELSE IF j = p THEN c ELSE q[j - 1]
  BY <1>1, InsertAtProps
<1> HIDE DEF s
<1>3. Inserted(q, c) = Trim(s) /\ Placed(q, c) = s BY DEF Inserted, Placed, s, p
<1>4. /\ p \in Nat
      /\ \A j \in 1..Len(q) : q[j].prio \in Int /\ q[j].id \in Nat
      /\ c.prio \in Int
  <2>1. \A x \in Priority : x \in Int
    BY DEF Priority, Critical, High, Normal, Low
  <2>2. \A i \in 1..Len(q) : q[i] \in Cmd OBVIOUS
  <2>3. \A d \in Cmd : d.prio \in Priority /\ d.id \in Nat BY DEF Cmd
  <2> QED BY <1>0, <1>1, <2>1, <2>2, <2>3
<1>5. /\ Ordered(s) /\ Distinct(s) /\ Known(s, c.id + 1)
      /\ ToSet(s) = ToSet(q) \cup {c}
  BY <1>3, PlacedKeeps
<1>8. ASSUME NEW d, Apart(q, d), d.id # c.id PROVE Apart(s, d)
  <2>1. DOMAIN s = 1..Len(s) /\ DOMAIN q = 1..Len(q) BY <1>2
  <2>2. ASSUME NEW i \in 1..Len(s) PROVE s[i].id # d.id
    <3>1. s[i] \in ToSet(q) \cup {c} BY <1>5, <2>1 DEF ToSet
    <3> QED BY <1>8, <2>1, <3>1 DEF ToSet, Apart
  <2> QED BY <2>2 DEF Apart
<1>9. Thins(Trim(s), s) BY <1>2, TrimThins
<1>10. Bounded(Trim(s))
  <2>1. CASE Trim(s) = s /\ (Len(s) > MaxQueueSize => Droppable(s) = {})
    <3> SUFFICES ASSUME Len(s) > MaxQueueSize, NEW i \in 1..Len(s)
                 PROVE  s[i].kind \in Essential
      BY <2>1 DEF Bounded
    <3>1. i \notin Droppable(s) BY <2>1
    <3>2. i \in DOMAIN s BY <1>2
    <3> QED BY <3>1, <3>2 DEF Droppable
  <2>2. CASE \E i \in Droppable(s) : Trim(s) = RemoveAt(s, i)
    <3>1. PICK i \in Droppable(s) : Trim(s) = RemoveAt(s, i) BY <2>2
    <3>2. i \in 1..Len(s) /\ s[i].kind \notin Essential BY <1>2 DEF Droppable
    <3>3. /\ Len(Trim(s)) = Len(s) - 1
          /\ \A j \in 1..Len(s) - 1 : Trim(s)[j] = IF j < i THEN s[j] ELSE s[j + 1]
      BY <3>1, <3>2, <1>2, RemoveAtProps
    <3> SUFFICES ASSUME Len(Trim(s)) > MaxQueueSize, NEW j \in 1..Len(Trim(s))
                 PROVE  Trim(s)[j].kind \in Essential
      BY DEF Bounded
    <3>4. Len(q) > MaxQueueSize BY <3>3, <1>2, <1>0, LimitAssumption
    <3>5. \A k \in 1..Len(q) : q[k].kind \in Essential BY <3>4 DEF Bounded
    <3>6. \A k \in 1..Len(s) : k # p => s[k].kind \in Essential
      <4> SUFFICES ASSUME NEW k \in 1..Len(s), k # p PROVE s[k].kind \in Essential
        OBVIOUS
      <4>1. k \in 1..Len(q) + 1 BY <1>2
      <4>2. CASE k < p
        <5>1. k \in 1..Len(q) BY <4>1, <4>2, <1>0, <1>1
        <5> QED BY <4>1, <4>2, <5>1, <1>2, <3>5
      <4>3. CASE k > p
        <5>1. k - 1 \in 1..Len(q) /\ ~(k < p) BY <4>1, <4>3, <1>0, <1>1, <1>4
        <5> QED BY <4>1, <5>1, <1>2, <3>5
      <4> QED BY <4>1, <4>2, <4>3, <1>4
    <3>7. i = p BY <3>2, <3>6
    <3>8. j \in 1..Len(s) - 1 BY <3>3
    <3>9. CASE j < i
      <4>1. j \in 1..Len(s) /\ j # p BY <3>7, <3>8, <3>9, <1>2, <1>4, <1>0
      <4> QED BY <3>3, <3>6, <3>8, <3>9, <4>1
    <3>10. CASE ~(j < i)
      <4>1. j + 1 \in 1..Len(s) /\ j + 1 # p BY <3>7, <3>8, <3>10, <1>2, <1>4, <1>0
      <4> QED BY <3>3, <3>6, <3>8, <3>10, <4>1
    <3> QED BY <3>9, <3>10
  <2> QED BY <2>1, <2>2, <1>2, TrimProps
<1>11. Trim(s) \in Seq(Cmd) BY <1>9 DEF Thins
<1>12. Ordered(Trim(s)) /\ Distinct(Trim(s)) /\ Known(Trim(s), c.id + 1)
  BY <1>2, <1>5, <1>9, ThinsKeeps
<1>13. ASSUME NEW d, Apart(q, d), d.id # c.id PROVE Apart(Trim(s), d)
  <2>1. Apart(s, d) BY <1>8, <1>13
  <2> QED BY <2>1, <1>2, <1>9, ThinsKeeps
<1> QED BY <1>3, <1>10, <1>11, <1>12, <1>13, Zenon

(* After one removal the loop of enqueue stops: its guard is false, so Trim *)
(* is the whole loop.                                                      *)
LEMMA TrimOnce ==
  ASSUME NEW q \in Seq(Cmd), NEW c \in Cmd, Ordered(q), Distinct(q), Known(q, c.id),
         Bounded(q)
  PROVE  ~ (Len(Inserted(q, c)) > MaxQueueSize /\ Droppable(Inserted(q, c)) # {})
<1>1. Inserted(q, c) \in Seq(Cmd) /\ Bounded(Inserted(q, c)) BY InsertedKeeps
<1> QED BY <1>1 DEF Bounded, Droppable

(* The queue as a set of commands, as PendingCommands sees it.             *)
LEMMA CardOfDistinct ==
  ASSUME NEW q \in Seq(Cmd), Distinct(q)
  PROVE  IsFiniteSet(ToSet(q)) /\ Cardinality(ToSet(q)) = Len(q)
<1> DEFINE S == ToSet(q)
<1>0. Len(q) \in Nat /\ DOMAIN q = 1..Len(q) OBVIOUS
<1>1. q \in [1..Len(q) -> S] /\ \A x \in S : \E i \in 1..Len(q) : q[i] = x
  BY <1>0 DEF ToSet
<1>2. ASSUME NEW i \in 1..Len(q), NEW j \in 1..Len(q), q[i] = q[j] PROVE i = j
  <2>1. ~(i < j) /\ ~(j < i) BY <1>2 DEF Distinct
  <2> QED BY <1>0, <2>1
<1> HIDE DEF S
<1>3. q \in Bijection(1..Len(q), S)
  BY <1>1, <1>2 DEF Bijection, Injection, Surjection, IsInjective
<1>4. ExistsBijection(1..Len(q), S) BY <1>3 DEF ExistsBijection
<1>5. IsFiniteSet(1..Len(q)) /\ Cardinality(1..Len(q)) = Len(q) BY <1>0, CardInterval
<1> QED BY <1>4, <1>5, FS_Bijection DEF S

LEMMA ThinsWithin ==
  ASSUME NEW q \in Seq(Cmd), NEW r, Thins(r, q)
  PROVE  ToSet(r) \subseteq ToSet(q)
<1>1. r \in Seq(Cmd) BY DEF Thins
<1>2. DOMAIN r = 1..Len(r) /\ DOMAIN q = 1..Len(q) BY <1>1
<1> QED BY <1>2 DEF Thins, ToSet

LEMMA SetOfRemoveAt ==
  ASSUME NEW q \in Seq(Cmd), Distinct(q), NEW i \in 1..Len(q)
  PROVE  ToSet(RemoveAt(q, i)) = ToSet(q) \ {q[i]}
<1> DEFINE r == RemoveAt(q, i)
<1>0. Len(q) \in Nat /\ i \in Nat OBVIOUS
<1>1. /\ r \in Seq(Cmd) /\ Len(r) = Len(q) - 1 /\ Len(q) \in Nat /\ i \in Nat
      /\ \A j \in 1..Len(q) - 1 : r[j] = IF j < i THEN q[j] ELSE q[j + 1]
  BY <1>0, RemoveAtProps, Zenon
<1> HIDE DEF r
<1>2. DOMAIN r = 1..Len(q) - 1 /\ DOMAIN q = 1..Len(q) BY <1>1
<1>3. \A a \in 1..Len(q) : a # i => q[a] # q[i]
  <2>1. \A a \in 1..Len(q) : a # i => a < i \/ i < a BY <1>1
  <2> QED BY <2>1 DEF Distinct
<1>4. ASSUME NEW j \in 1..Len(q) - 1
      PROVE  \E a \in 1..Len(q) : a # i /\ r[j] = q[a]
  <2>1. CASE j < i
    <3>1. j \in 1..Len(q) /\ j # i BY <1>1, <2>1
    <3> QED BY <1>1, <2>1, <3>1
  <2>2. CASE ~(j < i)
    <3>1. j + 1 \in 1..Len(q) /\ j + 1 # i BY <1>1, <2>2
    <3> QED BY <1>1, <2>2, <3>1
  <2> QED BY <2>1, <2>2
<1>5. ASSUME NEW a \in 1..Len(q), a # i
      PROVE  \E j \in 1..Len(q) - 1 : r[j] = q[a]
  <2>1. CASE a < i
    <3>1. a \in 1..Len(q) - 1 BY <1>1, <2>1
    <3> QED BY <1>1, <2>1, <3>1
  <2>2. CASE ~(a < i)
    <3>1. a - 1 \in 1..Len(q) - 1 /\ ~(a - 1 < i) /\ (a - 1) + 1 = a
      BY <1>1, <1>5, <2>2
    <3>2. r[a - 1] = q[a] BY <1>1, <3>1
    <3> QED BY <3>1, <3>2
  <2> QED BY <2>1, <2>2
<1>6. ASSUME NEW x \in ToSet(r) PROVE x \in ToSet(q) \ {q[i]}
  <2>1. PICK j \in 1..Len(q) - 1 : x = r[j] BY <1>2 DEF ToSet
  <2>2. PICK a \in 1..Len(q) : a # i /\ r[j] = q[a] BY <1>4
  <2> QED BY <1>2, <1>3, <2>1, <2>2 DEF ToSet
<1>7. ASSUME NEW x \in ToSet(q) \ {q[i]} PROVE x \in ToSet(r)
  <2>1. PICK a \in 1..Len(q) : x = q[a] BY <1>2 DEF ToSet
  <2>2. a # i BY <1>7, <2>1
  <2>3. PICK j \in 1..Len(q) - 1 : r[j] = q[a] BY <1>5, <2>2
  <2> QED BY <1>2, <2>1, <2>3 DEF ToSet
<1>8. ToSet(r) = ToSet(q) \ {q[i]} BY <1>6, <1>7
<1> QED BY <1>8 DEF r

LEMMA SetOfTail ==
  ASSUME NEW q \in Seq(Cmd), q # <<>>, Distinct(q)
  PROVE  ToSet(Tail(q)) = ToSet(q) \ {q[1]}
<1>1. /\ Tail(q) \in Seq(Cmd) /\ Len(Tail(q)) = Len(q) - 1 /\ Len(q) \in Nat
      /\ \A j \in 1..Len(q) - 1 : Tail(q)[j] = q[j + 1]
      /\ Len(q) > 0
  BY HeadTailProperties
<1>2. DOMAIN Tail(q) = 1..Len(q) - 1 /\ DOMAIN q = 1..Len(q) BY <1>1
<1>3. \A j \in 1..Len(q) - 1 : j + 1 \in 1..Len(q) /\ 1 < j + 1 /\ 1 \in 1..Len(q)
  BY <1>1
<1>4. \A j \in 1..Len(q) - 1 : q[j + 1] # q[1] BY <1>3 DEF Distinct
<1>5. \A a \in 1..Len(q) : a # 1 => a - 1 \in 1..Len(q) - 1 /\ (a - 1) + 1 = a
  BY <1>1
<1>6. ASSUME NEW x \in ToSet(Tail(q)) PROVE x \in ToSet(q) \ {q[1]}
  <2>1. PICK j \in 1..Len(q) - 1 : x = Tail(q)[j] BY <1>2 DEF ToSet
  <2> QED BY <1>1, <1>2, <1>3, <1>4, <2>1 DEF ToSet
<1>7. ASSUME NEW x \in ToSet(q) \ {q[1]} PROVE x \in ToSet(Tail(q))
  <2>1. PICK a \in 1..Len(q) : x = q[a] BY <1>2 DEF ToSet
  <2>2. a # 1 BY <1>7, <2>1
  <2>3. a - 1 \in 1..Len(q) - 1 /\ Tail(q)[a - 1] = x BY <1>1, <1>5, <2>1, <2>2
  <2> QED BY <1>2, <2>3 DEF ToSet
<1> QED BY <1>6, <1>7

(* What an insertion does to the set of waiting commands: it adds the new  *)
(* one, and when that makes one too many it drops the last of those that   *)
(* may be dropped, which can be the new one.                               *)
LEMMA InsertedSet ==
  ASSUME NEW q \in Seq(Cmd), NEW c \in Cmd, Ordered(q), Distinct(q), Known(q, c.id)
  PROVE  \/ /\ ToSet(Inserted(q, c)) = ToSet(q) \cup {c}
            /\ \/ Cardinality(ToSet(q)) < MaxQueueSize
               \/ \A d \in ToSet(q) \cup {c} : Revenue(d)
         \/ /\ Cardinality(ToSet(q)) >= MaxQueueSize
            /\ \E v \in ToSet(q) \cup {c} :
                  /\ ~Revenue(v)
                  /\ ToSet(Inserted(q, c)) = (ToSet(q) \cup {c}) \ {v}
                  /\ \A d \in (ToSet(q) \cup {c}) \ {v} : Revenue(d) \/ Before(d, v)
<1> DEFINE s == Placed(q, c)
<1>1. /\ s \in Seq(Cmd) /\ Len(s) = Len(q) + 1 /\ Ordered(s) /\ Distinct(s)
      /\ ToSet(s) = ToSet(q) \cup {c}
  BY PlacedKeeps
<1>2. Inserted(q, c) = Trim(s) BY DEF Inserted, Placed
<1> HIDE DEF s
<1>3. /\ Cardinality(ToSet(q)) = Len(q) /\ Len(q) \in Nat /\ Len(s) \in Nat
      /\ MaxQueueSize \in Nat
  BY CardOfDistinct, <1>1, LimitAssumption
<1>4. DOMAIN s = 1..Len(s) BY <1>1
<1>5. \A d : Revenue(d) <=> d.kind \in Essential BY DEF Revenue, Essential
<1>6. CASE Trim(s) = s /\ (Len(s) > MaxQueueSize => Droppable(s) = {})
  <2>1. CASE Len(s) > MaxQueueSize
    <3>1. \A i \in 1..Len(s) : s[i].kind \in Essential
      BY <1>4, <1>6, <2>1 DEF Droppable
    <3>2. \A d \in ToSet(s) : Revenue(d) BY <1>4, <1>5, <3>1 DEF ToSet
    <3> QED BY <1>1, <1>2, <1>6, <3>2
  <2>2. CASE ~(Len(s) > MaxQueueSize)
    <3>1. Cardinality(ToSet(q)) < MaxQueueSize BY <1>1, <1>3, <2>2
    <3> QED BY <1>1, <1>2, <1>6, <3>1
  <2> QED BY <2>1, <2>2
<1>7. CASE /\ Len(s) > MaxQueueSize
           /\ \E i \in Droppable(s) : /\ \A j \in Droppable(s) : j <= i
                                      /\ Trim(s) = RemoveAt(s, i)
  <2>1. PICK i \in Droppable(s) : /\ \A j \in Droppable(s) : j <= i
                                  /\ Trim(s) = RemoveAt(s, i)
    BY <1>7
  <2>2. i \in 1..Len(s) /\ s[i].kind \notin Essential BY <1>4 DEF Droppable
  <2>3. s[i] \in ToSet(s) /\ ~Revenue(s[i]) BY <1>4, <1>5, <2>2 DEF ToSet
  <2>4. ToSet(Trim(s)) = ToSet(s) \ {s[i]} BY <1>1, <2>1, <2>2, SetOfRemoveAt
  <2>5. ASSUME NEW d \in ToSet(s) \ {s[i]}, ~Revenue(d) PROVE Before(d, s[i])
    <3>1. PICK j \in 1..Len(s) : d = s[j] BY <1>4 DEF ToSet
    <3>2. j \in Droppable(s) BY <1>4, <1>5, <2>5, <3>1 DEF Droppable
    <3>3. j <= i /\ j # i BY <2>1, <2>5, <3>1, <3>2
    <3>4. j < i BY <2>2, <3>3
    <3> QED BY <1>1, <2>2, <3>1, <3>4 DEF Ordered
  <2>6. Cardinality(ToSet(q)) >= MaxQueueSize BY <1>1, <1>3, <1>7
  <2> QED BY <1>1, <1>2, <2>1, <2>3, <2>4, <2>5, <2>6
<1> QED BY <1>1, <1>6, <1>7, TrimProps

-----------------------------------------------------------------------------
(* The invariant. *)

LEMMA InitIInv == Init => IInv
<1> SUFFICES ASSUME Init PROVE IInv OBVIOUS
<1>1. TypeOK
  <2>1. NoProbe \in Question BY DEF NoProbe, Question
  <2>2. <<>> \in Seq(Cmd) OBVIOUS
  <2> QED BY <2>1, <2>2 DEF Init, TypeOK
<1>2. Len(queue) = 0 /\ 1..0 = {} BY DEF Init
<1> QED BY <1>1, <1>2 DEF Init, IInv, Ordered, Distinct, Known, Bounded, NoLostWakeup

(* The write-locked part of enqueue.                                       *)
LEMMA InsertIInv ==
  ASSUME IInv, NEW kind \in CommandKind, NEW prio \in Priority, NEW intr \in BOOLEAN,
         Insert(kind, prio, intr),
         claiming' \in [Callers -> Priority \cup {0}], UNCHANGED answer
  PROVE  IInv'
<1> DEFINE c == [id |-> nextId, kind |-> kind, prio |-> prio, intr |-> intr]
<1>1. c \in Cmd /\ c.id = nextId /\ nextId \in Nat BY DEF IInv, TypeOK, Cmd
<1>2. /\ queue \in Seq(Cmd) /\ Ordered(queue) /\ Distinct(queue)
      /\ Known(queue, c.id) /\ Bounded(queue)
  BY <1>1 DEF IInv, TypeOK
<1>3. /\ queue' = Inserted(queue, c) /\ nextId' = nextId + 1 /\ permit' = TRUE
      /\ UNCHANGED <<current, proc, probe>>
  BY DEF Insert
<1> HIDE DEF c
<1>4. /\ queue' \in Seq(Cmd) /\ Ordered(queue') /\ Distinct(queue')
      /\ Known(queue', nextId') /\ Bounded(queue')
  BY <1>1, <1>2, <1>3, InsertedKeeps
<1>5. current # NoCmd => current.id < nextId' /\ Apart(queue', current)
  <2> SUFFICES ASSUME current # NoCmd
               PROVE  current.id < nextId' /\ Apart(queue', current)
    OBVIOUS
  <2>1. current.id < nextId /\ Apart(queue, current) /\ current.id \in Nat
    BY DEF IInv, TypeOK, Cmd
  <2>2. current.id # c.id /\ current.id < nextId + 1 BY <2>1, <1>1
  <2> QED BY <1>2, <1>1, <1>3, <2>1, <2>2, InsertedKeeps
<1>6. TypeOK' BY <1>1, <1>3, <1>4 DEF IInv, TypeOK
<1> QED BY <1>3, <1>4, <1>5, <1>6 DEF IInv, NoLostWakeup

(* The whole-queue operations leave a thinner queue and change nothing     *)
(* else; a queue that is still not empty was not empty before.             *)
LEMMA ThinnedIInv ==
  ASSUME IInv, Thins(queue', queue),
         UNCHANGED <<current, nextId, permit, proc, claiming, probe, answer>>
  PROVE  IInv'
<1>1. queue \in Seq(Cmd) /\ queue' \in Seq(Cmd) BY DEF IInv, TypeOK, Thins
<1>2. /\ Ordered(queue') /\ Distinct(queue') /\ Known(queue', nextId) /\ Bounded(queue')
      /\ Apart(queue, current) => Apart(queue', current)
  BY <1>1, ThinsKeeps DEF IInv
<1>3. TypeOK' BY <1>1 DEF IInv, TypeOK
<1>4. queue' # <<>> => queue # <<>>
  <2>1. Len(queue') <= Len(queue) BY DEF Thins
  <2>2. queue = <<>> => Len(queue') = 0 BY <2>1, <1>1
  <2> QED BY <2>2, <1>1
<1> QED BY <1>2, <1>3, <1>4 DEF IInv, NoLostWakeup

LEMMA CallerIInv ==
  ASSUME IInv, NEW t \in Callers, CallerStep(t)
  PROVE  IInv'
<1>1. CASE \E r \in Requests : Enqueue(t, r)
  <2>1. PICK r \in Requests : Enqueue(t, r) BY <1>1
  <2>2. r.kind \in CommandKind /\ r.prio \in Priority /\ r.intr \in BOOLEAN
    BY QueueAssumption DEF Request
  <2>3. Insert(r.kind, r.prio, r.intr) /\ UNCHANGED <<claiming, answer>>
    BY <2>1 DEF Enqueue
  <2>4. claiming' \in [Callers -> Priority \cup {0}] BY <2>3 DEF IInv, TypeOK
  <2> QED BY <2>2, <2>3, <2>4, InsertIInv
<1>2. CASE ClaimInsert(t)
  <2>1. claiming[t] \in Priority BY <1>2 DEF ClaimInsert, IInv, TypeOK
  <2>2. Insert("ClaimPurchasedItem", claiming[t], FALSE) /\ UNCHANGED answer
    BY <1>2 DEF ClaimInsert
  <2>3. claiming' \in [Callers -> Priority \cup {0}]
    BY <1>2 DEF ClaimInsert, IInv, TypeOK
  <2>4. "ClaimPurchasedItem" \in CommandKind BY DEF CommandKind
  <2> QED BY <2>1, <2>2, <2>3, <2>4, InsertIInv
<1>3. CASE \E r \in Requests : ClaimCheck(t, r)
  <2>1. PICK r \in Requests : ClaimCheck(t, r) BY <1>3
  <2>2. r.prio \in Priority BY QueueAssumption DEF Request
  <2> QED BY <2>1, <2>2 DEF ClaimCheck, IInv, TypeOK, NoLostWakeup
<1>4. CASE \E w \in Questions : ProbeCurrent(t, w)
  <2>1. PICK w \in Questions : ProbeCurrent(t, w) BY <1>4
  <2>2. w \in Question
    BY DEF Questions, Question, CommandKind, IInv, TypeOK
  <2> QED BY <2>1, <2>2 DEF ProbeCurrent, IInv, TypeOK, NoLostWakeup
<1>5. CASE ProbeQueue(t)
  <2>1. NoProbe \in Question BY DEF NoProbe, Question
  <2> QED BY <1>5, <2>1 DEF ProbeQueue, IInv, TypeOK, NoLostWakeup
<1> QED BY <1>1, <1>2, <1>3, <1>4, <1>5 DEF CallerStep

LEMMA ProcessorIInv ==
  ASSUME IInv, ProcessorStep
  PROVE  IInv'
<1>1. CASE StartCurrent
  <2>1. queue \in Seq(Cmd) /\ queue # <<>> BY <1>1 DEF StartCurrent, IInv, TypeOK
  <2>2. Thins(queue', queue) BY <1>1, <2>1, TailThins DEF StartCurrent
  <2>3. /\ Ordered(queue') /\ Distinct(queue') /\ Known(queue', nextId) /\ Bounded(queue')
    BY <2>1, <2>2, ThinsKeeps DEF IInv
  <2>4. /\ current' = queue[1] /\ current' \in Cmd
    BY <1>1, <2>1, HeadTailProperties DEF StartCurrent
  <2>5. Len(queue) \in Nat /\ Len(queue) > 0 /\ 1 \in 1..Len(queue) BY <2>1
  <2>6. current'.id < nextId BY <2>4, <2>5 DEF IInv, Known
  <2>7. Apart(queue', current')
    <3>1. /\ Len(queue') = Len(queue) - 1
          /\ \A i \in 1..Len(queue') : queue'[i] = queue[i + 1]
      BY <1>1, <2>1, HeadTailProperties DEF StartCurrent
    <3>2. ASSUME NEW i \in 1..Len(queue') PROVE queue'[i].id # current'.id
      <4>1. i + 1 \in 1..Len(queue) /\ 1 < i + 1 BY <3>1, <2>5
      <4>2. queue[1].id # queue[i + 1].id BY <4>1, <2>5 DEF IInv, Distinct
      <4> QED BY <2>4, <3>1, <4>2
    <3> QED BY <3>2 DEF Apart
  <2>8. TypeOK' BY <1>1, <2>2, <2>4 DEF StartCurrent, IInv, TypeOK, Thins
  <2>9. (proc' = "busy") = (current' # NoCmd)
    BY <1>1, <2>4, QueueAssumption DEF StartCurrent
  <2> QED BY <1>1, <2>3, <2>6, <2>7, <2>8, <2>9 DEF StartCurrent, IInv, NoLostWakeup
<1>2. CASE StartNothing
  BY <1>2 DEF StartNothing, IInv, TypeOK, NoLostWakeup
<1>3. CASE Park BY <1>3 DEF Park, IInv, TypeOK, NoLostWakeup
<1>4. CASE Wake BY <1>4 DEF Wake, IInv, TypeOK, NoLostWakeup
<1>5. CASE WakeTimeout BY <1>5 DEF WakeTimeout, IInv, TypeOK, NoLostWakeup
<1>6. CASE CompleteCurrent
  BY <1>6 DEF CompleteCurrent, IInv, TypeOK, NoLostWakeup
<1> QED BY <1>1, <1>2, <1>3, <1>4, <1>5, <1>6 DEF ProcessorStep

(* Every step preserves the invariant.                                     *)
LEMMA NextIInv == IInv /\ [Next]_vars => IInv'
<1> SUFFICES ASSUME IInv, [Next]_vars PROVE IInv' OBVIOUS
<1>0. queue \in Seq(Cmd) BY DEF IInv, TypeOK
<1>1. CASE \E t \in Callers : CallerStep(t) BY <1>1, CallerIInv
<1>2. CASE ProcessorStep BY <1>2, ProcessorIInv
<1>3. CASE Clear
  <2>1. Thins(queue', queue) BY <1>0, <1>3, EmptyThins DEF Clear
  <2> QED BY <1>3, <2>1, ThinnedIInv DEF Clear
<1>4. CASE ClearBazaarOrders
  <2>1. Thins(queue', queue) BY <1>0, <1>4, WithoutThins DEF ClearBazaarOrders, Retained
  <2> QED BY <1>4, <2>1, ThinnedIInv DEF ClearBazaarOrders, Retained
<1>5. CASE \E oldest \in 1..nextId - 1 : Peek(oldest)
  <2>1. Thins(queue', queue) BY <1>0, <1>5, WithoutThins DEF Peek, Retained
  <2> QED BY <1>5, <2>1, ThinnedIInv DEF Peek, Retained
<1>6. CASE UNCHANGED vars BY <1>6 DEF vars, IInv, TypeOK, NoLostWakeup
<1> QED BY <1>1, <1>2, <1>3, <1>4, <1>5, <1>6 DEF Next

(* The inductive invariant holds in every reachable state.                 *)
THEOREM Invariance == Spec => []IInv
<1>1. Init => IInv BY InitIInv
<1>2. IInv /\ [Next]_vars => IInv' BY NextIInv
<1> QED BY <1>1, <1>2, PTL DEF Spec

-----------------------------------------------------------------------------
(* What it gives. *)

(* Every variable of the queue keeps its type.                             *)
THEOREM TypeCorrect == Spec => []TypeOK
<1>1. IInv => TypeOK BY DEF IInv
<1> QED BY <1>1, Invariance, PTL

(* Commands wait in service order: by priority, then first come first      *)
(* served (enqueue's insertion point).                                     *)
THEOREM ServiceOrderHolds == Spec => []ServiceOrder
<1>1. IInv => ServiceOrder BY DEF IInv, TypeOK, Ordered, ServiceOrder
<1> QED BY <1>1, Invariance, PTL

(* A command is queued once or executing, never both (start_current).      *)
THEOREM OnePlaceHolds == Spec => []OnePlace
<1>1. ASSUME IInv PROVE OnePlace
  <2>1. DOMAIN queue = 1..Len(queue) /\ Len(queue) \in Nat BY <1>1 DEF IInv, TypeOK
  <2>2. ASSUME NEW i \in DOMAIN queue, NEW j \in DOMAIN queue, queue[i].id = queue[j].id
        PROVE  i = j
    <3>1. i \in Nat /\ j \in Nat BY <2>1
    <3>2. ~(i < j) /\ ~(j < i) BY <1>1, <2>1, <2>2 DEF IInv, Distinct
    <3> QED BY <3>1, <3>2
  <2>3. current # NoCmd => \A i \in DOMAIN queue : queue[i].id # current.id
    BY <1>1, <2>1 DEF IInv, Apart
  <2> QED BY <1>1, <2>2, <2>3 DEF IInv, OnePlace
<1> QED BY <1>1, Invariance, PTL

(* The queue outgrows MAX_QUEUE_SIZE only when nothing in it may go.       *)
THEOREM BoundedHolds == Spec => []BoundedUnlessEssential
<1>1. IInv => BoundedUnlessEssential
  BY DEF IInv, TypeOK, Bounded, BoundedUnlessEssential, Droppable
<1> QED BY <1>1, Invariance, PTL

(* A command that arrives while the processor is on its way to sleep, or   *)
(* asleep, leaves a permit (notify_one).                                   *)
THEOREM NoLostWakeupHolds == Spec => []NoLostWakeup
<1>1. IInv => NoLostWakeup BY DEF IInv
<1> QED BY <1>1, Invariance, PTL

-----------------------------------------------------------------------------
(* The set of commands: what an insertion costs, and the refinement.       *)

(* An insertion as the caller sees it, with the facts the invariant gives. *)
LEMMA InsertSets ==
  ASSUME IInv, NEW kind \in CommandKind, NEW prio \in Priority, NEW intr \in BOOLEAN,
         Insert(kind, prio, intr)
  PROVE  \E c \in Cmd :
            /\ c \notin ToSet(queue)
            /\ \A d \in ToSet(queue) : d.id < c.id
            /\ UNCHANGED current
            /\ \/ /\ ToSet(queue') = ToSet(queue) \cup {c}
                  /\ \/ Cardinality(ToSet(queue)) < MaxQueueSize
                     \/ \A d \in ToSet(queue) \cup {c} : Revenue(d)
               \/ /\ Cardinality(ToSet(queue)) >= MaxQueueSize
                  /\ \E v \in ToSet(queue) \cup {c} :
                        /\ ~Revenue(v)
                        /\ ToSet(queue') = (ToSet(queue) \cup {c}) \ {v}
                        /\ \A d \in (ToSet(queue) \cup {c}) \ {v} :
                              Revenue(d) \/ Before(d, v)
<1> DEFINE c == [id |-> nextId, kind |-> kind, prio |-> prio, intr |-> intr]
<1>1. c \in Cmd /\ c.id = nextId /\ nextId \in Nat BY DEF IInv, TypeOK, Cmd
<1>2. /\ queue \in Seq(Cmd) /\ Ordered(queue) /\ Distinct(queue)
      /\ Known(queue, c.id)
  BY <1>1 DEF IInv, TypeOK
<1>3. queue' = Inserted(queue, c) /\ UNCHANGED current BY DEF Insert
<1> HIDE DEF c
<1>4. DOMAIN queue = 1..Len(queue) BY <1>2
<1>5. \A d \in ToSet(queue) : d.id < c.id BY <1>2, <1>4 DEF ToSet, Known
<1>6. c \notin ToSet(queue) BY <1>1, <1>5
<1> QED BY <1>1, <1>2, <1>3, <1>5, <1>6, InsertedSet

(* A step either is an insertion, changes nextId and only then, or thins   *)
(* the queue.                                                              *)
LEMMA StepSets ==
  ASSUME IInv, [Next]_vars
  PROVE  \/ \E kind \in CommandKind, prio \in Priority, intr \in BOOLEAN :
               Insert(kind, prio, intr)
         \/ StartCurrent
         \/ CompleteCurrent
         \/ Thins(queue', queue) /\ UNCHANGED <<current, nextId>>
         \/ UNCHANGED <<queue, current, nextId>>
<1>0. queue \in Seq(Cmd) BY DEF IInv, TypeOK
<1>1. ASSUME NEW t \in Callers, CallerStep(t)
      PROVE  \/ \E kind \in CommandKind, prio \in Priority, intr \in BOOLEAN :
                   Insert(kind, prio, intr)
             \/ UNCHANGED <<queue, current, nextId>>
  <2>1. CASE \E r \in Requests : Enqueue(t, r)
    <3>1. PICK r \in Requests : Enqueue(t, r) BY <2>1
    <3>2. r.kind \in CommandKind /\ r.prio \in Priority /\ r.intr \in BOOLEAN
      BY QueueAssumption DEF Request
    <3> QED BY <3>1, <3>2 DEF Enqueue
  <2>2. CASE ClaimInsert(t)
    <3>1. claiming[t] \in Priority BY <2>2 DEF ClaimInsert, IInv, TypeOK
    <3>2. "ClaimPurchasedItem" \in CommandKind /\ FALSE \in BOOLEAN
      BY DEF CommandKind
    <3> QED BY <2>2, <3>1, <3>2 DEF ClaimInsert
  <2>3. CASE \E r \in Requests : ClaimCheck(t, r) BY <2>3 DEF ClaimCheck
  <2>4. CASE \E w \in Questions : ProbeCurrent(t, w) BY <2>4 DEF ProbeCurrent
  <2>5. CASE ProbeQueue(t) BY <2>5 DEF ProbeQueue
  <2> QED BY <1>1, <2>1, <2>2, <2>3, <2>4, <2>5 DEF CallerStep
<1>2. CASE \E t \in Callers : CallerStep(t) BY <1>1, <1>2
<1>3. CASE ProcessorStep
  BY <1>3 DEF ProcessorStep, StartNothing, Park, Wake, WakeTimeout
<1>4. CASE Clear BY <1>0, <1>4, EmptyThins DEF Clear
<1>5. CASE ClearBazaarOrders
  BY <1>0, <1>5, WithoutThins DEF ClearBazaarOrders, Retained
<1>6. CASE \E oldest \in 1..nextId - 1 : Peek(oldest)
  BY <1>0, <1>6, WithoutThins DEF Peek, Retained
<1>7. CASE UNCHANGED vars BY <1>7 DEF vars
<1> QED BY <1>2, <1>3, <1>4, <1>5, <1>6, <1>7 DEF Next

(* An insertion costs at most one command, none of those the comments      *)
(* promise to keep, and the one that every other droppable command was to  *)
(* be served before (the trimming loop of enqueue).                        *)
THEOREM TrimsOnlyTheLast == Spec => TrimsTheLast
<1> DEFINE A == nextId' # nextId =>
                   \A c \in ToSet(queue) \ ToSet(queue') :
                       /\ ~Revenue(c)
                       /\ ToSet(queue) \subseteq ToSet(queue') \cup {c}
                       /\ \A d \in ToSet(queue') : Revenue(d) \/ Before(d, c)
<1>1. ASSUME IInv, [Next]_vars PROVE A
  <2> SUFFICES ASSUME nextId' # nextId, NEW c \in ToSet(queue) \ ToSet(queue')
               PROVE  /\ ~Revenue(c)
                      /\ ToSet(queue) \subseteq ToSet(queue') \cup {c}
                      /\ \A d \in ToSet(queue') : Revenue(d) \/ Before(d, c)
    OBVIOUS
  <2>1. PICK kind \in CommandKind, prio \in Priority, intr \in BOOLEAN :
           Insert(kind, prio, intr)
    BY <1>1, StepSets DEF StartCurrent, CompleteCurrent
  <2>2. PICK e \in Cmd :
            \/ ToSet(queue') = ToSet(queue) \cup {e}
            \/ \E v \in ToSet(queue) \cup {e} :
                  /\ ~Revenue(v)
                  /\ ToSet(queue') = (ToSet(queue) \cup {e}) \ {v}
                  /\ \A d \in (ToSet(queue) \cup {e}) \ {v} :
                        Revenue(d) \/ Before(d, v)
    BY <1>1, <2>1, InsertSets
  <2>3. PICK v \in ToSet(queue) \cup {e} :
                  /\ ~Revenue(v)
                  /\ ToSet(queue') = (ToSet(queue) \cup {e}) \ {v}
                  /\ \A d \in (ToSet(queue) \cup {e}) \ {v} :
                        Revenue(d) \/ Before(d, v)
    BY <2>2
  <2>4. c = v BY <2>3
  <2> QED BY <2>3, <2>4
<1>2. IInv /\ [Next]_vars => [A]_vars BY <1>1
<1> QED BY <1>2, Invariance, PTL DEF Spec, TrimsTheLast

(* PendingCommands counts with the same operator.                          *)
LEMMA SameCardinality == \A S : Abstract!Cardinality(S) = Cardinality(S)
BY DEF Abstract!Cardinality, Cardinality

(* The queue, a sequence under a lock, keeps the promise of                *)
(* PendingCommands: a set of commands, the most urgent and then the oldest *)
(* served first, and a capacity that costs only the last droppable one.    *)
THEOREM KeepsThePromise == Spec => Promise
<1>1. Init => Abstract!Init
  BY DEF Init, Abstract!Init, ToSet
<1>2. ASSUME IInv, [Next]_vars
      PROVE  [Abstract!Next]_<<ToSet(queue), current>>
  <2>0. /\ queue \in Seq(Cmd) /\ Ordered(queue) /\ Distinct(queue)
        /\ (proc = "busy") = (current # NoCmd)
    BY <1>2 DEF IInv, TypeOK
  <2>1. CASE \E kind \in CommandKind, prio \in Priority, intr \in BOOLEAN :
               Insert(kind, prio, intr)
    <3>1. PICK c \in Cmd :
            /\ c \notin ToSet(queue)
            /\ \A d \in ToSet(queue) : d.id < c.id
            /\ UNCHANGED current
            /\ \/ /\ ToSet(queue') = ToSet(queue) \cup {c}
                  /\ \/ Cardinality(ToSet(queue)) < MaxQueueSize
                     \/ \A d \in ToSet(queue) \cup {c} : Revenue(d)
               \/ /\ Cardinality(ToSet(queue)) >= MaxQueueSize
                  /\ \E v \in ToSet(queue) \cup {c} :
                        /\ ~Revenue(v)
                        /\ ToSet(queue') = (ToSet(queue) \cup {c}) \ {v}
                        /\ \A d \in (ToSet(queue) \cup {c}) \ {v} :
                              Revenue(d) \/ Before(d, v)
      BY <1>2, <2>1, InsertSets
    <3>2. CASE /\ ToSet(queue') = ToSet(queue) \cup {c}
               /\ \/ Cardinality(ToSet(queue)) < MaxQueueSize
                  \/ \A d \in ToSet(queue) \cup {c} : Revenue(d)
      <4>1. Abstract!Accept(c) BY <3>1, <3>2, SameCardinality DEF Abstract!Accept
      <4>2. c \in ToSet(queue') \ ToSet(queue) BY <3>1, <3>2
      <4> QED BY <4>1, <4>2 DEF Abstract!Next
    <3>3. ASSUME Cardinality(ToSet(queue)) >= MaxQueueSize,
                 NEW v \in ToSet(queue) \cup {c},
                 ~Revenue(v),
                 ToSet(queue') = (ToSet(queue) \cup {c}) \ {v},
                 \A d \in (ToSet(queue) \cup {c}) \ {v} : Revenue(d) \/ Before(d, v)
          PROVE  [Abstract!Next]_<<ToSet(queue), current>>
      <4>1. CASE v = c
        <5>1. ToSet(queue') = ToSet(queue) BY <3>1, <3>3, <4>1
        <5> QED BY <3>1, <5>1
      <4>2. CASE v # c
        <5>1. v \in ToSet(queue) \ ToSet(queue') /\ c \in ToSet(queue') \ ToSet(queue)
          BY <3>1, <3>3, <4>2
        <5>2. Abstract!AcceptFor(c, v)
          BY <3>1, <3>3, <5>1, SameCardinality
          DEF Abstract!AcceptFor, Abstract!Before, Before
        <5> QED BY <5>1, <5>2 DEF Abstract!Next
      <4> QED BY <4>1, <4>2
    <3> QED BY <3>1, <3>2, <3>3
  <2>2. CASE StartCurrent
    <3>1. /\ queue # <<>> /\ current = NoCmd /\ Head(queue) = queue[1]
          /\ current' = queue[1] /\ queue' = Tail(queue)
      BY <2>0, <2>2 DEF StartCurrent
    <3>2. Len(queue) \in Nat /\ 1 \in 1..Len(queue) /\ DOMAIN queue = 1..Len(queue)
      BY <2>0, <3>1
    <3>3. queue[1] \in ToSet(queue) BY <3>2 DEF ToSet
    <3>4. ToSet(queue') = ToSet(queue) \ {queue[1]} BY <2>0, <3>1, SetOfTail
    <3>5. ASSUME NEW d \in ToSet(queue) \ {queue[1]} PROVE Before(queue[1], d)
      <4>1. PICK i \in 1..Len(queue) : d = queue[i] BY <3>2 DEF ToSet
      <4>2. i # 1 BY <3>5, <4>1
      <4>3. 1 < i BY <3>2, <4>2
      <4> QED BY <2>0, <3>2, <4>1, <4>3 DEF Ordered
    <3>6. Abstract!Begin
      BY <3>1, <3>3, <3>4, <3>5 DEF Abstract!Begin, Abstract!Before, Before
    <3> QED BY <3>6 DEF Abstract!Next
  <2>3. CASE CompleteCurrent
    <3>1. Abstract!Finish BY <2>0, <2>3 DEF CompleteCurrent, Abstract!Finish
    <3> QED BY <3>1 DEF Abstract!Next
  <2>4. CASE Thins(queue', queue) /\ UNCHANGED <<current, nextId>>
    <3>1. Abstract!Withdraw BY <2>0, <2>4, ThinsWithin DEF Abstract!Withdraw
    <3> QED BY <3>1 DEF Abstract!Next
  <2>5. CASE UNCHANGED <<queue, current, nextId>> BY <2>5
  <2> QED BY <1>2, <2>1, <2>2, <2>3, <2>4, <2>5, StepSets
<1>3. IInv /\ [Next]_vars => [Abstract!Next]_<<ToSet(queue), current>> BY <1>2
<1> QED BY <1>1, <1>3, Invariance, PTL DEF Spec, Promise, Abstract!Spec

=============================================================================
