---------------------------- MODULE QueueLemmas ----------------------------
(***************************************************************************)
(* Facts that the proofs of the other modules rest on: least and greatest  *)
(* numbers, what InsertAt and RemoveAt return, and what the operators of   *)
(* QueueOps return for entries of any set S whose members have a priority. *)
(***************************************************************************)
EXTENDS QueueOps, FiniteSetTheorems, SequenceTheorems, TLAPS


(* A nonempty set of naturals has a least element; used wherever the code  *)
(* takes the first position that satisfies a test.                         *)
LEMMA LeastNat ==
  ASSUME NEW S \in SUBSET Nat, S # {}
  PROVE  \E m \in S : \A k \in S : m <= k
<1> DEFINE R == StrictSubsetOrdering(Nat)
           T == {1..n : n \in S}
<1>1. IsWellFoundedOn(R, FiniteSubsetsOf(Nat))
  BY FS_StrictSubsetOrderingWellFounded
<1>2. T \subseteq FiniteSubsetsOf(Nat)
  <2>1. \A n \in S : IsFiniteSet(1..n) BY FS_Interval
  <2>2. \A n \in S : 1..n \in SUBSET Nat OBVIOUS
  <2>3. \A n \in S : 1..n \in FiniteSubsetsOf(Nat)
    BY <2>1, <2>2, Zenon DEF FiniteSubsetsOf
  <2> QED BY <2>3, Zenon
<1>3. T # {} OBVIOUS
<1>4. \E x \in T : \A y \in T : ~ (<<y, x>> \in R)
  <2> HIDE DEF R, T
  <2> QED BY <1>1, <1>2, <1>3, WFMin
<1>5. PICK m \in S : \A k \in S : ~ (<<1..k, 1..m>> \in R) BY <1>4
<1>6. ASSUME NEW k \in S, k < m PROVE FALSE
  <2>1. 1..k \subseteq 1..m /\ m \in 1..m /\ m \notin 1..k BY <1>6
  <2>2. 1..k # 1..m BY <2>1
  <2>3. <<1..k, 1..m>> \in R BY <2>1, <2>2 DEF StrictSubsetOrdering
  <2> QED BY <1>5, <2>3
<1> QED BY <1>6

(* A nonempty set of positions has a greatest one: the code's rposition.   *)
LEMMA GreatestNat ==
  ASSUME NEW n \in Nat, NEW S \in SUBSET (1..n), S # {}
  PROVE  \E m \in S : \A k \in S : k <= m
<1> DEFINE T == {n - i : i \in S}
<1>1. T \in SUBSET Nat /\ T # {} OBVIOUS
<1> HIDE DEF T
<1>2. PICK t \in T : \A k \in T : t <= k BY <1>1, LeastNat
<1>3. PICK m \in S : t = n - m BY <1>2 DEF T
<1>4. ASSUME NEW k \in S PROVE k <= m
  <2>1. n - k \in T BY DEF T
  <2> QED BY <1>2, <1>3, <2>1
<1> QED BY <1>4

(* The size of the set of positions of a sequence of length n.             *)
LEMMA CardInterval ==
  ASSUME NEW n \in Nat
  PROVE  IsFiniteSet(1..n) /\ Cardinality(1..n) = n
<1>1. /\ IsFiniteSet(1..n)
      /\ Cardinality(1..n) = IF 1 > n THEN 0 ELSE n-1+1
  BY FS_Interval
<1>2. (IF 1 > n THEN 0 ELSE n-1+1) = n OBVIOUS
<1> QED BY <1>1, <1>2

(* VecDeque::insert.                                                       *)
LEMMA InsertAtProps ==
  ASSUME NEW S, NEW s \in Seq(S), NEW i \in 1..Len(s)+1, NEW e \in S
  PROVE  /\ InsertAt(s,i,e) \in Seq(S)
         /\ Len(InsertAt(s,i,e)) = Len(s)+1
         /\ \A j \in 1..Len(s)+1 :
                InsertAt(s,i,e)[j] = IF j < i THEN s[j]
                                     ELSE IF j = i THEN e ELSE s[j-1]
<1> DEFINE a == SubSeq(s, 1, i-1)
           b == SubSeq(s, i, Len(s))
           c == a \o <<e>>
<1>0. Len(s) \in Nat /\ i \in Nat OBVIOUS
<1>1. /\ a \in Seq(S) /\ Len(a) = i-1 /\ \A k \in 1..i-1 : a[k] = s[k]
  BY SubSeqProperties, ElementOfSeq, LenProperties
<1>2. /\ b \in Seq(S) /\ Len(b) = Len(s)-i+1
      /\ \A k \in 1..Len(s)-i+1 : b[k] = s[i+k-1]
  BY SubSeqProperties, ElementOfSeq, LenProperties
<1>3. <<e>> \in Seq(S) /\ Len(<<e>>) = 1 /\ <<e>>[1] = e OBVIOUS
<1>4. InsertAt(s,i,e) = c \o b BY DEF InsertAt
<1> HIDE DEF a, b
<1>5. c \in Seq(S) /\ Len(c) = i /\ \A k \in 1..i : c[k] = IF k = i THEN e ELSE s[k]
  <2>1. /\ c \in Seq(S)
         /\ Len(c) = i-1+1
         /\ \A k \in 1..i-1+1 : c[k] = IF k <= i-1 THEN a[k] ELSE <<e>>[k-(i-1)]
    BY <1>0, <1>1, <1>3, ConcatProperties
  <2>4. \A k \in 1..i : c[k] = IF k = i THEN e ELSE s[k]
    <3> SUFFICES ASSUME NEW k \in 1..i PROVE c[k] = IF k = i THEN e ELSE s[k]
      OBVIOUS
    <3>1. CASE k <= i-1
      <4>1. k # i /\ k \in 1..i-1 /\ k \in 1..i-1+1 BY <3>1, <1>0
      <4> HIDE DEF c
      <4> QED BY <3>1, <4>1, <1>1, <2>1, Zenon
    <3>2. CASE ~(k <= i-1)
      <4>1. k = i /\ k-(i-1) = 1 /\ k \in 1..i-1+1 BY <3>2, <1>0
      <4> HIDE DEF c
      <4> QED BY <3>2, <4>1, <1>3, <2>1, Zenon
    <3> QED BY <3>1, <3>2, Zenon
  <2>5. i-1+1 = i BY <1>0
  <2> QED BY <2>1, <2>4, <2>5, Zenon
<1> HIDE DEF c
<1>6. /\ c \o b \in Seq(S) /\ Len(c \o b) = i + (Len(s)-i+1)
      /\ \A k \in 1..i+(Len(s)-i+1) : (c \o b)[k] = IF k <= i THEN c[k] ELSE b[k-i]
  BY <1>0, <1>2, <1>5, ConcatProperties
<1>7. ASSUME NEW j \in 1..Len(s)+1
      PROVE (c \o b)[j] = IF j < i THEN s[j] ELSE IF j = i THEN e ELSE s[j-1]
  <2>1. CASE j <= i BY <2>1, <1>0, <1>5, <1>6
  <2>2. CASE j > i
     <3>1. j-i \in 1..Len(s)-i+1 /\ i + (j-i) - 1 = j-1 BY <2>2, <1>0
     <3> QED BY <2>2, <3>1, <1>0, <1>2, <1>6
  <2>3. j <= i \/ j > i BY <1>0
  <2> QED BY <2>1, <2>2, <2>3, Zenon
<1>8. i + (Len(s)-i+1) = Len(s)+1 BY <1>0
<1> QED BY <1>4, <1>6, <1>7, <1>8, Zenon

(* VecDeque::remove.                                                       *)
LEMMA RemoveAtProps ==
  ASSUME NEW S, NEW s \in Seq(S), NEW i \in 1..Len(s)
  PROVE  /\ RemoveAt(s,i) \in Seq(S)
         /\ Len(RemoveAt(s,i)) = Len(s)-1
         /\ \A j \in 1..Len(s)-1 :
                RemoveAt(s,i)[j] = IF j < i THEN s[j] ELSE s[j+1]
<1> DEFINE a == SubSeq(s, 1, i-1)
           b == SubSeq(s, i+1, Len(s))
<1>0. Len(s) \in Nat /\ i \in Nat OBVIOUS
<1>1. /\ a \in Seq(S) /\ Len(a) = i-1 /\ \A k \in 1..i-1 : a[k] = s[k]
  BY SubSeqProperties, ElementOfSeq, LenProperties
<1>2. /\ b \in Seq(S) /\ Len(b) = Len(s)-i /\ \A k \in 1..Len(s)-i : b[k] = s[i+k]
  BY SubSeqProperties, ElementOfSeq, LenProperties
<1>4. RemoveAt(s,i) = a \o b BY DEF RemoveAt
<1> HIDE DEF a, b
<1>6. /\ a \o b \in Seq(S) /\ Len(a \o b) = i-1 + (Len(s)-i)
      /\ \A k \in 1..i-1+(Len(s)-i) :
            (a \o b)[k] = IF k <= i-1 THEN a[k] ELSE b[k-(i-1)]
  <2>1. Len(a) = i-1 /\ Len(b) = Len(s)-i BY <1>1, <1>2
  <2>2. /\ a \o b \in Seq(S) /\ Len(a \o b) = Len(a) + Len(b)
        /\ \A k \in 1..Len(a)+Len(b) :
              (a \o b)[k] = IF k <= Len(a) THEN a[k] ELSE b[k-Len(a)]
    BY <1>1, <1>2, ConcatProperties, Zenon
  <2> QED BY <2>1, <2>2, Zenon
<1>7. ASSUME NEW j \in 1..Len(s)-1
      PROVE (a \o b)[j] = IF j < i THEN s[j] ELSE s[j+1]
  <2>1. CASE j <= i-1 BY <2>1, <1>0, <1>1, <1>6
  <2>2. CASE j > i-1
     <3>1. j-(i-1) \in 1..Len(s)-i /\ i + (j-(i-1)) = j+1 BY <2>2, <1>0
     <3> QED BY <2>2, <3>1, <1>0, <1>2, <1>6
  <2>3. j <= i-1 \/ j > i-1 BY <1>0
  <2> QED BY <2>1, <2>2, <2>3, Zenon
<1>8. i-1 + (Len(s)-i) = Len(s)-1 BY <1>0
<1> QED BY <1>4, <1>6, <1>7, <1>8, Zenon

-----------------------------------------------------------------------------
(* enqueue's insertion point exists and is a position of the new queue.    *)
LEMMA InsertPosProps ==
  ASSUME NEW S, \A x \in S : x.prio \in Priority,
         NEW q \in Seq(S), NEW p \in Priority
  PROVE  /\ InsertPos(q, p) \in 1..Len(q) + 1
         /\ \A j \in 1..InsertPos(q, p) - 1 : q[j].prio <= p
         /\ InsertPos(q, p) <= Len(q) => q[InsertPos(q, p)].prio > p
<1> DEFINE P(i) == /\ \A j \in 1..i - 1 : q[j].prio <= p
                   /\ i <= Len(q) => q[i].prio > p
           T == {i \in 1..Len(q) : q[i].prio > p}
<1>0. /\ Len(q) \in Nat
      /\ p \in Int
      /\ \A i \in 1..Len(q) : q[i].prio \in Int
  <2>1. \A x \in Priority : x \in Int
    BY DEF Priority, Critical, High, Normal, Low
  <2>2. \A i \in 1..Len(q) : q[i] \in S OBVIOUS
  <2> QED BY <2>1, <2>2
<1>1. \E i \in 1..Len(q) + 1 : P(i)
  <2>1. CASE T = {}
    <3>1. \A j \in 1..Len(q) : q[j].prio <= p BY <2>1, <1>0
    <3>2. Len(q) + 1 \in 1..Len(q) + 1 /\ (Len(q) + 1) - 1 = Len(q) /\ ~(Len(q) + 1 <= Len(q))
      BY <1>0
    <3>3. P(Len(q) + 1) BY <3>1, <3>2
    <3> QED BY <3>2, <3>3
  <2>2. CASE T # {}
    <3>1. T \in SUBSET Nat OBVIOUS
    <3> HIDE DEF T
    <3>2. PICK m \in T : \A k \in T : m <= k BY <3>1, <2>2, LeastNat
    <3>3. m \in 1..Len(q) /\ q[m].prio > p BY <3>2 DEF T
    <3>4. \A j \in 1..m - 1 : q[j].prio <= p
      <4> SUFFICES ASSUME NEW j \in 1..m - 1 PROVE q[j].prio <= p OBVIOUS
      <4>1. j \in 1..Len(q) /\ ~(m <= j) BY <3>3, <1>0
      <4>2. j \notin T BY <4>1, <3>2
      <4> QED BY <4>1, <4>2, <1>0 DEF T
    <3> QED BY <3>3, <3>4, <1>0
  <2> QED BY <2>1, <2>2
<1> HIDE DEF P
<1>2. InsertPos(q, p) = CHOOSE i \in 1..Len(q) + 1 : P(i) BY DEF InsertPos, P
<1>3. InsertPos(q, p) \in 1..Len(q) + 1 /\ P(InsertPos(q, p)) BY <1>1, <1>2
<1> QED BY <1>3 DEF P

(* Trim removes the last droppable entry of an overlong queue, or nothing. *)
LEMMA TrimProps ==
  ASSUME NEW S, NEW q \in Seq(S)
  PROVE  \/ /\ Trim(q) = q
            /\ Len(q) > MaxQueueSize => Droppable(q) = {}
         \/ /\ Len(q) > MaxQueueSize
            /\ \E i \in Droppable(q) : /\ \A j \in Droppable(q) : j <= i
                                       /\ Trim(q) = RemoveAt(q, i)
<1>1. CASE Len(q) > MaxQueueSize /\ Droppable(q) # {}
  <2>1. Droppable(q) \in SUBSET (1..Len(q)) /\ Len(q) \in Nat BY DEF Droppable
  <2>2. \E m \in Droppable(q) : \A k \in Droppable(q) : k <= m
    BY <1>1, <2>1, GreatestNat
  <2>3. Trim(q) = RemoveAt(q, CHOOSE i \in Droppable(q) : \A j \in Droppable(q) : j <= i)
    BY <1>1 DEF Trim
  <2> QED BY <1>1, <2>2, <2>3
<1>2. CASE ~(Len(q) > MaxQueueSize /\ Droppable(q) # {})
  BY <1>2 DEF Trim
<1> QED BY <1>1, <1>2

(* An insertion keeps the entries' type, trimming included.                *)
LEMMA InsertedType ==
  ASSUME NEW S, \A x \in S : x.prio \in Priority,
         NEW q \in Seq(S), NEW c \in S
  PROVE  Inserted(q, c) \in Seq(S)
<1> DEFINE r == InsertAt(q, InsertPos(q, c.prio), c)
<1>1. InsertPos(q, c.prio) \in 1..Len(q) + 1 BY InsertPosProps
<1>2. r \in Seq(S) BY <1>1, InsertAtProps
<1> HIDE DEF r
<1>3. Trim(r) \in Seq(S)
  <2>1. CASE Trim(r) = r BY <1>2, <2>1
  <2>2. CASE \E i \in Droppable(r) : Trim(r) = RemoveAt(r, i)
    <3>1. PICK i \in Droppable(r) : Trim(r) = RemoveAt(r, i) BY <2>2
    <3>2. i \in 1..Len(r) BY <1>2 DEF Droppable
    <3> QED BY <3>1, <3>2, <1>2, RemoveAtProps
  <2> QED BY <2>1, <2>2, <1>2, TrimProps
<1> QED BY <1>3 DEF r, Inserted

=============================================================================
