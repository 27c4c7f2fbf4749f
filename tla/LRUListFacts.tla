---------------------------- MODULE LRUListFacts ----------------------------
(***************************************************************************)
(* What the list operations of LRUList, and the sequence operators they    *)
(* are built from, return, index by index: the facts the proofs about the  *)
(* cache template and its clients (the TLBs and the trace cache) rest on.  *)
(***************************************************************************)
EXTENDS LRUList, Integers, SequenceTheorems, TLAPS

(* t is s with e put in front: every element shifts by one. *)
IsCons(S, e, s, t) ==
    /\ t \in Seq(S)
    /\ Len(t) = Len(s) + 1
    /\ t[1] = e
    /\ \A i \in 1 .. Len(s) : t[i + 1] = s[i]
    /\ \A i \in 2 .. Len(s) + 1 : t[i] = s[i - 1]

(* Cons puts its first argument in front of its second. *)
LEMMA ConsFacts ==
    ASSUME NEW S, NEW s \in Seq(S), NEW e \in S
    PROVE  IsCons(S, e, s, Cons(e, s))
  BY DEF Cons, IsCons

(* RemoveAt closes the gap it makes. *)
LEMMA RemoveAtFacts ==
    ASSUME NEW S, NEW s \in Seq(S), NEW i \in 1 .. Len(s)
    PROVE  /\ RemoveAt(s, i) \in Seq(S)
           /\ Len(RemoveAt(s, i)) = Len(s) - 1
           /\ \A j \in 1 .. Len(s) - 1 :
                 RemoveAt(s, i)[j] = IF j < i THEN s[j] ELSE s[j + 1]
<1> DEFINE a == SubSeq(s, 1, i - 1)
           b == SubSeq(s, i + 1, Len(s))
<1>0. Len(s) \in Nat /\ \A j \in 1 .. Len(s) : s[j] \in S
  BY ElementOfSeq
<1>1. /\ a \in Seq(S)
      /\ Len(a) = i - 1
      /\ \A j \in 1 .. i - 1 : a[j] = s[j]
  <2>1. \A j \in 1 .. i - 1 : s[j] \in S
    BY <1>0
  <2> QED
    BY <1>0, <2>1, SubSeqProperties
<1>2. /\ b \in Seq(S)
      /\ Len(b) = Len(s) - i
      /\ \A j \in 1 .. Len(s) - i : b[j] = s[i + j]
  <2>1. \A j \in i + 1 .. Len(s) : s[j] \in S
    BY <1>0
  <2> QED
    BY <1>0, <2>1, SubSeqProperties
<1>3. RemoveAt(s, i) = a \o b
  BY DEF RemoveAt
<1>4. /\ a \o b \in Seq(S)
      /\ Len(a \o b) = Len(a) + Len(b)
      /\ \A j \in 1 .. Len(a) + Len(b) :
            (a \o b)[j] = IF j <= Len(a) THEN a[j] ELSE b[j - Len(a)]
  BY <1>1, <1>2, ConcatProperties
<1> HIDE DEF a, b
<1> QED
  BY <1>0, <1>1, <1>2, <1>3, <1>4

(* Front drops the last element. *)
LEMMA FrontFacts ==
    ASSUME NEW S, NEW s \in Seq(S), Len(s) > 0
    PROVE  /\ Front(s) \in Seq(S)
           /\ Len(Front(s)) = Len(s) - 1
           /\ \A j \in 1 .. Len(s) - 1 : Front(s)[j] = s[j]
           /\ Last(s) = s[Len(s)]
<1> DEFINE n == Len(s) - 1
<1>1. n \in Int /\ n >= 0 /\ \A j \in 1 .. n : s[j] \in S
  BY ElementOfSeq
<1> HIDE DEF n
<1>2. /\ SubSeq(s, 1, n) \in Seq(S)
      /\ Len(SubSeq(s, 1, n)) = IF 1 <= n THEN n - 1 + 1 ELSE 0
      /\ \A j \in 1 .. n - 1 + 1 : SubSeq(s, 1, n)[j] = s[1 + j - 1]
  BY <1>1, SubSeqProperties
<1>3. /\ Len(SubSeq(s, 1, n)) = n
      /\ \A j \in 1 .. n : SubSeq(s, 1, n)[j] = s[j]
  BY <1>1, <1>2
<1> QED
  BY <1>2, <1>3 DEF Front, Last, n

(* Where the a-th element of a sequence was before the i-th one moved to    *)
(* the front.                                                              *)
Before(i, a) == IF a = 1 THEN i ELSE IF a <= i THEN a - 1 ELSE a

(* t is s with its i-th element moved to the front. *)
IsMove(S, s, i, t) ==
    /\ t \in Seq(S)
    /\ Len(t) = Len(s)
    /\ DOMAIN t = 1 .. Len(s)
    /\ t[1] = s[i]
    /\ \A a \in 1 .. Len(s) : t[a] = s[Before(i, a)]
    /\ \A a \in 1 .. Len(s) : Before(i, a) \in 1 .. Len(s)
    /\ \A a, b \in 1 .. Len(s) : a # b => Before(i, a) # Before(i, b)
    /\ \A b \in 1 .. Len(s) : \E a \in 1 .. Len(s) : Before(i, a) = b

(* Moving to the front permutes the elements. *)
LEMMA MoveFacts ==
    ASSUME NEW S, NEW s \in Seq(S), NEW i \in 1 .. Len(s)
    PROVE  IsMove(S, s, i, Cons(s[i], RemoveAt(s, i)))
<1> DEFINE r == RemoveAt(s, i)
           t == Cons(s[i], r)
<1>0. Len(s) \in Nat /\ s[i] \in S
  BY ElementOfSeq
<1>1. /\ r \in Seq(S)
      /\ Len(r) = Len(s) - 1
      /\ \A j \in 1 .. Len(s) - 1 : r[j] = IF j < i THEN s[j] ELSE s[j + 1]
  BY RemoveAtFacts
<1> HIDE DEF r
<1>2. /\ t \in Seq(S)
      /\ Len(t) = Len(r) + 1
      /\ t[1] = s[i]
      /\ \A j \in 2 .. Len(r) + 1 : t[j] = r[j - 1]
  <2>1. r \in Seq(S) /\ s[i] \in S
    BY <1>0, <1>1
  <2>2. IsCons(S, s[i], r, t)
    BY <2>1, ConsFacts
  <2> QED
    BY <2>2 DEF IsCons
<1> HIDE DEF t
<1>3. ASSUME NEW a \in 1 .. Len(s)
      PROVE  t[a] = s[Before(i, a)]
  <2>1. CASE a = 1
    BY <1>2, <2>1 DEF Before
  <2>2. CASE a # 1
    <3>1. t[a] = r[a - 1] /\ a - 1 \in 1 .. Len(s) - 1
      BY <1>0, <1>1, <1>2, <2>2
    <3>2. r[a - 1] = IF a - 1 < i THEN s[a - 1] ELSE s[(a - 1) + 1]
      BY <1>1, <3>1
    <3>3. (a - 1) + 1 = a /\ (a - 1 < i <=> a <= i)
      BY <1>0
    <3> QED
      BY <2>2, <3>1, <3>2, <3>3 DEF Before
  <2> QED
    BY <2>1, <2>2
<1>4. \A a \in 1 .. Len(s) : Before(i, a) \in 1 .. Len(s)
  BY <1>0 DEF Before
<1>5. \A a, b \in 1 .. Len(s) : a # b => Before(i, a) # Before(i, b)
  BY <1>0 DEF Before
<1>6. ASSUME NEW b \in 1 .. Len(s)
      PROVE  \E a \in 1 .. Len(s) : Before(i, a) = b
  <2>1. CASE b = i
    BY <1>0, <2>1 DEF Before
  <2>2. CASE b < i
    <3>1. b + 1 \in 1 .. Len(s) /\ Before(i, b + 1) = b
      BY <1>0, <2>2 DEF Before
    <3> QED
      BY <3>1
  <2>3. CASE b > i
    BY <1>0, <2>3 DEF Before
  <2> QED
    BY <1>0, <2>1, <2>2, <2>3
<1>7. IsMove(S, s, i, t)
  BY <1>0, <1>1, <1>2, <1>3, <1>4, <1>5, <1>6 DEF IsMove
<1> QED
  BY <1>7 DEF t, r

(* Two sequences with the same elements are the same. *)
LEMMA SameSeq ==
    ASSUME NEW S, NEW s \in Seq(S), NEW t \in Seq(S), Len(s) = Len(t),
           \A i \in 1 .. Len(s) : s[i] = t[i]
    PROVE  s = t
  BY SeqEqual

-----------------------------------------------------------------------------
(* A cached key is found where it is. *)
LEMMA IndexFacts ==
    ASSUME NEW S, NEW list \in Seq(S), NEW k \in Cached(list)
    PROVE  /\ IndexOf(list, k) \in 1 .. Len(list)
           /\ list[IndexOf(list, k)].key = k
           /\ list[IndexOf(list, k)] \in S
<1>1. \E i \in DOMAIN list : list[i].key = k
  BY DEF Cached
<1>2. IndexOf(list, k) \in DOMAIN list /\ list[IndexOf(list, k)].key = k
  BY <1>1 DEF IndexOf
<1> QED
  BY <1>2

(* A hit only moves the pair found to the front. *)
LEMMA TouchFacts ==
    ASSUME NEW S, NEW list \in Seq(S), NEW k \in Cached(list)
    PROVE  IsMove(S, list, IndexOf(list, k), Touch(list, k))
<1>1. IndexOf(list, k) \in 1 .. Len(list)
  BY IndexFacts
<1> QED
  BY <1>1, MoveFacts DEF Touch

(* Making room keeps the more recent pairs where they are. *)
LEMMA EvictFacts ==
    ASSUME NEW S, NEW list \in Seq(S), NEW max \in Nat \ {0}, Len(list) <= max
    PROVE  /\ Evict(list, max) \in Seq(S)
           /\ Len(Evict(list, max)) \in 0 .. max - 1
           /\ Len(Evict(list, max)) <= Len(list)
           /\ DOMAIN Evict(list, max) = 1 .. Len(Evict(list, max))
           /\ \A i \in 1 .. Len(Evict(list, max)) :
                 i \in 1 .. Len(list) /\ Evict(list, max)[i] = list[i]
<1>0. Len(list) \in Nat
  OBVIOUS
<1>1. CASE Len(list) < max
  BY <1>0, <1>1 DEF Evict
<1>2. CASE ~(Len(list) < max)
  <2>1. Evict(list, max) = Front(list) /\ Len(list) = max /\ Len(list) > 0
    BY <1>0, <1>2 DEF Evict
  <2>2. /\ Front(list) \in Seq(S)
        /\ Len(Front(list)) = Len(list) - 1
        /\ \A j \in 1 .. Len(list) - 1 : Front(list)[j] = list[j]
    BY <2>1, FrontFacts
  <2> QED
    BY <1>0, <2>1, <2>2
<1> QED
  BY <1>1, <1>2

(* A miss puts the new pair in front of what making room left. *)
LEMMA PutFacts ==
    ASSUME NEW S, NEW list \in Seq(S), NEW max \in Nat \ {0}, Len(list) <= max,
           NEW k, NEW v, [key |-> k, val |-> v] \in S
    PROVE  /\ Put(list, max, k, v) \in Seq(S)
           /\ Len(Put(list, max, k, v)) \in 1 .. max
           /\ DOMAIN Put(list, max, k, v) = 1 .. Len(Put(list, max, k, v))
           /\ Put(list, max, k, v)[1] = [key |-> k, val |-> v]
           /\ \A i \in 2 .. Len(Put(list, max, k, v)) :
                 /\ i - 1 \in 1 .. Len(list)
                 /\ Put(list, max, k, v)[i] = list[i - 1]
<1> DEFINE e == [key |-> k, val |-> v]
           room == Evict(list, max)
           put == Put(list, max, k, v)
<1>1. /\ room \in Seq(S)
      /\ Len(room) \in 0 .. max - 1
      /\ Len(room) <= Len(list)
      /\ \A i \in 1 .. Len(room) : i \in 1 .. Len(list) /\ room[i] = list[i]
  BY EvictFacts
<1>2. put = Cons(e, room)
  BY DEF Put
<1>3. e \in S
  OBVIOUS
<1> HIDE DEF e, room, put
<1>4. IsCons(S, e, room, put)
  BY <1>1, <1>2, <1>3, ConsFacts
<1>5. /\ put \in Seq(S)
      /\ Len(put) = Len(room) + 1
      /\ put[1] = e
      /\ \A i \in 2 .. Len(room) + 1 : put[i] = room[i - 1]
  BY <1>4 DEF IsCons
<1>6. DOMAIN put = 1 .. Len(put) /\ Len(put) \in 1 .. max
  BY <1>1, <1>5
<1>7. \A i \in 2 .. Len(put) : i - 1 \in 1 .. Len(list) /\ put[i] = list[i - 1]
  <2> SUFFICES ASSUME NEW i \in 2 .. Len(put)
               PROVE  i - 1 \in 1 .. Len(list) /\ put[i] = list[i - 1]
    OBVIOUS
  <2>1. i - 1 \in 1 .. Len(room) /\ put[i] = room[i - 1]
    BY <1>1, <1>5
  <2> QED
    BY <1>1, <2>1
<1> QED
  BY <1>5, <1>6, <1>7 DEF put, e

-----------------------------------------------------------------------------
(* Every pair of t is a pair of list, or perhaps the pair a miss has made. *)
OldPairs(list, t) == \A i \in DOMAIN t : \E j \in DOMAIN list : t[i] = list[j]

OneNewPair(list, t, new) ==
    \A i \in DOMAIN t : t[i] = new \/ \E j \in DOMAIN list : t[i] = list[j]

LEMMA TouchOld ==
    ASSUME NEW S, NEW list \in Seq(S), NEW k \in Cached(list)
    PROVE  OldPairs(list, Touch(list, k))
<1>1. IsMove(S, list, IndexOf(list, k), Touch(list, k))
  BY TouchFacts
<1>2. DOMAIN list = 1 .. Len(list)
  OBVIOUS
<1> QED
  BY <1>1, <1>2 DEF IsMove, OldPairs

LEMMA EvictOld ==
    ASSUME NEW S, NEW list \in Seq(S), NEW max \in Nat \ {0}, Len(list) <= max
    PROVE  OldPairs(list, Evict(list, max))
<1>1. DOMAIN list = 1 .. Len(list)
  OBVIOUS
<1> DEFINE t == Evict(list, max)
<1>2. DOMAIN t = 1 .. Len(t) /\ \A i \in 1 .. Len(t) : i \in 1 .. Len(list) /\ t[i] = list[i]
  BY EvictFacts
<1> HIDE DEF t
<1>3. OldPairs(list, t)
  BY <1>1, <1>2 DEF OldPairs
<1> QED
  BY <1>3 DEF t

LEMMA PutOneNew ==
    ASSUME NEW S, NEW list \in Seq(S), NEW max \in Nat \ {0}, Len(list) <= max,
           NEW k, NEW v, [key |-> k, val |-> v] \in S
    PROVE  OneNewPair(list, Put(list, max, k, v), [key |-> k, val |-> v])
<1> DEFINE e == [key |-> k, val |-> v]
           t == Put(list, max, k, v)
<1>0. Len(t) \in 1 .. max
  BY PutFacts
<1>1. /\ DOMAIN t = 1 .. Len(t) /\ t[1] = e
      /\ \A i \in 2 .. Len(t) : i - 1 \in 1 .. Len(list) /\ t[i] = list[i - 1]
  BY PutFacts
<1>2. DOMAIN list = 1 .. Len(list)
  OBVIOUS
<1> HIDE DEF e, t
<1>3. ASSUME NEW i \in DOMAIN t
      PROVE  t[i] = e \/ \E j \in DOMAIN list : t[i] = list[j]
  <2>1. CASE i = 1
    BY <1>1, <2>1
  <2>2. CASE i # 1
    <3>1. i \in 2 .. Len(t)
      BY <1>0, <1>1, <2>2
    <3> QED
      BY <1>1, <1>2, <3>1
  <2> QED
    BY <2>1, <2>2
<1>4. OneNewPair(list, t, e)
  BY <1>3 DEF OneNewPair
<1> QED
  BY <1>4 DEF e, t

-----------------------------------------------------------------------------
(* No two pairs of a list have the same key. *)
Distinct(list) == \A i, j \in DOMAIN list : list[i].key = list[j].key => i = j

LEMMA TouchDistinct ==
    ASSUME NEW S, NEW list \in Seq(S), NEW k \in Cached(list), Distinct(list)
    PROVE  Distinct(Touch(list, k))
<1> DEFINE i == IndexOf(list, k)
           t == Touch(list, k)
<1>1. IsMove(S, list, i, t)
  BY TouchFacts
<1>2. DOMAIN list = 1 .. Len(list)
  OBVIOUS
<1> HIDE DEF i, t
<1>3. ASSUME NEW a \in DOMAIN t, NEW b \in DOMAIN t, t[a].key = t[b].key
      PROVE  a = b
  <2>1. /\ a \in 1 .. Len(list) /\ b \in 1 .. Len(list)
        /\ Before(i, a) \in DOMAIN list /\ Before(i, b) \in DOMAIN list
        /\ t[a] = list[Before(i, a)] /\ t[b] = list[Before(i, b)]
    BY <1>1, <1>2 DEF IsMove
  <2>2. Before(i, a) = Before(i, b)
    BY <1>3, <2>1 DEF Distinct
  <2> QED
    BY <1>1, <2>1, <2>2 DEF IsMove
<1> QED
  BY <1>3 DEF Distinct, t

LEMMA EvictDistinct ==
    ASSUME NEW S, NEW list \in Seq(S), NEW max \in Nat \ {0}, Len(list) <= max,
           Distinct(list)
    PROVE  Distinct(Evict(list, max))
<1> DEFINE t == Evict(list, max)
<1>1. DOMAIN t = 1 .. Len(t) /\ \A i \in 1 .. Len(t) : i \in 1 .. Len(list) /\ t[i] = list[i]
  BY EvictFacts
<1>2. DOMAIN list = 1 .. Len(list)
  OBVIOUS
<1> HIDE DEF t
<1>3. Distinct(t)
  BY <1>1, <1>2 DEF Distinct
<1> QED
  BY <1>3 DEF t

LEMMA PutDistinct ==
    ASSUME NEW S, NEW list \in Seq(S), NEW max \in Nat \ {0}, Len(list) <= max,
           NEW k, NEW v, [key |-> k, val |-> v] \in S, k \notin Cached(list), Distinct(list)
    PROVE  Distinct(Put(list, max, k, v))
<1> DEFINE e == [key |-> k, val |-> v]
           t == Put(list, max, k, v)
<1>0. Len(t) \in 1 .. max /\ e.key = k
  BY PutFacts
<1>1. /\ DOMAIN t = 1 .. Len(t) /\ t[1] = e
      /\ \A i \in 2 .. Len(t) : i - 1 \in 1 .. Len(list) /\ t[i] = list[i - 1]
  BY PutFacts
<1>2. DOMAIN list = 1 .. Len(list) /\ \A j \in DOMAIN list : list[j].key # k
  BY DEF Cached
<1> HIDE DEF e, t
<1>3. ASSUME NEW i \in DOMAIN t, NEW j \in DOMAIN t, t[i].key = t[j].key
      PROVE  i = j
  <2>1. i = 1 \/ i \in 2 .. Len(t)
    BY <1>0, <1>1
  <2>2. j = 1 \/ j \in 2 .. Len(t)
    BY <1>0, <1>1
  <2>3. \A m \in 2 .. Len(t) : t[m].key # k /\ m - 1 \in DOMAIN list /\ t[m] = list[m - 1]
    BY <1>1, <1>2
  <2>4. CASE i = 1 \/ j = 1
    BY <1>0, <1>1, <1>3, <2>1, <2>2, <2>3, <2>4
  <2>5. CASE i \in 2 .. Len(t) /\ j \in 2 .. Len(t)
    <3>1. i - 1 = j - 1
      BY <1>3, <2>3, <2>5 DEF Distinct
    <3> QED
      BY <2>5, <3>1
  <2> QED
    BY <2>1, <2>2, <2>4, <2>5
<1>4. Distinct(t)
  BY <1>3 DEF Distinct
<1> QED
  BY <1>4 DEF t

(* A miss adds at most one pair. *)
LEMMA PutLength ==
    ASSUME NEW S, NEW list \in Seq(S), NEW max \in Nat \ {0}, Len(list) <= max,
           NEW k, NEW v, [key |-> k, val |-> v] \in S
    PROVE  Len(Put(list, max, k, v)) <= Len(list) + 1
<1> DEFINE t == Put(list, max, k, v)
           n == Len(t)
<1>1. n \in 1 .. max
  BY PutFacts
<1>2. \A i \in 2 .. n : i - 1 \in 1 .. Len(list)
  BY PutFacts
<1>3. Len(list) \in Nat
  OBVIOUS
<1> HIDE DEF n
<1>4. n <= Len(list) + 1
  BY <1>1, <1>2, <1>3
<1> QED
  BY <1>4 DEF n
=============================================================================
