--------------------------- MODULE LRUCache_proofs ---------------------------
(***************************************************************************)
(* The cache of sim/common.h keeps its list, its map and its counter in    *)
(* agreement, keeps the most recently used keys and never moves a node,    *)
(* for any keys, values and node addresses and any positive size.          *)
(***************************************************************************)
EXTENDS LRUCache, LRUListFacts

(* The inductive invariant.  The order of the list is stated in terms of   *)
(* recency, so what recency looks like is part of it.                      *)
IInv == TypeOK /\ Consistent /\ MostRecent /\ RecencyDistinct

-----------------------------------------------------------------------------
(* The iterator stored for a cached key points at the node of that key. *)
LEMMA PositionFacts ==
    ASSUME IInv, NEW k \in DOMAIN links
    PROVE  /\ Position(k) \in 1 .. Len(entries)
           /\ entries[Position(k)].key = k
           /\ entries[Position(k)].node = links[k]
           /\ entries[Position(k)] \in Entry
<1>1. PICK i \in DOMAIN entries : entries[i].key = k
  BY DEF IInv, Consistent, LinksExact, KeysOf
<1>2. entries[i].node = links[k]
  BY <1>1 DEF IInv, Consistent, LinksExact
<1>3. Position(k) \in DOMAIN entries /\ entries[Position(k)].node = links[k]
  BY <1>2 DEF Position
<1>4. Position(k) = i
  BY <1>2, <1>3 DEF IInv, Consistent, NoDuplicates
<1> QED
  BY <1>1, <1>3, <1>4 DEF IInv, TypeOK

(* Making room leaves a consistent list that has a place to spare. *)
LEMMA RoomFacts ==
    ASSUME IInv, ~thrown
    PROVE  /\ RoomEntries \in Seq(Entry)
           /\ Len(RoomEntries) \in 0 .. MaxSize - 1
           /\ Len(RoomEntries) = IF Len(entries) < MaxSize THEN Len(entries)
                                 ELSE MaxSize - 1
           /\ Len(RoomEntries) <= Len(entries)
           /\ \A i \in 1 .. Len(RoomEntries) : RoomEntries[i] = entries[i]
           /\ RoomSize = Len(RoomEntries) + 1
           /\ DOMAIN RoomLinks = KeysOf(RoomEntries)
           /\ \A i \in 1 .. Len(RoomEntries) :
                 RoomLinks[RoomEntries[i].key] = RoomEntries[i].node
<1>0. /\ entries \in Seq(Entry)
      /\ cur_size = Len(entries)
      /\ cur_size \in 0 .. MaxSize
      /\ MaxSize \in Nat \ {0}
      /\ Len(entries) \in Nat
      /\ DOMAIN entries = 1 .. Len(entries)
  BY CacheAssumption DEF IInv, TypeOK, Consistent, SizeExact
<1>1. CASE ~Full
  <2>1. /\ RoomEntries = entries
        /\ RoomLinks = links
        /\ RoomSize = cur_size + 1
    BY <1>1 DEF RoomEntries, RoomLinks, RoomSize
  <2>2. Len(entries) < MaxSize
    BY <1>0, <1>1 DEF Full
  <2>3. /\ DOMAIN links = KeysOf(entries)
        /\ \A i \in 1 .. Len(entries) : links[entries[i].key] = entries[i].node
    BY <1>0 DEF IInv, Consistent, LinksExact
  <2> QED
    BY <1>0, <2>1, <2>2, <2>3
<1>2. CASE Full
  <2>0. Len(entries) = MaxSize
    BY <1>0, <1>2 DEF Full
  <2>1. /\ RoomEntries \in Seq(Entry)
        /\ Len(RoomEntries) = Len(entries) - 1
        /\ \A j \in 1 .. Len(entries) - 1 : RoomEntries[j] = entries[j]
        /\ Last(entries) = entries[Len(entries)]
    <3>1. RoomEntries = Front(entries)
      BY <1>2 DEF RoomEntries
    <3>2. Len(entries) > 0
      BY <1>0, <2>0
    <3> QED
      BY <1>0, <3>1, <3>2, FrontFacts
  <2>2. RoomSize = Len(RoomEntries) + 1
    BY <1>0, <1>2, <2>0, <2>1 DEF RoomSize
  <2>3. RoomLinks = [x \in DOMAIN links \ {entries[Len(entries)].key} |-> links[x]]
    BY <1>2, <2>1 DEF RoomLinks, Unbind
  <2>4. DOMAIN RoomLinks = KeysOf(RoomEntries)
    <3>1. DOMAIN RoomLinks = {entries[i].key : i \in 1 .. Len(entries)}
                             \ {entries[Len(entries)].key}
      BY <1>0, <2>3 DEF IInv, Consistent, LinksExact, KeysOf
    <3>2. \A i \in 1 .. Len(entries) - 1 : entries[i].key # entries[Len(entries)].key
      BY <1>0 DEF IInv, Consistent, NoDuplicates
    <3>3. KeysOf(RoomEntries) = {entries[i].key : i \in 1 .. Len(entries) - 1}
      BY <1>0, <2>1 DEF KeysOf
    <3> QED
      BY <1>0, <3>1, <3>2, <3>3
  <2>5. \A i \in 1 .. Len(RoomEntries) :
           RoomLinks[RoomEntries[i].key] = RoomEntries[i].node
    <3>1. \A i \in 1 .. Len(entries) - 1 :
             /\ entries[i].key # entries[Len(entries)].key
             /\ entries[i].key \in DOMAIN links
             /\ links[entries[i].key] = entries[i].node
      <4> SUFFICES ASSUME NEW i \in 1 .. Len(entries) - 1
                   PROVE  /\ entries[i].key # entries[Len(entries)].key
                          /\ entries[i].key \in DOMAIN links
                          /\ links[entries[i].key] = entries[i].node
        OBVIOUS
      <4>1. i \in DOMAIN entries /\ Len(entries) \in DOMAIN entries /\ i # Len(entries)
        BY <1>0
      <4>2. NoDuplicates /\ LinksExact
        BY DEF IInv, Consistent
      <4>3. entries[i].key # entries[Len(entries)].key
        BY <4>1, <4>2 DEF NoDuplicates
      <4>4. entries[i].key \in DOMAIN links /\ links[entries[i].key] = entries[i].node
        BY <4>1, <4>2 DEF LinksExact, KeysOf
      <4> QED
        BY <4>3, <4>4
    <3> QED
      BY <1>0, <2>1, <2>3, <3>1
  <2> QED
    BY <1>0, <2>0, <2>1, <2>2, <2>4, <2>5
<1> QED
  BY <1>1, <1>2

(* Using k puts it first in the history and keeps the history free of      *)
(* repetitions.                                                            *)
LEMMA UsedFacts ==
    ASSUME IInv, NEW k \in Key
    PROVE  /\ Used(k) \in Seq(Key)
           /\ Used(k)[1] = k
           /\ \A i, j \in DOMAIN Used(k) : i # j => Used(k)[i] # Used(k)[j]
           /\ \A p \in 1 .. Len(recency) : recency[p] = k =>
                 /\ Len(Used(k)) = Len(recency)
                 /\ \A a \in 1 .. Len(recency) : Used(k)[a] = recency[Before(p, a)]
           /\ (\A p \in 1 .. Len(recency) : recency[p] # k) =>
                 /\ Len(Used(k)) = Len(recency) + 1
                 /\ \A a \in 2 .. Len(recency) + 1 : Used(k)[a] = recency[a - 1]
<1>0. /\ recency \in Seq(Key)
      /\ Len(recency) \in Nat
      /\ DOMAIN recency = 1 .. Len(recency)
      /\ \A i, j \in 1 .. Len(recency) : i # j => recency[i] # recency[j]
  BY DEF IInv, TypeOK, RecencyDistinct
<1>1. CASE \E i \in DOMAIN recency : recency[i] = k
  <2> DEFINE p == CHOOSE i \in DOMAIN recency : recency[i] = k
  <2>1. p \in 1 .. Len(recency) /\ recency[p] = k
    BY <1>0, <1>1
  <2>2. Used(k) = Cons(recency[p], RemoveAt(recency, p))
    BY <1>1, <2>1 DEF Used
  <2> HIDE DEF p
  <2>3. IsMove(Key, recency, p, Used(k))
    BY <1>0, <2>1, <2>2, MoveFacts
  <2>4. \A i, j \in DOMAIN Used(k) : i # j => Used(k)[i] # Used(k)[j]
    BY <1>0, <2>3 DEF IsMove
  <2>5. \A q \in 1 .. Len(recency) : recency[q] = k => q = p
    BY <1>0, <2>1
  <2> QED
    BY <1>0, <2>1, <2>3, <2>4, <2>5 DEF IsMove
<1>2. CASE ~ \E i \in DOMAIN recency : recency[i] = k
  <2>1. Used(k) = Cons(k, recency)
    BY <1>2 DEF Used
  <2>2. /\ Used(k) \in Seq(Key)
        /\ Len(Used(k)) = Len(recency) + 1
        /\ Used(k)[1] = k
        /\ \A i \in 2 .. Len(recency) + 1 : Used(k)[i] = recency[i - 1]
    <3>1. IsCons(Key, k, recency, Used(k))
      BY <1>0, <2>1, ConsFacts
    <3> QED
      BY <3>1 DEF IsCons
  <2>3. \A i, j \in DOMAIN Used(k) : i # j => Used(k)[i] # Used(k)[j]
    <3>1. DOMAIN Used(k) = 1 .. Len(recency) + 1
      BY <1>0, <2>2
    <3>2. \A i \in 2 .. Len(recency) + 1 : /\ i - 1 \in 1 .. Len(recency)
                                           /\ Used(k)[i] = recency[i - 1]
      BY <1>0, <2>2
    <3>3. \A i \in 2 .. Len(recency) + 1 : Used(k)[i] # k
      BY <1>0, <1>2, <3>2
    <3>4. \A i, j \in 2 .. Len(recency) + 1 : i # j => i - 1 # j - 1
      BY <1>0
    <3>5. \A i, j \in 2 .. Len(recency) + 1 : i # j => Used(k)[i] # Used(k)[j]
      BY <1>0, <3>2, <3>4
    <3>6. \A i \in DOMAIN Used(k) : i = 1 \/ i \in 2 .. Len(recency) + 1
      BY <1>0, <3>1
    <3> QED
      BY <2>2, <3>3, <3>5, <3>6
  <2> QED
    BY <1>0, <1>2, <2>2, <2>3
<1> QED
  BY <1>1, <1>2

-----------------------------------------------------------------------------
(* Initially nothing is cached. *)
LEMMA InitIInv == Init => IInv
<1> SUFFICES ASSUME Init PROVE IInv
  OBVIOUS
<1>1. /\ Len(entries) = 0 /\ Len(recency) = 0
      /\ DOMAIN entries = {} /\ DOMAIN links = {} /\ DOMAIN recency = {}
      /\ entries \in Seq(Entry) /\ recency \in Seq(Key)
  BY DEF Init
<1>2. TypeOK
  <2>1. cur_size \in 0 .. MaxSize
    BY CacheAssumption DEF Init
  <2>2. thrown \in BOOLEAN
    BY DEF Init
  <2> QED
    BY <1>1, <2>1, <2>2 DEF TypeOK
<1>3. Consistent
  BY <1>1 DEF Init, Consistent, NoDuplicates, LinksExact, KeysOf, SizeExact
<1>4. MostRecent /\ RecencyDistinct
  BY <1>1, CacheAssumption DEF MostRecent, RecencyDistinct
<1> QED
  BY <1>2, <1>3, <1>4 DEF IInv

(* A hit permutes the list and keeps every node. *)
LEMMA HitFacts ==
    ASSUME IInv, NEW k \in Key, Hit(k)
    PROVE  IInv' /\ KeepsNodes
<1> DEFINE i == Position(k)
<1>0. /\ entries \in Seq(Entry)
      /\ Len(entries) \in Nat
      /\ DOMAIN entries = 1 .. Len(entries)
      /\ k \in DOMAIN links
      /\ ~thrown
      /\ NoDuplicates /\ LinksExact /\ SizeExact /\ MostRecent
  BY DEF IInv, TypeOK, Consistent, Hit
<1>1. /\ i \in 1 .. Len(entries)
      /\ entries[i].key = k
      /\ entries[i].node = links[k]
  BY <1>0, PositionFacts
<1>2. entries' = Cons(entries[i], RemoveAt(entries, i))
  BY DEF Hit
<1> HIDE DEF i
<1>3. IsMove(Entry, entries, i, entries')
  BY <1>0, <1>1, <1>2, MoveFacts
<1>4. links' = [x \in DOMAIN links |-> links[x]] /\ DOMAIN links' = DOMAIN links
  <2>1. links' = Bind(links, k, entries[i].node)
    BY <1>3 DEF Hit, IsMove
  <2>2. DOMAIN links \union {k} = DOMAIN links
    BY <1>0
  <2> QED
    BY <1>0, <1>1, <2>1, <2>2 DEF Bind
<1>5. NoDuplicates'
  <2> SUFFICES ASSUME NEW a \in 1 .. Len(entries), NEW b \in 1 .. Len(entries), a # b
               PROVE  /\ entries'[a].node # entries'[b].node
                      /\ entries'[a].key # entries'[b].key
    BY <1>3 DEF NoDuplicates, IsMove
  <2>1. /\ entries'[a] = entries[Before(i, a)]
        /\ entries'[b] = entries[Before(i, b)]
        /\ Before(i, a) \in 1 .. Len(entries)
        /\ Before(i, b) \in 1 .. Len(entries)
        /\ Before(i, a) # Before(i, b)
    BY <1>3 DEF IsMove
  <2> QED
    BY <1>0, <2>1 DEF NoDuplicates
<1>6. KeysOf(entries') = KeysOf(entries)
  <2>1. ASSUME NEW a \in DOMAIN entries'
        PROVE  entries'[a].key \in KeysOf(entries)
    BY <1>0, <1>3 DEF KeysOf, IsMove
  <2>2. ASSUME NEW b \in DOMAIN entries
        PROVE  entries[b].key \in KeysOf(entries')
    <3>1. PICK a \in 1 .. Len(entries) : Before(i, a) = b
      BY <1>0, <1>3 DEF IsMove
    <3>2. a \in DOMAIN entries' /\ entries'[a] = entries[b]
      BY <1>3, <3>1 DEF IsMove
    <3> QED
      BY <3>2 DEF KeysOf
  <2> QED
    BY <2>1, <2>2 DEF KeysOf
<1>7. LinksExact'
  <2>1. ASSUME NEW a \in 1 .. Len(entries)
        PROVE  links'[entries'[a].key] = entries'[a].node
    <3>1. PICK b \in DOMAIN entries : entries'[a] = entries[b]
      BY <1>0, <1>3 DEF IsMove
    <3>2. entries[b].key \in DOMAIN links /\ links[entries[b].key] = entries[b].node
      BY <1>0 DEF LinksExact, KeysOf
    <3> QED
      BY <1>4, <3>1, <3>2
  <2> QED
    BY <1>0, <1>3, <1>4, <1>6, <2>1 DEF LinksExact, IsMove
<1>8. recency' = Used(k) /\ cur_size' = cur_size /\ thrown' = thrown
  BY DEF Hit
<1>9. MostRecent' /\ RecencyDistinct' /\ recency' \in Seq(Key)
  <2>1. recency[i] = k /\ i \in 1 .. Len(recency) /\ Len(entries) <= Len(recency)
    <3>1. /\ Len(entries) = IF Len(recency) < MaxSize THEN Len(recency) ELSE MaxSize
          /\ recency[i] = entries[i].key
      BY <1>0, <1>1 DEF MostRecent
    <3>2. Len(recency) \in Nat /\ MaxSize \in Nat
      BY CacheAssumption DEF IInv, TypeOK
    <3> QED
      BY <1>0, <1>1, <3>1, <3>2
  <2>2. /\ Len(recency') = Len(recency)
        /\ \A a \in 1 .. Len(recency) : recency'[a] = recency[Before(i, a)]
        /\ recency' \in Seq(Key)
        /\ RecencyDistinct'
    BY <1>8, <2>1, UsedFacts DEF RecencyDistinct
  <2>3. ASSUME NEW a \in 1 .. Len(entries)
        PROVE  entries'[a].key = recency'[a]
    <3>1. a \in 1 .. Len(recency) /\ Before(i, a) \in 1 .. Len(entries)
      BY <1>0, <1>3, <2>1 DEF IsMove
    <3>2. recency'[a] = recency[Before(i, a)] /\ entries'[a] = entries[Before(i, a)]
      BY <1>3, <2>2, <3>1 DEF IsMove
    <3> QED
      BY <1>0, <3>1, <3>2 DEF MostRecent
  <2>4. Len(entries') = Len(entries) /\ DOMAIN entries' = 1 .. Len(entries)
    BY <1>3 DEF IsMove
  <2> QED
    BY <1>0, <2>2, <2>3, <2>4 DEF MostRecent
<1>10. TypeOK' /\ SizeExact'
  <2>1. Len(entries') = Len(entries) /\ entries' \in Seq(Entry)
    BY <1>3 DEF IsMove
  <2>2. SizeExact'
    BY <1>0, <1>8, <2>1 DEF SizeExact
  <2> QED
    BY <1>4, <1>8, <1>9, <2>1, <2>2 DEF IInv, TypeOK
<1>11. KeepsNodes
  <2> SUFFICES ASSUME NEW b \in DOMAIN entries, NEW a \in 1 .. Len(entries),
                      entries[b].key = entries'[a].key
               PROVE  entries[b] = entries'[a]
    BY <1>3 DEF KeepsNodes, IsMove
  <2>1. entries'[a] = entries[Before(i, a)] /\ Before(i, a) \in DOMAIN entries
    BY <1>0, <1>3 DEF IsMove
  <2> QED
    BY <1>0, <2>1 DEF NoDuplicates
<1> QED
  BY <1>5, <1>7, <1>9, <1>10, <1>11 DEF IInv, Consistent

(* A miss puts the new pair in front of what making room left. *)
LEMMA MissFacts ==
    ASSUME IInv, NEW k \in Key, Miss(k)
    PROVE  IInv' /\ KeepsNodes
<1>0. /\ entries \in Seq(Entry)
      /\ Len(entries) \in Nat
      /\ DOMAIN entries = 1 .. Len(entries)
      /\ k \notin DOMAIN links
      /\ ~thrown
      /\ thrown' = thrown
      /\ cur_size' = RoomSize
      /\ recency' = Used(k)
      /\ NoDuplicates /\ LinksExact /\ SizeExact /\ MostRecent
      /\ MaxSize \in Nat \ {0}
  BY CacheAssumption DEF IInv, TypeOK, Consistent, Miss
<1> DEFINE room == RoomEntries
           L == Len(room)
<1>1. PICK v \in Val, n \in Node \ NodesOf(room) :
          /\ entries' = Cons([node |-> n, key |-> k, val |-> v], room)
          /\ links' = Bind(RoomLinks, k, n)
  BY DEF Miss
<1> DEFINE e == [node |-> n, key |-> k, val |-> v]
<1>2. /\ room \in Seq(Entry)
      /\ L \in 0 .. MaxSize - 1
      /\ L = IF Len(entries) < MaxSize THEN Len(entries) ELSE MaxSize - 1
      /\ L <= Len(entries)
      /\ \A i \in 1 .. L : room[i] = entries[i]
      /\ RoomSize = L + 1
      /\ DOMAIN RoomLinks = KeysOf(room)
      /\ \A i \in 1 .. L : RoomLinks[room[i].key] = room[i].node
  BY <1>0, RoomFacts
<1>3. e \in Entry /\ e.node = n /\ e.key = k
  BY DEF Entry
<1> HIDE DEF e, room, L
<1>4. /\ entries' \in Seq(Entry)
      /\ Len(entries') = L + 1
      /\ entries'[1] = e
      /\ \A j \in 2 .. L + 1 : entries'[j] = room[j - 1]
  <2>1. entries' = Cons(e, room)
    BY <1>1 DEF e
  <2>2. room \in Seq(Entry) /\ e \in Entry
    BY <1>2, <1>3
  <2>3. IsCons(Entry, e, room, entries')
    BY <2>1, <2>2, ConsFacts
  <2> QED
    BY <2>3 DEF IsCons, L
<1>5. /\ DOMAIN entries' = 1 .. L + 1
      /\ \A j \in 1 .. L + 1 : j = 1 \/ (/\ j \in 2 .. L + 1
                                         /\ j - 1 \in 1 .. L
                                         /\ j - 1 \in DOMAIN entries
                                         /\ entries'[j] = entries[j - 1]
                                         /\ entries'[j] = room[j - 1])
  <2>1. L \in Nat /\ DOMAIN entries' = 1 .. L + 1
    <3>1. entries' \in Seq(Entry) /\ Len(entries') = L + 1
      BY <1>4
    <3>2. L \in Nat
      BY <1>0, <1>2
    <3> QED
      BY <3>1, <3>2
  <2>2. ASSUME NEW j \in 2 .. L + 1
        PROVE  /\ j - 1 \in 1 .. L
               /\ j - 1 \in DOMAIN entries
               /\ entries'[j] = room[j - 1]
               /\ entries'[j] = entries[j - 1]
    <3>1. j - 1 \in 1 .. L /\ j - 1 \in DOMAIN entries
      BY <1>0, <1>2, <2>1
    <3> QED
      BY <1>2, <1>4, <3>1
  <2>3. \A j \in 1 .. L + 1 : j = 1 \/ j \in 2 .. L + 1
    BY <2>1
  <2> QED
    BY <2>1, <2>2, <2>3
<1>6. \A i \in DOMAIN entries : entries[i].key # k
  BY <1>0 DEF LinksExact, KeysOf
<1>7. \A i \in 1 .. L : room[i].node # n
  <2>1. DOMAIN room = 1 .. L
    BY <1>2 DEF L
  <2> QED
    BY <1>1, <2>1 DEF NodesOf
<1>8. NoDuplicates'
  <2>1. ASSUME NEW a \in 1 .. L + 1, NEW b \in 2 .. L + 1, a # b
        PROVE  /\ entries'[a].node # entries'[b].node
               /\ entries'[a].key # entries'[b].key
    <3>1. b \in 1 .. L + 1 /\ b # 1
      BY <1>2
    <3>2. CASE a = 1
      BY <1>3, <1>4, <1>5, <1>6, <1>7, <3>1, <3>2
    <3>3. CASE a # 1
      <4>1. a - 1 # b - 1
        BY <1>2, <2>1
      <4> QED
        BY <1>0, <1>5, <3>1, <3>3, <4>1 DEF NoDuplicates
    <3> QED
      BY <3>2, <3>3
  <2>2. ASSUME NEW a \in 1 .. L + 1, NEW b \in 1 .. L + 1, a # b
        PROVE  /\ entries'[a].node # entries'[b].node
               /\ entries'[a].key # entries'[b].key
    <3>1. a \in 2 .. L + 1 \/ b \in 2 .. L + 1
      BY <1>2, <2>2
    <3> QED
      BY <2>1, <2>2, <3>1
  <2> QED
    BY <1>5, <2>2 DEF NoDuplicates
<1>9. KeysOf(entries') = KeysOf(room) \union {k}
  <2>1. DOMAIN room = 1 .. L
    BY <1>2 DEF L
  <2>2. ASSUME NEW j \in DOMAIN entries'
        PROVE  entries'[j].key \in KeysOf(room) \union {k}
    BY <1>3, <1>4, <1>5, <2>1 DEF KeysOf
  <2>3. ASSUME NEW i \in 1 .. L
        PROVE  room[i].key \in KeysOf(entries')
    <3>1. i + 1 \in 2 .. L + 1 /\ (i + 1) - 1 = i /\ i + 1 \in DOMAIN entries'
      BY <1>2, <1>5
    <3>2. entries'[i + 1] = room[i]
      BY <1>4, <3>1
    <3> QED
      BY <3>1, <3>2 DEF KeysOf
  <2>4. k \in KeysOf(entries')
    <3>1. 1 \in DOMAIN entries'
      BY <1>2, <1>5
    <3> QED
      BY <1>3, <1>4, <3>1 DEF KeysOf
  <2> QED
    BY <2>1, <2>2, <2>3, <2>4 DEF KeysOf
<1>10. /\ DOMAIN links' = KeysOf(room) \union {k}
       /\ links'[k] = n
       /\ \A x \in KeysOf(room) : x # k => links'[x] = RoomLinks[x]
  BY <1>1, <1>2 DEF Bind
<1>11. LinksExact'
  <2>1. ASSUME NEW j \in 1 .. L + 1
        PROVE  links'[entries'[j].key] = entries'[j].node
    <3>1. CASE j = 1
      BY <1>3, <1>4, <1>10, <3>1
    <3>2. CASE j # 1
      <4>1. /\ j - 1 \in 1 .. L
            /\ entries'[j] = room[j - 1]
            /\ entries'[j].key # k
        BY <1>5, <1>6, <3>2
      <4>2. room[j - 1].key \in KeysOf(room)
        BY <1>2, <4>1 DEF KeysOf, L
      <4> QED
        BY <1>2, <1>10, <4>1, <4>2
    <3> QED
      BY <3>1, <3>2
  <2> QED
    BY <1>5, <1>9, <1>10, <2>1 DEF LinksExact
<1>12. SizeExact' /\ cur_size' \in 0 .. MaxSize
  BY <1>0, <1>2, <1>4 DEF SizeExact
<1>13. /\ recency' \in Seq(Key)
       /\ RecencyDistinct'
       /\ recency'[1] = k
  BY <1>0, UsedFacts DEF RecencyDistinct
<1>14. MostRecent'
  <2> DEFINE R == Len(recency)
  <2>1. /\ R \in Nat
        /\ Len(entries) = IF R < MaxSize THEN R ELSE MaxSize
        /\ \A i \in 1 .. Len(entries) : entries[i].key = recency[i]
    BY <1>0 DEF MostRecent, IInv, TypeOK
  <2>2. /\ Len(recency') = R \/ Len(recency') = R + 1
        /\ Len(recency') = R => R > Len(entries)
        /\ \A a \in 2 .. L + 1 : recency'[a] = recency[a - 1]
    <3>1. CASE \E p \in 1 .. R : recency[p] = k
      <4>1. PICK p \in 1 .. R : recency[p] = k
        BY <3>1
      <4>2. /\ Len(recency') = R
            /\ \A a \in 1 .. R : recency'[a] = recency[Before(p, a)]
        BY <1>0, <4>1, UsedFacts
      <4>3. p > Len(entries)
        BY <1>0, <1>6, <2>1, <4>1
      <4>4. \A a \in 2 .. L + 1 : a \in 1 .. R /\ Before(p, a) = a - 1
        BY <1>0, <1>2, <2>1, <4>3 DEF Before
      <4> QED
        BY <2>1, <4>1, <4>2, <4>3, <4>4
    <3>2. CASE \A p \in 1 .. R : recency[p] # k
      <4>1. /\ Len(recency') = R + 1
            /\ \A a \in 2 .. R + 1 : recency'[a] = recency[a - 1]
        BY <1>0, <3>2, UsedFacts
      <4>2. L <= R
        BY <1>0, <1>2, <2>1
      <4>3. L \in Nat /\ \A a \in 2 .. L + 1 : a \in 2 .. R + 1
        BY <1>0, <1>2, <2>1, <4>2
      <4>4. R + 1 # R
        BY <2>1
      <4> HIDE DEF R
      <4> QED
        BY <4>1, <4>3, <4>4
    <3> QED
      BY <3>1, <3>2
  <2>3. Len(entries') = IF Len(recency') < MaxSize THEN Len(recency') ELSE MaxSize
    BY <1>0, <1>2, <1>4, <2>1, <2>2
  <2>4. ASSUME NEW j \in DOMAIN entries'
        PROVE  entries'[j].key = recency'[j]
    <3>1. CASE j = 1
      BY <1>3, <1>4, <1>13, <3>1
    <3>2. CASE j # 1
      BY <1>0, <1>5, <2>1, <2>2, <3>2
    <3> QED
      BY <3>1, <3>2
  <2> QED
    BY <2>3, <2>4 DEF MostRecent
<1>15. TypeOK'
  <2>1. DOMAIN links' \subseteq Key
    <3>1. KeysOf(room) \subseteq Key
      <4>1. \A i \in DOMAIN room : room[i] \in Entry
        BY <1>2
      <4>2. \A x \in Entry : x.key \in Key
        BY DEF Entry
      <4> QED
        BY <4>1, <4>2 DEF KeysOf
    <3> QED
      BY <1>10, <3>1
  <2>2. \A x \in DOMAIN links' : links'[x] \in Node
    <3> SUFFICES ASSUME NEW x \in KeysOf(entries') PROVE links'[x] \in Node
      BY <1>11 DEF LinksExact
    <3>1. PICK j \in DOMAIN entries' : x = entries'[j].key
      BY DEF KeysOf
    <3>2. links'[x] = entries'[j].node
      BY <1>11, <3>1 DEF LinksExact
    <3>3. entries'[j] \in Entry
      BY <1>4, <3>1
    <3>4. \A y \in Entry : y.node \in Node
      BY DEF Entry
    <3> QED
      BY <3>2, <3>3, <3>4
  <2> QED
    BY <1>0, <1>4, <1>12, <1>13, <2>1, <2>2 DEF TypeOK, IInv
<1>16. KeepsNodes
  <2> SUFFICES ASSUME NEW i \in DOMAIN entries, NEW j \in DOMAIN entries',
                      entries[i].key = entries'[j].key
               PROVE  entries[i] = entries'[j]
    BY DEF KeepsNodes
  <2>1. j # 1
    BY <1>3, <1>4, <1>6
  <2> QED
    BY <1>0, <1>5, <2>1 DEF NoDuplicates
<1> QED
  BY <1>8, <1>11, <1>12, <1>13, <1>14, <1>15, <1>16 DEF IInv, Consistent

(* A throw leaves what making room left, counted once too often when there *)
(* was room already.                                                       *)
LEMMA ThrowFacts ==
    ASSUME IInv, NEW k \in Key, Throw(k)
    PROVE  IInv' /\ KeepsNodes
<1>0. /\ entries \in Seq(Entry)
      /\ DOMAIN entries = 1 .. Len(entries)
      /\ ~thrown
      /\ thrown' = TRUE
      /\ cur_size' = RoomSize
      /\ recency' = recency
      /\ entries' = RoomEntries
      /\ links' = RoomLinks
      /\ NoDuplicates
      /\ MaxSize \in Nat \ {0}
  BY CacheAssumption DEF IInv, TypeOK, Consistent, Throw
<1>1. /\ entries' \in Seq(Entry)
      /\ Len(entries') \in 0 .. MaxSize - 1
      /\ Len(entries') <= Len(entries)
      /\ \A i \in 1 .. Len(entries') : entries'[i] = entries[i]
      /\ cur_size' = Len(entries') + 1
      /\ DOMAIN links' = KeysOf(entries')
      /\ \A i \in 1 .. Len(entries') : links'[entries'[i].key] = entries'[i].node
  BY <1>0, RoomFacts
<1>2. /\ DOMAIN entries' = 1 .. Len(entries')
      /\ \A i \in DOMAIN entries' : i \in DOMAIN entries /\ entries'[i] = entries[i]
  <2>1. DOMAIN entries' = 1 .. Len(entries')
    BY <1>1
  <2>2. Len(entries) \in Nat /\ \A i \in 1 .. Len(entries') : i \in 1 .. Len(entries)
    BY <1>0, <1>1
  <2> QED
    BY <1>0, <1>1, <2>1, <2>2
<1>3. NoDuplicates' /\ KeepsNodes
  BY <1>0, <1>2 DEF NoDuplicates, KeepsNodes
<1>4. LinksExact'
  BY <1>1, <1>2 DEF LinksExact
<1>5. SizeExact' /\ cur_size' \in 0 .. MaxSize
  BY <1>0, <1>1 DEF SizeExact
<1>6. MostRecent' /\ RecencyDistinct'
  <2>1. MostRecent'
    BY <1>0 DEF MostRecent
  <2>2. RecencyDistinct'
    BY <1>0 DEF IInv, RecencyDistinct
  <2> QED
    BY <2>1, <2>2
<1>7. TypeOK'
  <2>1. \A i \in DOMAIN entries' : entries'[i].key \in Key /\ entries'[i].node \in Node
    <3>1. \A i \in DOMAIN entries' : entries'[i] \in Entry
      BY <1>1
    <3>2. \A y \in Entry : y.node \in Node /\ y.key \in Key
      BY DEF Entry
    <3> QED
      BY <3>1, <3>2
  <2>2. DOMAIN links' \subseteq Key /\ \A x \in DOMAIN links' : links'[x] \in Node
    BY <1>4, <2>1 DEF LinksExact, KeysOf
  <2>3. thrown' \in BOOLEAN
    BY <1>0
  <2> QED
    BY <1>0, <1>1, <1>5, <2>2, <2>3 DEF IInv, TypeOK
<1> QED
  BY <1>3, <1>4, <1>5, <1>6, <1>7 DEF IInv, Consistent

(* clear() empties the three fields together. *)
LEMMA ClearFacts ==
    ASSUME IInv, Clear
    PROVE  IInv' /\ KeepsNodes
<1>1. /\ Len(entries') = 0 /\ Len(recency') = 0
      /\ DOMAIN entries' = {} /\ DOMAIN links' = {} /\ DOMAIN recency' = {}
      /\ entries' \in Seq(Entry) /\ recency' \in Seq(Key)
      /\ cur_size' = 0 /\ cur_size' \in 0 .. MaxSize
  BY CacheAssumption DEF Clear
<1>2. ~thrown /\ thrown' = thrown /\ thrown' \in BOOLEAN
  BY DEF Clear, IInv, TypeOK
<1>3. TypeOK'
  BY <1>1, <1>2 DEF TypeOK
<1>4. Consistent'
  BY <1>1, <1>2 DEF Consistent, NoDuplicates, LinksExact, KeysOf, SizeExact
<1>5. MostRecent' /\ RecencyDistinct'
  BY <1>1, CacheAssumption DEF MostRecent, RecencyDistinct
<1> QED
  BY <1>1, <1>3, <1>4, <1>5 DEF IInv, KeepsNodes

(* Every step preserves the inductive invariant and keeps nodes in place. *)
LEMMA NextFacts == IInv /\ [Next]_vars => IInv' /\ (KeepsNodes \/ UNCHANGED vars)
<1> SUFFICES ASSUME IInv, [Next]_vars
             PROVE  IInv' /\ (KeepsNodes \/ UNCHANGED vars)
  OBVIOUS
<1>1. CASE UNCHANGED vars
  BY <1>1 DEF vars, IInv, TypeOK, Consistent, NoDuplicates, LinksExact, KeysOf,
     SizeExact, MostRecent, RecencyDistinct
<1>2. CASE Clear
  BY <1>2, ClearFacts
<1>3. ASSUME NEW k \in Key, Hit(k)
      PROVE  IInv' /\ KeepsNodes
  BY <1>3, HitFacts
<1>4. ASSUME NEW k \in Key, Miss(k)
      PROVE  IInv' /\ KeepsNodes
  BY <1>4, MissFacts
<1>5. ASSUME NEW k \in Key, Throw(k)
      PROVE  IInv' /\ KeepsNodes
  BY <1>5, ThrowFacts
<1> QED
  BY <1>1, <1>2, <1>3, <1>4, <1>5 DEF Next

(* The inductive invariant holds in every reachable state. *)
LEMMA IInvHolds == Spec => []IInv
<1>1. IInv /\ [Next]_vars => IInv'
  BY NextFacts
<1> QED
  BY InitIInv, <1>1, PTL DEF Spec

(* For every size, key set and value set: the fields of the cache keep     *)
(* their types, and cur_size_ never passes max_size_.                      *)
THEOREM TypeCorrect == Spec => []TypeOK
<1>1. IInv => TypeOK
  BY DEF IInv
<1> QED
  BY IInvHolds, <1>1, PTL

(* For every size, key set and value set: no iterator of links_ dangles,   *)
(* every listed key is linked once, and cur_size_ is the list's length.    *)
THEOREM CacheConsistent == Spec => []Consistent
<1>1. IInv => Consistent
  BY DEF IInv
<1> QED
  BY IInvHolds, <1>1, PTL

(* For every size, key set and value set: the cached keys are the most     *)
(* recently used ones, in order of use.                                    *)
THEOREM KeepsMostRecent == Spec => []MostRecent
<1>1. IInv => MostRecent
  BY DEF IInv
<1> QED
  BY IInvHolds, <1>1, PTL

(* For every size, key set and value set: a reference that insert()        *)
(* returned stays good for as long as its key stays cached.                *)
THEOREM ReferencesStay == Spec => ReferencesStable
<1>1. IInv /\ [Next]_vars => [KeepsNodes]_vars
  BY NextFacts DEF vars
<1> QED
  BY IInvHolds, <1>1, PTL DEF Spec, ReferencesStable

-----------------------------------------------------------------------------
(* The pairs of the abstract list. *)
Pair == [key : Key, val : Val]

(* Forgetting the nodes of a list keeps its length, its keys and its        *)
(* values.                                                                 *)
LEMMA AbstractFacts ==
    ASSUME NEW list \in Seq(Entry)
    PROVE  /\ Abstract(list) \in Seq(Pair)
           /\ Len(Abstract(list)) = Len(list)
           /\ \A i \in 1 .. Len(list) :
                 Abstract(list)[i] = [key |-> list[i].key, val |-> list[i].val]
           /\ Cached(Abstract(list)) = KeysOf(list)
<1> DEFINE abs == Abstract(list)
<1>0. Len(list) \in Nat /\ DOMAIN list = 1 .. Len(list)
  OBVIOUS
<1>1. \A i \in 1 .. Len(list) : [key |-> list[i].key, val |-> list[i].val] \in Pair
  <2>1. \A i \in 1 .. Len(list) : list[i] \in Entry
    OBVIOUS
  <2>2. \A y \in Entry : y.key \in Key /\ y.val \in Val
    BY DEF Entry
  <2> QED
    BY <2>1, <2>2 DEF Pair
<1>2. abs = [i \in 1 .. Len(list) |-> [key |-> list[i].key, val |-> list[i].val]]
  BY <1>0 DEF Abstract
<1> HIDE DEF abs
<1>3. abs \in Seq(Pair) /\ Len(abs) = Len(list) /\ DOMAIN abs = 1 .. Len(list)
  <2>1. abs \in [1 .. Len(list) -> Pair]
    BY <1>1, <1>2
  <2>2. abs \in Seq(Pair)
    BY <1>0, <2>1, SeqDef
  <2> QED
    BY <1>0, <2>1, <2>2
<1>4. \A i \in 1 .. Len(list) : abs[i] = [key |-> list[i].key, val |-> list[i].val]
  BY <1>2
<1>5. Cached(abs) = KeysOf(list)
  <2>1. ASSUME NEW i \in 1 .. Len(list)
        PROVE  abs[i].key = list[i].key
    <3>1. abs[i] = [key |-> list[i].key, val |-> list[i].val]
      BY <1>4
    <3> QED
      BY <3>1
  <2> QED
    BY <1>0, <1>3, <2>1 DEF Cached, KeysOf
<1> QED
  BY <1>3, <1>4, <1>5 DEF abs

(* A hit moves the same pair of the abstract list to the front. *)
LEMMA HitRefines ==
    ASSUME IInv, NEW k \in Key, Hit(k)
    PROVE  A!LRUInsert(k)
<1> DEFINE abs == Abstract(entries)
           i == Position(k)
           j == IndexOf(abs, k)
<1>0. /\ entries \in Seq(Entry)
      /\ k \in DOMAIN links
      /\ ~thrown /\ thrown' = thrown
      /\ NoDuplicates /\ LinksExact
      /\ entries' = Cons(entries[i], RemoveAt(entries, i))
  BY DEF IInv, TypeOK, Consistent, Hit
<1>1. i \in 1 .. Len(entries) /\ entries[i].key = k
  BY <1>0, PositionFacts
<1> HIDE DEF i
<1>2. IsMove(Entry, entries, i, entries')
  BY <1>0, <1>1, MoveFacts
<1>3. /\ abs \in Seq(Pair)
      /\ Len(abs) = Len(entries)
      /\ \A a \in 1 .. Len(entries) :
            abs[a] = [key |-> entries[a].key, val |-> entries[a].val]
      /\ k \in Cached(abs)
  <2>1. k \in KeysOf(entries)
    BY <1>0 DEF LinksExact
  <2> QED
    BY <1>0, <2>1, AbstractFacts
<1>4. /\ abs' \in Seq(Pair)
      /\ Len(abs') = Len(entries)
      /\ \A a \in 1 .. Len(entries) :
            abs'[a] = [key |-> entries'[a].key, val |-> entries'[a].val]
  <2>1. entries' \in Seq(Entry) /\ Len(entries') = Len(entries)
    BY <1>2 DEF IsMove
  <2>2. abs' = Abstract(entries')
    BY DEF Abstract
  <2> QED
    BY <2>1, <2>2, AbstractFacts
<1> HIDE DEF abs
<1>5. j \in 1 .. Len(entries) /\ abs[j].key = k
  BY <1>3, IndexFacts
<1>6. j = i
  <2>1. entries[j].key = k
    <3> HIDE DEF j
    <3>1. abs[j] = [key |-> entries[j].key, val |-> entries[j].val]
      BY <1>3, <1>5
    <3> QED
      BY <1>5, <3>1
  <2> QED
    BY <1>0, <1>1, <1>5, <2>1 DEF NoDuplicates
<1>7. IsMove(Pair, abs, i, Touch(abs, k))
  BY <1>3, <1>6, TouchFacts
<1>8. abs' = Touch(abs, k)
  <2>1. ASSUME NEW a \in 1 .. Len(entries)
        PROVE  abs'[a] = Touch(abs, k)[a]
    <3>1. entries'[a] = entries[Before(i, a)] /\ Before(i, a) \in 1 .. Len(entries)
      BY <1>2 DEF IsMove
    <3>2. abs'[a] = abs[Before(i, a)]
      BY <1>3, <1>4, <3>1
    <3>3. Touch(abs, k)[a] = abs[Before(i, a)]
      BY <1>3, <1>7 DEF IsMove
    <3> QED
      BY <3>2, <3>3
  <2>2. Touch(abs, k) \in Seq(Pair) /\ Len(Touch(abs, k)) = Len(abs)
    BY <1>7 DEF IsMove
  <2> QED
    BY <1>3, <1>4, <2>1, <2>2, SameSeq
<1> QED
  BY <1>0, <1>3, <1>8
     DEF abs, A!LRUInsert, A!Cached, A!Touch, A!IndexOf, A!Cons, A!RemoveAt,
         Cached, Touch, IndexOf, Cons, RemoveAt

(* Making room in the concrete list makes room in the abstract one. *)
LEMMA RoomRefines ==
    ASSUME IInv, ~thrown
    PROVE  Abstract(RoomEntries) = Evict(Abstract(entries), MaxSize)
<1> DEFINE abs == Abstract(entries)
           room == Abstract(RoomEntries)
<1>0. /\ entries \in Seq(Entry) /\ MaxSize \in Nat \ {0}
      /\ Len(entries) \in 0 .. MaxSize
      /\ Full <=> ~(Len(entries) < MaxSize)
  BY CacheAssumption DEF IInv, TypeOK, Consistent, SizeExact, Full
<1>1. /\ abs \in Seq(Pair)
      /\ Len(abs) = Len(entries)
      /\ \A a \in 1 .. Len(entries) :
            abs[a] = [key |-> entries[a].key, val |-> entries[a].val]
  BY <1>0, AbstractFacts
<1>2. /\ RoomEntries \in Seq(Entry)
      /\ Len(RoomEntries) = IF Len(entries) < MaxSize THEN Len(entries) ELSE MaxSize - 1
      /\ Len(RoomEntries) <= Len(entries)
      /\ \A a \in 1 .. Len(RoomEntries) : RoomEntries[a] = entries[a]
  BY RoomFacts
<1>3. /\ room \in Seq(Pair)
      /\ Len(room) = Len(RoomEntries)
      /\ \A a \in 1 .. Len(RoomEntries) :
            room[a] = [key |-> RoomEntries[a].key, val |-> RoomEntries[a].val]
  BY <1>2, AbstractFacts
<1> HIDE DEF abs, room
<1>4. ASSUME NEW a \in 1 .. Len(room)
      PROVE  a \in 1 .. Len(entries) /\ room[a] = abs[a]
  <2>1. a \in 1 .. Len(entries) /\ a \in 1 .. Len(RoomEntries)
    BY <1>0, <1>2, <1>3
  <2>2. RoomEntries[a] = entries[a]
    BY <1>2, <2>1
  <2> QED
    BY <1>1, <1>3, <2>1, <2>2
<1>5. CASE Len(entries) < MaxSize
  <2>1. room = abs
    BY <1>1, <1>2, <1>3, <1>4, <1>5, SameSeq
  <2> QED
    BY <1>1, <1>5, <2>1 DEF Evict, abs, room
<1>6. CASE ~(Len(entries) < MaxSize)
  <2>1. Len(entries) = MaxSize /\ Len(room) = Len(abs) - 1 /\ Len(abs) > 0
    BY <1>0, <1>1, <1>2, <1>3, <1>6
  <2>2. /\ Front(abs) \in Seq(Pair)
        /\ Len(Front(abs)) = Len(abs) - 1
        /\ \A a \in 1 .. Len(abs) - 1 : Front(abs)[a] = abs[a]
    BY <1>1, <2>1, FrontFacts
  <2>3. \A a \in 1 .. Len(room) : room[a] = Front(abs)[a]
    BY <1>4, <2>1, <2>2
  <2>4. room = Front(abs)
    BY <1>3, <2>1, <2>2, <2>3, SameSeq
  <2> QED
    BY <1>1, <1>6, <2>4 DEF Evict, abs, room
<1> QED
  BY <1>5, <1>6

(* A miss puts the new pair in front of the abstract list. *)
LEMMA MissRefines ==
    ASSUME IInv, NEW k \in Key, Miss(k)
    PROVE  A!LRUInsert(k)
<1> DEFINE abs == Abstract(entries)
           room == Abstract(RoomEntries)
<1>0. /\ entries \in Seq(Entry)
      /\ k \notin DOMAIN links
      /\ ~thrown /\ thrown' = thrown
      /\ LinksExact
  BY DEF IInv, TypeOK, Consistent, Miss
<1>1. PICK v \in Val, n \in Node \ NodesOf(RoomEntries) :
          entries' = Cons([node |-> n, key |-> k, val |-> v], RoomEntries)
  BY DEF Miss
<1> DEFINE e == [node |-> n, key |-> k, val |-> v]
           p == [key |-> k, val |-> v]
<1>2. e \in Entry /\ e.key = k /\ e.val = v /\ p \in Pair
  BY DEF Entry, Pair
<1>3. RoomEntries \in Seq(Entry)
  BY <1>0, RoomFacts
<1>4. k \notin Cached(abs)
  <2>1. Cached(abs) = KeysOf(entries)
    BY <1>0, AbstractFacts
  <2> QED
    BY <1>0, <2>1 DEF LinksExact
<1>5. /\ room \in Seq(Pair)
      /\ Len(room) = Len(RoomEntries)
      /\ \A a \in 1 .. Len(RoomEntries) :
            room[a] = [key |-> RoomEntries[a].key, val |-> RoomEntries[a].val]
  BY <1>3, AbstractFacts
<1>6. room = Evict(abs, MaxSize)
  BY <1>0, RoomRefines
<1>7. entries' = Cons(e, RoomEntries) /\ abs' = Abstract(entries')
  BY <1>1 DEF Abstract
<1> HIDE DEF e, p, room, abs
<1>8. IsCons(Entry, e, RoomEntries, entries')
  BY <1>2, <1>3, <1>7, ConsFacts
<1>9. /\ abs' \in Seq(Pair)
      /\ Len(abs') = Len(RoomEntries) + 1
      /\ \A a \in 1 .. Len(RoomEntries) + 1 :
            abs'[a] = [key |-> entries'[a].key, val |-> entries'[a].val]
  <2>1. entries' \in Seq(Entry) /\ Len(entries') = Len(RoomEntries) + 1
    BY <1>8 DEF IsCons
  <2> QED
    BY <1>7, <2>1, AbstractFacts
<1>10. IsCons(Pair, p, room, Cons(p, room))
  BY <1>2, <1>5, ConsFacts
<1>11. ASSUME NEW a \in 1 .. Len(RoomEntries) + 1
       PROVE  abs'[a] = Cons(p, room)[a]
  <2>0. Len(RoomEntries) \in Nat
    BY <1>3
  <2>1. CASE a = 1
    <3>1. entries'[1] = e /\ Cons(p, room)[1] = p
      BY <1>8, <1>10 DEF IsCons
    <3> QED
      BY <1>2, <1>9, <2>1, <3>1 DEF p
  <2>2. CASE a # 1
    <3>1. a \in 2 .. Len(RoomEntries) + 1 /\ a - 1 \in 1 .. Len(RoomEntries)
      BY <2>0, <2>2
    <3>2. entries'[a] = RoomEntries[a - 1] /\ Cons(p, room)[a] = room[a - 1]
      BY <1>5, <1>8, <1>10, <3>1 DEF IsCons
    <3> QED
      BY <1>5, <1>9, <3>1, <3>2
  <2> QED
    BY <2>1, <2>2
<1>12. abs' = Cons(p, room)
  <2>1. Cons(p, room) \in Seq(Pair) /\ Len(Cons(p, room)) = Len(RoomEntries) + 1
    BY <1>5, <1>10 DEF IsCons
  <2> QED
    BY <1>9, <1>11, <2>1, SameSeq
<1>13. abs' = Put(abs, MaxSize, k, v)
  BY <1>6, <1>12 DEF Put, p
<1> QED
  BY <1>0, <1>4, <1>13
     DEF abs, A!LRUInsert, A!Cached, A!Put, A!Evict, A!Cons, A!Front,
         Cached, Put, Evict, Cons, Front

(* A throw leaves the abstract list with room made. *)
LEMMA ThrowRefines ==
    ASSUME IInv, NEW k \in Key, Throw(k)
    PROVE  A!LRUThrow(k)
<1>0. /\ entries \in Seq(Entry)
      /\ k \notin DOMAIN links
      /\ ~thrown /\ thrown' = TRUE
      /\ LinksExact
      /\ entries' = RoomEntries
  BY DEF IInv, TypeOK, Consistent, Throw
<1>1. k \notin Cached(Abstract(entries))
  BY <1>0, AbstractFacts DEF LinksExact
<1>2. Abstract(entries)' = Evict(Abstract(entries), MaxSize)
  <2>1. Abstract(entries)' = Abstract(RoomEntries)
    BY <1>0 DEF Abstract
  <2> QED
    BY <1>0, <2>1, RoomRefines
<1> QED
  BY <1>0, <1>1, <1>2 DEF A!LRUThrow, A!Cached, A!Evict, A!Front, Cached, Evict, Front

(* For every size, key set and value set: the linked list with its map and *)
(* its counter does exactly what the abstract LRU list does.               *)
THEOREM CacheImplementsLRU == Spec => ImplementsLRU
<1>1. Init => A!LRUInit
  <2> SUFFICES ASSUME Init PROVE A!LRUInit
    OBVIOUS
  <2>1. entries = <<>> /\ thrown = FALSE /\ entries \in Seq(Entry)
    BY DEF Init
  <2>2. Abstract(entries) \in Seq(Pair) /\ Len(Abstract(entries)) = 0
    BY <2>1, AbstractFacts
  <2>3. Abstract(entries) = <<>>
    BY <2>2
  <2> QED
    BY <2>1, <2>3 DEF A!LRUInit
<1>2. IInv /\ [Next]_vars => [A!LRUNext]_(A!lruVars)
  <2> SUFFICES ASSUME IInv, [Next]_vars
               PROVE  A!LRUNext \/ UNCHANGED A!lruVars
    BY DEF A!lruVars
  <2>1. CASE UNCHANGED vars
    BY <2>1 DEF vars, A!lruVars, Abstract
  <2>2. CASE Clear
    <3>1. Abstract(entries)' = <<>>
      <4>1. entries' = <<>> /\ entries' \in Seq(Entry)
        BY <2>2 DEF Clear
      <4>2. Abstract(entries') \in Seq(Pair) /\ Len(Abstract(entries')) = 0
        BY <4>1, AbstractFacts
      <4>3. Abstract(entries)' = Abstract(entries')
        BY DEF Abstract
      <4> QED
        BY <4>2, <4>3
    <3>2. ~thrown /\ thrown' = thrown
      BY <2>2 DEF Clear
    <3> QED
      BY <3>1, <3>2 DEF A!LRUNext, A!LRUClear
  <2>3. ASSUME NEW k \in Key, Hit(k)
        PROVE  A!LRUNext
    BY <2>3, HitRefines DEF A!LRUNext
  <2>4. ASSUME NEW k \in Key, Miss(k)
        PROVE  A!LRUNext
    BY <2>4, MissRefines DEF A!LRUNext
  <2>5. ASSUME NEW k \in Key, Throw(k)
        PROVE  A!LRUNext
    BY <2>5, ThrowRefines DEF A!LRUNext
  <2> QED
    BY <2>1, <2>2, <2>3, <2>4, <2>5 DEF Next
<1> QED
  BY IInvHolds, <1>1, <1>2, PTL DEF Spec, ImplementsLRU, A!LRUSpec
=============================================================================
