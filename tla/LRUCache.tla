------------------------------ MODULE LRUCache ------------------------------
(***************************************************************************)
(* LRUCache<KeyType, ValType> of sim/common.h: a doubly linked list        *)
(* entries_, most recently used pair first; a hash map links_ from a key   *)
(* to the list node that holds it; and a counter cur_size_ that stands for *)
(* the length of the list.  insert() constructs the value in place, and    *)
(* for both kinds of client that constructor can throw: PhysAddr walks the *)
(* page table, Trace fetches and decodes.                                  *)
(***************************************************************************)
EXTENDS Naturals, Sequences, SequencesExt

CONSTANTS
    Key, Val,
    Node,       \* heap addresses a list node can get
    MaxSize     \* max_size_, a cache-size option (256 by default)

ASSUME CacheAssumption == MaxSize \in Nat \ {0}

VARIABLES
    entries,    \* entries_: the nodes in list order
    links,      \* links_: key -> node
    cur_size,   \* cur_size_
    thrown,     \* a value's constructor has thrown (see Throw)
    recency     \* history: the keys used since the last clear, latest first

vars == <<entries, links, cur_size, thrown, recency>>

Entry == [node : Node, key : Key, val : Val]

KeysOf(list) == {list[i].key : i \in DOMAIN list}
NodesOf(list) == {list[i].node : i \in DOMAIN list}

Init ==
    /\ entries = <<>>
    /\ links = <<>>
    /\ cur_size = 0
    /\ thrown = FALSE
    /\ recency = <<>>

-----------------------------------------------------------------------------
(* Where in the list the iterator stored for k points. *)
Position(k) == CHOOSE i \in DOMAIN entries : entries[i].node = links[k]

(* The history after a use of k. *)
Used(k) ==
    IF \E i \in DOMAIN recency : recency[i] = k
    THEN Cons(k, RemoveAt(recency, CHOOSE i \in DOMAIN recency : recency[i] = k))
    ELSE Cons(k, recency)

(* links_ with k bound to node n, and without k. *)
Bind(map, k, n) == [x \in DOMAIN map \union {k} |-> IF x = k THEN n ELSE map[x]]
Unbind(map, k) == [x \in DOMAIN map \ {k} |-> map[x]]

(* Mutants of Hit: the entry is not refreshed; it is rebuilt in a new node. *)
HitWithoutSplice(k) ==
    /\ ~thrown
    /\ k \in DOMAIN links
    /\ recency' = Used(k)
    /\ UNCHANGED <<entries, links, cur_size, thrown>>

HitByReinserting(k) ==
    /\ ~thrown
    /\ k \in DOMAIN links
    /\ LET i == Position(k)
       IN  \E n \in Node \ NodesOf(entries) :
              /\ entries' = Cons([entries[i] EXCEPT !.node = n], RemoveAt(entries, i))
              /\ links' = Bind(links, k, n)
    /\ recency' = Used(k)
    /\ UNCHANGED <<cur_size, thrown>>

(* insert() finds the key: splice moves the node, keeping its address. *)
Hit(k) ==
    /\ ~thrown
    /\ k \in DOMAIN links
    /\ LET i == Position(k)
       IN  /\ entries' = Cons(entries[i], RemoveAt(entries, i))
           /\ links' = Bind(links, k, entries'[1].node)
    /\ recency' = Used(k)
    /\ UNCHANGED <<cur_size, thrown>>

(* Mutants: eviction at the wrong end, without the map, counted twice. *)
PopFront == IF cur_size >= MaxSize THEN Tail(entries) ELSE entries
LinksKept == links
AlwaysCount == cur_size + 1

(* What insert() has done to the three fields when it reaches the           *)
(* constructor: counted the new pair, or dropped the last one.              *)
Full == cur_size >= MaxSize
RoomEntries == IF Full THEN Front(entries) ELSE entries
RoomLinks == IF Full THEN Unbind(links, Last(entries).key) ELSE links
RoomSize == IF Full THEN cur_size ELSE cur_size + 1

(* insert() does not find the key and the value is constructed, in a node   *)
(* at any address that is free then: possibly the one just evicted.         *)
Miss(k) ==
    /\ ~thrown
    /\ k \notin DOMAIN links
    /\ \E v \in Val, n \in Node \ NodesOf(RoomEntries) :
          /\ entries' = Cons([node |-> n, key |-> k, val |-> v], RoomEntries)
          /\ links' = Bind(RoomLinks, k, n)
    /\ cur_size' = RoomSize
    /\ recency' = Used(k)
    /\ UNCHANGED thrown

(* The constructor throws inside emplace_front.  SimException leaves the    *)
(* loop of Sim::execute, so no cache is used again in this process.         *)
Throw(k) ==
    /\ ~thrown
    /\ k \notin DOMAIN links
    /\ entries' = RoomEntries
    /\ links' = RoomLinks
    /\ cur_size' = RoomSize
    /\ thrown' = TRUE
    /\ UNCHANGED recency

Clear ==
    /\ ~thrown
    /\ entries' = <<>>
    /\ links' = <<>>
    /\ cur_size' = 0
    /\ recency' = <<>>
    /\ UNCHANGED thrown

Next == Clear \/ \E k \in Key : Hit(k) \/ Miss(k) \/ Throw(k)

Spec == Init /\ [][Next]_vars

-----------------------------------------------------------------------------
(* The fields hold what their C++ types say.  cur_size_ is included with    *)
(* its bound: it never passes max_size_.                                    *)
TypeOK ==
    /\ entries \in Seq(Entry)
    /\ DOMAIN links \subseteq Key
    /\ \A k \in DOMAIN links : links[k] \in Node
    /\ cur_size \in 0 .. MaxSize
    /\ thrown \in BOOLEAN
    /\ recency \in Seq(Key)

(* No two nodes of the list share an address or a key. *)
NoDuplicates ==
    \A i, j \in DOMAIN entries :
        i # j => /\ entries[i].node # entries[j].node
                 /\ entries[i].key # entries[j].key

(* links_ holds exactly the listed keys, each bound to the node that holds  *)
(* it: no iterator dangles, whatever insert and clear were called before,   *)
(* and also after a constructor threw half way through insert().            *)
LinksExact ==
    /\ DOMAIN links = KeysOf(entries)
    /\ \A i \in DOMAIN entries : links[entries[i].key] = entries[i].node

(* cur_size_ is the length of the list, so insert() evicts exactly when the *)
(* list is full and never pops an empty one.  A throw may leave it one too  *)
(* high: insert() counts a pair before it is built.                         *)
SizeExact ==
    /\ ~thrown => cur_size = Len(entries)
    /\ thrown => cur_size \in {Len(entries), Len(entries) + 1}

(* The three fields of the cache agree with each other. *)
Consistent == NoDuplicates /\ LinksExact /\ SizeExact

(* The history mentions a key once. *)
RecencyDistinct ==
    \A i, j \in DOMAIN recency : i # j => recency[i] # recency[j]

(* The cache holds the MaxSize keys used last since the last clear, in the  *)
(* order of their last use: splice, eviction and clear keep the list an     *)
(* exact record of recency.                                                 *)
MostRecent ==
    ~thrown =>
        /\ Len(entries) = IF Len(recency) < MaxSize THEN Len(recency) ELSE MaxSize
        /\ \A i \in DOMAIN entries : entries[i].key = recency[i]

(* insert() returns a reference into a node and Sim::execute keeps using    *)
(* it: a step that leaves a key cached leaves its node at its address, with *)
(* its value.                                                               *)
KeepsNodes ==
    \A i \in DOMAIN entries, j \in DOMAIN entries' :
        entries[i].key = entries'[j].key => entries[i] = entries'[j]

ReferencesStable == [][KeepsNodes]_vars

-----------------------------------------------------------------------------
(* Forgetting the nodes, the map and the counter leaves the abstract list. *)
Abstract(list) == [i \in DOMAIN list |-> [key |-> list[i].key, val |-> list[i].val]]

A == INSTANCE LRU WITH cache <- Abstract(entries), thrown <- thrown

(* insert() and clear() do what the abstract LRU list does. *)
ImplementsLRU == A!LRUSpec
=============================================================================
