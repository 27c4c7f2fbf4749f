-------------------------------- MODULE LRU --------------------------------
(***************************************************************************)
(* What the cache template of sim/common.h promises: a list of at most     *)
(* MaxSize key/value pairs, the most recently used first.  LRUCache, the   *)
(* linked list with its hash map and its counter, is shown to implement    *)
(* this machine; MMU and Sim use the list operations directly.             *)
(***************************************************************************)
EXTENDS LRUList

CONSTANTS Key, Val, MaxSize

VARIABLES
    cache,      \* the list
    thrown      \* an exception has left the cache; nobody uses it again

lruVars == <<cache, thrown>>

LRUInit == cache = <<>> /\ thrown = FALSE

(* LRUCache::insert: k is cached already, or a value is built for it. *)
LRUInsert(k) ==
    /\ ~thrown
    /\ \/ k \in Cached(cache) /\ cache' = Touch(cache, k)
       \/ k \notin Cached(cache) /\ \E v \in Val : cache' = Put(cache, MaxSize, k, v)
    /\ UNCHANGED thrown

(* The value's constructor throws: room has been made for it already. *)
LRUThrow(k) ==
    /\ ~thrown
    /\ k \notin Cached(cache)
    /\ cache' = Evict(cache, MaxSize)
    /\ thrown' = TRUE

LRUClear ==
    /\ ~thrown
    /\ cache' = <<>>
    /\ UNCHANGED thrown

LRUNext == LRUClear \/ \E k \in Key : LRUInsert(k) \/ LRUThrow(k)

LRUSpec == LRUInit /\ [][LRUNext]_lruVars
=============================================================================
