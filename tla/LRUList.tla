------------------------------ MODULE LRUList ------------------------------
(***************************************************************************)
(* The lists that the cache template of sim/common.h keeps, as its clients *)
(* (the trace cache and the two TLBs) see them: key/value pairs, no two    *)
(* with the same key, the most recently used first.                        *)
(***************************************************************************)
EXTENDS Naturals, Sequences, SequencesExt

Cached(list) == {list[i].key : i \in DOMAIN list}

IndexOf(list, k) == CHOOSE i \in DOMAIN list : list[i].key = k

ValueOf(list, k) == list[IndexOf(list, k)].val

(* A hit: the pair found moves to the front, the others keep their order. *)
Touch(list, k) ==
    LET i == IndexOf(list, k) IN Cons(list[i], RemoveAt(list, i))

(* Mutant: nothing is ever dropped. *)
NeverEvict(list, max) == list

(* A miss makes room for one pair by dropping the least recently used one. *)
Evict(list, max) == IF Len(list) < max THEN list ELSE Front(list)

Put(list, max, k, v) == Cons([key |-> k, val |-> v], Evict(list, max))
=============================================================================
