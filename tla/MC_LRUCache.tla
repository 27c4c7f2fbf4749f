---------------------------- MODULE MC_LRUCache ----------------------------
(* LRUCache with four keys for three places and one address to spare, so   *)
(* that every order of eviction happens and an evicted node's address is   *)
(* reused or not.                                                          *)
EXTENDS LRUCache

Keys == {"a", "b", "c", "d"}
Vals == {0, 1}
Nodes == 1 .. 4
=============================================================================
