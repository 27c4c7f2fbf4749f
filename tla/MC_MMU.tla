------------------------------- MODULE MC_MMU -------------------------------
(* The MMU with four-word pages and six of them: a root table, one         *)
(* second-level table, a page mapped at two addresses and a superpage      *)
(* through which the guest reaches its tables once virtual addressing is   *)
(* on.                                                                     *)
EXTENDS MMU

W(flags, ppn) ==
    [v |-> "v" \in flags, r |-> "r" \in flags, w |-> "w" \in flags,
     x |-> "x" \in flags, a |-> FALSE, d |-> FALSE, ppn |-> ppn]

Zero == W({}, 0)

(* Page 1 is the root table, page 3 the second-level table, pages 2 and 4   *)
(* are data.                                                                *)
Mem0 ==
    [p \in 0 .. 23 |->
        CASE p = 4  -> W({"v"}, 3)                      \* va 0..15: table
          [] p = 5  -> W({"v", "r", "w", "x"}, 0)       \* va 16..31: superpage
          [] p = 6  -> W({"v", "r"}, 2)                 \* misaligned superpage
          [] p = 12 -> W({"v", "r", "w"}, 2)            \* va 0..3
          [] p = 13 -> W({"v", "r", "x"}, 4)            \* va 4..7
          [] p = 14 -> W({"v", "r"}, 2)                 \* va 8..11, alias
          [] p = 15 -> W({"v"}, 2)                      \* va 12..15: pointer
          [] OTHER  -> Zero]

(* The guest runs from va 4 and 0 (and tries 12, where the walk ends below  *)
(* level 0), reads the page at 0, its read-only alias at 9 and a misaligned *)
(* superpage at 32, and stores to the page, to the alias and, at 28, to the *)
(* table entry that maps va 0..3.  In physical mode 28 is beyond memory.    *)
Code == {0, 4, 12}
Loads == {0, 9, 32}
Stores == {0, 9, 28}

(* What the guest stores: plain data (an invalid entry) and a remapping. *)
Words == {Zero, W({"v", "r", "w", "x"}, 4)}

(* A remapping to an odd frame. *)
OddWords == {W({"v", "r", "w"}, 5)}
=============================================================================
