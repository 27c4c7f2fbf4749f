------------------------------- MODULE MC_Sim -------------------------------
(* The simulator on every program over a few words, in a memory of four.   *)
EXTENDS Sim

I(op, to, data) == [op |-> op, to |-> to, data |-> data]

(* "st1": a store that turns address 1 into a jump to 0; "rd2" reads a      *)
(* branch to 0 into address 2; 4 is outside memory.                         *)
Words == {"plain", "call", "exit", "fence", "satp", "undef", "j0", "b0", "b2", "ld3", "st1", "rd2", "ld4", "st4", "j4"}

Decode ==
    [w \in Words |->
        CASE w = "plain" -> I("plain", 0, w)
          [] w = "call"  -> I("call", 0, w)
          [] w = "exit"  -> I("stop", 0, w)
          [] w = "fence" -> I("fence", 0, w)
          [] w = "satp"  -> I("satp", 0, w)
          [] w = "undef" -> I("undef", 0, w)
          [] w = "j0"    -> I("jump", 0, w)
          [] w = "b0"    -> I("branch", 0, w)
          [] w = "b2"    -> I("branch", 2, w)
          [] w = "ld3"   -> I("load", 3, w)
          [] w = "st1"   -> I("store", 1, "j0")
          [] w = "rd2"   -> I("read", 2, "b0")
          [] w = "ld4"   -> I("load", 4, w)
          [] w = "st4"   -> I("store", 4, w)
          [] w = "j4"    -> I("jump", 4, w)]

(* In virtual mode, addresses 1 and 2 are exchanged and 3 is not mapped. *)
Pages == [a \in 0 .. 2 |-> CASE a = 0 -> 0 [] a = 1 -> 2 [] a = 2 -> 1]

(* Every program that modifies its code and switches modes, with a load     *)
(* that faults in virtual mode; a call keeps a trace from being translated. *)
(* And every program that leaves memory, by a load, a store or a jump.      *)
JitWords == {"plain", "call", "fence", "satp", "b0", "b2", "ld3", "st1", "rd2"}
WildWords == {"plain", "satp", "b0", "ld4", "st4", "j4"}
JitPrograms == [0 .. 3 -> JitWords] \union [0 .. 3 -> WildWords]

(* Nothing but arithmetic and branches. *)
LoopPrograms == [0 .. 3 -> {"plain", "b0", "b2"}]

(* Every program that may exit, or run into a word that does not decode. *)
EndWords == {"plain", "exit", "undef", "j0", "b2", "fence"}
EndPrograms == [0 .. 3 -> EndWords]

(* In a destroyed trace the size is still there, or the allocator has put   *)
(* its own links over one of the vector's pointers and it is huge.          *)
Freed == 1 .. 4 \union {CountCap}
=============================================================================
