---------------------------- MODULE FenceMachine ----------------------------
(***************************************************************************)
(* What a guest may rely on: a machine without traces, caches or compiled  *)
(* code, executing one instruction after another.  Its only weakness is    *)
(* the one the architecture allows between two FENCEs: an instruction      *)
(* fetched from an address is one that was visible there at some time      *)
(* since the last FENCE (vis), and a load or a store uses an addressing    *)
(* mode that was in force since then (modes).                              *)
(***************************************************************************)
EXTENDS Naturals

CONSTANTS
    N,          \* memory holds the words at addresses 0 .. N - 1
    Word,       \* the words memory can hold
    Inst,       \* word -> what it decodes to
    VMap,       \* the page table: virtual -> physical address
    Program,    \* the possible initial memories
    MaxInsts    \* the instruction budget, 0 for none

VARIABLES mem, virtual, pc, vis, modes, halted

gvars == <<mem, virtual, pc, vis, modes, halted>>

(* The physical address of a, in a mode; none when it is not mapped. *)
Phys(virt, a) ==
    IF virt THEN {VMap[b] : b \in DOMAIN VMap \intersect {a}} ELSE {a} \intersect 0 .. N - 1

(* What fetching from a finds. *)
Visible(m, virt, a) == {m[p] : p \in Phys(virt, a)}

AllVisible(m, virt) == [a \in 0 .. N |-> Visible(m, virt, a)]

(* What was visible before, and what is now. *)
Also(m, virt) == [a \in 0 .. N |-> vis[a] \union Visible(m, virt, a)]

Terminator(w) == Inst[w].op \in {"jump", "branch", "fence"}

GInit ==
    /\ mem \in Program
    /\ virtual = FALSE
    /\ pc = 0
    /\ vis = AllVisible(mem, FALSE)
    /\ modes = {FALSE}
    /\ halted = FALSE

Goto(a) == pc' = a /\ UNCHANGED <<mem, virtual, vis, modes, halted>>

Halt == halted' = TRUE /\ UNCHANGED <<mem, virtual, pc, vis, modes>>

LoadFrom(i) ==
    \E md \in modes : IF Phys(md, i.to) # {} THEN Goto(pc + 1) ELSE Halt

StoreTo(i) ==
    \E md \in modes :
        \/ \E p \in Phys(md, i.to) :
              /\ mem' = [mem EXCEPT ![p] = i.data]
              /\ vis' = Also(mem', virtual)
              /\ pc' = pc + 1
              /\ UNCHANGED <<virtual, modes, halted>>
        \/ Phys(md, i.to) = {} /\ Halt

(* The read system call puts input in memory, unless the input has ended. *)
ReadTo(i) ==
    \/ Goto(pc + 1)
    \/ \E p \in Phys(virtual, i.to) :
          /\ mem' = [mem EXCEPT ![p] = i.data]
          /\ vis' = Also(mem', virtual)
          /\ pc' = pc + 1
          /\ UNCHANGED <<virtual, modes, halted>>
    \/ Phys(virtual, i.to) = {} /\ Halt

EnableVirtual ==
    /\ virtual' = TRUE
    /\ vis' = Also(mem, TRUE)
    /\ modes' = modes \union {TRUE}
    /\ pc' = pc + 1
    /\ UNCHANGED <<mem, halted>>

Fence ==
    /\ vis' = AllVisible(mem, virtual)
    /\ modes' = {virtual}
    /\ pc' = pc + 1
    /\ UNCHANGED <<mem, virtual, halted>>

Execute(i) ==
    \/ i.op = "plain" /\ Goto(pc + 1)
    \/ i.op = "call" /\ Goto(pc + 1)
    \/ i.op = "load" /\ LoadFrom(i)
    \/ i.op = "store" /\ StoreTo(i)
    \/ i.op = "read" /\ ReadTo(i)
    \/ i.op = "satp" /\ EnableVirtual
    \/ i.op = "fence" /\ Fence
    \/ i.op = "jump" /\ Goto(i.to)
    \/ i.op = "branch" /\ (Goto(i.to) \/ Goto(pc + 1))
    \/ i.op = "stop" /\ Halt

GStep == ~halted /\ \E w \in vis[pc] : Inst[w].op # "undef" /\ Execute(Inst[w])

(* Fetching is eager: the machine stops as soon as the straight line from   *)
(* pc runs into a word that is not mapped or does not decode, before any    *)
(* of the instructions on the line takes effect.                            *)
GFetchFault ==
    /\ ~halted
    /\ \E b \in pc .. N :
          /\ \A a \in pc .. b - 1 : \E w \in Visible(mem, virtual, a) :
                Inst[w].op # "undef" /\ ~Terminator(w)
          /\ \A w \in Visible(mem, virtual, b) : Inst[w].op = "undef"
    /\ Halt

(* The budget, if there is one, is used up. *)
GBudget == ~halted /\ MaxInsts > 0 /\ Halt

GNext == GStep \/ GFetchFault \/ GBudget

GSpec == GInit /\ [][GNext]_gvars
=============================================================================
