------------------------------- MODULE MC_JIT -------------------------------
(* The translator on every trace of a few instructions over two or three   *)
(* guest registers and two host registers, with words of 8 bits: bytes and *)
(* halves of a word are 2 and 4 bits.                                      *)
EXTENDS JIT

A == INSTANCE Alu WITH W <- 8

Extend(v, n) == IF v < n \div 2 THEN v ELSE v + 256 - n

Calc(fn, a, b) ==
    CASE fn = "LB"  -> Extend(a % 4, 4)
      [] fn = "LH"  -> Extend(a % 16, 16)
      [] fn = "LBU" -> a % 4
      [] fn = "LHU" -> a % 16
      [] fn = "LW"  -> a
      [] fn = "SB"  -> a - (a % 4) + (b % 4)
      [] fn = "SH"  -> a - (a % 16) + (b % 16)
      [] fn = "SW"  -> b
      [] OTHER -> A!Alu(fn, a, b)

Branches(fn, a, b) == A!Taken(fn, a, b)

HostRegs == <<"esi", "ecx">>

I(op, fn, rd, rs1, rs2, imm) ==
    [op |-> op, fn |-> fn, rd |-> rd, rs1 |-> rs1, rs2 |-> rs2, imm |-> imm]

(* Instructions by template, over a set of registers. *)
ThreeOperand(op, fn, R) == {I(op, fn, d, a, b, 0) : d \in R, a \in R, b \in R}
TwoOperand(op, fn, R, imms) == {I(op, fn, d, a, "x0", i) : d \in R, a \in R, i \in imms}
Uppers(R) == {I(op, op, d, "x0", "x0", 240) : op \in {"lui", "auipc"}, d \in R}
MemoryOps(R) ==
    {I("load", fn, d, a, "x0", 5) : fn \in {"LW", "LB"}, d \in R, a \in R} \union
    {I("store", fn, "x0", a, b, 5) : fn \in {"SW", "SH"}, a \in R, b \in R}

(* Terminators; n straight instructions come before.  256 - 4n is -4n.      *)
Loop(n) == I("branch", "BLT", "x0", "x1", "x2", (256 - 4 * n) % 256)
Forward == I("branch", "BNE", "x0", "x2", "x1", 8)
Call == I("jal", "jal", "x1", "x0", "x0", 16)
Ret == I("jalr", "jalr", "x2", "x1", "x0", 3)

Sequences(straight, n, ends) ==
    {Append(q, e) : q \in [1 .. n -> straight], e \in ends}

(* Allocation: three registers for two host registers, three instructions   *)
(* that read two of them and write one, the first of them x1.               *)
Three == {"x1", "x2", "x3"}
Subs == ThreeOperand("reg", "SUB", Three)
AllocTraces ==
    {<<i>> \o q : i \in {j \in Subs : j.rd = "x1"}, q \in Sequences(Subs, 2, {Ret})} \union
    Sequences(Subs, 2, {Loop(2)})

(* Templates: every instruction, with x0 in every place. *)
Two == {"x1", "x2"}
TwoAndZero == Two \union {"x0"}
AllOps ==
    ThreeOperand("reg", "SUB", TwoAndZero) \union ThreeOperand("add", "ADD", TwoAndZero) \union
    ThreeOperand("shift", "SRA", TwoAndZero) \union ThreeOperand("set", "SLT", TwoAndZero) \union
    ThreeOperand("mul", "MUL", TwoAndZero) \union ThreeOperand("mulh", "MULH", TwoAndZero) \union
    TwoOperand("imm", "XOR", TwoAndZero, {5}) \union TwoOperand("addi", "ADD", TwoAndZero, {0, 251}) \union
    TwoOperand("setimm", "SLTU", TwoAndZero, {4}) \union Uppers(TwoAndZero) \union MemoryOps(TwoAndZero)

(* What an instruction does to the allocation is decided by the registers   *)
(* it reads and writes, and every such pattern is one of a SUB: each        *)
(* template comes after and before each pattern.                            *)
Patterns == ThreeOperand("reg", "SUB", TwoAndZero)
Pairs(P, Q) == {<<p, q, Forward>> : p \in P, q \in Q}
OpTraces ==
    Pairs(AllOps, Patterns) \union Pairs(Patterns, AllOps) \union
    Pairs(MemoryOps(TwoAndZero), MemoryOps(TwoAndZero)) \union
    Sequences(AllOps, 1, {Loop(1), Call, Ret})

JitTraces == AllocTraces \union OpTraces
JitRegs == {[x1 |-> 3, x2 |-> 7, x3 |-> 13], [x1 |-> 1, x2 |-> 250, x3 |-> 13]}
=============================================================================
