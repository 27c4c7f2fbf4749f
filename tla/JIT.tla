-------------------------------- MODULE JIT --------------------------------
(***************************************************************************)
(* The just-in-time translator: jit.cpp allocates host registers to guest  *)
(* registers from their liveness, translate_inst.cpp emits x86 code for    *)
(* one guest instruction after another.  The model runs the code of each   *)
(* instruction as it is emitted, next to the interpreter executing the     *)
(* same instruction, in physical addressing mode.                          *)
(*                                                                         *)
(* An instruction is a record: op, the template it is translated by; fn,   *)
(* the operation the template is given; rd, rs1, rs2 (x0 where its format  *)
(* has none) and the immediate, for jumps and branches in bytes.           *)
(***************************************************************************)
EXTENDS Integers, Sequences, SequencesExt

CONSTANTS
    Reg,            \* the guest registers other than x0
    Pool,           \* the allocatable host registers, in reg_pool_'s order
    Modulus,        \* registers hold 0 .. Modulus - 1
    Compute(_, _, _), \* what an operation computes, in the guest and the host
    Takes(_, _, _),   \* whether a branch is taken
    Cells,          \* memory is the words at 0 .. Cells - 1
    Traces,         \* the traces that can come from Trace's constructor
    Regs0, Start    \* the possible registers and the pc they start with

Val == 0 .. Modulus - 1
Host == Range(Pool)
Scratch == {"eax", "edx"}       \* getTmp1, getTmp2
Addr == 0 .. Cells - 1
Mem == "mem"                    \* reg_mapping_: the register is in memory

ASSUME JITAssumption ==
    /\ Modulus \in Nat \ {0, 1} /\ Cells \in 0 .. Modulus
    /\ IsFiniteSet(Reg)
    /\ Start \in Val
    /\ Regs0 \subseteq [Reg -> Val]
    /\ "x0" \notin Reg /\ "pc" \notin Reg
    /\ Mem \notin Host /\ Host \intersect Scratch = {} /\ "ecx" \in Host
    /\ Pool \in Seq(Host)
    /\ \A i, j \in DOMAIN Pool : Pool[i] = Pool[j] => i = j

(* The templates, with the operations each of them is given. *)
Loads == {"LB", "LH", "LW", "LBU", "LHU"}
Stores == {"SB", "SH", "SW"}
Shifts == {"SLL", "SRL", "SRA"}

Template ==
    [imm    |-> {"XOR", "OR", "AND"} \union Shifts,
     addi   |-> {"ADD"},
     setimm |-> {"SLT", "SLTU"},
     reg    |-> {"SUB", "XOR", "OR", "AND"},
     add    |-> {"ADD"},
     shift  |-> Shifts,
     set    |-> {"SLT", "SLTU"},
     mul    |-> {"MUL"},
     mulh   |-> {"MULH"},
     lui    |-> {"lui"},
     auipc  |-> {"auipc"},
     load   |-> Loads,
     store  |-> Stores,
     jal    |-> {"jal"},
     jalr   |-> {"jalr"},
     branch |-> {"BEQ", "BNE", "BLT", "BGE", "BLTU", "BGEU"}]

(* Trace's constructor fetches up to the first terminator.  FENCE, another  *)
(* one, has no template, and a trace with it is left to the interpreter.    *)
Terminators == {"jal", "jalr", "branch"}

Inst == [op : DOMAIN Template, fn : STRING, rd : Reg \union {"x0"},
         rs1 : Reg \union {"x0"}, rs2 : Reg \union {"x0"}, imm : Val]

ASSUME TracesAssumption ==
    \A t \in Traces :
        /\ t \in Seq(Inst)
        /\ Len(t) > 0
        /\ \A i \in DOMAIN t : /\ t[i].op \in Terminators <=> i = Len(t)
                              /\ t[i].fn \in Template[t[i].op]

AsSigned(v) == IF v < Modulus \div 2 THEN v ELSE v - Modulus

(* What the translation relies on: operations on words give words, and a    *)
(* few are simpler for some operands.                                       *)
ASSUME ComputeAssumption ==
    /\ \A f \in {"ADD", "SUB", "XOR", "OR", "AND", "SLT", "SLTU", "MUL", "MULH", "MULHU"}
               \union Shifts \union Loads \union Stores :
          \A a, b \in Val : Compute(f, a, b) \in Val
    /\ \A a, b \in Val : Compute("ADD", a, b) = (a + b) % Modulus
    /\ \A f \in Shifts : \A a \in Val : Compute(f, a, 0) = a
    /\ \A a, b \in Val : AsSigned(a) >= 0 /\ AsSigned(b) >= 0 =>
                            Compute("MULH", a, b) = Compute("MULHU", a, b)
    /\ \A f \in Template.branch : \A a, b \in Val : Takes(f, a, b) \in BOOLEAN

VARIABLES
    trace, cur_inst,    \* the trace, and the instruction being translated
    reg_mapping, reg_pool,
    m,                  \* the host: registers, State's fields, memory, flags
    x,                  \* the interpreter: State's fields and memory
    phase,              \* "emit", "returned", or "wild": after a bad address
    sound               \* history: nothing that Miscompiled describes, yet

vars == <<trace, cur_inst, reg_mapping, reg_pool, m, x, phase, sound>>

Unmapped == [g \in Reg |-> Mem]

(* State: the registers, which the host code addresses through rdi, and pc. *)
Fields(r) == [g \in Reg \union {"pc"} |-> IF g = "pc" THEN Start ELSE r[g]]

Init ==
    /\ trace \in Traces
    /\ cur_inst = 1
    /\ reg_mapping = Unmapped
    /\ reg_pool = Pool
    /\ \E r \in Regs0 :
          /\ m = [host   |-> [h \in Host \union Scratch |-> 0],
                  fields |-> Fields(r),
                  mem    |-> [a \in Addr |-> 0],
                  flags  |-> <<0, 0>>]       \* what was compared last
          /\ x = [fields |-> Fields(r), mem |-> [a \in Addr |-> 0]]
    /\ phase = "emit"
    /\ sound = TRUE

inst == trace[cur_inst]
OFFSET == 4 * (cur_inst - 1)

-----------------------------------------------------------------------------
(* isRs1, isRs2, isRd: the registers an instruction's format gives it. *)
Rs1(i) == {g \in {i.rs1} : i.op \notin {"lui", "auipc", "jal"}}
Rs2(i) == {g \in {i.rs2} : i.op \in {"reg", "add", "shift", "set", "mul", "mulh",
                                     "store", "branch"}}
Rd(i) == {g \in {i.rd} : i.op \notin {"store", "branch"}}

(* Mutant: a register is live before an instruction that overwrites it. *)
LiveAcrossWrites(tr) ==
    LET live[k \in 0 .. Len(tr)] ==
            IF k = Len(tr) THEN {}
            ELSE live[k + 1] \union Rs1(tr[k + 1]) \union Rs2(tr[k + 1])
    IN  live

(* calcLiveness: the registers live after the k-th instruction. *)
Liveness(tr) ==
    LET live[k \in 0 .. Len(tr)] ==
            IF k = Len(tr) THEN {}
            ELSE (live[k + 1] \ Rd(tr[k + 1])) \union Rs1(tr[k + 1]) \union Rs2(tr[k + 1])
    IN  live

(* Host instructions, with the operands they work on. *)
Op(op, d, a) == <<[op |-> op, dst |-> d, src |-> a]>>
Mov(d, a) == Op("mov", d, a)

(* The register allocator works on a record st of the mapping, the pool and *)
(* the code emitted so far.                                                 *)

(* allocateReg: nothing happens if g has a register or none is free. *)
Allocate(st, g, load) ==
    IF st.map[g] # Mem \/ st.pool = <<>>
    THEN st
    ELSE LET h == Head(st.pool)
         IN  [map  |-> [st.map EXCEPT ![g] = h],
              pool |-> Tail(st.pool),
              code |-> IF load THEN st.code \o Mov(<<"reg", h>>, <<"mem", g>>) ELSE st.code]

(* Mutants: the value is not written back; the register is not given back. *)
DeallocateUnsaved(st, g) ==
    IF st.map[g] = Mem
    THEN st
    ELSE [st EXCEPT !.map[g] = Mem, !.pool = Append(@, st.map[g])]

DeallocateLeaking(st, g) ==
    IF st.map[g] = Mem
    THEN st
    ELSE [st EXCEPT !.map[g] = Mem, !.code = @ \o Mov(<<"mem", g>>, <<"reg", st.map[g]>>)]

(* deallocateReg, with sink. *)
Deallocate(st, g) ==
    IF st.map[g] = Mem
    THEN st
    ELSE [map  |-> [st.map EXCEPT ![g] = Mem],
          pool |-> Append(st.pool, st.map[g]),
          code |-> st.code \o Mov(<<"mem", g>>, <<"reg", st.map[g]>>)]

(* deallocateAllRegs.  It comes last, and the order in which the registers  *)
(* return to the pool is of no use any more.                                *)
DeallocateAll(st) ==
    LET held == SetToSeq({g \in Reg : st.map[g] # Mem})
    IN  [map  |-> Unmapped,
         pool |-> Pool,
         code |-> st.code \o [i \in DOMAIN held |->
                                 Mov(<<"mem", held[i]>>, <<"reg", st.map[held[i]]>>)[1]]]

(* Regalloc pre-work and post-work, on the operands of inst other than x0. *)
live == Liveness(trace)[cur_inst]

AllocateIn(st, set, load) ==
    IF set = {} THEN st ELSE Allocate(st, CHOOSE g \in set : TRUE, load)

DeallocateIn(st, set) ==
    IF set = {} THEN st ELSE Deallocate(st, CHOOSE g \in set : TRUE)

pre ==
    LET s0 == [map |-> reg_mapping, pool |-> reg_pool, code |-> <<>>]
        s1 == AllocateIn(s0, Rs1(inst) \intersect Reg \intersect live, TRUE)
        s2 == AllocateIn(s1, Rs2(inst) \intersect Reg \intersect live, TRUE)
    IN  AllocateIn(s2, Rd(inst) \intersect Reg \intersect live, FALSE)

Post(st) ==
    LET s1 == DeallocateIn(st, (Rs1(inst) \intersect Reg) \ live)
        s2 == DeallocateIn(s1, (Rs2(inst) \intersect Reg) \ live)
    IN  DeallocateIn(s2, (Rd(inst) \intersect Reg) \ live)

-----------------------------------------------------------------------------
(* Operands of host instructions, and getReg: where a guest register is. *)
Imm(v) == <<"imm", v>>
T1 == <<"reg", "eax">>
T2 == <<"reg", "edx">>
ECX == <<"reg", "ecx">>
PC == <<"mem", "pc">>

getReg(g) ==
    CASE g = "x0" -> Imm(0)
      [] g # "x0" /\ pre.map[g] = Mem -> <<"mem", g>>
      [] OTHER -> <<"reg", pre.map[g]>>

RS1 == getReg(inst.rs1)
RS2 == getReg(inst.rs2)
RD == getReg(inst.rd)
IMM == Imm(inst.imm)

IsReg(o) == o[1] = "reg"
IsMem(o) == o[1] = "mem"

Value(st, o) ==
    CASE o[1] = "imm" -> o[2]
      [] o[1] = "reg" -> st.host[o[2]]
      [] o[1] = "mem" -> st.fields[o[2]]

Assign(st, o, v) ==
    IF IsReg(o) THEN [st EXCEPT !.host[o[2]] = v] ELSE [st EXCEPT !.fields[o[2]] = v]

(* x86 has no instruction with two operands in memory, and none that writes *)
(* to an immediate.  The assembler then emits nothing, and the error it     *)
(* returns is not looked at.                                                *)
Encodable(c) == c.dst[1] # "imm" /\ ~(IsMem(c.dst) /\ IsMem(c.src))

(* What one host instruction does.  A load or a store has its register in   *)
(* dst, and its address in eax plus the displacement in src.                *)
Emit(st, c) ==
    IF ~Encodable(c) THEN st
    ELSE LET a == Value(st, c.dst)
             b == Value(st, c.src)
             address == st.host["eax"] + AsSigned(b)
         IN  CASE c.op = "mov" -> Assign(st, c.dst, b)
               [] c.op = "cmp" -> [st EXCEPT !.flags = <<a, b>>]
               [] c.op \in {"SLT", "SLTU"} ->         \* setl, setb
                     Assign(st, c.dst, Compute(c.op, st.flags[1], st.flags[2]))
               [] c.op = "mul" ->
                     [st EXCEPT !.host["eax"] = Compute("MUL", @, a),
                                !.host["edx"] = Compute("MULHU", st.host["eax"], a)]
               [] c.op \in Loads -> Assign(st, c.dst, Compute(c.op, st.mem[address], 0))
               [] c.op \in Stores -> [st EXCEPT !.mem[address] = Compute(c.op, @, a)]
               [] OTHER -> Assign(st, c.dst, Compute(c.op, a, b))

Run(host, code) ==
    LET run[k \in 0 .. Len(code)] ==
            IF k = 0 THEN host ELSE Emit(run[k - 1], code[k])
    IN  run[Len(code)]

-----------------------------------------------------------------------------
(* The templates of translate_inst.cpp: the host code for inst. *)
Nothing == <<>>

MovVia(d, a) == IF IsReg(d) \/ IsReg(a) THEN Mov(d, a) ELSE Mov(T1, a) \o Mov(d, T1)

ImmType ==
    IF inst.rd = "x0" THEN Nothing
    ELSE (IF RD # RS1 THEN MovVia(RD, RS1) ELSE Nothing) \o Op(inst.fn, RD, IMM)

ADDI ==
    CASE inst.rs1 = "x0" -> Mov(RD, IMM)
      [] inst.rs1 # "x0" /\ inst.imm = 0 -> MovVia(RD, RS1)
      [] OTHER -> ImmType

RegType ==
    CASE inst.rd = "x0" -> Nothing
      [] inst.rd # "x0" /\ RD = RS1 ->
            IF IsReg(RD) \/ IsReg(RS2)
            THEN Op(inst.fn, RD, RS2)
            ELSE Mov(T1, RS2) \o Op(inst.fn, RD, T1)
      [] inst.rd # "x0" /\ RD # RS1 /\ RD # RS2 /\ (IsReg(RD) \/ ~IsMem(RS1)) ->
            Mov(RD, RS1) \o Op(inst.fn, RD, RS2)
      [] OTHER -> Mov(T1, RS1) \o Op(inst.fn, T1, RS2) \o Mov(RD, T1)

ADD ==
    (IF inst.rs1 = "x0" \/ inst.rs2 = "x0"
     THEN MovVia(RD, IF inst.rs1 # "x0" THEN RS1 ELSE RS2)
     ELSE Nothing) \o RegType

Shift ==
    LET dst == IF IsMem(RD) THEN T1 ELSE RD
    IN  IF inst.rd = "x0" THEN Nothing
        ELSE (IF dst # RS1 THEN Mov(dst, RS1) ELSE Nothing)
             \o (IF IsMem(RD) THEN Mov(RD, T1) ELSE Nothing)
             \o (IF inst.rs2 = "x0" THEN Nothing
                 ELSE Mov(T1, ECX) \o Mov(ECX, RS2) \o Op(inst.fn, RD, ECX) \o Mov(ECX, T1))

Compare ==
    IF IsReg(RS1) THEN Op("cmp", RS1, RS2) ELSE Mov(T1, RS1) \o Op("cmp", T1, RS2)

SetLess == Compare \o Mov(RD, Imm(0)) \o Op(inst.fn, RD, Imm(0))
SetLessImm == Op("cmp", RS1, IMM) \o Mov(RD, Imm(0)) \o Op(inst.fn, RD, Imm(0))

MUL == Mov(T1, RS1) \o Op("mul", RS2, Imm(0)) \o Mov(RD, T1)
MULH == Mov(T1, RS1) \o Op("mul", RS2, Imm(0)) \o Mov(RD, T2)

LUI == Mov(RD, IMM)
AUIPC == Mov(T1, PC) \o Op("ADD", T1, Imm((OFFSET + inst.imm) % Modulus)) \o Mov(RD, T1)

Load ==
    Mov(T1, RS1) \o (IF IsReg(RD) THEN Op(inst.fn, RD, IMM)
                     ELSE Op(inst.fn, T2, IMM) \o Mov(RD, T2))

Store ==
    Mov(T1, RS1) \o (IF IsReg(RS2) THEN Op(inst.fn, RS2, IMM)
                     ELSE Mov(T2, RS2) \o Op(inst.fn, T2, IMM))

Advance(off) == Op("ADD", PC, Imm((OFFSET + off) % Modulus))

JAL ==
    (IF inst.rd = "x0" THEN Nothing
     ELSE Mov(T1, PC) \o Mov(RD, T1) \o Op("ADD", RD, Imm((OFFSET + 4) % Modulus)))
    \o Advance(inst.imm)

JALR ==
    Advance(4) \o Mov(T1, PC) \o Mov(RD, T1) \o Mov(T1, RS1)
    \o Op("ADD", T1, IMM) \o Op("AND", T1, Imm(Modulus - 2)) \o Mov(PC, T1)

-----------------------------------------------------------------------------
(* The interpreter's handler for inst (exec_inst.cpp). *)
X(g) == IF g = "x0" THEN 0 ELSE x.fields[g]
SetReg(v) == IF inst.rd = "x0" THEN x ELSE [x EXCEPT !.fields[inst.rd] = v]

(* Mutant: no wrap at the end of the address space. *)
PcUnwrapped(off) == x.fields["pc"] + OFFSET + off

PcPlus(off) == (x.fields["pc"] + OFFSET + off) % Modulus

Address == (X(inst.rs1) + inst.imm) % Modulus

Interpreted ==
    CASE inst.op \in {"imm", "addi", "setimm"} -> SetReg(Compute(inst.fn, X(inst.rs1), inst.imm))
      [] inst.op \in {"reg", "add", "shift", "set", "mul", "mulh"} ->
            SetReg(Compute(inst.fn, X(inst.rs1), X(inst.rs2)))
      [] inst.op = "lui" -> SetReg(inst.imm)
      [] inst.op = "auipc" -> SetReg(PcPlus(inst.imm))
      [] inst.op = "load" -> SetReg(Compute(inst.fn, x.mem[Address], 0))
      [] inst.op = "store" -> [x EXCEPT !.mem[Address] = Compute(inst.fn, @, X(inst.rs2))]
      [] inst.op = "jal" -> [SetReg(PcPlus(4)) EXCEPT !.fields["pc"] = PcPlus(inst.imm)]
      [] inst.op = "jalr" ->
            LET y == SetReg(PcPlus(4))
                base == IF inst.rs1 = "x0" THEN 0 ELSE y.fields[inst.rs1]
            IN  [y EXCEPT !.fields["pc"] = Compute("AND", (base + inst.imm) % Modulus, Modulus - 2)]
      [] inst.op = "branch" ->
            [x EXCEPT !.fields["pc"] =
                IF Takes(inst.fn, X(inst.rs1), X(inst.rs2)) THEN PcPlus(inst.imm) ELSE PcPlus(4)]

(* getMemPtr throws outside memory, and for the last word in it. *)
Throws == Address + 1 >= Cells

(* Where host code loads from or stores to: it adds to 64-bit addresses and *)
(* checks nothing.  The two agree on what is in guest memory and does not   *)
(* throw.                                                                   *)
HostAddress == Value(Run(m, pre.code), RS1) + AsSigned(inst.imm)
InGuestMemory == HostAddress \in Addr /\ ~Throws

(* The instructions whose host code does something else: one that is not    *)
(* encodable with the operands it gets (a three-operand operation with the  *)
(* first source in a register and the other two in memory, a comparison or  *)
(* a product with x0 in place of a register); a shift that overwrites its   *)
(* count or is made in ecx; MULH of a negative word, computed unsigned; and *)
(* a load or a store where the interpreter throws, or where its address     *)
(* wraps around and the host's does not.                                    *)
Miscompiled ==
    \/ /\ inst.rd # "x0"
       /\ \/ /\ inst.op \in {"reg", "add"}
             /\ RD # RS1 /\ RD # RS2
             /\ IsMem(RD) /\ ~IsMem(RS1) /\ IsMem(RS2)
          \/ inst.op = "setimm" /\ inst.rs1 = "x0"
          \/ inst.op \in {"mul", "mulh"} /\ inst.rs2 = "x0"
          \/ /\ inst.op = "shift" /\ inst.rs2 # "x0"
             /\ (inst.rd = inst.rs2 /\ inst.rd # inst.rs1) \/ RD = ECX
          \/ /\ inst.op = "mulh"
             /\ AsSigned(X(inst.rs1)) < 0 \/ AsSigned(X(inst.rs2)) < 0
    \/ inst.op \in {"load", "store"} /\ ~InGuestMemory

-----------------------------------------------------------------------------
(* One round of the constructor's loop: pre-work, the code, post-work. *)
Translated(host, st) ==
    /\ phase = "emit"
    /\ reg_mapping' = Post(st).map
    /\ reg_pool' = Post(st).pool
    /\ m' = Run(host, Post(st).code)
    /\ x' = Interpreted
    /\ sound' = (sound /\ ~Miscompiled)
    /\ UNCHANGED trace

Then(st, code) == [map |-> st.map, pool |-> st.pool, code |-> st.code \o code]
With(code) == Then(pre, code)

Straight(code) ==
    /\ Translated(m, With(code))
    /\ cur_inst' = cur_inst + 1
    /\ UNCHANGED phase

TranslateImm == inst.op = "imm" /\ Straight(ImmType)
TranslateADDI == inst.op = "addi" /\ Straight(ADDI)
TranslateReg == inst.op = "reg" /\ Straight(RegType)
TranslateADD == inst.op = "add" /\ Straight(ADD)
TranslateShift == inst.op = "shift" /\ Straight(Shift)
TranslateSLT == inst.op = "set" /\ Straight(SetLess)
TranslateMUL == inst.op = "mul" /\ Straight(MUL)
TranslateMULH == inst.op = "mulh" /\ Straight(MULH)
TranslateLUI == inst.op = "lui" /\ Straight(LUI)
TranslateAUIPC == inst.op = "auipc" /\ Straight(AUIPC)

(* When its cmp is not encodable, SLTI finds the flags of something else. *)
TranslateSLTI ==
    /\ inst.op = "setimm"
    /\ \E stale \in {<<0, 0>>, <<0, 1>>} :
          Translated([m EXCEPT !.flags = stale], With(SetLessImm))
    /\ cur_inst' = cur_inst + 1
    /\ UNCHANGED phase

TranslateLoad == inst.op = "load" /\ InGuestMemory /\ Straight(Load)
TranslateStore == inst.op = "store" /\ InGuestMemory /\ Straight(Store)

(* Elsewhere the interpreter throws, or wraps around and goes on, while the *)
(* host code reads or overwrites memory that is not the guest's, or goes on *)
(* where the guest should have stopped.  What the process does after that   *)
(* is not followed.                                                         *)
BadAddress ==
    /\ phase = "emit"
    /\ inst.op \in {"load", "store"}
    /\ ~InGuestMemory
    /\ phase' = "wild"
    /\ x' = IF Throws THEN x ELSE Interpreted
    /\ sound' = (sound /\ ~Miscompiled)
    /\ UNCHANGED <<trace, cur_inst, reg_mapping, reg_pool, m>>

Return(st) ==
    /\ Translated(m, st)
    /\ phase' = "returned"
    /\ UNCHANGED cur_inst

TranslateJAL == inst.op = "jal" /\ Return(With(JAL))
TranslateJALR == inst.op = "jalr" /\ Return(With(JALR))

(* TranslateCondBranch; its jump is taken or not as the flags say. *)
Jumps ==
    LET flags == Run(m, With(Compare).code).flags
    IN  Takes(inst.fn, flags[1], flags[2])
ToStart == (OFFSET + inst.imm) % Modulus = 0

TranslateBranch ==
    /\ inst.op = "branch"
    /\ ~ToStart
    /\ Return(With(Compare \o Advance(IF Jumps THEN inst.imm ELSE 4)))

(* A branch to the start of the trace jumps to func_start_, where every     *)
(* register is expected in memory: they are all saved before.               *)
Saved == DeallocateAll(With(Compare))

LoopExit ==
    /\ inst.op = "branch"
    /\ ToStart /\ ~Jumps
    /\ Return(Then(Saved, Advance(4)))

LoopBack ==
    /\ inst.op = "branch"
    /\ ToStart /\ Jumps
    /\ Translated(m, Saved)
    /\ cur_inst' = 1
    /\ UNCHANGED phase

Next ==
    \/ TranslateImm \/ TranslateADDI \/ TranslateReg \/ TranslateADD \/ TranslateShift
    \/ TranslateSLT \/ TranslateSLTI \/ TranslateMUL \/ TranslateMULH
    \/ TranslateLUI \/ TranslateAUIPC \/ TranslateLoad \/ TranslateStore \/ BadAddress
    \/ TranslateJAL \/ TranslateJALR \/ TranslateBranch \/ LoopExit \/ LoopBack

Spec == Init /\ [][Next]_vars

-----------------------------------------------------------------------------
(* Registers, on either side, hold words; the translator's tables have the  *)
(* types of its members.                                                    *)
TypeOK ==
    /\ cur_inst \in DOMAIN trace
    /\ reg_mapping \in [Reg -> Host \union {Mem}]
    /\ reg_pool \in Seq(Host)
    /\ m.host \in [Host \union Scratch -> Val]
    /\ m.fields \in [Reg \union {"pc"} -> Val]
    /\ x.fields \in [Reg \union {"pc"} -> Val]
    /\ m.mem \in [Addr -> Val] /\ x.mem \in [Addr -> Val]
    /\ phase \in {"emit", "returned", "wild"}
    /\ sound \in BOOLEAN

(* Every host register is in the pool once or holds one guest register,     *)
(* never both: no register is handed out twice or lost to the pool, however *)
(* allocations and deallocations follow each other.                         *)
PoolExact ==
    /\ \A i, j \in DOMAIN reg_pool : reg_pool[i] = reg_pool[j] => i = j
    /\ \A g, h \in Reg : reg_mapping[g] = reg_mapping[h] /\ reg_mapping[g] # Mem => g = h
    /\ \A g \in Reg, i \in DOMAIN reg_pool : reg_mapping[g] # reg_pool[i]
    /\ \A h \in Host : \/ \E i \in DOMAIN reg_pool : reg_pool[i] = h
                       \/ \E g \in Reg : reg_mapping[g] = h

(* A host register is held only for a guest register that the rest of the   *)
(* trace reads before writing it, and none is when the host code returns:   *)
(* the values in State are complete for the next trace and the interpreter. *)
HeldWhileLive ==
    /\ phase = "emit" =>
          \A g \in Reg : reg_mapping[g] # Mem =>
              \E k \in cur_inst .. Len(trace) :
                  /\ g \in Rs1(trace[k]) \union Rs2(trace[k])
                  /\ \A i \in cur_inst .. k - 1 : g \notin Rd(trace[i])
    /\ phase = "returned" => reg_mapping = Unmapped

(* Apart from the instructions that Miscompiled lists, compiled code does   *)
(* what the interpreter does: after each instruction every guest register,  *)
(* wherever it is kept, pc and memory have the interpreter's values, for    *)
(* every assignment of registers, with the pool exhausted or not, around a  *)
(* loop and at the end of the trace; and it stays in guest memory.          *)
Simulates ==
    sound =>
        /\ phase # "wild"
        /\ \A g \in Reg :
              x.fields[g] = IF reg_mapping[g] = Mem THEN m.fields[g] ELSE m.host[reg_mapping[g]]
        /\ x.fields["pc"] = m.fields["pc"]
        /\ x.mem = m.mem

-----------------------------------------------------------------------------
(* README, -jit: "enable just-in-time translation": translation changes how *)
(* a trace is executed, not what it computes.                               *)
SameAsInterpreter == phase = "returned" => x.fields = m.fields /\ x.mem = m.mem
=============================================================================
