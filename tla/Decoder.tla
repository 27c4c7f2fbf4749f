------------------------------ MODULE Decoder ------------------------------
(***************************************************************************)
(* The instruction decoder: the tables its constructor builds from the ISA *)
(* description (isa_desc.cpp) and decode() (decoder.cpp).                  *)
(*                                                                         *)
(* A word is the record of its RFormat fields; the other formats are views *)
(* of the same bits.  Immediates are the int32_t that IMM reads them as.   *)
(***************************************************************************)
EXTENDS Integers, Sequences

CONSTANT Words      \* the words that are decoded

(* RFormat: a word by its fields; the two lowest bits tell its size. *)
Word == [sz : 0 .. 3, opcode : 0 .. 31, rd : 0 .. 31, funct3 : 0 .. 7, rs1 : 0 .. 31,
         rs2 : 0 .. 31, funct7 : 0 .. 127]

ASSUME WordsAssumption == Words \subseteq Word

(* opcode_desc: the five opcode bits and the format. *)
OpcodeDesc ==
    [LOAD   |-> <<0, "I">>,  STORE  |-> <<8, "S">>,  BRANCH |-> <<24, "B">>,
     JALR   |-> <<25, "I">>, JAL    |-> <<27, "J">>, OP_IMM |-> <<4, "I">>,
     OP     |-> <<12, "R">>, SYSTEM |-> <<28, "I">>, AUIPC  |-> <<5, "U">>,
     LUI    |-> <<13, "U">>, MSCMEM |-> <<3, "I">>]

(* cmd_desc: a command, its opcode, funct3 and funct7, in the table's order. *)
CmdDesc ==
   <<<<"LUI",    "LUI",    0, 0>>, <<"AUIPC",  "AUIPC",  0, 0>>, <<"JAL",    "JAL",    0, 0>>,
     <<"JALR",   "JALR",   0, 0>>, <<"BEQ",    "BRANCH", 0, 0>>, <<"BNE",    "BRANCH", 1, 0>>,
     <<"BLT",    "BRANCH", 4, 0>>, <<"BGE",    "BRANCH", 5, 0>>, <<"BLTU",   "BRANCH", 6, 0>>,
     <<"BGEU",   "BRANCH", 7, 0>>, <<"LB",     "LOAD",   0, 0>>, <<"LH",     "LOAD",   1, 0>>,
     <<"LW",     "LOAD",   2, 0>>, <<"LBU",    "LOAD",   4, 0>>, <<"LHU",    "LOAD",   5, 0>>,
     <<"SB",     "STORE",  0, 0>>, <<"SH",     "STORE",  1, 0>>, <<"SW",     "STORE",  2, 0>>,
     <<"ADDI",   "OP_IMM", 0, 0>>, <<"SLTI",   "OP_IMM", 2, 0>>, <<"SLTIU",  "OP_IMM", 3, 0>>,
     <<"XORI",   "OP_IMM", 4, 0>>, <<"ORI",    "OP_IMM", 6, 0>>, <<"ANDI",   "OP_IMM", 7, 0>>,
     <<"SLLI",   "OP_IMM", 1, 0>>, <<"SRLI",   "OP_IMM", 5, 0>>, <<"SRAI",   "OP_IMM", 5, 0>>,
     <<"ADD",    "OP", 0, 0>>,  <<"SUB",    "OP", 0, 32>>, <<"SLL",    "OP", 1, 0>>,
     <<"SLT",    "OP", 2, 0>>,  <<"SLTU",   "OP", 3, 0>>,  <<"XOR",    "OP", 4, 0>>,
     <<"SRL",    "OP", 5, 0>>,  <<"SRA",    "OP", 5, 32>>, <<"OR",     "OP", 6, 0>>,
     <<"AND",    "OP", 7, 0>>,
     <<"ECALL",  "SYSTEM", 0, 0>>, <<"EBREAK", "SYSTEM", 0, 0>>, <<"URET",   "SYSTEM", 0, 0>>,
     <<"SRET",   "SYSTEM", 0, 0>>, <<"MRET",   "SYSTEM", 0, 0>>, <<"WFI",    "SYSTEM", 0, 0>>,
     <<"FENCE",  "MSCMEM", 0, 0>>, <<"CSRRW",  "SYSTEM", 1, 0>>, <<"CSRRS",  "SYSTEM", 2, 0>>,
     <<"CSRRC",  "SYSTEM", 3, 0>>, <<"CSRRWI", "SYSTEM", 5, 0>>, <<"CSRRSI", "SYSTEM", 6, 0>>,
     <<"CSRRCI", "SYSTEM", 7, 0>>,
     <<"MUL",    "OP", 0, 1>>,  <<"MULH",   "OP", 1, 1>>,  <<"MULHSU", "OP", 2, 1>>,
     <<"MULHU",  "OP", 3, 1>>,  <<"DIV",    "OP", 4, 1>>,  <<"DIVU",   "OP", 5, 1>>,
     <<"REM",    "OP", 6, 1>>,  <<"REMU",   "OP", 7, 1>>>>

(* The enumerations Opcode and Cmd, without their UNDEFINED. *)
Opcode == DOMAIN OpcodeDesc
Cmd == {CmdDesc[k][1] : k \in DOMAIN CmdDesc}

VARIABLES
    next,       \* the row of CmdDesc the constructor is at
    cmds,       \* opc_funct3_to_cmd_: <<opcode, funct3>> -> command
    cmds7,      \* funct7_to_cmd_: <<opcode, funct3, funct7>> -> command
    word,       \* the argument of the call of decode() that is under way
    result      \* the instruction it returns; none when it throws

vars == <<next, cmds, cmds7, word, result>>

(* No call is under way. *)
NoWord == [sz |-> 0, opcode |-> 0, rd |-> 0, funct3 |-> 0, rs1 |-> 0, rs2 |-> 0, funct7 |-> 0]

(* opc_to_fmt_ *)
Format(opcode) ==
    LET known == {o \in Opcode : OpcodeDesc[o][1] = opcode}
    IN  IF known = {} THEN "UNDEFINED" ELSE OpcodeDesc[CHOOSE o \in known : TRUE][2]

Init ==
    /\ next = 1
    /\ cmds = <<>>
    /\ cmds7 = <<>>
    /\ word = NoWord
    /\ result = {}

Bind(f, k, v) == [a \in DOMAIN f \union {k} |-> IF a = k THEN v ELSE f[a]]

(* Mutant: each row of an <<opcode, funct3>> starts a new funct7 table.     *)
AddFreshFunct7(opcode, d) ==
    [k \in {j \in DOMAIN cmds7 : j[1] # opcode \/ j[2] # d[3]} \union {<<opcode, d[3], d[4]>>} |->
        IF k = <<opcode, d[3], d[4]>> THEN d[1] ELSE cmds7[k]]

(* The rows of an <<opcode, funct3>> share the funct7 table of the first.   *)
AddFunct7(opcode, d) == Bind(cmds7, <<opcode, d[3], d[4]>>, d[1])

(* One round of the constructor's loop: without a funct7, a later row       *)
(* replaces an earlier one that has the same opcode and funct3.             *)
AddCmd ==
    /\ next <= Len(CmdDesc)
    /\ LET d == CmdDesc[next]
           opcode == OpcodeDesc[d[2]][1]
       IN  IF Format(opcode) = "R"
           THEN cmds7' = AddFunct7(opcode, d) /\ UNCHANGED cmds
           ELSE cmds' = Bind(cmds, <<opcode, d[3]>>, d[1]) /\ UNCHANGED cmds7
    /\ next' = next + 1
    /\ UNCHANGED <<word, result>>

-----------------------------------------------------------------------------
(* The immediates of the formats, from their fields, before extension. *)
ImmI(w) == w.funct7 * 32 + w.rs2
ImmS(w) == w.funct7 * 32 + w.rd
ImmU(w) == w.funct7 * 2 ^ 13 + w.rs2 * 2 ^ 8 + w.rs1 * 8 + w.funct3

(* Mutant: bit 11 of the offset is left where the stores have bit 0. *)
ImmBAsStore(w) == (w.rd \div 2) + (w.funct7 % 64) * 16 + (w.rd % 2) + (w.funct7 \div 64) * 2 ^ 11

ImmB(w) == (w.rd \div 2) + (w.funct7 % 64) * 16 + (w.rd % 2) * 2 ^ 10 + (w.funct7 \div 64) * 2 ^ 11
ImmJ(w) ==
    LET imm == ImmU(w)
    IN  ((imm \div 2 ^ 9) % 2 ^ 10) + ((imm \div 2 ^ 8) % 2) * 2 ^ 10
        + (imm % 2 ^ 8) * 2 ^ 11 + (imm \div 2 ^ 19) * 2 ^ 19

(* SignExtend(imm, n), of an immediate of n + 1 bits. *)
SignExtend(imm, n) == IF (imm \div 2 ^ n) % 2 = 1 THEN imm - 2 ^ (n + 1) ELSE imm

Inst(cmd, rd, rs1, rs2, imm) ==
    [cmd |-> cmd, rd |-> rd, rs1 |-> rs1, rs2 |-> rs2, imm |-> imm]

System == [ECALL |-> 0, EBREAK |-> 1, URET |-> 2, SRET |-> 258, MRET |-> 770, WFI |-> 261]

(* The special cases of the I format: the command after the immediate has   *)
(* been looked at; none when decode() throws.                               *)
ShiftCmd(cmd, imm) ==
    CASE cmd = "SLLI" -> IF imm \div 32 = 0 THEN {cmd} ELSE {}
      [] cmd \in {"SRLI", "SRAI"} ->
            CASE imm \div 32 = 0 -> {"SRLI"} [] imm \div 32 = 32 -> {"SRAI"} [] OTHER -> {}
      [] OTHER -> {cmd}

(* A shift's immediate is extended like any other: masking it for SRAI has  *)
(* no effect, as the masked value is overwritten.                           *)
DecodeI(w, cmd) ==
    LET imm == ImmI(w)
        quiet == w.rs1 = 0 /\ w.rd = 0
    IN  CASE cmd = "FENCE" ->
                IF imm = 255 /\ quiet THEN {Inst(cmd, w.rd, w.rs1, 0, imm)} ELSE {}
          [] cmd \in DOMAIN System ->
                {Inst(c, w.rd, w.rs1, 0, imm) :
                    c \in {d \in DOMAIN System : System[d] = imm /\ quiet}}
          [] OTHER -> {Inst(c, w.rd, w.rs1, 0, SignExtend(imm, 11)) : c \in ShiftCmd(cmd, imm)}

(* getCmd: the command for an opcode and the functs, if there is one. *)
GetCmd(table, key) == {table[k] : k \in DOMAIN table \intersect {key}}

DecodeAs(fmt, w) ==
    CASE fmt = "R" -> {Inst(c, w.rd, w.rs1, w.rs2, 0) :
                          c \in GetCmd(cmds7, <<w.opcode, w.funct3, w.funct7>>)}
      [] fmt = "I" -> UNION {DecodeI(w, c) : c \in GetCmd(cmds, <<w.opcode, w.funct3>>)}
      [] fmt = "S" -> {Inst(c, 0, w.rs1, w.rs2, SignExtend(ImmS(w), 11)) :
                          c \in GetCmd(cmds, <<w.opcode, w.funct3>>)}
      [] fmt = "B" -> {Inst(c, 0, w.rs1, w.rs2, SignExtend(ImmB(w), 11)) :
                          c \in GetCmd(cmds, <<w.opcode, w.funct3>>)}
      [] fmt = "U" -> {Inst(c, w.rd, 0, 0, SignExtend(ImmU(w), 19) * 4096) :
                          c \in GetCmd(cmds, <<w.opcode, 0>>)}
      [] fmt = "J" -> {Inst(c, w.rd, 0, 0, SignExtend(ImmJ(w), 19)) :
                          c \in GetCmd(cmds, <<w.opcode, 0>>)}
      [] OTHER -> {}

(* The tables are complete and no call is under way. *)
Ready == next > Len(CmdDesc) /\ word = NoWord

Decode(w) ==
    /\ word' = w
    /\ result' = IF w.sz # 3 THEN {} ELSE DecodeAs(Format(w.opcode), w)
    /\ UNCHANGED <<next, cmds, cmds7>>

(* decode() is const: once it returns or throws, the decoder is as it was.  *)
Return ==
    /\ word # NoWord
    /\ word' = NoWord
    /\ result' = {}
    /\ UNCHANGED <<next, cmds, cmds7>>

Next == AddCmd \/ Return \/ (Ready /\ \E w \in Words : Decode(w))

Spec == Init /\ [][Next]_vars

-----------------------------------------------------------------------------
(* The encoding the architecture defines, with jump and branch offsets in   *)
(* units of two bytes as decode() gives them.                               *)
Bits(v, hi, lo) == (v \div 2 ^ lo) % 2 ^ (hi - lo + 1)

Row(cmd) == CmdDesc[CHOOSE k \in DOMAIN CmdDesc : CmdDesc[k][1] = cmd]

Shift == {"SLLI", "SRLI", "SRAI"}

(* A shift's immediate is the number of bits to shift by. *)
Encode(i) ==
    LET d == Row(i.cmd)
        o == OpcodeDesc[d[2]]
        Make(rd, funct3, rs1, rs2, funct7) ==
            [sz |-> 3, opcode |-> o[1], rd |-> rd, funct3 |-> funct3, rs1 |-> rs1,
             rs2 |-> rs2, funct7 |-> funct7]
    IN  CASE o[2] = "R" -> Make(i.rd, d[3], i.rs1, i.rs2, d[4])
          [] o[2] = "I" /\ i.cmd \in Shift ->
                Make(i.rd, d[3], i.rs1, i.imm, IF i.cmd = "SRAI" THEN 32 ELSE 0)
          [] o[2] = "I" /\ i.cmd \notin Shift ->
                Make(i.rd, d[3], i.rs1, Bits(i.imm, 4, 0), Bits(i.imm, 11, 5))
          [] o[2] = "S" -> Make(Bits(i.imm, 4, 0), d[3], i.rs1, i.rs2, Bits(i.imm, 11, 5))
          [] o[2] = "B" -> Make(2 * Bits(i.imm, 3, 0) + Bits(i.imm, 10, 10), d[3], i.rs1, i.rs2,
                             64 * Bits(i.imm, 11, 11) + Bits(i.imm, 9, 4))
          [] o[2] = "U" -> Make(i.rd, Bits(i.imm, 14, 12), Bits(i.imm, 19, 15),
                             Bits(i.imm, 24, 20), (i.imm \div 2 ^ 25) % 128)
          [] o[2] = "J" -> Make(i.rd, Bits(i.imm, 13, 11), Bits(i.imm, 18, 14),
                             2 * Bits(i.imm, 3, 0) + Bits(i.imm, 10, 10),
                             64 * Bits(i.imm, 19, 19) + Bits(i.imm, 9, 4))

(* The words that are encodings of the command of row d. *)
Encodes(w, d) ==
    LET o == OpcodeDesc[d[2]]
    IN  /\ w.sz = 3 /\ w.opcode = o[1]
        /\ o[2] \notin {"U", "J"} => w.funct3 = d[3]
        /\ o[2] = "R" => w.funct7 = d[4]
        /\ d[1] \in Shift => w.funct7 = IF d[1] = "SRAI" THEN 32 ELSE 0
        /\ d[1] = "FENCE" => w.rs1 = 0 /\ w.rd = 0 /\ ImmI(w) = 255
        /\ d[1] \in DOMAIN System => w.rs1 = 0 /\ w.rd = 0 /\ ImmI(w) = System[d[1]]

(* What decode() returns is the instruction that the word encodes: fields,  *)
(* scattered immediates and the choice between commands that share a table  *)
(* entry invert the encoding, and a word that encodes nothing is refused.   *)
(* Excepted is the upper part of SRAI's immediate (see ShiftAmount).        *)
Inverse ==
    \A i \in result :
        /\ Encodes(word, Row(i.cmd))
        /\ Encode(IF i.cmd = "SRAI" THEN [i EXCEPT !.imm = @ % 32] ELSE i) = word

(* Every encoding of every command is decoded to that command: although     *)
(* rows of the ISA description overwrite each other's table entries (SRLI   *)
(* and SRAI, the six SYSTEM commands), none of them is lost.                *)
Complete ==
    \A c \in Cmd : Encodes(word, Row(c)) => \E i \in result : i.cmd = c

-----------------------------------------------------------------------------
(* decoder.cpp, "imm = imm & ((1u << 6) - 1)" under "shift instructions":   *)
(* the immediate of a shift that is decoded is the number of bits.          *)
ShiftAmount == \A i \in result : i.cmd \in Shift => i.imm \in 0 .. 31
=============================================================================
