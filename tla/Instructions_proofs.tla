------------------------ MODULE Instructions_proofs -------------------------
(***************************************************************************)
(* What the instructions mean, for every word and every pair of operands:  *)
(* decode() undoes the encoding and loses no command, and the arithmetic   *)
(* of the interpreter is the architecture's.                               *)
(***************************************************************************)
EXTENDS Instructions, WellFoundedInduction, TLAPS

(* The fields of a word are read back from the immediates made of them,     *)
(* extended or not.                                                         *)
LEMMA ImmISplit ==
    ASSUME NEW p \in 0 .. 127, NEW q \in 0 .. 31, NEW v \in {p * 32 + q, SignExtend(p * 32 + q, 11)}
    PROVE  Bits(v, 4, 0) = q /\ Bits(v, 11, 5) = p
BY SMT DEF Bits, SignExtend

LEMMA ImmBSplit ==
    ASSUME NEW w \in Word, NEW v, v = SignExtend(ImmB(w), 11)
    PROVE  /\ 2 * Bits(v, 3, 0) + Bits(v, 10, 10) = w.rd
           /\ 64 * Bits(v, 11, 11) + Bits(v, 9, 4) = w.funct7
<1> DEFINE p == w.rd \div 2
           r == w.rd % 2
           q == w.funct7 % 64
           s == w.funct7 \div 64
           n == p + q * 16 + r * 1024 + s * 2048
<1>0. w.rd \in 0 .. 31 /\ w.funct7 \in 0 .. 127
  BY DEF Word
<1>1. /\ p \in 0 .. 15 /\ r \in 0 .. 1 /\ q \in 0 .. 63 /\ s \in 0 .. 1
      /\ w.rd = 2 * p + r /\ w.funct7 = 64 * s + q
  BY <1>0, SMT
<1>2. ImmB(w) = n
  BY <1>0, SMT DEF ImmB
<1> HIDE DEF p, q, r, s
<1>3. v = n \/ v = n - 4096
  BY <1>1, <1>2, SMT DEF SignExtend
<1>4. v \in Int /\ v \div 1 = v
  BY <1>1, <1>3, SMT
<1>5. v % 16 = p
  BY <1>1, <1>3, SMT
<1>6. (v \div 16) % 64 = q
  <2>1. v \div 16 = q + r * 64 + s * 128 \/ v \div 16 = q + r * 64 + s * 128 - 256
    BY <1>1, <1>3, SMT
  <2> QED
    BY <1>1, <2>1, SMT
<1>7. (v \div 1024) % 2 = r
  <2>1. v \div 1024 = r + s * 2 \/ v \div 1024 = r + s * 2 - 4
    BY <1>1, <1>3, SMT
  <2> QED
    BY <1>1, <2>1, SMT
<1>8. (v \div 2048) % 2 = s
  <2>1. v \div 2048 = s \/ v \div 2048 = s - 2
    BY <1>1, <1>3, SMT
  <2> QED
    BY <1>1, <2>1, SMT
<1> QED
  BY <1>1, <1>4, <1>5, <1>6, <1>7, <1>8, SMT DEF Bits

LEMMA ImmUSplit ==
    ASSUME NEW w \in Word, NEW v, v = SignExtend(ImmU(w), 19) * 4096
    PROVE  /\ Bits(v, 14, 12) = w.funct3 /\ Bits(v, 19, 15) = w.rs1 /\ Bits(v, 24, 20) = w.rs2
           /\ (v \div 2 ^ 25) % 128 = w.funct7
<1> DEFINE f == w.funct3
           p == w.rs1
           q == w.rs2
           r == w.funct7
           n == f + p * 8 + q * 256 + r * 8192
<1>1. f \in 0 .. 7 /\ p \in 0 .. 31 /\ q \in 0 .. 31 /\ r \in 0 .. 127
  BY DEF Word
<1>2. ImmU(w) = r * 8192 + q * 256 + p * 8 + f
  BY SMT DEF ImmU
<1> HIDE DEF f, p, q, r
<1>3. v = n * 4096 \/ v = (n - 1048576) * 4096
  BY <1>1, <1>2, SMT DEF SignExtend
<1>4. v \in Int
  BY <1>1, <1>3, SMT
<1>5. (v \div 4096) % 8 = f
  <2>1. v \div 4096 = n \/ v \div 4096 = n - 1048576
    BY <1>1, <1>3, SMT
  <2> QED
    BY <1>1, <2>1, SMT
<1>6. (v \div 32768) % 32 = p
  <2>1. \/ v \div 32768 = p + q * 32 + r * 1024
        \/ v \div 32768 = p + q * 32 + r * 1024 - 131072
    BY <1>1, <1>3, SMT
  <2> QED
    BY <1>1, <2>1, SMT
<1>7. (v \div 1048576) % 32 = q
  <2>1. v \div 1048576 = q + r * 32 \/ v \div 1048576 = q + r * 32 - 4096
    BY <1>1, <1>3, SMT
  <2> QED
    BY <1>1, <2>1, SMT
<1>8. (v \div 33554432) % 128 = r
  <2>1. v \div 33554432 = r \/ v \div 33554432 = r - 128
    BY <1>1, <1>3, SMT
  <2> QED
    BY <1>1, <2>1, SMT
<1>9. /\ Bits(v, 14, 12) = f /\ Bits(v, 19, 15) = p /\ Bits(v, 24, 20) = q
      /\ (v \div 2 ^ 25) % 128 = r
  BY <1>4, <1>5, <1>6, <1>7, <1>8, SMT DEF Bits
<1> QED
  BY <1>9, SMT DEF f, p, q, r

LEMMA ImmJSplit ==
    ASSUME NEW w \in Word, NEW v, v = SignExtend(ImmJ(w), 19)
    PROVE  /\ Bits(v, 13, 11) = w.funct3 /\ Bits(v, 18, 14) = w.rs1
           /\ 2 * Bits(v, 3, 0) + Bits(v, 10, 10) = w.rs2
           /\ 64 * Bits(v, 19, 19) + Bits(v, 9, 4) = w.funct7
<1> DEFINE p == w.rs2 \div 2
           r == w.rs2 % 2
           q == w.funct7 % 64
           s == w.funct7 \div 64
           f == w.funct3
           t == w.rs1
           imm == ImmU(w)
           n == p + q * 16 + r * 1024 + f * 2048 + t * 16384 + s * 524288
<1>0. f \in 0 .. 7 /\ t \in 0 .. 31 /\ w.rs2 \in 0 .. 31 /\ w.funct7 \in 0 .. 127
  BY DEF Word
<1>1. /\ p \in 0 .. 15 /\ r \in 0 .. 1 /\ q \in 0 .. 63 /\ s \in 0 .. 1
      /\ w.rs2 = 2 * p + r /\ w.funct7 = 64 * s + q
  BY <1>0, SMT
<1>2. imm = f + t * 8 + r * 256 + p * 512 + q * 8192 + s * 524288
  <2> DEFINE g == w.rs2
             h == w.funct7
  <2>1. imm = h * 8192 + g * 256 + t * 8 + f
    BY SMT DEF ImmU
  <2>2. g = 2 * p + r /\ h = 64 * s + q
    BY <1>1
  <2> HIDE DEF g, h, imm, f, t, p, q, r, s
  <2> QED
    BY <1>0, <1>1, <2>1, <2>2, SMT
<1> HIDE DEF imm, f, t, p, q, r, s
<1>3. (imm \div 512) % 1024 = p + q * 16
  <2>1. imm \div 512 = p + q * 16 + s * 1024
    BY <1>0, <1>1, <1>2, SMT
  <2> QED
    BY <1>1, <2>1, SMT
<1>4. (imm \div 256) % 2 = r
  <2>1. imm \div 256 = r + p * 2 + q * 32 + s * 2048
    BY <1>0, <1>1, <1>2, SMT
  <2> QED
    BY <1>1, <2>1, SMT
<1>5. imm % 256 = f + t * 8
  BY <1>0, <1>1, <1>2, SMT
<1>6. imm \div 524288 = s
  BY <1>0, <1>1, <1>2, SMT
<1>7. ImmJ(w) = n
  <2>1. ImmJ(w) = ((imm \div 512) % 1024) + ((imm \div 256) % 2) * 1024 + (imm % 256) * 2048
                  + (imm \div 524288) * 524288
    BY SMT DEF ImmJ, imm
  <2> QED
    BY <1>0, <1>1, <1>3, <1>4, <1>5, <1>6, <2>1, SMT
<1>8. v = n \/ v = n - 1048576
  BY <1>0, <1>1, <1>7, SMT DEF SignExtend
<1>9. v \in Int /\ v \div 1 = v
  BY <1>0, <1>1, <1>8, SMT
<1>10. v % 16 = p
  BY <1>0, <1>1, <1>8, SMT
<1>11. (v \div 16) % 64 = q
  <2>1. \/ v \div 16 = q + r * 64 + f * 128 + t * 1024 + s * 32768
        \/ v \div 16 = q + r * 64 + f * 128 + t * 1024 + s * 32768 - 65536
    BY <1>0, <1>1, <1>8, SMT
  <2> QED
    BY <1>0, <1>1, <2>1, SMT
<1>12. (v \div 1024) % 2 = r
  <2>1. \/ v \div 1024 = r + f * 2 + t * 16 + s * 512
        \/ v \div 1024 = r + f * 2 + t * 16 + s * 512 - 1024
    BY <1>0, <1>1, <1>8, SMT
  <2> QED
    BY <1>0, <1>1, <2>1, SMT
<1>13. (v \div 2048) % 8 = f
  <2>1. v \div 2048 = f + t * 8 + s * 256 \/ v \div 2048 = f + t * 8 + s * 256 - 512
    BY <1>0, <1>1, <1>8, SMT
  <2> QED
    BY <1>0, <1>1, <2>1, SMT
<1>14. (v \div 16384) % 32 = t
  <2>1. v \div 16384 = t + s * 32 \/ v \div 16384 = t + s * 32 - 64
    BY <1>0, <1>1, <1>8, SMT
  <2> QED
    BY <1>0, <1>1, <2>1, SMT
<1>15. (v \div 524288) % 2 = s
  <2>1. v \div 524288 = s \/ v \div 524288 = s - 2
    BY <1>0, <1>1, <1>8, SMT
  <2> QED
    BY <1>0, <1>1, <2>1, SMT
<1>16. /\ Bits(v, 3, 0) = p /\ Bits(v, 9, 4) = q /\ Bits(v, 10, 10) = r
       /\ Bits(v, 13, 11) = f /\ Bits(v, 18, 14) = t /\ Bits(v, 19, 19) = s
  BY <1>9, <1>10, <1>11, <1>12, <1>13, <1>14, <1>15, SMT DEF Bits
<1>17. f = w.funct3 /\ t = w.rs1
  BY DEF f, t
<1> QED
  BY <1>1, <1>16, <1>17, SMT

-----------------------------------------------------------------------------
(* What the ISA description says of a command. *)
Last == 58
Key3(d) == <<OpcodeDesc[d[2]][1], d[3]>>
Key7(d) == <<OpcodeDesc[d[2]][1], d[3], d[4]>>
Fmt(d) == OpcodeDesc[d[2]][2]

LEMMA Descriptions ==
    /\ Len(CmdDesc) = Last /\ DOMAIN CmdDesc = 1 .. Last
    /\ \A k \in 1 .. Last :
          /\ CmdDesc[k][2] \in Opcode
          /\ CmdDesc[k][3] \in 0 .. 7 /\ CmdDesc[k][4] \in 0 .. 127
          /\ Fmt(CmdDesc[k]) \in {"U", "J"} => CmdDesc[k][3] = 0
BY DEF Last, CmdDesc, Opcode, OpcodeDesc, Fmt

LEMMA Opcodes ==
    /\ \A o \in Opcode : OpcodeDesc[o] = <<OpcodeDesc[o][1], OpcodeDesc[o][2]>>
    /\ \A o \in Opcode : OpcodeDesc[o][2] \in {"I", "S", "B", "J", "R", "U"}
    /\ \A o, p \in Opcode : OpcodeDesc[o][1] = OpcodeDesc[p][1] => o = p
    /\ \A o \in Opcode : OpcodeDesc[o][2] = "R" <=> o = "OP"
BY DEF Opcode, OpcodeDesc

(* A command has one row. *)
LEMMA OneRow ==
    ASSUME NEW k \in 1 .. Last
    PROVE  Row(CmdDesc[k][1]) = CmdDesc[k]
<1>1. \A j \in 1 .. Last : CmdDesc[j][1] = CmdDesc[k][1] => j = k
  BY DEF Last, CmdDesc
<1>2. DOMAIN CmdDesc = 1 .. Last
  BY Descriptions
<1> QED
  BY <1>1, <1>2 DEF Row

(* The format of an opcode is the one its description has. *)
LEMMA FormatFacts ==
    ASSUME NEW c
    PROVE  /\ \A o \in Opcode : OpcodeDesc[o][1] = c => Format(c) = OpcodeDesc[o][2]
           /\ (~\E o \in Opcode : OpcodeDesc[o][1] = c) => Format(c) = "UNDEFINED"
<1> DEFINE known == {o \in Opcode : OpcodeDesc[o][1] = c}
<1>1. Format(c) = IF known = {} THEN "UNDEFINED" ELSE OpcodeDesc[CHOOSE o \in known : TRUE][2]
  BY DEF Format
<1>2. ASSUME NEW o \in Opcode, OpcodeDesc[o][1] = c
      PROVE  Format(c) = OpcodeDesc[o][2]
  <2>1. known = {o}
    BY <1>2, Opcodes
  <2>2. (CHOOSE p \in known : TRUE) = o
    BY <2>1
  <2> QED
    BY <1>1, <2>1, <2>2
<1>3. ASSUME ~\E o \in Opcode : OpcodeDesc[o][1] = c
      PROVE  Format(c) = "UNDEFINED"
  BY <1>1, <1>3
<1> QED
  BY <1>2, <1>3

(* Rows of one opcode and funct3 are told apart by funct7 in the R format;  *)
(* elsewhere they are the right shifts or the commands of SYSTEM that share *)
(* an entry.                                                                *)
LEMMA SharedKeys ==
    ASSUME NEW j \in 1 .. Last, NEW k \in 1 .. Last
    PROVE  /\ Fmt(CmdDesc[j]) = "R" /\ Fmt(CmdDesc[k]) = "R" /\ Key7(CmdDesc[j]) = Key7(CmdDesc[k])
              => j = k
           /\ Fmt(CmdDesc[j]) # "R" /\ Key3(CmdDesc[j]) = Key3(CmdDesc[k])
              => \/ j = k
                 \/ {CmdDesc[j][1], CmdDesc[k][1]} \subseteq {"SRLI", "SRAI"}
                 \/ {CmdDesc[j][1], CmdDesc[k][1]} \subseteq DOMAIN System
<1>1. CmdDesc[j][2] \in Opcode /\ CmdDesc[k][2] \in Opcode
  BY Descriptions
<1>2. ASSUME Fmt(CmdDesc[j]) = "R", Fmt(CmdDesc[k]) = "R", Key7(CmdDesc[j]) = Key7(CmdDesc[k])
      PROVE  j = k
  <2>1. CmdDesc[j][2] = "OP" /\ CmdDesc[k][2] = "OP"
    BY <1>1, <1>2, Opcodes DEF Fmt
  <2>2. CmdDesc[j][3] = CmdDesc[k][3] /\ CmdDesc[j][4] = CmdDesc[k][4]
    BY <1>2 DEF Key7
  <2> QED
    BY <2>1, <2>2 DEF CmdDesc, Last
<1>3. ASSUME Fmt(CmdDesc[j]) # "R", Key3(CmdDesc[j]) = Key3(CmdDesc[k])
      PROVE  \/ j = k
             \/ {CmdDesc[j][1], CmdDesc[k][1]} \subseteq {"SRLI", "SRAI"}
             \/ {CmdDesc[j][1], CmdDesc[k][1]} \subseteq DOMAIN System
  <2>1. OpcodeDesc[CmdDesc[j][2]][1] = OpcodeDesc[CmdDesc[k][2]][1] /\ CmdDesc[j][3] = CmdDesc[k][3]
    BY <1>3 DEF Key3
  <2>2. CmdDesc[j][2] = CmdDesc[k][2] /\ CmdDesc[j][2] # "OP"
    BY <1>1, <1>3, <2>1, Opcodes DEF Fmt
  <2> QED
    BY <2>1, <2>2 DEF CmdDesc, Last, System
<1> QED
  BY <1>2, <1>3

-----------------------------------------------------------------------------
(* The tables after some rows: an entry is from one of these rows, and each *)
(* of them has an entry.                                                    *)
Tables ==
    /\ next \in 1 .. Last + 1
    /\ \A q \in DOMAIN cmds7 : \E k \in 1 .. next - 1 :
          Fmt(CmdDesc[k]) = "R" /\ q = Key7(CmdDesc[k]) /\ cmds7[q] = CmdDesc[k][1]
    /\ \A q \in DOMAIN cmds : \E k \in 1 .. next - 1 :
          Fmt(CmdDesc[k]) # "R" /\ q = Key3(CmdDesc[k]) /\ cmds[q] = CmdDesc[k][1]
    /\ \A k \in 1 .. next - 1 :
          IF Fmt(CmdDesc[k]) = "R" THEN Key7(CmdDesc[k]) \in DOMAIN cmds7
                                   ELSE Key3(CmdDesc[k]) \in DOMAIN cmds

Answer(w) == IF w.sz # 3 THEN {} ELSE DecodeAs(Format(w.opcode), w)

Asked ==
    \/ word = NoWord /\ result = {}
    \/ next = Last + 1 /\ word \in Word /\ result = Answer(word)

DInv == Tables /\ Asked

LEMMA BindFacts ==
    ASSUME NEW f, NEW k, NEW v
    PROVE  DOMAIN Bind(f, k, v) = DOMAIN f \union {k}
BY DEF Bind

LEMMA AddCmdTables == ASSUME Tables, AddCmd PROVE Tables'
<1> DEFINE d == CmdDesc[next]
<1>1. next \in 1 .. Last /\ next' = next + 1
  BY Descriptions DEF AddCmd, Tables
<1>2. d[2] \in Opcode /\ Format(OpcodeDesc[d[2]][1]) = Fmt(d)
  BY <1>1, Descriptions, FormatFacts DEF Fmt
<1>3. \/ Fmt(d) = "R" /\ cmds7' = Bind(cmds7, Key7(d), d[1]) /\ cmds' = cmds
      \/ Fmt(d) # "R" /\ cmds' = Bind(cmds, Key3(d), d[1]) /\ cmds7' = cmds7
  BY <1>2 DEF AddCmd, AddFunct7, Key7, Key3
<1>4. next' \in 1 .. Last + 1 /\ \A k : k \in 1 .. next' - 1 <=> k \in 1 .. next - 1 \/ k = next
  BY <1>1 DEF Last
<1> HIDE DEF d
<1>5. /\ DOMAIN cmds7' = DOMAIN cmds7 \union (IF Fmt(d) = "R" THEN {Key7(d)} ELSE {})
      /\ DOMAIN cmds' = DOMAIN cmds \union (IF Fmt(d) = "R" THEN {} ELSE {Key3(d)})
  <2>1. CASE Fmt(d) = "R"
    <3>1. DOMAIN cmds7' = DOMAIN cmds7 \union {Key7(d)} /\ cmds' = cmds
      BY <1>3, <2>1, BindFacts
    <3> QED
      BY <2>1, <3>1
  <2>2. CASE Fmt(d) # "R"
    <3>1. DOMAIN cmds' = DOMAIN cmds \union {Key3(d)} /\ cmds7' = cmds7
      BY <1>3, <2>2, BindFacts
    <3> QED
      BY <2>2, <3>1
  <2> QED
    BY <2>1, <2>2
<1>6. /\ \A q \in DOMAIN cmds7' : \/ q \in DOMAIN cmds7 /\ cmds7'[q] = cmds7[q]
                                  \/ Fmt(d) = "R" /\ q = Key7(d) /\ cmds7'[q] = d[1]
      /\ \A q \in DOMAIN cmds' : \/ q \in DOMAIN cmds /\ cmds'[q] = cmds[q]
                                 \/ Fmt(d) # "R" /\ q = Key3(d) /\ cmds'[q] = d[1]
  <2>1. CASE Fmt(d) = "R"
    <3>0. cmds7' = Bind(cmds7, Key7(d), d[1])
      BY <1>3, <2>1
    <3>1. \A q \in DOMAIN cmds7' : cmds7'[q] = IF q = Key7(d) THEN d[1] ELSE cmds7[q]
      BY <3>0 DEF Bind
    <3> QED
      BY <1>3, <1>5, <2>1, <3>1
  <2>2. CASE Fmt(d) # "R"
    <3>0. cmds' = Bind(cmds, Key3(d), d[1])
      BY <1>3, <2>2
    <3>1. \A q \in DOMAIN cmds' : cmds'[q] = IF q = Key3(d) THEN d[1] ELSE cmds[q]
      BY <3>0 DEF Bind
    <3> QED
      BY <1>3, <1>5, <2>2, <3>1
  <2> QED
    BY <2>1, <2>2
<1>7. ASSUME NEW q \in DOMAIN cmds7'
      PROVE  \E k \in 1 .. next' - 1 :
                Fmt(CmdDesc[k]) = "R" /\ q = Key7(CmdDesc[k]) /\ cmds7'[q] = CmdDesc[k][1]
  <2>1. CASE q \in DOMAIN cmds7 /\ cmds7'[q] = cmds7[q]
    <3>1. PICK k \in 1 .. next - 1 :
             Fmt(CmdDesc[k]) = "R" /\ q = Key7(CmdDesc[k]) /\ cmds7[q] = CmdDesc[k][1]
      BY <2>1 DEF Tables
    <3> QED
      BY <1>4, <2>1, <3>1
  <2>2. CASE Fmt(d) = "R" /\ q = Key7(d) /\ cmds7'[q] = d[1]
    BY <1>4, <2>2 DEF d
  <2> QED
    BY <1>6, <2>1, <2>2
<1>8. ASSUME NEW q \in DOMAIN cmds'
      PROVE  \E k \in 1 .. next' - 1 :
                Fmt(CmdDesc[k]) # "R" /\ q = Key3(CmdDesc[k]) /\ cmds'[q] = CmdDesc[k][1]
  <2>1. CASE q \in DOMAIN cmds /\ cmds'[q] = cmds[q]
    <3>1. PICK k \in 1 .. next - 1 :
             Fmt(CmdDesc[k]) # "R" /\ q = Key3(CmdDesc[k]) /\ cmds[q] = CmdDesc[k][1]
      BY <2>1 DEF Tables
    <3> QED
      BY <1>4, <2>1, <3>1
  <2>2. CASE Fmt(d) # "R" /\ q = Key3(d) /\ cmds'[q] = d[1]
    BY <1>4, <2>2 DEF d
  <2> QED
    BY <1>6, <2>1, <2>2
<1>9. ASSUME NEW k \in 1 .. next' - 1
      PROVE  IF Fmt(CmdDesc[k]) = "R" THEN Key7(CmdDesc[k]) \in DOMAIN cmds7'
                                      ELSE Key3(CmdDesc[k]) \in DOMAIN cmds'
  <2>1. CASE k \in 1 .. next - 1
    BY <1>5, <2>1 DEF Tables
  <2>2. CASE k = next
    BY <1>5, <2>2 DEF d
  <2> QED
    BY <1>4, <2>1, <2>2
<1> QED
  BY <1>4, <1>7, <1>8, <1>9 DEF Tables

LEMMA InitDInv == Init => DInv
BY DEF Init, DInv, Tables, Asked, Last

LEMMA NextDInv == DInv /\ [Next]_vars => DInv'
<1> SUFFICES ASSUME DInv, [Next]_vars PROVE DInv'
  OBVIOUS
<1>1. CASE AddCmd
  <2>1. next # Last + 1
    BY <1>1, Descriptions DEF AddCmd, DInv, Tables, Last
  <2>2. Asked'
    BY <1>1, <2>1 DEF DInv, Asked, AddCmd
  <2> QED
    BY <1>1, <2>2, AddCmdTables DEF DInv
<1>2. CASE Return
  BY <1>2 DEF Return, DInv, Tables, Asked
<1>3. ASSUME NEW w \in Words, Ready, Decode(w)
      PROVE  DInv'
  <2>1. next = Last + 1 /\ w \in Word
    BY <1>3, Descriptions, WordsAssumption DEF Ready, DInv, Tables, Last
  <2>2. UNCHANGED <<next, cmds, cmds7>> /\ word' = w /\ result' = Answer(w)
    BY <1>3 DEF Decode, Answer
  <2>3. Answer(w)' = Answer(w)
    BY <2>2 DEF Answer, DecodeAs
  <2>4. Tables'
    BY <2>2 DEF DInv, Tables
  <2> QED
    BY <2>1, <2>2, <2>3, <2>4 DEF DInv, Asked, Answer, DecodeAs
<1>4. CASE UNCHANGED vars
  BY <1>4 DEF vars, DInv, Tables, Asked, Answer, DecodeAs
<1> QED
  BY <1>1, <1>2, <1>3, <1>4 DEF Next

-----------------------------------------------------------------------------
(* The commands decode() looks at more closely, by their names. *)
RightShift == {"SRLI", "SRAI"}

LEMMA SpecialRows ==
    /\ \A k \in 1 .. Last : CmdDesc[k][1] \in Shift \union {"FENCE"} \union DOMAIN System
          => Fmt(CmdDesc[k]) = "I"
    /\ \A S \in {RightShift, DOMAIN System} : \A c \in S : \E k \in 1 .. Last : CmdDesc[k][1] = c
    /\ \A S \in {RightShift, DOMAIN System} : \A j, k \in 1 .. Last :
          CmdDesc[j][1] \in S /\ CmdDesc[k][1] \in S => Key3(CmdDesc[j]) = Key3(CmdDesc[k])
<1>1. \A k \in 1 .. Last : CmdDesc[k][1] \in Shift \union {"FENCE"} \union DOMAIN System
         => Fmt(CmdDesc[k]) = "I"
  BY DEF CmdDesc, Last, Shift, System, Fmt, OpcodeDesc
<1>2. /\ CmdDesc[26][1] = "SRLI" /\ CmdDesc[27][1] = "SRAI" /\ CmdDesc[38][1] = "ECALL"
      /\ CmdDesc[39][1] = "EBREAK" /\ CmdDesc[40][1] = "URET" /\ CmdDesc[41][1] = "SRET"
      /\ CmdDesc[42][1] = "MRET" /\ CmdDesc[43][1] = "WFI"
  BY DEF CmdDesc
<1>3. \A c \in RightShift : \E k \in 1 .. Last : CmdDesc[k][1] = c
  BY <1>2 DEF RightShift, Last
<1>4. \A c \in DOMAIN System : \E k \in 1 .. Last : CmdDesc[k][1] = c
  BY <1>2 DEF System, Last
<1>5. \A k \in 1 .. Last : CmdDesc[k][1] \in RightShift => Key3(CmdDesc[k]) = <<4, 5>>
  BY DEF CmdDesc, Last, RightShift, Key3, OpcodeDesc
<1>6. \A k \in 1 .. Last : CmdDesc[k][1] \in DOMAIN System => Key3(CmdDesc[k]) = <<28, 0>>
  BY DEF CmdDesc, Last, System, Key3, OpcodeDesc
<1> QED
  BY <1>1, <1>3, <1>4, <1>5, <1>6

(* What a lookup finds is a row of the key. *)
LEMMA Found ==
    ASSUME Tables, NEW q, NEW c
    PROVE  /\ c \in GetCmd(cmds7, q) => \E k \in 1 .. Last :
                 Fmt(CmdDesc[k]) = "R" /\ q = Key7(CmdDesc[k]) /\ c = CmdDesc[k][1]
           /\ c \in GetCmd(cmds, q) => \E k \in 1 .. Last :
                 Fmt(CmdDesc[k]) # "R" /\ q = Key3(CmdDesc[k]) /\ c = CmdDesc[k][1]
<1>1. \A k \in 1 .. next - 1 : k \in 1 .. Last
  BY DEF Tables, Last
<1>2. ASSUME c \in GetCmd(cmds7, q)
      PROVE  \E k \in 1 .. Last :
                Fmt(CmdDesc[k]) = "R" /\ q = Key7(CmdDesc[k]) /\ c = CmdDesc[k][1]
  <2>1. q \in DOMAIN cmds7 /\ c = cmds7[q]
    BY <1>2 DEF GetCmd
  <2>2. PICK k \in 1 .. next - 1 :
           Fmt(CmdDesc[k]) = "R" /\ q = Key7(CmdDesc[k]) /\ cmds7[q] = CmdDesc[k][1]
    BY <2>1 DEF Tables
  <2> QED
    BY <1>1, <2>1, <2>2
<1>3. ASSUME c \in GetCmd(cmds, q)
      PROVE  \E k \in 1 .. Last :
                Fmt(CmdDesc[k]) # "R" /\ q = Key3(CmdDesc[k]) /\ c = CmdDesc[k][1]
  <2>1. q \in DOMAIN cmds /\ c = cmds[q]
    BY <1>3 DEF GetCmd
  <2>2. PICK k \in 1 .. next - 1 :
           Fmt(CmdDesc[k]) # "R" /\ q = Key3(CmdDesc[k]) /\ cmds[q] = CmdDesc[k][1]
    BY <2>1 DEF Tables
  <2> QED
    BY <1>1, <2>1, <2>2
<1> QED
  BY <1>2, <1>3

(* The row of a word: its opcode's format is the row's. *)
LEMMA RowFormat ==
    ASSUME NEW k \in 1 .. Last, NEW w, w.opcode = OpcodeDesc[CmdDesc[k][2]][1]
    PROVE  Format(w.opcode) = Fmt(CmdDesc[k])
BY Descriptions, FormatFacts DEF Fmt

(* Encode, format by format. *)
Make(d, rd, funct3, rs1, rs2, funct7) ==
    [sz |-> 3, opcode |-> OpcodeDesc[d[2]][1], rd |-> rd, funct3 |-> funct3, rs1 |-> rs1,
     rs2 |-> rs2, funct7 |-> funct7]

LEMMA MakeWord ==
    ASSUME NEW w \in Word, w.sz = 3, NEW d, OpcodeDesc[d[2]][1] = w.opcode,
           NEW rd, NEW funct3, NEW rs1, NEW rs2, NEW funct7,
           rd = w.rd, funct3 = w.funct3, rs1 = w.rs1, rs2 = w.rs2, funct7 = w.funct7
    PROVE  Make(d, rd, funct3, rs1, rs2, funct7) = w
BY DEF Make, Word

LEMMA EncodeAs ==
    ASSUME NEW k \in 1 .. Last, NEW i, i.cmd = CmdDesc[k][1]
    PROVE  LET d == CmdDesc[k]
           IN  /\ Fmt(d) = "R" => Encode(i) = Make(d, i.rd, d[3], i.rs1, i.rs2, d[4])
               /\ Fmt(d) = "I" /\ d[1] \in Shift => Encode(i) =
                     Make(d, i.rd, d[3], i.rs1, i.imm, IF d[1] = "SRAI" THEN 32 ELSE 0)
               /\ Fmt(d) = "I" /\ d[1] \notin Shift => Encode(i) =
                     Make(d, i.rd, d[3], i.rs1, Bits(i.imm, 4, 0), Bits(i.imm, 11, 5))
               /\ Fmt(d) = "S" => Encode(i) =
                     Make(d, Bits(i.imm, 4, 0), d[3], i.rs1, i.rs2, Bits(i.imm, 11, 5))
               /\ Fmt(d) = "B" => Encode(i) =
                     Make(d, 2 * Bits(i.imm, 3, 0) + Bits(i.imm, 10, 10), d[3], i.rs1, i.rs2,
                          64 * Bits(i.imm, 11, 11) + Bits(i.imm, 9, 4))
               /\ Fmt(d) = "U" => Encode(i) =
                     Make(d, i.rd, Bits(i.imm, 14, 12), Bits(i.imm, 19, 15), Bits(i.imm, 24, 20),
                          (i.imm \div 2 ^ 25) % 128)
               /\ Fmt(d) = "J" => Encode(i) =
                     Make(d, i.rd, Bits(i.imm, 13, 11), Bits(i.imm, 18, 14),
                          2 * Bits(i.imm, 3, 0) + Bits(i.imm, 10, 10),
                          64 * Bits(i.imm, 19, 19) + Bits(i.imm, 9, 4))
<1>1. Row(i.cmd) = CmdDesc[k]
  BY OneRow
<1> QED
  BY <1>1 DEF Encode, Make, Fmt

LEMMA WordFields ==
    ASSUME NEW w \in Word
    PROVE  /\ w.rd \in 0 .. 31 /\ w.funct3 \in 0 .. 7 /\ w.rs1 \in 0 .. 31
           /\ w.rs2 \in 0 .. 31 /\ w.funct7 \in 0 .. 127
BY DEF Word

LEMMA InstFields ==
    ASSUME NEW c, NEW rd, NEW rs1, NEW rs2, NEW imm, NEW i, i = Inst(c, rd, rs1, rs2, imm)
    PROVE  i.cmd = c /\ i.rd = rd /\ i.rs1 = rs1 /\ i.rs2 = rs2 /\ i.imm = imm
BY DEF Inst

-----------------------------------------------------------------------------
(* decode() in the I format: the command has a row of the word's key, and   *)
(* the immediate is the one the word spells, extended or not.               *)
FromRow(w, i, k) ==
    /\ i \in {Inst(CmdDesc[k][1], w.rd, w.rs1, 0, v) : v \in {ImmI(w), SignExtend(ImmI(w), 11)}}
    /\ Encodes(w, CmdDesc[k])

LEMMA EncodesI ==
    ASSUME NEW w, w.sz = 3, NEW k \in 1 .. Last, Fmt(CmdDesc[k]) = "I",
           Key3(CmdDesc[k]) = <<w.opcode, w.funct3>>,
           CmdDesc[k][1] \in Shift => w.funct7 = IF CmdDesc[k][1] = "SRAI" THEN 32 ELSE 0,
           CmdDesc[k][1] = "FENCE" => w.rs1 = 0 /\ w.rd = 0 /\ ImmI(w) = 255,
           CmdDesc[k][1] \in DOMAIN System =>
              w.rs1 = 0 /\ w.rd = 0 /\ ImmI(w) = System[CmdDesc[k][1]]
    PROVE  Encodes(w, CmdDesc[k])
BY DEF Encodes, Fmt, Key3

LEMMA DecodedI ==
    ASSUME Tables, NEW w \in Word, w.sz = 3, Format(w.opcode) = "I",
           NEW i \in DecodeAs("I", w)
    PROVE  \E k \in 1 .. Last :
              /\ Fmt(CmdDesc[k]) = "I" /\ Key3(CmdDesc[k]) = <<w.opcode, w.funct3>>
              /\ FromRow(w, i, k)
<1>1. PICK c : c \in GetCmd(cmds, <<w.opcode, w.funct3>>) /\ i \in DecodeI(w, c)
  BY DEF DecodeAs
<1>2. PICK j \in 1 .. Last :
         Fmt(CmdDesc[j]) # "R" /\ <<w.opcode, w.funct3>> = Key3(CmdDesc[j]) /\ c = CmdDesc[j][1]
  BY <1>1, Found
<1>3. Fmt(CmdDesc[j]) = "I"
  BY <1>2, RowFormat DEF Key3
<1>4. w.rs2 \in 0 .. 31 /\ w.funct7 \in 0 .. 127 /\ ImmI(w) = w.funct7 * 32 + w.rs2
  BY WordFields DEF ImmI
<1>5. ImmI(w) \div 32 = w.funct7
  BY <1>4
<1>6. \A S \in {RightShift, DOMAIN System} : \A e \in S : c \in S =>
         \E k \in 1 .. Last : /\ CmdDesc[k][1] = e /\ Fmt(CmdDesc[k]) = "I"
                              /\ Key3(CmdDesc[k]) = <<w.opcode, w.funct3>>
  <2> SUFFICES ASSUME NEW S \in {RightShift, DOMAIN System}, NEW e \in S, c \in S
               PROVE  \E k \in 1 .. Last : /\ CmdDesc[k][1] = e /\ Fmt(CmdDesc[k]) = "I"
                                           /\ Key3(CmdDesc[k]) = <<w.opcode, w.funct3>>
    OBVIOUS
  <2>1. PICK k \in 1 .. Last : CmdDesc[k][1] = e
    BY SpecialRows
  <2>2. Key3(CmdDesc[k]) = Key3(CmdDesc[j])
    BY <1>2, <2>1, SpecialRows
  <2>3. e \in Shift \union {"FENCE"} \union DOMAIN System
    BY DEF RightShift, Shift
  <2> QED
    BY <1>2, <2>1, <2>2, <2>3, SpecialRows
<1>7. CASE c = "FENCE"
  <2>1. c \notin Shift /\ c \notin DOMAIN System
    BY <1>7 DEF Shift, System
  <2>2. ImmI(w) = 255 /\ w.rs1 = 0 /\ w.rd = 0 /\ i = Inst(c, w.rd, w.rs1, 0, ImmI(w))
    BY <1>1, <1>7, <2>1 DEF DecodeI
  <2>3. Encodes(w, CmdDesc[j])
    BY <1>2, <1>3, <2>1, <2>2, EncodesI
  <2> QED
    BY <1>2, <1>3, <2>2, <2>3 DEF FromRow
<1>8. CASE c \in DOMAIN System
  <2>1. c # "FENCE"
    BY <1>8 DEF System
  <2>2. PICK e \in DOMAIN System : /\ System[e] = ImmI(w) /\ w.rs1 = 0 /\ w.rd = 0
                                   /\ i = Inst(e, w.rd, w.rs1, 0, ImmI(w))
    BY <1>1, <1>8, <2>1 DEF DecodeI
  <2>3. PICK k \in 1 .. Last : /\ CmdDesc[k][1] = e /\ Fmt(CmdDesc[k]) = "I"
                               /\ Key3(CmdDesc[k]) = <<w.opcode, w.funct3>>
    BY <1>6, <1>8
  <2>4. e \notin Shift /\ e # "FENCE"
    BY DEF Shift, System
  <2>5. Encodes(w, CmdDesc[k])
    BY <2>2, <2>3, <2>4, EncodesI
  <2> QED
    BY <2>2, <2>3, <2>5 DEF FromRow
<1>9. CASE c \notin DOMAIN System \union {"FENCE"}
  <2>1. PICK e \in ShiftCmd(c, ImmI(w)) : i = Inst(e, w.rd, w.rs1, 0, SignExtend(ImmI(w), 11))
    BY <1>1, <1>9 DEF DecodeI
  <2>2. PICK k \in 1 .. Last : /\ CmdDesc[k][1] = e /\ Fmt(CmdDesc[k]) = "I"
                               /\ Key3(CmdDesc[k]) = <<w.opcode, w.funct3>>
                               /\ e \in Shift => w.funct7 = IF e = "SRAI" THEN 32 ELSE 0
                               /\ e \notin DOMAIN System \union {"FENCE"}
    <3>1. CASE c \in RightShift
      <4>1. \/ e = "SRLI" /\ w.funct7 = 0
            \/ e = "SRAI" /\ w.funct7 = 32
        BY <1>5, <2>1, <3>1 DEF ShiftCmd, RightShift
      <4>2. e \in RightShift /\ e \notin DOMAIN System \union {"FENCE"}
        BY <4>1 DEF RightShift, System
      <4>3. PICK k \in 1 .. Last : /\ CmdDesc[k][1] = e /\ Fmt(CmdDesc[k]) = "I"
                                   /\ Key3(CmdDesc[k]) = <<w.opcode, w.funct3>>
        BY <1>6, <3>1, <4>2
      <4> QED
        BY <4>1, <4>2, <4>3
    <3>2. CASE c \notin RightShift
      <4>1. e = c /\ (c = "SLLI" => w.funct7 = 0)
        BY <1>5, <2>1, <3>2 DEF ShiftCmd, RightShift
      <4> QED
        BY <1>2, <1>3, <1>9, <3>2, <4>1 DEF Shift, RightShift
    <3> QED
      BY <3>1, <3>2
  <2>3. Encodes(w, CmdDesc[k])
    BY <2>2, EncodesI
  <2> QED
    BY <2>1, <2>2, <2>3 DEF FromRow
<1> QED
  BY <1>7, <1>8, <1>9

(* What decode() returns is what the word encodes, format by format, the    *)
(* upper part of SRAI's immediate aside.                                    *)
Amount(i) == IF i.cmd = "SRAI" THEN [i EXCEPT !.imm = @ % 32] ELSE i

LEMMA ShiftSplit ==
    ASSUME NEW p \in {0, 32}, NEW q \in 0 .. 31, NEW v \in {p * 32 + q, SignExtend(p * 32 + q, 11)}
    PROVE  /\ p = 0 => v = q
           /\ v % 32 = q
BY SMT DEF SignExtend

LEMMA AmountFields ==
    ASSUME NEW c, NEW rd, NEW rs1, NEW rs2, NEW imm, NEW i, i = Inst(c, rd, rs1, rs2, imm)
    PROVE  /\ Amount(i).cmd = c /\ Amount(i).rd = rd /\ Amount(i).rs1 = rs1
           /\ Amount(i).imm = IF c = "SRAI" THEN imm % 32 ELSE imm
BY DEF Inst, Amount

LEMMA DecodedRight ==
    ASSUME Tables, NEW w \in Word, NEW i \in Answer(w)
    PROVE  Encodes(w, Row(i.cmd)) /\ Encode(Amount(i)) = w
<1>1. w.sz = 3 /\ i \in DecodeAs(Format(w.opcode), w)
  BY DEF Answer
<1>0. /\ w.rd \in 0 .. 31 /\ w.funct3 \in 0 .. 7 /\ w.rs1 \in 0 .. 31
      /\ w.rs2 \in 0 .. 31 /\ w.funct7 \in 0 .. 127
  BY WordFields
<1>2. ASSUME Format(w.opcode) = "R"
      PROVE  Encodes(w, Row(i.cmd)) /\ Encode(i) = w /\ i.cmd \notin Shift
  <2>1. PICK c : /\ c \in GetCmd(cmds7, <<w.opcode, w.funct3, w.funct7>>)
                 /\ i = Inst(c, w.rd, w.rs1, w.rs2, 0)
    BY <1>1, <1>2 DEF DecodeAs
  <2>2. PICK k \in 1 .. Last : /\ Fmt(CmdDesc[k]) = "R"
                               /\ <<w.opcode, w.funct3, w.funct7>> = Key7(CmdDesc[k])
                               /\ c = CmdDesc[k][1]
    BY <2>1, Found
  <2>3. /\ i.cmd = c /\ i.rd = w.rd /\ i.rs1 = w.rs1 /\ i.rs2 = w.rs2
        /\ OpcodeDesc[CmdDesc[k][2]][1] = w.opcode
        /\ w.funct3 = CmdDesc[k][3] /\ w.funct7 = CmdDesc[k][4]
    BY <2>1, <2>2, InstFields DEF Key7
  <2>4. c \notin Shift \union {"FENCE"} \union DOMAIN System
    BY <2>2, SpecialRows
  <2>5. Encodes(w, CmdDesc[k])
    BY <1>1, <2>2, <2>3, <2>4 DEF Encodes, Fmt
  <2>6. Encode(i) = Make(CmdDesc[k], i.rd, CmdDesc[k][3], i.rs1, i.rs2, CmdDesc[k][4])
    BY <2>2, <2>3, EncodeAs
  <2>7. Encode(i) = w
    BY <1>1, <2>3, <2>6, MakeWord
  <2> QED
    BY <2>2, <2>3, <2>4, <2>5, <2>7, OneRow
<1>3. CASE Format(w.opcode) = "I"
  <2>1. PICK k \in 1 .. Last : /\ Fmt(CmdDesc[k]) = "I"
                               /\ Key3(CmdDesc[k]) = <<w.opcode, w.funct3>>
                               /\ FromRow(w, i, k)
    BY <1>1, <1>3, DecodedI
  <2>2. OpcodeDesc[CmdDesc[k][2]][1] = w.opcode /\ w.funct3 = CmdDesc[k][3]
    BY <2>1 DEF Key3
  <2>3. PICK v \in {ImmI(w), SignExtend(ImmI(w), 11)} :
           i = Inst(CmdDesc[k][1], w.rd, w.rs1, 0, v)
    BY <2>1 DEF FromRow
  <2> DEFINE e == CmdDesc[k][1]
             y == Amount(i)
  <2>4. /\ y.cmd = e /\ y.rd = w.rd /\ y.rs1 = w.rs1 /\ i.cmd = e
        /\ y.imm = IF e = "SRAI" THEN v % 32 ELSE v
    BY <2>3, AmountFields, InstFields
  <2> HIDE DEF y
  <2>5. CASE e \in Shift
    <3>1. w.funct7 = IF e = "SRAI" THEN 32 ELSE 0
      BY <2>1, <2>5 DEF FromRow, Encodes
    <3>2. w.funct7 \in {0, 32} /\ ImmI(w) = w.funct7 * 32 + w.rs2
      BY <3>1 DEF ImmI
    <3>3. (w.funct7 = 0 => v = w.rs2) /\ v % 32 = w.rs2
      BY <1>0, <3>2, ShiftSplit
    <3>4. y.imm = w.rs2
      BY <2>4, <3>1, <3>3
    <3>5. Encode(y) = Make(CmdDesc[k], y.rd, CmdDesc[k][3], y.rs1, y.imm, IF e = "SRAI" THEN 32 ELSE 0)
      BY <2>1, <2>4, <2>5, EncodeAs
    <3>6. Encode(y) = w
      BY <1>1, <2>2, <2>4, <3>1, <3>4, <3>5, MakeWord
    <3> QED
      BY <2>1, <2>4, <3>6, OneRow DEF FromRow, y
  <2>6. CASE e \notin Shift
    <3>1. y.imm = v
      BY <2>4, <2>6 DEF Shift
    <3>2. Bits(y.imm, 4, 0) = w.rs2 /\ Bits(y.imm, 11, 5) = w.funct7
      BY <1>0, <3>1, ImmISplit DEF ImmI
    <3>3. Encode(y) = Make(CmdDesc[k], y.rd, CmdDesc[k][3], y.rs1, Bits(y.imm, 4, 0), Bits(y.imm, 11, 5))
      BY <2>1, <2>4, <2>6, EncodeAs
    <3>4. Encode(y) = w
      BY <1>1, <2>2, <2>4, <3>2, <3>3, MakeWord
    <3> QED
      BY <2>1, <2>4, <3>4, OneRow DEF FromRow, y
  <2> QED
    BY <2>5, <2>6
<1>4. ASSUME Format(w.opcode) \in {"S", "B"}
      PROVE  Encodes(w, Row(i.cmd)) /\ Encode(i) = w /\ i.cmd \notin Shift
  <2> DEFINE imm == SignExtend(IF Format(w.opcode) = "S" THEN ImmS(w) ELSE ImmB(w), 11)
  <2>1. PICK c : /\ c \in GetCmd(cmds, <<w.opcode, w.funct3>>)
                 /\ i = Inst(c, 0, w.rs1, w.rs2, imm)
    BY <1>1, <1>4 DEF DecodeAs
  <2>2. PICK k \in 1 .. Last : /\ <<w.opcode, w.funct3>> = Key3(CmdDesc[k])
                               /\ c = CmdDesc[k][1]
    BY <2>1, Found
  <2>3. /\ i.cmd = c /\ i.rs1 = w.rs1 /\ i.rs2 = w.rs2 /\ i.imm = imm
        /\ OpcodeDesc[CmdDesc[k][2]][1] = w.opcode /\ w.funct3 = CmdDesc[k][3]
    BY <2>1, <2>2, InstFields DEF Key3
  <2>4. Fmt(CmdDesc[k]) = Format(w.opcode)
    BY <2>3, RowFormat
  <2>5. c \notin Shift \union {"FENCE"} \union DOMAIN System
    BY <1>4, <2>2, <2>4, SpecialRows
  <2>6. Encodes(w, CmdDesc[k])
    BY <1>1, <1>4, <2>2, <2>3, <2>4, <2>5 DEF Encodes, Fmt
  <2>7. CASE Format(w.opcode) = "S"
    <3>1. i.imm \in {w.funct7 * 32 + w.rd, SignExtend(w.funct7 * 32 + w.rd, 11)}
      BY <2>3, <2>7 DEF ImmS
    <3>2. Bits(i.imm, 4, 0) = w.rd /\ Bits(i.imm, 11, 5) = w.funct7
      BY <1>0, <3>1, ImmISplit
    <3>3. Encode(i) = Make(CmdDesc[k], Bits(i.imm, 4, 0), CmdDesc[k][3], i.rs1, i.rs2, Bits(i.imm, 11, 5))
      BY <2>2, <2>3, <2>4, <2>7, EncodeAs
    <3>4. Encode(i) = w
      BY <1>1, <2>3, <3>2, <3>3, MakeWord
    <3> QED
      BY <2>2, <2>3, <2>5, <2>6, <3>4, OneRow
  <2>8. CASE Format(w.opcode) = "B"
    <3> DEFINE rd == 2 * Bits(i.imm, 3, 0) + Bits(i.imm, 10, 10)
               funct7 == 64 * Bits(i.imm, 11, 11) + Bits(i.imm, 9, 4)
    <3>1. i.imm = SignExtend(ImmB(w), 11)
      BY <2>3, <2>8
    <3>2. rd = w.rd /\ funct7 = w.funct7
      BY <3>1, ImmBSplit
    <3>3. Encode(i) = Make(CmdDesc[k], rd, CmdDesc[k][3], i.rs1, i.rs2, funct7)
      BY <2>2, <2>3, <2>4, <2>8, EncodeAs
    <3> HIDE DEF rd, funct7
    <3>4. Encode(i) = w
      BY <1>1, <2>3, <3>2, <3>3, MakeWord
    <3> QED
      BY <2>2, <2>3, <2>5, <2>6, <3>4, OneRow
  <2> QED
    BY <1>4, <2>7, <2>8
<1>5. ASSUME Format(w.opcode) \in {"U", "J"}
      PROVE  Encodes(w, Row(i.cmd)) /\ Encode(i) = w /\ i.cmd \notin Shift
  <2> DEFINE imm == IF Format(w.opcode) = "U" THEN SignExtend(ImmU(w), 19) * 4096
                    ELSE SignExtend(ImmJ(w), 19)
  <2>1. PICK c : c \in GetCmd(cmds, <<w.opcode, 0>>) /\ i = Inst(c, w.rd, 0, 0, imm)
    BY <1>1, <1>5 DEF DecodeAs
  <2>2. PICK k \in 1 .. Last : <<w.opcode, 0>> = Key3(CmdDesc[k]) /\ c = CmdDesc[k][1]
    BY <2>1, Found
  <2>3. i.cmd = c /\ i.rd = w.rd /\ i.imm = imm /\ OpcodeDesc[CmdDesc[k][2]][1] = w.opcode
    BY <2>1, <2>2, InstFields DEF Key3
  <2>4. Fmt(CmdDesc[k]) = Format(w.opcode)
    BY <2>3, RowFormat
  <2>5. c \notin Shift \union {"FENCE"} \union DOMAIN System
    BY <1>5, <2>2, <2>4, SpecialRows
  <2>6. Encodes(w, CmdDesc[k])
    BY <1>1, <1>5, <2>2, <2>3, <2>4, <2>5 DEF Encodes, Fmt
  <2>7. CASE Format(w.opcode) = "U"
    <3> DEFINE funct7 == (i.imm \div 2 ^ 25) % 128
    <3>1. i.imm = SignExtend(ImmU(w), 19) * 4096
      BY <2>3, <2>7
    <3>2. /\ Bits(i.imm, 14, 12) = w.funct3 /\ Bits(i.imm, 19, 15) = w.rs1
          /\ Bits(i.imm, 24, 20) = w.rs2 /\ funct7 = w.funct7
      BY <3>1, ImmUSplit
    <3>3. Encode(i) = Make(CmdDesc[k], i.rd, Bits(i.imm, 14, 12), Bits(i.imm, 19, 15),
                           Bits(i.imm, 24, 20), funct7)
      BY <2>2, <2>3, <2>4, <2>7, EncodeAs
    <3> HIDE DEF funct7
    <3>4. Encode(i) = w
      BY <1>1, <2>3, <3>2, <3>3, MakeWord
    <3> QED
      BY <2>2, <2>3, <2>5, <2>6, <3>4, OneRow
  <2>8. CASE Format(w.opcode) = "J"
    <3> DEFINE rs2 == 2 * Bits(i.imm, 3, 0) + Bits(i.imm, 10, 10)
               funct7 == 64 * Bits(i.imm, 19, 19) + Bits(i.imm, 9, 4)
    <3>1. i.imm = SignExtend(ImmJ(w), 19)
      BY <2>3, <2>8
    <3>2. /\ Bits(i.imm, 13, 11) = w.funct3 /\ Bits(i.imm, 18, 14) = w.rs1
          /\ rs2 = w.rs2 /\ funct7 = w.funct7
      BY <3>1, ImmJSplit
    <3>3. Encode(i) = Make(CmdDesc[k], i.rd, Bits(i.imm, 13, 11), Bits(i.imm, 18, 14), rs2, funct7)
      BY <2>2, <2>3, <2>4, <2>8, EncodeAs
    <3> HIDE DEF rs2, funct7
    <3>4. Encode(i) = w
      BY <1>1, <2>3, <3>2, <3>3, MakeWord
    <3> QED
      BY <2>2, <2>3, <2>5, <2>6, <3>4, OneRow
  <2> QED
    BY <1>5, <2>7, <2>8
<1>6. Format(w.opcode) \in {"R", "I", "S", "B", "U", "J"}
  BY <1>1 DEF DecodeAs
<1>7. i.cmd \notin Shift => Amount(i) = i
  BY DEF Amount, Shift
<1> QED
  BY <1>2, <1>3, <1>4, <1>5, <1>6, <1>7

(* For every word: what decode() returns is the instruction the word        *)
(* encodes, from the tables the constructor built; of SRAI's immediate the  *)
(* shift amount.                                                            *)
THEOREM DecodesWhatIsEncoded == Spec => []Inverse
<1>1. DInv => Inverse
  BY DecodedRight DEF DInv, Asked, Inverse, Amount
<1> QED
  BY <1>1, InitDInv, NextDInv, PTL DEF Spec

-----------------------------------------------------------------------------
(* When the constructor is done every row has an entry. *)
LEMMA Entered ==
    ASSUME Tables, next = Last + 1, NEW k \in 1 .. Last
    PROVE  IF Fmt(CmdDesc[k]) = "R" THEN Key7(CmdDesc[k]) \in DOMAIN cmds7
                                    ELSE Key3(CmdDesc[k]) \in DOMAIN cmds
<1>1. k \in 1 .. next - 1
  BY DEF Last
<1> QED
  BY <1>1 DEF Tables

(* decode() finds the command of a row that the word encodes. *)
LEMMA EncodedI ==
    ASSUME Tables, next = Last + 1, NEW w \in Word, NEW k \in 1 .. Last,
           Fmt(CmdDesc[k]) = "I", Encodes(w, CmdDesc[k])
    PROVE  \E i \in DecodeAs("I", w) : i.cmd = CmdDesc[k][1]
<1> DEFINE e == CmdDesc[k][1]
           q == <<w.opcode, w.funct3>>
<1>1. q = Key3(CmdDesc[k])
  BY DEF Encodes, Fmt, Key3
<1>2. q \in DOMAIN cmds
  BY <1>1, Entered
<1>3. PICK c : c \in GetCmd(cmds, q)
  BY <1>2 DEF GetCmd
<1>4. PICK j \in 1 .. Last : Fmt(CmdDesc[j]) # "R" /\ q = Key3(CmdDesc[j]) /\ c = CmdDesc[j][1]
  BY <1>3, Found
<1>5. c = e \/ {c, e} \subseteq RightShift \/ {c, e} \subseteq DOMAIN System
  BY <1>1, <1>4, SharedKeys DEF RightShift
<1>6. w.rs2 \in 0 .. 31 /\ w.funct7 \in 0 .. 127 /\ ImmI(w) = w.funct7 * 32 + w.rs2
  BY WordFields DEF ImmI
<1>7. ImmI(w) \div 32 = w.funct7
  BY <1>6
<1>8. /\ e \in Shift => w.funct7 = IF e = "SRAI" THEN 32 ELSE 0
      /\ e = "FENCE" => w.rs1 = 0 /\ w.rd = 0 /\ ImmI(w) = 255
      /\ e \in DOMAIN System => w.rs1 = 0 /\ w.rd = 0 /\ ImmI(w) = System[e]
  BY DEF Encodes
<1> HIDE DEF e, q
<1>9. \E i \in DecodeI(w, c) : i.cmd = e
  <2>1. CASE e = "FENCE"
    <3>1. c = "FENCE" /\ c \notin DOMAIN System
      BY <1>5, <2>1 DEF RightShift, System
    <3>2. Inst(c, w.rd, w.rs1, 0, ImmI(w)) \in DecodeI(w, c)
      BY <1>8, <2>1, <3>1 DEF DecodeI
    <3> QED
      BY <2>1, <3>1, <3>2, InstFields
  <2>2. CASE e \in DOMAIN System
    <3>1. c \in DOMAIN System /\ c # "FENCE"
      BY <1>5, <2>2 DEF RightShift, System
    <3>2. Inst(e, w.rd, w.rs1, 0, ImmI(w)) \in DecodeI(w, c)
      BY <1>8, <2>2, <3>1 DEF DecodeI
    <3> QED
      BY <3>2, InstFields
  <2>3. CASE e \notin DOMAIN System \union {"FENCE"}
    <3>1. c \notin DOMAIN System /\ c # "FENCE"
      BY <1>5, <2>3 DEF RightShift, System
    <3>2. e \in ShiftCmd(c, ImmI(w))
      <4>1. CASE e \in RightShift
        <5>1. c \in RightShift /\ e \in Shift
          BY <1>5, <2>3, <4>1 DEF RightShift, Shift
        <5>2. \/ e = "SRLI" /\ w.funct7 = 0
              \/ e = "SRAI" /\ w.funct7 = 32
          BY <1>8, <4>1, <5>1 DEF RightShift
        <5> QED
          BY <1>7, <5>1, <5>2 DEF ShiftCmd, RightShift
      <4>2. CASE e \notin RightShift
        <5>1. c = e
          BY <1>5, <2>3, <4>2
        <5>2. e = "SLLI" => w.funct7 = 0
          BY <1>8 DEF Shift
        <5> QED
          BY <1>7, <4>2, <5>1, <5>2 DEF ShiftCmd, RightShift
      <4> QED
        BY <4>1, <4>2
    <3>3. Inst(e, w.rd, w.rs1, 0, SignExtend(ImmI(w), 11)) \in DecodeI(w, c)
      BY <3>1, <3>2 DEF DecodeI
    <3> QED
      BY <3>3, InstFields
  <2> QED
    BY <2>1, <2>2, <2>3
<1> QED
  BY <1>3, <1>9 DEF DecodeAs, e, q

LEMMA EncodedFound ==
    ASSUME Tables, next = Last + 1, NEW w \in Word, NEW k \in 1 .. Last, Encodes(w, CmdDesc[k])
    PROVE  \E i \in Answer(w) : i.cmd = CmdDesc[k][1]
<1> DEFINE d == CmdDesc[k]
<1>1. w.sz = 3 /\ w.opcode = OpcodeDesc[d[2]][1]
  BY DEF Encodes
<1>2. Format(w.opcode) = Fmt(d)
  BY <1>1, RowFormat
<1>3. Answer(w) = DecodeAs(Fmt(d), w)
  BY <1>1, <1>2 DEF Answer
<1>4. Fmt(d) \in {"I", "S", "B", "J", "R", "U"}
  BY Descriptions, Opcodes DEF Fmt
<1>5. CASE Fmt(d) = "I"
  BY <1>3, <1>5, EncodedI
<1>6. CASE Fmt(d) = "R"
  <2> DEFINE q == <<w.opcode, w.funct3, w.funct7>>
  <2>1. q = Key7(d)
    BY <1>6 DEF Encodes, Fmt, Key7
  <2>2. q \in DOMAIN cmds7
    BY <1>6, <2>1, Entered
  <2>3. PICK c : c \in GetCmd(cmds7, q)
    BY <2>2 DEF GetCmd
  <2>4. PICK j \in 1 .. Last : Fmt(CmdDesc[j]) = "R" /\ q = Key7(CmdDesc[j]) /\ c = CmdDesc[j][1]
    BY <2>3, Found
  <2>5. c = d[1]
    BY <1>6, <2>1, <2>4, SharedKeys
  <2>6. Inst(c, w.rd, w.rs1, w.rs2, 0) \in DecodeAs("R", w)
    BY <2>3 DEF DecodeAs
  <2> QED
    BY <1>3, <1>6, <2>5, <2>6, InstFields
<1>7. CASE Fmt(d) \in {"S", "B", "U", "J"}
  <2> DEFINE q == IF Fmt(d) \in {"U", "J"} THEN <<w.opcode, 0>> ELSE <<w.opcode, w.funct3>>
  <2>1. q = Key3(d)
    <3>1. CASE Fmt(d) \in {"U", "J"}
      BY <1>1, <3>1, Descriptions DEF Key3
    <3>2. CASE Fmt(d) \in {"S", "B"}
      BY <3>2 DEF Encodes, Fmt, Key3
    <3> QED
      BY <1>7, <3>1, <3>2
  <2>2. q \in DOMAIN cmds
    BY <1>7, <2>1, Entered
  <2>3. PICK c : c \in GetCmd(cmds, q)
    BY <2>2 DEF GetCmd
  <2>4. PICK j \in 1 .. Last : Fmt(CmdDesc[j]) # "R" /\ q = Key3(CmdDesc[j]) /\ c = CmdDesc[j][1]
    BY <2>3, Found
  <2>5. d[1] \notin RightShift \union DOMAIN System
    BY <1>7, SpecialRows DEF RightShift, Shift
  <2>6. c = d[1]
    BY <1>7, <2>1, <2>4, <2>5, SharedKeys DEF RightShift
  <2>7. \E i \in DecodeAs(Fmt(d), w) : i.cmd = c
    <3>1. CASE Fmt(d) = "S"
      <4>1. Inst(c, 0, w.rs1, w.rs2, SignExtend(ImmS(w), 11)) \in DecodeAs("S", w)
        BY <2>3, <3>1 DEF DecodeAs
      <4> QED
        BY <3>1, <4>1, InstFields
    <3>2. CASE Fmt(d) = "B"
      <4>1. Inst(c, 0, w.rs1, w.rs2, SignExtend(ImmB(w), 11)) \in DecodeAs("B", w)
        BY <2>3, <3>2 DEF DecodeAs
      <4> QED
        BY <3>2, <4>1, InstFields
    <3>3. CASE Fmt(d) = "U"
      <4>1. Inst(c, w.rd, 0, 0, SignExtend(ImmU(w), 19) * 4096) \in DecodeAs("U", w)
        BY <2>3, <3>3 DEF DecodeAs
      <4> QED
        BY <3>3, <4>1, InstFields
    <3>4. CASE Fmt(d) = "J"
      <4>1. Inst(c, w.rd, 0, 0, SignExtend(ImmJ(w), 19)) \in DecodeAs("J", w)
        BY <2>3, <3>4 DEF DecodeAs
      <4> QED
        BY <3>4, <4>1, InstFields
    <3> QED
      BY <1>7, <3>1, <3>2, <3>3, <3>4
  <2> QED
    BY <1>3, <2>6, <2>7
<1> QED
  BY <1>4, <1>5, <1>6, <1>7

(* For every word: an encoding of a command is decoded to that command,     *)
(* also where rows of the description overwrote each other's table entry.   *)
THEOREM NoCommandLost == Spec => []Complete
<1>1. DInv => Complete
  <2> SUFFICES ASSUME DInv, NEW c \in Cmd, Encodes(word, Row(c))
               PROVE  \E i \in result : i.cmd = c
    BY DEF Complete
  <2>1. PICK k \in 1 .. Last : c = CmdDesc[k][1]
    BY Descriptions DEF Cmd
  <2>2. Encodes(word, CmdDesc[k])
    BY <2>1, OneRow
  <2>3. word.sz = 3 /\ NoWord.sz = 0
    BY <2>2 DEF Encodes, NoWord
  <2>4. next = Last + 1 /\ word \in Word /\ result = Answer(word)
    BY <2>3 DEF DInv, Asked
  <2> QED
    BY <2>1, <2>2, <2>4, EncodedFound DEF DInv
<1> QED
  BY <1>1, InitDInv, NextDInv, PTL DEF Spec

-----------------------------------------------------------------------------
(* The powers of two up to the largest word. *)
LEMMA Powers ==
    /\ \A k \in 0 .. 32 : 2 ^ k \in Nat /\ 2 ^ k >= 1
    /\ \A k \in 0 .. 31 : 2 ^ (k + 1) = 2 * 2 ^ k
    /\ 2 ^ 0 = 1
    /\ \A k \in 0 .. W : 2 ^ k * 2 ^ (W - k) = Mod
<1> DEFINE pow == [k \in 0 .. 32 |-> 2 ^ k]
<1>1. \A k \in 0 .. 32 : 2 ^ k = pow[k]
  OBVIOUS
<1>2. /\ pow[0] = 1 /\ pow[1] = 2 /\ pow[2] = 4 /\ pow[3] = 8
      /\ pow[4] = 16 /\ pow[5] = 32 /\ pow[6] = 64 /\ pow[7] = 128
      /\ pow[8] = 256 /\ pow[9] = 512 /\ pow[10] = 1024 /\ pow[11] = 2048
      /\ pow[12] = 4096 /\ pow[13] = 8192 /\ pow[14] = 16384 /\ pow[15] = 32768
      /\ pow[16] = 65536 /\ pow[17] = 131072 /\ pow[18] = 262144 /\ pow[19] = 524288
      /\ pow[20] = 1048576 /\ pow[21] = 2097152 /\ pow[22] = 4194304 /\ pow[23] = 8388608
      /\ pow[24] = 16777216 /\ pow[25] = 33554432 /\ pow[26] = 67108864 /\ pow[27] = 134217728
      /\ pow[28] = 268435456 /\ pow[29] = 536870912 /\ pow[30] = 1073741824 /\ pow[31] = 2147483648
      /\ pow[32] = 4294967296
  BY SMT
<1>3. W \in 0 .. 32 /\ Mod = pow[W]
  BY WAssumption, SMT DEF Mod
<1> HIDE DEF pow
<1>4. \A k \in 0 .. 32 : pow[k] \in Nat /\ pow[k] >= 1
  BY <1>2, SMT
<1>5. \A k \in 0 .. 31 : pow[k + 1] = 2 * pow[k]
  BY <1>2, SMT
<1>6. \A k \in 0 .. W : pow[k] * pow[W - k] = pow[W]
  <2>1. CASE W = 4
    BY <1>2, <2>1, SMT
  <2>2. CASE W = 8
    BY <1>2, <2>2, SMT
  <2>3. CASE W = 16
    BY <1>2, <2>3, SMT
  <2>4. CASE W = 32
    BY <1>2, <2>4, SMTT(60)
  <2> QED
    BY <2>1, <2>2, <2>3, <2>4, WAssumption
<1>7. \A k \in 0 .. 31 : k \in 0 .. 32 /\ k + 1 \in 0 .. 32
  BY SMT
<1>8. \A k \in 0 .. W : k \in 0 .. 32 /\ W - k \in 0 .. 32
  BY <1>3, SMT
<1>9. \A k \in 0 .. 32 : 2 ^ k \in Nat /\ 2 ^ k >= 1
  BY <1>1, <1>4, Zenon
<1>10. \A k \in 0 .. 31 : 2 ^ (k + 1) = 2 * 2 ^ k
  BY <1>1, <1>5, <1>7, Zenon
<1>11. \A k \in 0 .. W : 2 ^ k * 2 ^ (W - k) = Mod
  BY <1>1, <1>3, <1>6, <1>8, Zenon
<1> QED
  BY <1>9, <1>10, <1>11, SMT

LEMMA Sizes == Mod \in Nat /\ IntMin \in Nat /\ IntMin >= 8 /\ Mod = 2 * IntMin
<1>1. CASE W = 4
  <2>1. Mod = 16
    BY <1>1, SMT DEF Mod
  <2> QED
    BY <2>1, SMT DEF IntMin
<1>2. CASE W = 8
  <2>1. Mod = 256
    BY <1>2, SMT DEF Mod
  <2> QED
    BY <2>1, SMT DEF IntMin
<1>3. CASE W = 16
  <2>1. Mod = 65536
    BY <1>3, SMT DEF Mod
  <2> QED
    BY <2>1, SMT DEF IntMin
<1>4. CASE W = 32
  <2>1. Mod = 4294967296
    BY <1>4, SMT DEF Mod
  <2> QED
    BY <2>1, SMT DEF IntMin
<1> QED
  BY <1>1, <1>2, <1>3, <1>4, WAssumption

-----------------------------------------------------------------------------
(* Quotient and remainder, for any divisor. *)
LEMMA DivMod ==
    ASSUME NEW n \in Int, NEW d \in Nat, d > 0
    PROVE  n \div d \in Int /\ n % d \in 0 .. d - 1 /\ n = d * (n \div d) + (n % d)
BY SMT

LEMMA DivModUnique ==
    ASSUME NEW d \in Nat, d > 0, NEW q \in Int, NEW r \in 0 .. d - 1, NEW n, n = d * q + r
    PROVE  n \div d = q /\ n % d = r
<1> DEFINE p == n \div d
           s == n % d
<1>1. p \in Int /\ s \in 0 .. d - 1 /\ n = d * p + s
  BY DivMod
<1> HIDE DEF p, s
<1>2. d * (p - q) = r - s
  BY <1>1, SMT
<1>3. CASE p - q >= 1
  <2>1. d * (p - q) >= d
    BY <1>1, <1>3, SMT
  <2> QED
    BY <1>1, <1>2, <2>1, SMT
<1>4. CASE p - q <= -1
  <2>1. d * (p - q) <= -d
    BY <1>1, <1>4, SMT
  <2> QED
    BY <1>1, <1>2, <2>1, SMT
<1>5. CASE p - q = 0
  BY <1>1, <1>5, SMT DEF p, s
<1> QED
  BY <1>1, <1>3, <1>4, <1>5, SMT

LEMMA ModShift ==
    ASSUME NEW d \in Nat, d > 0, NEW n \in Int, NEW k \in Int, NEW m, m = n + d * k
    PROVE  m % d = n % d
<1> DEFINE q == n \div d
           r == n % d
<1>1. q \in Int /\ r \in 0 .. d - 1 /\ n = d * q + r
  BY DivMod
<1> HIDE DEF q, r
<1>2. m = d * (q + k) + r /\ q + k \in Int
  BY <1>1, SMT
<1>3. m % d = r
  BY <1>1, <1>2, DivModUnique
<1> QED
  BY <1>3 DEF r

LEMMA SmallMod == ASSUME NEW n \in 0 .. Mod - 1 PROVE n % Mod = n
<1>1. n = Mod * 0 + n /\ Mod \in Nat /\ Mod > 0
  BY Sizes, SMT
<1> QED
  BY <1>1, DivModUnique

-----------------------------------------------------------------------------
(* A word read as a signed number, and back. *)
LEMMA SignedFacts ==
    ASSUME NEW x \in Val
    PROVE  /\ x \in Nat /\ x < Mod
           /\ Signed(x) \in -IntMin .. IntMin - 1
           /\ \E k \in {0, 1} : x = Signed(x) + Mod * k
           /\ x = 0 <=> Signed(x) = 0
           /\ Mod \div 2 = IntMin
<1>1. x \in Nat /\ x < Mod /\ Mod \div 2 = IntMin
  BY Sizes, SMT DEF Val, IntMin
<1>2. Signed(x) = IF x < IntMin THEN x ELSE x - Mod
  BY <1>1 DEF Signed
<1> QED
  BY <1>1, <1>2, Sizes, SMT

LEMMA SignedBack ==
    ASSUME NEW n \in -IntMin .. IntMin - 1
    PROVE  n % Mod \in Val /\ Signed(n % Mod) = n
<1>0. Mod \in Nat /\ Mod > 0 /\ n \in Int
  BY Sizes, SMT
<1>1. Mod \div 2 = IntMin
  BY DEF IntMin
<1>2. CASE n >= 0
  <2>1. n \in 0 .. Mod - 1
    BY <1>2, Sizes, SMT
  <2>2. n % Mod = n
    BY <2>1, SmallMod
  <2> QED
    BY <1>1, <1>2, <2>1, <2>2, Sizes, SMT DEF Signed, Val
<1>3. CASE n < 0
  <2>1. n = Mod * (-1) + (n + Mod) /\ n + Mod \in 0 .. Mod - 1
    BY <1>3, Sizes, SMT
  <2>2. n % Mod = n + Mod
    BY <1>0, <2>1, DivModUnique
  <2> QED
    BY <1>1, <1>3, <2>1, <2>2, Sizes, SMT DEF Signed, Val
<1> QED
  BY <1>0, <1>2, <1>3, SMT

LEMMA WordMod == ASSUME NEW x \in Val PROVE x % Mod = x
BY SmallMod DEF Val

-----------------------------------------------------------------------------
(* C's quotient and remainder: they recompose the dividend, the remainder  *)
(* is smaller than the divisor and has the sign of the dividend.            *)
LEMMA QuotRem ==
    ASSUME NEW m \in Int, NEW d \in Int, d # 0
    PROVE  /\ Quot(m, d) \in Int /\ Rem(m, d) \in Int
           /\ m = d * Quot(m, d) + Rem(m, d)
           /\ Abs(Rem(m, d)) < Abs(d)
           /\ Rem(m, d) * m >= 0
<1> DEFINE k == Abs(m) \div Abs(d)
           t == Abs(m) % Abs(d)
           q == Quot(m, d)
           r == Rem(m, d)
<1>1. Abs(m) \in Nat /\ Abs(d) \in Nat /\ Abs(d) > 0
  BY SMT DEF Abs
<1>2. k \in Int /\ t \in 0 .. Abs(d) - 1 /\ Abs(m) = Abs(d) * k + t
  BY <1>1, DivMod
<1>3. q = IF (m < 0) = (d < 0) THEN k ELSE -k
  BY DEF Quot
<1>4. r = m - d * q
  BY DEF Rem
<1> HIDE DEF k, t, q, r
<1>5. CASE m >= 0 /\ d > 0
  <2>1. q = k /\ Abs(m) = m /\ Abs(d) = d
    BY <1>3, <1>5, SMT DEF Abs
  <2>2. r = t
    BY <1>2, <1>4, <2>1, SMT
  <2>3. Abs(r) = t /\ t * m >= 0
    BY <1>2, <1>5, <2>1, <2>2, SMT DEF Abs
  <2> QED
    BY <1>2, <1>4, <2>1, <2>2, <2>3, SMT DEF q, r
<1>6. CASE m >= 0 /\ d < 0
  <2>1. q = -k /\ Abs(m) = m /\ Abs(d) = -d
    BY <1>3, <1>6, SMT DEF Abs
  <2>2. r = t
    BY <1>2, <1>4, <2>1, SMT
  <2>3. Abs(r) = t /\ t * m >= 0
    BY <1>2, <1>6, <2>1, <2>2, SMT DEF Abs
  <2> QED
    BY <1>2, <1>4, <2>1, <2>2, <2>3, SMT DEF q, r
<1>7. CASE m < 0 /\ d > 0
  <2>1. q = -k /\ Abs(m) = -m /\ Abs(d) = d
    BY <1>3, <1>7, SMT DEF Abs
  <2>2. r = -t
    BY <1>2, <1>4, <2>1, SMT
  <2>3. Abs(r) = t /\ (-t) * m >= 0
    BY <1>2, <1>7, <2>1, <2>2, SMT DEF Abs
  <2> QED
    BY <1>2, <1>4, <2>1, <2>2, <2>3, SMT DEF q, r
<1>8. CASE m < 0 /\ d < 0
  <2>1. q = k /\ Abs(m) = -m /\ Abs(d) = -d
    BY <1>3, <1>8, SMT DEF Abs
  <2>2. r = -t
    BY <1>2, <1>4, <2>1, SMT
  <2>3. Abs(r) = t /\ (-t) * m >= 0
    BY <1>2, <1>8, <2>1, <2>2, SMT DEF Abs
  <2> QED
    BY <1>2, <1>4, <2>1, <2>2, <2>3, SMT DEF q, r
<1> QED
  BY <1>5, <1>6, <1>7, <1>8, SMT

(* What is taken modulo the word size differs from it by whole words. *)
LEMMA ModBack ==
    ASSUME NEW n \in Int
    PROVE  n % Mod \in Val /\ \E k \in Int : n % Mod = n + Mod * k
<1>1. Mod \in Nat /\ Mod > 0
  BY Sizes, SMT
<1> DEFINE q == n \div Mod
           r == n % Mod
<1>2. q \in Int /\ r \in 0 .. Mod - 1 /\ n = Mod * q + r
  BY <1>1, DivMod
<1> HIDE DEF q, r
<1>3. -q \in Int /\ r = n + Mod * (-q)
  BY <1>1, <1>2, SMT
<1> QED
  BY <1>2, <1>3 DEF r, Val

LEMMA WholeWords ==
    ASSUME NEW x \in Val, NEW k \in Int, NEW m, m = x + Mod * k
    PROVE  m % Mod = x
<1>1. Mod \in Nat /\ Mod > 0 /\ x \in Int
  BY SignedFacts, Sizes, SMT
<1>2. m % Mod = x % Mod
  BY <1>1, ModShift
<1> QED
  BY <1>2, WordMod

LEMMA UnsignedDivision ==
    ASSUME NEW x \in Val, NEW y \in Val
    PROVE  /\ (Alu("DIVU", x, y) * y + Alu("REMU", x, y)) % Mod = x
           /\ y # 0 => Alu("REMU", x, y) < y
           /\ y = 0 => Alu("DIVU", x, y) = AllOnes
           /\ Alu("DIVU", x, y) \in Val /\ Alu("REMU", x, y) \in Val
<1>0. x \in Nat /\ x < Mod /\ y \in Nat /\ y < Mod /\ Mod \in Nat /\ Mod > 0
  BY SignedFacts, Sizes, SMT
<1> DEFINE q == Alu("DIVU", x, y)
           r == Alu("REMU", x, y)
<1>1. /\ q = IF y # 0 THEN x \div y ELSE AllOnes
      /\ r = IF y # 0 THEN x % y ELSE x
  BY DEF Alu
<1>2. CASE y = 0
  <2>1. q = Mod - 1 /\ r = x /\ q \in Int
    BY <1>0, <1>1, <1>2 DEF AllOnes
  <2> HIDE DEF q, r
  <2>2. q * y + r = x /\ q \in Val
    BY <1>0, <1>2, <2>1, SMT DEF Val
  <2> QED
    BY <1>2, <2>1, <2>2, WordMod DEF q, r, AllOnes
<1>3. CASE y # 0
  <2>1. q = x \div y /\ r = x % y /\ y > 0
    BY <1>0, <1>1, <1>3, SMT
  <2>2. q \in Int /\ r \in 0 .. y - 1 /\ x = y * q + r
    <3>1. /\ x \div y \in Int /\ x % y \in 0 .. y - 1
          /\ x = y * (x \div y) + (x % y)
      BY <1>0, <2>1, DivMod
    <3> QED
      BY <2>1, <3>1
  <2> HIDE DEF q, r
  <2>3. q * y + r = x
    BY <1>0, <2>2, SMT
  <2>4. q \in Val /\ r \in Val
    <3>1. q >= 0
      <4>1. q <= -1 => y * q <= -y
        BY <1>0, <2>2, SMT
      <4> QED
        BY <1>0, <2>2, <4>1, SMT
    <3>2. y * q >= q
      BY <1>0, <2>1, <2>2, <3>1, SMT
    <3> QED
      BY <1>0, <2>2, <3>1, <3>2, SMT DEF Val
  <2> QED
    BY <1>0, <1>3, <2>2, <2>3, <2>4, WordMod, SMT DEF q, r
<1> QED
  BY <1>2, <1>3

LEMMA SignedDivision ==
    ASSUME NEW x \in Val, NEW y \in Val
    PROVE  /\ (Alu("DIV", x, y) * y + Alu("REM", x, y)) % Mod = x
           /\ y # 0 => /\ Abs(Signed(Alu("REM", x, y))) < Abs(Signed(y))
                       /\ Signed(Alu("REM", x, y)) * Signed(x) >= 0
           /\ y = 0 => Alu("DIV", x, y) = AllOnes
           /\ Alu("DIV", x, y) \in Val /\ Alu("REM", x, y) \in Val
<1>0. x \in Nat /\ x < Mod /\ y \in Nat /\ y < Mod /\ Mod \in Nat /\ Mod > 0
  BY SignedFacts, Sizes, SMT
<1> DEFINE sx == Signed(x)
           sy == Signed(y)
           q == Quot(sx, sy)
           r == Rem(sx, sy)
<1>1. sx \in -IntMin .. IntMin - 1 /\ sy \in -IntMin .. IntMin - 1 /\ (y = 0 <=> sy = 0)
  BY SignedFacts
<1>2. /\ Alu("DIV", x, y) = DIV(x, y)
      /\ Alu("REM", x, y) = REM(x, y)
  BY DEF Alu
<1>3. CASE y = 0
  <2>1. DIV(x, y) = Mod - 1 /\ REM(x, y) = x
    <3>1. AllOnes = Mod - 1 /\ y # AllOnes
      BY <1>3, Sizes, SMT DEF AllOnes
    <3> QED
      BY <1>3, <3>1 DEF DIV, REM
  <2>2. (Mod - 1) * y + x = x /\ Mod - 1 \in Val
    BY <1>0, <1>3, SMT DEF Val
  <2> QED
    BY <1>2, <1>3, <2>1, <2>2, WordMod DEF AllOnes
<1>4. CASE y # 0 /\ y = AllOnes /\ x = IntMin
  <2>1. DIV(x, y) = IntMin /\ REM(x, y) = 0
    BY <1>4 DEF DIV, REM
  <2>2. y = Mod - 1
    BY <1>4 DEF AllOnes
  <2>3. IntMin \in Nat /\ Mod = 2 * IntMin /\ IntMin >= 8
    BY Sizes
  <2>4. IntMin * y + 0 = x + Mod * (IntMin - 1) /\ IntMin - 1 \in Int
    BY <1>0, <1>4, <2>2, <2>3, SMT
  <2>5. (IntMin * y + 0) % Mod = x
    <3> DEFINE m == IntMin * y + 0
               k == IntMin - 1
    <3>1. m = x + Mod * k /\ k \in Int
      BY <2>4
    <3> HIDE DEF m, k
    <3>2. m % Mod = x
      BY <3>1, WholeWords
    <3> QED
      BY <3>2 DEF m
  <2>6. 0 \in Val /\ Signed(0) = 0 /\ IntMin \in Val
    BY <2>3, SMT DEF Val, Signed
  <2>7. Abs(0) = 0 /\ Abs(sy) > 0 /\ 0 * sx >= 0
    BY <1>0, <1>1, <1>4, <2>3, SMT DEF Abs
  <2> QED
    BY <1>2, <1>4, <2>1, <2>5, <2>6, <2>7
<1>5. CASE y # 0 /\ ~(y = AllOnes /\ x = IntMin)
  <2>1. DIV(x, y) = q % Mod /\ REM(x, y) = r % Mod
    BY <1>5 DEF DIV, REM
  <2> HIDE DEF q, r, sx, sy
  <2>2. sx \in Int /\ sy \in Int /\ sy # 0
    BY <1>1, <1>5, Sizes, SMT
  <2>3. q \in Int /\ r \in Int /\ sx = sy * q + r /\ Abs(r) < Abs(sy) /\ r * sx >= 0
    BY <2>2, QuotRem DEF q, r
  <2>4. r \in -IntMin .. IntMin - 1
    BY <1>1, <2>2, <2>3, Sizes, SMT DEF Abs
  <2>5. r % Mod \in Val /\ Signed(r % Mod) = r
    BY <2>4, SignedBack
  <2>6. PICK k1 \in Int : q % Mod = q + Mod * k1
    BY <2>3, ModBack
  <2>7. PICK k2 \in Int : r % Mod = r + Mod * k2
    BY <2>3, ModBack
  <2>8. PICK k3 \in {0, 1} : y = sy + Mod * k3
    BY SignedFacts DEF sy
  <2>9. PICK k4 \in {0, 1} : x = sx + Mod * k4
    BY SignedFacts DEF sx
  <2> DEFINE k == q * k3 + k1 * sy + Mod * k1 * k3 + k2 - k4
             u == q % Mod
             v == r % Mod
  <2>10. k \in Int
    BY <1>0, <2>2, <2>3, SMT
  <2>11. u = q + Mod * k1 /\ v = r + Mod * k2
    BY <2>6, <2>7
  <2> HIDE DEF u, v
  <2>12. u * y + v = x + Mod * k
    <3>1. u * y = q * sy + Mod * (q * k3 + k1 * sy + Mod * k1 * k3)
      BY <1>0, <2>2, <2>3, <2>8, <2>11, SMT
    <3> QED
      BY <1>0, <2>2, <2>3, <2>8, <2>9, <2>11, <3>1, SMT
  <2> HIDE DEF k
  <2>13. (u * y + v) % Mod = x
    <3> DEFINE m == u * y + v
    <3>1. m = x + Mod * k
      BY <2>12
    <3> HIDE DEF m
    <3>2. m % Mod = x
      BY <2>10, <3>1, WholeWords
    <3> QED
      BY <3>2 DEF m
  <2>14. u \in Val
    BY <2>3, ModBack DEF u
  <2> QED
    BY <1>2, <1>5, <2>1, <2>3, <2>5, <2>13, <2>14 DEF u, v, sx, sy
<1> QED
  BY <1>3, <1>4, <1>5

-----------------------------------------------------------------------------
LEMMA TimesMonotone ==
    ASSUME NEW c \in Nat, NEW u \in Int, NEW v \in Int, u <= v
    PROVE  c * u <= c * v
BY SMT

LEMMA QuotientBounds ==
    ASSUME NEW d \in Nat, d > 0, NEW n \in Int, NEW lo \in Int, NEW hi \in Int,
           d * lo <= n, n < d * hi
    PROVE  n \div d \in lo .. hi - 1
<1> DEFINE q == n \div d
           r == n % d
<1>1. q \in Int /\ r \in 0 .. d - 1 /\ n = d * q + r
  BY DivMod
<1> HIDE DEF q, r
<1>2. q >= lo
  <2>1. SUFFICES ASSUME q + 1 <= lo PROVE FALSE
    BY <1>1, SMT
  <2>2. q + 1 \in Int /\ d * (q + 1) = d * q + d
    BY <1>1, SMT
  <2>3. d * (q + 1) <= d * lo
    BY <2>1, <2>2, TimesMonotone
  <2> QED
    BY <1>1, <2>2, <2>3, SMT
<1>3. q < hi
  <2>1. SUFFICES ASSUME hi <= q PROVE FALSE
    BY <1>1, SMT
  <2>2. d * hi <= d * q
    BY <1>1, <2>1, TimesMonotone
  <2> QED
    BY <1>1, <2>2, SMT
<1> QED
  BY <1>1, <1>2, <1>3, SMT DEF q

(* The upper word of a product in two words. *)
LEMMA HighIs ==
    ASSUME NEW n \in Int
    PROVE  High(n) = (n \div Mod) % Mod
<1>0. Mod \in Nat /\ Mod > 0
  BY Sizes, SMT
<1> DEFINE q == n \div Mod
           l == n % Mod
           k == q \div Mod
           u == q % Mod
           dd == Mod * Mod
           m == Mod * u + l
<1>1. q \in Int /\ l \in 0 .. Mod - 1 /\ n = Mod * q + l
  BY <1>0, DivMod
<1>2. k \in Int /\ u \in 0 .. Mod - 1 /\ q = Mod * k + u
  <2> HIDE DEF q
  <2> QED
    BY <1>0, <1>1, DivMod
<1> HIDE DEF q, l, k, u
<1>3. dd \in Nat /\ dd > 0
  BY <1>0, SMT
<1>4. n = dd * k + m
  BY <1>0, <1>1, <1>2, SMT
<1>5. m \in 0 .. dd - 1
  <2>1. Mod * 0 <= Mod * u /\ Mod * u <= Mod * (Mod - 1)
    BY <1>0, <1>2, TimesMonotone, SMT
  <2> QED
    BY <1>0, <1>1, <1>2, <2>1, SMT
<1> HIDE DEF dd
<1>6. n % dd = m
  <2> HIDE DEF m
  <2> QED
    BY <1>2, <1>3, <1>4, <1>5, DivModUnique
<1>7. m \div Mod = u
  <2>1. m = Mod * u + l /\ u \in Int
    BY <1>2, SMT
  <2> HIDE DEF m
  <2> QED
    BY <1>0, <1>1, <2>1, DivModUnique
<1> QED
  BY <1>6, <1>7 DEF High, dd, u, q

(* The upper and the lower word of a product make the product: when the    *)
(* upper word is read as a signed number, and when it is not.               *)
LEMMA TwoWords ==
    ASSUME NEW p \in Int
    PROVE  /\ Mod * (-IntMin) <= p /\ p < Mod * IntMin => Signed(High(p)) * Mod + (p % Mod) = p
           /\ Mod * 0 <= p /\ p < Mod * Mod => High(p) * Mod + (p % Mod) = p
           /\ High(p) \in Val
<1>0. Mod \in Nat /\ Mod > 0 /\ IntMin \in Nat /\ -IntMin \in Int
  BY Sizes, SMT
<1> DEFINE q == p \div Mod
           l == p % Mod
<1>1. q \in Int /\ l \in 0 .. Mod - 1 /\ p = Mod * q + l
  BY <1>0, DivMod
<1>2. High(p) = q % Mod
  BY HighIs
<1>3. ASSUME Mod * (-IntMin) <= p, p < Mod * IntMin
      PROVE  Signed(High(p)) * Mod + l = p
  <2>1. q \in -IntMin .. IntMin - 1
    BY <1>0, <1>3, QuotientBounds
  <2> HIDE DEF q, l
  <2>2. Signed(High(p)) = q
    BY <1>2, <2>1, SignedBack
  <2> QED
    BY <1>0, <1>1, <2>2, SMT
<1>4. ASSUME Mod * 0 <= p, p < Mod * Mod
      PROVE  High(p) * Mod + l = p
  <2>1. q \in 0 .. Mod - 1
    BY <1>0, <1>4, QuotientBounds
  <2> HIDE DEF q, l
  <2>2. High(p) = q
    BY <1>2, <2>1, SmallMod
  <2> QED
    BY <1>0, <1>1, <2>2, SMT
<1>5. High(p) \in Val
  <2> HIDE DEF q
  <2> QED
    BY <1>1, <1>2, ModBack
<1> QED
  BY <1>3, <1>4, <1>5

(* The three products of two words fit in two words. *)
LEMMA ProductFits ==
    ASSUME NEW x \in Val, NEW y \in Val
    PROVE  /\ Mod * (-IntMin) <= Signed(x) * Signed(y) /\ Signed(x) * Signed(y) < Mod * IntMin
           /\ Mod * (-IntMin) <= Signed(x) * y /\ Signed(x) * y < Mod * IntMin
           /\ Mod * 0 <= x * y /\ x * y < Mod * Mod
<1>0. x \in Nat /\ x < Mod /\ y \in Nat /\ y < Mod
  BY SignedFacts
<1>1. Mod \in Nat /\ IntMin \in Nat /\ IntMin >= 8 /\ Mod = 2 * IntMin
  BY Sizes
<1> DEFINE sx == Signed(x)
           sy == Signed(y)
           I == IntMin
<1>2. sx \in -I .. I - 1 /\ sy \in -I .. I - 1
  BY SignedFacts
<1> HIDE DEF sx, sy, I
<1>3. I \in Nat /\ I >= 8 /\ Mod = 2 * I /\ sx \in Int /\ sy \in Int
  BY <1>1, <1>2, SMT DEF I
<1>4. Mod * (-I) <= sx * sy /\ sx * sy < Mod * I
  <2>1. (I + sx) * (I + sy) >= 0 /\ (I - sx) * (I - sy) >= 0
    BY <1>2, <1>3, SMT
  <2>2. (I + sx) * (I - sy) >= 0 /\ (I - sx) * (I + sy) >= 0
    BY <1>2, <1>3, SMT
  <2>3. I * I >= sx * sy
    BY <1>3, <2>2, SMT
  <2>4. -(I * I) <= sx * sy
    BY <1>3, <2>1, SMT
  <2>5. I * I > 0 /\ Mod * I = 2 * (I * I) /\ Mod * (-I) = -(2 * (I * I))
    BY <1>3, SMT
  <2> QED
    BY <1>3, <2>3, <2>4, <2>5, SMT
<1>5. Mod * (-I) <= sx * y /\ sx * y < Mod * I
  <2>1. (I + sx) * y >= 0 /\ I * (Mod - y) >= 0
    BY <1>0, <1>1, <1>2, <1>3, SMT
  <2>2. (I - 1 - sx) * y >= 0 /\ (I - 1) * (Mod - y) >= 0
    BY <1>0, <1>1, <1>2, <1>3, SMT
  <2>3. Mod * (-I) <= sx * y
    BY <1>0, <1>1, <1>3, <2>1, SMT
  <2>4. sx * y <= (I - 1) * Mod
    BY <1>0, <1>1, <1>3, <2>2, SMT
  <2> QED
    BY <1>0, <1>1, <1>3, <2>3, <2>4, SMT
<1>6. Mod * 0 <= x * y /\ x * y < Mod * Mod
  <2>1. x * y >= 0 /\ (Mod - 1 - x) * y >= 0 /\ (Mod - 1) * (Mod - y) >= 0
    BY <1>0, <1>1, SMT
  <2>2. x * y <= (Mod - 1) * Mod
    BY <1>0, <1>1, <2>1, SMT
  <2> QED
    BY <1>0, <1>1, <2>1, <2>2, SMT
<1> QED
  BY <1>4, <1>5, <1>6 DEF sx, sy, I

LEMMA Products ==
    ASSUME NEW x \in Val, NEW y \in Val
    PROVE  /\ Signed(Alu("MULH", x, y)) * Mod + Alu("MUL", x, y) = Signed(x) * Signed(y)
           /\ Signed(Alu("MULHSU", x, y)) * Mod + Alu("MUL", x, y) = Signed(x) * y
           /\ Alu("MULHU", x, y) * Mod + Alu("MUL", x, y) = x * y
           /\ Alu("MUL", x, y) \in Val /\ Alu("MULH", x, y) \in Val
           /\ Alu("MULHSU", x, y) \in Val /\ Alu("MULHU", x, y) \in Val
<1>0. x \in Nat /\ x < Mod /\ y \in Nat /\ y < Mod /\ Mod \in Nat /\ Mod > 0
  BY SignedFacts, Sizes, SMT
<1> DEFINE sx == Signed(x)
           sy == Signed(y)
           p1 == sx * sy
           p2 == sx * y
           p3 == x * y
<1>1. /\ Alu("MUL", x, y) = p3 % Mod
      /\ Alu("MULH", x, y) = High(p1)
      /\ Alu("MULHSU", x, y) = MULHSU(x, y)
      /\ Alu("MULHU", x, y) = High(p3)
  BY DEF Alu
<1>2. sx \in Int /\ sy \in Int
  BY SignedFacts, Sizes, SMT
<1>3. PICK k1 \in {0, 1} : x = sx + Mod * k1
  BY SignedFacts
<1>4. PICK k2 \in {0, 1} : y = sy + Mod * k2
  BY SignedFacts
<1> HIDE DEF sx, sy
<1>5. p1 \in Int /\ p2 \in Int /\ p3 \in Int
  BY <1>0, <1>2, SMT
<1>6. p1 % Mod = p3 % Mod
  <2> DEFINE k == sx * k2 + k1 * sy + Mod * k1 * k2
  <2>1. k \in Int /\ p3 = p1 + Mod * k
    BY <1>0, <1>2, <1>3, <1>4, SMT
  <2> HIDE DEF k, p1, p3
  <2> QED
    BY <1>0, <1>5, <2>1, ModShift
<1>7. p2 % Mod = p3 % Mod
  <2> DEFINE k == k1 * y
  <2>1. k \in Int /\ p3 = p2 + Mod * k
    BY <1>0, <1>2, <1>3, SMT
  <2> HIDE DEF k, p2, p3
  <2> QED
    BY <1>0, <1>5, <2>1, ModShift
<1>8. MULHSU(x, y) = High(p2)
  <2> DEFINE dd == Mod * Mod
             q == sx \div dd
             s == sx % dd
             k == -(q * y)
             m == s * y
  <2>1. dd \in Nat /\ dd > 0
    BY <1>0, SMT
  <2> HIDE DEF dd
  <2>2. q \in Int /\ s \in 0 .. dd - 1 /\ sx = dd * q + s
    BY <1>2, <2>1, DivMod
  <2> HIDE DEF q, s
  <2>3. k \in Int /\ m = p2 + dd * k
    BY <1>0, <1>2, <2>1, <2>2, SMT
  <2> HIDE DEF k, m, p2
  <2>4. m % dd = p2 % dd
    BY <1>5, <2>1, <2>3, ModShift
  <2>5. MULHSU(x, y) = (m % dd) \div Mod
    BY DEF MULHSU, High, m, s, dd, sx
  <2> QED
    BY <2>4, <2>5 DEF High, dd
<1>9. /\ Mod * (-IntMin) <= p1 /\ p1 < Mod * IntMin
      /\ Mod * (-IntMin) <= p2 /\ p2 < Mod * IntMin
      /\ Mod * 0 <= p3 /\ p3 < Mod * Mod
  BY ProductFits DEF sx, sy
<1> HIDE DEF p1, p2, p3
<1>10. /\ Signed(High(p1)) * Mod + (p1 % Mod) = p1
       /\ Signed(High(p2)) * Mod + (p2 % Mod) = p2
       /\ High(p3) * Mod + (p3 % Mod) = p3
       /\ High(p1) \in Val /\ High(p2) \in Val /\ High(p3) \in Val
  BY <1>5, <1>9, TwoWords
<1>11. p3 % Mod \in Val
  BY <1>5, ModBack
<1> QED
  BY <1>1, <1>6, <1>7, <1>8, <1>10, <1>11 DEF p1, p2, p3, sx, sy

-----------------------------------------------------------------------------
(* A set of numbers that is not empty has a least one: the induction of the *)
(* bitwise operators, as the search for the first bit that is wrong.        *)
LEMMA LeastOf ==
    ASSUME NEW T, T \subseteq Nat, T # {}
    PROVE  \E n \in T : \A k \in T : n <= k
<1> DEFINE R == OpToRel(<, Nat)
<1>1. \E n \in T : \A k \in T : ~(<<k, n>> \in R)
  <2>1. IsWellFoundedOn(R, Nat)
    BY NatLessThanWellFounded
  <2> HIDE DEF R
  <2> QED
    BY <2>1, WFMin
<1>2. \A k, n \in Nat : k < n => <<k, n>> \in R
  BY DEF OpToRel
<1> HIDE DEF R
<1>3. PICK n \in T : \A k \in T : ~(<<k, n>> \in R)
  BY <1>1
<1>4. \A k \in T : ~(k < n)
  BY <1>2, <1>3
<1> QED
  BY <1>3, <1>4

(* The bits of a number: below 2^(k+1) it is what it is below 2^k and its    *)
(* k-th bit.                                                                  *)
LEMMA BitStep ==
    ASSUME NEW x \in Nat, NEW k \in 0 .. 31
    PROVE  /\ Bit(x, k) \in {0, 1}
           /\ x % 2 ^ (k + 1) = (x % 2 ^ k) + 2 ^ k * Bit(x, k)
<1> DEFINE p == 2 ^ k
           pp == 2 ^ (k + 1)
           q == x \div p
           r == x % p
           t == q \div 2
           s == q % 2
           m == r + p * s
<1>1. p \in Nat /\ p > 0 /\ pp = 2 * p
  <2>1. k \in 0 .. 32 /\ k \in 0 .. 31
    BY SMT
  <2>2. 2 ^ k \in Nat /\ 2 ^ k >= 1 /\ 2 ^ (k + 1) = 2 * 2 ^ k
    BY <2>1, Powers, Zenon
  <2> HIDE DEF p, pp
  <2>3. p \in Nat /\ p >= 1 /\ pp = 2 * p
    BY <2>2 DEF p, pp
  <2> QED
    BY <2>3, SMT
<1>2. Bit(x, k) = s
  BY DEF Bit
<1> HIDE DEF p, pp
<1>3. q \in Int /\ r \in 0 .. p - 1 /\ x = p * q + r
  BY <1>1, DivMod, SMT
<1> HIDE DEF q, r
<1>4. t \in Int /\ s \in 0 .. 1 /\ q = 2 * t + s
  BY <1>3, SMT
<1> HIDE DEF t, s
<1>5. m \in 0 .. pp - 1 /\ x = pp * t + m /\ pp \in Nat /\ pp > 0
  <2>1. s = 0 \/ s = 1
    BY <1>4, SMT
  <2>2. CASE s = 0
    BY <1>1, <1>3, <1>4, <2>2, SMT
  <2>3. CASE s = 1
    BY <1>1, <1>3, <1>4, <2>3, SMT
  <2> QED
    BY <2>1, <2>2, <2>3
<1>6. x % pp = m
  <2> HIDE DEF m
  <2> QED
    BY <1>4, <1>5, DivModUnique
<1>7. s \in {0, 1}
  BY <1>4, SMT
<1> QED
  BY <1>2, <1>6, <1>7 DEF p, pp, r

(* Partial sums. *)
IsSum(f, w) == f = [n \in 0 .. W |-> IF n = 0 THEN 0 ELSE f[n - 1] + w[n]]

LEMMA SumExists ==
    ASSUME NEW w
    PROVE  \E f : IsSum(f, w)
<1> DEFINE Upto(f, k) == f = [i \in 0 .. k |-> IF i = 0 THEN 0 ELSE f[i - 1] + w[i]]
           T == {k \in 0 .. W : ~\E f : Upto(f, k)}
<1>0. W \in Nat
  BY WAssumption
<1>1. T = {}
  <2> SUFFICES ASSUME T # {} PROVE FALSE
    OBVIOUS
  <2>1. T \subseteq Nat
    BY <1>0
  <2>2. \E k \in T : \A j \in T : k <= j
    <3> HIDE DEF T
    <3> QED
      BY <2>1, LeastOf
  <2>3. PICK k \in T : \A j \in T : k <= j
    BY <2>2
  <2>4. k \in 0 .. W /\ ~\E f : Upto(f, k)
    OBVIOUS
  <2>5. k # 0
    <3>1. Upto([i \in 0 .. 0 |-> 0], 0)
      OBVIOUS
    <3> HIDE DEF Upto
    <3> QED
      BY <2>4, <3>1
  <2>6. k - 1 \in 0 .. W /\ k - 1 \notin T
    BY <1>0, <2>3, <2>4, <2>5
  <2>7. PICK f : Upto(f, k - 1)
    BY <2>6
  <2> DEFINE g == [i \in 0 .. k |-> IF i = k THEN f[k - 1] + w[k] ELSE f[i]]
             h == [i \in 0 .. k |-> IF i = 0 THEN 0 ELSE g[i - 1] + w[i]]
  <2>8. ASSUME NEW i \in 0 .. k
        PROVE  g[i] = h[i]
    <3>1. CASE i = 0
      BY <1>0, <2>4, <2>5, <2>7, <3>1
    <3>2. CASE i # 0 /\ i # k
      <4>1. i \in 0 .. k - 1 /\ i - 1 \in 0 .. k /\ i - 1 # k
        BY <1>0, <2>4, <3>2
      <4>2. f[i] = f[i - 1] + w[i]
        BY <2>7, <3>2, <4>1
      <4> QED
        BY <3>2, <4>1, <4>2
    <3>3. CASE i = k
      <4>1. k - 1 \in 0 .. k /\ k - 1 # k
        BY <1>0, <2>4, <2>5
      <4> QED
        BY <2>5, <3>3, <4>1
    <3> QED
      BY <3>1, <3>2, <3>3
  <2>9. g = h
    BY <2>8
  <2>10. Upto(g, k)
    BY <2>9
  <2> HIDE DEF Upto
  <2> QED
    BY <2>4, <2>10
<1>2. \E f : Upto(f, W)
  <2>1. W \in 0 .. W
    BY <1>0
  <2> HIDE DEF Upto
  <2> QED
    BY <1>1, <2>1
<1> QED
  BY <1>2 DEF IsSum

(* What the recursive function of BitByBit computes. *)
LEMMA BitByBitIs ==
    ASSUME NEW table, NEW x, NEW y
    PROVE  \E f : /\ BitByBit(table, x, y) = f[W]
                  /\ f[0] = 0
                  /\ \A n \in 0 .. W - 1 :
                       f[n + 1] = f[n] + 2 ^ n * table[1 + Bit(x, n) + Bit(y, n)]
<1> DEFINE w == [n \in 1 .. W |-> 2 ^ (n - 1) * table[1 + Bit(x, n - 1) + Bit(y, n - 1)]]
           F(r) == [n \in 0 .. W |-> IF n = 0 THEN 0
                        ELSE r[n - 1] + 2 ^ (n - 1) * table[1 + Bit(x, n - 1) + Bit(y, n - 1)]]
           R == CHOOSE r : r = F(r)
<1>0. W \in Nat
  BY WAssumption
<1>1. BitByBit(table, x, y) = R[W]
  BY DEF BitByBit
<1>2. PICK f : IsSum(f, w)
  <2> HIDE DEF w
  <2> QED
    BY SumExists
<1>3. f = F(f)
  <2>1. ASSUME NEW n \in 0 .. W
        PROVE  (IF n = 0 THEN 0 ELSE f[n - 1] + w[n]) = F(f)[n]
    <3>1. CASE n = 0
      BY <3>1
    <3>2. CASE n # 0
      <4>1. n \in 1 .. W
        BY <1>0, <3>2
      <4> QED
        BY <3>2, <4>1
    <3> QED
      BY <3>1, <3>2
  <2>2. [n \in 0 .. W |-> IF n = 0 THEN 0 ELSE f[n - 1] + w[n]] = [n \in 0 .. W |-> F(f)[n]]
    <3> HIDE DEF w, F
    <3> QED
      BY <2>1
  <2>3. F(f) = [n \in 0 .. W |-> F(f)[n]]
    OBVIOUS
  <2> HIDE DEF w, F
  <2> QED
    BY <1>2, <2>2, <2>3 DEF IsSum
<1> HIDE DEF F
<1>4. R = F(R)
  BY <1>3
<1> HIDE DEF R
<1>5. R[0] = 0
  <2>1. 0 \in 0 .. W
    BY <1>0
  <2> QED
    BY <1>4, <2>1 DEF F
<1>6. ASSUME NEW n \in 0 .. W - 1
      PROVE  R[n + 1] = R[n] + 2 ^ n * table[1 + Bit(x, n) + Bit(y, n)]
  <2>1. n + 1 \in 0 .. W /\ n + 1 # 0 /\ (n + 1) - 1 = n
    BY <1>0
  <2>2. R[n + 1] = R[(n + 1) - 1] + 2 ^ ((n + 1) - 1) * table[1 + Bit(x, (n + 1) - 1) + Bit(y, (n + 1) - 1)]
    <3> DEFINE j == n + 1
    <3>1. j \in 0 .. W /\ j # 0
      BY <2>1
    <3> HIDE DEF j
    <3>2. R[j] = R[j - 1] + 2 ^ (j - 1) * table[1 + Bit(x, j - 1) + Bit(y, j - 1)]
      BY <1>4, <3>1 DEF F
    <3> QED
      BY <3>2 DEF j
  <2> QED
    BY <2>1, <2>2
<1> QED
  BY <1>1, <1>5, <1>6

(* An operator whose table holds zeros and ones gives a word. *)
LEMMA BitByBitInVal ==
    ASSUME NEW table, NEW x \in Nat, NEW y \in Nat,
           table[1] \in {0, 1}, table[2] \in {0, 1}, table[3] \in {0, 1}
    PROVE  BitByBit(table, x, y) \in Val
<1>0. W \in Nat /\ W <= 32
  BY WAssumption
<1>1. PICK f : /\ BitByBit(table, x, y) = f[W]
               /\ f[0] = 0
               /\ \A n \in 0 .. W - 1 :
                    f[n + 1] = f[n] + 2 ^ n * table[1 + Bit(x, n) + Bit(y, n)]
  BY BitByBitIs
<1> DEFINE Good(n) == f[n] \in Nat /\ f[n] < 2 ^ n
           T == {n \in 0 .. W : ~Good(n)}
<1>2. T = {}
  <2> SUFFICES ASSUME T # {} PROVE FALSE
    OBVIOUS
  <2>1. T \subseteq Nat
    BY <1>0
  <2>2. \E k \in T : \A j \in T : k <= j
    <3> HIDE DEF T
    <3> QED
      BY <2>1, LeastOf
  <2>3. PICK k \in T : \A j \in T : k <= j
    BY <2>2
  <2>4. k \in 0 .. W /\ ~Good(k)
    OBVIOUS
  <2>5. k # 0
    <3>1. f[0] = 0 /\ 2 ^ 0 = 1
      BY <1>1, Powers
    <3>2. Good(0)
      BY <3>1, SMT
    <3> HIDE DEF Good
    <3> QED
      BY <2>4, <3>2
  <2> DEFINE j == k - 1
  <2>6. j \in 0 .. W - 1 /\ j \in 0 .. 31 /\ j \in 0 .. 32 /\ k = j + 1 /\ j \in 0 .. W /\ j < k
    BY <1>0, <2>4, <2>5, SMT
  <2>7. Good(j)
    <3>1. j \notin T
      <4> HIDE DEF T, j
      <4> QED
        BY <1>0, <2>3, <2>6, SMT
    <3> QED
      BY <2>6, <3>1
  <2> HIDE DEF j
  <2> DEFINE c == table[1 + Bit(x, j) + Bit(y, j)]
             p == 2 ^ j
             pp == 2 ^ (j + 1)
  <2>8. c \in {0, 1}
    <3>1. Bit(x, j) \in {0, 1} /\ Bit(y, j) \in {0, 1}
      BY <2>6, BitStep
    <3>2. 1 + Bit(x, j) + Bit(y, j) \in {1, 2, 3}
      BY <3>1, SMT
    <3> QED
      BY <3>2
  <2>9. p \in Nat /\ pp = 2 * p
    BY <2>6, Powers, Zenon
  <2>10. f[j + 1] = f[j] + p * c
    BY <1>1, <2>6
  <2>11. f[j] \in Nat /\ f[j] < p
    BY <2>7
  <2> HIDE DEF c, p, pp
  <2>12. f[j + 1] \in Nat /\ f[j + 1] < pp
    BY <2>8, <2>9, <2>10, <2>11, SMT
  <2>13. Good(j + 1)
    BY <2>12 DEF pp
  <2> QED
    BY <2>4, <2>6, <2>13
<1>3. Good(W)
  BY <1>0, <1>2, SMT
<1>4. Mod = 2 ^ W
  BY DEF Mod
<1> DEFINE v == f[W]
<1>5. v \in Nat /\ v < Mod
  BY <1>3, <1>4
<1> HIDE DEF v
<1>6. v \in Val
  BY <1>5, Sizes, SMT DEF Val
<1> QED
  BY <1>1, <1>6 DEF v

LEMMA BitwiseInVal ==
    ASSUME NEW x \in Nat, NEW y \in Nat
    PROVE  And(x, y) \in Val /\ Or(x, y) \in Val /\ Xor(x, y) \in Val
<1>1. BitByBit(<<0, 0, 1>>, x, y) \in Val
  <2> DEFINE t == <<0, 0, 1>>
  <2>1. t[1] \in {0, 1} /\ t[2] \in {0, 1} /\ t[3] \in {0, 1}
    OBVIOUS
  <2> HIDE DEF t
  <2>2. BitByBit(t, x, y) \in Val
    BY <2>1, BitByBitInVal
  <2> QED
    BY <2>2 DEF t
<1>2. BitByBit(<<0, 1, 1>>, x, y) \in Val
  <2> DEFINE t == <<0, 1, 1>>
  <2>1. t[1] \in {0, 1} /\ t[2] \in {0, 1} /\ t[3] \in {0, 1}
    OBVIOUS
  <2> HIDE DEF t
  <2>2. BitByBit(t, x, y) \in Val
    BY <2>1, BitByBitInVal
  <2> QED
    BY <2>2 DEF t
<1>3. BitByBit(<<0, 1, 0>>, x, y) \in Val
  <2> DEFINE t == <<0, 1, 0>>
  <2>1. t[1] \in {0, 1} /\ t[2] \in {0, 1} /\ t[3] \in {0, 1}
    OBVIOUS
  <2> HIDE DEF t
  <2>2. BitByBit(t, x, y) \in Val
    BY <2>1, BitByBitInVal
  <2> QED
    BY <2>2 DEF t
<1> QED
  BY <1>1, <1>2, <1>3 DEF And, Or, Xor

(* Where no bit is set in both words, Or adds them. *)
LEMMA OrDisjoint ==
    ASSUME NEW x \in Val, NEW y \in Val,
           \A k \in 0 .. W - 1 : Bit(x, k) = 0 \/ Bit(y, k) = 0
    PROVE  Or(x, y) = x + y
<1> DEFINE table == <<0, 1, 1>>
<1>t. table[1] = 0 /\ table[2] = 1 /\ table[3] = 1
  OBVIOUS
<1>o. Or(x, y) = BitByBit(table, x, y)
  BY DEF Or
<1> HIDE DEF table
<1>0. W \in Nat /\ W <= 32 /\ x \in Nat /\ y \in Nat
  BY WAssumption, SignedFacts
<1>1. PICK f : /\ BitByBit(table, x, y) = f[W]
               /\ f[0] = 0
               /\ \A n \in 0 .. W - 1 :
                    f[n + 1] = f[n] + 2 ^ n * table[1 + Bit(x, n) + Bit(y, n)]
  BY BitByBitIs
<1> DEFINE Good(n) == f[n] = (x % 2 ^ n) + (y % 2 ^ n)
           T == {n \in 0 .. W : ~Good(n)}
<1>2. T = {}
  <2> SUFFICES ASSUME T # {} PROVE FALSE
    OBVIOUS
  <2>1. T \subseteq Nat
    BY <1>0
  <2>2. \E k \in T : \A j \in T : k <= j
    <3> HIDE DEF T
    <3> QED
      BY <2>1, LeastOf
  <2>3. PICK k \in T : \A j \in T : k <= j
    BY <2>2
  <2>4. k \in 0 .. W /\ ~Good(k)
    OBVIOUS
  <2>5. k # 0
    <3>1. x % 1 = 0 /\ y % 1 = 0 /\ 2 ^ 0 = 1
      BY <1>0, SMT
    <3>2. f[0] = 0
      BY <1>1
    <3>3. Good(0)
      BY <3>1, <3>2
    <3> HIDE DEF Good
    <3> QED
      BY <2>4, <3>3
  <2> DEFINE j == k - 1
  <2>6. j \in 0 .. W - 1 /\ j \in 0 .. 31 /\ j \in 0 .. 32 /\ k = j + 1 /\ j \in 0 .. W /\ j < k
    BY <1>0, <2>4, <2>5, SMT
  <2>7. Good(j)
    <3>1. j \notin T
      <4> HIDE DEF T, j
      <4> QED
        BY <1>0, <2>3, <2>6, SMT
    <3> QED
      BY <2>6, <3>1
  <2> HIDE DEF j
  <2> DEFINE bx == Bit(x, j)
             by == Bit(y, j)
             p == 2 ^ j
             xx == x % 2 ^ j
             yy == y % 2 ^ j
  <2>8. bx \in {0, 1} /\ by \in {0, 1} /\ (bx = 0 \/ by = 0)
    BY <1>0, <2>6, BitStep
  <2>9. x % 2 ^ (j + 1) = xx + p * bx /\ y % 2 ^ (j + 1) = yy + p * by
    BY <1>0, <2>6, BitStep
  <2>10. f[j + 1] = f[j] + p * table[1 + bx + by]
    BY <1>1, <2>6
  <2>11. f[j] = xx + yy
    BY <2>7
  <2>12. p \in Nat /\ p > 0
    <3>1. 2 ^ j \in Nat /\ 2 ^ j >= 1
      BY <2>6, Powers, Zenon
    <3> HIDE DEF p
    <3>2. p \in Nat /\ p >= 1
      BY <3>1 DEF p
    <3> QED
      BY <3>2, SMT
  <2>13. xx \in Int /\ yy \in Int
    <3>1. xx = x % p /\ yy = y % p
      OBVIOUS
    <3> HIDE DEF xx, yy, p
    <3> QED
      BY <1>0, <2>12, <3>1, SMT
  <2> HIDE DEF bx, by, p, xx, yy
  <2>14. table[1 + bx + by] = bx + by
    BY <1>t, <2>8, SMT
  <2>15. f[j + 1] = (xx + p * bx) + (yy + p * by)
    BY <2>8, <2>10, <2>11, <2>12, <2>13, <2>14, SMT
  <2>16. Good(j + 1)
    BY <2>9, <2>15
  <2> QED
    BY <2>4, <2>6, <2>16
<1>3. Good(W)
  BY <1>0, <1>2, SMT
<1>4. f[W] = (x % Mod) + (y % Mod)
  BY <1>3 DEF Mod
<1>5. x % Mod = x /\ y % Mod = y
  BY WordMod
<1> QED
  BY <1>o, <1>1, <1>4, <1>5

LEMMA PowerDivides ==
    ASSUME NEW k \in 0 .. 32, NEW j \in 0 .. 32, k < j
    PROVE  \E t \in Nat : 2 ^ j = 2 ^ k * (2 * t)
<1> DEFINE Good(n) == \E t \in Nat : 2 ^ n = 2 ^ k * (2 * t)
           T == {n \in k + 1 .. 32 : ~Good(n)}
           p == 2 ^ k
<1>0. p \in Nat
  BY Powers, Zenon
<1>1. T = {}
  <2> SUFFICES ASSUME T # {} PROVE FALSE
    OBVIOUS
  <2>1. T \subseteq Nat
    OBVIOUS
  <2>2. \E i \in T : \A l \in T : i <= l
    <3> HIDE DEF T
    <3> QED
      BY <2>1, LeastOf
  <2>3. PICK i \in T : \A l \in T : i <= l
    BY <2>2
  <2>4. i \in k + 1 .. 32 /\ ~Good(i)
    OBVIOUS
  <2> DEFINE l == i - 1
  <2>5. l \in 0 .. 31 /\ l \in 0 .. 32 /\ i = l + 1 /\ l < i /\ l >= k
    BY <2>4, SMT
  <2>6. 2 ^ (l + 1) = 2 * 2 ^ l
    <3> HIDE DEF l
    <3> QED
      BY <2>5, Powers, Zenon
  <2>7. CASE l = k
    <3>1. 2 ^ i = 2 * p
      BY <2>5, <2>6, <2>7
    <3> HIDE DEF p
    <3>2. 2 ^ i = p * (2 * 1)
      BY <1>0, <3>1, SMT
    <3>3. Good(i)
      BY <3>2 DEF p
    <3> QED
      BY <2>4, <3>3
  <2>8. CASE l # k
    <3>1. Good(l)
      <4>1. l \in k + 1 .. 32
        BY <2>5, <2>8, SMT
      <4>2. l \notin T
        <5> HIDE DEF T, l
        <5> QED
          BY <2>3, <2>4, <2>5, SMT
      <4> QED
        BY <4>1, <4>2
    <3>2. PICK t \in Nat : 2 ^ l = p * (2 * t)
      BY <3>1
    <3>3. 2 ^ i = 2 * (p * (2 * t))
      BY <2>5, <2>6, <3>2
    <3> HIDE DEF p
    <3> DEFINE s == 2 * t
    <3>4. 2 ^ i = p * (2 * s) /\ s \in Nat
      BY <1>0, <3>3, SMT
    <3>5. Good(i)
      <4> HIDE DEF s
      <4> QED
        BY <3>4 DEF p
    <3> QED
      BY <2>4, <3>5
  <2> QED
    BY <2>7, <2>8
<1>2. j \in k + 1 .. 32
  BY SMT
<1> QED
  BY <1>1, <1>2

-----------------------------------------------------------------------------
(* The shifts, by n of the W places: p and q are what is shifted out and     *)
(* what is kept.                                                              *)
LEMMA Places ==
    ASSUME NEW n \in 0 .. W - 1
    PROVE  /\ n \in 0 .. 32 /\ W - n \in 0 .. 32 /\ W \in Nat /\ W <= 32
           /\ 2 ^ n \in Nat /\ 2 ^ n > 0
           /\ 2 ^ (W - n) \in Nat /\ 2 ^ (W - n) > 0
           /\ 2 ^ n * 2 ^ (W - n) = Mod
<1>1. W \in Nat /\ W <= 32
  BY WAssumption
<1>2. n \in 0 .. 32 /\ W - n \in 0 .. 32 /\ n \in 0 .. W
  BY <1>1, SMT
<1>3. /\ 2 ^ n \in Nat /\ 2 ^ n >= 1 /\ 2 ^ (W - n) \in Nat /\ 2 ^ (W - n) >= 1
      /\ 2 ^ n * 2 ^ (W - n) = Mod
  BY <1>2, Powers, Zenon
<1> DEFINE p == 2 ^ n
           q == 2 ^ (W - n)
<1>4. p \in Nat /\ p >= 1 /\ q \in Nat /\ q >= 1
  BY <1>3
<1> HIDE DEF p, q
<1>5. p > 0 /\ q > 0
  BY <1>4, SMT
<1> QED
  BY <1>1, <1>2, <1>3, <1>5 DEF p, q

LEMMA ShrIs ==
    ASSUME NEW x \in Val, NEW n \in 0 .. W - 1
    PROVE  /\ Shr(x, n) \in 0 .. 2 ^ (W - n) - 1
           /\ Shr(x, n) \in Val
           /\ \E r \in 0 .. 2 ^ n - 1 : x = 2 ^ n * Shr(x, n) + r
<1> DEFINE p == 2 ^ n
           q == 2 ^ (W - n)
           s == x \div p
           r == x % p
<1>1. p \in Nat /\ p > 0 /\ q \in Nat /\ q > 0 /\ p * q = Mod
  BY Places
<1>2. Shr(x, n) = s
  BY DEF Shr
<1>3. x \in Nat /\ x < Mod /\ x \in Int
  BY SignedFacts
<1> HIDE DEF p, q
<1>4. s \in Int /\ r \in 0 .. p - 1 /\ x = p * s + r
  BY <1>1, <1>3, DivMod
<1>5. s \in 0 .. q - 1
  <2>1. p * 0 <= x /\ x < p * q /\ 0 \in Int /\ q \in Int
    BY <1>1, <1>3, SMT
  <2> QED
    BY <1>1, <1>3, <2>1, QuotientBounds
<1>6. s \in Val
  <2> HIDE DEF s
  <2>1. p * q >= q
    BY <1>1, SMT
  <2> QED
    BY <1>1, <1>5, <2>1, SMT DEF Val
<1> QED
  BY <1>2, <1>4, <1>5, <1>6 DEF p, q

(* Shifting left and back keeps the places that were not shifted out. *)
LEMMA ShlShr ==
    ASSUME NEW x \in Val, NEW n \in 0 .. W - 1
    PROVE  Shl(x, n) \in Val /\ Shr(Shl(x, n), n) = x % 2 ^ (W - n)
<1> DEFINE p == 2 ^ n
           q == 2 ^ (W - n)
           t == x \div q
           u == x % q
           m == x * p
           v == p * u
<1>1. p \in Nat /\ p > 0 /\ q \in Nat /\ q > 0 /\ p * q = Mod
  BY Places
<1>2. Shl(x, n) = m % Mod
  BY DEF Shl
<1>3. x \in Int /\ Mod \in Nat /\ Mod > 0
  BY SignedFacts, Sizes, SMT
<1> HIDE DEF p, q
<1>4. t \in Int /\ u \in 0 .. q - 1 /\ x = q * t + u
  BY <1>1, <1>3, DivMod
<1> HIDE DEF t, u
<1>5. v \in 0 .. Mod - 1
  <2>1. p * 0 <= p * u /\ p * u <= p * (q - 1)
    BY <1>1, <1>4, TimesMonotone, SMT
  <2> QED
    BY <1>1, <1>3, <1>4, <2>1, SMT
<1>6. m = Mod * t + v
  BY <1>1, <1>3, <1>4, SMT
<1>7. m % Mod = v
  <2> HIDE DEF m, v
  <2> QED
    BY <1>3, <1>4, <1>5, <1>6, DivModUnique
<1>8. v \div p = u
  <2>1. v = p * u + 0 /\ 0 \in 0 .. p - 1 /\ u \in Int
    BY <1>1, <1>4, SMT
  <2> HIDE DEF v
  <2> QED
    BY <1>1, <2>1, DivModUnique
<1>9. Shr(v, n) = v \div p
  BY DEF Shr, p
<1> HIDE DEF v, m
<1> QED
  BY <1>2, <1>5, <1>7, <1>8, <1>9 DEF u, q, Val

LEMMA ZeroBits == \A k \in 0 .. 32 : Bit(0, k) = 0
<1> TAKE k \in 0 .. 32
<1> DEFINE p == 2 ^ k
<1>1. p \in Nat /\ p >= 1
  BY Powers, Zenon
<1>2. Bit(0, k) = (0 \div p) % 2
  BY DEF Bit
<1> HIDE DEF p
<1>3. 0 = p * 0 + 0 /\ 0 \in 0 .. p - 1 /\ p > 0
  BY <1>1, SMT
<1>4. 0 \div p = 0
  BY <1>1, <1>3, SMT
<1> QED
  BY <1>2, <1>4, SMT

LEMMA OrZero == ASSUME NEW x \in Val PROVE Or(x, 0) = x
<1>1. W \in Nat /\ W <= 32
  BY WAssumption
<1>2. \A k \in 0 .. W - 1 : k \in 0 .. 32
  BY <1>1, SMT
<1>3. \A k \in 0 .. W - 1 : Bit(x, k) = 0 \/ Bit(0, k) = 0
  BY <1>2, ZeroBits
<1>4. 0 \in Val /\ x \in Nat
  BY SignedFacts, Sizes, SMT DEF Val
<1>5. Or(x, 0) = x + 0
  BY <1>3, <1>4, OrDisjoint
<1> QED
  BY <1>4, <1>5

(* The bits of what is kept lie below those of the mask. *)
LEMMA BelowTheMask ==
    ASSUME NEW n \in 0 .. W - 1, NEW s \in 0 .. 2 ^ (W - n) - 1,
           NEW t \in Nat, NEW k \in 0 .. W - 1
    PROVE  Bit(s, k) = 0 \/ Bit(2 ^ (W - n) * t, k) = 0
<1> DEFINE j == W - n
           q == 2 ^ j
           pk == 2 ^ k
<1>1. j \in 0 .. 32 /\ q \in Nat /\ q > 0 /\ W \in Nat /\ W <= 32
  BY Places
<1>2. k \in 0 .. 32
  BY <1>1, SMT
<1>3. pk \in Nat /\ pk > 0
  <2>1. pk \in Nat /\ pk >= 1
    BY <1>2, Powers, Zenon
  <2> HIDE DEF pk
  <2> QED
    BY <2>1, SMT
<1>4. s \in Nat /\ s < q
  <2> HIDE DEF q
  <2>1. s \in 0 .. q - 1
    BY DEF q
  <2> QED
    BY <1>1, <2>1, SMT
<1>5. CASE k < j
  <2>1. PICK l \in Nat : q = pk * (2 * l)
    BY <1>1, <1>2, <1>5, PowerDivides
  <2> DEFINE m == q * t
             c == 2 * (l * t)
  <2>2. Bit(q * t, k) = (m \div pk) % 2
    BY DEF Bit
  <2> HIDE DEF q, pk
  <2>3. m = pk * c + 0 /\ c \in Int /\ 0 \in 0 .. pk - 1
    BY <1>1, <1>3, <2>1, SMT
  <2>4. m \div pk = c
    <3> HIDE DEF m, c
    <3> QED
      BY <1>3, <2>3, DivModUnique
  <2>5. c % 2 = 0
    <3> DEFINE lt == l * t
    <3>1. lt \in Int /\ c = 2 * lt
      BY SMT
    <3> HIDE DEF lt, c
    <3> QED
      BY <3>1, SMT
  <2> HIDE DEF m, c
  <2>6. Bit(q * t, k) = 0
    BY <2>2, <2>4, <2>5
  <2> QED
    BY <2>6 DEF q, j
<1>6. CASE ~(k < j)
  <2>1. q <= pk
    <3>1. CASE j = k
      <4>1. q = pk
        BY <3>1
      <4> HIDE DEF q, pk
      <4> QED
        BY <1>1, <4>1, SMT
    <3>2. CASE j < k
      <4>1. PICK l \in Nat : pk = q * (2 * l)
        BY <1>1, <1>2, <3>2, PowerDivides
      <4> HIDE DEF q, pk
      <4>2. l >= 1
        BY <1>1, <1>3, <4>1, SMT
      <4>3. q * 1 <= q * (2 * l)
        BY <1>1, <4>2, TimesMonotone, SMT
      <4> QED
        BY <1>1, <4>1, <4>3, SMT
    <3> QED
      BY <1>1, <1>2, <1>6, <3>1, <3>2, SMT
  <2>2. Bit(s, k) = (s \div pk) % 2
    BY DEF Bit
  <2> HIDE DEF q, pk
  <2>3. s = pk * 0 + s /\ s \in 0 .. pk - 1
    BY <1>1, <1>3, <1>4, <2>1, SMT
  <2>4. s \div pk = 0
    BY <1>3, <2>3, SMT
  <2> QED
    BY <2>2, <2>4, SMT
<1> QED
  BY <1>5, <1>6

(* A signed number divided by what is shifted out is still a signed word. *)
LEMMA SignedQuotient ==
    ASSUME NEW x \in Val, NEW n \in 0 .. W - 1
    PROVE  Signed(x) \div 2 ^ n \in -IntMin .. IntMin - 1
<1> DEFINE p == 2 ^ n
           sx == Signed(x)
<1>1. p \in Nat /\ p > 0
  BY Places
<1>2. sx \in -IntMin .. IntMin - 1 /\ IntMin \in Nat
  BY SignedFacts, Sizes
<1> HIDE DEF p, sx
<1>3. p * (-IntMin) <= sx /\ sx < p * IntMin /\ -IntMin \in Int /\ IntMin \in Int /\ sx \in Int
  <2>1. p * IntMin >= IntMin
    BY <1>1, <1>2, SMT
  <2>2. p * (-IntMin) = -(p * IntMin)
    BY <1>1, <1>2, SMT
  <2> QED
    BY <1>1, <1>2, <2>1, <2>2, SMT
<1>4. sx \div p \in -IntMin .. IntMin - 1
  BY <1>1, <1>3, QuotientBounds
<1> QED
  BY <1>4 DEF sx, p

(* The logical shift and the mask are the division that rounds down. *)
LEMMA SarIs ==
    ASSUME NEW x \in Val, NEW n \in 0 .. W - 1
    PROVE  Sar(x, n) \in Val /\ Signed(Sar(x, n)) = Signed(x) \div 2 ^ n
<1> DEFINE p == 2 ^ n
           q == 2 ^ (W - n)
           s == Shr(x, n)
           sx == Signed(x)
           d == sx \div p
           mask == IF Signed(x) < 0 /\ n > 0 THEN AllOnes - Shr(AllOnes, n) ELSE 0
<1>1. p \in Nat /\ p > 0 /\ q \in Nat /\ q > 0 /\ p * q = Mod
  BY Places
<1>2. x \in Nat /\ x < Mod /\ sx \in -IntMin .. IntMin - 1 /\ Mod \div 2 = IntMin
  BY SignedFacts
<1>3. IntMin \in Nat /\ IntMin >= 8 /\ Mod = 2 * IntMin /\ Mod \in Nat
  BY Sizes
<1>4. s \in 0 .. q - 1 /\ s \in Val
  BY ShrIs
<1>5. PICK r \in 0 .. p - 1 : x = p * s + r
  BY ShrIs
<1>6. Sar(x, n) = Or(s, mask)
  BY DEF Sar
<1>7. d \in -IntMin .. IntMin - 1
  BY SignedQuotient
<1>8. sx = IF x < IntMin THEN x ELSE x - Mod
  BY <1>2 DEF Signed
<1>n. n \in Nat
  BY Places, SMT
<1>9. CASE sx >= 0 \/ n = 0
  <2>1. mask = 0
    <3>1. ~(sx < 0 /\ n > 0)
      <4> HIDE DEF sx
      <4> QED
        BY <1>2, <1>3, <1>9, <1>n, SMT
    <3> QED
      BY <3>1
  <2>2. Or(s, mask) = s
    BY <1>4, <2>1, OrZero
  <2>3. CASE sx >= 0
    <3>1. sx = x
      <4> HIDE DEF sx
      <4> QED
        BY <1>2, <1>3, <1>8, <2>3, SMT
    <3>2. d = s
      BY <3>1 DEF Shr
    <3>3. Signed(s) = s
      <4> HIDE DEF s, d
      <4> QED
        BY <1>2, <1>3, <1>4, <1>7, <3>2, SMT DEF Signed
    <3> QED
      BY <1>4, <1>6, <2>2, <3>2, <3>3
  <2>4. CASE n = 0
    <3>1. p = 1
      BY <2>4, Powers
    <3>2. s = x
      <4> HIDE DEF p, s
      <4> QED
        BY <1>1, <1>2, <1>4, <1>5, <3>1, SMT
    <3>3. d = sx
      <4> HIDE DEF p, sx
      <4> QED
        BY <1>2, <1>3, <3>1, SMT
    <3> QED
      BY <1>4, <1>6, <2>2, <3>2, <3>3
  <2> QED
    BY <1>9, <2>3, <2>4
<1>10. CASE sx < 0 /\ n > 0
  <2>1. sx = x - Mod
    <3> HIDE DEF sx
    <3> QED
      BY <1>2, <1>3, <1>8, <1>10, SMT
  <2>2. Shr(AllOnes, n) = q - 1
    <3> DEFINE m == Mod - 1
               u == q - 1
               v == p - 1
    <3>1. Shr(AllOnes, n) = m \div p
      BY DEF Shr, AllOnes
    <3> HIDE DEF p, q
    <3>2. m = p * u + v /\ u \in Int /\ v \in 0 .. p - 1
      BY <1>1, <1>3, SMT
    <3> HIDE DEF m, u, v
    <3>3. m \div p = u
      BY <1>1, <3>2, DivModUnique
    <3> QED
      BY <3>1, <3>3 DEF u
  <2> DEFINE t == p - 1
  <2>3. mask = q * t /\ mask = Mod - q
    <3>1. mask = (Mod - 1) - (q - 1)
      BY <1>10, <2>2 DEF AllOnes
    <3> HIDE DEF mask, p, q
    <3> QED
      BY <1>1, <1>3, <3>1, SMT
  <2>4. t \in Nat
    <3> HIDE DEF p
    <3> QED
      BY <1>1, SMT
  <2>5. mask \in Val
    <3> HIDE DEF mask, p, q, t
    <3>1. q * t >= 0
      BY <1>1, <2>4, SMT
    <3> QED
      BY <1>1, <1>3, <2>3, <3>1, SMT DEF Val
  <2>6. \A k \in 0 .. W - 1 : Bit(s, k) = 0 \/ Bit(mask, k) = 0
    <3> HIDE DEF t, mask, s
    <3>1. \A k \in 0 .. W - 1 : Bit(s, k) = 0 \/ Bit(q * t, k) = 0
      BY <1>4, <2>4, BelowTheMask
    <3> QED
      BY <2>3, <3>1
  <2>7. Or(s, mask) = s + mask
    <3> HIDE DEF t, mask, s
    <3> QED
      BY <1>4, <2>5, <2>6, OrDisjoint
  <2>8. d = s - q
    <3> DEFINE e == s - q
    <3>1. sx = p * e + r /\ e \in Int
      <4> HIDE DEF p, q, s, sx
      <4> QED
        BY <1>1, <1>2, <1>3, <1>4, <1>5, <2>1, SMT
    <3> HIDE DEF p, e, sx
    <3>2. sx \div p = e
      BY <1>1, <3>1, DivModUnique
    <3> QED
      BY <3>2 DEF e
  <2> HIDE DEF mask, s, q, d, sx, p, t
  <2>9. s + mask = d + Mod /\ d < 0 /\ d >= -IntMin /\ s + mask \in Int
    BY <1>1, <1>3, <1>4, <1>7, <2>3, <2>8, SMT
  <2> DEFINE z == s + mask
  <2>10. z \in Val /\ Signed(z) = d
    <3>1. z = d + Mod /\ z \in Int
      BY <2>9
    <3> HIDE DEF z
    <3> QED
      BY <1>2, <1>3, <1>7, <2>9, <3>1, SMT DEF Signed, Val
  <2> QED
    BY <1>6, <2>7, <2>10 DEF d, sx, p
<1> QED
  <2> HIDE DEF sx
  <2>1. sx >= 0 \/ n = 0 \/ (sx < 0 /\ n > 0)
    BY <1>2, <1>3, <1>n, SMT
  <2> QED
    BY <1>9, <1>10, <2>1

LEMMA ShiftCount == ASSUME NEW y \in Val PROVE y % W \in 0 .. W - 1
<1>1. W \in Nat /\ W > 0 /\ y \in Int
  BY WAssumption, SignedFacts
<1> QED
  BY <1>1, DivMod

LEMMA Shifts ==
    ASSUME NEW x \in Val, NEW y \in Val
    PROVE  /\ Signed(Alu("SRA", x, y)) = Signed(x) \div 2 ^ (y % W)
           /\ Alu("SRL", Alu("SLL", x, y), y) = x % 2 ^ (W - (y % W))
           /\ Alu("SLL", x, y) \in Val /\ Alu("SRL", x, y) \in Val /\ Alu("SRA", x, y) \in Val
<1> DEFINE n == y % W
<1>1. n \in 0 .. W - 1
  BY ShiftCount
<1>2. /\ Alu("SRA", x, y) = Sar(x, n)
      /\ Alu("SLL", x, y) = Shl(x, n)
      /\ Alu("SRL", x, y) = Shr(x, n)
      /\ \A z : Alu("SRL", z, y) = Shr(z, n)
  BY DEF Alu
<1> HIDE DEF n
<1>3. Sar(x, n) \in Val /\ Signed(Sar(x, n)) = Signed(x) \div 2 ^ n
  BY <1>1, SarIs
<1>4. Shl(x, n) \in Val /\ Shr(Shl(x, n), n) = x % 2 ^ (W - n)
  BY <1>1, ShlShr
<1>5. Shr(x, n) \in Val
  BY <1>1, ShrIs
<1> QED
  BY <1>2, <1>3, <1>4, <1>5 DEF n

LEMMA Difference ==
    ASSUME NEW x \in Val, NEW y \in Val
    PROVE  Alu("SUB", x, y) \in Val /\ (x = y <=> Alu("SUB", x, y) = 0)
<1> DEFINE d == x - y
           q == d \div Mod
           s == d % Mod
<1>1. x \in Nat /\ x < Mod /\ y \in Nat /\ y < Mod /\ Mod \in Nat /\ Mod > 0
  BY SignedFacts, Sizes, SMT
<1>2. Alu("SUB", x, y) = s
  BY DEF Alu
<1>3. d \in Int
  BY <1>1, SMT
<1> HIDE DEF d
<1>4. q \in Int /\ s \in 0 .. Mod - 1 /\ d = Mod * q + s
  BY <1>1, <1>3, DivMod
<1> HIDE DEF q, s
<1>5. d = x - y
  BY DEF d
<1>6. ASSUME s = 0 PROVE x = y
  <2>1. d = Mod * q
    BY <1>1, <1>4, <1>6, SMT
  <2>2. ~(q >= 1)
    <3>1. q >= 1 => Mod * q >= Mod
      BY <1>1, <1>4, SMT
    <3> QED
      BY <1>1, <1>4, <1>5, <2>1, <3>1, SMT
  <2>3. ~(q <= -1)
    <3>1. q <= -1 => Mod * q <= -Mod
      BY <1>1, <1>4, SMT
    <3> QED
      BY <1>1, <1>4, <1>5, <2>1, <3>1, SMT
  <2>4. q = 0
    BY <1>4, <2>2, <2>3, SMT
  <2> QED
    BY <1>1, <1>5, <2>1, <2>4, SMT
<1>7. ASSUME x = y PROVE s = 0
  <2>1. d = 0 /\ 0 \in 0 .. Mod - 1
    BY <1>1, <1>5, <1>7, SMT
  <2> QED
    BY <2>1, SmallMod DEF s
<1> QED
  BY <1>2, <1>4, <1>6, <1>7 DEF Val

LEMMA Order ==
    ASSUME NEW x \in Val, NEW y \in Val
    PROVE  /\ (Alu("SLT", x, y) = 1) = (Signed(x) < Signed(y))
           /\ Taken("BLT", x, y) = (Signed(x) < Signed(y))
           /\ Taken("BGE", x, y) = ~(Signed(x) < Signed(y))
           /\ (Alu("SLTU", x, y) = 1) = (x < y)
           /\ Taken("BLTU", x, y) = (x < y)
           /\ Taken("BGEU", x, y) = ~(x < y)
           /\ Taken("BEQ", x, y) = (x = y)
           /\ Taken("BNE", x, y) = ~(x = y)
           /\ Alu("SLT", x, y) \in Val /\ Alu("SLTU", x, y) \in Val
<1>1. x \in Int /\ y \in Int /\ Signed(x) \in Int /\ Signed(y) \in Int
  BY SignedFacts, Sizes, SMT
<1>2. /\ Alu("SLT", x, y) = Bool(Signed(x) < Signed(y))
      /\ Alu("SLTU", x, y) = Bool(x < y)
  BY DEF Alu
<1>3. 0 \in Val /\ 1 \in Val
  BY Sizes, SMT DEF Val
<1>4. Bool(TRUE) = 1 /\ Bool(FALSE) = 0
  BY DEF Bool
<1>5. /\ (Alu("SLT", x, y) = 1) = (Signed(x) < Signed(y))
      /\ (Alu("SLTU", x, y) = 1) = (x < y)
      /\ Alu("SLT", x, y) \in Val /\ Alu("SLTU", x, y) \in Val
  BY <1>1, <1>2, <1>3, SMT DEF Bool
<1>6. /\ Taken("BLT", x, y) = (Signed(x) < Signed(y))
      /\ Taken("BGE", x, y) = (Signed(x) >= Signed(y))
      /\ Taken("BLTU", x, y) = (x < y)
      /\ Taken("BGEU", x, y) = (x >= y)
      /\ Taken("BEQ", x, y) = (x = y)
      /\ Taken("BNE", x, y) = (x # y)
  BY DEF Taken
<1>7. (Signed(x) >= Signed(y)) = ~(Signed(x) < Signed(y)) /\ (x >= y) = ~(x < y)
  BY <1>1, SMT
<1> QED
  BY <1>5, <1>6, <1>7

-----------------------------------------------------------------------------
(* The operands are words, whatever the decoder does. *)
AInv == a \in Val /\ b \in Val

LEMMA InitAInv == IsaInit => AInv
BY Sizes, SMT DEF IsaInit, AInv, Val

LEMMA NextAInv == AInv /\ [IsaNext]_<<a, b, vars>> => AInv'
<1> SUFFICES ASSUME AInv, [IsaNext]_<<a, b, vars>> PROVE AInv'
  OBVIOUS
<1>1. CASE Operands
  <2>1. b + 1 \in Int
    BY SignedFacts DEF AInv
  <2>2. (b + 1) % Mod \in Val
    BY <2>1, ModBack
  <2>3. Val' = Val
    BY DEF Val, Mod
  <2> QED
    BY <1>1, <2>2, <2>3 DEF AInv, Operands
<1>2. CASE UNCHANGED <<a, b>>
  BY <1>2 DEF AInv, Val, Mod
<1> QED
  BY <1>1, <1>2 DEF IsaNext, Decoding

(* For words of 4, 8, 16 and 32 bits: DIV and REM, DIVU and REMU recompose  *)
(* the dividend, by zero and where the signed quotient overflows too, and   *)
(* the remainder is the smaller one with the dividend's sign.               *)
THEOREM DivisionIsExact == IsaSpec => []Division
<1>1. AInv => Division
  <2> SUFFICES ASSUME AInv PROVE Division
    OBVIOUS
  <2>1. a \in Val /\ b \in Val
    BY DEF AInv
  <2> QED
    BY <2>1, SignedDivision, UnsignedDivision DEF Division
<1> QED
  BY <1>1, InitAInv, NextAInv, PTL DEF IsaSpec

(* For words of 4, 8, 16 and 32 bits: MUL and each of MULH, MULHSU and      *)
(* MULHU are the two words of the exact product, read as its operands are.  *)
THEOREM ProductIsExact == IsaSpec => []Product
<1>1. AInv => Product
  <2> SUFFICES ASSUME AInv PROVE Product
    OBVIOUS
  <2>1. a \in Val /\ b \in Val
    BY DEF AInv
  <2> QED
    BY <2>1, Products DEF Product
<1> QED
  BY <1>1, InitAInv, NextAInv, PTL DEF IsaSpec

(* For words of 4, 8, 16 and 32 bits: SRA, a logical shift and a mask in    *)
(* the code, is the division that rounds down; SLL loses the places shifted *)
(* out and no others; SUB, SLT, SLTU and the six branches tell one order.   *)
THEOREM ShiftsAndOrderAgree == IsaSpec => []ShiftAndOrder
<1>1. AInv => ShiftAndOrder
  <2> SUFFICES ASSUME AInv PROVE ShiftAndOrder
    OBVIOUS
  <2>1. a \in Val /\ b \in Val
    BY DEF AInv
  <2>2. Signed(a) \in Int /\ Signed(b) \in Int
    BY <2>1, SignedFacts, Sizes, SMT
  <2>3. (Signed(a) < Signed(b)) = (Signed(a) - Signed(b) < 0)
    BY <2>2, SMT
  <2> DEFINE sub == Alu("SUB", a, b)
             below == Signed(a) < Signed(b)
             belowU == a < b
             same == a = b
  <2>4. /\ (Alu("SLT", a, b) = 1) = below /\ Taken("BLT", a, b) = below
        /\ Taken("BGE", a, b) = ~below
        /\ (Alu("SLTU", a, b) = 1) = belowU /\ Taken("BLTU", a, b) = belowU
        /\ Taken("BGEU", a, b) = ~belowU
        /\ Taken("BEQ", a, b) = same /\ Taken("BNE", a, b) = ~same
    BY <2>1, Order
  <2>5. same = (sub = 0)
    BY <2>1, Difference
  <2>6. below \in BOOLEAN /\ belowU \in BOOLEAN /\ same \in BOOLEAN
    OBVIOUS
  <2>7. (Signed(sub) = Signed(a) - Signed(b)) => (below = (Signed(sub) < 0))
    <3> HIDE DEF below
    <3>1. below = (Signed(a) - Signed(b) < 0)
      BY <2>3 DEF below
    <3> QED
      BY <3>1, Zenon
  <2> HIDE DEF below, belowU, same
  <2>8. /\ (Alu("SLT", a, b) = 1) = Taken("BLT", a, b)
        /\ (Alu("SLT", a, b) = 1) = ~Taken("BGE", a, b)
        /\ (Alu("SLTU", a, b) = 1) = Taken("BLTU", a, b)
        /\ Taken("BGEU", a, b) = ~Taken("BLTU", a, b)
        /\ Taken("BEQ", a, b) = (sub = 0)
        /\ Taken("BEQ", a, b) = ~Taken("BNE", a, b)
    BY <2>4, <2>5, <2>6, Zenon
  <2>9. (Signed(sub) = Signed(a) - Signed(b)) =>
          ((Alu("SLT", a, b) = 1) = (Signed(sub) < 0))
    BY <2>4, <2>7, Zenon
  <2>10. /\ Signed(Alu("SRA", a, b)) = Signed(a) \div 2 ^ (b % W)
         /\ Alu("SRL", Alu("SLL", a, b), b) = a % 2 ^ (W - (b % W))
    BY <2>1, Shifts
  <2> QED
    BY <2>8, <2>9, <2>10, Zenon DEF ShiftAndOrder
<1> QED
  BY <1>1, InitAInv, NextAInv, PTL DEF IsaSpec

(* What the translator relies on (ComputeAssumption of JIT), of the         *)
(* interpreter's arithmetic on words of 4 to 32 bits: operations on words   *)
(* give words, ADD wraps around, a shift by nothing is the identity, MULH   *)
(* and MULHU agree on operands that are not negative, and every branch is   *)
(* either taken or not.                                                     *)
THEOREM ArithmeticIsClosed ==
    /\ \A fn \in {"ADD", "SUB", "XOR", "OR", "AND", "SLL", "SRL", "SRA", "SLT", "SLTU", "MUL",
                  "MULH", "MULHSU", "MULHU", "DIV", "DIVU", "REM", "REMU"} :
          \A x, y \in Val : Alu(fn, x, y) \in Val
    /\ \A x, y \in Val : Alu("ADD", x, y) = (x + y) % Mod
    /\ \A fn \in {"SLL", "SRL", "SRA"} : \A x \in Val : Alu(fn, x, 0) = x
    /\ \A x, y \in Val : Signed(x) >= 0 /\ Signed(y) >= 0 =>
                            Alu("MULH", x, y) = Alu("MULHU", x, y)
    /\ \A fn \in {"BEQ", "BNE", "BLT", "BGE", "BLTU", "BGEU"} :
          \A x, y \in Val : Taken(fn, x, y) \in BOOLEAN
<1>1. ASSUME NEW x \in Val, NEW y \in Val
      PROVE  /\ Alu("ADD", x, y) \in Val /\ Alu("ADD", x, y) = (x + y) % Mod
             /\ Alu("XOR", x, y) \in Val /\ Alu("OR", x, y) \in Val /\ Alu("AND", x, y) \in Val
  <2>1. x \in Nat /\ y \in Nat
    BY SignedFacts
  <2>2. x + y \in Int
    BY <2>1, SMT
  <2>3. (x + y) % Mod \in Val
    BY <2>2, ModBack
  <2>4. And(x, y) \in Val /\ Or(x, y) \in Val /\ Xor(x, y) \in Val
    BY <2>1, BitwiseInVal
  <2>5. /\ Alu("ADD", x, y) = (x + y) % Mod /\ Alu("XOR", x, y) = Xor(x, y)
        /\ Alu("OR", x, y) = Or(x, y) /\ Alu("AND", x, y) = And(x, y)
    BY DEF Alu
  <2> QED
    BY <2>3, <2>4, <2>5
<1>2. ASSUME NEW fn \in {"ADD", "SUB", "XOR", "OR", "AND", "SLL", "SRL", "SRA", "SLT", "SLTU", "MUL",
                         "MULH", "MULHSU", "MULHU", "DIV", "DIVU", "REM", "REMU"},
             NEW x \in Val, NEW y \in Val
      PROVE  Alu(fn, x, y) \in Val
  BY <1>1, Difference, Shifts, Order, Products, SignedDivision, UnsignedDivision, Zenon
<1>3. ASSUME NEW x \in Val
      PROVE  Alu("SLL", x, 0) = x /\ Alu("SRL", x, 0) = x /\ Alu("SRA", x, 0) = x
  <2>1. 0 % W = 0 /\ 2 ^ 0 = 1 /\ W \in Nat /\ 0 \in 0 .. W - 1
    BY WAssumption, SMT
  <2>2. x \in Nat /\ x \div 1 = x /\ x * 1 = x
    BY SignedFacts, SMT
  <2>3. Shl(x, 0) = x
    BY <2>1, <2>2, WordMod DEF Shl
  <2>4. Shr(x, 0) = x
    BY <2>1, <2>2 DEF Shr
  <2>5. Sar(x, 0) = x
    BY <2>4, OrZero DEF Sar
  <2>6. /\ Alu("SLL", x, 0) = Shl(x, 0 % W) /\ Alu("SRL", x, 0) = Shr(x, 0 % W)
        /\ Alu("SRA", x, 0) = Sar(x, 0 % W)
    BY DEF Alu
  <2> QED
    BY <2>1, <2>3, <2>4, <2>5, <2>6
<1>4. ASSUME NEW x \in Val, NEW y \in Val, Signed(x) >= 0, Signed(y) >= 0
      PROVE  Alu("MULH", x, y) = Alu("MULHU", x, y)
  <2>1. x \in Nat /\ x < Mod /\ Mod \div 2 = IntMin
    BY SignedFacts
  <2>2. y \in Nat /\ y < Mod
    BY SignedFacts
  <2>3. Signed(x) = x /\ Signed(y) = y
    BY <1>4, <2>1, <2>2, Sizes, SMT DEF Signed
  <2> QED
    BY <2>3 DEF Alu
<1>5. ASSUME NEW x \in Val, NEW y \in Val,
             NEW fn \in {"BEQ", "BNE", "BLT", "BGE", "BLTU", "BGEU"}
      PROVE  Taken(fn, x, y) \in BOOLEAN
  <2> DEFINE below == Signed(x) < Signed(y)
             belowU == x < y
             same == x = y
  <2>1. below \in BOOLEAN /\ belowU \in BOOLEAN /\ same \in BOOLEAN
    OBVIOUS
  <2>2. /\ Taken("BLT", x, y) = below /\ Taken("BGE", x, y) = ~below
        /\ Taken("BLTU", x, y) = belowU /\ Taken("BGEU", x, y) = ~belowU
        /\ Taken("BEQ", x, y) = same /\ Taken("BNE", x, y) = ~same
    BY Order
  <2> HIDE DEF below, belowU, same
  <2>3. (~below) \in BOOLEAN /\ (~belowU) \in BOOLEAN /\ (~same) \in BOOLEAN
    OBVIOUS
  <2> QED
    BY <2>1, <2>2, <2>3, Zenon
<1> QED
  BY <1>1, <1>2, <1>3, <1>4, <1>5

(* The runs' specification is the decoder's, with the operands beside it:   *)
(* what is proved of the decoder holds there.                               *)
THEOREM DecoderRuns == IsaSpec => Spec
<1>1. IsaInit => Init
  BY DEF IsaInit
<1>2. [IsaNext]_<<a, b, vars>> => [Next]_vars
  BY DEF IsaNext, Operands, Decoding
<1> QED
  BY <1>1, <1>2, PTL DEF IsaSpec, Spec
=============================================================================
