------------------------------- MODULE MC_Isa -------------------------------
(* The decoder on words with every opcode and funct3, and with values of    *)
(* the other fields that spell every special immediate, set every bit of a  *)
(* scattered immediate, and miss the special values by one; and the         *)
(* interpreter's arithmetic on every pair of operands.                      *)
EXTENDS Instructions

WordOf(sz, opcode, rd, funct3, rs1, rs2, funct7) ==
    [sz |-> sz, opcode |-> opcode, rd |-> rd, funct3 |-> funct3, rs1 |-> rs1,
     rs2 |-> rs2, funct7 |-> funct7]

AnyWords ==
    {WordOf(3, opcode, rd, funct3, rs1, rs2, funct7) :
        opcode \in 0 .. 31, funct3 \in 0 .. 7, rd \in {0, 1, 16, 30}, rs1 \in {0, 9},
        rs2 \in {0, 1, 2, 5, 31}, funct7 \in {0, 1, 7, 8, 24, 32, 33, 64, 127}}
    \union {WordOf(sz, 12, 1, 0, 1, 1, 0) : sz \in 0 .. 2}
=============================================================================
