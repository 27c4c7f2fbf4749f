---------------------------- MODULE Instructions ----------------------------
(***************************************************************************)
(* What the instructions mean: how the decoder reads them and what the     *)
(* interpreter's arithmetic computes.  The two share no state: operands    *)
(* are enumerated before the decoder is built.                             *)
(***************************************************************************)
EXTENDS Decoder, Alu

VARIABLES a, b      \* the operands the arithmetic is tried on

IsaInit == Init /\ a \in Val /\ b = 0

Operands == next = 1 /\ b' = (b + 1) % Mod /\ UNCHANGED <<a, vars>>

Decoding == a = 0 /\ b = 0 /\ Next /\ UNCHANGED <<a, b>>

IsaNext == Operands \/ Decoding

IsaSpec == IsaInit /\ [][IsaNext]_<<a, b, vars>>

-----------------------------------------------------------------------------
(* DIV with REM and DIVU with REMU are the quotient and the remainder the   *)
(* architecture defines: they recompose the dividend in every case, a zero  *)
(* divisor and the overflow of the signed quotient included; the remainder  *)
(* is smaller than the divisor and has the sign of the dividend; dividing   *)
(* by zero gives all ones.                                                  *)
Division ==
    /\ (Alu("DIV", a, b) * b + Alu("REM", a, b)) % Mod = a
    /\ (Alu("DIVU", a, b) * b + Alu("REMU", a, b)) % Mod = a
    /\ b # 0 => /\ Alu("REMU", a, b) < b
                /\ Abs(Signed(Alu("REM", a, b))) < Abs(Signed(b))
                /\ Signed(Alu("REM", a, b)) * Signed(a) >= 0
    /\ b = 0 => Alu("DIV", a, b) = AllOnes /\ Alu("DIVU", a, b) = AllOnes

(* MUL is the low word of the product, and MULH, MULHSU and MULHU its high  *)
(* word for the three ways of reading the operands: together they are the   *)
(* exact product, whatever the signs.                                       *)
Product ==
    LET low == Alu("MUL", a, b)
    IN  /\ Signed(Alu("MULH", a, b)) * Mod + low = Signed(a) * Signed(b)
        /\ Signed(Alu("MULHSU", a, b)) * Mod + low = Signed(a) * b
        /\ Alu("MULHU", a, b) * Mod + low = a * b

(* The shifts multiply and divide by a power of two, SRA rounding down on   *)
(* signed words although it is built from a logical shift and a mask, and   *)
(* SUB, SLT and the branch conditions agree with each other on the order of *)
(* two words, where the difference overflows too.                           *)
ShiftAndOrder ==
    LET n == b % W
        less == Alu("SLT", a, b) = 1
        diff == Signed(a) - Signed(b)
    IN  /\ Signed(Alu("SRA", a, b)) = Signed(a) \div 2 ^ n
        /\ Alu("SRL", Alu("SLL", a, b), b) = a % 2 ^ (W - n)
        /\ less = Taken("BLT", a, b) /\ less = ~Taken("BGE", a, b)
        /\ (Alu("SLTU", a, b) = 1) = Taken("BLTU", a, b)
        /\ Taken("BGEU", a, b) = ~Taken("BLTU", a, b)
        /\ Taken("BEQ", a, b) = (Alu("SUB", a, b) = 0)
        /\ Taken("BEQ", a, b) = ~Taken("BNE", a, b)
        /\ (Signed(Alu("SUB", a, b)) = diff) => (less = (Signed(Alu("SUB", a, b)) < 0))
=============================================================================
