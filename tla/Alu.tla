-------------------------------- MODULE Alu --------------------------------
(***************************************************************************)
(* The arithmetic of the interpreter, sim/exec_inst.cpp: what each handler *)
(* computes from its two operands (registers, or a register and the        *)
(* decoded immediate), on words of W bits (32 in the code).                *)
(***************************************************************************)
EXTENDS Integers

CONSTANT W

ASSUME WAssumption == W \in {4, 8, 16, 32}

Mod == 2 ^ W
Val == 0 .. Mod - 1

(* URS1 and RS1: the same bits, unsigned and signed. *)
Signed(a) == IF a < Mod \div 2 THEN a ELSE a - Mod

AllOnes == Mod - 1
IntMin == Mod \div 2

Bool(b) == IF b THEN 1 ELSE 0

(* C's bitwise operators, bit by bit: the table says what none, one and two *)
(* ones give.                                                               *)
Bit(x, k) == (x \div 2 ^ k) % 2

BitByBit(table, x, y) ==
    LET low[n \in 0 .. W] ==
            IF n = 0 THEN 0
            ELSE low[n - 1] + 2 ^ (n - 1) * table[1 + Bit(x, n - 1) + Bit(y, n - 1)]
    IN  low[W]

And(x, y) == BitByBit(<<0, 0, 1>>, x, y)
Or(x, y)  == BitByBit(<<0, 1, 1>>, x, y)
Xor(x, y) == BitByBit(<<0, 1, 0>>, x, y)

(* a << n and a >> n, for n smaller than the width. *)
Shl(a, n) == (a * 2 ^ n) % Mod
Shr(a, n) == a \div 2 ^ n

(* Mutant: the sign bit is filled in for one place only. *)
SarOnePlace(a, n) == Or(Shr(a, n), IF Signed(a) < 0 THEN IntMin ELSE 0)

(* ExecSRA and ExecSRAI: a logical shift, and a mask for the sign. *)
Sar(a, n) ==
    LET mask == IF Signed(a) < 0 /\ n > 0 THEN AllOnes - Shr(AllOnes, n) ELSE 0
    IN  Or(Shr(a, n), mask)

(* C's division, which rounds towards zero, for b other than 0. *)
Abs(n) == IF n < 0 THEN -n ELSE n
Quot(a, b) == IF (a < 0) = (b < 0) THEN Abs(a) \div Abs(b) ELSE -(Abs(a) \div Abs(b))
Rem(a, b) == a - b * Quot(a, b)

(* result >> 32, of a product in 64 bits. *)
High(n) == (n % (Mod * Mod)) \div Mod

(* Mutant: MULHSU sign-extends both operands. *)
MulHighSigned(a, b) == High(Signed(a) * Signed(b))

(* ExecMULHSU: the signed operand is converted to uint64_t. *)
MULHSU(a, b) == High((Signed(a) % (Mod * Mod)) * b)

DIV(a, b) ==
    CASE b = 0 -> AllOnes
      [] b = AllOnes /\ a = IntMin -> IntMin
      [] OTHER -> Quot(Signed(a), Signed(b)) % Mod

(* Mutant: the remainder takes the sign of the divisor, as % does here. *)
FloorRem(a, b) ==
    CASE b = 0 -> a
      [] Signed(b) < 0 -> (-((-Signed(a)) % (-Signed(b)))) % Mod
      [] OTHER -> (Signed(a) % Signed(b)) % Mod

REM(a, b) ==
    CASE b = 0 -> a
      [] b = AllOnes /\ a = IntMin -> 0
      [] OTHER -> Rem(Signed(a), Signed(b)) % Mod

(* The handlers' results, by the mnemonic of the register form.  A shift    *)
(* looks at the low bits of its count; the immediate of SRAI keeps the bit  *)
(* that tells it from SRLI, which the host's shift instruction ignores.     *)
Alu(fn, a, b) ==
    CASE fn = "ADD"    -> (a + b) % Mod
      [] fn = "SUB"    -> (a - b) % Mod
      [] fn = "XOR"    -> Xor(a, b)
      [] fn = "OR"     -> Or(a, b)
      [] fn = "AND"    -> And(a, b)
      [] fn = "SLL"    -> Shl(a, b % W)
      [] fn = "SRL"    -> Shr(a, b % W)
      [] fn = "SRA"    -> Sar(a, b % W)
      [] fn = "SLT"    -> Bool(Signed(a) < Signed(b))
      [] fn = "SLTU"   -> Bool(a < b)
      [] fn = "MUL"    -> (a * b) % Mod
      [] fn = "MULH"   -> High(Signed(a) * Signed(b))
      [] fn = "MULHSU" -> MULHSU(a, b)
      [] fn = "MULHU"  -> High(a * b)
      [] fn = "DIV"    -> DIV(a, b)
      [] fn = "DIVU"   -> IF b # 0 THEN a \div b ELSE AllOnes
      [] fn = "REM"    -> REM(a, b)
      [] fn = "REMU"   -> IF b # 0 THEN a % b ELSE a

(* ExecBEQ ... ExecBGEU: whether the branch is taken. *)
Taken(fn, a, b) ==
    CASE fn = "BEQ"  -> a = b
      [] fn = "BNE"  -> a # b
      [] fn = "BLT"  -> Signed(a) < Signed(b)
      [] fn = "BGE"  -> Signed(a) >= Signed(b)
      [] fn = "BLTU" -> a < b
      [] fn = "BGEU" -> a >= b
=============================================================================
