---------------------------- MODULE JIT_simulates ---------------------------
(***************************************************************************)
(* Host code does what the interpreter does, for every program, register   *)
(* count and word size: the templates of translate_inst.cpp are run one by *)
(* one on a host state that stands for the guest's.                        *)
(***************************************************************************)
EXTENDS JIT_proofs, FiniteSetTheorems

-----------------------------------------------------------------------------
(* The states of a run, one for each prefix of the code. *)
IsRun(f, host, code) ==
    f = [k \in 0 .. Len(code) |-> IF k = 0 THEN host ELSE Emit(f[k - 1], code[k])]

LEMMA RunExists ==
    ASSUME NEW host, NEW code, NEW n \in Nat, Len(code) = n
    PROVE  \E f : IsRun(f, host, code)
<1> DEFINE Upto(f, k) == f = [i \in 0 .. k |-> IF i = 0 THEN host ELSE Emit(f[i - 1], code[i])]
           T == {k \in 0 .. n : ~\E f : Upto(f, k)}
<1>1. T = {}
  <2> SUFFICES ASSUME T # {} PROVE FALSE
    OBVIOUS
  <2>1. T \subseteq Nat
    OBVIOUS
  <2>2. \E k \in T : \A j \in T : k <= j
    <3> HIDE DEF T
    <3> QED
      BY <2>1, LeastOf
  <2>3. PICK k \in T : \A j \in T : k <= j
    BY <2>2
  <2>4. k \in 0 .. n /\ ~\E f : Upto(f, k)
    OBVIOUS
  <2>5. k # 0
    <3>1. Upto([i \in 0 .. 0 |-> host], 0)
      OBVIOUS
    <3> HIDE DEF Upto
    <3> QED
      BY <2>4, <3>1
  <2>6. k - 1 \in 0 .. n /\ k - 1 \notin T
    BY <2>3, <2>4, <2>5
  <2>7. PICK f : Upto(f, k - 1)
    BY <2>6
  <2> DEFINE g == [i \in 0 .. k |-> IF i = k THEN Emit(f[k - 1], code[k]) ELSE f[i]]
             h == [i \in 0 .. k |-> IF i = 0 THEN host ELSE Emit(g[i - 1], code[i])]
  <2>8. ASSUME NEW i \in 0 .. k
        PROVE  g[i] = h[i]
    <3>1. CASE i = 0
      BY <2>4, <2>5, <2>7, <3>1
    <3>2. CASE i # 0 /\ i # k
      <4>1. i \in 0 .. k - 1 /\ i - 1 \in 0 .. k /\ i - 1 # k
        BY <2>4, <3>2
      <4>2. f[i] = Emit(f[i - 1], code[i])
        BY <2>7, <3>2, <4>1
      <4> QED
        BY <3>2, <4>1, <4>2
    <3>3. CASE i = k
      <4>1. k - 1 \in 0 .. k /\ k - 1 # k
        BY <2>4, <2>5
      <4> QED
        BY <2>5, <3>3, <4>1
    <3> QED
      BY <3>1, <3>2, <3>3
  <2>9. g = h
    BY <2>8
  <2>10. Upto(g, k)
    BY <2>9
  <2> HIDE DEF Upto
  <2> QED
    BY <2>4, <2>10
<1>2. \E f : Upto(f, n)
  <2>1. n \in 0 .. n
    OBVIOUS
  <2> HIDE DEF Upto
  <2> QED
    BY <1>1, <2>1
<1> QED
  BY <1>2 DEF IsRun

LEMMA RunUnique ==
    ASSUME NEW host, NEW code, NEW n \in Nat, Len(code) = n,
           NEW f, IsRun(f, host, code), NEW g, IsRun(g, host, code)
    PROVE  \A k \in 0 .. n : f[k] = g[k]
<1> DEFINE T == {k \in 0 .. n : f[k] # g[k]}
<1>1. T = {}
  <2> SUFFICES ASSUME T # {} PROVE FALSE
    OBVIOUS
  <2>1. T \subseteq Nat
    OBVIOUS
  <2>2. \E k \in T : \A j \in T : k <= j
    <3> HIDE DEF T
    <3> QED
      BY <2>1, LeastOf
  <2>3. PICK k \in T : \A j \in T : k <= j
    BY <2>2
  <2>4. k \in 0 .. n /\ f[k] # g[k]
    OBVIOUS
  <2>5. k # 0
    BY <2>4 DEF IsRun
  <2>6. k - 1 \in 0 .. n /\ f[k - 1] = g[k - 1]
    BY <2>3, <2>4, <2>5
  <2>7. f[k] = Emit(f[k - 1], code[k]) /\ g[k] = Emit(g[k - 1], code[k])
    BY <2>4, <2>5 DEF IsRun
  <2> QED
    BY <2>4, <2>6, <2>7
<1> QED
  BY <1>1

LEMMA RunIs ==
    ASSUME NEW host, NEW code, NEW n \in Nat, Len(code) = n, NEW f, IsRun(f, host, code)
    PROVE  Run(host, code) = f[n]
<1> DEFINE F(r) == [k \in 0 .. Len(code) |-> IF k = 0 THEN host ELSE Emit(r[k - 1], code[k])]
           R == CHOOSE r : r = F(r)
<1>1. Run(host, code) = R[Len(code)]
  BY DEF Run
<1>2. f = F(f)
  BY DEF IsRun
<1> HIDE DEF F
<1>3. R = F(R)
  BY <1>2
<1> HIDE DEF R
<1>4. IsRun(R, host, code)
  BY <1>3 DEF IsRun, F
<1>5. R[n] = f[n]
  <2>1. n \in 0 .. n
    OBVIOUS
  <2> QED
    BY <1>4, <2>1, RunUnique
<1> QED
  BY <1>1, <1>5

LEMMA RunEmpty == ASSUME NEW host PROVE Run(host, <<>>) = host
<1> DEFINE f == [k \in 0 .. 0 |-> host]
<1>1. Len(<<>>) = 0
  OBVIOUS
<1>2. f = [k \in 0 .. Len(<<>>) |-> IF k = 0 THEN host ELSE Emit(f[k - 1], <<>>[k])]
  BY <1>1
<1>3. IsRun(f, host, <<>>)
  BY <1>2 DEF IsRun
<1>4. f[0] = host
  OBVIOUS
<1> HIDE DEF f
<1> QED
  BY <1>1, <1>3, <1>4, RunIs

(* Code runs piece by piece. *)
LEMMA RunConcat ==
    ASSUME NEW S, NEW c \in Seq(S), NEW d \in Seq(S), NEW host
    PROVE  Run(host, c \o d) = Run(Run(host, c), d)
<1> DEFINE n == Len(c)
           l == Len(d)
           e == c \o d
           mid == Run(host, c)
<1>1. /\ n \in Nat /\ l \in Nat /\ Len(e) = n + l
      /\ \A k \in 1 .. n : e[k] = c[k]
      /\ \A k \in n + 1 .. n + l : e[k] = d[k - n]
  OBVIOUS
<1>2. PICK f : IsRun(f, host, c)
  BY <1>1, RunExists
<1>3. PICK g : IsRun(g, mid, d)
  BY <1>1, RunExists
<1>4. mid = f[n]
  BY <1>1, <1>2, RunIs
<1>5. Run(mid, d) = g[l]
  BY <1>1, <1>3, RunIs
<1> HIDE DEF mid, n, l, e
<1> DEFINE h == [k \in 0 .. n + l |-> IF k <= n THEN f[k] ELSE g[k - n]]
           r == [k \in 0 .. n + l |-> IF k = 0 THEN host ELSE Emit(h[k - 1], e[k])]
<1>6. ASSUME NEW k \in 0 .. n + l
      PROVE  h[k] = r[k]
  <2>1. CASE k = 0
    <3>1. f[0] = host
      BY <1>1, <1>2 DEF IsRun, n
    <3> QED
      BY <1>1, <2>1, <3>1
  <2>2. CASE k # 0 /\ k <= n
    <3>1. k \in 0 .. n /\ k \in 1 .. n /\ k - 1 <= n /\ k - 1 \in 0 .. n + l
      BY <1>1, <2>2
    <3>2. f[k] = Emit(f[k - 1], c[k])
      BY <1>1, <1>2, <2>2, <3>1 DEF IsRun, n
    <3>3. e[k] = c[k]
      BY <1>1, <3>1
    <3> HIDE DEF h
    <3>4. h[k] = f[k] /\ h[k - 1] = f[k - 1]
      BY <2>2, <3>1 DEF h
    <3> QED
      BY <2>2, <3>2, <3>3, <3>4
  <2>3. CASE k = n + 1
    <3>1. /\ 1 \in 0 .. l /\ k \in n + 1 .. n + l /\ k - n = 1 /\ k - 1 = n /\ n \in 0 .. n + l
          /\ ~(k <= n) /\ k # 0
      BY <1>1, <2>3
    <3>2. g[1] = Emit(g[0], d[1]) /\ g[0] = mid
      BY <1>1, <1>3, <3>1 DEF IsRun, l
    <3>3. e[k] = d[1]
      BY <1>1, <3>1
    <3> HIDE DEF h
    <3>4. h[k] = g[1] /\ h[k - 1] = f[n]
      BY <1>1, <3>1 DEF h
    <3> QED
      BY <1>4, <3>1, <3>2, <3>3, <3>4
  <2>4. CASE k > n + 1
    <3>1. /\ k - n \in 0 .. l /\ k - n # 0 /\ k \in n + 1 .. n + l /\ k - 1 \in 0 .. n + l
          /\ ~(k <= n) /\ ~(k - 1 <= n) /\ k # 0 /\ (k - n) - 1 = (k - 1) - n
      BY <1>1, <2>4
    <3>2. g[k - n] = Emit(g[(k - n) - 1], d[k - n])
      BY <1>1, <1>3, <3>1 DEF IsRun, l
    <3>3. e[k] = d[k - n]
      BY <1>1, <3>1
    <3> HIDE DEF h
    <3>4. h[k] = g[k - n] /\ h[k - 1] = g[(k - 1) - n]
      BY <3>1 DEF h
    <3> QED
      BY <3>1, <3>2, <3>3, <3>4
  <2> QED
    BY <1>1, <2>1, <2>2, <2>3, <2>4
<1>7. h = r
  BY <1>6
<1>8. IsRun(h, host, e)
  BY <1>1, <1>7 DEF IsRun
<1>9. h[n + l] = g[l]
  <2>1. CASE l = 0
    <3>1. n + l = n /\ n \in 0 .. n + l /\ n <= n
      BY <1>1, <2>1
    <3>2. g[0] = mid
      BY <1>1, <1>3 DEF IsRun, l
    <3> QED
      BY <1>4, <2>1, <3>1, <3>2
  <2>2. CASE l # 0
    BY <1>1, <2>2
  <2> QED
    BY <2>1, <2>2
<1> HIDE DEF h
<1>10. Run(host, e) = h[n + l]
  <2>1. n + l \in Nat /\ Len(e) = n + l
    BY <1>1
  <2> QED
    BY <1>8, <2>1, RunIs
<1> QED
  BY <1>5, <1>9, <1>10 DEF e, mid
-----------------------------------------------------------------------------
(* Host code: locations, operands, instructions, and the states it runs in. *)
Loc == ({"reg"} \X (Host \union Scratch)) \union ({"mem"} \X (Reg \union {"pc"}))
Operand == Loc \union ({"imm"} \X Val)

Plain == {"ADD", "SUB", "XOR", "OR", "AND"} \union Shifts
HostOp == Plain \union {"mov", "cmp", "SLT", "SLTU", "mul"} \union Loads \union Stores
HostInst == [op : HostOp, dst : Operand, src : Operand]

HostState ==
    [host   : [Host \union Scratch -> Val],
     fields : [Reg \union {"pc"} -> Val],
     mem    : [Addr -> Val],
     flags  : Val \X Val]

LEMMA ValueTyped ==
    ASSUME NEW st \in HostState, NEW o \in Operand
    PROVE  Value(st, o) \in Val
<1>1. CASE o \in {"reg"} \X (Host \union Scratch)
  <2>1. o[1] = "reg" /\ o[2] \in Host \union Scratch
    BY <1>1
  <2> QED
    BY <2>1 DEF Value, HostState
<1>2. CASE o \in {"mem"} \X (Reg \union {"pc"})
  <2>1. o[1] = "mem" /\ o[2] \in Reg \union {"pc"}
    BY <1>2
  <2> QED
    BY <2>1 DEF Value, HostState
<1>3. CASE o \in {"imm"} \X Val
  <2>1. o[1] = "imm" /\ o[2] \in Val
    BY <1>3
  <2> QED
    BY <2>1 DEF Value
<1> QED
  BY <1>1, <1>2, <1>3 DEF Operand, Loc

(* new is st with v in d, and nothing else changed outside D. *)
Put(st, new, d, v, D) ==
    /\ new \in HostState
    /\ new.mem = st.mem
    /\ new.flags = st.flags
    /\ d \in Loc => Value(new, d) = v
    /\ \A o \in Loc : o # d /\ o \notin D => Value(new, o) = Value(st, o)

LEMMA AssignPuts ==
    ASSUME NEW st \in HostState, NEW d \in Loc, NEW v \in Val
    PROVE  Put(st, Assign(st, d, v), d, v, {})
<1>0. "reg" # "mem"
  OBVIOUS
<1>1. CASE d \in {"reg"} \X (Host \union Scratch)
  <2>1. d[1] = "reg" /\ d[2] \in Host \union Scratch /\ d = <<"reg", d[2]>>
    BY <1>1
  <2> DEFINE new == [st EXCEPT !.host[d[2]] = v]
  <2>2. Assign(st, d, v) = new
    BY <2>1 DEF Assign, IsReg
  <2>3. /\ new \in HostState /\ new.mem = st.mem /\ new.flags = st.flags /\ new.fields = st.fields
        /\ new.host = [st.host EXCEPT ![d[2]] = v]
    BY <2>1 DEF HostState
  <2> HIDE DEF new
  <2>4. Value(new, d) = v
    BY <2>1, <2>3 DEF Value, HostState
  <2>5. ASSUME NEW o \in Loc, o # d
        PROVE  Value(new, o) = Value(st, o)
    <3>1. CASE o \in {"reg"} \X (Host \union Scratch)
      <4>1. o[1] = "reg" /\ o[2] \in Host \union Scratch /\ o = <<"reg", o[2]>>
        BY <3>1
      <4>2. o[2] # d[2]
        BY <2>1, <2>5, <4>1
      <4> QED
        BY <2>1, <2>3, <4>1, <4>2 DEF Value, HostState
    <3>2. CASE o \in {"mem"} \X (Reg \union {"pc"})
      <4>1. o[1] = "mem"
        BY <3>2
      <4> QED
        BY <2>3, <4>1 DEF Value
    <3> QED
      BY <3>1, <3>2 DEF Loc
  <2> QED
    BY <2>2, <2>3, <2>4, <2>5 DEF Put
<1>2. CASE d \in {"mem"} \X (Reg \union {"pc"})
  <2>1. d[1] = "mem" /\ d[2] \in Reg \union {"pc"} /\ d = <<"mem", d[2]>>
    BY <1>2
  <2> DEFINE new == [st EXCEPT !.fields[d[2]] = v]
  <2>2. Assign(st, d, v) = new
    BY <2>1 DEF Assign, IsReg
  <2>3. /\ new \in HostState /\ new.mem = st.mem /\ new.flags = st.flags /\ new.host = st.host
        /\ new.fields = [st.fields EXCEPT ![d[2]] = v]
    BY <2>1 DEF HostState
  <2> HIDE DEF new
  <2>4. Value(new, d) = v
    BY <2>1, <2>3 DEF Value, HostState
  <2>5. ASSUME NEW o \in Loc, o # d
        PROVE  Value(new, o) = Value(st, o)
    <3>1. CASE o \in {"mem"} \X (Reg \union {"pc"})
      <4>1. o[1] = "mem" /\ o[2] \in Reg \union {"pc"} /\ o = <<"mem", o[2]>>
        BY <3>1
      <4>2. o[2] # d[2]
        BY <2>1, <2>5, <4>1
      <4> QED
        BY <2>1, <2>3, <4>1, <4>2 DEF Value, HostState
    <3>2. CASE o \in {"reg"} \X (Host \union Scratch)
      <4>1. o[1] = "reg"
        BY <3>2
      <4> QED
        BY <2>3, <4>1 DEF Value
    <3> QED
      BY <3>1, <3>2 DEF Loc
  <2> QED
    BY <2>2, <2>3, <2>4, <2>5 DEF Put
<1> QED
  BY <1>1, <1>2 DEF Loc

(* The two kinds of location, and that no immediate is one. *)
LEMMA LocFacts ==
    /\ \A o \in Loc : (IsReg(o) \/ IsMem(o)) /\ ~(IsReg(o) /\ IsMem(o)) /\ o[1] # "imm"
    /\ \A o \in Operand : o \in Loc <=> o[1] # "imm"
    /\ \A o \in Operand : ~IsReg(o) /\ ~IsMem(o) <=> o \notin Loc
    /\ \A v \in Val : Imm(v) \in Operand /\ Imm(v) \notin Loc /\ \A st : Value(st, Imm(v)) = v
    /\ Loc \subseteq Operand
<1>1. \A o \in {"reg"} \X (Host \union Scratch) : o[1] = "reg"
  OBVIOUS
<1>2. \A o \in {"mem"} \X (Reg \union {"pc"}) : o[1] = "mem"
  OBVIOUS
<1>3. \A o \in {"imm"} \X Val : o[1] = "imm"
  OBVIOUS
<1>4. \A o \in Loc : o[1] \in {"reg", "mem"}
  BY <1>1, <1>2 DEF Loc
<1>5. \A o \in Operand : o \in Loc \/ o[1] = "imm"
  BY <1>3 DEF Operand
<1>6. \A v \in Val : Imm(v)[1] = "imm" /\ Imm(v)[2] = v /\ Imm(v) \in {"imm"} \X Val
  BY DEF Imm
<1>7. \A v \in Val : \A st : Value(st, Imm(v)) = v
  BY <1>6 DEF Value
<1> QED
  BY <1>4, <1>5, <1>6, <1>7 DEF IsReg, IsMem, Operand

(* An instruction that can be encoded. *)
Fits(d, a) == d \in Loc /\ a \in Operand /\ ~(IsMem(d) /\ IsMem(a))
Ins(op, d, a) == [op |-> op, dst |-> d, src |-> a]

LEMMA EncodableFacts ==
    ASSUME NEW op, NEW d \in Operand, NEW a \in Operand
    PROVE  Encodable(Ins(op, d, a)) <=> Fits(d, a)
  BY LocFacts DEF Encodable, Ins, Fits

LEMMA EmitSkips ==
    ASSUME NEW op, NEW d \in Operand, NEW a \in Operand, ~Fits(d, a), NEW st
    PROVE  Emit(st, Ins(op, d, a)) = st
  BY EncodableFacts DEF Emit

LEMMA EmitMov ==
    ASSUME NEW st \in HostState, NEW d, NEW a, Fits(d, a)
    PROVE  Put(st, Emit(st, Ins("mov", d, a)), d, Value(st, a), {})
<1>1. d \in Operand /\ a \in Operand /\ d \in Loc
  BY LocFacts DEF Fits
<1>2. Encodable(Ins("mov", d, a))
  BY <1>1, EncodableFacts
<1>3. Emit(st, Ins("mov", d, a)) = Assign(st, d, Value(st, a))
  BY <1>2 DEF Emit, Ins, Loads, Stores
<1>4. Value(st, a) \in Val
  BY <1>1, ValueTyped
<1> QED
  BY <1>1, <1>3, <1>4, AssignPuts

LEMMA EmitPlain ==
    ASSUME NEW st \in HostState, NEW d, NEW a, Fits(d, a), NEW op \in Plain
    PROVE  Put(st, Emit(st, Ins(op, d, a)), d, Compute(op, Value(st, d), Value(st, a)), {})
<1>1. d \in Operand /\ a \in Operand /\ d \in Loc
  BY LocFacts DEF Fits
<1>2. Encodable(Ins(op, d, a))
  BY <1>1, EncodableFacts
<1>3. op \notin {"mov", "cmp", "mul", "SLT", "SLTU"} \union Loads \union Stores
  BY DEF Plain, Loads, Stores, Shifts
<1>4. Emit(st, Ins(op, d, a)) = Assign(st, d, Compute(op, Value(st, d), Value(st, a)))
  BY <1>2, <1>3 DEF Emit, Ins
<1>5. Value(st, a) \in Val /\ Value(st, d) \in Val
  BY <1>1, ValueTyped
<1>6. Compute(op, Value(st, d), Value(st, a)) \in Val
  BY <1>5, ComputeAssumption DEF Plain
<1> QED
  BY <1>1, <1>4, <1>6, AssignPuts

LEMMA EmitSet ==
    ASSUME NEW st \in HostState, NEW d, NEW a, Fits(d, a), NEW op \in {"SLT", "SLTU"}
    PROVE  Put(st, Emit(st, Ins(op, d, a)), d, Compute(op, st.flags[1], st.flags[2]), {})
<1>1. d \in Operand /\ a \in Operand /\ d \in Loc
  BY LocFacts DEF Fits
<1>2. Encodable(Ins(op, d, a))
  BY <1>1, EncodableFacts
<1>3. op \notin {"mov", "cmp", "mul"} \union Loads \union Stores
  BY DEF Loads, Stores
<1>4. Emit(st, Ins(op, d, a)) = Assign(st, d, Compute(op, st.flags[1], st.flags[2]))
  BY <1>2, <1>3 DEF Emit, Ins
<1>5. st.flags[1] \in Val /\ st.flags[2] \in Val
  BY DEF HostState
<1>6. Compute(op, st.flags[1], st.flags[2]) \in Val
  BY <1>5, ComputeAssumption
<1> QED
  BY <1>1, <1>4, <1>6, AssignPuts

LEMMA EmitCmp ==
    ASSUME NEW st \in HostState, NEW d, NEW a, Fits(d, a)
    PROVE  LET new == Emit(st, Ins("cmp", d, a))
           IN  /\ new \in HostState /\ new.mem = st.mem
               /\ new.flags = <<Value(st, d), Value(st, a)>>
               /\ \A o \in Loc : Value(new, o) = Value(st, o)
<1>1. d \in Operand /\ a \in Operand
  BY LocFacts DEF Fits
<1>2. Encodable(Ins("cmp", d, a))
  BY <1>1, EncodableFacts
<1> DEFINE new == [st EXCEPT !.flags = <<Value(st, d), Value(st, a)>>]
<1>3. Emit(st, Ins("cmp", d, a)) = new
  BY <1>2 DEF Emit, Ins, Loads, Stores
<1>4. Value(st, a) \in Val /\ Value(st, d) \in Val
  BY <1>1, ValueTyped
<1>5. /\ new \in HostState /\ new.mem = st.mem /\ new.host = st.host /\ new.fields = st.fields
      /\ new.flags = <<Value(st, d), Value(st, a)>>
  BY <1>4 DEF HostState
<1> HIDE DEF new
<1>6. \A o : Value(new, o) = Value(st, o)
  BY <1>5 DEF Value
<1> QED
  BY <1>3, <1>5, <1>6

(* The multiplication reads eax and writes eax and edx. *)
LEMMA ScratchFacts ==
    /\ T1 \in Loc /\ T2 \in Loc /\ T1 # T2 /\ IsReg(T1) /\ IsReg(T2)
    /\ ECX \in Loc /\ IsReg(ECX) /\ ECX # T1 /\ ECX # T2
    /\ PC \in Loc /\ IsMem(PC) /\ PC # T1 /\ PC # T2
<1>1. "eax" \in Scratch /\ "edx" \in Scratch /\ "ecx" \in Host
  BY JITAssumption DEF Scratch
<1>2. T1 \in Loc /\ T2 \in Loc /\ ECX \in Loc /\ PC \in Loc
  BY <1>1 DEF Loc, T1, T2, ECX, PC
<1> QED
  BY <1>2 DEF T1, T2, ECX, PC, IsReg, IsMem

LEMMA EmitMul ==
    ASSUME NEW st \in HostState, NEW d, NEW a, Fits(d, a)
    PROVE  LET new == Emit(st, Ins("mul", d, a))
           IN  /\ new \in HostState /\ new.mem = st.mem
               /\ Value(new, T1) = Compute("MUL", Value(st, T1), Value(st, d))
               /\ Value(new, T2) = Compute("MULHU", Value(st, T1), Value(st, d))
               /\ \A o \in Loc : o \notin {T1, T2} => Value(new, o) = Value(st, o)
<1>1. d \in Operand /\ a \in Operand
  BY LocFacts DEF Fits
<1>2. Encodable(Ins("mul", d, a))
  BY <1>1, EncodableFacts
<1> DEFINE e == st.host["eax"]
           v == Value(st, d)
           mid == Assign(st, T1, Compute("MUL", e, v))
           new == Assign(mid, T2, Compute("MULHU", e, v))
<1>3. v \in Val /\ e \in Val /\ e = Value(st, T1)
  <2>1. "eax" \in Host \union Scratch
    BY DEF Scratch
  <2>2. T1[1] = "reg" /\ T1[2] = "eax"
    BY DEF T1
  <2> QED
    BY <1>1, <2>1, <2>2, ValueTyped DEF HostState, Value
<1>4. Compute("MUL", e, v) \in Val /\ Compute("MULHU", e, v) \in Val
  BY <1>3, ComputeAssumption
<1>5. Emit(st, Ins("mul", d, a)) =
        [st EXCEPT !.host["eax"] = Compute("MUL", @, v),
                   !.host["edx"] = Compute("MULHU", e, v)]
  BY <1>2 DEF Emit, Ins, Loads, Stores
<1>6. new = [st EXCEPT !.host["eax"] = Compute("MUL", @, v),
                       !.host["edx"] = Compute("MULHU", e, v)]
  BY DEF Assign, IsReg, T1, T2, HostState
<1>7. Put(st, mid, T1, Compute("MUL", e, v), {})
  BY <1>4, AssignPuts, ScratchFacts
<1>8. Put(mid, new, T2, Compute("MULHU", e, v), {})
  <2>1. mid \in HostState
    BY <1>7 DEF Put
  <2> HIDE DEF mid
  <2> QED
    BY <1>4, <2>1, AssignPuts, ScratchFacts
<1>9. Emit(st, Ins("mul", d, a)) = new
  BY <1>5, <1>6
<1> HIDE DEF mid, new, e, v
<1>10. /\ new \in HostState /\ new.mem = st.mem
       /\ Value(new, T1) = Compute("MUL", e, v)
       /\ Value(new, T2) = Compute("MULHU", e, v)
       /\ \A o \in Loc : o \notin {T1, T2} => Value(new, o) = Value(st, o)
  BY <1>7, <1>8, ScratchFacts DEF Put
<1> QED
  BY <1>3, <1>9, <1>10 DEF v

(* Loads and stores, at an address of memory. *)
At(st, a) == st.host["eax"] + AsSigned(Value(st, a))

LEMMA EmitLoad ==
    ASSUME NEW st \in HostState, NEW d, NEW a, Fits(d, a), NEW op \in Loads, At(st, a) \in Addr
    PROVE  Put(st, Emit(st, Ins(op, d, a)), d, Compute(op, st.mem[At(st, a)], 0), {})
<1>1. d \in Operand /\ a \in Operand /\ d \in Loc
  BY LocFacts DEF Fits
<1>2. Encodable(Ins(op, d, a))
  BY <1>1, EncodableFacts
<1>3. op \notin {"mov", "cmp", "mul", "SLT", "SLTU"} \union Stores
  BY DEF Loads, Stores
<1>4. Emit(st, Ins(op, d, a)) = Assign(st, d, Compute(op, st.mem[At(st, a)], 0))
  BY <1>2, <1>3 DEF Emit, Ins, At
<1>5. st.mem[At(st, a)] \in Val /\ 0 \in Val
  BY JITAssumption DEF HostState, Val
<1>6. Compute(op, st.mem[At(st, a)], 0) \in Val
  BY <1>5, ComputeAssumption
<1> QED
  BY <1>1, <1>4, <1>6, AssignPuts

LEMMA EmitStore ==
    ASSUME NEW st \in HostState, NEW d, NEW a, Fits(d, a), NEW op \in Stores, At(st, a) \in Addr
    PROVE  LET new == Emit(st, Ins(op, d, a))
           IN  /\ new \in HostState
               /\ new.mem = [st.mem EXCEPT ![At(st, a)] = Compute(op, @, Value(st, d))]
               /\ \A o \in Loc : Value(new, o) = Value(st, o)
<1>1. d \in Operand /\ a \in Operand
  BY LocFacts DEF Fits
<1>2. Encodable(Ins(op, d, a))
  BY <1>1, EncodableFacts
<1>3. op \notin {"mov", "cmp", "mul", "SLT", "SLTU"} \union Loads
  BY DEF Loads, Stores
<1> DEFINE p == At(st, a)
           v == Compute(op, st.mem[p], Value(st, d))
           new == [st EXCEPT !.mem[p] = v]
<1>4. Emit(st, Ins(op, d, a)) = [st EXCEPT !.mem[At(st, a)] = Compute(op, @, Value(st, d))]
  BY <1>2, <1>3 DEF Emit, Ins, At
<1>5. Emit(st, Ins(op, d, a)) = new
  BY <1>4 DEF HostState
<1>6. v \in Val
  <2>1. st.mem[p] \in Val
    BY DEF HostState
  <2>2. Value(st, d) \in Val
    BY <1>1, ValueTyped
  <2> QED
    BY <2>1, <2>2, ComputeAssumption
<1> HIDE DEF p, v
<1>7. /\ new \in HostState /\ new.host = st.host /\ new.fields = st.fields
      /\ new.mem = [st.mem EXCEPT ![p] = v]
  BY <1>6 DEF HostState, p
<1> HIDE DEF new
<1>8. \A o : Value(new, o) = Value(st, o)
  BY <1>7 DEF Value
<1> QED
  BY <1>5, <1>7, <1>8 DEF p, v
-----------------------------------------------------------------------------
(* Pieces of code. *)
Code == Seq(HostInst)

LEMMA OpFacts ==
    ASSUME NEW op \in HostOp, NEW d \in Operand, NEW a \in Operand
    PROVE  /\ Op(op, d, a) \in Code
           /\ \A host : Run(host, Op(op, d, a)) = Emit(host, Ins(op, d, a))
<1> DEFINE i == Ins(op, d, a)
<1>1. i \in HostInst
  BY DEF Ins, HostInst
<1>2. Op(op, d, a) = <<i>>
  BY DEF Op, Ins
<1> HIDE DEF i
<1>3. ASSUME NEW host
      PROVE  Run(host, <<i>>) = Emit(host, i)
  <2> DEFINE f == [k \in 0 .. 1 |-> IF k = 0 THEN host ELSE Emit(host, i)]
             g == [k \in 0 .. Len(<<i>>) |-> IF k = 0 THEN host ELSE Emit(f[k - 1], <<i>>[k])]
  <2>1. Len(<<i>>) = 1
    OBVIOUS
  <2>2. ASSUME NEW k \in 0 .. 1
        PROVE  f[k] = g[k]
    <3>1. CASE k = 0
      BY <2>1, <3>1
    <3>2. CASE k = 1
      BY <2>1, <3>2
    <3> QED
      BY <3>1, <3>2
  <2>3. f = g
    BY <2>1, <2>2
  <2>4. IsRun(f, host, <<i>>)
    BY <2>3 DEF IsRun
  <2>5. f[1] = Emit(host, i)
    OBVIOUS
  <2> HIDE DEF f
  <2> QED
    BY <2>1, <2>4, <2>5, RunIs
<1> QED
  BY <1>1, <1>2, <1>3 DEF Code, i

LEMMA ConcatFacts ==
    ASSUME NEW c \in Code, NEW d \in Code
    PROVE  /\ c \o d \in Code
           /\ \A host : Run(host, c \o d) = Run(Run(host, c), d)
<1>1. c \o d \in Code
  BY DEF Code
<1>2. ASSUME NEW host
      PROVE  Run(host, c \o d) = Run(Run(host, c), d)
  BY RunConcat DEF Code
<1> QED
  BY <1>1, <1>2

LEMMA NothingFacts == <<>> \in Code /\ Nothing \in Code /\ \A host : Run(host, Nothing) = host
  BY RunEmpty DEF Code, Nothing

(* Where a guest register is, for a mapping. *)
Where(map, g) == IF map[g] = Mem THEN <<"mem", g>> ELSE <<"reg", map[g]>>

LEMMA WhereFacts ==
    ASSUME NEW map, NEW pool, Exact(map, pool), NEW g \in Reg
    PROVE  /\ Where(map, g) \in Loc /\ Where(map, g) \in Operand
           /\ Where(map, g) \notin {T1, T2, PC}
           /\ \A h \in Reg : Where(map, g) = Where(map, h) => g = h
<1>1. map[g] \in Host \union {Mem}
  BY DEF Exact
<1>2. Mem \notin Host /\ Host \intersect Scratch = {} /\ "pc" \notin Reg
  BY JITAssumption
<1>3. Where(map, g) \in Loc
  BY <1>1 DEF Where, Loc
<1>4. "eax" \notin Host /\ "edx" \notin Host
  BY <1>2 DEF Scratch
<1>5. Where(map, g) # T1 /\ Where(map, g) # T2 /\ Where(map, g) # PC
  BY <1>1, <1>2, <1>4 DEF Where, T1, T2, PC
<1>6. ASSUME NEW h \in Reg, Where(map, g) = Where(map, h)
      PROVE  g = h
  <2>1. CASE map[g] = Mem /\ map[h] = Mem
    BY <1>6, <2>1 DEF Where
  <2>2. CASE map[g] # Mem /\ map[h] # Mem
    <3>1. map[g] = map[h]
      BY <1>6, <2>2 DEF Where
    <3> QED
      BY <2>2, <3>1 DEF Exact
  <2>3. CASE (map[g] = Mem) # (map[h] = Mem)
    BY <1>6, <2>3 DEF Where
  <2> QED
    BY <2>1, <2>2, <2>3
<1> QED
  BY <1>3, <1>5, <1>6, LocFacts

(* The guest's registers in K, pc and memory are the same in new, with the  *)
(* mapping after, as in st, with the mapping before.                        *)
Keeps(st, before, new, after, K) ==
    /\ new \in HostState
    /\ new.mem = st.mem
    /\ new.flags = st.flags
    /\ Value(new, PC) = Value(st, PC)
    /\ \A g \in K : Value(new, Where(after, g)) = Value(st, Where(before, g))

LEMMA KeepsTwice ==
    ASSUME NEW s1, NEW s2, NEW s3, NEW m1, NEW m2, NEW m3, NEW K, NEW L,
           Keeps(s1, m1, s2, m2, K), Keeps(s2, m2, s3, m3, L)
    PROVE  Keeps(s1, m1, s3, m3, K \intersect L)
  BY DEF Keeps

(* Whether an allocation of g would do nothing. *)
Settled(st, g) == st.map[g] # Mem \/ st.pool = <<>>

LEMMA AllocateSettles ==
    ASSUME NEW st, Exact(st.map, st.pool), NEW set \in SUBSET Reg, NEW load,
           \A g, h \in set : g = h
    PROVE  \A g \in Reg : g \in set \/ Settled(st, g) => Settled(AllocateIn(st, set, load), g)
<1>1. CASE set = {}
  BY <1>1 DEF AllocateIn
<1>2. CASE set # {}
  <2> DEFINE h == CHOOSE k \in set : TRUE
             new == AllocateIn(st, set, load)
  <2>1. h \in Reg /\ set = {h}
    BY <1>2
  <2>2. new = Allocate(st, h, load)
    BY <1>2 DEF AllocateIn
  <2> HIDE DEF h, new
  <2>3. CASE Settled(st, h)
    <3>1. new = st
      BY <2>2, <2>3 DEF Allocate, Settled
    <3> QED
      BY <2>1, <2>3, <3>1 DEF new
  <2>4. CASE ~Settled(st, h)
    <3>1. new.map = [st.map EXCEPT ![h] = Head(st.pool)]
      BY <2>2, <2>4 DEF Allocate, Settled
    <3>2. st.map \in [Reg -> Host \union {Mem}] /\ st.pool \in Seq(Host) /\ st.pool # <<>>
      BY <2>4 DEF Exact, Settled
    <3>3. Head(st.pool) \in Host
      BY <3>2
    <3>4. Head(st.pool) # Mem
      BY <3>3, JITAssumption
    <3>5. \A g \in Reg : g = h \/ st.map[g] # Mem => new.map[g] # Mem
      BY <2>1, <3>1, <3>2, <3>4
    <3>6. ASSUME NEW g \in Reg, g \in set \/ Settled(st, g)
          PROVE  Settled(new, g)
      BY <2>1, <3>2, <3>5, <3>6 DEF Settled
    <3> QED
      BY <3>6 DEF new
  <2> QED
    BY <2>3, <2>4
<1> QED
  BY <1>1, <1>2

LEMMA AllocateRuns ==
    ASSUME NEW host, NEW st, Exact(st.map, st.pool), st.code \in Code,
           NEW set \in SUBSET Reg, \A g, h \in set : g = h,
           NEW load \in BOOLEAN, Run(host, st.code) \in HostState
    PROVE  LET new == AllocateIn(st, set, load)
           IN  /\ Exact(new.map, new.pool)
               /\ new.code \in Code
               /\ Keeps(Run(host, st.code), st.map, Run(host, new.code), new.map,
                        {g \in Reg : load \/ g \notin set \/ Settled(st, g)})
<1> DEFINE new == AllocateIn(st, set, load)
           b == Run(host, st.code)
           K == {g \in Reg : load \/ g \notin set \/ Settled(st, g)}
<1>0. Exact(new.map, new.pool)
  BY AllocateInKeeps
<1>1. ASSUME new = st
      PROVE  new.code \in Code /\ Keeps(b, st.map, Run(host, new.code), new.map, K)
  BY <1>1 DEF Keeps
<1>2. CASE set = {}
  <2>1. new = st
    BY <1>2 DEF AllocateIn
  <2> QED
    BY <1>0, <1>1, <2>1
<1>3. CASE set # {}
  <2> DEFINE g == CHOOSE k \in set : TRUE
  <2>1. g \in Reg /\ set = {g}
    BY <1>3
  <2>2. new = Allocate(st, g, load)
    BY <1>3 DEF AllocateIn
  <2> HIDE DEF g
  <2>3. CASE Settled(st, g)
    <3>1. new = st
      BY <2>2, <2>3 DEF Allocate, Settled
    <3> QED
      BY <1>0, <1>1, <3>1
  <2>4. CASE ~Settled(st, g)
    <3> DEFINE h == Head(st.pool)
               d == <<"reg", h>>
               a == <<"mem", g>>
    <3>1. /\ new.map = [st.map EXCEPT ![g] = h]
          /\ new.code = IF load THEN st.code \o Mov(d, a) ELSE st.code
      BY <2>2, <2>4 DEF Allocate, Settled
    <3>2. /\ st.map \in [Reg -> Host \union {Mem}] /\ st.pool \in Seq(Host) /\ st.pool # <<>>
          /\ st.map[g] = Mem
      BY <2>4 DEF Exact, Settled
    <3>3. h \in Host /\ h = st.pool[1] /\ 1 \in DOMAIN st.pool
      BY <3>2
    <3>4. h # Mem /\ \A k \in Reg : st.map[k] # h
      BY <3>3, JITAssumption DEF Exact
    <3> HIDE DEF h
    <3>5. \A k \in Reg : k # g => Where(new.map, k) = Where(st.map, k) /\ Where(st.map, k) # d
      BY <3>1, <3>2, <3>4 DEF Where
    <3>6. Where(new.map, g) = d /\ Where(st.map, g) = a
      BY <2>1, <3>1, <3>2, <3>4 DEF Where
    <3>7. d \in Loc /\ a \in Loc /\ d # PC /\ ~IsMem(d) /\ IsReg(d)
      BY <2>1, <3>3 DEF Loc, IsMem, IsReg, PC
    <3>8. Fits(d, a) /\ d \in Operand /\ a \in Operand /\ "mov" \in HostOp
      BY <3>7, LocFacts DEF Fits, HostOp
    <3>9. \A k \in Reg : Where(st.map, k) \in Loc
      BY WhereFacts
    <3> HIDE DEF new, b, K, d, a
    <3>10. CASE load
      <4> DEFINE r == Emit(b, Ins("mov", d, a))
      <4>1. /\ Mov(d, a) \in Code
            /\ \A hh : Run(hh, Mov(d, a)) = Emit(hh, Ins("mov", d, a))
        BY <3>8, OpFacts DEF Mov
      <4>2. new.code \in Code /\ Run(host, new.code) = r
        BY <3>1, <3>10, <4>1, ConcatFacts DEF b
      <4>3. Put(b, r, d, Value(b, a), {})
        BY <3>8, EmitMov DEF b
      <4> HIDE DEF r
      <4>4. Value(r, PC) = Value(b, PC)
        BY <4>3, <3>7, ScratchFacts DEF Put
      <4>5. ASSUME NEW k \in Reg
            PROVE  Value(r, Where(new.map, k)) = Value(b, Where(st.map, k))
        <5>1. CASE k = g
          BY <3>6, <3>7, <4>3, <5>1 DEF Put
        <5>2. CASE k # g
          BY <3>5, <3>9, <4>3, <5>2 DEF Put
        <5> QED
          BY <5>1, <5>2
      <4>6. Keeps(b, st.map, r, new.map, K)
        BY <4>3, <4>4, <4>5 DEF Keeps, Put, K
      <4> QED
        BY <1>0, <4>2, <4>6 DEF b, K, new
    <3>11. CASE ~load
      <4>1. new.code = st.code
        BY <3>1, <3>11
      <4>2. \A k \in K : k \in Reg /\ k # g
        BY <2>1, <2>4, <3>11 DEF K
      <4>3. Keeps(b, st.map, b, new.map, K)
        BY <3>5, <4>2 DEF Keeps, b
      <4> QED
        BY <1>0, <4>1, <4>3 DEF b, K, new
    <3> QED
      BY <3>10, <3>11
  <2> QED
    BY <2>3, <2>4
<1> QED
  BY <1>2, <1>3

LEMMA DeallocateRuns ==
    ASSUME NEW host, NEW st, Exact(st.map, st.pool), st.code \in Code,
           NEW set \in SUBSET Reg, Run(host, st.code) \in HostState
    PROVE  LET new == DeallocateIn(st, set)
           IN  /\ Exact(new.map, new.pool)
               /\ new.code \in Code
               /\ Keeps(Run(host, st.code), st.map, Run(host, new.code), new.map, Reg)
<1> DEFINE new == DeallocateIn(st, set)
           b == Run(host, st.code)
<1>0. Exact(new.map, new.pool)
  BY DeallocateInKeeps
<1>1. ASSUME new = st
      PROVE  new.code \in Code /\ Keeps(b, st.map, Run(host, new.code), new.map, Reg)
  BY <1>1 DEF Keeps
<1>2. CASE set = {}
  <2>1. new = st
    BY <1>2 DEF DeallocateIn
  <2> QED
    BY <1>0, <1>1, <2>1
<1>3. CASE set # {}
  <2> DEFINE g == CHOOSE k \in set : TRUE
  <2>1. g \in Reg
    BY <1>3
  <2>2. new = Deallocate(st, g)
    BY <1>3 DEF DeallocateIn
  <2> HIDE DEF g
  <2>3. CASE st.map[g] = Mem
    <3>1. new = st
      BY <2>2, <2>3 DEF Deallocate
    <3> QED
      BY <1>0, <1>1, <3>1
  <2>4. CASE st.map[g] # Mem
    <3> DEFINE a == <<"reg", st.map[g]>>
               d == <<"mem", g>>
               r == Emit(b, Ins("mov", d, a))
    <3>1. /\ new.map = [st.map EXCEPT ![g] = Mem]
          /\ new.code = st.code \o Mov(d, a)
      BY <2>2, <2>4 DEF Deallocate
    <3>2. st.map \in [Reg -> Host \union {Mem}] /\ st.map[g] \in Host /\ "pc" \notin Reg
      BY <2>1, <2>4, JITAssumption DEF Exact
    <3>3. \A k \in Reg : k # g => Where(new.map, k) = Where(st.map, k) /\ Where(st.map, k) # d
      BY <2>1, <3>1, <3>2 DEF Where
    <3>4. Where(new.map, g) = d /\ Where(st.map, g) = a
      BY <2>1, <2>4, <3>1, <3>2 DEF Where
    <3>5. d \in Loc /\ a \in Loc /\ d # PC /\ ~IsMem(a)
      BY <2>1, <3>2 DEF Loc, IsMem, PC
    <3>6. Fits(d, a) /\ d \in Operand /\ a \in Operand /\ "mov" \in HostOp
      BY <3>5, LocFacts DEF Fits, HostOp
    <3>7. \A k \in Reg : Where(st.map, k) \in Loc
      BY WhereFacts
    <3> HIDE DEF new, b, d, a
    <3>8. /\ Mov(d, a) \in Code
          /\ \A hh : Run(hh, Mov(d, a)) = Emit(hh, Ins("mov", d, a))
      BY <3>6, OpFacts DEF Mov
    <3>9. new.code \in Code /\ Run(host, new.code) = r
      BY <3>1, <3>8, ConcatFacts DEF b
    <3>10. Put(b, r, d, Value(b, a), {})
      BY <3>6, EmitMov DEF b
    <3> HIDE DEF r
    <3>11. Value(r, PC) = Value(b, PC)
      BY <3>10, <3>5, ScratchFacts DEF Put
    <3>12. ASSUME NEW k \in Reg
           PROVE  Value(r, Where(new.map, k)) = Value(b, Where(st.map, k))
      <4>1. CASE k = g
        BY <3>4, <3>5, <3>10, <4>1 DEF Put
      <4>2. CASE k # g
        BY <3>3, <3>7, <3>10, <4>2 DEF Put
      <4> QED
        BY <4>1, <4>2
    <3>13. Keeps(b, st.map, r, new.map, Reg)
      BY <3>10, <3>11, <3>12 DEF Keeps, Put
    <3> QED
      BY <1>0, <3>9, <3>13 DEF b, new
  <2> QED
    BY <2>3, <2>4
<1> QED
  BY <1>2, <1>3
(* The code before and after a template's moves registers, and the values   *)
(* with them.  Only the destination may have no value before the template.  *)
Valued == {g \in Reg : g \notin Rd(inst) \/ g \in Reads(inst)}

LEMMA PreRuns ==
    ASSUME IInv, NEW host \in HostState
    PROVE  /\ pre.code \in Code
           /\ Keeps(host, reg_mapping, Run(host, pre.code), pre.map, Valued)
<1> DEFINE d1 == Rs1(inst) \intersect Reg \intersect live
           d2 == Rs2(inst) \intersect Reg \intersect live
           d3 == Rd(inst) \intersect Reg \intersect live
           s0 == [map |-> reg_mapping, pool |-> reg_pool, code |-> <<>>]
           s1 == AllocateIn(s0, d1, TRUE)
           s2 == AllocateIn(s1, d2, TRUE)
           s3 == AllocateIn(s2, d3, FALSE)
           K3 == {g \in Reg : g \notin d3 \/ Settled(s2, g)}
<1>0. /\ d1 \in SUBSET Reg /\ d2 \in SUBSET Reg /\ d3 \in SUBSET Reg
      /\ \A g, h \in d1 : g = h
      /\ \A g, h \in d2 : g = h
      /\ \A g, h \in d3 : g = h
      /\ \A g \in d3 : g \in Reads(inst) => g \in d1 \/ g \in d2
      /\ d3 \subseteq Rd(inst)
  BY DEF Rs1, Rs2, Rd, Reads
<1>1. pre = s3
  BY DEF pre
<1> HIDE DEF d1, d2, d3
<1>2. Exact(s0.map, s0.pool) /\ s0.code = <<>> /\ s0.map = reg_mapping
  BY DEF IInv
<1>3. s0.code \in Code /\ Run(host, s0.code) = host
  BY <1>2, NothingFacts, RunEmpty
<1> HIDE DEF s0, s1, s2, s3, K3
<1>4. /\ Exact(s1.map, s1.pool) /\ s1.code \in Code
      /\ Keeps(host, reg_mapping, Run(host, s1.code), s1.map, Reg)
  <2> DEFINE K == {g \in Reg : TRUE \/ g \notin d1 \/ Settled(s0, g)}
  <2>1. K = Reg
    OBVIOUS
  <2>2. /\ Exact(s1.map, s1.pool) /\ s1.code \in Code
        /\ Keeps(Run(host, s0.code), s0.map, Run(host, s1.code), s1.map, K)
    BY <1>0, <1>2, <1>3, AllocateRuns DEF s1
  <2> QED
    BY <1>2, <1>3, <2>1, <2>2
<1>5. /\ Exact(s2.map, s2.pool) /\ s2.code \in Code
      /\ Keeps(Run(host, s1.code), s1.map, Run(host, s2.code), s2.map, Reg)
  <2> DEFINE K == {g \in Reg : TRUE \/ g \notin d2 \/ Settled(s1, g)}
  <2>1. K = Reg
    OBVIOUS
  <2>2. Run(host, s1.code) \in HostState
    BY <1>4 DEF Keeps
  <2>3. /\ Exact(s2.map, s2.pool) /\ s2.code \in Code
        /\ Keeps(Run(host, s1.code), s1.map, Run(host, s2.code), s2.map, K)
    BY <1>0, <1>4, <2>2, AllocateRuns DEF s2
  <2> QED
    BY <2>1, <2>3
<1>6. /\ s3.code \in Code
      /\ Keeps(Run(host, s2.code), s2.map, Run(host, s3.code), s3.map, K3)
  <2> DEFINE K == {g \in Reg : FALSE \/ g \notin d3 \/ Settled(s2, g)}
  <2>1. K = K3
    BY DEF K3
  <2>2. Run(host, s2.code) \in HostState
    BY <1>5 DEF Keeps
  <2>3. /\ s3.code \in Code
        /\ Keeps(Run(host, s2.code), s2.map, Run(host, s3.code), s3.map, K)
    BY <1>0, <1>5, <2>2, AllocateRuns DEF s3
  <2> QED
    BY <2>1, <2>3
<1>7. \A g \in Reg : g \in d1 \/ g \in d2 => Settled(s2, g)
  <2>1. \A g \in Reg : g \in d1 => Settled(s1, g)
    BY <1>0, <1>2, AllocateSettles DEF s1
  <2> QED
    BY <1>0, <1>4, <2>1, AllocateSettles DEF s2
<1>8. Valued \subseteq K3
  BY <1>0, <1>7 DEF Valued, K3
<1>9. Keeps(host, reg_mapping, Run(host, s2.code), s2.map, Reg \intersect Reg)
  BY <1>4, <1>5, KeepsTwice
<1>10. Keeps(host, reg_mapping, Run(host, s3.code), s3.map, (Reg \intersect Reg) \intersect K3)
  BY <1>6, <1>9, KeepsTwice
<1>11. Valued \subseteq (Reg \intersect Reg) \intersect K3
  BY <1>8 DEF Valued
<1> QED
  BY <1>1, <1>6, <1>10, <1>11 DEF Keeps

LEMMA PostRuns ==
    ASSUME NEW host, NEW st, Exact(st.map, st.pool), st.code \in Code,
           Run(host, st.code) \in HostState
    PROVE  Keeps(Run(host, st.code), st.map, Run(host, Post(st).code), Post(st).map, Reg)
<1> DEFINE d1 == (Rs1(inst) \intersect Reg) \ live
           d2 == (Rs2(inst) \intersect Reg) \ live
           d3 == (Rd(inst) \intersect Reg) \ live
           s1 == DeallocateIn(st, d1)
           s2 == DeallocateIn(s1, d2)
           s3 == DeallocateIn(s2, d3)
<1>0. d1 \in SUBSET Reg /\ d2 \in SUBSET Reg /\ d3 \in SUBSET Reg
  OBVIOUS
<1>1. Post(st) = s3
  BY DEF Post
<1> HIDE DEF d1, d2, d3, s1, s2, s3
<1>2. /\ Exact(s1.map, s1.pool) /\ s1.code \in Code
      /\ Keeps(Run(host, st.code), st.map, Run(host, s1.code), s1.map, Reg)
  BY <1>0, DeallocateRuns DEF s1
<1>3. /\ Exact(s2.map, s2.pool) /\ s2.code \in Code
      /\ Keeps(Run(host, s1.code), s1.map, Run(host, s2.code), s2.map, Reg)
  <2>1. Run(host, s1.code) \in HostState
    BY <1>2 DEF Keeps
  <2> QED
    BY <1>0, <1>2, <2>1, DeallocateRuns DEF s2
<1>4. Keeps(Run(host, s2.code), s2.map, Run(host, s3.code), s3.map, Reg)
  <2>1. Run(host, s2.code) \in HostState
    BY <1>3 DEF Keeps
  <2> QED
    BY <1>0, <1>3, <2>1, DeallocateRuns DEF s3
<1>5. Keeps(Run(host, st.code), st.map, Run(host, s2.code), s2.map, Reg \intersect Reg)
  BY <1>2, <1>3, KeepsTwice
<1>6. Keeps(Run(host, st.code), st.map, Run(host, s3.code), s3.map, (Reg \intersect Reg) \intersect Reg)
  BY <1>4, <1>5, KeepsTwice
<1>7. (Reg \intersect Reg) \intersect Reg = Reg
  OBVIOUS
<1> QED
  BY <1>1, <1>6, <1>7
-----------------------------------------------------------------------------
(* Templates.  Code without loads and stores runs from any state. *)
SafeOp == Plain \union {"mov", "cmp", "SLT", "SLTU", "mul"}
SafeInst == [op : SafeOp, dst : Operand, src : Operand]
Safe == Seq(SafeInst)

LEMMA SafeFacts ==
    /\ Safe \subseteq Code
    /\ Nothing \in Safe
    /\ \A c, d \in Safe : c \o d \in Safe
    /\ \A op \in SafeOp : \A d, a \in Operand : Op(op, d, a) \in Safe
    /\ \A d, a \in Operand : Mov(d, a) \in Safe
<1>1. SafeInst \subseteq HostInst
  BY DEF SafeInst, HostInst, SafeOp, HostOp
<1>2. Safe \subseteq Code
  <2> SUFFICES ASSUME NEW c \in Safe PROVE c \in Code
    OBVIOUS
  <2>1. c \in Seq(SafeInst)
    BY DEF Safe
  <2> QED
    BY <1>1, <2>1 DEF Code
<1>3. Nothing \in Safe /\ \A c, d \in Safe : c \o d \in Safe
  BY DEF Nothing, Safe
<1>4. ASSUME NEW op \in SafeOp, NEW d \in Operand, NEW a \in Operand
      PROVE  Op(op, d, a) \in Safe
  <2>1. [op |-> op, dst |-> d, src |-> a] \in SafeInst
    BY DEF SafeInst
  <2> QED
    BY <2>1 DEF Op, Safe
<1>5. "mov" \in SafeOp
  BY DEF SafeOp
<1> QED
  BY <1>2, <1>3, <1>4, <1>5 DEF Mov

LEMMA EmitTyped ==
    ASSUME NEW st \in HostState, NEW i \in SafeInst
    PROVE  Emit(st, i) \in HostState
<1> DEFINE op == i.op
           d == i.dst
           a == i.src
<1>1. i = Ins(op, d, a) /\ op \in SafeOp /\ d \in Operand /\ a \in Operand
  BY DEF SafeInst, Ins
<1> HIDE DEF op, d, a
<1>2. CASE ~Fits(d, a)
  BY <1>1, <1>2, EmitSkips
<1>3. CASE Fits(d, a)
  <2>1. CASE op = "mov"
    BY <1>1, <1>3, <2>1, EmitMov DEF Put
  <2>2. CASE op = "cmp"
    BY <1>1, <1>3, <2>2, EmitCmp
  <2>3. CASE op = "mul"
    BY <1>1, <1>3, <2>3, EmitMul
  <2>4. CASE op \in {"SLT", "SLTU"}
    BY <1>1, <1>3, <2>4, EmitSet DEF Put
  <2>5. CASE op \in Plain
    BY <1>1, <1>3, <2>5, EmitPlain DEF Put
  <2> QED
    BY <1>1, <2>1, <2>2, <2>3, <2>4, <2>5 DEF SafeOp
<1> QED
  BY <1>2, <1>3

LEMMA RunTyped ==
    ASSUME NEW st \in HostState, NEW c \in Safe
    PROVE  Run(st, c) \in HostState
<1> DEFINE n == Len(c)
<1>1. n \in Nat /\ \A k \in 1 .. n : c[k] \in SafeInst
  BY DEF Safe
<1>2. PICK f : IsRun(f, st, c)
  BY <1>1, RunExists
<1>3. Run(st, c) = f[n]
  BY <1>1, <1>2, RunIs
<1>4. f[0] = st /\ \A k \in 1 .. n : f[k] = Emit(f[k - 1], c[k])
  <2>1. \A k \in 1 .. n : k \in 0 .. n /\ k # 0
    OBVIOUS
  <2>2. 0 \in 0 .. n
    BY <1>1
  <2> QED
    BY <1>2, <2>1, <2>2 DEF IsRun
<1> HIDE DEF n
<1> DEFINE T == {k \in 0 .. n : f[k] \notin HostState}
<1>5. T = {}
  <2> SUFFICES ASSUME T # {} PROVE FALSE
    OBVIOUS
  <2>1. T \subseteq Nat
    OBVIOUS
  <2>2. \E k \in T : \A j \in T : k <= j
    <3> HIDE DEF T
    <3> QED
      BY <2>1, LeastOf
  <2>3. PICK k \in T : \A j \in T : k <= j
    BY <2>2
  <2>4. k \in 0 .. n /\ f[k] \notin HostState
    OBVIOUS
  <2>5. k # 0
    BY <1>4, <2>4
  <2>6. k \in 1 .. n /\ f[k - 1] \in HostState
    BY <1>1, <2>3, <2>4, <2>5
  <2>7. c[k] \in SafeInst /\ f[k] = Emit(f[k - 1], c[k])
    BY <1>1, <1>4, <2>6
  <2> QED
    BY <2>4, <2>6, <2>7, EmitTyped
<1> QED
  BY <1>1, <1>3, <1>5

LEMMA MovPuts ==
    ASSUME NEW st \in HostState, NEW d \in Operand, NEW a \in Operand
    PROVE  /\ Mov(d, a) \in Safe /\ Run(st, Mov(d, a)) \in HostState
           /\ Fits(d, a) => Put(st, Run(st, Mov(d, a)), d, Value(st, a), {})
           /\ ~Fits(d, a) => Run(st, Mov(d, a)) = st
<1>1. Mov(d, a) \in Safe
  BY SafeFacts
<1>2. Run(st, Mov(d, a)) = Emit(st, Ins("mov", d, a))
  <2>1. "mov" \in HostOp
    BY DEF HostOp
  <2> QED
    BY <2>1, OpFacts DEF Mov
<1>3. Run(st, Mov(d, a)) \in HostState
  BY <1>1, RunTyped
<1> QED
  BY <1>1, <1>2, <1>3, EmitMov, EmitSkips

LEMMA OpPuts ==
    ASSUME NEW st \in HostState, NEW op \in Plain, NEW d \in Operand, NEW a \in Operand
    PROVE  /\ Op(op, d, a) \in Safe /\ Run(st, Op(op, d, a)) \in HostState
           /\ Fits(d, a) =>
                Put(st, Run(st, Op(op, d, a)), d, Compute(op, Value(st, d), Value(st, a)), {})
           /\ ~Fits(d, a) => Run(st, Op(op, d, a)) = st
<1>1. op \in SafeOp /\ op \in HostOp
  BY DEF SafeOp, HostOp
<1>2. Op(op, d, a) \in Safe
  BY <1>1, SafeFacts
<1>3. Run(st, Op(op, d, a)) = Emit(st, Ins(op, d, a))
  BY <1>1, OpFacts
<1>4. Run(st, Op(op, d, a)) \in HostState
  BY <1>2, RunTyped
<1> QED
  BY <1>2, <1>3, <1>4, EmitPlain, EmitSkips

LEMMA SafeConcat ==
    ASSUME NEW c \in Safe, NEW d \in Safe, NEW st \in HostState
    PROVE  /\ c \o d \in Safe /\ Run(st, c) \in HostState
           /\ Run(st, c \o d) = Run(Run(st, c), d)
<1>1. c \in Code /\ d \in Code
  BY SafeFacts
<1> QED
  BY <1>1, SafeFacts, ConcatFacts, RunTyped

LEMMA MovViaPuts ==
    ASSUME NEW st \in HostState, NEW d \in Operand, NEW a \in Operand
    PROVE  /\ MovVia(d, a) \in Safe /\ Run(st, MovVia(d, a)) \in HostState
           /\ Put(st, Run(st, MovVia(d, a)), d, Value(st, a), {T1})
<1>0. T1 \in Operand /\ IsReg(T1) /\ T1 \in Loc /\ ~IsMem(T1)
  BY ScratchFacts, LocFacts
<1>1. CASE IsReg(d) \/ IsReg(a)
  <2>1. MovVia(d, a) = Mov(d, a)
    BY <1>1 DEF MovVia
  <2>2. CASE Fits(d, a)
    BY <2>1, <2>2, MovPuts DEF Put
  <2>3. CASE ~Fits(d, a)
    <3>1. d \notin Loc
      BY <1>1, <2>3, LocFacts DEF Fits
    <3>2. Run(st, MovVia(d, a)) = st
      BY <2>1, <2>3, MovPuts
    <3> QED
      BY <2>1, <3>1, <3>2, MovPuts DEF Put
  <2> QED
    BY <2>2, <2>3
<1>2. CASE ~(IsReg(d) \/ IsReg(a))
  <2> DEFINE s1 == Run(st, Mov(T1, a))
             s2 == Run(s1, Mov(d, T1))
  <2>1. MovVia(d, a) = Mov(T1, a) \o Mov(d, T1)
    BY <1>2 DEF MovVia
  <2>2. Mov(T1, a) \in Safe /\ Mov(d, T1) \in Safe
    BY <1>0, SafeFacts
  <2>3. MovVia(d, a) \in Safe /\ Run(st, MovVia(d, a)) = s2 /\ s1 \in HostState
    BY <2>1, <2>2, SafeConcat
  <2>4. Put(st, s1, T1, Value(st, a), {})
    BY <1>0, MovPuts DEF Fits
  <2> HIDE DEF s1
  <2>5. s2 \in HostState
    BY <1>0, <2>3, MovPuts
  <2>6. CASE d \in Loc
    <3>1. Put(s1, s2, d, Value(s1, T1), {})
      BY <1>0, <2>3, <2>6, MovPuts DEF Fits
    <3> HIDE DEF s2
    <3>2. Value(s1, T1) = Value(st, a)
      BY <1>0, <2>4 DEF Put
    <3>3. Put(st, s2, d, Value(st, a), {T1})
      BY <2>4, <3>1, <3>2 DEF Put
    <3> QED
      BY <2>3, <2>5, <3>3
  <2>7. CASE d \notin Loc
    <3>1. s2 = s1
      BY <1>0, <2>3, <2>7, MovPuts DEF Fits
    <3> HIDE DEF s2
    <3>2. Put(st, s2, d, Value(st, a), {T1})
      BY <2>4, <2>7, <3>1 DEF Put
    <3> QED
      BY <2>3, <2>5, <3>2
  <2> QED
    BY <2>6, <2>7
<1> QED
  BY <1>1, <1>2
-----------------------------------------------------------------------------
(* The operands of a template. *)
LEMMA InstFacts ==
    ASSUME InTrace
    PROVE  /\ inst.op \in DOMAIN Template /\ inst.fn \in Template[inst.op]
           /\ inst.rd \in Reg \union {"x0"} /\ inst.rs1 \in Reg \union {"x0"}
           /\ inst.rs2 \in Reg \union {"x0"} /\ inst.imm \in Val
           /\ cur_inst \in Nat /\ OFFSET \in Nat
<1>1. trace \in Traces /\ cur_inst \in 1 .. Len(trace)
  BY DEF InTrace
<1>2. trace \in Seq(Inst) /\ \A i \in DOMAIN trace : trace[i].fn \in Template[trace[i].op]
  BY <1>1, TracesAssumption
<1>3. cur_inst \in DOMAIN trace /\ cur_inst \in Nat /\ cur_inst >= 1
  BY <1>1, <1>2
<1>4. inst \in Inst
  BY <1>2, <1>3 DEF inst
<1>5. OFFSET \in Nat
  BY <1>3 DEF OFFSET
<1> QED
  BY <1>2, <1>3, <1>4, <1>5 DEF Inst, inst

LEMMA WordFacts ==
    /\ Modulus \in Nat /\ Modulus > 1 /\ 0 \in Val /\ 1 \in Val /\ Modulus - 2 \in Val
    /\ Val \subseteq Nat
    /\ \A n \in Nat : n % Modulus \in Val
<1>1. Modulus \in Nat /\ Modulus > 1
  BY JITAssumption
<1> QED
  BY <1>1 DEF Val

LEMMA RegisterFacts ==
    ASSUME IInv, NEW g \in Reg \union {"x0"}
    PROVE  /\ getReg(g) \in Operand
           /\ getReg(g) \notin {T1, T2, PC}
           /\ g = "x0" => getReg(g) = Imm(0) /\ getReg(g) \notin Loc
           /\ g # "x0" => getReg(g) = Where(pre.map, g) /\ getReg(g) \in Loc
<1>0. Exact(pre.map, pre.pool)
  BY PreKeeps
<1>1. CASE g = "x0"
  <2>1. getReg(g) = Imm(0)
    BY <1>1 DEF getReg
  <2>2. Imm(0) \in Operand /\ Imm(0) \notin Loc
    BY WordFacts, LocFacts
  <2> QED
    BY <1>1, <2>1, <2>2, ScratchFacts
<1>2. CASE g # "x0"
  <2>1. g \in Reg
    BY <1>2
  <2>2. getReg(g) = Where(pre.map, g)
    BY <1>2 DEF getReg, Where
  <2> QED
    BY <1>0, <1>2, <2>1, <2>2, WhereFacts
<1> QED
  BY <1>1, <1>2

LEMMA OperandFacts ==
    ASSUME InTrace, IInv
    PROVE  /\ RS1 \in Operand /\ RS2 \in Operand /\ RD \in Operand
           /\ IMM \in Operand /\ IMM \notin Loc /\ ~IsMem(IMM) /\ \A st : Value(st, IMM) = inst.imm
           /\ RS1 \notin {T1, T2, PC} /\ RS2 \notin {T1, T2, PC} /\ RD \notin {T1, T2, PC}
           /\ RD \in Loc <=> inst.rd # "x0"
           /\ RS1 \in Loc <=> inst.rs1 # "x0"
           /\ RS2 \in Loc <=> inst.rs2 # "x0"
           /\ \A st : inst.rs1 = "x0" => Value(st, RS1) = 0
           /\ \A st : inst.rs2 = "x0" => Value(st, RS2) = 0
           /\ RD = RS1 <=> inst.rd = inst.rs1
           /\ RD = RS2 <=> inst.rd = inst.rs2
           /\ \A g \in Reg : g # inst.rd => Where(pre.map, g) \in Loc \ {RD, T1, T2, PC}
<1>0. /\ inst.rd \in Reg \union {"x0"} /\ inst.rs1 \in Reg \union {"x0"}
      /\ inst.rs2 \in Reg \union {"x0"} /\ inst.imm \in Val
  BY InstFacts
<1>1. Exact(pre.map, pre.pool)
  BY PreKeeps
<1>2. /\ RS1 \in Operand /\ RS2 \in Operand /\ RD \in Operand
      /\ RS1 \notin {T1, T2, PC} /\ RS2 \notin {T1, T2, PC} /\ RD \notin {T1, T2, PC}
      /\ RD \in Loc <=> inst.rd # "x0"
      /\ RS1 \in Loc <=> inst.rs1 # "x0"
      /\ RS2 \in Loc <=> inst.rs2 # "x0"
  BY <1>0, RegisterFacts DEF RS1, RS2, RD
<1>3. /\ IMM \in Operand /\ IMM \notin Loc /\ ~IsMem(IMM) /\ \A st : Value(st, IMM) = inst.imm
  BY <1>0, LocFacts DEF IMM
<1>4. /\ \A st : inst.rs1 = "x0" => Value(st, RS1) = 0
      /\ \A st : inst.rs2 = "x0" => Value(st, RS2) = 0
  BY <1>0, RegisterFacts, LocFacts, WordFacts DEF RS1, RS2
<1>5. ASSUME NEW g \in Reg \union {"x0"}, NEW h \in Reg \union {"x0"}, getReg(g) = getReg(h)
      PROVE  g = h
  <2>1. CASE g = "x0" \/ h = "x0"
    BY <1>5, <2>1, RegisterFacts
  <2>2. CASE g # "x0" /\ h # "x0"
    <3>1. g \in Reg /\ h \in Reg /\ Where(pre.map, g) = Where(pre.map, h)
      BY <1>5, <2>2, RegisterFacts
    <3> QED
      BY <1>1, <3>1, WhereFacts
  <2> QED
    BY <2>1, <2>2
<1>6. (RD = RS1 <=> inst.rd = inst.rs1) /\ (RD = RS2 <=> inst.rd = inst.rs2)
  BY <1>0, <1>5 DEF RD, RS1, RS2
<1>7. ASSUME NEW g \in Reg, g # inst.rd
      PROVE  Where(pre.map, g) \in Loc \ {RD, T1, T2, PC}
  <2>1. g # "x0"
    BY JITAssumption
  <2>2. getReg(g) = Where(pre.map, g) /\ getReg(g) # RD
    BY <1>0, <1>5, <1>7, <2>1, RegisterFacts DEF RD
  <2> QED
    BY <1>1, <2>2, WhereFacts
<1> QED
  BY <1>2, <1>3, <1>4, <1>6, <1>7

(* A template that computes a register: v is in RD, the scratch registers   *)
(* are free to change, and nothing else has.                                *)
Sets(st, new, v) ==
    /\ new \in HostState
    /\ new.mem = st.mem
    /\ RD \in Loc => Value(new, RD) = v
    /\ \A o \in Loc : o \notin {RD, T1, T2} => Value(new, o) = Value(st, o)

(* An operand that is not written keeps its value, an immediate always. *)
LEMMA PutValue ==
    ASSUME NEW st, NEW new, NEW d, NEW v, NEW D, Put(st, new, d, v, D),
           NEW o \in Operand, o # d \/ o \notin Loc, o \notin D \/ o \notin Loc
    PROVE  Value(new, o) = Value(st, o)
<1>1. CASE o \in Loc
  BY <1>1 DEF Put
<1>2. CASE o \notin Loc
  BY <1>2, LocFacts DEF Value
<1> QED
  BY <1>1, <1>2

LEMMA NothingSets ==
    ASSUME NEW st \in HostState, RD \notin Loc, NEW v
    PROVE  Nothing \in Safe /\ Sets(st, Run(st, Nothing), v)
  BY SafeFacts, NothingFacts DEF Sets

LEMMA ImmTypeRuns ==
    ASSUME InTrace, IInv, NEW st \in HostState, inst.fn \in Plain
    PROVE  /\ ImmType \in Safe
           /\ Sets(st, Run(st, ImmType), Compute(inst.fn, Value(st, RS1), inst.imm))
<1>1. CASE inst.rd = "x0"
  <2>1. ImmType = Nothing /\ RD \notin Loc
    BY <1>1, OperandFacts DEF ImmType
  <2> QED
    BY <2>1, NothingSets
<1>2. CASE inst.rd # "x0"
  <2> DEFINE F == IF RD # RS1 THEN MovVia(RD, RS1) ELSE Nothing
             G == Op(inst.fn, RD, IMM)
             s1 == Run(st, F)
             s2 == Run(s1, G)
  <2>0. ImmType = F \o G /\ RD \in Loc /\ RS1 \in Operand /\ RD \in Operand /\ RD # T1
    BY <1>2, OperandFacts DEF ImmType
  <2>1. F \in Safe /\ s1 \in HostState /\ Put(st, s1, RD, Value(st, RS1), {T1})
    <3>1. CASE RD # RS1
      BY <2>0, <3>1, MovViaPuts
    <3>2. CASE RD = RS1
      <4>1. F = Nothing /\ s1 = st
        BY <3>2, NothingFacts
      <4> QED
        BY <3>2, <4>1, SafeFacts DEF Put
    <3> QED
      BY <3>1, <3>2
  <2> HIDE DEF F, s1
  <2>2. Fits(RD, IMM) /\ IMM \in Operand
    BY <2>0, OperandFacts DEF Fits
  <2>3. G \in Safe /\ Put(s1, s2, RD, Compute(inst.fn, Value(s1, RD), Value(s1, IMM)), {})
    BY <2>0, <2>1, <2>2, OpPuts
  <2>4. ImmType \in Safe /\ Run(st, ImmType) = s2
    BY <2>0, <2>1, <2>3, SafeConcat DEF s1
  <2> HIDE DEF G, s2
  <2>5. Value(s1, RD) = Value(st, RS1) /\ Value(s1, IMM) = inst.imm
    BY <2>0, <2>1, OperandFacts DEF Put
  <2>6. Sets(st, s2, Compute(inst.fn, Value(st, RS1), inst.imm))
    BY <2>1, <2>3, <2>5 DEF Put, Sets
  <2> QED
    BY <2>4, <2>6
<1> QED
  BY <1>1, <1>2

LEMMA PutSets ==
    ASSUME NEW st, NEW new, NEW v, Put(st, new, RD, v, {T1})
    PROVE  Sets(st, new, v)
  BY DEF Put, Sets

LEMMA ADDIRuns ==
    ASSUME InTrace, IInv, NEW st \in HostState, inst.fn = "ADD"
    PROVE  /\ ADDI \in Safe
           /\ Sets(st, Run(st, ADDI), Compute(inst.fn, Value(st, RS1), inst.imm))
<1>0. /\ inst.imm \in Val /\ RS1 \in Operand /\ RD \in Operand /\ IMM \in Operand
      /\ ~IsMem(IMM) /\ Value(st, IMM) = inst.imm
  BY InstFacts, OperandFacts
<1>1. Value(st, RS1) \in Val
  BY <1>0, ValueTyped
<1>2. Compute("ADD", Value(st, RS1), inst.imm) = (Value(st, RS1) + inst.imm) % Modulus
  BY <1>0, <1>1, ComputeAssumption
<1>3. CASE inst.rs1 = "x0"
  <2>1. ADDI = Mov(RD, IMM)
    BY <1>3 DEF ADDI
  <2>2. Value(st, RS1) = 0
    BY <1>3, OperandFacts
  <2>3. (0 + inst.imm) % Modulus = inst.imm
    BY <1>0, WordFacts DEF Val
  <2>4. CASE RD \in Loc
    <3>1. Put(st, Run(st, Mov(RD, IMM)), RD, inst.imm, {})
      BY <1>0, <2>4, MovPuts DEF Fits
    <3>2. Put(st, Run(st, Mov(RD, IMM)), RD, inst.imm, {T1})
      BY <3>1 DEF Put
    <3> QED
      BY <1>0, <1>2, <2>1, <2>2, <2>3, <3>2, PutSets, MovPuts
  <2>5. CASE RD \notin Loc
    <3>1. Run(st, Mov(RD, IMM)) = st /\ Mov(RD, IMM) \in Safe
      BY <1>0, <2>5, MovPuts DEF Fits
    <3> QED
      BY <2>1, <2>5, <3>1 DEF Sets
  <2> QED
    BY <2>4, <2>5
<1>4. CASE inst.rs1 # "x0" /\ inst.imm = 0
  <2>1. ADDI = MovVia(RD, RS1)
    BY <1>4 DEF ADDI
  <2>2. (Value(st, RS1) + 0) % Modulus = Value(st, RS1)
    BY <1>1, WordFacts DEF Val
  <2>3. MovVia(RD, RS1) \in Safe /\ Put(st, Run(st, MovVia(RD, RS1)), RD, Value(st, RS1), {T1})
    BY <1>0, MovViaPuts
  <2> QED
    BY <1>2, <1>4, <2>1, <2>2, <2>3, PutSets
<1>5. CASE inst.rs1 # "x0" /\ inst.imm # 0
  <2>1. ADDI = ImmType
    BY <1>5 DEF ADDI
  <2>2. inst.fn \in Plain
    BY DEF Plain
  <2> QED
    BY <2>1, <2>2, ImmTypeRuns
<1> QED
  BY <1>3, <1>4, <1>5
(* Three operands: all but the combination that has no encoding. *)
LEMMA RegTypeRuns ==
    ASSUME InTrace, IInv, NEW st \in HostState, inst.fn \in Plain
    PROVE  /\ RegType \in Safe
           /\ \/ /\ inst.rd # "x0" /\ RD # RS1 /\ RD # RS2
                 /\ IsMem(RD) /\ ~IsMem(RS1) /\ IsMem(RS2)
              \/ Sets(st, Run(st, RegType), Compute(inst.fn, Value(st, RS1), Value(st, RS2)))
<1> DEFINE v1 == Value(st, RS1)
           v2 == Value(st, RS2)
           v == Compute(inst.fn, v1, v2)
<1>0. /\ RS1 \in Operand /\ RS2 \in Operand /\ RD \in Operand
      /\ RS1 # T1 /\ RS2 # T1 /\ RD # T1
      /\ RD \in Loc <=> inst.rd # "x0"
  BY OperandFacts
<1>1. T1 \in Operand /\ T1 \in Loc /\ IsReg(T1) /\ ~IsMem(T1)
  BY ScratchFacts, LocFacts
<1>2. CASE inst.rd = "x0"
  <2>1. RegType = Nothing /\ RD \notin Loc
    BY <1>0, <1>2 DEF RegType
  <2> QED
    BY <2>1, NothingSets
<1>3. CASE inst.rd # "x0" /\ RD = RS1 /\ (IsReg(RD) \/ IsReg(RS2))
  <2>1. RegType = Op(inst.fn, RD, RS2)
    BY <1>3 DEF RegType
  <2>2. Fits(RD, RS2)
    BY <1>0, <1>3, LocFacts DEF Fits, IsReg, IsMem
  <2>3. Put(st, Run(st, RegType), RD, v, {}) /\ RegType \in Safe
    BY <1>0, <1>3, <2>1, <2>2, OpPuts
  <2> QED
    BY <2>3 DEF Put, Sets
<1>4. CASE inst.rd # "x0" /\ RD = RS1 /\ ~(IsReg(RD) \/ IsReg(RS2))
  <2> DEFINE F == Mov(T1, RS2)
             G == Op(inst.fn, RD, T1)
             s1 == Run(st, F)
             s2 == Run(s1, G)
  <2>1. RegType = F \o G
    BY <1>4 DEF RegType
  <2>2. F \in Safe /\ s1 \in HostState /\ Put(st, s1, T1, v2, {})
    BY <1>0, <1>1, MovPuts DEF Fits
  <2> HIDE DEF F, s1
  <2>3. Fits(RD, T1)
    BY <1>0, <1>1, <1>4 DEF Fits
  <2>4. G \in Safe /\ Put(s1, s2, RD, Compute(inst.fn, Value(s1, RD), Value(s1, T1)), {})
    BY <1>0, <1>1, <2>2, <2>3, OpPuts
  <2>5. RegType \in Safe /\ Run(st, RegType) = s2
    BY <2>1, <2>2, <2>4, SafeConcat DEF s1
  <2> HIDE DEF G, s2
  <2>6. Value(s1, RD) = v1 /\ Value(s1, T1) = v2
    BY <1>0, <1>1, <1>4, <2>2 DEF Put
  <2>7. Sets(st, s2, v)
    BY <2>2, <2>4, <2>6 DEF Put, Sets
  <2> QED
    BY <2>5, <2>7
<1>5. CASE inst.rd # "x0" /\ RD # RS1 /\ RD # RS2 /\ (IsReg(RD) \/ ~IsMem(RS1))
  <2> DEFINE F == Mov(RD, RS1)
             G == Op(inst.fn, RD, RS2)
             s1 == Run(st, F)
             s2 == Run(s1, G)
  <2>1. RegType = F \o G
    BY <1>5 DEF RegType
  <2>2. Fits(RD, RS1)
    BY <1>0, <1>5, LocFacts DEF Fits
  <2>3. F \in Safe /\ s1 \in HostState /\ Put(st, s1, RD, v1, {})
    BY <1>0, <2>2, MovPuts
  <2> HIDE DEF F, s1
  <2>4. G \in Safe /\ s2 \in HostState
    BY <1>0, <2>3, OpPuts
  <2>5. RegType \in Safe /\ Run(st, RegType) = s2
    BY <2>1, <2>3, <2>4, SafeConcat DEF s1
  <2>6. CASE IsMem(RD) /\ IsMem(RS2)
    <3>1. ~IsMem(RS1)
      BY <1>0, <1>5, <2>6, LocFacts
    <3> QED
      BY <1>5, <2>5, <2>6, <3>1
  <2>7. CASE ~(IsMem(RD) /\ IsMem(RS2))
    <3>1. Fits(RD, RS2)
      BY <1>0, <1>5, <2>7 DEF Fits
    <3>2. Put(s1, s2, RD, Compute(inst.fn, Value(s1, RD), Value(s1, RS2)), {})
      BY <1>0, <2>3, <3>1, OpPuts
    <3> HIDE DEF G, s2
    <3>3. Value(s1, RD) = v1
      BY <1>0, <1>5, <2>3 DEF Put
    <3>4. Value(s1, RS2) = v2
      BY <1>0, <1>5, <2>3, PutValue
    <3>5. Sets(st, s2, v)
      BY <2>3, <3>2, <3>3, <3>4 DEF Put, Sets
    <3> QED
      BY <2>5, <3>5
  <2> QED
    BY <2>6, <2>7
<1>6. CASE inst.rd # "x0" /\ RD # RS1 /\ ~(RD # RS2 /\ (IsReg(RD) \/ ~IsMem(RS1)))
  <2> DEFINE F == Mov(T1, RS1)
             G == Op(inst.fn, T1, RS2)
             H == Mov(RD, T1)
             s1 == Run(st, F)
             s2 == Run(s1, G)
             s3 == Run(s2, H)
  <2>1. RegType = F \o G \o H
    BY <1>6 DEF RegType
  <2>2. F \in Safe /\ s1 \in HostState /\ Put(st, s1, T1, v1, {})
    BY <1>0, <1>1, MovPuts DEF Fits
  <2> HIDE DEF F, s1
  <2>3. Fits(T1, RS2) /\ Fits(RD, T1)
    BY <1>0, <1>1, <1>6 DEF Fits
  <2>4. /\ G \in Safe /\ s2 \in HostState
        /\ Put(s1, s2, T1, Compute(inst.fn, Value(s1, T1), Value(s1, RS2)), {})
    BY <1>0, <1>1, <2>2, <2>3, OpPuts
  <2> HIDE DEF G, s2
  <2>5. H \in Safe /\ Put(s2, s3, RD, Value(s2, T1), {})
    BY <1>0, <1>1, <2>3, <2>4, MovPuts
  <2>6. F \o G \in Safe /\ Run(st, F \o G) = s2
    BY <2>2, <2>4, SafeConcat DEF s1, s2
  <2>7. RegType \in Safe /\ Run(st, RegType) = s3
    BY <2>1, <2>5, <2>6, SafeConcat
  <2> HIDE DEF H, s3
  <2>8. Value(s1, T1) = v1 /\ Value(s1, RS2) = v2
    BY <1>0, <1>1, <2>2, PutValue DEF Put
  <2>9. Value(s2, T1) = v
    BY <1>1, <2>4, <2>8 DEF Put
  <2>10. Sets(st, s3, v)
    BY <2>2, <2>4, <2>5, <2>9 DEF Put, Sets
  <2> QED
    BY <2>7, <2>10
<1> QED
  BY <1>2, <1>3, <1>4, <1>5, <1>6

LEMMA ADDRuns ==
    ASSUME InTrace, IInv, NEW st \in HostState, inst.fn = "ADD"
    PROVE  /\ ADD \in Safe
           /\ \/ /\ inst.rd # "x0" /\ RD # RS1 /\ RD # RS2
                 /\ IsMem(RD) /\ ~IsMem(RS1) /\ IsMem(RS2)
              \/ Sets(st, Run(st, ADD), Compute(inst.fn, Value(st, RS1), Value(st, RS2)))
<1> DEFINE a == IF inst.rs1 # "x0" THEN RS1 ELSE RS2
           F == IF inst.rs1 = "x0" \/ inst.rs2 = "x0" THEN MovVia(RD, a) ELSE Nothing
           s1 == Run(st, F)
           s2 == Run(s1, RegType)
<1>0. /\ RS1 \in Operand /\ RS2 \in Operand /\ RD \in Operand /\ a \in Operand
      /\ RS1 # T1 /\ RS2 # T1 /\ RD # T1
      /\ RS1 \in Loc <=> inst.rs1 # "x0"
      /\ RS2 \in Loc <=> inst.rs2 # "x0"
  BY OperandFacts
<1>1. ADD = F \o RegType
  BY DEF ADD
<1>2. inst.fn \in Plain
  BY DEF Plain
<1>3. /\ F \in Safe /\ s1 \in HostState
      /\ Value(s1, RS1) = Value(st, RS1) /\ Value(s1, RS2) = Value(st, RS2)
      /\ s1.mem = st.mem
      /\ \A o \in Loc : o \notin {RD, T1} => Value(s1, o) = Value(st, o)
  <2>1. CASE inst.rs1 = "x0" \/ inst.rs2 = "x0"
    <3>1. F \in Safe /\ s1 \in HostState /\ Put(st, s1, RD, Value(st, a), {T1})
      BY <1>0, <2>1, MovViaPuts
    <3> HIDE DEF s1
    <3>2. \A o \in {RS1, RS2} : o \notin Loc \/ o = a
      BY <1>0, <2>1
    <3>3. ASSUME NEW o \in {RS1, RS2}
          PROVE  Value(s1, o) = Value(st, o)
      <4>1. CASE o \notin Loc \/ o # RD
        BY <1>0, <3>1, <4>1, PutValue
      <4>2. CASE o \in Loc /\ o = RD
        BY <3>1, <3>2, <4>2 DEF Put
      <4> QED
        BY <4>1, <4>2
    <3> QED
      BY <3>1, <3>3 DEF Put
  <2>2. CASE ~(inst.rs1 = "x0" \/ inst.rs2 = "x0")
    <3>1. F = Nothing /\ s1 = st
      BY <2>2, NothingFacts
    <3> QED
      BY <3>1, SafeFacts
  <2> QED
    BY <2>1, <2>2
<1> HIDE DEF F, s1
<1>4. /\ RegType \in Safe
      /\ \/ /\ inst.rd # "x0" /\ RD # RS1 /\ RD # RS2
            /\ IsMem(RD) /\ ~IsMem(RS1) /\ IsMem(RS2)
         \/ Sets(s1, s2, Compute(inst.fn, Value(s1, RS1), Value(s1, RS2)))
  BY <1>2, <1>3, RegTypeRuns
<1>5. ADD \in Safe /\ Run(st, ADD) = s2
  BY <1>1, <1>3, <1>4, SafeConcat DEF s1
<1> HIDE DEF s2
<1> QED
  BY <1>3, <1>4, <1>5 DEF Sets
LEMMA ShiftRuns ==
    ASSUME InTrace, IInv, NEW st \in HostState, inst.fn \in Shifts
    PROVE  /\ Shift \in Safe
           /\ \/ /\ inst.rd # "x0" /\ inst.rs2 # "x0"
                 /\ (inst.rd = inst.rs2 /\ inst.rd # inst.rs1) \/ RD = ECX
              \/ Sets(st, Run(st, Shift), Compute(inst.fn, Value(st, RS1), Value(st, RS2)))
<1> DEFINE v1 == Value(st, RS1)
           v2 == Value(st, RS2)
           v == Compute(inst.fn, v1, v2)
<1>0. /\ RS1 \in Operand /\ RS2 \in Operand /\ RD \in Operand
      /\ RS1 # T1 /\ RS2 # T1 /\ RD # T1
      /\ RD \in Loc <=> inst.rd # "x0"
      /\ RS2 \in Loc <=> inst.rs2 # "x0"
      /\ inst.rs2 = "x0" => v2 = 0
      /\ RD = RS1 <=> inst.rd = inst.rs1
      /\ RD = RS2 <=> inst.rd = inst.rs2
  BY OperandFacts
<1>1. /\ T1 \in Operand /\ T1 \in Loc /\ IsReg(T1) /\ ~IsMem(T1)
      /\ ECX \in Operand /\ ECX \in Loc /\ IsReg(ECX) /\ ~IsMem(ECX) /\ ECX # T1
  BY ScratchFacts, LocFacts
<1>2. inst.fn \in Plain
  BY DEF Plain
<1>3. CASE inst.rd = "x0"
  <2>1. Shift = Nothing /\ RD \notin Loc
    BY <1>0, <1>3 DEF Shift
  <2> QED
    BY <2>1, NothingSets
<1>4. CASE inst.rd # "x0"
  <2> DEFINE dst == IF IsMem(RD) THEN T1 ELSE RD
             F == IF dst # RS1 THEN Mov(dst, RS1) ELSE Nothing
             G == IF IsMem(RD) THEN Mov(RD, T1) ELSE Nothing
             c1 == Mov(T1, ECX)
             c2 == Mov(ECX, RS2)
             c3 == Op(inst.fn, RD, ECX)
             c4 == Mov(ECX, T1)
             H == IF inst.rs2 = "x0" THEN Nothing ELSE c1 \o c2 \o c3 \o c4
             s1 == Run(st, F)
             s2 == Run(s1, G)
             t1 == Run(s2, c1)
             t2 == Run(t1, c2)
             t3 == Run(t2, c3)
             t4 == Run(t3, c4)
  <2>1. Shift = F \o G \o H
    BY <1>4 DEF Shift
  <2>2. RD \in Loc /\ dst \in Operand /\ dst \in Loc /\ ~IsMem(dst)
    BY <1>0, <1>1, <1>4
  <2>3. F \in Safe /\ s1 \in HostState /\ Put(st, s1, dst, v1, {})
    <3>1. CASE dst # RS1
      BY <1>0, <2>2, <3>1, MovPuts DEF Fits
    <3>2. CASE dst = RS1
      <4>1. F = Nothing /\ s1 = st
        BY <3>2, NothingFacts
      <4> QED
        BY <3>2, <4>1, SafeFacts DEF Put
    <3> QED
      BY <3>1, <3>2
  <2> HIDE DEF F, s1
  <2>4. G \in Safe /\ s2 \in HostState /\ Put(st, s2, RD, v1, {T1})
    <3>1. CASE IsMem(RD)
      <4>1. G = Mov(RD, T1) /\ Fits(RD, T1)
        BY <1>1, <2>2, <3>1 DEF Fits
      <4>2. G \in Safe /\ s2 \in HostState /\ Put(s1, s2, RD, Value(s1, T1), {})
        BY <1>0, <1>1, <2>3, <4>1, MovPuts
      <4> HIDE DEF G, s2
      <4>3. Put(st, s1, T1, v1, {}) /\ Value(s1, T1) = v1
        BY <1>1, <2>3, <3>1 DEF Put
      <4>4. Put(st, s2, RD, v1, {T1})
        BY <4>2, <4>3 DEF Put
      <4> QED
        BY <4>2, <4>4
    <3>2. CASE ~IsMem(RD)
      <4>1. G = Nothing /\ s2 = s1 /\ dst = RD
        BY <3>2, NothingFacts
      <4> QED
        BY <2>3, <4>1, SafeFacts DEF Put
    <3> QED
      BY <3>1, <3>2
  <2> HIDE DEF G, s2, dst
  <2>5. F \o G \in Safe /\ Run(st, F \o G) = s2
    BY <2>3, <2>4, SafeConcat DEF s1, s2
  <2>6. Value(s2, RD) = v1
    BY <2>2, <2>4 DEF Put
  <2>7. CASE inst.rs2 = "x0"
    <3>1. H = Nothing
      BY <2>7
    <3> HIDE DEF H
    <3>2. Nothing \in Safe /\ Run(s2, Nothing) = s2
      BY SafeFacts, NothingFacts
    <3>3. Shift \in Safe /\ Run(st, Shift) = s2
      BY <2>1, <2>5, <3>1, <3>2, SafeConcat
    <3>4. v1 \in Val
      BY <1>0, ValueTyped
    <3>5. v = v1
      BY <1>0, <2>7, <3>4, ComputeAssumption
    <3> QED
      BY <2>4, <3>3, <3>5 DEF Put, Sets
  <2>8. CASE inst.rs2 # "x0"
    <3>0. H = c1 \o c2 \o c3 \o c4
      BY <2>8
    <3> HIDE DEF H
    <3>1. Fits(T1, ECX) /\ Fits(ECX, RS2) /\ Fits(RD, ECX) /\ Fits(ECX, T1)
      BY <1>0, <1>1, <2>2 DEF Fits
    <3>2. c1 \in Safe /\ t1 \in HostState /\ Put(s2, t1, T1, Value(s2, ECX), {})
      BY <1>0, <1>1, <2>4, <3>1, MovPuts
    <3> HIDE DEF c1, t1
    <3>3. c2 \in Safe /\ t2 \in HostState /\ Put(t1, t2, ECX, Value(t1, RS2), {})
      BY <1>0, <1>1, <3>1, <3>2, MovPuts
    <3> HIDE DEF c2, t2
    <3>4. /\ c3 \in Safe /\ t3 \in HostState
          /\ Put(t2, t3, RD, Compute(inst.fn, Value(t2, RD), Value(t2, ECX)), {})
      BY <1>0, <1>1, <1>2, <3>1, <3>3, OpPuts
    <3> HIDE DEF c3, t3
    <3>5. c4 \in Safe /\ t4 \in HostState /\ Put(t3, t4, ECX, Value(t3, T1), {})
      BY <1>0, <1>1, <3>1, <3>4, MovPuts
    <3> HIDE DEF c4, t4
    <3>6. c1 \o c2 \in Safe /\ Run(s2, c1 \o c2) = t2
      BY <2>4, <3>2, <3>3, SafeConcat DEF t1, t2
    <3>7. c1 \o c2 \o c3 \in Safe /\ Run(s2, c1 \o c2 \o c3) = t3
      BY <2>4, <3>6, <3>4, SafeConcat DEF t3
    <3>8. H \in Safe /\ Run(s2, H) = t4
      BY <2>4, <3>0, <3>7, <3>5, SafeConcat DEF t4
    <3>9. Shift \in Safe /\ Run(st, Shift) = t4
      BY <2>1, <2>5, <3>8, SafeConcat
    <3>10. CASE ~((inst.rd = inst.rs2 /\ inst.rd # inst.rs1) \/ RD = ECX)
      <4>1. RD # ECX /\ (RS2 = RD => RS1 = RD)
        BY <1>0, <3>10
      <4>2. Value(s2, RS2) = v2
        <5>1. CASE RS2 = RD
          BY <2>6, <4>1, <5>1
        <5>2. CASE RS2 # RD
          BY <1>0, <2>4, <5>2, PutValue
        <5> QED
          BY <5>1, <5>2
      <4>3. Value(t1, RS2) = v2
        BY <1>0, <3>2, <4>2, PutValue
      <4>4. Value(t2, ECX) = v2 /\ Value(t2, RD) = v1
        BY <1>0, <1>1, <2>2, <2>6, <3>2, <3>3, <4>1, <4>3 DEF Put
      <4>5. Value(t3, RD) = v /\ Value(t3, T1) = Value(s2, ECX)
        BY <1>0, <1>1, <2>2, <3>2, <3>3, <3>4, <4>1, <4>4 DEF Put
      <4>6. Value(t4, RD) = v /\ Value(t4, ECX) = Value(s2, ECX)
        BY <1>1, <2>2, <3>5, <4>1, <4>5 DEF Put
      <4>7. \A o \in Loc : o \notin {RD, T1, ECX} => Value(t4, o) = Value(s2, o)
        BY <3>2, <3>3, <3>4, <3>5 DEF Put
      <4>8. \A o \in Loc : o \notin {RD, T1} => Value(t4, o) = Value(s2, o)
        BY <4>6, <4>7
      <4>9. t4.mem = st.mem
        BY <2>4, <3>2, <3>3, <3>4, <3>5 DEF Put
      <4>10. Sets(st, t4, v)
        BY <2>4, <3>5, <4>6, <4>8, <4>9 DEF Put, Sets
      <4> QED
        BY <3>9, <4>10
    <3> QED
      BY <1>4, <2>8, <3>9, <3>10
  <2> QED
    BY <2>7, <2>8
<1> QED
  BY <1>3, <1>4

(* cmp, whatever it is given, changes nothing but the flags. *)
LEMMA CmpRuns ==
    ASSUME NEW st \in HostState, NEW d \in Operand, NEW a \in Operand
    PROVE  LET c == Op("cmp", d, a)
           IN  /\ c \in Safe /\ Run(st, c) \in HostState /\ Run(st, c).mem = st.mem
               /\ \A o \in Loc : Value(Run(st, c), o) = Value(st, o)
               /\ Fits(d, a) => Run(st, c).flags = <<Value(st, d), Value(st, a)>>
<1>1. "cmp" \in SafeOp /\ "cmp" \in HostOp
  BY DEF SafeOp, HostOp
<1>2. Op("cmp", d, a) \in Safe /\ Run(st, Op("cmp", d, a)) = Emit(st, Ins("cmp", d, a))
  BY <1>1, SafeFacts, OpFacts
<1>3. CASE Fits(d, a)
  BY <1>2, <1>3, EmitCmp
<1>4. CASE ~Fits(d, a)
  BY <1>2, <1>4, EmitSkips
<1> QED
  BY <1>3, <1>4

LEMMA CompareRuns ==
    ASSUME InTrace, IInv, NEW st \in HostState
    PROVE  LET new == Run(st, Compare)
           IN  /\ Compare \in Safe /\ new \in HostState /\ new.mem = st.mem
               /\ new.flags = <<Value(st, RS1), Value(st, RS2)>>
               /\ \A o \in Loc : o # T1 => Value(new, o) = Value(st, o)
<1>0. /\ RS1 \in Operand /\ RS2 \in Operand /\ RS2 # T1
      /\ T1 \in Operand /\ T1 \in Loc /\ IsReg(T1) /\ ~IsMem(T1)
  BY OperandFacts, ScratchFacts, LocFacts
<1>1. CASE IsReg(RS1)
  <2>1. Compare = Op("cmp", RS1, RS2)
    BY <1>1 DEF Compare
  <2>2. Fits(RS1, RS2)
    BY <1>0, <1>1, LocFacts DEF Fits
  <2> QED
    BY <1>0, <2>1, <2>2, CmpRuns
<1>2. CASE ~IsReg(RS1)
  <2> DEFINE F == Mov(T1, RS1)
             G == Op("cmp", T1, RS2)
             s1 == Run(st, F)
             s2 == Run(s1, G)
  <2>1. Compare = F \o G
    BY <1>2 DEF Compare
  <2>2. F \in Safe /\ s1 \in HostState /\ Put(st, s1, T1, Value(st, RS1), {})
    BY <1>0, MovPuts DEF Fits
  <2> HIDE DEF F, s1
  <2>3. Fits(T1, RS2)
    BY <1>0 DEF Fits
  <2>4. /\ G \in Safe /\ s2 \in HostState /\ s2.mem = s1.mem
        /\ s2.flags = <<Value(s1, T1), Value(s1, RS2)>>
        /\ \A o \in Loc : Value(s2, o) = Value(s1, o)
    BY <1>0, <2>2, <2>3, CmpRuns
  <2>5. Compare \in Safe /\ Run(st, Compare) = s2
    BY <2>1, <2>2, <2>4, SafeConcat DEF s1
  <2> HIDE DEF G, s2
  <2>6. Value(s1, T1) = Value(st, RS1) /\ Value(s1, RS2) = Value(st, RS2)
    BY <1>0, <2>2, PutValue DEF Put
  <2>7. s2.mem = st.mem /\ \A o \in Loc : o # T1 => Value(s2, o) = Value(st, o)
    BY <2>2, <2>4 DEF Put
  <2> QED
    BY <2>4, <2>5, <2>6, <2>7
<1> QED
  BY <1>1, <1>2
(* What follows a comparison in SLT and SLTI. *)
LEMMA SetRuns ==
    ASSUME InTrace, IInv, NEW st \in HostState, inst.fn \in {"SLT", "SLTU"}
    PROVE  LET c == Mov(RD, Imm(0)) \o Op(inst.fn, RD, Imm(0))
           IN  /\ Mov(RD, Imm(0)) \in Safe /\ Op(inst.fn, RD, Imm(0)) \in Safe /\ c \in Safe
               /\ Sets(st, Run(st, c), Compute(inst.fn, st.flags[1], st.flags[2]))
<1> DEFINE F == Mov(RD, Imm(0))
           G == Op(inst.fn, RD, Imm(0))
           s1 == Run(st, F)
           s2 == Run(s1, G)
           v == Compute(inst.fn, st.flags[1], st.flags[2])
<1>0. RD \in Operand /\ Imm(0) \in Operand /\ Imm(0) \notin Loc /\ ~IsMem(Imm(0))
  BY OperandFacts, LocFacts, WordFacts
<1>1. inst.fn \in SafeOp /\ inst.fn \in HostOp
  BY DEF SafeOp, HostOp
<1>2. F \in Safe /\ G \in Safe /\ s1 \in HostState
  BY <1>0, <1>1, SafeFacts, MovPuts
<1>3. Run(s1, G) = Emit(s1, Ins(inst.fn, RD, Imm(0)))
  BY <1>0, <1>1, OpFacts
<1>4. F \o G \in Safe /\ Run(st, F \o G) = s2
  BY <1>2, SafeConcat
<1>5. CASE RD \in Loc
  <2>1. Fits(RD, Imm(0))
    BY <1>0, <1>5 DEF Fits
  <2>2. Put(st, s1, RD, Value(st, Imm(0)), {})
    BY <1>0, <2>1, MovPuts
  <2>3. Put(s1, s2, RD, Compute(inst.fn, s1.flags[1], s1.flags[2]), {})
    BY <1>2, <1>3, <2>1, EmitSet
  <2> HIDE DEF F, G, s1, s2
  <2>4. s1.flags = st.flags
    BY <2>2 DEF Put
  <2>5. Sets(st, s2, v)
    BY <2>2, <2>3, <2>4 DEF Put, Sets
  <2> QED
    BY <1>2, <1>4, <2>5 DEF F, G
<1>6. CASE RD \notin Loc
  <2>1. ~Fits(RD, Imm(0))
    BY <1>6 DEF Fits
  <2>2. s1 = st
    BY <1>0, <2>1, MovPuts
  <2>3. s2 = st
    BY <1>0, <1>3, <2>1, <2>2, EmitSkips
  <2>4. Sets(st, s2, v)
    BY <1>6, <2>3 DEF Sets
  <2> HIDE DEF F, G, s1, s2
  <2> QED
    BY <1>2, <1>4, <2>4 DEF F, G
<1> QED
  BY <1>5, <1>6

LEMMA SetLessRuns ==
    ASSUME InTrace, IInv, NEW st \in HostState, inst.fn \in {"SLT", "SLTU"}
    PROVE  /\ SetLess \in Safe
           /\ Sets(st, Run(st, SetLess), Compute(inst.fn, Value(st, RS1), Value(st, RS2)))
<1> DEFINE F == Mov(RD, Imm(0))
           G == Op(inst.fn, RD, Imm(0))
           s1 == Run(st, Compare)
           s2 == Run(s1, F \o G)
           v == Compute(inst.fn, Value(st, RS1), Value(st, RS2))
<1>1. SetLess = Compare \o F \o G
  BY DEF SetLess
<1>2. /\ Compare \in Safe /\ s1 \in HostState /\ s1.mem = st.mem
      /\ s1.flags = <<Value(st, RS1), Value(st, RS2)>>
      /\ \A o \in Loc : o # T1 => Value(s1, o) = Value(st, o)
  BY CompareRuns
<1> HIDE DEF s1
<1>3. /\ F \in Safe /\ G \in Safe /\ F \o G \in Safe
      /\ Sets(s1, s2, Compute(inst.fn, s1.flags[1], s1.flags[2]))
  BY <1>2, SetRuns
<1> HIDE DEF F, G
<1>4. Compare \o F \in Safe /\ Run(st, Compare \o F) = Run(s1, F)
  BY <1>2, <1>3, SafeConcat DEF s1
<1>5. SetLess \in Safe /\ Run(st, SetLess) = Run(Run(s1, F), G)
  BY <1>1, <1>3, <1>4, SafeConcat
<1>6. Run(Run(s1, F), G) = s2
  BY <1>2, <1>3, SafeConcat
<1> HIDE DEF s2
<1>7. Compute(inst.fn, s1.flags[1], s1.flags[2]) = v
  BY <1>2
<1>8. Sets(st, s2, v)
  BY <1>2, <1>3, <1>7 DEF Sets
<1> QED
  BY <1>5, <1>6, <1>8

LEMMA SetLessImmRuns ==
    ASSUME InTrace, IInv, NEW st \in HostState, inst.fn \in {"SLT", "SLTU"}
    PROVE  /\ SetLessImm \in Safe
           /\ \/ inst.rd # "x0" /\ inst.rs1 = "x0"
              \/ Sets(st, Run(st, SetLessImm), Compute(inst.fn, Value(st, RS1), inst.imm))
<1> DEFINE E == Op("cmp", RS1, IMM)
           F == Mov(RD, Imm(0))
           G == Op(inst.fn, RD, Imm(0))
           s1 == Run(st, E)
           s2 == Run(s1, F \o G)
           v == Compute(inst.fn, Value(st, RS1), inst.imm)
<1>0. /\ RS1 \in Operand /\ IMM \in Operand /\ ~IsMem(IMM) /\ Value(st, IMM) = inst.imm
      /\ RS1 \in Loc <=> inst.rs1 # "x0"
      /\ RD \in Loc <=> inst.rd # "x0"
  BY OperandFacts
<1>1. SetLessImm = E \o F \o G
  BY DEF SetLessImm
<1>2. /\ E \in Safe /\ s1 \in HostState /\ s1.mem = st.mem
      /\ \A o \in Loc : Value(s1, o) = Value(st, o)
      /\ Fits(RS1, IMM) => s1.flags = <<Value(st, RS1), inst.imm>>
  BY <1>0, CmpRuns
<1> HIDE DEF E, s1
<1>3. /\ F \in Safe /\ G \in Safe /\ F \o G \in Safe
      /\ Sets(s1, s2, Compute(inst.fn, s1.flags[1], s1.flags[2]))
  BY <1>2, SetRuns
<1> HIDE DEF F, G
<1>4. E \o F \in Safe /\ Run(st, E \o F) = Run(s1, F)
  BY <1>2, <1>3, SafeConcat DEF s1
<1>5. SetLessImm \in Safe /\ Run(st, SetLessImm) = Run(Run(s1, F), G)
  BY <1>1, <1>3, <1>4, SafeConcat
<1>6. Run(Run(s1, F), G) = s2
  BY <1>2, <1>3, SafeConcat
<1> HIDE DEF s2
<1>7. CASE inst.rs1 # "x0"
  <2>1. Fits(RS1, IMM)
    BY <1>0, <1>7 DEF Fits
  <2>2. Compute(inst.fn, s1.flags[1], s1.flags[2]) = v
    BY <1>2, <2>1
  <2>3. Sets(st, s2, v)
    BY <1>2, <1>3, <2>2 DEF Sets
  <2> QED
    BY <1>5, <1>6, <2>3
<1>8. CASE inst.rd = "x0"
  <2>1. Sets(st, s2, v)
    BY <1>0, <1>2, <1>3, <1>8 DEF Sets
  <2> QED
    BY <1>5, <1>6, <2>1
<1> QED
  BY <1>5, <1>7, <1>8

(* The two halves of a product. *)
LEMMA ProductRuns ==
    ASSUME InTrace, IInv, NEW st \in HostState, NEW t \in {T1, T2}
    PROVE  LET F == Mov(T1, RS1)
               G == Op("mul", RS2, Imm(0))
               H == Mov(RD, t)
               v == Compute(IF t = T1 THEN "MUL" ELSE "MULHU", Value(st, RS1), Value(st, RS2))
           IN  /\ F \o G \o H \in Safe
               /\ \/ inst.rd # "x0" /\ inst.rs2 = "x0"
                  \/ Sets(st, Run(st, F \o G \o H), v)
<1> DEFINE F == Mov(T1, RS1)
           G == Op("mul", RS2, Imm(0))
           H == Mov(RD, t)
           v == Compute(IF t = T1 THEN "MUL" ELSE "MULHU", Value(st, RS1), Value(st, RS2))
           s1 == Run(st, F)
           s2 == Run(s1, G)
           s3 == Run(s2, H)
<1>0. /\ RS1 \in Operand /\ RS2 \in Operand /\ RD \in Operand /\ RD # T1 /\ RD # T2
      /\ RS2 # T1 /\ RS2 # T2
      /\ RS2 \in Loc <=> inst.rs2 # "x0"
      /\ RD \in Loc <=> inst.rd # "x0"
  BY OperandFacts
<1>1. /\ T1 \in Operand /\ T1 \in Loc /\ ~IsMem(T1) /\ T1 # T2 /\ T2 \in Loc
      /\ t \in Operand /\ t \in Loc /\ ~IsMem(t)
      /\ Imm(0) \in Operand /\ ~IsMem(Imm(0))
  BY ScratchFacts, LocFacts, WordFacts
<1>2. "mul" \in SafeOp /\ "mul" \in HostOp
  BY DEF SafeOp, HostOp
<1>3. F \in Safe /\ s1 \in HostState /\ Put(st, s1, T1, Value(st, RS1), {})
  BY <1>0, <1>1, MovPuts DEF Fits
<1> HIDE DEF F, s1
<1>4. G \in Safe /\ s2 \in HostState /\ s2 = Emit(s1, Ins("mul", RS2, Imm(0)))
  BY <1>0, <1>1, <1>2, <1>3, SafeFacts, OpFacts, RunTyped
<1> HIDE DEF G, s2
<1>5. /\ H \in Safe /\ s3 \in HostState
      /\ Fits(RD, t) => Put(s2, s3, RD, Value(s2, t), {})
      /\ ~Fits(RD, t) => s3 = s2
  BY <1>0, <1>1, <1>4, MovPuts
<1> HIDE DEF H, s3
<1>6. F \o G \in Safe /\ Run(st, F \o G) = s2
  BY <1>3, <1>4, SafeConcat DEF s1, s2
<1>7. F \o G \o H \in Safe /\ Run(st, F \o G \o H) = s3
  BY <1>5, <1>6, SafeConcat DEF s3
<1>8. CASE inst.rs2 = "x0" /\ inst.rd = "x0"
  <2>1. s3 = s1
    BY <1>0, <1>1, <1>4, <1>5, <1>8, EmitSkips DEF Fits
  <2>2. Sets(st, s3, v)
    BY <1>0, <1>3, <1>8, <2>1 DEF Sets, Put
  <2> QED
    BY <1>7, <2>2 DEF F, G, H
<1>9. CASE inst.rs2 # "x0"
  <2>1. Fits(RS2, Imm(0))
    BY <1>0, <1>1, <1>9 DEF Fits
  <2>2. /\ s2.mem = s1.mem
        /\ Value(s2, T1) = Compute("MUL", Value(s1, T1), Value(s1, RS2))
        /\ Value(s2, T2) = Compute("MULHU", Value(s1, T1), Value(s1, RS2))
        /\ \A o \in Loc : o \notin {T1, T2} => Value(s2, o) = Value(s1, o)
    BY <1>3, <1>4, <2>1, EmitMul
  <2>3. Value(s1, T1) = Value(st, RS1) /\ Value(s1, RS2) = Value(st, RS2)
    BY <1>0, <1>1, <1>3, PutValue DEF Put
  <2>4. Value(s2, t) = v
    BY <1>1, <2>2, <2>3
  <2>5. s2.mem = st.mem /\ \A o \in Loc : o \notin {T1, T2} => Value(s2, o) = Value(st, o)
    BY <1>3, <2>2 DEF Put
  <2> HIDE DEF v
  <2>6. Sets(st, s3, v)
    <3>1. CASE RD \in Loc
      <4>1. Put(s2, s3, RD, v, {})
        BY <1>1, <1>5, <2>4, <3>1 DEF Fits
      <4> QED
        BY <2>5, <4>1 DEF Put, Sets
    <3>2. CASE RD \notin Loc
      <4>1. s3 = s2
        BY <1>5, <3>2 DEF Fits
      <4> QED
        BY <1>4, <2>5, <3>2, <4>1 DEF Sets
    <3> QED
      BY <3>1, <3>2
  <2> QED
    BY <1>7, <2>6 DEF F, G, H, v
<1> QED
  BY <1>7, <1>8, <1>9 DEF F, G, H

LEMMA LUIRuns ==
    ASSUME InTrace, IInv, NEW st \in HostState
    PROVE  LUI \in Safe /\ Sets(st, Run(st, LUI), inst.imm)
<1>0. RD \in Operand /\ IMM \in Operand /\ ~IsMem(IMM) /\ Value(st, IMM) = inst.imm
  BY OperandFacts
<1>1. CASE RD \in Loc
  <2>1. LUI \in Safe /\ Put(st, Run(st, LUI), RD, inst.imm, {})
    BY <1>0, <1>1, MovPuts DEF LUI, Fits
  <2> QED
    BY <2>1 DEF Put, Sets
<1>2. CASE RD \notin Loc
  <2>1. LUI \in Safe /\ Run(st, LUI) = st
    BY <1>0, <1>2, MovPuts DEF LUI, Fits
  <2> QED
    BY <1>2, <2>1 DEF Sets
<1> QED
  BY <1>1, <1>2
LEMMA DivMod ==
    ASSUME NEW n \in Nat
    PROVE  /\ n \div Modulus \in Nat /\ n % Modulus \in 0 .. Modulus - 1
           /\ n = Modulus * (n \div Modulus) + (n % Modulus)
  BY WordFacts

LEMMA RemainderUnique ==
    ASSUME NEW k \in Int, NEW r \in 0 .. Modulus - 1, NEW l \in Int, NEW s \in 0 .. Modulus - 1,
           Modulus * k + r = Modulus * l + s
    PROVE  r = s
<1>0. Modulus \in Nat /\ Modulus > 1
  BY WordFacts
<1>1. Modulus * (k - l) = s - r
  BY <1>0
<1>2. -Modulus < s - r /\ s - r < Modulus
  BY <1>0
<1>3. k - l \in Int /\ (k - l >= 1 \/ k - l <= -1 \/ k - l = 0)
  OBVIOUS
<1>4. CASE k - l >= 1
  <2>1. Modulus * (k - l) >= Modulus
    BY <1>0, <1>4
  <2> QED
    BY <1>0, <1>1, <1>2, <2>1
<1>5. CASE k - l <= -1
  <2>1. Modulus * (k - l) <= -Modulus
    BY <1>0, <1>5
  <2> QED
    BY <1>0, <1>1, <1>2, <2>1
<1>6. CASE k - l = 0
  BY <1>0, <1>6
<1> QED
  BY <1>3, <1>4, <1>5, <1>6

LEMMA ModAdd ==
    ASSUME NEW a \in Nat, NEW b \in Nat
    PROVE  (a + (b % Modulus)) % Modulus = (a + b) % Modulus
<1> DEFINE r == b % Modulus
           q == b \div Modulus
           u == (a + r) % Modulus
           p == (a + r) \div Modulus
           w == (a + b) % Modulus
           t == (a + b) \div Modulus
<1>0. Modulus \in Nat /\ Modulus > 1
  BY WordFacts
<1>1. q \in Nat /\ r \in 0 .. Modulus - 1 /\ b = Modulus * q + r
  BY DivMod
<1>2. p \in Nat /\ u \in 0 .. Modulus - 1 /\ a + r = Modulus * p + u
  BY <1>0, <1>1, DivMod
<1>3. t \in Nat /\ w \in 0 .. Modulus - 1 /\ a + b = Modulus * t + w
  BY DivMod
<1> HIDE DEF q, r, u, p, w, t
<1>4. Modulus * (p + q) + u = Modulus * t + w
  BY <1>0, <1>1, <1>2, <1>3
<1>5. u = w
  BY <1>1, <1>2, <1>3, <1>4, RemainderUnique
<1> QED
  BY <1>5 DEF u, w, r

(* An address in memory is the same computed with or without a sign. *)
LEMMA AddressSame ==
    ASSUME NEW v \in Val, NEW i \in Val, v + AsSigned(i) \in Addr
    PROVE  (v + i) % Modulus = v + AsSigned(i)
<1> DEFINE r == (v + i) % Modulus
           q == (v + i) \div Modulus
           s == v + AsSigned(i)
<1>0. Modulus \in Nat /\ Modulus > 1 /\ v \in Nat /\ i \in Nat /\ Cells \in 0 .. Modulus
  BY WordFacts, JITAssumption
<1>1. q \in Nat /\ r \in 0 .. Modulus - 1 /\ v + i = Modulus * q + r
  BY <1>0, DivMod
<1>2. s \in 0 .. Modulus - 1
  BY <1>0 DEF Addr
<1>3. v + i = Modulus * 0 + s \/ v + i = Modulus * 1 + s
  BY <1>0 DEF AsSigned
<1> HIDE DEF r, q, s
<1>4. r = s
  BY <1>1, <1>2, <1>3, RemainderUnique
<1> QED
  BY <1>4 DEF r, s

(* pc, at an offset from the instruction. *)
Ahead(st, off) == (Value(st, PC) + OFFSET + off) % Modulus

LEMMA AheadFacts ==
    ASSUME InTrace, NEW st \in HostState, NEW off \in Nat
    PROVE  LET o == Imm((OFFSET + off) % Modulus)
           IN  /\ o \in Operand /\ ~IsMem(o)
               /\ \A new : Value(new, o) = (OFFSET + off) % Modulus
               /\ Compute("ADD", Value(st, PC), (OFFSET + off) % Modulus) = Ahead(st, off)
<1> DEFINE k == (OFFSET + off) % Modulus
           v == Value(st, PC)
<1>1. OFFSET \in Nat /\ OFFSET + off \in Nat
  BY InstFacts
<1>2. k \in Val
  BY <1>1, WordFacts
<1>3. v \in Val /\ v \in Nat
  BY ScratchFacts, LocFacts, ValueTyped, WordFacts
<1>4. Imm(k) \in Operand /\ ~IsMem(Imm(k)) /\ \A new : Value(new, Imm(k)) = k
  BY <1>2, LocFacts
<1>5. Compute("ADD", v, k) = (v + k) % Modulus
  BY <1>2, <1>3, ComputeAssumption
<1>6. (v + k) % Modulus = (v + (OFFSET + off)) % Modulus
  BY <1>1, <1>3, ModAdd
<1>7. v + (OFFSET + off) = v + OFFSET + off
  BY <1>1, <1>3
<1> QED
  BY <1>4, <1>5, <1>6, <1>7 DEF Ahead

LEMMA AUIPCRuns ==
    ASSUME InTrace, IInv, NEW st \in HostState
    PROVE  AUIPC \in Safe /\ Sets(st, Run(st, AUIPC), Ahead(st, inst.imm))
<1> DEFINE k == Imm((OFFSET + inst.imm) % Modulus)
           F == Mov(T1, PC)
           G == Op("ADD", T1, k)
           H == Mov(RD, T1)
           s1 == Run(st, F)
           s2 == Run(s1, G)
           s3 == Run(s2, H)
           v == Ahead(st, inst.imm)
<1>0. RD \in Operand /\ RD # T1 /\ inst.imm \in Nat
  BY OperandFacts, InstFacts, WordFacts
<1>1. T1 \in Operand /\ T1 \in Loc /\ ~IsMem(T1) /\ PC \in Operand
  BY ScratchFacts, LocFacts
<1>2. /\ k \in Operand /\ ~IsMem(k) /\ Value(s1, k) = (OFFSET + inst.imm) % Modulus
      /\ Compute("ADD", Value(st, PC), (OFFSET + inst.imm) % Modulus) = v
  BY <1>0, AheadFacts
<1>3. AUIPC = F \o G \o H
  BY DEF AUIPC
<1>4. F \in Safe /\ s1 \in HostState /\ Put(st, s1, T1, Value(st, PC), {})
  BY <1>1, MovPuts DEF Fits
<1> HIDE DEF F, s1, k
<1>5. "ADD" \in Plain
  BY DEF Plain
<1>6. /\ G \in Safe /\ s2 \in HostState
      /\ Put(s1, s2, T1, Compute("ADD", Value(s1, T1), Value(s1, k)), {})
  BY <1>1, <1>2, <1>4, <1>5, OpPuts DEF Fits
<1> HIDE DEF G, s2
<1>7. /\ H \in Safe /\ s3 \in HostState
      /\ Fits(RD, T1) => Put(s2, s3, RD, Value(s2, T1), {})
      /\ ~Fits(RD, T1) => s3 = s2
  BY <1>0, <1>1, <1>6, MovPuts
<1> HIDE DEF H, s3
<1>8. F \o G \in Safe /\ Run(st, F \o G) = s2
  BY <1>4, <1>6, SafeConcat DEF s1, s2
<1>9. AUIPC \in Safe /\ Run(st, AUIPC) = s3
  BY <1>3, <1>7, <1>8, SafeConcat DEF s3
<1> HIDE DEF v
<1>10. Value(s1, T1) = Value(st, PC)
  BY <1>1, <1>4 DEF Put
<1>11. Value(s2, T1) = v
  BY <1>1, <1>2, <1>6, <1>10 DEF Put
<1>12. Sets(st, s3, v)
  <2>1. CASE RD \in Loc
    <3>1. Put(s2, s3, RD, v, {})
      BY <1>1, <1>7, <1>11, <2>1 DEF Fits
    <3> QED
      BY <1>4, <1>6, <3>1 DEF Put, Sets
  <2>2. CASE RD \notin Loc
    <3>1. s3 = s2
      BY <1>7, <2>2 DEF Fits
    <3> QED
      BY <1>4, <1>6, <2>2, <3>1 DEF Put, Sets
  <2> QED
    BY <2>1, <2>2
<1> QED
  BY <1>9, <1>12 DEF v
(* Loads and stores, of an address in memory. *)
LEMMA AtFacts ==
    ASSUME InTrace, IInv, NEW st \in HostState
    PROVE  LET F == Mov(T1, RS1)
               s1 == Run(st, F)
           IN  /\ F \in Code /\ s1 \in HostState /\ Put(st, s1, T1, Value(st, RS1), {})
               /\ Value(s1, RS2) = Value(st, RS2)
               /\ \A new : Value(new, T1) = Value(s1, T1) =>
                      At(new, IMM) = Value(st, RS1) + AsSigned(inst.imm)
<1> DEFINE F == Mov(T1, RS1)
           s1 == Run(st, F)
<1>0. RS1 \in Operand /\ RS2 \in Operand /\ RS2 # T1 /\ \A new : Value(new, IMM) = inst.imm
  BY OperandFacts
<1>1. T1 \in Operand /\ T1 \in Loc /\ ~IsMem(T1)
  BY ScratchFacts, LocFacts
<1>2. F \in Safe /\ s1 \in HostState /\ Put(st, s1, T1, Value(st, RS1), {})
  BY <1>0, <1>1, MovPuts DEF Fits
<1> HIDE DEF F, s1
<1>3. F \in Code
  BY <1>2, SafeFacts
<1>4. Value(s1, RS2) = Value(st, RS2)
  BY <1>0, <1>2, PutValue
<1>5. \A new : Value(new, T1) = new.host["eax"]
  BY DEF Value, T1
<1>6. Value(s1, T1) = Value(st, RS1)
  BY <1>1, <1>2 DEF Put
<1>7. ASSUME NEW new, Value(new, T1) = Value(s1, T1)
      PROVE  At(new, IMM) = Value(st, RS1) + AsSigned(inst.imm)
  BY <1>0, <1>5, <1>6, <1>7 DEF At
<1> QED
  BY <1>2, <1>3, <1>4, <1>7 DEF F, s1

LEMMA LoadRuns ==
    ASSUME InTrace, IInv, NEW st \in HostState, inst.fn \in Loads,
           Value(st, RS1) + AsSigned(inst.imm) \in Addr
    PROVE  /\ Load \in Code
           /\ Sets(st, Run(st, Load),
                   Compute(inst.fn, st.mem[Value(st, RS1) + AsSigned(inst.imm)], 0))
<1> DEFINE p == Value(st, RS1) + AsSigned(inst.imm)
           v == Compute(inst.fn, st.mem[p], 0)
           F == Mov(T1, RS1)
           s1 == Run(st, F)
<1>0. /\ RD \in Operand /\ RD # T1 /\ RD # T2
      /\ IMM \in Operand /\ ~IsMem(IMM)
  BY OperandFacts
<1>1. T2 \in Operand /\ T2 \in Loc /\ ~IsMem(T2) /\ inst.fn \in HostOp
  BY ScratchFacts, LocFacts DEF HostOp
<1>2. F \in Code /\ s1 \in HostState /\ Put(st, s1, T1, Value(st, RS1), {}) /\ At(s1, IMM) = p
  BY AtFacts
<1> HIDE DEF F, s1, p
<1>3. p \in Addr /\ s1.mem = st.mem
  BY <1>2 DEF p, Put
<1>4. ASSUME NEW d \in Operand, Fits(d, IMM)
      PROVE  LET c == Op(inst.fn, d, IMM)
             IN  c \in Code /\ Put(s1, Run(s1, c), d, v, {})
  <2>1. Op(inst.fn, d, IMM) \in Code /\ Run(s1, Op(inst.fn, d, IMM)) = Emit(s1, Ins(inst.fn, d, IMM))
    BY <1>0, <1>1, OpFacts
  <2>2. Put(s1, Emit(s1, Ins(inst.fn, d, IMM)), d, Compute(inst.fn, s1.mem[At(s1, IMM)], 0), {})
    BY <1>2, <1>3, <1>4, EmitLoad
  <2> QED
    BY <1>2, <1>3, <2>1, <2>2
<1>5. CASE IsReg(RD)
  <2> DEFINE G == Op(inst.fn, RD, IMM)
             s2 == Run(s1, G)
  <2>1. Load = F \o G
    BY <1>5 DEF Load, F
  <2>2. Fits(RD, IMM)
    BY <1>0, <1>5, LocFacts DEF Fits
  <2>3. G \in Code /\ Put(s1, s2, RD, v, {})
    BY <1>0, <1>4, <2>2
  <2> HIDE DEF G, v
  <2>4. Load \in Code /\ Run(st, Load) = s2
    BY <1>2, <2>1, <2>3, ConcatFacts DEF s1
  <2> HIDE DEF s2
  <2>5. Sets(st, s2, v)
    BY <1>2, <2>3 DEF Put, Sets
  <2> QED
    BY <2>4, <2>5 DEF v, p
<1>6. CASE ~IsReg(RD)
  <2> DEFINE G == Op(inst.fn, T2, IMM)
             H == Mov(RD, T2)
             s2 == Run(s1, G)
             s3 == Run(s2, H)
  <2>1. Load = F \o (G \o H)
    BY <1>6 DEF Load, F
  <2>2. Fits(T2, IMM)
    BY <1>0, <1>1 DEF Fits
  <2>3. G \in Code /\ Put(s1, s2, T2, v, {})
    BY <1>1, <1>4, <2>2
  <2> HIDE DEF G, s2, v
  <2>4. s2 \in HostState /\ Value(s2, T2) = v
    BY <1>1, <2>3 DEF Put
  <2>5. /\ H \in Safe /\ s3 \in HostState
        /\ Fits(RD, T2) => Put(s2, s3, RD, Value(s2, T2), {})
        /\ ~Fits(RD, T2) => s3 = s2
    BY <1>0, <1>1, <2>4, MovPuts
  <2>6. H \in Code
    BY <2>5, SafeFacts
  <2> HIDE DEF H
  <2>7. G \o H \in Code /\ Run(s1, G \o H) = s3
    BY <2>3, <2>6, ConcatFacts DEF s2
  <2> HIDE DEF s3
  <2>8. Load \in Code /\ Run(st, Load) = s3
    BY <1>2, <2>1, <2>7, ConcatFacts DEF s1
  <2>9. Sets(st, s3, v)
    <3>1. CASE RD \in Loc
      <4>1. Put(s2, s3, RD, v, {})
        BY <1>1, <2>4, <2>5, <3>1 DEF Fits
      <4> QED
        BY <1>2, <2>3, <4>1 DEF Put, Sets
    <3>2. CASE RD \notin Loc
      <4>1. s3 = s2
        BY <2>5, <3>2 DEF Fits
      <4> QED
        BY <1>2, <2>3, <3>2, <4>1 DEF Put, Sets
    <3> QED
      BY <3>1, <3>2
  <2> QED
    BY <2>8, <2>9 DEF v, p
<1> QED
  BY <1>5, <1>6

LEMMA StoreRuns ==
    ASSUME InTrace, IInv, NEW st \in HostState, inst.fn \in Stores,
           Value(st, RS1) + AsSigned(inst.imm) \in Addr
    PROVE  LET new == Run(st, Store)
               p == Value(st, RS1) + AsSigned(inst.imm)
           IN  /\ Store \in Code /\ new \in HostState
               /\ new.mem = [st.mem EXCEPT ![p] = Compute(inst.fn, @, Value(st, RS2))]
               /\ \A o \in Loc : o \notin {T1, T2} => Value(new, o) = Value(st, o)
<1> DEFINE p == Value(st, RS1) + AsSigned(inst.imm)
           w == Value(st, RS2)
           F == Mov(T1, RS1)
           s1 == Run(st, F)
<1>0. /\ RS2 \in Operand /\ RS2 # T1 /\ RS2 # T2
      /\ IMM \in Operand /\ ~IsMem(IMM)
  BY OperandFacts
<1>1. /\ T2 \in Operand /\ T2 \in Loc /\ ~IsMem(T2) /\ inst.fn \in HostOp
      /\ T1 # T2 /\ T1 \in Loc
  BY ScratchFacts, LocFacts DEF HostOp
<1>2. /\ F \in Code /\ s1 \in HostState /\ Put(st, s1, T1, Value(st, RS1), {})
      /\ Value(s1, RS2) = w
      /\ \A new : Value(new, T1) = Value(s1, T1) => At(new, IMM) = p
  BY AtFacts
<1> HIDE DEF F, s1, p
<1>3. p \in Addr /\ s1.mem = st.mem
  BY <1>2 DEF p, Put
<1>4. ASSUME NEW d \in Operand, Fits(d, IMM), NEW t \in HostState, Value(t, T1) = Value(s1, T1)
      PROVE  LET c == Op(inst.fn, d, IMM)
             IN  /\ c \in Code /\ Run(t, c) \in HostState
                 /\ Run(t, c).mem = [t.mem EXCEPT ![p] = Compute(inst.fn, @, Value(t, d))]
                 /\ \A o \in Loc : Value(Run(t, c), o) = Value(t, o)
  <2>1. Op(inst.fn, d, IMM) \in Code /\ Run(t, Op(inst.fn, d, IMM)) = Emit(t, Ins(inst.fn, d, IMM))
    BY <1>0, <1>1, OpFacts
  <2>2. At(t, IMM) = p /\ At(t, IMM) \in Addr
    BY <1>2, <1>3, <1>4
  <2>3. LET new == Emit(t, Ins(inst.fn, d, IMM))
        IN  /\ new \in HostState
            /\ new.mem = [t.mem EXCEPT ![At(t, IMM)] = Compute(inst.fn, @, Value(t, d))]
            /\ \A o \in Loc : Value(new, o) = Value(t, o)
    BY <1>4, <2>2, EmitStore
  <2> QED
    BY <2>1, <2>2, <2>3
<1>5. CASE IsReg(RS2)
  <2> DEFINE G == Op(inst.fn, RS2, IMM)
             s2 == Run(s1, G)
  <2>1. Store = F \o G
    BY <1>5 DEF Store, F
  <2>2. Fits(RS2, IMM)
    BY <1>0, <1>5, LocFacts DEF Fits
  <2>3. /\ G \in Code /\ s2 \in HostState
        /\ s2.mem = [s1.mem EXCEPT ![p] = Compute(inst.fn, @, Value(s1, RS2))]
        /\ \A o \in Loc : Value(s2, o) = Value(s1, o)
    BY <1>0, <1>2, <1>4, <2>2
  <2> HIDE DEF G
  <2>4. Store \in Code /\ Run(st, Store) = s2
    BY <1>2, <2>1, <2>3, ConcatFacts DEF s1
  <2> HIDE DEF s2
  <2>5. s2.mem = [st.mem EXCEPT ![p] = Compute(inst.fn, @, w)]
    BY <1>2, <1>3, <2>3
  <2>6. \A o \in Loc : o \notin {T1, T2} => Value(s2, o) = Value(st, o)
    BY <1>2, <2>3 DEF Put
  <2> QED
    BY <2>3, <2>4, <2>5, <2>6 DEF p
<1>6. CASE ~IsReg(RS2)
  <2> DEFINE G == Mov(T2, RS2)
             H == Op(inst.fn, T2, IMM)
             s2 == Run(s1, G)
             s3 == Run(s2, H)
  <2>1. Store = F \o (G \o H)
    BY <1>6 DEF Store, F
  <2>2. G \in Safe /\ s2 \in HostState /\ Put(s1, s2, T2, w, {})
    BY <1>0, <1>1, <1>2, MovPuts DEF Fits
  <2> HIDE DEF G, s2
  <2>3. G \in Code /\ Fits(T2, IMM)
    BY <1>0, <1>1, <2>2, SafeFacts DEF Fits
  <2>4. Value(s2, T1) = Value(s1, T1) /\ Value(s2, T2) = w /\ s2.mem = st.mem
    BY <1>1, <1>3, <2>2 DEF Put
  <2>5. /\ H \in Code /\ s3 \in HostState
        /\ s3.mem = [s2.mem EXCEPT ![p] = Compute(inst.fn, @, Value(s2, T2))]
        /\ \A o \in Loc : Value(s3, o) = Value(s2, o)
    BY <1>1, <1>4, <2>2, <2>3, <2>4
  <2> HIDE DEF H
  <2>6. G \o H \in Code /\ Run(s1, G \o H) = s3
    BY <2>3, <2>5, ConcatFacts DEF s2
  <2> HIDE DEF s3
  <2>7. Store \in Code /\ Run(st, Store) = s3
    BY <1>2, <2>1, <2>6, ConcatFacts DEF s1
  <2>8. s3.mem = [st.mem EXCEPT ![p] = Compute(inst.fn, @, w)]
    BY <2>4, <2>5
  <2>9. \A o \in Loc : o \notin {T1, T2} => Value(s3, o) = Value(st, o)
    BY <1>2, <2>2, <2>5 DEF Put
  <2> QED
    BY <2>5, <2>7, <2>8, <2>9 DEF p
<1> QED
  BY <1>5, <1>6
(* A template that also writes pc. *)
Goes(st, new, v, p) ==
    /\ new \in HostState
    /\ new.mem = st.mem
    /\ RD \in Loc => Value(new, RD) = v
    /\ Value(new, PC) = p
    /\ \A o \in Loc : o \notin {RD, T1, T2, PC} => Value(new, o) = Value(st, o)

LEMMA AdvanceRuns ==
    ASSUME InTrace, NEW st \in HostState, NEW off \in Nat
    PROVE  /\ Advance(off) \in Safe /\ Run(st, Advance(off)) \in HostState
           /\ Put(st, Run(st, Advance(off)), PC, Ahead(st, off), {})
<1> DEFINE k == Imm((OFFSET + off) % Modulus)
<1>1. /\ k \in Operand /\ ~IsMem(k) /\ Value(st, k) = (OFFSET + off) % Modulus
      /\ Compute("ADD", Value(st, PC), (OFFSET + off) % Modulus) = Ahead(st, off)
  BY AheadFacts
<1>2. PC \in Loc /\ PC \in Operand /\ "ADD" \in Plain
  BY ScratchFacts, LocFacts DEF Plain
<1>3. Advance(off) = Op("ADD", PC, k)
  BY DEF Advance
<1> HIDE DEF k
<1>4. Fits(PC, k)
  BY <1>1, <1>2 DEF Fits
<1> QED
  BY <1>1, <1>2, <1>3, <1>4, OpPuts

LEMMA JALRuns ==
    ASSUME InTrace, IInv, NEW st \in HostState
    PROVE  JAL \in Safe /\ Goes(st, Run(st, JAL), Ahead(st, 4), Ahead(st, inst.imm))
<1> DEFINE k == Imm((OFFSET + 4) % Modulus)
           c1 == Mov(T1, PC)
           c2 == Mov(RD, T1)
           c3 == Op("ADD", RD, k)
           F == IF inst.rd = "x0" THEN Nothing ELSE c1 \o c2 \o c3
           G == Advance(inst.imm)
           s1 == Run(st, F)
           s2 == Run(s1, G)
           t1 == Run(st, c1)
           t2 == Run(t1, c2)
           t3 == Run(t2, c3)
<1>0. /\ RD \in Operand /\ RD # T1 /\ RD # PC /\ inst.imm \in Nat
      /\ RD \in Loc <=> inst.rd # "x0"
  BY OperandFacts, InstFacts, WordFacts
<1>1. T1 \in Operand /\ T1 \in Loc /\ ~IsMem(T1) /\ PC \in Loc /\ PC \in Operand /\ PC # T1
  BY ScratchFacts, LocFacts
<1>2. JAL = F \o G
  BY DEF JAL
<1>3. /\ F \in Safe /\ s1 \in HostState /\ s1.mem = st.mem
      /\ RD \in Loc => Value(s1, RD) = Ahead(st, 4)
      /\ \A o \in Loc : o \notin {RD, T1} => Value(s1, o) = Value(st, o)
  <2>1. CASE inst.rd = "x0"
    <3>1. F = Nothing /\ s1 = st
      BY <2>1, NothingFacts
    <3> QED
      BY <1>0, <2>1, <3>1, SafeFacts
  <2>2. CASE inst.rd # "x0"
    <3>1. /\ k \in Operand /\ ~IsMem(k) /\ Value(t2, k) = (OFFSET + 4) % Modulus
          /\ Compute("ADD", Value(st, PC), (OFFSET + 4) % Modulus) = Ahead(st, 4)
      BY AheadFacts
    <3> HIDE DEF k
    <3>2. Fits(T1, PC) /\ Fits(RD, T1) /\ Fits(RD, k) /\ "ADD" \in Plain
      BY <1>0, <1>1, <2>2, <3>1 DEF Fits, Plain
    <3>3. F = c1 \o c2 \o c3
      BY <2>2
    <3> HIDE DEF F, s1
    <3>4. c1 \in Safe /\ t1 \in HostState /\ Put(st, t1, T1, Value(st, PC), {})
      BY <1>1, <3>2, MovPuts
    <3> HIDE DEF c1, t1
    <3>5. c2 \in Safe /\ t2 \in HostState /\ Put(t1, t2, RD, Value(t1, T1), {})
      BY <1>0, <1>1, <3>2, <3>4, MovPuts
    <3> HIDE DEF c2, t2
    <3>6. /\ c3 \in Safe /\ t3 \in HostState
          /\ Put(t2, t3, RD, Compute("ADD", Value(t2, RD), Value(t2, k)), {})
      BY <1>0, <3>1, <3>2, <3>5, OpPuts
    <3> HIDE DEF c3, t3
    <3>7. c1 \o c2 \in Safe /\ Run(st, c1 \o c2) = t2
      BY <3>4, <3>5, SafeConcat DEF t1, t2
    <3>8. F \in Safe /\ s1 = t3
      BY <3>3, <3>6, <3>7, SafeConcat DEF t3, s1
    <3>9. Value(t2, RD) = Value(st, PC)
      BY <1>0, <1>1, <2>2, <3>4, <3>5 DEF Put
    <3>10. Value(t3, RD) = Ahead(st, 4)
      BY <1>0, <2>2, <3>1, <3>6, <3>9 DEF Put
    <3>11. t3.mem = st.mem /\ \A o \in Loc : o \notin {RD, T1} => Value(t3, o) = Value(st, o)
      BY <3>4, <3>5, <3>6 DEF Put
    <3> QED
      BY <3>6, <3>8, <3>10, <3>11
  <2> QED
    BY <2>1, <2>2
<1> HIDE DEF F, s1
<1>4. G \in Safe /\ Put(s1, s2, PC, Ahead(s1, inst.imm), {})
  BY <1>0, <1>3, AdvanceRuns
<1> HIDE DEF G
<1>5. JAL \in Safe /\ Run(st, JAL) = s2
  BY <1>2, <1>3, <1>4, SafeConcat DEF s1
<1> HIDE DEF s2
<1>6. Ahead(s1, inst.imm) = Ahead(st, inst.imm)
  BY <1>0, <1>1, <1>3 DEF Ahead
<1>7. Goes(st, s2, Ahead(st, 4), Ahead(st, inst.imm))
  BY <1>0, <1>1, <1>3, <1>4, <1>6 DEF Put, Goes
<1> QED
  BY <1>5, <1>7

LEMMA JALRRuns ==
    ASSUME InTrace, IInv, NEW st \in HostState
    PROVE  LET base == IF inst.rd # "x0" /\ inst.rd = inst.rs1
                       THEN Ahead(st, 4) ELSE Value(st, RS1)
               p == Compute("AND", (base + inst.imm) % Modulus, Modulus - 2)
           IN  JALR \in Safe /\ Goes(st, Run(st, JALR), Ahead(st, 4), p)
<1> DEFINE base == IF inst.rd # "x0" /\ inst.rd = inst.rs1 THEN Ahead(st, 4) ELSE Value(st, RS1)
           sum == (base + inst.imm) % Modulus
           p == Compute("AND", sum, Modulus - 2)
           c1 == Advance(4)
           c2 == Mov(T1, PC)
           c3 == Mov(RD, T1)
           c4 == Mov(T1, RS1)
           c5 == Op("ADD", T1, IMM)
           c6 == Op("AND", T1, Imm(Modulus - 2))
           c7 == Mov(PC, T1)
           s1 == Run(st, c1)
           s2 == Run(s1, c2)
           s3 == Run(s2, c3)
           s4 == Run(s3, c4)
           s5 == Run(s4, c5)
           s6 == Run(s5, c6)
           s7 == Run(s6, c7)
<1>0. /\ RD \in Operand /\ RD # T1 /\ RD # PC /\ inst.imm \in Val /\ inst.imm \in Nat
      /\ RS1 \in Operand /\ RS1 # T1 /\ RS1 # PC
      /\ IMM \in Operand /\ ~IsMem(IMM) /\ \A new : Value(new, IMM) = inst.imm
      /\ RD \in Loc <=> inst.rd # "x0"
      /\ RD = RS1 <=> inst.rd = inst.rs1
  BY OperandFacts, InstFacts, WordFacts
<1>1. T1 \in Operand /\ T1 \in Loc /\ ~IsMem(T1) /\ PC \in Loc /\ PC \in Operand /\ PC # T1
  BY ScratchFacts, LocFacts
<1>2. /\ Imm(Modulus - 2) \in Operand /\ ~IsMem(Imm(Modulus - 2))
      /\ \A new : Value(new, Imm(Modulus - 2)) = Modulus - 2
  BY WordFacts, LocFacts
<1>3. "ADD" \in Plain /\ "AND" \in Plain
  BY DEF Plain
<1>4. /\ Fits(T1, PC) /\ Fits(T1, RS1) /\ Fits(T1, IMM) /\ Fits(T1, Imm(Modulus - 2)) /\ Fits(PC, T1)
      /\ Fits(RD, T1) <=> RD \in Loc
  BY <1>0, <1>1, <1>2 DEF Fits
<1>5. JALR = c1 \o c2 \o c3 \o c4 \o c5 \o c6 \o c7
  BY DEF JALR
<1>6. c1 \in Safe /\ s1 \in HostState /\ Put(st, s1, PC, Ahead(st, 4), {})
  BY AdvanceRuns
<1> HIDE DEF c1, s1
<1>7. c2 \in Safe /\ s2 \in HostState /\ Put(s1, s2, T1, Value(s1, PC), {})
  BY <1>1, <1>4, <1>6, MovPuts
<1> HIDE DEF c2, s2
<1>8. /\ c3 \in Safe /\ s3 \in HostState
      /\ RD \in Loc => Put(s2, s3, RD, Value(s2, T1), {})
      /\ RD \notin Loc => s3 = s2
  BY <1>0, <1>1, <1>4, <1>7, MovPuts
<1> HIDE DEF c3, s3
<1>9. c4 \in Safe /\ s4 \in HostState /\ Put(s3, s4, T1, Value(s3, RS1), {})
  BY <1>0, <1>1, <1>4, <1>8, MovPuts
<1> HIDE DEF c4, s4
<1>10. /\ c5 \in Safe /\ s5 \in HostState
       /\ Put(s4, s5, T1, Compute("ADD", Value(s4, T1), Value(s4, IMM)), {})
  BY <1>0, <1>1, <1>3, <1>4, <1>9, OpPuts
<1> HIDE DEF c5, s5
<1>11. /\ c6 \in Safe /\ s6 \in HostState
       /\ Put(s5, s6, T1, Compute("AND", Value(s5, T1), Value(s5, Imm(Modulus - 2))), {})
  BY <1>1, <1>2, <1>3, <1>4, <1>10, OpPuts
<1> HIDE DEF c6, s6
<1>12. c7 \in Safe /\ s7 \in HostState /\ Put(s6, s7, PC, Value(s6, T1), {})
  BY <1>1, <1>4, <1>11, MovPuts
<1> HIDE DEF c7, s7
<1>13. c1 \o c2 \in Safe /\ Run(st, c1 \o c2) = s2
  BY <1>6, <1>7, SafeConcat DEF s1, s2
<1>14. c1 \o c2 \o c3 \in Safe /\ Run(st, c1 \o c2 \o c3) = s3
  BY <1>8, <1>13, SafeConcat DEF s3
<1>15. c1 \o c2 \o c3 \o c4 \in Safe /\ Run(st, c1 \o c2 \o c3 \o c4) = s4
  BY <1>9, <1>14, SafeConcat DEF s4
<1>16. c1 \o c2 \o c3 \o c4 \o c5 \in Safe /\ Run(st, c1 \o c2 \o c3 \o c4 \o c5) = s5
  BY <1>10, <1>15, SafeConcat DEF s5
<1>17. /\ c1 \o c2 \o c3 \o c4 \o c5 \o c6 \in Safe
       /\ Run(st, c1 \o c2 \o c3 \o c4 \o c5 \o c6) = s6
  BY <1>11, <1>16, SafeConcat DEF s6
<1>18. JALR \in Safe /\ Run(st, JALR) = s7
  BY <1>5, <1>12, <1>17, SafeConcat DEF s7
<1>19. Value(s1, PC) = Ahead(st, 4) /\ Value(s2, T1) = Ahead(st, 4)
  BY <1>1, <1>6, <1>7 DEF Put
<1>20. RD \in Loc => Value(s3, RD) = Ahead(st, 4)
  BY <1>8, <1>19 DEF Put
<1>21. \A o \in Loc : o \notin {RD, T1, PC} => Value(s3, o) = Value(st, o)
  BY <1>6, <1>7, <1>8 DEF Put
<1>22. Value(s3, RS1) = base
  <2>1. CASE RS1 \in Loc /\ RS1 = RD
    BY <1>0, <1>20, <2>1
  <2>2. CASE RS1 \in Loc /\ RS1 # RD
    BY <1>0, <1>21, <2>2
  <2>3. CASE RS1 \notin Loc
    <3>1. Value(s3, RS1) = Value(st, RS1)
      BY <1>0, <2>3, LocFacts DEF Value
    <3> QED
      BY <1>0, <2>3, <3>1
  <2> QED
    BY <2>1, <2>2, <2>3
<1> HIDE DEF base
<1>23. Value(s4, T1) = base /\ base \in Val
  BY <1>0, <1>1, <1>8, <1>9, <1>22, ValueTyped DEF Put
<1>24. Value(s5, T1) = sum
  <2>1. Compute("ADD", base, inst.imm) = sum
    BY <1>0, <1>23, ComputeAssumption
  <2> QED
    BY <1>0, <1>1, <1>10, <1>23, <2>1 DEF Put
<1> HIDE DEF sum
<1>25. Value(s6, T1) = p
  BY <1>1, <1>2, <1>11, <1>24 DEF Put
<1> HIDE DEF p
<1>26. Value(s7, PC) = p
  BY <1>1, <1>12, <1>25 DEF Put
<1>27. RD \in Loc => Value(s7, RD) = Ahead(st, 4)
  BY <1>0, <1>9, <1>10, <1>11, <1>12, <1>20 DEF Put
<1>28. \A o \in Loc : o \notin {RD, T1, PC} => Value(s7, o) = Value(st, o)
  BY <1>9, <1>10, <1>11, <1>12, <1>21 DEF Put
<1>29. s7.mem = st.mem
  BY <1>6, <1>7, <1>8, <1>9, <1>10, <1>11, <1>12 DEF Put
<1>30. Goes(st, s7, Ahead(st, 4), p)
  BY <1>12, <1>26, <1>27, <1>28, <1>29 DEF Goes
<1> QED
  BY <1>18, <1>30 DEF p, sum, base
(* A comparison, and the jump it decides. *)
LEMMA BranchRuns ==
    ASSUME InTrace, IInv, NEW st \in HostState, NEW off \in Nat
    PROVE  LET new == Run(st, Compare \o Advance(off))
           IN  /\ Compare \o Advance(off) \in Safe /\ new \in HostState /\ new.mem = st.mem
               /\ Value(new, PC) = Ahead(st, off)
               /\ \A o \in Loc : o \notin {T1, PC} => Value(new, o) = Value(st, o)
<1> DEFINE s1 == Run(st, Compare)
           s2 == Run(s1, Advance(off))
<1>1. /\ Compare \in Safe /\ s1 \in HostState /\ s1.mem = st.mem
      /\ \A o \in Loc : o # T1 => Value(s1, o) = Value(st, o)
  BY CompareRuns
<1> HIDE DEF s1
<1>2. Advance(off) \in Safe /\ s2 \in HostState /\ Put(s1, s2, PC, Ahead(s1, off), {})
  BY <1>1, AdvanceRuns
<1> HIDE DEF s2
<1>3. Compare \o Advance(off) \in Safe /\ Run(st, Compare \o Advance(off)) = s2
  BY <1>1, <1>2, SafeConcat DEF s1, s2
<1>4. PC \in Loc /\ Ahead(s1, off) = Ahead(st, off)
  BY <1>1, ScratchFacts DEF Ahead
<1>5. /\ s2.mem = st.mem /\ Value(s2, PC) = Ahead(st, off)
      /\ \A o \in Loc : o \notin {T1, PC} => Value(s2, o) = Value(st, o)
  BY <1>1, <1>2, <1>4 DEF Put
<1> QED
  BY <1>2, <1>3, <1>5

-----------------------------------------------------------------------------
(* deallocateAllRegs stores every register that is held, once. *)
LEMMA SetToSeqFacts ==
    ASSUME NEW S, IsFiniteSet(S)
    PROVE  LET s == SetToSeq(S)
           IN  /\ Len(s) \in Nat /\ DOMAIN s = 1 .. Len(s)
               /\ \A i \in 1 .. Len(s) : s[i] \in S
               /\ \A g \in S : \E i \in 1 .. Len(s) : s[i] = g
               /\ \A i, j \in 1 .. Len(s) : s[i] = s[j] => i = j
<1> DEFINE n == Cardinality(S)
           s == SetToSeq(S)
<1>1. n \in Nat /\ ExistsBijection(1 .. n, S)
  BY FS_CardinalityType
<1>2. \E f \in [1 .. n -> S] : IsInjective(f)
  BY <1>1 DEF ExistsBijection, Bijection, Injection
<1>3. s \in [1 .. n -> S] /\ IsInjective(s)
  BY <1>2 DEF SetToSeq
<1>4. s \in Injection(1 .. n, S)
  BY <1>3 DEF Injection
<1> HIDE DEF s
<1>5. Cardinality(1 .. n) = n
  BY <1>1, FS_Interval
<1>6. s \in Surjection(1 .. n, S)
  BY <1>4, <1>5, FS_Injection
<1>7. s \in Seq(S) /\ Len(s) = n /\ DOMAIN s = 1 .. n
  <2>1. s = [i \in 1 .. n |-> s[i]] /\ \A i \in 1 .. n : s[i] \in S
    BY <1>3
  <2> QED
    BY <1>1, <2>1
<1> QED
  BY <1>1, <1>3, <1>6, <1>7 DEF Surjection, IsInjective, s

LEMMA SavesRuns ==
    ASSUME NEW map, NEW pool, Exact(map, pool), NEW st \in HostState
    PROVE  LET held == SetToSeq({g \in Reg : map[g] # Mem})
               saves == [i \in DOMAIN held |-> Mov(<<"mem", held[i]>>, <<"reg", map[held[i]]>>)[1]]
           IN  /\ saves \in Code
               /\ Keeps(st, map, Run(st, saves), Unmapped, Reg)
<1> DEFINE S == {g \in Reg : map[g] # Mem}
           held == SetToSeq(S)
           n == Len(held)
           d(i) == <<"mem", held[i]>>
           a(i) == <<"reg", map[held[i]]>>
           saves == [i \in DOMAIN held |-> Mov(d(i), a(i))[1]]
<1>1. IsFiniteSet(S)
  <2>1. IsFiniteSet(Reg) /\ S \in SUBSET Reg
    BY JITAssumption
  <2> HIDE DEF S
  <2> QED
    BY <2>1, FS_Subset
<1>2. /\ n \in Nat /\ DOMAIN held = 1 .. n
      /\ \A i \in 1 .. n : held[i] \in S
      /\ \A g \in S : \E i \in 1 .. n : held[i] = g
      /\ \A i, j \in 1 .. n : held[i] = held[j] => i = j
  <2> HIDE DEF S
  <2> QED
    BY <1>1, SetToSeqFacts
<1> HIDE DEF held, n
<1>3. /\ map \in [Reg -> Host \union {Mem}] /\ "pc" \notin Reg
      /\ \A i \in 1 .. n : held[i] \in Reg /\ map[held[i]] \in Host /\ map[held[i]] # Mem
  BY <1>2, JITAssumption DEF Exact
<1>4. ASSUME NEW i \in 1 .. n
      PROVE  /\ d(i) \in Loc /\ a(i) \in Loc /\ d(i) \in Operand /\ a(i) \in Operand /\ Fits(d(i), a(i))
             /\ d(i) # PC
  <2>1. d(i) \in Loc /\ a(i) \in Loc
    BY <1>3 DEF Loc
  <2>2. ~IsMem(a(i)) /\ d(i) # PC
    BY <1>3 DEF IsMem, PC
  <2> QED
    BY <2>1, <2>2, LocFacts DEF Fits
<1>5. \A i \in 1 .. n : saves[i] = Ins("mov", d(i), a(i)) /\ Ins("mov", d(i), a(i)) \in HostInst
  <2>1. "mov" \in HostOp
    BY DEF HostOp
  <2>2. \A i \in 1 .. n : saves[i] = Ins("mov", d(i), a(i))
    BY <1>2 DEF Mov, Op, Ins
  <2> HIDE DEF saves
  <2>3. ASSUME NEW i \in 1 .. n
        PROVE  Ins("mov", d(i), a(i)) \in HostInst
    <3>1. d(i) \in Operand /\ a(i) \in Operand
      BY <1>4
    <3> HIDE DEF d, a
    <3> QED
      BY <2>1, <3>1 DEF HostInst, Ins
  <2> QED
    BY <2>2, <2>3
<1>6. saves \in Code /\ Len(saves) = n
  <2>1. saves = [i \in 1 .. n |-> saves[i]]
    BY <1>2
  <2>2. \A i \in 1 .. n : saves[i] \in HostInst
    <3> HIDE DEF saves
    <3> QED
      BY <1>5
  <2> HIDE DEF saves
  <2> QED
    BY <1>2, <2>1, <2>2 DEF Code
<1> HIDE DEF saves
<1>7. PICK f : IsRun(f, st, saves)
  BY <1>2, <1>6, RunExists
<1>8. Run(st, saves) = f[n]
  BY <1>2, <1>6, <1>7, RunIs
<1>9. f[0] = st /\ \A k \in 1 .. n : f[k] = Emit(f[k - 1], saves[k])
  <2>1. \A k \in 1 .. n : k \in 0 .. n /\ k # 0
    OBVIOUS
  <2>2. 0 \in 0 .. n
    BY <1>2
  <2> QED
    BY <1>6, <1>7, <2>1, <2>2 DEF IsRun
<1> DEFINE Stored(k, g) == \E i \in 1 .. k : held[i] = g
           Good(k) ==
             /\ f[k] \in HostState /\ f[k].mem = st.mem /\ f[k].flags = st.flags
             /\ Value(f[k], PC) = Value(st, PC)
             /\ \A h \in Host : Value(f[k], <<"reg", h>>) = Value(st, <<"reg", h>>)
             /\ \A g \in Reg : Value(f[k], <<"mem", g>>) =
                    IF Stored(k, g) THEN Value(st, Where(map, g)) ELSE Value(st, <<"mem", g>>)
           T == {k \in 0 .. n : ~Good(k)}
<1>10. Good(0)
  BY <1>9
<1>11. ASSUME NEW k \in 1 .. n, Good(k - 1)
       PROVE  Good(k)
  <2> DEFINE b == f[k - 1]
             r == f[k]
  <2>1. b \in HostState /\ d(k) \in Loc /\ a(k) \in Loc /\ Fits(d(k), a(k)) /\ d(k) # PC
    BY <1>4, <1>11
  <2>2. r = Emit(b, Ins("mov", d(k), a(k)))
    BY <1>5, <1>9
  <2>3. Put(b, r, d(k), Value(b, a(k)), {})
    <3> HIDE DEF d, a, b, r
    <3> QED
      BY <2>1, <2>2, EmitMov
  <2>4. Value(r, d(k)) = Value(b, a(k)) /\ \A o \in Loc : o # d(k) => Value(r, o) = Value(b, o)
    <3> HIDE DEF d, a, b, r
    <3> QED
      BY <2>1, <2>3 DEF Put
  <2>5. r \in HostState /\ r.mem = st.mem /\ r.flags = st.flags
    <3>1. b.mem = st.mem /\ b.flags = st.flags
      BY <1>11
    <3> HIDE DEF b, r
    <3> QED
      BY <2>3, <3>1 DEF Put
  <2>6. Value(r, PC) = Value(st, PC)
    BY <1>11, <2>1, <2>4, ScratchFacts
  <2>7. \A h \in Host : Value(r, <<"reg", h>>) = Value(st, <<"reg", h>>)
    <3>1. \A h \in Host : <<"reg", h>> \in Loc /\ <<"reg", h>> # d(k)
      BY DEF Loc
    <3> QED
      BY <1>11, <2>4, <3>1
  <2>8. Value(r, d(k)) = Value(st, Where(map, held[k]))
    <3>1. Value(b, a(k)) = Value(st, a(k)) /\ Where(map, held[k]) = a(k)
      BY <1>3, <1>11 DEF Where
    <3> QED
      BY <2>4, <3>1
  <2>9. ASSUME NEW g \in Reg
        PROVE  Value(r, <<"mem", g>>) =
                 IF Stored(k, g) THEN Value(st, Where(map, g)) ELSE Value(st, <<"mem", g>>)
    <3>1. CASE g = held[k]
      <4>1. Stored(k, g)
        BY <3>1
      <4> QED
        BY <2>8, <3>1, <4>1
    <3>2. CASE g # held[k]
      <4>1. Stored(k, g) <=> Stored(k - 1, g)
        <5>1. k \in Nat /\ \A i \in 1 .. k : i = k \/ i \in 1 .. k - 1
          BY <1>2
        <5>2. \A i \in 1 .. k - 1 : i \in 1 .. k
          BY <1>2
        <5> QED
          BY <3>2, <5>1, <5>2
      <4>2. <<"mem", g>> \in Loc /\ <<"mem", g>> # d(k)
        BY <3>2 DEF Loc
      <4>3. Value(r, <<"mem", g>>) = Value(b, <<"mem", g>>)
        BY <2>4, <4>2
      <4> HIDE DEF Stored
      <4> QED
        BY <1>11, <4>1, <4>3
    <3> QED
      BY <3>1, <3>2
  <2> QED
    BY <2>5, <2>6, <2>7, <2>9
<1> HIDE DEF Good
<1>12. T = {}
  <2> SUFFICES ASSUME T # {} PROVE FALSE
    OBVIOUS
  <2>1. T \subseteq Nat
    OBVIOUS
  <2>2. \E k \in T : \A j \in T : k <= j
    <3> HIDE DEF T
    <3> QED
      BY <2>1, LeastOf
  <2>3. PICK k \in T : \A j \in T : k <= j
    BY <2>2
  <2>4. k \in 0 .. n /\ ~Good(k)
    OBVIOUS
  <2>5. k # 0
    BY <1>10, <2>4
  <2>6. k \in 1 .. n /\ k - 1 \in 0 .. n /\ ~(k <= k - 1)
    BY <1>2, <2>4, <2>5
  <2>7. Good(k - 1)
    BY <2>3, <2>6
  <2> QED
    BY <1>11, <2>4, <2>6, <2>7
<1>13. Good(n)
  <2>1. n \in 0 .. n
    BY <1>2
  <2> QED
    BY <1>12, <2>1
<1>14. ASSUME NEW g \in Reg
       PROVE  Value(f[n], Where(Unmapped, g)) = Value(st, Where(map, g))
  <2>1. Where(Unmapped, g) = <<"mem", g>>
    BY DEF Where, Unmapped
  <2>2. CASE map[g] = Mem
    <3>1. ~Stored(n, g) /\ Where(map, g) = <<"mem", g>>
      BY <1>2, <2>2 DEF Where
    <3> HIDE DEF Stored
    <3> QED
      BY <1>13, <2>1, <3>1 DEF Good
  <2>3. CASE map[g] # Mem
    <3>1. Stored(n, g)
      BY <1>2, <2>3
    <3> HIDE DEF Stored
    <3> QED
      BY <1>13, <2>1, <3>1 DEF Good
  <2> QED
    BY <2>2, <2>3
<1>15. Keeps(st, map, Run(st, saves), Unmapped, Reg)
  BY <1>8, <1>13, <1>14 DEF Keeps, Good
<1> QED
  BY <1>6, <1>15 DEF saves, held
-----------------------------------------------------------------------------
(* The interpreter's side: what each kind of instruction does, and that its *)
(* registers and memory keep holding words.                                 *)
GuestState == [fields : [Reg \union {"pc"} -> Val], mem : [Addr -> Val]]

LEMMA InterpretedIs ==
    /\ inst.op \in {"imm", "addi", "setimm"} =>
          Interpreted = SetReg(Compute(inst.fn, X(inst.rs1), inst.imm))
    /\ inst.op \in {"reg", "add", "shift", "set", "mul", "mulh"} =>
          Interpreted = SetReg(Compute(inst.fn, X(inst.rs1), X(inst.rs2)))
    /\ inst.op = "lui" => Interpreted = SetReg(inst.imm)
    /\ inst.op = "auipc" => Interpreted = SetReg(PcPlus(inst.imm))
    /\ inst.op = "load" => Interpreted = SetReg(Compute(inst.fn, x.mem[Address], 0))
    /\ inst.op = "store" =>
          Interpreted = [x EXCEPT !.mem[Address] = Compute(inst.fn, @, X(inst.rs2))]
    /\ inst.op = "jal" =>
          Interpreted = [SetReg(PcPlus(4)) EXCEPT !.fields["pc"] = PcPlus(inst.imm)]
    /\ inst.op = "jalr" =>
          LET y == SetReg(PcPlus(4))
              base == IF inst.rs1 = "x0" THEN 0 ELSE y.fields[inst.rs1]
          IN  Interpreted = [y EXCEPT !.fields["pc"] =
                                Compute("AND", (base + inst.imm) % Modulus, Modulus - 2)]
    /\ inst.op = "branch" =>
          Interpreted = [x EXCEPT !.fields["pc"] =
                            IF Takes(inst.fn, X(inst.rs1), X(inst.rs2))
                            THEN PcPlus(inst.imm) ELSE PcPlus(4)]
  BY DEF Interpreted

LEMMA FnFacts ==
    ASSUME InTrace
    PROVE  /\ inst.op = "imm" => inst.fn \in Plain
           /\ inst.op = "addi" => inst.fn = "ADD"
           /\ inst.op = "setimm" => inst.fn \in {"SLT", "SLTU"}
           /\ inst.op = "reg" => inst.fn \in Plain
           /\ inst.op = "add" => inst.fn = "ADD"
           /\ inst.op = "shift" => inst.fn \in Shifts
           /\ inst.op = "set" => inst.fn \in {"SLT", "SLTU"}
           /\ inst.op = "mul" => inst.fn = "MUL"
           /\ inst.op = "mulh" => inst.fn = "MULH"
           /\ inst.op = "load" => inst.fn \in Loads
           /\ inst.op = "store" => inst.fn \in Stores
           /\ inst.op = "branch" => inst.fn \in Template.branch
           /\ inst.op \in {"imm", "addi", "setimm", "reg", "add", "shift", "set", "mul", "mulh",
                           "lui", "auipc", "load", "store", "jal", "jalr", "branch"}
<1>1. inst.op \in DOMAIN Template /\ inst.fn \in Template[inst.op]
  BY InstFacts
<1>2. Template.imm \subseteq Plain /\ Template.reg \subseteq Plain
  BY DEF Template, Plain
<1> QED
  BY <1>1, <1>2 DEF Template

LEMMA XTyped ==
    ASSUME InTrace, x \in GuestState
    PROVE  /\ X(inst.rs1) \in Val /\ X(inst.rs2) \in Val /\ x.fields["pc"] \in Val
           /\ \A off \in Nat : PcPlus(off) \in Val
           /\ \A v \in Val : SetReg(v) \in GuestState
<1>0. /\ inst.rs1 \in Reg \union {"x0"} /\ inst.rs2 \in Reg \union {"x0"}
      /\ inst.rd \in Reg \union {"x0"} /\ OFFSET \in Nat
  BY InstFacts
<1>1. x.fields \in [Reg \union {"pc"} -> Val] /\ x.mem \in [Addr -> Val]
  BY DEF GuestState
<1>2. X(inst.rs1) \in Val /\ X(inst.rs2) \in Val /\ x.fields["pc"] \in Val
  BY <1>0, <1>1, WordFacts DEF X
<1>3. ASSUME NEW off \in Nat
      PROVE  PcPlus(off) \in Val
  <2> DEFINE p == x.fields["pc"]
  <2>0. p \in Nat
    BY <1>2, WordFacts
  <2> HIDE DEF p
  <2>1. p + OFFSET + off \in Nat
    BY <1>0, <2>0
  <2> QED
    BY <2>1, WordFacts DEF PcPlus, p
<1>4. ASSUME NEW v \in Val
      PROVE  SetReg(v) \in GuestState
  BY <1>0 DEF SetReg, GuestState
<1> QED
  BY <1>2, <1>3, <1>4

LEMMA AddressTyped ==
    ASSUME InTrace, x \in GuestState
    PROVE  Address \in Val
<1>1. X(inst.rs1) \in Nat /\ inst.imm \in Nat
  BY InstFacts, XTyped, WordFacts
<1> QED
  BY <1>1, JITAssumption DEF Address, Val

LEMMA InterpretedTyped ==
    ASSUME InTrace, x \in GuestState, inst.op \in {"load", "store"} => Address \in Addr
    PROVE  Interpreted \in GuestState
<1>0. /\ inst.imm \in Val /\ inst.imm \in Nat /\ inst.rs1 \in Reg \union {"x0"} /\ 4 \in Nat
      /\ 0 \in Val /\ Modulus - 2 \in Val
  BY InstFacts, WordFacts
<1>1. x.fields \in [Reg \union {"pc"} -> Val] /\ x.mem \in [Addr -> Val]
  BY DEF GuestState
<1>2. CASE inst.op \in {"imm", "addi", "setimm"}
  <2>1. Compute(inst.fn, X(inst.rs1), inst.imm) \in Val
    BY <1>0, <1>2, FnFacts, XTyped, ComputeAssumption DEF Plain
  <2> QED
    BY <1>2, <2>1, InterpretedIs, XTyped
<1>3. CASE inst.op \in {"reg", "add", "shift", "set", "mul", "mulh"}
  <2>1. Compute(inst.fn, X(inst.rs1), X(inst.rs2)) \in Val
    BY <1>3, FnFacts, XTyped, ComputeAssumption DEF Plain
  <2> QED
    BY <1>3, <2>1, InterpretedIs, XTyped
<1>4. CASE inst.op = "lui"
  BY <1>0, <1>4, InterpretedIs, XTyped
<1>5. CASE inst.op = "auipc"
  BY <1>0, <1>5, InterpretedIs, XTyped
<1>6. CASE inst.op = "load"
  <2>1. Compute(inst.fn, x.mem[Address], 0) \in Val
    BY <1>0, <1>1, <1>6, FnFacts, ComputeAssumption
  <2> QED
    BY <1>6, <2>1, InterpretedIs, XTyped
<1>7. CASE inst.op = "store"
  <2> DEFINE v == Compute(inst.fn, x.mem[Address], X(inst.rs2))
  <2>1. v \in Val /\ Address \in Addr
    BY <1>1, <1>7, FnFacts, XTyped, ComputeAssumption
  <2>2. Interpreted = [x EXCEPT !.mem[Address] = v]
    BY <1>7, InterpretedIs DEF GuestState
  <2> HIDE DEF v
  <2> QED
    BY <2>1, <2>2 DEF GuestState
<1>8. CASE inst.op = "jal"
  <2> DEFINE y == SetReg(PcPlus(4))
             p == PcPlus(inst.imm)
  <2>1. y \in GuestState /\ p \in Val
    BY <1>0, XTyped
  <2>2. Interpreted = [y EXCEPT !.fields["pc"] = p]
    BY <1>8, InterpretedIs
  <2> HIDE DEF y, p
  <2> QED
    BY <2>1, <2>2 DEF GuestState
<1>9. CASE inst.op = "jalr"
  <2> DEFINE y == SetReg(PcPlus(4))
             base == IF inst.rs1 = "x0" THEN 0 ELSE y.fields[inst.rs1]
             p == Compute("AND", (base + inst.imm) % Modulus, Modulus - 2)
  <2>1. y \in GuestState
    BY <1>0, XTyped
  <2>2. Interpreted = [y EXCEPT !.fields["pc"] = p]
    BY <1>9, InterpretedIs
  <2> HIDE DEF y
  <2>3. base \in Val
    BY <1>0, <2>1 DEF GuestState
  <2> HIDE DEF base
  <2>4. (base + inst.imm) % Modulus \in Val
    BY <1>0, <2>3, WordFacts
  <2>5. p \in Val
    BY <1>0, <2>4, ComputeAssumption
  <2> HIDE DEF p
  <2> QED
    BY <2>1, <2>2, <2>5 DEF GuestState
<1>10. CASE inst.op = "branch"
  <2> DEFINE p == IF Takes(inst.fn, X(inst.rs1), X(inst.rs2)) THEN PcPlus(inst.imm) ELSE PcPlus(4)
  <2>1. p \in Val
    BY <1>0, XTyped
  <2>2. Interpreted = [x EXCEPT !.fields["pc"] = p]
    BY <1>10, InterpretedIs
  <2> HIDE DEF p
  <2> QED
    BY <2>1, <2>2 DEF GuestState
<1> QED
  BY <1>2, <1>3, <1>4, <1>5, <1>6, <1>7, <1>8, <1>9, <1>10, FnFacts
-----------------------------------------------------------------------------
(* The registers in K, pc and memory of the host state st, with registers   *)
(* where map says, are those of the interpreter's state y.                  *)
Agrees(st, map, y, K) ==
    /\ y.mem = st.mem
    /\ y.fields["pc"] = Value(st, PC)
    /\ \A g \in K : y.fields[g] = Value(st, Where(map, g))

(* The operands that an instruction reads have the interpreter's values. *)
LEMMA ReadFacts ==
    ASSUME InTrace, IInv, NEW st \in HostState, Agrees(st, pre.map, x, Valued)
    PROVE  /\ inst.op \notin {"lui", "auipc", "jal"} => Value(st, RS1) = X(inst.rs1)
           /\ inst.op \in {"reg", "add", "shift", "set", "mul", "mulh", "store", "branch"} =>
                 Value(st, RS2) = X(inst.rs2)
           /\ \A off \in Nat : Ahead(st, off) = PcPlus(off)
<1>0. inst.rs1 \in Reg \union {"x0"} /\ inst.rs2 \in Reg \union {"x0"}
  BY InstFacts
<1>1. ASSUME NEW g \in Reg \union {"x0"}, g \in Reads(inst)
      PROVE  Value(st, getReg(g)) = X(g)
  <2>1. CASE g = "x0"
    <3>1. getReg(g) = Imm(0) /\ X(g) = 0
      BY <2>1, RegisterFacts DEF X
    <3> QED
      BY <3>1, LocFacts, WordFacts
  <2>2. CASE g # "x0"
    <3>1. g \in Reg /\ g \in Valued /\ getReg(g) = Where(pre.map, g)
      BY <1>1, <2>2, RegisterFacts DEF Valued
    <3> QED
      BY <2>2, <3>1 DEF Agrees, X
  <2> QED
    BY <2>1, <2>2
<1>2. inst.op \notin {"lui", "auipc", "jal"} => inst.rs1 \in Reads(inst)
  BY DEF Reads, Rs1
<1>3. inst.op \in {"reg", "add", "shift", "set", "mul", "mulh", "store", "branch"} =>
         inst.rs2 \in Reads(inst)
  BY DEF Reads, Rs2
<1>4. \A off \in Nat : Ahead(st, off) = PcPlus(off)
  BY DEF Ahead, PcPlus, Agrees
<1> QED
  BY <1>0, <1>1, <1>2, <1>3, <1>4 DEF RS1, RS2

LEMMA SetsAgree ==
    ASSUME InTrace, IInv, x \in GuestState, NEW st, Agrees(st, pre.map, x, Valued),
           inst.op \notin {"store", "branch"}, NEW new, NEW v, Sets(st, new, v)
    PROVE  Agrees(new, pre.map, SetReg(v), Reg)
<1>0. /\ inst.rd \in Reg \union {"x0"} /\ "pc" \notin Reg
      /\ RD \in Loc <=> inst.rd # "x0"
      /\ RD \notin {T1, T2, PC}
      /\ \A g \in Reg : g # inst.rd => Where(pre.map, g) \in Loc \ {RD, T1, T2, PC}
  BY InstFacts, JITAssumption, OperandFacts
<1>1. inst.rd # "x0" => RD = Where(pre.map, inst.rd)
  BY <1>0, RegisterFacts DEF RD
<1>2. Rd(inst) = {inst.rd}
  BY DEF Rd
<1> DEFINE y == SetReg(v)
<1>3. /\ y.mem = x.mem /\ y.fields["pc"] = x.fields["pc"]
      /\ \A g \in Reg : y.fields[g] = IF g = inst.rd THEN v ELSE x.fields[g]
  <2>1. CASE inst.rd = "x0"
    <3>1. y = x /\ \A g \in Reg : g # inst.rd
      BY <2>1, JITAssumption DEF SetReg
    <3> QED
      BY <3>1
  <2>2. CASE inst.rd # "x0"
    <3>1. y = [x EXCEPT !.fields[inst.rd] = v]
      BY <2>2 DEF SetReg
    <3> QED
      BY <1>0, <2>2, <3>1 DEF GuestState
  <2> QED
    BY <2>1, <2>2
<1> HIDE DEF y
<1>4. y.mem = new.mem /\ y.fields["pc"] = Value(new, PC)
  BY <1>0, <1>3, ScratchFacts DEF Sets, Agrees
<1>5. ASSUME NEW g \in Reg
      PROVE  y.fields[g] = Value(new, Where(pre.map, g))
  <2>1. CASE g = inst.rd
    <3>1. inst.rd # "x0"
      BY <2>1, JITAssumption
    <3> QED
      BY <1>0, <1>1, <1>3, <2>1, <3>1 DEF Sets
  <2>2. CASE g # inst.rd
    <3>1. g \in Valued
      BY <1>2, <2>2 DEF Valued
    <3> QED
      BY <1>0, <1>3, <2>2, <3>1 DEF Sets, Agrees
  <2> QED
    BY <2>1, <2>2
<1> QED
  BY <1>4, <1>5 DEF Agrees, y

(* The code is right: it runs, and does what the interpreter does unless    *)
(* the instruction is one that is miscompiled.                              *)
Right(st, code) ==
    /\ code \in Code
    /\ Run(st, code) \in HostState
    /\ Agrees(st, pre.map, x, Valued) /\ ~Miscompiled =>
          Agrees(Run(st, code), pre.map, Interpreted, Reg)

LEMMA SafeRight ==
    ASSUME InTrace, IInv, x \in GuestState, NEW st \in HostState, NEW code \in Safe,
           inst.op \notin {"store", "branch"}, NEW v, Interpreted = SetReg(v),
           Agrees(st, pre.map, x, Valued) /\ ~Miscompiled => Sets(st, Run(st, code), v)
    PROVE  Right(st, code)
<1>1. code \in Code /\ Run(st, code) \in HostState
  BY SafeFacts, RunTyped
<1>2. ASSUME Agrees(st, pre.map, x, Valued), ~Miscompiled
      PROVE  Agrees(Run(st, code), pre.map, SetReg(v), Reg)
  BY <1>2, SetsAgree
<1> QED
  BY <1>1, <1>2 DEF Right

LEMMA ImmRight ==
    ASSUME InTrace, IInv, x \in GuestState, NEW st \in HostState, inst.op = "imm"
    PROVE  Right(st, ImmType)
<1> DEFINE v == Compute(inst.fn, X(inst.rs1), inst.imm)
<1>1. Interpreted = SetReg(v)
  BY InterpretedIs
<1>2. /\ ImmType \in Safe
      /\ Sets(st, Run(st, ImmType), Compute(inst.fn, Value(st, RS1), inst.imm))
  BY FnFacts, ImmTypeRuns
<1>3. Agrees(st, pre.map, x, Valued) => Value(st, RS1) = X(inst.rs1)
  BY ReadFacts
<1>4. Agrees(st, pre.map, x, Valued) => Sets(st, Run(st, ImmType), v)
  BY <1>2, <1>3
<1> HIDE DEF v
<1> QED
  BY <1>1, <1>2, <1>4, SafeRight

LEMMA ADDIRight ==
    ASSUME InTrace, IInv, x \in GuestState, NEW st \in HostState, inst.op = "addi"
    PROVE  Right(st, ADDI)
<1> DEFINE v == Compute(inst.fn, X(inst.rs1), inst.imm)
<1>1. Interpreted = SetReg(v)
  BY InterpretedIs
<1>2. /\ ADDI \in Safe
      /\ Sets(st, Run(st, ADDI), Compute(inst.fn, Value(st, RS1), inst.imm))
  BY FnFacts, ADDIRuns
<1>3. Agrees(st, pre.map, x, Valued) => Value(st, RS1) = X(inst.rs1)
  BY ReadFacts
<1>4. Agrees(st, pre.map, x, Valued) => Sets(st, Run(st, ADDI), v)
  BY <1>2, <1>3
<1> HIDE DEF v
<1> QED
  BY <1>1, <1>2, <1>4, SafeRight

LEMMA RegRight ==
    ASSUME InTrace, IInv, x \in GuestState, NEW st \in HostState, inst.op = "reg"
    PROVE  Right(st, RegType)
<1> DEFINE v == Compute(inst.fn, X(inst.rs1), X(inst.rs2))
<1>1. Interpreted = SetReg(v)
  BY InterpretedIs
<1>2. /\ RegType \in Safe
      /\ ~Miscompiled =>
            Sets(st, Run(st, RegType), Compute(inst.fn, Value(st, RS1), Value(st, RS2)))
  BY FnFacts, RegTypeRuns DEF Miscompiled
<1>3. Agrees(st, pre.map, x, Valued) =>
         Value(st, RS1) = X(inst.rs1) /\ Value(st, RS2) = X(inst.rs2)
  BY ReadFacts
<1>4. Agrees(st, pre.map, x, Valued) /\ ~Miscompiled => Sets(st, Run(st, RegType), v)
  BY <1>2, <1>3
<1> HIDE DEF v
<1> QED
  BY <1>1, <1>2, <1>4, SafeRight

LEMMA ADDRight ==
    ASSUME InTrace, IInv, x \in GuestState, NEW st \in HostState, inst.op = "add"
    PROVE  Right(st, ADD)
<1> DEFINE v == Compute(inst.fn, X(inst.rs1), X(inst.rs2))
<1>1. Interpreted = SetReg(v)
  BY InterpretedIs
<1>2. /\ ADD \in Safe
      /\ ~Miscompiled =>
            Sets(st, Run(st, ADD), Compute(inst.fn, Value(st, RS1), Value(st, RS2)))
  BY FnFacts, ADDRuns DEF Miscompiled
<1>3. Agrees(st, pre.map, x, Valued) =>
         Value(st, RS1) = X(inst.rs1) /\ Value(st, RS2) = X(inst.rs2)
  BY ReadFacts
<1>4. Agrees(st, pre.map, x, Valued) /\ ~Miscompiled => Sets(st, Run(st, ADD), v)
  BY <1>2, <1>3
<1> HIDE DEF v
<1> QED
  BY <1>1, <1>2, <1>4, SafeRight

LEMMA ShiftRight ==
    ASSUME InTrace, IInv, x \in GuestState, NEW st \in HostState, inst.op = "shift"
    PROVE  Right(st, Shift)
<1> DEFINE v == Compute(inst.fn, X(inst.rs1), X(inst.rs2))
<1>1. Interpreted = SetReg(v)
  BY InterpretedIs
<1>2. /\ Shift \in Safe
      /\ ~Miscompiled =>
            Sets(st, Run(st, Shift), Compute(inst.fn, Value(st, RS1), Value(st, RS2)))
  BY FnFacts, ShiftRuns DEF Miscompiled
<1>3. Agrees(st, pre.map, x, Valued) =>
         Value(st, RS1) = X(inst.rs1) /\ Value(st, RS2) = X(inst.rs2)
  BY ReadFacts
<1>4. Agrees(st, pre.map, x, Valued) /\ ~Miscompiled => Sets(st, Run(st, Shift), v)
  BY <1>2, <1>3
<1> HIDE DEF v
<1> QED
  BY <1>1, <1>2, <1>4, SafeRight

LEMMA SetRight ==
    ASSUME InTrace, IInv, x \in GuestState, NEW st \in HostState, inst.op = "set"
    PROVE  Right(st, SetLess)
<1> DEFINE v == Compute(inst.fn, X(inst.rs1), X(inst.rs2))
<1>1. Interpreted = SetReg(v)
  BY InterpretedIs
<1>2. /\ SetLess \in Safe
      /\ Sets(st, Run(st, SetLess), Compute(inst.fn, Value(st, RS1), Value(st, RS2)))
  BY FnFacts, SetLessRuns
<1>3. Agrees(st, pre.map, x, Valued) =>
         Value(st, RS1) = X(inst.rs1) /\ Value(st, RS2) = X(inst.rs2)
  BY ReadFacts
<1>4. Agrees(st, pre.map, x, Valued) => Sets(st, Run(st, SetLess), v)
  BY <1>2, <1>3
<1> HIDE DEF v
<1> QED
  BY <1>1, <1>2, <1>4, SafeRight

LEMMA SetImmRight ==
    ASSUME InTrace, IInv, x \in GuestState, NEW st \in HostState, inst.op = "setimm"
    PROVE  Right(st, SetLessImm)
<1> DEFINE v == Compute(inst.fn, X(inst.rs1), inst.imm)
<1>1. Interpreted = SetReg(v)
  BY InterpretedIs
<1>2. /\ SetLessImm \in Safe
      /\ ~Miscompiled =>
            Sets(st, Run(st, SetLessImm), Compute(inst.fn, Value(st, RS1), inst.imm))
  BY FnFacts, SetLessImmRuns DEF Miscompiled
<1>3. Agrees(st, pre.map, x, Valued) => Value(st, RS1) = X(inst.rs1)
  BY ReadFacts
<1>4. Agrees(st, pre.map, x, Valued) /\ ~Miscompiled => Sets(st, Run(st, SetLessImm), v)
  BY <1>2, <1>3
<1> HIDE DEF v
<1> QED
  BY <1>1, <1>2, <1>4, SafeRight

LEMMA MULRight ==
    ASSUME InTrace, IInv, x \in GuestState, NEW st \in HostState, inst.op = "mul"
    PROVE  Right(st, MUL)
<1> DEFINE v == Compute(inst.fn, X(inst.rs1), X(inst.rs2))
<1>1. Interpreted = SetReg(v)
  BY InterpretedIs
<1>2. /\ MUL \in Safe
      /\ ~Miscompiled =>
            Sets(st, Run(st, MUL), Compute("MUL", Value(st, RS1), Value(st, RS2)))
  <2>1. /\ MUL \in Safe
        /\ \/ inst.rd # "x0" /\ inst.rs2 = "x0"
           \/ Sets(st, Run(st, MUL), Compute("MUL", Value(st, RS1), Value(st, RS2)))
    BY ProductRuns DEF MUL
  <2> QED
    BY <2>1 DEF Miscompiled
<1>3. Agrees(st, pre.map, x, Valued) =>
         Value(st, RS1) = X(inst.rs1) /\ Value(st, RS2) = X(inst.rs2)
  BY ReadFacts
<1>4. Agrees(st, pre.map, x, Valued) /\ ~Miscompiled => Sets(st, Run(st, MUL), v)
  BY <1>2, <1>3, FnFacts
<1> HIDE DEF v
<1> QED
  BY <1>1, <1>2, <1>4, SafeRight

LEMMA MULHRight ==
    ASSUME InTrace, IInv, x \in GuestState, NEW st \in HostState, inst.op = "mulh"
    PROVE  Right(st, MULH)
<1> DEFINE v == Compute(inst.fn, X(inst.rs1), X(inst.rs2))
<1>1. Interpreted = SetReg(v)
  BY InterpretedIs
<1>2. /\ MULH \in Safe
      /\ ~Miscompiled =>
            Sets(st, Run(st, MULH), Compute("MULHU", Value(st, RS1), Value(st, RS2)))
  <2>1. /\ MULH \in Safe
        /\ \/ inst.rd # "x0" /\ inst.rs2 = "x0"
           \/ Sets(st, Run(st, MULH), Compute("MULHU", Value(st, RS1), Value(st, RS2)))
    <3>1. T2 \in {T1, T2} /\ T2 # T1
      BY ScratchFacts
    <3> QED
      BY <3>1, ProductRuns DEF MULH
  <2> QED
    BY <2>1 DEF Miscompiled
<1>3. Agrees(st, pre.map, x, Valued) =>
         Value(st, RS1) = X(inst.rs1) /\ Value(st, RS2) = X(inst.rs2)
  BY ReadFacts
<1>4. CASE inst.rd # "x0"
  <2>1. X(inst.rs1) \in Val /\ X(inst.rs2) \in Val
    BY XTyped
  <2>2. \A w \in Val : AsSigned(w) \in Int
    BY WordFacts DEF AsSigned
  <2>3. ~Miscompiled => AsSigned(X(inst.rs1)) >= 0 /\ AsSigned(X(inst.rs2)) >= 0
    BY <1>4, <2>1, <2>2 DEF Miscompiled
  <2>4. ~Miscompiled => v = Compute("MULHU", X(inst.rs1), X(inst.rs2))
    BY <2>1, <2>3, FnFacts, ComputeAssumption
  <2>5. Agrees(st, pre.map, x, Valued) /\ ~Miscompiled => Sets(st, Run(st, MULH), v)
    BY <1>2, <1>3, <2>4
  <2> HIDE DEF v
  <2> QED
    BY <1>1, <1>2, <2>5, SafeRight
<1>5. CASE inst.rd = "x0"
  <2>1. RD \notin Loc /\ ~Miscompiled
    BY <1>5, OperandFacts DEF Miscompiled
  <2>2. Sets(st, Run(st, MULH), v)
    BY <1>2, <2>1 DEF Sets
  <2> HIDE DEF v
  <2> QED
    BY <1>1, <1>2, <2>2, SafeRight
<1> QED
  BY <1>4, <1>5

LEMMA LUIRight ==
    ASSUME InTrace, IInv, x \in GuestState, NEW st \in HostState, inst.op = "lui"
    PROVE  Right(st, LUI)
<1>1. Interpreted = SetReg(inst.imm)
  BY InterpretedIs
<1> QED
  BY <1>1, LUIRuns, SafeRight

LEMMA AUIPCRight ==
    ASSUME InTrace, IInv, x \in GuestState, NEW st \in HostState, inst.op = "auipc"
    PROVE  Right(st, AUIPC)
<1>1. Interpreted = SetReg(PcPlus(inst.imm))
  BY InterpretedIs
<1>2. inst.imm \in Nat
  BY InstFacts, WordFacts
<1>3. Agrees(st, pre.map, x, Valued) => Ahead(st, inst.imm) = PcPlus(inst.imm)
  BY <1>2, ReadFacts
<1>4. AUIPC \in Safe /\ Sets(st, Run(st, AUIPC), Ahead(st, inst.imm))
  BY AUIPCRuns
<1>5. Agrees(st, pre.map, x, Valued) => Sets(st, Run(st, AUIPC), PcPlus(inst.imm))
  BY <1>3, <1>4
<1> QED
  BY <1>1, <1>4, <1>5, SafeRight
LEMMA LoadRight ==
    ASSUME InTrace, IInv, x \in GuestState, NEW st \in HostState, inst.op = "load",
           Value(st, RS1) + AsSigned(inst.imm) \in Addr
    PROVE  Right(st, Load)
<1> DEFINE v == Compute(inst.fn, x.mem[Address], 0)
           p == Value(st, RS1) + AsSigned(inst.imm)
           new == Run(st, Load)
<1>1. Interpreted = SetReg(v)
  BY InterpretedIs
<1>2. Load \in Code /\ Sets(st, new, Compute(inst.fn, st.mem[p], 0))
  BY FnFacts, LoadRuns
<1>3. new \in HostState
  BY <1>2 DEF Sets
<1>4. ASSUME Agrees(st, pre.map, x, Valued)
      PROVE  Compute(inst.fn, st.mem[p], 0) = v
  <2>1. Value(st, RS1) = X(inst.rs1) /\ x.mem = st.mem
    BY <1>4, ReadFacts DEF Agrees
  <2>2. X(inst.rs1) \in Val /\ inst.imm \in Val
    BY XTyped, InstFacts
  <2>3. Address = p
    BY <2>1, <2>2, AddressSame DEF Address
  <2> QED
    BY <2>1, <2>3
<1> HIDE DEF v, new, p
<1>5. ASSUME Agrees(st, pre.map, x, Valued)
      PROVE  Agrees(new, pre.map, SetReg(v), Reg)
  <2>1. Sets(st, new, v)
    BY <1>2, <1>4, <1>5
  <2> QED
    BY <1>5, <2>1, SetsAgree
<1> QED
  BY <1>1, <1>2, <1>3, <1>5 DEF Right, new

LEMMA StoreRight ==
    ASSUME InTrace, IInv, x \in GuestState, NEW st \in HostState, inst.op = "store",
           Value(st, RS1) + AsSigned(inst.imm) \in Addr
    PROVE  Right(st, Store)
<1> DEFINE p == Value(st, RS1) + AsSigned(inst.imm)
           new == Run(st, Store)
           y == Interpreted
<1>1. y = [x EXCEPT !.mem[Address] = Compute(inst.fn, @, X(inst.rs2))]
  BY InterpretedIs
<1>2. /\ y.mem = [x.mem EXCEPT ![Address] = Compute(inst.fn, @, X(inst.rs2))]
      /\ y.fields = x.fields
  <2> HIDE DEF y
  <2> QED
    BY <1>1 DEF GuestState
<1>3. /\ Store \in Code /\ new \in HostState
      /\ new.mem = [st.mem EXCEPT ![p] = Compute(inst.fn, @, Value(st, RS2))]
      /\ \A o \in Loc : o \notin {T1, T2} => Value(new, o) = Value(st, o)
  BY FnFacts, StoreRuns
<1> HIDE DEF y, new, p
<1>4. ASSUME Agrees(st, pre.map, x, Valued)
      PROVE  Agrees(new, pre.map, y, Reg)
  <2>1. Value(st, RS1) = X(inst.rs1) /\ Value(st, RS2) = X(inst.rs2) /\ x.mem = st.mem
    BY <1>4, ReadFacts DEF Agrees
  <2>2. X(inst.rs1) \in Val /\ inst.imm \in Val
    BY XTyped, InstFacts
  <2>3. Address = p
    BY <2>1, <2>2, AddressSame DEF Address, p
  <2>4. y.mem = new.mem
    BY <1>2, <1>3, <2>1, <2>3
  <2>5. y.fields["pc"] = Value(new, PC)
    BY <1>2, <1>3, <1>4, ScratchFacts DEF Agrees
  <2>6. Valued = Reg
    BY DEF Valued, Rd
  <2>7. \A g \in Reg : Where(pre.map, g) \in Loc /\ Where(pre.map, g) \notin {T1, T2}
    BY PreKeeps, WhereFacts
  <2>8. \A g \in Reg : y.fields[g] = Value(new, Where(pre.map, g))
    BY <1>2, <1>3, <1>4, <2>6, <2>7 DEF Agrees
  <2> QED
    BY <2>4, <2>5, <2>8 DEF Agrees
<1> QED
  BY <1>3, <1>4 DEF Right, new, y

LEMMA GoesAgree ==
    ASSUME InTrace, IInv, x \in GuestState, NEW st, Agrees(st, pre.map, x, Valued),
           inst.op \notin {"store", "branch"}, NEW new, NEW v, NEW p, Goes(st, new, v, p)
    PROVE  Agrees(new, pre.map, [SetReg(v) EXCEPT !.fields["pc"] = p], Reg)
<1>0. /\ inst.rd \in Reg \union {"x0"} /\ "pc" \notin Reg
      /\ RD \in Loc <=> inst.rd # "x0"
      /\ RD \notin {T1, T2, PC}
      /\ \A g \in Reg : g # inst.rd => Where(pre.map, g) \in Loc \ {RD, T1, T2, PC}
  BY InstFacts, JITAssumption, OperandFacts
<1>1. inst.rd # "x0" => RD = Where(pre.map, inst.rd)
  BY <1>0, RegisterFacts DEF RD
<1>2. Rd(inst) = {inst.rd}
  BY DEF Rd
<1> DEFINE y == [SetReg(v) EXCEPT !.fields["pc"] = p]
<1>3. /\ y.mem = x.mem /\ y.fields["pc"] = p
      /\ \A g \in Reg : y.fields[g] = IF g = inst.rd THEN v ELSE x.fields[g]
  <2>1. CASE inst.rd = "x0"
    <3>1. SetReg(v) = x /\ \A g \in Reg : g # inst.rd
      BY <2>1, JITAssumption DEF SetReg
    <3> QED
      BY <1>0, <3>1 DEF GuestState
  <2>2. CASE inst.rd # "x0"
    <3>1. SetReg(v) = [x EXCEPT !.fields[inst.rd] = v]
      BY <2>2 DEF SetReg
    <3> QED
      BY <1>0, <2>2, <3>1 DEF GuestState
  <2> QED
    BY <2>1, <2>2
<1> HIDE DEF y
<1>4. y.mem = new.mem /\ y.fields["pc"] = Value(new, PC)
  BY <1>3 DEF Goes, Agrees
<1>5. ASSUME NEW g \in Reg
      PROVE  y.fields[g] = Value(new, Where(pre.map, g))
  <2>1. CASE g = inst.rd
    <3>1. inst.rd # "x0"
      BY <2>1, JITAssumption
    <3> QED
      BY <1>0, <1>1, <1>3, <2>1, <3>1 DEF Goes
  <2>2. CASE g # inst.rd
    <3>1. g \in Valued
      BY <1>2, <2>2 DEF Valued
    <3> QED
      BY <1>0, <1>3, <2>2, <3>1 DEF Goes, Agrees
  <2> QED
    BY <2>1, <2>2
<1> QED
  BY <1>4, <1>5 DEF Agrees, y

LEMMA JALRight ==
    ASSUME InTrace, IInv, x \in GuestState, NEW st \in HostState, inst.op = "jal"
    PROVE  Right(st, JAL)
<1>1. Interpreted = [SetReg(PcPlus(4)) EXCEPT !.fields["pc"] = PcPlus(inst.imm)]
  BY InterpretedIs
<1>2. JAL \in Safe /\ Goes(st, Run(st, JAL), Ahead(st, 4), Ahead(st, inst.imm))
  BY JALRuns
<1>3. JAL \in Code /\ Run(st, JAL) \in HostState
  BY <1>2, SafeFacts, RunTyped
<1>4. ASSUME Agrees(st, pre.map, x, Valued)
      PROVE  Agrees(Run(st, JAL), pre.map, Interpreted, Reg)
  <2>1. inst.imm \in Nat /\ 4 \in Nat
    BY InstFacts, WordFacts
  <2>2. Ahead(st, 4) = PcPlus(4) /\ Ahead(st, inst.imm) = PcPlus(inst.imm)
    BY <1>4, <2>1, ReadFacts
  <2>3. Goes(st, Run(st, JAL), PcPlus(4), PcPlus(inst.imm))
    BY <1>2, <2>2
  <2> QED
    BY <1>1, <1>4, <2>3, GoesAgree
<1> QED
  BY <1>3, <1>4 DEF Right

LEMMA JALRRight ==
    ASSUME InTrace, IInv, x \in GuestState, NEW st \in HostState, inst.op = "jalr"
    PROVE  Right(st, JALR)
<1> DEFINE y == SetReg(PcPlus(4))
           base == IF inst.rs1 = "x0" THEN 0 ELSE y.fields[inst.rs1]
           hostBase == IF inst.rd # "x0" /\ inst.rd = inst.rs1 THEN Ahead(st, 4) ELSE Value(st, RS1)
           p == Compute("AND", (base + inst.imm) % Modulus, Modulus - 2)
           hostP == Compute("AND", (hostBase + inst.imm) % Modulus, Modulus - 2)
<1>1. Interpreted = [y EXCEPT !.fields["pc"] = p]
  BY InterpretedIs
<1>2. JALR \in Safe /\ Goes(st, Run(st, JALR), Ahead(st, 4), hostP)
  BY JALRRuns
<1>3. JALR \in Code /\ Run(st, JALR) \in HostState
  BY <1>2, SafeFacts, RunTyped
<1>4. ASSUME Agrees(st, pre.map, x, Valued)
      PROVE  Agrees(Run(st, JALR), pre.map, Interpreted, Reg)
  <2>1. inst.rs1 \in Reg \union {"x0"} /\ inst.rd \in Reg \union {"x0"} /\ 4 \in Nat
    BY InstFacts
  <2>2. Ahead(st, 4) = PcPlus(4) /\ Value(st, RS1) = X(inst.rs1)
    BY <1>4, <2>1, ReadFacts
  <2>3. hostBase = base
    <3>1. CASE inst.rs1 = "x0"
      BY <2>2, <3>1 DEF X
    <3>2. CASE inst.rs1 # "x0" /\ inst.rd = "x0"
      <4>1. y = x
        BY <3>2 DEF SetReg
      <4> HIDE DEF y
      <4> QED
        BY <2>2, <3>2, <4>1 DEF X
    <3>3. CASE inst.rs1 # "x0" /\ inst.rd # "x0"
      <4>1. y = [x EXCEPT !.fields[inst.rd] = PcPlus(4)]
        BY <3>3 DEF SetReg
      <4>2. y.fields[inst.rs1] = IF inst.rd = inst.rs1 THEN PcPlus(4) ELSE x.fields[inst.rs1]
        BY <2>1, <3>3, <4>1 DEF GuestState
      <4> HIDE DEF y
      <4> QED
        BY <2>2, <3>3, <4>2 DEF X
    <3> QED
      BY <3>1, <3>2, <3>3
  <2> HIDE DEF hostBase, base
  <2>4. hostP = p
    BY <2>3
  <2> HIDE DEF p, hostP
  <2>5. Goes(st, Run(st, JALR), PcPlus(4), p)
    BY <1>2, <2>2, <2>4
  <2> QED
    BY <1>1, <1>4, <2>5, GoesAgree
<1> QED
  BY <1>3, <1>4 DEF Right

(* Whether a branch jumps is what its comparison finds. *)
LEMMA JumpsFacts ==
    ASSUME InTrace, IInv, m \in HostState
    PROVE  LET st == Run(m, pre.code)
           IN  /\ st \in HostState /\ pre.code \in Code
               /\ With(Compare).code \in Code /\ Run(m, With(Compare).code) = Run(st, Compare)
               /\ Jumps = Takes(inst.fn, Value(st, RS1), Value(st, RS2))
<1> DEFINE st == Run(m, pre.code)
<1>1. pre.code \in Code /\ st \in HostState
  BY PreRuns DEF Keeps
<1>2. Compare \in Safe /\ Run(st, Compare).flags = <<Value(st, RS1), Value(st, RS2)>>
  BY <1>1, CompareRuns
<1>3. Compare \in Code
  BY <1>2, SafeFacts
<1>4. With(Compare).code = pre.code \o Compare
  BY DEF With, Then
<1>5. With(Compare).code \in Code /\ Run(m, With(Compare).code) = Run(st, Compare)
  BY <1>1, <1>3, <1>4, ConcatFacts
<1> HIDE DEF st
<1>6. Jumps = Takes(inst.fn, Value(st, RS1), Value(st, RS2))
  BY <1>2, <1>5 DEF Jumps
<1> QED
  BY <1>1, <1>5, <1>6 DEF st

(* The interpreter's branch. *)
LEMMA BranchInterpreted ==
    ASSUME InTrace, IInv, m \in HostState, x \in GuestState, inst.op = "branch",
           Agrees(Run(m, pre.code), pre.map, x, Valued)
    PROVE  LET off == IF Jumps THEN inst.imm ELSE 4
           IN  /\ off \in Nat
               /\ Interpreted.mem = x.mem
               /\ Interpreted.fields["pc"] = Ahead(Run(m, pre.code), off)
               /\ \A g \in Reg : Interpreted.fields[g] = Value(Run(m, pre.code), Where(pre.map, g))
<1> DEFINE st == Run(m, pre.code)
           off == IF Jumps THEN inst.imm ELSE 4
           p == IF Takes(inst.fn, X(inst.rs1), X(inst.rs2)) THEN PcPlus(inst.imm) ELSE PcPlus(4)
<1>1. st \in HostState /\ Jumps = Takes(inst.fn, Value(st, RS1), Value(st, RS2))
  BY JumpsFacts
<1>2. off \in Nat /\ inst.imm \in Nat /\ 4 \in Nat
  BY InstFacts, WordFacts
<1>3. Interpreted = [x EXCEPT !.fields["pc"] = p]
  BY InterpretedIs
<1> HIDE DEF st
<1>4. /\ Value(st, RS1) = X(inst.rs1) /\ Value(st, RS2) = X(inst.rs2)
      /\ \A k \in Nat : Ahead(st, k) = PcPlus(k)
  <2>1. Agrees(st, pre.map, x, Valued)
    BY DEF st
  <2> QED
    BY <1>1, <2>1, ReadFacts
<1>5. p = Ahead(st, off)
  BY <1>1, <1>2, <1>4
<1> HIDE DEF p, off
<1>6. Interpreted.mem = x.mem /\ Interpreted.fields["pc"] = p
  BY <1>3 DEF GuestState
<1>7. Valued = Reg /\ "pc" \notin Reg
  BY JITAssumption DEF Valued, Rd
<1>8. \A g \in Reg : Interpreted.fields[g] = x.fields[g]
  BY <1>3, <1>7 DEF GuestState
<1>9. \A g \in Reg : x.fields[g] = Value(st, Where(pre.map, g))
  BY <1>7 DEF Agrees, st
<1> QED
  BY <1>2, <1>5, <1>6, <1>8, <1>9 DEF st, off

LEMMA BranchRight ==
    ASSUME InTrace, IInv, m \in HostState, x \in GuestState, inst.op = "branch"
    PROVE  Right(Run(m, pre.code), Compare \o Advance(IF Jumps THEN inst.imm ELSE 4))
<1> DEFINE st == Run(m, pre.code)
           off == IF Jumps THEN inst.imm ELSE 4
           code == Compare \o Advance(off)
           new == Run(st, code)
<1>1. off \in Nat /\ st \in HostState
  BY JumpsFacts, InstFacts, WordFacts
<1> HIDE DEF st, off
<1>2. /\ code \in Safe /\ new \in HostState /\ new.mem = st.mem
      /\ Value(new, PC) = Ahead(st, off)
      /\ \A o \in Loc : o \notin {T1, PC} => Value(new, o) = Value(st, o)
  BY <1>1, BranchRuns
<1>3. code \in Code
  BY <1>2, SafeFacts
<1> HIDE DEF code, new
<1>4. ASSUME Agrees(st, pre.map, x, Valued)
      PROVE  Agrees(new, pre.map, Interpreted, Reg)
  <2>1. /\ Interpreted.mem = x.mem
        /\ Interpreted.fields["pc"] = Ahead(st, off)
        /\ \A g \in Reg : Interpreted.fields[g] = Value(st, Where(pre.map, g))
    BY <1>4, BranchInterpreted DEF st, off
  <2>2. x.mem = st.mem
    BY <1>4 DEF Agrees
  <2>3. \A g \in Reg : Where(pre.map, g) \in Loc /\ Where(pre.map, g) \notin {T1, PC}
    BY PreKeeps, WhereFacts
  <2>4. \A g \in Reg : Interpreted.fields[g] = Value(new, Where(pre.map, g))
    BY <1>2, <2>1, <2>3
  <2> QED
    BY <1>2, <2>1, <2>2, <2>4 DEF Agrees
<1>5. Right(st, code)
  BY <1>2, <1>3, <1>4 DEF Right, new
<1> QED
  BY <1>5 DEF st, code, off
-----------------------------------------------------------------------------
(* A round: pre-work, the template's code, post-work. *)
Sim ==
    /\ m \in HostState
    /\ x \in GuestState
    /\ sound \in BOOLEAN
    /\ sound => Agrees(m, reg_mapping, x, Reg)

LEMMA KeepsAgree ==
    ASSUME NEW st, NEW new, NEW before, NEW after, NEW K, NEW L, L \subseteq K,
           Keeps(st, before, new, after, L), NEW y, Agrees(st, before, y, K)
    PROVE  Agrees(new, after, y, L)
  BY DEF Keeps, Agrees

LEMMA PostSim ==
    ASSUME Sim, NEW host, NEW st, Exact(st.map, st.pool), st.code \in Code,
           Run(host, st.code) \in HostState, Interpreted \in GuestState,
           sound /\ ~Miscompiled => Agrees(Run(host, st.code), st.map, Interpreted, Reg),
           Translated(host, st)
    PROVE  Sim'
<1> DEFINE b == Run(host, st.code)
           new == Run(host, Post(st).code)
<1>1. Keeps(b, st.map, new, Post(st).map, Reg)
  BY PostRuns
<1>2. /\ m' = new /\ reg_mapping' = Post(st).map /\ x' = Interpreted
      /\ sound' = (sound /\ ~Miscompiled)
  BY DEF Translated
<1> HIDE DEF b, new
<1>3. new \in HostState
  BY <1>1 DEF Keeps
<1>4. ASSUME sound, ~Miscompiled
      PROVE  Agrees(new, Post(st).map, Interpreted, Reg)
  <2>1. Agrees(b, st.map, Interpreted, Reg)
    BY <1>4 DEF b
  <2> QED
    BY <1>1, <2>1, KeepsAgree
<1>5. sound' \in BOOLEAN /\ (sound' => sound /\ ~Miscompiled)
  BY <1>2
<1>6. sound' => Agrees(m', reg_mapping', x', Reg)
  BY <1>2, <1>4, <1>5
<1> QED
  BY <1>2, <1>3, <1>5, <1>6 DEF Sim

LEMMA PreSim ==
    ASSUME IInv, NEW host \in HostState
    PROVE  /\ pre.code \in Code /\ Run(host, pre.code) \in HostState
           /\ Agrees(host, reg_mapping, x, Reg) =>
                 Agrees(Run(host, pre.code), pre.map, x, Valued)
<1>1. /\ pre.code \in Code
      /\ Keeps(host, reg_mapping, Run(host, pre.code), pre.map, Valued)
  BY PreRuns
<1>2. Valued \subseteq Reg /\ Run(host, pre.code) \in HostState
  BY <1>1 DEF Valued, Keeps
<1> QED
  BY <1>1, <1>2, KeepsAgree

LEMMA RoundSim ==
    ASSUME HInv, Sim, NEW host \in HostState,
           sound => Agrees(host, reg_mapping, x, Reg),
           NEW code, Right(Run(host, pre.code), code),
           inst.op \in {"load", "store"} => Address \in Addr,
           Translated(host, With(code))
    PROVE  Sim'
<1> DEFINE b == Run(host, pre.code)
           st == With(code)
<1>0. IInv /\ InTrace /\ x \in GuestState
  BY DEF HInv, Sim
<1>1. /\ pre.code \in Code /\ b \in HostState
      /\ Agrees(host, reg_mapping, x, Reg) => Agrees(b, pre.map, x, Valued)
  BY <1>0, PreSim
<1>2. /\ code \in Code /\ Run(b, code) \in HostState
      /\ Agrees(b, pre.map, x, Valued) /\ ~Miscompiled =>
            Agrees(Run(b, code), pre.map, Interpreted, Reg)
  BY DEF Right
<1>3. st.code = pre.code \o code /\ st.map = pre.map /\ st.pool = pre.pool
  BY DEF With, Then
<1>4. st.code \in Code /\ Run(host, st.code) = Run(b, code)
  BY <1>1, <1>2, <1>3, ConcatFacts
<1>5. Exact(st.map, st.pool)
  BY <1>0, <1>3, PreKeeps
<1>6. Interpreted \in GuestState
  BY <1>0, InterpretedTyped
<1> HIDE DEF b
<1>7. sound /\ ~Miscompiled => Agrees(Run(host, st.code), st.map, Interpreted, Reg)
  BY <1>1, <1>2, <1>3, <1>4
<1>8. Run(host, st.code) \in HostState /\ Translated(host, st)
  BY <1>2, <1>4
<1> HIDE DEF st
<1> QED
  BY <1>4, <1>5, <1>6, <1>7, <1>8, PostSim

(* The code that saves every register before a jump to the start. *)
LEMMA SavedRuns ==
    ASSUME InTrace, IInv, m \in HostState
    PROVE  LET st == Run(m, pre.code)
               new == Run(m, Saved.code)
           IN  /\ Saved.code \in Code /\ new \in HostState /\ new.mem = st.mem
               /\ Value(new, PC) = Value(st, PC)
               /\ \A g \in Reg : Value(new, <<"mem", g>>) = Value(st, Where(pre.map, g))
<1> DEFINE st == Run(m, pre.code)
           c == Run(st, Compare)
           held == SetToSeq({g \in Reg : pre.map[g] # Mem})
           saves == [i \in DOMAIN held |-> Mov(<<"mem", held[i]>>, <<"reg", pre.map[held[i]]>>)[1]]
           new == Run(c, saves)
<1>1. /\ st \in HostState
      /\ With(Compare).code \in Code /\ Run(m, With(Compare).code) = c
  BY JumpsFacts
<1>2. /\ c \in HostState /\ c.mem = st.mem
      /\ \A o \in Loc : o # T1 => Value(c, o) = Value(st, o)
  BY <1>1, CompareRuns
<1>3. Saved.code = With(Compare).code \o saves
  BY DEF Saved, DeallocateAll, With, Then
<1>4. Exact(pre.map, pre.pool)
  BY PreKeeps
<1> HIDE DEF st, c
<1>5. saves \in Code /\ Keeps(c, pre.map, new, Unmapped, Reg)
  BY <1>2, <1>4, SavesRuns
<1> HIDE DEF saves, held
<1>6. Saved.code \in Code /\ Run(m, Saved.code) = new
  BY <1>1, <1>3, <1>5, ConcatFacts
<1> HIDE DEF new
<1>7. new \in HostState /\ new.mem = st.mem
  BY <1>2, <1>5 DEF Keeps
<1>8. Value(new, PC) = Value(st, PC)
  BY <1>2, <1>5, ScratchFacts DEF Keeps
<1>9. ASSUME NEW g \in Reg
      PROVE  Value(new, <<"mem", g>>) = Value(st, Where(pre.map, g))
  <2>1. Where(Unmapped, g) = <<"mem", g>>
    BY DEF Where, Unmapped
  <2>2. Where(pre.map, g) \in Loc /\ Where(pre.map, g) # T1
    BY <1>4, WhereFacts
  <2> QED
    BY <1>2, <1>5, <2>1, <2>2 DEF Keeps
<1> QED
  BY <1>6, <1>7, <1>8, <1>9 DEF st

LEMMA SavedIs == Saved.map = Unmapped /\ Saved.pool = Pool
  BY DEF Saved, DeallocateAll

LEMMA LoopExitSim ==
    ASSUME HInv, Sim, LoopExit
    PROVE  Sim'
<1> DEFINE b == Run(m, pre.code)
           z == Run(m, Saved.code)
           st == Then(Saved, Advance(4))
           new == Run(z, Advance(4))
<1>0. IInv /\ InTrace /\ x \in GuestState /\ m \in HostState
  BY DEF HInv, Sim
<1>1. inst.op = "branch" /\ ~Jumps /\ Translated(m, st)
  BY DEF LoopExit, Return
<1>2. /\ Saved.code \in Code /\ z \in HostState /\ z.mem = b.mem
      /\ Value(z, PC) = Value(b, PC)
      /\ \A g \in Reg : Value(z, <<"mem", g>>) = Value(b, Where(pre.map, g))
  BY <1>0, SavedRuns
<1>3. st.code = Saved.code \o Advance(4) /\ st.map = Unmapped /\ st.pool = Pool
  BY SavedIs DEF Then
<1>4. Agrees(m, reg_mapping, x, Reg) => Agrees(b, pre.map, x, Valued)
  BY <1>0, PreSim
<1>5. ASSUME Agrees(b, pre.map, x, Valued)
      PROVE  /\ Interpreted.mem = b.mem
             /\ Interpreted.fields["pc"] = Ahead(b, 4)
             /\ \A g \in Reg : Interpreted.fields[g] = Value(b, Where(pre.map, g))
  BY <1>0, <1>1, <1>5, BranchInterpreted DEF Agrees
<1> HIDE DEF b, z, st
<1>6. Advance(4) \in Safe /\ new \in HostState /\ Put(z, new, PC, Ahead(z, 4), {})
  BY <1>0, <1>2, AdvanceRuns
<1>7. Advance(4) \in Code
  BY <1>6, SafeFacts
<1>8. st.code \in Code /\ Run(m, st.code) = new
  BY <1>2, <1>3, <1>7, ConcatFacts DEF z
<1> HIDE DEF new
<1>9. ASSUME Agrees(b, pre.map, x, Valued)
      PROVE  Agrees(new, Unmapped, Interpreted, Reg)
  <2>1. Ahead(z, 4) = Ahead(b, 4)
    BY <1>2 DEF Ahead
  <2>2. Interpreted.mem = new.mem /\ Interpreted.fields["pc"] = Value(new, PC)
    BY <1>2, <1>5, <1>6, <1>9, <2>1, ScratchFacts DEF Put
  <2>3. ASSUME NEW g \in Reg
        PROVE  Interpreted.fields[g] = Value(new, Where(Unmapped, g))
    <3>1. Where(Unmapped, g) = <<"mem", g>>
      BY DEF Where, Unmapped
    <3>2. <<"mem", g>> \in Loc /\ <<"mem", g>> # PC
      BY JITAssumption DEF Loc, PC
    <3>3. Value(new, <<"mem", g>>) = Value(z, <<"mem", g>>)
      BY <1>6, <3>2 DEF Put
    <3> QED
      BY <1>2, <1>5, <1>9, <3>1, <3>3
  <2> QED
    BY <2>2, <2>3 DEF Agrees
<1>10. Interpreted \in GuestState
  BY <1>0, <1>1, InterpretedTyped
<1>11. sound /\ ~Miscompiled => Agrees(Run(m, st.code), st.map, Interpreted, Reg)
  BY <1>3, <1>4, <1>8, <1>9 DEF Sim
<1>12. Exact(st.map, st.pool) /\ Run(m, st.code) \in HostState
  BY <1>3, <1>6, <1>8, EmptyExact
<1> QED
  BY <1>1, <1>8, <1>10, <1>11, <1>12, PostSim

LEMMA LoopBackSim ==
    ASSUME HInv, Sim, LoopBack
    PROVE  Sim'
<1> DEFINE b == Run(m, pre.code)
           z == Run(m, Saved.code)
<1>0. IInv /\ InTrace /\ x \in GuestState /\ m \in HostState
  BY DEF HInv, Sim
<1>1. inst.op = "branch" /\ Jumps /\ ToStart /\ Translated(m, Saved)
  BY DEF LoopBack
<1>2. /\ Saved.code \in Code /\ z \in HostState /\ z.mem = b.mem
      /\ Value(z, PC) = Value(b, PC)
      /\ \A g \in Reg : Value(z, <<"mem", g>>) = Value(b, Where(pre.map, g))
  BY <1>0, SavedRuns
<1>3. Agrees(m, reg_mapping, x, Reg) => Agrees(b, pre.map, x, Valued)
  BY <1>0, PreSim
<1>4. ASSUME Agrees(b, pre.map, x, Valued)
      PROVE  /\ Interpreted.mem = b.mem
             /\ Interpreted.fields["pc"] = Ahead(b, inst.imm)
             /\ \A g \in Reg : Interpreted.fields[g] = Value(b, Where(pre.map, g))
  BY <1>0, <1>1, <1>4, BranchInterpreted DEF Agrees
<1>5. Ahead(b, inst.imm) = Value(b, PC)
  <2> DEFINE v == Value(b, PC)
  <2>1. b \in HostState
    BY <1>0, PreSim
  <2>2. v \in Val /\ v \in Nat
    BY <2>1, ScratchFacts, LocFacts, ValueTyped, WordFacts
  <2>3. OFFSET \in Nat /\ inst.imm \in Nat
    BY <1>0, InstFacts, WordFacts
  <2> HIDE DEF b
  <2>4. (v + ((OFFSET + inst.imm) % Modulus)) % Modulus = (v + (OFFSET + inst.imm)) % Modulus
    BY <2>2, <2>3, ModAdd
  <2>5. (OFFSET + inst.imm) % Modulus = 0
    BY <1>1 DEF ToStart
  <2>6. v + (OFFSET + inst.imm) = v + OFFSET + inst.imm /\ v + 0 = v
    BY <2>2, <2>3
  <2>7. v % Modulus = v
    BY <2>2, WordFacts DEF Val
  <2> QED
    BY <2>4, <2>5, <2>6, <2>7 DEF Ahead
<1> HIDE DEF b, z
<1>6. ASSUME Agrees(b, pre.map, x, Valued)
      PROVE  Agrees(z, Unmapped, Interpreted, Reg)
  <2>1. \A g \in Reg : Where(Unmapped, g) = <<"mem", g>>
    BY DEF Where, Unmapped
  <2> QED
    BY <1>2, <1>4, <1>5, <1>6, <2>1 DEF Agrees
<1>7. Interpreted \in GuestState
  BY <1>0, <1>1, InterpretedTyped
<1>8. sound /\ ~Miscompiled => Agrees(Run(m, Saved.code), Saved.map, Interpreted, Reg)
  BY <1>3, <1>6, SavedIs DEF Sim, z
<1>9. Exact(Saved.map, Saved.pool) /\ Run(m, Saved.code) \in HostState
  BY <1>2, SavedIs, EmptyExact DEF z
<1> QED
  BY <1>1, <1>2, <1>7, <1>8, <1>9, PostSim
(* A template applied to the host state itself, or to the one that SLTI may *)
(* find.                                                                    *)
LEMMA RightSim ==
    ASSUME HInv, Sim, NEW code, Right(Run(m, pre.code), code),
           inst.op \notin {"load", "store"} \/ Address \in Addr,
           Translated(m, With(code))
    PROVE  Sim'
<1>1. m \in HostState /\ (sound => Agrees(m, reg_mapping, x, Reg))
  BY DEF Sim
<1> QED
  BY <1>1, RoundSim

LEMMA SLTISim ==
    ASSUME HInv, Sim, TranslateSLTI
    PROVE  Sim'
<1>0. IInv /\ InTrace /\ x \in GuestState /\ m \in HostState /\ inst.op = "setimm"
  BY DEF HInv, Sim, TranslateSLTI
<1>1. PICK stale \in {<<0, 0>>, <<0, 1>>} :
         Translated([m EXCEPT !.flags = stale], With(SetLessImm))
  BY DEF TranslateSLTI
<1> DEFINE host == [m EXCEPT !.flags = stale]
<1>2. stale \in Val \X Val
  BY WordFacts
<1>3. /\ host \in HostState /\ host.mem = m.mem /\ host.host = m.host
      /\ host.fields = m.fields
  BY <1>0, <1>2 DEF HostState
<1> HIDE DEF host
<1>4. \A o : Value(host, o) = Value(m, o)
  BY <1>3 DEF Value
<1>5. sound => Agrees(host, reg_mapping, x, Reg)
  BY <1>3, <1>4 DEF Sim, Agrees
<1>6. Run(host, pre.code) \in HostState
  BY <1>0, <1>3, PreSim
<1>7. Right(Run(host, pre.code), SetLessImm)
  BY <1>0, <1>6, SetImmRight
<1>8. Translated(host, With(SetLessImm))
  BY <1>1 DEF host
<1> QED
  BY <1>0, <1>3, <1>5, <1>7, <1>8, RoundSim

(* The inductive invariant. *)
SInv == HInv /\ Sim /\ phase \in {"emit", "returned", "wild"} /\ (phase = "wild" => ~sound)

LEMMA NextSim == SInv /\ [Next]_vars => Sim'
<1> SUFFICES ASSUME SInv, [Next]_vars PROVE Sim'
  OBVIOUS
<1> DEFINE b == Run(m, pre.code)
<1>0. HInv /\ Sim /\ IInv /\ InTrace /\ x \in GuestState /\ m \in HostState
  BY DEF SInv, HInv, Sim
<1>a. b \in HostState
  BY <1>0, PreSim
<1>b. \A code : Straight(code) => Translated(m, With(code))
  BY DEF Straight
<1>c. \A st : Return(st) => Translated(m, st)
  BY DEF Return
<1>d. /\ InGuestMemory => Value(b, RS1) + AsSigned(inst.imm) \in Addr
      /\ ~Throws => Address \in Addr
      /\ InGuestMemory => Address \in Addr
  <2>1. Address \in Val
    BY <1>0, AddressTyped
  <2>2. ~Throws => Address \in Addr
    BY <2>1, JITAssumption DEF Throws, Addr, Val
  <2> QED
    BY <2>2 DEF InGuestMemory, HostAddress
<1> HIDE DEF b
<1>1. CASE TranslateImm
  <2>1. Straight(ImmType) /\ inst.op = "imm"
    BY <1>1 DEF TranslateImm
  <2>2. Right(b, ImmType)
    BY <1>0, <1>a, <2>1, ImmRight
  <2> QED
    BY <1>0, <1>b, <2>1, <2>2, RightSim DEF b
<1>2. CASE TranslateADDI
  <2>1. Straight(ADDI) /\ inst.op = "addi"
    BY <1>2 DEF TranslateADDI
  <2>2. Right(b, ADDI)
    BY <1>0, <1>a, <2>1, ADDIRight
  <2> QED
    BY <1>0, <1>b, <2>1, <2>2, RightSim DEF b
<1>3. CASE TranslateReg
  <2>1. Straight(RegType) /\ inst.op = "reg"
    BY <1>3 DEF TranslateReg
  <2>2. Right(b, RegType)
    BY <1>0, <1>a, <2>1, RegRight
  <2> QED
    BY <1>0, <1>b, <2>1, <2>2, RightSim DEF b
<1>4. CASE TranslateADD
  <2>1. Straight(ADD) /\ inst.op = "add"
    BY <1>4 DEF TranslateADD
  <2>2. Right(b, ADD)
    BY <1>0, <1>a, <2>1, ADDRight
  <2> QED
    BY <1>0, <1>b, <2>1, <2>2, RightSim DEF b
<1>5. CASE TranslateShift
  <2>1. Straight(Shift) /\ inst.op = "shift"
    BY <1>5 DEF TranslateShift
  <2>2. Right(b, Shift)
    BY <1>0, <1>a, <2>1, ShiftRight
  <2> QED
    BY <1>0, <1>b, <2>1, <2>2, RightSim DEF b
<1>6. CASE TranslateSLT
  <2>1. Straight(SetLess) /\ inst.op = "set"
    BY <1>6 DEF TranslateSLT
  <2>2. Right(b, SetLess)
    BY <1>0, <1>a, <2>1, SetRight
  <2> QED
    BY <1>0, <1>b, <2>1, <2>2, RightSim DEF b
<1>7. CASE TranslateMUL
  <2>1. Straight(MUL) /\ inst.op = "mul"
    BY <1>7 DEF TranslateMUL
  <2>2. Right(b, MUL)
    BY <1>0, <1>a, <2>1, MULRight
  <2> QED
    BY <1>0, <1>b, <2>1, <2>2, RightSim DEF b
<1>8. CASE TranslateMULH
  <2>1. Straight(MULH) /\ inst.op = "mulh"
    BY <1>8 DEF TranslateMULH
  <2>2. Right(b, MULH)
    BY <1>0, <1>a, <2>1, MULHRight
  <2> QED
    BY <1>0, <1>b, <2>1, <2>2, RightSim DEF b
<1>9. CASE TranslateLUI
  <2>1. Straight(LUI) /\ inst.op = "lui"
    BY <1>9 DEF TranslateLUI
  <2>2. Right(b, LUI)
    BY <1>0, <1>a, <2>1, LUIRight
  <2> QED
    BY <1>0, <1>b, <2>1, <2>2, RightSim DEF b
<1>10. CASE TranslateAUIPC
  <2>1. Straight(AUIPC) /\ inst.op = "auipc"
    BY <1>10 DEF TranslateAUIPC
  <2>2. Right(b, AUIPC)
    BY <1>0, <1>a, <2>1, AUIPCRight
  <2> QED
    BY <1>0, <1>b, <2>1, <2>2, RightSim DEF b
<1>11. CASE TranslateSLTI
  BY <1>0, <1>11, SLTISim
<1>12. CASE TranslateLoad
  <2>1. Straight(Load) /\ inst.op = "load" /\ InGuestMemory
    BY <1>12 DEF TranslateLoad
  <2>2. Right(b, Load)
    BY <1>0, <1>a, <1>d, <2>1, LoadRight
  <2> QED
    BY <1>0, <1>b, <1>d, <2>1, <2>2, RightSim DEF b
<1>13. CASE TranslateStore
  <2>1. Straight(Store) /\ inst.op = "store" /\ InGuestMemory
    BY <1>13 DEF TranslateStore
  <2>2. Right(b, Store)
    BY <1>0, <1>a, <1>d, <2>1, StoreRight
  <2> QED
    BY <1>0, <1>b, <1>d, <2>1, <2>2, RightSim DEF b
<1>14. CASE BadAddress
  <2>1. ~sound' /\ sound' \in BOOLEAN
    BY <1>14 DEF BadAddress, Miscompiled
  <2>2. x' \in GuestState
    <3>1. CASE Throws
      BY <1>0, <1>14, <3>1 DEF BadAddress
    <3>2. CASE ~Throws
      <4>1. Interpreted \in GuestState
        BY <1>0, <1>d, <3>2, InterpretedTyped
      <4> QED
        BY <1>14, <3>2, <4>1 DEF BadAddress
    <3> QED
      BY <3>1, <3>2
  <2> QED
    BY <1>0, <1>14, <2>1, <2>2 DEF BadAddress, Sim
<1>15. CASE TranslateJAL
  <2>1. Return(With(JAL)) /\ inst.op = "jal"
    BY <1>15 DEF TranslateJAL
  <2>2. Right(b, JAL)
    BY <1>0, <1>a, <2>1, JALRight
  <2> QED
    BY <1>0, <1>c, <2>1, <2>2, RightSim DEF b
<1>16. CASE TranslateJALR
  <2>1. Return(With(JALR)) /\ inst.op = "jalr"
    BY <1>16 DEF TranslateJALR
  <2>2. Right(b, JALR)
    BY <1>0, <1>a, <2>1, JALRRight
  <2> QED
    BY <1>0, <1>c, <2>1, <2>2, RightSim DEF b
<1>17. CASE TranslateBranch
  <2> DEFINE code == Compare \o Advance(IF Jumps THEN inst.imm ELSE 4)
  <2>1. Return(With(code)) /\ inst.op = "branch"
    BY <1>17 DEF TranslateBranch
  <2>2. Right(b, code)
    BY <1>0, <2>1, BranchRight DEF b
  <2> HIDE DEF code
  <2> QED
    BY <1>0, <1>c, <2>1, <2>2, RightSim DEF b
<1>18. CASE LoopExit
  BY <1>0, <1>18, LoopExitSim
<1>19. CASE LoopBack
  BY <1>0, <1>19, LoopBackSim
<1>20. CASE UNCHANGED vars
  BY <1>0, <1>20 DEF vars, Sim
<1> QED
  BY <1>1, <1>2, <1>3, <1>4, <1>5, <1>6, <1>7, <1>8, <1>9, <1>10,
     <1>11, <1>12, <1>13, <1>14, <1>15, <1>16, <1>17, <1>18, <1>19, <1>20 DEF Next

LEMMA NextPhase ==
    ASSUME phase \in {"emit", "returned", "wild"}, phase = "wild" => ~sound, [Next]_vars
    PROVE  phase' \in {"emit", "returned", "wild"} /\ (phase' = "wild" => ~sound')
<1>1. CASE Next
  <2>1. phase' \in {"emit", "returned"} \/ BadAddress
    BY <1>1 DEF Next, TranslateImm, TranslateADDI, TranslateReg, TranslateADD, TranslateShift,
       TranslateSLT, TranslateSLTI, TranslateMUL, TranslateMULH, TranslateLUI, TranslateAUIPC,
       TranslateLoad, TranslateStore, TranslateJAL, TranslateJALR, TranslateBranch,
       LoopExit, LoopBack, Straight, Return, Translated
  <2>2. BadAddress => phase' = "wild" /\ ~sound'
    BY DEF BadAddress, Miscompiled
  <2> QED
    BY <2>1, <2>2
<1>2. CASE UNCHANGED vars
  BY <1>2 DEF vars
<1> QED
  BY <1>1, <1>2

LEMMA InitSim == Init => SInv
<1> SUFFICES ASSUME Init PROVE SInv
  OBVIOUS
<1>1. HInv
  BY InitHolds
<1>2. PICK r \in Regs0 :
         /\ m = [host   |-> [h \in Host \union Scratch |-> 0],
                 fields |-> Fields(r),
                 mem    |-> [a \in Addr |-> 0],
                 flags  |-> <<0, 0>>]
         /\ x = [fields |-> Fields(r), mem |-> [a \in Addr |-> 0]]
  BY DEF Init
<1>3. phase = "emit" /\ sound = TRUE /\ reg_mapping = Unmapped
  BY DEF Init
<1>4. r \in [Reg -> Val] /\ Start \in Val /\ 0 \in Val
  BY JITAssumption, WordFacts
<1>5. Fields(r) \in [Reg \union {"pc"} -> Val]
  BY <1>4 DEF Fields
<1>6. m \in HostState /\ x \in GuestState
  BY <1>2, <1>4, <1>5 DEF HostState, GuestState
<1>7. m.mem = x.mem /\ m.fields = x.fields
  BY <1>2
<1>8. Value(m, PC) = m.fields["pc"]
  BY DEF Value, PC
<1>9. \A g \in Reg : Value(m, Where(reg_mapping, g)) = m.fields[g]
  <2>1. \A g \in Reg : Where(reg_mapping, g) = <<"mem", g>>
    BY <1>3 DEF Where, Unmapped
  <2>2. \A g : Value(m, <<"mem", g>>) = m.fields[g]
    BY DEF Value
  <2> QED
    BY <2>1, <2>2
<1> QED
  BY <1>1, <1>3, <1>6, <1>7, <1>8, <1>9 DEF SInv, Sim, Agrees

LEMMA StepSim == SInv /\ [Next]_vars => SInv'
<1> SUFFICES ASSUME SInv, [Next]_vars PROVE SInv'
  OBVIOUS
<1>1. HInv'
  BY NextHolds DEF SInv
<1>2. Sim'
  BY NextSim
<1>3. phase' \in {"emit", "returned", "wild"} /\ (phase' = "wild" => ~sound')
  BY NextPhase DEF SInv
<1> QED
  BY <1>1, <1>2, <1>3 DEF SInv

(* For every trace, pool and word size: registers on either side hold words *)
(* after every instruction, whatever host code is skipped as not encodable, *)
(* and cur_inst_ stays inside the trace.                                    *)
THEOREM WordsStayWords == Spec => []TypeOK
<1>1. SInv => TypeOK
  <2> SUFFICES ASSUME SInv PROVE TypeOK
    OBVIOUS
  <2>1. InTrace /\ IInv /\ m \in HostState /\ x \in GuestState
    BY DEF SInv, HInv, Sim
  <2>2. cur_inst \in DOMAIN trace
    BY <2>1, TraceFacts DEF InTrace
  <2>3. reg_mapping \in [Reg -> Host \union {Mem}] /\ reg_pool \in Seq(Host)
    BY <2>1 DEF IInv, Exact
  <2>4. /\ m.host \in [Host \union Scratch -> Val] /\ m.fields \in [Reg \union {"pc"} -> Val]
        /\ m.mem \in [Addr -> Val]
    BY <2>1 DEF HostState
  <2>5. x.fields \in [Reg \union {"pc"} -> Val] /\ x.mem \in [Addr -> Val]
    BY <2>1 DEF GuestState
  <2> QED
    BY <2>2, <2>3, <2>4, <2>5 DEF TypeOK, SInv, Sim
<1> QED
  BY <1>1, InitSim, StepSim, PTL DEF Spec

(* For every trace, pool and word size, and any operations that satisfy     *)
(* ComputeAssumption: until an instruction that Miscompiled describes, the  *)
(* host code leaves every register, pc and memory as the interpreter does,  *)
(* and no load or store of it leaves guest memory.                          *)
THEOREM CompiledSimulates == Spec => []Simulates
<1>1. SInv => Simulates
  <2> SUFFICES ASSUME SInv, sound
               PROVE  /\ phase # "wild"
                      /\ \A g \in Reg :
                            x.fields[g] = IF reg_mapping[g] = Mem THEN m.fields[g]
                                          ELSE m.host[reg_mapping[g]]
                      /\ x.fields["pc"] = m.fields["pc"]
                      /\ x.mem = m.mem
    BY DEF Simulates
  <2>1. Agrees(m, reg_mapping, x, Reg)
    BY DEF SInv, Sim
  <2>2. Value(m, PC) = m.fields["pc"]
    BY DEF Value, PC
  <2>3. ASSUME NEW g \in Reg
        PROVE  Value(m, Where(reg_mapping, g)) =
                 IF reg_mapping[g] = Mem THEN m.fields[g] ELSE m.host[reg_mapping[g]]
    <3>1. CASE reg_mapping[g] = Mem
      BY <3>1 DEF Where, Value
    <3>2. CASE reg_mapping[g] # Mem
      BY <3>2 DEF Where, Value
    <3> QED
      BY <3>1, <3>2
  <2> QED
    BY <2>1, <2>2, <2>3 DEF Agrees, SInv
<1> QED
  BY <1>1, InitSim, StepSim, PTL DEF Spec
=============================================================================
