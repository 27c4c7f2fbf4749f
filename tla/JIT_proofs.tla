----------------------------- MODULE JIT_proofs -----------------------------
(***************************************************************************)
(* PoolExact and HeldWhileLive for every trace, every set of guest         *)
(* registers and every pool of host registers.  PoolExact is inductive     *)
(* once the types of the mapping and of the pool are added; it concerns    *)
(* the allocator alone, so nothing is needed about the code that is        *)
(* emitted.  HeldWhileLive follows from an invariant stated with           *)
(* calcLiveness, once that is shown to compute what its name says.         *)
(***************************************************************************)
EXTENDS JIT, WellFoundedInduction, TLAPS

(* PoolExact, with the types it needs, of an allocator's record. *)
Exact(map, pool) ==
    /\ map \in [Reg -> Host \union {Mem}]
    /\ pool \in Seq(Host)
    /\ \A i, j \in DOMAIN pool : pool[i] = pool[j] => i = j
    /\ \A g, h \in Reg : map[g] = map[h] /\ map[g] # Mem => g = h
    /\ \A g \in Reg, i \in DOMAIN pool : map[g] # pool[i]
    /\ \A h \in Host : \/ \E i \in DOMAIN pool : pool[i] = h
                       \/ \E g \in Reg : map[g] = h

IInv == Exact(reg_mapping, reg_pool)

-----------------------------------------------------------------------------
(* allocateReg moves the first register of the pool to the guest register   *)
(* it is given.                                                             *)
LEMMA AllocateKeeps ==
    ASSUME NEW st, Exact(st.map, st.pool), NEW g \in Reg, NEW load
    PROVE  Exact(Allocate(st, g, load).map, Allocate(st, g, load).pool)
<1> DEFINE new == Allocate(st, g, load)
<1>1. CASE st.map[g] # Mem \/ st.pool = <<>>
  BY <1>1 DEF Allocate
<1>2. CASE st.map[g] = Mem /\ st.pool # <<>>
  <2> DEFINE h == Head(st.pool)
  <2>1. /\ new.map = [st.map EXCEPT ![g] = h]
        /\ new.pool = Tail(st.pool)
    BY <1>2 DEF Allocate
  <2>2. /\ st.pool \in Seq(Host) /\ Len(st.pool) > 0 /\ h = st.pool[1] /\ h \in Host
        /\ new.pool \in Seq(Host) /\ Len(new.pool) = Len(st.pool) - 1
        /\ \A i \in DOMAIN new.pool : new.pool[i] = st.pool[i + 1] /\ i + 1 \in DOMAIN st.pool
    BY <1>2, <2>1 DEF Exact
  <2>3. h # Mem
    BY <2>2, JITAssumption
  <2>4. new.map \in [Reg -> Host \union {Mem}]
    BY <2>1, <2>2 DEF Exact
  <2>5. \A i, j \in DOMAIN new.pool : new.pool[i] = new.pool[j] => i = j
    BY <2>2 DEF Exact
  <2>6. \A k \in Reg : st.map[k] # h
    BY <2>2 DEF Exact
  <2>7. \A k, l \in Reg : new.map[k] = new.map[l] /\ new.map[k] # Mem => k = l
    BY <2>1, <2>6 DEF Exact
  <2>8. \A k \in Reg, i \in DOMAIN new.pool : new.map[k] # new.pool[i]
    <3> SUFFICES ASSUME NEW k \in Reg, NEW i \in DOMAIN new.pool PROVE new.map[k] # new.pool[i]
      OBVIOUS
    <3>1. new.pool[i] = st.pool[i + 1] /\ i + 1 \in DOMAIN st.pool /\ i \in Nat /\ i # 0
      BY <2>2
    <3>2. st.pool[i + 1] # st.pool[1]
      BY <2>2, <3>1 DEF Exact
    <3>3. st.map[k] # st.pool[i + 1]
      BY <3>1 DEF Exact
    <3> QED
      BY <2>1, <2>2, <3>1, <3>2, <3>3 DEF Exact
  <2>9. \A r \in Host : (\E i \in DOMAIN new.pool : new.pool[i] = r) \/ \E k \in Reg : new.map[k] = r
    <3> SUFFICES ASSUME NEW r \in Host, \A k \in Reg : new.map[k] # r
                 PROVE  \E i \in DOMAIN new.pool : new.pool[i] = r
      OBVIOUS
    <3>1. r # h
      BY <2>1 DEF Exact
    <3>2. \A k \in Reg : st.map[k] # r
      BY <1>2, <2>1, JITAssumption DEF Exact
    <3>3. PICK i \in DOMAIN st.pool : st.pool[i] = r
      BY <3>2 DEF Exact
    <3>4. i # 1 /\ i - 1 \in DOMAIN new.pool /\ new.pool[i - 1] = r
      BY <2>1, <2>2, <3>1, <3>3
    <3> QED
      BY <3>4
  <2> QED
    BY <2>2, <2>4, <2>5, <2>7, <2>8, <2>9 DEF Exact
<1> QED
  BY <1>1, <1>2

(* deallocateReg moves the register of a guest register back to the pool. *)
LEMMA DeallocateKeeps ==
    ASSUME NEW st, Exact(st.map, st.pool), NEW g \in Reg
    PROVE  Exact(Deallocate(st, g).map, Deallocate(st, g).pool)
<1> DEFINE new == Deallocate(st, g)
<1>1. CASE st.map[g] = Mem
  BY <1>1 DEF Deallocate
<1>2. CASE st.map[g] # Mem
  <2> DEFINE h == st.map[g]
  <2>1. /\ new.map = [st.map EXCEPT ![g] = Mem]
        /\ new.pool = Append(st.pool, h)
    BY <1>2 DEF Deallocate
  <2>2. h \in Host /\ h # Mem
    BY <1>2 DEF Exact
  <2>3. /\ st.pool \in Seq(Host) /\ new.pool \in Seq(Host)
        /\ DOMAIN new.pool = 1 .. Len(st.pool) + 1 /\ DOMAIN st.pool = 1 .. Len(st.pool)
        /\ Len(st.pool) \in Nat
        /\ new.pool[Len(st.pool) + 1] = h
        /\ \A i \in DOMAIN st.pool : new.pool[i] = st.pool[i]
    BY <2>1, <2>2 DEF Exact
  <2>4. new.map \in [Reg -> Host \union {Mem}]
    BY <2>1 DEF Exact
  <2>5. \A i, j \in DOMAIN new.pool : new.pool[i] = new.pool[j] => i = j
    <3>1. \A i \in DOMAIN st.pool : st.pool[i] # h
      BY DEF Exact
    <3>2. \A i, j \in DOMAIN st.pool : st.pool[i] = st.pool[j] => i = j
      BY DEF Exact
    <3> QED
      BY <2>3, <3>1, <3>2
  <2>6. \A k, l \in Reg : new.map[k] = new.map[l] /\ new.map[k] # Mem => k = l
    BY <2>1 DEF Exact
  <2>7. \A k \in Reg, i \in DOMAIN new.pool : new.map[k] # new.pool[i]
    <3> SUFFICES ASSUME NEW k \in Reg, NEW i \in DOMAIN new.pool PROVE new.map[k] # new.pool[i]
      OBVIOUS
    <3>1. CASE k = g
      <4>1. new.map[k] = Mem
        BY <2>1, <3>1 DEF Exact
      <4>2. new.pool[i] \in Host
        BY <2>3
      <4> QED
        BY <4>1, <4>2, JITAssumption
    <3>2. CASE k # g
      <4>1. new.map[k] = st.map[k]
        BY <2>1, <3>2 DEF Exact
      <4>2. st.map[k] # h
        BY <1>2, <3>2 DEF Exact
      <4>3. \A j \in DOMAIN st.pool : st.map[k] # st.pool[j]
        BY DEF Exact
      <4> QED
        BY <2>3, <4>1, <4>2, <4>3
    <3> QED
      BY <3>1, <3>2
  <2>8. \A r \in Host : (\E i \in DOMAIN new.pool : new.pool[i] = r) \/ \E k \in Reg : new.map[k] = r
    <3> SUFFICES ASSUME NEW r \in Host, \A k \in Reg : new.map[k] # r
                 PROVE  \E i \in DOMAIN new.pool : new.pool[i] = r
      OBVIOUS
    <3>1. CASE r = h
      BY <2>3, <3>1
    <3>2. CASE r # h
      <4>1. \A k \in Reg : st.map[k] # r
        BY <2>1, <3>2 DEF Exact
      <4>2. PICK i \in DOMAIN st.pool : st.pool[i] = r
        BY <4>1 DEF Exact
      <4> QED
        BY <2>3, <4>2
    <3> QED
      BY <3>1, <3>2
  <2> QED
    BY <2>3, <2>4, <2>5, <2>6, <2>7, <2>8 DEF Exact
<1> QED
  BY <1>1, <1>2

(* The same for an operand that may be missing. *)
LEMMA AllocateInKeeps ==
    ASSUME NEW st, Exact(st.map, st.pool), NEW set \in SUBSET Reg, NEW load
    PROVE  Exact(AllocateIn(st, set, load).map, AllocateIn(st, set, load).pool)
<1>1. CASE set = {}
  BY <1>1 DEF AllocateIn
<1>2. CASE set # {}
  <2> DEFINE g == CHOOSE k \in set : TRUE
  <2>1. g \in Reg
    BY <1>2
  <2> QED
    BY <1>2, <2>1, AllocateKeeps DEF AllocateIn
<1> QED
  BY <1>1, <1>2

LEMMA DeallocateInKeeps ==
    ASSUME NEW st, Exact(st.map, st.pool), NEW set \in SUBSET Reg
    PROVE  Exact(DeallocateIn(st, set).map, DeallocateIn(st, set).pool)
<1>1. CASE set = {}
  BY <1>1 DEF DeallocateIn
<1>2. CASE set # {}
  <2> DEFINE g == CHOOSE k \in set : TRUE
  <2>1. g \in Reg
    BY <1>2
  <2> QED
    BY <1>2, <2>1, DeallocateKeeps DEF DeallocateIn
<1> QED
  BY <1>1, <1>2

(* The pre-work and the post-work of one instruction, and the deallocation  *)
(* of everything before a jump to the start of the trace.                   *)
LEMMA PreKeeps == IInv => Exact(pre.map, pre.pool)
<1> SUFFICES ASSUME IInv PROVE Exact(pre.map, pre.pool)
  OBVIOUS
<1> DEFINE s0 == [map |-> reg_mapping, pool |-> reg_pool, code |-> <<>>]
           s1 == AllocateIn(s0, Rs1(inst) \intersect Reg \intersect live, TRUE)
           s2 == AllocateIn(s1, Rs2(inst) \intersect Reg \intersect live, TRUE)
           s3 == AllocateIn(s2, Rd(inst) \intersect Reg \intersect live, FALSE)
<1> HIDE DEF s1, s2, s3
<1>1. Exact(s0.map, s0.pool)
  BY DEF IInv
<1>2. Exact(s1.map, s1.pool)
  BY <1>1, AllocateInKeeps DEF s1
<1>3. Exact(s2.map, s2.pool)
  BY <1>2, AllocateInKeeps DEF s2
<1>4. Exact(s3.map, s3.pool)
  BY <1>3, AllocateInKeeps DEF s3
<1>5. pre = s3
  BY DEF pre, s1, s2, s3
<1> QED
  BY <1>4, <1>5

LEMMA PostKeeps ==
    ASSUME NEW st, Exact(st.map, st.pool)
    PROVE  Exact(Post(st).map, Post(st).pool)
<1> DEFINE s1 == DeallocateIn(st, (Rs1(inst) \intersect Reg) \ live)
           s2 == DeallocateIn(s1, (Rs2(inst) \intersect Reg) \ live)
           s3 == DeallocateIn(s2, (Rd(inst) \intersect Reg) \ live)
<1> HIDE DEF s1, s2, s3
<1>1. Exact(s1.map, s1.pool)
  BY DeallocateInKeeps DEF s1
<1>2. Exact(s2.map, s2.pool)
  BY <1>1, DeallocateInKeeps DEF s2
<1>3. Exact(s3.map, s3.pool)
  BY <1>2, DeallocateInKeeps DEF s3
<1>4. Post(st) = s3
  BY DEF Post, s1, s2, s3
<1> QED
  BY <1>3, <1>4

LEMMA EmptyExact == Exact(Unmapped, Pool)
<1>1. Unmapped \in [Reg -> Host \union {Mem}] /\ \A g \in Reg : Unmapped[g] = Mem
  BY DEF Unmapped
<1>2. Pool \in Seq(Host) /\ (\A i, j \in DOMAIN Pool : Pool[i] = Pool[j] => i = j) /\ Mem \notin Host
  BY JITAssumption
<1>3. \A i \in DOMAIN Pool : Pool[i] \in Host
  BY <1>2
<1>4. \A h \in Host : \E i \in DOMAIN Pool : Pool[i] = h
  BY DEF Host, Range
<1> QED
  BY <1>1, <1>2, <1>3, <1>4 DEF Exact

-----------------------------------------------------------------------------
(* A round of the loop keeps the invariant when what its post-work starts   *)
(* from satisfies it.                                                       *)
LEMMA TranslatedKeeps ==
    ASSUME NEW host, NEW st, Exact(st.map, st.pool), Translated(host, st)
    PROVE  IInv'
<1>1. Exact(Post(st).map, Post(st).pool)
  BY PostKeeps
<1>2. reg_mapping' = Post(st).map /\ reg_pool' = Post(st).pool
  BY DEF Translated
<1> QED
  BY <1>1, <1>2 DEF IInv, Exact

LEMMA StraightKeeps ==
    ASSUME IInv, NEW code, Straight(code)
    PROVE  IInv'
<1>1. With(code).map = pre.map /\ With(code).pool = pre.pool
  BY DEF With, Then
<1>2. Exact(With(code).map, With(code).pool)
  BY <1>1, PreKeeps
<1>3. Translated(m, With(code))
  BY DEF Straight
<1> QED
  BY <1>2, <1>3, TranslatedKeeps

LEMMA ReturnKeeps ==
    ASSUME IInv, NEW code, Return(With(code))
    PROVE  IInv'
<1>1. With(code).map = pre.map /\ With(code).pool = pre.pool
  BY DEF With, Then
<1>2. Exact(With(code).map, With(code).pool)
  BY <1>1, PreKeeps
<1>3. Translated(m, With(code))
  BY DEF Return
<1> QED
  BY <1>2, <1>3, TranslatedKeeps

LEMMA SavedExact == Exact(Saved.map, Saved.pool)
<1>1. Saved.map = Unmapped /\ Saved.pool = Pool
  BY DEF Saved, DeallocateAll
<1> QED
  BY <1>1, EmptyExact

LEMMA NextKeeps == IInv /\ [Next]_vars => IInv'
<1> SUFFICES ASSUME IInv, [Next]_vars PROVE IInv'
  OBVIOUS
<1>1. CASE TranslateImm
  BY <1>1, StraightKeeps DEF TranslateImm
<1>2. CASE TranslateADDI
  BY <1>2, StraightKeeps DEF TranslateADDI
<1>3. CASE TranslateReg
  BY <1>3, StraightKeeps DEF TranslateReg
<1>4. CASE TranslateADD
  BY <1>4, StraightKeeps DEF TranslateADD
<1>5. CASE TranslateShift
  BY <1>5, StraightKeeps DEF TranslateShift
<1>6. CASE TranslateSLT
  BY <1>6, StraightKeeps DEF TranslateSLT
<1>7. CASE TranslateSLTI
  <2>1. PICK stale : Translated([m EXCEPT !.flags = stale], With(SetLessImm))
    BY <1>7 DEF TranslateSLTI
  <2>2. With(SetLessImm).map = pre.map /\ With(SetLessImm).pool = pre.pool
    BY DEF With, Then
  <2>3. Exact(With(SetLessImm).map, With(SetLessImm).pool)
    BY <2>2, PreKeeps
  <2> QED
    BY <2>1, <2>3, TranslatedKeeps
<1>8. CASE TranslateMUL
  BY <1>8, StraightKeeps DEF TranslateMUL
<1>9. CASE TranslateMULH
  BY <1>9, StraightKeeps DEF TranslateMULH
<1>10. CASE TranslateLUI
  BY <1>10, StraightKeeps DEF TranslateLUI
<1>11. CASE TranslateAUIPC
  BY <1>11, StraightKeeps DEF TranslateAUIPC
<1>12. CASE TranslateLoad
  BY <1>12, StraightKeeps DEF TranslateLoad
<1>13. CASE TranslateStore
  BY <1>13, StraightKeeps DEF TranslateStore
<1>14. CASE BadAddress
  BY <1>14 DEF BadAddress, IInv
<1>15. CASE TranslateJAL
  BY <1>15, ReturnKeeps DEF TranslateJAL
<1>16. CASE TranslateJALR
  BY <1>16, ReturnKeeps DEF TranslateJALR
<1>17. CASE TranslateBranch
  BY <1>17, ReturnKeeps DEF TranslateBranch
<1>18. CASE LoopExit
  <2>1. Translated(m, Then(Saved, Advance(4)))
    BY <1>18 DEF LoopExit, Return
  <2>2. /\ Then(Saved, Advance(4)).map = Saved.map
        /\ Then(Saved, Advance(4)).pool = Saved.pool
    BY DEF Then
  <2>3. Exact(Then(Saved, Advance(4)).map, Then(Saved, Advance(4)).pool)
    BY <2>2, SavedExact
  <2> QED
    BY <2>1, <2>3, TranslatedKeeps
<1>19. CASE LoopBack
  <2>1. Translated(m, Saved)
    BY <1>19 DEF LoopBack
  <2> QED
    BY <2>1, SavedExact, TranslatedKeeps
<1>20. CASE UNCHANGED vars
  BY <1>20 DEF vars, IInv
<1> QED
  BY <1>1, <1>2, <1>3, <1>4, <1>5, <1>6, <1>7, <1>8, <1>9, <1>10, <1>11, <1>12,
     <1>13, <1>14, <1>15, <1>16, <1>17, <1>18, <1>19, <1>20 DEF Next

(* Register allocation never hands out a host register twice and never      *)
(* loses one, whatever trace is translated and however often it loops.      *)
THEOREM AllocationExact == Spec => []PoolExact
<1>1. Init => IInv
  BY EmptyExact DEF Init, IInv
<1>2. IInv => PoolExact
  BY DEF IInv, Exact, PoolExact
<1> QED
  BY <1>1, <1>2, NextKeeps, PTL DEF Spec

-----------------------------------------------------------------------------
(* A nonempty set of natural numbers has a least element. *)
LEMMA LeastOf ==
    ASSUME NEW T, T \subseteq Nat, T # {}
    PROVE  \E n \in T : \A k \in T : n <= k
<1> DEFINE R == OpToRel(<, Nat)
<1>1. \E n \in T : \A k \in T : ~(<<k, n>> \in R)
  <2>1. IsWellFoundedOn(R, Nat)
    BY NatLessThanWellFounded
  <2> HIDE DEF R
  <2> QED
    BY <2>1, WFMin
<1>2. \A k, n \in Nat : k < n => <<k, n>> \in R
  BY DEF OpToRel
<1> HIDE DEF R
<1>3. PICK n \in T : \A k \in T : ~(<<k, n>> \in R)
  BY <1>1
<1>4. \A k \in T : ~(k < n)
  BY <1>2, <1>3
<1> QED
  BY <1>3, <1>4

Reads(i) == Rs1(i) \union Rs2(i)

(* Liveness without recursion: the registers that are read after the k-th   *)
(* instruction before they are written.                                     *)
ReadFirst(tr, g, k) ==
    \E j \in k + 1 .. Len(tr) :
        g \in Reads(tr[j]) /\ \A i \in k + 1 .. j - 1 : g \notin Rd(tr[i])
ReadAfter(tr, k) ==
    {g \in UNION {Reads(tr[j]) : j \in 1 .. Len(tr)} : ReadFirst(tr, g, k)}

(* A round of calcLiveness: what is live before i from what is live after. *)
LiveBefore(i, after) == (after \ Rd(i)) \union Rs1(i) \union Rs2(i)

LEMMA ReadAfterStep ==
    ASSUME NEW tr, NEW n \in Nat, Len(tr) = n, NEW k \in 0 .. n - 1
    PROVE  ReadAfter(tr, k) = LiveBefore(tr[k + 1], ReadAfter(tr, k + 1))
<1> DEFINE i == tr[k + 1]
           All == UNION {Reads(tr[j]) : j \in 1 .. n}
<1>1. k \in Nat /\ k + 1 \in 1 .. n /\ k + 1 \in k + 1 .. n
  OBVIOUS
<1>2. Reads(i) \subseteq All
  BY <1>1
<1> HIDE DEF All
<1>3. ASSUME NEW g, ReadFirst(tr, g, k)
      PROVE  g \in Reads(i) \/ (g \notin Rd(i) /\ ReadFirst(tr, g, k + 1))
  <2>1. PICK j \in k + 1 .. n : g \in Reads(tr[j]) /\ \A l \in k + 1 .. j - 1 : g \notin Rd(tr[l])
    BY <1>3 DEF ReadFirst
  <2>2. CASE j = k + 1
    BY <2>1, <2>2
  <2>3. CASE j # k + 1
    <3>1. j \in (k + 1) + 1 .. n /\ k + 1 \in k + 1 .. j - 1
      BY <1>1, <2>1, <2>3
    <3>2. \A l \in (k + 1) + 1 .. j - 1 : g \notin Rd(tr[l])
      BY <1>1, <2>1
    <3> QED
      BY <2>1, <3>1, <3>2 DEF ReadFirst
  <2> QED
    BY <2>2, <2>3
<1>4. ASSUME NEW g, g \in Reads(i)
      PROVE  ReadFirst(tr, g, k)
  <2>1. \A l \in k + 1 .. (k + 1) - 1 : FALSE
    BY <1>1
  <2> QED
    BY <1>1, <1>4, <2>1 DEF ReadFirst
<1>5. ASSUME NEW g, g \notin Rd(i), ReadFirst(tr, g, k + 1)
      PROVE  ReadFirst(tr, g, k)
  <2>1. PICK j \in (k + 1) + 1 .. n :
          g \in Reads(tr[j]) /\ \A l \in (k + 1) + 1 .. j - 1 : g \notin Rd(tr[l])
    BY <1>5 DEF ReadFirst
  <2>2. j \in k + 1 .. n
    BY <1>1, <2>1
  <2>3. \A l \in k + 1 .. j - 1 : l = k + 1 \/ l \in (k + 1) + 1 .. j - 1
    BY <1>1
  <2>4. \A l \in k + 1 .. j - 1 : g \notin Rd(tr[l])
    BY <1>5, <2>1, <2>3
  <2> QED
    BY <2>1, <2>2, <2>4 DEF ReadFirst
<1>6. /\ ReadAfter(tr, k) = {g \in All : ReadFirst(tr, g, k)}
      /\ ReadAfter(tr, k + 1) = {g \in All : ReadFirst(tr, g, k + 1)}
  BY DEF ReadAfter, All
<1>7. Reads(i) = Rs1(i) \union Rs2(i)
  BY DEF Reads
<1> HIDE DEF i
<1>8. \A g : g \in ReadAfter(tr, k) <=> g \in LiveBefore(i, ReadAfter(tr, k + 1))
  BY <1>2, <1>3, <1>4, <1>5, <1>6, <1>7 DEF LiveBefore
<1> QED
  BY <1>8 DEF i

LEMMA ReadAfterLast ==
    ASSUME NEW tr, NEW n \in Nat, Len(tr) = n
    PROVE  ReadAfter(tr, n) = {}
<1>1. \A j \in n + 1 .. n : FALSE
  OBVIOUS
<1> QED
  BY <1>1 DEF ReadAfter, ReadFirst

(* What calcLiveness computes.  ReadAfter satisfies the equation of the     *)
(* recursive function, so a function does, and the equation has no other    *)
(* solution: the two would differ last at some place, and agree there.      *)
LEMMA LivenessExact ==
    ASSUME NEW tr, NEW n \in Nat, Len(tr) = n
    PROVE  \A k \in 0 .. n : Liveness(tr)[k] = ReadAfter(tr, k)
<1> DEFINE F(lv) == [k \in 0 .. Len(tr) |-> IF k = Len(tr) THEN {}
            ELSE (lv[k + 1] \ Rd(tr[k + 1])) \union Rs1(tr[k + 1]) \union Rs2(tr[k + 1])]
           f == [k \in 0 .. n |-> ReadAfter(tr, k)]
           L == Liveness(tr)
<1>1. f = F(f)
  <2>1. ASSUME NEW k \in 0 .. n
        PROVE  f[k] = F(f)[k]
    <3>1. CASE k = n
      BY <3>1, ReadAfterLast
    <3>2. CASE k # n
      <4>1. k \in 0 .. n - 1 /\ k + 1 \in 0 .. n
        BY <3>2
      <4>2. ReadAfter(tr, k) = LiveBefore(tr[k + 1], ReadAfter(tr, k + 1))
        BY <4>1, ReadAfterStep
      <4> QED
        BY <3>2, <4>1, <4>2 DEF LiveBefore
    <3> QED
      BY <3>1, <3>2
  <2> QED
    BY <2>1
<1> HIDE DEF f
<1>2. L = CHOOSE lv : lv = F(lv)
  BY DEF Liveness
<1> HIDE DEF F
<1>3. L = F(L)
  BY <1>1, <1>2
<1> HIDE DEF L
<1>4. \A k \in 0 .. n : L[k] = F(L)[k]
  BY <1>3
<1>5. L[n] = {}
  <2>1. F(L)[n] = {}
    BY DEF F
  <2> QED
    BY <1>4, <2>1
<1>6. ASSUME NEW k \in 0 .. n - 1
      PROVE  L[k] = LiveBefore(tr[k + 1], L[k + 1])
  <2>1. k \in 0 .. n /\ k # n
    OBVIOUS
  <2>2. F(L)[k] = LiveBefore(tr[k + 1], L[k + 1])
    BY <2>1 DEF F, LiveBefore
  <2> QED
    BY <1>4, <2>1, <2>2
<1> DEFINE T == {d \in 0 .. n : L[n - d] # ReadAfter(tr, n - d)}
<1>7. T = {}
  <2> SUFFICES ASSUME T # {} PROVE FALSE
    OBVIOUS
  <2>1. T \subseteq Nat
    OBVIOUS
  <2>2. \E d \in T : \A e \in T : d <= e
    <3> HIDE DEF T
    <3> QED
      BY <2>1, LeastOf
  <2>3. PICK d \in T : \A e \in T : d <= e
    BY <2>2
  <2> DEFINE k == n - d
  <2>4. d \in 0 .. n /\ L[k] # ReadAfter(tr, k)
    OBVIOUS
  <2>5. d # 0
    <3>1. d = 0 => k = n
      OBVIOUS
    <3> HIDE DEF k
    <3> QED
      BY <1>5, <2>4, <3>1, ReadAfterLast
  <2>6. d - 1 \in 0 .. n /\ d - 1 \notin T
    BY <2>3, <2>4, <2>5
  <2>7. k \in 0 .. n - 1 /\ k + 1 = n - (d - 1)
    BY <2>4, <2>5
  <2>8. L[k + 1] = ReadAfter(tr, k + 1)
    BY <2>6, <2>7
  <2> HIDE DEF k
  <2>9. L[k] = LiveBefore(tr[k + 1], L[k + 1])
    BY <1>6, <2>7
  <2>10. ReadAfter(tr, k) = LiveBefore(tr[k + 1], ReadAfter(tr, k + 1))
    BY <2>7, ReadAfterStep
  <2> QED
    BY <2>4, <2>8, <2>9, <2>10
<1>8. ASSUME NEW k \in 0 .. n
      PROVE  L[k] = ReadAfter(tr, k)
  <2>1. n - k \in 0 .. n /\ n - (n - k) = k
    OBVIOUS
  <2> QED
    BY <1>7, <2>1
<1> QED
  BY <1>8 DEF L

-----------------------------------------------------------------------------
(* The guest registers that are in a host register. *)
Mapped(map) == {g \in Reg : map[g] # Mem}

InTrace == trace \in Traces /\ cur_inst \in 1 .. Len(trace)

Held ==
    /\ phase = "emit" => Mapped(reg_mapping) \subseteq Liveness(trace)[cur_inst - 1]
    /\ phase = "returned" => reg_mapping = Unmapped

HInv == IInv /\ InTrace /\ Held

LEMMA TraceFacts ==
    ASSUME InTrace
    PROVE  /\ Len(trace) \in Nat /\ Len(trace) > 0 /\ DOMAIN trace = 1 .. Len(trace)
           /\ inst.op \in Terminators <=> cur_inst = Len(trace)
<1>1. trace \in Traces
  BY DEF InTrace
<1>2. trace \in Seq(Inst)
  BY <1>1, TracesAssumption
<1>3. Len(trace) \in Nat /\ DOMAIN trace = 1 .. Len(trace)
  BY <1>2
<1>4. Len(trace) > 0 /\ \A i \in DOMAIN trace : trace[i].op \in Terminators <=> i = Len(trace)
  BY <1>1, TracesAssumption
<1>5. cur_inst \in DOMAIN trace
  BY <1>3 DEF InTrace
<1> QED
  BY <1>3, <1>4, <1>5 DEF inst

(* What is live before an instruction, from what is live after it. *)
LEMMA LiveFacts ==
    ASSUME InTrace
    PROVE  /\ Liveness(trace)[cur_inst - 1] = LiveBefore(inst, live)
           /\ cur_inst = Len(trace) => live = {}
<1> DEFINE n == Len(trace)
           k == cur_inst - 1
<1>1. n \in Nat /\ k \in 0 .. n - 1 /\ k \in 0 .. n /\ k + 1 \in 0 .. n /\ k + 1 = cur_inst
  <2>1. Len(trace) \in Nat
    BY TraceFacts
  <2>2. cur_inst \in 1 .. Len(trace)
    BY DEF InTrace
  <2> QED
    BY <2>1, <2>2
<1>2. Liveness(trace)[k] = ReadAfter(trace, k)
  BY <1>1, LivenessExact
<1>3. Liveness(trace)[k + 1] = ReadAfter(trace, k + 1)
  BY <1>1, LivenessExact
<1>4. ReadAfter(trace, k) = LiveBefore(trace[k + 1], ReadAfter(trace, k + 1))
  <2> HIDE DEF k
  <2> QED
    BY <1>1, ReadAfterStep
<1>5. ReadAfter(trace, n) = {}
  BY <1>1, ReadAfterLast
<1>6. live = Liveness(trace)[k + 1] /\ inst = trace[k + 1]
  BY <1>1 DEF live, inst
<1> QED
  BY <1>1, <1>2, <1>3, <1>4, <1>5, <1>6

(* Allocation takes a register for its operand at most; deallocation of an  *)
(* operand leaves the others.                                               *)
LEMMA AllocateInHolds ==
    ASSUME NEW st, Exact(st.map, st.pool), NEW set \in SUBSET Reg, NEW load
    PROVE  Mapped(AllocateIn(st, set, load).map) \subseteq Mapped(st.map) \union set
<1>1. CASE set = {}
  BY <1>1 DEF AllocateIn
<1>2. CASE set # {}
  <2> DEFINE g == CHOOSE k \in set : TRUE
  <2>1. g \in set /\ g \in Reg
    BY <1>2
  <2>2. AllocateIn(st, set, load) = Allocate(st, g, load)
    BY <1>2 DEF AllocateIn
  <2> HIDE DEF g
  <2>3. CASE st.map[g] # Mem \/ st.pool = <<>>
    BY <2>2, <2>3 DEF Allocate
  <2>4. CASE st.map[g] = Mem /\ st.pool # <<>>
    <3>1. AllocateIn(st, set, load).map = [st.map EXCEPT ![g] = Head(st.pool)]
      BY <2>2, <2>4 DEF Allocate
    <3>2. st.map \in [Reg -> Host \union {Mem}]
      BY DEF Exact
    <3> QED
      BY <2>1, <3>1, <3>2 DEF Mapped
  <2> QED
    BY <2>3, <2>4
<1> QED
  BY <1>1, <1>2

LEMMA DeallocateInHolds ==
    ASSUME NEW st, Exact(st.map, st.pool), NEW set \in SUBSET Reg,
           \A g, h \in set : g = h
    PROVE  Mapped(DeallocateIn(st, set).map) = Mapped(st.map) \ set
<1>1. CASE set = {}
  BY <1>1 DEF DeallocateIn
<1>2. CASE set # {}
  <2> DEFINE g == CHOOSE k \in set : TRUE
  <2>1. g \in Reg /\ set = {g}
    BY <1>2
  <2>2. DeallocateIn(st, set) = Deallocate(st, g)
    BY <1>2 DEF DeallocateIn
  <2> HIDE DEF g
  <2>3. CASE st.map[g] = Mem
    BY <2>1, <2>2, <2>3 DEF Deallocate, Mapped
  <2>4. CASE st.map[g] # Mem
    <3>1. DeallocateIn(st, set).map = [st.map EXCEPT ![g] = Mem]
      BY <2>2, <2>4 DEF Deallocate
    <3>2. st.map \in [Reg -> Host \union {Mem}]
      BY DEF Exact
    <3> QED
      BY <2>1, <3>1, <3>2 DEF Mapped
  <2> QED
    BY <2>3, <2>4
<1> QED
  BY <1>1, <1>2

LEMMA PreHolds ==
    ASSUME IInv
    PROVE  Mapped(pre.map) \subseteq Mapped(reg_mapping) \union live
<1> DEFINE s0 == [map |-> reg_mapping, pool |-> reg_pool, code |-> <<>>]
           s1 == AllocateIn(s0, Rs1(inst) \intersect Reg \intersect live, TRUE)
           s2 == AllocateIn(s1, Rs2(inst) \intersect Reg \intersect live, TRUE)
           s3 == AllocateIn(s2, Rd(inst) \intersect Reg \intersect live, FALSE)
<1> HIDE DEF s1, s2, s3
<1>1. Exact(s0.map, s0.pool) /\ s0.map = reg_mapping
  BY DEF IInv
<1>2. Exact(s1.map, s1.pool) /\ Mapped(s1.map) \subseteq Mapped(reg_mapping) \union live
  <2>1. Mapped(s1.map) \subseteq Mapped(s0.map) \union (Rs1(inst) \intersect Reg \intersect live)
    BY <1>1, AllocateInHolds DEF s1
  <2> QED
    BY <1>1, <2>1, AllocateInKeeps DEF s1
<1>3. Exact(s2.map, s2.pool) /\ Mapped(s2.map) \subseteq Mapped(s1.map) \union live
  <2>1. Mapped(s2.map) \subseteq Mapped(s1.map) \union (Rs2(inst) \intersect Reg \intersect live)
    BY <1>2, AllocateInHolds DEF s2
  <2> QED
    BY <1>2, <2>1, AllocateInKeeps DEF s2
<1>4. Mapped(s3.map) \subseteq Mapped(s2.map) \union live
  <2>1. Mapped(s3.map) \subseteq Mapped(s2.map) \union (Rd(inst) \intersect Reg \intersect live)
    BY <1>3, AllocateInHolds DEF s3
  <2> QED
    BY <2>1
<1>5. pre = s3
  BY DEF pre, s1, s2, s3
<1> QED
  BY <1>2, <1>3, <1>4, <1>5

LEMMA PostHolds ==
    ASSUME NEW st, Exact(st.map, st.pool),
           Mapped(st.map) \subseteq LiveBefore(inst, live) \union live
    PROVE  Mapped(Post(st).map) \subseteq live
<1> DEFINE d1 == (Rs1(inst) \intersect Reg) \ live
           d2 == (Rs2(inst) \intersect Reg) \ live
           d3 == (Rd(inst) \intersect Reg) \ live
           s1 == DeallocateIn(st, d1)
           s2 == DeallocateIn(s1, d2)
           s3 == DeallocateIn(s2, d3)
<1>0. /\ \A g, h \in d1 : g = h
      /\ \A g, h \in d2 : g = h
      /\ \A g, h \in d3 : g = h
      /\ d1 \in SUBSET Reg /\ d2 \in SUBSET Reg /\ d3 \in SUBSET Reg
  BY DEF Rs1, Rs2, Rd
<1>01. /\ d1 = (Rs1(inst) \intersect Reg) \ live
       /\ d2 = (Rs2(inst) \intersect Reg) \ live
  OBVIOUS
<1>02. Post(st) = s3
  BY DEF Post
<1> HIDE DEF d1, d2, d3, s1, s2, s3
<1>1. Exact(s1.map, s1.pool) /\ Mapped(s1.map) = Mapped(st.map) \ d1
  BY <1>0, DeallocateInKeeps, DeallocateInHolds DEF s1
<1>2. Exact(s2.map, s2.pool) /\ Mapped(s2.map) = Mapped(s1.map) \ d2
  BY <1>0, <1>1, DeallocateInKeeps, DeallocateInHolds DEF s2
<1>3. Mapped(s3.map) = Mapped(s2.map) \ d3
  BY <1>0, <1>2, DeallocateInHolds DEF s3
<1>4. Mapped(st.map) \subseteq Reg
  BY DEF Mapped
<1>5. ASSUME NEW g \in Mapped(s3.map)
      PROVE  g \in live
  <2>1. g \in Mapped(st.map) /\ g \notin d1 /\ g \notin d2 /\ g \in Reg
    BY <1>1, <1>2, <1>3, <1>4
  <2>2. g \in live \/ g \in Rs1(inst) \/ g \in Rs2(inst)
    BY <2>1 DEF LiveBefore
  <2> QED
    BY <1>01, <2>1, <2>2
<1> QED
  BY <1>02, <1>5

-----------------------------------------------------------------------------
(* A round of the loop: its post-work leaves live registers only. *)
LEMMA RoundHolds ==
    ASSUME HInv, NEW host, NEW st, Exact(st.map, st.pool), Translated(host, st),
           Mapped(st.map) \subseteq LiveBefore(inst, live) \union live
    PROVE  IInv' /\ trace' = trace /\ Mapped(reg_mapping') \subseteq live
<1>1. IInv'
  BY TranslatedKeeps
<1>2. Mapped(Post(st).map) \subseteq live
  BY PostHolds
<1>3. reg_mapping' = Post(st).map /\ trace' = trace
  BY DEF Translated
<1> QED
  BY <1>1, <1>2, <1>3

LEMMA WithHolds ==
    ASSUME HInv, phase = "emit", NEW code
    PROVE  /\ Exact(With(code).map, With(code).pool)
           /\ Mapped(With(code).map) \subseteq LiveBefore(inst, live) \union live
<1>1. With(code).map = pre.map /\ With(code).pool = pre.pool
  BY DEF With, Then
<1>2. Exact(pre.map, pre.pool) /\ Mapped(pre.map) \subseteq Mapped(reg_mapping) \union live
  BY PreKeeps, PreHolds DEF HInv
<1>3. Mapped(reg_mapping) \subseteq LiveBefore(inst, live)
  BY LiveFacts DEF HInv, Held
<1> QED
  BY <1>1, <1>2, <1>3

LEMMA SavedHolds == Mapped(Saved.map) = {}
<1>1. Saved.map = Unmapped
  BY DEF Saved, DeallocateAll
<1> QED
  BY <1>1 DEF Mapped, Unmapped

(* The three ways a round ends: the next instruction, the return of the     *)
(* host code, the start of the trace.                                       *)
LEMMA StraightHolds ==
    ASSUME HInv, NEW host, NEW code, Translated(host, With(code)),
           inst.op \notin Terminators, cur_inst' = cur_inst + 1, phase' = phase
    PROVE  HInv'
<1>1. phase = "emit"
  BY DEF Translated
<1>2. IInv' /\ trace' = trace /\ Mapped(reg_mapping') \subseteq live
  BY <1>1, WithHolds, RoundHolds
<1>3. cur_inst \in 1 .. Len(trace) /\ cur_inst # Len(trace) /\ Len(trace) \in Nat /\ trace \in Traces
  BY TraceFacts DEF HInv, InTrace
<1>4. InTrace'
  BY <1>2, <1>3 DEF InTrace
<1>5. cur_inst' - 1 = cur_inst
  BY <1>3
<1>6. Liveness(trace')[cur_inst' - 1] = live
  BY <1>2, <1>5 DEF live
<1>7. Held'
  BY <1>1, <1>2, <1>6 DEF Held
<1> QED
  BY <1>2, <1>4, <1>7 DEF HInv

LEMMA ReturnHolds ==
    ASSUME HInv, NEW st, Exact(st.map, st.pool), Return(st), inst.op \in Terminators,
           Mapped(st.map) \subseteq LiveBefore(inst, live) \union live
    PROVE  HInv'
<1>1. Translated(m, st) /\ phase' = "returned" /\ cur_inst' = cur_inst
  BY DEF Return
<1>2. IInv' /\ trace' = trace /\ Mapped(reg_mapping') \subseteq live
  BY <1>1, RoundHolds
<1>3. live = {}
  BY TraceFacts, LiveFacts DEF HInv
<1>4. reg_mapping' = Unmapped
  <2>1. reg_mapping' \in [Reg -> Host \union {Mem}]
    BY <1>2 DEF IInv, Exact
  <2>2. \A g \in Reg : reg_mapping'[g] = Mem
    BY <1>2, <1>3 DEF Mapped
  <2> QED
    BY <2>1, <2>2 DEF Unmapped
<1>5. InTrace'
  BY <1>1, <1>2 DEF HInv, InTrace
<1>6. Held'
  BY <1>1, <1>4 DEF Held
<1> QED
  BY <1>2, <1>5, <1>6 DEF HInv

LEMMA NextHolds == HInv /\ [Next]_vars => HInv'
<1> SUFFICES ASSUME HInv, [Next]_vars PROVE HInv'
  OBVIOUS
<1>0. \A code : Straight(code) => /\ Translated(m, With(code))
                                  /\ cur_inst' = cur_inst + 1 /\ phase' = phase
  BY DEF Straight
<1>1. CASE TranslateImm
  <2>1. Straight(ImmType) /\ inst.op \notin Terminators
    BY <1>1 DEF TranslateImm, Terminators
  <2> QED
    BY <2>1, <1>0, StraightHolds
<1>2. CASE TranslateADDI
  <2>1. Straight(ADDI) /\ inst.op \notin Terminators
    BY <1>2 DEF TranslateADDI, Terminators
  <2> QED
    BY <2>1, <1>0, StraightHolds
<1>3. CASE TranslateReg
  <2>1. Straight(RegType) /\ inst.op \notin Terminators
    BY <1>3 DEF TranslateReg, Terminators
  <2> QED
    BY <2>1, <1>0, StraightHolds
<1>4. CASE TranslateADD
  <2>1. Straight(ADD) /\ inst.op \notin Terminators
    BY <1>4 DEF TranslateADD, Terminators
  <2> QED
    BY <2>1, <1>0, StraightHolds
<1>5. CASE TranslateShift
  <2>1. Straight(Shift) /\ inst.op \notin Terminators
    BY <1>5 DEF TranslateShift, Terminators
  <2> QED
    BY <2>1, <1>0, StraightHolds
<1>6. CASE TranslateSLT
  <2>1. Straight(SetLess) /\ inst.op \notin Terminators
    BY <1>6 DEF TranslateSLT, Terminators
  <2> QED
    BY <2>1, <1>0, StraightHolds
<1>7. CASE TranslateSLTI
  <2>1. /\ \E stale : Translated([m EXCEPT !.flags = stale], With(SetLessImm))
        /\ inst.op \notin Terminators /\ cur_inst' = cur_inst + 1 /\ phase' = phase
    BY <1>7 DEF TranslateSLTI, Terminators
  <2> QED
    BY <2>1, StraightHolds
<1>8. CASE TranslateMUL
  <2>1. Straight(MUL) /\ inst.op \notin Terminators
    BY <1>8 DEF TranslateMUL, Terminators
  <2> QED
    BY <2>1, <1>0, StraightHolds
<1>9. CASE TranslateMULH
  <2>1. Straight(MULH) /\ inst.op \notin Terminators
    BY <1>9 DEF TranslateMULH, Terminators
  <2> QED
    BY <2>1, <1>0, StraightHolds
<1>10. CASE TranslateLUI
  <2>1. Straight(LUI) /\ inst.op \notin Terminators
    BY <1>10 DEF TranslateLUI, Terminators
  <2> QED
    BY <2>1, <1>0, StraightHolds
<1>11. CASE TranslateAUIPC
  <2>1. Straight(AUIPC) /\ inst.op \notin Terminators
    BY <1>11 DEF TranslateAUIPC, Terminators
  <2> QED
    BY <2>1, <1>0, StraightHolds
<1>12. CASE TranslateLoad
  <2>1. Straight(Load) /\ inst.op \notin Terminators
    BY <1>12 DEF TranslateLoad, Terminators
  <2> QED
    BY <2>1, <1>0, StraightHolds
<1>13. CASE TranslateStore
  <2>1. Straight(Store) /\ inst.op \notin Terminators
    BY <1>13 DEF TranslateStore, Terminators
  <2> QED
    BY <2>1, <1>0, StraightHolds
<1>14. CASE BadAddress
  BY <1>14 DEF BadAddress, HInv, IInv, InTrace, Held
<1>15. CASE TranslateJAL
  <2>1. Return(With(JAL)) /\ inst.op \in Terminators /\ phase = "emit"
    BY <1>15 DEF TranslateJAL, Terminators, Return, Translated
  <2> QED
    BY <2>1, WithHolds, ReturnHolds
<1>16. CASE TranslateJALR
  <2>1. Return(With(JALR)) /\ inst.op \in Terminators /\ phase = "emit"
    BY <1>16 DEF TranslateJALR, Terminators, Return, Translated
  <2> QED
    BY <2>1, WithHolds, ReturnHolds
<1>17. CASE TranslateBranch
  <2>1. /\ Return(With(Compare \o Advance(IF Jumps THEN inst.imm ELSE 4)))
        /\ inst.op \in Terminators /\ phase = "emit"
    BY <1>17 DEF TranslateBranch, Terminators, Return, Translated
  <2> QED
    BY <2>1, WithHolds, ReturnHolds
<1>18. CASE LoopExit
  <2> DEFINE st == Then(Saved, Advance(4))
  <2>1. Return(st) /\ inst.op \in Terminators
    BY <1>18 DEF LoopExit, Terminators
  <2>2. st.map = Saved.map /\ st.pool = Saved.pool
    BY DEF Then
  <2>3. Exact(st.map, st.pool) /\ Mapped(st.map) = {}
    BY <2>2, SavedExact, SavedHolds
  <2> HIDE DEF st
  <2> QED
    BY <2>1, <2>3, ReturnHolds
<1>19. CASE LoopBack
  <2>1. Translated(m, Saved) /\ cur_inst' = 1 /\ phase' = phase
    BY <1>19 DEF LoopBack
  <2>2. Exact(Saved.map, Saved.pool) /\ Mapped(Saved.map) = {}
    BY SavedExact, SavedHolds
  <2>3. IInv' /\ trace' = trace
    BY <2>1, <2>2, RoundHolds
  <2>4. InTrace'
    <3>1. Len(trace) \in Nat /\ Len(trace) > 0
      BY TraceFacts DEF HInv
    <3>2. trace \in Traces
      BY DEF HInv, InTrace
    <3> QED
      BY <2>1, <2>3, <3>1, <3>2 DEF InTrace
  <2>5. Mapped(reg_mapping') = {}
    <3>1. live = {}
      BY <1>19, TraceFacts, LiveFacts DEF LoopBack, Terminators, HInv
    <3>2. Mapped(reg_mapping') \subseteq live
      BY <2>1, <2>2, RoundHolds
    <3> QED
      BY <3>1, <3>2
  <2>6. Held'
    BY <2>1, <2>5 DEF Held, Translated
  <2> QED
    BY <2>3, <2>4, <2>6 DEF HInv
<1>20. CASE UNCHANGED vars
  BY <1>20 DEF vars, HInv, IInv, InTrace, Held
<1> QED
  BY <1>1, <1>2, <1>3, <1>4, <1>5, <1>6, <1>7, <1>8, <1>9, <1>10, <1>11, <1>12,
     <1>13, <1>14, <1>15, <1>16, <1>17, <1>18, <1>19, <1>20 DEF Next

LEMMA HoldsSufficient == HInv => HeldWhileLive
<1> SUFFICES ASSUME HInv PROVE HeldWhileLive
  OBVIOUS
<1> DEFINE k == cur_inst - 1
<1>1. Len(trace) \in Nat /\ k \in 0 .. Len(trace) /\ k + 1 = cur_inst
  <2>1. Len(trace) \in Nat
    BY TraceFacts DEF HInv
  <2>2. cur_inst \in 1 .. Len(trace)
    BY DEF HInv, InTrace
  <2> QED
    BY <2>1, <2>2
<1>2. Liveness(trace)[k] = ReadAfter(trace, k)
  BY <1>1, LivenessExact
<1>3. ASSUME phase = "emit", NEW g \in Reg, reg_mapping[g] # Mem
      PROVE  \E j \in cur_inst .. Len(trace) :
                  /\ g \in Rs1(trace[j]) \union Rs2(trace[j])
                  /\ \A i \in cur_inst .. j - 1 : g \notin Rd(trace[i])
  <2>1. g \in ReadAfter(trace, k)
    BY <1>2, <1>3 DEF HInv, Held, Mapped
  <2>2. ReadFirst(trace, g, k)
    BY <2>1 DEF ReadAfter
  <2> HIDE DEF k
  <2> QED
    BY <1>1, <2>2 DEF ReadFirst, Reads
<1>4. phase = "returned" => reg_mapping = Unmapped
  BY DEF HInv, Held
<1> QED
  BY <1>3, <1>4 DEF HeldWhileLive

LEMMA InitHolds == Init => HInv
<1> SUFFICES ASSUME Init PROVE HInv
  OBVIOUS
<1>1. IInv
  BY EmptyExact DEF Init, IInv
<1>2. trace \in Traces /\ cur_inst = 1 /\ phase = "emit" /\ reg_mapping = Unmapped
  BY DEF Init
<1>3. Len(trace) \in Nat /\ Len(trace) > 0
  <2>1. trace \in Seq(Inst)
    BY <1>2, TracesAssumption
  <2> QED
    BY <1>2, <2>1, TracesAssumption
<1>4. Mapped(reg_mapping) = {}
  BY <1>2 DEF Mapped, Unmapped
<1> QED
  BY <1>1, <1>2, <1>3, <1>4 DEF HInv, InTrace, Held

(* For every trace: a host register is held only for a guest register that  *)
(* the rest of the trace reads, and none when the host code returns.        *)
THEOREM HeldOnlyWhileLive == Spec => []HeldWhileLive
  BY InitHolds, NextHolds, HoldsSufficient, PTL DEF Spec
=============================================================================
