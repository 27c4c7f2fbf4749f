----------------------------- MODULE MMU_proofs -----------------------------
(***************************************************************************)
(* For any memory size, page size, TLB size, page table and guest: the     *)
(* TLBs of sim/mmu.h stay coherent with the page table between fences,     *)
(* accesses change nothing in memory but the access and dirty bits of the  *)
(* entry they used, and translate() agrees with Sv32 on the tables it can  *)
(* represent.                                                              *)
(***************************************************************************)
EXTENDS MMU, LRUListFacts

Memory == [0 .. MemWords - 1 -> Word]

Access == {"READ", "WRITE", "EXEC"}

(* Coherent speaks about the memory and the edits of one state.  The proofs *)
(* follow an access through the memory it leaves behind, so they use the    *)
(* same predicates for any memory m and any set ed of edited words.         *)
UneditedIn(m, ed, va) ==
    /\ Entry1(va) \notin ed
    /\ InMemory(Entry1(va)) /\ ~Leaf(m[Entry1(va)]) => Entry0(m, va) \notin ed

EntryIn(m, ed, p, acc) ==
    UneditedIn(m, ed, p.key) =>
        \E e \in Translate(m, p.key, acc) :
            /\ m[e[1]].a
            /\ p.val = Target(m[e[1]], e[2], p.key)

CurrentIn(m, ed, tlb, acc) == \A i \in DOMAIN tlb : EntryIn(m, ed, tlb[i], acc)

(* q is p, except perhaps for access and dirty bits that have been set. *)
SamePte(p, q) ==
    /\ q.v = p.v /\ q.r = p.r /\ q.w = p.w /\ q.x = p.x /\ q.ppn = p.ppn
    /\ p.a => q.a

(* The walk for va reads the same entries in m and in n. *)
SameWalk(m, n, va) ==
    /\ InMemory(Entry1(va)) => SamePte(m[Entry1(va)], n[Entry1(va)])
    /\ InMemory(Entry1(va)) /\ ~Leaf(m[Entry1(va)]) /\ InMemory(Entry0(m, va)) =>
          SamePte(m[Entry0(m, va)], n[Entry0(m, va)])

(* n is m after a walk has set bits in the entry at q. *)
Marked(m, n, q, acc) == n = [m EXCEPT ![q] = Mark(@, acc)]

(* n is m after data has been stored at q. *)
Overwritten(m, n, q, data) == n = [m EXCEPT ![q] = data]

(* The pair a miss puts in front. *)
NewPair(e, va) == [key |-> va, val |-> Target(mem[e[1]], e[2], va)]

(* The memory n and the TLB t that an access can leave behind. *)
Outcome(tlb, va, acc, n, t) ==
    \/ n = mem /\ OldPairs(tlb, t)
    \/ \E e \in Translate(mem, va, acc) :
          Marked(mem, n, e[1], acc) /\ OneNewPair(tlb, t, NewPair(e, va))

-----------------------------------------------------------------------------
(* Arithmetic: every address is cut into the 32-bit range, and cutting it  *)
(* twice changes nothing.                                                  *)
LEMMA SpanFacts == Radix \in Nat \ {0, 1} /\ Span \in Nat \ {0} /\ MemWords \in 1 .. Span
<1>1. \A n \in Nat \ {0, 1} : n * n * n \in Nat \ {0}
  OBVIOUS
<1> QED
  BY <1>1, MMUAssumption DEF Span

LEMMA CutFacts ==
    ASSUME NEW pa \in Nat
    PROVE  /\ Cut(pa) \in 0 .. Span - 1
           /\ Cut(Cut(pa)) = Cut(pa)
           /\ InMemory(pa) => Cut(pa) \in 0 .. MemWords - 1
           /\ InMemory(Cut(pa)) <=> InMemory(pa)
<1> DEFINE n == Span
<1>1. n \in Nat \ {0} /\ MemWords \in 1 .. n
  BY SpanFacts
<1> HIDE DEF n
<1>2. pa % n \in 0 .. n - 1 /\ (pa % n) % n = pa % n
  BY <1>1
<1> QED
  BY <1>1, <1>2 DEF Cut, InMemory, n

(* The digits of an address are naturals, the lower one below Radix. *)
LEMMA DigitFacts ==
    ASSUME NEW va \in VA
    PROVE  /\ va \in 0 .. Span - 1
           /\ VPN1(va) \in 0 .. Radix - 1
           /\ VPN0(va) \in 0 .. Radix - 1
<1>1. va \in 0 .. Radix * Radix * Radix - 1 /\ Radix \in Nat \ {0, 1}
  BY MMUAssumption DEF Span
<1>2. va \div (Radix * Radix) \in 0 .. Radix - 1
  BY <1>1
<1>3. va \div Radix \in Nat
  BY <1>1
<1>4. (va \div Radix) % Radix \in 0 .. Radix - 1
  BY <1>1, <1>3
<1> QED
  BY <1>1, <1>2, <1>4 DEF VPN1, VPN0, Span

(* Where the walk looks is an address of memory when the bound check says  *)
(* so.                                                                     *)
LEMMA EntryFacts ==
    ASSUME NEW m \in Memory, NEW va \in VA
    PROVE  /\ Entry1(va) \in Nat
           /\ InMemory(Entry1(va)) =>
                 /\ Entry1(va) \in 0 .. MemWords - 1
                 /\ Entry0(m, va) \in Nat
                 /\ InMemory(Entry0(m, va)) => Entry0(m, va) \in 0 .. MemWords - 1
<1>1. RootPPN * Radix + VPN1(va) \in Nat
  <2>1. RootPPN \in Nat /\ Radix \in Nat
    BY MMUAssumption
  <2>2. VPN1(va) \in Nat
    BY <2>1, DigitFacts
  <2> QED
    BY <2>1, <2>2
<1>2. /\ Entry1(va) \in 0 .. Span - 1
      /\ InMemory(Entry1(va)) => Entry1(va) \in 0 .. MemWords - 1
  BY <1>1, CutFacts DEF Entry1
<1>3. ASSUME InMemory(Entry1(va))
      PROVE  /\ Entry0(m, va) \in Nat
             /\ InMemory(Entry0(m, va)) => Entry0(m, va) \in 0 .. MemWords - 1
  <2>1. m[Entry1(va)].ppn \in Nat
    <3>1. m[Entry1(va)] \in Word
      BY <1>2, <1>3 DEF Memory
    <3> QED
      BY <3>1 DEF Word
  <2>2. VPN0(va) \in Nat /\ Radix \in Nat
    BY SpanFacts, DigitFacts
  <2>3. m[Entry1(va)].ppn * Radix + VPN0(va) \in Nat
    BY <2>1, <2>2
  <2> QED
    BY <2>3, CutFacts, SpanFacts DEF Entry0
<1> QED
  BY <1>2, <1>3, SpanFacts

(* The walk ends at a valid leaf entry in memory, of level 0 or 1. *)
LEMMA EndsFacts ==
    ASSUME NEW m \in Memory, NEW va \in VA, NEW e \in EndsAt(m, va)
    PROVE  /\ e[1] \in 0 .. MemWords - 1
           /\ m[e[1]] \in Word
           /\ Valid(m[e[1]])
           /\ Leaf(m[e[1]])
           /\ InMemory(Entry1(va))
           /\ \/ e = <<Entry1(va), 1>>
              \/ /\ e = <<Entry0(m, va), 0>>
                 /\ ~Leaf(m[Entry1(va)])
                 /\ InMemory(Entry0(m, va))
<1>1. CASE e = <<Entry1(va), 1>> /\ InMemory(e[1]) /\ Valid(m[e[1]]) /\ Leaf(m[e[1]])
  <2>1. e[1] = Entry1(va)
    BY <1>1
  <2> QED
    BY <1>1, <2>1, EntryFacts DEF Memory
<1>2. CASE /\ e = <<Entry0(m, va), 0>>
           /\ InMemory(Entry1(va)) /\ ~Leaf(m[Entry1(va)])
           /\ InMemory(e[1]) /\ Valid(m[e[1]]) /\ Leaf(m[e[1]])
  <2>1. e[1] = Entry0(m, va)
    BY <1>2
  <2> QED
    BY <1>2, <2>1, EntryFacts DEF Memory
<1> QED
  BY <1>1, <1>2 DEF EndsAt

(* What a walk finds is a natural number. *)
LEMMA TargetFacts ==
    ASSUME NEW pte \in Word, NEW level, NEW va \in VA
    PROVE  Target(pte, level, va) \in Nat
<1>1. pte.ppn \in Nat /\ va \in Nat /\ Radix \in Nat \ {0, 1}
  BY SpanFacts, DigitFacts DEF Word
<1> DEFINE n == pte.ppn
<1> HIDE DEF n
<1>2. n \in Nat
  BY <1>1 DEF n
<1>3. n \div Radix \in Nat /\ va % Radix \in Nat /\ Radix * Radix \in Nat \ {0}
  BY <1>1, <1>2
<1>4. va % (Radix * Radix) \in Nat
  BY <1>1, <1>3
<1>5. \A x \in Nat : DropLowBit(x) \in Nat
  BY DEF DropLowBit
<1>6. \A x \in Nat : x * Radix \in Nat /\ x * Radix * Radix \in Nat
  BY <1>1
<1> QED
  BY <1>2, <1>3, <1>4, <1>5, <1>6 DEF Target, n

-----------------------------------------------------------------------------
(* Two memories in which the walk for va reads the same entries translate  *)
(* va alike.                                                               *)
LEMMA WalkFacts ==
    ASSUME NEW m \in Memory, NEW n \in Memory, NEW va \in VA, SameWalk(m, n, va)
    PROVE  /\ InMemory(Entry1(va)) =>
                 /\ Entry0(n, va) = Entry0(m, va)
                 /\ Leaf(n[Entry1(va)]) <=> Leaf(m[Entry1(va)])
           /\ \A e \in EndsAt(m, va) :
                 /\ e \in EndsAt(n, va)
                 /\ SamePte(m[e[1]], n[e[1]])
           /\ \A acc : \A e \in Translate(m, va, acc) : e \in Translate(n, va, acc)
<1>1. ASSUME InMemory(Entry1(va))
      PROVE  /\ Entry0(n, va) = Entry0(m, va)
             /\ Leaf(n[Entry1(va)]) <=> Leaf(m[Entry1(va)])
             /\ Valid(n[Entry1(va)]) <=> Valid(m[Entry1(va)])
  <2>1. SamePte(m[Entry1(va)], n[Entry1(va)])
    BY <1>1 DEF SameWalk
  <2> QED
    BY <2>1 DEF SamePte, Entry0, Leaf, Valid
<1>2. ASSUME NEW e \in EndsAt(m, va)
      PROVE  e \in EndsAt(n, va) /\ SamePte(m[e[1]], n[e[1]])
  <2>0. /\ InMemory(Entry1(va))
        /\ \/ e = <<Entry1(va), 1>>
           \/ /\ e = <<Entry0(m, va), 0>>
              /\ ~Leaf(m[Entry1(va)])
              /\ InMemory(Entry0(m, va))
    BY EndsFacts
  <2>1. SamePte(m[e[1]], n[e[1]])
    BY <2>0 DEF SameWalk
  <2>2. Valid(n[e[1]]) <=> Valid(m[e[1]])
    BY <2>1 DEF SamePte, Valid
  <2>3. Leaf(n[e[1]]) <=> Leaf(m[e[1]])
    BY <2>1 DEF SamePte, Leaf
  <2>4. e \in EndsAt(n, va)
    BY <1>1, <2>0, <2>2, <2>3 DEF EndsAt
  <2> QED
    BY <2>1, <2>4
<1>3. ASSUME NEW acc, NEW e \in Translate(m, va, acc)
      PROVE  e \in Translate(n, va, acc)
  <2>1. e \in EndsAt(m, va) /\ Permits(m[e[1]], acc) /\ (e[2] = 1 => m[e[1]].ppn % Radix = 0)
    BY DEF Translate
  <2>2. e \in EndsAt(n, va) /\ SamePte(m[e[1]], n[e[1]])
    BY <1>2, <2>1
  <2>3. Permits(n[e[1]], acc) /\ n[e[1]].ppn = m[e[1]].ppn
    BY <2>1, <2>2 DEF SamePte, Permits
  <2> QED
    BY <2>1, <2>2, <2>3 DEF Translate
<1> QED
  BY <1>1, <1>2, <1>3

(* The same entry gives the same address. *)
LEMMA SameTarget ==
    ASSUME NEW p, NEW q, SamePte(p, q), NEW level, NEW va
    PROVE  Target(q, level, va) = Target(p, level, va)
  BY DEF SamePte, Target

(* A TLB entry that was current stays current while its walk reads the     *)
(* same entries.                                                           *)
LEMMA EntryStays ==
    ASSUME NEW m \in Memory, NEW n \in Memory, NEW ed, NEW fd, NEW acc,
           NEW p \in [key : VA, val : Nat], EntryIn(m, ed, p, acc),
           UneditedIn(n, fd, p.key) => UneditedIn(m, ed, p.key) /\ SameWalk(m, n, p.key)
    PROVE  EntryIn(n, fd, p, acc)
<1> SUFFICES ASSUME UneditedIn(n, fd, p.key)
             PROVE  \E e \in Translate(n, p.key, acc) :
                       /\ n[e[1]].a
                       /\ p.val = Target(n[e[1]], e[2], p.key)
  BY DEF EntryIn
<1>1. PICK e \in Translate(m, p.key, acc) :
          /\ m[e[1]].a
          /\ p.val = Target(m[e[1]], e[2], p.key)
  BY DEF EntryIn
<1>2. p.key \in VA /\ SameWalk(m, n, p.key)
  OBVIOUS
<1>3. e \in EndsAt(m, p.key)
  BY DEF Translate
<1>4. e \in Translate(n, p.key, acc) /\ SamePte(m[e[1]], n[e[1]])
  BY <1>2, <1>3, WalkFacts
<1>5. n[e[1]].a
  BY <1>1, <1>4 DEF SamePte
<1>6. p.val = Target(n[e[1]], e[2], p.key)
  BY <1>1, <1>4, SameTarget
<1> QED
  BY <1>4, <1>5, <1>6

(* The elements of a TLB are pairs of addresses. *)
LEMMA PairFacts ==
    ASSUME NEW tlb \in TLB, NEW i \in DOMAIN tlb
    PROVE  tlb[i] \in [key : VA, val : Nat] /\ tlb[i].key \in VA
<1> DEFINE P == [key : VA, val : Nat]
<1>1. tlb \in Seq(P)
  BY DEF TLB
<1> HIDE DEF P
<1>2. tlb[i] \in P
  BY <1>1
<1> QED
  BY <1>2 DEF P

(* Setting access and dirty bits changes no walk and no TLB entry. *)
LEMMA MarkFacts ==
    ASSUME NEW m \in Memory, NEW q \in 0 .. MemWords - 1, NEW acc,
           NEW n, Marked(m, n, q, acc)
    PROVE  /\ n \in Memory
           /\ n[q] = Mark(m[q], acc)
           /\ n[q].a
           /\ \A va \in VA : SameWalk(m, n, va)
           /\ \A ed : \A va \in VA : UneditedIn(n, ed, va) => UneditedIn(m, ed, va)
<1>1. m[q] \in Word
  BY DEF Memory
<1>2. Mark(m[q], acc) \in Word /\ SamePte(m[q], Mark(m[q], acc)) /\ Mark(m[q], acc).a
  BY <1>1 DEF Word, Mark, SamePte
<1>3. /\ n \in Memory
      /\ \A p \in 0 .. MemWords - 1 : n[p] = IF p = q THEN Mark(m[q], acc) ELSE m[p]
  BY <1>2 DEF Memory, Marked
<1>4. \A p \in 0 .. MemWords - 1 : SamePte(m[p], n[p])
  BY <1>2, <1>3 DEF SamePte
<1>5. ASSUME NEW va \in VA
      PROVE  SameWalk(m, n, va)
  BY <1>4, EntryFacts DEF SameWalk
<1>6. ASSUME NEW va \in VA, NEW ed, UneditedIn(n, ed, va)
      PROVE  UneditedIn(m, ed, va)
  <2>1. SameWalk(m, n, va)
    BY <1>5
  <2>2. InMemory(Entry1(va)) =>
           /\ Entry0(n, va) = Entry0(m, va)
           /\ Leaf(n[Entry1(va)]) <=> Leaf(m[Entry1(va)])
    BY <1>3, <2>1, WalkFacts
  <2> QED
    BY <1>6, <2>2 DEF UneditedIn
<1> QED
  BY <1>2, <1>3, <1>5, <1>6

(* So a TLB that is current stays so. *)
LEMMA MarkKeeps ==
    ASSUME NEW m \in Memory, NEW q \in 0 .. MemWords - 1, NEW how,
           NEW n, Marked(m, n, q, how),
           NEW ed, NEW tlb \in TLB, NEW acc, CurrentIn(m, ed, tlb, acc)
    PROVE  CurrentIn(n, ed, tlb, acc)
<1>1. n \in Memory /\ \A va \in VA : /\ SameWalk(m, n, va)
                                     /\ UneditedIn(n, ed, va) => UneditedIn(m, ed, va)
  BY MarkFacts
<1>2. ASSUME NEW i \in DOMAIN tlb
      PROVE  EntryIn(n, ed, tlb[i], acc)
  <2>1. tlb[i] \in [key : VA, val : Nat] /\ tlb[i].key \in VA
    BY PairFacts
  <2>2. EntryIn(m, ed, tlb[i], acc)
    BY DEF CurrentIn
  <2> QED
    BY <1>1, <2>1, <2>2, EntryStays
<1> QED
  BY <1>2 DEF CurrentIn

(* A store outdates only the translations whose table entries it hits. *)
LEMMA StoreKeeps ==
    ASSUME NEW m \in Memory, NEW q \in 0 .. MemWords - 1, NEW data \in Word,
           NEW n, Overwritten(m, n, q, data), NEW ed, NEW fd, fd = ed \union {q},
           NEW tlb \in TLB, NEW acc, CurrentIn(m, ed, tlb, acc)
    PROVE  n \in Memory /\ CurrentIn(n, fd, tlb, acc)
<1>1. n \in Memory /\ \A p \in 0 .. MemWords - 1 : p # q => n[p] = m[p]
  BY DEF Memory, Overwritten
<1>2. q \in fd /\ \A p : p \notin fd => p \notin ed
  OBVIOUS
<1>3. \A p : SamePte(p, p)
  BY DEF SamePte
<1>4. ASSUME NEW va \in VA, UneditedIn(n, fd, va)
      PROVE  UneditedIn(m, ed, va) /\ SameWalk(m, n, va)
  <2>1. Entry1(va) \notin fd /\ Entry1(va) # q
    BY <1>2, <1>4 DEF UneditedIn
  <2>2. InMemory(Entry1(va)) => n[Entry1(va)] = m[Entry1(va)]
    BY <1>1, <2>1, EntryFacts
  <2>3. InMemory(Entry1(va)) => Entry0(n, va) = Entry0(m, va)
    BY <2>2 DEF Entry0
  <2>4. InMemory(Entry1(va)) /\ ~Leaf(m[Entry1(va)]) => Entry0(m, va) \notin fd
    BY <1>4, <2>2, <2>3 DEF UneditedIn
  <2>5. InMemory(Entry1(va)) /\ ~Leaf(m[Entry1(va)]) /\ InMemory(Entry0(m, va)) =>
           n[Entry0(m, va)] = m[Entry0(m, va)]
    BY <1>1, <1>2, <2>4, EntryFacts
  <2>6. SameWalk(m, n, va)
    BY <1>3, <2>2, <2>5 DEF SameWalk
  <2> QED
    BY <1>2, <2>1, <2>4, <2>6 DEF UneditedIn
<1>5. ASSUME NEW i \in DOMAIN tlb
      PROVE  EntryIn(n, fd, tlb[i], acc)
  <2>1. tlb[i] \in [key : VA, val : Nat] /\ tlb[i].key \in VA
    BY PairFacts
  <2>2. EntryIn(m, ed, tlb[i], acc)
    BY DEF CurrentIn
  <2> QED
    BY <1>1, <1>4, <2>1, <2>2, EntryStays
<1> QED
  BY <1>1, <1>5 DEF CurrentIn

-----------------------------------------------------------------------------
(* What a load or store finds out about its address: the memory and the    *)
(* TLB it leaves behind have their types, the memory changed only in the   *)
(* bits set in the leaf entry used, and every TLB entry is an old one or   *)
(* the translation just made.                                              *)
LEMMA ResolveFacts ==
    ASSUME TypeOK, NEW tlb \in TLB, Len(tlb) <= TLBSize, NEW va \in VA, NEW acc,
           NEW res \in Resolve(tlb, va, acc)
    PROVE  /\ res.pa \in Nat
           /\ res.tlb \in TLB
           /\ Len(res.tlb) <= TLBSize
           /\ res.mem \in Memory
           /\ Outcome(tlb, va, acc, res.mem, res.tlb)
<1> DEFINE P == [key : VA, val : Nat]
<1>0. /\ mem \in Memory /\ tlb \in Seq(P) /\ TLBSize \in Nat \ {0}
      /\ Len(tlb) \in Nat /\ DOMAIN tlb = 1 .. Len(tlb) /\ va \in Nat
  BY MMUAssumption, DigitFacts DEF TypeOK, TLB, Memory
<1> HIDE DEF P
<1>1. CASE ~virtual
  <2>1. res = [pa |-> va, tlb |-> tlb, mem |-> mem]
    BY <1>1 DEF Resolve
  <2>2. res.pa = va /\ res.tlb = tlb /\ res.mem = mem
    BY <2>1
  <2>3. OldPairs(tlb, tlb)
    BY DEF OldPairs
  <2> QED
    BY <1>0, <2>2, <2>3 DEF Outcome
<1>2. CASE virtual /\ va \in Cached(tlb)
  <2> DEFINE k == IndexOf(tlb, va)
             t == Touch(tlb, va)
  <2>1. res = [pa |-> tlb[k].val, tlb |-> t, mem |-> mem]
    BY <1>2 DEF Resolve, Lookup, ValueOf
  <2>2. k \in 1 .. Len(tlb) /\ tlb[k] \in P
    BY <1>0, <1>2, IndexFacts
  <2>3. IsMove(P, tlb, k, t)
    BY <1>0, <1>2, TouchFacts
  <2> HIDE DEF k, t
  <2>4. res.pa = tlb[k].val /\ res.tlb = t /\ res.mem = mem
    BY <2>1
  <2>5. tlb[k].val \in Nat
    BY <2>2 DEF P
  <2>6. t \in Seq(P) /\ Len(t) = Len(tlb) /\ OldPairs(tlb, t)
    BY <1>0, <1>2, <2>3, TouchOld DEF IsMove, t
  <2>7. t \in TLB
    BY <2>6 DEF P, TLB
  <2> QED
    BY <1>0, <2>4, <2>5, <2>6, <2>7 DEF Outcome
<1>3. CASE virtual /\ va \notin Cached(tlb)
  <2>1. PICK e \in Translate(mem, va, acc) :
            res = [pa  |-> Target(mem[e[1]], e[2], va),
                   tlb |-> Put(tlb, TLBSize, va, Target(mem[e[1]], e[2], va)),
                   mem |-> [mem EXCEPT ![e[1]] = Mark(@, acc)]]
    BY <1>3 DEF Resolve, Lookup
  <2> DEFINE pa == Target(mem[e[1]], e[2], va)
             t == Put(tlb, TLBSize, va, pa)
             n == [mem EXCEPT ![e[1]] = Mark(@, acc)]
  <2>2. e \in EndsAt(mem, va)
    BY DEF Translate
  <2>3. e[1] \in 0 .. MemWords - 1 /\ mem[e[1]] \in Word
    BY <1>0, <2>2, EndsFacts
  <2>4. pa \in Nat
    BY <2>3, TargetFacts
  <2>5. n \in Memory /\ Marked(mem, n, e[1], acc)
    <3>1. Marked(mem, n, e[1], acc)
      BY DEF Marked
    <3> QED
      BY <1>0, <2>3, <3>1, MarkFacts
  <2>6. res.pa = pa /\ res.tlb = t /\ res.mem = n
    BY <2>1
  <2>7. [key |-> va, val |-> pa] \in P
    BY <2>4 DEF P
  <2> HIDE DEF pa, n
  <2>8. t \in Seq(P) /\ Len(t) \in 1 .. TLBSize
    BY <1>0, <2>7, PutFacts
  <2>9. OneNewPair(tlb, t, [key |-> va, val |-> pa])
    BY <1>0, <2>7, PutOneNew
  <2> HIDE DEF t
  <2>10. t \in TLB /\ Len(t) <= TLBSize
    BY <1>0, <2>8 DEF TLB, P
  <2>11. OneNewPair(tlb, t, NewPair(e, va))
    BY <2>9 DEF NewPair, pa
  <2> QED
    BY <2>4, <2>5, <2>6, <2>10, <2>11 DEF Outcome
<1> QED
  BY <1>1, <1>2, <1>3

(* An access leaves the TLB it used current, if a page with the right it   *)
(* asked for also grants the one the TLB vouches for, and any other TLB.   *)
LEMMA OutcomeKeeps ==
    ASSUME TypeOK, NEW tlb \in TLB, NEW va \in VA, NEW acc, NEW n, NEW t,
           Outcome(tlb, va, acc, n, t), NEW right,
           \A e \in Translate(mem, va, acc) : e \in Translate(mem, va, right),
           CurrentIn(mem, edits, tlb, right),
           NEW other \in TLB, NEW any, CurrentIn(mem, edits, other, any)
    PROVE  CurrentIn(n, edits, t, right) /\ CurrentIn(n, edits, other, any)
<1>0. mem \in Memory
  BY DEF TypeOK, Memory
<1>1. CASE n = mem /\ OldPairs(tlb, t)
  BY <1>1 DEF CurrentIn, OldPairs
<1>2. ASSUME NEW e \in Translate(mem, va, acc), Marked(mem, n, e[1], acc),
             OneNewPair(tlb, t, NewPair(e, va))
      PROVE  CurrentIn(n, edits, t, right) /\ CurrentIn(n, edits, other, any)
  <2>1. e \in EndsAt(mem, va)
    BY <1>2 DEF Translate
  <2>2. e[1] \in 0 .. MemWords - 1
    BY <1>0, <2>1, EndsFacts
  <2>3. CurrentIn(n, edits, other, any) /\ CurrentIn(n, edits, tlb, right)
    BY <1>0, <1>2, <2>2, MarkKeeps
  <2>4. EntryIn(n, edits, NewPair(e, va), right)
    <3>1. n \in Memory /\ SameWalk(mem, n, va) /\ n[e[1]].a
      BY <1>0, <1>2, <2>2, MarkFacts
    <3>2. SamePte(mem[e[1]], n[e[1]])
      BY <1>0, <2>1, <3>1, WalkFacts
    <3>3. e \in Translate(n, va, right)
      BY <1>0, <1>2, <3>1, WalkFacts
    <3>4. Target(n[e[1]], e[2], va) = Target(mem[e[1]], e[2], va)
      BY <3>2, SameTarget
    <3>5. NewPair(e, va).key = va /\ NewPair(e, va).val = Target(mem[e[1]], e[2], va)
      BY DEF NewPair
    <3> QED
      BY <3>1, <3>3, <3>4, <3>5 DEF EntryIn
  <2>5. CurrentIn(n, edits, t, right)
    BY <1>2, <2>3, <2>4 DEF CurrentIn, OneNewPair
  <2> QED
    BY <2>3, <2>5
<1> QED
  BY <1>1, <1>2 DEF Outcome

-----------------------------------------------------------------------------
(* The inductive invariant, with coherence in the form the lemmas use. *)
IInv ==
    /\ TypeOK
    /\ CurrentIn(mem, edits, itlb, "EXEC")
    /\ CurrentIn(mem, edits, dtlb, "READ")

LEMMA IInvImplies == IInv => TypeOK /\ Coherent
  BY DEF IInv, Coherent, Current, CurrentIn, EntryIn, UneditedIn, Unedited

(* An empty TLB is current. *)
LEMMA EmptyFacts ==
    ASSUME NEW m, NEW ed, NEW acc
    PROVE  <<>> \in TLB /\ Len(<<>>) = 0 /\ CurrentIn(m, ed, <<>>, acc)
<1>1. DOMAIN <<>> = {} /\ Len(<<>>) = 0
  OBVIOUS
<1>2. CurrentIn(m, ed, <<>>, acc)
  BY <1>1 DEF CurrentIn
<1> QED
  BY <1>1, <1>2 DEF TLB

LEMMA InitIInv == Init => IInv
<1> SUFFICES ASSUME Init PROVE IInv
  OBVIOUS
<1>1. mem \in [0 .. MemWords - 1 -> Word]
  BY MMUAssumption DEF Init
<1>2. itlb = <<>> /\ dtlb = <<>> /\ virtual = FALSE /\ fault = FALSE /\ edits = {}
  BY DEF Init
<1>3. TLBSize \in Nat
  BY MMUAssumption
<1>4. itlb \in TLB /\ dtlb \in TLB /\ Len(itlb) <= TLBSize /\ Len(dtlb) <= TLBSize
  BY <1>2, <1>3, EmptyFacts
<1>5. TypeOK
  BY <1>1, <1>2, <1>4 DEF TypeOK
<1> QED
  BY <1>2, <1>5, EmptyFacts DEF IInv

(* A page that may be written may be read: the walk throws on the other    *)
(* ones.                                                                   *)
LEMMA WriteReads ==
    ASSUME NEW m \in Memory, NEW va \in VA, NEW e \in Translate(m, va, "WRITE")
    PROVE  e \in Translate(m, va, "READ")
<1>1. e \in EndsAt(m, va) /\ Permits(m[e[1]], "WRITE")
  BY DEF Translate
<1>2. Valid(m[e[1]])
  BY <1>1, EndsFacts
<1>3. Permits(m[e[1]], "READ")
  BY <1>1, <1>2 DEF Permits, Valid
<1> QED
  BY <1>3 DEF Translate

(* Making room drops a pair and keeps the rest. *)
LEMMA EvictKeeps ==
    ASSUME NEW tlb \in TLB, Len(tlb) <= TLBSize, NEW m, NEW ed, NEW acc,
           CurrentIn(m, ed, tlb, acc)
    PROVE  /\ Evict(tlb, TLBSize) \in TLB
           /\ Len(Evict(tlb, TLBSize)) <= TLBSize
           /\ CurrentIn(m, ed, Evict(tlb, TLBSize), acc)
<1> DEFINE P == [key : VA, val : Nat]
           t == Evict(tlb, TLBSize)
<1>1. tlb \in Seq(P) /\ TLBSize \in Nat \ {0}
  BY MMUAssumption DEF TLB
<1> HIDE DEF P
<1>2. /\ t \in Seq(P) /\ Len(t) \in 0 .. TLBSize - 1 /\ DOMAIN t = 1 .. Len(t)
      /\ \A i \in 1 .. Len(t) : i \in 1 .. Len(tlb) /\ t[i] = tlb[i]
  BY <1>1, EvictFacts
<1> HIDE DEF t
<1>3. DOMAIN tlb = 1 .. Len(tlb)
  BY <1>1
<1>4. CurrentIn(m, ed, t, acc)
  BY <1>2, <1>3 DEF CurrentIn
<1>5. t \in TLB /\ Len(t) <= TLBSize
  BY <1>1, <1>2 DEF TLB, P
<1> QED
  BY <1>4, <1>5 DEF t

-----------------------------------------------------------------------------
(* Each step keeps the invariant: first the accesses. *)
LEMMA FetchStep ==
    ASSUME IInv, NEW va \in VA, Fetch(va)
    PROVE  IInv'
<1>0. TypeOK /\ itlb \in TLB /\ dtlb \in TLB /\ Len(itlb) <= TLBSize
  BY DEF IInv, TypeOK
<1>1. PICK res \in Resolve(itlb, va, "EXEC") :
          itlb' = res.tlb /\ mem' = res.mem /\ fault' = ~InMemory(res.pa)
  BY DEF Fetch
<1>2. /\ itlb' \in TLB /\ Len(itlb') <= TLBSize
      /\ mem' \in Memory
      /\ Outcome(itlb, va, "EXEC", mem', itlb')
  BY <1>0, <1>1, ResolveFacts
<1>3. CurrentIn(mem', edits, itlb', "EXEC") /\ CurrentIn(mem', edits, dtlb, "READ")
  BY <1>0, <1>2, OutcomeKeeps DEF IInv
<1>4. virtual' = virtual /\ dtlb' = dtlb /\ edits' = edits /\ fault' \in BOOLEAN
  BY <1>1 DEF Fetch
<1>5. TypeOK'
  BY <1>0, <1>2, <1>4 DEF TypeOK, Memory
<1> QED
  BY <1>3, <1>4, <1>5 DEF IInv

LEMMA LoadStep ==
    ASSUME IInv, NEW va \in VA, Load(va)
    PROVE  IInv'
<1>0. TypeOK /\ itlb \in TLB /\ dtlb \in TLB /\ Len(dtlb) <= TLBSize
  BY DEF IInv, TypeOK
<1>1. PICK res \in Resolve(dtlb, va, "READ") :
          dtlb' = res.tlb /\ mem' = res.mem /\ fault' = ~InMemory(res.pa)
  BY DEF Load
<1>2. /\ dtlb' \in TLB /\ Len(dtlb') <= TLBSize
      /\ mem' \in Memory
      /\ Outcome(dtlb, va, "READ", mem', dtlb')
  BY <1>0, <1>1, ResolveFacts
<1>3. CurrentIn(mem', edits, dtlb', "READ") /\ CurrentIn(mem', edits, itlb, "EXEC")
  BY <1>0, <1>2, OutcomeKeeps DEF IInv
<1>4. virtual' = virtual /\ itlb' = itlb /\ edits' = edits /\ fault' \in BOOLEAN
  BY <1>1 DEF Load
<1>5. TypeOK'
  BY <1>0, <1>2, <1>4 DEF TypeOK, Memory
<1> QED
  BY <1>3, <1>4, <1>5 DEF IInv

LEMMA StoreStep ==
    ASSUME IInv, NEW va \in VA, NEW data \in Stored, Store(va, data)
    PROVE  IInv'
<1>0. /\ TypeOK /\ itlb \in TLB /\ dtlb \in TLB /\ Len(dtlb) <= TLBSize
      /\ data \in Word /\ mem \in Memory
  BY MMUAssumption DEF IInv, TypeOK, Memory
<1>1. PICK res \in Resolve(dtlb, va, "WRITE") :
          /\ dtlb' = res.tlb
          /\ \/ /\ InMemory(res.pa)
                /\ mem' = [res.mem EXCEPT ![Cut(res.pa)] = data]
                /\ edits' = edits \union {Cut(res.pa)}
                /\ UNCHANGED fault
             \/ /\ ~InMemory(res.pa)
                /\ mem' = res.mem
                /\ fault' = TRUE
                /\ UNCHANGED edits
  BY DEF Store
<1> DEFINE n == res.mem
<1>2. /\ res.pa \in Nat
      /\ dtlb' \in TLB /\ Len(dtlb') <= TLBSize
      /\ n \in Memory
      /\ Outcome(dtlb, va, "WRITE", n, dtlb')
  BY <1>0, <1>1, ResolveFacts
<1> HIDE DEF n
<1>3. CurrentIn(n, edits, dtlb', "READ") /\ CurrentIn(n, edits, itlb, "EXEC")
  <2>1. \A e \in Translate(mem, va, "WRITE") : e \in Translate(mem, va, "READ")
    BY <1>0, WriteReads
  <2> QED
    BY <1>0, <1>2, <2>1, OutcomeKeeps DEF IInv
<1>4. virtual' = virtual /\ itlb' = itlb
  BY DEF Store
<1>5. CASE /\ InMemory(res.pa)
           /\ mem' = [n EXCEPT ![Cut(res.pa)] = data]
           /\ edits' = edits \union {Cut(res.pa)}
           /\ UNCHANGED fault
  <2>1. Cut(res.pa) \in 0 .. MemWords - 1
    BY <1>2, <1>5, CutFacts
  <2>2. /\ mem' \in Memory
        /\ CurrentIn(mem', edits', dtlb', "READ")
        /\ CurrentIn(mem', edits', itlb, "EXEC")
    <3>1. Overwritten(n, mem', Cut(res.pa), data)
      BY <1>5 DEF Overwritten
    <3> QED
      BY <1>0, <1>2, <1>3, <1>5, <2>1, <3>1, StoreKeeps
  <2>3. edits' \subseteq 0 .. MemWords - 1
    BY <1>0, <1>5, <2>1 DEF TypeOK
  <2>4. TypeOK'
    BY <1>0, <1>2, <1>4, <1>5, <2>2, <2>3 DEF TypeOK, Memory
  <2> QED
    BY <1>4, <2>2, <2>4 DEF IInv
<1>6. CASE ~InMemory(res.pa) /\ mem' = n /\ fault' = TRUE /\ UNCHANGED edits
  <2>1. TypeOK'
    BY <1>0, <1>2, <1>4, <1>6 DEF TypeOK, Memory
  <2> QED
    BY <1>3, <1>4, <1>6, <2>1 DEF IInv
<1> QED
  BY <1>1, <1>5, <1>6 DEF n

(* Then the accesses that throw, the switch to virtual mode and the flush. *)
LEMMA FaultStep ==
    ASSUME IInv, NEW va \in VA, NEW acc, FetchFault(va) \/ DataFault(va, acc)
    PROVE  IInv'
<1>0. /\ TypeOK /\ itlb \in TLB /\ dtlb \in TLB
      /\ Len(itlb) <= TLBSize /\ Len(dtlb) <= TLBSize
  BY DEF IInv, TypeOK
<1>1. CASE FetchFault(va)
  <2>1. /\ itlb' = Evict(itlb, TLBSize) /\ fault' = TRUE
        /\ mem' = mem /\ virtual' = virtual /\ dtlb' = dtlb /\ edits' = edits
    BY <1>1 DEF FetchFault
  <2>2. /\ itlb' \in TLB /\ Len(itlb') <= TLBSize
        /\ CurrentIn(mem, edits, itlb', "EXEC")
    BY <1>0, <2>1, EvictKeeps DEF IInv
  <2>3. TypeOK'
    BY <1>0, <2>1, <2>2 DEF TypeOK
  <2> QED
    BY <2>1, <2>2, <2>3 DEF IInv
<1>2. CASE DataFault(va, acc)
  <2>1. /\ dtlb' = Evict(dtlb, TLBSize) /\ fault' = TRUE
        /\ mem' = mem /\ virtual' = virtual /\ itlb' = itlb /\ edits' = edits
    BY <1>2 DEF DataFault
  <2>2. /\ dtlb' \in TLB /\ Len(dtlb') <= TLBSize
        /\ CurrentIn(mem, edits, dtlb', "READ")
    BY <1>0, <2>1, EvictKeeps DEF IInv
  <2>3. TypeOK'
    BY <1>0, <2>1, <2>2 DEF TypeOK
  <2> QED
    BY <2>1, <2>2, <2>3 DEF IInv
<1> QED
  BY <1>1, <1>2

LEMMA CSRRWStep == ASSUME IInv, CSRRW PROVE IInv'
<1>1. /\ virtual' = TRUE /\ mem' = mem /\ itlb' = itlb /\ dtlb' = dtlb
      /\ fault' = fault /\ edits' = edits
  BY DEF CSRRW
<1>2. TypeOK'
  BY <1>1 DEF IInv, TypeOK
<1> QED
  BY <1>1, <1>2 DEF IInv

LEMMA FlushStep == ASSUME IInv, Flush PROVE IInv'
<1>1. /\ virtual' = virtual /\ mem' = mem /\ itlb' = <<>> /\ dtlb' = <<>>
      /\ fault' = fault /\ edits' = {}
  BY DEF Flush
<1>2. TLBSize \in Nat
  BY MMUAssumption
<1>3. TypeOK'
  BY <1>1, <1>2, EmptyFacts DEF IInv, TypeOK
<1> QED
  BY <1>1, <1>3, EmptyFacts DEF IInv

LEMMA NextIInv == IInv /\ [Next]_vars => IInv'
<1> SUFFICES ASSUME IInv, [Next]_vars PROVE IInv'
  OBVIOUS
<1>0. FetchVA \subseteq VA /\ LoadVA \subseteq VA /\ StoreVA \subseteq VA
  BY DEF VA
<1>1. CASE UNCHANGED vars
  BY <1>1 DEF vars, IInv, TypeOK
<1>2. CASE CSRRW
  BY <1>2, CSRRWStep
<1>3. CASE Flush
  BY <1>3, FlushStep
<1>4. ASSUME NEW va \in FetchVA, Fetch(va) \/ FetchFault(va)
      PROVE  IInv'
  BY <1>0, <1>4, FetchStep, FaultStep
<1>5. ASSUME NEW va \in LoadVA, Load(va) \/ DataFault(va, "READ")
      PROVE  IInv'
  BY <1>0, <1>5, LoadStep, FaultStep
<1>6. ASSUME NEW va \in StoreVA, NEW data \in Stored, Store(va, data)
      PROVE  IInv'
  BY <1>0, <1>6, StoreStep
<1>7. ASSUME NEW va \in StoreVA, DataFault(va, "WRITE")
      PROVE  IInv'
  BY <1>0, <1>7, FaultStep
<1> QED
  BY <1>1, <1>2, <1>3, <1>4, <1>5, <1>6, <1>7 DEF Next

LEMMA IInvHolds == Spec => []IInv
<1> QED
  BY InitIInv, NextIInv, PTL DEF Spec

(* For every memory, page table and guest: memory, TLBs and flags keep     *)
(* their types, and no access leaves the bounds of memory.                 *)
THEOREM TypeCorrect == Spec => []TypeOK
<1>1. IInv => TypeOK
  BY DEF IInv
<1> QED
  BY IInvHolds, <1>1, PTL

(* For every memory, page table and guest: a TLB entry disagrees with the  *)
(* page table only after the guest stored to the entries behind it and     *)
(* before the next FENCE.                                                  *)
THEOREM TLBsCoherent == Spec => []Coherent
<1>1. IInv => Coherent
  BY IInvImplies
<1> QED
  BY IInvHolds, <1>1, PTL

-----------------------------------------------------------------------------
(* The memory an access leaves behind differs from the old one at most in  *)
(* the entry the walk ended at.                                            *)
LEMMA OutcomeMarks ==
    ASSUME TypeOK, NEW tlb, NEW va \in VA, NEW acc, NEW n, NEW t,
           Outcome(tlb, va, acc, n, t), NEW p \in DOMAIN mem, n[p] # mem[p]
    PROVE  (\E e \in EndsAt(mem, va) : p = e[1]) /\ n[p] = Mark(mem[p], acc)
<1>0. mem \in Memory
  BY DEF TypeOK, Memory
<1>1. PICK e \in Translate(mem, va, acc) : Marked(mem, n, e[1], acc)
  BY DEF Outcome
<1>2. e \in EndsAt(mem, va)
  BY DEF Translate
<1>3. p = e[1] /\ n[p] = Mark(mem[p], acc)
  BY <1>0, <1>1 DEF Marked, Memory
<1> QED
  BY <1>2, <1>3

(* Reading sets the access bit and leaves the dirty bit. *)
LEMMA ReadMark ==
    ASSUME NEW pte \in Word, NEW acc, acc # "WRITE"
    PROVE  Mark(pte, acc) = [pte EXCEPT !.a = TRUE]
<1>1. pte.d \in BOOLEAN
  BY DEF Word
<1>2. (pte.d \/ acc = "WRITE") = pte.d
  BY <1>1
<1> QED
  BY <1>2 DEF Mark, Word

LEMMA MarksOnly == TypeOK => OnlyMarks
<1> SUFFICES ASSUME TypeOK, NEW p \in Changed, NEW va \in VA
             PROVE  LET used == \E e \in EndsAt(mem, va) : p = e[1]
                    IN  /\ Fetch(va) \/ Load(va) =>
                              used /\ mem'[p] = [mem[p] EXCEPT !.a = TRUE]
                        /\ p \notin edits' =>
                              \A data \in Stored : Store(va, data) =>
                                  used /\ mem'[p] = Mark(mem[p], "WRITE")
  BY DEF OnlyMarks
<1> DEFINE used == \E e \in EndsAt(mem, va) : p = e[1]
<1>0. /\ p \in DOMAIN mem /\ mem'[p] # mem[p] /\ mem[p] \in Word
      /\ itlb \in TLB /\ Len(itlb) <= TLBSize
      /\ dtlb \in TLB /\ Len(dtlb) <= TLBSize
  BY DEF Changed, TypeOK
<1> HIDE DEF used
<1>1. ASSUME Fetch(va)
      PROVE  used /\ mem'[p] = [mem[p] EXCEPT !.a = TRUE]
  <2>1. PICK res \in Resolve(itlb, va, "EXEC") : mem' = res.mem
    BY <1>1 DEF Fetch
  <2>2. Outcome(itlb, va, "EXEC", mem', res.tlb)
    BY <1>0, <2>1, ResolveFacts
  <2>3. used /\ mem'[p] = Mark(mem[p], "EXEC")
    BY <1>0, <2>2, OutcomeMarks DEF used
  <2> QED
    BY <1>0, <2>3, ReadMark
<1>2. ASSUME Load(va)
      PROVE  used /\ mem'[p] = [mem[p] EXCEPT !.a = TRUE]
  <2>1. PICK res \in Resolve(dtlb, va, "READ") : mem' = res.mem
    BY <1>2 DEF Load
  <2>2. Outcome(dtlb, va, "READ", mem', res.tlb)
    BY <1>0, <2>1, ResolveFacts
  <2>3. used /\ mem'[p] = Mark(mem[p], "READ")
    BY <1>0, <2>2, OutcomeMarks DEF used
  <2> QED
    BY <1>0, <2>3, ReadMark
<1>3. ASSUME p \notin edits', NEW data \in Stored, Store(va, data)
      PROVE  used /\ mem'[p] = Mark(mem[p], "WRITE")
  <2>1. PICK res \in Resolve(dtlb, va, "WRITE") :
            \/ /\ mem' = [res.mem EXCEPT ![Cut(res.pa)] = data]
               /\ edits' = edits \union {Cut(res.pa)}
            \/ mem' = res.mem
    BY <1>3 DEF Store
  <2>2. Outcome(dtlb, va, "WRITE", res.mem, res.tlb) /\ res.mem \in Memory
    BY <1>0, ResolveFacts
  <2>3. mem'[p] = res.mem[p]
    <3>1. CASE mem' = res.mem
      BY <3>1
    <3>2. CASE /\ mem' = [res.mem EXCEPT ![Cut(res.pa)] = data]
               /\ edits' = edits \union {Cut(res.pa)}
      <4>1. p # Cut(res.pa)
        BY <1>3, <3>2
      <4>2. p \in DOMAIN res.mem
        BY <1>0, <2>2 DEF TypeOK, Memory
      <4> QED
        BY <3>2, <4>1, <4>2
    <3> QED
      BY <2>1, <3>1, <3>2
  <2>4. used /\ res.mem[p] = Mark(mem[p], "WRITE")
    <3> DEFINE n == res.mem
    <3>1. n[p] # mem[p]
      BY <1>0, <2>3
    <3>2. Outcome(dtlb, va, "WRITE", n, res.tlb)
      BY <2>2
    <3> HIDE DEF n
    <3>3. used /\ n[p] = Mark(mem[p], "WRITE")
      BY <1>0, <3>1, <3>2, OutcomeMarks DEF used
    <3> QED
      BY <3>3 DEF n
  <2> QED
    BY <2>3, <2>4
<1> QED
  BY <1>1, <1>2, <1>3 DEF used

(* For every memory, page table and guest: an access changes nothing in    *)
(* memory but the word it stores and the access and dirty bits of the leaf *)
(* entry its walk ended at.                                                *)
THEOREM AccessesOnlyMark == Spec => SideEffects
<1>1. TypeOK => [OnlyMarks]_vars
  BY MarksOnly
<1> QED
  BY TypeCorrect, <1>1, PTL DEF Spec, SideEffects

-----------------------------------------------------------------------------
(* Where 32-bit addresses suffice, the walk looks where Sv32 says. *)
LEMMA RootFacts ==
    ASSUME NEW va \in VA
    PROVE  /\ RootPPN * Radix + VPN1(va) \in Nat
           /\ Entry1(va) = RootPPN * Radix + VPN1(va)
           /\ InMemory(Entry1(va)) <=> Entry1(va) \in 0 .. MemWords - 2
<1> DEFINE r == RootPPN
           d == VPN1(va)
<1>1. /\ r \in 0 .. Radix * Radix - 1 /\ Radix \in Nat \ {0, 1} /\ d \in 0 .. Radix - 1
      /\ MemWords \in Nat
  BY MMUAssumption, SpanFacts, DigitFacts
<1> HIDE DEF r, d
<1>2. r * Radix + d \in 0 .. Radix * Radix * Radix - 1
  BY <1>1
<1>3. \A n \in Nat \ {0} : \A y \in 0 .. n - 1 : y % n = y
  OBVIOUS
<1>4. Span \in Nat \ {0} /\ r * Radix + d \in 0 .. Span - 1
  BY <1>2, SpanFacts DEF Span
<1> DEFINE y == r * Radix + d
<1>5. Cut(y) = y /\ Cut(Cut(y)) = y
  BY <1>3, <1>4 DEF Cut
<1>6. y \in Nat
  BY <1>4
<1> HIDE DEF y
<1>7. InMemory(y) <=> y \in 0 .. MemWords - 2
  BY <1>1, <1>5, <1>6 DEF InMemory
<1>8. Entry1(va) = Cut(y)
  BY DEF Entry1, y, r, d
<1> QED
  BY <1>5, <1>6, <1>7, <1>8 DEF y, r, d

LEMMA TableFacts ==
    ASSUME NEW m \in Memory, NEW va \in VA, InMemory(Entry1(va)),
           m[Entry1(va)].ppn < Radix * Radix
    PROVE  /\ m[Entry1(va)].ppn * Radix + VPN0(va) \in Nat
           /\ Entry0(m, va) = m[Entry1(va)].ppn * Radix + VPN0(va)
           /\ InMemory(Entry0(m, va)) <=> Entry0(m, va) \in 0 .. MemWords - 2
<1> DEFINE r == m[Entry1(va)].ppn
           d == VPN0(va)
<1>1. /\ Radix \in Nat \ {0, 1} /\ d \in 0 .. Radix - 1 /\ MemWords \in Nat
  BY SpanFacts, DigitFacts
<1>2. r \in Nat
  <2>1. m[Entry1(va)] \in Word
    BY EntryFacts DEF Memory
  <2> QED
    BY <2>1 DEF Word
<1>3. r < Radix * Radix
  OBVIOUS
<1> HIDE DEF r, d
<1>4. r * Radix + d \in 0 .. Radix * Radix * Radix - 1
  <2>1. r \in 0 .. Radix * Radix - 1
    BY <1>1, <1>2, <1>3
  <2> QED
    BY <1>1, <2>1
<1>5. \A n \in Nat \ {0} : \A y \in 0 .. n - 1 : y % n = y
  OBVIOUS
<1>6. Span \in Nat \ {0} /\ r * Radix + d \in 0 .. Span - 1
  BY <1>4, SpanFacts DEF Span
<1> DEFINE y == r * Radix + d
<1>7. Cut(y) = y /\ Cut(Cut(y)) = y
  BY <1>5, <1>6 DEF Cut
<1>8. y \in Nat
  BY <1>6
<1> HIDE DEF y
<1>9. InMemory(y) <=> y \in 0 .. MemWords - 2
  BY <1>1, <1>7, <1>8 DEF InMemory
<1>10. Entry0(m, va) = Cut(y)
  BY DEF Entry0, y, r, d
<1> QED
  BY <1>7, <1>8, <1>9, <1>10 DEF y, r, d

(* A page number whose lowest bit is clear is kept whole. *)
LEMMA EvenTarget ==
    ASSUME NEW pte \in Word, NEW va \in VA
    PROVE  /\ pte.ppn % Radix = 0 /\ DropLowBit(pte.ppn \div Radix) = pte.ppn \div Radix =>
                 Target(pte, 1, va) = pte.ppn * Radix + (va % (Radix * Radix))
           /\ DropLowBit(pte.ppn) = pte.ppn =>
                 Target(pte, 0, va) = pte.ppn * Radix + (va % Radix)
<1>1. pte.ppn \in Nat /\ Radix \in Nat \ {0, 1}
  BY SpanFacts DEF Word
<1>2. \A n \in Nat : n % Radix = 0 => (n \div Radix) * Radix = n
  BY <1>1
<1>3. pte.ppn % Radix = 0 => (pte.ppn \div Radix) * Radix * Radix = pte.ppn * Radix
  BY <1>1, <1>2
<1> QED
  BY <1>3 DEF Target

(* An access that is permitted is one to a leaf. *)
LEMMA PermittedLeaf ==
    ASSUME NEW pte, NEW acc, Valid(pte), Permits(pte, acc)
    PROVE  Leaf(pte)
  BY DEF Valid, Permits, Leaf

LEMMA AgreesFacts ==
    ASSUME NEW m \in Memory, NEW va \in VA, NEW acc, FramesEven(m, va)
    PROVE  {Target(m[e[1]], e[2], va) : e \in Translate(m, va, acc)} = Sv32(m, va, acc)
<1> DEFINE root == Entry1(va)
           table == Entry0(m, va)
           found == {Target(m[e[1]], e[2], va) : e \in Translate(m, va, acc)}
           leaf(p) == p \in 0 .. MemWords - 2 /\ Valid(m[p]) /\ Permits(m[p], acc)
           big == m[root].ppn * Radix + (va % (Radix * Radix))
           small == m[table].ppn * Radix + (va % Radix)
           isBig == leaf(root) /\ m[root].ppn % Radix = 0
           isSmall == /\ root \in 0 .. MemWords - 2 /\ Valid(m[root]) /\ ~Leaf(m[root])
                      /\ leaf(table)
<1>1. root = RootPPN * Radix + VPN1(va) /\ (InMemory(root) <=> root \in 0 .. MemWords - 2)
  BY RootFacts
<1>2. InMemory(root) =>
         /\ table = m[root].ppn * Radix + VPN0(va)
         /\ InMemory(table) <=> table \in 0 .. MemWords - 2
  BY TableFacts DEF FramesEven
<1>3. Sv32(m, va, acc) = {x \in {big} : isBig} \union {x \in {small} : isSmall}
  <2> HIDE DEF root, table
  <2>1. CASE ~InMemory(root)
    <3>1. root \notin 0 .. MemWords - 2
      BY <1>1, <2>1
    <3> QED
      BY <1>1, <3>1 DEF Sv32
  <2>2. CASE InMemory(root)
    BY <1>1, <1>2, <2>2 DEF Sv32
  <2> QED
    BY <2>1, <2>2
<1>4. /\ <<root, 1>> \in Translate(m, va, acc) <=> isBig
      /\ <<table, 0>> \in Translate(m, va, acc) <=> isSmall
      /\ \A e \in Translate(m, va, acc) : e = <<root, 1>> \/ e = <<table, 0>>
  <2>1. 1 # 0
    OBVIOUS
  <2>2. leaf(root) => Leaf(m[root])
    BY PermittedLeaf
  <2>3. leaf(table) => Leaf(m[table])
    BY PermittedLeaf
  <2> HIDE DEF root, table
  <2>4. \A e \in Translate(m, va, acc) : e = <<root, 1>> \/ e = <<table, 0>>
    BY DEF Translate, EndsAt, root, table
  <2>5. <<root, 1>> \in Translate(m, va, acc) <=>
           /\ InMemory(root) /\ Valid(m[root]) /\ Leaf(m[root])
           /\ Permits(m[root], acc) /\ m[root].ppn % Radix = 0
    BY DEF Translate, EndsAt, root
  <2>6. <<table, 0>> \in Translate(m, va, acc) <=>
           /\ InMemory(root) /\ Valid(m[root]) /\ ~Leaf(m[root])
           /\ InMemory(table) /\ Valid(m[table]) /\ Leaf(m[table])
           /\ Permits(m[table], acc)
    BY DEF Translate, EndsAt, root, table
  <2> QED
    BY <1>1, <1>2, <2>2, <2>3, <2>4, <2>5, <2>6
<1>5. isBig => Target(m[root], 1, va) = big
  <2> SUFFICES ASSUME isBig PROVE Target(m[root], 1, va) = big
    OBVIOUS
  <2>1. <<root, 1>> \in EndsAt(m, va)
    BY <1>4 DEF Translate
  <2>2. m[root] \in Word
    BY <2>1, EndsFacts
  <2>3. DropLowBit(m[root].ppn \div Radix) = m[root].ppn \div Radix
    BY <2>1 DEF FramesEven
  <2> QED
    BY <2>2, <2>3, EvenTarget
<1>6. isSmall => Target(m[table], 0, va) = small
  <2> SUFFICES ASSUME isSmall PROVE Target(m[table], 0, va) = small
    OBVIOUS
  <2>1. <<table, 0>> \in EndsAt(m, va)
    BY <1>4 DEF Translate
  <2>2. m[table] \in Word
    BY <2>1, EndsFacts
  <2>3. DropLowBit(m[table].ppn) = m[table].ppn
    BY <2>1 DEF FramesEven
  <2> QED
    BY <2>2, <2>3, EvenTarget
<1> HIDE DEF root, table, isBig, isSmall, big, small
<1>7. found = {x \in {big} : isBig} \union {x \in {small} : isSmall}
  <2>1. ASSUME NEW x \in found
        PROVE  (x = big /\ isBig) \/ (x = small /\ isSmall)
    BY <1>4, <1>5, <1>6
  <2>2. ASSUME isBig PROVE big \in found
    <3>1. <<root, 1>> \in Translate(m, va, acc)
      BY <1>4, <2>2
    <3> QED
      BY <1>5, <2>2, <3>1
  <2>3. ASSUME isSmall PROVE small \in found
    <3>1. <<table, 0>> \in Translate(m, va, acc)
      BY <1>4, <2>3
    <3> QED
      BY <1>6, <2>3, <3>1
  <2> HIDE DEF found
  <2> QED
    BY <2>1, <2>2, <2>3
<1> QED
  BY <1>3, <1>7

(* For every memory, page table and guest: on tables whose frames have     *)
(* 32-bit addresses and even numbers, translate() finds the address that   *)
(* Sv32 defines and throws when there is none.                             *)
THEOREM TranslatesAsSv32 == Spec => []AgreesWithSv32
<1>1. TypeOK => AgreesWithSv32
  BY AgreesFacts DEF TypeOK, Memory, AgreesWithSv32
<1> QED
  BY TypeCorrect, <1>1, PTL
=============================================================================
