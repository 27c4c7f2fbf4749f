-------------------------------- MODULE MMU --------------------------------
(***************************************************************************)
(* The MMU of sim/mmu.h: physical memory, the two-level page-table walk    *)
(* translate(), and the instruction and data TLBs in front of it.          *)
(*                                                                         *)
(* Addresses count 32-bit words.  Radix is the number of words in a page,  *)
(* of entries in a page table and of pages in a superpage (1024 in the     *)
(* code), so a virtual address has two page-number digits and an offset in *)
(* base Radix.  Every word of memory is the page-table entry its bits      *)
(* spell: tables and data live in the same memory.                         *)
(***************************************************************************)
EXTENDS Integers, LRUList

CONSTANTS
    Radix,      \* 1024
    MemWords,   \* pmem_size_ in words
    RootPPN,    \* the PPN field of satp, which no instruction changes (0x17)
    TLBSize,    \* itlb_size and dtlb_size
    FetchVA,    \* the addresses the guest executes from,
    LoadVA,     \* loads from
    StoreVA,    \* and stores to
    Stored,     \* the words the guest stores
    InitMem     \* memory as the loader leaves it

Word == [v : BOOLEAN, r : BOOLEAN, w : BOOLEAN, x : BOOLEAN,
         a : BOOLEAN, d : BOOLEAN, ppn : Nat]

Span == Radix * Radix * Radix       \* 2^32 bytes

VA == FetchVA \union LoadVA \union StoreVA

ASSUME MMUAssumption ==
    /\ Radix \in Nat \ {0, 1}
    /\ MemWords \in 1 .. Span
    /\ RootPPN \in 0 .. Radix * Radix - 1
    /\ TLBSize \in Nat \ {0}
    /\ VA \subseteq 0 .. Span - 1
    /\ Stored \subseteq Word
    /\ InitMem \in [0 .. MemWords - 1 -> Word]

VARIABLES
    mem,        \* pmem_
    virtual,    \* isVirtualAddressing(): the mode bit of satp
    itlb, dtlb, \* instTLB_, dataTLB_
    fault,      \* a SimException has left the MMU: the simulation is over
    edits       \* history: the words stored to since the last flush

vars == <<mem, virtual, itlb, dtlb, fault, edits>>

-----------------------------------------------------------------------------
(* getMemPtr: the address is cut to 32 bits; the bound check keeps out one  *)
(* word more than it has to.                                                *)
Cut(pa) == pa % Span
InMemory(pa) == Cut(pa) + 1 < MemWords

(* The digits of a virtual address. *)
VPN1(va) == va \div (Radix * Radix)
VPN0(va) == (va \div Radix) % Radix

(* Where the walk looks at level 1 and, below a pointer entry, at level 0. *)
Entry1(va) == Cut(RootPPN * Radix + VPN1(va))
Entry0(m, va) == Cut(m[Entry1(va)].ppn * Radix + VPN0(va))

Valid(pte) == pte.v /\ ~(pte.w /\ ~pte.r)
Leaf(pte) == pte.r \/ pte.x

(* The leaf entry that the loop of translate() ends at, with its level: at  *)
(* most one, none when the loop throws.                                     *)
EndsAt(m, va) ==
    {e \in {<<Entry1(va), 1>>} :
        InMemory(e[1]) /\ Valid(m[e[1]]) /\ Leaf(m[e[1]])}
    \union
    {e \in {<<Entry0(m, va), 0>>} :
        /\ InMemory(Entry1(va)) /\ Valid(m[Entry1(va)]) /\ ~Leaf(m[Entry1(va)])
        /\ InMemory(e[1]) /\ Valid(m[e[1]]) /\ Leaf(m[e[1]])}

Permits(pte, acc) ==
    \/ acc = "READ" /\ pte.r
    \/ acc = "WRITE" /\ pte.w
    \/ acc = "EXEC" /\ pte.x

(* The masks ~1 << 12 and ~1 << 22 also clear the lowest bit of the page    *)
(* number they keep.                                                        *)
DropLowBit(n) == n - (n % 2)

(* Mutant: the offset within a superpage is taken within a page. *)
PageOffsetOnly(pte, level, va) ==
    IF level = 1
    THEN DropLowBit(pte.ppn \div Radix) * Radix * Radix + (va % Radix)
    ELSE DropLowBit(pte.ppn) * Radix + (va % Radix)

Target(pte, level, va) ==
    IF level = 1
    THEN DropLowBit(pte.ppn \div Radix) * Radix * Radix + (va % (Radix * Radix))
    ELSE DropLowBit(pte.ppn) * Radix + (va % Radix)

(* Mutant: a misaligned superpage is accepted. *)
AnyAlignment(m, va, acc) == {e \in EndsAt(m, va) : Permits(m[e[1]], acc)}

(* translate() without its side effect: the leaf entries that pass the      *)
(* permission check and the superpage alignment check (at most one).        *)
Translate(m, va, acc) ==
    {e \in EndsAt(m, va) :
        Permits(m[e[1]], acc) /\ (e[2] = 1 => m[e[1]].ppn % Radix = 0)}

(* Mutant: reading marks the page dirty too. *)
MarkBoth(pte, acc) == [pte EXCEPT !.a = TRUE, !.d = TRUE]

(* The access and dirty bits translate() sets in the entry it ends at. *)
Mark(pte, acc) == [pte EXCEPT !.a = TRUE, !.d = @ \/ acc = "WRITE"]

-----------------------------------------------------------------------------
Init ==
    /\ mem = InitMem
    /\ virtual = FALSE
    /\ itlb = <<>>
    /\ dtlb = <<>>
    /\ fault = FALSE
    /\ edits = {}

(* TLB.insert: the physical address found, with the TLB and the memory      *)
(* after it; nothing when the walk throws.                                  *)
Lookup(tlb, va, acc) ==
    IF va \in Cached(tlb)
    THEN {[pa |-> ValueOf(tlb, va), tlb |-> Touch(tlb, va), mem |-> mem]}
    ELSE {LET pa == Target(mem[e[1]], e[2], va)
          IN  [pa  |-> pa,
               tlb |-> Put(tlb, TLBSize, va, pa),
               mem |-> [mem EXCEPT ![e[1]] = Mark(@, acc)]]
            : e \in Translate(mem, va, acc)}

(* Mutant: the TLB is asked in physical mode too, where translate() returns *)
(* the address itself.                                                      *)
AlwaysLookup(tlb, va, acc) ==
    IF virtual \/ va \in Cached(tlb)
    THEN Lookup(tlb, va, acc)
    ELSE {[pa |-> va, tlb |-> Put(tlb, TLBSize, va, va), mem |-> mem]}

(* The first half of load() and store(). *)
Resolve(tlb, va, acc) ==
    IF virtual THEN Lookup(tlb, va, acc) ELSE {[pa |-> va, tlb |-> tlb, mem |-> mem]}

(* load<T>(va, true), from Trace's constructor by way of getCmd. *)
Fetch(va) ==
    /\ ~fault
    /\ \E res \in Resolve(itlb, va, "EXEC") :
          /\ itlb' = res.tlb
          /\ mem' = res.mem
          /\ fault' = ~InMemory(res.pa)
    /\ UNCHANGED <<virtual, dtlb, edits>>

FetchFault(va) ==
    /\ ~fault
    /\ Resolve(itlb, va, "EXEC") = {}
    /\ itlb' = Evict(itlb, TLBSize)
    /\ fault' = TRUE
    /\ UNCHANGED <<mem, virtual, dtlb, edits>>

(* load<T>(va, false), from the load instructions and the system calls. *)
Load(va) ==
    /\ ~fault
    /\ \E res \in Resolve(dtlb, va, "READ") :
          /\ dtlb' = res.tlb
          /\ mem' = res.mem
          /\ fault' = ~InMemory(res.pa)
    /\ UNCHANGED <<virtual, itlb, edits>>

(* store(va, data), from the store instructions and the system calls. *)
Store(va, data) ==
    /\ ~fault
    /\ \E res \in Resolve(dtlb, va, "WRITE") :
          /\ dtlb' = res.tlb
          /\ \/ /\ InMemory(res.pa)
                /\ mem' = [res.mem EXCEPT ![Cut(res.pa)] = data]
                /\ edits' = edits \union {Cut(res.pa)}
                /\ UNCHANGED fault
             \/ /\ ~InMemory(res.pa)
                /\ mem' = res.mem
                /\ fault' = TRUE
                /\ UNCHANGED edits
    /\ UNCHANGED <<virtual, itlb>>

DataFault(va, acc) ==
    /\ ~fault
    /\ Resolve(dtlb, va, acc) = {}
    /\ dtlb' = Evict(dtlb, TLBSize)
    /\ fault' = TRUE
    /\ UNCHANGED <<mem, virtual, itlb, edits>>

(* ExecCSRRW: satp |= rs1 & 0x80000000.  Neither TLB is flushed. *)
CSRRW ==
    /\ ~fault
    /\ virtual' = TRUE
    /\ UNCHANGED <<mem, itlb, dtlb, fault, edits>>

(* Mutant: only the data TLB is cleared. *)
FlushDataOnly ==
    /\ ~fault
    /\ dtlb' = <<>>
    /\ edits' = {}
    /\ UNCHANGED <<mem, virtual, itlb, fault>>

(* MMU::flush, from ExecFENCE. *)
Flush ==
    /\ ~fault
    /\ itlb' = <<>>
    /\ dtlb' = <<>>
    /\ edits' = {}
    /\ UNCHANGED <<mem, virtual, fault>>

Next ==
    \/ CSRRW
    \/ Flush
    \/ \E va \in FetchVA : Fetch(va) \/ FetchFault(va)
    \/ \E va \in LoadVA : Load(va) \/ DataFault(va, "READ")
    \/ \E va \in StoreVA, data \in Stored : Store(va, data)
    \/ \E va \in StoreVA : DataFault(va, "WRITE")

Spec == Init /\ [][Next]_vars

-----------------------------------------------------------------------------
(* Memory, TLBs and flags have the types of the C++ members. *)
TLB == Seq([key : VA, val : Nat])

TypeOK ==
    /\ mem \in [0 .. MemWords - 1 -> Word]
    /\ virtual \in BOOLEAN
    /\ itlb \in TLB /\ Len(itlb) <= TLBSize
    /\ dtlb \in TLB /\ Len(dtlb) <= TLBSize
    /\ fault \in BOOLEAN
    /\ edits \subseteq 0 .. MemWords - 1

(* The entries the walk for va reads have not been stored to since the last *)
(* flush.                                                                   *)
Unedited(va) ==
    /\ Entry1(va) \notin edits
    /\ InMemory(Entry1(va)) /\ ~Leaf(mem[Entry1(va)]) => Entry0(mem, va) \notin edits

(* A cached translation is the one the page table gives now, for a page     *)
(* that permits the access and is marked accessed.                          *)
Current(tlb, acc) ==
    \A i \in DOMAIN tlb : Unedited(tlb[i].key) =>
        \E e \in Translate(mem, tlb[i].key, acc) :
            /\ mem[e[1]].a
            /\ tlb[i].val = Target(mem[e[1]], e[2], tlb[i].key)

(* No stale translation: whatever was loaded, stored and switched, a TLB    *)
(* entry can disagree with the page table only if the guest stored to the   *)
(* table entries behind it after the last FENCE.  Data accesses are only    *)
(* sure to be readable: a store that hits may find a page it may not write. *)
Coherent == Current(itlb, "EXEC") /\ Current(dtlb, "READ")

(* Translation as the privileged architecture defines Sv32: the physical    *)
(* addresses (at most one) that va has for an access.                       *)
Sv32(m, va, acc) ==
    LET ptr(p) == p \in 0 .. MemWords - 2 /\ Valid(m[p]) /\ ~Leaf(m[p])
        leaf(p) == p \in 0 .. MemWords - 2 /\ Valid(m[p]) /\ Permits(m[p], acc)
        root == RootPPN * Radix + VPN1(va)
        table == m[root].ppn * Radix + VPN0(va)
    IN  {m[root].ppn * Radix + (va % (Radix * Radix)) :
            x \in {y \in {root} : leaf(y) /\ m[y].ppn % Radix = 0}}
        \union
        {m[table].ppn * Radix + (va % Radix) :
            x \in {y \in {root} : ptr(y) /\ leaf(table)}}

(* A page table whose frames translate() can represent: page numbers fit in *)
(* 32-bit addresses, and the page or superpage numbers of leaves are even.  *)
FramesEven(m, va) ==
    /\ InMemory(Entry1(va)) => m[Entry1(va)].ppn < Radix * Radix
    /\ \A e \in EndsAt(m, va) :
          LET frame == IF e[2] = 1 THEN m[e[1]].ppn \div Radix ELSE m[e[1]].ppn
          IN  DropLowBit(frame) = frame

(* On such tables translate() finds the address the architecture defines,   *)
(* and throws exactly when there is none, for every table the guest builds. *)
AgreesWithSv32 ==
    \A va \in VA, acc \in {"READ", "WRITE", "EXEC"} : FramesEven(mem, va) =>
        {Target(mem[e[1]], e[2], va) : e \in Translate(mem, va, acc)} = Sv32(mem, va, acc)

(* What an access may change in memory besides the word a store names: a    *)
(* fetch or a load sets the access bit of the leaf entry it used, a store   *)
(* also its dirty bit, and nothing else.                                    *)
Changed == {p \in DOMAIN mem : mem'[p] # mem[p]}

OnlyMarks ==
    \A p \in Changed, va \in VA :
        LET used == \E e \in EndsAt(mem, va) : p = e[1]
        IN  /\ Fetch(va) \/ Load(va) => used /\ mem'[p] = [mem[p] EXCEPT !.a = TRUE]
            /\ p \notin edits' =>
                  \A data \in Stored : Store(va, data) =>
                      used /\ mem'[p] = Mark(mem[p], "WRITE")

SideEffects == [][OnlyMarks]_vars

-----------------------------------------------------------------------------
(* README, "simulator with MMU and JIT".  A store in virtual mode writes the word   *)
(* that Sv32 names, if the page may be written, and leaves the page marked  *)
(* dirty ("Dirty bit" in translate()).  Two things are in the way: the data *)
(* TLB answers a store with the entry a load made, without write check and  *)
(* dirty bit; and odd page numbers lose their lowest bit.                   *)
StoreAsSv32 ==
    \A va \in VA, data \in Stored :
        virtual /\ Store(va, data) /\ Unedited(va) =>
            /\ ~fault' => \E pa \in Sv32(mem, va, "WRITE") : mem'[Cut(pa)] = data
            /\ Unedited(va)' => \A e \in EndsAt(mem', va) : mem'[e[1]].d

StoresFollowSv32 == [][StoreAsSv32]_vars
=============================================================================
