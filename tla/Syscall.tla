------------------------------ MODULE Syscall ------------------------------
(***************************************************************************)
(* The system calls of the guest, syscall.cpp, byte by byte: each access   *)
(* to guest memory may end the simulation, with what went before in place. *)
(* Between the calls the guest runs; of what it does there, this module    *)
(* keeps the registers of the next call and the switch to virtual          *)
(* addresses.  Instructions are the subject of Sim, page tables of MMU.    *)
(***************************************************************************)
EXTENDS Loader

CONSTANTS
    Calls,          \* the calls the guest may make: a7, a0, a1 and a2
    Inputs,         \* how many bytes stdin may hold before its end
    PageMap,        \* the guest's leaf entries: virtual page -> frame and rights
    AddrSpace,      \* 2^32 in the code
    TvSize, TzSize, \* sizeof(struct timeval), sizeof(struct timezone)
    MaxCalls        \* bound on the number of calls

ASSUME CallsAssumption ==
    /\ \A c \in Calls : c.a0 \in Nat /\ c.a1 \in Nat /\ c.a2 \in Nat
    /\ Inputs \subseteq Nat /\ MaxCalls \in Nat /\ TvSize \in Nat /\ TzSize \in Nat

(* Addresses wrap at a page's end, behind the last one of memory. *)
ASSUME AddressAssumption ==
    /\ AddrSpace \in Nat \ {0} /\ AddrSpace % PageSize = 0
    /\ DefaultSizes["mem_pages"] * PageSize <= AddrSpace
    /\ \A p \in DOMAIN PageMap : p \in Nat /\ PageMap[p].frame \in Nat

(* An entry that may be written but not read is none: the walk refuses it. *)
ASSUME RightsAssumption ==
    \A p \in DOMAIN PageMap : "W" \in PageMap[p].rights => "R" \in PageMap[p].rights

VARIABLES
    a0,             \* the register with the result
    call,           \* the call's arguments, as its handler saved them
    returned,       \* whether it has returned
    i,              \* the loop counter of the handler
    input,          \* how many bytes stdin holds
    consumed,       \* how many of them were taken
    output,         \* what was written to stdout
    virtual,        \* MMU::isVirtualAddressing
    marks,          \* the accessed and dirty bits of the leaf entries
    calls           \* how many calls were made

syscallVars == <<a0, call, returned, i, input, consumed, output, virtual, marks, calls>>
processVars == <<optionVars, built, fds, log, loaderVars, input, calls>>
vars == <<processVars, mem, phase, end, a0, call, returned, i, consumed, output, virtual, marks>>

NoCall == [a7 |-> "none", a0 |-> 0, a1 |-> 0, a2 |-> 0, in |-> 0, out |-> 0]

SyscallInit ==
    /\ LoaderInit
    /\ a0 = 0 /\ call = NoCall /\ returned = TRUE /\ i = 0
    /\ input \in Inputs /\ consumed = 0 /\ output = <<>>
    /\ virtual = FALSE /\ marks = [p \in DOMAIN PageMap |-> {}] /\ calls = 0

(* ExecECALL: a handler starts; in and out mark where the streams stand. *)
Ecall(c) ==
    /\ phase = "run" /\ returned /\ calls < MaxCalls
    /\ call' = [a7 |-> c.a7, a0 |-> c.a0, a1 |-> c.a1, a2 |-> c.a2,
                in |-> consumed, out |-> Len(output)]
    /\ a0' = c.a0 /\ returned' = FALSE /\ i' = 0 /\ calls' = calls + 1
    /\ UNCHANGED <<optionVars, built, mem, fds, log, phase, end, loaderVars,
                   input, consumed, output, virtual, marks>>

In(a7) == phase = "run" /\ ~returned /\ call.a7 = a7

(* ExecCSRRW, between two calls; the locals of the last one are gone. *)
SetSatp ==
    /\ phase = "run" /\ returned /\ ~virtual
    /\ virtual' = TRUE /\ call' = NoCall
    /\ UNCHANGED <<processVars, mem, phase, end, a0, returned, i, consumed, output, marks>>

(* The entry for an address. *)
Page(va) == DOMAIN PageMap \intersect {(va % AddrSpace) \div PageSize}

(* Where an object of n bytes lies: its frame, and getMemPtr; nowhere when  *)
(* there is no entry or it does not fit.                                    *)
Place(va, n) ==
    LET a == va % AddrSpace
        pas == IF virtual THEN {(PageMap[p].frame * PageSize) + (a % PageSize) : p \in Page(va)}
               ELSE {a}
    IN  {pa \in pas : pa + n < MemSize}

(* MMU::translate refuses the access. *)
Denied(va, acc) == virtual /\ \A p \in Page(va) : acc \notin PageMap[p].rights

Bits(acc) == IF acc = "W" THEN {"A", "D"} ELSE {"A"}

(* The marks after an access that is not refused: those the walk leaves, or *)
(* none if the data TLB holds the address, since it was read or written     *)
(* before.  The table lies in guest memory, away from the calls' buffers.   *)
Translated(mk, va, acc) ==
    IF virtual
    THEN {mk : p \in {q \in Page(va) : "R" \in PageMap[q].rights}} \union
         {[mk EXCEPT ![p] = @ \union Bits(acc)] :
            p \in {q \in Page(va) : acc \in PageMap[q].rights}}
    ELSE {mk}

(* MMU::load and store: what can come of an access, with marks mk before. *)
Accesses(mk, va, n, acc) ==
    {[at |-> Place(va, n), marks |-> t] : t \in Translated(mk, va, acc)} \union
    {[at |-> {}, marks |-> t] : t \in {u \in {mk} : Denied(va, acc)}}

(* MMU::store, of the bytes the function v gives, from pa on. *)
Stored(m, pa, v) == [a \in DOMAIN m |-> IF a - pa \in DOMAIN v THEN v[a - pa] ELSE m[a]]

(* SimException: Sim::execute ends with the guest as it is. *)
Fault == phase' = "executed" /\ UNCHANGED <<mem, a0, returned, i>>

Return(result) == a0' = result /\ returned' = TRUE /\ UNCHANGED <<mem, phase, i>>

-----------------------------------------------------------------------------
(* ExecClose, ExecFstat and ExecBrk *)
ReturnZero ==
    /\ \E a7 \in {"close", "fstat", "brk"} : In(a7)
    /\ Return(0)
    /\ UNCHANGED <<processVars, end, call, consumed, output, virtual, marks>>

(* The default of ExecSysCall: nothing happens. *)
Unsupported ==
    /\ In("other")
    /\ Return(a0)
    /\ UNCHANGED <<processVars, end, call, consumed, output, virtual, marks>>

ExecExit ==
    /\ In("exit")
    /\ Fault
    /\ UNCHANGED <<processVars, end, call, consumed, output, virtual, marks>>

(* Mutant: the buffer is translated once, where it starts. *)
SlotFromStart(va, acc) ==
    {[o EXCEPT !.at = {pa + i : pa \in @} \intersect (0 .. MemSize - 2)] :
        o \in Accesses(marks, va, 1, acc)}

(* The access to byte i of the buffer at va. *)
Slot(va, acc) == Accesses(marks, va + i, 1, acc)

(* ExecRead: a byte of stdin, whatever the descriptor in a0. *)
ReadByte ==
    /\ In("read") /\ i < call.a2 /\ consumed < input
    /\ consumed' = consumed + 1
    /\ \E o \in Slot(call.a1, "W") :
        /\ marks' = o.marks
        /\ \/ o.at = {} /\ Fault
           \/ \E pa \in o.at :
                /\ mem' = Stored(mem, pa, [k \in {0} |-> <<fds[0], consumed>>])
                /\ i' = i + 1
                /\ UNCHANGED <<phase, a0, returned>>
    /\ UNCHANGED <<processVars, end, call, output, virtual>>

(* Mutant: at the end of the input the handler waits for more. *)
ReadEOFRetry == In("read") /\ i < call.a2 /\ consumed = input /\ UNCHANGED vars

(* fgetc returns EOF. *)
ReadEOF ==
    /\ In("read") /\ i < call.a2 /\ consumed = input
    /\ Return(i)
    /\ UNCHANGED <<processVars, end, call, consumed, output, virtual, marks>>

(* Mutant: the result counts from zero. *)
ReadDoneShort ==
    /\ In("read") /\ i = call.a2
    /\ Return(IF i > 0 THEN i - 1 ELSE 0)
    /\ UNCHANGED <<processVars, end, call, consumed, output, virtual, marks>>

ReadDone ==
    /\ In("read") /\ i = call.a2
    /\ Return(call.a2)
    /\ UNCHANGED <<processVars, end, call, consumed, output, virtual, marks>>

(* Mutant: every round writes the byte at the start. *)
WriteByteFirst ==
    /\ In("write") /\ i < call.a2
    /\ \E o \in Accesses(marks, call.a1, 1, "R") :
        /\ marks' = o.marks
        /\ \/ o.at = {} /\ Fault /\ UNCHANGED output
           \/ \E pa \in o.at :
                /\ output' = Append(output, mem[pa])
                /\ i' = i + 1
                /\ UNCHANGED <<mem, phase, a0, returned>>
    /\ UNCHANGED <<processVars, end, call, consumed, virtual>>

(* ExecWrite: a byte to stdout. *)
WriteByte ==
    /\ In("write") /\ i < call.a2
    /\ \E o \in Slot(call.a1, "R") :
        /\ marks' = o.marks
        /\ \/ o.at = {} /\ Fault /\ UNCHANGED output
           \/ \E pa \in o.at :
                /\ output' = Append(output, mem[pa])
                /\ i' = i + 1
                /\ UNCHANGED <<mem, phase, a0, returned>>
    /\ UNCHANGED <<processVars, end, call, consumed, virtual>>

WriteDone ==
    /\ In("write") /\ i = call.a2
    /\ Return(call.a2)
    /\ UNCHANGED <<processVars, end, call, consumed, output, virtual, marks>>

Tv == [k \in 0 .. TvSize - 1 |-> <<"tv", k>>]
Tz == [k \in 0 .. TzSize - 1 |-> <<"tz", k>>]

(* Mutant: the pointer is taken from the register the result went to. *)
TvPointerLate == 0

(* ExecGetTimeOfDay saves its arguments before it sets the result. *)
TvPointer == call.a0

(* ExecGetTimeOfDay: the result first, then the two structures, the time    *)
(* zone even when its pointer is null; each is translated where it starts.  *)
GetTimeOfDay ==
    /\ In("gettimeofday")
    /\ a0' = 0
    /\ \E tv \in Accesses(marks, TvPointer, TvSize, "W") :
        \/ /\ tv.at = {}
           /\ marks' = tv.marks /\ UNCHANGED mem
           /\ phase' = "executed" /\ UNCHANGED returned
        \/ \E p \in tv.at, tz \in Accesses(tv.marks, call.a1, TzSize, "W") :
            /\ marks' = tz.marks
            /\ \/ /\ tz.at = {}
                  /\ mem' = Stored(mem, p, Tv)
                  /\ phase' = "executed" /\ UNCHANGED returned
               \/ \E q \in tz.at :
                  /\ mem' = Stored(Stored(mem, p, Tv), q, Tz)
                  /\ returned' = TRUE /\ UNCHANGED phase
    /\ UNCHANGED <<processVars, end, call, i, consumed, output, virtual>>

(* Sim::execute leaves its loop between two traces: the budget is used up.  *)
Budget ==
    /\ phase = "run" /\ returned
    /\ phase' = "executed"
    /\ UNCHANGED <<processVars, mem, end, a0, call, returned, i, consumed, output, virtual,
                   marks>>

SyscallNext ==
    \/ \E c \in Calls : Ecall(c)
    \/ SetSatp \/ Budget
    \/ ReturnZero \/ Unsupported \/ ExecExit \/ GetTimeOfDay
    \/ ReadByte \/ ReadEOF \/ ReadDone
    \/ WriteByte \/ WriteDone
=============================================================================
