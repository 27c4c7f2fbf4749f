------------------------------ MODULE Process ------------------------------
(***************************************************************************)
(* The simulator as a process: main() from the construction of its static  *)
(* members to its return, with the guest's system calls in between.        *)
(***************************************************************************)
EXTENDS Syscall

Init == SyscallInit

OptionsStep ==
    /\ Construct \/ Help \/ ParseOption \/ ParseThrow \/ OpenLog \/ CloseLog
    /\ UNCHANGED <<loaderVars, syscallVars>>

LoaderStep ==
    /\ ElfInit \/ LoadSegment \/ StartState \/ CopySegment \/ StartExecution
    /\ UNCHANGED syscallVars

Terminated == phase = "over" /\ UNCHANGED vars

Next == OptionsStep \/ LoaderStep \/ SyscallNext \/ Terminated

Spec == Init /\ [][Next]_vars

(* One thread, which the host keeps running; a read from stdin returns a    *)
(* byte or the end of the file.                                             *)
FairSpec == Spec /\ WF_vars(Next)

-----------------------------------------------------------------------------
(* Every variable keeps its type, and the counters stay within what the     *)
(* process has: arguments, headers, segments, input and the length asked    *)
(* for in a call.                                                           *)
TypeOK ==
    /\ argv \in CommandLines /\ cur_arg \in 1 .. Len(argv) + 1
    /\ DOMAIN opt = Option /\ \A o \in Flags : opt[o] \in BOOLEAN
    /\ \A o \in Sizes : opt[o] \in Nat
    /\ log \in {Null, "stderr", "file"}
    /\ phase \in {"static", "parse", "init", "load", "copy", "run", "executed", "over"}
    /\ end \in {"none", "help", "usage", "elf", "wild", "memory", "done"}
    /\ (end # "none") = (phase = "over")
    /\ er.cur_phdr <= er.phdrnum /\ Len(segs) = er.cur_phdr /\ copied <= Len(segs)
    /\ a0 \in Nat /\ returned \in BOOLEAN /\ virtual \in BOOLEAN
    /\ marks \in [DOMAIN PageMap -> SUBSET {"A", "D"}]
    /\ input \in Inputs /\ consumed \in 0 .. input
    /\ calls \in 0 .. MaxCalls
    /\ call.a7 \in {"read", "write"} => i <= call.a2

(* What a read consumed, what it stored and what it returned are the same   *)
(* bytes: the next ones of stdin, as many as were asked for or as there     *)
(* were, each where the guest's mapping puts its address (the last byte     *)
(* counts where two addresses share a place).                               *)
ReadTransfers ==
    (call.a7 = "read" /\ returned) =>
        /\ a0 = consumed - call.in
        /\ a0 = Min({call.a2, input - call.in})
        /\ \A k \in 0 .. a0 - 1 :
            (\A l \in k + 1 .. a0 - 1 : Place(call.a1 + l, 1) # Place(call.a1 + k, 1)) =>
                \E pa \in Place(call.a1 + k, 1) : mem[pa] = <<"stdin", call.in + k>>

(* What a write has put out is the buffer's bytes in order, all of them     *)
(* when it returns, and those before the one that faulted otherwise.        *)
WriteTransfers ==
    call.a7 = "write" =>
        /\ Len(output) = call.out + i
        /\ \A k \in 0 .. i - 1 :
            \E pa \in Place(call.a1 + k, 1) : output[call.out + k + 1] = mem[pa]
        /\ returned => i = call.a2 /\ a0 = i

(* A store of n bytes at va may have thrown. *)
Refusable(va, n) == Place(va, n) = {} \/ Denied(va, "W")

(* gettimeofday leaves both structures where its arguments pointed, though  *)
(* its result replaces the first of them, and writes neither in part: it    *)
(* returns with both in place, or faults at the first one's place, or at    *)
(* the second's with the first one there.                                   *)
TimeStored ==
    (call.a7 = "gettimeofday" /\ (returned \/ phase # "run")) =>
        LET zone == UNION {q .. q + TzSize - 1 : q \in Place(call.a1, TzSize)}
        IN  /\ a0 = 0
            /\ \/ ~returned /\ Refusable(call.a0, TvSize)
               \/ /\ \E p \in Place(call.a0, TvSize) : \A k \in DOMAIN Tv :
                        p + k \notin zone => mem[p + k] = Tv[k]
                  /\ \/ ~returned /\ Refusable(call.a1, TzSize)
                     \/ \E q \in Place(call.a1, TzSize) : \A k \in DOMAIN Tz : mem[q + k] = Tz[k]

(* The places of the n bytes at va.  A structure that crosses a page is     *)
(* left out: its second part goes where the first one's page continues.     *)
Places(va, n) == UNION {Place(va + k, 1) : k \in 0 .. n - 1}
Crosses(va, n) == virtual /\ (va % PageSize) + n > PageSize

Writes(va, n) ==
    IF Crosses(va, n) THEN UNION {pa .. pa + n - 1 : pa \in Place(va, n)} ELSE Places(va, n)

(* The addresses a call has translated, one by one or where they start. *)
Named ==
    CASE call.a7 \in {"read", "write"} -> {call.a1 + k : k \in 0 .. call.a2 - 1}
      [] call.a7 = "gettimeofday"      -> {call.a0, call.a1}
      [] OTHER                         -> {}

(* A system call changes no byte of guest memory but those of the buffers   *)
(* its arguments name, in either addressing mode, also when it ends in a    *)
(* fault; and, of the page table, the accessed and dirty bits of the        *)
(* buffers' pages: it sets them and clears none, and no call that only      *)
(* reads its buffer leaves a page dirty.                                    *)
BufferOnly ==
    phase = "run" =>
        /\ \A a \in {b \in DOMAIN mem : mem'[b] # mem[b]} :
            \/ call.a7 = "read" /\ a \in Places(call.a1, call.a2)
            \/ call.a7 = "gettimeofday" /\ a \in Writes(call.a0, TvSize) \union Writes(call.a1, TzSize)
        /\ \A p \in {q \in DOMAIN PageMap : marks'[q] # marks[q]} :
            /\ virtual /\ \E va \in Named : p \in Page(va)
            /\ marks[p] \subseteq marks'[p]
            /\ call.a7 = "write" => marks'[p] = marks[p] \union {"A"}

OnlyBuffers == [][BufferOnly]_vars

(* Every system call returns or ends the simulation: however long the       *)
(* buffer and however short the input, no handler waits for ever.           *)
CallsReturn == ~returned ~> (returned \/ phase = "over")
=============================================================================
