-------------------------------- MODULE Sim --------------------------------
(***************************************************************************)
(* The simulator's main loop: Sim::execute, the trace cache, the building  *)
(* of a trace by eager fetch and decode, its interpretation one            *)
(* instruction at a time, its translation to host code once it is hot, and *)
(* the execution of that code (sim/sim.cpp, sim.h, exec_inst.cpp, jit.cpp).*)
(*                                                                         *)
(* Instructions are reduced to what they do to control, to memory seen as  *)
(* code, to the addressing mode and to the caches:                         *)
(*   plain   arithmetic                                                    *)
(*   load    reads the word at address to                                  *)
(*   call    an ECALL that changes no memory, or an instruction without    *)
(*           handler: keeps a trace from being translated                  *)
(*   read    ECALL read: puts the word data at address to, or nothing when *)
(*           the input has ended                                           *)
(*   store   writes the word data at address to                            *)
(*   satp    CSRRW that sets the mode bit of satp                          *)
(*   stop    ECALL exit, or CSRRW of another register: throws              *)
(*   fence, jump (to), branch (to or fall through): end a trace            *)
(*   undef   a word that does not decode                                   *)
(* Addresses count words, and N stands for all those outside memory, which *)
(* an instruction may name as well; memory is reached through a fixed page *)
(* table, as MMU shows the TLBs to be transparent for tables that are not  *)
(* edited.                                                                 *)
(***************************************************************************)
EXTENDS Integers, LRUList

CONSTANTS
    N, Word, Inst, VMap, Program,
    CacheSize,      \* cache_size, of the trace cache
    Jit, Threshold, \* jit, jit_threshold
    MaxInsts,       \* max_insts
    Garbage,        \* what reading the size of a destroyed vector can give
    CountCap,       \* bound: instruction counters stop here,
    StatCap         \* bound: and statistics here

ASSUME SimAssumption ==
    /\ N \in Nat \ {0}
    /\ DOMAIN VMap \subseteq 0 .. N - 1
    /\ \A a \in DOMAIN VMap : VMap[a] \in 0 .. N - 1
    /\ Program \subseteq [0 .. N - 1 -> Word]
    /\ \A w \in Word :
          /\ Inst[w].op \in {"plain", "call", "load", "store", "read", "satp", "stop",
                             "fence", "jump", "branch", "undef"}
          /\ Inst[w].to \in 0 .. N
          /\ Inst[w].data \in Word
    /\ CacheSize \in Nat \ {0}
    /\ Jit \in BOOLEAN /\ Threshold \in Nat /\ MaxInsts \in Nat
    /\ Garbage \subseteq Nat
    /\ CountCap \in Nat /\ Threshold <= CountCap /\ StatCap \in Nat

VARIABLES
    mem, virtual,   \* memory and the mode bit of satp
    pc,             \* State::pc: the start of the trace while one runs
    cache,          \* trace_cache: start address -> trace, a list as in LRUList
    phase,          \* where Sim::execute and Trace::execute are
    at,             \* how many instructions of the trace are done
    executed_insts,
    stats,          \* the counters of stats_list.h that this loop increments
    vis, modes,     \* history: see FenceMachine
    retired,        \* history: instructions completed
    freed           \* history: a destroyed trace was read

vars == <<mem, virtual, pc, cache, phase, at, executed_insts, stats, vis, modes, retired, freed>>
history == <<vis, modes, retired, freed>>

M == INSTANCE FenceMachine WITH halted <- phase = "stopped", pc <- pc + at

Plus(n, k) == IF n + k < CountCap THEN n + k ELSE CountCap

Stat == {"trace_cache_hits", "trace_cache_misses", "jit_finished_translations",
         "jit_failed_translations", "interpreted_executions", "translated_executions"}

(* ++stats::s, for each s in set. *)
Counted(set) ==
    stats' = [s \in Stat |-> IF s \in set /\ stats[s] < StatCap THEN stats[s] + 1 ELSE stats[s]]

Init ==
    /\ mem \in Program
    /\ virtual = FALSE
    /\ pc = 0
    /\ cache = <<>>
    /\ phase = "refer"
    /\ at = 0
    /\ executed_insts = 0
    /\ stats = [s \in Stat |-> 0]
    /\ vis = M!AllVisible(mem, FALSE)
    /\ modes = {FALSE}
    /\ retired = 0
    /\ freed = FALSE

-----------------------------------------------------------------------------
(* The words of the trace that starts at a: Trace's constructor reads up to *)
(* and including the first terminator.  None when it throws on the way.     *)
Decodes(a) == \E w \in M!Visible(mem, virtual, a) : Inst[w].op # "undef"
Ends(a) == Decodes(a) /\ \A w \in M!Visible(mem, virtual, a) : M!Terminator(w)

FetchTrace(a) ==
    {[j \in 1 .. b - a + 1 |-> CHOOSE w \in M!Visible(mem, virtual, a + j - 1) : TRUE] :
        b \in {c \in a .. N - 1 : Ends(c) /\ \A d \in a .. c - 1 : Decodes(d) /\ ~Ends(d)}}

(* A new Trace; code is the addressing mode its host code was compiled in.  *)
(* interpreted is history: its executions by the interpreter.               *)
NewTrace(words) ==
    [words |-> words, exec_num |-> 0, is_eligible |-> TRUE, code |-> "none",
     interpreted |-> 0]

(* trace_cache.refer(decoder, state, pc). *)
ReferHit ==
    /\ phase = "refer"
    /\ pc \in Cached(cache)
    /\ cache' = Touch(cache, pc)
    /\ Counted({"trace_cache_hits"})
    /\ phase' = "execute"
    /\ UNCHANGED <<mem, virtual, pc, at, executed_insts, history>>

ReferMiss ==
    /\ phase = "refer"
    /\ pc \notin Cached(cache)
    /\ \E words \in FetchTrace(pc) : cache' = Put(cache, CacheSize, pc, NewTrace(words))
    /\ Counted({"trace_cache_misses"})
    /\ phase' = "execute"
    /\ UNCHANGED <<mem, virtual, pc, at, executed_insts, history>>

ReferThrow ==
    /\ phase = "refer"
    /\ pc \notin Cached(cache)
    /\ FetchTrace(pc) = {}
    /\ cache' = Evict(cache, CacheSize)
    /\ phase' = "stopped"
    /\ UNCHANGED <<mem, virtual, pc, at, executed_insts, stats, history>>

-----------------------------------------------------------------------------
(* The trace being executed is the one refer() just put in front. *)
trace == cache[1].val

Translatable(words) ==
    \A j \in DOMAIN words : Inst[words[j]].op \in {"plain", "load", "store", "jump", "branch"}

(* Mutant: the counter is incremented before it is compared. *)
TranslateEarly(t) ==
    IF Jit /\ t.is_eligible /\ t.code = "none"
    THEN [t EXCEPT
            !.exec_num = @ + 1,
            !.code = IF t.exec_num + 1 = Threshold /\ Translatable(t.words)
                     THEN IF virtual THEN "virtual" ELSE "physical"
                     ELSE "none",
            !.is_eligible = t.exec_num + 1 # Threshold \/ Translatable(t.words)]
    ELSE t

(* Trace::execute up to the call: translation is attempted once, on the     *)
(* execution after jit_threshold others.                                    *)
Translate(t) ==
    IF Jit /\ t.is_eligible /\ t.code = "none"
    THEN [t EXCEPT
            !.exec_num = @ + 1,
            !.code = IF t.exec_num = Threshold /\ Translatable(t.words)
                     THEN IF virtual THEN "virtual" ELSE "physical"
                     ELSE "none",
            !.is_eligible = t.exec_num # Threshold \/ Translatable(t.words)]
    ELSE t

Execute ==
    /\ phase = "execute"
    /\ LET t == Translate(trace)
       IN  /\ IF t.code # "none"
              THEN /\ cache' = [cache EXCEPT ![1].val = t]
                   /\ phase' = "compiled"
                   /\ executed_insts' = Plus(executed_insts, Len(t.words))
              ELSE /\ cache' = [cache EXCEPT ![1].val = [t EXCEPT !.interpreted = Plus(@, 1)]]
                   /\ phase' = "interpret"
                   /\ UNCHANGED executed_insts
           /\ Counted({s \in {"jit_finished_translations"} : t.code # trace.code} \union
                      {s \in {"jit_failed_translations"} : t.is_eligible # trace.is_eligible})
    /\ UNCHANGED <<mem, virtual, pc, at, history>>

(* The instruction whose turn it is. *)
running == phase \in {"interpret", "compiled"}
inst == Inst[trace.words[at + 1]]

Retire == retired' = Plus(retired, 1)

(* NEXT_INST, of an instruction that has no effect here. *)
GoOn ==
    /\ at' = at + 1
    /\ Retire
    /\ UNCHANGED <<mem, virtual, pc, cache, phase, executed_insts, stats, vis, modes, freed>>

Plain == running /\ inst.op \in {"plain", "call"} /\ GoOn

(* A store takes effect at p.  No cached trace notices. *)
WriteAt(p) ==
    /\ mem' = [mem EXCEPT ![p] = inst.data]
    /\ vis' = M!Also(mem', virtual)
    /\ at' = at + 1
    /\ Retire
    /\ UNCHANGED <<virtual, pc, cache, phase, executed_insts, stats, modes, freed>>

Interrupted(ph) ==
    /\ phase' = ph
    /\ UNCHANGED <<mem, virtual, pc, cache, at, executed_insts, stats, history>>

InterpretLoad ==
    /\ phase = "interpret"
    /\ inst.op = "load"
    /\ \/ M!Phys(virtual, inst.to) # {} /\ GoOn
       \/ M!Phys(virtual, inst.to) = {} /\ Interrupted("stopped")

InterpretStore ==
    /\ phase = "interpret"
    /\ inst.op = "store"
    /\ \/ \E p \in M!Phys(virtual, inst.to) : WriteAt(p)
       \/ M!Phys(virtual, inst.to) = {} /\ Interrupted("stopped")

(* ExecRead writes guest memory like a store. *)
ReadCall ==
    /\ running
    /\ inst.op = "read"
    /\ \/ GoOn
       \/ \E p \in M!Phys(virtual, inst.to) : WriteAt(p)
       \/ M!Phys(virtual, inst.to) = {} /\ Interrupted("stopped")

(* Code compiled in physical mode addresses memory directly, whatever the   *)
(* mode is now, and checks nothing: outside the guest's memory it reads or  *)
(* overwrites the simulator's own, or is killed, and nothing is said about  *)
(* a process that has gone wild.  Code compiled in virtual mode calls       *)
(* State::read or write after overwriting rdi, the pointer to the state,    *)
(* and never restores it: from here on the process is lost.                 *)
CompiledLoad ==
    /\ phase = "compiled"
    /\ inst.op = "load"
    /\ \/ trace.code = "physical" /\ inst.to # N /\ GoOn
       \/ trace.code = "physical" /\ inst.to = N /\ Interrupted("wild")
       \/ trace.code = "virtual" /\ Interrupted("lost")

CompiledStore ==
    /\ phase = "compiled"
    /\ inst.op = "store"
    /\ \/ trace.code = "physical" /\ inst.to # N /\ WriteAt(inst.to)
       \/ trace.code = "physical" /\ inst.to = N /\ Interrupted("wild")
       \/ trace.code = "virtual" /\ Interrupted("lost")

Satp ==
    /\ running
    /\ inst.op = "satp"
    /\ virtual' = TRUE
    /\ vis' = M!Also(mem, TRUE)
    /\ modes' = modes \union {TRUE}
    /\ at' = at + 1
    /\ Retire
    /\ UNCHANGED <<mem, pc, cache, phase, executed_insts, stats, freed>>

Stop ==
    /\ running
    /\ inst.op = "stop"
    /\ Interrupted("stopped")

(* Mutant: a terminator goes on with NEXT_INST. *)
LeaveAndGoOn(a) ==
    /\ pc' = a
    /\ at' = at + 1
    /\ phase' = phase
    /\ UNCHANGED stats
    /\ Retire

(* Mutant: executions of host code are not counted. *)
LeaveUncounted(a) ==
    /\ pc' = a
    /\ at' = 0
    /\ phase' = IF phase = "compiled" THEN "check" ELSE "count"
    /\ Retire
    /\ UNCHANGED stats

(* END_TRACE *)
LeaveTo(a) ==
    /\ pc' = a
    /\ at' = 0
    /\ phase' = IF phase = "compiled" THEN "check" ELSE "count"
    /\ Counted({s \in {"translated_executions"} : phase = "compiled"})
    /\ Retire

Jump ==
    /\ running
    /\ inst.op = "jump"
    /\ LeaveTo(inst.to)
    /\ UNCHANGED <<mem, virtual, cache, executed_insts, vis, modes, freed>>

(* Host code whose branch goes back to its own first instruction does so    *)
(* without returning to Sim::execute.                                       *)
Loops == phase = "compiled" /\ inst.to = pc

Branch ==
    /\ running
    /\ inst.op = "branch"
    /\ LeaveTo(pc + at + 1) \/ (~Loops /\ LeaveTo(inst.to))
    /\ UNCHANGED <<mem, virtual, cache, executed_insts, vis, modes, freed>>

(* Mutant: the label is bound behind the instruction that counts. *)
LoopUncounted ==
    /\ running
    /\ inst.op = "branch"
    /\ Loops
    /\ at' = 0
    /\ Retire
    /\ UNCHANGED <<mem, virtual, pc, cache, phase, executed_insts, stats, vis, modes, freed>>

LoopBranch ==
    /\ running
    /\ inst.op = "branch"
    /\ Loops
    /\ at' = 0
    /\ executed_insts' = Plus(executed_insts, Len(trace.words))
    /\ Retire
    /\ UNCHANGED <<mem, virtual, pc, cache, phase, stats, vis, modes, freed>>

(* Mutant: only the TLBs are flushed. *)
FenceKeepsTraces ==
    /\ running
    /\ inst.op = "fence"
    /\ vis' = M!AllVisible(mem, virtual)
    /\ modes' = {virtual}
    /\ LeaveTo(pc + at + 1)
    /\ UNCHANGED <<mem, virtual, cache, executed_insts, freed>>

(* ExecFENCE: State::flush destroys every trace, the one running included. *)
Fence ==
    /\ running
    /\ inst.op = "fence"
    /\ cache' = <<>>
    /\ vis' = M!AllVisible(mem, virtual)
    /\ modes' = {virtual}
    /\ LeaveTo(pc + at + 1)
    /\ UNCHANGED <<mem, virtual, executed_insts, freed>>

(* executed_insts += trace_.size(), in a Trace that FENCE has destroyed.    *)
Count ==
    /\ phase = "count"
    /\ \E n \in IF cache = <<>> THEN Garbage ELSE {Len(trace.words)} :
          executed_insts' = Plus(executed_insts, n)
    /\ Counted({"interpreted_executions"})
    /\ freed' = (freed \/ cache = <<>>)
    /\ phase' = "check"
    /\ UNCHANGED <<mem, virtual, pc, cache, at, vis, modes, retired>>

(* Mutant: the budget is not looked at. *)
CheckNothing ==
    /\ phase = "check"
    /\ phase' = "refer"
    /\ UNCHANGED <<mem, virtual, pc, cache, at, executed_insts, stats, history>>

(* The end of the loop body in Sim::execute. *)
Check ==
    /\ phase = "check"
    /\ phase' = IF MaxInsts > 0 /\ executed_insts >= MaxInsts THEN "stopped" ELSE "refer"
    /\ UNCHANGED <<mem, virtual, pc, cache, at, executed_insts, stats, history>>

(* The process has ended; or it is lost or wild, and nothing is said of it. *)
Over == phase \in {"stopped", "lost", "wild"} /\ UNCHANGED vars

Next ==
    \/ ReferHit \/ ReferMiss \/ ReferThrow \/ Execute
    \/ Plain \/ InterpretLoad \/ CompiledLoad \/ InterpretStore \/ CompiledStore
    \/ ReadCall \/ Satp \/ Stop
    \/ Jump \/ Branch \/ LoopBranch \/ Fence
    \/ Count \/ Check \/ Over

Spec == Init /\ [][Next]_vars

(* One thread runs the simulator, and nothing in the loop blocks. *)
FairSpec == Spec /\ WF_vars(Next)

-----------------------------------------------------------------------------
Trace ==
    [words : Seq(Word), exec_num : Nat, is_eligible : BOOLEAN,
     code : {"none", "physical", "virtual"}, interpreted : Nat]

(* The state of the loop has the types of the C++ members; the trace cache  *)
(* stays within cache_size.                                                 *)
TypeOK ==
    /\ mem \in [0 .. N - 1 -> Word]
    /\ virtual \in BOOLEAN
    /\ pc \in 0 .. N
    /\ cache \in Seq([key : 0 .. N, val : Trace]) /\ Len(cache) <= CacheSize
    /\ phase \in {"refer", "execute", "interpret", "compiled", "count", "check",
                  "stopped", "lost", "wild"}
    /\ at \in 0 .. N
    /\ executed_insts \in Nat
    /\ stats \in [Stat -> 0 .. StatCap]
    /\ vis \in [0 .. N -> SUBSET Word]
    /\ modes \subseteq BOOLEAN
    /\ retired \in Nat
    /\ freed \in BOOLEAN

(* Traces and compiled code are never staler than the last FENCE: each word *)
(* of a cached trace was visible at its address since then, and host code   *)
(* was compiled in a mode that was in force since then.                     *)
Fresh ==
    \A i \in DOMAIN cache :
        LET t == cache[i].val
        IN  /\ \A j \in DOMAIN t.words : t.words[j] \in vis[cache[i].key + j - 1]
            /\ t.code = "physical" => FALSE \in modes
            /\ t.code = "virtual" => TRUE \in modes

(* While instructions of a trace run, that trace is alive, it is the one in *)
(* front, and there is an instruction left: the interpreter never runs off  *)
(* the end of the vector, because what ends a trace ends its execution.     *)
TraceAlive ==
    running => /\ cache # <<>>
               /\ cache[1].key = pc
               /\ at < Len(trace.words)
               /\ (phase = "compiled") <=> (trace.code # "none")

(* README, -jit-threshold: "number of trace executions when JIT is          *)
(* applied".  A trace that can be translated is interpreted jit_threshold   *)
(* times and never again; one that cannot is tried once and given up.       *)
JitWhenHot ==
    \A i \in DOMAIN cache :
        LET t == cache[i].val
        IN  /\ t.code # "none" => Jit /\ Translatable(t.words) /\ t.interpreted = Threshold
            /\ Jit /\ Translatable(t.words) => t.is_eligible /\ t.interpreted <= Threshold

(* When control is back in Sim::execute, executed_insts is the number of    *)
(* instructions completed, interpreted or compiled, looping or not, unless  *)
(* the size of a destroyed trace was added to it.                           *)
CountExact == phase = "refer" /\ ~freed => executed_insts = retired

(* The statistics printed at the end add up: every trace that was looked up *)
(* was executed once, the one a guest is stopped in counting as looked up   *)
(* only, and each construction of a trace is followed by at most one        *)
(* attempt to translate it, whatever was evicted, flushed or given up.      *)
StatisticsAddUp ==
    (\A s \in Stat : stats[s] < StatCap) =>
        LET looked == stats["trace_cache_hits"] + stats["trace_cache_misses"]
            done == stats["interpreted_executions"] + stats["translated_executions"]
            tried == stats["jit_finished_translations"] + stats["jit_failed_translations"]
        IN  /\ looked - done \in {0, 1}
            /\ phase = "refer" => looked = done
            /\ tried <= stats["trace_cache_misses"]
            /\ Len(cache) <= stats["trace_cache_misses"]
            /\ phase = "refer" =>
                  stats["translated_executions"] >= stats["jit_finished_translations"]

(* The guest executes what FenceMachine executes: eager traces, eviction,   *)
(* translation and loops inside host code are invisible to a guest that     *)
(* puts a FENCE where the architecture asks for one.                        *)
ImplementsFenceMachine == M!GSpec

(* README, -max-insts: "number of instructions, after which simulator       *)
(* stops": with a budget, every guest is stopped.                           *)
Stops == MaxInsts > 0 => <>(phase = "stopped")
=============================================================================
