# RISC-V-Simulator: specifications and proofs

TLA+ models of the simulator in `src/sim`: a functional RV32IM simulator that
fetches guest code in *traces*, caches and interprets them, compiles hot ones
to x86 with asmjit, and translates addresses with a software MMU. The program
is sequential: there is one thread, no message and no persistent state. What is
hard about it is staleness (three caches in front of memory, code fetched long
before it runs), resources at their limit (LRU eviction, the host register
pool), exceptions that leave a data structure half updated, undefined
behaviour, and two implementations of every instruction that have to agree.

## Inventory

| Part | State | Operations | Interaction |
|---|---|---|---|
| LRU cache (`common.h`) | list, key-to-node map, counter | `insert`, `clear` | template behind the trace cache and both TLBs; constructs values that may throw |
| MMU (`mmu.h`) | physical memory, mode bit of `satp`, two TLBs | `load`, `store`, `translate`, `flush` | called by fetch, loads, stores, system calls; writes page-table entries in guest memory |
| Main loop (`sim.cpp`, `sim.h`) | pc, trace cache, `executed_insts`; per trace its instructions, host code, `exec_num_`, `is_eligible_` | `refer`, `Trace` construction, `Trace::execute`, `State::flush`, `Sim::execute` | drives everything; FENCE calls back into the cache that owns the running trace |
| Interpreter (`exec_inst.cpp`) | registers, pc | one handler per command, chained by tail calls | reads and writes State, memory through the MMU |
| JIT (`jit.cpp`, `translate_inst.cpp`) | register mapping, pool, liveness | one template per command, allocation before and deallocation after it | host code addresses State through `rdi` |
| Decoder (`decoder.cpp`, `isa_desc.cpp`) | opcode and command tables | construction, `decode` | called by `Trace`'s constructor |
| Options and start-up (`options.*`, `main.cpp`) | option values, log | static construction, `ParseOptions`, `OpenLog`, `CloseLog` | the static MMU and trace cache read the options before `main()` does |
| ELF loader (`elf_reader.cpp`, `State`'s constructor) | descriptor, header index, segments | `init`, `load`, `clear`, the copy into memory | fills guest memory; shares the process's descriptors |
| System calls (`syscall.cpp`) | loop counter, stdin, stdout | one handler per call | called by ECALL; guest memory byte by byte through the MMU |
| Statistics (`stats*`) | twelve counters | incremented where the event happens | printed at the end |

What makes each of them correct:

* LRU cache: the three fields agree, also after an exception; it holds the most
  recently used keys; references it gave out stay good.
* MMU: a TLB is never staler than the last flush allows; the walk is Sv32's;
  accesses have no other effect on memory.
* Main loop: the guest sees an ordinary machine, with stale fetches only where
  the architecture allows them; the count and the budget are exact; a trace
  runs to its end and no further, and is alive while it runs.
* Interpreter and JIT: the arithmetic satisfies its defining equations; compiled
  code computes what the interpreter computes; no host register is lost or
  shared.
* Decoder: it inverts the encoding, for every command.
* Options: the values in effect are those of the whole command line, and what
  was sized by them has their size.
* Loader: the guest's memory holds the image, and nothing lies outside it.
* System calls: what is consumed, stored, put out and returned agree; nothing
  but the named buffers, and the accessed and dirty bits of their pages, changes;
  every call ends.
* Statistics: lookups, executions and translations add up.

## Modules

| Module | Models |
|---|---|
| `LRUList` | lists of key/value pairs, most recent first: `Touch`, `Evict`, `Put` |
| `LRU` | abstract machine: what an LRU cache promises |
| `LRUCache` | `LRUCache<K,V>`: nodes with addresses, `links_`, `cur_size_`, throwing constructors. Refines `LRU` |
| `MMU` | memory, page-table walk, TLBs (as `LRUList`s) |
| `FenceMachine` | abstract machine: one instruction after another, fetches as stale as the last FENCE |
| `Sim` | `Sim::execute`, `Trace`, trace cache (an `LRUList`), JIT threshold. Refines `FenceMachine` |
| `Alu` | operators: what each arithmetic handler and branch condition computes |
| `JIT` | register allocation and the translation templates, run side by side with the interpreter |
| `Decoder` | decoder tables and `decode()` |
| `Instructions` | `Decoder` and `Alu` side by side, with operands to try the arithmetic on, and its properties |
| `Options` | static construction of memory and caches, the command line, the log, file descriptors |
| `Loader` | `Elf_reader` and `State`'s constructor; extends `Options` |
| `Syscall` | the system calls, byte by byte; extends `Loader` |
| `Process` | `main()`: the three together, from start to return |
| `LRUListFacts` | lemmas: what the list operations return, index by index |
| `LRUCache_proofs`, `MMU_proofs` | theorems about the module of that name |
| `Sim_proofs` | theorems about `Sim`: its invariants, that it implements `FenceMachine`, what it counts |
| `JIT_proofs`, `JIT_simulates` | theorems about `JIT`: liveness and allocation; what the host code does |
| `Process_proofs` | theorems about `Options`, `Loader`, `Syscall` and `Process` |
| `Instructions_proofs` | theorems about `Decoder` and `Alu` |
| `MC_*` | the instances TLC checks |

`LRUCache` justifies the use of `LRUList` in `MMU` and `Sim`: the linked
structure implements `LRU`, whose steps are `LRUList`'s operators
(`CacheImplementsLRU`). `MMU` in turn justifies `Sim`'s fixed page table: as
long as table entries are not stored to, TLBs are transparent (`Coherent`).
`JIT` takes the operations as constant operators, which `MC_JIT` gives `Alu`'s
(`ArithmeticIsClosed` is about these).
`Process` and `Sim` split the run of a guest between them: `Sim` has the
instructions, with `read` as the call that changes code, and `Process` the
calls, with the instructions in between reduced to the registers of the next
call and the switch of the addressing mode.

### How state and actions correspond to the code

* `LRUCache`: `entries`, `links`, `cur_size` are the members of the same name;
  `insert` is `Hit`, `Miss` or `Throw`. An exception ends the simulation
  (`Sim::execute` catches it outside its loop), so nothing follows `Throw`.
* `MMU`: addresses count words, and `Radix` replaces 1024. A word of memory is
  the page-table entry its bits spell, so tables and data share one memory and
  the guest edits tables by storing. `Fetch`, `Load`, `Store` are `load(va,
  true)`, `load(va, false)`, `store`; `FetchFault` and `DataFault` are the
  exceptions of the walk, after the cache has made room. `edits` is a history
  variable.
* `Sim`: instructions are reduced to what they do to control, to memory seen as
  code, to the mode and to the caches. One action per step of the loop:
  `ReferHit`/`ReferMiss`/`ReferThrow`, `Execute` (translation, then the call),
  one action per kind of instruction, `Count`, `Check`. `phase` says where
  control is. Instructions address memory or `N`, which stands for every address
  outside it: there the interpreter throws, and compiled code in physical mode,
  which checks nothing, goes `wild`. After that, and after compiled code in
  virtual mode has `lost` its pointer to State, nothing is said of the guest.
  `vis`, `modes`, `retired`, `freed` and `interpreted` are history;
  `stats` holds the six counters of `stats_list.h` that are about traces.
* `JIT`: one action per template runs a round of the translator's loop:
  allocation, the emitted code, deallocation. The code is *executed* as it is
  emitted (`m`), next to the interpreter (`x`). A jump back to `func_start_` is
  modelled by translating the trace again from the pool's initial state, which
  emits the same code. x86 semantics and asmjit's encodings are external:
  instructions with two memory operands or an immediate destination are not
  encodable and emit nothing. A load or a store outside guest memory, or whose
  sum of base and offset wraps at 32 bits, is `BadAddress`: the interpreter
  throws or wraps, the host code does neither and goes `wild`.
* `Decoder`: a word is the record of its `RFormat` fields. The constructor adds
  a row per step; `decode()` is `const`, so a call is a step there and back.
* `Options`: the initial state is the one after the statics of `options.cpp`;
  `Construct` builds those of `sim.cpp`, which the linker puts next (the order
  of `SIM_SRC` in `CMakeLists.txt`). One step of `ParseOption` per option;
  `ParseThrow` is any of the parser's exceptions. `fds` says what each
  descriptor refers to, and `open` takes the lowest free one.
* `Loader`: a byte is named for its origin (offset in the file, zero, or what
  `new uint8_t[]` left), so that an image can be recognised in memory. All the
  checks of `init` that concern the file's contents are one flag; a failure of
  any of them has the same effect. `LoadSegment` and `CopySegment` are rounds of
  the two loops. Headers are of any type, as the code's test for PT_LOAD is
  commented out, and may be larger in the file than in memory: reading one into
  an empty buffer fails (`ReadFails`), as does one that the file is too short
  for, and reading one into a smaller buffer writes behind it (`Overruns`),
  after which `end` is `wild`.
* `Syscall`: `call` holds the arguments as the handler's `const` locals do, `a0`
  the register. A step is a byte for `read` and `write`, a call for the others.
  `Place` is where the bytes lie, translation and bound check in one; `Denied`
  is the check of the entry's rights; `marks` are the accessed and dirty bits
  that `translate()` sets in the leaf entries, in guest memory. A load or store
  whose address is in the data TLB sets no bits and is not checked; this can
  happen once the page was read, so `Translated` allows both where reading is
  allowed. Frames and rights are fixed, and the bits are kept apart from `mem`:
  the table lies away from the buffers of the calls.

## Runs

| Run | Instance | Shows |
|---|---|---|
| `lru_cache` | 4 keys, 2 values, 4 nodes, capacity 3 | `TypeOK`, `Consistent`, `MostRecent`, `ReferencesStable`, refinement of `LRU` |
| `mmu` | 4-word pages, 24 words, TLBs of 2 | `TypeOK`, `Coherent`, `AgreesWithSv32`, `SideEffects` |
| `sim` | all 6561 programs of 4 words over 9 kinds and all 1296 over six that include a load, a store and a jump outside memory (7776 in all), cache of 2 traces, threshold 1 | `TypeOK`, `Fresh`, `TraceAlive`, `JitWhenHot`, `CountExact`, `StatisticsAddUp`, refinement of `FenceMachine` |
| `sim_budget` | all programs that may exit or hit an undecodable word, interpreted, budget 5 | `Stops` under fairness |
| `isa` | decoder: 92 163 words, every opcode and funct3, fields that hit and just miss every special value; arithmetic: every pair of 8-bit words | `Inverse`, `Complete`, `Division`, `Product`, `ShiftAndOrder` |
| `jit` | every template over {x0, x1, x2} before and after every read and write pattern of a `sub`, memory operations next to each other; three `sub`s over three registers, two host registers; loops | `TypeOK`, `PoolExact`, `HeldWhileLive`, `Simulates` |
| `process` | 4 pages of 8 bytes; all 585 command lines of up to three arguments and 39 aimed ones; twelve files; a read-only and an unmapped page; two calls out of 23, stdin of 0, 2 or 4 bytes | `TypeOK`, `ParsedAsAsked`, `ImageLoaded`, `InsideMemory`, `StandardStreams`, `ReadTransfers`, `WriteTransfers`, `TimeStored`, `OnlyBuffers`, and `CallsReturn` under fairness |
| `mmu_sv32`, `sim_loop`, `isa_shift`, `jit_same`, `startup_options` | | findings, below |

### Bounds, and why they are enough

* `lru_cache`: one key more than places, so every eviction order occurs; a
  spare node, so an evicted node's address is reused or not.
* `mmu`: TLBs of two entries overflow; the guest can reach its own tables
  through a superpage, remap a page, execute from the remapped page, and meet
  every fault of the walk. Radix 4 keeps "page number is even" and "superpage is
  aligned" apart.
* `sim`: four words allow traces of one to four instructions, overlapping
  traces, a store into a running, a cached and an evicted trace, and loops to a
  trace's own start. Virtual mode swaps two addresses and unmaps a third.
  Loads, stores and jumps that leave memory meet every mode of addressing and of
  execution, and the fetch after the jump.
  `CountCap` saturates `executed_insts`, `retired` and the history counter
  together; it is above the budget and the threshold. `StatCap` saturates the
  statistics at 4, and `StatisticsAddUp` looks at states where none has reached
  it: up to three lookups of each kind, after hits, misses, evictions,
  translations, fences and exceptions.
* `jit`: words have 8 bits, host registers are two (`esi`, `ecx`, so the shift
  templates meet their own count register), pc starts at 252 and wraps. In the
  three-`sub` traces the first destination is fixed to x1, as the registers are
  interchangeable but for their initial values.
* `isa`: the handlers are the same at every width; 8 bits allow all operands.
  The operands are enumerated before the decoder takes its first step, so the
  two state spaces add up instead of multiplying.
* `process`: the tokens include flags, options with a number and with a name, a
  name that is an option too, a numeral, `-help` and nonsense. The files have
  segments that the zero fill of an earlier one overlaps, pure bss, headers of
  size zero at 0 and at the end of memory, a header inside another, segments
  that end just too far, headers that are larger in the file than in memory, by
  less and by more than the fourfold buffer takes and with no size in memory at
  all, a short file and a foreign one. Buffers cross into a
  page with another frame that may only be read, an unmapped page, the end of memory and the end of
  the address space (64 bytes here). `TvSize` and `TzSize` are 4 and 2 bytes,
  for 16 and 8. `MaxCalls` bounds the calls; two suffice for a call to meet what
  an earlier one left.

`CHECK_DEADLOCK FALSE` stands where the system really stops: after an exception
(`LRUCache`, `MMU`) and when host code has returned (`JIT`).

### Fairness

`FairSpec` is `WF_vars(Next)`: the simulator is one thread, nothing in its loop
blocks or waits, so as long as a step is possible one is taken. Fairness between
actions is not assumed. `Stops` therefore means that no guest can keep the
simulator from reaching `Check` and passing the budget. In `Process` the one
place that may wait is `fgetc(stdin)`; stdin is a sequence of bytes and an end,
so it returns one or the other. `CallsReturn` is about what the handlers make of
that: it fails if one of them spins at the end of the input.

### The abstract machine

`FenceMachine` says what a guest may rely on. A fetch returns a word that was
visible at the address at some time since the last FENCE; a load or a store uses
an addressing mode in force since then. Two properties of this simulator are
visible in it on purpose. Fetching is eager: the machine may stop as soon as the
straight line from pc meets a word that cannot be fetched or decoded, before the
instructions in front of it take effect (`GFetchFault`). And code compiled in
physical mode keeps addressing memory physically after `satp` is set (`modes`).

## Findings

* `mmu_sv32`: stores do not follow the page table, for two reasons. The data TLB
  is shared by loads and stores, and a store that hits an entry a load created
  skips the write check and the dirty bit. And the masks in `translate()` clear
  the lowest bit of the page number, so odd frames are translated to their even
  neighbour (`AgreesWithSv32` therefore assumes even frames).
* `sim_loop`: `-max-insts` does not stop a compiled trace that loops on itself.
* `isa_shift`: `decode()` masks SRAI's immediate to the shift count and then
  overwrites it, so the instruction shifts by 1024 more. C++ leaves such a shift
  undefined; an x86 build takes the count modulo 32, as `Alu` does.
* `jit_same`: five kinds of instruction are miscompiled; `Miscompiled` in `JIT`
  lists them, and `Simulates`, proved below, says that there is no other among
  the instructions modelled. The fifth are loads and stores in physical mode:
  they are not bounded by guest memory, where the interpreter throws, and do not
  wrap at 32 bits, where it does.
* `startup_options`: `-mem-pages`, `-cache-size`, `-itlb-size` and `-dtlb-size`
  have no effect: memory and caches are static and were built with the defaults
  before the command line was read.

Seen while modelling, without a run: code compiled in virtual mode overwrites
`rdi`, its pointer to State, with the address at the first load or store and
calls the MMU with it (`translate_inst.cpp:34`, `:43`), although `jit.h` does
not list `edi` among the free registers; `Sim` follows the guest up to there
(phase `lost`). After FENCE `Trace::execute` reads the size of the trace FENCE
destroyed (`Count` adds any value of `Garbage`, and `CountExact` excepts it);
JALR with rd = rs1 jumps relative to the new rd, in interpreter and JIT alike.
In the loader, `p_memsz` counts words where it should count bytes, so a program
whose image fits is refused when four times its last segment does not, and, as
headers other than PT_LOAD are not skipped, one that lies inside a segment (the
file `relro`) has zeros written over the bytes that follow it; `ImageLoaded` is
about headers that do not overlap. A header without a size in memory but with
one in the file, as PT_RISCV_ATTRIBUTES is, is read into a null pointer, and the
program refused (the file `attr`); one that is more than four times as large in
the file as in memory is read over the end of its heap buffer (`over`).
`State`'s comment speaks of two pages for the stack, but sp starts below them,
so they stay unused and the stack grows towards the program. `gettimeofday`
stores the time zone through a null pointer too, and a structure that crosses a
virtual page goes on in the next physical one; `OnlyBuffers` counts these bytes
as named by the guest.

## Proofs

Checked by TLAPS, for every value of the constants that the modules' `ASSUME`s
allow. Every invariant and every step property that a passing run checks is a
theorem; only the two liveness properties are not (end of this section).

What is assumed of the constants, and why the code grants it:

* `LRUCache`, `MMU`, `Sim`: capacities are positive. (The code evicts from an
  empty list otherwise.)
* `MMU`: memory lies in the address space; `RootPPN` is a page number the
  second-level index can hold, as `satp`'s field is as wide as the entries'.
* `Sim`: instructions and the page map have their types, the saturation bound
  `CountCap` is not below the threshold. A target is an address in memory or
  `N`, for all the others; what a program does with them is not restricted.
* `JIT`: register names are distinct, the pool has no repetition, a trace is not
  empty and its only terminator is its last instruction, as `Trace`'s
  constructor stops at the first. An instruction has a template and one of the
  operations the template is used for (`Template`, after `translate_inst.cpp`).
  Of the operations `ComputeAssumption` says what the templates rely on: words
  give words, `ADD` is addition modulo the word size, a shift by 0 changes
  nothing, and the signed and the unsigned high product agree on operands that
  are not negative. TLC evaluates it for `Alu`'s operations on words of 8 bits,
  and `ArithmeticIsClosed` proves it of them for the other sizes too (loads and
  stores, which are `MC_JIT`'s, aside); nothing else is known of the operations
  in the proof. Memory is not larger than the address space.
* `Decoder`: the words tried are records of `RFormat`'s fields, each within its
  width. The theorems are about every such word; `Inverse` excepts the part of
  SRAI's immediate above the shift count (the finding `isa_shift`).
* `Alu`: a word has 4, 8, 16 or 32 bits.
* `Options`: arguments are strings, sizes natural numbers, and the built-in
  memory has the two pages `State`'s constructor subtracts.
* `Loader`: headers have natural numbers as fields. Their sizes in the file and
  in memory are independent.
* `Syscall`: a page is a divisor of the address space, which memory fits into,
  frames are natural numbers, and no page may be written but not read: the walk
  refuses such an entry, so the page is one without an entry.

### LRU cache

None of the four properties is inductive alone: that the map is exact after an
eviction needs the keys of the list to be distinct, and that the eviction drops
the right key needs `cur_size` to be the length of the list. The inductive
invariant is the conjunction of `TypeOK`, `Consistent`, the distinctness of the
history and `MostRecent`; the proof has a lemma per action, resting on lemmas
about `Cons`, `RemoveAt` and `Front` in `LRUListFacts`.

* `TypeCorrect`, `CacheConsistent`, `KeepsMostRecent`: `Spec => []TypeOK`,
  `[]Consistent`, `[]MostRecent`.
* `ReferencesStay`: `Spec => ReferencesStable`, a step property, from the same
  invariant: a splice or an eviction leaves every pair that stays as it was.
* `CacheImplementsLRU`: the refinement of `LRU`. The mapping drops the nodes;
  a hit and a miss are both `LRUInsert`, once the invariant says that the node
  a link points to is the key's and that a full list is one of `MaxSize`.

### MMU

`Coherent` is inductive with `TypeOK` alone, but not by looking at one memory: a
walk sets bits in an entry where other addresses' walks end too, perhaps at the
other level, and a store may hit a table. The proof follows an access through
the memory it leaves behind, with the predicates stated for any memory, and
rests on two lemmas: setting the accessed or the dirty bit of an entry changes
no walk and keeps what was marked marked (`MarkFacts`); a store outdates only
the translations whose entries it hits, which `edits` then excuses
(`StoreKeeps`).

* `TypeCorrect`, `TLBsCoherent`: `Spec => []TypeOK`, `[]Coherent`.
* `AccessesOnlyMark`: `Spec => SideEffects`. Step by step.
* `TranslatesAsSv32`: `Spec => []AgreesWithSv32`: arithmetic on page numbers;
  the guest may have built any table.

### Main loop

The inductive invariant says of a cached trace that it is one the constructor
can have built (`Shape`: it decodes, its only terminator is its last word), of
control that between traces none is half done and that the trace to execute is
in front (`Control`), and of the history that it includes the present
(`Present`). `TraceAlive` needs the shape: that an instruction is left after one
that does not end the trace is a fact about its last word.

* `TypeCorrect`, `NeverRunsOff`, `TracesFresh`: `Spec => []TypeOK`,
  `[]TraceAlive`, `[]Fresh`.
* `TranslatedWhenHot`: `[]JitWhenHot`, from the relation between `exec_num`,
  `is_eligible` and the history counter of each trace.
* `CountedExactly`: `[]CountExact`. In the middle of a trace the two counts
  differ: host code is counted before it runs, interpreted code after. `Exact`
  says by how much in each phase, up to saturation.
* `StatisticsBalance`: `[]StatisticsAddUp`. That translations do not exceed
  constructions needs the set of cached traces not yet tried, whose cardinality
  is the slack.
* `SimImplementsFenceMachine`: `Spec => ImplementsFenceMachine`. Each
  instruction of a running trace is the machine's step for it: the word is one
  the machine may fetch because the trace is `Fresh`, and it is the one at
  `pc + at` because of `Control`. Lookup, translation and counting are stutters.
  So are the steps that end in `lost` or `wild`: the theorem is about the guest
  until then, and claims nothing of what follows.
  A throw while fetching is `GFetchFault`, whose witness is the first address of
  the line that does not decode (the least element of a set of numbers).

### Register allocation

* `AllocationExact`: `Spec => []PoolExact`, inductive once the mapping and the
  pool have their types. `Allocate`, `Deallocate` and `DeallocateAll` preserve
  it as operations on a mapping and a pool, so each template needs only that it
  touches neither.
* `HeldOnlyWhileLive`: `Spec => []HeldWhileLive`. First what `calcLiveness`
  computes: the recursive function equals `ReadAfter`, defined without
  recursion (`LivenessExact`). `ReadAfter` satisfies the recursion's equation,
  so the function exists, and where the two differ last the equation makes them
  agree. Then the invariant: the registers held are among those live before the
  instruction to be translated. A round allocates live operands only and gives
  back the operands that are live no longer; a register that is live before and
  not after is one of these. After the terminator, the last instruction, nothing
  is live, so nothing is held.

### Host code

`Spec => []TypeOK` (`WordsStayWords`) and `Spec => []Simulates`
(`CompiledSimulates`). The inductive invariant says that `m` is a host state and
`x` a guest state, and, while `sound`, that each guest register has the
interpreter's value *where the mapping says it is* (`Agrees`). It stands on
`AllocationExact`: a template writes one place, and that no other guest register
lives there is the exactness of the mapping. The argument goes in four layers.

* `Run`, a recursive function of the code, is characterised without recursion
  by the sequence of states it goes through, which exists and is unique (least
  counterexample, as for `LivenessExact`). Hence `RunConcat`: running code in
  pieces is running it.
* A lemma per kind of host instruction (`EmitMov`, `EmitSet`, `EmitMul`, ...)
  says which place it puts which value into. What cannot be encoded is skipped,
  so each lemma has the encodability as hypothesis, and each template has to
  show it for every placement of its operands.
* A lemma per template (`ADDRuns`, `ShiftRuns`, `JALRRuns`, ...) says what the
  emitted code leaves behind, for operands in registers, in memory, equal or
  x0; a second one (`ADDRight`, ...) that this is what the interpreter does,
  unless `Miscompiled`. `AddressSame` is the one about displacements: host code
  adds a signed immediate, the interpreter adds words modulo their size, and
  the two are the same address unless the host's is outside guest memory. In
  that case, or where the interpreter throws, the instruction is `Miscompiled`,
  and so `Simulates` says of `sound` code that it has not gone `wild`.
* `PreRuns` and `PostRuns`: loading and saving registers around the template
  keeps the values of all others. A register that is allocated without being
  loaded is one the template writes before anything reads it. `SavesRuns`: the
  code of `deallocateAllRegs` writes all registers back, in whatever order.

### Decoder

The inductive invariant `DInv` says of the tables that every entry comes from a
row the constructor has passed and that every such row has an entry (`Tables`),
and of a call that its result is what the complete tables give for its word
(`Asked`). That a row *has* an entry does not mean the entry is its own: an
entry is overwritten by the next row of the same key.

* `DecodesWhatIsEncoded`: `Spec => []Inverse`. `SharedKeys`, by inspection of
  the description, says which rows meet: two R rows never, others only as the
  right shifts or the six commands of SYSTEM. There the command is chosen by the
  immediate, so it does not matter whose entry was found (`DecodedI`); elsewhere
  the entry is the row's own. The rest is arithmetic: the fields of the word are
  read back from the immediate the decoder assembled and extended (`ImmBSplit`,
  `ImmJSplit` and their like).
* `NoCommandLost`: `Spec => []Complete`, along the same lines from the word.
* `DecoderRuns`: `IsaSpec => Spec`, so that both hold of what the run checks.

### Arithmetic

The operands are words in every state (`AInv`); the properties follow from that
alone, by lemmas on two words `x` and `y`.

* `DivisionIsExact`: `IsaSpec => []Division`. C's division of signed numbers
  recomposes and its remainder is small (`QuotRem`, a case per pair of signs);
  it fits a signed word, so reading it back loses nothing (`SignedBack`); and
  words differ from the signed numbers they stand for by multiples of the word
  size, which the equation modulo that size absorbs. The overflow is the one
  quotient that does not fit, and has a case of its own in code and proof.
* `ProductIsExact`: `[]Product`. The upper word is the quotient by the word size
  (`HighIs`), and all three products fit two words, signed or not
  (`ProductFits`). `MULHSU` converts its signed operand to `uint64_t`, which
  changes the product by a multiple of the square of the word size.
* `ShiftsAndOrderAgree`: `[]ShiftAndOrder`. SRA is the hard one: `Or` is defined
  bit by bit with a recursive function, which is shown to exist (least
  counterexample), and adds where no bit is set twice (`OrDisjoint`); the mask
  is a multiple of a power of two that the shifted word is below
  (`BelowTheMask`).
* `ArithmeticIsClosed`: the arithmetic satisfies what `JIT` assumes.

### Process

`Typed` has a part for each of the five states a process goes through (streams,
options, control, image and reader, call), because what a variable holds depends
on the phase.

* `TypeCorrect`, `StreamsKept`: `Spec => []TypeOK`, `[]StandardStreams`. Files
  are opened at the lowest free descriptor, which is above 2 as the standard
  streams are open; the log and the program are never closed twice.
* `CommandLineRead`: `[]ParsedAsAsked`. The invariant is that the options so far
  are a reading of the arguments so far, and that every reading of the whole
  line goes through them: reading is deterministic.
* `CopiesInside`: `[]InsideMemory`. The test before each copy is about the
  bytes the copy writes (`Fits`), and no later step changes the size of memory.
* `SegmentsLoaded`: `[]ImageLoaded`. A copy overruns the place of the segments
  that follow, not of those before it, so what was copied stays; the invariant
  (`InPlace`) is per copied segment.
* `ReadsIn`, `WritesOut`, `TimeKept`: `[]ReadTransfers`, `[]WriteTransfers`,
  `[]TimeStored`, with the invariant in the middle of a call: the first `i`
  bytes are done. Two bytes of a buffer may have one place, so what is stored is
  what the last of them left. `TimeStored` says in which order the two
  structures may be refused, for want of a place or of the right to write.
* `CallsStayInBuffers`: `Spec => OnlyBuffers`, a step property, about memory and
  about the marks in the page table. An access marks the entry of its own
  address, and `write` only as accessed (`AccessMarks`). `Place` of a
  structure that does not leave its page is `Place` of each of its bytes, by
  arithmetic on the wrap of the address space and of the page.

### Only model-checked

`Stops` and `CallsReturn`: liveness under fairness, which the prover does not
handle. The violations in the findings are TLC's, too.

## Not modelled

Logging, dumping and what `-help` prints (write-only); the TLB counters, each of
which is incremented next to the lookup it counts; file permissions and the
contents of libelf's checks; the vendored hash map `robin_hood.h` and asmjit,
beyond what their callers rely on. A SimException thrown under a call from
compiled code is not followed, as that code has already lost its pointer to
State. What a process does after host code has gone `wild` or the loader has
overrun a heap buffer is not followed. In `Process`, page tables that overlap
the buffers of a call are not tried (`MMU` has tables and data in one memory),
and the bits the guest's own accesses set between two calls are left out.

## Plan

Done, in this order: `LRUCache` with its proofs; `MMU`; `Sim` with
`FenceMachine`; `Alu`; `JIT`; `Decoder`; `Options`, `Loader`, `Syscall` and
`Process`; `read` into code and the statistics in `Sim`; the proofs above, those
of `Decoder` and `Alu` last.

Left: the liveness properties as theorems, once the prover supports them; the
TLB counters and exceptions under compiled code, if the code comes to depend on
them.
