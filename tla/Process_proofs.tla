--------------------------- MODULE Process_proofs ---------------------------
(***************************************************************************)
(* The process from its start to its end, for every command line, ELF      *)
(* file, input and mapping of pages, and for any number of system calls.   *)
(***************************************************************************)
EXTENDS Process, TLAPS

(* The least free descriptor is free, while few are taken. *)
LEMMA LowestFree ==
    ASSUME NEW table, DOMAIN table \subseteq 0 .. 3
    PROVE  Lowest(table) \in (0 .. 9) \ DOMAIN table
<1> DEFINE Free == (0 .. 9) \ DOMAIN table
<1>1. \E x \in Free : \A y \in Free : x <= y
  <2>1. 4 \in Free /\ \A y \in Free : y \in 0 .. 9
    OBVIOUS
  <2>2. CASE 0 \in Free
    BY <2>1, <2>2
  <2>3. CASE 0 \notin Free /\ 1 \in Free
    BY <2>1, <2>3
  <2>4. CASE 0 \notin Free /\ 1 \notin Free /\ 2 \in Free
    BY <2>1, <2>4
  <2>5. CASE 0 \notin Free /\ 1 \notin Free /\ 2 \notin Free
    BY <2>1, <2>5
  <2> QED
    BY <2>2, <2>3, <2>4, <2>5
<1> HIDE DEF Free
<1>2. Min(Free) \in Free
  BY <1>1 DEF Min
<1> QED
  BY <1>2 DEF Lowest, Free

(* The standard streams are open, few other descriptors are before the ELF *)
(* file is, the reader holds none until then, and the log is where         *)
(* CloseLog looks for it.                                                  *)
Streams ==
    /\ StandardStreams
    /\ phase \in {"static", "parse"} => DOMAIN fds = 0 .. 2
    /\ phase = "init" => DOMAIN fds \subseteq 0 .. 3
    /\ phase \in {"static", "parse", "init"} => er.fd = -1
    /\ phase \in {"init", "load", "copy", "run", "executed"} => log \in {"stderr", "file"}
    /\ log = "file" /\ phase # "over" => \E d \in DOMAIN fds : fds[d] = "log"

(* A file that is opened takes no descriptor from another. *)
LEMMA OpenKeeps ==
    ASSUME StandardStreams, NEW d, d \notin DOMAIN fds, NEW what, fds' = Opened(fds, d, what)
    PROVE  /\ StandardStreams'
           /\ DOMAIN fds' = DOMAIN fds \union {d} /\ fds'[d] = what
           /\ \A x \in DOMAIN fds : fds'[x] = fds[x]
<1>1. /\ DOMAIN fds' = DOMAIN fds \union {d} /\ fds'[d] = what
      /\ \A x \in DOMAIN fds : fds'[x] = fds[x]
  BY DEF Opened
<1>2. StandardStreams'
  BY <1>1 DEF StandardStreams
<1> QED
  BY <1>1, <1>2

LEMMA InitStreams == Init => Streams
  BY DEF Init, SyscallInit, LoaderInit, OptionsInit, Streams, StandardStreams, Null

LEMMA OpenLogStreams == ASSUME Streams, OpenLog, UNCHANGED er PROVE Streams'
<1>1. StandardStreams /\ phase = "parse" /\ phase' = "init" /\ DOMAIN fds = 0 .. 2
  BY DEF Streams, OpenLog
<1>2. CASE log' = "file" /\ fds' = Opened(fds, Lowest(fds), "log")
  <2> DEFINE d == Lowest(fds)
  <2>1. d \in (0 .. 9) \ DOMAIN fds
    BY <1>1, LowestFree
  <2>2. d = 3
    <3>1. Lowest(fds) = Min(3 .. 9)
      <4>1. (0 .. 9) \ DOMAIN fds = 3 .. 9
        BY <1>1
      <4> QED
        BY <4>1 DEF Lowest
    <3> QED
      BY <3>1 DEF Min
  <2> HIDE DEF d
  <2>3. /\ StandardStreams' /\ DOMAIN fds' = DOMAIN fds \union {d} /\ fds'[d] = "log"
    BY <1>1, <1>2, <2>1, OpenKeeps DEF d
  <2> QED
    BY <1>1, <1>2, <2>2, <2>3 DEF Streams
<1>3. CASE log' = "stderr" /\ UNCHANGED fds
  BY <1>1, <1>3 DEF Streams, StandardStreams
<1> QED
  BY <1>2, <1>3 DEF OpenLog

LEMMA CloseLogStreams == ASSUME Streams, CloseLog PROVE Streams'
<1>1. phase = "executed" /\ phase' = "over" /\ UNCHANGED log /\ StandardStreams
  BY DEF Streams, CloseLog, Leave
<1>2. CASE log = "stderr"
  BY <1>1, <1>2 DEF CloseLog, Streams, StandardStreams
<1>3. CASE log # "stderr"
  <2> DEFINE d == CHOOSE x \in DOMAIN fds : fds[x] = "log"
  <2>1. d \in DOMAIN fds /\ fds[d] = "log"
    BY <1>1, <1>3 DEF Streams
  <2>2. fds' = Closed(fds, d)
    BY <1>3 DEF CloseLog
  <2> HIDE DEF d
  <2>3. StandardStreams'
    BY <1>1, <2>1, <2>2 DEF Closed, StandardStreams
  <2> QED
    BY <1>1, <2>3 DEF Streams
<1> QED
  BY <1>2, <1>3

LEMMA ElfInitStreams == ASSUME Streams, ElfInit PROVE Streams'
<1> DEFINE cleared == Clear(fds)
           fd == Lowest(cleared)
<1>1. StandardStreams /\ phase = "init" /\ DOMAIN fds \subseteq 0 .. 3 /\ er.fd = -1
  BY DEF Streams, ElfInit
<1>2. DOMAIN cleared = DOMAIN fds /\ \A x \in DOMAIN fds : cleared[x] = fds[x]
  <2>1. cleared = Closed(fds, -1)
    BY <1>1 DEF Clear
  <2> HIDE DEF cleared
  <2> QED
    BY <1>1, <2>1 DEF Closed
<1>3. UNCHANGED log /\ log \in {"stderr", "file"}
  BY <1>1 DEF ElfInit, Streams
<1>4. \/ fds' = cleared /\ phase' = "over"
      \/ fds' = Opened(cleared, fd, "elf") /\ phase' \in {"load", "over"}
  BY DEF ElfInit, Leave
<1>5. fd \notin DOMAIN cleared
  <2> HIDE DEF cleared
  <2> QED
    BY <1>1, <1>2, LowestFree
<1> HIDE DEF cleared, fd
<1>6. DOMAIN fds \subseteq DOMAIN fds' /\ \A x \in DOMAIN fds : fds'[x] = fds[x]
  BY <1>2, <1>4, <1>5 DEF Opened
<1>7. StandardStreams'
  BY <1>1, <1>6 DEF StandardStreams
<1> QED
  BY <1>1, <1>3, <1>4, <1>6, <1>7 DEF Streams

LEMMA NextStreams == Streams /\ [Next]_vars => Streams'
<1> SUFFICES ASSUME Streams, [Next]_vars PROVE Streams'
  OBVIOUS
<1>1. CASE OpenLog /\ UNCHANGED loaderVars
  BY <1>1, OpenLogStreams DEF loaderVars
<1>2. CASE CloseLog \/ ElfInit
  BY <1>2, CloseLogStreams, ElfInitStreams
<1>3. CASE /\ UNCHANGED <<fds, log>>
           /\ \/ UNCHANGED <<phase, er>>
              \/ phase = "static" /\ phase' = "parse" /\ UNCHANGED er
              \/ phase \in {"load", "copy", "run"} /\ phase' \in {"load", "copy", "run", "executed"}
              \/ phase' = "over"
  BY <1>3 DEF Streams, StandardStreams
<1>4. CASE OptionsStep /\ ~OpenLog /\ ~CloseLog
  BY <1>3, <1>4 DEF OptionsStep, Construct, Help, ParseOption, ParseThrow, Leave,
     optionVars, loaderVars
<1>5. CASE LoaderStep /\ ~ElfInit
  BY <1>3, <1>5 DEF LoaderStep, LoadSegment, StartState, CopySegment, StartExecution, Leave,
     loaderVars
<1>6. CASE SyscallNext
  BY <1>3, <1>6 DEF SyscallNext, Ecall, SetSatp, Budget, ReturnZero, Unsupported, ExecExit,
     GetTimeOfDay, ReadByte, ReadEOF, ReadDone, WriteByte, WriteDone, In, Return, Fault,
     processVars, loaderVars
<1>7. CASE UNCHANGED vars
  BY <1>3, <1>7 DEF vars, processVars, loaderVars
<1> QED
  BY <1>1, <1>2, <1>4, <1>5, <1>6, <1>7 DEF Next, OptionsStep, LoaderStep, Terminated

(* For every command line, file and guest: the process keeps its standard  *)
(* streams.                                                                *)
THEOREM StreamsKept == Spec => []StandardStreams
<1>1. Streams => StandardStreams
  BY DEF Streams
<1> QED
  BY <1>1, InitStreams, NextStreams, PTL DEF Spec

-----------------------------------------------------------------------------
(* The types, option by option and part by part. *)
Origin == {"junk", "file", "zero", "stdin", "tv", "tz"}
Byte == Origin \X Nat

(* The size of memory, fixed before the command line is read. *)
Top == DefaultSizes["mem_pages"] * PageSize

Segment(h) == [va |-> h.va, size |-> WordSize * h.memsz, bytes |-> Bytes(h)]
Segments == {Segment(h) : h \in Header}

Opts ==
    /\ argv \in CommandLines /\ cur_arg \in 1 .. Len(argv) + 1
    /\ DOMAIN opt = Option /\ \A o \in Flags : opt[o] \in BOOLEAN
    /\ \A o \in Sizes : opt[o] \in Nat
    /\ phase = "static" => opt.mem_pages = DefaultSizes["mem_pages"]

Phases == {"static", "parse", "init", "load", "copy", "run", "executed", "over"}

Flow ==
    /\ log \in {Null, "stderr", "file"}
    /\ phase \in Phases
    /\ end \in {"none", "help", "usage", "elf", "wild", "memory", "done"}
    /\ end # "none" <=> phase = "over"

(* Memory has the size it was built with and holds bytes. *)
Image ==
    phase # "static" => /\ built.mem_pages = DefaultSizes["mem_pages"]
                        /\ mem \in [0 .. Top - 1 -> Byte]

ErFields == {"e", "fd", "cur_phdr", "phdrnum"}
Reading == {"load", "copy", "run", "executed"}

(* What was read so far is the segments of the headers looked at. *)
Reader ==
    /\ DOMAIN er = ErFields /\ er.cur_phdr \in Nat /\ er.phdrnum \in Nat
    /\ er.cur_phdr <= er.phdrnum
    /\ segs \in Seq(Segments) /\ Len(segs) = er.cur_phdr
    /\ copied \in 0 .. Len(segs)
    /\ phase \in {"static", "parse", "init"} => er.cur_phdr = 0 /\ er.phdrnum = 0
    /\ phase \in Reading =>
          /\ opt.elf_file \in DOMAIN Files /\ er.phdrnum = Len(Headers)
          /\ \A k \in 1 .. Len(segs) : segs[k] = Segment(Headers[k])
    /\ phase \in {"copy", "run", "executed"} => er.cur_phdr = er.phdrnum
    /\ phase = "load" => copied = 0

Marks == [DOMAIN PageMap -> SUBSET {"A", "D"}]

Calling ==
    /\ marks \in Marks
    /\ a0 \in Nat /\ returned \in BOOLEAN /\ virtual \in BOOLEAN
    /\ input \in Inputs /\ input \in Nat /\ consumed \in 0 .. input
    /\ calls \in 0 .. MaxCalls /\ i \in Nat /\ output \in Seq(Byte)
    /\ call.a0 \in Nat /\ call.a1 \in Nat /\ call.a2 \in Nat
    /\ call.in \in 0 .. consumed /\ call.out \in Nat
    /\ call.a7 \in {"read", "write"} => i <= call.a2

Typed == Streams /\ Opts /\ Flow /\ Image /\ Reader /\ Calling

LEMMA TopFacts == Top \in Nat /\ 2 * PageSize <= Top /\ PageSize \in Nat \ {0}
<1>1. DefaultSizes["mem_pages"] \in Nat /\ DefaultSizes["mem_pages"] >= 2
  BY DefaultAssumption DEF Sizes
<1>2. PageSize \in Nat \ {0}
  BY PageAssumption
<1> QED
  BY <1>1, <1>2 DEF Top

LEMMA Kinds ==
    /\ \A o \in Flags : o \notin Sizes /\ o \notin Names
    /\ \A o \in Sizes : o \notin Flags /\ o \notin Names
    /\ \A o \in Names : o \notin Flags /\ o \notin Sizes
  BY DEF Flags, Sizes, Names

LEMMA InitTyped == Init => Typed
<1> SUFFICES ASSUME Init PROVE Typed
  OBVIOUS
<1> USE DEF Init, SyscallInit, LoaderInit, OptionsInit
<1>1. Opts
  <2>1. argv \in CommandLines /\ cur_arg \in 1 .. Len(argv) + 1
    BY ArgumentsAssumption
  <2>2. \A o \in Option : opt[o] = Default(o)
    OBVIOUS
  <2>3. \A o \in Flags : opt[o] \in BOOLEAN
    BY <2>2, Kinds DEF Option, Default
  <2>4. \A o \in Sizes : opt[o] = DefaultSizes[o]
    BY <2>2, Kinds DEF Option, Default
  <2>5. \A o \in Sizes : opt[o] \in Nat
    BY <2>4, DefaultAssumption
  <2>6. DOMAIN opt = Option
    OBVIOUS
  <2>7. opt.mem_pages = DefaultSizes["mem_pages"]
    BY <2>4 DEF Sizes
  <2> QED
    BY <2>1, <2>3, <2>5, <2>6, <2>7 DEF Opts
<1>2. Flow
  BY DEF Flow, Phases
<1>3. Image
  BY DEF Image
<1>4. Reader
  BY DEF Reader, Reading, ErFields
<1>5. Calling
  <2>1. /\ call.a0 = 0 /\ call.a1 = 0 /\ call.a2 = 0 /\ call.in = 0 /\ call.out = 0
        /\ call.a7 = "none"
    BY DEF NoCall
  <2>2. input \in Inputs /\ input \in Nat /\ MaxCalls \in Nat
    BY CallsAssumption
  <2>3. output \in Seq(Byte)
    OBVIOUS
  <2>4. returned \in BOOLEAN /\ virtual \in BOOLEAN
    BY Zenon
  <2>5. a0 = 0 /\ consumed = 0 /\ calls = 0 /\ i = 0
    OBVIOUS
  <2>6. marks \in Marks
    BY DEF Marks
  <2> HIDE DEF Init, SyscallInit
  <2> QED
    BY <2>1, <2>2, <2>3, <2>4, <2>5, <2>6 DEF Calling
<1> QED
  BY <1>1, <1>2, <1>3, <1>4, <1>5, InitStreams DEF Typed

-----------------------------------------------------------------------------
(* What an option's argument is parsed to. *)
LEMMA ParseArgFacts ==
    ASSUME NEW o \in Option, NEW j \in Nat, j <= Len(argv) + 1, argv \in Seq(STRING),
           NEW r \in ParseArg(o, j)
    PROVE  /\ r[2] \in j .. Len(argv) + 1
           /\ o \in Flags => r[1] = TRUE
           /\ o \in Sizes => r[1] \in Nat
<1>1. CASE o \in Flags
  <2>1. ParseArg(o, j) = {<<TRUE, j>>}
    BY <1>1, Kinds DEF ParseArg
  <2> DEFINE yes == TRUE
  <2>2. r = <<yes, j>>
    BY <2>1
  <2> HIDE DEF yes
  <2>3. r[1] = yes /\ r[2] = j
    BY <2>2
  <2>4. r[1] = TRUE
    BY <2>3, Zenon DEF yes
  <2>5. r[2] \in j .. Len(argv) + 1
    BY <2>3
  <2> QED
    BY <1>1, <2>4, <2>5, Kinds, Zenon
<1>2. CASE o \in Sizes
  <2>1. o \notin Flags /\ o \notin Names
    BY <1>2, Kinds
  <2>2. r \in {<<Number[n], j + 1>> : n \in DOMAIN Number \intersect Given(j)}
    BY <1>2, <2>1 DEF ParseArg
  <2>3. PICK n \in DOMAIN Number \intersect Given(j) : r = <<Number[n], j + 1>>
    BY <2>2
  <2>4. j \in DOMAIN argv
    BY <2>3 DEF Given
  <2> QED
    BY <2>1, <2>3, <2>4, ArgumentsAssumption
<1>3. CASE o \in Names
  <2>1. o \notin Flags /\ o \notin Sizes
    BY <1>3, Kinds
  <2>2. PICK name \in Given(j) : r = <<name, j + 1>>
    BY <1>3, <2>1 DEF ParseArg
  <2>3. j \in DOMAIN argv
    BY <2>2 DEF Given
  <2> QED
    BY <2>1, <2>2, <2>3
<1> QED
  BY <1>1, <1>2, <1>3 DEF Option

LEMMA ParseOptionOpts == ASSUME Opts, ParseOption PROVE Opts'
<1>0. /\ argv \in Seq(STRING) /\ cur_arg \in 1 .. Len(argv) + 1 /\ Len(argv) \in Nat
      /\ cur_arg + 1 \in Nat /\ cur_arg + 1 <= Len(argv) + 1
      /\ cur_arg <= Len(argv) /\ phase = "parse"
  BY ArgumentsAssumption DEF Opts, ParseOption, Parsing
<1>a. PICK o \in Option : \E r \in ParseArg(o, cur_arg + 1) :
          opt' = [opt EXCEPT ![o] = r[1]] /\ cur_arg' = r[2]
  BY DEF ParseOption
<1>1. PICK r \in ParseArg(o, cur_arg + 1) : opt' = [opt EXCEPT ![o] = r[1]] /\ cur_arg' = r[2]
  BY <1>a
<1>2. UNCHANGED <<argv, phase>>
  BY DEF ParseOption
<1>3. /\ r[2] \in cur_arg + 1 .. Len(argv) + 1
      /\ o \in Flags => r[1] = TRUE
      /\ o \in Sizes => r[1] \in Nat
  BY <1>0, ParseArgFacts
<1>4. cur_arg' \in 1 .. Len(argv) + 1
  BY <1>0, <1>1, <1>3
<1>5. DOMAIN opt' = Option
  BY <1>1 DEF Opts
<1>6. \A f \in Flags : opt'[f] \in BOOLEAN
  BY <1>1, <1>3 DEF Opts, Option
<1>7. \A f \in Sizes : opt'[f] \in Nat
  BY <1>1, <1>3 DEF Opts, Option
<1> QED
  BY <1>0, <1>2, <1>4, <1>5, <1>6, <1>7 DEF Opts

(* Only ParseOption changes the options, and static initialisation is over *)
(* once it is over.                                                        *)
LEMMA OptionFrame ==
    ASSUME [Next]_vars
    PROVE  \/ ParseOption
           \/ UNCHANGED <<argv, cur_arg, opt>> /\ (phase' = "static" => phase = "static")
  BY DEF Next, OptionsStep, Construct, Help, ParseThrow, OpenLog, CloseLog,
     LoaderStep, ElfInit, LoadSegment, StartState, CopySegment, StartExecution, Terminated,
     SyscallNext, Ecall, SetSatp, Budget, ReturnZero, Unsupported, ExecExit,
     GetTimeOfDay, ReadByte, ReadEOF, ReadDone, WriteByte, WriteDone, In, Return, Fault,
     Leave, vars, processVars, optionVars

LEMMA NextOpts == ASSUME Opts, [Next]_vars PROVE Opts'
<1>1. CASE UNCHANGED <<argv, cur_arg, opt>> /\ (phase' = "static" => phase = "static")
  BY <1>1 DEF Opts
<1> QED
  BY <1>1, OptionFrame, ParseOptionOpts

LEMMA NextFlow == ASSUME Flow, [Next]_vars PROVE Flow'
<1>1. CASE /\ log' = log
           /\ \/ phase' = phase /\ end' = end
              \/ phase # "over" /\ phase' \in Phases \ {"over"} /\ end' = end
              \/ phase' = "over" /\ end' \in {"help", "usage", "elf", "wild", "memory", "done"}
  BY <1>1 DEF Flow, Phases
<1>2. CASE OpenLog
  BY <1>2 DEF OpenLog, Flow, Phases
<1>3. CASE OptionsStep /\ ~OpenLog
  BY <1>1, <1>3 DEF OptionsStep, Construct, Help, ParseOption, ParseThrow, CloseLog, Leave, Phases
<1>4. CASE LoaderStep
  BY <1>1, <1>4 DEF LoaderStep, ElfInit, LoadSegment, StartState, CopySegment, StartExecution,
     Leave, Phases
<1>5. CASE SyscallNext
  BY <1>1, <1>5 DEF SyscallNext, Ecall, SetSatp, Budget, ReturnZero, Unsupported, ExecExit,
     GetTimeOfDay, ReadByte, ReadEOF, ReadDone, WriteByte, WriteDone, In, Return, Fault,
     processVars, Phases
<1>6. CASE UNCHANGED vars
  BY <1>1, <1>6 DEF vars, processVars
<1> QED
  BY <1>2, <1>3, <1>4, <1>5, <1>6 DEF Next, Terminated

-----------------------------------------------------------------------------
(* An object that lies in memory lies wholly below its last byte, and in   *)
(* one place.                                                              *)
LEMMA PlaceFacts ==
    ASSUME Image, phase # "static", NEW va \in Nat, NEW n \in Nat, NEW pa \in Place(va, n)
    PROVE  /\ pa \in Nat /\ pa + n < Top
           /\ \A q \in Place(va, n) : q = pa
<1>1. MemSize = Top
  BY DEF MemSize, Top, Image
<1> DEFINE a == va % AddrSpace
<1>2. a \in Nat
  BY AddressAssumption
<1>3. a % PageSize \in Nat /\ PageSize \in Nat
  BY <1>2, TopFacts
<1> HIDE DEF a
<1> DEFINE pages == DOMAIN PageMap \intersect {a \div PageSize}
           pas == IF virtual THEN {(PageMap[p].frame * PageSize) + (a % PageSize) : p \in pages}
                  ELSE {a}
<1>4. Place(va, n) = {q \in pas : q + n < Top}
  BY <1>1 DEF Place, Page, a
<1>5. \A p \in pages : PageMap[p].frame \in Nat
  BY AddressAssumption
<1>6. \A q \in pas : q \in Nat
  BY <1>2, <1>3, <1>5
<1>7. \A q, r \in pas : q = r
  OBVIOUS
<1> HIDE DEF pas
<1> QED
  BY <1>4, <1>6, <1>7

(* An access that is not refused goes to the object's place, and changes   *)
(* at most the marks of its page.                                          *)
LEMMA AccessFacts ==
    ASSUME NEW mk, NEW va, NEW n, NEW acc, NEW o \in Accesses(mk, va, n, acc)
    PROVE  /\ o.at = Place(va, n) \/ (o.at = {} /\ Denied(va, acc))
           /\ \/ o.marks = mk
              \/ virtual /\ \E p \in Page(va) : o.marks = [mk EXCEPT ![p] = @ \union Bits(acc)]
<1> DEFINE P == Place(va, n)
           T == Translated(mk, va, acc)
           D == Denied(va, acc)
<1>1. \A t \in T : \/ t = mk
                   \/ virtual /\ \E p \in Page(va) : t = [mk EXCEPT ![p] = @ \union Bits(acc)]
  BY DEF Translated
<1> HIDE DEF P, T, D
<1>2. Accesses(mk, va, n, acc) = {[at |-> P, marks |-> t] : t \in T} \union
                                 {[at |-> {}, marks |-> t] : t \in {u \in {mk} : D}}
  BY Zenon DEF Accesses, P, T, D
<1>3. CASE \E t \in T : o = [at |-> P, marks |-> t]
  BY <1>1, <1>3 DEF P
<1>4. CASE D /\ o = [at |-> {}, marks |-> mk]
  BY <1>4 DEF D
<1> QED
  BY <1>2, <1>3, <1>4

LEMMA MarksKept ==
    ASSUME NEW mk \in Marks, NEW va, NEW n, NEW acc, NEW o \in Accesses(mk, va, n, acc)
    PROVE  o.marks \in Marks
<1>1. \/ o.marks = mk
      \/ \E p \in Page(va) : o.marks = [mk EXCEPT ![p] = @ \union Bits(acc)]
  BY AccessFacts
<1>2. Bits(acc) \subseteq {"A", "D"} /\ Page(va) \subseteq DOMAIN PageMap
  BY DEF Bits, Page
<1> HIDE DEF Marks
<1>3. ASSUME NEW p \in Page(va) PROVE [mk EXCEPT ![p] = @ \union Bits(acc)] \in Marks
  BY <1>2 DEF Marks
<1> QED
  BY <1>1, <1>3

LEMMA StoredBytes ==
    ASSUME NEW m \in [0 .. Top - 1 -> Byte], NEW pa, NEW v, \A k \in DOMAIN v : v[k] \in Byte
    PROVE  Stored(m, pa, v) \in [0 .. Top - 1 -> Byte]
  BY DEF Stored

LEMMA SegmentFacts ==
    ASSUME NEW s \in Segments
    PROVE  /\ s.va \in Nat /\ s.size \in Nat /\ DOMAIN s.bytes = 0 .. s.size - 1
           /\ \A k \in DOMAIN s.bytes : s.bytes[k] \in Byte
<1>1. PICK h \in Header : s = Segment(h)
  BY DEF Segments
<1>2. /\ h.off \in Nat /\ h.va \in Nat /\ h.memsz \in Nat /\ h.filesz \in Nat
      /\ WordSize \in Nat
  BY FilesAssumption DEF Header
<1>3. s.va = h.va /\ s.size = WordSize * h.memsz /\ s.bytes = Bytes(h)
  BY <1>1 DEF Segment
<1>4. s.size \in Nat
  BY <1>2, <1>3
<1>5. DOMAIN Bytes(h) = 0 .. WordSize * h.memsz - 1
  BY DEF Bytes
<1>6. \A k \in DOMAIN Bytes(h) : Bytes(h)[k] \in Byte
  BY <1>2 DEF Bytes, Byte, Origin
<1> QED
  BY <1>2, <1>3, <1>4, <1>5, <1>6

LEMMA TimeBytes ==
    /\ \A k \in DOMAIN Tv : Tv[k] \in Byte
    /\ \A k \in DOMAIN Tz : Tz[k] \in Byte
  BY CallsAssumption DEF Tv, Tz, Byte, Origin

(* The three ends of gettimeofday. *)
LEMMA TimeCases ==
    ASSUME GetTimeOfDay
    PROVE  \/ mem' = mem /\ UNCHANGED returned /\ Refusable(call.a0, TvSize)
           \/ \E p \in Place(call.a0, TvSize) :
                mem' = Stored(mem, p, Tv) /\ UNCHANGED returned /\ Refusable(call.a1, TzSize)
           \/ \E p \in Place(call.a0, TvSize), q \in Place(call.a1, TzSize) :
                mem' = Stored(Stored(mem, p, Tv), q, Tz) /\ returned' = TRUE
<1>1. PICK tv \in Accesses(marks, call.a0, TvSize, "W") :
        \/ tv.at = {} /\ UNCHANGED <<mem, returned>>
        \/ \E p \in tv.at, tz \in Accesses(tv.marks, call.a1, TzSize, "W") :
              \/ tz.at = {} /\ mem' = Stored(mem, p, Tv) /\ UNCHANGED returned
              \/ \E q \in tz.at : mem' = Stored(Stored(mem, p, Tv), q, Tz) /\ returned' = TRUE
  BY DEF GetTimeOfDay, TvPointer
<1>2. tv.at = Place(call.a0, TvSize) \/ (tv.at = {} /\ Denied(call.a0, "W"))
  BY AccessFacts
<1>3. \A tz \in Accesses(tv.marks, call.a1, TzSize, "W") :
        tz.at = Place(call.a1, TzSize) \/ (tz.at = {} /\ Denied(call.a1, "W"))
  BY AccessFacts
<1>4. CASE tv.at = {} /\ UNCHANGED <<mem, returned>>
  BY <1>2, <1>4 DEF Refusable
<1>5. CASE \E p \in tv.at, tz \in Accesses(tv.marks, call.a1, TzSize, "W") :
              tz.at = {} /\ mem' = Stored(mem, p, Tv) /\ UNCHANGED returned
  BY <1>2, <1>3, <1>5 DEF Refusable
<1>6. CASE \E p \in tv.at, tz \in Accesses(tv.marks, call.a1, TzSize, "W") :
              \E q \in tz.at : mem' = Stored(Stored(mem, p, Tv), q, Tz) /\ returned' = TRUE
  BY <1>2, <1>3, <1>6
<1> QED
  BY <1>1, <1>4, <1>5, <1>6

(* The access of a round of a read or a write. *)
LEMMA SlotPlace ==
    ASSUME NEW acc, NEW o \in Slot(call.a1, acc)
    PROVE  o.at \subseteq Place(call.a1 + i, 1)
  BY AccessFacts DEF Slot

(* The steps that write memory. *)
LEMMA MemoryFrame ==
    ASSUME [Next]_vars
    PROVE  \/ Construct \/ CopySegment \/ ReadByte \/ GetTimeOfDay
           \/ UNCHANGED <<built, mem>> /\ (phase = "static" => phase' = "static")
  BY DEF Next, OptionsStep, Help, ParseOption, ParseThrow, OpenLog, CloseLog, Parsing,
     LoaderStep, ElfInit, LoadSegment, StartState, StartExecution, Terminated,
     SyscallNext, Ecall, SetSatp, Budget, ReturnZero, Unsupported, ExecExit,
     ReadEOF, ReadDone, WriteByte, WriteDone, In, Return, Fault,
     Leave, vars, processVars

LEMMA NextImage == ASSUME Typed, [Next]_vars PROVE Image'
<1> USE DEF Typed
<1>1. CASE Construct
  <2>1. opt.mem_pages = DefaultSizes["mem_pages"]
    BY <1>1 DEF Construct, Opts
  <2>2. built'.mem_pages = DefaultSizes["mem_pages"]
    BY <1>1, <2>1 DEF Construct
  <2>3. mem' = [a \in 0 .. Top - 1 |-> Junk]
    BY <1>1, <2>1 DEF Construct, Top
  <2>4. Junk \in Byte
    BY DEF Junk, Byte, Origin
  <2>5. mem' \in [0 .. Top - 1 -> Byte]
    BY <2>3, <2>4
  <2> QED
    BY <2>2, <2>5 DEF Image
<1>2. CASE CopySegment
  <2>1. /\ phase = "copy" /\ copied < Len(segs) /\ UNCHANGED built
        /\ mem' = Memcpy(mem, segs[copied + 1]) \/ mem' = mem
    BY <1>2 DEF CopySegment
  <2>2. segs \in Seq(Segments) /\ copied \in 0 .. Len(segs)
    BY DEF Reader
  <2>3. segs[copied + 1] \in Segments
    BY <2>1, <2>2
  <2>4. mem \in [0 .. Top - 1 -> Byte] /\ built.mem_pages = DefaultSizes["mem_pages"]
    BY <2>1 DEF Image
  <2>5. mem' \in [0 .. Top - 1 -> Byte]
    <3> DEFINE s == segs[copied + 1]
    <3>1. \A k \in DOMAIN s.bytes : s.bytes[k] \in Byte
      BY <2>3, SegmentFacts
    <3>2. mem' = Memcpy(mem, s) \/ mem' = mem
      BY <2>1
    <3> HIDE DEF s
    <3> QED
      BY <2>4, <3>1, <3>2 DEF Memcpy
  <2> QED
    BY <2>1, <2>4, <2>5 DEF Image
<1>3. CASE ReadByte
  <2>1. phase = "run" /\ UNCHANGED built
    BY <1>3 DEF ReadByte, In, processVars
  <2>2. mem \in [0 .. Top - 1 -> Byte] /\ built.mem_pages = DefaultSizes["mem_pages"]
    BY <2>1 DEF Image
  <2> DEFINE v == [k \in {0} |-> <<fds[0], consumed>>]
  <2>3. \A k \in DOMAIN v : v[k] \in Byte
    BY DEF Byte, Origin, Streams, StandardStreams, Calling
  <2>4. mem' = mem \/ \E pa : mem' = Stored(mem, pa, v)
    BY <1>3 DEF ReadByte, Fault
  <2> HIDE DEF v
  <2>5. mem' \in [0 .. Top - 1 -> Byte]
    BY <2>2, <2>3, <2>4, StoredBytes
  <2> QED
    BY <2>1, <2>2, <2>5 DEF Image
<1>4. CASE GetTimeOfDay
  <2>1. phase = "run" /\ UNCHANGED built
    BY <1>4 DEF GetTimeOfDay, In, processVars
  <2>2. mem \in [0 .. Top - 1 -> Byte] /\ built.mem_pages = DefaultSizes["mem_pages"]
    BY <2>1 DEF Image
  <2>3. \/ mem' = mem
        \/ \E p : mem' = Stored(mem, p, Tv)
        \/ \E p, q : mem' = Stored(Stored(mem, p, Tv), q, Tz)
    BY <1>4, TimeCases
  <2>4. \A p : Stored(mem, p, Tv) \in [0 .. Top - 1 -> Byte]
    BY <2>2, TimeBytes, StoredBytes
  <2>5. \A p, q : Stored(Stored(mem, p, Tv), q, Tz) \in [0 .. Top - 1 -> Byte]
    BY <2>4, TimeBytes, StoredBytes
  <2>6. mem' \in [0 .. Top - 1 -> Byte]
    BY <2>2, <2>3, <2>4, <2>5
  <2> QED
    BY <2>1, <2>2, <2>6 DEF Image
<1>5. CASE UNCHANGED <<built, mem>> /\ (phase = "static" => phase' = "static")
  BY <1>5 DEF Image
<1> QED
  BY <1>1, <1>2, <1>3, <1>4, <1>5, MemoryFrame

-----------------------------------------------------------------------------
LEMMA HeadersFacts ==
    ASSUME opt.elf_file \in DOMAIN Files
    PROVE  Headers \in Seq(Header) /\ Len(Headers) \in Nat
  BY FilesAssumption DEF Headers

LEMMA ElfInitReader == ASSUME Typed, ElfInit PROVE Reader'
<1> DEFINE fd == Lowest(Clear(fds))
<1>1. /\ phase = "init" /\ phase' \in {"load", "over"} /\ UNCHANGED <<opt, segs, copied>>
      /\ DOMAIN er = ErFields /\ er.cur_phdr \in Nat /\ er.phdrnum \in Nat
      /\ er.cur_phdr = 0 /\ er.phdrnum = 0 /\ segs \in Seq(Segments) /\ Len(segs) = 0
      /\ copied \in 0 .. Len(segs)
  BY DEF ElfInit, Leave, Typed, Reader, optionVars
<1>2. CASE opt.elf_file \notin DOMAIN Files
  <2>1. er' = [er EXCEPT !.fd = -1] /\ phase' = "over"
    BY <1>2 DEF ElfInit, Leave
  <2>2. /\ DOMAIN er' = ErFields /\ er'.cur_phdr \in Nat /\ er'.phdrnum \in Nat
        /\ er'.cur_phdr = 0 /\ er'.phdrnum = 0
    BY <1>1, <2>1 DEF ErFields
  <2> QED
    BY <1>1, <2>1, <2>2 DEF Reader, Reading
<1>3. CASE opt.elf_file \in DOMAIN Files
  <2>1. er' = [er EXCEPT !.e = TRUE, !.fd = fd, !.phdrnum = Len(Headers)]
    BY <1>3 DEF ElfInit, Headers
  <2>2. DOMAIN fds \subseteq 0 .. 3 /\ er.fd = -1
    BY <1>1 DEF Typed, Streams
  <2>3. Clear(fds) = Closed(fds, -1)
    BY <2>2 DEF Clear
  <2>4. DOMAIN Clear(fds) \subseteq 0 .. 3
    BY <2>2, <2>3 DEF Closed
  <2>5. fd \in 0 .. 9
    BY <2>4, LowestFree
  <2>6. Len(Headers) \in Nat
    BY <1>3, HeadersFacts
  <2> HIDE DEF fd
  <2>7. DOMAIN er' = ErFields /\ er'.cur_phdr \in Nat /\ er'.phdrnum \in Nat
    BY <1>1, <2>1, <2>5, <2>6 DEF ErFields
  <2>8. er'.cur_phdr = 0 /\ er'.phdrnum = Len(Headers)
    BY <1>1, <2>1 DEF ErFields
  <2>9. Headers' = Headers
    BY <1>1 DEF Headers
  <2> QED
    BY <1>1, <1>3, <2>6, <2>7, <2>8, <2>9 DEF Reader, Reading
<1> QED
  BY <1>2, <1>3

LEMMA LoadSegmentReader == ASSUME Typed, LoadSegment PROVE Reader'
<1>1. /\ phase = "load" /\ er.cur_phdr < er.phdrnum /\ UNCHANGED <<opt, copied>>
      /\ opt.elf_file \in DOMAIN Files /\ er.phdrnum = Len(Headers)
      /\ DOMAIN er = ErFields /\ er.cur_phdr \in Nat /\ er.phdrnum \in Nat
      /\ segs \in Seq(Segments) /\ Len(segs) = er.cur_phdr /\ copied = 0
      /\ \A k \in 1 .. Len(segs) : segs[k] = Segment(Headers[k])
  BY DEF LoadSegment, Typed, Reader, Reading, optionVars
<1>2. CASE phase' = "over" /\ UNCHANGED <<er, segs>>
  BY <1>1, <1>2 DEF Typed, Reader, Reading
<1>3. CASE ~(phase' = "over" /\ UNCHANGED <<er, segs>>)
  <2> DEFINE n == er.cur_phdr
             h == Headers[n + 1]
  <2>1. h \in Header
    BY <1>1, HeadersFacts
  <2>2. /\ segs' = Append(segs, Segment(h)) /\ er' = [er EXCEPT !.cur_phdr = @ + 1]
        /\ UNCHANGED phase
    BY <1>3 DEF LoadSegment, Leave, Headers, Segment
  <2>3. Segment(h) \in Segments
    BY <2>1 DEF Segments
  <2>4. n \in Nat /\ Len(Headers) \in Nat /\ n + 1 <= Len(Headers)
    BY <1>1, HeadersFacts
  <2>5. /\ DOMAIN er' = ErFields /\ er'.cur_phdr \in Nat /\ er'.phdrnum \in Nat
        /\ er'.cur_phdr = n + 1 /\ er'.phdrnum = er.phdrnum
    BY <1>1, <2>2 DEF ErFields
  <2> DEFINE g == Segment(h)
  <2>6. g = Segment(Headers[n + 1])
    OBVIOUS
  <2>7. segs' = Append(segs, g) /\ g \in Segments /\ Len(segs) = n
    BY <1>1, <2>2, <2>3
  <2> HIDE DEF g, h, n
  <2>8. segs' \in Seq(Segments) /\ Len(segs') = n + 1
    BY <1>1, <2>4, <2>7
  <2>9. \A k \in 1 .. Len(segs') : segs'[k] = Segment(Headers[k])
    BY <1>1, <2>4, <2>6, <2>7, <2>8
  <2>10. Headers' = Headers
    BY <1>1 DEF Headers
  <2> QED
    BY <1>1, <2>2, <2>4, <2>5, <2>8, <2>9, <2>10 DEF Reader, Reading
<1> QED
  BY <1>2, <1>3

LEMMA NextReader == ASSUME Typed, [Next]_vars PROVE Reader'
<1>0. Reader /\ Flow
  BY DEF Typed
<1>1. CASE ElfInit \/ LoadSegment
  BY <1>1, ElfInitReader, LoadSegmentReader
<1>2. CASE /\ UNCHANGED <<er, segs, copied>>
           /\ \/ phase \in {"static", "parse"}
                 /\ phase' \in {"static", "parse", "init", "over"}
              \/ UNCHANGED <<opt, phase>>
              \/ UNCHANGED opt /\ phase \in {"copy", "run"} /\ phase' \in {"run", "executed"}
              \/ phase' = "over"
  <2>1. UNCHANGED opt => Headers' = Headers
    BY DEF Headers
  <2> QED
    BY <1>0, <1>2, <2>1 DEF Reader, Reading
<1>3. CASE StartState
  <2>1. /\ UNCHANGED <<opt, er, segs, copied>> /\ phase = "load" /\ phase' = "copy"
        /\ er.cur_phdr = er.phdrnum /\ Headers' = Headers
    BY <1>3 DEF StartState, optionVars, Headers
  <2> QED
    BY <1>0, <2>1 DEF Reader, Reading
<1>4. CASE CopySegment
  <2>1. /\ UNCHANGED <<opt, er, segs>> /\ phase = "copy" /\ phase' \in {"copy", "over"}
        /\ copied < Len(segs) /\ copied' \in {copied, copied + 1} /\ Headers' = Headers
    BY <1>4 DEF CopySegment, Leave, optionVars, Headers
  <2>2. segs \in Seq(Segments) /\ copied \in 0 .. Len(segs)
    BY <1>0 DEF Reader
  <2>3. copied' \in 0 .. Len(segs)
    BY <2>1, <2>2
  <2> QED
    BY <1>0, <2>1, <2>3 DEF Reader, Reading
<1>5. CASE OptionsStep
  BY <1>0, <1>2, <1>5 DEF OptionsStep, Construct, Help, ParseOption, ParseThrow, OpenLog, CloseLog,
     Parsing, Leave, optionVars, loaderVars
<1>6. CASE StartExecution
  BY <1>2, <1>6 DEF StartExecution, optionVars, loaderVars
<1>7. CASE SyscallNext
  BY <1>2, <1>7 DEF SyscallNext, Ecall, SetSatp, Budget, ReturnZero, Unsupported, ExecExit,
     GetTimeOfDay, ReadByte, ReadEOF, ReadDone, WriteByte, WriteDone, In, Return, Fault,
     processVars, optionVars, loaderVars
<1>8. CASE UNCHANGED vars
  BY <1>2, <1>8 DEF vars, processVars, optionVars, loaderVars
<1> QED
  BY <1>1, <1>3, <1>4, <1>5, <1>6, <1>7, <1>8 DEF Next, LoaderStep, Terminated

-----------------------------------------------------------------------------
(* A byte of the buffer that lies in memory is one of memory's bytes. *)
LEMMA SlotFacts ==
    ASSUME Typed, phase = "run", NEW pa \in Place(call.a1 + i, 1)
    PROVE  pa \in 0 .. Top - 1 /\ mem[pa] \in Byte /\ \A q \in Place(call.a1 + i, 1) : q = pa
<1>1. call.a1 + i \in Nat /\ 1 \in Nat
  BY DEF Typed, Calling
<1>2. Image /\ mem \in [0 .. Top - 1 -> Byte]
  BY DEF Typed, Image
<1>3. pa \in Nat /\ pa + 1 < Top /\ \A q \in Place(call.a1 + i, 1) : q = pa
  BY <1>1, <1>2, PlaceFacts
<1>4. pa \in 0 .. Top - 1
  BY <1>3, TopFacts
<1> QED
  BY <1>2, <1>3, <1>4

LEMMA EcallCalling == ASSUME Typed, NEW c \in Calls, Ecall(c) PROVE Calling'
<1>1. Calling
  BY DEF Typed
<1>2. c.a0 \in Nat /\ c.a1 \in Nat /\ c.a2 \in Nat /\ MaxCalls \in Nat
  BY CallsAssumption
<1>3. /\ call'.a0 = c.a0 /\ call'.a1 = c.a1 /\ call'.a2 = c.a2
      /\ call'.in = consumed /\ call'.out = Len(output)
  BY DEF Ecall
<1>4. returned' \in BOOLEAN
  BY Zenon DEF Ecall
<1>5. /\ a0' = c.a0 /\ i' = 0 /\ calls' = calls + 1 /\ calls < MaxCalls
      /\ UNCHANGED <<input, consumed, output, virtual, marks>>
  BY DEF Ecall
<1> QED
  BY <1>1, <1>2, <1>3, <1>4, <1>5 DEF Calling

LEMMA TransferCalling ==
    ASSUME Typed, ReadByte \/ WriteByte
    PROVE  Calling'
<1>1. Calling
  BY DEF Typed
<1>0. ASSUME NEW acc, \E o \in Slot(call.a1, acc) : marks' = o.marks PROVE marks' \in Marks
  BY <1>0, <1>1, MarksKept DEF Slot, Calling
<1>2. CASE ReadByte
  <2>0. marks' \in Marks
    BY <1>0, <1>2 DEF ReadByte
  <2>1. /\ i < call.a2 /\ consumed < input /\ consumed' = consumed + 1 /\ i' \in {i, i + 1}
        /\ UNCHANGED <<a0, returned, input, calls, call, output, virtual>>
    BY <1>2 DEF ReadByte, Fault, processVars
  <2> QED
    BY <1>1, <2>0, <2>1 DEF Calling
<1>3. CASE WriteByte
  <2>0. marks' \in Marks
    BY <1>0, <1>3 DEF WriteByte
  <2>1. /\ i < call.a2 /\ phase = "run"
        /\ UNCHANGED <<a0, returned, input, calls, call, consumed, virtual>>
    BY <1>3 DEF WriteByte, Fault, processVars, In
  <2>2. \/ UNCHANGED <<i, output>>
        \/ i' = i + 1 /\ \E pa \in Place(call.a1 + i, 1) : output' = Append(output, mem[pa])
    BY <1>3, SlotPlace DEF WriteByte, Fault
  <2>3. output \in Seq(Byte)
    BY <1>1 DEF Calling
  <2>4. output' \in Seq(Byte) /\ i' \in {i, i + 1}
    BY <2>1, <2>2, <2>3, SlotFacts
  <2> QED
    BY <1>1, <2>0, <2>1, <2>4 DEF Calling
<1> QED
  BY <1>2, <1>3

LEMMA NextCalling == ASSUME Typed, [Next]_vars PROVE Calling'
<1>1. Calling
  BY DEF Typed
<1>2. CASE UNCHANGED syscallVars
  BY <1>1, <1>2 DEF syscallVars, Calling
<1>3. CASE OptionsStep \/ LoaderStep \/ Terminated \/ UNCHANGED vars
  BY <1>2, <1>3 DEF OptionsStep, LoaderStep, Terminated, vars, processVars, syscallVars
<1>4. CASE \E c \in Calls : Ecall(c)
  BY <1>4, EcallCalling
<1>5. CASE SetSatp
  <2>1. /\ call'.a0 = 0 /\ call'.a1 = 0 /\ call'.a2 = 0 /\ call'.in = 0 /\ call'.out = 0
        /\ call'.a7 = "none"
    BY <1>5 DEF SetSatp, NoCall
  <2>2. virtual' \in BOOLEAN
    BY <1>5, Zenon DEF SetSatp
  <2>3. UNCHANGED <<a0, returned, i, input, calls, consumed, output, marks>>
    BY <1>5 DEF SetSatp, processVars
  <2> QED
    BY <1>1, <2>1, <2>2, <2>3 DEF Calling
<1>6. CASE Budget \/ ExecExit
  BY <1>2, <1>6 DEF Budget, ExecExit, Fault, processVars, syscallVars
<1>7. CASE /\ returned' \in BOOLEAN /\ a0' \in Nat /\ marks' \in Marks
           /\ UNCHANGED <<i, input, calls, call, consumed, output, virtual>>
  BY <1>1, <1>7 DEF Calling
<1>8. CASE ReturnZero \/ Unsupported \/ ReadEOF \/ ReadDone \/ WriteDone \/ GetTimeOfDay
  <2>1. /\ a0' \in {0, a0, i, call.a2}
        /\ UNCHANGED <<i, input, calls, call, consumed, output, virtual>>
    BY <1>8 DEF ReturnZero, Unsupported, ReadEOF, ReadDone, WriteDone, GetTimeOfDay, Return, processVars
  <2>2. a0' \in Nat
    BY <1>1, <2>1 DEF Calling
  <2>3. returned' = TRUE \/ returned' = returned
    BY <1>8, Zenon DEF ReturnZero, Unsupported, ReadEOF, ReadDone, WriteDone, GetTimeOfDay, Return
  <2>4. returned' \in BOOLEAN
    BY <1>1, <2>3, Zenon DEF Calling
  <2>5. CASE GetTimeOfDay
    <3>1. PICK tv \in Accesses(marks, TvPointer, TvSize, "W") :
            \/ marks' = tv.marks
            \/ \E tz \in Accesses(tv.marks, call.a1, TzSize, "W") : marks' = tz.marks
      BY <2>5 DEF GetTimeOfDay
    <3>2. tv.marks \in Marks
      BY <1>1, MarksKept DEF Calling
    <3>3. marks' \in Marks
      BY <3>1, <3>2, MarksKept
    <3> QED
      BY <1>7, <2>1, <2>2, <2>4, <3>3
  <2>6. CASE ~GetTimeOfDay
    <3>1. UNCHANGED marks
      BY <1>8, <2>6 DEF ReturnZero, Unsupported, ReadEOF, ReadDone, WriteDone
    <3> QED
      BY <1>1, <1>7, <2>1, <2>2, <2>4, <3>1 DEF Calling
  <2> QED
    BY <2>5, <2>6
<1>9. CASE ReadByte \/ WriteByte
  BY <1>9, TransferCalling
<1> QED
  BY <1>3, <1>4, <1>5, <1>6, <1>8, <1>9 DEF Next, SyscallNext

LEMMA NextTyped == Typed /\ [Next]_vars => Typed'
<1> SUFFICES ASSUME Typed, [Next]_vars PROVE Typed'
  OBVIOUS
<1>1. Streams' /\ Opts' /\ Flow'
  BY NextStreams, NextOpts, NextFlow DEF Typed
<1>2. Image' /\ Reader' /\ Calling'
  BY NextImage, NextReader, NextCalling
<1> QED
  BY <1>1, <1>2 DEF Typed

LEMMA AlwaysTyped == Spec => []Typed
  BY InitTyped, NextTyped, PTL DEF Spec

(* For every command line, file, input and guest: every variable of the    *)
(* process keeps its type, and every counter its limit.                    *)
THEOREM TypeCorrect == Spec => []TypeOK
<1>1. Typed => TypeOK
  <2> SUFFICES ASSUME Typed PROVE TypeOK
    OBVIOUS
  <2>1. (end # "none") = (phase = "over")
    BY DEF Typed, Flow
  <2>2. copied <= Len(segs)
    BY DEF Typed, Reader
  <2>3. marks \in [DOMAIN PageMap -> SUBSET {"A", "D"}]
    BY DEF Typed, Calling, Marks
  <2> QED
    BY <2>1, <2>2, <2>3 DEF Typed, Opts, Flow, Phases, Reader, Calling, TypeOK
<1> QED
  BY <1>1, AlwaysTyped, PTL

-----------------------------------------------------------------------------
(* The stack and the segments copied so far lie in memory; with ascending  *)
(* headers, each of these segments is in its place already.                *)
Fits ==
    phase \in {"copy", "run"} =>
        /\ sp = Top - 2 * PageSize
        /\ \A j \in 1 .. copied : segs[j].va + segs[j].size <= Top

InPlace(j) ==
    \A k \in 0 .. Headers[j].memsz - 1 :
        /\ Headers[j].va + k \in DOMAIN mem
        /\ mem[Headers[j].va + k] = Bytes(Headers[j])[k]

Loaded == Fits /\ (phase = "copy" /\ Ascending => \A j \in 1 .. copied : InPlace(j))

LEMMA HeaderFacts ==
    ASSUME opt.elf_file \in DOMAIN Files, NEW j \in 1 .. Len(Headers)
    PROVE  /\ Headers[j] \in Header
           /\ Headers[j].va \in Nat /\ Headers[j].memsz \in Nat
           /\ Headers[j].off \in Nat /\ Headers[j].filesz \in Nat
<1>1. Headers[j] \in Header
  BY HeadersFacts
<1> QED
  BY <1>1 DEF Header

LEMMA WordsCover == \A n \in Nat : WordSize * n \in Nat /\ n <= WordSize * n
  BY FilesAssumption

(* A copy leaves the segments before it alone and puts its own in place.   *)
LEMMA CopySegmentLoaded == ASSUME Typed, Loaded, CopySegment PROVE Loaded'
<1>1. /\ phase = "copy" /\ copied < Len(segs) /\ UNCHANGED <<opt, segs, sp>>
  BY DEF CopySegment, optionVars
<1>0. PICK c \in Nat : c = copied + 1
  BY DEF Typed, Reader
<1> DEFINE s == segs[c]
           h == Headers[c]
<1>2. CASE phase' = "over"
  BY <1>2 DEF Loaded, Fits
<1>3. CASE phase' # "over"
  <2>1. /\ segs \in Seq(Segments) /\ copied \in Nat /\ opt.elf_file \in DOMAIN Files
        /\ Len(segs) = Len(Headers) /\ s = Segment(h)
    BY <1>0, <1>1 DEF Typed, Reader, Reading
  <2>2. /\ s.va + s.size <= Top /\ mem' = Memcpy(mem, s) /\ copied' = c /\ phase' = "copy"
    <3>1. MemSize = Top
      BY <1>1 DEF MemSize, Top, Typed, Image
    <3>2. s.va \in Nat /\ s.size \in Nat
      BY <1>0, <1>1, <2>1, SegmentFacts
    <3>3. ~(s.va + s.size > Top)
      BY <1>0, <1>3, <3>1 DEF CopySegment, Leave
    <3>4. mem' = Memcpy(mem, s) /\ copied' = c /\ phase' = "copy"
      BY <1>0, <1>1, <1>3 DEF CopySegment, Leave
    <3> QED
      BY <3>2, <3>3, <3>4, TopFacts
  <2>3. c \in 1 .. Len(Headers)
    BY <1>0, <1>1, <2>1, HeadersFacts
  <2>4. h.va \in Nat /\ h.memsz \in Nat
    BY <2>1, <2>3, HeaderFacts
  <2>5. s.va = h.va /\ s.size = WordSize * h.memsz /\ s.bytes = Bytes(h)
    BY <2>1 DEF Segment
  <2>6. DOMAIN Bytes(h) = 0 .. WordSize * h.memsz - 1
    BY DEF Bytes
  <2>7. DOMAIN mem = 0 .. Top - 1
    BY <1>1 DEF Typed, Image
  <2> DEFINE b == Bytes(h)
  <2>8. /\ DOMAIN mem' = DOMAIN mem
        /\ \A a \in DOMAIN mem : mem'[a] = IF a - h.va \in DOMAIN b THEN b[a - h.va] ELSE mem[a]
    BY <2>2, <2>5 DEF Memcpy
  <2>9. Headers' = Headers /\ Ascending' = Ascending
    BY <1>1 DEF Headers, Ascending
  <2>10. Fits'
    BY <1>0, <1>1, <2>1, <2>2 DEF Loaded, Fits
  <2>11. ASSUME Ascending, NEW j \in 1 .. copied PROVE InPlace(j)'
    <3>1. InPlace(j) /\ j \in 1 .. Len(Headers) /\ j < c
      BY <1>0, <1>1, <2>1, <2>11 DEF Loaded
    <3> DEFINE g == Headers[j]
    <3>2. g.va \in Nat /\ g.memsz \in Nat
      BY <2>1, <3>1, HeaderFacts
    <3>3. g.va + g.memsz <= h.va
      BY <2>1, <2>3, <2>11, <3>1, HeadersFacts DEF Ascending
    <3>4. ASSUME NEW k \in 0 .. g.memsz - 1
          PROVE  /\ g.va + k \in DOMAIN mem' /\ mem'[g.va + k] = Bytes(g)[k]
      <4>1. g.va + k \in DOMAIN mem /\ mem[g.va + k] = Bytes(g)[k]
        BY <3>1 DEF InPlace
      <4>2. (g.va + k) - h.va < 0 /\ (g.va + k) - h.va \in Int
        BY <2>4, <3>2, <3>3
      <4>3. (g.va + k) - h.va \notin DOMAIN b
        BY <2>6, <4>2
      <4> DEFINE a == g.va + k
      <4>4. a \in DOMAIN mem /\ a - h.va \notin DOMAIN b
        BY <4>1, <4>3
      <4> HIDE DEF b, h, a
      <4>5. a \in DOMAIN mem' /\ mem'[a] = mem[a]
        BY <2>8, <4>4
      <4> QED
        BY <4>1, <4>5 DEF a
    <3> QED
      BY <2>9, <3>4 DEF InPlace
  <2>12. InPlace(c)'
    <3>1. ASSUME NEW k \in 0 .. h.memsz - 1
          PROVE  h.va + k \in DOMAIN mem' /\ mem'[h.va + k] = Bytes(h)[k]
      <4>1. h.memsz <= WordSize * h.memsz /\ WordSize * h.memsz \in Nat
        BY <2>4, WordsCover
      <4>2. k \in DOMAIN b /\ (h.va + k) - h.va = k
        BY <2>4, <2>6, <4>1
      <4>3. h.va + k \in DOMAIN mem
        BY <2>2, <2>4, <2>5, <2>7, <4>1, TopFacts
      <4> HIDE DEF b, h
      <4>4. mem'[h.va + k] = b[k]
        BY <2>8, <4>2, <4>3
      <4> QED
        BY <2>8, <4>3, <4>4 DEF b
    <3> QED
      BY <2>9, <3>1 DEF InPlace
  <2>13. \A j \in 1 .. copied' : j \in 1 .. copied \/ j = c
    BY <1>0, <2>1, <2>2
  <2> QED
    BY <2>2, <2>9, <2>10, <2>11, <2>12, <2>13 DEF Loaded
<1> QED
  BY <1>2, <1>3

LEMMA LoaderFrame ==
    ASSUME [Next]_vars, Flow
    PROVE  \/ StartState \/ CopySegment
           \/ /\ phase' \in {"copy", "run"} => /\ UNCHANGED <<segs, sp, copied>>
                                              /\ phase \in {"copy", "run"}
              /\ phase' = "copy" => UNCHANGED <<opt, mem>> /\ phase = "copy"
<1>1. CASE OptionsStep
  BY <1>1 DEF OptionsStep, Construct, Help, ParseOption, ParseThrow, OpenLog, CloseLog, Parsing,
     Leave, loaderVars
<1>2. CASE LoaderStep
  BY <1>2 DEF LoaderStep, ElfInit, LoadSegment, StartExecution, Leave, optionVars, loaderVars
<1>3. CASE SyscallNext
  BY <1>3 DEF SyscallNext, Ecall, SetSatp, Budget, ReturnZero, Unsupported, ExecExit,
     GetTimeOfDay, ReadByte, ReadEOF, ReadDone, WriteByte, WriteDone, In, Return, Fault,
     processVars, optionVars, loaderVars
<1>4. CASE UNCHANGED vars
  BY <1>4 DEF vars, processVars, optionVars, loaderVars
<1> QED
  BY <1>1, <1>2, <1>3, <1>4 DEF Next, Terminated

LEMMA NextLoaded == Typed /\ Loaded /\ [Next]_vars => Loaded'
<1> SUFFICES ASSUME Typed, Loaded, [Next]_vars PROVE Loaded'
  OBVIOUS
<1>1. CASE StartState
  <2>1. phase = "load" /\ copied = 0 /\ copied' = 0 /\ sp' = MemSize - 2 * PageSize
    BY <1>1 DEF StartState, Typed, Reader
  <2>2. MemSize = Top
    BY <2>1 DEF MemSize, Top, Typed, Image
  <2> QED
    BY <2>1, <2>2 DEF Loaded, Fits
<1>2. CASE CopySegment
  BY <1>2, CopySegmentLoaded
<1>3. CASE /\ phase' \in {"copy", "run"} => /\ UNCHANGED <<segs, sp, copied>>
                                           /\ phase \in {"copy", "run"}
           /\ phase' = "copy" => UNCHANGED <<opt, mem>> /\ phase = "copy"
  <2>1. Fits'
    BY <1>3 DEF Loaded, Fits
  <2>2. ASSUME phase' = "copy", Ascending' PROVE \A j \in 1 .. copied' : InPlace(j)'
    <3>1. UNCHANGED <<opt, mem, copied>> /\ phase = "copy"
      BY <1>3, <2>2
    <3>2. Headers' = Headers
      BY <3>1 DEF Headers
    <3>3. Ascending
      BY <2>2, <3>2 DEF Ascending
    <3> QED
      BY <3>1, <3>2, <3>3 DEF Loaded, InPlace
  <2> QED
    BY <2>1, <2>2 DEF Loaded
<1> QED
  BY <1>1, <1>2, <1>3, LoaderFrame DEF Typed

LEMMA AlwaysLoaded == Spec => [](Typed /\ Loaded)
<1>1. Init => Loaded
  BY DEF Init, SyscallInit, LoaderInit, OptionsInit, Loaded, Fits
<1> QED
  BY <1>1, InitTyped, NextTyped, NextLoaded, PTL DEF Spec

(* For every file and whatever -mem-pages says: the stack and what the     *)
(* loader copies, its excess of zeros included, lie in the memory there is. *)
THEOREM CopiesInside == Spec => []InsideMemory
<1>1. Typed /\ Loaded => InsideMemory
  <2> SUFFICES ASSUME Typed, Loaded, phase \in {"copy", "run"}
               PROVE  /\ sp .. sp + 2 * PageSize - 1 \subseteq DOMAIN mem
                      /\ sp + 2 * PageSize \notin DOMAIN mem
                      /\ \A j \in 1 .. copied : \A k \in DOMAIN segs[j].bytes :
                            segs[j].va + k \in DOMAIN mem
    BY DEF InsideMemory
  <2>1. DOMAIN mem = 0 .. Top - 1 /\ sp = Top - 2 * PageSize
    BY DEF Typed, Image, Loaded, Fits
  <2>2. /\ sp .. sp + 2 * PageSize - 1 \subseteq DOMAIN mem
        /\ sp + 2 * PageSize \notin DOMAIN mem
    BY <2>1, TopFacts
  <2>3. ASSUME NEW j \in 1 .. copied, NEW k \in DOMAIN segs[j].bytes
        PROVE  segs[j].va + k \in DOMAIN mem
    <3>1. segs[j] \in Segments /\ segs[j].va + segs[j].size <= Top
      BY DEF Typed, Reader, Loaded, Fits
    <3>2. segs[j].va \in Nat /\ segs[j].size \in Nat /\ k \in 0 .. segs[j].size - 1
      BY <3>1, SegmentFacts
    <3> QED
      BY <2>1, <3>1, <3>2, TopFacts
  <2> QED
    BY <2>2, <2>3
<1> QED
  BY <1>1, AlwaysLoaded, PTL

(* For every file whose segments ascend: when the guest starts, each is in *)
(* memory as the file has it, though the copies before it overran it.      *)
THEOREM SegmentsLoaded == Spec => []ImageLoaded
<1>1. Typed /\ Loaded => ImageLoaded
  <2> SUFFICES ASSUME Typed, Loaded, phase = "copy", copied = Len(segs), Ascending,
                      NEW j \in DOMAIN Headers, NEW k \in 0 .. Headers[j].memsz - 1
               PROVE  /\ Headers[j].va + k \in DOMAIN mem
                      /\ mem[Headers[j].va + k] = IF k < Headers[j].filesz
                                                  THEN <<"file", Headers[j].off + k>> ELSE <<"zero", 0>>
    BY DEF ImageLoaded
  <2>1. opt.elf_file \in DOMAIN Files /\ Len(segs) = Len(Headers)
    BY DEF Typed, Reader, Reading
  <2>2. j \in 1 .. Len(Headers)
    BY <2>1, HeadersFacts
  <2>3. InPlace(j)
    BY <2>1, <2>2 DEF Loaded
  <2>4. Headers[j].memsz \in Nat
    BY <2>1, <2>2, HeaderFacts
  <2>5. k \in 0 .. WordSize * Headers[j].memsz - 1
    <3> DEFINE n == Headers[j].memsz
    <3> HIDE DEF n
    <3>1. n \in Nat /\ k \in 0 .. n - 1
      BY <2>4 DEF n
    <3>2. k \in 0 .. WordSize * n - 1
      BY <3>1, WordsCover
    <3> QED
      BY <3>2 DEF n
  <2>6. Bytes(Headers[j])[k] = IF k < Headers[j].filesz
                               THEN <<"file", Headers[j].off + k>> ELSE <<"zero", 0>>
    BY <2>5 DEF Bytes
  <2> QED
    BY <2>3, <2>6 DEF InPlace
<1> QED
  BY <1>1, AlwaysLoaded, PTL

-----------------------------------------------------------------------------
(* Before the guest runs there is no call; a read has consumed a byte for  *)
(* each round it finished, and stored it; a call of another kind is        *)
(* nobody's business.                                                      *)
Guest == {"run", "executed", "over"}
Idle == phase \notin Guest => call.a7 = "none"

StoredUpTo(n) ==
    \A k \in 0 .. n - 1 :
        (\A l \in k + 1 .. n - 1 : Place(call.a1 + l, 1) # Place(call.a1 + k, 1)) =>
            \E pa \in Place(call.a1 + k, 1) : mem[pa] = <<"stdin", call.in + k>>

Reads ==
    (call.a7 = "read" /\ (returned \/ phase = "run")) =>
        /\ consumed = call.in + i
        /\ returned => a0 = i /\ (i = call.a2 \/ consumed = input)
        /\ StoredUpTo(i)

Transfers == Idle /\ Reads /\ WriteTransfers /\ TimeStored

LEMMA InitTransfers == Init => Transfers
<1> SUFFICES ASSUME Init PROVE Transfers
  OBVIOUS
<1>1. call.a7 = "none"
  BY DEF Init, SyscallInit, NoCall
<1> QED
  BY <1>1 DEF Transfers, Idle, Reads, WriteTransfers, TimeStored

(* Where an object lies depends on the mode and on the size of memory only. *)
LEMMA PlaceSame ==
    ASSUME UNCHANGED <<virtual, built>>
    PROVE  /\ \A va, n : Place(va, n)' = Place(va, n)
           /\ \A va, n : Refusable(va, n)' = Refusable(va, n)
<1>1. \A va, n : Place(va, n)' = Place(va, n)
  BY DEF Place, MemSize
<1>2. \A va : Denied(va, "W")' <=> Denied(va, "W")
  BY DEF Denied
<1> HIDE DEF Denied
<1> QED
  BY <1>1, <1>2, Zenon DEF Refusable

(* Steps outside the handlers. *)
Outside ==
    /\ UNCHANGED <<call, a0, returned, i, input, consumed, output, virtual>>
    /\ phase \in Guest =>
          /\ UNCHANGED <<built, mem>> /\ phase' \in Guest
          /\ phase' # "run" \/ phase' = phase
          /\ phase = "run" => phase' = "run" \/ returned

LEMMA CallFrame ==
    ASSUME [Next]_vars, Typed
    PROVE  SyscallNext \/ Outside
<1> USE DEF Guest, Outside
<1>1. CASE OptionsStep
  BY <1>1 DEF OptionsStep, Construct, Help, ParseOption, ParseThrow, OpenLog, CloseLog, Parsing,
     Leave, syscallVars
<1>2. CASE LoaderStep
  BY <1>2 DEF LoaderStep, ElfInit, LoadSegment, StartState, CopySegment, StartExecution,
     syscallVars
<1>3. CASE UNCHANGED vars
  BY <1>3 DEF vars, processVars, Typed, Flow, Phases
<1> QED
  BY <1>1, <1>2, <1>3 DEF Next, Terminated

LEMMA OutsideTransfers == ASSUME Transfers, Outside PROVE Transfers'
<1>1. CASE phase \in Guest
  <2>1. /\ UNCHANGED <<call, a0, returned, i, input, consumed, output, virtual, built, mem>>
        /\ phase' \in Guest
        /\ phase' = "run" => phase = "run"
        /\ returned \/ phase' # "run" => returned \/ phase # "run"
    BY <1>1 DEF Outside, Guest
  <2>2. /\ \A va, n : Place(va, n)' = Place(va, n)
        /\ \A va, n : Refusable(va, n)' = Refusable(va, n)
    BY <2>1, PlaceSame
  <2>3. Idle'
    BY <2>1 DEF Idle
  <2>4. Reads'
    BY <2>1, <2>2 DEF Transfers, Reads, StoredUpTo
  <2>5. WriteTransfers'
    BY <2>1, <2>2 DEF Transfers, WriteTransfers
  <2>6. TimeStored'
    BY <2>1, <2>2 DEF Transfers, TimeStored, Tv, Tz
  <2> QED
    BY <2>3, <2>4, <2>5, <2>6 DEF Transfers
<1>2. CASE phase \notin Guest
  <2>1. call'.a7 = "none"
    BY <1>2 DEF Outside, Transfers, Idle
  <2> QED
    BY <2>1 DEF Transfers, Idle, Reads, WriteTransfers, TimeStored
<1> QED
  BY <1>1, <1>2

LEMMA EcallTransfers == ASSUME Typed, Transfers, NEW c \in Calls, Ecall(c) PROVE Transfers'
<1>1. /\ call'.in = consumed /\ call'.out = Len(output) /\ i' = 0 /\ ~returned'
      /\ phase = "run" /\ phase' = "run" /\ UNCHANGED <<consumed, output>>
  BY DEF Ecall
<1>2. consumed \in Nat /\ Len(output) \in Nat
  BY DEF Typed, Calling
<1>3. Idle'
  BY <1>1 DEF Idle, Guest
<1>4. Reads'
  BY <1>1, <1>2 DEF Reads, StoredUpTo
<1>5. WriteTransfers'
  BY <1>1, <1>2 DEF WriteTransfers
<1>6. TimeStored'
  BY <1>1 DEF TimeStored
<1> QED
  BY <1>3, <1>4, <1>5, <1>6 DEF Transfers

(* The round of a write puts out the byte of the buffer it is at. *)
LEMMA WriteTransfersStep ==
    ASSUME Typed, WriteTransfers, WriteByte \/ WriteDone
    PROVE  WriteTransfers'
<1>1. /\ call.a7 = "write" /\ ~returned /\ phase = "run"
      /\ UNCHANGED <<call, virtual, built, mem>>
  BY DEF WriteByte, WriteDone, In, Return, Fault, processVars
<1>2. \A va, n : Place(va, n)' = Place(va, n)
  BY <1>1, PlaceSame
<1>3. /\ Len(output) = call.out + i
      /\ \A k \in 0 .. i - 1 : \E pa \in Place(call.a1 + k, 1) : output[call.out + k + 1] = mem[pa]
  BY <1>1 DEF WriteTransfers
<1>4. output \in Seq(Byte) /\ i \in Nat /\ call.out \in Nat /\ call.a1 \in Nat
  BY DEF Typed, Calling
<1>5. CASE WriteDone
  BY <1>1, <1>2, <1>3, <1>5 DEF WriteDone, Return, WriteTransfers
<1>6. CASE WriteByte /\ UNCHANGED <<i, output>>
  <2>1. ~returned'
    BY <1>1, <1>6 DEF WriteByte, Fault
  <2> QED
    BY <1>1, <1>2, <1>3, <1>6, <2>1 DEF WriteTransfers
<1>7. CASE WriteByte /\ ~UNCHANGED <<i, output>>
  <2>1. ~returned' /\ i' = i + 1
    BY <1>1, <1>7 DEF WriteByte, Fault
  <2>2. PICK pa \in Place(call.a1 + i, 1) : output' = Append(output, mem[pa])
    BY <1>7, SlotPlace DEF WriteByte, Fault
  <2>3. pa \in Place(call.a1 + i, 1) /\ mem[pa] \in Byte
    BY <1>1, <2>2, SlotFacts
  <2> DEFINE x == mem[pa]
  <2>4. output' = Append(output, x) /\ x \in Byte /\ x = mem[pa]
    BY <2>2, <2>3
  <2> HIDE DEF x
  <2>5. /\ Len(output') = call.out + i + 1 /\ output'[call.out + i + 1] = x
        /\ \A k \in 1 .. call.out + i : output'[k] = output[k]
    BY <1>3, <1>4, <2>4
  <2>6. ASSUME NEW k \in 0 .. i
        PROVE  \E q \in Place(call.a1 + k, 1) : output'[call.out + k + 1] = mem[q]
    <3>1. CASE k = i
      BY <2>3, <2>4, <2>5, <3>1
    <3>2. CASE k # i
      <4>1. k \in 0 .. i - 1 /\ call.out + k + 1 \in 1 .. call.out + i
        BY <1>4, <3>2
      <4> QED
        BY <1>3, <2>5, <4>1
    <3> QED
      BY <3>1, <3>2
  <2>7. i' - 1 = i /\ Len(output') = call.out + i'
    <3>1. i' - 1 = i /\ call.out + i' = call.out + i + 1
      BY <1>4, <2>1
    <3> QED
      BY <2>5, <3>1
  <2> QED
    BY <1>1, <1>2, <2>1, <2>6, <2>7 DEF WriteTransfers
<1> QED
  BY <1>5, <1>6, <1>7

(* The round of a read puts the byte it took where the buffer's byte lies, *)
(* and leaves those it stored before, unless they lie there too.           *)
LEMMA ReadByteReads == ASSUME Typed, Reads, ReadByte PROVE Reads'
<1>1. /\ call.a7 = "read" /\ ~returned /\ phase = "run" /\ consumed' = consumed + 1
      /\ UNCHANGED <<call, virtual, built>> /\ ~returned'
  BY DEF ReadByte, In, Fault, processVars
<1>2. CASE phase' # "run"
  BY <1>1, <1>2 DEF Reads
<1>3. CASE phase' = "run"
  <2>1. \A va, n : Place(va, n)' = Place(va, n)
    BY <1>1, PlaceSame
  <2>2. consumed = call.in + i /\ StoredUpTo(i)
    BY <1>1 DEF Reads
  <2>3. /\ i \in Nat /\ call.a1 \in Nat /\ call.in \in Nat /\ consumed \in Nat
        /\ fds[0] = "stdin" /\ mem \in [0 .. Top - 1 -> Byte] /\ Image
    BY <1>1 DEF Typed, Calling, Streams, StandardStreams, Image
  <2> DEFINE b == <<fds[0], consumed>>
  <2>4. /\ i' = i + 1
        /\ \E pa \in Place(call.a1 + i, 1) : mem' = Stored(mem, pa, [k \in {0} |-> b])
    BY <1>3, SlotPlace DEF ReadByte, Fault
  <2>5. PICK pa \in Place(call.a1 + i, 1) : mem' = Stored(mem, pa, [k \in {0} |-> b])
    BY <2>4
  <2>6. /\ pa \in Place(call.a1 + i, 1) /\ pa \in 0 .. Top - 1
        /\ \A q \in Place(call.a1 + i, 1) : q = pa
    BY <1>1, <2>5, SlotFacts
  <2>7. b = <<"stdin", call.in + i>>
    BY <2>2, <2>3
  <2> HIDE DEF b
  <2>8. /\ mem'[pa] = b
        /\ \A q \in 0 .. Top - 1 : q # pa => mem'[q] = mem[q]
    BY <2>3, <2>5, <2>6 DEF Stored
  <2>9. ASSUME NEW k \in 0 .. i,
               \A l \in k + 1 .. i : Place(call.a1 + l, 1) # Place(call.a1 + k, 1)
        PROVE  \E q \in Place(call.a1 + k, 1) : mem'[q] = <<"stdin", call.in + k>>
    <3>1. CASE k = i
      BY <2>6, <2>7, <2>8, <3>1
    <3>2. CASE k # i
      <4>1. k \in 0 .. i - 1 /\ i \in k + 1 .. i /\ call.a1 + k \in Nat /\ 1 \in Nat
        BY <2>3, <3>2
      <4>2. \A l \in k + 1 .. i - 1 : l \in k + 1 .. i
        BY <2>3
      <4>3. PICK q \in Place(call.a1 + k, 1) : mem[q] = <<"stdin", call.in + k>>
        BY <2>2, <2>9, <4>1, <4>2 DEF StoredUpTo
      <4>4. q \in Nat /\ q + 1 < Top /\ \A r \in Place(call.a1 + k, 1) : r = q
        BY <1>1, <2>3, <4>1, <4>3, PlaceFacts
      <4>5. q # pa
        <5>1. Place(call.a1 + i, 1) # Place(call.a1 + k, 1)
          BY <2>9, <4>1
        <5>2. Place(call.a1 + i, 1) = {pa} /\ Place(call.a1 + k, 1) = {q}
          BY <2>6, <4>3, <4>4
        <5> QED
          BY <5>1, <5>2
      <4>6. q \in 0 .. Top - 1
        BY <4>4, TopFacts
      <4> QED
        BY <2>8, <4>3, <4>5, <4>6
    <3> QED
      BY <3>1, <3>2
  <2>10. consumed' = call.in + i' /\ i' - 1 = i
    BY <1>1, <2>2, <2>3, <2>4
  <2>11. StoredUpTo(i)'
    BY <1>1, <2>1, <2>9, <2>10 DEF StoredUpTo
  <2> QED
    BY <1>1, <2>10, <2>11 DEF Reads
<1> QED
  BY <1>2, <1>3

LEMMA ReadReturns == ASSUME Typed, Reads, ReadEOF \/ ReadDone PROVE Reads'
<1>1. /\ call.a7 = "read" /\ phase = "run" /\ a0' = i /\ (i = call.a2 \/ consumed = input)
      /\ UNCHANGED <<call, virtual, built, mem, i, consumed, input>>
  BY DEF ReadEOF, ReadDone, In, Return, processVars
<1>2. \A va, n : Place(va, n)' = Place(va, n)
  BY <1>1, PlaceSame
<1>3. consumed = call.in + i /\ StoredUpTo(i)
  BY <1>1 DEF Reads
<1>4. StoredUpTo(i)'
  BY <1>1, <1>2, <1>3 DEF StoredUpTo
<1> QED
  BY <1>1, <1>3, <1>4 DEF Reads

-----------------------------------------------------------------------------
(* What the store of a structure at pa does. *)
StoresAt(m, pa, v, n) ==
    /\ \A k \in 0 .. n - 1 : Stored(m, pa, v)[pa + k] = v[k]
    /\ \A a \in 0 .. Top - 1 : a \notin pa .. pa + n - 1 => Stored(m, pa, v)[a] = m[a]

LEMMA StoredReads ==
    ASSUME NEW m \in [0 .. Top - 1 -> Byte], NEW pa \in Nat, NEW v, NEW n \in Nat,
           DOMAIN v = 0 .. n - 1, pa + n < Top
    PROVE  StoresAt(m, pa, v, n)
<1> DEFINE new == Stored(m, pa, v)
<1>1. /\ DOMAIN new = 0 .. Top - 1
      /\ \A a \in 0 .. Top - 1 : new[a] = IF a - pa \in 0 .. n - 1 THEN v[a - pa] ELSE m[a]
  BY DEF Stored
<1>2. \A k \in 0 .. n - 1 : pa + k \in 0 .. Top - 1 /\ (pa + k) - pa = k
  BY TopFacts
<1>3. \A a \in 0 .. Top - 1 : a - pa \in 0 .. n - 1 => a \in pa .. pa + n - 1
  BY TopFacts
<1> HIDE DEF new
<1>4. /\ \A k \in 0 .. n - 1 : new[pa + k] = v[k]
      /\ \A a \in 0 .. Top - 1 : a \notin pa .. pa + n - 1 => new[a] = m[a]
  BY <1>1, <1>2, <1>3
<1> QED
  BY <1>4 DEF new, StoresAt

LEMMA TimeReads ==
    ASSUME NEW m \in [0 .. Top - 1 -> Byte], NEW pa \in Nat
    PROVE  /\ pa + TvSize < Top => StoresAt(m, pa, Tv, TvSize)
           /\ pa + TzSize < Top => StoresAt(m, pa, Tz, TzSize)
<1>1. /\ TvSize \in Nat /\ TzSize \in Nat
      /\ DOMAIN Tv = 0 .. TvSize - 1 /\ DOMAIN Tz = 0 .. TzSize - 1
  BY CallsAssumption DEF Tv, Tz
<1> QED
  BY <1>1, StoredReads, Zenon

LEMMA TimeStep == ASSUME Typed, GetTimeOfDay PROVE TimeStored'
<1>1. /\ call.a7 = "gettimeofday" /\ phase = "run" /\ ~returned /\ a0' = 0
      /\ UNCHANGED <<call, virtual, built>>
  BY DEF GetTimeOfDay, In, processVars
<1>2. /\ \A va, n : Place(va, n)' = Place(va, n)
      /\ \A va, n : Refusable(va, n)' = Refusable(va, n)
  BY <1>1, PlaceSame
<1>3. /\ call.a0 \in Nat /\ call.a1 \in Nat /\ TvSize \in Nat /\ TzSize \in Nat
      /\ mem \in [0 .. Top - 1 -> Byte] /\ Image
  BY <1>1, CallsAssumption DEF Typed, Calling, Image
<1>4. DOMAIN Tv = 0 .. TvSize - 1 /\ DOMAIN Tz = 0 .. TzSize - 1
  BY DEF Tv, Tz
<1> DEFINE PV == Place(call.a0, TvSize)
           PZ == Place(call.a1, TzSize)
           zone == UNION {q .. q + TzSize - 1 : q \in PZ}
<1>5. /\ \A p \in PV : p \in Nat /\ p + TvSize < Top /\ \A r \in PV : r = p
      /\ \A q \in PZ : q \in Nat /\ q + TzSize < Top /\ \A r \in PZ : r = q
  BY <1>1, <1>3, PlaceFacts
<1>6. SUFFICES \/ ~returned' /\ Refusable(call.a0, TvSize)
               \/ /\ \E p \in PV : \A k \in 0 .. TvSize - 1 : p + k \notin zone => mem'[p + k] = Tv[k]
                  /\ \/ ~returned' /\ Refusable(call.a1, TzSize)
                     \/ \E q \in PZ : \A k \in 0 .. TzSize - 1 : mem'[q + k] = Tz[k]
  BY <1>1, <1>2, <1>4 DEF TimeStored, Tv, Tz
<1>7. CASE UNCHANGED returned /\ Refusable(call.a0, TvSize)
  BY <1>1, <1>7
<1>8. CASE /\ UNCHANGED returned /\ Refusable(call.a1, TzSize)
           /\ \E p \in PV : mem' = Stored(mem, p, Tv)
  <2>1. PICK p \in PV : mem' = Stored(mem, p, Tv)
    BY <1>8
  <2>2. p \in Nat /\ p + TvSize < Top
    BY <1>5
  <2>3. \A k \in 0 .. TvSize - 1 : mem'[p + k] = Tv[k]
    <3>1. StoresAt(mem, p, Tv, TvSize)
      BY <1>3, <2>2, TimeReads
    <3> QED
      BY <2>1, <3>1 DEF StoresAt
  <2> QED
    BY <1>1, <1>8, <2>1, <2>3
<1>9. CASE \E p \in PV, q \in PZ : mem' = Stored(Stored(mem, p, Tv), q, Tz)
  <2>1. PICK p \in PV, q \in PZ : mem' = Stored(Stored(mem, p, Tv), q, Tz)
    BY <1>9
  <2>2. /\ p \in Nat /\ p + TvSize < Top /\ \A r \in PV : r = p
        /\ q \in Nat /\ q + TzSize < Top /\ \A r \in PZ : r = q
    BY <1>5
  <2> DEFINE m == Stored(mem, p, Tv)
  <2>3. m \in [0 .. Top - 1 -> Byte] /\ mem' = Stored(m, q, Tz) /\ m = Stored(mem, p, Tv)
    BY <1>3, <2>1, StoredBytes, TimeBytes
  <2> HIDE DEF m, PV, PZ
  <2>4. \A k \in 0 .. TvSize - 1 : m[p + k] = Tv[k]
    <3>1. StoresAt(mem, p, Tv, TvSize)
      BY <1>3, <2>2, TimeReads
    <3> QED
      BY <2>3, <3>1 DEF StoresAt
  <2>5. /\ \A k \in 0 .. TzSize - 1 : mem'[q + k] = Tz[k]
        /\ \A a \in 0 .. Top - 1 : a \notin q .. q + TzSize - 1 => mem'[a] = m[a]
    <3>1. StoresAt(m, q, Tz, TzSize)
      BY <2>2, <2>3, TimeReads
    <3> QED
      BY <2>3, <3>1 DEF StoresAt
  <2>6. ASSUME NEW k \in 0 .. TvSize - 1, p + k \notin zone PROVE mem'[p + k] = Tv[k]
    <3>1. p + k \in 0 .. Top - 1
      BY <1>3, <2>2, TopFacts
    <3>2. p + k \notin q .. q + TzSize - 1
      BY <2>6
    <3> QED
      BY <2>4, <2>5, <3>1, <3>2
  <2> QED
    BY <2>1, <2>2, <2>5, <2>6
<1> QED
  BY <1>7, <1>8, <1>9, TimeCases

LEMMA NextTransfers == Typed /\ Transfers /\ [Next]_vars => Transfers'
<1> SUFFICES ASSUME Typed, Transfers, [Next]_vars PROVE Transfers'
  OBVIOUS
<1>1. CASE Outside
  BY <1>1, OutsideTransfers
<1>2. CASE \E c \in Calls : Ecall(c)
  BY <1>2, EcallTransfers
<1>3. CASE SetSatp
  <2>1. call'.a7 = "none"
    BY <1>3 DEF SetSatp, NoCall
  <2> QED
    BY <2>1 DEF Transfers, Idle, Reads, WriteTransfers, TimeStored
<1>4. CASE Budget
  BY <1>1, <1>4 DEF Budget, Outside, Guest, processVars, loaderVars
<1>5. CASE ReturnZero \/ Unsupported \/ ExecExit
  <2>1. call.a7 \notin {"read", "write", "gettimeofday"} /\ UNCHANGED call /\ phase' \in Guest
    BY <1>5 DEF ReturnZero, Unsupported, ExecExit, In, Return, Fault, Guest
  <2> QED
    BY <2>1 DEF Transfers, Idle, Reads, WriteTransfers, TimeStored
<1>6. CASE ReadByte \/ ReadEOF \/ ReadDone
  <2>1. call.a7 = "read" /\ UNCHANGED call /\ phase' \in Guest
    BY <1>6 DEF ReadByte, ReadEOF, ReadDone, In, Return, Fault, Guest
  <2>2. Reads'
    BY <1>6, ReadByteReads, ReadReturns DEF Transfers
  <2> QED
    BY <2>1, <2>2 DEF Transfers, Idle, WriteTransfers, TimeStored
<1>7. CASE WriteByte \/ WriteDone
  <2>1. call.a7 = "write" /\ UNCHANGED call /\ phase' \in Guest
    BY <1>7 DEF WriteByte, WriteDone, In, Return, Fault, Guest
  <2>2. WriteTransfers'
    BY <1>7, WriteTransfersStep DEF Transfers
  <2> QED
    BY <2>1, <2>2 DEF Transfers, Idle, Reads, TimeStored
<1>8. CASE GetTimeOfDay
  <2>1. call.a7 = "gettimeofday" /\ UNCHANGED call /\ phase' \in Guest
    BY <1>8 DEF GetTimeOfDay, In, Guest
  <2>2. TimeStored'
    BY <1>8, TimeStep
  <2> QED
    BY <2>1, <2>2 DEF Transfers, Idle, Reads, WriteTransfers
<1> QED
  BY <1>1, <1>2, <1>3, <1>4, <1>5, <1>6, <1>7, <1>8, CallFrame DEF SyscallNext

LEMMA AlwaysTransfers == Spec => [](Typed /\ Transfers)
  BY InitTyped, InitTransfers, NextTyped, NextTransfers, PTL DEF Spec

(* For every buffer, input and mapping: a write has put out the bytes of   *)
(* the buffer, in order.                                                   *)
THEOREM WritesOut == Spec => []WriteTransfers
<1>1. Transfers => WriteTransfers
  BY DEF Transfers
<1> QED
  BY <1>1, AlwaysTransfers, PTL

(* For every pair of pointers: gettimeofday leaves its structures there.   *)
THEOREM TimeKept == Spec => []TimeStored
<1>1. Transfers => TimeStored
  BY DEF Transfers
<1> QED
  BY <1>1, AlwaysTransfers, PTL

LEMMA MinOf ==
    ASSUME NEW x \in Int, NEW y \in Int
    PROVE  Min({x, y}) = IF x <= y THEN x ELSE y
  BY DEF Min

(* For every buffer, input and mapping: what a read consumed, stored and   *)
(* returned are the same bytes.                                            *)
THEOREM ReadsIn == Spec => []ReadTransfers
<1>1. Typed /\ Transfers => ReadTransfers
  <2> SUFFICES ASSUME Typed, Reads, call.a7 = "read", returned
               PROVE  /\ a0 = consumed - call.in
                      /\ a0 = Min({call.a2, input - call.in})
                      /\ StoredUpTo(a0)
    BY DEF Transfers, ReadTransfers, StoredUpTo
  <2>1. consumed = call.in + i /\ a0 = i /\ StoredUpTo(i) /\ (i = call.a2 \/ consumed = input)
    BY DEF Reads
  <2>2. /\ call.in \in Nat /\ call.a2 \in Nat /\ input \in Nat /\ i \in Nat
        /\ consumed <= input /\ i <= call.a2
    BY DEF Typed, Calling
  <2>3. Min({call.a2, input - call.in}) = i
    <3>1. Min({call.a2, input - call.in}) =
            IF call.a2 <= input - call.in THEN call.a2 ELSE input - call.in
      BY <2>2, MinOf
    <3> QED
      BY <2>1, <2>2, <3>1
  <2> QED
    BY <2>1, <2>2, <2>3
<1> QED
  BY <1>1, AlwaysTransfers, PTL

-----------------------------------------------------------------------------
LEMMA Divide ==
    ASSUME NEW m \in Nat \ {0}, NEW a \in Nat
    PROVE  a \div m \in Nat /\ a % m \in 0 .. m - 1 /\ a = m * (a \div m) + (a % m)
  OBVIOUS

LEMMA DivideUnique ==
    ASSUME NEW m \in Nat \ {0}, NEW q \in Nat, NEW r \in 0 .. m - 1
    PROVE  (m * q + r) \div m = q /\ (m * q + r) % m = r
  OBVIOUS

(* An offset that does not leave the block stays in it. *)
LEMMA SameBlock ==
    ASSUME NEW m \in Nat \ {0}, NEW a \in Nat, NEW k \in Nat, (a % m) + k < m
    PROVE  (a + k) \div m = a \div m /\ (a + k) % m = (a % m) + k
<1> DEFINE q == a \div m
           r == a % m
<1>1. q \in Nat /\ r \in 0 .. m - 1 /\ a = m * q + r
  BY Divide
<1>2. r + k \in 0 .. m - 1
  BY <1>1
<1> HIDE DEF q, r
<1>3. a + k = m * q + (r + k)
  BY <1>1
<1> DEFINE t == r + k
<1>4. (m * q + t) \div m = q /\ (m * q + t) % m = t
  <2>1. t \in 0 .. m - 1
    BY <1>2
  <2> HIDE DEF t
  <2> QED
    BY <1>1, <2>1, DivideUnique
<1> QED
  BY <1>3, <1>4 DEF q, r

(* Addresses wrap where a page does. *)
LEMMA WrapsAtPage ==
    ASSUME NEW va \in Nat
    PROVE  /\ (va % AddrSpace) % PageSize = va % PageSize
           /\ (va % AddrSpace) + (PageSize - (va % PageSize)) <= AddrSpace
<1>1. PageSize \in Nat \ {0} /\ AddrSpace \in Nat \ {0}
  BY AddressAssumption, TopFacts
<1> DEFINE D == AddrSpace \div PageSize
           c == va \div AddrSpace
           a == va % AddrSpace
           d == a \div PageSize
           r == a % PageSize
<1>2. D \in Nat /\ AddrSpace = PageSize * D
  BY <1>1, AddressAssumption, Divide
<1>3. c \in Nat /\ a \in 0 .. AddrSpace - 1 /\ va = AddrSpace * c + a
  BY <1>1, Divide
<1> HIDE DEF a, c, D
<1>4. d \in Nat /\ r \in 0 .. PageSize - 1 /\ a = PageSize * d + r
  <2>1. a \in Nat
    BY <1>1, <1>3
  <2> QED
    BY <1>1, <2>1, Divide
<1> HIDE DEF d, r
<1>5. va = PageSize * (D * c + d) + r /\ D * c + d \in Nat
  BY <1>1, <1>2, <1>3, <1>4
<1>6. va % PageSize = r
  BY <1>1, <1>4, <1>5, DivideUnique
<1>7. d < D
  BY <1>1, <1>2, <1>3, <1>4
<1>8. PageSize * (d + 1) <= PageSize * D
  BY <1>1, <1>2, <1>4, <1>7
<1>9. a + (PageSize - r) <= AddrSpace
  BY <1>1, <1>2, <1>4, <1>8
<1> QED
  BY <1>6, <1>9 DEF a, r

(* The bytes of an object in one page lie where their addresses do. *)
LEMMA PlaceBytes ==
    ASSUME Typed, phase = "run", NEW va \in Nat, NEW n \in Nat, ~Crosses(va, n),
           NEW pa \in Place(va, n), NEW k \in 0 .. n - 1
    PROVE  pa + k \in Place(va + k, 1)
<1>1. Image /\ virtual \in BOOLEAN /\ MemSize = Top
  BY DEF Typed, Calling, Image, MemSize, Top
<1>2. pa \in Nat /\ pa + n < Top /\ Top \in Nat
  BY <1>1, PlaceFacts, TopFacts
<1>3. /\ PageSize \in Nat \ {0} /\ AddrSpace \in Nat \ {0} /\ Top <= AddrSpace
  BY AddressAssumption, TopFacts DEF Top
<1>4. k \in Nat /\ k < n /\ va + k \in Nat
  OBVIOUS
<1>5. (pa + k) + 1 < MemSize
  BY <1>1, <1>2, <1>4
<1> DEFINE a == va % AddrSpace
<1>6. a \in Nat
  BY <1>3, Divide
<1>7. CASE ~virtual
  <2>1. pa = a
    BY <1>7 DEF Place
  <2>2. (va % AddrSpace) + k < AddrSpace
    BY <1>2, <1>3, <1>4, <2>1
  <2>3. (va + k) % AddrSpace = a + k
    BY <1>3, <1>4, <2>2, SameBlock
  <2> QED
    BY <1>5, <1>7, <2>1, <2>3 DEF Place
<1>8. CASE virtual
  <2>1. (va % PageSize) + n <= PageSize
    <3>1. va % PageSize \in Nat
      BY <1>3, Divide
    <3> QED
      BY <1>3, <1>8, <3>1 DEF Crosses
  <2>2. a % PageSize = va % PageSize /\ a + (PageSize - (va % PageSize)) <= AddrSpace
    BY WrapsAtPage
  <2>3. va % PageSize \in Nat
    BY <1>3, Divide
  <2>4. a + k < AddrSpace
    BY <1>3, <1>4, <1>6, <2>1, <2>2, <2>3
  <2>5. (va + k) % AddrSpace = a + k
    BY <1>3, <1>4, <2>4, SameBlock
  <2>6. (a % PageSize) + k < PageSize
    BY <1>3, <1>4, <2>1, <2>2, <2>3
  <2> HIDE DEF a
  <2>7. (a + k) \div PageSize = a \div PageSize /\ (a + k) % PageSize = (a % PageSize) + k
    BY <1>3, <1>4, <1>6, <2>6, SameBlock
  <2>8. PICK p \in DOMAIN PageMap : p = a \div PageSize /\ pa = (PageMap[p].frame * PageSize) + (a % PageSize)
    BY <1>8 DEF Place, Page, a
  <2>9. PageMap[p].frame * PageSize \in Nat /\ a % PageSize \in Nat
    <3>1. PageMap[p].frame \in Nat
      BY AddressAssumption
    <3>2. a % PageSize \in 0 .. PageSize - 1
      BY <1>3, <1>6, Divide
    <3> DEFINE x == PageMap[p].frame
    <3> HIDE DEF x
    <3>3. x * PageSize \in Nat
      BY <1>3, <3>1 DEF x
    <3> QED
      BY <1>3, <3>2, <3>3 DEF x
  <2> DEFINE w == PageMap[p].frame * PageSize
             o == a % PageSize
             b == a + k
  <2>10. pa + k = w + (o + k)
    <3>1. pa = w + o /\ w \in Nat /\ o \in Nat
      BY <2>8, <2>9
    <3> HIDE DEF w, o
    <3> QED
      BY <1>4, <3>1
  <2>11. p = b \div PageSize /\ pa + k = (PageMap[p].frame * PageSize) + (b % PageSize)
    BY <2>7, <2>8, <2>10
  <2>12. (va + k) % AddrSpace = b
    BY <2>5
  <2> HIDE DEF b
  <2> QED
    BY <1>5, <1>8, <2>8, <2>11, <2>12 DEF Place, Page
<1> QED
  BY <1>1, <1>7, <1>8

(* The store of a structure changes the bytes its pointer names. *)
LEMMA WrittenAt ==
    ASSUME Typed, phase = "run", NEW va \in Nat, NEW n \in Nat, NEW pa \in Place(va, n),
           NEW a \in pa .. pa + n - 1
    PROVE  a \in Writes(va, n)
<1>1. CASE Crosses(va, n)
  BY <1>1 DEF Writes
<1>2. CASE ~Crosses(va, n)
  <2>1. pa \in Nat
    BY PlaceFacts DEF Typed
  <2>2. PICK k \in 0 .. n - 1 : a = pa + k
    <3>1. a - pa \in 0 .. n - 1 /\ a = pa + (a - pa)
      BY <2>1
    <3> QED
      BY <3>1
  <2>3. a \in Place(va + k, 1)
    BY <1>2, <2>2, PlaceBytes
  <2> QED
    BY <1>2, <2>3 DEF Writes, Places
<1> QED
  BY <1>1, <1>2

(* The bytes a step changes. *)
LEMMA BytesChange ==
    ASSUME Typed, [Next]_vars, phase = "run", NEW a \in DOMAIN mem, mem'[a] # mem[a]
    PROVE  \/ call.a7 = "read" /\ a \in Places(call.a1, call.a2)
           \/ /\ call.a7 = "gettimeofday"
              /\ a \in Writes(call.a0, TvSize) \union Writes(call.a1, TzSize)
<1>1. /\ mem \in [0 .. Top - 1 -> Byte] /\ a \in 0 .. Top - 1 /\ Image
      /\ call.a0 \in Nat /\ call.a1 \in Nat /\ call.a2 \in Nat /\ i \in Nat
      /\ TvSize \in Nat /\ TzSize \in Nat
  BY CallsAssumption DEF Typed, Image, Calling
<1>2. CASE ReadByte
  <2>1. call.a7 = "read" /\ i < call.a2
    BY <1>2 DEF ReadByte, In
  <2> DEFINE b == <<fds[0], consumed>>
  <2>2. mem' = mem \/ \E pa \in Place(call.a1 + i, 1) : mem' = Stored(mem, pa, [k \in {0} |-> b])
    BY <1>2, SlotPlace DEF ReadByte, Fault
  <2> HIDE DEF b
  <2>3. PICK pa \in Place(call.a1 + i, 1) : mem' = Stored(mem, pa, [k \in {0} |-> b])
    BY <2>2
  <2>4. pa \in 0 .. Top - 1 /\ pa \in Place(call.a1 + i, 1)
    BY <2>3, SlotFacts
  <2>5. a = pa
    BY <1>1, <2>3, <2>4 DEF Stored
  <2>6. i \in 0 .. call.a2 - 1
    BY <1>1, <2>1
  <2> QED
    BY <2>1, <2>4, <2>5, <2>6 DEF Places
<1>3. CASE GetTimeOfDay
  <2>1. call.a7 = "gettimeofday"
    BY <1>3 DEF GetTimeOfDay, In
  <2> DEFINE PV == Place(call.a0, TvSize)
             PZ == Place(call.a1, TzSize)
  <2>2. \/ mem' = mem
        \/ \E p \in PV : mem' = Stored(mem, p, Tv)
        \/ \E p \in PV, q \in PZ : mem' = Stored(Stored(mem, p, Tv), q, Tz)
    BY <1>3, TimeCases
  <2>3. \A p \in PV : p \in Nat /\ p + TvSize < Top /\ StoresAt(mem, p, Tv, TvSize)
    <3>1. \A p \in PV : p \in Nat /\ p + TvSize < Top
      BY <1>1, PlaceFacts
    <3> QED
      BY <1>1, <3>1, TimeReads
  <2>4. \A p \in PV, q \in PZ : StoresAt(Stored(mem, p, Tv), q, Tz, TzSize)
    <3>1. \A q \in PZ : q \in Nat /\ q + TzSize < Top
      BY <1>1, PlaceFacts
    <3>2. \A p : Stored(mem, p, Tv) \in [0 .. Top - 1 -> Byte]
      BY <1>1, StoredBytes, TimeBytes
    <3> QED
      BY <3>1, <3>2, TimeReads
  <2>5. \/ \E p \in PV : a \in p .. p + TvSize - 1
        \/ \E q \in PZ : a \in q .. q + TzSize - 1
    <3>1. CASE \E p \in PV : mem' = Stored(mem, p, Tv)
      BY <1>1, <2>3, <3>1 DEF StoresAt
    <3>2. CASE \E p \in PV, q \in PZ : mem' = Stored(Stored(mem, p, Tv), q, Tz)
      <4>1. PICK p \in PV, q \in PZ : mem' = Stored(Stored(mem, p, Tv), q, Tz)
        BY <3>2
      <4> DEFINE m == Stored(mem, p, Tv)
      <4>2. a \notin p .. p + TvSize - 1 => m[a] = mem[a]
        BY <1>1, <2>3 DEF StoresAt
      <4>3. a \notin q .. q + TzSize - 1 => mem'[a] = m[a]
        BY <1>1, <2>4, <4>1 DEF StoresAt
      <4> QED
        BY <4>2, <4>3
    <3> QED
      BY <2>2, <3>1, <3>2
  <2>6. a \in Writes(call.a0, TvSize) \/ a \in Writes(call.a1, TzSize)
    BY <1>1, <2>5, WrittenAt
  <2> QED
    BY <2>1, <2>6
<1>4. ~Construct /\ ~CopySegment
  BY DEF Construct, CopySegment
<1> QED
  BY <1>2, <1>3, <1>4, MemoryFrame

(* One access, at an address the call names, marks that address's page. *)
LEMMA AccessMarks ==
    ASSUME NEW mk \in Marks, NEW va, NEW n, NEW acc, NEW o \in Accesses(mk, va, n, acc),
           NEW p \in DOMAIN PageMap
    PROVE  /\ o.marks \in Marks
           /\ \/ o.marks[p] = mk[p]
              \/ virtual /\ p \in Page(va) /\ o.marks[p] = mk[p] \union Bits(acc)
<1>1. o.marks \in Marks
  BY MarksKept
<1>2. \/ o.marks = mk
      \/ virtual /\ \E q \in Page(va) : o.marks = [mk EXCEPT ![q] = @ \union Bits(acc)]
  BY AccessFacts
<1> QED
  BY <1>1, <1>2 DEF Marks

(* The steps that mark. *)
LEMMA MarksFrame ==
    ASSUME [Next]_vars
    PROVE  ReadByte \/ WriteByte \/ GetTimeOfDay \/ UNCHANGED marks
  BY DEF Next, OptionsStep, LoaderStep, Terminated, syscallVars,
     SyscallNext, Ecall, SetSatp, Budget, ReturnZero, Unsupported, ExecExit,
     ReadEOF, ReadDone, WriteDone, vars

(* The marks a step changes. *)
LEMMA MarksChange ==
    ASSUME Typed, [Next]_vars, phase = "run", NEW p \in DOMAIN PageMap, marks'[p] # marks[p]
    PROVE  /\ virtual /\ \E va \in Named : p \in Page(va)
           /\ marks[p] \subseteq marks'[p]
           /\ call.a7 = "write" => marks'[p] = marks[p] \union {"A"}
<1>1. marks \in Marks /\ call.a2 \in Nat /\ i \in Nat
  BY DEF Typed, Calling
<1>2. ASSUME NEW acc, \E o \in Slot(call.a1, acc) : marks' = o.marks, i < call.a2,
             call.a7 \in {"read", "write"}
      PROVE  /\ virtual /\ \E va \in Named : p \in Page(va)
             /\ marks'[p] = marks[p] \union Bits(acc)
  <2>1. virtual /\ p \in Page(call.a1 + i) /\ marks'[p] = marks[p] \union Bits(acc)
    BY <1>1, <1>2, AccessMarks DEF Slot
  <2>2. i \in 0 .. call.a2 - 1
    BY <1>1, <1>2
  <2>3. call.a1 + i \in Named
    BY <1>2, <2>2 DEF Named
  <2> QED
    BY <2>1, <2>3
<1>3. CASE ReadByte
  <2>1. call.a7 = "read" /\ i < call.a2 /\ \E o \in Slot(call.a1, "W") : marks' = o.marks
    BY <1>3 DEF ReadByte, In
  <2> QED
    BY <1>2, <2>1
<1>4. CASE WriteByte
  <2>1. call.a7 = "write" /\ i < call.a2 /\ \E o \in Slot(call.a1, "R") : marks' = o.marks
    BY <1>4 DEF WriteByte, In
  <2>2. Bits("R") = {"A"}
    BY DEF Bits
  <2> QED
    BY <1>2, <2>1, <2>2
<1>5. CASE GetTimeOfDay
  <2>1. call.a7 = "gettimeofday"
    BY <1>5 DEF GetTimeOfDay, In
  <2>2. call.a0 \in Named /\ call.a1 \in Named
    BY <2>1 DEF Named
  <2>3. PICK tv \in Accesses(marks, call.a0, TvSize, "W") :
          \/ marks' = tv.marks
          \/ \E tz \in Accesses(tv.marks, call.a1, TzSize, "W") : marks' = tz.marks
    BY <1>5 DEF GetTimeOfDay, TvPointer
  <2>4. /\ tv.marks \in Marks
        /\ \/ tv.marks[p] = marks[p]
           \/ virtual /\ p \in Page(call.a0) /\ tv.marks[p] = marks[p] \union Bits("W")
    BY <1>1, AccessMarks
  <2>5. ASSUME NEW tz \in Accesses(tv.marks, call.a1, TzSize, "W")
        PROVE  \/ tz.marks[p] = tv.marks[p]
               \/ virtual /\ p \in Page(call.a1) /\ tz.marks[p] = tv.marks[p] \union Bits("W")
    BY <2>4, AccessMarks
  <2> QED
    BY <2>1, <2>2, <2>3, <2>4, <2>5
<1> QED
  BY <1>3, <1>4, <1>5, MarksFrame

LEMMA BuffersChange == ASSUME Typed, [Next]_vars PROVE BufferOnly
  BY BytesChange, MarksChange DEF BufferOnly

(* For every call, mapping and page rights, in either addressing mode: a   *)
(* system call changes the buffers its arguments name and the accessed and *)
(* dirty bits of their pages, which it sets as its kind of access demands, *)
(* and nothing else of the guest's memory.                                 *)
THEOREM CallsStayInBuffers == Spec => OnlyBuffers
  BY AlwaysTyped, BuffersChange, PTL DEF Spec, OnlyBuffers

-----------------------------------------------------------------------------
(* P is the options among the arguments before n, each with its value      *)
(* before n.                                                               *)
Prefix(P, n) ==
    /\ \A p \in P : argv[p] \in Option
    /\ \A p \in 1 .. n - 1 : p \in P <=> ~(p - 1 \in P /\ argv[p - 1] \notin Flags)
    /\ \A p \in P : argv[p] \notin Flags => p + 1 \in 1 .. n - 1
    /\ \A p \in P : argv[p] \in Sizes => argv[p + 1] \in DOMAIN Number

(* No reading of the whole command line has other options before n. *)
Forced(P, n) ==
    \A Q \in SUBSET DOMAIN argv : Parse(Q) => \A p \in 1 .. n - 1 : p \in Q <=> p \in P

ReadsTo(P, n) == P \subseteq 1 .. n - 1 /\ Prefix(P, n) /\ Forced(P, n)

(* What was parsed so far is read in the only way it can be, the options   *)
(* have the values it asks for, and parsing ends with the command line.    *)
Parsed ==
    /\ \E P \in SUBSET DOMAIN argv :
          ReadsTo(P, cur_arg) /\ \A o \in Option : opt[o] = Asked(P, o)
    /\ (phase \notin {"static", "parse"} /\ end \notin {"help", "usage"}) => cur_arg = Len(argv) + 1
    /\ end = "usage" => ~\E P \in SUBSET DOMAIN argv : Parse(P)

LEMMA ArgvFacts ==
    ASSUME Opts
    PROVE  /\ argv \in Seq(STRING) /\ Len(argv) \in Nat /\ DOMAIN argv = 1 .. Len(argv)
           /\ cur_arg \in 1 .. Len(argv) + 1
  BY ArgumentsAssumption DEF Opts

LEMMA ParseFacts ==
    ASSUME NEW Q, Parse(Q)
    PROVE  /\ \A p \in Q : argv[p] \in Option
           /\ \A p \in DOMAIN argv : p \in Q <=> ~(p - 1 \in Q /\ argv[p - 1] \notin Flags)
           /\ \A p \in Q : argv[p] \notin Flags => p + 1 \in DOMAIN argv
           /\ \A p \in Q : argv[p] \in Sizes => argv[p + 1] \in DOMAIN Number
  BY DEF Parse

(* The argument the parser looks at is an option in every reading. *)
LEMMA NextIsOption ==
    ASSUME Opts, cur_arg <= Len(argv), NEW P, ReadsTo(P, cur_arg),
           NEW Q \in SUBSET DOMAIN argv, Parse(Q)
    PROVE  cur_arg \in Q
<1> DEFINE n == cur_arg
<1>1. n - 1 \in P => argv[n - 1] \in Flags
  BY ArgvFacts DEF ReadsTo, Prefix
<1>2. n \in DOMAIN argv /\ n \in Nat /\ DOMAIN argv = 1 .. Len(argv) /\ Len(argv) \in Nat
  BY ArgvFacts
<1>3. n - 1 \in Q => n - 1 \in P
  <2>1. n - 1 \in Q => n - 1 \in 1 .. n - 1
    BY <1>2
  <2> QED
    BY <2>1 DEF ReadsTo, Forced
<1> QED
  BY <1>1, <1>2, <1>3, ParseFacts

(* An option and its value, up to next, extend what was read. *)
LEMMA ReadsOn ==
    ASSUME Opts, cur_arg <= Len(argv), NEW P \in SUBSET DOMAIN argv, ReadsTo(P, cur_arg),
           argv[cur_arg] \in Option, NEW next,
           \/ argv[cur_arg] \in Flags /\ next = cur_arg + 1
           \/ /\ argv[cur_arg] \notin Flags /\ next = cur_arg + 2 /\ cur_arg + 1 <= Len(argv)
              /\ argv[cur_arg] \in Sizes => argv[cur_arg + 1] \in DOMAIN Number
    PROVE  ReadsTo(P \union {cur_arg}, next) /\ P \union {cur_arg} \in SUBSET DOMAIN argv
<1> DEFINE n == cur_arg
           R == P \union {n}
<1>1. /\ n \in DOMAIN argv /\ n \in Nat \ {0} /\ DOMAIN argv = 1 .. Len(argv)
      /\ Len(argv) \in Nat /\ next \in {n + 1, n + 2}
  BY ArgvFacts
<1>2. P \subseteq 1 .. n - 1 /\ Prefix(P, n) /\ Forced(P, n)
  BY DEF ReadsTo
<1>3. R \subseteq 1 .. next - 1 /\ R \subseteq DOMAIN argv /\ n + 1 \notin R
  BY <1>1, <1>2
<1>4. n - 1 \in P => argv[n - 1] \in Flags
  BY <1>1, <1>2 DEF Prefix
<1>5. \A p \in 1 .. next - 1 : p \in 1 .. n - 1 \/ p = n \/ (p = n + 1 /\ argv[n] \notin Flags)
  BY <1>1
<1>6. \A p \in R : argv[p] \in Option
  BY <1>2 DEF Prefix
<1>7. ASSUME NEW p \in 1 .. next - 1
      PROVE  p \in R <=> ~(p - 1 \in R /\ argv[p - 1] \notin Flags)
  <2>1. CASE p \in 1 .. n - 1
    <3>1. (p \in R <=> p \in P) /\ (p - 1 \in R <=> p - 1 \in P)
      BY <1>1, <2>1
    <3> QED
      BY <1>2, <2>1, <3>1 DEF Prefix
  <2>2. CASE p = n
    <3>1. p \in R /\ (p - 1 \in R <=> p - 1 \in P)
      BY <1>1, <2>2
    <3> QED
      BY <1>4, <2>2, <3>1
  <2>3. CASE p = n + 1 /\ argv[n] \notin Flags
    <3>1. p \notin R /\ p - 1 = n /\ n \in R
      BY <1>1, <1>3, <2>3
    <3> QED
      BY <2>3, <3>1
  <2> QED
    BY <1>5, <2>1, <2>2, <2>3
<1>8. \A p \in R : argv[p] \notin Flags => p + 1 \in 1 .. next - 1
  BY <1>1, <1>2 DEF Prefix
<1>9. \A p \in R : argv[p] \in Sizes => argv[p + 1] \in DOMAIN Number
  BY <1>2, Kinds DEF Prefix
<1>10. Prefix(R, next)
  BY <1>6, <1>7, <1>8, <1>9 DEF Prefix
<1>11. ASSUME NEW Q \in SUBSET DOMAIN argv, Parse(Q), NEW p \in 1 .. next - 1
       PROVE  p \in Q <=> p \in R
  <2>1. n \in Q
    BY <1>11, NextIsOption
  <2>2. CASE p \in 1 .. n - 1
    <3>1. p \in Q <=> p \in P
      BY <1>2, <1>11, <2>2 DEF Forced
    <3> QED
      BY <1>1, <2>2, <3>1
  <2>3. CASE p = n
    BY <2>1, <2>3
  <2>4. CASE p = n + 1 /\ argv[n] \notin Flags
    <3>1. n + 1 \in DOMAIN argv /\ (n + 1) - 1 = n
      BY <1>1, <2>4
    <3>2. n + 1 \notin Q
      BY <1>11, <2>1, <2>4, <3>1, ParseFacts
    <3> QED
      BY <1>3, <2>4, <3>2
  <2> QED
    BY <1>5, <2>2, <2>3, <2>4
<1>12. Forced(R, next)
  BY <1>11 DEF Forced
<1> QED
  BY <1>3, <1>10, <1>12 DEF ReadsTo

LEMMA MaxLast ==
    ASSUME NEW S, NEW n \in S, n \in Int, \A x \in S : x \in Int /\ x <= n
    PROVE  Max(S) = n
<1>1. \A x \in S : n >= x
  OBVIOUS
<1>2. Max(S) \in S /\ \A x \in S : Max(S) >= x
  BY <1>1 DEF Max
<1> DEFINE m == Max(S)
<1> HIDE DEF m
<1>3. m \in S /\ m >= n
  BY <1>2 DEF m
<1>4. m = n
  BY <1>3
<1> QED
  BY <1>4 DEF m

(* The option o that is read last, at n, has the value that follows it,    *)
(* the others keep theirs.                                                 *)
AskedAfter(P, n, o) ==
    /\ o \in Flags => Asked(P \union {n}, o) = TRUE
    /\ o \in Sizes => Asked(P \union {n}, o) = Number[argv[n + 1]]
    /\ o \in Names => Asked(P \union {n}, o) = argv[n + 1]
    /\ \A x \in Option : x # o => Asked(P \union {n}, x) = Asked(P, x)

LEMMA AskedLast ==
    ASSUME NEW P, NEW n \in Int, \A p \in P : p \in Int /\ p < n, NEW o \in Option, argv[n] = o
    PROVE  AskedAfter(P, n, o)
<1> DEFINE R == P \union {n}
           at == {p \in R : argv[p] = o}
<1>1. at # {} /\ n \in at /\ \A x \in at : x \in Int /\ x <= n
  OBVIOUS
<1>2. Max(at) = n
  <2> HIDE DEF at
  <2> QED
    BY <1>1, MaxLast
<1>3. o \in Flags => Asked(R, o) = TRUE
  BY <1>1, Kinds DEF Asked
<1>4. o \in Sizes => Asked(R, o) = Number[argv[n + 1]]
  BY <1>1, <1>2, Kinds DEF Asked
<1>5. o \in Names => Asked(R, o) = argv[n + 1]
  BY <1>1, <1>2, Kinds DEF Asked
<1>6. ASSUME NEW x \in Option, x # o PROVE Asked(R, x) = Asked(P, x)
  <2>1. {p \in R : argv[p] = x} = {p \in P : argv[p] = x}
    BY <1>6
  <2> QED
    BY <2>1 DEF Asked
<1> QED
  BY <1>3, <1>4, <1>5, <1>6 DEF AskedAfter

(* How a command line is read depends on the command line only. *)
LEMMA ReadingSame ==
    ASSUME UNCHANGED argv
    PROVE  /\ \A P, n : ReadsTo(P, n)' <=> ReadsTo(P, n)
           /\ \A P : Parse(P)' <=> Parse(P)
           /\ \A P, o : Asked(P, o)' = Asked(P, o)
<1>1. \A P : Parse(P)' <=> Parse(P)
  BY DEF Parse
<1>2. \A P, n : ReadsTo(P, n)' <=> ReadsTo(P, n)
  BY <1>1 DEF ReadsTo, Prefix, Forced
<1>3. \A P, o : Asked(P, o)' = Asked(P, o)
  BY DEF Asked, Default
<1> QED
  BY <1>1, <1>2, <1>3

LEMMA ParseOptionParsed == ASSUME Typed, Parsed, ParseOption PROVE Parsed'
<1> DEFINE n == cur_arg
           o == argv[n]
<1>1. /\ Opts /\ n <= Len(argv) /\ phase = "parse" /\ UNCHANGED <<argv, phase, end>> /\ o \in Option
  BY DEF ParseOption, Parsing, Typed
<1>2. /\ n \in Nat \ {0} /\ Len(argv) \in Nat /\ DOMAIN argv = 1 .. Len(argv) /\ end = "none"
  BY <1>1, ArgvFacts DEF Typed, Flow
<1>3. PICK P \in SUBSET DOMAIN argv : ReadsTo(P, n) /\ \A x \in Option : opt[x] = Asked(P, x)
  BY DEF Parsed
<1>4. PICK r \in ParseArg(o, n + 1) : opt' = [opt EXCEPT ![o] = r[1]] /\ cur_arg' = r[2]
  BY DEF ParseOption
<1>0. PICK R : R = P \union {n}
  OBVIOUS
<1>5. \A p \in P : p \in Int /\ p < n
  BY <1>2, <1>3 DEF ReadsTo
<1>6. /\ o \in Flags => Asked(R, o) = TRUE
      /\ o \in Sizes => Asked(R, o) = Number[argv[n + 1]]
      /\ o \in Names => Asked(R, o) = argv[n + 1]
      /\ \A x \in Option : x # o => Asked(R, x) = Asked(P, x)
  <2>1. n \in Int /\ argv[n] = o
    BY <1>2
  <2> HIDE DEF n, o
  <2>2. AskedAfter(P, n, o)
    BY <1>1, <1>5, <2>1, AskedLast
  <2> QED
    BY <1>0, <2>2 DEF AskedAfter
<1>7. /\ Asked(R, o) = r[1]
      /\ \/ o \in Flags /\ r[2] = n + 1
         \/ /\ o \notin Flags /\ r[2] = n + 2 /\ n + 1 <= Len(argv)
            /\ o \in Sizes => argv[n + 1] \in DOMAIN Number
  <2>1. CASE o \in Flags
    <3>1. ParseArg(o, n + 1) = {<<TRUE, n + 1>>}
      BY <2>1, Kinds DEF ParseArg
    <3> DEFINE yes == TRUE
    <3>2. r = <<yes, n + 1>>
      BY <3>1
    <3> HIDE DEF yes
    <3>3. r[1] = yes /\ r[2] = n + 1
      BY <3>2
    <3>4. Asked(R, o) = r[1]
      BY <1>6, <2>1, <3>3, Zenon DEF yes
    <3> QED
      BY <2>1, <3>3, <3>4
  <2>2. CASE o \in Sizes
    <3>1. PICK v \in DOMAIN Number \intersect Given(n + 1) : r = <<Number[v], n + 2>>
      <4>1. r \in {<<Number[v], n + 1 + 1>> : v \in DOMAIN Number \intersect Given(n + 1)}
        BY <2>2, Kinds DEF ParseArg
      <4> QED
        BY <1>2, <4>1
    <3>2. v = argv[n + 1] /\ n + 1 \in DOMAIN argv
      BY <3>1 DEF Given
    <3>3. r[1] = Number[v] /\ r[2] = n + 2
      BY <3>1
    <3> QED
      BY <1>2, <1>6, <2>2, <3>1, <3>2, <3>3, Kinds
  <2>3. CASE o \in Names
    <3>1. PICK v \in Given(n + 1) : r = <<v, n + 2>>
      <4>1. r \in {<<v, n + 1 + 1>> : v \in Given(n + 1)}
        BY <2>3, Kinds DEF ParseArg
      <4> QED
        BY <1>2, <4>1
    <3>2. v = argv[n + 1] /\ n + 1 \in DOMAIN argv
      BY <3>1 DEF Given
    <3>3. r[1] = v /\ r[2] = n + 2
      BY <3>1
    <3> QED
      BY <1>2, <1>6, <2>3, <3>2, <3>3, Kinds
  <2> QED
    BY <1>1, <2>1, <2>2, <2>3 DEF Option
<1>8. ReadsTo(R, cur_arg') /\ R \in SUBSET DOMAIN argv
  BY <1>0, <1>1, <1>3, <1>4, <1>7, ReadsOn
<1>9. \A x \in Option : opt'[x] = Asked(R, x)
  BY <1>1, <1>3, <1>4, <1>6, <1>7 DEF Opts
<1>10. R \in SUBSET DOMAIN argv' /\ ReadsTo(R, cur_arg)' /\ \A x \in Option : opt'[x] = Asked(R, x)'
  BY <1>1, <1>8, <1>9, ReadingSame
<1>11. phase' = "parse" /\ end' = "none"
  BY <1>1, <1>2
<1> QED
  BY <1>10, <1>11 DEF Parsed

(* An argument the parser refuses is refused by every reading. *)
LEMMA ParseThrowParsed == ASSUME Typed, Parsed, ParseThrow PROVE Parsed'
<1> DEFINE n == cur_arg
<1>1. /\ Opts /\ n <= Len(argv) /\ UNCHANGED <<argv, cur_arg, opt>> /\ end' = "usage"
      /\ argv[n] \in Option => ParseArg(argv[n], n + 1) = {}
  BY DEF ParseThrow, Parsing, Leave, optionVars, Typed
<1>2. PICK P \in SUBSET DOMAIN argv : ReadsTo(P, n) /\ \A x \in Option : opt[x] = Asked(P, x)
  BY DEF Parsed
<1>3. ASSUME NEW Q \in SUBSET DOMAIN argv, Parse(Q) PROVE FALSE
  <2>1. n \in Q
    BY <1>1, <1>2, <1>3, NextIsOption
  <2>2. /\ argv[n] \in Option /\ argv[n] \notin Flags => n + 1 \in DOMAIN argv
        /\ argv[n] \in Sizes => argv[n + 1] \in DOMAIN Number
    BY <1>3, <2>1, ParseFacts
  <2>3. argv[n] \in Option /\ ParseArg(argv[n], n + 1) = {}
    BY <1>1, <2>1, <1>3, ParseFacts
  <2> DEFINE o == argv[n]
             g == Given(n + 1)
  <2>4. o \notin Flags
    <3>1. o \in Flags => ParseArg(o, n + 1) = {<<TRUE, n + 1>>}
      BY Kinds DEF ParseArg
    <3> QED
      BY <2>3, <3>1
  <2>5. argv[n + 1] \in g
    BY <1>3, <2>1, <2>4, ParseFacts DEF Given
  <2> HIDE DEF g
  <2>6. o \notin Sizes
    <3>1. o \in Sizes => ParseArg(o, n + 1) = {<<Number[v], n + 1 + 1>> : v \in DOMAIN Number \intersect g}
      BY Kinds DEF ParseArg, g
    <3>2. o \in Sizes => argv[n + 1] \in DOMAIN Number \intersect g
      BY <2>2, <2>5
    <3> QED
      BY <2>3, <3>1, <3>2
  <2>7. o \notin Names
    <3>1. o \in Names => ParseArg(o, n + 1) = {<<v, n + 1 + 1>> : v \in g}
      BY Kinds DEF ParseArg, g
    <3> QED
      BY <2>3, <2>5, <3>1
  <2> QED
    BY <2>3, <2>4, <2>6, <2>7 DEF Option
<1>4. P \in SUBSET DOMAIN argv' /\ ReadsTo(P, cur_arg)' /\ \A x \in Option : opt'[x] = Asked(P, x)'
  BY <1>1, <1>2, ReadingSame
<1>5. ~\E Q \in SUBSET DOMAIN argv' : Parse(Q)'
  BY <1>1, <1>3, ReadingSame
<1> QED
  BY <1>1, <1>4, <1>5 DEF Parsed

LEMMA NextParsed == Typed /\ Parsed /\ [Next]_vars => Parsed'
<1> SUFFICES ASSUME Typed, Parsed, [Next]_vars PROVE Parsed'
  OBVIOUS
<1>1. CASE ParseOption
  BY <1>1, ParseOptionParsed
<1>2. CASE ParseThrow
  BY <1>2, ParseThrowParsed
<1>3. CASE /\ UNCHANGED <<argv, cur_arg, opt>>
           /\ end' # "usage" \/ end = "usage"
           /\ \/ phase' \in {"static", "parse"} \/ end' \in {"help", "usage"}
              \/ phase \notin {"static", "parse"} /\ end \notin {"help", "usage"}
              \/ cur_arg = Len(argv) + 1
  <2>1. PICK P \in SUBSET DOMAIN argv :
            ReadsTo(P, cur_arg) /\ \A x \in Option : opt[x] = Asked(P, x)
    BY DEF Parsed
  <2>2. P \in SUBSET DOMAIN argv' /\ ReadsTo(P, cur_arg)' /\ \A x \in Option : opt'[x] = Asked(P, x)'
    BY <1>3, <2>1, ReadingSame
  <2>3. end' = "usage" => ~\E Q \in SUBSET DOMAIN argv' : Parse(Q)'
    BY <1>3, ReadingSame DEF Parsed
  <2>4. (phase' \notin {"static", "parse"} /\ end' \notin {"help", "usage"}) => cur_arg' = Len(argv') + 1
    BY <1>3 DEF Parsed
  <2> QED
    BY <2>2, <2>3, <2>4 DEF Parsed
<1>4. Flow /\ Opts
  BY DEF Typed
<1>5. CASE OptionsStep /\ ~ParseOption /\ ~ParseThrow
  <2>1. CASE OpenLog
    <3>1. cur_arg = Len(argv) + 1
      BY <1>4, <2>1, ArgvFacts DEF OpenLog
    <3> QED
      BY <1>3, <1>4, <2>1, <3>1 DEF OpenLog, optionVars, Flow
  <2>2. CASE Construct \/ Help \/ CloseLog
    BY <1>3, <1>4, <2>2 DEF Construct, Help, CloseLog, Leave, optionVars, Flow
  <2> QED
    BY <1>5, <2>1, <2>2 DEF OptionsStep
<1>6. CASE LoaderStep
  BY <1>3, <1>4, <1>6 DEF LoaderStep, ElfInit, LoadSegment, StartState, CopySegment, StartExecution,
     Leave, optionVars, Flow
<1>7. CASE SyscallNext
  BY <1>3, <1>4, <1>7 DEF SyscallNext, Ecall, SetSatp, Budget, ReturnZero, Unsupported, ExecExit,
     GetTimeOfDay, ReadByte, ReadEOF, ReadDone, WriteByte, WriteDone, In, Return, Fault,
     processVars, optionVars, Flow
<1>8. CASE UNCHANGED vars
  BY <1>3, <1>8 DEF vars, processVars, optionVars, Parsed
<1> QED
  BY <1>1, <1>2, <1>5, <1>6, <1>7, <1>8 DEF Next, Terminated

LEMMA InitParsed == Init => Parsed
<1> SUFFICES ASSUME Init PROVE Parsed
  OBVIOUS
<1>1. cur_arg = 1 /\ phase = "static" /\ end = "none" /\ \A o \in Option : opt[o] = Default(o)
  BY DEF Init, SyscallInit, LoaderInit, OptionsInit
<1>2. ReadsTo({}, cur_arg)
  BY <1>1 DEF ReadsTo, Prefix, Forced
<1>3. \A o \in Option : Asked({}, o) = Default(o)
  BY DEF Asked
<1> QED
  BY <1>1, <1>2, <1>3 DEF Parsed

(* For every command line: the options have the values it asks for, and it *)
(* is refused only when there is no way to read it.                        *)
THEOREM CommandLineRead == Spec => []ParsedAsAsked
<1>1. Typed /\ Parsed => ParsedAsAsked
  <2> SUFFICES ASSUME Typed, Parsed PROVE ParsedAsAsked
    OBVIOUS
  <2>1. ASSUME phase \notin {"static", "parse"}, end \notin {"help", "usage"}
        PROVE  \E P \in SUBSET DOMAIN argv : Parse(P) /\ \A o \in Option : opt[o] = Asked(P, o)
    <3>1. PICK P \in SUBSET DOMAIN argv : ReadsTo(P, cur_arg) /\ \A o \in Option : opt[o] = Asked(P, o)
      BY DEF Parsed
    <3>2. cur_arg = Len(argv) + 1 /\ DOMAIN argv = 1 .. Len(argv) /\ Len(argv) \in Nat
      BY <2>1, ArgvFacts DEF Parsed, Typed
    <3>3. cur_arg - 1 = Len(argv)
      BY <3>2
    <3>4. Parse(P)
      BY <3>1, <3>2, <3>3 DEF ReadsTo, Prefix, Parse
    <3> QED
      BY <3>1, <3>4
  <2> QED
    BY <2>1 DEF Parsed, ParsedAsAsked
<1> QED
  BY <1>1, InitTyped, InitParsed, NextTyped, NextParsed, PTL DEF Spec
=============================================================================
