------------------------------ MODULE Options ------------------------------
(***************************************************************************)
(* The command line and the log (options.h, options.cpp, options_list.h),  *)
(* and what is built from the options before main() runs: the MMU and the  *)
(* trace cache are static members (sim.cpp), constructed after the options *)
(* of options.cpp, which CMake lists first, and before main() parses.      *)
(*                                                                         *)
(* An argument is a string; the name of an option stands for its spelling  *)
(* on the command line (mem_pages for -mem-pages).                         *)
(***************************************************************************)
EXTENDS Integers, Sequences, FiniteSetsExt

CONSTANTS
    CommandLines,   \* the argument lists the program may be started with
    Number,         \* the numerals std::stoull accepts, and their values
    DefaultSizes,   \* the defaults of the numeric options
    Writable,       \* the names fopen can open for writing
    PageSize        \* 4096 in the code

ASSUME PageAssumption == PageSize \in Nat \ {0}

ASSUME ArgumentsAssumption ==
    CommandLines \subseteq Seq(STRING) /\ \A n \in DOMAIN Number : Number[n] \in Nat

Flags == {"verbose", "execution_log", "jit", "jit_log"}
Sizes == {"mem_pages", "cache_size", "itlb_size", "dtlb_size", "jit_threshold", "max_insts"}
Names == {"log_file", "elf_file"}
Option == Flags \union Sizes \union Names

(* 128 pages in the code; the stack needs two. *)
ASSUME DefaultAssumption ==
    DefaultSizes \in [Sizes -> Nat] /\ DefaultSizes["mem_pages"] >= 2

Null == "nullptr"
Junk == <<"junk", 0>>

VARIABLES
    argv,           \* the arguments, without the program's name
    cur_arg,        \* the next one to look at
    opt,            \* the values of the options
    built,          \* the option values the static members were built with
    mem,            \* pmem_, its bytes
    fds,            \* what each open file descriptor of the process refers to
    log,            \* options::log
    phase,          \* where main() is
    end             \* why the process ended

(* OPTION_DEF: the default values. *)
Default(o) == CASE o \in Flags -> FALSE [] o \in Sizes -> DefaultSizes[o] [] o \in Names -> Null

optionVars == <<argv, cur_arg, opt>>

OptionsInit ==
    /\ argv \in CommandLines
    /\ cur_arg = 1
    /\ opt = [o \in Option |-> Default(o)]
    /\ built = <<>>
    /\ mem = <<>>
    /\ fds = [d \in 0 .. 2 |-> CASE d = 0 -> "stdin" [] d = 1 -> "stdout" [] d = 2 -> "stderr"]
    /\ log = Null
    /\ phase = "static"
    /\ end = "none"

(* MMU::MMU and TraceCache::TraceCache; new uint8_t[] leaves memory as it is. *)
Construct ==
    /\ phase = "static"
    /\ built' = [o \in {"mem_pages", "cache_size", "itlb_size", "dtlb_size"} |-> opt[o]]
    /\ mem' = [a \in 0 .. opt.mem_pages * PageSize - 1 |-> Junk]
    /\ phase' = "parse"
    /\ UNCHANGED <<optionVars, fds, log, end>>

(* The argument at i, if there is one. *)
Given(i) == {argv[k] : k \in {i} \intersect DOMAIN argv}

(* Mutant: a flag skips the argument that follows it. *)
ParseArgAlways(o, i) ==
    CASE o \in Flags -> {<<TRUE, i + 1>>}
      [] o \in Sizes -> {<<Number[n], i + 1>> : n \in DOMAIN Number \intersect Given(i)}
      [] o \in Names -> {<<name, i + 1>> : name \in Given(i)}

(* ParseArg: the value and the next argument; none when it throws. *)
ParseArg(o, i) ==
    CASE o \in Flags -> {<<TRUE, i>>}
      [] o \in Sizes -> {<<Number[n], i + 1>> : n \in DOMAIN Number \intersect Given(i)}
      [] o \in Names -> {<<name, i + 1>> : name \in Given(i)}

(* The process ends; main() returns 0 whatever happened. *)
Leave(why) == phase' = "over" /\ end' = why

Parsing == phase = "parse" /\ cur_arg <= Len(argv)

Help ==
    /\ Parsing /\ argv[cur_arg] = "help"
    /\ Leave("help")
    /\ UNCHANGED <<optionVars, built, mem, fds, log>>

ParseOption ==
    /\ Parsing
    /\ \E o \in Option \intersect {argv[cur_arg]} : \E r \in ParseArg(o, cur_arg + 1) :
        /\ opt' = [opt EXCEPT ![o] = r[1]]
        /\ cur_arg' = r[2]
    /\ UNCHANGED <<argv, built, mem, fds, log, phase, end>>

ParseThrow ==
    /\ Parsing /\ argv[cur_arg] # "help"
    /\ argv[cur_arg] \in Option => ParseArg(argv[cur_arg], cur_arg + 1) = {}
    /\ Leave("usage")
    /\ UNCHANGED <<optionVars, built, mem, fds, log>>

-----------------------------------------------------------------------------
(* open() gives the lowest descriptor that is free. *)
Lowest(table) == Min((0 .. 9) \ DOMAIN table)
Opened(table, d, what) == [x \in DOMAIN table \union {d} |-> IF x = d THEN what ELSE table[x]]
Closed(table, d) == [x \in DOMAIN table \ {d} |-> table[x]]

(* The options are parsed; the log is opened, or is stderr. *)
OpenLog ==
    /\ phase = "parse" /\ cur_arg > Len(argv)
    /\ IF opt.log_file \in Writable
       THEN log' = "file" /\ fds' = Opened(fds, Lowest(fds), "log")
       ELSE log' = "stderr" /\ UNCHANGED fds
    /\ phase' = "init"
    /\ UNCHANGED <<optionVars, built, mem, end>>

(* CloseLog, and the end of main(). *)
CloseLog ==
    /\ phase = "executed"
    /\ fds' = IF log = "stderr" THEN fds
              ELSE Closed(fds, CHOOSE d \in DOMAIN fds : fds[d] = "log")
    /\ Leave("done")
    /\ UNCHANGED <<optionVars, built, mem, log>>

-----------------------------------------------------------------------------
(* P is the set of arguments that are options, if each is followed by the   *)
(* value it takes and nothing else is on the command line.                  *)
Parse(P) ==
    /\ \A p \in P : argv[p] \in Option
    /\ \A p \in DOMAIN argv : (p \in P) = ~(p - 1 \in P /\ argv[p - 1] \notin Flags)
    /\ \A p \in P : argv[p] \notin Flags => p + 1 \in DOMAIN argv
    /\ \A p \in P : argv[p] \in Sizes => argv[p + 1] \in DOMAIN Number

(* What the command line asks of an option: the last occurrence counts. *)
Asked(P, o) ==
    LET at == {p \in P : argv[p] = o}
        last == Max(at)
    IN  CASE at = {} -> Default(o)
          [] at # {} /\ o \in Flags -> TRUE
          [] at # {} /\ o \in Sizes -> Number[argv[last + 1]]
          [] at # {} /\ o \in Names -> argv[last + 1]

(* After ParseOptions, each option has the value the whole command line     *)
(* asks for, read as options and their values, and the program refuses a    *)
(* command line only when it cannot be read so: flags that take no value,   *)
(* values that look like options and repeated options do not derail it.     *)
ParsedAsAsked ==
    /\ (phase \notin {"static", "parse"} /\ end \notin {"help", "usage"}) =>
           \E P \in SUBSET DOMAIN argv : Parse(P) /\ \A o \in Option : opt[o] = Asked(P, o)
    /\ end = "usage" => ~\E P \in SUBSET DOMAIN argv : Parse(P)

(* README.md: -mem-pages is the "number of allocated pages", -cache-size    *)
(* the "number of saved traces in LRU cache", and so on for the TLBs: when  *)
(* the simulator runs, memory and caches have the sizes that were asked for. *)
OptionsApply == phase = "run" => \A o \in DOMAIN built : built[o] = opt[o]
=============================================================================
