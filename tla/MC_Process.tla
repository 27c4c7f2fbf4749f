----------------------------- MODULE MC_Process -----------------------------
(* 4 pages of 8 bytes.  Every command line of up to three arguments, and    *)
(* command lines that change the memory's size or the log, for every file.  *)
(* The files: two segments that the zeros of the first overlap, one with    *)
(* a segment for zeros only, headers without a size, one inside another, a  *)
(* segment that fits only because its excess does not count, or that does   *)
(* not fit, one that is cut short, headers that are larger in the file than *)
(* in memory, by a little, without a size there, or by more than a buffer   *)
(* holds, and one that is not a RISC-V program.                             *)
EXTENDS Process, TLC

MCNumber == ("1" :> 1) @@ ("9" :> 9)

MCSizes == [o \in Sizes |-> IF o = "mem_pages" THEN 4 ELSE 2]

Ph(off, va, filesz, memsz) == [off |-> off, va |-> va, filesz |-> filesz, memsz |-> memsz]

File(len, phdrs) == [valid |-> TRUE, len |-> len, phdrs |-> phdrs]

MCFiles ==
    ("two"   :> File(8, <<Ph(0, 2, 4, 4), Ph(4, 6, 3, 5)>>)) @@
    ("bss"   :> File(8, <<Ph(0, 1, 2, 3), Ph(2, 4, 0, 2), Ph(2, 8, 2, 2)>>)) @@
    ("stack" :> File(8, <<Ph(0, 0, 0, 0), Ph(1, 8, 3, 6)>>)) @@
    ("relro" :> File(8, <<Ph(0, 4, 6, 6), Ph(1, 5, 1, 1)>>)) @@
    ("large" :> File(8, <<Ph(0, 20, 4, 4)>>)) @@
    ("huge"  :> File(8, <<Ph(0, 0, 8, 12)>>)) @@
    ("edge"  :> File(8, <<Ph(0, 31, 0, 0)>>)) @@
    ("short" :> File(3, <<Ph(0, 2, 2, 2), Ph(2, 8, 4, 4)>>)) @@
    ("note"  :> File(8, <<Ph(0, 2, 4, 4), Ph(1, 7, 5, 2)>>)) @@
    ("attr"  :> File(8, <<Ph(0, 2, 4, 4), Ph(4, 0, 3, 0)>>)) @@
    ("over"  :> File(8, <<Ph(1, 2, 6, 1)>>)) @@
    ("alien" :> [valid |-> FALSE, len |-> 8, phdrs |-> <<>>])

Tokens == {"verbose", "mem_pages", "log_file", "elf_file", "two", "1", "help", "bogus"}

MCCommandLines ==
    UNION {[1 .. n -> Tokens] : n \in 0 .. 3}
    \union {<<"elf_file", f>> : f \in DOMAIN MCFiles}
    \union {<<"mem_pages", n, "elf_file", f>> : n \in DOMAIN MCNumber, f \in DOMAIN MCFiles}
    \union {<<"log_file", l, "elf_file", "bss">> : l \in {"out", "elf_file", "readonly"}}
    \union {<<"elf_file", "bogus", "jit", "elf_file", "two">>}

MCWritable == {"out", "elf_file"}

Call(a7, x, y, z) == [a7 |-> a7, a0 |-> x, a1 |-> y, a2 |-> z]

MCCalls ==
    {Call(f, 1, 4, 2) : f \in {"close", "fstat", "brk", "exit", "other"}}
    \union {Call(f, 0, a, n) : f \in {"read", "write"}, a \in {6, 29, 63}, n \in {0, 3}}
    \union {Call("gettimeofday", a, b, 0) : a \in {6, 29}, b \in {0, 8, 31}}

Leaf(frame, rights) == [frame |-> frame, rights |-> rights]

(* Page 1 may not be written; the end of page 3 is that of memory. *)
MCPageMap ==
    (0 :> Leaf(2, {"R", "W"})) @@ (1 :> Leaf(0, {"R"})) @@
    (3 :> Leaf(3, {"R", "W"})) @@ (7 :> Leaf(1, {"R", "W"}))
=============================================================================
