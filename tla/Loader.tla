------------------------------- MODULE Loader -------------------------------
(***************************************************************************)
(* Elf_reader (elf_reader.cpp) and State's constructor (sim.cpp): from the *)
(* ELF file to guest memory.  A byte is named for where it comes from:     *)
(* <<"file", offset>>, <<"zero", 0>>, or what new uint8_t[] left there.    *)
(***************************************************************************)
EXTENDS Options

CONSTANTS
    Files,          \* the files there are, by name
    WordSize        \* sizeof(uint32_t)

(* A file: whether it passes every check of init(), its length, and its     *)
(* program headers of every type.  Those that are not loaded by the rules   *)
(* of the format may be larger in the file than in memory.                  *)
Header == [off : Nat, va : Nat, filesz : Nat, memsz : Nat]

ASSUME FilesAssumption ==
    /\ WordSize \in Nat \ {0}
    /\ \A f \in DOMAIN Files :
        /\ Files[f].valid \in BOOLEAN /\ Files[f].len \in Nat
        /\ Files[f].phdrs \in Seq(Header)

VARIABLES
    er,             \* Elf_reader: whether e_ is set, fd_, cur_phdr_ and phdrnum_
    segs,           \* cmds and seg_va: the segments that were read
    sp,             \* the stack pointer
    copied          \* how many segments State's constructor has copied

loaderVars == <<er, segs, sp, copied>>

LoaderInit ==
    /\ OptionsInit
    /\ er = [e |-> FALSE, fd |-> -1, cur_phdr |-> 0, phdrnum |-> 0]
    /\ segs = <<>>
    /\ sp = 0
    /\ copied = 0

(* Mutant: clear() forgets the descriptor before it closes it. *)
ClearForgetful(table) == Closed(table, 0)

(* clear(), of the descriptors: fd_ is -1 at first, which is not 0 either.  *)
Clear(table) == IF er.e \/ er.fd # 0 THEN Closed(table, er.fd) ELSE table

ElfInit ==
    /\ phase = "init"
    /\ LET cleared == Clear(fds)
           fd == Lowest(cleared)
       IN  IF opt.elf_file \notin DOMAIN Files
           THEN /\ fds' = cleared
                /\ er' = [er EXCEPT !.fd = -1]
                /\ Leave("elf")
           ELSE /\ fds' = Opened(cleared, fd, "elf")
                /\ er' = [er EXCEPT !.e = TRUE, !.fd = fd,
                                    !.phdrnum = Len(Files[opt.elf_file].phdrs)]
                /\ IF Files[opt.elf_file].valid THEN phase' = "load" /\ UNCHANGED end
                   ELSE Leave("elf")
    /\ UNCHANGED <<optionVars, built, mem, log, segs, sp, copied>>

(* A segment's bytes: p_memsz words are allocated, and p_filesz bytes read  *)
(* over their start.                                                        *)
Bytes(h) ==
    [k \in 0 .. WordSize * h.memsz - 1 |->
        IF k < h.filesz THEN <<"file", h.off + k>> ELSE <<"zero", 0>>]

(* What read() finds in the file, which may end before p_filesz bytes. *)
Got(h) == Min({h.filesz, Files[opt.elf_file].len - h.off})

(* It writes behind the end of the buffer; or it fails: the buffer is empty *)
(* and &buf[0] null, or the file is too short.                              *)
Overruns(h) == h.memsz > 0 /\ Got(h) > WordSize * h.memsz
ReadFails(h) == h.filesz > 0 /\ (h.memsz = 0 \/ Got(h) < h.filesz)

(* One round of load(), for a header of any type.  Nothing is said of a     *)
(* process whose heap was overrun.                                          *)
LoadSegment ==
    /\ phase = "load" /\ er.cur_phdr < er.phdrnum
    /\ LET h == Files[opt.elf_file].phdrs[er.cur_phdr + 1]
       IN  \/ Overruns(h) /\ Leave("wild") /\ UNCHANGED <<er, segs>>
           \/ ~Overruns(h) /\ ReadFails(h) /\ Leave("elf") /\ UNCHANGED <<er, segs>>
           \/ /\ ~Overruns(h) /\ ~ReadFails(h)
              /\ segs' = Append(segs, [va |-> h.va, size |-> WordSize * h.memsz,
                                       bytes |-> Bytes(h)])
              /\ er' = [er EXCEPT !.cur_phdr = @ + 1]
              /\ UNCHANGED <<phase, end>>
    /\ UNCHANGED <<optionVars, built, mem, fds, log, sp, copied>>

-----------------------------------------------------------------------------
(* Mutant: the size is the one asked for, not the one allocated. *)
MemSizeAsked == opt.mem_pages * PageSize

(* MMU::getMemSize *)
MemSize == built.mem_pages * PageSize

(* State's constructor starts: the stack lies below the last two pages. *)
StartState ==
    /\ phase = "load" /\ er.cur_phdr = er.phdrnum
    /\ sp' = MemSize - 2 * PageSize
    /\ phase' = "copy"
    /\ UNCHANGED <<optionVars, built, mem, fds, log, end, er, segs, copied>>

(* Mutant: only what is not zero is copied. *)
MemcpySparse(m, s) ==
    [a \in DOMAIN m |->
        IF a - s.va \in DOMAIN s.bytes /\ s.bytes[a - s.va][1] # "zero" THEN s.bytes[a - s.va]
        ELSE m[a]]

Memcpy(m, s) == [a \in DOMAIN m |-> IF a - s.va \in DOMAIN s.bytes THEN s.bytes[a - s.va] ELSE m[a]]

(* One segment, in the order of the headers: the two checks, and the copy.  *)
CopySegment ==
    /\ phase = "copy" /\ copied < Len(segs)
    /\ LET s == segs[copied + 1]
       IN  IF s.va + s.size > MemSize \/ s.va + 1 >= MemSize
           THEN Leave("memory") /\ UNCHANGED <<mem, copied>>
           ELSE /\ mem' = Memcpy(mem, s)
                /\ copied' = copied + 1
                /\ UNCHANGED <<phase, end>>
    /\ UNCHANGED <<optionVars, built, fds, log, er, segs, sp>>

(* Sim is constructed; Sim::execute begins. *)
StartExecution ==
    /\ phase = "copy" /\ copied = Len(segs)
    /\ phase' = "run"
    /\ UNCHANGED <<optionVars, built, mem, fds, log, end, loaderVars>>

-----------------------------------------------------------------------------
Headers == Files[opt.elf_file].phdrs

(* The segments lie in memory in the order of their headers, none in another. *)
Ascending == \A j, k \in DOMAIN Headers : j < k => Headers[j].va + Headers[j].memsz <= Headers[k].va

(* When the guest starts, each segment is in memory at its address: what    *)
(* the file holds, then zeros up to p_memsz.  The loader copies four times  *)
(* as much, so it writes zeros over the place of the segments that follow;  *)
(* that is harmless as long as these come later in the file.                *)
ImageLoaded ==
    (phase = "copy" /\ copied = Len(segs) /\ Ascending) =>
        \A j \in DOMAIN Headers : \A k \in 0 .. Headers[j].memsz - 1 :
            /\ Headers[j].va + k \in DOMAIN mem
            /\ mem[Headers[j].va + k] = IF k < Headers[j].filesz
                                        THEN <<"file", Headers[j].off + k>> ELSE <<"zero", 0>>

(* Whatever -mem-pages says, the stack pointer and everything the loader    *)
(* copies, its excess of zeros included, are inside the memory that was     *)
(* allocated.                                                               *)
InsideMemory ==
    phase \in {"copy", "run"} =>
        /\ sp .. sp + 2 * PageSize - 1 \subseteq DOMAIN mem /\ sp + 2 * PageSize \notin DOMAIN mem
        /\ \A j \in 1 .. copied : \A k \in DOMAIN segs[j].bytes : segs[j].va + k \in DOMAIN mem

(* The program keeps its standard streams: neither the reader's clear(),    *)
(* called before anything was opened, nor the files it opens and the log it *)
(* closes ever take one of their descriptors.                               *)
StandardStreams ==
    /\ {0, 1, 2} \subseteq DOMAIN fds
    /\ fds[0] = "stdin" /\ fds[1] = "stdout" /\ fds[2] = "stderr"
=============================================================================
