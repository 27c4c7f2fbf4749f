----------------------------- MODULE Sim_proofs -----------------------------
(***************************************************************************)
(* The main loop, for every program, page table, cache size and threshold: *)
(* it keeps its types, it never runs off a trace, cached traces are as     *)
(* fresh as the last FENCE, it implements FenceMachine, and it counts      *)
(* executions of a trace, instructions and statistics right.               *)
(***************************************************************************)
EXTENDS Sim, LRUListFacts, WellFoundedInduction, FiniteSetTheorems

Pairs == [key : 0 .. N, val : Trace]

(* Every trace in the cache is one the constructor can have built: it lies *)
(* in memory, it decodes, and its only terminator is its last word.        *)
ShapeOf(k, words) ==
    /\ words \in Seq(Word)
    /\ Len(words) \in 1 .. N
    /\ k + Len(words) <= N
    /\ \A j \in 1 .. Len(words) :
          /\ Inst[words[j]].op # "undef"
          /\ M!Terminator(words[j]) <=> j = Len(words)

Shape == \A i \in DOMAIN cache : ShapeOf(cache[i].key, cache[i].val.words)

(* Between traces no instruction of one is done, and what execute() is     *)
(* called on is the trace that starts at pc.                               *)
Control ==
    /\ phase \in {"refer", "execute", "count", "check"} => at = 0
    /\ phase = "execute" => cache # <<>> /\ cache[1].key = pc
    /\ TraceAlive

(* The history includes the present. *)
Present ==
    /\ virtual \in modes
    /\ \A a \in 0 .. N : M!Visible(mem, virtual, a) \subseteq vis[a]

(* Fresh, pair by pair. *)
FreshPair(p, vs, ms) ==
    /\ \A j \in DOMAIN p.val.words : p.val.words[j] \in vs[p.key + j - 1]
    /\ p.val.code = "physical" => FALSE \in ms
    /\ p.val.code = "virtual" => TRUE \in ms

FreshPairs == \A i \in DOMAIN cache : FreshPair(cache[i], vis, modes)

(* The inductive invariant. *)
IInv == TypeOK /\ Shape /\ Control /\ Present /\ FreshPairs

-----------------------------------------------------------------------------
(* The address an access goes to is one of memory, and there is at most    *)
(* one; so at most one word is visible at an address, and none at N.       *)
LEMMA PhysFacts ==
    ASSUME NEW virt \in BOOLEAN, NEW a \in 0 .. N
    PROVE  /\ M!Phys(virt, a) \subseteq 0 .. N - 1
           /\ \A p, q \in M!Phys(virt, a) : p = q
           /\ a = N => M!Phys(virt, a) = {}
           /\ a # N => M!Phys(FALSE, a) = {a}
<1>1. N \in Nat \ {0} /\ DOMAIN VMap \subseteq 0 .. N - 1
      /\ \A b \in DOMAIN VMap : VMap[b] \in 0 .. N - 1
  BY SimAssumption
<1> QED
  BY <1>1 DEF M!Phys

LEMMA VisibleFacts ==
    ASSUME NEW m \in [0 .. N - 1 -> Word], NEW virt \in BOOLEAN, NEW a \in 0 .. N
    PROVE  /\ M!Visible(m, virt, a) \subseteq Word
           /\ \A v, w \in M!Visible(m, virt, a) : v = w
           /\ a = N => M!Visible(m, virt, a) = {}
<1>1. /\ M!Phys(virt, a) \subseteq 0 .. N - 1
      /\ \A p, q \in M!Phys(virt, a) : p = q
      /\ a = N => M!Phys(virt, a) = {}
  BY PhysFacts
<1>2. \A p \in 0 .. N - 1 : m[p] \in Word
  OBVIOUS
<1> QED
  BY <1>1, <1>2 DEF M!Visible

(* What the two ways of recording history record. *)
LEMMA HistoryFacts ==
    ASSUME NEW m \in [0 .. N - 1 -> Word], NEW virt \in BOOLEAN
    PROVE  /\ M!AllVisible(m, virt) \in [0 .. N -> SUBSET Word]
           /\ \A a \in 0 .. N : M!AllVisible(m, virt)[a] = M!Visible(m, virt, a)
           /\ vis \in [0 .. N -> SUBSET Word] =>
                 /\ M!Also(m, virt) \in [0 .. N -> SUBSET Word]
                 /\ \A a \in 0 .. N :
                       /\ M!Visible(m, virt, a) \subseteq M!Also(m, virt)[a]
                       /\ vis[a] \subseteq M!Also(m, virt)[a]
<1>1. \A a \in 0 .. N : M!Visible(m, virt, a) \subseteq Word
  BY VisibleFacts
<1> QED
  BY <1>1 DEF M!AllVisible, M!Also

(* A trace that is built has the shape of one, and consists of words that  *)
(* are visible now.                                                        *)
LEMMA FetchFacts ==
    ASSUME TypeOK, NEW words \in FetchTrace(pc)
    PROVE  /\ ShapeOf(pc, words)
           /\ \A j \in 1 .. Len(words) :
                 /\ pc + j - 1 \in 0 .. N
                 /\ words[j] \in M!Visible(mem, virtual, pc + j - 1)
<1>0. /\ N \in Nat \ {0} /\ pc \in 0 .. N /\ virtual \in BOOLEAN
      /\ mem \in [0 .. N - 1 -> Word]
  BY SimAssumption DEF TypeOK
<1> DEFINE word(a) == CHOOSE w \in M!Visible(mem, virtual, a) : TRUE
<1>1. PICK b \in pc .. N - 1 :
          /\ Ends(b)
          /\ \A d \in pc .. b - 1 : Decodes(d) /\ ~Ends(d)
          /\ words = [j \in 1 .. b - pc + 1 |-> word(pc + j - 1)]
  BY DEF FetchTrace
<1> DEFINE n == b - pc + 1
<1>2. n \in 1 .. N /\ pc + n <= N /\ \A j \in 1 .. n : pc + j - 1 \in pc .. b
  BY <1>0
<1>3. ASSUME NEW a \in pc .. b
      PROVE  /\ word(a) \in M!Visible(mem, virtual, a)
             /\ word(a) \in Word
             /\ Inst[word(a)].op # "undef"
             /\ M!Terminator(word(a)) <=> a = b
  <2>1. a \in 0 .. N /\ Decodes(a) /\ (Ends(a) <=> a = b)
    <3>1. a = b \/ a \in pc .. b - 1
      BY <1>0
    <3> QED
      BY <1>0, <1>1, <3>1 DEF Ends
  <2>2. /\ M!Visible(mem, virtual, a) \subseteq Word
        /\ \A v, w \in M!Visible(mem, virtual, a) : v = w
    BY <1>0, <2>1, VisibleFacts
  <2>3. word(a) \in M!Visible(mem, virtual, a)
    BY <2>1 DEF Decodes
  <2> HIDE DEF word
  <2>4. Inst[word(a)].op # "undef" /\ (M!Terminator(word(a)) <=> Ends(a))
    BY <2>1, <2>2, <2>3 DEF Decodes, Ends
  <2> QED
    BY <2>1, <2>2, <2>3, <2>4
<1> HIDE DEF word
<1>4. /\ words \in Seq(Word) /\ Len(words) = n
      /\ \A j \in 1 .. n : words[j] = word(pc + j - 1)
  <2>1. words = [j \in 1 .. n |-> word(pc + j - 1)] /\ n \in Nat
    BY <1>1, <1>2
  <2>2. \A j \in 1 .. n : word(pc + j - 1) \in Word
    BY <1>2, <1>3
  <2> HIDE DEF n
  <2> QED
    BY <2>1, <2>2
<1>5. ASSUME NEW j \in 1 .. n
      PROVE  /\ pc + j - 1 \in 0 .. N
             /\ words[j] \in M!Visible(mem, virtual, pc + j - 1)
             /\ Inst[words[j]].op # "undef"
             /\ M!Terminator(words[j]) <=> j = n
  <2>1. pc + j - 1 \in pc .. b /\ words[j] = word(pc + j - 1)
    BY <1>2, <1>4
  <2>2. pc + j - 1 = b <=> j = n
    BY <1>0
  <2> QED
    BY <1>0, <1>3, <2>1, <2>2
<1> HIDE DEF n
<1> QED
  BY <1>2, <1>4, <1>5 DEF ShapeOf

-----------------------------------------------------------------------------
LEMMA CacheFacts ==
    ASSUME TypeOK
    PROVE  /\ cache \in Seq(Pairs)
           /\ CacheSize \in Nat \ {0}
           /\ Len(cache) \in 0 .. CacheSize
           /\ DOMAIN cache = 1 .. Len(cache)
           /\ cache # <<>> => 1 \in DOMAIN cache
           /\ \A i \in DOMAIN cache : /\ cache[i] \in Pairs
                                      /\ cache[i].key \in 0 .. N
                                      /\ cache[i].val \in Trace
<1>1. cache \in Seq(Pairs) /\ Len(cache) <= CacheSize /\ CacheSize \in Nat \ {0}
  BY SimAssumption DEF TypeOK, Pairs
<1>2. \A i \in DOMAIN cache : cache[i] \in Pairs
  BY <1>1
<1>3. \A p \in Pairs : p.key \in 0 .. N /\ p.val \in Trace
  BY DEF Pairs
<1>4. Len(cache) \in Nat /\ DOMAIN cache = 1 .. Len(cache)
  BY <1>1
<1>5. cache # <<>> => 1 \in DOMAIN cache
  <2>1. Len(cache) = 0 => cache = <<>>
    BY <1>1
  <2> QED
    BY <1>4, <2>1
<1> QED
  BY <1>1, <1>2, <1>3, <1>4, <1>5

LEMMA TraceFacts ==
    ASSUME NEW t \in Trace
    PROVE  /\ t.words \in Seq(Word) /\ t.exec_num \in Nat /\ t.is_eligible \in BOOLEAN
           /\ t.code \in {"none", "physical", "virtual"} /\ t.interpreted \in Nat
  BY DEF Trace

(* Which instructions end a trace. *)
Ending == {"jump", "branch", "fence"}

(* While a trace runs, the next instruction is one of that trace, it is in *)
(* memory, its word was visible there since the last FENCE, and it is the  *)
(* last one if and only if it ends a trace.                                *)
LEMMA RunningFacts ==
    ASSUME IInv, running
    PROVE  /\ 1 \in DOMAIN cache
           /\ cache[1].key = pc
           /\ trace \in Trace
           /\ ShapeOf(pc, trace.words)
           /\ Len(trace.words) \in 1 .. N
           /\ at + 1 \in 1 .. Len(trace.words)
           /\ at \in 0 .. N - 1
           /\ pc + at \in 0 .. N - 1
           /\ pc + at + 1 \in 0 .. N
           /\ trace.words[at + 1] \in Word
           /\ trace.words[at + 1] \in vis[pc + at]
           /\ inst.op # "undef"
           /\ inst.to \in 0 .. N
           /\ inst.data \in Word
           /\ inst.op \in Ending <=> at + 1 = Len(trace.words)
<1>0. N \in Nat \ {0} /\ pc \in 0 .. N /\ at \in 0 .. N /\ TypeOK
  BY SimAssumption DEF IInv, TypeOK
<1>1. /\ cache # <<>>
      /\ cache[1].key = pc
      /\ at < Len(trace.words)
  BY DEF IInv, Control, TraceAlive
<1>2. 1 \in DOMAIN cache /\ trace \in Trace
  BY <1>0, <1>1, CacheFacts DEF trace
<1>3. ShapeOf(pc, trace.words)
  BY <1>1, <1>2 DEF IInv, Shape, trace
<1> DEFINE words == trace.words
<1>4. /\ words \in Seq(Word)
      /\ Len(words) \in 1 .. N
      /\ pc + Len(words) <= N
      /\ at + 1 \in 1 .. Len(words)
  BY <1>0, <1>1, <1>3 DEF ShapeOf
<1>5. FreshPair(cache[1], vis, modes)
  BY <1>2 DEF IInv, FreshPairs
<1>6. words[at + 1] \in vis[pc + at]
  <2>1. at + 1 \in DOMAIN words
    BY <1>4
  <2>2. words[at + 1] \in vis[pc + (at + 1) - 1]
    BY <1>1, <1>5, <2>1 DEF FreshPair, trace
  <2>3. pc + (at + 1) - 1 = pc + at
    BY <1>0
  <2> QED
    BY <2>2, <2>3
<1>7. words[at + 1] \in Word
  BY <1>4
<1>8. inst.to \in 0 .. N /\ inst.data \in Word
  BY <1>7, SimAssumption DEF inst
<1>9. inst.op # "undef" /\ (inst.op \in Ending <=> at + 1 = Len(words))
  BY <1>3, <1>4 DEF ShapeOf, inst, Ending, M!Terminator
<1>10. at \in 0 .. N - 1 /\ pc + at \in 0 .. N - 1 /\ pc + at + 1 \in 0 .. N
  BY <1>0, <1>4
<1> QED
  BY <1>1, <1>2, <1>3, <1>4, <1>6, <1>7, <1>8, <1>9, <1>10

(* Counters stay counters. *)
LEMMA PlusFacts ==
    ASSUME NEW n \in Nat, NEW k \in Nat
    PROVE  Plus(n, k) \in Nat
  BY SimAssumption DEF Plus

LEMMA CountedFacts ==
    ASSUME NEW set, stats \in [Stat -> 0 .. StatCap], Counted(set)
    PROVE  stats' \in [Stat -> 0 .. StatCap]
<1>1. StatCap \in Nat
  BY SimAssumption
<1> QED
  BY <1>1 DEF Counted

(* Nothing that Shape and freshness speak about changes. *)
LEMMA QuietKeeps ==
    ASSUME IInv, UNCHANGED <<cache, mem, virtual, vis, modes>>
    PROVE  Shape' /\ Present' /\ FreshPairs'
  BY DEF IInv, Shape, Present, FreshPairs

(* The history grows: what was fresh stays fresh. *)
LEMMA GrowKeeps ==
    ASSUME IInv, UNCHANGED cache, modes \subseteq modes', virtual' \in modes',
           mem' \in [0 .. N - 1 -> Word], virtual' \in BOOLEAN,
           vis' = M!Also(mem', virtual')
    PROVE  Shape' /\ Present' /\ FreshPairs' /\ vis' \in [0 .. N -> SUBSET Word]
<1>0. TypeOK /\ vis \in [0 .. N -> SUBSET Word] /\ N \in Nat
  BY SimAssumption DEF IInv, TypeOK
<1>1. /\ vis' \in [0 .. N -> SUBSET Word]
      /\ \A a \in 0 .. N : /\ M!Visible(mem', virtual', a) \subseteq vis'[a]
                           /\ vis[a] \subseteq vis'[a]
  BY <1>0, HistoryFacts
<1>2. Shape'
  BY DEF IInv, Shape
<1>3. Present'
  BY <1>1 DEF Present
<1>4. ASSUME NEW i \in DOMAIN cache
      PROVE  FreshPair(cache[i], vis', modes')
  <2>1. /\ FreshPair(cache[i], vis, modes)
        /\ ShapeOf(cache[i].key, cache[i].val.words)
        /\ cache[i].key \in 0 .. N
    BY <1>0, CacheFacts DEF IInv, Shape, FreshPairs
  <2> DEFINE words == cache[i].val.words
             k == cache[i].key
  <2>2. \A j \in DOMAIN words : k + j - 1 \in 0 .. N /\ words[j] \in vis[k + j - 1]
    <3>1. DOMAIN words = 1 .. Len(words) /\ Len(words) \in Nat /\ k + Len(words) <= N
      BY <1>0, <2>1 DEF ShapeOf
    <3>2. \A j \in DOMAIN words : words[j] \in vis[k + j - 1]
      BY <2>1 DEF FreshPair
    <3>3. k \in 0 .. N
      BY <2>1
    <3> HIDE DEF words, k
    <3>4. \A j \in DOMAIN words : k + j - 1 \in 0 .. N
      BY <1>0, <3>1, <3>3
    <3> QED
      BY <3>2, <3>4
  <2>3. \A j \in DOMAIN words : words[j] \in vis'[k + j - 1]
    BY <1>1, <2>2
  <2> QED
    BY <2>1, <2>3 DEF FreshPair
<1> QED
  BY <1>1, <1>2, <1>3, <1>4 DEF FreshPairs

(* The pairs of the cache are old ones, or new ones with the same property. *)
LEMMA OldKeeps ==
    ASSUME IInv, OldPairs(cache, cache'), UNCHANGED <<mem, virtual, vis, modes>>
    PROVE  Shape' /\ Present' /\ FreshPairs'
<1>1. Present'
  BY DEF IInv, Present
<1>2. Shape'
  BY DEF IInv, Shape, OldPairs
<1>3. FreshPairs'
  BY DEF IInv, FreshPairs, OldPairs
<1> QED
  BY <1>1, <1>2, <1>3

-----------------------------------------------------------------------------
(* What is left of the types once the cache and the history are settled. *)
Scalars ==
    /\ mem \in [0 .. N - 1 -> Word]
    /\ virtual \in BOOLEAN
    /\ pc \in 0 .. N
    /\ phase \in {"refer", "execute", "interpret", "compiled", "count", "check",
                  "stopped", "lost", "wild"}
    /\ at \in 0 .. N
    /\ executed_insts \in Nat
    /\ stats \in [Stat -> 0 .. StatCap]
    /\ retired \in Nat
    /\ freed \in BOOLEAN

Lists ==
    /\ cache \in Seq(Pairs) /\ Len(cache) <= CacheSize
    /\ vis \in [0 .. N -> SUBSET Word]
    /\ modes \subseteq BOOLEAN

LEMMA TypeParts == TypeOK <=> Scalars /\ Lists
  BY DEF TypeOK, Scalars, Lists, Pairs

LEMMA InitIInv == Init => IInv
<1> SUFFICES ASSUME Init PROVE IInv
  OBVIOUS
<1>0. /\ mem \in [0 .. N - 1 -> Word] /\ N \in Nat /\ StatCap \in Nat
      /\ CacheSize \in Nat
  BY SimAssumption DEF Init
<1>1. /\ cache = <<>> /\ DOMAIN cache = {} /\ Len(cache) = 0 /\ cache \in Seq(Pairs)
      /\ virtual = FALSE /\ modes = {FALSE} /\ phase = "refer" /\ at = 0 /\ pc = 0
      /\ executed_insts = 0 /\ retired = 0 /\ freed = FALSE
  BY DEF Init
<1>2. stats \in [Stat -> 0 .. StatCap]
  BY <1>0 DEF Init
<1>3. vis = M!AllVisible(mem, FALSE)
  BY DEF Init
<1>4. /\ vis \in [0 .. N -> SUBSET Word]
      /\ \A a \in 0 .. N : vis[a] = M!Visible(mem, FALSE, a)
  BY <1>0, <1>3, HistoryFacts
<1>5. Scalars
  <2>1. virtual \in BOOLEAN /\ freed \in BOOLEAN
    BY <1>1
  <2>2. pc \in 0 .. N /\ at \in 0 .. N /\ executed_insts \in Nat /\ retired \in Nat
    BY <1>0, <1>1
  <2> QED
    BY <1>0, <1>1, <1>2, <2>1, <2>2 DEF Scalars
<1>6. Lists
  BY <1>0, <1>1, <1>4 DEF Lists
<1>7. Shape /\ FreshPairs
  BY <1>1 DEF Shape, FreshPairs
<1>8. Present
  BY <1>1, <1>4 DEF Present
<1>9. Control
  BY <1>1 DEF Control, TraceAlive, running
<1> QED
  BY <1>5, <1>6, <1>7, <1>8, <1>9, TypeParts DEF IInv

LEMMA ReferHitStep == ASSUME IInv, ReferHit PROVE IInv'
<1>0. TypeOK /\ Scalars /\ Lists /\ at = 0
  BY TypeParts DEF IInv, ReferHit, Control
<1>1. pc \in Cached(cache) /\ cache' = Touch(cache, pc) /\ phase' = "execute"
  BY DEF ReferHit
<1>2. UNCHANGED <<mem, virtual, pc, at, executed_insts, vis, modes, retired, freed>>
  BY DEF ReferHit, history
<1> DEFINE i == IndexOf(cache, pc)
<1>3. i \in 1 .. Len(cache) /\ cache[i].key = pc
  BY <1>0, <1>1, CacheFacts, IndexFacts
<1>4. IsMove(Pairs, cache, i, cache') /\ OldPairs(cache, cache')
  BY <1>0, <1>1, CacheFacts, TouchFacts, TouchOld
<1> HIDE DEF i
<1>5. cache' \in Seq(Pairs) /\ Len(cache') = Len(cache) /\ cache'[1].key = pc
  BY <1>3, <1>4 DEF IsMove
<1>6. cache' # <<>>
  BY <1>0, <1>3, <1>5, CacheFacts
<1>7. Lists'
  BY <1>0, <1>2, <1>5 DEF Lists
<1>8. Scalars'
  <2>1. stats' \in [Stat -> 0 .. StatCap]
    BY <1>0, CountedFacts DEF ReferHit, Scalars
  <2> QED
    BY <1>0, <1>1, <1>2, <2>1 DEF Scalars
<1>9. Control'
  BY <1>0, <1>1, <1>2, <1>5, <1>6 DEF Control, TraceAlive, running
<1>10. TypeOK'
  BY <1>7, <1>8 DEF TypeOK, Lists, Scalars, Pairs
<1> QED
  BY <1>2, <1>4, <1>9, <1>10, OldKeeps DEF IInv

(* The trace that a miss builds. *)
LEMMA NewTraceFacts ==
    ASSUME TypeOK, NEW words \in FetchTrace(pc)
    PROVE  /\ NewTrace(words) \in Trace
           /\ [key |-> pc, val |-> NewTrace(words)] \in Pairs
           /\ NewTrace(words).words = words
           /\ NewTrace(words).code = "none"
<1>1. words \in Seq(Word)
  BY FetchFacts DEF ShapeOf
<1>2. NewTrace(words) \in Trace
  BY <1>1 DEF NewTrace, Trace
<1>3. pc \in 0 .. N
  BY DEF TypeOK
<1> QED
  BY <1>2, <1>3 DEF Pairs, NewTrace

LEMMA ReferMissStep == ASSUME IInv, ReferMiss PROVE IInv'
<1>0. TypeOK /\ Scalars /\ Lists /\ at = 0
  BY TypeParts DEF IInv, ReferMiss, Control
<1>1. PICK words \in FetchTrace(pc) : cache' = Put(cache, CacheSize, pc, NewTrace(words))
  BY DEF ReferMiss
<1>2. /\ phase' = "execute"
      /\ UNCHANGED <<mem, virtual, pc, at, executed_insts, vis, modes, retired, freed>>
  BY DEF ReferMiss, history
<1> DEFINE t == NewTrace(words)
           new == [key |-> pc, val |-> t]
<1>3. new \in Pairs /\ new.key = pc /\ t.words = words /\ t.code = "none"
  BY <1>0, NewTraceFacts
<1>4. /\ cache' \in Seq(Pairs) /\ Len(cache') \in 1 .. CacheSize /\ cache'[1] = new
      /\ OneNewPair(cache, cache', new)
  BY <1>0, <1>1, <1>3, CacheFacts, PutFacts, PutOneNew
<1>5. /\ ShapeOf(pc, words)
      /\ \A j \in 1 .. Len(words) :
            /\ pc + j - 1 \in 0 .. N
            /\ words[j] \in M!Visible(mem, virtual, pc + j - 1)
  BY <1>0, FetchFacts
<1>6. FreshPair(new, vis, modes)
  <2>1. \A j \in 1 .. Len(words) : words[j] \in vis[pc + j - 1]
    BY <1>5 DEF IInv, Present
  <2>2. DOMAIN words = 1 .. Len(words)
    BY <1>5 DEF ShapeOf
  <2>3. new.val = t
    OBVIOUS
  <2> HIDE DEF new, t
  <2> QED
    BY <1>3, <2>1, <2>2, <2>3 DEF FreshPair
<1>7. ShapeOf(new.key, new.val.words)
  BY <1>3, <1>5
<1> HIDE DEF new, t
<1>8. Shape' /\ FreshPairs' /\ Present'
  <2>1. Shape'
    BY <1>4, <1>7 DEF IInv, Shape, OneNewPair
  <2>2. FreshPairs'
    BY <1>2, <1>4, <1>6 DEF IInv, FreshPairs, OneNewPair
  <2>3. Present'
    BY <1>2 DEF IInv, Present
  <2> QED
    BY <2>1, <2>2, <2>3
<1>9. Lists'
  BY <1>0, <1>2, <1>4, CacheFacts DEF Lists
<1>10. Scalars'
  <2>1. stats' \in [Stat -> 0 .. StatCap]
    BY <1>0, CountedFacts DEF ReferMiss, Scalars
  <2> QED
    BY <1>0, <1>2, <2>1 DEF Scalars
<1>11. Control'
  <2>1. cache' # <<>> /\ cache'[1].key = pc
    BY <1>0, <1>3, <1>4, CacheFacts
  <2> QED
    BY <1>0, <1>2, <2>1 DEF Control, TraceAlive, running
<1>12. TypeOK'
  BY <1>9, <1>10 DEF TypeOK, Lists, Scalars, Pairs
<1> QED
  BY <1>8, <1>11, <1>12 DEF IInv

LEMMA ReferThrowStep == ASSUME IInv, ReferThrow PROVE IInv'
<1>0. TypeOK /\ Scalars /\ Lists
  BY TypeParts DEF IInv
<1>1. cache' = Evict(cache, CacheSize) /\ phase' = "stopped"
  BY DEF ReferThrow
<1>2. UNCHANGED <<mem, virtual, pc, at, executed_insts, stats, vis, modes, retired, freed>>
  BY DEF ReferThrow, history
<1>3. /\ cache' \in Seq(Pairs) /\ Len(cache') \in 0 .. CacheSize - 1
      /\ OldPairs(cache, cache')
  BY <1>0, <1>1, CacheFacts, EvictFacts, EvictOld
<1>4. Lists'
  BY <1>0, <1>2, <1>3, CacheFacts DEF Lists
<1>5. Scalars'
  BY <1>0, <1>1, <1>2 DEF Scalars
<1>6. Control'
  BY <1>1 DEF Control, TraceAlive, running
<1>7. TypeOK'
  BY <1>4, <1>5 DEF TypeOK, Lists, Scalars, Pairs
<1> QED
  BY <1>2, <1>3, <1>6, <1>7, OldKeeps DEF IInv

(* Setting the fields that translation sets. *)
FieldsAre(u, t, n, c, b) == u = [t EXCEPT !.exec_num = n, !.code = c, !.is_eligible = b]

LEMMA FieldsSet ==
    ASSUME NEW t \in Trace, NEW n \in Nat, NEW c \in {"none", "physical", "virtual"},
           NEW b \in BOOLEAN, NEW u, FieldsAre(u, t, n, c, b)
    PROVE  /\ u \in Trace /\ u.words = t.words /\ u.interpreted = t.interpreted
           /\ u.exec_num = n /\ u.code = c /\ u.is_eligible = b
  BY DEF Trace, FieldsAre

(* What the attempt to translate does to a trace. *)
LEMMA TranslateFacts ==
    ASSUME TypeOK, NEW t \in Trace
    PROVE  /\ Translate(t) \in Trace
           /\ Translate(t).words = t.words
           /\ Translate(t).interpreted = t.interpreted
           /\ \/ Translate(t).code = t.code
              \/ Translate(t).code = IF virtual THEN "virtual" ELSE "physical"
<1>0. /\ t.words \in Seq(Word) /\ t.exec_num \in Nat /\ t.is_eligible \in BOOLEAN
      /\ t.code \in {"none", "physical", "virtual"} /\ t.interpreted \in Nat
  BY TraceFacts
<1>1. CASE ~(Jit /\ t.is_eligible /\ t.code = "none")
  BY <1>1 DEF Translate
<1>2. CASE Jit /\ t.is_eligible /\ t.code = "none"
  <2> DEFINE hot == t.exec_num = Threshold
             can == Translatable(t.words)
             mode == IF virtual THEN "virtual" ELSE "physical"
             code == IF hot /\ can THEN mode ELSE "none"
             eligible == ~hot \/ can
  <2>1. FieldsAre(Translate(t), t, t.exec_num + 1, code, eligible)
    BY <1>2 DEF Translate, FieldsAre
  <2>2. code \in {"none", "physical", "virtual"} /\ eligible \in BOOLEAN
    OBVIOUS
  <2>3. code = t.code \/ code = mode
    BY <1>2
  <2> HIDE DEF code, eligible, mode
  <2>4. /\ Translate(t) \in Trace /\ Translate(t).words = t.words
        /\ Translate(t).interpreted = t.interpreted /\ Translate(t).code = code
    <3>1. t.exec_num + 1 \in Nat
      BY <1>0
    <3> QED
      BY <2>1, <2>2, <3>1, FieldsSet
  <2> QED
    BY <2>3, <2>4 DEF mode
<1> QED
  BY <1>1, <1>2

(* Putting a trace in the place of the one in front. *)
LEMMA FrontReplaced ==
    ASSUME TypeOK, 1 \in DOMAIN cache, NEW t \in Trace,
           cache' = [cache EXCEPT ![1].val = t]
    PROVE  /\ cache' \in Seq(Pairs)
           /\ Len(cache') = Len(cache)
           /\ DOMAIN cache' = DOMAIN cache
           /\ cache' # <<>>
           /\ cache'[1].key = cache[1].key
           /\ cache'[1].val = t
           /\ \A i \in DOMAIN cache : i # 1 => cache'[i] = cache[i]
<1>0. cache \in Seq(Pairs) /\ DOMAIN cache = 1 .. Len(cache) /\ Len(cache) \in Nat
  BY CacheFacts
<1>1. cache[1] \in Pairs /\ cache[1].key \in 0 .. N
  BY CacheFacts
<1> DEFINE p == [cache[1] EXCEPT !.val = t]
<1>2. p \in Pairs /\ p.key = cache[1].key /\ p.val = t
  BY <1>1 DEF Pairs
<1>3. cache' = [cache EXCEPT ![1] = p]
  OBVIOUS
<1> HIDE DEF p
<1>4. cache' \in Seq(Pairs) /\ Len(cache') = Len(cache) /\ cache'[1] = p
  BY <1>0, <1>2, <1>3
<1>5. /\ DOMAIN cache' = DOMAIN cache
      /\ \A i \in DOMAIN cache : i # 1 => cache'[i] = cache[i]
  BY <1>3
<1>6. cache' # <<>>
  BY <1>0, <1>4
<1> QED
  BY <1>2, <1>4, <1>5, <1>6

(* What is left in the cache by Execute: the same trace, its counters      *)
(* moved on and perhaps with code, for the mode that is on.                *)
LEMMA ExecuteFacts ==
    ASSUME IInv, Execute
    PROVE  /\ 1 \in DOMAIN cache /\ cache[1].key = pc /\ trace \in Trace
           /\ \E t \in Trace :
                 /\ cache' = [cache EXCEPT ![1].val = t]
                 /\ t.words = trace.words
                 /\ t.code = Translate(trace).code
                 /\ t.code = trace.code \/ t.code = IF virtual THEN "virtual" ELSE "physical"
                 /\ phase' \in {"interpret", "compiled"}
                 /\ (phase' = "compiled") <=> (t.code # "none")
<1>1. TypeOK /\ 1 \in DOMAIN cache /\ cache[1].key = pc /\ trace \in Trace
  <2>1. TypeOK /\ cache # <<>> /\ cache[1].key = pc
    BY DEF IInv, Control, Execute
  <2> QED
    BY <2>1, CacheFacts DEF trace
<1> DEFINE t == Translate(trace)
<1>2. /\ t \in Trace /\ t.words = trace.words
      /\ t.code = trace.code \/ t.code = IF virtual THEN "virtual" ELSE "physical"
  BY <1>1, TranslateFacts
<1>3. \/ /\ t.code # "none" /\ cache' = [cache EXCEPT ![1].val = t]
         /\ phase' = "compiled"
      \/ /\ t.code = "none"
         /\ cache' = [cache EXCEPT ![1].val = [t EXCEPT !.interpreted = Plus(@, 1)]]
         /\ phase' = "interpret"
  BY DEF Execute
<1> DEFINE u == [t EXCEPT !.interpreted = Plus(@, 1)]
<1> HIDE DEF t
<1>4. u \in Trace /\ u.words = t.words /\ u.code = t.code
  <2>1. t.interpreted \in Nat
    BY <1>2, TraceFacts
  <2>2. Plus(t.interpreted, 1) \in Nat
    BY <2>1, PlusFacts
  <2> QED
    BY <1>2, <2>2 DEF Trace
<1>5. CASE t.code # "none" /\ cache' = [cache EXCEPT ![1].val = t] /\ phase' = "compiled"
  BY <1>1, <1>2, <1>5 DEF t
<1>6. CASE t.code = "none" /\ cache' = [cache EXCEPT ![1].val = u] /\ phase' = "interpret"
  <2> HIDE DEF u
  <2> QED
    BY <1>1, <1>2, <1>4, <1>6 DEF t
<1> QED
  BY <1>3, <1>5, <1>6

LEMMA ExecuteStep == ASSUME IInv, Execute PROVE IInv'
<1>0. TypeOK /\ Scalars /\ Lists /\ at = 0
  BY TypeParts DEF IInv, Execute, Control
<1>1. 1 \in DOMAIN cache /\ cache[1].key = pc /\ trace \in Trace
  BY ExecuteFacts
<1>2. PICK t \in Trace :
          /\ cache' = [cache EXCEPT ![1].val = t]
          /\ t.words = trace.words
          /\ t.code = trace.code \/ t.code = IF virtual THEN "virtual" ELSE "physical"
          /\ phase' \in {"interpret", "compiled"}
          /\ (phase' = "compiled") <=> (t.code # "none")
  BY ExecuteFacts
<1>3. UNCHANGED <<mem, virtual, pc, at, vis, modes, retired, freed>>
  BY DEF Execute, history
<1>4. /\ cache' \in Seq(Pairs)
      /\ Len(cache') = Len(cache)
      /\ DOMAIN cache' = DOMAIN cache
      /\ cache' # <<>>
      /\ cache'[1].key = pc
      /\ cache'[1].val = t
      /\ \A i \in DOMAIN cache : i # 1 => cache'[i] = cache[i]
  BY <1>0, <1>1, <1>2, FrontReplaced
<1>5. ShapeOf(pc, t.words) /\ Len(t.words) \in 1 .. N
  <2>1. ShapeOf(cache[1].key, cache[1].val.words)
    BY <1>1 DEF IInv, Shape
  <2>2. ShapeOf(pc, t.words)
    BY <1>1, <1>2, <2>1 DEF trace
  <2> QED
    BY <2>2 DEF ShapeOf
<1>6. Shape'
  <2> SUFFICES ASSUME NEW i \in DOMAIN cache
               PROVE  ShapeOf(cache'[i].key, cache'[i].val.words)
    BY <1>4 DEF Shape
  <2>1. CASE i = 1
    BY <1>4, <1>5, <2>1
  <2>2. CASE i # 1
    BY <1>4, <2>2 DEF IInv, Shape
  <2> QED
    BY <2>1, <2>2
<1>7. FreshPairs'
  <2> SUFFICES ASSUME NEW i \in DOMAIN cache
               PROVE  FreshPair(cache'[i], vis, modes)
    BY <1>3, <1>4 DEF FreshPairs
  <2>1. CASE i = 1
    <3>1. FreshPair(cache[1], vis, modes) /\ virtual \in modes /\ virtual \in BOOLEAN
      BY <1>0, <1>1 DEF IInv, FreshPairs, Present, Scalars
    <3>2. /\ \A j \in DOMAIN t.words : t.words[j] \in vis[pc + j - 1]
          /\ trace.code = "physical" => FALSE \in modes
          /\ trace.code = "virtual" => TRUE \in modes
      BY <1>1, <1>2, <3>1 DEF FreshPair, trace
    <3>3. /\ t.code = "physical" => FALSE \in modes
          /\ t.code = "virtual" => TRUE \in modes
      <4>1. CASE t.code = trace.code
        BY <3>2, <4>1
      <4>2. CASE t.code = IF virtual THEN "virtual" ELSE "physical"
        <5>1. CASE virtual = TRUE
          BY <3>1, <4>2, <5>1
        <5>2. CASE virtual = FALSE
          BY <3>1, <4>2, <5>2
        <5> QED
          BY <3>1, <5>1, <5>2
      <4> QED
        BY <1>2, <4>1, <4>2
    <3> QED
      BY <1>4, <2>1, <3>2, <3>3 DEF FreshPair
  <2>2. CASE i # 1
    BY <1>4, <2>2 DEF IInv, FreshPairs
  <2> QED
    BY <2>1, <2>2
<1>8. Present'
  BY <1>3 DEF IInv, Present
<1>9. Lists'
  BY <1>0, <1>3, <1>4 DEF Lists
<1>10. Scalars'
  <2>1. stats' \in [Stat -> 0 .. StatCap]
    BY <1>0, CountedFacts DEF Execute, Scalars
  <2>2. executed_insts' \in Nat
    <3>1. executed_insts \in Nat
      BY <1>0 DEF Scalars
    <3>2. executed_insts' = executed_insts \/
          executed_insts' = Plus(executed_insts, Len(Translate(trace).words))
      BY DEF Execute
    <3>3. Len(Translate(trace).words) \in Nat
      BY <1>0, <1>1, <1>2, <1>5, TranslateFacts
    <3> QED
      BY <3>1, <3>2, <3>3, PlusFacts
  <2> QED
    BY <1>0, <1>2, <1>3, <2>1, <2>2 DEF Scalars
<1>11. Control'
  <2>1. trace' = t
    BY <1>4 DEF trace
  <2>2. at' = 0 /\ 0 < Len(t.words) /\ pc' = pc
    BY <1>0, <1>3, <1>5
  <2>3. TraceAlive'
    BY <1>2, <1>4, <2>1, <2>2 DEF TraceAlive
  <2> QED
    BY <1>2, <2>3 DEF Control
<1>12. TypeOK'
  BY <1>9, <1>10 DEF TypeOK, Lists, Scalars, Pairs
<1> QED
  BY <1>6, <1>7, <1>8, <1>11, <1>12 DEF IInv

-----------------------------------------------------------------------------
(* The steps of a running trace.  One that does not end the trace leaves   *)
(* an instruction to execute.                                              *)
LEMMA AliveAfter ==
    ASSUME IInv, running, inst.op \notin Ending, at' = at + 1,
           UNCHANGED <<pc, cache, phase>>
    PROVE  Control' /\ at' \in 0 .. N
<1>1. /\ at + 1 \in 1 .. Len(trace.words) /\ at + 1 # Len(trace.words)
      /\ Len(trace.words) \in 1 .. N /\ at \in 0 .. N - 1
  BY RunningFacts
<1>2. at' < Len(trace.words)
  BY <1>1
<1>3. TraceAlive'
  BY <1>2 DEF IInv, Control, TraceAlive, running, trace
<1>4. at' \in 0 .. N
  BY <1>1, SimAssumption
<1>5. phase' \in {"interpret", "compiled"}
  BY DEF running
<1>6. Control'
  BY <1>3, <1>5 DEF Control
<1> QED
  BY <1>4, <1>6

LEMMA RetireFacts ==
    ASSUME TypeOK, Retire
    PROVE  retired' \in Nat
  BY PlusFacts DEF TypeOK, Retire

LEMMA GoOnStep ==
    ASSUME IInv, running, inst.op \notin Ending, GoOn
    PROVE  IInv'
<1>0. TypeOK /\ Scalars /\ Lists
  BY TypeParts DEF IInv
<1>1. /\ at' = at + 1 /\ retired' \in Nat
      /\ UNCHANGED <<mem, virtual, pc, cache, phase, executed_insts, stats, vis, modes, freed>>
  BY <1>0, RetireFacts DEF GoOn
<1>2. Control' /\ at' \in 0 .. N
  BY <1>1, AliveAfter
<1>3. Shape' /\ Present' /\ FreshPairs'
  BY <1>1, QuietKeeps
<1>4. TypeOK'
  BY <1>0, <1>1, <1>2 DEF TypeOK
<1> QED
  BY <1>2, <1>3, <1>4 DEF IInv

LEMMA WriteAtStep ==
    ASSUME IInv, running, inst.op \notin Ending, NEW p \in 0 .. N - 1, WriteAt(p)
    PROVE  IInv'
<1>0. TypeOK /\ virtual \in modes
  BY DEF IInv, Present
<1>1. /\ at' = at + 1 /\ retired' \in Nat
      /\ UNCHANGED <<virtual, pc, cache, phase, executed_insts, stats, modes, freed>>
      /\ vis' = M!Also(mem', virtual)
      /\ mem' = [mem EXCEPT ![p] = inst.data]
  BY <1>0, RetireFacts DEF WriteAt
<1>2. Control' /\ at' \in 0 .. N
  BY <1>1, AliveAfter
<1>3. mem' \in [0 .. N - 1 -> Word]
  <2>1. inst.data \in Word
    BY RunningFacts
  <2> HIDE DEF inst
  <2> QED
    BY <1>0, <1>1, <2>1 DEF TypeOK
<1>4. Shape' /\ Present' /\ FreshPairs' /\ vis' \in [0 .. N -> SUBSET Word]
  <2>1. virtual' \in BOOLEAN /\ modes \subseteq modes' /\ virtual' \in modes'
    BY <1>0, <1>1 DEF TypeOK
  <2>2. vis' = M!Also(mem', virtual')
    BY <1>1
  <2> QED
    BY <1>1, <1>3, <2>1, <2>2, GrowKeeps
<1>5. TypeOK'
  BY <1>0, <1>1, <1>2, <1>3, <1>4 DEF TypeOK
<1> QED
  BY <1>2, <1>4, <1>5 DEF IInv

LEMMA InterruptedStep ==
    ASSUME IInv, NEW ph \in {"stopped", "lost", "wild"}, Interrupted(ph)
    PROVE  IInv'
<1>1. /\ phase' = ph
      /\ UNCHANGED <<mem, virtual, pc, cache, at, executed_insts, stats, vis, modes, retired, freed>>
  BY DEF Interrupted, history
<1>2. Shape' /\ Present' /\ FreshPairs'
  BY <1>1, QuietKeeps
<1>3. Control'
  BY <1>1 DEF Control, TraceAlive, running
<1>4. TypeOK'
  BY <1>1 DEF IInv, TypeOK
<1> QED
  BY <1>2, <1>3, <1>4 DEF IInv

LEMMA SatpStep == ASSUME IInv, Satp PROVE IInv'
<1>0. TypeOK /\ running /\ inst.op \notin Ending
  BY DEF IInv, Satp, Ending
<1>1. /\ at' = at + 1 /\ retired' \in Nat
      /\ virtual' = TRUE /\ vis' = M!Also(mem, TRUE) /\ modes' = modes \union {TRUE}
      /\ UNCHANGED <<mem, pc, cache, phase, executed_insts, stats, freed>>
  BY <1>0, RetireFacts DEF Satp
<1>2. Control' /\ at' \in 0 .. N
  BY <1>0, <1>1, AliveAfter
<1>3. virtual' \in BOOLEAN /\ virtual' \in modes' /\ modes \subseteq modes'
  BY <1>1
<1>4. modes' \subseteq BOOLEAN
  BY <1>0, <1>1 DEF TypeOK
<1>5. mem' \in [0 .. N - 1 -> Word] /\ vis' = M!Also(mem', virtual')
  BY <1>0, <1>1 DEF TypeOK
<1>6. Shape' /\ Present' /\ FreshPairs' /\ vis' \in [0 .. N -> SUBSET Word]
  BY <1>1, <1>3, <1>5, GrowKeeps
<1>7. TypeOK'
  BY <1>0, <1>1, <1>2, <1>3, <1>4, <1>6 DEF TypeOK
<1> QED
  BY <1>2, <1>6, <1>7 DEF IInv

(* One that ends the trace goes back to the loop. *)
LEMMA LeaveFacts ==
    ASSUME TypeOK, running, NEW a \in 0 .. N, LeaveTo(a)
    PROVE  /\ pc' \in 0 .. N /\ at' = 0 /\ at' \in 0 .. N
           /\ phase' \in {"check", "count"}
           /\ stats' \in [Stat -> 0 .. StatCap]
           /\ retired' \in Nat
           /\ Control'
<1>0. N \in Nat
  BY SimAssumption
<1>1. pc' = a /\ at' = 0 /\ phase' \in {"check", "count"} /\ retired' \in Nat
  BY RetireFacts DEF LeaveTo
<1>2. stats' \in [Stat -> 0 .. StatCap]
  BY CountedFacts DEF LeaveTo, TypeOK
<1>3. Control'
  BY <1>1 DEF Control, TraceAlive, running
<1> QED
  BY <1>0, <1>1, <1>2, <1>3

LEMMA LeaveStep ==
    ASSUME IInv, running, NEW a \in 0 .. N, LeaveTo(a),
           UNCHANGED <<mem, virtual, cache, executed_insts, vis, modes, freed>>
    PROVE  IInv'
<1>0. TypeOK
  BY DEF IInv
<1>1. /\ pc' \in 0 .. N /\ at' \in 0 .. N
      /\ phase' \in {"check", "count"}
      /\ stats' \in [Stat -> 0 .. StatCap]
      /\ retired' \in Nat
      /\ Control'
  BY <1>0, LeaveFacts
<1>2. Shape' /\ Present' /\ FreshPairs'
  BY QuietKeeps
<1>3. TypeOK'
  BY <1>0, <1>1 DEF TypeOK
<1> QED
  BY <1>1, <1>2, <1>3 DEF IInv

LEMMA FenceStep == ASSUME IInv, Fence PROVE IInv'
<1>0. TypeOK /\ running /\ pc + at + 1 \in 0 .. N
  BY RunningFacts DEF IInv, Fence
<1>1. /\ cache' = <<>> /\ vis' = M!AllVisible(mem, virtual) /\ modes' = {virtual}
      /\ LeaveTo(pc + at + 1)
      /\ UNCHANGED <<mem, virtual, executed_insts, freed>>
  BY DEF Fence
<1>2. /\ pc' \in 0 .. N /\ at' \in 0 .. N
      /\ phase' \in {"check", "count"}
      /\ stats' \in [Stat -> 0 .. StatCap]
      /\ retired' \in Nat
      /\ Control'
  BY <1>0, <1>1, LeaveFacts
<1>3. mem \in [0 .. N - 1 -> Word] /\ virtual \in BOOLEAN
  BY <1>0 DEF TypeOK
<1>4. /\ vis' \in [0 .. N -> SUBSET Word]
      /\ \A a \in 0 .. N : vis'[a] = M!Visible(mem, virtual, a)
  BY <1>1, <1>3, HistoryFacts
<1>5. DOMAIN cache' = {} /\ Len(cache') = 0 /\ cache' \in Seq(Pairs)
  BY <1>1
<1>6. Shape' /\ FreshPairs'
  BY <1>5 DEF Shape, FreshPairs
<1>7. Present'
  BY <1>1, <1>4 DEF Present
<1>8. TypeOK'
  <2>1. modes' \subseteq BOOLEAN
    BY <1>1, <1>3
  <2>2. cache' \in Seq([key : 0 .. N, val : Trace]) /\ Len(cache') <= CacheSize
    BY <1>5, SimAssumption DEF Pairs
  <2> QED
    BY <1>0, <1>1, <1>2, <1>4, <2>1, <2>2 DEF TypeOK
<1> QED
  BY <1>2, <1>6, <1>7, <1>8 DEF IInv

LEMMA LoopBranchStep == ASSUME IInv, LoopBranch PROVE IInv'
<1>0. TypeOK /\ running /\ Len(trace.words) \in 1 .. N
  BY RunningFacts DEF IInv, LoopBranch
<1>1. /\ at' = 0 /\ executed_insts' = Plus(executed_insts, Len(trace.words))
      /\ retired' \in Nat
      /\ UNCHANGED <<mem, virtual, pc, cache, phase, stats, vis, modes, freed>>
  BY <1>0, RetireFacts DEF LoopBranch
<1>2. executed_insts' \in Nat
  <2>1. executed_insts \in Nat /\ Len(trace.words) \in Nat
    BY <1>0, SimAssumption DEF TypeOK
  <2> QED
    BY <1>1, <2>1, PlusFacts
<1>3. Shape' /\ Present' /\ FreshPairs'
  BY <1>1, QuietKeeps
<1>4. N \in Nat /\ 0 < Len(trace.words)
  BY <1>0, SimAssumption
<1>5. Control'
  <2>1. TraceAlive'
    BY <1>1, <1>4 DEF IInv, Control, TraceAlive, running, trace
  <2> QED
    BY <1>0, <1>1, <2>1 DEF Control, running
<1>6. TypeOK'
  BY <1>0, <1>1, <1>2, <1>4 DEF TypeOK
<1> QED
  BY <1>3, <1>5, <1>6 DEF IInv

(* The end of the loop body. *)
LEMMA CountStep == ASSUME IInv, Count PROVE IInv'
<1>0. TypeOK /\ at = 0
  BY DEF IInv, Control, Count
<1>1. /\ phase' = "check"
      /\ UNCHANGED <<mem, virtual, pc, cache, at, vis, modes, retired>>
  BY DEF Count
<1>2. executed_insts' \in Nat
  <2>1. PICK n \in IF cache = <<>> THEN Garbage ELSE {Len(trace.words)} :
            executed_insts' = Plus(executed_insts, n)
    BY DEF Count
  <2>2. n \in Nat
    <3>1. CASE cache = <<>>
      BY <2>1, <3>1, SimAssumption
    <3>2. CASE cache # <<>>
      <4>1. trace \in Trace
        BY <1>0, <3>2, CacheFacts DEF trace
      <4>2. Len(trace.words) \in Nat
        BY <4>1, TraceFacts
      <4> QED
        BY <2>1, <3>2, <4>2
    <3> QED
      BY <3>1, <3>2
  <2>3. executed_insts \in Nat
    BY <1>0 DEF TypeOK
  <2> QED
    BY <2>1, <2>2, <2>3, PlusFacts
<1>3. stats' \in [Stat -> 0 .. StatCap]
  BY <1>0, CountedFacts DEF Count, TypeOK
<1>4. freed' \in BOOLEAN
  BY <1>0 DEF Count, TypeOK
<1>5. Shape' /\ Present' /\ FreshPairs'
  BY <1>1, QuietKeeps
<1>6. Control'
  BY <1>0, <1>1 DEF Control, TraceAlive, running
<1>7. TypeOK'
  BY <1>0, <1>1, <1>2, <1>3, <1>4 DEF TypeOK
<1> QED
  BY <1>5, <1>6, <1>7 DEF IInv

LEMMA CheckStep == ASSUME IInv, Check PROVE IInv'
<1>0. TypeOK /\ at = 0
  BY DEF IInv, Control, Check
<1>1. /\ phase' \in {"stopped", "refer"}
      /\ UNCHANGED <<mem, virtual, pc, cache, at, executed_insts, stats, vis, modes, retired, freed>>
  BY DEF Check, history
<1>2. Shape' /\ Present' /\ FreshPairs'
  BY <1>1, QuietKeeps
<1>3. Control'
  BY <1>0, <1>1 DEF Control, TraceAlive, running
<1>4. TypeOK'
  BY <1>0, <1>1 DEF TypeOK
<1> QED
  BY <1>2, <1>3, <1>4 DEF IInv

(* Each action of a running trace is one of these. *)
RunningStep ==
    \/ Plain \/ InterpretLoad \/ CompiledLoad \/ InterpretStore \/ CompiledStore
    \/ ReadCall \/ Stop \/ Jump \/ Branch

LEMMA RunningCases ==
    ASSUME IInv, RunningStep
    PROVE  /\ running
           /\ \/ inst.op \notin Ending /\ GoOn
              \/ inst.op \notin Ending /\ \E p \in 0 .. N - 1 : WriteAt(p)
              \/ \E ph \in {"stopped", "lost", "wild"} : Interrupted(ph)
              \/ /\ inst.op \in Ending
                 /\ \E a \in 0 .. N : LeaveTo(a)
                 /\ UNCHANGED <<mem, virtual, cache, executed_insts, vis, modes, freed>>
<1>0. TypeOK /\ virtual \in BOOLEAN
  BY DEF IInv, TypeOK
<1>1. running
  BY DEF RunningStep, Plain, InterpretLoad, CompiledLoad, InterpretStore, CompiledStore,
     ReadCall, Stop, Jump, Branch, running
<1>2. inst.to \in 0 .. N /\ pc + at + 1 \in 0 .. N /\ N \in Nat
  BY <1>1, RunningFacts, SimAssumption
<1> HIDE DEF inst
<1>3. M!Phys(virtual, inst.to) \subseteq 0 .. N - 1
  BY <1>0, <1>2, PhysFacts
<1>4. CASE Plain \/ InterpretLoad \/ CompiledLoad
  BY <1>1, <1>4 DEF Plain, InterpretLoad, CompiledLoad, Ending
<1>5. CASE InterpretStore \/ ReadCall
  BY <1>1, <1>3, <1>5 DEF InterpretStore, ReadCall, Ending
<1>6. CASE CompiledStore \/ Stop
  BY <1>1, <1>2, <1>6 DEF CompiledStore, Stop, Ending
<1>7. CASE Jump
  BY <1>1, <1>2, <1>7 DEF Jump, Ending
<1>8. CASE Branch
  BY <1>1, <1>2, <1>8 DEF Branch, Ending
<1> QED
  BY <1>4, <1>5, <1>6, <1>7, <1>8 DEF RunningStep

LEMMA NextIInv == IInv /\ [Next]_vars => IInv'
<1> SUFFICES ASSUME IInv, [Next]_vars PROVE IInv'
  OBVIOUS
<1>1. CASE UNCHANGED vars
  <2>1. UNCHANGED <<mem, virtual, pc, cache, phase, at, executed_insts, stats,
                    vis, modes, retired, freed>>
    BY <1>1 DEF vars
  <2>2. Shape' /\ Present' /\ FreshPairs'
    BY <2>1, QuietKeeps
  <2>3. TypeOK'
    BY <2>1 DEF IInv, TypeOK
  <2>4. Control'
    BY <2>1 DEF IInv, Control, TraceAlive, running, trace
  <2> QED
    BY <2>2, <2>3, <2>4 DEF IInv
<1>2. CASE ReferHit \/ ReferMiss \/ ReferThrow \/ Execute
  BY <1>2, ReferHitStep, ReferMissStep, ReferThrowStep, ExecuteStep
<1>3. CASE RunningStep
  <2>1. /\ running
        /\ \/ inst.op \notin Ending /\ GoOn
           \/ inst.op \notin Ending /\ \E p \in 0 .. N - 1 : WriteAt(p)
           \/ \E ph \in {"stopped", "lost", "wild"} : Interrupted(ph)
           \/ /\ \E a \in 0 .. N : LeaveTo(a)
              /\ UNCHANGED <<mem, virtual, cache, executed_insts, vis, modes, freed>>
    BY <1>3, RunningCases
  <2> QED
    BY <2>1, GoOnStep, WriteAtStep, InterruptedStep, LeaveStep
<1>4. CASE Satp \/ Fence \/ LoopBranch \/ Count \/ Check
  BY <1>4, SatpStep, FenceStep, LoopBranchStep, CountStep, CheckStep
<1>5. CASE Over
  BY <1>1, <1>5 DEF Over
<1> QED
  BY <1>1, <1>2, <1>3, <1>4, <1>5 DEF Next, RunningStep

LEMMA IInvHolds == Spec => []IInv
  BY InitIInv, NextIInv, PTL DEF Spec

LEMMA IInvFresh == IInv => Fresh
  BY DEF IInv, FreshPairs, FreshPair, Fresh

(* For every program, page table and cache size: the state of the loop     *)
(* keeps its types and the trace cache stays within cache_size.            *)
THEOREM TypeCorrect == Spec => []TypeOK
<1>1. IInv => TypeOK
  BY DEF IInv
<1> QED
  BY IInvHolds, <1>1, PTL

(* For every program, page table and cache size: a running trace is alive, *)
(* in front of the cache, and has an instruction left.                     *)
THEOREM NeverRunsOff == Spec => []TraceAlive
<1>1. IInv => TraceAlive
  BY DEF IInv, Control
<1> QED
  BY IInvHolds, <1>1, PTL

(* For every program, page table and cache size: cached traces and their   *)
(* host code are never staler than the last FENCE.                         *)
THEOREM TracesFresh == Spec => []Fresh
  BY IInvHolds, IInvFresh, PTL

-----------------------------------------------------------------------------
(* The main loop implements FenceMachine: step by step, what traces, the   *)
(* trace cache and host code do is a step of the machine without them, or  *)
(* invisible to the guest.                                                 *)

(* The natural numbers are well ordered. *)
LEMMA LeastOf ==
    ASSUME NEW T, T \subseteq Nat, T # {}
    PROVE  \E m \in T : \A k \in T : m <= k
<1> DEFINE R == OpToRel(<, Nat)
<1>1. \E m \in T : \A k \in T : ~(<<k, m>> \in R)
  <2>1. IsWellFoundedOn(R, Nat)
    BY NatLessThanWellFounded
  <2> HIDE DEF R
  <2> QED
    BY <2>1, WFMin
<1>2. \A k, m \in Nat : k < m => <<k, m>> \in R
  BY DEF OpToRel
<1> HIDE DEF R
<1>3. PICK m \in T : \A k \in T : ~(<<k, m>> \in R)
  BY <1>1
<1>4. \A k \in T : ~(k < m)
  BY <1>2, <1>3
<1> QED
  BY <1>3, <1>4

-----------------------------------------------------------------------------
(* The effects a step of a trace can have, as the machine sees them. *)
LEMMA GoOnIsGoto ==
    ASSUME IInv, running, GoOn
    PROVE  M!Goto(pc + at + 1)
<1>0. pc \in Nat /\ at \in Nat
  BY SimAssumption DEF IInv, TypeOK
<1>1. /\ pc' + at' = pc + at + 1
      /\ UNCHANGED <<mem, virtual, vis, modes, phase>>
  BY <1>0 DEF GoOn
<1> QED
  BY <1>1 DEF M!Goto

LEMMA LeaveIsGoto ==
    ASSUME running, NEW a \in 0 .. N, LeaveTo(a), UNCHANGED <<mem, virtual, vis, modes>>
    PROVE  M!Goto(a)
<1>1. pc' + at' = a
  BY SimAssumption DEF LeaveTo
<1>2. phase # "stopped" /\ phase' # "stopped"
  BY DEF running, LeaveTo
<1>3. (phase' = "stopped") = (phase = "stopped")
  BY <1>2
<1> QED
  BY <1>1, <1>3 DEF M!Goto

LEMMA StopIsHalt ==
    ASSUME Interrupted("stopped")
    PROVE  M!Halt
<1>1. phase' = "stopped" /\ UNCHANGED <<mem, virtual, pc, at, vis, modes>>
  BY DEF Interrupted, history
<1>2. (phase' = "stopped") = TRUE
  BY <1>1
<1> QED
  BY <1>1, <1>2 DEF M!Halt

(* An instruction that the machine can execute. *)
LEMMA IsGStep ==
    ASSUME IInv, running, M!Execute(inst)
    PROVE  M!GStep
<1> DEFINE w == trace.words[at + 1]
<1>1. w \in vis[pc + at] /\ Inst[w].op # "undef"
  BY RunningFacts DEF inst
<1>2. M!Execute(Inst[w])
  BY DEF inst
<1>3. ~(phase = "stopped")
  BY DEF running
<1> HIDE DEF w
<1> QED
  BY <1>1, <1>2, <1>3 DEF M!GStep

(* Nothing the guest sees. *)
LEMMA Unseen ==
    ASSUME UNCHANGED <<mem, virtual, vis, modes>>, pc' + at' = pc + at,
           phase # "stopped", phase' # "stopped"
    PROVE  UNCHANGED M!gvars
<1>1. (phase' = "stopped") = (phase = "stopped")
  OBVIOUS
<1> QED
  BY <1>1 DEF M!gvars

(* A store that takes effect at p, as the machine has it. *)
Written(p) ==
    /\ mem' = [mem EXCEPT ![p] = inst.data]
    /\ vis' = M!Also(mem', virtual)
    /\ (pc + at)' = pc + at + 1
    /\ UNCHANGED <<virtual, modes, phase = "stopped">>

LEMMA WriteIsWritten ==
    ASSUME IInv, NEW p, WriteAt(p)
    PROVE  Written(p)
<1>0. pc \in Nat /\ at \in Nat
  BY SimAssumption DEF IInv, TypeOK
<1>1. /\ pc' + at' = pc + at + 1
      /\ UNCHANGED <<virtual, modes, phase>>
  BY <1>0 DEF WriteAt
<1>2. mem' = [mem EXCEPT ![p] = inst.data] /\ vis' = M!Also(mem', virtual)
  BY DEF WriteAt
<1> QED
  BY <1>1, <1>2 DEF Written

-----------------------------------------------------------------------------
(* One lemma per kind of instruction.  An instruction of a trace is one    *)
(* that was visible since the last FENCE, and so is the addressing mode    *)
(* host code was compiled in.                                              *)
LEMMA LoadRefines ==
    ASSUME IInv, InterpretLoad \/ CompiledLoad
    PROVE  M!GNext \/ UNCHANGED M!gvars
<1>0. running /\ inst.op = "load" /\ phase # "stopped"
  BY DEF InterpretLoad, CompiledLoad, running
<1>1. virtual \in modes /\ inst.to \in 0 .. N
  BY <1>0, RunningFacts, SimAssumption DEF IInv, Present
<1> SUFFICES ASSUME ~UNCHANGED M!gvars PROVE M!LoadFrom(inst)
  <2>1. M!LoadFrom(inst) => M!GStep
    BY <1>0, IsGStep DEF M!Execute
  <2> QED
    BY <2>1 DEF M!GNext
<1>2. CASE InterpretLoad
  <2>1. \/ M!Phys(virtual, inst.to) # {} /\ M!Goto(pc + at + 1)
        \/ M!Phys(virtual, inst.to) = {} /\ M!Halt
    BY <1>0, <1>2, GoOnIsGoto, StopIsHalt DEF InterpretLoad
  <2> QED
    BY <1>1, <2>1 DEF M!LoadFrom
<1>3. CASE CompiledLoad /\ trace.code = "physical" /\ inst.to # N
  <2>0. inst.to \in 0 .. N /\ inst.to # N
    BY <1>1, <1>3
  <2>1. M!Goto(pc + at + 1)
    BY <1>0, <1>3, GoOnIsGoto DEF CompiledLoad
  <2>2. FALSE \in modes
    BY <1>0, <1>3, RunningFacts DEF IInv, FreshPairs, FreshPair, trace
  <2>3. M!Phys(FALSE, inst.to) # {}
    <3> HIDE DEF inst
    <3> QED
      BY <2>0, PhysFacts
  <2> QED
    BY <2>1, <2>2, <2>3 DEF M!LoadFrom
<1>4. CASE CompiledLoad /\ (trace.code # "physical" \/ inst.to = N)
  <2>1. Interrupted("lost") \/ Interrupted("wild")
    BY <1>4 DEF CompiledLoad
  <2>2. UNCHANGED M!gvars
    BY <1>0, <2>1, Unseen DEF Interrupted, history
  <2> QED
    BY <2>2
<1> QED
  BY <1>2, <1>3, <1>4

LEMMA StoreRefines ==
    ASSUME IInv, InterpretStore \/ CompiledStore
    PROVE  M!GNext \/ UNCHANGED M!gvars
<1>0. running /\ inst.op = "store" /\ phase # "stopped"
  BY DEF InterpretStore, CompiledStore, running
<1>1. virtual \in modes /\ inst.to \in 0 .. N
  BY <1>0, RunningFacts, SimAssumption DEF IInv, Present
<1> SUFFICES ASSUME ~UNCHANGED M!gvars PROVE M!StoreTo(inst)
  <2>1. M!StoreTo(inst) => M!GStep
    BY <1>0, IsGStep DEF M!Execute
  <2> QED
    BY <2>1 DEF M!GNext
<1>2. CASE InterpretStore
  <2>1. \/ \E p \in M!Phys(virtual, inst.to) : Written(p)
        \/ M!Phys(virtual, inst.to) = {} /\ M!Halt
    BY <1>2, WriteIsWritten, StopIsHalt DEF InterpretStore
  <2> QED
    BY <1>1, <2>1 DEF M!StoreTo, Written
<1>3. CASE CompiledStore /\ trace.code = "physical" /\ inst.to # N
  <2>0. inst.to \in 0 .. N /\ inst.to # N
    BY <1>1, <1>3
  <2>1. Written(inst.to)
    BY <1>3, WriteIsWritten DEF CompiledStore
  <2>2. FALSE \in modes
    BY <1>0, <1>3, RunningFacts DEF IInv, FreshPairs, FreshPair, trace
  <2>3. inst.to \in M!Phys(FALSE, inst.to)
    <3> HIDE DEF inst
    <3> QED
      BY <2>0, PhysFacts
  <2> QED
    BY <2>1, <2>2, <2>3 DEF M!StoreTo, Written
<1>4. CASE CompiledStore /\ (trace.code # "physical" \/ inst.to = N)
  <2>1. Interrupted("lost") \/ Interrupted("wild")
    BY <1>4 DEF CompiledStore
  <2>2. UNCHANGED M!gvars
    BY <1>0, <2>1, Unseen DEF Interrupted, history
  <2> QED
    BY <2>2
<1> QED
  BY <1>2, <1>3, <1>4

LEMMA ReadRefines == ASSUME IInv, ReadCall PROVE M!GNext
<1>0. running /\ inst.op = "read"
  BY DEF ReadCall
<1>1. \/ M!Goto(pc + at + 1)
      \/ \E p \in M!Phys(virtual, inst.to) : Written(p)
      \/ M!Phys(virtual, inst.to) = {} /\ M!Halt
  BY <1>0, GoOnIsGoto, WriteIsWritten, StopIsHalt DEF ReadCall
<1>2. M!ReadTo(inst)
  BY <1>1 DEF M!ReadTo, Written
<1> QED
  BY <1>0, <1>2, IsGStep DEF M!Execute, M!GNext

LEMMA PlainRefines == ASSUME IInv, Plain \/ Stop PROVE M!GNext
<1>1. CASE Plain
  <2>1. running /\ inst.op \in {"plain", "call"} /\ M!Goto(pc + at + 1)
    BY <1>1, GoOnIsGoto DEF Plain
  <2> QED
    BY <2>1, IsGStep DEF M!Execute, M!GNext
<1>2. CASE Stop
  <2>1. running /\ inst.op = "stop" /\ M!Halt
    BY <1>2, StopIsHalt DEF Stop
  <2> QED
    BY <2>1, IsGStep DEF M!Execute, M!GNext
<1> QED
  BY <1>1, <1>2

LEMMA SatpRefines == ASSUME IInv, Satp PROVE M!GNext
<1>0. pc \in Nat /\ at \in Nat
  BY SimAssumption DEF IInv, TypeOK
<1>1. running /\ inst.op = "satp" /\ pc' + at' = pc + at + 1
  BY <1>0 DEF Satp
<1>2. M!EnableVirtual
  BY <1>1 DEF Satp, M!EnableVirtual
<1> QED
  BY <1>1, <1>2, IsGStep DEF M!Execute, M!GNext

LEMMA JumpRefines == ASSUME IInv, Jump PROVE M!GNext
<1>1. running /\ inst.op = "jump" /\ inst.to \in 0 .. N
  BY RunningFacts, SimAssumption DEF Jump
<1>2. M!Goto(inst.to)
  <2>1. LeaveTo(inst.to) /\ UNCHANGED <<mem, virtual, vis, modes>>
    BY DEF Jump
  <2> QED
    BY <1>1, <2>1, LeaveIsGoto
<1> QED
  BY <1>1, <1>2, IsGStep DEF M!Execute, M!GNext

LEMMA BranchRefines == ASSUME IInv, Branch \/ LoopBranch PROVE M!GNext
<1>1. /\ running /\ inst.op = "branch" /\ inst.to \in 0 .. N
      /\ pc + at + 1 \in 0 .. N /\ pc \in 0 .. N
  BY RunningFacts, SimAssumption DEF Branch, LoopBranch, IInv, TypeOK
<1> SUFFICES M!Goto(inst.to) \/ M!Goto(pc + at + 1)
  BY <1>1, IsGStep DEF M!Execute, M!GNext
<1>2. CASE Branch
  <2>1. LeaveTo(pc + at + 1) \/ LeaveTo(inst.to)
    BY <1>2 DEF Branch
  <2>2. UNCHANGED <<mem, virtual, vis, modes>>
    BY <1>2 DEF Branch
  <2> QED
    BY <1>1, <2>1, <2>2, LeaveIsGoto
<1>3. CASE LoopBranch
  <2>1. /\ pc' = inst.to /\ at' = 0
        /\ UNCHANGED <<mem, virtual, vis, modes, phase>>
    BY <1>3 DEF LoopBranch, Loops
  <2>2. pc' + at' = inst.to
    BY <1>1, <2>1
  <2> QED
    BY <2>1, <2>2 DEF M!Goto
<1> QED
  BY <1>2, <1>3

LEMMA FenceRefines == ASSUME IInv, Fence PROVE M!GNext
<1>1. running /\ inst.op = "fence" /\ pc + at + 1 \in 0 .. N
  BY RunningFacts DEF Fence
<1>2. /\ vis' = M!AllVisible(mem, virtual) /\ modes' = {virtual}
      /\ LeaveTo(pc + at + 1) /\ UNCHANGED <<mem, virtual>>
  BY DEF Fence
<1>3. pc' + at' = pc + at + 1
  BY <1>1, <1>2, SimAssumption DEF LeaveTo
<1>4. (phase' = "stopped") = (phase = "stopped")
  <2>1. phase # "stopped" /\ phase' # "stopped"
    BY <1>1, <1>2 DEF running, LeaveTo
  <2> QED
    BY <2>1
<1>5. M!Fence
  BY <1>2, <1>3, <1>4 DEF M!Fence
<1> QED
  BY <1>1, <1>5, IsGStep DEF M!Execute, M!GNext

-----------------------------------------------------------------------------
(* No trace can be built: the straight line from pc runs into an address   *)
(* whose word is not mapped or does not decode, with no terminator before. *)
LEMMA ThrowRefines == ASSUME IInv, ReferThrow PROVE M!GNext
<1>0. /\ N \in Nat /\ pc \in 0 .. N /\ at = 0 /\ virtual \in BOOLEAN
      /\ mem \in [0 .. N - 1 -> Word]
  BY SimAssumption DEF IInv, TypeOK, Control, ReferThrow
<1> DEFINE Bad == {b \in pc .. N : ~Decodes(b) \/ Ends(b)}
<1>1. N \in Bad
  <2>1. M!Visible(mem, virtual, N) = {}
    BY <1>0, VisibleFacts
  <2>2. ~Decodes(N)
    BY <2>1 DEF Decodes
  <2> QED
    BY <1>0, <2>2
<1>2. PICK b \in Bad : \A c \in Bad : b <= c
  <2>1. Bad \subseteq Nat /\ Bad # {}
    BY <1>0, <1>1
  <2> HIDE DEF Bad
  <2> QED
    BY <2>1, LeastOf
<1>3. b \in pc .. N /\ \A d \in pc .. b - 1 : Decodes(d) /\ ~Ends(d)
  <2>1. \A d \in pc .. b - 1 : d \in pc .. N /\ d \notin Bad
    BY <1>0, <1>2
  <2> QED
    BY <2>1
<1>4. ~Ends(b)
  <2> SUFFICES ASSUME Ends(b) PROVE FALSE
    OBVIOUS
  <2>1. b \in pc .. N - 1
    <3>1. ~Decodes(N)
      BY <1>0, VisibleFacts DEF Decodes
    <3>2. b # N
      BY <3>1 DEF Ends
    <3> QED
      BY <1>0, <1>3, <3>2
  <2>2. b \in {c \in pc .. N - 1 : Ends(c) /\ \A d \in pc .. c - 1 : Decodes(d) /\ ~Ends(d)}
    BY <1>3, <2>1
  <2>3. FetchTrace(pc) # {}
    BY <2>2 DEF FetchTrace
  <2> QED
    BY <2>3 DEF ReferThrow
<1>5. \A w \in M!Visible(mem, virtual, b) : Inst[w].op = "undef"
  BY <1>2, <1>4 DEF Decodes
<1>6. ASSUME NEW d \in pc .. b - 1
      PROVE  \E w \in M!Visible(mem, virtual, d) : Inst[w].op # "undef" /\ ~M!Terminator(w)
  <2>1. d \in 0 .. N
    BY <1>0, <1>3
  <2>2. \A v, w \in M!Visible(mem, virtual, d) : v = w
    BY <1>0, <2>1, VisibleFacts
  <2> QED
    BY <1>3, <2>2 DEF Decodes, Ends
<1>7. M!Halt
  <2>1. phase' = "stopped" /\ UNCHANGED <<mem, virtual, pc, at, vis, modes>>
    BY DEF ReferThrow, history
  <2>2. (phase' = "stopped") = TRUE
    BY <2>1
  <2> QED
    BY <2>1, <2>2 DEF M!Halt
<1>8. pc + at = pc /\ ~(phase = "stopped")
  BY <1>0 DEF ReferThrow
<1>9. M!GFetchFault
  BY <1>3, <1>5, <1>6, <1>7, <1>8 DEF M!GFetchFault
<1> QED
  BY <1>9 DEF M!GNext

LEMMA CheckRefines == ASSUME IInv, Check PROVE M!GNext \/ UNCHANGED M!gvars
<1>1. phase = "check" /\ UNCHANGED <<mem, virtual, pc, at, vis, modes>>
  BY DEF Check, history
<1>2. CASE phase' = "stopped"
  <2>1. MaxInsts > 0 /\ ~(phase = "stopped")
    BY <1>1, <1>2 DEF Check
  <2>2. (phase' = "stopped") = TRUE
    BY <1>2
  <2>3. M!Halt
    BY <1>1, <2>2 DEF M!Halt
  <2> QED
    BY <2>1, <2>3 DEF M!GBudget, M!GNext
<1>3. CASE phase' # "stopped"
  BY <1>1, <1>3, Unseen
<1> QED
  BY <1>2, <1>3

(* Looking a trace up, building, translating and counting it. *)
LEMMA LoopUnseen ==
    ASSUME IInv, ReferHit \/ ReferMiss \/ Execute \/ Count
    PROVE  UNCHANGED M!gvars
<1>1. UNCHANGED <<mem, virtual, pc, at, vis, modes>>
  BY DEF ReferHit, ReferMiss, Execute, Count, history
<1>2. phase # "stopped" /\ phase' # "stopped"
  BY DEF ReferHit, ReferMiss, Execute, Count
<1> QED
  BY <1>1, <1>2, Unseen

LEMMA InitRefines == Init => M!GInit
<1> SUFFICES ASSUME Init PROVE M!GInit
  OBVIOUS
<1>1. pc + at = 0
  BY DEF Init
<1>2. (phase = "stopped") = FALSE
  BY DEF Init
<1> QED
  BY <1>1, <1>2 DEF Init, M!GInit

LEMMA NextRefines == IInv /\ [Next]_vars => [M!GNext]_(M!gvars)
<1> SUFFICES ASSUME IInv, [Next]_vars PROVE M!GNext \/ UNCHANGED M!gvars
  OBVIOUS
<1>1. CASE UNCHANGED vars
  BY <1>1 DEF vars, M!gvars
<1>2. CASE ReferHit \/ ReferMiss \/ Execute \/ Count
  BY <1>2, LoopUnseen
<1>3. CASE InterpretLoad \/ CompiledLoad \/ InterpretStore \/ CompiledStore
  BY <1>3, LoadRefines, StoreRefines
<1>4. CASE Plain \/ Stop \/ ReadCall \/ Satp
  BY <1>4, PlainRefines, ReadRefines, SatpRefines
<1>5. CASE Jump \/ Branch \/ LoopBranch \/ Fence
  BY <1>5, JumpRefines, BranchRefines, FenceRefines
<1>6. CASE ReferThrow \/ Check
  BY <1>6, ThrowRefines, CheckRefines
<1>7. CASE Over
  BY <1>1, <1>7 DEF Over
<1> QED
  BY <1>1, <1>2, <1>3, <1>4, <1>5, <1>6, <1>7 DEF Next

(* For every program, page table, cache size, threshold and budget: a      *)
(* guest runs on Sim::execute, with its eager traces, their eviction,      *)
(* their translation and the loops inside host code, as on FenceMachine.   *)
THEOREM SimImplementsFenceMachine == Spec => ImplementsFenceMachine
<1>1. Init => M!GInit
  BY InitRefines
<1>2. IInv /\ [Next]_vars => [M!GNext]_(M!gvars)
  BY NextRefines
<1> QED
  BY <1>1, <1>2, IInvHolds, PTL DEF Spec, ImplementsFenceMachine, M!GSpec

-----------------------------------------------------------------------------
(* What is counted. *)

(* What a step does to the cache: it makes a trace, it executes the one in *)
(* front, or it leaves only pairs that were there.                         *)
LEMMA CacheSteps ==
    ASSUME IInv, [Next]_vars
    PROVE  ReferMiss \/ Execute \/ OldPairs(cache, cache')
<1>0. TypeOK
  BY DEF IInv
<1>1. CASE UNCHANGED cache
  BY <1>1 DEF OldPairs
<1>2. CASE ReferHit
  BY <1>0, <1>2, CacheFacts, TouchOld DEF ReferHit
<1>3. CASE ReferThrow
  BY <1>0, <1>3, CacheFacts, EvictOld DEF ReferThrow
<1>4. CASE cache' = <<>>
  BY <1>4 DEF OldPairs
<1>5. \/ ReferMiss \/ Execute \/ ReferHit \/ ReferThrow
      \/ UNCHANGED cache \/ cache' = <<>>
  BY DEF Next, vars, Plain, InterpretLoad, CompiledLoad, InterpretStore, CompiledStore,
     ReadCall, Satp, Stop, Jump, Branch, LoopBranch, Fence, Count, Check, Over,
     GoOn, WriteAt, Interrupted
<1> QED
  BY <1>1, <1>2, <1>3, <1>4, <1>5

LEMMA MissFacts ==
    ASSUME IInv, ReferMiss
    PROVE  \E words \in FetchTrace(pc) :
              /\ NewTrace(words) \in Trace
              /\ cache'[1] = [key |-> pc, val |-> NewTrace(words)]
              /\ OneNewPair(cache, cache', [key |-> pc, val |-> NewTrace(words)])
<1>0. TypeOK
  BY DEF IInv
<1>1. PICK words \in FetchTrace(pc) : cache' = Put(cache, CacheSize, pc, NewTrace(words))
  BY DEF ReferMiss
<1>2. NewTrace(words) \in Trace /\ [key |-> pc, val |-> NewTrace(words)] \in Pairs
  BY <1>0, NewTraceFacts
<1>3. /\ cache'[1] = [key |-> pc, val |-> NewTrace(words)]
      /\ OneNewPair(cache, cache', [key |-> pc, val |-> NewTrace(words)])
  <2> DEFINE t == NewTrace(words)
  <2> HIDE DEF t
  <2>1. /\ cache' = Put(cache, CacheSize, pc, t)
        /\ [key |-> pc, val |-> t] \in Pairs
    BY <1>1, <1>2 DEF t
  <2>2. /\ cache'[1] = [key |-> pc, val |-> t]
        /\ OneNewPair(cache, cache', [key |-> pc, val |-> t])
    BY <1>0, <2>1, CacheFacts, PutFacts, PutOneNew
  <2> QED
    BY <2>2 DEF t
<1> QED
  BY <1>2, <1>3

(* An execution by the interpreter is noted. *)
Interpreted(t) == [t EXCEPT !.interpreted = Plus(@, 1)]

LEMMA InterpretedFacts ==
    ASSUME NEW t \in Trace
    PROVE  /\ Interpreted(t) \in Trace
           /\ Interpreted(t).words = t.words /\ Interpreted(t).code = t.code
           /\ Interpreted(t).exec_num = t.exec_num
           /\ Interpreted(t).is_eligible = t.is_eligible
           /\ Interpreted(t).interpreted = Plus(t.interpreted, 1)
<1>1. t.interpreted \in Nat
  BY TraceFacts
<1>2. Plus(t.interpreted, 1) \in Nat
  BY <1>1, PlusFacts
<1> QED
  BY <1>2 DEF Trace, Interpreted

LEMMA ExecuteCases ==
    ASSUME Execute
    PROVE  \/ /\ Translate(trace).code # "none"
              /\ cache' = [cache EXCEPT ![1].val = Translate(trace)]
              /\ phase' = "compiled"
              /\ executed_insts' = Plus(executed_insts, Len(Translate(trace).words))
           \/ /\ Translate(trace).code = "none"
              /\ cache' = [cache EXCEPT ![1].val = Interpreted(Translate(trace))]
              /\ phase' = "interpret"
              /\ UNCHANGED executed_insts
  BY DEF Execute, Interpreted

-----------------------------------------------------------------------------
(* What the counters of a trace say of it: while it can still be           *)
(* translated, exec_num counts its executions by the interpreter, and has  *)
(* not passed the threshold; what was given up cannot be translated.       *)
HotTrace(t) ==
    /\ t.code # "none" => Jit /\ Translatable(t.words) /\ t.interpreted = Threshold
    /\ Jit /\ t.is_eligible /\ t.code = "none" =>
          t.exec_num = t.interpreted /\ t.exec_num <= Threshold
    /\ ~t.is_eligible => ~Translatable(t.words)

HotTraces == \A i \in DOMAIN cache : HotTrace(cache[i].val)

LEMMA HotTranslated ==
    ASSUME TypeOK, NEW t \in Trace, HotTrace(t)
    PROVE  IF Translate(t).code # "none"
           THEN HotTrace(Translate(t)) ELSE HotTrace(Interpreted(Translate(t)))
<1>0. /\ t.words \in Seq(Word) /\ t.exec_num \in Nat /\ t.is_eligible \in BOOLEAN
      /\ t.code \in {"none", "physical", "virtual"} /\ t.interpreted \in Nat
  BY TraceFacts
<1>1. CASE ~(Jit /\ t.is_eligible /\ t.code = "none")
  <2>1. Translate(t) = t
    BY <1>1 DEF Translate
  <2>2. t.code # "none" => HotTrace(t)
    OBVIOUS
  <2>3. t.code = "none" => HotTrace(Interpreted(t))
    BY <1>1, InterpretedFacts DEF HotTrace
  <2> QED
    BY <2>1, <2>2, <2>3
<1>2. CASE Jit /\ t.is_eligible /\ t.code = "none"
  <2> DEFINE hot == t.exec_num = Threshold
             can == Translatable(t.words)
             mode == IF virtual THEN "virtual" ELSE "physical"
             code == IF hot /\ can THEN mode ELSE "none"
             eligible == ~hot \/ can
             u == Translate(t)
  <2>1. FieldsAre(u, t, t.exec_num + 1, code, eligible)
    BY <1>2 DEF Translate, FieldsAre
  <2>2. /\ mode # "none" /\ code \in {"none", "physical", "virtual"}
        /\ eligible \in BOOLEAN /\ t.exec_num + 1 \in Nat
    BY <1>0
  <2>3. t.exec_num = t.interpreted /\ t.exec_num <= Threshold
    BY <1>2 DEF HotTrace
  <2>4. /\ u \in Trace /\ u.words = t.words /\ u.interpreted = t.interpreted
        /\ u.exec_num = t.exec_num + 1 /\ u.code = code /\ u.is_eligible = eligible
    <3> HIDE DEF code, eligible, u
    <3> QED
      BY <2>1, <2>2, FieldsSet
  <2> DEFINE v == Interpreted(u)
  <2>5. /\ v.words = u.words /\ v.code = u.code /\ v.exec_num = u.exec_num
        /\ v.is_eligible = u.is_eligible /\ v.interpreted = Plus(u.interpreted, 1)
    <3> HIDE DEF u
    <3> QED
      BY <2>4, InterpretedFacts
  <2> HIDE DEF u, v
  <2>6. CASE hot /\ can
    BY <1>2, <2>2, <2>3, <2>4, <2>6 DEF HotTrace, u
  <2>7. CASE hot /\ ~can
    BY <2>4, <2>5, <2>7 DEF HotTrace, u, v
  <2>8. CASE ~hot
    <3>1. Plus(t.interpreted, 1) = t.exec_num + 1 /\ t.exec_num + 1 <= Threshold
      BY <1>0, <2>3, <2>8, SimAssumption DEF Plus
    <3>2. v.code = "none" /\ v.exec_num = v.interpreted /\ v.exec_num <= Threshold
      BY <2>4, <2>5, <2>8, <3>1
    <3>3. v.is_eligible = TRUE
      BY <2>4, <2>5, <2>8
    <3>4. HotTrace(v)
      BY <3>2, <3>3 DEF HotTrace
    <3> QED
      BY <2>4, <2>8, <3>4 DEF u, v
  <2> QED
    BY <2>6, <2>7, <2>8
<1> QED
  BY <1>1, <1>2

LEMMA NextHot ==
    ASSUME IInv, HotTraces, [Next]_vars
    PROVE  HotTraces'
<1>0. TypeOK
  BY DEF IInv
<1>1. CASE OldPairs(cache, cache')
  BY <1>1 DEF OldPairs, HotTraces
<1>2. CASE ReferMiss
  <2>1. PICK words \in FetchTrace(pc) :
           OneNewPair(cache, cache', [key |-> pc, val |-> NewTrace(words)])
    BY <1>2, MissFacts
  <2>2. HotTrace(NewTrace(words))
    BY SimAssumption DEF NewTrace, HotTrace
  <2> DEFINE new == [key |-> pc, val |-> NewTrace(words)]
  <2>3. HotTrace(new.val)
    BY <2>2
  <2> HIDE DEF new
  <2>4. \A i \in DOMAIN cache' : cache'[i] = new \/ \E j \in DOMAIN cache : cache'[i] = cache[j]
    BY <2>1 DEF OneNewPair, new
  <2> QED
    BY <2>3, <2>4 DEF HotTraces
<1>3. CASE Execute
  <2>1. 1 \in DOMAIN cache /\ trace \in Trace
    BY <1>3, ExecuteFacts
  <2>2. HotTrace(trace)
    BY <2>1 DEF HotTraces, trace
  <2> DEFINE t == IF Translate(trace).code # "none"
                  THEN Translate(trace) ELSE Interpreted(Translate(trace))
  <2>3. HotTrace(t)
    BY <1>0, <2>1, <2>2, HotTranslated
  <2>4. t \in Trace
    BY <1>0, <2>1, TranslateFacts, InterpretedFacts
  <2>5. cache' = [cache EXCEPT ![1].val = t]
    BY <1>3, ExecuteCases
  <2> HIDE DEF t
  <2>6. /\ DOMAIN cache' = DOMAIN cache /\ cache'[1].val = t
        /\ \A i \in DOMAIN cache : i # 1 => cache'[i] = cache[i]
    BY <1>0, <2>1, <2>4, <2>5, FrontReplaced
  <2> QED
    BY <2>3, <2>6 DEF HotTraces
<1> QED
  BY <1>1, <1>2, <1>3, CacheSteps

LEMMA HotEnough == ASSUME IInv, HotTraces PROVE JitWhenHot
<1> SUFFICES ASSUME NEW i \in DOMAIN cache
             PROVE  LET t == cache[i].val
                    IN  /\ t.code # "none" =>
                              Jit /\ Translatable(t.words) /\ t.interpreted = Threshold
                        /\ Jit /\ Translatable(t.words) =>
                              t.is_eligible /\ t.interpreted <= Threshold
  BY DEF JitWhenHot
<1> DEFINE t == cache[i].val
<1>1. HotTrace(t)
  BY DEF HotTraces
<1>2. t \in Trace
  BY CacheFacts DEF IInv
<1>3. t.is_eligible \in BOOLEAN /\ Threshold \in Nat
  BY <1>2, TraceFacts, SimAssumption
<1> HIDE DEF t
<1>4. t.code # "none" => Jit /\ Translatable(t.words) /\ t.interpreted = Threshold
  BY <1>1 DEF HotTrace
<1>5. Jit /\ Translatable(t.words) => t.is_eligible
  BY <1>1, <1>3 DEF HotTrace
<1>6. Jit /\ Translatable(t.words) => t.interpreted <= Threshold
  BY <1>1, <1>3, <1>5 DEF HotTrace
<1> QED
  BY <1>4, <1>5, <1>6 DEF t

(* For every threshold: a trace that can be translated is interpreted      *)
(* jit_threshold times and never again, and one that cannot is given up.   *)
THEOREM TranslatedWhenHot == Spec => []JitWhenHot
<1>1. Init => HotTraces
  BY DEF Init, HotTraces
<1>2. IInv /\ HotTraces /\ [Next]_vars => HotTraces'
  BY NextHot
<1>3. IInv /\ HotTraces => JitWhenHot
  BY HotEnough
<1> QED
  BY <1>1, <1>2, <1>3, IInvHolds, PTL DEF Spec

-----------------------------------------------------------------------------
(* How far executed_insts is from the instructions completed: behind by    *)
(* those of the trace being interpreted, ahead by those left of a trace    *)
(* whose host code runs.  base is what both were when that trace began.    *)
Exact ==
    /\ phase \in {"refer", "execute", "check"} => executed_insts = retired
    /\ phase = "interpret" => retired = Plus(executed_insts, at)
    /\ phase = "count" /\ cache # <<>> => retired = Plus(executed_insts, Len(trace.words))
    /\ phase = "compiled" =>
          \E base \in 0 .. CountCap : /\ executed_insts = Plus(base, Len(trace.words))
                                      /\ retired = Plus(base, at)

Counters ==
    /\ executed_insts \in 0 .. CountCap
    /\ retired \in 0 .. CountCap
    /\ ~freed => Exact

(* Counting up to the bound, one after the other or at once. *)
LEMMA PlusSteps ==
    ASSUME NEW n \in 0 .. CountCap, NEW k \in Nat
    PROVE  /\ Plus(n, k) \in 0 .. CountCap
           /\ Plus(n, 0) = n
           /\ Plus(Plus(n, k), 1) = Plus(n, k + 1)
  BY SimAssumption DEF Plus

(* The steps of a running trace, as the counters see them. *)
LEMMA AdvanceExact ==
    ASSUME IInv, Counters, Exact, running, at' = at + 1, Retire,
           UNCHANGED <<phase, cache, executed_insts>>
    PROVE  Exact'
<1>0. at \in Nat /\ executed_insts \in 0 .. CountCap
  BY RunningFacts, SimAssumption DEF Counters
<1>1. CASE phase = "interpret"
  <2>1. retired' = Plus(Plus(executed_insts, at), 1)
    BY <1>1 DEF Exact, Retire
  <2>2. retired' = Plus(executed_insts, at + 1)
    BY <1>0, <2>1, PlusSteps
  <2> QED
    BY <1>1, <2>2 DEF Exact
<1>2. CASE phase = "compiled"
  <2>1. PICK base \in 0 .. CountCap : /\ executed_insts = Plus(base, Len(trace.words))
                                      /\ retired = Plus(base, at)
    BY <1>2 DEF Exact
  <2>2. retired' = Plus(base, at + 1)
    BY <1>0, <2>1, PlusSteps DEF Retire
  <2>3. trace' = trace
    BY DEF trace
  <2>4. executed_insts' = Plus(base, Len(trace'.words)) /\ retired' = Plus(base, at')
    BY <2>1, <2>2, <2>3
  <2> QED
    BY <1>2, <2>1, <2>4 DEF Exact
<1> QED
  BY <1>1, <1>2 DEF running

LEMMA LeaveExact ==
    ASSUME IInv, Counters, Exact, running, inst.op \in Ending, NEW a, LeaveTo(a),
           UNCHANGED executed_insts, cache' = cache \/ cache' = <<>>
    PROVE  Exact'
<1>0. /\ at \in Nat /\ executed_insts \in 0 .. CountCap
      /\ at + 1 = Len(trace.words) /\ retired' = Plus(retired, 1)
  BY RunningFacts, SimAssumption DEF Counters, LeaveTo, Retire
<1>1. CASE phase = "interpret"
  <2>1. retired' = Plus(Plus(executed_insts, at), 1) /\ phase' = "count"
    BY <1>0, <1>1 DEF Exact, LeaveTo
  <2>2. retired' = Plus(executed_insts, Len(trace.words))
    BY <1>0, <2>1, PlusSteps
  <2>3. cache' # <<>> => trace' = trace
    BY DEF trace
  <2> QED
    BY <2>1, <2>2, <2>3 DEF Exact
<1>2. CASE phase = "compiled"
  <2>1. PICK base \in 0 .. CountCap : /\ executed_insts = Plus(base, Len(trace.words))
                                      /\ retired = Plus(base, at)
    BY <1>2 DEF Exact
  <2>2. retired' = Plus(base, Len(trace.words)) /\ phase' = "check"
    BY <1>0, <1>2, <2>1, PlusSteps DEF LeaveTo
  <2> QED
    BY <2>1, <2>2 DEF Exact
<1> QED
  BY <1>1, <1>2 DEF running

LEMMA LoopExact ==
    ASSUME IInv, Counters, Exact, LoopBranch
    PROVE  Exact'
<1>0. /\ running /\ phase = "compiled" /\ inst.op \in Ending
      /\ executed_insts' = Plus(executed_insts, Len(trace.words))
      /\ at' = 0 /\ retired' = Plus(retired, 1)
      /\ UNCHANGED <<phase, cache>>
  BY DEF LoopBranch, Loops, Retire, Ending
<1>1. at \in Nat /\ executed_insts \in 0 .. CountCap /\ at + 1 = Len(trace.words)
  BY <1>0, RunningFacts, SimAssumption DEF Counters
<1>2. PICK base \in 0 .. CountCap : /\ executed_insts = Plus(base, Len(trace.words))
                                    /\ retired = Plus(base, at)
  BY <1>0 DEF Exact
<1>3. retired' = executed_insts
  BY <1>0, <1>1, <1>2, PlusSteps
<1>4. retired' = Plus(executed_insts, 0)
  BY <1>1, <1>3, PlusSteps
<1>5. trace' = trace
  BY <1>0 DEF trace
<1>6. /\ executed_insts' = Plus(executed_insts, Len(trace'.words))
      /\ retired' = Plus(executed_insts, at')
  BY <1>0, <1>4, <1>5
<1> QED
  BY <1>0, <1>1, <1>6 DEF Exact

LEMMA ExecuteExact ==
    ASSUME IInv, Counters, Exact, Execute
    PROVE  Exact'
<1>0. /\ at = 0 /\ executed_insts = retired /\ executed_insts \in 0 .. CountCap
      /\ UNCHANGED <<at, retired>>
  BY DEF IInv, Control, Execute, Exact, Counters, history
<1>1. retired = Plus(executed_insts, 0)
  BY <1>0, PlusSteps
<1>2. TypeOK /\ 1 \in DOMAIN cache /\ trace \in Trace
  BY ExecuteFacts DEF IInv
<1>3. CASE phase' = "interpret"
  <2>1. UNCHANGED executed_insts
    BY <1>3, ExecuteCases
  <2> QED
    BY <1>0, <1>1, <1>3, <2>1 DEF Exact
<1>4. CASE phase' = "compiled"
  <2> DEFINE t == Translate(trace)
  <2>1. cache' = [cache EXCEPT ![1].val = t] /\ executed_insts' = Plus(executed_insts, Len(t.words))
    BY <1>4, ExecuteCases
  <2>2. t \in Trace
    BY <1>2, TranslateFacts
  <2> HIDE DEF t
  <2>3. trace' = t
    BY <1>2, <2>1, <2>2, FrontReplaced DEF trace
  <2>4. executed_insts' = Plus(executed_insts, Len(trace'.words)) /\ retired' = Plus(executed_insts, at')
    BY <1>0, <1>1, <2>1, <2>3
  <2> QED
    BY <1>0, <1>4, <2>4 DEF Exact
<1> QED
  BY <1>3, <1>4, ExecuteCases

LEMMA CountStepExact ==
    ASSUME IInv, Counters, Exact, Count, ~freed'
    PROVE  Exact'
<1>1. cache # <<>> /\ phase = "count" /\ phase' = "check" /\ UNCHANGED retired
  BY DEF Count
<1>2. executed_insts' = Plus(executed_insts, Len(trace.words))
  BY <1>1 DEF Count
<1>3. retired = Plus(executed_insts, Len(trace.words))
  BY <1>1 DEF Exact
<1> QED
  BY <1>1, <1>2, <1>3 DEF Exact

(* Both counters stop at the bound. *)
LEMMA CountersBounded ==
    ASSUME IInv, Counters, [Next]_vars
    PROVE  executed_insts' \in 0 .. CountCap /\ retired' \in 0 .. CountCap
<1>0. executed_insts \in 0 .. CountCap /\ retired \in 0 .. CountCap
  BY DEF Counters
<1>1. \A k \in Nat : Plus(executed_insts, k) \in 0 .. CountCap
  BY <1>0, PlusSteps
<1>2. retired' = retired \/ retired' = Plus(retired, 1)
  BY DEF Next, vars, history, ReferHit, ReferMiss, ReferThrow, Execute,
     Plain, InterpretLoad, CompiledLoad, InterpretStore, CompiledStore,
     ReadCall, Satp, Stop, Jump, Branch, LoopBranch, Fence, Count, Check, Over,
     GoOn, WriteAt, Interrupted, LeaveTo, Retire
<1>3. \/ Execute \/ LoopBranch \/ Count \/ UNCHANGED executed_insts
  BY DEF Next, vars, ReferHit, ReferMiss, ReferThrow,
     Plain, InterpretLoad, CompiledLoad, InterpretStore, CompiledStore,
     ReadCall, Satp, Stop, Jump, Branch, Fence, Check, Over,
     GoOn, WriteAt, Interrupted
<1>4. CASE Execute
  <2>1. Len(Translate(trace).words) \in Nat
    <3>1. TypeOK /\ trace \in Trace
      BY <1>4, ExecuteFacts DEF IInv
    <3>2. Translate(trace) \in Trace
      BY <3>1, TranslateFacts
    <3> QED
      BY <3>2, TraceFacts
  <2> QED
    BY <1>0, <1>1, <1>2, <1>4, <2>1, ExecuteCases, PlusSteps
<1>5. CASE LoopBranch
  <2>1. executed_insts' = Plus(executed_insts, Len(trace.words)) /\ Len(trace.words) \in Nat
    BY <1>5, RunningFacts, SimAssumption DEF LoopBranch
  <2> QED
    BY <1>0, <1>1, <1>2, <2>1, PlusSteps
<1>6. CASE Count
  <2>1. PICK n \in IF cache = <<>> THEN Garbage ELSE {Len(trace.words)} :
            executed_insts' = Plus(executed_insts, n)
    BY <1>6 DEF Count
  <2>2. n \in Nat
    <3>1. cache # <<>> => Len(trace.words) \in Nat
      <4>1. cache # <<>> => trace \in Trace
        BY CacheFacts DEF trace, IInv
      <4> QED
        BY <4>1, TraceFacts
    <3> QED
      BY <2>1, <3>1, SimAssumption
  <2> QED
    BY <1>0, <1>1, <1>2, <2>1, <2>2, PlusSteps
<1>7. CASE UNCHANGED executed_insts
  BY <1>0, <1>2, <1>7, PlusSteps
<1> QED
  BY <1>3, <1>4, <1>5, <1>6, <1>7

LEMMA NextCounters ==
    ASSUME IInv, Counters, [Next]_vars
    PROVE  Counters'
<1>1. executed_insts' \in 0 .. CountCap /\ retired' \in 0 .. CountCap
  BY CountersBounded
<1> SUFFICES ASSUME ~freed' PROVE Exact'
  BY <1>1 DEF Counters
<1>2. ~freed /\ Exact
  <2>1. Count \/ UNCHANGED freed
    BY DEF Next, vars, history, ReferHit, ReferMiss, ReferThrow, Execute,
       Plain, InterpretLoad, CompiledLoad, InterpretStore, CompiledStore,
       ReadCall, Satp, Stop, Jump, Branch, LoopBranch, Fence, Check, Over,
       GoOn, WriteAt, Interrupted
  <2>2. Count => freed' = (freed \/ cache = <<>>)
    BY DEF Count
  <2>3. ~freed
    BY <2>1, <2>2
  <2> QED
    BY <2>3 DEF Counters
<1>3. CASE UNCHANGED vars
  BY <1>2, <1>3 DEF vars, Exact, trace
<1>4. CASE ReferHit \/ ReferMiss \/ ReferThrow \/ Check
  BY <1>2, <1>4 DEF ReferHit, ReferMiss, ReferThrow, Check, history, Exact
<1>5. CASE Execute \/ LoopBranch \/ Count
  BY <1>2, <1>5, ExecuteExact, LoopExact, CountStepExact
<1>6. CASE RunningStep
  <2>1. /\ running
        /\ \/ GoOn
           \/ \E p \in 0 .. N - 1 : WriteAt(p)
           \/ \E ph \in {"stopped", "lost", "wild"} : Interrupted(ph)
           \/ /\ inst.op \in Ending
              /\ \E a \in 0 .. N : LeaveTo(a)
              /\ UNCHANGED <<cache, executed_insts>>
    BY <1>6, RunningCases
  <2>2. CASE GoOn \/ \E p \in 0 .. N - 1 : WriteAt(p)
    BY <1>2, <2>1, <2>2, AdvanceExact DEF GoOn, WriteAt
  <2>3. CASE \E ph \in {"stopped", "lost", "wild"} : Interrupted(ph)
    BY <2>3 DEF Interrupted, Exact
  <2>4. CASE /\ inst.op \in Ending
             /\ \E a \in 0 .. N : LeaveTo(a)
             /\ UNCHANGED <<cache, executed_insts>>
    BY <1>2, <2>1, <2>4, LeaveExact
  <2> QED
    BY <2>1, <2>2, <2>3, <2>4
<1>7. CASE Satp
  BY <1>2, <1>7, AdvanceExact DEF Satp
<1>8. CASE Fence
  BY <1>2, <1>8, LeaveExact DEF Fence, Ending
<1>9. CASE Over
  BY <1>3, <1>9 DEF Over
<1> QED
  BY <1>3, <1>4, <1>5, <1>6, <1>7, <1>8, <1>9 DEF Next, RunningStep

(* For every program, threshold and cache size: whenever Sim::execute      *)
(* looks up the next trace, executed_insts is the number of instructions   *)
(* completed, unless the size of a destroyed trace was added to it.        *)
THEOREM CountedExactly == Spec => []CountExact
<1>1. Init => Counters
  BY SimAssumption DEF Init, Counters, Exact
<1>2. IInv /\ Counters /\ [Next]_vars => Counters'
  BY NextCounters
<1>3. Counters => CountExact
  BY DEF Counters, Exact, CountExact
<1> QED
  BY <1>1, <1>2, <1>3, IInvHolds, PTL DEF Spec

-----------------------------------------------------------------------------
(* The statistics, while none has reached its bound. *)
Below == \A s \in Stat : stats[s] < StatCap

Hits == stats["trace_cache_hits"]
Misses == stats["trace_cache_misses"]
Finished == stats["jit_finished_translations"]
Failed == stats["jit_failed_translations"]
Interps == stats["interpreted_executions"]
Hosts == stats["translated_executions"]

LEMMA StatNumbers ==
    ASSUME TypeOK
    PROVE  /\ Hits \in Nat /\ Misses \in Nat /\ Finished \in Nat
           /\ Failed \in Nat /\ Interps \in Nat /\ Hosts \in Nat
<1>1. stats \in [Stat -> 0 .. StatCap] /\ StatCap \in Nat
  BY SimAssumption DEF TypeOK
<1>2. \A s \in Stat : stats[s] \in Nat
  BY <1>1
<1> QED
  BY <1>2 DEF Stat, Hits, Misses, Finished, Failed, Interps, Hosts

(* Below the bound, counting adds one. *)
LEMMA CountedUp ==
    ASSUME TypeOK, NEW set, Counted(set), Below'
    PROVE  /\ Below
           /\ \A s \in Stat : stats'[s] = IF s \in set THEN stats[s] + 1 ELSE stats[s]
<1>0. stats \in [Stat -> 0 .. StatCap] /\ StatCap \in Nat
  BY SimAssumption DEF TypeOK
<1>1. ASSUME NEW s \in Stat
      PROVE  stats[s] < StatCap /\ stats'[s] = IF s \in set THEN stats[s] + 1 ELSE stats[s]
  <2>1. stats'[s] = IF s \in set /\ stats[s] < StatCap THEN stats[s] + 1 ELSE stats[s]
    BY DEF Counted
  <2>2. stats[s] \in 0 .. StatCap /\ stats'[s] < StatCap
    BY <1>0 DEF Below
  <2> QED
    BY <1>0, <2>1, <2>2
<1> QED
  BY <1>1 DEF Below

(* What each action does to the statistics and to the phase. *)
StatStep ==
    \/ /\ ReferHit /\ Hits' = Hits + 1
       /\ UNCHANGED <<Misses, Finished, Failed, Interps, Hosts>>
    \/ /\ ReferMiss /\ Misses' = Misses + 1
       /\ UNCHANGED <<Hits, Finished, Failed, Interps, Hosts>>
    \/ /\ Execute
       /\ Finished' = IF Translate(trace).code # trace.code THEN Finished + 1 ELSE Finished
       /\ Failed' = IF Translate(trace).is_eligible # trace.is_eligible
                    THEN Failed + 1 ELSE Failed
       /\ UNCHANGED <<Hits, Misses, Interps, Hosts>>
    \/ /\ phase = "compiled" /\ phase' = "check" /\ Hosts' = Hosts + 1
       /\ UNCHANGED <<Hits, Misses, Finished, Failed, Interps>>
    \/ /\ phase = "interpret" /\ phase' = "count"
       /\ UNCHANGED <<Hits, Misses, Finished, Failed, Interps, Hosts>>
    \/ /\ phase = "count" /\ phase' = "check" /\ Interps' = Interps + 1
       /\ UNCHANGED <<Hits, Misses, Finished, Failed, Hosts>>
    \/ /\ phase' = phase \/ phase' \in {"stopped", "lost", "wild"} \/ (phase = "check" /\ phase' = "refer")
       /\ UNCHANGED <<Hits, Misses, Finished, Failed, Interps, Hosts>>

LEMMA LeaveStat ==
    ASSUME TypeOK, running, NEW a, LeaveTo(a), Below'
    PROVE  Below /\ StatStep
<1> DEFINE set == {s \in {"translated_executions"} : phase = "compiled"}
<1>1. Counted(set) /\ phase' = IF phase = "compiled" THEN "check" ELSE "count"
  BY DEF LeaveTo
<1>2. /\ Below
      /\ \A s \in Stat : stats'[s] = IF s \in set THEN stats[s] + 1 ELSE stats[s]
  <2> HIDE DEF set
  <2> QED
    BY <1>1, CountedUp
<1>3. CASE phase = "compiled"
  <2>1. /\ phase' = "check" /\ Hosts' = Hosts + 1
        /\ UNCHANGED <<Hits, Misses, Finished, Failed, Interps>>
    BY <1>1, <1>2, <1>3 DEF Stat, Hits, Misses, Finished, Failed, Interps, Hosts
  <2> QED
    BY <1>2, <1>3, <2>1 DEF StatStep
<1>4. CASE phase = "interpret"
  <2>1. /\ phase' = "count"
        /\ UNCHANGED <<Hits, Misses, Finished, Failed, Interps, Hosts>>
    BY <1>1, <1>2, <1>4 DEF Stat, Hits, Misses, Finished, Failed, Interps, Hosts
  <2> QED
    BY <1>2, <1>4, <2>1 DEF StatStep
<1> QED
  BY <1>3, <1>4 DEF running

LEMMA QuietStat ==
    ASSUME UNCHANGED stats, Below',
           phase' = phase \/ phase' \in {"stopped", "lost", "wild"} \/ (phase = "check" /\ phase' = "refer")
    PROVE  Below /\ StatStep
  BY DEF Below, StatStep, Hits, Misses, Finished, Failed, Interps, Hosts

LEMMA StatSteps ==
    ASSUME IInv, [Next]_vars, Below'
    PROVE  Below /\ StatStep
<1>0. TypeOK
  BY DEF IInv
<1>1. CASE ReferHit
  <2>1. /\ Below
        /\ \A s \in Stat : stats'[s] = IF s \in {"trace_cache_hits"} THEN stats[s] + 1 ELSE stats[s]
    BY <1>0, <1>1, CountedUp DEF ReferHit
  <2>2. Hits' = Hits + 1 /\ UNCHANGED <<Misses, Finished, Failed, Interps, Hosts>>
    BY <2>1 DEF Stat, Hits, Misses, Finished, Failed, Interps, Hosts
  <2> QED
    BY <1>1, <2>1, <2>2 DEF StatStep
<1>2. CASE ReferMiss
  <2>1. /\ Below
        /\ \A s \in Stat : stats'[s] = IF s \in {"trace_cache_misses"} THEN stats[s] + 1 ELSE stats[s]
    BY <1>0, <1>2, CountedUp DEF ReferMiss
  <2>2. Misses' = Misses + 1 /\ UNCHANGED <<Hits, Finished, Failed, Interps, Hosts>>
    BY <2>1 DEF Stat, Hits, Misses, Finished, Failed, Interps, Hosts
  <2> QED
    BY <1>2, <2>1, <2>2 DEF StatStep
<1>3. CASE Execute
  <2> DEFINE t == Translate(trace)
             set == {s \in {"jit_finished_translations"} : t.code # trace.code} \union
                    {s \in {"jit_failed_translations"} : t.is_eligible # trace.is_eligible}
  <2>1. Counted(set)
    BY <1>3 DEF Execute
  <2>2. /\ Below
        /\ \A s \in Stat : stats'[s] = IF s \in set THEN stats[s] + 1 ELSE stats[s]
    <3> HIDE DEF set
    <3> QED
      BY <1>0, <2>1, CountedUp
  <2> HIDE DEF t
  <2>3. /\ Finished' = IF t.code # trace.code THEN Finished + 1 ELSE Finished
        /\ Failed' = IF t.is_eligible # trace.is_eligible THEN Failed + 1 ELSE Failed
        /\ UNCHANGED <<Hits, Misses, Interps, Hosts>>
    BY <2>2 DEF Stat, Hits, Misses, Finished, Failed, Interps, Hosts
  <2> QED
    BY <1>3, <2>2, <2>3 DEF StatStep, t
<1>4. CASE Count
  <2>1. /\ Below
        /\ \A s \in Stat : stats'[s] = IF s \in {"interpreted_executions"} THEN stats[s] + 1 ELSE stats[s]
    BY <1>0, <1>4, CountedUp DEF Count
  <2>2. Interps' = Interps + 1 /\ UNCHANGED <<Hits, Misses, Finished, Failed, Hosts>>
    BY <2>1 DEF Stat, Hits, Misses, Finished, Failed, Interps, Hosts
  <2>3. phase = "count" /\ phase' = "check"
    BY <1>4 DEF Count
  <2> QED
    BY <2>1, <2>2, <2>3 DEF StatStep
<1>5. CASE Jump \/ Branch \/ Fence
  <2>1. running /\ \E a : LeaveTo(a)
    BY <1>5 DEF Jump, Branch, Fence
  <2> QED
    BY <1>0, <2>1, LeaveStat
<1>6. CASE \/ UNCHANGED vars \/ ReferThrow \/ Check \/ Over \/ LoopBranch \/ Satp \/ Stop
           \/ Plain \/ InterpretLoad \/ CompiledLoad \/ InterpretStore \/ CompiledStore
           \/ ReadCall
  <2>1. UNCHANGED stats
    BY <1>6 DEF vars, ReferThrow, Check, Over, LoopBranch, Satp, Stop, Plain, InterpretLoad,
       CompiledLoad, InterpretStore, CompiledStore, ReadCall, GoOn, WriteAt, Interrupted
  <2>2. phase' = phase \/ phase' \in {"stopped", "lost", "wild"} \/ (phase = "check" /\ phase' = "refer")
    BY <1>6 DEF vars, ReferThrow, Check, Over, LoopBranch, Satp, Stop, Plain, InterpretLoad,
       CompiledLoad, InterpretStore, CompiledStore, ReadCall, GoOn, WriteAt, Interrupted
  <2> QED
    BY <2>1, <2>2, QuietStat
<1> QED
  BY <1>1, <1>2, <1>3, <1>4, <1>5, <1>6 DEF Next

-----------------------------------------------------------------------------
(* Lookups and executions.  A trace that is being executed was looked up   *)
(* and is not counted as executed yet.                                     *)
Lookups ==
    /\ phase \in {"refer", "check"} => Hits + Misses = Interps + Hosts
    /\ phase \in {"execute", "interpret", "compiled", "count"} =>
          Hits + Misses = Interps + Hosts + 1
    /\ Hits + Misses \in {Interps + Hosts, Interps + Hosts + 1}
    /\ phase \in {"refer", "execute", "interpret", "count", "check"} => Finished <= Hosts
    /\ phase = "compiled" => Finished <= Hosts + 1

LEMMA NextLookups ==
    ASSUME IInv, Below => Lookups, [Next]_vars, Below'
    PROVE  Lookups'
<1>0. TypeOK /\ phase \in {"refer", "execute", "interpret", "compiled", "count", "check",
                           "stopped", "lost", "wild"}
  BY DEF IInv, TypeOK
<1>1. Lookups /\ StatStep
  BY StatSteps
<1>2. /\ Hits \in Nat /\ Misses \in Nat /\ Finished \in Nat
      /\ Failed \in Nat /\ Interps \in Nat /\ Hosts \in Nat
  BY <1>0, StatNumbers
<1>3. CASE Execute
  <2>1. /\ UNCHANGED <<Hits, Misses, Interps, Hosts>>
        /\ Finished' \in {Finished, Finished + 1}
        /\ Translate(trace).code = trace.code => Finished' = Finished
        /\ phase = "execute"
    BY <1>1, <1>3 DEF StatStep, ReferHit, ReferMiss, Execute
  <2>2. CASE phase' = "compiled"
    BY <1>1, <1>2, <2>1, <2>2 DEF Lookups
  <2>3. CASE phase' = "interpret"
    <3>1. Translate(trace).code = "none"
      BY <1>3, <2>3, ExecuteCases
    <3>2. Translate(trace).code = trace.code
      <4>1. trace \in Trace
        BY <1>3, ExecuteFacts
      <4>2. \/ Translate(trace).code = trace.code
            \/ Translate(trace).code = IF virtual THEN "virtual" ELSE "physical"
        BY <1>0, <4>1, TranslateFacts
      <4> QED
        BY <3>1, <4>2
    <3> QED
      BY <1>1, <1>2, <2>1, <2>3, <3>2 DEF Lookups
  <2> QED
    BY <1>3, <2>2, <2>3, ExecuteCases
<1>4. CASE ReferHit \/ ReferMiss
  <2>1. phase = "refer" /\ phase' = "execute"
    BY <1>4 DEF ReferHit, ReferMiss
  <2>2. Hits' + Misses' = Hits + Misses + 1 /\ UNCHANGED <<Finished, Interps, Hosts>>
    BY <1>1, <1>2, <2>1 DEF StatStep, Execute
  <2> QED
    BY <1>1, <1>2, <2>1, <2>2 DEF Lookups
<1>5. CASE ~(Execute \/ ReferHit \/ ReferMiss)
  <2>1. CASE /\ phase = "compiled" /\ phase' = "check" /\ Hosts' = Hosts + 1
             /\ UNCHANGED <<Hits, Misses, Finished, Failed, Interps>>
    BY <1>1, <1>2, <2>1 DEF Lookups
  <2>2. CASE /\ phase = "interpret" /\ phase' = "count"
             /\ UNCHANGED <<Hits, Misses, Finished, Failed, Interps, Hosts>>
    BY <1>1, <1>2, <2>2 DEF Lookups
  <2>3. CASE /\ phase = "count" /\ phase' = "check" /\ Interps' = Interps + 1
             /\ UNCHANGED <<Hits, Misses, Finished, Failed, Hosts>>
    BY <1>1, <1>2, <2>3 DEF Lookups
  <2>4. CASE /\ phase' = phase \/ phase' \in {"stopped", "lost", "wild"} \/ (phase = "check" /\ phase' = "refer")
             /\ UNCHANGED <<Hits, Misses, Finished, Failed, Interps, Hosts>>
    BY <1>1, <1>2, <2>4 DEF Lookups
  <2> QED
    BY <1>1, <1>5, <2>1, <2>2, <2>3, <2>4 DEF StatStep
<1> QED
  BY <1>3, <1>4, <1>5

-----------------------------------------------------------------------------
(* Attempts to translate.  A cached trace that was not tried yet is one    *)
(* construction that no attempt has used up.                               *)
Fit(t) == t.code = "none" /\ t.is_eligible

Untried(list) == {k \in 0 .. N : \E i \in DOMAIN list : list[i].key = k /\ Fit(list[i].val)}

Attempts ==
    /\ Len(cache) <= Misses
    /\ Finished + Failed + Cardinality(Untried(cache)) <= Misses

LEMMA NextDistinct ==
    ASSUME IInv, Distinct(cache), [Next]_vars
    PROVE  Distinct(cache')
<1>0. TypeOK
  BY DEF IInv
<1>1. CASE ReferHit
  BY <1>0, <1>1, CacheFacts, TouchDistinct DEF ReferHit
<1>2. CASE ReferThrow
  BY <1>0, <1>2, CacheFacts, EvictDistinct DEF ReferThrow
<1>3. CASE ReferMiss
  <2>1. PICK words \in FetchTrace(pc) : cache' = Put(cache, CacheSize, pc, NewTrace(words))
    BY <1>3 DEF ReferMiss
  <2> DEFINE t == NewTrace(words)
  <2>2. [key |-> pc, val |-> t] \in Pairs
    BY <1>0, NewTraceFacts
  <2>3. pc \notin Cached(cache)
    BY <1>3 DEF ReferMiss
  <2> HIDE DEF t
  <2>4. cache' = Put(cache, CacheSize, pc, t)
    BY <2>1 DEF t
  <2> QED
    BY <1>0, <2>2, <2>3, <2>4, CacheFacts, PutDistinct
<1>4. CASE Execute
  <2>1. 1 \in DOMAIN cache
    BY <1>4, ExecuteFacts
  <2>2. PICK t \in Trace : cache' = [cache EXCEPT ![1].val = t]
    BY <1>4, ExecuteFacts
  <2>3. /\ DOMAIN cache' = DOMAIN cache /\ cache'[1].key = cache[1].key
        /\ \A i \in DOMAIN cache : i # 1 => cache'[i] = cache[i]
    BY <1>0, <2>1, <2>2, FrontReplaced
  <2>4. \A i \in DOMAIN cache : cache'[i].key = cache[i].key
    BY <2>3
  <2> QED
    BY <2>3, <2>4 DEF Distinct
<1>5. CASE UNCHANGED cache \/ cache' = <<>>
  BY <1>5 DEF Distinct
<1>6. \/ ReferMiss \/ Execute \/ ReferHit \/ ReferThrow
      \/ UNCHANGED cache \/ cache' = <<>>
  BY DEF Next, vars, Plain, InterpretLoad, CompiledLoad, InterpretStore, CompiledStore,
     ReadCall, Satp, Stop, Jump, Branch, LoopBranch, Fence, Count, Check, Over,
     GoOn, WriteAt, Interrupted
<1> QED
  BY <1>1, <1>2, <1>3, <1>4, <1>5, <1>6

(* A set of addresses is finite. *)
LEMMA UntriedFinite ==
    ASSUME NEW list
    PROVE  /\ IsFiniteSet(Untried(list))
           /\ Cardinality(Untried(list)) \in Nat
<1>1. IsFiniteSet(0 .. N)
  <2>1. 0 \in Int /\ N \in Int
    BY SimAssumption
  <2> QED
    BY <2>1, FS_Interval
<1>2. Untried(list) \in SUBSET (0 .. N)
  BY DEF Untried
<1>3. IsFiniteSet(Untried(list))
  BY <1>1, <1>2, FS_Subset
<1> QED
  BY <1>3, FS_CardinalityType

(* Each step to the set, and what it does to its size. *)
LEMMA UntriedLess ==
    ASSUME NEW list, NEW more, Untried(more) \subseteq Untried(list)
    PROVE  Cardinality(Untried(more)) <= Cardinality(Untried(list))
  BY UntriedFinite, FS_Subset

LEMMA UntriedAdd ==
    ASSUME NEW list, NEW more, NEW k, Untried(more) \subseteq Untried(list) \union {k}
    PROVE  Cardinality(Untried(more)) <= Cardinality(Untried(list)) + 1
<1> DEFINE A == Untried(list)
           B == Untried(more)
<1>1. IsFiniteSet(A) /\ Cardinality(A) \in Nat /\ Cardinality(B) \in Nat
  BY UntriedFinite
<1>2. B \in SUBSET (A \union {k})
  OBVIOUS
<1> HIDE DEF A, B
<1>3. /\ IsFiniteSet(A \union {k})
      /\ Cardinality(A \union {k}) = IF k \in A THEN Cardinality(A) ELSE Cardinality(A) + 1
  BY <1>1, FS_AddElement
<1>4. Cardinality(B) <= Cardinality(A \union {k})
  BY <1>2, <1>3, FS_Subset
<1>5. Cardinality(B) <= Cardinality(A) + 1
  BY <1>1, <1>3, <1>4
<1> QED
  BY <1>5 DEF A, B

LEMMA UntriedRemove ==
    ASSUME NEW list, NEW more, NEW k \in Untried(list),
           Untried(more) \subseteq Untried(list) \ {k}
    PROVE  Cardinality(Untried(more)) + 1 <= Cardinality(Untried(list))
<1> DEFINE A == Untried(list)
           B == Untried(more)
<1>1. IsFiniteSet(A) /\ Cardinality(A) \in Nat /\ Cardinality(B) \in Nat
  BY UntriedFinite
<1>2. B \in SUBSET (A \ {k}) /\ k \in A
  OBVIOUS
<1> HIDE DEF A, B
<1>3. /\ IsFiniteSet(A \ {k})
      /\ Cardinality(A \ {k}) = Cardinality(A) - 1
  BY <1>1, <1>2, FS_RemoveElement
<1>4. Cardinality(B) <= Cardinality(A \ {k})
  BY <1>2, <1>3, FS_Subset
<1>5. Cardinality(B) + 1 <= Cardinality(A)
  BY <1>1, <1>3, <1>4
<1> QED
  BY <1>5 DEF A, B

(* An attempt has one outcome: host code, or the trace is given up. *)
LEMMA OneOutcome ==
    ASSUME TypeOK, NEW t \in Trace
    PROVE  \/ Translate(t) = t
           \/ /\ Fit(t)
              /\ \/ Translate(t).code = t.code /\ Translate(t).is_eligible = t.is_eligible
                 \/ /\ Translate(t).code # t.code /\ Translate(t).is_eligible = t.is_eligible
                    /\ ~Fit(Translate(t))
                 \/ /\ Translate(t).code = t.code /\ Translate(t).is_eligible # t.is_eligible
                    /\ ~Fit(Translate(t))
<1>1. CASE ~(Jit /\ t.is_eligible /\ t.code = "none")
  BY <1>1 DEF Translate
<1>2. CASE Jit /\ t.is_eligible /\ t.code = "none"
  <2> DEFINE hot == t.exec_num = Threshold
             can == Translatable(t.words)
             mode == IF virtual THEN "virtual" ELSE "physical"
             code == IF hot /\ can THEN mode ELSE "none"
             eligible == ~hot \/ can
             u == Translate(t)
  <2>1. FieldsAre(u, t, t.exec_num + 1, code, eligible)
    BY <1>2 DEF Translate, FieldsAre
  <2>2. /\ mode # "none" /\ code \in {"none", "physical", "virtual"}
        /\ eligible \in BOOLEAN /\ t.exec_num + 1 \in Nat /\ t.is_eligible \in BOOLEAN
    BY TraceFacts
  <2>3. u.code = code /\ u.is_eligible = eligible
    <3> HIDE DEF code, eligible, u
    <3> QED
      BY <2>1, <2>2, FieldsSet
  <2> HIDE DEF u
  <2>4. t.code = "none" /\ t.is_eligible = TRUE /\ Fit(t)
    BY <1>2, <2>2 DEF Fit
  <2>5. CASE hot /\ can
    <3>1. u.code # t.code /\ u.is_eligible = TRUE
      BY <2>2, <2>3, <2>4, <2>5
    <3> QED
      BY <2>4, <3>1 DEF Fit, u
  <2>6. CASE hot /\ ~can
    <3>1. u.code = t.code /\ u.is_eligible = FALSE
      BY <2>3, <2>4, <2>6
    <3> QED
      BY <2>4, <3>1 DEF Fit, u
  <2>7. CASE ~hot
    <3>1. u.code = t.code /\ u.is_eligible = TRUE
      BY <2>3, <2>4, <2>7
    <3> QED
      BY <2>4, <3>1 DEF u
  <2> QED
    BY <2>5, <2>6, <2>7
<1> QED
  BY <1>1, <1>2

(* Execute tries the trace in front, or leaves what was tried alone. *)
LEMMA ExecuteAttempts ==
    ASSUME IInv, Distinct(cache), Attempts, Execute,
           Finished' = IF Translate(trace).code # trace.code THEN Finished + 1 ELSE Finished,
           Failed' = IF Translate(trace).is_eligible # trace.is_eligible
                     THEN Failed + 1 ELSE Failed,
           UNCHANGED Misses
    PROVE  Attempts'
<1>0. TypeOK /\ 1 \in DOMAIN cache /\ cache[1].key = pc /\ trace \in Trace /\ pc \in 0 .. N
  BY ExecuteFacts DEF IInv, TypeOK
<1>1. /\ Finished \in Nat /\ Failed \in Nat /\ Misses \in Nat
      /\ Cardinality(Untried(cache)) \in Nat /\ Cardinality(Untried(cache')) \in Nat
  BY <1>0, StatNumbers, UntriedFinite
<1> DEFINE t == Translate(trace)
           u == IF t.code # "none" THEN t ELSE Interpreted(t)
<1>2. t \in Trace
  BY <1>0, TranslateFacts
<1>3. u \in Trace /\ (Fit(u) <=> Fit(t))
  <2> HIDE DEF t
  <2> QED
    BY <1>2, InterpretedFacts DEF Fit
<1>4. cache' = [cache EXCEPT ![1].val = u]
  BY ExecuteCases
<1>5. \/ t = trace
      \/ /\ Fit(trace)
         /\ \/ t.code = trace.code /\ t.is_eligible = trace.is_eligible
            \/ t.code # trace.code /\ t.is_eligible = trace.is_eligible /\ ~Fit(t)
            \/ t.code = trace.code /\ t.is_eligible # trace.is_eligible /\ ~Fit(t)
  BY <1>0, OneOutcome
<1>6. /\ Finished' = IF t.code # trace.code THEN Finished + 1 ELSE Finished
      /\ Failed' = IF t.is_eligible # trace.is_eligible THEN Failed + 1 ELSE Failed
  OBVIOUS
<1> HIDE DEF t, u
<1>7. /\ Len(cache') = Len(cache) /\ DOMAIN cache' = DOMAIN cache
      /\ cache'[1].key = pc /\ cache'[1].val = u
      /\ \A i \in DOMAIN cache : i # 1 => cache'[i] = cache[i]
  BY <1>0, <1>3, <1>4, FrontReplaced
<1>8. CASE t.code = trace.code /\ t.is_eligible = trace.is_eligible
  <2>1. Fit(u) => Fit(cache[1].val)
    BY <1>3, <1>8 DEF Fit, trace
  <2>2. Untried(cache') \subseteq Untried(cache)
    <3> SUFFICES ASSUME NEW i \in DOMAIN cache, Fit(cache'[i].val)
                 PROVE  cache'[i].key = cache[i].key /\ Fit(cache[i].val)
      BY <1>7 DEF Untried
    <3>1. CASE i = 1
      BY <1>0, <1>7, <2>1, <3>1
    <3>2. CASE i # 1
      BY <1>7, <3>2
    <3> QED
      BY <3>1, <3>2
  <2>3. Cardinality(Untried(cache')) <= Cardinality(Untried(cache))
    BY <2>2, UntriedLess
  <2>4. Finished' = Finished /\ Failed' = Failed
    BY <1>6, <1>8
  <2> QED
    BY <1>1, <1>7, <2>3, <2>4 DEF Attempts
<1>9. CASE /\ Fit(trace) /\ ~Fit(u)
           /\ \/ t.code # trace.code /\ t.is_eligible = trace.is_eligible
              \/ t.code = trace.code /\ t.is_eligible # trace.is_eligible
  <2>1. pc \in Untried(cache)
    BY <1>0, <1>9 DEF Untried, trace
  <2>2. Untried(cache') \subseteq Untried(cache) \ {pc}
    <3> SUFFICES ASSUME NEW i \in DOMAIN cache, Fit(cache'[i].val)
                 PROVE  /\ cache'[i].key = cache[i].key /\ Fit(cache[i].val)
                        /\ cache[i].key # pc
      BY <1>7 DEF Untried
    <3>1. i # 1
      BY <1>7, <1>9
    <3> QED
      BY <1>0, <1>7, <3>1 DEF Distinct
  <2>3. Cardinality(Untried(cache')) + 1 <= Cardinality(Untried(cache))
    BY <2>1, <2>2, UntriedRemove
  <2>4. Finished' + Failed' = Finished + Failed + 1
    BY <1>1, <1>6, <1>9
  <2>5. Finished' \in Nat /\ Failed' \in Nat
    BY <1>1, <1>6
  <2> QED
    BY <1>1, <1>7, <2>3, <2>4, <2>5 DEF Attempts
<1> QED
  BY <1>3, <1>5, <1>8, <1>9

LEMMA NextAttempts ==
    ASSUME IInv, Distinct(cache), Below => Attempts, [Next]_vars, Below'
    PROVE  Attempts'
<1>0. TypeOK /\ Attempts /\ StatStep
  BY StatSteps DEF IInv
<1>1. /\ Finished \in Nat /\ Failed \in Nat /\ Misses \in Nat
      /\ Cardinality(Untried(cache)) \in Nat /\ Cardinality(Untried(cache')) \in Nat
      /\ Len(cache) \in Nat
  BY <1>0, StatNumbers, UntriedFinite, CacheFacts
<1>2. CASE Execute
  <2>1. phase = "execute" /\ phase' \in {"interpret", "compiled"}
    BY <1>2, ExecuteCases DEF Execute
  <2>2. /\ Finished' = IF Translate(trace).code # trace.code THEN Finished + 1 ELSE Finished
        /\ Failed' = IF Translate(trace).is_eligible # trace.is_eligible
                     THEN Failed + 1 ELSE Failed
        /\ UNCHANGED Misses
    BY <1>0, <2>1 DEF StatStep, ReferHit, ReferMiss
  <2> QED
    BY <1>0, <1>2, <2>2, ExecuteAttempts
<1>3. CASE ReferMiss
  <2>1. Misses' = Misses + 1 /\ UNCHANGED <<Finished, Failed>>
    BY <1>0, <1>3 DEF StatStep, ReferHit, ReferMiss, Execute
  <2>2. PICK words \in FetchTrace(pc) : cache' = Put(cache, CacheSize, pc, NewTrace(words))
    BY <1>3 DEF ReferMiss
  <2> DEFINE t == NewTrace(words)
             new == [key |-> pc, val |-> t]
  <2>3. new \in Pairs /\ new.key = pc
    BY <1>0, NewTraceFacts
  <2> HIDE DEF t
  <2>4. cache' = Put(cache, CacheSize, pc, t)
    BY <2>2 DEF t
  <2>5. Len(cache') <= Len(cache) + 1 /\ OneNewPair(cache, cache', new) /\ Len(cache') \in Nat
    BY <1>0, <2>3, <2>4, CacheFacts, PutLength, PutOneNew, PutFacts
  <2> HIDE DEF new
  <2>6. Untried(cache') \subseteq Untried(cache) \union {pc}
    BY <2>3, <2>5 DEF Untried, OneNewPair
  <2>7. Cardinality(Untried(cache')) <= Cardinality(Untried(cache)) + 1
    BY <2>6, UntriedAdd
  <2> QED
    BY <1>0, <1>1, <2>1, <2>5, <2>7 DEF Attempts
<1>4. CASE OldPairs(cache, cache') /\ ~Execute /\ ~ReferMiss
  <2>1. UNCHANGED <<Misses, Finished, Failed>>
    BY <1>0, <1>4 DEF StatStep
  <2>2. Untried(cache') \subseteq Untried(cache)
    BY <1>4 DEF Untried, OldPairs
  <2>3. Cardinality(Untried(cache')) <= Cardinality(Untried(cache))
    BY <2>2, UntriedLess
  <2>4. Len(cache') <= Len(cache) /\ Len(cache') \in Nat
    <3>1. CASE UNCHANGED cache \/ cache' = <<>>
      BY <1>1, <3>1
    <3>2. CASE ReferHit
      <4>1. pc \in Cached(cache) /\ cache' = Touch(cache, pc)
        BY <3>2 DEF ReferHit
      <4>2. IsMove(Pairs, cache, IndexOf(cache, pc), cache')
        BY <1>0, <4>1, CacheFacts, TouchFacts
      <4> QED
        BY <1>1, <4>2 DEF IsMove
    <3>3. CASE ReferThrow
      BY <1>0, <3>3, CacheFacts, EvictFacts DEF ReferThrow
    <3>4. \/ ReferMiss \/ Execute \/ ReferHit \/ ReferThrow
          \/ UNCHANGED cache \/ cache' = <<>>
      BY DEF Next, vars, Plain, InterpretLoad, CompiledLoad, InterpretStore, CompiledStore,
         ReadCall, Satp, Stop, Jump, Branch, LoopBranch, Fence, Count, Check, Over,
         GoOn, WriteAt, Interrupted
    <3> QED
      BY <1>4, <3>1, <3>2, <3>3, <3>4
  <2> QED
    BY <1>0, <1>1, <2>1, <2>3, <2>4 DEF Attempts
<1> QED
  BY <1>2, <1>3, <1>4, CacheSteps

Ledger == Distinct(cache) /\ (Below => Lookups) /\ (Below => Attempts)

LEMMA InitLedger == Init => Ledger
<1> SUFFICES ASSUME Init PROVE Ledger
  OBVIOUS
<1>1. /\ cache = <<>> /\ DOMAIN cache = {} /\ Len(cache) = 0 /\ phase = "refer"
      /\ stats = [s \in Stat |-> 0]
  BY DEF Init
<1>2. Distinct(cache)
  BY <1>1 DEF Distinct
<1>3. Hits = 0 /\ Misses = 0 /\ Finished = 0 /\ Failed = 0 /\ Interps = 0 /\ Hosts = 0
  BY <1>1 DEF Stat, Hits, Misses, Finished, Failed, Interps, Hosts
<1>4. Lookups
  BY <1>1, <1>3 DEF Lookups
<1>5. Attempts
  <2>1. Untried(cache) = {}
    BY <1>1 DEF Untried
  <2>2. Cardinality(Untried(cache)) = 0
    BY <2>1, FS_EmptySet
  <2> QED
    BY <1>1, <1>3, <2>2 DEF Attempts
<1> QED
  BY <1>2, <1>4, <1>5 DEF Ledger

LEMMA LedgerAddsUp == ASSUME IInv, Ledger PROVE StatisticsAddUp
<1>0. /\ Hits \in Nat /\ Misses \in Nat /\ Finished \in Nat
      /\ Failed \in Nat /\ Interps \in Nat /\ Hosts \in Nat
      /\ Cardinality(Untried(cache)) \in Nat
  BY StatNumbers, UntriedFinite DEF IInv
<1>1. Below => Lookups /\ Attempts
  BY DEF Ledger
<1> USE DEF Hits, Misses, Finished, Failed, Interps, Hosts
<1> DEFINE looked == stats["trace_cache_hits"] + stats["trace_cache_misses"]
           done == stats["interpreted_executions"] + stats["translated_executions"]
           tried == stats["jit_finished_translations"] + stats["jit_failed_translations"]
<1>2. Below => looked - done \in {0, 1}
  BY <1>0, <1>1 DEF Lookups
<1>3. Below => (phase = "refer" => looked = done)
  BY <1>1 DEF Lookups
<1>4. Below => tried <= stats["trace_cache_misses"]
  BY <1>0, <1>1 DEF Attempts
<1>5. Below => Len(cache) <= stats["trace_cache_misses"]
  BY <1>1 DEF Attempts
<1>6. Below => (phase = "refer" =>
                  stats["translated_executions"] >= stats["jit_finished_translations"])
  BY <1>0, <1>1 DEF Lookups
<1> QED
  BY <1>2, <1>3, <1>4, <1>5, <1>6 DEF StatisticsAddUp, Below

(* For every program, cache size and threshold, while no statistic has     *)
(* reached its bound: every trace looked up is executed once, and each     *)
(* construction of a trace is followed by at most one attempt to translate *)
(* it.                                                                     *)
THEOREM StatisticsBalance == Spec => []StatisticsAddUp
<1>1. IInv /\ Ledger /\ [Next]_vars => Ledger'
  BY NextDistinct, NextLookups, NextAttempts DEF Ledger
<1>2. IInv /\ Ledger => StatisticsAddUp
  BY LedgerAddsUp
<1> QED
  BY <1>1, <1>2, InitLedger, IInvHolds, PTL DEF Spec
=============================================================================
