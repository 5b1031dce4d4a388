---------------------------------- MODULE Mm ----------------------------------
(***************************************************************************)
(* The command mm (mm_main of Lv0Neos.c): from the E820 table it makes the *)
(* list of the slots to give out, takes the kernel's low memory out of it  *)
(* and formats the rest (Lv0.c), and then tests the allocator of Heap.     *)
(*                                                                         *)
(* The command is left in one of these ways (pc):                          *)
(*   prompt  it has returned to the command line, or was never given       *)
(*   test    it is in the test of the allocator                            *)
(*   lost    exit: a key is waited for, and then while(1)                  *)
(*   fault   it has used address 0, and the exception gate has ended it    *)
(***************************************************************************)
EXTENDS Heap, SequencesExt, FiniteSetsExt

CONSTANTS
  Tables,    \* what may lie at 0x4000 and above, slot by slot
  ForTest,   \* those of Tables with which mm runs its test; with the others, programs follow
  MinAddr,   \* 1 MiB: no slot that begins below is used
  MaxKernel, \* 10 MiB: no memory below is used
  MaxMemArr, \* MAX_MEM_ARR
  Small,     \* 0x1000, the lesser size of the test
  Large      \* 0x1000000, the other

VARIABLES
  table,     \* the slots at 0x4000 and above, <<start, length, usable>>; constant
  mm_inited, \* 1 before the first mm, and 2 after it
  pc,
  i,         \* the call of the test that comes next
  p          \* p1 to p5 of the test: blocks, or 0

mmVars == <<heapVars, table, mm_inited, pc, i, p>>

\* The table goes up to the first slot from MinAddr on that is marked 0, the record of the HPET
\* behind the table's own end.  Usable memory begins and ends at whole words, and no usable slot
\* overlaps or touches another.
ASSUME TablesEnd ==
  \A t \in Tables :
    /\ t \in Seq(Nat \X Nat \X Nat) /\ t # <<>>
    /\ \A n \in DOMAIN t : t[n][1] >= MinAddr /\ t[n][3] = 0 <=> n = Len(t)

ASSUME TablesApart ==
  \A t \in Tables : \A n, k \in DOMAIN t :
    /\ t[n][3] = 1 => t[n][1] % 8 = 0 /\ t[n][2] % 8 = 0
    /\ n # k /\ t[n][3] = 1 /\ t[k][3] = 1 /\ t[n][1] >= MinAddr /\ t[k][1] >= MinAddr =>
         t[n][1] + t[n][2] < t[k][1] \/ t[k][1] + t[k][2] < t[n][1]

ASSUME MmAssumption ==
  /\ ForTest \subseteq Tables
  /\ MinAddr \in Nat \ {0} /\ MinAddr % 8 = 0
  /\ MaxKernel \in Nat /\ MaxMemArr \in Nat
  /\ Small \in Nat /\ Large \in Nat

MmInit ==
  /\ table \in Tables
  /\ mm_inited = 1 /\ pc = "prompt"
  /\ i = 1 /\ p = [k \in 1 .. 5 |-> 0]
  /\ e820 = <<>> /\ mem = <<>>
  /\ live = <<>> /\ refused = 0 /\ misled = FALSE

-----------------------------------------------------------------------------
(* Making the slots ready                                                  *)

\* A slot of the table is added to the list, or skipped.
WithSlot(slots, slot) ==
  IF slot[1] >= MinAddr /\ slot[3] = 1 THEN Append(slots, <<slot[1], slot[2]>>) ELSE slots

\* The end of the table begins at 0, so it is skipped like all that begins below MinAddr.
initE820Arr ==
  LET end == Min({n \in DOMAIN table : table[n][1] >= MinAddr /\ table[n][3] = 0})
      Upto[n \in 0 .. end - 1] == IF n = 0 THEN <<>> ELSE WithSlot(Upto[n - 1], table[n])
  IN  Upto[end - 1]

\* A plausible bug: a slot that begins later keeps its length.
reserveKeepsLength(slots, p1, plen) ==
  [n \in DOMAIN slots |->
     LET start == slots[n][1]
         stop == start + slots[n][2]
         p2 == p1 + plen
     IN  IF start < p2 /\ stop > p2 THEN <<p2, slots[n][2]>>
         ELSE IF p1 <= start /\ p2 >= stop THEN <<start, 0>>
         ELSE slots[n]]

\* A slot that reaches out of the reserved range begins at its end; one inside is left empty.
reserve(slots, p1, plen) ==
  [n \in DOMAIN slots |->
     LET start == slots[n][1]
         stop == start + slots[n][2]
         p2 == p1 + plen
     IN  IF start < p2 /\ stop > p2 THEN <<p2, stop - p2>>
         ELSE IF p1 <= start /\ p2 >= stop THEN <<start, 0>>
         ELSE slots[n]]

TooSmall(slot) == slot[2] < MinDataSize + OverheadSize

\* The slots that format comes to: it exits at one that is too small.
Reached(slots) ==
  LET small == {n \in DOMAIN slots : TooSmall(slots[n])}
  IN  IF small = {} THEN Len(slots) ELSE Min(small) - 1

\* One block per slot, each pointing to its neighbours.
FormatSlot(m, slots, n) ==
  LET Start(k) == IF k \in DOMAIN slots THEN slots[k][1] ELSE 0
  IN  Format0(m, Start(n), slots[n][2], Start(n - 1), Start(n + 1))

Formatted(slots) ==
  LET Upto[n \in 0 .. Reached(slots)] == IF n = 0 THEN <<>> ELSE FormatSlot(Upto[n - 1], slots, n)
  IN  Upto[Reached(slots)]

\* exit(3) of initE820Arr.
TooManySlots ==
  /\ Len(initE820Arr) > MaxMemArr - 1
  /\ pc' = "lost"
  /\ UNCHANGED <<e820, mem>>

\* The rest of initLVs, up to the test; exit(2) of format.
SlotsReady ==
  LET slots == reserve(initE820Arr, 0, MaxKernel) IN
  /\ Len(initE820Arr) <= MaxMemArr - 1
  /\ e820' = slots
  /\ mem' = Formatted(slots)
  /\ pc' = IF Reached(slots) < Len(slots) THEN "lost"
           ELSE IF table \in ForTest THEN "test" ELSE "prompt"

mm_main ==
  /\ pc = "prompt"
  /\ mm_inited = 1
  /\ mm_inited' = 2
  /\ TooManySlots \/ SlotsReady
  /\ UNCHANGED <<live, refused, misled, table, i, p>>

\* "MM already inited, do not call more."
mm_main_refused ==
  /\ pc = "prompt"
  /\ mm_inited = 2
  /\ UNCHANGED mmVars

exit == pc = "lost" /\ UNCHANGED mmVars

-----------------------------------------------------------------------------
(* The test                                                                *)

alloc(k, size) == [op |-> "alloc", of |-> k, size |-> size]
enlarge(k, size) == [op |-> "enlarge", of |-> k, size |-> size]
free(k) == [op |-> "free", of |-> k, size |-> 0]

testAllocFrees ==
  << alloc(1, Small), alloc(2, Large), alloc(3, Large), alloc(4, Large),
     free(4), alloc(4, Large + 1),
     free(4), alloc(4, Large),
     free(3), alloc(3, Large), free(3), free(2),
     alloc(2, Large), alloc(3, Large), free(2), free(3),
     alloc(2, Large), alloc(3, Large), free(1), free(3), free(2), free(4) >>

testEnlarge ==
  << alloc(1, Small), alloc(2, Large), alloc(3, Large), alloc(4, Large),
     free(4), alloc(4, Large + 1), enlarge(4, Large + 5), enlarge(4, 2 * Large),
     enlarge(1, Small + 100), alloc(5, Small) >>

calls == testAllocFrees \o testEnlarge

\* What the call returned: 0, the block it was given, or a new one.
Answer(b) ==
  IF refused' # 0 THEN 0
  ELSE IF b \in DOMAIN live' THEN b
  ELSE CHOOSE new \in DOMAIN live' : new \notin DOMAIN live

NextCall ==
  /\ i' = i + 1
  /\ pc' = IF i = Len(calls) THEN "prompt" ELSE "test"
  /\ UNCHANGED <<table, mm_inited>>

\* Nothing asks whether alloc and enlarge have answered 0.
TestCall ==
  LET call == calls[i]
      b == p[call.of]
  IN  /\ pc = "test"
      /\ \/ call.op = "alloc" /\ Alloc(call.size) /\ p' = [p EXCEPT ![call.of] = Answer(0)]
         \/ call.op = "enlarge" /\ Enlarge(b, call.size) /\ p' = [p EXCEPT ![call.of] = Answer(b)]
         \/ call.op = "free" /\ FreeBlock(b) /\ UNCHANGED p
      /\ NextCall

\* The block of address 0 begins 64 bytes below, where no memory is mapped.
TestFault ==
  /\ pc = "test"
  /\ calls[i].op # "alloc"
  /\ p[calls[i].of] = 0
  /\ pc' = "fault"
  /\ UNCHANGED <<heapVars, table, mm_inited, i, p>>

-----------------------------------------------------------------------------
\* Others that use the allocator do so after format, as mm does and as Test1.c does on a host.
Programs ==
  /\ pc = "prompt" /\ mm_inited = 2 /\ table \notin ForTest
  /\ HeapNext
  /\ UNCHANGED <<table, mm_inited, pc, i, p>>

\* After a fault the core does not come back to the command line.
Faulted == pc = "fault" /\ UNCHANGED mmVars

MmNext ==
  \/ mm_main \/ mm_main_refused \/ exit
  \/ TestCall \/ TestFault \/ Faulted
  \/ Programs

MmSpec == MmInit /\ [][MmNext]_mmVars

-----------------------------------------------------------------------------
(* Properties                                                              *)

\* What the allocator may give out: the usable slots from 1 MiB on, without the kernel's 10 MiB.
Usable(a) ==
  /\ a >= MaxKernel
  /\ \E n \in DOMAIN table : /\ table[n][3] = 1 /\ table[n][1] >= MinAddr
                             /\ table[n][1] <= a /\ a < table[n][1] + table[n][2]

\* The comments "we do not use memory below 1MB" and "low 10MB(0xa00000)": every word the
\* allocator has written lies in usable memory above the kernel, whatever follows the end of the
\* table; and when mm has not stopped the machine, all such memory is in the slots.
OnlyUsableMemory ==
  /\ \A a \in DOMAIN mem : Usable(a) /\ Usable(a + 7)
  /\ mm_inited = 2 /\ pc # "lost" =>
       \A n \in DOMAIN table :
         table[n][3] = 1 /\ table[n][1] >= MinAddr =>
           \A a \in {table[n][1], table[n][1] + table[n][2] - 1} :
             Usable(a) => \E s \in DOMAIN e820 : e820[s][1] <= a /\ a < e820[s][1] + e820[s][2]

\* What testAllocFrees is for: it frees in an order that merges with the previous block, the
\* next and both, and when it has freed all, every slot is one free block again.
AllComesBack ==
  (pc = "test" /\ i = Len(testAllocFrees) + 1) =>
    /\ live = <<>>
    /\ Blocks = [n \in DOMAIN e820 |-> e820[n][1]]
    /\ \A n \in DOMAIN e820 : /\ Type(mem, e820[n][1]) = Free
                              /\ TotalSize(mem, e820[n][1]) = e820[n][2]
=============================================================================
