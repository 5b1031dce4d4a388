------------------------------ MODULE MemTest ------------------------------
(***************************************************************************)
(* memtest64 (memtest.c): the command that reads the E820 table, leaves    *)
(* out what lies below 2 MiB, and writes and verifies every part of memory *)
(* that is left, all ones and then all zeros, chunk by chunk.              *)
(*                                                                         *)
(* A chunk is written with rep stosq and verified with repe scasq          *)
(* (bmos/kernel64.asm), which stops behind the first word that differs and *)
(* tells how many words it has not looked at.                              *)
(*                                                                         *)
(* Memory is modelled byte by byte, a byte holding 1 for FF, 0 for 00.     *)
(* A faulty byte is stuck at one of the two.  Numbers are shown as         *)
(* sequences of digits.                                                    *)
(*                                                                         *)
(* Where the command is (where):                                           *)
(*   prompt  not running             cut     about to call mempart_sub     *)
(*   show    printe820slot           unit    in writeUnit or verifyUnit    *)
(*   more    waitkey, a full page    finish  all parts have been tested    *)
(*   add     adding a slot           full    while(1), no room in the list *)
(*   press   waitkey, the table is shown                                   *)
(***************************************************************************)
EXTENDS Integers, Sequences, SequencesExt, FiniteSetsExt

CONSTANTS
  Tables,     \* the tables the boot loader may leave: sequences of E820 slots
  Under2M,    \* the first address that is tested, 0x200000
  WordSize,   \* bytes in a word, 8
  Chunks,     \* a chunk is this part of a part, 100
  MaxMemArr,  \* MAX_MEM_ARR, 100
  PageLines,  \* the slots shown before a key is asked for, 20
  MaxFaulty   \* the bytes that may be faulty (bounds the model)

Slot == [startAddr : Nat, len : Nat, usable : Nat]

ASSUME MemTestAssumption ==
  /\ Under2M \in Nat
  /\ {WordSize, Chunks, MaxMemArr, PageLines} \subseteq Nat \ {0}
  /\ MaxFaulty \in Nat
  /\ \A t \in Tables : /\ t \in Seq(Slot) /\ t # <<>>
                       /\ \A n \in DOMAIN t : t[n].usable = 0 <=> n = Len(t)

VARIABLES
  table,       \* the E820 table at 0x4000
  stuck,       \* the faulty bytes, and what each is stuck at
  mem,         \* what the bytes hold, or Old: what programs have left there
  where,       \* where the command is
  i, lines,    \* the slot in hand, the slots shown on this page
  FreeMemArr,  \* the parts to test
  part, step,  \* the part in hand, and the step of its test, 1 to 4
  cnt,         \* the words of the part that this step is done with
  totalLen,    \* the bytes of all usable slots
  error,       \* how many errors have been found
  reports,     \* the addresses shown after "Error:", as digits
  sizeShown,   \* the digits shown after "Total size="
  countShown,  \* the digits shown after "Error count="
  walked       \* the bytes in chunks that have been verified, with the value

given == <<table, stuck>>
place == <<part, step, cnt>>
shown == <<sizeShown, countShown>>
memVars == <<given, mem, where, i, lines, FreeMemArr, place, totalLen, error, reports, shown, walked>>

Old == 2

\* The bytes of a slot or a part.
Bytes(p) == p.startAddr .. p.startAddr + p.len - 1

Usable(t) == UNION {Bytes(t[n]) : n \in {m \in DOMAIN t : t[m].usable = 1}}

Addresses == UNION {0 .. table[n].startAddr + table[n].len : n \in DOMAIN table}

MemTestInit ==
  /\ table \in Tables
  /\ \E n \in 0 .. MaxFaulty : \E bad \in kSubset(n, Usable(table)) : stuck \in [bad -> {0, 1}]
  /\ mem = [b \in Addresses |-> Old]
  /\ where = "prompt"
  /\ i = 1 /\ lines = 0
  /\ FreeMemArr = <<>>
  /\ part = 1 /\ step = 1 /\ cnt = 0
  /\ totalLen = 0 /\ error = 0
  /\ reports = <<>> /\ sizeShown = <<>> /\ countShown = <<>>
  /\ walked = {}

-----------------------------------------------------------------------------
(* Numbers                                                                 *)

\* str_long2dec: the digits as they come, lowest first, then reversed in place.
Long2Dec(v) ==
  LET Digits[n \in Nat] == IF n < 10 THEN <<n>> ELSE <<n % 10>> \o Digits[n \div 10]
  IN  Reverse(Digits[v])

\* str_itoa for a radix: len digits, filled from the right.
Itoa(v, len, radix) ==
  LET Rest[n \in 0 .. len] == IF n = 0 THEN v ELSE Rest[n - 1] \div radix
  IN  [d \in 1 .. len |-> Rest[len - d] % radix]

Long2Hex(v) == Itoa(v, 16, 16)

-----------------------------------------------------------------------------
(* The table                                                               *)

\* A plausible bug: the list of the last test is kept.
MemtestKeepsList ==
  /\ where = "prompt"
  /\ error' = 0 /\ UNCHANGED FreeMemArr /\ totalLen' = 0
  /\ i' = 1 /\ lines' = 0
  /\ mem' = [b \in Addresses |-> Old]
  /\ reports' = <<>> /\ sizeShown' = <<>> /\ countShown' = <<>> /\ walked' = {}
  /\ where' = "show"
  /\ UNCHANGED <<given, place>>

\* memtest and the start of printe820.  Programs have used the memory since the last test.
Memtest ==
  /\ where = "prompt"
  /\ error' = 0 /\ FreeMemArr' = <<>> /\ totalLen' = 0
  /\ i' = 1 /\ lines' = 0
  /\ mem' = [b \in Addresses |-> Old]
  /\ reports' = <<>> /\ sizeShown' = <<>> /\ countShown' = <<>> /\ walked' = {}
  /\ where' = "show"
  /\ UNCHANGED <<given, place>>

ShowSlot ==
  /\ where = "show"
  /\ lines' = IF lines + 1 > PageLines THEN 0 ELSE lines + 1
  /\ where' = IF lines + 1 > PageLines THEN "more" ELSE "add"
  /\ UNCHANGED <<given, mem, i, FreeMemArr, place, totalLen, error, reports, shown, walked>>

\* waitkey: a key is pressed.
PressKey ==
  /\ where \in {"more", "press"}
  /\ where' = IF where = "more" THEN "add" ELSE "cut"
  /\ UNCHANGED <<given, mem, i, lines, FreeMemArr, place, totalLen, error, reports, shown,
                 walked>>

NoRoomForSlot ==
  /\ where = "add"
  /\ table[i].usable = 1
  /\ Len(FreeMemArr) >= MaxMemArr
  /\ where' = "full"
  /\ UNCHANGED <<given, mem, i, lines, FreeMemArr, place, totalLen, error, reports, shown,
                 walked>>

AddSlot ==
  LET slot == table[i] IN
  /\ where = "add"
  /\ slot.usable # 0
  /\ IF slot.usable = 1
       THEN /\ Len(FreeMemArr) < MaxMemArr
            /\ FreeMemArr' = Append(FreeMemArr, [startAddr |-> slot.startAddr, len |-> slot.len])
            /\ totalLen' = totalLen + slot.len
       ELSE UNCHANGED <<FreeMemArr, totalLen>>
  /\ i' = i + 1
  /\ where' = "show"
  /\ UNCHANGED <<given, mem, lines, place, error, reports, shown, walked>>

EndOfTable ==
  /\ where = "add"
  /\ table[i].usable = 0
  /\ sizeShown' = Long2Dec(totalLen)
  /\ where' = IF lines > 0 THEN "press" ELSE "cut"
  /\ UNCHANGED <<given, mem, i, lines, FreeMemArr, place, totalLen, error, reports, countShown,
                 walked>>

-----------------------------------------------------------------------------
(* Cutting off                                                             *)

\* A plausible bug: what is left behind the cut keeps its length.
CutoffKeepsLength(target, mp) ==
  LET stop == mp.startAddr + mp.len
      t1 == target.startAddr + target.len
  IN  IF stop > target.startAddr /\ stop <= t1
        THEN <<[startAddr |-> stop, len |-> target.len]>>
      ELSE IF stop >= t1 THEN <<[target EXCEPT !.len = 0]>>
      ELSE <<target>>

\* mempart_cutoff: what is left of target without mp, the second piece to be added to the list.
\* There is a second piece only if mp begins inside target.  memtest's begins at 0, so the loop
\* for ever of a full list, "no more slot 2!", is never reached.
Cutoff(target, mp) ==
  LET start == mp.startAddr
      stop == mp.startAddr + mp.len
      t0 == target.startAddr
      t1 == target.startAddr + target.len
      before == [startAddr |-> t0, len |-> start - t0]
      behind == [startAddr |-> stop, len |-> t1 - stop]
  IN  IF start <= t0 /\ stop > t0 /\ stop <= t1 THEN <<behind>>
      ELSE IF start >= t0 /\ start < t1 /\ stop >= t1 THEN <<before>>
      ELSE IF start <= t0 /\ stop >= t1 THEN <<[target EXCEPT !.len = 0]>>
      ELSE IF start > t0 /\ stop < t1 THEN <<before, behind>>
      ELSE <<target>>

\* mempart_sub.  A piece that was added has nothing left to cut off.
MempartSub(arr, mp) ==
  LET pieces == [n \in DOMAIN arr |-> Cutoff(arr[n], mp)]
  IN  [n \in DOMAIN arr |-> pieces[n][1]] \o FlattenSeq([n \in DOMAIN arr |-> Tail(pieces[n])])

\* The first part from n on that is not empty, or one past the last.
NextPart(arr, n) ==
  Min({p \in n .. Len(arr) : arr[p].len # 0} \cup {Len(arr) + 1})

CutOffUnder2M ==
  LET arr == MempartSub(FreeMemArr, [startAddr |-> 0, len |-> Under2M]) IN
  /\ where = "cut"
  /\ FreeMemArr' = arr
  /\ part' = NextPart(arr, 1) /\ step' = 1 /\ cnt' = 0
  /\ where' = IF part' > Len(arr) THEN "finish" ELSE "unit"
  /\ UNCHANGED <<given, mem, i, lines, totalLen, error, reports, shown, walked>>

-----------------------------------------------------------------------------
(* Testing                                                                 *)

total == FreeMemArr[part].len \div WordSize

\* percent, which is cut short for the last chunk.
Chunk == IF cnt + total \div Chunks > total THEN total - cnt ELSE total \div Chunks

unit == FreeMemArr[part].startAddr + WordSize * cnt

\* A plausible bug: v is not set to 0 for the last two steps.
OnesOnly == 1

Value == IF step <= 2 THEN 1 ELSE 0

ChunkBytes == unit .. unit + WordSize * Chunk - 1

\* The end of the loop of writeUnit and verifyUnit, and what doTestMem and testFreeMem do next.
Advance ==
  LET done == cnt + Chunk >= total
      partDone == done /\ step = 4
  IN  /\ cnt' = IF done THEN 0 ELSE cnt + Chunk
      /\ step' = IF partDone THEN 1 ELSE IF done THEN step + 1 ELSE step
      /\ part' = IF partDone THEN NextPart(FreeMemArr, part + 1) ELSE part
      /\ where' = IF part' > Len(FreeMemArr) THEN "finish" ELSE "unit"

\* One round of writeUnit, with asm_writeU64.
WriteUnit ==
  /\ where = "unit"
  /\ step \in {1, 3}
  /\ mem' = [b \in Addresses |->
               IF b \notin ChunkBytes THEN mem[b]
               ELSE IF b \in DOMAIN stuck THEN stuck[b] ELSE Value]
  /\ Advance
  /\ UNCHANGED <<given, i, lines, FreeMemArr, totalLen, error, reports, shown, walked>>

\* A plausible bug: the count is taken as the place of the difference.
VerifyU64FromStart(loc, n, v) ==
  LET Differs(k) == \E b \in loc + WordSize * k .. loc + WordSize * (k + 1) - 1 : mem[b] # v
      bad == {k \in 0 .. n - 1 : Differs(k)}
  IN  IF bad = {} THEN 0 ELSE Min(bad) + 1

\* asm_verifyU64: rcx after repe scasq, the words behind the first that differs.
VerifyU64(loc, n, v) ==
  LET Differs(k) == \E b \in loc + WordSize * k .. loc + WordSize * (k + 1) - 1 : mem[b] # v
      bad == {k \in 0 .. n - 1 : Differs(k)}
  IN  IF bad = {} THEN 0 ELSE n - Min(bad) - 1

\* One round of verifyUnit.  The answer is kept in an int, which holds any chunk of less than
\* 2^31 words.
VerifyUnit ==
  LET ret == VerifyU64(unit, Chunk, Value) IN
  /\ where = "unit"
  /\ step \in {2, 4}
  /\ error' = IF ret # 0 THEN error + 1 ELSE error
  /\ reports' = IF ret # 0 THEN Append(reports, Long2Hex(unit + WordSize * (Chunk - ret)))
                           ELSE reports
  /\ walked' = walked \cup (ChunkBytes \X {Value})
  /\ Advance
  /\ UNCHANGED <<given, mem, i, lines, FreeMemArr, totalLen, shown>>

\* The end of memtest: back to the command line.
Finish ==
  /\ where = "finish"
  /\ countShown' = IF error > 0 THEN Long2Dec(error) ELSE <<>>
  /\ where' = "prompt"
  /\ UNCHANGED <<given, mem, i, lines, FreeMemArr, place, totalLen, error, reports, sizeShown,
                 walked>>

\* while(1){}: the machine is lost.
LoopForEver == where = "full" /\ UNCHANGED memVars

MemTestStep ==
  \/ ShowSlot \/ NoRoomForSlot \/ AddSlot \/ EndOfTable
  \/ CutOffUnder2M \/ WriteUnit \/ VerifyUnit \/ Finish

MemTestNext == Memtest \/ PressKey \/ MemTestStep \/ LoopForEver

MemTestSpec == MemTestInit /\ [][MemTestNext]_memVars

\* The command runs on, and somebody presses a key when it asks for one.
MemTestFairSpec == MemTestSpec /\ WF_memVars(MemTestStep) /\ WF_memVars(PressKey)

-----------------------------------------------------------------------------
(* Properties                                                              *)

\* What is to be tested of a usable slot: the whole words at or above 2 MiB.
Testable(slot) ==
  LET first == Max({slot.startAddr, Under2M})
      words == (slot.startAddr + slot.len - first) \div WordSize
  IN  IF slot.usable = 1 /\ words > 0 THEN first .. first + WordSize * words - 1 ELSE {}

AllTestable == UNION {Testable(table[n]) : n \in DOMAIN table}

\* The README of memtest64: "It test all usable memory according to E820 memory map, exception
\* memory below 2MB used by system."  Nothing else is ever written, behind the list of parts
\* neither, and when the test is over each of these bytes was in a chunk verified for ones and
\* in one verified for zeros.
TestsWhatIsUsable ==
  /\ Len(FreeMemArr) <= MaxMemArr
  /\ \A b \in Addresses : mem[b] # Old => b \in AllTestable
  /\ where = "finish" => walked = AllTestable \X {0, 1}

ValueOf(digits, radix) ==
  LET Upto[n \in 0 .. Len(digits)] == IF n = 0 THEN 0 ELSE Upto[n - 1] * radix + digits[n]
  IN  Upto[Len(digits)]

FaultyWord(a) == \E b \in a .. a + WordSize - 1 : b \in DOMAIN stuck

\* Every address shown after "Error:" is one word behind a faulty word, however the chunks
\* were divided: verifyUnit shows the address where the comparison stopped, not the word's own,
\* which its other branch shows (memtest.c:333).  The size and the count shown at the end are the
\* size and the count.
ReportsLocateFaults ==
  /\ \A n \in DOMAIN reports : FaultyWord(ValueOf(reports[n], 16) - WordSize)
  /\ sizeShown # <<>> =>
       ValueOf(sizeShown, 10) = Cardinality(Usable(table))
  /\ countShown # <<>> => ValueOf(countShown, 10) = Len(reports)

\* The first words of the faulty words in the chunk that word a of a part belongs to.
ChunkOf(p, a) ==
  LET words == p.len \div WordSize
      size == words \div Chunks
      first == (((a - p.startAddr) \div WordSize) \div size) * size
  IN  {p.startAddr + WordSize * w : w \in first .. Min({first + size, words}) - 1}

Reported(a) == \E n \in DOMAIN reports : ValueOf(reports[n], 16) = a + WordSize

\* When the test is over, a faulty word has been reported, unless it is the last of its chunk
\* or another word of its chunk has been reported before it: verifyUnit takes a difference in
\* the last word for none, and looks no further than the first.
MissesLittle ==
  where = "finish" =>
    \A n \in DOMAIN FreeMemArr :
      LET p == FreeMemArr[n]
      IN  \A w \in 0 .. p.len \div WordSize - 1 :
            LET a == p.startAddr + WordSize * w
            IN  FaultyWord(a) => \/ a = Max(ChunkOf(p, a))
                                 \/ \E before \in ChunkOf(p, a) : before <= a /\ Reported(before)

\* The parts are empty, or have a word for every chunk.
NoTinyPart ==
  \A n \in DOMAIN table :
    LET bytes == Cardinality(Testable(table[n]))
    IN  bytes = 0 \/ bytes \div WordSize >= Chunks

\* The usable slots fit the list.
FitsList == Cardinality({n \in DOMAIN table : table[n].usable = 1}) <= MaxMemArr

\* Every test comes to an end, the second like the first, unless a part is so small that its
\* chunks are empty (cnt + 0 never reaches total) or there are more parts than the list holds.
MemtestEnds ==
  (where = "show" /\ NoTinyPart /\ FitsList) ~> (where = "prompt")
=============================================================================
