-------------------------------- MODULE Heap --------------------------------
(***************************************************************************)
(* "Play with the memory" (pw_mem): alloc, enlarge and free of Lv1.c over  *)
(* the blocks ("envelopes") of Envelop.c.  Lv0.c formats the memory before, *)
(* which is in Mm, with what comes first: reading the E820 table.          *)
(*                                                                         *)
(* Memory is modelled word by word, because what goes wrong in an          *)
(* allocator is a word somebody did not mean to read: mem holds the words  *)
(* the allocator has written and nobody has overwritten.  Every other word *)
(* is a program's data, which looks like no signature and reads as 0.      *)
(*                                                                         *)
(* A block at address b, 8 bytes a word:                                   *)
(*   b      total size         b + 32  type, free or in use                *)
(*   b + 8  signature          b + 40  length of the data area             *)
(*   b + 16 previous block     b + 48  P1, always 0                        *)
(*   b + 24 next block         b + 56  P2, the length in use               *)
(*   b + 64 data               the last word: total size again             *)
(***************************************************************************)
EXTENDS Integers, Sequences, FiniteSetsExt

CONSTANTS
  Sizes,       \* the sizes programs ask for (bounds the model)
  FillsAtOnce  \* programs write all they asked for before anything else happens

OverheadSize == 72
MinDataSize == OverheadSize
Signature == -1
Free == 0
Use == 1

ASSUME HeapAssumption ==
  /\ Sizes \subseteq Nat
  /\ FillsAtOnce \in BOOLEAN

VARIABLES
  e820,    \* self->e820: the parts of memory to give out, <<start, length>>
  mem,     \* the allocator's words, by address
  live,    \* what programs hold: the size asked for, rounded up, by block address
  refused, \* the size that the last call was refused, or 0
  misled   \* a free has taken a block in use for a free one (see Misleads)

heapVars == <<e820, mem, live, refused, misled>>

-----------------------------------------------------------------------------
(* U.c, Lv0.c and Envelop.c                                                *)

AlignSize(n) == ((n + 7) \div 8) * 8
AlignLow(n) == (n \div 8) * 8

Put(f, x, v) == [y \in DOMAIN f \cup {x} |-> IF y = x THEN v ELSE f[y]]

Read(m, a) == IF a \in DOMAIN m THEN m[a] ELSE 0

\* A block whose signature is not there is given the dummy memory, which reads as 0 and
\* forgets what is written to it.
Genuine(m, b) == b # 0 /\ Read(m, b + 8) = Signature
Field(m, b, offset) == IF Genuine(m, b) THEN Read(m, b + offset) ELSE 0
Set(m, b, offset, v) == IF Genuine(m, b) THEN Put(m, b + offset, v) ELSE m

TotalSize(m, b) == Field(m, b, 0)
PrevPos(m, b) == Field(m, b, 16)
NextPos(m, b) == Field(m, b, 24)
Type(m, b) == Field(m, b, 32)
MaxDataLen(m, b) == Field(m, b, 40)
CurrentDataLen(m, b) == Field(m, b, 56) - Field(m, b, 48)

\* A plausible bug: the last word of the block keeps the old size.
SetSizeHeadOnly(m, b, n) == Set(Set(m, b, 0, n), b, 40, n - OverheadSize)

SetSize(m, b, n) == Set(Set(Set(m, b, 0, n), b, n - 8, n), b, 40, n - OverheadSize)

Format0(m, b, len, prev, next) ==
  LET head == <<len, Signature, prev, next, Free, len - OverheadSize, 0, 0>>
      words == [a \in DOMAIN m \cup {b + 8 * k : k \in 0 .. 7} |->
                  IF a \in {b + 8 * k : k \in 0 .. 7} THEN head[(a - b) \div 8 + 1] ELSE m[a]]
  IN  Put(words, b + len - 8, len)

SlotStart(i) == IF i \in DOMAIN e820 THEN e820[i][1] ELSE 0

\* Lv0's firstStart: format takes it from the first slot, and nothing changes it later.
firstStart == SlotStart(1)

\* A program writes n bytes of the data area of block b.
Overwrite(m, b, n) ==
  [a \in {x \in DOMAIN m : x < b + 64 \/ x >= b + 64 + n} |-> m[a]]

Given(m, b, n) == IF FillsAtOnce THEN Overwrite(m, b, n) ELSE m

Forget(b) == [x \in DOMAIN live \ {b} |-> live[x]]

-----------------------------------------------------------------------------
(* alloc                                                                   *)

DoUse(m, b, n) == Set(Set(Set(m, b, 32, Use), b, 48, 0), b, 56, n)

\* The block that followed b keeps b as its previous block.
DoDivide(m, b, rest) ==
  LET p2 == b + TotalSize(m, b) - rest
      m1 == SetSize(m, b, TotalSize(m, b) - rest)
  IN  Set(Format0(m1, p2, rest, b, NextPos(m1, b)), b, 24, p2)

\* The walk over the list, one block on.
Longer(m, s) ==
  LET p == IF s = <<>> THEN firstStart ELSE NextPos(m, s[Len(s)])
  IN  IF p = 0 THEN s ELSE Append(s, p)

\* The blocks on the list, in its order.  While no free has been misled, each has its signature
\* and none is on the list twice, so there are no more blocks than signatures.
List(m) ==
  LET signatures == Cardinality({a \in DOMAIN m : m[a] = Signature})
      Upto[k \in 0 .. signatures] == IF k = 0 THEN <<>> ELSE Longer(m, Upto[k - 1])
  IN  Upto[signatures]

\* A plausible bug: a block that fits exactly is passed over.
FirstFitStrict(m, n) ==
  LET list == List(m)
      fits == {k \in DOMAIN list : Type(m, list[k]) = Free /\ MaxDataLen(m, list[k]) > n}
  IN  IF fits = {} THEN 0 ELSE list[Min(fits)]

\* First fit: the first block of the list that is free and large enough, or 0.
FirstFit(m, n) ==
  LET list == List(m)
      fits == {k \in DOMAIN list : Type(m, list[k]) = Free /\ MaxDataLen(m, list[k]) >= n}
  IN  IF fits = {} THEN 0 ELSE list[Min(fits)]

\* What alloc writes once it has found block b for n bytes.
Occupied(m, b, n) ==
  LET rest == AlignLow(MaxDataLen(m, b) - n)
  IN  DoUse(IF rest >= OverheadSize + MinDataSize THEN DoDivide(m, b, rest) ELSE m, b, n)

Alloc(size) ==
  LET n == AlignSize(size)
      b == FirstFit(mem, n)
  IN  /\ refused' = IF b = 0 THEN n ELSE 0
      /\ IF b = 0
           THEN UNCHANGED <<mem, live>>
           ELSE /\ mem' = Given(Occupied(mem, b, n), b, n)
                /\ live' = Put(live, b, n)
      /\ UNCHANGED <<e820, misled>>

-----------------------------------------------------------------------------
(* free                                                                    *)

CanMergePrev(m, p1) ==
  LET p2 == PrevPos(m, p1)
  IN  p2 # 0 /\ Type(m, p2) = Free /\ p2 + TotalSize(m, p2) = p1

CanMergeNext(m, p1) ==
  LET p2 == NextPos(m, p1)
  IN  p2 # 0 /\ Type(m, p2) = Free /\ p1 + TotalSize(m, p1) = p2

\* setSize, setType and setNextPos of the merged block.
Merged(m, b, size, next) == Set(Set(SetSize(m, b, size), b, 32, Free), b, 24, next)

DoMergeNext(m, p1) ==
  LET p2 == p1 + TotalSize(m, p1)
  IN  Merged(m, p1, TotalSize(m, p1) + TotalSize(m, p2), NextPos(m, p2))

\* The previous block is found by the word before p1, not by the pointer that was tested.
DoMergePrev(m, p1) ==
  LET prevSize == Read(m, p1 - 8)
  IN  Merged(m, p1 - prevSize, TotalSize(m, p1) + prevSize, NextPos(m, p1))

DoMergeBoth(m, p1) ==
  LET p3 == p1 + TotalSize(m, p1)
      prevSize == Read(m, p1 - 8)
  IN  Merged(m, p1 - prevSize, TotalSize(m, p1) + Read(m, p3) + prevSize, NextPos(m, p3))

\* A plausible bug: when both neighbours are free, only the previous one is merged.
FreedOneSide(m, p1) ==
  IF CanMergePrev(m, p1) THEN DoMergePrev(m, p1)
  ELSE IF CanMergeNext(m, p1) THEN DoMergeNext(m, p1)
  ELSE Set(m, p1, 32, Free)

Freed(m, p1) ==
  IF CanMergePrev(m, p1) /\ CanMergeNext(m, p1) THEN DoMergeBoth(m, p1)
  ELSE IF CanMergePrev(m, p1) THEN DoMergePrev(m, p1)
  ELSE IF CanMergeNext(m, p1) THEN DoMergeNext(m, p1)
  ELSE Set(m, p1, 32, Free)

\* The pointer that canMergePrev follows leads to what was once the block before b, and still
\* says free; the block that is now before b is in use, and is the one that will be merged.
Misleads(m, b) == CanMergePrev(m, b) /\ Type(m, b - Read(m, b - 8)) = Use

FreeBlock(b) ==
  /\ b \in DOMAIN live
  /\ mem' = Freed(mem, b)
  /\ live' = Forget(b)
  /\ refused' = 0
  /\ misled' = (misled \/ Misleads(mem, b))
  /\ UNCHANGED e820

-----------------------------------------------------------------------------
(* enlarge                                                                 *)

CopyRange(m, from, to, n) ==
  LET kept == {a \in DOMAIN m : a < to \/ a >= to + n}
      moved == {a - from + to : a \in {x \in DOMAIN m : from <= x /\ x < from + n}}
  IN  [a \in kept \cup moved |-> IF a \in moved THEN m[a - to + from] ELSE m[a]]

\* Numbered as in the code: 2 in place, 3 by taking the free block that follows, 4 by moving.
EnlargeInPlace(b, n) ==
  /\ n > CurrentDataLen(mem, b)
  /\ n <= MaxDataLen(mem, b)
  /\ mem' = Given(Set(mem, b, 56, n), b, n)
  /\ live' = [live EXCEPT ![b] = n]
  /\ refused' = 0
  /\ UNCHANGED <<e820, misled>>

\* A plausible bug: the type of the next block is not looked at.
NextCanBeTakenBlindly(b, n) ==
  LET p1s == b + TotalSize(mem, b)
  IN  /\ p1s = NextPos(mem, b)
      /\ MaxDataLen(mem, b) + MaxDataLen(mem, p1s) >= n

NextCanBeTaken(b, n) ==
  LET p1s == b + TotalSize(mem, b)
  IN  /\ p1s = NextPos(mem, b)
      /\ Type(mem, p1s) = Free
      /\ MaxDataLen(mem, b) + MaxDataLen(mem, p1s) >= n

\* What enlarge writes when it takes the next block, and gives back the rest of it.
Extended(m, b, n) ==
  LET p1s == b + TotalSize(m, b)
      m1 == SetSize(m, b, TotalSize(m, b) + TotalSize(m, p1s))
      m2 == Set(Set(m1, b, 24, NextPos(m1, p1s)), b, 56, n)
      rest == MaxDataLen(m2, b) - n
  IN  IF rest >= MinDataSize + OverheadSize THEN DoDivide(m2, b, rest) ELSE m2

EnlargeToNext(b, n) ==
  /\ n > MaxDataLen(mem, b)
  /\ NextCanBeTaken(b, n)
  /\ mem' = Given(Extended(mem, b, n), b, n)
  /\ live' = [live EXCEPT ![b] = n]
  /\ refused' = 0
  /\ UNCHANGED <<e820, misled>>

EnlargeByMoving(b, n) ==
  /\ n > MaxDataLen(mem, b)
  /\ ~ NextCanBeTaken(b, n)
  /\ LET p2 == FirstFit(mem, n)
         copied == CopyRange(Occupied(mem, p2, n), b + 64, p2 + 64, CurrentDataLen(mem, b))
     IN  /\ refused' = IF p2 = 0 THEN n ELSE 0
         /\ IF p2 = 0
              THEN UNCHANGED <<mem, live, misled>>
              ELSE /\ misled' = (misled \/ Misleads(copied, b))
                   /\ mem' = Given(Freed(copied, b), p2, n)
                   /\ live' = Put(Forget(b), p2, n)
         /\ UNCHANGED e820

\* 1: no need to enlarge.
EnlargeNot(b, n) ==
  /\ n <= CurrentDataLen(mem, b)
  /\ refused' = 0
  /\ UNCHANGED <<e820, mem, live, misled>>

Enlarge(b, size) ==
  LET n == AlignSize(size)
  IN  /\ b \in DOMAIN live
      /\ EnlargeNot(b, n) \/ EnlargeInPlace(b, n) \/ EnlargeToNext(b, n)
           \/ EnlargeByMoving(b, n)

\* A program writes what it was given.
Fill(b) ==
  /\ b \in DOMAIN live
  /\ mem' = Overwrite(mem, b, live[b])
  /\ mem' # mem
  /\ refused' = 0
  /\ UNCHANGED <<e820, live, misled>>

-----------------------------------------------------------------------------
(* Programs call the three functions with what they hold, in any order.     *)

HeapNext ==
  \/ \E size \in Sizes : Alloc(size)
  \/ \E b \in DOMAIN live : FreeBlock(b)
  \/ \E b \in DOMAIN live, size \in Sizes : Enlarge(b, size)
  \/ \E b \in DOMAIN live : Fill(b)

-----------------------------------------------------------------------------
(* Properties                                                              *)

Blocks == List(mem)

OnList == LET list == Blocks IN {list[i] : i \in DOMAIN list}

\* The README: "a alloc/free/realloc implement".  What a program holds is its own: no byte of
\* it is part of a block that alloc can give to another.
HeldIsNotFree ==
  \A b \in DOMAIN live, f \in OnList :
    Type(mem, f) = Free => b + 64 + live[b] <= f \/ f + TotalSize(mem, f) <= b + 64

\* Unless a free was misled, every block a program holds is on the list, in use, and large
\* enough, and no other is in use: with BlocksTile, nothing overlaps and nothing leaks.
HeldIsInUse ==
  ~ misled =>
    /\ \A b \in DOMAIN live : /\ b \in OnList
                              /\ Type(mem, b) = Use
                              /\ live[b] = CurrentDataLen(mem, b)
                              /\ live[b] <= MaxDataLen(mem, b)
    /\ \A b \in OnList : Type(mem, b) = Use => b \in DOMAIN live

\* What format asks of the slots.
SlotsLargeEnough == \A i \in DOMAIN e820 : e820[i][2] >= MinDataSize + OverheadSize

\* Unless a free was misled, the blocks of the list lie one after the other over each slot,
\* without gap or overlap, and the last word of each says the same as its first.
BlocksTile ==
  ~ misled /\ SlotsLargeEnough =>
    /\ \A i \in DOMAIN e820 : e820[i][1] \in OnList
    /\ \A b \in OnList :
         LET end == b + TotalSize(mem, b)
         IN  /\ Genuine(mem, b)
             /\ TotalSize(mem, b) = MaxDataLen(mem, b) + OverheadSize
             /\ Read(mem, end - 8) = TotalSize(mem, b)
             /\ \/ NextPos(mem, b) = end
                \/ \E i \in DOMAIN e820 :
                     /\ end = e820[i][1] + e820[i][2]
                     /\ NextPos(mem, b) = SlotStart(i + 1)

\* alloc, and enlarge through it, answer 0 only if no free block is large enough, and then
\* nothing has changed: the program still has what it wanted to enlarge.
FailsOnlyWhenFull ==
  [][~ misled /\ refused' # 0 =>
       /\ UNCHANGED <<mem, live>>
       /\ \A f \in OnList : Type(mem, f) = Free => MaxDataLen(mem, f) < refused']_heapVars

\* Where the model stops: nothing is promised after a free that was misled.
NotMisled == ~ misled
=============================================================================
