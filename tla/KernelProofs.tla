----------------------------- MODULE KernelProofs -----------------------------
(***************************************************************************)
(* Theorems about two parts of the kernel that have no state in common.    *)
(* The SMP workload queue, for any number of cores, any workloads and any  *)
(* ring size: the lock excludes, the ring is consistent, and it implements *)
(* a FIFO.  The interrupt handlers that rewrite the stack, for any number  *)
(* of callbacks under way: what they interrupt is kept, and resumed as it  *)
(* was.                                                                    *)
(***************************************************************************)
EXTENDS SmpQueue, IrqFrame, Numbers, SequenceTheorems, TLAPS

-----------------------------------------------------------------------------
(* The workload queue                                                      *)

\* What a core knows of the queue while it holds the lock, by where it is.
HolderKnows ==
  /\ \A c \in Cores : pc[c] \in {"enq_store", "enq_len"} => os_QueueLen < cpuqueuemax
  /\ \A c \in Cores : pc[c] \in {"deq_load", "deq_len"} => os_QueueLen > 0
  /\ \A c \in Cores : pc[c] = "enq_len" => cpuqueue[cpuqueuefinish] = item[c]
  /\ \A c \in Cores : pc[c] = "deq_len" => item[c] = cpuqueue[cpuqueuestart]

\* The core that calls has a workload in its registers, one that looks for work has none.
ItemKnown ==
  \A c \in Cores :
    pc[c] \in {"idle", "deq_spin", "deq_bts", "deq_check", "deq_load", "deq_fail"}
      => item[c] = NoWork

QueueInv ==
  /\ QueueTypeOK
  /\ QueueMutex
  /\ RingConsistent
  /\ HolderKnows
  /\ ItemKnown

-----------------------------------------------------------------------------
\* A cursor that is moved stays in the ring, and moving it twice is moving by two: the
\* arithmetic behind every cursor, without a division.
LEMMA WrapInRing ==
  ASSUME NEW i \in Nat, i < 2 * cpuqueuemax
  PROVE  Wrap(i) \in Slots
BY QueueAssumption DEF Wrap, Slots

LEMMA WrapShift ==
  ASSUME NEW s \in Slots, NEW k \in 0 .. cpuqueuemax - 1
  PROVE  Wrap(Wrap(s + 1) + k) = Wrap(s + (k + 1))
BY QueueAssumption DEF Wrap, Slots

\* Two entries at different distances from the start are different entries.
LEMMA WrapInjective ==
  ASSUME NEW s \in Slots, NEW j \in 0 .. cpuqueuemax - 1, NEW k \in 0 .. cpuqueuemax - 1,
         Wrap(s + j) = Wrap(s + k)
  PROVE  j = k
BY QueueAssumption DEF Wrap, Slots

-----------------------------------------------------------------------------
LEMMA InitInv == QueueInit => QueueInv
<1>1. SUFFICES ASSUME QueueInit PROVE QueueInv
  OBVIOUS
<1>2. 0 \in Slots /\ Wrap(0 + 0) = 0
  BY QueueAssumption DEF Slots, Wrap
<1>3. QueueTypeOK
  <2>1. os_QueueLen \in 0 .. cpuqueuemax
    BY <1>1, QueueAssumption DEF QueueInit
  <2>2. pc \in [Cores -> Locations]
    BY <1>1 DEF QueueInit, Locations
  <2>3. QED
    BY <1>1, <1>2, <2>1, <2>2 DEF QueueInit, QueueTypeOK
<1>4. QueueMutex
  BY <1>1 DEF QueueInit, QueueMutex, Holding
<1>5. RingConsistent
  BY <1>1, <1>2 DEF QueueInit, RingConsistent, EffStart, EffFinish
<1>6. HolderKnows /\ ItemKnown
  BY <1>1 DEF QueueInit, HolderKnows, ItemKnown
<1>7. QED
  BY <1>3, <1>4, <1>5, <1>6 DEF QueueInv

-----------------------------------------------------------------------------
(* A step preserves the invariant: one lemma for each of its parts.        *)

LEMMA TypeStep == QueueInv /\ [QueueNext]_queueVars => QueueTypeOK'
<1> SUFFICES ASSUME QueueInv, [QueueNext]_queueVars PROVE QueueTypeOK'
  OBVIOUS
<1> USE DEF QueueInv, QueueTypeOK, Locations, Holding, Goto
<1>1. CASE UNCHANGED queueVars
  BY <1>1 DEF queueVars
<1>2. ASSUME NEW c \in Cores, NEW w \in Work, CallEnqueue(c, w) PROVE QueueTypeOK'
  BY <1>2 DEF CallEnqueue
<1>3. ASSUME NEW c \in Cores, CallDequeue(c) \/ Return(c) PROVE QueueTypeOK'
  BY <1>3 DEF CallDequeue, Return
<1>4. ASSUME NEW c \in Cores, EnqTest(c) \/ EnqGrab(c) \/ DeqTest(c) \/ DeqGrab(c)
      PROVE  QueueTypeOK'
  BY <1>4 DEF EnqTest, EnqGrab, DeqTest, DeqGrab, TestLock, GrabLock
<1>5. ASSUME NEW c \in Cores, EnqCheck(c) \/ DeqCheck(c) \/ EnqWakeup(c) PROVE QueueTypeOK'
  BY <1>5 DEF EnqCheck, DeqCheck, EnqWakeup
<1>6. ASSUME NEW c \in Cores, EnqStore(c) \/ DeqLoad(c) PROVE QueueTypeOK'
  BY <1>6 DEF EnqStore, DeqLoad
<1>7. ASSUME NEW c \in Cores, EnqLen(c) \/ DeqLen(c) PROVE QueueTypeOK'
  BY <1>7, QueueAssumption DEF EnqLen, DeqLen, HolderKnows
<1>8. ASSUME NEW c \in Cores, EnqFinish(c) \/ DeqStart(c) PROVE QueueTypeOK'
  <2>1. \A i \in Slots : Wrap(i + 1) \in Slots
    BY QueueAssumption DEF Wrap, Slots
  <2>2. QED
    BY <1>8, <2>1 DEF EnqFinish, DeqStart
<1>9. ASSUME NEW c \in Cores, EnqRelease(c) \/ EnqFail(c) \/ DeqRelease(c) \/ DeqFail(c)
      PROVE  QueueTypeOK'
  BY <1>9 DEF EnqRelease, EnqFail, DeqRelease, DeqFail, ReleaseLock
<1>10. QED
  BY <1>1, <1>2, <1>3, <1>4, <1>5, <1>6, <1>7, <1>8, <1>9
     DEF QueueNext, QueueStep, EnqStep, DeqStep

LEMMA MutexStep == QueueInv /\ [QueueNext]_queueVars => QueueMutex'
<1> SUFFICES ASSUME QueueInv, [QueueNext]_queueVars PROVE QueueMutex'
  OBVIOUS
<1> USE DEF QueueInv, QueueTypeOK, QueueMutex, Locations, Holding, Goto
<1>1. CASE UNCHANGED queueVars
  BY <1>1 DEF queueVars
<1>2. ASSUME NEW c \in Cores, NEW w \in Work, CallEnqueue(c, w) PROVE QueueMutex'
  BY <1>2 DEF CallEnqueue
<1>3. ASSUME NEW c \in Cores, CallDequeue(c) \/ Return(c) PROVE QueueMutex'
  BY <1>3 DEF CallDequeue, Return
<1>4. ASSUME NEW c \in Cores, EnqTest(c) \/ DeqTest(c) PROVE QueueMutex'
  BY <1>4 DEF EnqTest, DeqTest, TestLock
<1>5. ASSUME NEW c \in Cores, EnqGrab(c) \/ DeqGrab(c) PROVE QueueMutex'
  BY <1>5 DEF EnqGrab, DeqGrab, GrabLock
<1>6. ASSUME NEW c \in Cores, EnqCheck(c) \/ DeqCheck(c) \/ EnqWakeup(c) PROVE QueueMutex'
  BY <1>6 DEF EnqCheck, DeqCheck, EnqWakeup
<1>7. ASSUME NEW c \in Cores, EnqStore(c) \/ DeqLoad(c) \/ EnqLen(c) \/ DeqLen(c)
      PROVE  QueueMutex'
  BY <1>7 DEF EnqStore, DeqLoad, EnqLen, DeqLen
<1>8. ASSUME NEW c \in Cores, EnqFinish(c) \/ DeqStart(c) PROVE QueueMutex'
  BY <1>8 DEF EnqFinish, DeqStart
<1>9. ASSUME NEW c \in Cores, EnqRelease(c) \/ EnqFail(c) \/ DeqRelease(c) \/ DeqFail(c)
      PROVE  QueueMutex'
  BY <1>9 DEF EnqRelease, EnqFail, DeqRelease, DeqFail, ReleaseLock
<1>10. QED
  BY <1>1, <1>2, <1>3, <1>4, <1>5, <1>6, <1>7, <1>8, <1>9
     DEF QueueNext, QueueStep, EnqStep, DeqStep


\* The two moments the length and a cursor differ belong to one core, the holder: where no
\* core is at them the cursors are what they seem.
LEMMA RingStep == QueueInv /\ [QueueNext]_queueVars => RingConsistent'
<1> SUFFICES ASSUME QueueInv, [QueueNext]_queueVars PROVE RingConsistent'
  OBVIOUS
<1> USE DEF QueueInv, QueueTypeOK, Holding, Goto
<1> DEFINE AtStart == \E c \in Cores : pc[c] = "deq_start"
           AtFinish == \E c \in Cores : pc[c] = "enq_finish"
\* A step that moves no cursor, changes no length and leaves those two moments alone.
<1>0. ASSUME UNCHANGED <<os_QueueLen, cpuqueuestart, cpuqueuefinish>>,
             AtStart' <=> AtStart, AtFinish' <=> AtFinish
      PROVE  RingConsistent'
  BY <1>0 DEF RingConsistent, EffStart, EffFinish, Wrap
<1>1. CASE UNCHANGED queueVars
  BY <1>1, <1>0 DEF queueVars
<1>2. ASSUME NEW c \in Cores, NEW w \in Work, CallEnqueue(c, w) PROVE RingConsistent'
  BY <1>2, <1>0 DEF CallEnqueue
<1>3. ASSUME NEW c \in Cores, CallDequeue(c) \/ Return(c) PROVE RingConsistent'
  BY <1>3, <1>0 DEF CallDequeue, Return
<1>4. ASSUME NEW c \in Cores, EnqTest(c) \/ EnqGrab(c) \/ DeqTest(c) \/ DeqGrab(c)
      PROVE  RingConsistent'
  BY <1>4, <1>0 DEF EnqTest, EnqGrab, DeqTest, DeqGrab, TestLock, GrabLock
<1>5. ASSUME NEW c \in Cores, EnqCheck(c) \/ DeqCheck(c) \/ EnqWakeup(c)
      PROVE  RingConsistent'
  BY <1>5, <1>0 DEF EnqCheck, DeqCheck, EnqWakeup
<1>6. ASSUME NEW c \in Cores, EnqStore(c) \/ DeqLoad(c) PROVE RingConsistent'
  BY <1>6, <1>0 DEF EnqStore, DeqLoad
<1>7. ASSUME NEW c \in Cores, EnqRelease(c) \/ EnqFail(c) \/ DeqRelease(c) \/ DeqFail(c)
      PROVE  RingConsistent'
  BY <1>7, <1>0 DEF EnqRelease, EnqFail, DeqRelease, DeqFail, ReleaseLock
<1>8. ASSUME NEW c \in Cores, EnqLen(c) PROVE RingConsistent'
  <2>1. ~AtStart /\ ~AtFinish /\ ~AtStart' /\ AtFinish'
    BY <1>8 DEF EnqLen, QueueMutex
  <2>2. cpuqueuefinish = Wrap(cpuqueuestart + os_QueueLen)
    BY <2>1 DEF RingConsistent, EffStart, EffFinish
  <2>3. os_QueueLen < cpuqueuemax /\ os_QueueLen' = os_QueueLen + 1
    BY <1>8 DEF EnqLen, HolderKnows
  <2>4. Wrap(cpuqueuefinish + 1) = Wrap(cpuqueuestart + (os_QueueLen + 1))
    BY <2>2, <2>3, QueueAssumption DEF Wrap, Slots
  <2>5. UNCHANGED <<cpuqueuestart, cpuqueuefinish>>
    BY <1>8 DEF EnqLen
  <2>6. QED
    BY <2>1, <2>3, <2>4, <2>5 DEF RingConsistent, EffStart, EffFinish, Wrap
<1>9. ASSUME NEW c \in Cores, DeqLen(c) PROVE RingConsistent'
  <2>1. ~AtStart /\ ~AtFinish /\ AtStart' /\ ~AtFinish'
    BY <1>9 DEF DeqLen, QueueMutex
  <2>2. cpuqueuefinish = Wrap(cpuqueuestart + os_QueueLen)
    BY <2>1 DEF RingConsistent, EffStart, EffFinish
  <2>3. os_QueueLen > 0 /\ os_QueueLen' = os_QueueLen - 1
    BY <1>9 DEF DeqLen, HolderKnows
  <2>4. Wrap(Wrap(cpuqueuestart + 1) + (os_QueueLen - 1)) = Wrap(cpuqueuestart + os_QueueLen)
    BY <2>3, QueueAssumption DEF Wrap, Slots
  <2>5. UNCHANGED <<cpuqueuestart, cpuqueuefinish>>
    BY <1>9 DEF DeqLen
  <2>6. QED
    BY <2>1, <2>2, <2>3, <2>4, <2>5 DEF RingConsistent, EffStart, EffFinish, Wrap
<1>10. ASSUME NEW c \in Cores, EnqFinish(c) PROVE RingConsistent'
  <2>1. ~AtStart /\ AtFinish /\ ~AtStart' /\ ~AtFinish'
    BY <1>10 DEF EnqFinish, QueueMutex
  <2>2. /\ cpuqueuefinish' = Wrap(cpuqueuefinish + 1)
        /\ UNCHANGED <<cpuqueuestart, os_QueueLen>>
    BY <1>10 DEF EnqFinish
  <2>3. QED
    BY <2>1, <2>2 DEF RingConsistent, EffStart, EffFinish, Wrap
<1>11. ASSUME NEW c \in Cores, DeqStart(c) PROVE RingConsistent'
  <2>1. AtStart /\ ~AtFinish /\ ~AtStart' /\ ~AtFinish'
    BY <1>11 DEF DeqStart, QueueMutex
  <2>2. /\ cpuqueuestart' = Wrap(cpuqueuestart + 1)
        /\ UNCHANGED <<cpuqueuefinish, os_QueueLen>>
    BY <1>11 DEF DeqStart
  <2>3. QED
    BY <2>1, <2>2 DEF RingConsistent, EffStart, EffFinish, Wrap
<1>12. QED
  BY <1>1, <1>2, <1>3, <1>4, <1>5, <1>6, <1>7, <1>8, <1>9, <1>10, <1>11
     DEF QueueNext, QueueStep, EnqStep, DeqStep

LEMMA HolderStep == QueueInv /\ [QueueNext]_queueVars => HolderKnows' /\ ItemKnown'
<1> SUFFICES ASSUME QueueInv, [QueueNext]_queueVars PROVE HolderKnows' /\ ItemKnown'
  OBVIOUS
<1> USE DEF QueueInv, QueueTypeOK, HolderKnows, ItemKnown, Holding, Goto
<1>1. CASE UNCHANGED queueVars
  BY <1>1 DEF queueVars
<1>2. ASSUME NEW c \in Cores, NEW w \in Work, CallEnqueue(c, w)
      PROVE  HolderKnows' /\ ItemKnown'
  BY <1>2 DEF CallEnqueue
<1>3. ASSUME NEW c \in Cores, CallDequeue(c) \/ Return(c) PROVE HolderKnows' /\ ItemKnown'
  BY <1>3 DEF CallDequeue, Return
<1>4. ASSUME NEW c \in Cores, EnqTest(c) \/ EnqGrab(c) \/ DeqTest(c) \/ DeqGrab(c)
      PROVE  HolderKnows' /\ ItemKnown'
  BY <1>4 DEF EnqTest, EnqGrab, DeqTest, DeqGrab, TestLock, GrabLock
<1>5. ASSUME NEW c \in Cores, EnqCheck(c) \/ DeqCheck(c) \/ EnqWakeup(c)
      PROVE  HolderKnows' /\ ItemKnown'
  BY <1>5, QueueAssumption DEF EnqCheck, DeqCheck, EnqWakeup
<1>6. ASSUME NEW c \in Cores, EnqStore(c) \/ DeqLoad(c) PROVE HolderKnows' /\ ItemKnown'
  <2>1. \A d \in Cores \ {c} : pc[d] \notin Holding
    BY <1>6 DEF EnqStore, DeqLoad, QueueMutex
  <2>2. QED
    BY <1>6, <2>1 DEF EnqStore, DeqLoad
<1>7. ASSUME NEW c \in Cores, EnqLen(c) \/ DeqLen(c) PROVE HolderKnows' /\ ItemKnown'
  <2>1. \A d \in Cores \ {c} : pc[d] \notin Holding
    BY <1>7 DEF EnqLen, DeqLen, QueueMutex
  <2>2. QED
    BY <1>7, <2>1 DEF EnqLen, DeqLen
<1>8. ASSUME NEW c \in Cores, EnqFinish(c) \/ DeqStart(c) PROVE HolderKnows' /\ ItemKnown'
  <2>1. \A d \in Cores \ {c} : pc[d] \notin Holding
    BY <1>8 DEF EnqFinish, DeqStart, QueueMutex
  <2>2. QED
    BY <1>8, <2>1 DEF EnqFinish, DeqStart
<1>9. ASSUME NEW c \in Cores, EnqRelease(c) \/ EnqFail(c) \/ DeqRelease(c) \/ DeqFail(c)
      PROVE  HolderKnows' /\ ItemKnown'
  BY <1>9 DEF EnqRelease, EnqFail, DeqRelease, DeqFail, ReleaseLock
<1>10. QED
  BY <1>1, <1>2, <1>3, <1>4, <1>5, <1>6, <1>7, <1>8, <1>9
     DEF QueueNext, QueueStep, EnqStep, DeqStep

-----------------------------------------------------------------------------
LEMMA QueueInvariant == QueueSpec => []QueueInv
<1>1. QueueInv /\ [QueueNext]_queueVars => QueueInv'
  BY TypeStep, MutexStep, RingStep, HolderStep DEF QueueInv
<1>2. QED
  BY InitInv, <1>1, PTL DEF QueueSpec

\* No interleaving of enqueues and dequeues takes a cursor out of the ring or the length
\* past its ends (bmos/syscalls/smp.asm:112-133 and 169-192).
THEOREM QueueTypeCorrect == QueueSpec => []QueueTypeOK
BY QueueInvariant, PTL DEF QueueInv

\* The bt / lock bts loop of os_smp_enqueue and os_smp_dequeue, with its unlocked btr, is a
\* lock (smp.asm:106-110, 138, 148, 195, 203).
THEOREM QueueLockExcludes == QueueSpec => []QueueMutex
BY QueueInvariant, PTL DEF QueueInv

\* Length and cursors never disagree, so a full ring is never taken for an empty one.
THEOREM QueueRingConsistent == QueueSpec => []RingConsistent
BY QueueInvariant, PTL DEF QueueInv


-----------------------------------------------------------------------------
(* The ring implements the FIFO of WorkFifo.                               *)

LEMMA FifoInit == QueueInit => Fifo!Init
<1> SUFFICES ASSUME QueueInit PROVE Fifo!Init
  OBVIOUS
<1>1. AbsFifo = <<>>
  BY DEF QueueInit, AbsFifo
<1>2. AbsPhase = [c \in Cores |-> "idle"]
  BY DEF QueueInit, AbsPhase
<1>3. AbsItem = [c \in Cores |-> NoWork]
  BY DEF QueueInit, AbsItem
<1>4. QED
  BY <1>1, <1>2, <1>3 DEF Fifo!Init

\* AbsFifo is a sequence of the length the code keeps.
LEMMA FifoIsSeq ==
  ASSUME QueueInv
  PROVE  /\ EffStart \in Slots
         /\ AbsFifo \in Seq(Work \cup {NoWork})
         /\ Len(AbsFifo) = os_QueueLen
         /\ \A i \in 1 .. os_QueueLen : AbsFifo[i] = cpuqueue[Wrap(EffStart + (i - 1))]
<1> USE DEF QueueInv, QueueTypeOK
<1>1. EffStart \in Slots
  BY QueueAssumption DEF EffStart, Wrap, Slots
<1>2. os_QueueLen \in Nat
  BY QueueAssumption
<1>3. ASSUME NEW i \in 1 .. os_QueueLen
      PROVE  Wrap(EffStart + (i - 1)) \in Slots
  BY <1>1, QueueAssumption DEF Wrap, Slots
<1>4. AbsFifo \in [1 .. os_QueueLen -> Work \cup {NoWork}]
  BY <1>3 DEF AbsFifo
<1>5. QED
  BY <1>1, <1>2, <1>4 DEF AbsFifo

\* Where neither the length nor the place of the first entry nor an entry in use changes,
\* the abstract FIFO is the same.
LEMMA FifoSame ==
  ASSUME QueueInv, os_QueueLen' = os_QueueLen, EffStart' = EffStart,
         \A i \in 1 .. os_QueueLen :
           cpuqueue'[Wrap(EffStart + (i - 1))] = cpuqueue[Wrap(EffStart + (i - 1))]
  PROVE  AbsFifo' = AbsFifo
BY DEF AbsFifo, Wrap

\* The length grows: the entry that was filled last is the new last one.
LEMMA FifoAppends ==
  ASSUME QueueInv, QueueInv', NEW c \in Cores, EnqLen(c)
  PROVE  AbsFifo' = Append(AbsFifo, item[c])
<1> USE DEF QueueInv, QueueTypeOK, Holding, Goto
<1>1. EffStart' = EffStart
  BY DEF EnqLen, EffStart, QueueMutex, Wrap
<1>2. item[c] = cpuqueue[Wrap(EffStart + os_QueueLen)]
  <2>1. ~\E d \in Cores : pc[d] = "enq_finish"
    BY DEF EnqLen, QueueMutex
  <2>2. QED
    BY <2>1 DEF EnqLen, HolderKnows, RingConsistent, EffFinish
<1>3. os_QueueLen' = os_QueueLen + 1 /\ cpuqueue' = cpuqueue
  BY DEF EnqLen
<1>4. Len(AbsFifo) = os_QueueLen /\ AbsFifo \in Seq(Work \cup {NoWork})
  BY FifoIsSeq
<1>5. AbsFifo' = [i \in 1 .. os_QueueLen + 1 |-> cpuqueue[Wrap(EffStart + (i - 1))]]
  BY <1>1, <1>3 DEF AbsFifo, Wrap
<1>6. Append(AbsFifo, item[c]) =
        [i \in 1 .. os_QueueLen + 1 |-> IF i <= os_QueueLen THEN AbsFifo[i] ELSE item[c]]
  BY <1>4
<1>7. ASSUME NEW i \in 1 .. os_QueueLen + 1
      PROVE  cpuqueue[Wrap(EffStart + (i - 1))]
               = IF i <= os_QueueLen THEN AbsFifo[i] ELSE item[c]
  BY <1>2, QueueAssumption DEF AbsFifo
<1>8. QED
  BY <1>5, <1>6, <1>7

\* The length shrinks: what is left is the tail, one slot further.
LEMMA FifoShrinks ==
  ASSUME QueueInv, QueueInv', NEW c \in Cores, DeqLen(c)
  PROVE  /\ AbsFifo # <<>>
         /\ item[c] = Head(AbsFifo)
         /\ AbsFifo' = Tail(AbsFifo)
<1> USE DEF QueueInv, QueueTypeOK, Holding, Goto
<1>1. EffStart = cpuqueuestart /\ EffStart' = Wrap(cpuqueuestart + 1)
  BY DEF DeqLen, EffStart, QueueMutex, Wrap
<1>2. os_QueueLen > 0 /\ item[c] = cpuqueue[cpuqueuestart]
  BY DEF DeqLen, HolderKnows
<1>3. os_QueueLen' = os_QueueLen - 1 /\ cpuqueue' = cpuqueue
  BY DEF DeqLen
<1>4. /\ Len(AbsFifo) = os_QueueLen
      /\ AbsFifo \in Seq(Work \cup {NoWork})
      /\ \A i \in 1 .. os_QueueLen : AbsFifo[i] = cpuqueue[Wrap(EffStart + (i - 1))]
  BY FifoIsSeq
<1>5. AbsFifo # <<>>
  BY <1>2, <1>4
<1>6. Wrap(cpuqueuestart + 0) = cpuqueuestart
  BY QueueAssumption DEF Wrap, Slots
<1>7. item[c] = Head(AbsFifo)
  BY <1>1, <1>2, <1>4, <1>6
<1>8. /\ Tail(AbsFifo) \in Seq(Work \cup {NoWork})
      /\ Len(Tail(AbsFifo)) = os_QueueLen - 1
      /\ \A i \in 1 .. os_QueueLen - 1 : Tail(AbsFifo)[i] = AbsFifo[i + 1]
  BY <1>4, <1>5, HeadTailProperties
<1>9. AbsFifo' = [i \in 1 .. os_QueueLen - 1 |->
                    cpuqueue[Wrap(Wrap(cpuqueuestart + 1) + (i - 1))]]
  BY <1>1, <1>3 DEF AbsFifo, Wrap
<1>10. ASSUME NEW i \in 1 .. os_QueueLen - 1
       PROVE  AbsFifo[i + 1] = cpuqueue[Wrap(Wrap(cpuqueuestart + 1) + (i - 1))]
  <2>1. i - 1 \in 0 .. cpuqueuemax - 1 /\ i + 1 \in 1 .. os_QueueLen
    BY QueueAssumption
  <2>2. Wrap(Wrap(cpuqueuestart + 1) + (i - 1)) = Wrap(cpuqueuestart + ((i - 1) + 1))
    BY <2>1, WrapShift
  <2>3. AbsFifo[i + 1] = cpuqueue[Wrap(cpuqueuestart + ((i + 1) - 1))]
    BY <1>1, <1>4, <2>1
  <2>4. (i - 1) + 1 = (i + 1) - 1
    OBVIOUS
  <2>5. QED
    BY <2>2, <2>3, <2>4
<1>11. AbsFifo' = Tail(AbsFifo)
  <2>1. Tail(AbsFifo) \in [1 .. os_QueueLen - 1 -> Work \cup {NoWork}]
    BY <1>8, LenProperties
  <2>2. \A i \in 1 .. os_QueueLen - 1 :
          Tail(AbsFifo)[i] = cpuqueue[Wrap(Wrap(cpuqueuestart + 1) + (i - 1))]
    BY <1>8, <1>10
  <2>3. QED
    BY <1>9, <2>1, <2>2
<1>12. QED
  BY <1>5, <1>7, <1>11

\* The slot that is filled is not in use.
LEMMA FifoUntouched ==
  ASSUME QueueInv, NEW c \in Cores, EnqStore(c)
  PROVE  AbsFifo' = AbsFifo
<1> USE DEF QueueInv, QueueTypeOK, Holding, Goto
<1>1. EffStart' = EffStart /\ os_QueueLen' = os_QueueLen /\ os_QueueLen < cpuqueuemax
  BY DEF EnqStore, EffStart, QueueMutex, HolderKnows, Wrap
<1>2. EffStart \in Slots
  BY FifoIsSeq
<1>3. cpuqueuefinish = Wrap(EffStart + os_QueueLen)
  <2>1. ~\E d \in Cores : pc[d] = "enq_finish"
    BY DEF EnqStore, QueueMutex
  <2>2. QED
    BY <2>1 DEF RingConsistent, EffFinish
<1>4. ASSUME NEW i \in 1 .. os_QueueLen
      PROVE  cpuqueue'[Wrap(EffStart + (i - 1))] = cpuqueue[Wrap(EffStart + (i - 1))]
  <2>1. i - 1 \in 0 .. cpuqueuemax - 1 /\ os_QueueLen \in 0 .. cpuqueuemax - 1
    BY <1>1, QueueAssumption
  <2>2. Wrap(EffStart + (i - 1)) # cpuqueuefinish
    BY <1>2, <1>3, <2>1, WrapInjective
  <2>3. Wrap(EffStart + (i - 1)) \in Slots
    BY <1>2, <2>1, QueueAssumption DEF Wrap, Slots
  <2>4. QED
    BY <2>2, <2>3 DEF EnqStore
<1>5. QED
  BY <1>1, <1>4, FifoSame

\* A step of one core from one place to another changes its phase alone.
LEMMA PhaseMoves ==
  ASSUME QueueTypeOK, NEW c \in Cores, NEW to, NEW x, pc' = [pc EXCEPT ![c] = to], AbsPhase'[c] = x
  PROVE  AbsPhase' = [AbsPhase EXCEPT ![c] = x]
<1> DEFINE Of(p) ==
      CASE p \in {"enq_spin", "enq_bts", "enq_check", "enq_store", "enq_len"} -> "enqueue"
        [] p \in {"deq_spin", "deq_bts", "deq_check", "deq_load", "deq_len"} -> "dequeue"
        [] p \in {"enq_finish", "enq_release", "enq_wakeup", "deq_start", "deq_release", "ret_ok"} -> "ok"
        [] p \in {"enq_fail", "deq_fail", "ret_fail"} -> "failed"
        [] OTHER -> "idle"
<1>1. AbsPhase = [d \in Cores |-> Of(pc[d])] /\ AbsPhase' = [d \in Cores |-> Of(pc'[d])]
  BY Zenon DEF AbsPhase
<1>2. ASSUME NEW d \in Cores, d # c PROVE pc'[d] = pc[d]
  BY <1>2 DEF QueueTypeOK
<1> HIDE DEF Of
<1> QED
  BY <1>1, <1>2

LEMMA FifoStep ==
  QueueInv /\ QueueInv' /\ [QueueNext]_queueVars => [Fifo!Next]_(Fifo!vars)
<1> SUFFICES ASSUME QueueInv, QueueInv', [QueueNext]_queueVars
             PROVE  [Fifo!Next]_(Fifo!vars)
  OBVIOUS
<1> USE DEF QueueInv, QueueTypeOK, Holding, Goto
\* A step with no cursor, length or entry in it, and not at the moments they differ.
<1>0. ASSUME UNCHANGED <<os_QueueLen, cpuqueuestart, cpuqueue>>,
             (\E c \in Cores : pc'[c] = "deq_start") <=> (\E c \in Cores : pc[c] = "deq_start")
      PROVE  AbsFifo' = AbsFifo
  BY <1>0 DEF AbsFifo, EffStart, Wrap
<1>1. CASE UNCHANGED queueVars
  <2>1. AbsFifo' = AbsFifo
    BY <1>0, <1>1 DEF queueVars
  <2>2. AbsPhase' = AbsPhase /\ AbsItem' = AbsItem
    BY <1>1 DEF queueVars, AbsPhase, AbsItem
  <2>3. QED
    BY <2>1, <2>2 DEF Fifo!vars
<1>2. ASSUME NEW c \in Cores, NEW w \in Work, CallEnqueue(c, w)
      PROVE  Fifo!CallEnqueue(c, w)
  <2>1. AbsFifo' = AbsFifo
    BY <1>0, <1>2 DEF CallEnqueue
  <2>2. AbsPhase[c] = "idle" /\ AbsPhase' = [AbsPhase EXCEPT ![c] = "enqueue"]
    <3>1. AbsPhase[c] = "idle" /\ pc' = [pc EXCEPT ![c] = "enq_spin"]
      BY <1>2 DEF CallEnqueue, AbsPhase
    <3>2. pc'[c] = "enq_spin"
      BY <3>1
    <3>3. AbsPhase'[c] = "enqueue"
      BY <3>2 DEF AbsPhase
    <3>4. QED
      BY <3>1, <3>3, PhaseMoves
  <2>3. AbsItem' = [AbsItem EXCEPT ![c] = w]
    BY <1>2 DEF CallEnqueue, AbsItem
  <2>4. QED
    BY <2>1, <2>2, <2>3 DEF Fifo!CallEnqueue, Fifo!Move
<1>3. ASSUME NEW c \in Cores, CallDequeue(c)
      PROVE  Fifo!CallDequeue(c)
  <2>1. AbsFifo' = AbsFifo
    BY <1>0, <1>3 DEF CallDequeue
  <2>2. AbsPhase[c] = "idle" /\ AbsPhase' = [AbsPhase EXCEPT ![c] = "dequeue"]
    <3>1. AbsPhase[c] = "idle" /\ pc' = [pc EXCEPT ![c] = "deq_spin"]
      BY <1>3 DEF CallDequeue, AbsPhase
    <3>2. pc'[c] = "deq_spin"
      BY <3>1
    <3>3. AbsPhase'[c] = "dequeue"
      BY <3>2 DEF AbsPhase
    <3>4. QED
      BY <3>1, <3>3, PhaseMoves
  <2>3. AbsItem' = AbsItem
    BY <1>3 DEF CallDequeue, AbsItem
  <2>4. QED
    BY <2>1, <2>2, <2>3 DEF Fifo!CallDequeue, Fifo!Move
<1>4. ASSUME NEW c \in Cores, Return(c)
      PROVE  Fifo!Return(c)
  <2>1. AbsFifo' = AbsFifo
    BY <1>0, <1>4 DEF Return
  <2>2. AbsPhase[c] \in {"ok", "failed"} /\ AbsPhase' = [AbsPhase EXCEPT ![c] = "idle"]
    <3>1. AbsPhase[c] \in {"ok", "failed"} /\ pc' = [pc EXCEPT ![c] = "idle"]
      BY <1>4 DEF Return, AbsPhase
    <3>2. pc'[c] = "idle"
      BY <3>1
    <3>3. AbsPhase'[c] = "idle"
      BY <3>2 DEF AbsPhase
    <3>4. QED
      BY <3>1, <3>3, PhaseMoves
  <2>3. AbsItem' = [AbsItem EXCEPT ![c] = NoWork]
    BY <1>4 DEF Return, AbsItem
  <2>4. QED
    BY <2>1, <2>2, <2>3 DEF Fifo!Return
\* Steps the FIFO does not see.
<1>5. ASSUME NEW c \in Cores, EnqTest(c) \/ EnqGrab(c) \/ DeqTest(c) \/ DeqGrab(c)
      PROVE  UNCHANGED Fifo!vars
  <2>1. AbsFifo' = AbsFifo
    BY <1>0, <1>5 DEF EnqTest, EnqGrab, DeqTest, DeqGrab, TestLock, GrabLock
  <2>2. AbsPhase' = AbsPhase /\ AbsItem' = AbsItem
    BY <1>5 DEF EnqTest, EnqGrab, DeqTest, DeqGrab, TestLock, GrabLock, AbsPhase, AbsItem
  <2>3. QED
    BY <2>1, <2>2 DEF Fifo!vars
<1>6. ASSUME NEW c \in Cores,
             EnqRelease(c) \/ EnqFail(c) \/ DeqRelease(c) \/ DeqFail(c) \/ EnqWakeup(c)
      PROVE  UNCHANGED Fifo!vars
  <2>1. AbsFifo' = AbsFifo
    BY <1>0, <1>6 DEF EnqRelease, EnqFail, DeqRelease, DeqFail, EnqWakeup, ReleaseLock
  <2>2. AbsPhase' = AbsPhase /\ AbsItem' = AbsItem
    BY <1>6 DEF EnqRelease, EnqFail, DeqRelease, DeqFail, EnqWakeup, ReleaseLock, AbsPhase,
                AbsItem
  <2>3. QED
    BY <2>1, <2>2 DEF Fifo!vars
<1>7. ASSUME NEW c \in Cores, EnqStore(c)
      PROVE  UNCHANGED Fifo!vars
  <2>1. AbsPhase' = AbsPhase /\ AbsItem' = AbsItem
    BY <1>7 DEF EnqStore, AbsPhase, AbsItem
  <2>2. QED
    BY <1>7, <2>1, FifoUntouched DEF Fifo!vars
<1>8. ASSUME NEW c \in Cores, DeqLoad(c)
      PROVE  UNCHANGED Fifo!vars
  <2>1. AbsFifo' = AbsFifo
    BY <1>0, <1>8 DEF DeqLoad
  <2>2. AbsPhase' = AbsPhase
    BY <1>8 DEF DeqLoad, AbsPhase
  <2>3. AbsItem' = AbsItem
    BY <1>8 DEF DeqLoad, AbsItem, ItemKnown
  <2>4. QED
    BY <2>1, <2>2, <2>3 DEF Fifo!vars
<1>9. ASSUME NEW c \in Cores, EnqFinish(c)
      PROVE  UNCHANGED Fifo!vars
  <2>1. AbsFifo' = AbsFifo
    BY <1>0, <1>9 DEF EnqFinish
  <2>2. AbsPhase' = AbsPhase /\ AbsItem' = AbsItem
    BY <1>9 DEF EnqFinish, AbsPhase, AbsItem
  <2>3. QED
    BY <2>1, <2>2 DEF Fifo!vars
<1>10. ASSUME NEW c \in Cores, DeqStart(c)
       PROVE  UNCHANGED Fifo!vars
  <2>1. EffStart' = EffStart
    BY <1>10 DEF DeqStart, EffStart, QueueMutex, Wrap
  <2>2. AbsFifo' = AbsFifo
    BY <1>10, <2>1 DEF DeqStart, AbsFifo, Wrap
  <2>3. AbsPhase' = AbsPhase /\ AbsItem' = AbsItem
    BY <1>10 DEF DeqStart, AbsPhase, AbsItem
  <2>4. QED
    BY <2>2, <2>3 DEF Fifo!vars
\* Where the length is compared, the failing path is taken for good.
<1>11. ASSUME NEW c \in Cores, EnqCheck(c)
       PROVE  Fifo!RefuseEnqueue(c) \/ UNCHANGED Fifo!vars
  <2>1. AbsFifo' = AbsFifo /\ Len(AbsFifo) = os_QueueLen
    BY <1>0, <1>11, FifoIsSeq DEF EnqCheck
  <2>2. AbsItem' = AbsItem
    BY <1>11 DEF EnqCheck, AbsItem
  <2>3. CASE os_QueueLen = cpuqueuemax
    <3>1. AbsPhase[c] = "enqueue" /\ AbsPhase' = [AbsPhase EXCEPT ![c] = "failed"]
      <4>1. AbsPhase[c] = "enqueue" /\ pc' = [pc EXCEPT ![c] = "enq_fail"]
        BY <1>11, <2>3 DEF EnqCheck, AbsPhase
      <4>2. pc'[c] = "enq_fail"
        BY <4>1
      <4>3. AbsPhase'[c] = "failed"
        BY <4>2 DEF AbsPhase
      <4>4. QED
        BY <4>1, <4>3, PhaseMoves
    <3>2. QED
      BY <2>1, <2>2, <2>3, <3>1 DEF Fifo!RefuseEnqueue, Fifo!Move
  <2>4. CASE os_QueueLen # cpuqueuemax
    <3>1. AbsPhase' = AbsPhase
      BY <1>11, <2>4 DEF EnqCheck, AbsPhase
    <3>2. QED
      BY <2>1, <2>2, <3>1 DEF Fifo!vars
  <2>5. QED
    BY <2>3, <2>4
<1>12. ASSUME NEW c \in Cores, DeqCheck(c)
       PROVE  Fifo!RefuseDequeue(c) \/ UNCHANGED Fifo!vars
  <2>1. AbsFifo' = AbsFifo
    BY <1>0, <1>12 DEF DeqCheck
  <2>2. AbsItem' = AbsItem
    BY <1>12 DEF DeqCheck, AbsItem
  <2>3. CASE os_QueueLen = 0
    <3>1. AbsPhase[c] = "dequeue" /\ AbsPhase' = [AbsPhase EXCEPT ![c] = "failed"]
      <4>1. AbsPhase[c] = "dequeue" /\ pc' = [pc EXCEPT ![c] = "deq_fail"]
        BY <1>12, <2>3 DEF DeqCheck, AbsPhase
      <4>2. pc'[c] = "deq_fail"
        BY <4>1
      <4>3. AbsPhase'[c] = "failed"
        BY <4>2 DEF AbsPhase
      <4>4. QED
        BY <4>1, <4>3, PhaseMoves
    <3>2. AbsFifo = <<>>
      BY <2>3 DEF AbsFifo
    <3>3. QED
      BY <2>1, <2>2, <3>1, <3>2 DEF Fifo!RefuseDequeue, Fifo!Move
  <2>4. CASE os_QueueLen # 0
    <3>1. AbsPhase' = AbsPhase
      BY <1>12, <2>4 DEF DeqCheck, AbsPhase
    <3>2. QED
      BY <2>1, <2>2, <3>1 DEF Fifo!vars
  <2>5. QED
    BY <2>3, <2>4
\* Where the length changes, the operation takes effect.
<1>13. ASSUME NEW c \in Cores, EnqLen(c)
       PROVE  Fifo!Enqueue(c)
  <2>1. AbsFifo' = Append(AbsFifo, item[c])
    BY <1>13, FifoAppends
  <2>2. Len(AbsFifo) < cpuqueuemax
    BY <1>13, FifoIsSeq DEF EnqLen, HolderKnows
  <2>3. AbsPhase[c] = "enqueue" /\ AbsPhase' = [AbsPhase EXCEPT ![c] = "ok"]
    <3>1. AbsPhase[c] = "enqueue" /\ pc' = [pc EXCEPT ![c] = "enq_finish"]
      BY <1>13 DEF EnqLen, AbsPhase
    <3>2. pc'[c] = "enq_finish"
      BY <3>1
    <3>3. AbsPhase'[c] = "ok"
      BY <3>2 DEF AbsPhase
    <3>4. QED
      BY <3>1, <3>3, PhaseMoves
  <2>4. AbsItem' = AbsItem /\ AbsItem[c] = item[c]
    BY <1>13 DEF EnqLen, AbsItem
  <2>5. QED
    BY <2>1, <2>2, <2>3, <2>4 DEF Fifo!Enqueue, Fifo!Move
<1>14. ASSUME NEW c \in Cores, DeqLen(c)
       PROVE  Fifo!Dequeue(c)
  <2>1. AbsFifo # <<>> /\ item[c] = Head(AbsFifo) /\ AbsFifo' = Tail(AbsFifo)
    BY <1>14, FifoShrinks
  <2>2. AbsPhase[c] = "dequeue" /\ AbsPhase' = [AbsPhase EXCEPT ![c] = "ok"]
    <3>1. AbsPhase[c] = "dequeue" /\ pc' = [pc EXCEPT ![c] = "deq_start"]
      BY <1>14 DEF DeqLen, AbsPhase
    <3>2. pc'[c] = "deq_start"
      BY <3>1
    <3>3. AbsPhase'[c] = "ok"
      BY <3>2 DEF AbsPhase
    <3>4. QED
      BY <3>1, <3>3, PhaseMoves
  <2>3. AbsItem' = [AbsItem EXCEPT ![c] = item[c]]
    BY <1>14 DEF DeqLen, AbsItem, QueueMutex
  <2>4. QED
    BY <2>1, <2>2, <2>3 DEF Fifo!Dequeue, Fifo!Move
<1>15. QED
  BY <1>1, <1>2, <1>3, <1>4, <1>5, <1>6, <1>7, <1>8, <1>9, <1>10, <1>11, <1>12, <1>13, <1>14
     DEF QueueNext, QueueStep, EnqStep, DeqStep, Fifo!Next

\* The queue of smp.asm is a FIFO: workloads leave in the order they entered, none is lost,
\* none handed out twice, and a call fails only when the queue was full or empty.
THEOREM QueueImplementsFifo == QueueSpec => FifoSpec
<1>1. QueueInv /\ QueueInv' /\ [QueueNext]_queueVars => [Fifo!Next]_(Fifo!vars)
  BY FifoStep
<1>2. QED
  BY FifoInit, <1>1, QueueInvariant, PTL DEF QueueSpec, FifoSpec, Fifo!Spec

-----------------------------------------------------------------------------
(* The frames of the interrupt handlers                                    *)

\* The registers a program has; no program in the model changes them.
Regs == [r \in {"rax", "rcx", "rsi", "rdi"} |-> <<"reg", r>>]

IsMem(m) == m = [a \in Words |-> m[a]]

IsSeq(t) == Len(t) \in Nat /\ t = [n \in 1 .. Len(t) |-> t[n]]

\* What is interrupted, oldest first, and then what the core is doing.
Depth == Len(interrupted) + 1
At(n) == IF n = Depth THEN Context ELSE interrupted[n]

\* A context as handlers find it: a callback changes neither flags nor registers, and nothing is
\* known of what is below its stack pointer.
Sound(c, n, d) ==
  /\ c = [rip |-> c.rip, rsp |-> c.rsp, df |-> d, regs |-> Regs, stack |-> c.stack]
  /\ c.rsp \in Top - 3 * n .. Top - 1
  /\ IsMem(c.stack)
  /\ \A a \in Words : a < c.rsp => c.stack[a] = Junk

\* Context c is in a callback of src that has interrupted b: where it is tells what lies between
\* its stack pointer and the one of b, and the last of that is the address to go back to.
InCallback(c, b, src, d, set) ==
  /\ c.stack[b.rsp - 1] = <<"rip", b.rip>>
  /\ \/ c.rip = Entry(src) /\ c.rsp = b.rsp - 1
     \/ /\ c.rip = Body(src) /\ c.rsp = b.rsp - 3
        /\ c.stack[b.rsp - 2] = <<"flags", d>> /\ c.stack[b.rsp - 3] = <<"rip", Popfq(src)>>
     \/ /\ c.rip = Popfq(src) /\ c.rsp = b.rsp - 2
        /\ c.stack[b.rsp - 2] = <<"flags", d>>
     \/ c.rip = LastRet(src) /\ c.rsp = b.rsp - 1
  /\ ~ OthersSet => set[src]

IrqTypeOK ==
  /\ IsSeq(interrupted)
  /\ Len(interrupted) <= MaxNest
  /\ callback \in [Sources -> BOOLEAN] /\ df \in BOOLEAN /\ calledZero \in BOOLEAN
  /\ ~ (df /\ callback["clock"])
  /\ ~ OthersSet => ~ calledZero

ContextsSound == \A n \in 1 .. Depth : Sound(At(n), n, df)

ProgramFirst == At(1).rip \in {<<"program", p>> : p \in ProgramPoints}

EachInCallback == \A n \in 1 .. Len(interrupted) : \E src \in Sources : InCallback(At(n + 1), At(n), src, df, callback)

\* What a context has on its stack is on the stack of every later one.
Kept == \A n \in 1 .. Depth : \A o \in 1 .. n - 1 :
          /\ At(n).rsp < At(o).rsp
          /\ \A a \in At(o).rsp .. Top - 1 : At(n).stack[a] = At(o).stack[a]

IrqInv == IrqTypeOK /\ ContextsSound /\ ProgramFirst /\ EachInCallback /\ Kept

-----------------------------------------------------------------------------
(* Instructions                                                            *)

\* The machine with these registers and this memory; the stack under word b after k of the words
\* of W have been pushed on it.
Mach(m, p, q, d, r) == [m |-> m, rsp |-> p, rip |-> q, df |-> d, r |-> r]
Under(m, b, k, W) == [a \in Words |-> IF a \in b - k .. b - 1 THEN W[b - a] ELSE m[a]]

\* A word is pushed.
LEMMA PushIs ==
  ASSUME NEW m, IsMem(m), NEW p \in Int, p - 1 \in Words, NEW q, NEW d, NEW r, NEW w
  PROVE  Push(Mach(m, p, q, d, r), w) = Mach([m EXCEPT ![p - 1] = w], p - 1, q, d, r)
<1>1. ASSUME NEW s, s = [m |-> m, rsp |-> p, rip |-> q, df |-> d, r |-> r]
      PROVE  Push(s, w) = [m |-> [m EXCEPT ![p - 1] = w], rsp |-> p - 1, rip |-> q, df |-> d, r |-> r]
  <2>1. [s EXCEPT !.rsp = @ - 1] = [m |-> m, rsp |-> p - 1, rip |-> q, df |-> d, r |-> r]
    BY <1>1
  <2>2. Push(s, w) = [[s EXCEPT !.rsp = @ - 1] EXCEPT !.m[s.rsp - 1] = w]
    BY DEF Push
  <2>3. s.rsp = p
    BY <1>1
  <2>4. QED
    BY <2>1, <2>2, <2>3
<1> QED
  BY <1>1 DEF Mach

\* The next of the words of W is pushed.
LEMMA PushNext ==
  ASSUME NEW m, NEW b \in Int, NEW k \in Nat, NEW W, b - k - 1 \in Words, NEW q, NEW d, NEW r
  PROVE  Push(Mach(Under(m, b, k, W), b - k, q, d, r), W[k + 1])
           = Mach(Under(m, b, k + 1, W), b - (k + 1), q, d, r)
<1>1. IsMem(Under(m, b, k, W))
  BY DEF IsMem, Under
<1>2. [Under(m, b, k, W) EXCEPT ![b - k - 1] = W[k + 1]] = Under(m, b, k + 1, W)
  <2>1. ASSUME NEW a \in Words
        PROVE  [Under(m, b, k, W) EXCEPT ![b - k - 1] = W[k + 1]][a] = Under(m, b, k + 1, W)[a]
    <3>1. CASE a = b - k - 1
      BY <3>1, b - (b - k - 1) = k + 1 DEF Under, Words
    <3>2. CASE a # b - k - 1
      BY <3>2, a \in b - k .. b - 1 <=> a \in b - (k + 1) .. b - 1 DEF Under, Words
    <3>3. QED
      BY <3>1, <3>2
  <2>2. QED
    BY <2>1 DEF Under
<1>3. b - k \in Int /\ (b - k) - 1 = b - k - 1 /\ b - k - 1 = b - (k + 1)
  OBVIOUS
<1>4. Push(Mach(Under(m, b, k, W), b - k, q, d, r), W[k + 1])
        = Mach([Under(m, b, k, W) EXCEPT ![b - k - 1] = W[k + 1]], b - k - 1, q, d, r)
  BY <1>1, <1>3, PushIs
<1> QED
  BY <1>2, <1>3, <1>4

\* A register and the flags are popped.
LEMMA PopRegIs ==
  ASSUME NEW m, NEW p \in Int, NEW q, NEW d, NEW r, NEW x
  PROVE  PopReg(Mach(m, p, q, d, r), x) = Mach(m, p + 1, q, d, [r EXCEPT ![x] = m[p]])
<1>1. ASSUME NEW s, s = [m |-> m, rsp |-> p, rip |-> q, df |-> d, r |-> r]
      PROVE  PopReg(s, x) = [m |-> m, rsp |-> p + 1, rip |-> q, df |-> d, r |-> [r EXCEPT ![x] = m[p]]]
  <2>1. [s EXCEPT !.rsp = @ + 1] = [m |-> m, rsp |-> p + 1, rip |-> q, df |-> d, r |-> r]
    BY <1>1
  <2>2. PopReg(s, x) = [[s EXCEPT !.rsp = @ + 1] EXCEPT !.r[x] = s.m[s.rsp]]
    BY DEF PopReg
  <2>3. s.rsp = p /\ s.m = m
    BY <1>1
  <2>4. QED
    BY <2>1, <2>2, <2>3
<1> QED
  BY <1>1 DEF Mach

LEMMA PopFlagsIs ==
  ASSUME NEW m, NEW p \in Int, NEW q, NEW d, NEW r, NEW f, m[p] = <<"flags", f>>
  PROVE  PopFlags(Mach(m, p, q, d, r)) = Mach(m, p + 1, q, f, r)
<1>1. m[p][1] = "flags" /\ m[p][2] = f
  OBVIOUS
<1>2. ASSUME NEW s, s = [m |-> m, rsp |-> p, rip |-> q, df |-> d, r |-> r]
      PROVE  PopFlags(s) = [m |-> m, rsp |-> p + 1, rip |-> q, df |-> f, r |-> r]
  <2>1. s.rsp = p /\ s.m = m
    BY <1>2
  <2>2. PopFlags(s) = [s EXCEPT !.rsp = @ + 1, !.df = f]
    BY <1>1, <2>1 DEF PopFlags
  <2>3. QED
    BY <1>2, <2>2
<1> QED
  BY <1>2 DEF Mach

\* iretq from a frame that has been left alone, or changed by the handler.
LEMMA IretqIs ==
  ASSUME NEW m, NEW p \in Int, NEW q, NEW d, NEW r, NEW q2, NEW d2, NEW p2,
         m[p] = <<"rip", q2>>, m[p + 2] = <<"flags", d2>>, m[p + 3] = <<"rsp", p2>>
  PROVE  Iretq(Mach(m, p, q, d, r)) = Mach(m, p2, q2, d2, r)
<1>1. ASSUME NEW s, s = [m |-> m, rsp |-> p, rip |-> q, df |-> d, r |-> r]
      PROVE  Iretq(s) = [m |-> m, rsp |-> p2, rip |-> q2, df |-> d2, r |-> r]
  <2>1. s.rsp = p /\ s.m = m
    BY <1>1
  <2>2. m[p][1] = "rip" /\ m[p][2] = q2 /\ m[p + 2][1] = "flags" /\ m[p + 2][2] = d2
        /\ m[p + 3][1] = "rsp" /\ m[p + 3][2] = p2
    OBVIOUS
  <2>3. Iretq(s) = [s EXCEPT !.rip = q2, !.df = d2, !.rsp = p2]
    BY <2>1, <2>2 DEF Iretq
  <2>4. QED
    BY <1>1, <2>3
<1> QED
  BY <1>1 DEF Mach
-----------------------------------------------------------------------------
(* The frame the processor pushes, and how a handler makes room in it.     *)

\* What is aligned to two words.
LEMMA AlignIs ==
  ASSUME NEW p \in Int
  PROVE  p - (p % 2) \in {p - 1, p}
<1>1. p % 2 \in {0, 1}
  OBVIOUS
<1> QED
  BY <1>1

\* The words of the frame, in the order in which they are pushed under the aligned stack pointer.
IsFrame(W, p, q, d) ==
  /\ W[1] = <<"seg", "ss">> /\ W[2] = <<"rsp", p>> /\ W[3] = <<"flags", d>>
  /\ W[4] = <<"seg", "cs">> /\ W[5] = <<"rip", q>>

LEMMA DeliverIs ==
  ASSUME NEW m, IsMem(m), NEW p \in Int, NEW q, NEW d, NEW r, NEW W, IsFrame(W, p, q, d),
         NEW b, b = p - (p % 2), b - 5 \in Words, b \in 0 .. Top
  PROVE  Deliver(Mach(m, p, q, d, r)) = Mach(Under(m, b, 5, W), b - 5, q, d, r)
<1> DEFINE s == Mach(m, p, q, d, r)
           s0 == Mach(Under(m, b, 0, W), b - 0, q, d, r)
<1>1. b \in Int /\ b - 0 = b /\ b - 1 \in Words /\ b - 2 \in Words /\ b - 3 \in Words /\ b - 4 \in Words
  BY IrqAssumption DEF Words
<1>2. [s EXCEPT !.rsp = @ - (@ % 2)] = s0
  <2>1. Under(m, b, 0, W) = m
    BY <1>1 DEF Under, IsMem
  <2>2. ASSUME NEW x, x = [m |-> m, rsp |-> p, rip |-> q, df |-> d, r |-> r]
        PROVE  [x EXCEPT !.rsp = @ - (@ % 2)] = [m |-> m, rsp |-> b, rip |-> q, df |-> d, r |-> r]
    BY <2>2
  <2>3. QED
    BY <1>1, <2>1, <2>2 DEF Mach
<1>3. s.rsp = p /\ s.df = d /\ s.rip = q
  BY DEF Mach
<1> DEFINE Then(n) == Mach(Under(m, b, n, W), b - n, q, d, r)
<1>4. ASSUME NEW n \in 0 .. 4 PROVE Push(Then(n), W[n + 1]) = Then(n + 1)
  <2>1. n \in Nat /\ b - n - 1 \in Words
    BY <1>1 DEF Words
  <2>2. Push(Mach(Under(m, b, n, W), b - n, q, d, r), W[n + 1])
          = Mach(Under(m, b, n + 1, W), b - (n + 1), q, d, r)
    BY ONLY b \in Int, <2>1, PushNext
  <2>3. QED
    BY <2>2
<1>5. Deliver(s) = Push(Push(Push(Push(Push(Then(0), W[1]), W[2]), W[3]), W[4]), W[5])
  BY <1>2, <1>3 DEF Deliver, IsFrame
<1> HIDE DEF Then
<1>6. Push(Then(0), W[1]) = Then(1) /\ Push(Then(1), W[2]) = Then(2) /\ Push(Then(2), W[3]) = Then(3)
      /\ Push(Then(3), W[4]) = Then(4) /\ Push(Then(4), W[5]) = Then(5)
  BY <1>4
<1>7. Deliver(s) = Then(5)
  BY <1>5, <1>6
<1> QED
  BY <1>7 DEF Then
\* The direction flag of a string instruction that goes up.
Up == FALSE

\* What a string instruction works with, and the words from one on moved down by one.
Cursor(s, si, di, ax) == [s |-> s, si |-> si, di |-> di, ax |-> ax]
Slid(m, from, n) == [a \in Words |-> IF a \in from - 1 .. from + n - 2 THEN m[a + 1] ELSE m[a]]

\* A word of memory is written.
Put(m, x, w) == [m EXCEPT ![x] = w]

LEMMA PutIs ==
  ASSUME NEW m, IsMem(m), NEW x \in Words, NEW w
  PROVE  IsMem(Put(m, x, w)) /\ Put(m, x, w)[x] = w /\ \A a \in Words : a # x => Put(m, x, w)[a] = m[a]
<1> SUFFICES ASSUME NEW n, n = [m EXCEPT ![x] = w]
             PROVE  IsMem(n) /\ n[x] = w /\ \A a \in Words : a # x => n[a] = m[a]
  BY DEF Put
<1>1. DOMAIN m = Words /\ DOMAIN n = Words
  BY DEF IsMem
<1>2. n[x] = w /\ \A a \in Words : a # x => n[a] = m[a]
  BY <1>1
<1>3. IsMem(n)
  BY <1>1 DEF IsMem
<1> QED
  BY <1>2, <1>3

\* The string instructions upwards.
LEMMA StringIs ==
  ASSUME NEW m, NEW p, NEW q, NEW r, NEW si \in Int, NEW di \in Int, NEW ax
  PROVE  /\ Movsq(Cursor(Mach(m, p, q, Up, r), si, di, ax))
              = Cursor(Mach(Put(m, di, m[si]), p, q, Up, r), si + 1, di + 1, ax)
         /\ Lodsq(Cursor(Mach(m, p, q, Up, r), si, di, ax))
              = Cursor(Mach(m, p, q, Up, r), si + 1, di, m[si])
         /\ \A w : Stosq(Cursor(Mach(m, p, q, Up, r), si, di, ax), w)
                     = Cursor(Mach(Put(m, di, w), p, q, Up, r), si, di + 1, ax)
<1>1. PICK s : s = Mach(m, p, q, Up, r)
  OBVIOUS
<1>2. Step(s) = 1 /\ s.m = m
  BY <1>1 DEF Mach, Step, Up
<1>3. PICK c : c = Cursor(s, si, di, ax)
  OBVIOUS
<1>4. c.s = s /\ c.si = si /\ c.di = di
  BY <1>3 DEF Cursor
<1>5. ASSUME NEW v, NEW x, NEW g, g = [c EXCEPT !.s.m[x] = v]
      PROVE  g = [s |-> Mach(Put(m, x, v), p, q, Up, r), si |-> si, di |-> di, ax |-> ax]
  <2>1. g = [s |-> [s EXCEPT !.m[x] = v], si |-> si, di |-> di, ax |-> ax]
    BY <1>3, <1>5 DEF Cursor
  <2>2. [s EXCEPT !.m[x] = v] = Mach(Put(m, x, v), p, q, Up, r)
    <3>1. PICK d : d = Up
      OBVIOUS
    <3>2. s = [m |-> m, rsp |-> p, rip |-> q, df |-> d, r |-> r]
      BY <1>1, <3>1 DEF Mach
    <3>3. PICK f : f = [m EXCEPT ![x] = v]
      OBVIOUS
    <3>4. [s EXCEPT !.m[x] = v] = [m |-> f, rsp |-> p, rip |-> q, df |-> d, r |-> r]
      BY ONLY <3>2, <3>3
    <3>5. QED
      BY ONLY <3>1, <3>3, <3>4 DEF Mach, Put
  <2>3. QED
    BY ONLY <2>1, <2>2
<1>6. Movsq(c) = Cursor(Mach(Put(m, di, m[si]), p, q, Up, r), si + 1, di + 1, ax)
  <2>1. PICK t : t = Mach(Put(m, di, m[si]), p, q, Up, r)
    OBVIOUS
  <2>2. PICK g : g = [c EXCEPT !.s.m[di] = m[si]]
    OBVIOUS
  <2>3. g = [s |-> t, si |-> si, di |-> di, ax |-> ax]
    BY <1>5, <2>1, <2>2
  <2>4. PICK h : h = [g EXCEPT !.si = si + 1]
    OBVIOUS
  <2>5. h = [s |-> t, si |-> si + 1, di |-> di, ax |-> ax]
    BY ONLY <2>3, <2>4
  <2>6. [h EXCEPT !.di = di + 1] = [s |-> t, si |-> si + 1, di |-> di + 1, ax |-> ax]
    BY ONLY <2>5
  <2>7. Movsq(c) = [h EXCEPT !.di = di + 1]
    BY <1>2, <1>4, <2>2, <2>4 DEF Movsq
  <2>8. QED
    BY ONLY <2>1, <2>6, <2>7 DEF Cursor
<1>7. ASSUME NEW w PROVE Stosq(c, w) = Cursor(Mach(Put(m, di, w), p, q, Up, r), si, di + 1, ax)
  <2>1. PICK t : t = Mach(Put(m, di, w), p, q, Up, r)
    OBVIOUS
  <2>2. PICK g : g = [c EXCEPT !.s.m[di] = w]
    OBVIOUS
  <2>3. g = [s |-> t, si |-> si, di |-> di, ax |-> ax]
    BY <1>5, <2>1, <2>2
  <2>4. [g EXCEPT !.di = di + 1] = [s |-> t, si |-> si, di |-> di + 1, ax |-> ax]
    BY ONLY <2>3
  <2>5. Stosq(c, w) = [g EXCEPT !.di = di + 1]
    BY <1>2, <1>4, <2>2 DEF Stosq
  <2>6. QED
    BY ONLY <2>1, <2>4, <2>5 DEF Cursor
<1>8. Lodsq(c) = Cursor(Mach(m, p, q, Up, r), si + 1, di, m[si])
  <2>1. PICK g : g = [c EXCEPT !.ax = m[si]]
    OBVIOUS
  <2>2. g = [s |-> s, si |-> si, di |-> di, ax |-> m[si]]
    BY ONLY <1>3, <2>1 DEF Cursor
  <2>3. [g EXCEPT !.si = si + 1] = [s |-> s, si |-> si + 1, di |-> di, ax |-> m[si]]
    BY ONLY <2>2
  <2>4. Lodsq(c) = [g EXCEPT !.si = si + 1]
    BY <1>2, <1>4, <2>1 DEF Lodsq
  <2>5. QED
    BY ONLY <1>1, <2>3, <2>4 DEF Cursor
<1> QED
  BY <1>1, <1>3, <1>6, <1>7, <1>8

\* movsq, n times, upwards and with the destination one word below the source: the words slide
\* down by one.
LEMMA MovsIs ==
  ASSUME NEW m, IsMem(m), NEW p, NEW q, NEW r, NEW from \in Int, NEW ax,
         NEW n \in Nat, from - 1 \in Words, from + n \in Words
  PROVE  Movs(Cursor(Mach(m, p, q, Up, r), from, from - 1, ax), n)
           = Cursor(Mach(Slid(m, from, n), p, q, Up, r), from + n, from + n - 1, ax)
<1> DEFINE c == Cursor(Mach(m, p, q, Up, r), from, from - 1, ax)
           After(i) == Cursor(Mach(Slid(m, from, i), p, q, Up, r), from + i, from + i - 1, ax)
           Good(f) == f = [i \in 0 .. n |-> IF i = 0 THEN c ELSE Movsq(f[i - 1])]
           F == CHOOSE f : Good(f)
<1>1. After(0) = c
  <2>1. Slid(m, from, 0) = m
    <3>1. \A a \in Words : ~ (a \in from - 1 .. from + 0 - 2)
      BY DEF Words
    <3>2. QED
      BY <3>1 DEF Slid, IsMem
  <2>2. from + 0 = from /\ from + 0 - 1 = from - 1
    OBVIOUS
  <2>3. QED
    BY <2>1, <2>2
<1>2. ASSUME NEW i \in 1 .. n PROVE Movsq(After(i - 1)) = After(i)
  <2>1. PICK x \in Int : x = from + (i - 1)
    OBVIOUS
  <2>2. PICK M : M = Slid(m, from, i - 1)
    OBVIOUS
  <2>3. PICK y \in Int : y = x - 1
    OBVIOUS
  <2>4. Movsq(Cursor(Mach(M, p, q, Up, r), x, y, ax))
          = Cursor(Mach(Put(M, y, M[x]), p, q, Up, r), x + 1, y + 1, ax)
    BY ONLY x \in Int, y \in Int, StringIs
  <2>5. Put(M, y, M[x]) = Slid(m, from, i)
    <3>1. x \in Words /\ x \notin from - 1 .. from + (i - 1) - 2 /\ y \in Words
      BY <2>1, <2>3, IrqAssumption DEF Words
    <3>2. M[x] = m[x]
      BY <2>2, <3>1 DEF Slid
    <3>3. IsMem(M) /\ IsMem(Slid(m, from, i))
      BY <2>2 DEF IsMem, Slid
    <3>4. ASSUME NEW a \in Words PROVE Put(M, y, m[x])[a] = Slid(m, from, i)[a]
      <4>1. CASE a = y
        <5>1. a + 1 = x /\ a \in from - 1 .. from + i - 2
          BY <2>1, <2>3, <4>1
        <5>2. Slid(m, from, i)[a] = m[x]
          BY <5>1 DEF Slid
        <5>3. QED
          BY <3>1, <3>3, <4>1, <5>2, PutIs
      <4>2. CASE a # y
        <5>1. a \in from - 1 .. from + (i - 1) - 2 <=> a \in from - 1 .. from + i - 2
          BY <2>1, <2>3, <4>2 DEF Words
        <5>2. M[a] = Slid(m, from, i)[a]
          BY <2>2, <5>1 DEF Slid
        <5>3. QED
          BY <3>1, <3>3, <4>2, <5>2, PutIs
      <4>3. QED
        BY <4>1, <4>2
    <3>5. QED
      BY <3>1, <3>2, <3>3, <3>4, PutIs DEF IsMem
  <2>6. x + 1 = from + i /\ y + 1 = from + i - 1 /\ y = from + (i - 1) - 1
    BY <2>1, <2>3
  <2>7. QED
    BY <2>1, <2>2, <2>4, <2>5, <2>6
<1> HIDE DEF c, After
<1>3. \E f : Good(f)
  <2>1. [i \in 0 .. n |-> After(i)]
          = [i \in 0 .. n |-> IF i = 0 THEN c ELSE Movsq([j \in 0 .. n |-> After(j)][i - 1])]
    <3>1. ASSUME NEW i \in 0 .. n
          PROVE  After(i) = IF i = 0 THEN c ELSE Movsq([j \in 0 .. n |-> After(j)][i - 1])
      <4>1. CASE i = 0
        BY <1>1, <4>1
      <4>2. CASE i # 0
        <5>1. i \in 1 .. n /\ i - 1 \in 0 .. n
          BY <4>2
        <5>2. [j \in 0 .. n |-> After(j)][i - 1] = After(i - 1)
          BY <5>1
        <5>3. QED
          BY <1>2, <4>2, <5>1, <5>2
      <4>3. QED
        BY <4>1, <4>2
    <3>2. QED
      BY <3>1
  <2>2. QED
    BY <2>1, Zenon
<1> DEFINE G == F
<1>4. Good(G)
  BY <1>3, Zenon
<1>5. Movs(c, n) = G[n]
  BY Zenon DEF Movs
<1> HIDE DEF G
<1> DEFINE S == {i \in Nat : i <= n => G[i] = After(i)}
<1>6. 0 \in S
  <2>1. G[0] = c
    BY <1>4
  <2>2. QED
    BY <1>1, <2>1
<1>7. ASSUME NEW i \in Nat, i \in S PROVE i + 1 \in S
  <2> SUFFICES ASSUME i + 1 <= n PROVE G[i + 1] = After(i + 1)
    OBVIOUS
  <2>1. i + 1 \in 1 .. n /\ i + 1 \in 0 .. n /\ (i + 1) - 1 = i /\ i + 1 # 0
    OBVIOUS
  <2>2. G[i] = After(i)
    BY <1>7
  <2>3. G[i + 1] = Movsq(G[i])
    BY <1>4, <2>1
  <2>4. Movsq(After((i + 1) - 1)) = After(i + 1)
    BY <1>2, <2>1
  <2>5. QED
    BY <2>1, <2>2, <2>3, <2>4
<1>8. n \in S
  <2> HIDE DEF S
  <2>1. QED
    BY <1>6, <1>7, AllNumbers
<1>9. Movs(c, n) = After(n)
  BY <1>5, <1>8
<1> QED
  BY <1>9 DEF c, After
-----------------------------------------------------------------------------
(* Handlers                                                                *)

\* What InsertCallback makes of the frame and the words above it, of which there are ten: they are
\* one word lower, and the address that was interrupted lies where the program's stack ends.
Callback(W, p, src) ==
  [n \in 1 .. 10 |-> CASE n = 2 -> <<"rsp", p - 1>> [] n = 5 -> <<"rip", Entry(src)>> [] OTHER -> W[n]]

Inserted(m, b, W, p, q, q0, r, src) ==
  \E n : /\ IsMem(n)
         /\ n[p - 1] = <<"rip", q>>
         /\ \A a \in p .. Top - 1 : n[a] = m[a]
         /\ InsertCallback(Mach(Under(m, b, 10, W), b - 10, q0, Up, r), 5, src)
              = Mach(Under(n, b - 1, 10, Callback(W, p, src)), b - 11, q0, Up, r)

LEMMA InsertIs ==
  ASSUME NEW m, IsMem(m), NEW p \in Int, NEW q, NEW q0, NEW r, NEW W, NEW was, IsFrame(W, p, q, was), NEW src,
         NEW b \in {p - 1, p}, b - 11 \in Words, p \in Words
  PROVE  Inserted(m, b, W, p, q, q0, r, src)
<1> DEFINE M == Under(m, b, 10, W)
           Cur(x, si, di, ax) == Cursor(Mach(x, b - 11, q0, Up, r), si, di, ax)
           M1 == Slid(M, b - 10, 5)
           M2 == Put(M1, b - 6, <<"rip", Entry(src)>>)
           M3 == Slid(M2, b - 4, 2)
           M4 == Put(M3, b - 3, <<"rsp", p - 1>>)
           M5 == Put(M4, b - 2, M4[b - 1])
           M6 == Put(M5, p - 1, <<"rip", q>>)
<1>1. b \in Int /\ Top \in Int /\ Words = 0 .. Top - 1 /\ (\A n \in 1 .. 11 : b - n \in Words)
      /\ b - 1 \in Words /\ b - 2 \in Words /\ b - 3 \in Words /\ b - 6 \in Words
  BY IrqAssumption DEF Words
<1>2. IsMem(M) /\ \A n \in 1 .. 10 : M[b - n] = W[n]
  <2>1. IsMem(M)
    BY DEF IsMem, Under
  <2>2. ASSUME NEW n \in 1 .. 10 PROVE M[b - n] = W[n]
    <3>1. b - n \in Words /\ b - n \in b - 10 .. b - 1 /\ b - (b - n) = n
      BY <1>1
    <3>2. QED
      BY <3>1 DEF Under
  <2>3. QED
    BY <2>1, <2>2
<1>3. \A a \in Words : ~ (a \in b - 10 .. b - 1) => M[a] = m[a]
  BY DEF Under
<1> HIDE DEF M
<1>4. /\ IsMem(M1) /\ M1[b - 5] = W[5] /\ M1[b - 4] = W[4] /\ M1[b - 3] = W[3] /\ M1[b - 2] = W[2] /\ M1[b - 1] = W[1]
      /\ \A n \in 7 .. 11 : M1[b - n] = W[n - 1]
      /\ \A a \in Words : ~ (a \in b - 11 .. b - 1) => M1[a] = m[a]
  <2>1. IsMem(M1)
    BY DEF IsMem, Slid
  <2>2. ASSUME NEW n \in 1 .. 5 PROVE M1[b - n] = W[n]
    <3>1. b - n \in Words /\ b - n \notin (b - 10) - 1 .. (b - 10) + 5 - 2
      BY <1>1
    <3>2. QED
      BY <1>2, <3>1 DEF Slid
  <2>3. ASSUME NEW n \in 7 .. 11 PROVE M1[b - n] = W[n - 1]
    <3>1. b - n \in Words /\ b - n \in (b - 10) - 1 .. (b - 10) + 5 - 2 /\ b - n + 1 = b - (n - 1) /\ n - 1 \in 1 .. 10
      BY <1>1
    <3>2. QED
      BY <1>2, <3>1 DEF Slid
  <2>4. ASSUME NEW a \in Words, ~ (a \in b - 11 .. b - 1) PROVE M1[a] = m[a]
    <3>1. a \notin (b - 10) - 1 .. (b - 10) + 5 - 2 /\ ~ (a \in b - 10 .. b - 1)
      BY <1>1, <2>4
    <3>2. QED
      BY <1>3, <3>1 DEF Slid
  <2>5. QED
    BY <2>1, <2>2, <2>3, <2>4
<1> HIDE DEF M1
<1>5. /\ IsMem(M2) /\ M2[b - 6] = <<"rip", Entry(src)>> /\ \A a \in Words : a # b - 6 => M2[a] = M1[a]
  <2>1. b - 6 \in Words
    BY <1>1
  <2>2. IsMem(M1)
    BY <1>4
  <2>3. QED
    BY ONLY <2>1, <2>2, PutIs
<1> HIDE DEF M2
<1>6. /\ IsMem(M3) /\ M3[b - 5] = W[4] /\ M3[b - 4] = W[3]
      /\ \A a \in Words : a \notin {b - 5, b - 4} => M3[a] = M2[a]
  <2>1. IsMem(M3)
    BY DEF IsMem, Slid
  <2>2. \A a \in Words : a \in (b - 4) - 1 .. (b - 4) + 2 - 2 <=> a \in {b - 5, b - 4}
    BY <1>1
  <2>3. b - 5 \in Words /\ b - 4 \in Words /\ b - 5 + 1 = b - 4 /\ b - 4 + 1 = b - 3 /\ b - 3 \in Words
        /\ b - 4 # b - 6 /\ b - 3 # b - 6
    BY <1>1
  <2>4. M2[b - 4] = W[4] /\ M2[b - 3] = W[3]
    BY <1>4, <1>5, <2>3
  <2>5. QED
    BY <2>1, <2>2, <2>3, <2>4 DEF Slid
<1> HIDE DEF M3
<1>7. /\ IsMem(M4) /\ M4[b - 3] = <<"rsp", p - 1>> /\ \A a \in Words : a # b - 3 => M4[a] = M3[a]
  <2>1. b - 3 \in Words
    BY <1>1
  <2>2. IsMem(M3)
    BY <1>6
  <2>3. QED
    BY ONLY <2>1, <2>2, PutIs
<1> HIDE DEF M4
<1>8. /\ IsMem(M5) /\ M5[b - 2] = M4[b - 1] /\ \A a \in Words : a # b - 2 => M5[a] = M4[a]
  <2>1. b - 2 \in Words
    BY <1>1
  <2>2. IsMem(M4)
    BY <1>7
  <2>3. QED
    BY ONLY <2>1, <2>2, PutIs
<1> HIDE DEF M5
<1>9. p - 1 \in Words /\ p - 1 \in {b - 1, b}
  BY <1>1
<1>10. /\ IsMem(M6) /\ M6[p - 1] = <<"rip", q>> /\ \A a \in Words : a # p - 1 => M6[a] = M5[a]
  <2>1. p - 1 \in Words
    BY <1>9
  <2>2. IsMem(M5)
    BY <1>8
  <2>3. QED
    BY ONLY <2>1, <2>2, PutIs
<1> HIDE DEF M6
\* The instructions
<1>11. InsertCallback(Mach(M, b - 10, q0, Up, r), 5, src) = Mach(M6, b - 11, q0, Up, r)
  <2>1. PICK s : s = Mach(M, b - 10, q0, Up, r)
    OBVIOUS
  <2>2. [s EXCEPT !.rsp = @ - 1] = Mach(M, b - 11, q0, Up, r)
    <3>1. PICK d : d = Up
      OBVIOUS
    <3>2. s = [m |-> M, rsp |-> b - 10, rip |-> q0, df |-> d, r |-> r]
      BY <2>1, <3>1 DEF Mach
    <3>3. [s EXCEPT !.rsp = b - 11] = [m |-> M, rsp |-> b - 11, rip |-> q0, df |-> d, r |-> r]
      BY ONLY <3>2
    <3>4. s.rsp - 1 = b - 11
      BY <1>1, <3>2
    <3>5. QED
      BY ONLY <3>1, <3>3, <3>4 DEF Mach
  <2>3. s.rsp = b - 10 /\ s.rsp - 1 = b - 11
    BY <1>1, <2>1 DEF Mach
  <2> DEFINE start == [s |-> [s EXCEPT !.rsp = @ - 1], si |-> s.rsp, di |-> s.rsp - 1, ax |-> Junk]
             atRip == Lodsq(Movs(start, 5))
             atRsp == Lodsq(Movs(Stosq(atRip, <<"rip", Entry(src)>>), 2))
             newRsp == IF atRsp.ax[1] = "rsp" THEN <<"rsp", atRsp.ax[2] - 1>> ELSE Junk
             moved == Movsq(Stosq(atRsp, newRsp)).s
  <2>4. InsertCallback(s, 5, src) = IF newRsp # Junk THEN [moved EXCEPT !.m[newRsp[2]] = atRip.ax] ELSE moved
    BY Zenon DEF InsertCallback
  <2>5. start = Cur(M, b - 10, b - 11, Junk)
    BY <2>2, <2>3 DEF Cursor
  <2>0. PICK R, P, Q, E : R = <<"rip", q>> /\ P = <<"rsp", p>> /\ Q = <<"rsp", p - 1>> /\ E = <<"rip", Entry(src)>>
    OBVIOUS
  <2>00. W[5] = R /\ W[2] = P
    BY <2>0 DEF IsFrame
  <2>6. Movs(start, 5) = Cur(M1, b - 5, b - 6, Junk)
    <3>1. PICK from \in Int : from = b - 10
      BY <1>1
    <3>2. PICK n \in Nat : n = 5
      OBVIOUS
    <3>3. from - 1 \in Words /\ from + n \in Words
      BY <1>1, <3>1, <3>2
    <3>4. Movs(Cursor(Mach(M, b - 11, q0, Up, r), from, from - 1, Junk), n)
            = Cursor(Mach(Slid(M, from, n), b - 11, q0, Up, r), from + n, from + n - 1, Junk)
      BY ONLY <1>2, <3>3, from \in Int, n \in Nat, MovsIs
    <3>5. from - 1 = b - 11 /\ from + n = b - 5 /\ from + n - 1 = b - 6
      BY <1>1, <3>1, <3>2
    <3>6. QED
      BY ONLY <2>5, <3>1, <3>2, <3>4, <3>5 DEF M1
  <2> HIDE DEF start
  <2>7. atRip = Cur(M1, b - 4, b - 6, R)
    <3>1. PICK x, y \in Int : x = b - 5 /\ y = b - 6
      BY <1>1
    <3>2. Lodsq(Cur(M1, x, y, Junk)) = Cur(M1, x + 1, y, M1[x])
      BY ONLY <3>1, StringIs
    <3>3. x + 1 = b - 4
      BY <1>1, <3>1
    <3>4. M1[x] = R
      BY ONLY <1>4, <2>00, <3>1
    <3>5. QED
      BY ONLY <2>6, <3>1, <3>2, <3>3, <3>4
  <2> HIDE DEF atRip
  <2>8. Stosq(atRip, E) = Cur(M2, b - 4, b - 5, R)
    <3>1. b - 4 \in Int /\ b - 6 \in Int /\ (b - 6) + 1 = b - 5
      BY <1>1
    <3>2. M2 = Put(M1, b - 6, E)
      BY <2>0 DEF M2
    <3>3. QED
      BY ONLY <2>7, <3>1, <3>2, StringIs
  <2> DEFINE slid == Movs(Stosq(atRip, E), 2)
  <2>9. slid = Cur(M3, b - 2, b - 3, R)
    <3>1. PICK from \in Int : from = b - 4
      BY <1>1
    <3>2. PICK n \in Nat : n = 2
      OBVIOUS
    <3>3. from - 1 \in Words /\ from + n \in Words
      BY <1>1, <3>1, <3>2
    <3>4. Movs(Cursor(Mach(M2, b - 11, q0, Up, r), from, from - 1, R), n)
            = Cursor(Mach(Slid(M2, from, n), b - 11, q0, Up, r), from + n, from + n - 1, R)
      BY ONLY <1>5, <3>3, from \in Int, n \in Nat, MovsIs
    <3>5. from - 1 = b - 5 /\ from + n = b - 2 /\ from + n - 1 = b - 3
      BY <1>1, <3>1, <3>2
    <3>6. QED
      BY ONLY <2>8, <3>1, <3>2, <3>4, <3>5 DEF M3
  <2>10. atRsp = Cur(M3, b - 1, b - 3, P)
    <3>1. PICK x, y \in Int : x = b - 2 /\ y = b - 3
      BY <1>1
    <3>2. Lodsq(Cur(M3, x, y, R)) = Cur(M3, x + 1, y, M3[x])
      BY ONLY <3>1, StringIs
    <3>3. x + 1 = b - 1 /\ x \in Words /\ x # b - 4 /\ x # b - 5 /\ x # b - 6
      BY <1>1, <3>1
    <3>4. M3[x] = P
      <4>1. M3[x] = M2[x] /\ M2[x] = M1[x]
        BY ONLY <1>5, <1>6, <3>3
      <4>2. QED
        BY ONLY <1>4, <2>00, <3>1, <4>1
    <3>5. atRsp = Lodsq(slid)
      BY ONLY <2>0
    <3>6. QED
      BY ONLY <2>9, <3>1, <3>2, <3>3, <3>4, <3>5
  <2> HIDE DEF atRsp
  <2>11. newRsp = Q /\ newRsp # Junk /\ newRsp[2] = p - 1
    <3>1. atRsp.ax = P
      BY <2>10 DEF Cursor
    <3>2. P[1] = "rsp" /\ P[2] = p
      BY <2>0
    <3>3. newRsp = Q
      BY <2>0, <3>1, <3>2
    <3>4. Q # Junk /\ Q[2] = p - 1
      BY <2>0 DEF Junk
    <3>5. QED
      BY ONLY <3>3, <3>4
  <2> HIDE DEF newRsp
  <2>12. Movsq(Stosq(atRsp, newRsp)) = Cur(M5, b, b - 1, P)
    <3>1. PICK x, y, z \in Int : x = b - 1 /\ y = b - 3 /\ z = b - 2
      BY <1>1
    <3>2. x + 1 = b /\ y + 1 = z /\ z + 1 = x
      BY <1>1, <3>1
    <3>3. Put(M3, y, Q) = M4 /\ Put(M4, z, M4[x]) = M5
      BY <2>0, <3>1 DEF M4, M5
    <3>4. Stosq(Cur(M3, x, y, P), Q) = Cur(Put(M3, y, Q), x, y + 1, P)
      BY ONLY <3>1, StringIs
    <3>5. Movsq(Cur(M4, x, z, P)) = Cur(Put(M4, z, M4[x]), x + 1, z + 1, P)
      BY ONLY <3>1, StringIs
    <3>6. Stosq(atRsp, newRsp) = Cur(M4, x, z, P)
      BY ONLY <2>10, <2>11, <3>1, <3>2, <3>3, <3>4
    <3>7. QED
      BY ONLY <3>1, <3>2, <3>3, <3>5, <3>6
  <2>13. moved = Mach(M5, b - 11, q0, Up, r)
    BY <2>12 DEF Cursor
  <2> HIDE DEF moved
  <2>14. atRip.ax = R
    BY ONLY <2>7 DEF Cursor
  <2>15. InsertCallback(s, 5, src) = [moved EXCEPT !.m[p - 1] = R]
    BY ONLY <2>4, <2>11, <2>14
  <2>16. [moved EXCEPT !.m[p - 1] = R] = Mach(M6, b - 11, q0, Up, r)
    <3>1. PICK d : d = Up
      OBVIOUS
    <3>2. moved = [m |-> M5, rsp |-> b - 11, rip |-> q0, df |-> d, r |-> r]
      BY ONLY <2>13, <3>1 DEF Mach
    <3>3. PICK f : f = Put(M5, p - 1, R)
      OBVIOUS
    <3>4. [moved EXCEPT !.m[p - 1] = R] = [m |-> f, rsp |-> b - 11, rip |-> q0, df |-> d, r |-> r]
      BY ONLY <3>2, <3>3 DEF Put
    <3>5. QED
      BY ONLY <2>0, <3>1, <3>3, <3>4 DEF Mach, M6
  <2>17. QED
    BY <2>1, <2>15, <2>16
\* What is where
<1>12. Under(M6, b - 1, 10, Callback(W, p, src)) = M6
  <2> DEFINE V == Callback(W, p, src)
  <2>1. V[2] = <<"rsp", p - 1>> /\ V[5] = <<"rip", Entry(src)>>
    BY DEF Callback
  <2>2. \A n \in 1 .. 10 : n # 2 /\ n # 5 => V[n] = W[n]
    BY DEF Callback
  <2> HIDE DEF V
  <2>3. ASSUME NEW n \in 1 .. 10 PROVE M6[b - (n + 1)] = V[n]
    <3>1. b - (n + 1) \in Words /\ b - (n + 1) # p - 1
      BY <1>1, <1>9
    <3>2. M6[b - (n + 1)] = M5[b - (n + 1)]
      BY <1>10, <3>1
    <3>3. CASE n = 1
      <4>1. b - (n + 1) = b - 2
        BY <1>1, <3>3
      <4>2. M4[b - 1] = W[1]
        BY <1>1, <1>4, <1>5, <1>6, <1>7
      <4>3. V[1] = W[1]
        BY <2>2
      <4>4. QED
        BY <1>8, <3>2, <3>3, <4>1, <4>2, <4>3
    <3>4. CASE n = 2
      <4>1. b - (n + 1) = b - 3 /\ b - 3 # b - 2 /\ b - 3 \in Words
        BY <1>1, <3>4
      <4>2. M5[b - 3] = M4[b - 3]
        BY ONLY <1>8, <4>1
      <4>3. QED
        BY ONLY <1>7, <2>1, <3>2, <3>4, <4>1, <4>2
    <3>5. CASE n \in 3 .. 10
      <4>1. M5[b - (n + 1)] = M3[b - (n + 1)]
        <5>1. b - (n + 1) # b - 2 /\ b - (n + 1) # b - 3
          BY ONLY <3>5, b \in Int
        <5>2. QED
          BY ONLY <1>7, <1>8, <3>1, <5>1
      <4>2. CASE n = 3
        <5>1. b - (n + 1) = b - 4 /\ V[3] = W[3]
          BY <1>1, <2>2, <4>2
        <5>2. QED
          BY ONLY <1>6, <3>2, <4>1, <4>2, <5>1
      <4>3. CASE n = 4
        <5>1. b - (n + 1) = b - 5 /\ V[4] = W[4]
          BY <1>1, <2>2, <4>3
        <5>2. QED
          BY ONLY <1>6, <3>2, <4>1, <4>3, <5>1
      <4>4. CASE n \in 5 .. 10
        <5>1. M3[b - (n + 1)] = M2[b - (n + 1)]
          BY <1>1, <1>6, <3>1, <4>4
        <5>2. CASE n = 5
          <6>1. b - (n + 1) = b - 6
            BY <1>1, <5>2
          <6>2. QED
            BY <1>5, <2>1, <3>2, <4>1, <5>1, <5>2, <6>1
        <5>3. CASE n \in 6 .. 10
          <6>1. n + 1 \in 7 .. 11 /\ (n + 1) - 1 = n /\ V[n] = W[n]
            BY <2>2, <5>3
          <6>2. M2[b - (n + 1)] = M1[b - (n + 1)]
            BY <1>1, <1>5, <3>1, <5>3
          <6>3. M1[b - (n + 1)] = W[n]
            BY <1>4, <6>1
          <6>4. QED
            BY <3>2, <4>1, <5>1, <6>1, <6>2, <6>3
        <5>4. QED
          BY <4>4, <5>2, <5>3
      <4>5. n = 3 \/ n = 4 \/ n \in 5 .. 10
        BY ONLY <3>5
      <4>6. QED
        BY ONLY <4>2, <4>3, <4>4, <4>5
    <3>6. QED
      BY <3>3, <3>4, <3>5
  <2>4. ASSUME NEW a \in Words PROVE Under(M6, b - 1, 10, V)[a] = M6[a]
    <3>1. CASE a \in (b - 1) - 10 .. (b - 1) - 1
      <4>1. (b - 1) - a \in 1 .. 10 /\ a = b - (((b - 1) - a) + 1)
        BY <1>1, <3>1
      <4>2. QED
        BY <2>3, <3>1, <4>1 DEF Under
    <3>2. CASE ~ (a \in (b - 1) - 10 .. (b - 1) - 1)
      BY <3>2 DEF Under
    <3>3. QED
      BY <3>1, <3>2
  <2>5. Under(M6, b - 1, 10, V) = [a \in Words |-> Under(M6, b - 1, 10, V)[a]]
    BY DEF Under
  <2>6. Under(M6, b - 1, 10, V) = M6
    BY ONLY <1>10, <2>4, <2>5 DEF IsMem
  <2>7. QED
    BY <2>6 DEF V
<1>13. ASSUME NEW a \in p .. Top - 1 PROVE M6[a] = m[a]
  <2>1. a \in Words /\ a # p - 1 /\ a \notin {b - 2, b - 3, b - 4, b - 5, b - 6} /\ ~ (a \in b - 11 .. b - 1)
    BY <1>1
  <2>2. M6[a] = M4[a]
    BY <1>8, <1>10, <2>1
  <2>3. M4[a] = M2[a]
    BY <1>6, <1>7, <2>1
  <2>4. M2[a] = m[a]
    BY <1>4, <1>5, <2>1
  <2>5. QED
    BY <2>2, <2>3, <2>4
<1> QED
  BY <1>10, <1>11, <1>12, <1>13 DEF M, Inserted

\* The machine when k words of W have been pushed under word b.
Saved(m, b, k, W, q, d, r) == Mach(Under(m, b, k, W), b - k, q, d, r)

LEMMA SavesReg ==
  ASSUME NEW m, NEW b \in Int, NEW k \in Nat, NEW W, b - k - 1 \in Words, NEW q, NEW d, NEW r,
         NEW x, W[k + 1] = r[x]
  PROVE  PushReg(Saved(m, b, k, W, q, d, r), x) = Saved(m, b, k + 1, W, q, d, r)
<1>1. PICK s : s = Mach(Under(m, b, k, W), b - k, q, d, r)
  OBVIOUS
<1>2. s.r = r
  BY <1>1 DEF Mach
<1>3. Push(s, W[k + 1]) = Saved(m, b, k + 1, W, q, d, r)
  BY <1>1, PushNext DEF Saved
<1>4. PushReg(s, x) = Push(s, r[x])
  BY <1>2 DEF PushReg
<1> QED
  BY ONLY <1>1, <1>3, <1>4, W[k + 1] = r[x] DEF Saved

LEMMA SavesFlags ==
  ASSUME NEW m, NEW b \in Int, NEW k \in Nat, NEW W, b - k - 1 \in Words, NEW q, NEW d, NEW r,
         W[k + 1] = <<"flags", d>>
  PROVE  PushFlags(Saved(m, b, k, W, q, d, r)) = Saved(m, b, k + 1, W, q, d, r)
<1>1. PICK s : s = Mach(Under(m, b, k, W), b - k, q, d, r)
  OBVIOUS
<1>2. s.df = d
  BY <1>1 DEF Mach
<1>3. Push(s, W[k + 1]) = Saved(m, b, k + 1, W, q, d, r)
  BY <1>1, PushNext DEF Saved
<1>4. PushFlags(s) = Push(s, <<"flags", d>>)
  BY <1>2 DEF PushFlags
<1> QED
  BY ONLY <1>1, <1>3, <1>4, W[k + 1] = <<"flags", d>> DEF Saved

\* A register that is popped as it was pushed.
LEMMA PopRegKeeps ==
  ASSUME NEW m, NEW p \in Int, NEW q, NEW d, NEW r, NEW x, [r EXCEPT ![x] = m[p]] = r
  PROVE  PopReg(Mach(m, p, q, d, r), x) = Mach(m, p + 1, q, d, r)
<1>1. PopReg(Mach(m, p, q, d, r), x) = Mach(m, p + 1, q, d, [r EXCEPT ![x] = m[p]])
  BY PopRegIs
<1> QED
  BY ONLY <1>1, [r EXCEPT ![x] = m[p]] = r

LEMMA PopsSame ==
  ASSUME NEW m, NEW p \in Int, NEW q, NEW d, NEW x \in {"rax", "rcx", "rsi", "rdi"}, m[p] = <<"reg", x>>
  PROVE  PopReg(Mach(m, p, q, d, Regs), x) = Mach(m, p + 1, q, d, Regs)
<1>1. PICK r : r = Regs
  OBVIOUS
<1>2. PICK y : y = x
  OBVIOUS
<1>3. [r EXCEPT ![y] = m[p]] = r
  BY <1>1, <1>2 DEF Regs
<1>4. PopReg(Mach(m, p, q, d, r), y) = Mach(m, p + 1, q, d, r)
  BY ONLY <1>3, p \in Int, PopRegKeeps
<1> QED
  BY ONLY <1>1, <1>2, <1>4

\* A frame at word c - 5 that goes on at q with flags d and stack pointer p.
FrameAt(m, c, p, q, d) == m[c - 5] = <<"rip", q>> /\ m[c - 3] = <<"flags", d>> /\ m[c - 2] = <<"rsp", p>>

LEMMA ReturnsTo ==
  ASSUME NEW m, NEW c \in Int, NEW p, NEW q, NEW d, FrameAt(m, c, p, q, d), NEW q0, NEW d0, NEW r
  PROVE  Iretq(Mach(m, c - 5, q0, d0, r)) = Mach(m, p, q, d, r)
<1>1. PICK x \in Int : x = c - 5
  OBVIOUS
<1>2. x + 2 = c - 3 /\ x + 3 = c - 2
  BY <1>1
<1>3. m[x] = <<"rip", q>> /\ m[x + 2] = <<"flags", d>> /\ m[x + 3] = <<"rsp", p>>
  BY <1>1, <1>2 DEF FrameAt
<1>4. Iretq(Mach(m, x, q0, d0, r)) = Mach(m, p, q, d, r)
  BY ONLY <1>1, <1>3, IretqIs
<1> QED
  BY ONLY <1>1, <1>4

\* rtc, from its popfq on, and from the pops before it.
LEMMA RtcReturns ==
  ASSUME NEW m, NEW c \in Int, NEW p, NEW q, NEW d, FrameAt(m, c, p, q, d), NEW q0, NEW d0,
         m[c - 7] = <<"flags", d>>, m[c - 6] = <<"reg", "rax">>
  PROVE  Iretq(PopReg(PopFlags(Mach(m, c - 7, q0, d0, Regs)), "rax")) = Mach(m, p, q, d, Regs)
<1>1. PICK x \in Int : x = c - 7
  OBVIOUS
<1>2. PICK y \in Int : y = c - 6
  OBVIOUS
<1>3. x + 1 = y /\ y + 1 = c - 5
  BY <1>1, <1>2
<1>4. PopFlags(Mach(m, x, q0, d0, Regs)) = Mach(m, x + 1, q0, d, Regs)
  BY <1>1, PopFlagsIs
<1>5. PopReg(Mach(m, y, q0, d, Regs), "rax") = Mach(m, y + 1, q0, d, Regs)
  BY <1>2, PopsSame
<1>6. Iretq(Mach(m, c - 5, q0, d, Regs)) = Mach(m, p, q, d, Regs)
  BY ReturnsTo
<1> QED
  BY ONLY <1>1, <1>3, <1>4, <1>5, <1>6

LEMMA RtcRestores ==
  ASSUME NEW m, NEW c \in Int, NEW q, NEW d,
         m[c - 10] = <<"reg", "rcx">>, m[c - 9] = <<"reg", "rsi">>, m[c - 8] = <<"reg", "rdi">>
  PROVE  PopReg(PopReg(PopReg(Mach(m, c - 10, q, d, Regs), "rcx"), "rsi"), "rdi") = Mach(m, c - 7, q, d, Regs)
<1>1. PICK x, y, z \in Int : x = c - 10 /\ y = c - 9 /\ z = c - 8
  OBVIOUS
<1>2. x + 1 = y /\ y + 1 = z /\ z + 1 = c - 7
  BY <1>1
<1>3. PopReg(Mach(m, x, q, d, Regs), "rcx") = Mach(m, x + 1, q, d, Regs)
  BY <1>1, PopsSame
<1>4. PopReg(Mach(m, y, q, d, Regs), "rsi") = Mach(m, y + 1, q, d, Regs)
  BY <1>1, PopsSame
<1>5. PopReg(Mach(m, z, q, d, Regs), "rdi") = Mach(m, z + 1, q, d, Regs)
  BY <1>1, PopsSame
<1> QED
  BY ONLY <1>1, <1>2, <1>3, <1>4, <1>5

\* network, from its popfq on.
LEMMA NetworkReturns ==
  ASSUME NEW m, NEW c \in Int, NEW p, NEW q, NEW d, FrameAt(m, c, p, q, d), NEW q0, NEW d0,
         m[c - 10] = <<"flags", d>>, m[c - 9] = <<"reg", "rax">>, m[c - 8] = <<"reg", "rcx">>,
         m[c - 7] = <<"reg", "rsi">>, m[c - 6] = <<"reg", "rdi">>
  PROVE  Iretq(PopReg(PopReg(PopReg(PopReg(PopFlags(Mach(m, c - 10, q0, d0, Regs)), "rax"), "rcx"), "rsi"), "rdi"))
           = Mach(m, p, q, d, Regs)
<1>1. PICK v, w, x, y, z \in Int : v = c - 10 /\ w = c - 9 /\ x = c - 8 /\ y = c - 7 /\ z = c - 6
  OBVIOUS
<1>2. v + 1 = w /\ w + 1 = x /\ x + 1 = y /\ y + 1 = z /\ z + 1 = c - 5
  BY <1>1
<1>3. PopFlags(Mach(m, v, q0, d0, Regs)) = Mach(m, v + 1, q0, d, Regs)
  BY <1>1, PopFlagsIs
<1>4. PopReg(Mach(m, w, q0, d, Regs), "rax") = Mach(m, w + 1, q0, d, Regs)
  BY <1>1, PopsSame
<1>5. PopReg(Mach(m, x, q0, d, Regs), "rcx") = Mach(m, x + 1, q0, d, Regs)
  BY <1>1, PopsSame
<1>6. PopReg(Mach(m, y, q0, d, Regs), "rsi") = Mach(m, y + 1, q0, d, Regs)
  BY <1>1, PopsSame
<1>7. PopReg(Mach(m, z, q0, d, Regs), "rdi") = Mach(m, z + 1, q0, d, Regs)
  BY <1>1, PopsSame
<1>8. Iretq(Mach(m, c - 5, q0, d, Regs)) = Mach(m, p, q, d, Regs)
  BY ReturnsTo
<1> QED
  BY ONLY <1>1, <1>2, <1>3, <1>4, <1>5, <1>6, <1>7, <1>8

\* What a handler pushes under the frame, the words from 6 on.
RtcPushes(W, d) == /\ W[6] = <<"reg", "rax">> /\ W[7] = <<"flags", d>>
                   /\ W[8] = <<"reg", "rdi">> /\ W[9] = <<"reg", "rsi">> /\ W[10] = <<"reg", "rcx">>
NetworkPushes(W, d) == /\ W[6] = <<"reg", "rdi">> /\ W[7] = <<"reg", "rsi">> /\ W[8] = <<"reg", "rcx">>
                       /\ W[9] = <<"reg", "rax">> /\ W[10] = <<"flags", d>>

LEMMA Registers == Regs["rax"] = <<"reg", "rax">> /\ Regs["rcx"] = <<"reg", "rcx">>
                   /\ Regs["rsi"] = <<"reg", "rsi">> /\ Regs["rdi"] = <<"reg", "rdi">>
BY DEF Regs

\* Room for all that a handler pushes.
Roomy(p, b) == p \in Words /\ b \in Int /\ b = p - (p % 2) /\ b \in {p - 1, p} /\ \A n \in 1 .. 11 : b - n \in Words

LEMMA RoomIs ==
  ASSUME NEW p \in Words, p - 12 \in Words
  PROVE  \E b \in Int : Roomy(p, b)
<1>1. p \in Int /\ p - (p % 2) \in Int
  BY IrqAssumption DEF Words
<1>2. PICK b \in Int : b = p - (p % 2)
  BY <1>1
<1>3. b \in {p - 1, p}
  BY <1>1, <1>2, AlignIs
<1>4. \A n \in 1 .. 11 : b - n \in Words
  BY <1>1, <1>3, IrqAssumption DEF Words
<1> QED
  BY <1>2, <1>3, <1>4 DEF Roomy

LEMMA SavesAll ==
  ASSUME NEW m, IsMem(m), NEW p, NEW b, Roomy(p, b), NEW q, NEW d, NEW W, IsFrame(W, p, q, d)
  PROVE  /\ Deliver(Mach(m, p, q, d, Regs)) = Saved(m, b, 5, W, q, d, Regs)
         /\ \A k \in 5 .. 9 :
              /\ \A x : W[k + 1] = Regs[x] => PushReg(Saved(m, b, k, W, q, d, Regs), x) = Saved(m, b, k + 1, W, q, d, Regs)
              /\ W[k + 1] = <<"flags", d>> => PushFlags(Saved(m, b, k, W, q, d, Regs)) = Saved(m, b, k + 1, W, q, d, Regs)
<1>1. PICK r : r = Regs
  OBVIOUS
<1>2. p \in Int /\ b \in 0 .. Top /\ b - 5 \in Words
  BY IrqAssumption DEF Roomy, Words
<1>3. b = p - (p % 2)
  BY DEF Roomy
<1>4. Deliver(Mach(m, p, q, d, r)) = Mach(Under(m, b, 5, W), b - 5, q, d, r)
  BY ONLY IsMem(m), <1>2, <1>3, IsFrame(W, p, q, d), DeliverIs
<1>5. ASSUME NEW k \in 5 .. 9
      PROVE  /\ \A x : W[k + 1] = r[x] => PushReg(Saved(m, b, k, W, q, d, r), x) = Saved(m, b, k + 1, W, q, d, r)
             /\ W[k + 1] = <<"flags", d>> => PushFlags(Saved(m, b, k, W, q, d, r)) = Saved(m, b, k + 1, W, q, d, r)
  <2>1. b \in Int /\ k \in Nat /\ b - k - 1 \in Words
    BY DEF Roomy, Words
  <2>2. ASSUME NEW x, W[k + 1] = r[x]
        PROVE  PushReg(Saved(m, b, k, W, q, d, r), x) = Saved(m, b, k + 1, W, q, d, r)
    BY ONLY <2>1, <2>2, SavesReg
  <2>3. ASSUME W[k + 1] = <<"flags", d>>
        PROVE  PushFlags(Saved(m, b, k, W, q, d, r)) = Saved(m, b, k + 1, W, q, d, r)
    BY ONLY <2>1, <2>3, SavesFlags
  <2>4. QED
    BY <2>2, <2>3
<1> QED
  BY ONLY <1>1, <1>4, <1>5 DEF Saved

LEMMA RtcSaves ==
  ASSUME NEW m, IsMem(m), NEW p, NEW b, Roomy(p, b), NEW q, NEW d, NEW W, IsFrame(W, p, q, d), RtcPushes(W, d)
  PROVE  /\ PushFlags(PushReg(Deliver(Mach(m, p, q, d, Regs)), "rax")) = Saved(m, b, 7, W, q, d, Regs)
         /\ PushReg(PushReg(PushReg(Saved(m, b, 7, W, q, d, Regs), "rdi"), "rsi"), "rcx")
              = Saved(m, b, 10, W, q, d, Regs)
<1> DEFINE S(k) == Saved(m, b, k, W, q, d, Regs)
<1>1. Deliver(Mach(m, p, q, d, Regs)) = S(5)
  BY SavesAll
<1>2. ASSUME NEW k \in 5 .. 9
      PROVE  /\ \A x : W[k + 1] = Regs[x] => PushReg(S(k), x) = S(k + 1)
             /\ W[k + 1] = <<"flags", d>> => PushFlags(S(k)) = S(k + 1)
  BY SavesAll
<1> HIDE DEF S
<1>3. PushReg(S(5), "rax") = S(6) /\ PushFlags(S(6)) = S(7)
  BY <1>2, Registers DEF RtcPushes
<1>4. PushReg(S(7), "rdi") = S(8) /\ PushReg(S(8), "rsi") = S(9) /\ PushReg(S(9), "rcx") = S(10)
  BY <1>2, Registers DEF RtcPushes
<1> QED
  BY <1>1, <1>3, <1>4 DEF S

LEMMA NetworkSaves ==
  ASSUME NEW m, IsMem(m), NEW p, NEW b, Roomy(p, b), NEW q, NEW d, NEW W, IsFrame(W, p, q, d), NetworkPushes(W, d)
  PROVE  PushFlags(PushReg(PushReg(PushReg(PushReg(Deliver(Mach(m, p, q, d, Regs)), "rdi"), "rsi"), "rcx"), "rax"))
           = Saved(m, b, 10, W, q, d, Regs)
<1> DEFINE S(k) == Saved(m, b, k, W, q, d, Regs)
<1>1. Deliver(Mach(m, p, q, d, Regs)) = S(5)
  BY SavesAll
<1>2. ASSUME NEW k \in 5 .. 9
      PROVE  /\ \A x : W[k + 1] = Regs[x] => PushReg(S(k), x) = S(k + 1)
             /\ W[k + 1] = <<"flags", d>> => PushFlags(S(k)) = S(k + 1)
  BY SavesAll
<1> HIDE DEF S
<1>3. PushReg(S(5), "rdi") = S(6) /\ PushReg(S(6), "rsi") = S(7) /\ PushReg(S(7), "rcx") = S(8)
      /\ PushReg(S(8), "rax") = S(9)
  BY <1>2, Registers DEF NetworkPushes
<1>4. PushFlags(S(9)) = S(10)
  BY <1>2 DEF NetworkPushes
<1> QED
  BY <1>1, <1>3, <1>4 DEF S

\* The memory n is m with the first k words of W under word b.
Lies(n, m, b, k, W) ==
  IsMem(n) /\ (\A i \in 1 .. k : n[b - i] = W[i]) /\ \A a \in Words : ~ (a \in b - k .. b - 1) => n[a] = m[a]

\* The words that have been pushed, read back.
LEMMA UnderLies ==
  ASSUME NEW m, NEW b \in Int, NEW k \in Nat, NEW W, \A n \in 1 .. k : b - n \in Words
  PROVE  Lies(Under(m, b, k, W), m, b, k, W)
<1>1. ASSUME NEW n \in 1 .. k PROVE Under(m, b, k, W)[b - n] = W[n]
  <2>1. b - n \in b - k .. b - 1 /\ b - (b - n) = n
    OBVIOUS
  <2>2. QED
    BY <2>1 DEF Under
<1>2. IsMem(Under(m, b, k, W))
  BY DEF Under, IsMem
<1>3. \A a \in Words : ~ (a \in b - k .. b - 1) => Under(m, b, k, W)[a] = m[a]
  BY DEF Under
<1>4. QED
  BY <1>1, <1>2, <1>3 DEF Lies

\* What a handler with a callback leaves: the address q lies below what the program has on its
\* stack, which is as it was.
Left(n, m, p, q) == IsMem(n) /\ n[p - 1] = <<"rip", q>> /\ \A a \in p .. Top - 1 : n[a] = m[a]

LEMMA InsertFrame ==
  ASSUME NEW m, IsMem(m), NEW p, NEW b, Roomy(p, b), NEW q, NEW W, NEW was, IsFrame(W, p, q, was), NEW src
  PROVE  \E n, c : /\ c \in Int /\ Left(n, m, p, q) /\ FrameAt(n, c, p - 1, Entry(src), was)
                    /\ \A k \in 6 .. 10 : n[c - k] = W[k]
                    /\ InsertCallback(Saved(m, b, 10, W, q, Up, Regs), 5, src) = Mach(n, c - 10, q, Up, Regs)
<1> DEFINE V == Callback(W, p, src)
<1>1. PICK r : r = Regs
  OBVIOUS
<1>2. p \in Int /\ p \in Words /\ b \in {p - 1, p} /\ b - 11 \in Words
  BY DEF Roomy, Words
<1>3. PICK n : /\ IsMem(n)
               /\ n[p - 1] = <<"rip", q>>
               /\ \A a \in p .. Top - 1 : n[a] = m[a]
               /\ InsertCallback(Mach(Under(m, b, 10, W), b - 10, q, Up, r), 5, src)
                    = Mach(Under(n, b - 1, 10, Callback(W, p, src)), b - 11, q, Up, r)
  <2>1. Inserted(m, b, W, p, q, q, r, src)
    BY ONLY IsMem(m), IsFrame(W, p, q, was), <1>2, InsertIs
  <2>2. QED
    BY ONLY <2>1 DEF Inserted
<1>4. PICK c \in Int : c = b - 1
  BY DEF Roomy
<1>5. PICK N : N = Under(n, c, 10, V)
  OBVIOUS
<1>6. b \in Int /\ c - 10 = b - 11 /\ \A k \in 1 .. 10 : c - k = b - (k + 1) /\ c - k \in Words
  BY <1>4 DEF Roomy
<1>7. IsMem(N) /\ (\A k \in 1 .. 10 : N[c - k] = V[k]) /\ \A a \in Words : ~ (a \in c - 10 .. c - 1) => N[a] = n[a]
  <2>1. PICK k \in Nat : k = 10
    OBVIOUS
  <2>2. PICK U : U = V
    OBVIOUS
  <2> HIDE DEF V
  <2>3. \A i \in 1 .. k : c - i \in Words
    BY ONLY <1>6, <2>1
  <2>4. Lies(Under(n, c, k, U), n, c, k, U)
    BY ONLY <2>3, c \in Int, k \in Nat, UnderLies
  <2>5. QED
    BY ONLY <1>5, <2>1, <2>2, <2>4 DEF Lies
<1>8. V[2] = <<"rsp", p - 1>> /\ V[5] = <<"rip", Entry(src)>> /\ V[3] = W[3] /\ \A k \in 6 .. 10 : V[k] = W[k]
  BY DEF Callback
<1> HIDE DEF V
<1>9. Left(N, m, p, q)
  <2>1. ASSUME NEW a \in p .. Top - 1 PROVE a \in Words /\ ~ (a \in c - 10 .. c - 1)
    BY <1>2, <1>4, IrqAssumption DEF Words
  <2>2. p - 1 \in Words /\ ~ (p - 1 \in c - 10 .. c - 1)
    BY <1>2, <1>4, <1>6, IrqAssumption DEF Words
  <2>3. N[p - 1] = <<"rip", q>>
    BY <1>3, <1>7, <2>2
  <2>4. \A a \in p .. Top - 1 : N[a] = m[a]
    BY <1>3, <1>7, <2>1
  <2>5. QED
    BY <1>7, <2>3, <2>4 DEF Left
<1>10. FrameAt(N, c, p - 1, Entry(src), was)
  <2>1. W[3] = <<"flags", was>>
    BY DEF IsFrame
  <2>2. N[c - 5] = V[5] /\ N[c - 3] = V[3] /\ N[c - 2] = V[2]
    BY ONLY <1>7
  <2>3. QED
    BY ONLY <1>8, <2>1, <2>2 DEF FrameAt
<1>11. \A k \in 6 .. 10 : N[c - k] = W[k]
  <2>1. ASSUME NEW k \in 6 .. 10 PROVE N[c - k] = W[k]
    <3>1. k \in 1 .. 10
      OBVIOUS
    <3>2. QED
      BY ONLY <1>7, <1>8, <3>1, k \in 6 .. 10
  <2>2. QED
    BY <2>1
<1>12. InsertCallback(Saved(m, b, 10, W, q, Up, Regs), 5, src) = Mach(N, c - 10, q, Up, Regs)
  <2>1. Mach(Under(n, b - 1, 10, Callback(W, p, src)), b - 11, q, Up, r) = Mach(N, c - 10, q, Up, r)
    BY ONLY <1>4, <1>5, <1>6 DEF V
  <2>2. QED
    BY ONLY <1>1, <1>3, <2>1 DEF Saved
<1> QED
  BY <1>4, <1>9, <1>10, <1>11, <1>12

\* rtc with a callback, the direction flag being clear: clock_callback is next, as a function that
\* was called at q.
LEMMA RtcCalls ==
  ASSUME NEW m, IsMem(m), NEW p \in Words, p - 12 \in Words, NEW q, callback["clock"]
  PROVE  \E n : Left(n, m, p, q) /\ RtcHandler(Mach(m, p, q, Up, Regs)) = Mach(n, p - 1, Entry("clock"), Up, Regs)
<1>1. PICK b \in Int : Roomy(p, b)
  BY RoomIs
<1>2. PICK d : d = Up
  OBVIOUS
<1>3. PICK W : IsFrame(W, p, q, d) /\ RtcPushes(W, d)
  <2> DEFINE T == << <<"seg", "ss">>, <<"rsp", p>>, <<"flags", d>>, <<"seg", "cs">>, <<"rip", q>>,
                     <<"reg", "rax">>, <<"flags", d>>, <<"reg", "rdi">>, <<"reg", "rsi">>, <<"reg", "rcx">> >>
  <2>1. IsFrame(T, p, q, d) /\ RtcPushes(T, d)
    BY DEF IsFrame, RtcPushes
  <2>2. QED
    BY ONLY <2>1
<1>4. PICK n, c : /\ c \in Int /\ Left(n, m, p, q) /\ FrameAt(n, c, p - 1, Entry("clock"), d)
                  /\ \A k \in 6 .. 10 : n[c - k] = W[k]
                  /\ InsertCallback(Saved(m, b, 10, W, q, Up, Regs), 5, "clock") = Mach(n, c - 10, q, Up, Regs)
  BY ONLY IsMem(m), <1>1, <1>3, InsertFrame
<1> DEFINE s == Mach(m, p, q, d, Regs)
           saved == PushFlags(PushReg(Deliver(s), "rax"))
           more == PushReg(PushReg(PushReg(saved, "rdi"), "rsi"), "rcx")
           called == InsertCallback(more, 5, "clock")
           back == PopReg(PopReg(PopReg(called, "rcx"), "rsi"), "rdi")
<1>5. RtcHandler(s) = Iretq(PopReg(PopFlags(back), "rax"))
  BY DEF RtcHandler
<1>6. more = Saved(m, b, 10, W, q, d, Regs)
  BY ONLY IsMem(m), <1>1, <1>3, RtcSaves
<1> HIDE DEF more
<1>7. called = Mach(n, c - 10, q, d, Regs)
  BY ONLY <1>2, <1>4, <1>6
<1> HIDE DEF called
<1>8. n[c - 10] = <<"reg", "rcx">> /\ n[c - 9] = <<"reg", "rsi">> /\ n[c - 8] = <<"reg", "rdi">>
      /\ n[c - 7] = <<"flags", d>> /\ n[c - 6] = <<"reg", "rax">>
  BY ONLY <1>3, <1>4 DEF RtcPushes
<1>9. back = Mach(n, c - 7, q, d, Regs)
  <2>1. c \in Int
    BY <1>4
  <2>2. QED
    BY ONLY <1>7, <1>8, <2>1, RtcRestores
<1> HIDE DEF back
<1>10. Iretq(PopReg(PopFlags(Mach(n, c - 7, q, d, Regs)), "rax")) = Mach(n, p - 1, Entry("clock"), d, Regs)
  BY ONLY <1>4, <1>8, RtcReturns
<1> QED
  BY ONLY <1>2, <1>4, <1>5, <1>9, <1>10

\* What a handler without a callback leaves: what the program has on its stack is as it was.
Same(n, m, p) == IsMem(n) /\ \A a \in p .. Top - 1 : n[a] = m[a]

\* What has been pushed, read back, and what was there before.
LEMMA SavedIs ==
  ASSUME NEW m, NEW p, NEW b, Roomy(p, b), NEW k \in 7 .. 10, NEW q, NEW d, NEW W, IsFrame(W, p, q, d)
  PROVE  /\ Same(Under(m, b, k, W), m, p) /\ FrameAt(Under(m, b, k, W), b, p, q, d)
         /\ \A i \in 6 .. k : Under(m, b, k, W)[b - i] = W[i]
<1>1. PICK n : n = Under(m, b, k, W)
  OBVIOUS
<1>2. b \in Int /\ k \in Nat /\ \A i \in 1 .. k : b - i \in Words
  BY DEF Roomy
<1>3. IsMem(n) /\ (\A i \in 1 .. k : n[b - i] = W[i]) /\ \A a \in Words : ~ (a \in b - k .. b - 1) => n[a] = m[a]
  <2>1. Lies(Under(m, b, k, W), m, b, k, W)
    BY ONLY <1>2, UnderLies
  <2>2. QED
    BY ONLY <1>1, <2>1 DEF Lies
<1>4. Same(n, m, p)
  <2>1. ASSUME NEW a \in p .. Top - 1 PROVE a \in Words /\ ~ (a \in b - k .. b - 1)
    BY IrqAssumption DEF Words, Roomy
  <2>2. QED
    BY ONLY <1>3, <2>1 DEF Same
<1>5. FrameAt(n, b, p, q, d)
  <2>1. n[b - 5] = W[5] /\ n[b - 3] = W[3] /\ n[b - 2] = W[2]
    BY ONLY <1>3, k \in 7 .. 10
  <2>2. QED
    BY ONLY <2>1, IsFrame(W, p, q, d) DEF FrameAt, IsFrame
<1> QED
  BY <1>1, <1>3, <1>4, <1>5

\* rtc without a callback: the program goes on.
LEMMA RtcPasses ==
  ASSUME NEW m, IsMem(m), NEW p \in Words, p - 12 \in Words, NEW q, NEW d, ~ callback["clock"]
  PROVE  \E n : Same(n, m, p) /\ RtcHandler(Mach(m, p, q, d, Regs)) = Mach(n, p, q, d, Regs)
<1>1. PICK b \in Int : Roomy(p, b)
  BY RoomIs
<1>3. PICK W : IsFrame(W, p, q, d) /\ RtcPushes(W, d)
  <2> DEFINE T == << <<"seg", "ss">>, <<"rsp", p>>, <<"flags", d>>, <<"seg", "cs">>, <<"rip", q>>,
                     <<"reg", "rax">>, <<"flags", d>>, <<"reg", "rdi">>, <<"reg", "rsi">>, <<"reg", "rcx">> >>
  <2>1. IsFrame(T, p, q, d) /\ RtcPushes(T, d)
    BY DEF IsFrame, RtcPushes
  <2>2. QED
    BY ONLY <2>1
<1> DEFINE s == Mach(m, p, q, d, Regs)
           saved == PushFlags(PushReg(Deliver(s), "rax"))
           n == Under(m, b, 7, W)
<1>4. RtcHandler(s) = Iretq(PopReg(PopFlags(saved), "rax"))
  BY DEF RtcHandler
<1>5. saved = Mach(n, b - 7, q, d, Regs)
  <2>1. saved = Saved(m, b, 7, W, q, d, Regs)
    BY ONLY IsMem(m), <1>1, <1>3, RtcSaves
  <2>2. QED
    BY ONLY <2>1 DEF Saved
<1> HIDE DEF saved
<1>6. Same(n, m, p) /\ FrameAt(n, b, p, q, d) /\ n[b - 6] = W[6] /\ n[b - 7] = W[7]
  <2>1. PICK k \in 7 .. 10 : k = 7
    OBVIOUS
  <2>2. /\ Same(Under(m, b, k, W), m, p) /\ FrameAt(Under(m, b, k, W), b, p, q, d)
        /\ \A i \in 6 .. k : Under(m, b, k, W)[b - i] = W[i]
    BY ONLY <1>1, <1>3, k \in 7 .. 10, SavedIs
  <2>3. QED
    BY ONLY <2>1, <2>2
<1> HIDE DEF n
<1>7. n[b - 7] = <<"flags", d>> /\ n[b - 6] = <<"reg", "rax">>
  BY ONLY <1>3, <1>6 DEF RtcPushes
<1>8. Iretq(PopReg(PopFlags(Mach(n, b - 7, q, d, Regs)), "rax")) = Mach(n, p, q, d, Regs)
  BY ONLY b \in Int, <1>6, <1>7, RtcReturns
<1> QED
  BY ONLY <1>4, <1>5, <1>6, <1>8

\* The direction flag is set or cleared; network clears it for itself.
Flag(s, e) == [s EXCEPT !.df = e]

LEMMA FlagIs ==
  ASSUME NEW m, NEW p, NEW q, NEW d, NEW r, NEW e
  PROVE  Flag(Mach(m, p, q, d, r), e) = Mach(m, p, q, e, r)
<1>1. ASSUME NEW s, s = [m |-> m, rsp |-> p, rip |-> q, df |-> d, r |-> r]
      PROVE  [s EXCEPT !.df = e] = [m |-> m, rsp |-> p, rip |-> q, df |-> e, r |-> r]
  BY <1>1
<1> QED
  BY <1>1 DEF Mach, Flag

Cleared(s) == [s EXCEPT !.df = FALSE]

LEMMA ClearIs ==
  ASSUME NEW m, NEW p, NEW q, NEW d, NEW r
  PROVE  Cleared(Mach(m, p, q, d, r)) = Mach(m, p, q, Up, r)
<1>1. PICK e : e = Up
  OBVIOUS
<1>2. Flag(Mach(m, p, q, d, r), e) = Mach(m, p, q, e, r)
  BY FlagIs
<1> QED
  BY ONLY <1>1, <1>2 DEF Up, Cleared, Flag

\* There is a callback for what was received.
Takes(rx) == rx /\ callback["network"]

\* network with a callback for what was received: network_callback is next, as a function that was
\* called at q.
LEMMA NetworkCalls ==
  ASSUME NEW m, IsMem(m), NEW p \in Words, p - 12 \in Words, NEW q, NEW d, NEW rx, Takes(rx)
  PROVE  \E n : Left(n, m, p, q) /\ NetworkHandler(Mach(m, p, q, d, Regs), rx) = Mach(n, p - 1, Entry("network"), d, Regs)
<1>1. PICK b \in Int : Roomy(p, b)
  BY RoomIs
<1>3. PICK W : IsFrame(W, p, q, d) /\ NetworkPushes(W, d)
  <2> DEFINE T == << <<"seg", "ss">>, <<"rsp", p>>, <<"flags", d>>, <<"seg", "cs">>, <<"rip", q>>,
                     <<"reg", "rdi">>, <<"reg", "rsi">>, <<"reg", "rcx">>, <<"reg", "rax">>, <<"flags", d>> >>
  <2>1. IsFrame(T, p, q, d) /\ NetworkPushes(T, d)
    BY DEF IsFrame, NetworkPushes
  <2>2. QED
    BY ONLY <2>1
<1>4. PICK n, c : /\ c \in Int /\ Left(n, m, p, q) /\ FrameAt(n, c, p - 1, Entry("network"), d)
                  /\ \A k \in 6 .. 10 : n[c - k] = W[k]
                  /\ InsertCallback(Saved(m, b, 10, W, q, Up, Regs), 5, "network") = Mach(n, c - 10, q, Up, Regs)
  BY ONLY IsMem(m), <1>1, <1>3, InsertFrame
<1> DEFINE s == Mach(m, p, q, d, Regs)
           saved == PushFlags(PushReg(PushReg(PushReg(PushReg(Deliver(s), "rdi"), "rsi"), "rcx"), "rax"))
           cleared == Cleared(saved)
           called == InsertCallback(cleared, 5, "network")
<1>5. NetworkHandler(s, rx) = Iretq(PopReg(PopReg(PopReg(PopReg(PopFlags(called), "rax"), "rcx"), "rsi"), "rdi"))
  BY DEF NetworkHandler, Cleared, Takes
<1>6. cleared = Saved(m, b, 10, W, q, Up, Regs)
  <2>1. saved = Saved(m, b, 10, W, q, d, Regs)
    BY ONLY IsMem(m), <1>1, <1>3, NetworkSaves
  <2> HIDE DEF saved
  <2>2. Cleared(Mach(Under(m, b, 10, W), b - 10, q, d, Regs)) = Mach(Under(m, b, 10, W), b - 10, q, Up, Regs)
    BY ONLY ClearIs
  <2>3. QED
    BY ONLY <2>1, <2>2 DEF Saved
<1> HIDE DEF cleared
<1>7. called = Mach(n, c - 10, q, Up, Regs)
  BY ONLY <1>4, <1>6
<1> HIDE DEF called
<1>8. n[c - 10] = <<"flags", d>> /\ n[c - 9] = <<"reg", "rax">> /\ n[c - 8] = <<"reg", "rcx">>
      /\ n[c - 7] = <<"reg", "rsi">> /\ n[c - 6] = <<"reg", "rdi">>
  BY ONLY <1>3, <1>4 DEF NetworkPushes
<1>10. Iretq(PopReg(PopReg(PopReg(PopReg(PopFlags(Mach(n, c - 10, q, Up, Regs)), "rax"), "rcx"), "rsi"), "rdi"))
         = Mach(n, p - 1, Entry("network"), d, Regs)
  BY ONLY <1>4, <1>8, NetworkReturns
<1> QED
  BY ONLY <1>4, <1>5, <1>7, <1>10

\* network without one: the program goes on.
LEMMA NetworkPasses ==
  ASSUME NEW m, IsMem(m), NEW p \in Words, p - 12 \in Words, NEW q, NEW d, NEW rx, ~ Takes(rx)
  PROVE  \E n : Same(n, m, p) /\ NetworkHandler(Mach(m, p, q, d, Regs), rx) = Mach(n, p, q, d, Regs)
<1>1. PICK b \in Int : Roomy(p, b)
  BY RoomIs
<1>3. PICK W : IsFrame(W, p, q, d) /\ NetworkPushes(W, d)
  <2> DEFINE T == << <<"seg", "ss">>, <<"rsp", p>>, <<"flags", d>>, <<"seg", "cs">>, <<"rip", q>>,
                     <<"reg", "rdi">>, <<"reg", "rsi">>, <<"reg", "rcx">>, <<"reg", "rax">>, <<"flags", d>> >>
  <2>1. IsFrame(T, p, q, d) /\ NetworkPushes(T, d)
    BY DEF IsFrame, NetworkPushes
  <2>2. QED
    BY ONLY <2>1
<1> DEFINE s == Mach(m, p, q, d, Regs)
           saved == PushFlags(PushReg(PushReg(PushReg(PushReg(Deliver(s), "rdi"), "rsi"), "rcx"), "rax"))
           cleared == Cleared(saved)
           n == Under(m, b, 10, W)
<1>4. NetworkHandler(s, rx) = Iretq(PopReg(PopReg(PopReg(PopReg(PopFlags(cleared), "rax"), "rcx"), "rsi"), "rdi"))
  BY DEF NetworkHandler, Cleared, Takes
<1>5. cleared = Mach(n, b - 10, q, Up, Regs)
  <2>1. saved = Saved(m, b, 10, W, q, d, Regs)
    BY ONLY IsMem(m), <1>1, <1>3, NetworkSaves
  <2> HIDE DEF saved
  <2>2. Cleared(Mach(n, b - 10, q, d, Regs)) = Mach(n, b - 10, q, Up, Regs)
    BY ONLY ClearIs
  <2>3. QED
    BY ONLY <2>1, <2>2 DEF Saved
<1> HIDE DEF cleared
<1>6. Same(n, m, p) /\ FrameAt(n, b, p, q, d) /\ \A i \in 6 .. 10 : n[b - i] = W[i]
  <2>1. PICK k \in 7 .. 10 : k = 10
    OBVIOUS
  <2>2. /\ Same(Under(m, b, k, W), m, p) /\ FrameAt(Under(m, b, k, W), b, p, q, d)
        /\ \A i \in 6 .. k : Under(m, b, k, W)[b - i] = W[i]
    BY ONLY <1>1, <1>3, k \in 7 .. 10, SavedIs
  <2>3. QED
    BY ONLY <2>1, <2>2
<1> HIDE DEF n
<1>7. n[b - 10] = <<"flags", d>> /\ n[b - 9] = <<"reg", "rax">> /\ n[b - 8] = <<"reg", "rcx">>
      /\ n[b - 7] = <<"reg", "rsi">> /\ n[b - 6] = <<"reg", "rdi">>
  BY ONLY <1>3, <1>6 DEF NetworkPushes
<1>8. Iretq(PopReg(PopReg(PopReg(PopReg(PopFlags(Mach(n, b - 10, q, Up, Regs)), "rax"), "rcx"), "rsi"), "rdi"))
        = Mach(n, p, q, d, Regs)
  BY ONLY b \in Int, <1>6, <1>7, NetworkReturns
<1> QED
  BY ONLY <1>4, <1>5, <1>6, <1>8

-----------------------------------------------------------------------------
(* The invariant                                                           *)

LEMMA SeqIs ==
  ASSUME NEW t, IsSeq(t)
  PROVE  t \in Seq({t[n] : n \in 1 .. Len(t)})
<1>1. t \in [1 .. Len(t) -> {t[n] : n \in 1 .. Len(t)}] /\ Len(t) \in Nat
  BY DEF IsSeq
<1> QED
  BY ONLY <1>1, SeqDef

LEMMA IsSeqs ==
  ASSUME NEW S, NEW t \in Seq(S)
  PROVE  IsSeq(t)
BY DEF IsSeq

LEMMA AppendIs ==
  ASSUME NEW t, IsSeq(t), NEW x
  PROVE  /\ IsSeq(Append(t, x)) /\ Len(Append(t, x)) = Len(t) + 1
         /\ \A n \in 1 .. Len(t) : Append(t, x)[n] = t[n]
         /\ Append(t, x)[Len(t) + 1] = x
<1>1. PICK S : t \in Seq(S) /\ x \in S
  <2> DEFINE S == {t[n] : n \in 1 .. Len(t)}
  <2>1. t \in Seq(S)
    BY SeqIs
  <2> HIDE DEF S
  <2>2. t \in Seq(S \cup {x})
    BY <2>1
  <2>3. QED
    BY <2>2
<1>2. Append(t, x) \in Seq(S)
  BY <1>1
<1>3. IsSeq(Append(t, x))
  BY <1>2, IsSeqs
<1> QED
  BY <1>1, <1>3

LEMMA FrontIs ==
  ASSUME NEW t, IsSeq(t), Len(t) > 0
  PROVE  /\ IsSeq(SubSeq(t, 1, Len(t) - 1)) /\ Len(SubSeq(t, 1, Len(t) - 1)) = Len(t) - 1
         /\ \A n \in 1 .. Len(t) - 1 : SubSeq(t, 1, Len(t) - 1)[n] = t[n]
<1>1. PICK S : t \in Seq(S)
  BY SeqIs
<1>2. Len(t) \in Nat
  BY <1>1
<1>3. PICK k \in Nat : k = Len(t) - 1
  BY <1>2
<1>4. \A i \in 1 .. k : t[i] \in S
  BY <1>1, <1>2, <1>3
<1>5. /\ SubSeq(t, 1, k) \in Seq(S)
      /\ Len(SubSeq(t, 1, k)) = IF 1 <= k THEN k - 1 + 1 ELSE 0
      /\ \A i \in 1 .. k - 1 + 1 : SubSeq(t, 1, k)[i] = t[1 + i - 1]
  BY <1>4, SubSeqProperties
<1>6. Len(SubSeq(t, 1, k)) = k
  BY <1>5
<1>7. \A i \in 1 .. k : SubSeq(t, 1, k)[i] = t[i]
  BY <1>5
<1>8. IsSeq(SubSeq(t, 1, k))
  BY <1>5, IsSeqs
<1> QED
  BY ONLY <1>3, <1>6, <1>7, <1>8

\* The context the core is in.
LEMMA Here ==
  ASSUME IrqInv
  PROVE  /\ Depth \in 1 .. MaxNest + 1 /\ Len(interrupted) = Depth - 1 /\ At(Depth) = Context
         /\ Machine = Mach(stack, rsp, rip, df, Regs) /\ regs = Regs
         /\ IsMem(stack) /\ Clean(stack, rsp) = stack
         /\ rsp \in Int /\ rsp >= Top - 3 * Depth /\ rsp <= Top - 1
         /\ rsp \in Words /\ rsp - 12 \in Words
<1>1. Len(interrupted) \in Nat /\ Len(interrupted) <= MaxNest /\ MaxNest \in Nat /\ Top \in Nat
      /\ Top >= 20 * (MaxNest + 1) + 4
  BY IrqAssumption DEF IrqInv, IrqTypeOK, IsSeq
<1>2. Depth \in 1 .. MaxNest + 1 /\ Len(interrupted) = Depth - 1
  BY <1>1 DEF Depth
<1>3. At(Depth) = Context /\ Sound(At(Depth), Depth, df)
  BY <1>2 DEF At, IrqInv, ContextsSound
<1>4. PICK c : c = Context
  OBVIOUS
<1>5. c.rsp = rsp /\ c.regs = regs /\ c.stack = stack
  BY <1>4 DEF Context
<1>6. Sound(c, Depth, df)
  BY ONLY <1>3, <1>4
<1>7. c.regs = Regs
  <2>1. PICK x : x = [rip |-> c.rip, rsp |-> c.rsp, df |-> df, regs |-> Regs, stack |-> c.stack]
    OBVIOUS
  <2>2. x.regs = Regs
    BY ONLY <2>1
  <2>3. QED
    BY ONLY <1>6, <2>1, <2>2 DEF Sound
<1>8. regs = Regs
  BY <1>5, <1>7
<1>9. rsp \in Top - 3 * Depth .. Top - 1 /\ IsMem(stack) /\ \A a \in Words : a < rsp => stack[a] = Junk
  BY ONLY <1>5, <1>6 DEF Sound
<1>10. rsp \in Int /\ rsp >= Top - 3 * Depth /\ rsp <= Top - 1
  BY <1>1, <1>2, <1>9
<1>11. rsp \in Words /\ rsp - 12 \in Words
  BY <1>1, <1>2, <1>10 DEF Words
<1>12. Clean(stack, rsp) = stack
  BY <1>9 DEF Clean, IsMem
<1>13. Machine = Mach(stack, rsp, rip, df, Regs)
  BY <1>8 DEF Machine, Mach
<1> QED
  BY <1>2, <1>3, <1>8, <1>9, <1>10, <1>11, <1>12, <1>13

LEMMA BecomeIs ==
  ASSUME NEW m, NEW p, NEW q, NEW d, NEW r, Become(Mach(m, p, q, d, r))
  PROVE  stack' = Clean(m, p) /\ rsp' = p /\ rip' = q /\ df' = d /\ regs' = r
<1>1. PICK s : s = Mach(m, p, q, d, r)
  OBVIOUS
<1>2. s.m = m /\ s.rsp = p /\ s.rip = q /\ s.df = d /\ s.r = r
  BY <1>1 DEF Mach
<1>3. stack' = Clean(s.m, s.rsp) /\ rsp' = s.rsp /\ rip' = s.rip /\ df' = s.df /\ regs' = s.r
  BY <1>1 DEF Become
<1> QED
  BY ONLY <1>2, <1>3

\* A callback of src is begun over what the core was doing.
Nested(src) ==
  /\ Len(interrupted) < MaxNest /\ interrupted' = Append(interrupted, Context)
  /\ callback[src] /\ UNCHANGED <<callback, calledZero>>
  /\ rsp' = rsp - 1 /\ rip' = Entry(src) /\ df' = df /\ regs' = Regs
  /\ \E n : Left(n, stack, rsp, rip) /\ stack' = Clean(n, rsp - 1)

LEMMA RtcIs ==
  ASSUME IrqInv, Rtc
  PROVE  IF callback["clock"] THEN Nested("clock") ELSE UNCHANGED irqVars
<1>1. /\ Machine = Mach(stack, rsp, rip, df, Regs) /\ regs = Regs
      /\ IsMem(stack) /\ Clean(stack, rsp) = stack /\ rsp \in Words /\ rsp - 12 \in Words
  BY Here
<1>2. /\ Become(RtcHandler(Machine)) /\ Nest(callback["clock"]) /\ UNCHANGED <<callback, calledZero>>
  BY DEF Rtc
<1>3. CASE callback["clock"]
  <2>1. df = Up
    BY <1>3 DEF IrqInv, IrqTypeOK, Up
  <2>2. PICK n : /\ Left(n, stack, rsp, rip)
                 /\ RtcHandler(Mach(stack, rsp, rip, Up, Regs)) = Mach(n, rsp - 1, Entry("clock"), Up, Regs)
    BY ONLY <1>1, <1>3, RtcCalls
  <2>3. Become(Mach(n, rsp - 1, Entry("clock"), df, Regs))
    BY ONLY <1>1, <1>2, <2>1, <2>2
  <2>4. stack' = Clean(n, rsp - 1) /\ rsp' = rsp - 1 /\ rip' = Entry("clock") /\ df' = df /\ regs' = Regs
    BY ONLY <2>3, BecomeIs
  <2>5. Len(interrupted) < MaxNest /\ interrupted' = Append(interrupted, Context)
    BY <1>2, <1>3 DEF Nest
  <2>6. Nested("clock")
    BY ONLY <1>2, <1>3, <2>2, <2>4, <2>5 DEF Nested
  <2>7. QED
    BY ONLY <1>3, <2>6
<1>4. CASE ~ callback["clock"]
  <2>1. PICK d : d = df
    OBVIOUS
  <2>2. PICK n : /\ Same(n, stack, rsp)
                 /\ RtcHandler(Mach(stack, rsp, rip, d, Regs)) = Mach(n, rsp, rip, d, Regs)
    BY ONLY <1>1, <1>4, RtcPasses
  <2>3. Become(Mach(n, rsp, rip, d, Regs))
    BY ONLY <1>1, <1>2, <2>1, <2>2
  <2>4. stack' = Clean(n, rsp) /\ rsp' = rsp /\ rip' = rip /\ df' = d /\ regs' = Regs
    BY ONLY <2>3, BecomeIs
  <2>5. Clean(n, rsp) = Clean(stack, rsp)
    <3>1. ASSUME NEW a \in Words, ~ (a < rsp) PROVE n[a] = stack[a]
      <4>1. a \in rsp .. Top - 1
        BY <1>1, <3>1, IrqAssumption DEF Words
      <4>2. QED
        BY <2>2, <4>1 DEF Same
    <3>2. QED
      BY <3>1 DEF Clean
  <2>6. interrupted' = interrupted
    BY <1>2, <1>4 DEF Nest
  <2>7. QED
    BY <1>1, <1>2, <1>4, <2>1, <2>4, <2>5, <2>6 DEF irqVars
<1> QED
  BY <1>3, <1>4

LEMMA NetworkIs ==
  ASSUME IrqInv, NEW rx \in BOOLEAN, Network(rx)
  PROVE  IF rx /\ callback["network"] THEN Nested("network") ELSE UNCHANGED irqVars
<1>1. /\ Machine = Mach(stack, rsp, rip, df, Regs) /\ regs = Regs
      /\ IsMem(stack) /\ Clean(stack, rsp) = stack /\ rsp \in Words /\ rsp - 12 \in Words
  BY Here
<1>2. /\ Become(NetworkHandler(Machine, rx)) /\ Nest(rx /\ callback["network"]) /\ UNCHANGED <<callback, calledZero>>
  BY DEF Network
<1>0. PICK d : d = df
  OBVIOUS
<1>3. CASE rx /\ callback["network"]
  <2>1. Takes(rx)
    BY ONLY <1>3 DEF Takes
  <2>2. PICK n : /\ Left(n, stack, rsp, rip)
                 /\ NetworkHandler(Mach(stack, rsp, rip, d, Regs), rx) = Mach(n, rsp - 1, Entry("network"), d, Regs)
    BY ONLY <1>1, <2>1, NetworkCalls
  <2>3. Become(Mach(n, rsp - 1, Entry("network"), d, Regs))
    BY ONLY <1>0, <1>1, <1>2, <2>2
  <2>4. stack' = Clean(n, rsp - 1) /\ rsp' = rsp - 1 /\ rip' = Entry("network") /\ df' = d /\ regs' = Regs
    BY ONLY <2>3, BecomeIs
  <2>5. Len(interrupted) < MaxNest /\ interrupted' = Append(interrupted, Context)
    BY <1>2, <1>3 DEF Nest
  <2>6. Nested("network")
    BY ONLY <1>0, <1>2, <1>3, <2>2, <2>4, <2>5 DEF Nested
  <2>7. QED
    BY ONLY <1>3, <2>6
<1>4. CASE ~ (rx /\ callback["network"])
  <2>1. ~ Takes(rx)
    BY ONLY <1>4 DEF Takes
  <2>2. PICK n : /\ Same(n, stack, rsp)
                 /\ NetworkHandler(Mach(stack, rsp, rip, d, Regs), rx) = Mach(n, rsp, rip, d, Regs)
    BY ONLY <1>1, <2>1, NetworkPasses
  <2>3. Become(Mach(n, rsp, rip, d, Regs))
    BY ONLY <1>0, <1>1, <1>2, <2>2
  <2>4. stack' = Clean(n, rsp) /\ rsp' = rsp /\ rip' = rip /\ df' = d /\ regs' = Regs
    BY ONLY <2>3, BecomeIs
  <2>5. Clean(n, rsp) = Clean(stack, rsp)
    <3>1. ASSUME NEW a \in Words, ~ (a < rsp) PROVE n[a] = stack[a]
      <4>1. a \in rsp .. Top - 1
        BY <1>1, <3>1, IrqAssumption DEF Words
      <4>2. QED
        BY <2>2, <4>1 DEF Same
    <3>2. QED
      BY <3>1 DEF Clean
  <2>6. interrupted' = interrupted
    BY <1>2, <1>4 DEF Nest
  <2>7. QED
    BY <1>0, <1>1, <1>2, <1>4, <2>4, <2>5, <2>6 DEF irqVars
<1> QED
  BY <1>3, <1>4

\* What the core was doing when a callback begins is interrupted; the callback is over it.
LEMMA NestedStep ==
  ASSUME IrqInv, NEW src \in Sources, Nested(src)
  PROVE  IrqInv'
<1>0. PICK D : D = Depth
  OBVIOUS
<1>1. /\ D \in 1 .. MaxNest + 1 /\ Len(interrupted) = D - 1 /\ At(D) = Context
      /\ IsMem(stack) /\ rsp \in Int /\ rsp >= Top - 3 * D /\ rsp <= Top - 1
      /\ rsp \in Words /\ rsp - 12 \in Words
  BY <1>0, Here
<1>2. Top \in Nat /\ MaxNest \in Nat /\ Words = 0 .. Top - 1
  BY IrqAssumption DEF Words
<1>3. IsSeq(interrupted') /\ Len(interrupted') = D /\ interrupted'[D] = Context
      /\ \A n \in 1 .. D - 1 : interrupted'[n] = interrupted[n]
  <2>1. IsSeq(interrupted) /\ interrupted' = Append(interrupted, Context) /\ (D - 1) + 1 = D
    BY <1>1 DEF IrqInv, IrqTypeOK, Nested
  <2>2. PICK x : x = Context
    OBVIOUS
  <2>3. /\ IsSeq(Append(interrupted, x)) /\ Len(Append(interrupted, x)) = Len(interrupted) + 1
        /\ \A n \in 1 .. Len(interrupted) : Append(interrupted, x)[n] = interrupted[n]
        /\ Append(interrupted, x)[Len(interrupted) + 1] = x
    BY ONLY <2>1, AppendIs
  <2>4. QED
    BY ONLY <1>1, <2>1, <2>2, <2>3
<1>4. Depth' = D + 1 /\ At(D + 1)' = Context' /\ \A n \in 1 .. D : At(n)' = At(n)
  <2>1. Depth' = D + 1
    BY <1>1, <1>3 DEF Depth
  <2>2. At(D + 1)' = Context'
    BY <2>1 DEF At
  <2>3. ASSUME NEW n \in 1 .. D PROVE At(n)' = At(n)
    <3>1. At(n)' = interrupted'[n]
      BY <1>1, <2>1, n # D + 1 DEF At
    <3>2. QED
      BY <1>0, <1>1, <1>3, <3>1 DEF At
  <2>4. QED
    BY <2>1, <2>2, <2>3
<1>5. callback' = callback /\ calledZero' = calledZero /\ df' = df /\ callback[src] /\ D <= MaxNest
  <2>1. callback' = callback /\ calledZero' = calledZero /\ df' = df /\ callback[src]
    BY Zenon DEF Nested
  <2>2. Len(interrupted) < MaxNest
    BY DEF Nested
  <2>3. D <= MaxNest
    BY <1>1, <1>2, <2>2
  <2>4. QED
    BY ONLY <2>1, <2>3
<1>6. PICK n : Left(n, stack, rsp, rip) /\ stack' = Clean(n, rsp - 1)
  BY DEF Nested
<1>7. PICK c : c = Context'
  OBVIOUS
<1>8. c = [rip |-> Entry(src), rsp |-> rsp - 1, df |-> df, regs |-> Regs, stack |-> Clean(n, rsp - 1)]
  BY <1>6, <1>7 DEF Context, Nested
<1>9. PICK e : e = Clean(n, rsp - 1)
  OBVIOUS
<1>10. IsMem(e) /\ (\A a \in Words : a < rsp - 1 => e[a] = Junk) /\ e[rsp - 1] = <<"rip", rip>>
       /\ \A a \in rsp .. Top - 1 : e[a] = stack[a]
  <2>1. rsp - 1 \in Words /\ ~ (rsp - 1 < rsp - 1) /\ \A a \in rsp .. Top - 1 : a \in Words /\ ~ (a < rsp - 1)
    BY <1>1, <1>2
  <2>2. n[rsp - 1] = <<"rip", rip>> /\ \A a \in rsp .. Top - 1 : n[a] = stack[a]
    BY <1>6 DEF Left
  <2>3. QED
    BY <1>9, <2>1, <2>2 DEF Clean, IsMem
<1>11. c.rip = Entry(src) /\ c.rsp = rsp - 1 /\ c.stack = e
  BY <1>8, <1>9
<1>12. Sound(c, D + 1, df)
  <2>1. c = [rip |-> c.rip, rsp |-> c.rsp, df |-> df, regs |-> Regs, stack |-> c.stack]
    BY ONLY <1>8, <1>9, <1>11
  <2>2. rsp - 1 \in Top - 3 * (D + 1) .. Top - 1
    BY <1>1, <1>2
  <2>3. QED
    BY ONLY <1>10, <1>11, <2>1, <2>2 DEF Sound
<1>13. PICK b : b = At(D)
  OBVIOUS
<1>14. b.rip = rip /\ b.rsp = rsp /\ b.stack = stack
  BY <1>1, <1>13 DEF Context
<1>15. InCallback(c, b, src, df, callback)
  BY <1>5, <1>10, <1>11, <1>14 DEF InCallback
<1>20. IrqTypeOK'
  BY <1>1, <1>3, <1>5 DEF IrqInv, IrqTypeOK
<1>21. ContextsSound'
  <2>1. ASSUME NEW k \in 1 .. D + 1 PROVE Sound(At(k)', k, df)
    <3>1. CASE k = D + 1
      BY <1>4, <1>7, <1>12, <3>1
    <3>2. CASE k \in 1 .. D
      BY <1>0, <1>4, <3>2 DEF IrqInv, ContextsSound
    <3>3. QED
      BY <1>1, <3>1, <3>2
  <2>2. QED
    BY <1>4, <1>5, <2>1 DEF ContextsSound
<1>22. ProgramFirst'
  BY <1>1, <1>4 DEF IrqInv, ProgramFirst
<1>23. EachInCallback'
  <2>1. ASSUME NEW k \in 1 .. D PROVE \E q \in Sources : InCallback(At(k + 1)', At(k)', q, df, callback)
    <3>1. CASE k = D
      BY <1>4, <1>7, <1>13, <1>15, <3>1
    <3>2. CASE k \in 1 .. D - 1
      <4>1. At(k + 1)' = At(k + 1) /\ At(k)' = At(k)
        BY <1>1, <1>4, <3>2
      <4>2. QED
        BY <1>1, <3>2, <4>1 DEF IrqInv, EachInCallback
    <3>3. QED
      BY <1>1, <3>1, <3>2
  <2>2. QED
    BY <1>3, <1>5, <2>1 DEF EachInCallback
<1>24. Kept'
  <2>1. ASSUME NEW k \in 1 .. D + 1, NEW o \in 1 .. k - 1
        PROVE  /\ At(k)'.rsp < At(o)'.rsp
               /\ \A a \in At(o)'.rsp .. Top - 1 : At(k)'.stack[a] = At(o)'.stack[a]
    <3>1. CASE k = D + 1
      <4>1. PICK f : f = At(o)
        OBVIOUS
      <4>2. At(o)' = f /\ o \in 1 .. D
        BY <1>1, <1>4, <3>1, <4>1
      <4>3. f.rsp >= rsp /\ f.rsp \in Int /\ f.rsp <= Top - 1 /\ \A a \in f.rsp .. Top - 1 : stack[a] = f.stack[a]
        <5>1. f.rsp \in Int /\ f.rsp <= Top - 1
          <6>1. Sound(f, o, df)
            BY <1>0, <1>1, <4>1, <4>2 DEF IrqInv, ContextsSound
          <6>2. QED
            BY <6>1 DEF Sound
        <5>2. CASE o = D
          BY <1>1, <1>13, <1>14, <4>1, <5>1, <5>2
        <5>3. CASE o \in 1 .. D - 1
          <6>1. At(D).rsp < f.rsp /\ \A a \in f.rsp .. Top - 1 : At(D).stack[a] = f.stack[a]
            BY <1>1, <4>1, <5>3, <1>0 DEF IrqInv, Kept
          <6>2. QED
            BY <1>1, <1>13, <1>14, <5>1, <6>1
        <5>4. QED
          BY <1>1, <4>2, <5>2, <5>3
      <4>4. At(k)' = c
        BY <1>4, <1>7, <3>1
      <4>5. \A a \in f.rsp .. Top - 1 : e[a] = stack[a]
        BY <1>1, <1>10, <4>3
      <4>6. rsp - 1 < f.rsp
        BY <1>1, <4>3
      <4>7. QED
        BY ONLY <1>11, <4>2, <4>3, <4>4, <4>5, <4>6
    <3>2. CASE k \in 1 .. D
      <4>1. At(k)' = At(k) /\ At(o)' = At(o)
        BY <1>1, <1>4, <3>2
      <4>2. QED
        BY <1>1, <3>2, <4>1, <1>0 DEF IrqInv, Kept
    <3>3. QED
      BY <1>1, <3>1, <3>2
  <2>2. QED
    BY <1>4, <2>1 DEF Kept
<1> QED
  BY <1>20, <1>21, <1>22, <1>23, <1>24 DEF IrqInv

\* Where a callback is, it has interrupted b, the last of what is interrupted.
LEMMA CallbackHere ==
  ASSUME IrqInv, NEW src \in Sources, rip \in {Entry(src), Body(src), Popfq(src), LastRet(src)}
  PROVE  /\ Depth > 1
         /\ InCallback(Context, At(Depth - 1), src, df, callback)
         /\ Sound(At(Depth - 1), Depth - 1, df)
         /\ rsp < At(Depth - 1).rsp /\ At(Depth - 1).rsp \in Int /\ At(Depth - 1).rsp <= Top - 1
         /\ \A a \in At(Depth - 1).rsp .. Top - 1 : stack[a] = At(Depth - 1).stack[a]
<1>1. Depth \in Nat \ {0} /\ Len(interrupted) = Depth - 1 /\ At(Depth) = Context
  BY Here, IrqAssumption
<1>2. Context.rip = rip /\ Context.rsp = rsp /\ Context.stack = stack
  BY DEF Context
<1>3. rip[1] = src
  BY DEF Entry, Body, Popfq, LastRet
<1>4. Depth # 1
  <2>1. SUFFICES ASSUME Depth = 1 PROVE FALSE
    OBVIOUS
  <2>2. PICK p \in ProgramPoints : rip = <<"program", p>>
    BY <1>1, <1>2, <2>1 DEF IrqInv, ProgramFirst
  <2>3. rip[1] = "program"
    BY <2>2
  <2>4. QED
    BY <1>3, <2>3 DEF Sources
<1>5. PICK D \in Nat : D = Depth - 1 /\ D + 1 = Depth /\ D \in 1 .. Len(interrupted) /\ D \in 1 .. Depth
                      /\ D \in 1 .. Depth - 1
  BY <1>1, <1>4
<1>6. PICK other \in Sources : InCallback(Context, At(D), other, df, callback)
  BY <1>1, <1>5 DEF IrqInv, EachInCallback
<1>7. rip[1] = other
  BY <1>2, <1>6 DEF InCallback, Entry, Body, Popfq, LastRet
<1>8. Sound(At(D), D, df)
  BY <1>5 DEF IrqInv, ContextsSound
<1>9. rsp < At(D).rsp /\ \A a \in At(D).rsp .. Top - 1 : stack[a] = At(D).stack[a]
  <2>1. Depth \in 1 .. Depth
    BY <1>1
  <2>2. At(Depth).rsp < At(D).rsp /\ \A a \in At(D).rsp .. Top - 1 : At(Depth).stack[a] = At(D).stack[a]
    BY <1>5, <2>1 DEF IrqInv, Kept
  <2>3. QED
    BY <1>1, <1>2, <2>2
<1>10. At(D).rsp \in Int /\ At(D).rsp <= Top - 1
  BY <1>5, <1>8, IrqAssumption DEF Sound
<1> QED
  BY <1>1, <1>3, <1>4, <1>5, <1>6, <1>7, <1>8, <1>9, <1>10

\* A callback goes on.
LEMMA CallbackGoesOn ==
  ASSUME IrqInv, NEW src \in Sources, Depth > 1,
         interrupted' = interrupted, callback' = callback, df' = df, regs' = Regs,
         calledZero' \in BOOLEAN, ~ OthersSet => ~ calledZero',
         NEW b, b = At(Depth - 1), rsp' \in b.rsp - 3 .. b.rsp - 1,
         NEW m, stack' = Clean(m, rsp'), \A a \in b.rsp .. Top - 1 : m[a] = stack[a],
         InCallback(Context', b, src, df, callback)
  PROVE  IrqInv'
<1>0. PICK D : D = Depth
  OBVIOUS
<1>1. D \in 2 .. MaxNest + 1 /\ Len(interrupted) = D - 1 /\ At(D) = Context
  BY <1>0, Here, IrqAssumption
<1>2. Top \in Nat /\ MaxNest \in Nat /\ Words = 0 .. Top - 1 /\ Top >= 20 * (MaxNest + 1) + 4
  BY IrqAssumption DEF Words
<1>3. Depth' = D /\ At(D)' = Context' /\ \A n \in 1 .. D - 1 : At(n)' = At(n) /\ At(n) = interrupted[n]
  <2>1. Depth' = D
    BY <1>0, <1>1 DEF Depth
  <2>2. At(D)' = Context'
    BY <2>1 DEF At
  <2>3. ASSUME NEW n \in 1 .. D - 1 PROVE At(n)' = At(n) /\ At(n) = interrupted[n]
    BY <1>0, <1>1, <2>1 DEF At
  <2>4. QED
    BY <2>1, <2>2, <2>3
<1>4. b = At(D - 1) /\ D - 1 \in 1 .. D /\ (D - 1) + 1 = D
  BY <1>0, <1>1
<1>5. Sound(b, D - 1, df)
  BY <1>0, <1>4 DEF IrqInv, ContextsSound
<1>6. b.rsp \in Int /\ b.rsp >= Top - 3 * (D - 1) /\ b.rsp <= Top - 1
  BY <1>1, <1>2, <1>5 DEF Sound
<1>7. PICK c : c = Context'
  OBVIOUS
<1>8. c = [rip |-> c.rip, rsp |-> c.rsp, df |-> df, regs |-> Regs, stack |-> c.stack]
      /\ c.rsp = rsp' /\ c.stack = Clean(m, c.rsp)
  BY <1>7 DEF Context
<1>11. c.rsp \in Int /\ c.rsp >= b.rsp - 3 /\ c.rsp < b.rsp
  <2>1. rsp' \in b.rsp - 3 .. b.rsp - 1
    OBVIOUS
  <2>2. QED
    BY ONLY <1>6, <1>8, <2>1
<1>12. 3 * (D - 1) = 3 * D - 3 /\ 3 * D \in Int /\ 3 * D <= 3 * (MaxNest + 1) /\ Top - 3 * D >= 0
  BY ONLY <1>1, <1>2
<1>9. IsMem(c.stack) /\ (\A a \in Words : a < c.rsp => c.stack[a] = Junk)
      /\ \A a \in b.rsp .. Top - 1 : c.stack[a] = stack[a]
  <2>1. PICK p : p = c.rsp
    OBVIOUS
  <2>2. p \in Int /\ p < b.rsp /\ p >= 0
    BY ONLY <1>2, <1>6, <1>11, <1>12, <2>1
  <2>3. \A a \in b.rsp .. Top - 1 : a \in Words /\ ~ (a < p)
    BY <1>2, <1>6, <2>2
  <2>4. c.stack = Clean(m, p)
    BY <1>8, <2>1
  <2>5. \A a \in b.rsp .. Top - 1 : Clean(m, p)[a] = stack[a]
    BY <2>3 DEF Clean
  <2>6. IsMem(Clean(m, p)) /\ \A a \in Words : a < p => Clean(m, p)[a] = Junk
    BY DEF Clean, IsMem
  <2>7. QED
    BY ONLY <2>1, <2>4, <2>5, <2>6
<1>10. Sound(c, D, df)
  <2>1. c.rsp \in Top - 3 * D .. Top - 1
    BY ONLY <1>1, <1>2, <1>6, <1>11, <1>12
  <2>2. QED
    BY ONLY <1>8, <1>9, <2>1 DEF Sound
<1>20. IrqTypeOK'
  BY DEF IrqInv, IrqTypeOK
<1>21. ContextsSound'
  <2>1. ASSUME NEW k \in 1 .. D PROVE Sound(At(k)', k, df)
    <3>1. CASE k = D
      BY <1>3, <1>7, <1>10, <3>1
    <3>2. CASE k \in 1 .. D - 1
      BY <1>0, <1>3, <3>2 DEF IrqInv, ContextsSound
    <3>3. QED
      BY <1>1, <3>1, <3>2
  <2>2. QED
    BY <1>3, <2>1 DEF ContextsSound
<1>22. ProgramFirst'
  BY <1>1, <1>3 DEF IrqInv, ProgramFirst
<1>23. EachInCallback'
  <2>1. ASSUME NEW k \in 1 .. D - 1 PROVE \E q \in Sources : InCallback(At(k + 1)', At(k)', q, df, callback)
    <3>1. CASE k = D - 1
      BY <1>1, <1>3, <1>4, <1>7, <3>1
    <3>2. CASE k \in 1 .. D - 2
      <4>1. At(k + 1)' = At(k + 1) /\ At(k)' = At(k)
        BY <1>1, <1>3, <3>2
      <4>2. QED
        BY <1>1, <3>2, <4>1 DEF IrqInv, EachInCallback
    <3>3. QED
      BY <1>1, <3>1, <3>2
  <2>2. QED
    BY <1>1, <2>1 DEF EachInCallback
<1>24. Kept'
  <2>1. ASSUME NEW k \in 1 .. D, NEW o \in 1 .. k - 1
        PROVE  /\ At(k)'.rsp < At(o)'.rsp
               /\ \A a \in At(o)'.rsp .. Top - 1 : At(k)'.stack[a] = At(o)'.stack[a]
    <3>1. CASE k = D
      <4>1. PICK f : f = At(o)
        OBVIOUS
      <4>2. At(o)' = f /\ o \in 1 .. D - 1
        BY <1>1, <1>3, <3>1, <4>1
      <4>3. f.rsp \in Int /\ f.rsp <= Top - 1 /\ f.rsp >= b.rsp /\ \A a \in f.rsp .. Top - 1 : stack[a] = f.stack[a]
        <5>1. f.rsp \in Int /\ f.rsp <= Top - 1
          <6>1. Sound(f, o, df)
            BY <1>0, <1>1, <4>1, <4>2 DEF IrqInv, ContextsSound
          <6>2. QED
            BY <6>1 DEF Sound
        <5>2. f.rsp >= b.rsp
          <6>1. CASE o = D - 1
            BY <1>4, <1>6, <4>1, <6>1
          <6>2. CASE o \in 1 .. (D - 1) - 1
            BY <1>0, <1>4, <1>6, <4>1, <5>1, <6>2 DEF IrqInv, Kept
          <6>3. QED
            BY <1>1, <4>2, <6>1, <6>2
        <5>3. \A a \in f.rsp .. Top - 1 : At(D).stack[a] = f.stack[a]
          BY <1>0, <1>1, <4>1, <4>2 DEF IrqInv, Kept
        <5>4. At(D).stack = stack
          BY <1>1 DEF Context
        <5>5. QED
          BY <5>1, <5>2, <5>3, <5>4
      <4>4. At(k)' = c
        BY <1>3, <1>7, <3>1
      <4>5. \A a \in f.rsp .. Top - 1 : c.stack[a] = stack[a]
        BY <1>6, <1>9, <4>3
      <4>6. c.rsp < f.rsp
        BY ONLY <1>6, <1>11, <4>3
      <4>7. QED
        BY ONLY <4>2, <4>3, <4>4, <4>5, <4>6
    <3>2. CASE k \in 1 .. D - 1
      <4>1. At(k)' = At(k) /\ At(o)' = At(o)
        BY <1>1, <1>3, <3>2
      <4>2. QED
        BY <1>0, <1>1, <3>2, <4>1 DEF IrqInv, Kept
    <3>3. QED
      BY <1>1, <3>1, <3>2
  <2>2. QED
    BY <1>3, <2>1 DEF Kept
<1> QED
  BY <1>20, <1>21, <1>22, <1>23, <1>24 DEF IrqInv

\* The core goes on elsewhere, or where a return address says.
Go(s, q) == [s EXCEPT !.rip = q]

LEMMA GoIs ==
  ASSUME NEW m, NEW p, NEW q, NEW d, NEW r, NEW q2
  PROVE  Go(Mach(m, p, q, d, r), q2) = Mach(m, p, q2, d, r)
<1>1. ASSUME NEW s, s = [m |-> m, rsp |-> p, rip |-> q, df |-> d, r |-> r]
      PROVE  [s EXCEPT !.rip = q2] = [m |-> m, rsp |-> p, rip |-> q2, df |-> d, r |-> r]
  BY <1>1
<1> QED
  BY <1>1 DEF Mach, Go

LEMMA RetIs ==
  ASSUME NEW m, NEW p \in Int, NEW q, NEW d, NEW r, NEW q2, m[p] = <<"rip", q2>>
  PROVE  Ret(Mach(m, p, q, d, r)) = Mach(m, p + 1, q2, d, r)
<1>1. m[p][1] = "rip" /\ m[p][2] = q2
  OBVIOUS
<1>2. ASSUME NEW s, s = [m |-> m, rsp |-> p, rip |-> q, df |-> d, r |-> r]
      PROVE  Ret(s) = [m |-> m, rsp |-> p + 1, rip |-> q2, df |-> d, r |-> r]
  <2>1. s.rsp = p /\ s.m = m
    BY <1>2
  <2>2. Ret(s) = [s EXCEPT !.rsp = @ + 1, !.rip = q2]
    BY <1>1, <2>1 DEF Ret
  <2>3. QED
    BY <1>2, <2>2
<1> QED
  BY <1>2 DEF Mach

\* What callback and interrupted code know of each other, at each place of the callback.
LEMMA PlaceIs ==
  ASSUME NEW src \in Sources, NEW b, InCallback(Context, b, src, df, callback), NEW q, rip = <<src, q>>
  PROVE  /\ stack[b.rsp - 1] = <<"rip", b.rip>>
         /\ rip = Entry(src) => rsp = b.rsp - 1
         /\ rip = Body(src) => /\ rsp = b.rsp - 3
                               /\ stack[b.rsp - 2] = <<"flags", df>> /\ stack[b.rsp - 3] = <<"rip", Popfq(src)>>
         /\ rip = Popfq(src) => rsp = b.rsp - 2 /\ stack[b.rsp - 2] = <<"flags", df>>
         /\ rip = LastRet(src) => rsp = b.rsp - 1
         /\ ~ OthersSet => callback[src]
<1>1. Context.rip = rip /\ Context.rsp = rsp /\ Context.stack = stack
  BY DEF Context
<1>2. rip[2] = q
  OBVIOUS
<1>3. Entry(src)[2] = "pushfq" /\ Body(src)[2] = "body" /\ Popfq(src)[2] = "popfq" /\ LastRet(src)[2] = "ret"
  BY DEF Entry, Body, Popfq, LastRet
<1>4. /\ stack[b.rsp - 1] = <<"rip", b.rip>>
      /\ \/ rip = Entry(src) /\ rsp = b.rsp - 1
         \/ /\ rip = Body(src) /\ rsp = b.rsp - 3
            /\ stack[b.rsp - 2] = <<"flags", df>> /\ stack[b.rsp - 3] = <<"rip", Popfq(src)>>
         \/ /\ rip = Popfq(src) /\ rsp = b.rsp - 2
            /\ stack[b.rsp - 2] = <<"flags", df>>
         \/ rip = LastRet(src) /\ rsp = b.rsp - 1
      /\ ~ OthersSet => callback[src]
  BY <1>1 DEF InCallback
<1>5. /\ Entry(src) # Body(src) /\ Entry(src) # Popfq(src) /\ Entry(src) # LastRet(src)
      /\ Body(src) # Popfq(src) /\ Body(src) # LastRet(src) /\ Popfq(src) # LastRet(src)
  BY <1>3
<1> QED
  BY ONLY <1>4, <1>5

LEMMA CallStep ==
  ASSUME IrqInv, NEW src \in Sources, CallCallback(src)
  PROVE  IrqInv'
<1>1. /\ Machine = Mach(stack, rsp, rip, df, Regs) /\ IsMem(stack) /\ rsp \in Int
      /\ rsp \in Words /\ rsp - 12 \in Words
  BY Here
<1>2. /\ rip = Entry(src) /\ calledZero' = (calledZero \/ ~ callback[src])
      /\ UNCHANGED <<callback, interrupted>>
      /\ Become([Push(PushFlags(Machine), <<"rip", Popfq(src)>>) EXCEPT !.rip = Body(src)])
  BY DEF CallCallback
<1>3. PICK b : b = At(Depth - 1)
  OBVIOUS
<1>4. Depth > 1 /\ InCallback(Context, b, src, df, callback) /\ Sound(b, Depth - 1, df)
  BY <1>2, <1>3, CallbackHere
<1>5. rsp = b.rsp - 1 /\ stack[b.rsp - 1] = <<"rip", b.rip>> /\ (~ OthersSet => callback[src])
  BY <1>2, <1>4, PlaceIs DEF Entry
<1>6. b.rsp \in Int /\ b.rsp = rsp + 1
  BY <1>1, <1>4, <1>5, Here, IrqAssumption DEF Sound
<1>7. PICK F, R : F = <<"flags", df>> /\ R = <<"rip", Popfq(src)>>
  OBVIOUS
<1>8. PICK m1 : m1 = Put(stack, rsp - 1, F)
  OBVIOUS
<1>9. PICK m2 : m2 = Put(m1, rsp - 2, R)
  OBVIOUS
<1>10. rsp - 1 \in Words /\ rsp - 2 \in Words /\ rsp - 1 \in Int /\ (rsp - 1) - 1 = rsp - 2
  BY <1>1, IrqAssumption DEF Words
<1>11. IsMem(m1) /\ m1[rsp - 1] = F /\ \A a \in Words : a # rsp - 1 => m1[a] = stack[a]
  BY ONLY <1>1, <1>8, <1>10, PutIs
<1>12. IsMem(m2) /\ m2[rsp - 2] = R /\ \A a \in Words : a # rsp - 2 => m2[a] = m1[a]
  BY ONLY <1>9, <1>10, <1>11, PutIs
<1>13. PushFlags(Machine) = Mach(m1, rsp - 1, rip, df, Regs)
  <2>1. PICK s : s = Mach(stack, rsp, rip, df, Regs)
    OBVIOUS
  <2>2. s.df = df
    BY <2>1 DEF Mach
  <2>3. PushFlags(s) = Push(s, F)
    BY <1>7, <2>2 DEF PushFlags
  <2>4. Push(Mach(stack, rsp, rip, df, Regs), F) = Mach([stack EXCEPT ![rsp - 1] = F], rsp - 1, rip, df, Regs)
    BY ONLY <1>1, <1>10, PushIs
  <2>5. QED
    BY ONLY <1>1, <1>8, <2>1, <2>3, <2>4 DEF Put
<1>14. Push(Mach(m1, rsp - 1, rip, df, Regs), R) = Mach(m2, rsp - 2, rip, df, Regs)
  <2>1. PICK x \in Int : x = rsp - 1
    BY <1>10
  <2>2. x - 1 \in Words
    BY <1>10, <2>1
  <2>3. Push(Mach(m1, x, rip, df, Regs), R) = Mach([m1 EXCEPT ![x - 1] = R], x - 1, rip, df, Regs)
    BY ONLY <1>11, <2>2, x \in Int, PushIs
  <2>4. x - 1 = rsp - 2
    BY <1>10, <2>1
  <2>5. QED
    BY ONLY <1>9, <2>1, <2>3, <2>4 DEF Put
<1>15. Become(Mach(m2, rsp - 2, Body(src), df, Regs))
  <2>1. Become(Go(Push(PushFlags(Machine), R), Body(src)))
    BY <1>2, <1>7 DEF Go
  <2>2. Go(Mach(m2, rsp - 2, rip, df, Regs), Body(src)) = Mach(m2, rsp - 2, Body(src), df, Regs)
    BY ONLY GoIs
  <2>3. QED
    BY ONLY <1>13, <1>14, <2>1, <2>2
<1>16. stack' = Clean(m2, rsp - 2) /\ rsp' = rsp - 2 /\ rip' = Body(src) /\ df' = df /\ regs' = Regs
  BY ONLY <1>15, BecomeIs
<1>17. \A a \in b.rsp - 1 .. Top - 1 : m2[a] = stack[a]
  <2>1. \A a \in b.rsp - 1 .. Top - 1 : a \in Words /\ a # rsp - 1 /\ a # rsp - 2
    BY <1>1, <1>6, IrqAssumption DEF Words
  <2>2. QED
    BY ONLY <1>11, <1>12, <2>1
<1>18. /\ stack'[b.rsp - 1] = <<"rip", b.rip>> /\ stack'[b.rsp - 2] = F /\ stack'[b.rsp - 3] = R
  <2>1. b.rsp - 1 \in Words /\ b.rsp - 2 \in Words /\ b.rsp - 3 \in Words /\ ~ (b.rsp - 1 < rsp - 2)
        /\ ~ (b.rsp - 2 < rsp - 2) /\ ~ (b.rsp - 3 < rsp - 2) /\ b.rsp - 2 = rsp - 1 /\ b.rsp - 3 = rsp - 2
        /\ rsp - 1 # rsp - 2 /\ b.rsp - 1 \in b.rsp - 1 .. Top - 1
    BY <1>1, <1>6, <1>10, IrqAssumption DEF Words
  <2>2. m2[b.rsp - 2] = F
    BY <1>11, <1>12, <2>1
  <2>3. QED
    BY <1>5, <1>12, <1>16, <1>17, <2>1, <2>2 DEF Clean
<1>19. InCallback(Context', b, src, df, callback)
  <2>1. PICK c : c = Context'
    OBVIOUS
  <2>2. c.rip = rip' /\ c.rsp = rsp' /\ c.stack = stack'
    BY ONLY <2>1 DEF Context
  <2>3. rsp - 2 = b.rsp - 3
    BY ONLY <1>1, <1>6
  <2>4. InCallback(c, b, src, df, callback)
    BY ONLY <1>5, <1>7, <1>16, <1>18, <2>2, <2>3 DEF InCallback
  <2>5. QED
    BY ONLY <2>1, <2>4
<1>20. rsp' \in b.rsp - 3 .. b.rsp - 1 /\ stack' = Clean(m2, rsp') /\ \A a \in b.rsp .. Top - 1 : m2[a] = stack[a]
  <2>1. rsp - 2 \in b.rsp - 3 .. b.rsp - 1 /\ \A a \in b.rsp .. Top - 1 : a \in b.rsp - 1 .. Top - 1
    BY ONLY <1>1, <1>6, IrqAssumption DEF IrqAssumption
  <2>2. QED
    BY ONLY <1>16, <1>17, <2>1
<1>21. calledZero' \in BOOLEAN /\ (~ OthersSet => ~ calledZero')
  BY <1>2, <1>5 DEF IrqInv, IrqTypeOK
<1> QED
  BY <1>2, <1>3, <1>4, <1>16, <1>19, <1>20, <1>21, CallbackGoesOn

LEMMA ReturnStep ==
  ASSUME IrqInv, NEW src \in Sources, CallbackReturns(src)
  PROVE  IrqInv'
<1>1. /\ Machine = Mach(stack, rsp, rip, df, Regs) /\ rsp \in Int /\ rsp >= 0
  BY Here, IrqAssumption DEF Words
<1>2. rip = Body(src) /\ Become(Ret(Machine)) /\ UNCHANGED <<callback, interrupted, calledZero>>
  BY DEF CallbackReturns
<1>3. PICK b : b = At(Depth - 1)
  OBVIOUS
<1>4. Depth > 1 /\ InCallback(Context, b, src, df, callback) /\ Sound(b, Depth - 1, df)
      /\ b.rsp \in Int /\ b.rsp <= Top - 1
  BY <1>2, <1>3, CallbackHere
<1>5. /\ rsp = b.rsp - 3 /\ stack[b.rsp - 1] = <<"rip", b.rip>> /\ (~ OthersSet => callback[src])
      /\ stack[b.rsp - 2] = <<"flags", df>> /\ stack[rsp] = <<"rip", Popfq(src)>>
  BY <1>2, <1>4, PlaceIs DEF Body
<1>6. b.rsp \in Int /\ b.rsp = rsp + 3 /\ b.rsp <= Top - 1 /\ b.rsp - 2 >= 0
  BY ONLY <1>1, <1>4, <1>5
<1>7. Ret(Mach(stack, rsp, rip, df, Regs)) = Mach(stack, rsp + 1, Popfq(src), df, Regs)
  BY ONLY <1>1, <1>5, RetIs
<1>8. stack' = Clean(stack, rsp + 1) /\ rsp' = rsp + 1 /\ rip' = Popfq(src) /\ df' = df /\ regs' = Regs
  BY ONLY <1>1, <1>2, <1>7, BecomeIs
<1>9. stack'[b.rsp - 1] = <<"rip", b.rip>> /\ stack'[b.rsp - 2] = <<"flags", df>>
  <2>1. b.rsp - 1 \in Words /\ b.rsp - 2 \in Words /\ ~ (b.rsp - 1 < rsp + 1) /\ ~ (b.rsp - 2 < rsp + 1)
    BY ONLY <1>1, <1>6, IrqAssumption DEF IrqAssumption, Words
  <2>2. QED
    BY ONLY <1>5, <1>8, <2>1 DEF Clean
<1>10. InCallback(Context', b, src, df, callback)
  <2>1. PICK c : c = Context'
    OBVIOUS
  <2>2. c.rip = rip' /\ c.rsp = rsp' /\ c.stack = stack'
    BY ONLY <2>1 DEF Context
  <2>3. rsp + 1 = b.rsp - 2
    BY ONLY <1>1, <1>6
  <2>4. InCallback(c, b, src, df, callback)
    BY ONLY <1>5, <1>8, <1>9, <2>2, <2>3 DEF InCallback
  <2>5. QED
    BY ONLY <2>1, <2>4
<1>11. rsp' \in b.rsp - 3 .. b.rsp - 1 /\ stack' = Clean(stack, rsp') /\ \A a \in b.rsp .. Top - 1 : stack[a] = stack[a]
  <2>1. rsp + 1 \in b.rsp - 3 .. b.rsp - 1
    BY ONLY <1>1, <1>6
  <2>2. QED
    BY ONLY <1>8, <2>1
<1>12. calledZero' \in BOOLEAN /\ (~ OthersSet => ~ calledZero')
  BY <1>2 DEF IrqInv, IrqTypeOK
<1> QED
  BY <1>2, <1>3, <1>4, <1>8, <1>10, <1>11, <1>12, CallbackGoesOn

LEMMA PopStep ==
  ASSUME IrqInv, NEW src \in Sources, PopTheFlags(src)
  PROVE  IrqInv'
<1>1. /\ Machine = Mach(stack, rsp, rip, df, Regs) /\ rsp \in Int /\ rsp >= 0
  BY Here, IrqAssumption DEF Words
<1>2. rip = Popfq(src) /\ Become(Go(PopFlags(Machine), LastRet(src))) /\ UNCHANGED <<callback, interrupted, calledZero>>
  BY DEF PopTheFlags, Go
<1>3. PICK b : b = At(Depth - 1)
  OBVIOUS
<1>4. Depth > 1 /\ InCallback(Context, b, src, df, callback) /\ Sound(b, Depth - 1, df)
      /\ b.rsp \in Int /\ b.rsp <= Top - 1
  BY <1>2, <1>3, CallbackHere
<1>5. /\ rsp = b.rsp - 2 /\ stack[b.rsp - 1] = <<"rip", b.rip>> /\ (~ OthersSet => callback[src])
      /\ stack[rsp] = <<"flags", df>>
  BY <1>2, <1>4, PlaceIs DEF Popfq
<1>6. b.rsp \in Int /\ b.rsp = rsp + 2 /\ b.rsp <= Top - 1 /\ b.rsp - 1 >= 0
  BY ONLY <1>1, <1>4, <1>5
<1>7. Go(PopFlags(Mach(stack, rsp, rip, df, Regs)), LastRet(src)) = Mach(stack, rsp + 1, LastRet(src), df, Regs)
  <2>1. PICK d : d = df
    OBVIOUS
  <2>2. PopFlags(Mach(stack, rsp, rip, d, Regs)) = Mach(stack, rsp + 1, rip, d, Regs)
    BY ONLY <1>1, <1>5, <2>1, PopFlagsIs
  <2>3. Go(Mach(stack, rsp + 1, rip, d, Regs), LastRet(src)) = Mach(stack, rsp + 1, LastRet(src), d, Regs)
    BY ONLY GoIs
  <2>4. QED
    BY ONLY <2>1, <2>2, <2>3
<1>8. stack' = Clean(stack, rsp + 1) /\ rsp' = rsp + 1 /\ rip' = LastRet(src) /\ df' = df /\ regs' = Regs
  BY ONLY <1>1, <1>2, <1>7, BecomeIs
<1>9. stack'[b.rsp - 1] = <<"rip", b.rip>>
  <2>1. b.rsp - 1 \in Words /\ ~ (b.rsp - 1 < rsp + 1)
    BY ONLY <1>1, <1>6, IrqAssumption DEF IrqAssumption, Words
  <2>2. QED
    BY ONLY <1>5, <1>8, <2>1 DEF Clean
<1>10. InCallback(Context', b, src, df, callback)
  <2>1. PICK c : c = Context'
    OBVIOUS
  <2>2. c.rip = rip' /\ c.rsp = rsp' /\ c.stack = stack'
    BY ONLY <2>1 DEF Context
  <2>3. rsp + 1 = b.rsp - 1
    BY ONLY <1>1, <1>6
  <2>4. InCallback(c, b, src, df, callback)
    BY ONLY <1>5, <1>8, <1>9, <2>2, <2>3 DEF InCallback
  <2>5. QED
    BY ONLY <2>1, <2>4
<1>11. rsp' \in b.rsp - 3 .. b.rsp - 1 /\ stack' = Clean(stack, rsp') /\ \A a \in b.rsp .. Top - 1 : stack[a] = stack[a]
  <2>1. rsp + 1 \in b.rsp - 3 .. b.rsp - 1
    BY ONLY <1>1, <1>6
  <2>2. QED
    BY ONLY <1>8, <2>1
<1>12. calledZero' \in BOOLEAN /\ (~ OthersSet => ~ calledZero')
  BY <1>2 DEF IrqInv, IrqTypeOK
<1> QED
  BY <1>2, <1>3, <1>4, <1>8, <1>10, <1>11, <1>12, CallbackGoesOn

\* The last ret of a callback: the core is where it was, with what it had.
LEMMA ResumeIs ==
  ASSUME IrqInv, NEW src \in Sources, Resume(src)
  PROVE  /\ Depth > 1 /\ Context' = At(Depth - 1) /\ df' = df
         /\ interrupted' = SubSeq(interrupted, 1, Len(interrupted) - 1) /\ UNCHANGED <<callback, calledZero>>
<1>1. /\ Machine = Mach(stack, rsp, rip, df, Regs) /\ rsp \in Int /\ Len(interrupted) = Depth - 1
      /\ Depth \in 1 .. MaxNest + 1
  BY Here
<1>2. /\ rip = LastRet(src) /\ Become(Ret(Machine)) /\ UNCHANGED <<callback, calledZero>>
      /\ interrupted' = SubSeq(interrupted, 1, Len(interrupted) - 1)
  BY DEF Resume
<1>3. PICK b : b = At(Depth - 1)
  OBVIOUS
<1>4. Depth > 1 /\ InCallback(Context, b, src, df, callback) /\ Sound(b, Depth - 1, df)
      /\ \A a \in b.rsp .. Top - 1 : stack[a] = b.stack[a]
  BY <1>2, <1>3, CallbackHere
<1>5. rsp = b.rsp - 1 /\ stack[rsp] = <<"rip", b.rip>>
  BY <1>2, <1>4, PlaceIs DEF LastRet
<1>6. b.rsp \in Int /\ rsp + 1 = b.rsp
  BY <1>1, <1>4, <1>5, IrqAssumption DEF Sound, Words
<1>7. Ret(Mach(stack, rsp, rip, df, Regs)) = Mach(stack, rsp + 1, b.rip, df, Regs)
  BY ONLY <1>1, <1>5, RetIs
<1>8. stack' = Clean(stack, b.rsp) /\ rsp' = b.rsp /\ rip' = b.rip /\ df' = df /\ regs' = Regs
  BY ONLY <1>1, <1>2, <1>6, <1>7, BecomeIs
<1>9. Clean(stack, b.rsp) = b.stack
  <2>1. IsMem(b.stack) /\ \A a \in Words : a < b.rsp => b.stack[a] = Junk
    BY <1>4 DEF Sound
  <2>2. \A a \in Words : ~ (a < b.rsp) => a \in b.rsp .. Top - 1
    BY ONLY <1>6, IrqAssumption DEF Words, IrqAssumption
  <2>3. QED
    BY ONLY <1>4, <2>1, <2>2 DEF Clean, IsMem
<1>10. Context' = b
  <2>1. b = [rip |-> b.rip, rsp |-> b.rsp, df |-> df, regs |-> Regs, stack |-> b.stack]
    BY ONLY <1>4 DEF Sound
  <2>2. Context' = [rip |-> rip', rsp |-> rsp', df |-> df', regs |-> regs', stack |-> stack']
    BY DEF Context
  <2>3. QED
    BY ONLY <1>8, <1>9, <2>1, <2>2
<1> QED
  BY <1>2, <1>3, <1>4, <1>8, <1>10

LEMMA ResumeStep ==
  ASSUME IrqInv, NEW src \in Sources, Resume(src)
  PROVE  IrqInv'
<1>0. PICK D : D = Depth
  OBVIOUS
<1>1. D \in 2 .. MaxNest + 1 /\ Len(interrupted) = D - 1 /\ MaxNest \in Nat
  BY <1>0, Here, ResumeIs, IrqAssumption
<1>2. Context' = At(D - 1) /\ df' = df /\ interrupted' = SubSeq(interrupted, 1, Len(interrupted) - 1)
      /\ UNCHANGED <<callback, calledZero>>
  BY <1>0, ResumeIs
<1>3. IsSeq(interrupted') /\ Len(interrupted') = D - 2 /\ \A n \in 1 .. D - 2 : interrupted'[n] = interrupted[n]
  <2>1. IsSeq(interrupted) /\ Len(interrupted) > 0
    BY <1>1 DEF IrqInv, IrqTypeOK
  <2>2. /\ IsSeq(SubSeq(interrupted, 1, Len(interrupted) - 1))
        /\ Len(SubSeq(interrupted, 1, Len(interrupted) - 1)) = Len(interrupted) - 1
        /\ \A n \in 1 .. Len(interrupted) - 1 : SubSeq(interrupted, 1, Len(interrupted) - 1)[n] = interrupted[n]
    BY ONLY <2>1, FrontIs
  <2>3. Len(interrupted) - 1 = D - 2
    BY ONLY <1>1
  <2>4. QED
    BY ONLY <1>2, <2>2, <2>3
<1>4. Depth' = D - 1 /\ \A n \in 1 .. D - 1 : At(n)' = At(n)
  <2>1. Depth' = D - 1
    BY <1>1, <1>3 DEF Depth
  <2>2. ASSUME NEW n \in 1 .. D - 1 PROVE At(n)' = At(n)
    <3>1. CASE n = D - 1
      BY <1>2, <2>1, <3>1 DEF At
    <3>2. CASE n \in 1 .. D - 2
      <4>1. At(n)' = interrupted'[n]
        BY <1>1, <2>1, <3>2 DEF At
      <4>2. At(n) = interrupted[n]
        BY <1>0, <1>1, <3>2 DEF At
      <4>3. QED
        BY <1>3, <3>2, <4>1, <4>2
    <3>3. QED
      BY <1>1, <3>1, <3>2
  <2>3. QED
    BY <2>1, <2>2
<1>20. IrqTypeOK'
  BY <1>1, <1>2, <1>3 DEF IrqInv, IrqTypeOK
<1>21. ContextsSound'
  <2>1. ASSUME NEW k \in 1 .. D - 1 PROVE Sound(At(k)', k, df)
    BY <1>0, <1>1, <1>4 DEF IrqInv, ContextsSound
  <2>2. QED
    BY <1>2, <1>4, <2>1 DEF ContextsSound
<1>22. ProgramFirst'
  BY <1>1, <1>4 DEF IrqInv, ProgramFirst
<1>23. EachInCallback'
  <2>1. ASSUME NEW k \in 1 .. D - 2 PROVE \E q \in Sources : InCallback(At(k + 1)', At(k)', q, df, callback)
    <3>1. At(k + 1)' = At(k + 1) /\ At(k)' = At(k)
      BY <1>1, <1>4
    <3>2. QED
      BY <1>1, <3>1 DEF IrqInv, EachInCallback
  <2>2. QED
    BY <1>2, <1>3, <2>1 DEF EachInCallback
<1>24. Kept'
  <2>1. ASSUME NEW k \in 1 .. D - 1, NEW o \in 1 .. k - 1
        PROVE  /\ At(k)'.rsp < At(o)'.rsp
               /\ \A a \in At(o)'.rsp .. Top - 1 : At(k)'.stack[a] = At(o)'.stack[a]
    <3>1. At(k)' = At(k) /\ At(o)' = At(o)
      BY <1>1, <1>4
    <3>2. QED
      BY <1>0, <1>1, <3>1 DEF IrqInv, Kept
  <2>2. QED
    BY <1>4, <2>1 DEF Kept
<1> QED
  BY <1>20, <1>21, <1>22, <1>23, <1>24 DEF IrqInv

\* While the program runs nothing is interrupted.
LEMMA ProgramAlone ==
  ASSUME IrqInv, Running
  PROVE  Depth = 1
<1>1. Depth \in Nat \ {0} /\ Len(interrupted) = Depth - 1 /\ At(Depth) = Context
  BY Here, IrqAssumption
<1>2. PICK p \in ProgramPoints : rip = <<"program", p>>
  BY DEF Running
<1>3. rip[1] = "program"
  BY <1>2
<1>4. SUFFICES ASSUME Depth # 1 PROVE FALSE
  OBVIOUS
<1>5. PICK D \in 1 .. Len(interrupted) : D + 1 = Depth
  BY <1>1, <1>4
<1>6. PICK src \in Sources : InCallback(Context, At(D), src, df, callback)
  BY <1>1, <1>5 DEF IrqInv, EachInCallback
<1>7. Context.rip = rip
  BY DEF Context
<1>8. rip[1] = src
  BY <1>6, <1>7 DEF InCallback, Entry, Body, Popfq, LastRet
<1> QED
  BY <1>3, <1>8 DEF Sources

\* The program goes on.
LEMMA ProgramGoesOn ==
  ASSUME IrqInv, Depth = 1, UNCHANGED <<interrupted, callback, calledZero>>,
         NEW m, NEW p \in Top - 3 .. Top - 1, NEW d \in BOOLEAN, ~ (d /\ callback["clock"]),
         GoesTo(Mach(m, p, rip, d, Regs))
  PROVE  IrqInv'
<1>1. PICK q \in ProgramPoints : Become(Go(Mach(m, p, rip, d, Regs), <<"program", q>>))
  BY DEF GoesTo, Go
<1>2. PICK to : to = <<"program", q>>
  OBVIOUS
<1>3. Go(Mach(m, p, rip, d, Regs), to) = Mach(m, p, to, d, Regs)
  BY ONLY GoIs
<1>4. stack' = Clean(m, p) /\ rsp' = p /\ rip' = to /\ df' = d /\ regs' = Regs
  BY ONLY <1>1, <1>2, <1>3, BecomeIs
<1>5. Len(interrupted) = 0 /\ Depth' = 1 /\ At(1)' = Context'
  <2>1. Len(interrupted) = 0
    BY Here
  <2>2. Depth' = 1
    BY <2>1 DEF Depth
  <2>3. QED
    BY <2>1, <2>2 DEF At
<1>6. PICK c : c = Context'
  OBVIOUS
<1>7. c = [rip |-> to, rsp |-> p, df |-> d, regs |-> Regs, stack |-> Clean(m, p)]
  BY ONLY <1>4, <1>6 DEF Context
<1>8. Sound(c, 1, d)
  <2>1. c.rip = to /\ c.rsp = p /\ c.stack = Clean(m, p)
    BY ONLY <1>7
  <2>2. c = [rip |-> c.rip, rsp |-> c.rsp, df |-> d, regs |-> Regs, stack |-> c.stack]
    BY ONLY <1>7, <2>1
  <2>3. IsMem(Clean(m, p)) /\ \A a \in Words : a < p => Clean(m, p)[a] = Junk
    BY DEF Clean, IsMem
  <2>4. p \in Top - 3 * 1 .. Top - 1
    BY IrqAssumption
  <2>5. QED
    BY ONLY <2>1, <2>2, <2>3, <2>4 DEF Sound
<1>20. IrqTypeOK'
  BY <1>4 DEF IrqInv, IrqTypeOK
<1>21. ContextsSound'
  BY <1>4, <1>5, <1>6, <1>8 DEF ContextsSound
<1>22. ProgramFirst'
  <2>1. c.rip = to
    BY ONLY <1>7
  <2>2. QED
    BY <1>2, <1>5, <1>6, <2>1 DEF ProgramFirst
<1>23. EachInCallback' /\ Kept'
  BY <1>5 DEF EachInCallback, Kept
<1> QED
  BY <1>20, <1>21, <1>22, <1>23 DEF IrqInv

\* A program drops what it has pushed.
Drop(s) == [s EXCEPT !.rsp = @ + 1]

LEMMA DropIs ==
  ASSUME NEW m, NEW p \in Int, NEW q, NEW d, NEW r
  PROVE  Drop(Mach(m, p, q, d, r)) = Mach(m, p + 1, q, d, r)
<1>1. ASSUME NEW s, s = [m |-> m, rsp |-> p, rip |-> q, df |-> d, r |-> r]
      PROVE  [s EXCEPT !.rsp = @ + 1] = [m |-> m, rsp |-> p + 1, rip |-> q, df |-> d, r |-> r]
  BY <1>1
<1> QED
  BY <1>1 DEF Mach, Drop

LEMMA ProgramInv ==
  ASSUME ClearDF, IrqInv, ProgramStep
  PROVE  IrqInv'
<1>1. /\ Machine = Mach(stack, rsp, rip, df, Regs) /\ IsMem(stack) /\ rsp \in Int /\ rsp >= Top - 3 * Depth
      /\ rsp <= Top - 1 /\ rsp \in Words /\ rsp - 12 \in Words
  BY Here
<1>2. Depth = 1 /\ UNCHANGED <<interrupted, callback, calledZero>>
  BY ProgramAlone DEF ProgramStep
<1>3. df \in BOOLEAN /\ ~ (df /\ callback["clock"]) /\ callback \in [Sources -> BOOLEAN] /\ "clock" \in Sources
  BY DEF IrqInv, IrqTypeOK, Sources
<1>4. rsp \in Top - 3 .. Top - 1 /\ Top \in Nat
  BY <1>1, <1>2, IrqAssumption
<1>5. CASE rsp > Top - 3 /\ GoesTo(Push(Machine, <<"data", "data">>))
  <2>1. PICK w : w = <<"data", "data">>
    OBVIOUS
  <2>2. rsp - 1 \in Words /\ rsp - 1 \in Top - 3 .. Top - 1
    BY <1>1, <1>4, <1>5 DEF Words
  <2>3. PICK m : m = [stack EXCEPT ![rsp - 1] = w]
    OBVIOUS
  <2>0. Push(Mach(stack, rsp, rip, df, Regs), w) = Mach([stack EXCEPT ![rsp - 1] = w], rsp - 1, rip, df, Regs)
    BY ONLY <1>1, <2>2, PushIs
  <2>4. Push(Mach(stack, rsp, rip, df, Regs), w) = Mach(m, rsp - 1, rip, df, Regs)
    BY ONLY <2>0, <2>3
  <2>5. GoesTo(Mach(m, rsp - 1, rip, df, Regs))
    BY ONLY <1>1, <1>5, <2>1, <2>4
  <2>6. QED
    BY <1>2, <1>3, <2>2, <2>5, ProgramGoesOn
<1>6. CASE rsp < Top - 1 /\ GoesTo([Machine EXCEPT !.rsp = @ + 1])
  <2>1. Drop(Mach(stack, rsp, rip, df, Regs)) = Mach(stack, rsp + 1, rip, df, Regs)
    BY ONLY <1>1, DropIs
  <2>2. GoesTo(Drop(Machine))
    BY <1>6 DEF Drop
  <2>3. GoesTo(Mach(stack, rsp + 1, rip, df, Regs))
    BY ONLY <1>1, <2>1, <2>2
  <2>4. rsp + 1 \in Top - 3 .. Top - 1
    BY <1>1, <1>4, <1>6
  <2>5. QED
    BY <1>2, <1>3, <2>3, <2>4, ProgramGoesOn
<1>7. CASE GoesTo([Machine EXCEPT !.df = FALSE])
  <2>1. PICK e \in BOOLEAN : e = FALSE
    OBVIOUS
  <2>2. Flag(Mach(stack, rsp, rip, df, Regs), e) = Mach(stack, rsp, rip, e, Regs)
    BY ONLY FlagIs
  <2>3. GoesTo(Flag(Machine, e))
    BY <1>7, <2>1 DEF Flag
  <2>4. GoesTo(Mach(stack, rsp, rip, e, Regs))
    BY ONLY <1>1, <2>2, <2>3
  <2>5. ~ (e /\ callback["clock"])
    BY <2>1
  <2>6. QED
    BY ONLY IrqInv, <1>2, <1>4, <2>4, <2>5, e \in BOOLEAN, ProgramGoesOn
<1>8. CASE ~ (ClearDF /\ callback["clock"]) /\ GoesTo([Machine EXCEPT !.df = TRUE])
  <2>1. PICK e \in BOOLEAN : e = TRUE
    OBVIOUS
  <2>2. Flag(Mach(stack, rsp, rip, df, Regs), e) = Mach(stack, rsp, rip, e, Regs)
    BY ONLY FlagIs
  <2>3. GoesTo(Flag(Machine, e))
    BY <1>8, <2>1 DEF Flag
  <2>4. GoesTo(Mach(stack, rsp, rip, e, Regs))
    BY ONLY <1>1, <2>2, <2>3
  <2>5. ~ (e /\ callback["clock"])
    BY <1>8
  <2>6. QED
    BY ONLY IrqInv, <1>2, <1>4, <2>4, <2>5, e \in BOOLEAN, ProgramGoesOn
<1> QED
  BY <1>5, <1>6, <1>7, <1>8 DEF ProgramStep

LEMMA SetStep ==
  ASSUME ClearDF, IrqInv, NEW src \in Sources, NEW b \in BOOLEAN, SetCallback(src, b)
  PROVE  IrqInv'
<1>1. /\ Running \/ OthersSet
      /\ ~ (df /\ src = "clock")
      /\ callback' = [callback EXCEPT ![src] = b]
      /\ UNCHANGED <<stack, rsp, rip, df, regs, interrupted, calledZero>>
  BY DEF SetCallback
<1>2. Depth' = Depth /\ Context' = Context /\ \A n : At(n)' = At(n)
  <2>1. Depth' = Depth
    BY <1>1 DEF Depth
  <2>2. Context' = Context
    BY <1>1 DEF Context
  <2>3. QED
    BY <1>1, <2>1, <2>2 DEF At
<1>20. IrqTypeOK'
  <2>1. callback' \in [Sources -> BOOLEAN] /\ ~ (df' /\ callback'["clock"])
    BY <1>1 DEF IrqInv, IrqTypeOK, Sources
  <2>2. IsSeq(interrupted') /\ Len(interrupted') <= MaxNest /\ df' \in BOOLEAN /\ calledZero' \in BOOLEAN
        /\ (~ OthersSet => ~ calledZero')
    BY <1>1 DEF IrqInv, IrqTypeOK
  <2>3. QED
    BY <2>1, <2>2 DEF IrqTypeOK
<1>21. ContextsSound' /\ ProgramFirst' /\ Kept'
  BY <1>1, <1>2 DEF IrqInv, ContextsSound, ProgramFirst, Kept
<1>22. EachInCallback'
  <2>1. CASE OthersSet
    <3>1. \A c, e, s : InCallback(c, e, s, df, callback) => InCallback(c, e, s, df', callback')
      BY <1>1, <2>1 DEF InCallback
    <3>2. QED
      BY <1>1, <1>2, <3>1 DEF IrqInv, EachInCallback
  <2>2. CASE Running
    <3>1. Len(interrupted) = 0
      BY <2>2, ProgramAlone, Here
    <3>2. QED
      BY <1>1, <3>1 DEF EachInCallback
  <2>3. QED
    BY <1>1, <2>1, <2>2
<1> QED
  BY <1>20, <1>21, <1>22 DEF IrqInv

LEMMA IrqInitInv == IrqInit => IrqInv
<1> SUFFICES ASSUME IrqInit PROVE IrqInv
  OBVIOUS
<1>1. Top \in Nat /\ MaxNest \in Nat /\ Top >= 4
  BY IrqAssumption
<1>2. interrupted = <<>> /\ Len(interrupted) = 0 /\ Depth = 1
  BY DEF IrqInit, Depth
<1>3. At(1) = Context
  BY <1>2 DEF At
<1>4. PICK e \in BOOLEAN : e = FALSE
  OBVIOUS
<1>5. df = e
  BY <1>4 DEF IrqInit
<1>6. PICK c : c = Context
  OBVIOUS
<1>7. stack = [a \in Words |-> Junk] /\ rsp = Top - 1 /\ rip = <<"program", "p0">> /\ regs = Regs
  BY DEF IrqInit, Regs
<1>8. c = [rip |-> rip, rsp |-> rsp, df |-> df, regs |-> Regs, stack |-> stack]
  BY ONLY <1>6, <1>7 DEF Context
<1>9. Sound(c, 1, df)
  <2>1. c.rip = rip /\ c.rsp = rsp /\ c.stack = stack
    BY ONLY <1>8
  <2>2. c = [rip |-> c.rip, rsp |-> c.rsp, df |-> df, regs |-> Regs, stack |-> c.stack]
    BY ONLY <1>8, <2>1
  <2>3. IsMem(stack) /\ \A a \in Words : a < rsp => stack[a] = Junk
    BY <1>7 DEF IsMem
  <2>4. rsp \in Top - 3 * 1 .. Top - 1
    BY <1>1, <1>7
  <2>5. QED
    BY ONLY <2>1, <2>2, <2>3, <2>4 DEF Sound
<1>20. IrqTypeOK
  <2>1. IsSeq(interrupted) /\ Len(interrupted) <= MaxNest
    BY <1>1, <1>2 DEF IsSeq
  <2>2. callback \in [Sources -> BOOLEAN] /\ df \in BOOLEAN /\ calledZero \in BOOLEAN /\ ~ df /\ ~ calledZero
    BY DEF IrqInit
  <2>3. QED
    BY <2>1, <2>2 DEF IrqTypeOK
<1>21. ContextsSound
  BY <1>2, <1>3, <1>6, <1>9 DEF ContextsSound
<1>22. ProgramFirst
  <2>1. c.rip = rip
    BY ONLY <1>8
  <2>2. QED
    BY <1>3, <1>6, <1>7, <2>1 DEF ProgramFirst, ProgramPoints
<1>23. EachInCallback /\ Kept
  BY <1>2 DEF EachInCallback, Kept
<1> QED
  BY <1>20, <1>21, <1>22, <1>23 DEF IrqInv

\* Every step; ClearDF: no program with a clock callback runs with the direction flag set.
LEMMA IrqStepInv ==
  ASSUME ClearDF, IrqInv, [IrqNext]_irqVars
  PROVE  IrqInv'
<1>0. ASSUME UNCHANGED irqVars PROVE IrqInv'
  <2>1. /\ UNCHANGED <<stack, rsp, rip, df, regs, callback, interrupted, calledZero>>
    BY <1>0 DEF irqVars
  <2>2. Context' = Context
    BY <2>1 DEF Context
  <2>3. Depth' = Depth
    BY <2>1 DEF Depth
  <2>4. \A n : At(n)' = At(n)
    BY <2>1, <2>2, <2>3 DEF At
  <2>5. IrqTypeOK'
    BY <2>1 DEF IrqInv, IrqTypeOK
  <2>6. ContextsSound' /\ ProgramFirst' /\ EachInCallback' /\ Kept'
    BY <2>1, <2>3, <2>4 DEF IrqInv, ContextsSound, ProgramFirst, EachInCallback, Kept
  <2>7. QED
    BY <2>5, <2>6 DEF IrqInv
<1>1. CASE Rtc
  BY <1>0, <1>1, RtcIs, NestedStep DEF Sources
<1>2. ASSUME NEW rx \in BOOLEAN, Network(rx) PROVE IrqInv'
  BY <1>0, <1>2, NetworkIs, NestedStep DEF Sources
<1>3. ASSUME NEW src \in Sources,
             CallCallback(src) \/ CallbackReturns(src) \/ PopTheFlags(src) \/ Resume(src)
      PROVE  IrqInv'
  BY <1>3, CallStep, ReturnStep, PopStep, ResumeStep
<1>4. CASE ProgramStep
  BY <1>4, ProgramInv
<1>5. ASSUME NEW src \in Sources, NEW b \in BOOLEAN, SetCallback(src, b) PROVE IrqInv'
  BY <1>5, SetStep
<1> QED
  BY <1>0, <1>1, <1>2, <1>3, <1>4, <1>5 DEF IrqNext

\* The invariant holds always: whatever is interrupted lies on the stack in the order in which it
\* was interrupted, and each callback is where it can go back to it.
THEOREM IrqInvariant == ClearDF => (IrqSpec => []IrqInv)
<1> SUFFICES ASSUME ClearDF PROVE IrqSpec => []IrqInv
  OBVIOUS
<1>1. IrqInv /\ [IrqNext]_irqVars => IrqInv'
  BY IrqStepInv
<1> QED
  BY <1>1, IrqInitInv, PTL DEF IrqSpec

-----------------------------------------------------------------------------
(* What it says to those who are interrupted.                              *)

\* What a program, or a callback, has on its stack is there for as long as it is interrupted, to
\* any depth and with either alignment of the stack: rtc and network move the frame within the
\* space below it.
THEOREM StacksAlwaysKept == ClearDF => (IrqSpec => []StacksKept)
<1> SUFFICES ASSUME ClearDF PROVE IrqSpec => []StacksKept
  OBVIOUS
<1>1. IrqInv => StacksKept
  <2> SUFFICES ASSUME IrqInv PROVE StacksKept
    OBVIOUS
  <2>1. Depth \in Nat \ {0} /\ Len(interrupted) = Depth - 1 /\ At(Depth) = Context
    BY Here, IrqAssumption
  <2>2. DOMAIN interrupted = 1 .. Len(interrupted)
    BY DEF IrqInv, IrqTypeOK, IsSeq
  <2>3. ASSUME NEW i \in 1 .. Len(interrupted), NEW a \in interrupted[i].rsp .. Top - 1
        PROVE  stack[a] = interrupted[i].stack[a]
    <3>1. At(i) = interrupted[i]
      BY <2>1 DEF At
    <3>2. Depth \in 1 .. Depth /\ i \in 1 .. Depth - 1
      BY <2>1
    <3>3. \A w \in At(i).rsp .. Top - 1 : At(Depth).stack[w] = At(i).stack[w]
      BY <3>2 DEF IrqInv, Kept
    <3>4. At(Depth).stack = stack
      BY <2>1 DEF Context
    <3>5. QED
      BY <3>1, <3>3, <3>4
  <2>4. QED
    BY <2>2, <2>3 DEF StacksKept
<1> QED
  BY <1>1, IrqInvariant, PTL

\* A callback comes back to what was interrupted, with its instruction, stack, flags and registers;
\* a handler without a callback changes none of them; and, where only the program sets callbacks,
\* the one that is called is still there.
THEOREM ResumedIntact == ClearDF /\ ~ OthersSet => (IrqSpec => ResumesIntact)
<1> SUFFICES ASSUME ClearDF, ~ OthersSet PROVE IrqSpec => ResumesIntact
  OBVIOUS
<1> DEFINE Back == Len(interrupted') < Len(interrupted) =>
                     LET c == interrupted[Len(interrupted)]
                     IN  /\ rip' = c.rip /\ rsp' = c.rsp /\ df' = c.df /\ regs' = c.regs
                         /\ stack' = c.stack
           Through == (Rtc \/ \E rx \in BOOLEAN : Network(rx)) /\ interrupted' = interrupted =>
                        UNCHANGED <<stack, rsp, rip, df, regs>>
<1>1. ASSUME IrqInv, [IrqNext]_irqVars PROVE Back
  <2>1. SUFFICES ASSUME Len(interrupted') < Len(interrupted)
                 PROVE  LET c == interrupted[Len(interrupted)]
                        IN  /\ rip' = c.rip /\ rsp' = c.rsp /\ df' = c.df /\ regs' = c.regs
                            /\ stack' = c.stack
    OBVIOUS
  <2>2. IsSeq(interrupted) /\ Len(interrupted) \in Nat
    BY <1>1 DEF IrqInv, IrqTypeOK, IsSeq
  <2>3. ASSUME UNCHANGED interrupted PROVE FALSE
    BY <2>1, <2>2, <2>3
  <2>4. ASSUME NEW src, Nested(src) PROVE FALSE
    <3>1. Len(interrupted') = Len(interrupted) + 1
      BY <2>2, <2>4, AppendIs DEF Nested
    <3>2. QED
      BY <2>1, <2>2, <3>1
  <2>5. ASSUME UNCHANGED irqVars PROVE FALSE
    BY <2>3, <2>5 DEF irqVars
  <2>6. ~ Rtc
    BY <1>1, <2>4, <2>5, RtcIs
  <2>7. \A rx \in BOOLEAN : ~ Network(rx)
    BY <1>1, <2>4, <2>5, NetworkIs
  <2>8. ASSUME NEW src \in Sources PROVE ~ (CallCallback(src) \/ CallbackReturns(src) \/ PopTheFlags(src))
    BY <2>3 DEF CallCallback, CallbackReturns, PopTheFlags
  <2>9. ~ ProgramStep
    BY <2>3 DEF ProgramStep
  <2>10. ASSUME NEW src \in Sources, NEW b \in BOOLEAN PROVE ~ SetCallback(src, b)
    BY <2>3 DEF SetCallback
  <2>11. PICK src \in Sources : Resume(src)
    BY <1>1, <2>5, <2>6, <2>7, <2>8, <2>9, <2>10 DEF IrqNext
  <2>12. Depth > 1 /\ Context' = At(Depth - 1)
    BY <1>1, <2>11, ResumeIs
  <2>13. Len(interrupted) = Depth - 1 /\ Depth \in Nat
    BY <1>1, Here, IrqAssumption
  <2>14. At(Depth - 1) = interrupted[Len(interrupted)]
    BY <2>12, <2>13 DEF At
  <2>15. PICK c : c = interrupted[Len(interrupted)]
    OBVIOUS
  <2>16. c = [rip |-> rip', rsp |-> rsp', df |-> df', regs |-> regs', stack |-> stack']
    BY <2>12, <2>14, <2>15 DEF Context
  <2>17. rip' = c.rip /\ rsp' = c.rsp /\ df' = c.df /\ regs' = c.regs /\ stack' = c.stack
    BY ONLY <2>16
  <2>18. QED
    BY <2>15, <2>17
<1>2. ASSUME IrqInv PROVE Through
  <2>1. SUFFICES ASSUME Rtc \/ \E rx \in BOOLEAN : Network(rx), interrupted' = interrupted
                 PROVE  UNCHANGED <<stack, rsp, rip, df, regs>>
    OBVIOUS
  <2>2. ASSUME NEW src, Nested(src) PROVE FALSE
    <3>1. IsSeq(interrupted) /\ Len(interrupted) \in Nat
      BY <1>2 DEF IrqInv, IrqTypeOK, IsSeq
    <3>2. Len(interrupted') = Len(interrupted) + 1
      BY <2>2, <3>1, AppendIs DEF Nested
    <3>3. QED
      BY <2>1, <3>1, <3>2
  <2>3. UNCHANGED irqVars
    BY <1>2, <2>1, <2>2, RtcIs, NetworkIs
  <2>4. QED
    BY <2>3 DEF irqVars
<1>3. IrqInv' => ~ calledZero'
  BY DEF IrqInv, IrqTypeOK
<1>4. IrqInv /\ IrqInv' /\ [IrqNext]_irqVars => [Back /\ Through /\ ~ calledZero']_irqVars
  BY <1>1, <1>2, <1>3
<1>5. IrqSpec => []IrqInv
  BY IrqInvariant
<1> QED
  BY <1>4, <1>5, PTL DEF IrqSpec, ResumesIntact
=============================================================================
