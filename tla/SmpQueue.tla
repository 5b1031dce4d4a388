------------------------------ MODULE SmpQueue ------------------------------
(***************************************************************************)
(* The SMP workload queue of bmos/syscalls/smp.asm: a ring of cpuqueuemax  *)
(* entries with two cursors and a length, guarded by the spin lock         *)
(* os_QueueLock.  One action per access to shared memory, so that the      *)
(* steps of different cores interleave as the instructions do.  A core is  *)
(* at the program counter it is about to execute:                          *)
(*                                                                         *)
(*   enq_spin, deq_spin        bt: is the lock free?                       *)
(*   enq_bts, deq_bts          lock bts: grab it                           *)
(*   enq_check, deq_check      compare os_QueueLen with the limit          *)
(*   enq_store, deq_load       access the entry                            *)
(*   enq_len, deq_len          add to or subtract from os_QueueLen         *)
(*   enq_finish, deq_start     move the cursor                             *)
(*   enq_release, deq_release  btr: release the lock                       *)
(*   enq_fail, deq_fail        btr on the error path                       *)
(*   enq_wakeup                call os_smp_wakeup_all, lock released       *)
(*   ret_ok, ret_fail          ret, with the carry clear or set            *)
(***************************************************************************)
EXTENDS Naturals, Sequences

CONSTANTS
  Cores,         \* the CPU cores that may call the two functions
  Work,          \* the workloads: what an entry's two quadwords hold
  NoWork,        \* the zero in a cleared entry and in RAX on failure
  cpuqueuemax    \* entries in the ring (256 in the code)

ASSUME QueueAssumption ==
  /\ cpuqueuemax \in Nat \ {0}
  /\ NoWork \notin Work

VARIABLES
  os_QueueLock,    \* bit 0 of the lock word
  os_QueueLen,     \* entries in use
  cpuqueuestart,   \* cursor of the next entry to dequeue
  cpuqueuefinish,  \* cursor of the next entry to fill
  cpuqueue,        \* the entries
  pc,              \* where each core is inside the two functions
  item             \* the workload in each core's RAX/RSI or RAX/RDI

queueVars == <<os_QueueLock, os_QueueLen, cpuqueuestart, cpuqueuefinish, cpuqueue, pc, item>>

Slots == 0 .. cpuqueuemax - 1

\* add cx,1 then cmp cx,[cpuqueuemax] and xor cx,cx: a cursor at the end wraps to 0.
Wrap(i) == IF i >= cpuqueuemax THEN i - cpuqueuemax ELSE i

QueueInit ==
  /\ os_QueueLock = FALSE
  /\ os_QueueLen = 0
  /\ cpuqueuestart = 0
  /\ cpuqueuefinish = 0
  /\ cpuqueue = [i \in Slots |-> NoWork]
  /\ pc = [c \in Cores |-> "idle"]
  /\ item = [c \in Cores |-> NoWork]

Goto(c, from, to) ==
  /\ pc[c] = from
  /\ pc' = [pc EXCEPT ![c] = to]

-----------------------------------------------------------------------------
(* The lock, as both functions and os_smp_lock take and release it.        *)

\* bt + jc: leave the loop once the lock is seen free; the test takes nothing.
TestLock(c, from, to) ==
  /\ ~os_QueueLock
  /\ Goto(c, from, to)
  /\ UNCHANGED <<os_QueueLock, os_QueueLen, cpuqueuestart, cpuqueuefinish, cpuqueue, item>>

\* A plausible bug: the carry of the bts is not looked at.
GrabLockUnchecked(c, from, to, again) ==
  /\ Goto(c, from, to)
  /\ os_QueueLock' = TRUE
  /\ UNCHANGED <<os_QueueLen, cpuqueuestart, cpuqueuefinish, cpuqueue, item>>

\* lock bts + jc: set the bit; back to the test if it was set already.
GrabLock(c, from, to, again) ==
  /\ Goto(c, from, IF os_QueueLock THEN again ELSE to)
  /\ os_QueueLock' = TRUE
  /\ UNCHANGED <<os_QueueLen, cpuqueuestart, cpuqueuefinish, cpuqueue, item>>

\* btr: clear the bit, whoever holds the lock.
ReleaseLock(c, from, to) ==
  /\ Goto(c, from, to)
  /\ os_QueueLock' = FALSE
  /\ UNCHANGED <<os_QueueLen, cpuqueuestart, cpuqueuefinish, cpuqueue, item>>

-----------------------------------------------------------------------------
(* os_smp_enqueue                                                          *)

CallEnqueue(c, w) ==
  /\ Goto(c, "idle", "enq_spin")
  /\ item' = [item EXCEPT ![c] = w]
  /\ UNCHANGED <<os_QueueLock, os_QueueLen, cpuqueuestart, cpuqueuefinish, cpuqueue>>

EnqTest(c) == TestLock(c, "enq_spin", "enq_bts")

EnqGrab(c) == GrabLock(c, "enq_bts", "enq_check", "enq_spin")

EnqCheck(c) ==
  /\ Goto(c, "enq_check", IF os_QueueLen = cpuqueuemax THEN "enq_fail" ELSE "enq_store")
  /\ UNCHANGED <<os_QueueLock, os_QueueLen, cpuqueuestart, cpuqueuefinish, cpuqueue, item>>

\* A plausible bug: the entry is filled and not counted.
EnqStoreUncounted(c) ==
  /\ Goto(c, "enq_store", "enq_finish")
  /\ cpuqueue' = [cpuqueue EXCEPT ![cpuqueuefinish] = item[c]]
  /\ UNCHANGED <<os_QueueLock, os_QueueLen, cpuqueuestart, cpuqueuefinish, item>>

EnqStore(c) ==
  /\ Goto(c, "enq_store", "enq_len")
  /\ cpuqueue' = [cpuqueue EXCEPT ![cpuqueuefinish] = item[c]]
  /\ UNCHANGED <<os_QueueLock, os_QueueLen, cpuqueuestart, cpuqueuefinish, item>>

EnqLen(c) ==
  /\ Goto(c, "enq_len", "enq_finish")
  /\ os_QueueLen' = os_QueueLen + 1
  /\ UNCHANGED <<os_QueueLock, cpuqueuestart, cpuqueuefinish, cpuqueue, item>>

EnqFinish(c) ==
  /\ Goto(c, "enq_finish", "enq_release")
  /\ cpuqueuefinish' = Wrap(cpuqueuefinish + 1)
  /\ UNCHANGED <<os_QueueLock, os_QueueLen, cpuqueuestart, cpuqueue, item>>

EnqRelease(c) == ReleaseLock(c, "enq_release", "enq_wakeup")

\* A plausible bug: the full queue is reported with the lock still set.
EnqFailLocked(c) ==
  /\ Goto(c, "enq_fail", "ret_fail")
  /\ UNCHANGED <<os_QueueLock, os_QueueLen, cpuqueuestart, cpuqueuefinish, cpuqueue, item>>

EnqFail(c) == ReleaseLock(c, "enq_fail", "ret_fail")

\* os_smp_wakeup_all: no effect on the queue (Smp adds the interrupts it sends).
EnqWakeup(c) ==
  /\ Goto(c, "enq_wakeup", "ret_ok")
  /\ UNCHANGED <<os_QueueLock, os_QueueLen, cpuqueuestart, cpuqueuefinish, cpuqueue, item>>

-----------------------------------------------------------------------------
(* os_smp_dequeue                                                          *)

CallDequeue(c) ==
  /\ Goto(c, "idle", "deq_spin")
  /\ UNCHANGED <<os_QueueLock, os_QueueLen, cpuqueuestart, cpuqueuefinish, cpuqueue, item>>

DeqTest(c) == TestLock(c, "deq_spin", "deq_bts")

DeqGrab(c) == GrabLock(c, "deq_bts", "deq_check", "deq_spin")

DeqCheck(c) ==
  /\ Goto(c, "deq_check", IF os_QueueLen = 0 THEN "deq_fail" ELSE "deq_load")
  /\ UNCHANGED <<os_QueueLock, os_QueueLen, cpuqueuestart, cpuqueuefinish, cpuqueue, item>>

\* A plausible bug: the entry is read at the wrong cursor.
DeqLoadAtFinish(c) ==
  /\ Goto(c, "deq_load", "deq_len")
  /\ item' = [item EXCEPT ![c] = cpuqueue[cpuqueuefinish]]
  /\ UNCHANGED <<os_QueueLock, os_QueueLen, cpuqueuestart, cpuqueuefinish, cpuqueue>>

DeqLoad(c) ==
  /\ Goto(c, "deq_load", "deq_len")
  /\ item' = [item EXCEPT ![c] = cpuqueue[cpuqueuestart]]
  /\ UNCHANGED <<os_QueueLock, os_QueueLen, cpuqueuestart, cpuqueuefinish, cpuqueue>>

DeqLen(c) ==
  /\ Goto(c, "deq_len", "deq_start")
  /\ os_QueueLen' = os_QueueLen - 1
  /\ UNCHANGED <<os_QueueLock, cpuqueuestart, cpuqueuefinish, cpuqueue, item>>

DeqStart(c) ==
  /\ Goto(c, "deq_start", "deq_release")
  /\ cpuqueuestart' = Wrap(cpuqueuestart + 1)
  /\ UNCHANGED <<os_QueueLock, os_QueueLen, cpuqueuefinish, cpuqueue, item>>

DeqRelease(c) == ReleaseLock(c, "deq_release", "ret_ok")

DeqFail(c) == ReleaseLock(c, "deq_fail", "ret_fail")

-----------------------------------------------------------------------------
\* ret: the caller reads the carry and its registers, and goes on.
Return(c) ==
  /\ pc[c] \in {"ret_ok", "ret_fail"}
  /\ pc' = [pc EXCEPT ![c] = "idle"]
  /\ item' = [item EXCEPT ![c] = NoWork]
  /\ UNCHANGED <<os_QueueLock, os_QueueLen, cpuqueuestart, cpuqueuefinish, cpuqueue>>

\* One step of a core that is inside one of the functions, up to its ret.
EnqStep(c) ==
  EnqTest(c) \/ EnqGrab(c) \/ EnqCheck(c) \/ EnqStore(c) \/ EnqLen(c) \/ EnqFinish(c)
    \/ EnqRelease(c) \/ EnqFail(c)

DeqStep(c) ==
  DeqTest(c) \/ DeqGrab(c) \/ DeqCheck(c) \/ DeqLoad(c) \/ DeqLen(c) \/ DeqStart(c)
    \/ DeqRelease(c) \/ DeqFail(c)

QueueStep(c) == EnqStep(c) \/ EnqWakeup(c) \/ DeqStep(c)

QueueNext ==
  \E c \in Cores :
    \/ \E w \in Work : CallEnqueue(c, w)
    \/ CallDequeue(c)
    \/ QueueStep(c)
    \/ Return(c)

QueueSpec == QueueInit /\ [][QueueNext]_queueVars

\* A core that is inside the functions keeps executing: nothing but the lock can hold it up.
QueueFairSpec == QueueSpec /\ \A c \in Cores : WF_queueVars(QueueStep(c))

-----------------------------------------------------------------------------
(* Properties                                                              *)

Holding == {"enq_check", "enq_store", "enq_len", "enq_finish", "enq_release", "enq_fail",
            "deq_check", "deq_load", "deq_len", "deq_start", "deq_release", "deq_fail"}

Locations == Holding \cup {"idle", "enq_spin", "enq_bts", "enq_wakeup", "deq_spin", "deq_bts",
                           "ret_ok", "ret_fail"}

\* Type correctness: the cursors stay inside the ring, the length between 0 and the size.
QueueTypeOK ==
  /\ os_QueueLock \in BOOLEAN
  /\ os_QueueLen \in 0 .. cpuqueuemax
  /\ cpuqueuestart \in Slots
  /\ cpuqueuefinish \in Slots
  /\ cpuqueue \in [Slots -> Work \cup {NoWork}]
  /\ pc \in [Cores -> Locations]
  /\ item \in [Cores -> Work \cup {NoWork}]

\* The test-then-grab loop is a lock: at most one core is between its bts and its btr, and
\* the bit is set exactly while one is.
QueueMutex ==
  /\ os_QueueLock <=> \E c \in Cores : pc[c] \in Holding
  /\ \A c, d \in Cores : pc[c] \in Holding /\ pc[d] \in Holding => c = d

\* The cursors as they will be once the step in progress is complete: the length changes one
\* instruction before the cursor does.
EffStart ==
  IF \E c \in Cores : pc[c] = "deq_start" THEN Wrap(cpuqueuestart + 1) ELSE cpuqueuestart

EffFinish ==
  IF \E c \in Cores : pc[c] = "enq_finish" THEN Wrap(cpuqueuefinish + 1) ELSE cpuqueuefinish

\* Length and cursors agree at every instruction, in the full and in the empty ring too, where
\* the cursors alone cannot tell the two apart.
RingConsistent == EffFinish = Wrap(EffStart + os_QueueLen)

\* A set lock is cleared again: no path through the two functions leaves with it.
LockReleased == os_QueueLock ~> ~os_QueueLock

\* The ring and its lock implement the FIFO of WorkFifo.  The operation takes effect where
\* os_QueueLen changes, or where the length is compared on the failing path.
AbsFifo == [i \in 1 .. os_QueueLen |-> cpuqueue[Wrap(EffStart + (i - 1))]]

AbsPhase ==
  [c \in Cores |->
     CASE pc[c] \in {"enq_spin", "enq_bts", "enq_check", "enq_store", "enq_len"} -> "enqueue"
       [] pc[c] \in {"deq_spin", "deq_bts", "deq_check", "deq_load", "deq_len"} -> "dequeue"
       [] pc[c] \in {"enq_finish", "enq_release", "enq_wakeup", "deq_start", "deq_release",
                     "ret_ok"} -> "ok"
       [] pc[c] \in {"enq_fail", "deq_fail", "ret_fail"} -> "failed"
       [] OTHER -> "idle"]

\* The register has been loaded one instruction before the entry counts as taken.
AbsItem == [c \in Cores |-> IF pc[c] = "deq_len" THEN NoWork ELSE item[c]]

Fifo == INSTANCE WorkFifo WITH
          MaxLen <- cpuqueuemax, fifo <- AbsFifo, phase <- AbsPhase, item <- AbsItem

FifoSpec == Fifo!Spec
=============================================================================
