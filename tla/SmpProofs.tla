------------------------------ MODULE SmpProofs ------------------------------
(***************************************************************************)
(* Theorems about the scheduler, for any number of cores and workloads and *)
(* any size of the queue: no workload is lost or run twice, the status     *)
(* bytes tell the truth, and os_smp_wait covers what was marked busy.      *)
(***************************************************************************)
EXTENDS Smp, FiniteSetTheorems, SequenceTheorems, TLAPS

\* What each core is doing with the queue, and with which workload.
PhaseFits ==
  \A c \in Cores :
    /\ loc[c] = "dequeue" => /\ phase[c] \in {"dequeue", "ok", "failed"}
                             /\ phase[c] = "ok" <=> item[c] \in Work
    /\ loc[c] \in {"running", "program"} => /\ phase[c] # "dequeue"
                                            /\ phase[c] # "idle" => item[c] \in Work
    /\ loc[c] \notin {"dequeue", "running", "program"} => phase[c] = "idle"
    /\ phase[c] = "idle" => item[c] = NoWork

\* A core has a workload from the moment it has left the queue to its end.
WorkFits == \A c \in Cores : work[c] \in Work <=> loc[c] \in {"claimed", "running"}

\* Only the boot processor has a program, and so is the only one that waits.
BspWaits == \A c \in Cores : loc[c] \in {"program", "waiting"} => c = BSP

\* The places of a workload.
Queued(w) == \E i \in 1 .. Len(fifo) : fifo[i] = w
Passed(c, w) == phase[c] \in {"enqueue", "failed"} /\ item[c] = w
Handed(c, w) == loc[c] = "dequeue" /\ item[c] = w
Taken(c, w) == work[c] = w

SomePlace ==
  \A w \in Work : \/ w \in fresh \/ w \in ended \/ Queued(w)
                  \/ \E c \in Cores : Passed(c, w) \/ Handed(c, w) \/ Taken(c, w)

NoTwoPlaces ==
  /\ \A w \in Work :
       /\ w \in fresh => w \notin ended /\ ~ Queued(w)
       /\ w \in ended => ~ Queued(w)
       /\ \A c \in Cores : Passed(c, w) \/ Handed(c, w) \/ Taken(c, w) =>
            w \notin fresh /\ w \notin ended /\ ~ Queued(w)
       /\ \A c, d \in Cores : /\ Passed(c, w) => ~ Handed(d, w) /\ ~ Taken(d, w)
                              /\ Handed(c, w) => ~ Taken(d, w)
                              /\ Passed(c, w) /\ Passed(d, w) => c = d
                              /\ Handed(c, w) /\ Handed(d, w) => c = d
                              /\ Taken(c, w) /\ Taken(d, w) => c = d
  /\ \A i, j \in 1 .. Len(fifo) : fifo[i] = fifo[j] => i = j

\* While os_smp_wait runs, each workload it was called for is over, or runs on a core it has
\* still to look at.
WaitKnows ==
  \A c \in Cores : loc[c] = "waiting" =>
    \A w \in awaited : w \in ended \/ \E d \in Cores : /\ d # c /\ d >= cursor
                                                       /\ loc[d] = "running" /\ work[d] = w

SmpInv ==
  /\ SmpTypeOK
  /\ PhaseFits
  /\ WorkFits
  /\ BspWaits
  /\ StatusTellsTruth
  /\ SomePlace
  /\ NoTwoPlaces
  /\ WaitKnows

-----------------------------------------------------------------------------
LEMMA SmpInitInv == SmpInit => SmpInv
<1> SUFFICES ASSUME SmpInit PROVE SmpInv
  OBVIOUS
<1> USE DEF SmpInit, Init
<1>1. SmpTypeOK
  BY SmpAssumption DEF SmpTypeOK, Phases, Absent, Ready, Busy
<1>2. PhaseFits /\ WorkFits /\ BspWaits
  BY SmpAssumption DEF PhaseFits, WorkFits, BspWaits
<1>3. StatusTellsTruth
  BY DEF StatusTellsTruth
<1>4. SomePlace
  BY DEF SomePlace
<1>5. NoTwoPlaces
  <2>1. \A w \in Work : ~ Queued(w)
    BY DEF Queued
  <2>2. \A c \in Cores, w \in Work : ~ Passed(c, w) /\ ~ Handed(c, w) /\ ~ Taken(c, w)
    BY SmpAssumption DEF Passed, Handed, Taken
  <2>3. QED
    BY <2>1, <2>2 DEF NoTwoPlaces
<1>6. WaitKnows
  BY DEF WaitKnows
<1>7. QED
  BY <1>1, <1>2, <1>3, <1>4, <1>5, <1>6 DEF SmpInv

-----------------------------------------------------------------------------
(* A step preserves the invariant: one lemma for each of its parts.        *)

LEMMA SmpTypeStep == SmpInv /\ [SmpNext]_smpVars => SmpTypeOK'
<1> SUFFICES ASSUME SmpInv, [SmpNext]_smpVars PROVE SmpTypeOK'
  OBVIOUS
<1> USE DEF SmpInv, SmpTypeOK, Jump, Move, Phases, Absent, Ready, Busy
<1>1. CASE UNCHANGED smpVars
  BY <1>1 DEF smpVars
<1>2. ASSUME NEW c \in Cores, ApClear(c) \/ ApSpinEmpty(c) \/ ApSpinWork(c) PROVE SmpTypeOK'
  <2>1. CASE ApClear(c)
    BY <2>1 DEF ApClear
  <2>2. CASE ApSpinEmpty(c)
    BY <2>2 DEF ApSpinEmpty
  <2>3. CASE ApSpinWork(c)
    BY <2>3 DEF ApSpinWork, CallDequeue
  <2>4. QED
    BY <1>2, <2>1, <2>2, <2>3
<1>3. ASSUME NEW c \in Cores, ApDequeue(c) PROVE SmpTypeOK'
  <2>1. CASE Dequeue(c)
    <3>1. Head(fifo) \in Work /\ Tail(fifo) \in Seq(Work) /\ Len(Tail(fifo)) = Len(fifo) - 1
      BY <2>1, HeadTailProperties DEF Dequeue
    <3>2. Len(Tail(fifo)) \in 0 .. MaxLen
      BY <3>1, LenProperties, SmpAssumption
    <3>3. QED
      BY <1>3, <2>1, <3>1, <3>2 DEF ApDequeue, Dequeue
  <2>2. CASE RefuseDequeue(c)
    BY <1>3, <2>2 DEF ApDequeue, RefuseDequeue
  <2>3. QED
    BY <1>3, <2>1, <2>2 DEF ApDequeue
<1>4. ASSUME NEW c \in Cores, ApDequeued(c) \/ ApHalt(c) \/ ApProcess(c) PROVE SmpTypeOK'
  <2>1. CASE ApDequeued(c)
    BY <2>1 DEF ApDequeued, Return
  <2>2. CASE ApHalt(c)
    BY <2>2 DEF ApHalt
  <2>3. CASE ApProcess(c)
    BY <2>3 DEF ApProcess
  <2>4. QED
    BY <1>4, <2>1, <2>2, <2>3
<1>5. ASSUME NEW c \in Cores, Leave(c, "running") \/ Leave(c, "program") PROVE SmpTypeOK'
  BY <1>5 DEF Leave
<1>6. ASSUME NEW c \in Cores, NEW w \in Work, Submit(c, w) PROVE SmpTypeOK'
  BY <1>6 DEF Submit, CallEnqueue
<1>7. ASSUME NEW c \in Cores, Submitting(c) PROVE SmpTypeOK'
  <2>1. CASE Enqueue(c)
    <3>1. item[c] \in Work
      BY <1>7, <2>1 DEF Submitting, Enqueue, PhaseFits
    <3>2. Append(fifo, item[c]) \in Seq(Work) /\ Len(Append(fifo, item[c])) = Len(fifo) + 1
      BY <3>1, AppendProperties
    <3>3. Len(Append(fifo, item[c])) \in 0 .. MaxLen
      BY <2>1, <3>2, SmpAssumption DEF Enqueue
    <3>4. QED
      BY <1>7, <2>1, <3>2, <3>3 DEF Submitting, Enqueue
  <2>2. CASE RefuseEnqueue(c)
    BY <1>7, <2>2 DEF Submitting, RefuseEnqueue
  <2>3. QED
    BY <1>7, <2>1, <2>2 DEF Submitting
<1>8. ASSUME NEW c \in Cores, Submitted(c) PROVE SmpTypeOK'
  BY <1>8 DEF Submitted, Return
<1>9. ASSUME NEW c \in Cores, Refused(c) PROVE SmpTypeOK'
  <2>1. item[c] \in Work
    BY <1>9 DEF Refused, PhaseFits
  <2>2. QED
    BY <1>9, <2>1 DEF Refused, Return
<1>10. ASSUME NEW c \in Cores, CallWait(c) PROVE SmpTypeOK'
  <2>1. awaited' \subseteq Work
    BY <1>10 DEF CallWait, WorkFits
  <2>2. QED
    BY <1>10, <2>1, SmpAssumption DEF CallWait
<1>11. ASSUME NEW c \in Cores, WaitScan(c) \/ WaitReturn(c) PROVE SmpTypeOK'
  <2>1. CASE WaitScan(c)
    <3>1. cursor' \in 0 .. StatusSize
      BY <2>1, SmpAssumption DEF WaitScan
    <3>2. QED
      BY <2>1, <3>1 DEF WaitScan
  <2>2. CASE WaitReturn(c)
    BY <2>2, SmpAssumption DEF WaitReturn
  <2>3. QED
    BY <1>11, <2>1, <2>2
<1>12. ASSUME NEW c \in Cores, ApWakeup(c) PROVE SmpTypeOK'
  BY <1>12 DEF ApWakeup, Resumed
<1>13. CASE Keyboard \/ Rtc
  BY <1>13, SmpAssumption DEF Keyboard, Rtc, Resumed
<1>14. QED
  BY <1>1, <1>2, <1>3, <1>4, <1>5, <1>6, <1>7, <1>8, <1>9, <1>10, <1>11, <1>12, <1>13
     DEF SmpNext, Core, WorkReturns, Exception

LEMMA SmpPhaseStep == SmpInv /\ [SmpNext]_smpVars => PhaseFits'
<1> SUFFICES ASSUME SmpInv, [SmpNext]_smpVars PROVE PhaseFits'
  OBVIOUS
<1> USE SmpAssumption DEF SmpInv, SmpTypeOK, Jump, Move, Phases, PhaseFits
<1>1. CASE UNCHANGED smpVars
  BY <1>1 DEF smpVars
<1>2. ASSUME NEW c \in Cores, ApClear(c) \/ ApSpinEmpty(c)
      PROVE  PhaseFits'
  BY <1>2 DEF ApClear, ApSpinEmpty
<1>3. ASSUME NEW c \in Cores, ApSpinWork(c) PROVE PhaseFits'
  BY <1>3 DEF ApSpinWork, CallDequeue
<1>4. ASSUME NEW c \in Cores, ApDequeue(c) PROVE PhaseFits'
  <2>1. CASE Dequeue(c)
    <3>1. Head(fifo) \in Work
      BY <2>1, HeadTailProperties DEF Dequeue
    <3>2. QED
      BY <1>4, <2>1, <3>1 DEF ApDequeue, Dequeue
  <2>2. CASE RefuseDequeue(c)
    BY <1>4, <2>2 DEF ApDequeue, RefuseDequeue
  <2>3. QED
    BY <1>4, <2>1, <2>2 DEF ApDequeue
<1>5. ASSUME NEW c \in Cores, ApDequeued(c) PROVE PhaseFits'
  <2>1. CASE phase[c] = "ok"
    BY <1>5, <2>1 DEF ApDequeued, Return
  <2>2. CASE phase[c] = "failed"
    BY <1>5, <2>2 DEF ApDequeued, Return
  <2>3. QED
    BY <1>5, <2>1, <2>2 DEF ApDequeued, Return
<1>6. ASSUME NEW c \in Cores, ApHalt(c) \/ ApProcess(c)
      PROVE  PhaseFits'
  <2>1. CASE ApHalt(c)
    BY <2>1 DEF ApHalt
  <2>2. CASE ApProcess(c)
    BY <2>2 DEF ApProcess
  <2>3. QED
    BY <1>6, <2>1, <2>2
<1>7. ASSUME NEW c \in Cores, Leave(c, "running") \/ Leave(c, "program")
      PROVE  PhaseFits'
  <2>1. loc' = [loc EXCEPT ![c] = "clear"] /\ UNCHANGED <<phase, item>> /\ phase[c] = "idle"
    BY <1>7 DEF Leave
  <2>2. QED
    BY <2>1
<1>8. ASSUME NEW c \in Cores, NEW w \in Work, Submit(c, w)
      PROVE  PhaseFits'
  BY <1>8 DEF Submit, CallEnqueue
<1>9. ASSUME NEW c \in Cores, Submitting(c) PROVE PhaseFits'
  <2>1. CASE Enqueue(c)
    BY <1>9, <2>1 DEF Submitting, Enqueue
  <2>2. CASE RefuseEnqueue(c)
    BY <1>9, <2>2 DEF Submitting, RefuseEnqueue
  <2>3. QED
    BY <1>9, <2>1, <2>2 DEF Submitting
<1>10. ASSUME NEW c \in Cores, Submitted(c) \/ Refused(c)
       PROVE  PhaseFits'
  <2>1. CASE Submitted(c)
    BY <2>1 DEF Submitted, Return
  <2>2. CASE Refused(c)
    BY <2>2 DEF Refused, Return
  <2>3. QED
    BY <1>10, <2>1, <2>2
<1>11. ASSUME NEW c \in Cores, CallWait(c) \/ WaitScan(c) \/ WaitReturn(c)
       PROVE  PhaseFits'
  <2>1. CASE CallWait(c)
    BY <2>1 DEF CallWait
  <2>2. CASE WaitScan(c)
    BY <2>2 DEF WaitScan
  <2>3. CASE WaitReturn(c)
    BY <2>3 DEF WaitReturn
  <2>4. QED
    BY <1>11, <2>1, <2>2, <2>3
<1>12. ASSUME NEW c \in Cores, ApWakeup(c) PROVE PhaseFits'
  BY <1>12 DEF ApWakeup, Resumed
<1>13. CASE Keyboard \/ Rtc
  BY <1>13 DEF Keyboard, Rtc, Resumed
<1>14. QED
  BY <1>1, <1>2, <1>3, <1>4, <1>5, <1>6, <1>7, <1>8, <1>9, <1>10, <1>11, <1>12, <1>13
     DEF SmpNext, Core, WorkReturns, Exception

LEMMA SmpWorkStep == SmpInv /\ [SmpNext]_smpVars => WorkFits' /\ BspWaits'
<1> SUFFICES ASSUME SmpInv, [SmpNext]_smpVars PROVE WorkFits' /\ BspWaits'
  OBVIOUS
<1> USE SmpAssumption DEF SmpInv, SmpTypeOK, Jump, WorkFits, BspWaits
<1>1. CASE UNCHANGED smpVars
  BY <1>1 DEF smpVars
<1>2. ASSUME NEW c \in Cores, ApClear(c) \/ ApSpinEmpty(c) \/ ApSpinWork(c)
      PROVE  WorkFits' /\ BspWaits'
  BY <1>2 DEF ApClear, ApSpinEmpty, ApSpinWork
<1>3. ASSUME NEW c \in Cores, ApDequeue(c) \/ ApHalt(c) \/ ApProcess(c)
      PROVE  WorkFits' /\ BspWaits'
  BY <1>3 DEF ApDequeue, ApHalt, ApProcess
<1>4. ASSUME NEW c \in Cores, ApDequeued(c) PROVE WorkFits' /\ BspWaits'
  <2>1. /\ loc[c] = "dequeue" /\ work' = [work EXCEPT ![c] = item[c]]
        /\ loc' = [loc EXCEPT ![c] = IF phase[c] = "ok" THEN "claimed" ELSE "halt"]
    BY <1>4 DEF ApDequeued
  <2>2. phase[c] = "ok" <=> item[c] \in Work
    BY <2>1 DEF PhaseFits
  <2>3. QED
    BY <2>1, <2>2
<1>5. ASSUME NEW c \in Cores, Leave(c, "running") \/ Leave(c, "program")
      PROVE  WorkFits' /\ BspWaits'
  <2>1. loc' = [loc EXCEPT ![c] = "clear"] /\ work' = [work EXCEPT ![c] = NoWork]
    BY <1>5 DEF Leave
  <2>2. QED
    BY <2>1
<1>6. ASSUME NEW c \in Cores, NEW w \in Work, Submit(c, w) PROVE WorkFits' /\ BspWaits'
  BY <1>6 DEF Submit
<1>7. ASSUME NEW c \in Cores, Submitting(c) \/ Submitted(c) \/ Refused(c)
      PROVE  WorkFits' /\ BspWaits'
  BY <1>7 DEF Submitting, Submitted, Refused
<1>8. ASSUME NEW c \in Cores, CallWait(c) \/ WaitScan(c) \/ WaitReturn(c)
      PROVE  WorkFits' /\ BspWaits'
  BY <1>8 DEF CallWait, WaitScan, WaitReturn
<1>9. ASSUME NEW c \in Cores, ApWakeup(c) PROVE WorkFits' /\ BspWaits'
  BY <1>9 DEF ApWakeup, Resumed
<1>10. CASE Keyboard \/ Rtc
  BY <1>10 DEF Keyboard, Rtc, Resumed
<1>11. QED
  BY <1>1, <1>2, <1>3, <1>4, <1>5, <1>6, <1>7, <1>8, <1>9, <1>10
     DEF SmpNext, Core, WorkReturns, Exception

\* Busy is written before the first instruction of a workload, Ready before the core looks
\* for the next.
LEMMA SmpStatusStep == SmpInv /\ [SmpNext]_smpVars => StatusTellsTruth'
<1> SUFFICES ASSUME SmpInv, [SmpNext]_smpVars PROVE StatusTellsTruth'
  OBVIOUS
<1> USE SmpAssumption DEF SmpInv, SmpTypeOK, Jump, StatusTellsTruth, Absent, Ready, Busy
<1>1. CASE UNCHANGED smpVars
  BY <1>1 DEF smpVars
<1>2. ASSUME NEW c \in Cores, ApClear(c) \/ ApSpinEmpty(c) \/ ApSpinWork(c)
      PROVE  StatusTellsTruth'
  BY <1>2 DEF ApClear, ApSpinEmpty, ApSpinWork
<1>3. ASSUME NEW c \in Cores, ApDequeue(c) \/ ApDequeued(c) \/ ApHalt(c)
      PROVE  StatusTellsTruth'
  BY <1>3 DEF ApDequeue, ApDequeued, ApHalt
<1>4. ASSUME NEW c \in Cores, ApProcess(c) PROVE StatusTellsTruth'
  BY <1>4 DEF ApProcess, WorkFits
<1>5. ASSUME NEW c \in Cores, Leave(c, "running") \/ Leave(c, "program")
      PROVE  StatusTellsTruth'
  BY <1>5 DEF Leave
<1>6. ASSUME NEW c \in Cores, NEW w \in Work, Submit(c, w) PROVE StatusTellsTruth'
  BY <1>6 DEF Submit
<1>7. ASSUME NEW c \in Cores, Submitting(c) \/ Submitted(c) \/ Refused(c)
      PROVE  StatusTellsTruth'
  BY <1>7 DEF Submitting, Submitted, Refused
<1>8. ASSUME NEW c \in Cores, CallWait(c) \/ WaitScan(c) \/ WaitReturn(c)
      PROVE  StatusTellsTruth'
  BY <1>8 DEF CallWait, WaitScan, WaitReturn
<1>9. ASSUME NEW c \in Cores, ApWakeup(c) PROVE StatusTellsTruth'
  BY <1>9 DEF ApWakeup, Resumed
<1>10. CASE Keyboard \/ Rtc
  BY <1>10 DEF Keyboard, Rtc, Resumed
<1>11. QED
  BY <1>1, <1>2, <1>3, <1>4, <1>5, <1>6, <1>7, <1>8, <1>9, <1>10
     DEF SmpNext, Core, WorkReturns, Exception

-----------------------------------------------------------------------------
(* A workload stays in one place.                                          *)

\* A step that leaves every workload where it is.
LEMMA SamePlaces ==
  ASSUME SomePlace, NoTwoPlaces, UNCHANGED <<fifo, fresh, ended>>,
         \A c \in Cores, w \in Work : /\ Passed(c, w)' <=> Passed(c, w)
                                      /\ Handed(c, w)' <=> Handed(c, w)
                                      /\ Taken(c, w)' <=> Taken(c, w)
  PROVE  SomePlace' /\ NoTwoPlaces'
<1>1. \A w \in Work : Queued(w)' <=> Queued(w)
  BY DEF Queued
<1>2. SomePlace'
  BY <1>1 DEF SomePlace
<1>3. NoTwoPlaces'
  BY <1>1 DEF NoTwoPlaces
<1>4. QED
  BY <1>2, <1>3

\* Every other step takes one workload from one place to another.
LEMMA SmpPlacesStep == SmpInv /\ [SmpNext]_smpVars => SomePlace' /\ NoTwoPlaces'
<1> SUFFICES ASSUME SmpInv, [SmpNext]_smpVars PROVE SomePlace' /\ NoTwoPlaces'
  OBVIOUS
<1> USE DEF SmpInv, SmpTypeOK, Jump, Move
<1>a. NoWork \notin Work
  BY SmpAssumption
<1>1. CASE UNCHANGED smpVars
  BY <1>1, SamePlaces DEF smpVars, Passed, Handed, Taken
<1>2. ASSUME NEW c \in Cores, ApClear(c) \/ ApSpinEmpty(c) \/ ApHalt(c) \/ ApProcess(c)
      PROVE  SomePlace' /\ NoTwoPlaces'
  BY <1>2, SamePlaces DEF ApClear, ApSpinEmpty, ApHalt, ApProcess, Passed, Handed, Taken
<1>3. ASSUME NEW c \in Cores, ApSpinWork(c) PROVE SomePlace' /\ NoTwoPlaces'
  <2>1. item[c] = NoWork
    BY <1>3 DEF ApSpinWork, PhaseFits
  <2>2. \A d \in Cores, w \in Work : /\ Passed(d, w)' <=> Passed(d, w)
                                     /\ Handed(d, w)' <=> Handed(d, w)
                                     /\ Taken(d, w)' <=> Taken(d, w)
    BY <1>3, <2>1, <1>a DEF ApSpinWork, CallDequeue, Passed, Handed, Taken
  <2>3. QED
    BY <1>3, <2>2, SamePlaces DEF ApSpinWork, CallDequeue
<1>4. ASSUME NEW c \in Cores, loc[c] = "dequeue", Dequeue(c),
             UNCHANGED <<loc, cpustatus, ipi, work, fresh, ended, cursor, awaited>>
      PROVE  SomePlace' /\ NoTwoPlaces'
  <2> DEFINE u == Head(fifo)
  <2>1. /\ u \in Work /\ u = fifo[1] /\ Len(fifo) \in Nat \ {0}
        /\ Len(Tail(fifo)) = Len(fifo) - 1
        /\ \A i \in 1 .. Len(Tail(fifo)) : Tail(fifo)[i] = fifo[i + 1]
    BY <1>4, HeadTailProperties, EmptySeq DEF Dequeue
  <2>2. Queued(u) /\ \A w \in Work : Queued(w)' <=> Queued(w) /\ w # u
    <3>1. fifo' = Tail(fifo)
      BY <1>4 DEF Dequeue
    <3>2. \A i \in 1 .. Len(fifo') : fifo'[i] = fifo[i + 1] /\ i + 1 \in 2 .. Len(fifo)
      BY <2>1, <3>1
    <3>3. \A i \in 2 .. Len(fifo) : i - 1 \in 1 .. Len(fifo') /\ fifo[i] = fifo'[i - 1]
      BY <2>1, <3>1
    <3>4. Queued(u)
      BY <2>1 DEF Queued
    <3>5. \A i \in 2 .. Len(fifo) : fifo[i] # u
      BY <2>1 DEF NoTwoPlaces
    <3>6. ASSUME NEW w \in Work, Queued(w)' PROVE Queued(w) /\ w # u
      BY <2>1, <3>2, <3>5, <3>6 DEF Queued
    <3>7. ASSUME NEW w \in Work, Queued(w), w # u PROVE Queued(w)'
      BY <2>1, <3>3, <3>7 DEF Queued
    <3>8. QED
      BY <3>4, <3>6, <3>7
  <2>3. item[c] = NoWork
    BY <1>4 DEF PhaseFits, Dequeue
  <2>4. \A d \in Cores, w \in Work : /\ Passed(d, w)' <=> Passed(d, w)
                                     /\ Handed(d, w)' <=> Handed(d, w) \/ (d = c /\ w = u)
                                     /\ Taken(d, w)' <=> Taken(d, w)
    BY <1>4, <2>1, <2>3, <1>a DEF Dequeue, Passed, Handed, Taken
  <2>5. ~ Handed(c, u) /\ \A w \in Work : ~ Handed(c, w)
    BY <2>3, <2>1, <1>a DEF Handed
  <2>6. SomePlace'
    BY <1>4, <2>2, <2>4 DEF SomePlace
  <2>7. \A i, j \in 1 .. Len(fifo') : fifo'[i] = fifo'[j] => i = j
    BY <1>4, <2>1 DEF Dequeue, NoTwoPlaces
  <2>8. NoTwoPlaces'
    BY <1>4, <2>1, <2>2, <2>4, <2>5, <2>7 DEF NoTwoPlaces
  <2>9. QED
    BY <2>6, <2>8
<1>5. ASSUME NEW c \in Cores, loc[c] = "dequeue", RefuseDequeue(c),
             UNCHANGED <<loc, cpustatus, ipi, work, fresh, ended, cursor, awaited>>
      PROVE  SomePlace' /\ NoTwoPlaces'
  <2>1. item[c] = NoWork
    BY <1>5 DEF PhaseFits, RefuseDequeue
  <2>2. \A d \in Cores, w \in Work : /\ Passed(d, w)' <=> Passed(d, w)
                                     /\ Handed(d, w)' <=> Handed(d, w)
                                     /\ Taken(d, w)' <=> Taken(d, w)
    BY <1>5, <2>1, <1>a DEF RefuseDequeue, Passed, Handed, Taken
  <2>3. QED
    BY <1>5, <2>2, SamePlaces DEF RefuseDequeue
<1>6. ASSUME NEW c \in Cores, ApDequeued(c) PROVE SomePlace' /\ NoTwoPlaces'
  <2>1. work[c] = NoWork /\ loc[c] = "dequeue" /\ loc'[c] # "dequeue"
    BY <1>6 DEF ApDequeued, WorkFits
  <2>2. \A d \in Cores, w \in Work :
          /\ Passed(d, w)' <=> Passed(d, w) /\ d # c
          /\ Handed(d, w)' <=> Handed(d, w) /\ d # c
          /\ Taken(d, w)' <=> Taken(d, w) \/ (d = c /\ Handed(c, w))
    BY <1>6, <2>1, <1>a DEF ApDequeued, Return, Passed, Handed, Taken
  <2>3. \A w \in Work : ~ Passed(c, w) /\ ~ Taken(c, w)
    BY <1>6, <2>1, <1>a DEF ApDequeued, Return, PhaseFits, Passed, Taken
  <2>4. UNCHANGED <<fresh, ended>> /\ \A w \in Work : Queued(w)' <=> Queued(w)
    BY <1>6 DEF ApDequeued, Return, Queued
  <2>5. SomePlace'
    BY <2>2, <2>3, <2>4 DEF SomePlace
  <2>6. \A i, j \in 1 .. Len(fifo') : fifo'[i] = fifo'[j] => i = j
    BY <1>6 DEF ApDequeued, Return, NoTwoPlaces
  <2>7. NoTwoPlaces'
    BY <2>2, <2>3, <2>4, <2>6 DEF NoTwoPlaces
  <2>8. QED
    BY <2>5, <2>7
<1>7. ASSUME NEW c \in Cores, Leave(c, "running") \/ Leave(c, "program")
      PROVE  SomePlace' /\ NoTwoPlaces'
  <2>1. item[c] = NoWork
    BY <1>7 DEF Leave, PhaseFits
  <2>2. \A d \in Cores, w \in Work :
          /\ Passed(d, w)' <=> Passed(d, w)
          /\ Handed(d, w)' <=> Handed(d, w)
          /\ Taken(d, w)' <=> Taken(d, w) /\ d # c
    BY <1>7, <2>1, <1>a DEF Leave, Passed, Handed, Taken
  <2>3. \A w \in Work : w \in ended' <=> w \in ended \/ Taken(c, w)
    BY <1>7, <1>a DEF Leave, Taken
  <2>4. UNCHANGED fresh /\ \A w \in Work : Queued(w)' <=> Queued(w)
    BY <1>7 DEF Leave, Queued
  <2>5. SomePlace'
    BY <2>2, <2>3, <2>4 DEF SomePlace
  <2>6. \A i, j \in 1 .. Len(fifo') : fifo'[i] = fifo'[j] => i = j
    BY <1>7 DEF Leave, NoTwoPlaces
  <2>7. NoTwoPlaces'
    BY <2>2, <2>3, <2>4, <2>6 DEF NoTwoPlaces
  <2>8. QED
    BY <2>5, <2>7
<1>8. ASSUME NEW c \in Cores, NEW u \in Work, Submit(c, u) PROVE SomePlace' /\ NoTwoPlaces'
  <2>1. item[c] = NoWork /\ loc[c] # "dequeue" /\ u \in fresh
    BY <1>8 DEF Submit, CallEnqueue, PhaseFits
  <2>2. \A d \in Cores, w \in Work :
          /\ Passed(d, w)' <=> Passed(d, w) \/ (d = c /\ w = u)
          /\ Handed(d, w)' <=> Handed(d, w)
          /\ Taken(d, w)' <=> Taken(d, w)
    BY <1>8, <2>1, <1>a DEF Submit, CallEnqueue, Passed, Handed, Taken
  <2>3. \A w \in Work : w \in fresh' <=> w \in fresh /\ w # u
    BY <1>8 DEF Submit
  <2>4. UNCHANGED ended /\ \A w \in Work : Queued(w)' <=> Queued(w)
    BY <1>8 DEF Submit, CallEnqueue, Queued
  <2>5. SomePlace'
    BY <2>2, <2>3, <2>4 DEF SomePlace
  <2>6. \A i, j \in 1 .. Len(fifo') : fifo'[i] = fifo'[j] => i = j
    BY <1>8 DEF Submit, CallEnqueue, NoTwoPlaces
  <2>7. NoTwoPlaces'
    BY <2>1, <2>2, <2>3, <2>4, <2>6 DEF NoTwoPlaces
  <2>8. QED
    BY <2>5, <2>7
<1>9. ASSUME NEW c \in Cores, loc[c] \in {"running", "program"}, Enqueue(c),
             UNCHANGED <<loc, cpustatus, ipi, work, fresh, ended, cursor, awaited>>
      PROVE  SomePlace' /\ NoTwoPlaces'
  <2> DEFINE u == item[c]
  <2>1. u \in Work /\ Passed(c, u) /\ \A w \in Work : Passed(c, w) => w = u
    BY <1>9 DEF Enqueue, PhaseFits, Passed
  <2>2. /\ Len(fifo) \in Nat
        /\ Len(Append(fifo, u)) = Len(fifo) + 1
        /\ \A i \in 1 .. Len(fifo) : Append(fifo, u)[i] = fifo[i]
        /\ Append(fifo, u)[Len(fifo) + 1] = u
    BY <2>1, AppendProperties, LenProperties
  <2>3. \A w \in Work : Queued(w)' <=> Queued(w) \/ w = u
    BY <1>9, <2>2 DEF Enqueue, Queued
  <2>4. \A d \in Cores, w \in Work :
          /\ Passed(d, w)' <=> Passed(d, w) /\ d # c
          /\ Handed(d, w)' <=> Handed(d, w)
          /\ Taken(d, w)' <=> Taken(d, w)
    BY <1>9 DEF Enqueue, Passed, Handed, Taken
  <2>5. SomePlace'
    BY <1>9, <2>1, <2>3, <2>4 DEF SomePlace
  <2>6. ~ Queued(u)
    BY <2>1 DEF NoTwoPlaces
  <2>7. \A i, j \in 1 .. Len(fifo') : fifo'[i] = fifo'[j] => i = j
    BY <1>9, <2>2, <2>6 DEF Enqueue, NoTwoPlaces, Queued
  <2>8. NoTwoPlaces'
    BY <1>9, <2>1, <2>3, <2>4, <2>7 DEF NoTwoPlaces
  <2>9. QED
    BY <2>5, <2>8
<1>10. ASSUME NEW c \in Cores, loc[c] \in {"running", "program"}, RefuseEnqueue(c),
              UNCHANGED <<loc, cpustatus, ipi, work, fresh, ended, cursor, awaited>>
       PROVE  SomePlace' /\ NoTwoPlaces'
  BY <1>10, SamePlaces DEF RefuseEnqueue, Passed, Handed, Taken
<1>11. ASSUME NEW c \in Cores, Submitted(c) PROVE SomePlace' /\ NoTwoPlaces'
  BY <1>11, <1>a, SamePlaces DEF Submitted, Return, Passed, Handed, Taken
<1>12. ASSUME NEW c \in Cores, Refused(c) PROVE SomePlace' /\ NoTwoPlaces'
  <2> DEFINE u == item[c]
  <2>1. u \in Work /\ Passed(c, u) /\ \A w \in Work : Passed(c, w) => w = u
    BY <1>12 DEF Refused, PhaseFits, Passed
  <2>2. \A d \in Cores, w \in Work :
          /\ Passed(d, w)' <=> Passed(d, w) /\ d # c
          /\ Handed(d, w)' <=> Handed(d, w)
          /\ Taken(d, w)' <=> Taken(d, w)
    BY <1>12, <1>a DEF Refused, Return, Passed, Handed, Taken
  <2>3. \A w \in Work : w \in fresh' <=> w \in fresh \/ w = u
    BY <1>12 DEF Refused
  <2>4. UNCHANGED ended /\ \A w \in Work : Queued(w)' <=> Queued(w)
    BY <1>12 DEF Refused, Return, Queued
  <2>5. SomePlace'
    BY <2>1, <2>2, <2>3, <2>4 DEF SomePlace
  <2>6. \A i, j \in 1 .. Len(fifo') : fifo'[i] = fifo'[j] => i = j
    BY <1>12 DEF Refused, Return, NoTwoPlaces
  <2>7. NoTwoPlaces'
    BY <2>1, <2>2, <2>3, <2>4, <2>6 DEF NoTwoPlaces
  <2>8. QED
    BY <2>5, <2>7
<1>13. ASSUME NEW c \in Cores, CallWait(c) \/ WaitScan(c) \/ WaitReturn(c)
       PROVE  SomePlace' /\ NoTwoPlaces'
  BY <1>13, SamePlaces DEF CallWait, WaitScan, WaitReturn, Passed, Handed, Taken
<1>14. ASSUME NEW c \in Cores, ApWakeup(c) PROVE SomePlace' /\ NoTwoPlaces'
  BY <1>14, SamePlaces DEF ApWakeup, Resumed, Passed, Handed, Taken
<1>15. CASE Keyboard \/ Rtc
  BY <1>15, SmpAssumption, SamePlaces DEF Keyboard, Rtc, Resumed, Passed, Handed, Taken
<1>16. QED
  BY <1>1, <1>2, <1>3, <1>4, <1>5, <1>6, <1>7, <1>8, <1>9, <1>10, <1>11, <1>12, <1>13, <1>14,
     <1>15 DEF SmpNext, Core, WorkReturns, Exception, ApDequeue, Submitting

-----------------------------------------------------------------------------
\* A step that ends no workload and begins no wait.
LEMMA SameWaits ==
  ASSUME WaitKnows, UNCHANGED <<ended, cursor, awaited>>,
         \A d \in Cores : loc[d] = "running" => loc'[d] = "running" /\ work'[d] = work[d],
         \A d \in Cores : loc'[d] = "waiting" => loc[d] = "waiting"
  PROVE  WaitKnows'
<1>1. SUFFICES ASSUME NEW b \in Cores, loc'[b] = "waiting", NEW w \in awaited, w \notin ended
               PROVE  \E d \in Cores : /\ d # b /\ d >= cursor
                                       /\ loc'[d] = "running" /\ work'[d] = w
  BY DEF WaitKnows
<1>2. loc[b] = "waiting"
  BY <1>1
<1>3. PICK d \in Cores : d # b /\ d >= cursor /\ loc[d] = "running" /\ work[d] = w
  BY <1>1, <1>2 DEF WaitKnows
<1>4. QED
  BY <1>3

\* Only a core that is not Busy, or the waiting core itself, is left behind by the cursor.
LEMMA SmpWaitStep == SmpInv /\ [SmpNext]_smpVars => WaitKnows'
<1> SUFFICES ASSUME SmpInv, [SmpNext]_smpVars PROVE WaitKnows'
  OBVIOUS
<1> USE DEF SmpInv, SmpTypeOK, Jump, WaitKnows
<1>a. Cores \subseteq 0 .. StatusSize - 1 /\ StatusSize \in Nat
  BY SmpAssumption
<1>1. CASE UNCHANGED smpVars
  BY <1>1, SameWaits DEF smpVars
<1>2. ASSUME NEW c \in Cores, ApClear(c) \/ ApSpinEmpty(c) \/ ApSpinWork(c) PROVE WaitKnows'
  BY <1>2, SameWaits DEF ApClear, ApSpinEmpty, ApSpinWork
<1>3. ASSUME NEW c \in Cores, ApDequeue(c) \/ ApHalt(c) \/ ApProcess(c) PROVE WaitKnows'
  BY <1>3, SameWaits DEF ApDequeue, ApHalt, ApProcess
<1>4. ASSUME NEW c \in Cores, ApDequeued(c) PROVE WaitKnows'
  <2>1. \A d \in Cores : /\ loc[d] = "running" => loc'[d] = "running" /\ work'[d] = work[d]
                         /\ loc'[d] = "waiting" => loc[d] = "waiting"
    BY <1>4 DEF ApDequeued
  <2>2. QED
    BY <1>4, <2>1, SameWaits DEF ApDequeued
<1>5. ASSUME NEW c \in Cores, Leave(c, "running") \/ Leave(c, "program") PROVE WaitKnows'
  <2>1. /\ loc' = [loc EXCEPT ![c] = "clear"] /\ work' = [work EXCEPT ![c] = NoWork]
        /\ ended' = ended \cup ({work[c]} \ {NoWork}) /\ UNCHANGED <<cursor, awaited>>
    BY <1>5 DEF Leave
  <2>2. SUFFICES ASSUME NEW b \in Cores, loc'[b] = "waiting", NEW w \in awaited, w \notin ended'
                 PROVE  \E d \in Cores : /\ d # b /\ d >= cursor
                                         /\ loc'[d] = "running" /\ work'[d] = w
    BY <2>1
  <2>3. loc[b] = "waiting" /\ w \notin ended
    BY <2>1, <2>2
  <2>4. PICK d \in Cores : d # b /\ d >= cursor /\ loc[d] = "running" /\ work[d] = w
    BY <2>3
  <2>5. d # c
    BY <2>1, <2>2, <2>4, SmpAssumption
  <2>6. QED
    BY <2>1, <2>4, <2>5
<1>6. ASSUME NEW c \in Cores, NEW w \in Work, Submit(c, w) PROVE WaitKnows'
  BY <1>6, SameWaits DEF Submit
<1>7. ASSUME NEW c \in Cores, Submitting(c) \/ Submitted(c) \/ Refused(c) PROVE WaitKnows'
  BY <1>7, SameWaits DEF Submitting, Submitted, Refused
<1>8. ASSUME NEW c \in Cores, CallWait(c) PROVE WaitKnows'
  <2>1. \A b \in Cores : loc'[b] = "waiting" => b = c
    BY <1>8 DEF CallWait, BspWaits
  <2>2. \A w \in awaited' : \E d \in Cores : /\ d # c /\ d >= 0
                                            /\ loc'[d] = "running" /\ work'[d] = w
    BY <1>8, <1>a DEF CallWait
  <2>3. QED
    BY <1>8, <2>1, <2>2 DEF CallWait
<1>9. ASSUME NEW c \in Cores, WaitScan(c) PROVE WaitKnows'
  <2>1. \A b \in Cores : loc[b] = "waiting" => b = c
    BY <1>9 DEF WaitScan, BspWaits
  <2>2. \A d \in Cores : d # c /\ d >= cursor /\ loc[d] = "running" => d >= cursor + 1
    BY <1>9, <1>a DEF WaitScan, StatusTellsTruth
  <2>3. QED
    BY <1>9, <2>1, <2>2 DEF WaitScan
<1>10. ASSUME NEW c \in Cores, WaitReturn(c) PROVE WaitKnows'
  BY <1>10 DEF WaitReturn
<1>11. ASSUME NEW c \in Cores, ApWakeup(c) PROVE WaitKnows'
  BY <1>11, SameWaits DEF ApWakeup, Resumed
<1>12. CASE Keyboard \/ Rtc
  BY <1>12, SameWaits, SmpAssumption DEF Keyboard, Rtc, Resumed
<1>13. QED
  BY <1>1, <1>2, <1>3, <1>4, <1>5, <1>6, <1>7, <1>8, <1>9, <1>10, <1>11, <1>12
     DEF SmpNext, Core, WorkReturns, Exception

-----------------------------------------------------------------------------
(* The theorems                                                            *)

LEMMA SmpInvariant == SmpSpec => []SmpInv
<1>1. SmpInv /\ [SmpNext]_smpVars => SmpInv'
  BY SmpTypeStep, SmpPhaseStep, SmpWorkStep, SmpStatusStep, SmpPlacesStep, SmpWaitStep DEF SmpInv
<1>2. QED
  BY SmpInitInv, <1>1, PTL DEF SmpSpec

\* Every variable of the scheduler keeps its range: the queue never holds more than MaxLen
\* workloads and os_smp_wait never reads past the table of status bytes.
THEOREM SmpTypeCorrect == SmpSpec => []SmpTypeOK
<1>1. SmpInv => SmpTypeOK
  BY DEF SmpInv
<1>2. QED
  BY <1>1, SmpInvariant, PTL

LEMMA OnePlace == SmpInv => RunAtMostOnce
<1> SUFFICES ASSUME SmpInv, NEW w \in Work PROVE Cardinality(Places(w)) = 1
  BY DEF RunAtMostOnce
<1> DEFINE Author == IF w \in fresh THEN {<<"author">>} ELSE {}
           InQueue == {<<"queue", i>> : i \in {j \in DOMAIN fifo : fifo[j] = w}}
           InPassing == {<<"passed", c>> : c \in {d \in Cores : phase[d] \in {"enqueue", "failed"}
                                                              /\ item[d] = w}}
           InHands == {<<"handed", c>> : c \in {d \in Cores : loc[d] = "dequeue" /\ item[d] = w}}
           OnCore == {<<"taken", c>> : c \in {d \in Cores : work[d] = w}}
           Over == IF w \in ended THEN {<<"over">>} ELSE {}
<1>1. Places(w) = Author \cup InQueue \cup InPassing \cup InHands \cup OnCore \cup Over
  BY DEF Places
<1>2. DOMAIN fifo = 1 .. Len(fifo)
  BY LenProperties DEF SmpInv, SmpTypeOK
<1>3. /\ Author # {} <=> w \in fresh
      /\ InQueue # {} <=> Queued(w)
      /\ InPassing # {} <=> \E c \in Cores : Passed(c, w)
      /\ InHands # {} <=> \E c \in Cores : Handed(c, w)
      /\ OnCore # {} <=> \E c \in Cores : Taken(c, w)
      /\ Over # {} <=> w \in ended
  BY <1>2 DEF Queued, Passed, Handed, Taken
<1>4. /\ \A x, y \in Author : x = y
      /\ \A x, y \in InQueue : x = y
      /\ \A x, y \in InPassing : x = y
      /\ \A x, y \in InHands : x = y
      /\ \A x, y \in OnCore : x = y
      /\ \A x, y \in Over : x = y
  BY <1>2 DEF SmpInv, NoTwoPlaces, Passed, Handed, Taken
<1> HIDE DEF Author, InQueue, InPassing, InHands, OnCore, Over
<1>5. Places(w) # {}
  BY <1>1, <1>3 DEF SmpInv, SomePlace
<1>6. \A x, y \in Places(w) : x = y
  <2>1. /\ w \in fresh => w \notin ended /\ ~ Queued(w)
        /\ w \in ended => ~ Queued(w)
        /\ \A c \in Cores : Passed(c, w) \/ Handed(c, w) \/ Taken(c, w) =>
             w \notin fresh /\ w \notin ended /\ ~ Queued(w)
        /\ \A c, d \in Cores : /\ Passed(c, w) => ~ Handed(d, w) /\ ~ Taken(d, w)
                               /\ Handed(c, w) => ~ Taken(d, w)
    BY DEF SmpInv, NoTwoPlaces
  <2>2. QED
    BY <1>1, <1>3, <1>4, <2>1
<1>7. PICK x : Places(w) = {x}
  BY <1>5, <1>6
<1>8. QED
  BY <1>7, FS_Singleton

\* The way of a workload (os_smp_enqueue, os_smp_dequeue, ap_process): however the cores
\* interleave, it is never lost, never run on two cores and never run twice.
THEOREM WorkIsInOnePlace == SmpSpec => []RunAtMostOnce
BY SmpInvariant, OnePlace, PTL

\* cpustatus: a core is Busy while a workload runs on it and Ready while it looks for one.
THEOREM StatusIsTrue == SmpSpec => []StatusTellsTruth
<1>1. SmpInv => StatusTellsTruth
  BY DEF SmpInv
<1>2. QED
  BY <1>1, SmpInvariant, PTL

\* os_smp_wait: when it returns, every workload that ran when it was called is over, although
\* the scan looks at each core once and cores take further workloads behind it.
THEOREM WaitIsKept == SmpSpec => WaitCoversBusy
<1>1. SmpInv /\ [SmpNext]_smpVars
        => [\A c \in Cores : WaitReturn(c) => awaited \subseteq ended]_smpVars
  <2> SUFFICES ASSUME SmpInv, NEW c \in Cores, WaitReturn(c) PROVE awaited \subseteq ended
    OBVIOUS
  <2>1. loc[c] = "waiting" /\ cursor = StatusSize
    BY DEF WaitReturn, Jump
  <2>2. \A d \in Cores : ~ (d >= cursor)
    BY <2>1, SmpAssumption
  <2>3. QED
    BY <2>1, <2>2 DEF SmpInv, WaitKnows
<1>2. QED
  BY <1>1, SmpInvariant, PTL DEF SmpSpec, WaitCoversBusy
=============================================================================
