-------------------------------- MODULE Smp --------------------------------
(***************************************************************************)
(* The scheduler of BareMetal OS: the loop every core runs (ap_clear,      *)
(* ap_spin, ap_halt and ap_process in bmos/kernel64.asm), the wake-up      *)
(* interrupts that end its hlt (bmos/interrupt.asm), os_smp_wait           *)
(* (bmos/syscalls/smp.asm) and the program the BSP runs, which hands out   *)
(* the workloads.  The queue is the FIFO of WorkFifo, which SmpQueue       *)
(* implements; os_QueueLen, which ap_spin reads without the lock, is its   *)
(* length.                                                                 *)
(*                                                                         *)
(* Where a core is (loc):                                                  *)
(*   clear     in ap_clear, interrupts disabled                            *)
(*   spin      at ap_spin, about to compare os_QueueLen with 0             *)
(*   dequeue   in os_smp_dequeue                                           *)
(*   halt      at ap_halt, about to execute hlt                            *)
(*   asleep    stopped by hlt until an interrupt arrives                   *)
(*   claimed   at ap_process, a workload in its registers                  *)
(*   running   executing the workload                                      *)
(*   program   the BSP, in the CLI or a program it has loaded              *)
(*   waiting   the BSP, in os_smp_wait                                     *)
(***************************************************************************)
EXTENDS WorkFifo, FiniteSets

CONSTANTS
  BSP,         \* the boot processor; keyboard and clock interrupt this core alone
  StatusSize   \* entries of cpustatus that os_smp_wait looks at (256 in the code)

ASSUME SmpAssumption ==
  /\ MaxLen \in Nat
  /\ NoWork \notin Work
  /\ StatusSize \in Nat
  /\ Cores \subseteq 0 .. StatusSize - 1
  /\ BSP \in Cores

VARIABLES
  loc,         \* where each core is
  cpustatus,   \* per APIC ID: bit 0 present, bit 1 busy
  ipi,         \* the cores a wake-up interrupt is on its way to
  work,        \* the workload each core has taken
  fresh,       \* the workloads nobody has enqueued yet
  ended,       \* the workloads that returned or were ended by an exception
  cursor,      \* RCX of os_smp_wait: the APIC ID looked at
  awaited      \* the workloads that were Busy when os_smp_wait was called

smpVars == <<fifo, phase, item, loc, cpustatus, ipi, work, fresh, ended, cursor, awaited>>

Absent == 0
Ready == 1
Busy == 3

SmpInit ==
  /\ Init
  /\ loc = [c \in Cores |-> IF c = BSP THEN "program" ELSE "clear"]
  /\ cpustatus = [i \in 0 .. StatusSize - 1 |-> Absent]
  /\ ipi = {}
  /\ work = [c \in Cores |-> NoWork]
  /\ fresh = Work
  /\ ended = {}
  /\ cursor = 0
  /\ awaited = {}

Jump(c, from, to) ==
  /\ loc[c] = from
  /\ loc' = [loc EXCEPT ![c] = to]

-----------------------------------------------------------------------------
(* The loop of a core                                                      *)

\* A plausible bug: the status byte keeps the busy bit.
ApClearStaysBusy(c) ==
  /\ Jump(c, "clear", "spin")
  /\ cpustatus' = [cpustatus EXCEPT ![c] = IF @ = Absent THEN Ready ELSE @]
  /\ UNCHANGED <<fifo, phase, item, ipi, work, fresh, ended, cursor, awaited>>

\* cli; status byte := present and ready; sti.
ApClear(c) ==
  /\ Jump(c, "clear", "spin")
  /\ cpustatus' = [cpustatus EXCEPT ![c] = Ready]
  /\ UNCHANGED <<fifo, phase, item, ipi, work, fresh, ended, cursor, awaited>>

\* cmp word [os_QueueLen], 0 and je ap_halt, with no lock and interrupts enabled.
ApSpinEmpty(c) ==
  /\ fifo = <<>>
  /\ Jump(c, "spin", "halt")
  /\ UNCHANGED <<fifo, phase, item, cpustatus, ipi, work, fresh, ended, cursor, awaited>>

ApSpinWork(c) ==
  /\ fifo # <<>>
  /\ Jump(c, "spin", "dequeue")
  /\ CallDequeue(c)
  /\ UNCHANGED <<cpustatus, ipi, work, fresh, ended, cursor, awaited>>

\* Another core may have emptied the queue in between: carry set, on to the hlt.
ApDequeue(c) ==
  /\ loc[c] = "dequeue"
  /\ Dequeue(c) \/ RefuseDequeue(c)
  /\ UNCHANGED <<loc, cpustatus, ipi, work, fresh, ended, cursor, awaited>>

ApDequeued(c) ==
  /\ Jump(c, "dequeue", IF phase[c] = "ok" THEN "claimed" ELSE "halt")
  /\ Return(c)
  /\ work' = [work EXCEPT ![c] = item[c]]
  /\ UNCHANGED <<cpustatus, ipi, fresh, ended, cursor, awaited>>

ApHalt(c) ==
  /\ Jump(c, "halt", "asleep")
  /\ UNCHANGED <<fifo, phase, item, cpustatus, ipi, work, fresh, ended, cursor, awaited>>

\* A plausible bug: a workload runs on a core that is not marked.
ApProcessUnmarked(c) ==
  /\ Jump(c, "claimed", "running")
  /\ UNCHANGED <<fifo, phase, item, cpustatus, ipi, work, fresh, ended, cursor, awaited>>

ApProcess(c) ==
  /\ Jump(c, "claimed", "running")
  /\ cpustatus' = [cpustatus EXCEPT ![c] = Busy]
  /\ UNCHANGED <<fifo, phase, item, ipi, work, fresh, ended, cursor, awaited>>

\* The workload leaves the core: it returns, or an exception ends it (the last thing the
\* exception gate does is to jump to ap_clear).
Leave(c, from) ==
  /\ Jump(c, from, "clear")
  /\ phase[c] = "idle"
  /\ ended' = ended \cup ({work[c]} \ {NoWork})
  /\ work' = [work EXCEPT ![c] = NoWork]
  /\ UNCHANGED <<fifo, phase, item, cpustatus, ipi, fresh, cursor, awaited>>

WorkReturns(c) == Leave(c, "running")

\* An exception in a workload, or in the BSP's program: that core is a worker from then on
\* and nothing returns to the CLI.
Exception(c) == Leave(c, "running") \/ Leave(c, "program")

-----------------------------------------------------------------------------
(* Workloads are enqueued by the program on the BSP and by other workloads *)

Submit(c, w) ==
  /\ loc[c] \in {"running", "program"}
  /\ w \in fresh
  /\ CallEnqueue(c, w)
  /\ fresh' = fresh \ {w}
  /\ UNCHANGED <<loc, cpustatus, ipi, work, ended, cursor, awaited>>

Submitting(c) ==
  /\ loc[c] \in {"running", "program"}
  /\ Enqueue(c) \/ RefuseEnqueue(c)
  /\ UNCHANGED <<loc, cpustatus, ipi, work, fresh, ended, cursor, awaited>>

\* A plausible bug: the carry is set though the workload is in the queue, so that the caller,
\* who is told it was refused, enqueues it again.
SubmittedCarrySet(c) ==
  /\ loc[c] \in {"running", "program"}
  /\ phase[c] = "ok"
  /\ Return(c)
  /\ ipi' = ipi \cup (Cores \ {c})
  /\ fresh' = fresh \cup {item[c]}
  /\ UNCHANGED <<loc, cpustatus, work, ended, cursor, awaited>>

\* After the lock is released: os_smp_wakeup_all, then ret with the carry clear.
Submitted(c) ==
  /\ loc[c] \in {"running", "program"}
  /\ phase[c] = "ok"
  /\ Return(c)
  /\ ipi' = ipi \cup (Cores \ {c})
  /\ UNCHANGED <<loc, cpustatus, work, fresh, ended, cursor, awaited>>

\* The queue was full: carry set, the caller still has its workload.
Refused(c) ==
  /\ loc[c] \in {"running", "program"}
  /\ phase[c] = "failed"
  /\ Return(c)
  /\ fresh' = fresh \cup {item[c]}
  /\ UNCHANGED <<loc, cpustatus, ipi, work, ended, cursor, awaited>>

-----------------------------------------------------------------------------
(* os_smp_wait, called by the program on the BSP                           *)

CallWait(c) ==
  /\ Jump(c, "program", "waiting")
  /\ phase[c] = "idle"
  /\ cursor' = 0
  /\ awaited' = {work[d] : d \in {e \in Cores \ {c} : loc[e] = "running"}}
  /\ UNCHANGED <<fifo, phase, item, cpustatus, ipi, work, fresh, ended>>

\* A plausible bug: the jump after the test of the busy bit is the wrong way round.
WaitScanReady(c) ==
  /\ loc[c] = "waiting"
  /\ cursor < StatusSize
  /\ cursor = c \/ cpustatus[cursor] # Ready
  /\ cursor' = cursor + 1
  /\ UNCHANGED <<fifo, phase, item, loc, cpustatus, ipi, work, fresh, ended, awaited>>

\* checkit, skipit: go past the core itself and every core that is absent or ready; a busy
\* core is looked at again.
WaitScan(c) ==
  /\ loc[c] = "waiting"
  /\ cursor < StatusSize
  /\ cursor = c \/ cpustatus[cursor] # Busy
  /\ cursor' = cursor + 1
  /\ UNCHANGED <<fifo, phase, item, loc, cpustatus, ipi, work, fresh, ended, awaited>>

WaitReturn(c) ==
  /\ Jump(c, "waiting", "program")
  /\ cursor = StatusSize
  /\ cursor' = 0
  /\ awaited' = {}
  /\ UNCHANGED <<fifo, phase, item, cpustatus, ipi, work, fresh, ended>>

-----------------------------------------------------------------------------
(* Interrupts                                                              *)

\* What an interrupt does to a core that is stopped: the instruction after hlt is a jmp to
\* ap_spin.  Anywhere else the handler returns to where the core was.
Resumed(c) == IF loc[c] = "asleep" THEN [loc EXCEPT ![c] = "spin"] ELSE loc

\* ap_wakeup: acknowledge the IPI and return.  It is held back while ap_clear has cli.
ApWakeup(c) ==
  /\ c \in ipi
  /\ loc[c] # "clear"
  /\ ipi' = ipi \ {c}
  /\ loc' = Resumed(c)
  /\ UNCHANGED <<fifo, phase, item, cpustatus, work, fresh, ended, cursor, awaited>>

\* Without the "terrible hack" the key wakes the BSP alone.
KeyboardNoHack ==
  /\ loc[BSP] # "clear"
  /\ loc' = Resumed(BSP)
  /\ UNCHANGED <<fifo, phase, item, cpustatus, ipi, work, fresh, ended, cursor, awaited>>

\* keyboard: wakes all other cores, and its own by being an interrupt.
Keyboard ==
  /\ loc[BSP] # "clear"
  /\ ipi' = ipi \cup (Cores \ {BSP})
  /\ loc' = Resumed(BSP)
  /\ UNCHANGED <<fifo, phase, item, cpustatus, work, fresh, ended, cursor, awaited>>

\* rtc: eight times a second, on the BSP.
Rtc ==
  /\ loc[BSP] = "asleep"
  /\ loc' = Resumed(BSP)
  /\ UNCHANGED <<fifo, phase, item, cpustatus, ipi, work, fresh, ended, cursor, awaited>>

-----------------------------------------------------------------------------
\* What a core does by itself, without a choice of the program or the outside world.
Core(c) ==
  \/ ApClear(c) \/ ApSpinEmpty(c) \/ ApSpinWork(c) \/ ApDequeue(c) \/ ApDequeued(c)
  \/ ApHalt(c) \/ ApProcess(c)
  \/ Submitting(c) \/ Submitted(c) \/ Refused(c)
  \/ WaitScan(c) \/ WaitReturn(c)

SmpNext ==
  \/ \E c \in Cores :
       \/ Core(c)
       \/ WorkReturns(c)
       \/ Exception(c)
       \/ \E w \in Work : Submit(c, w)
       \/ CallWait(c)
       \/ ApWakeup(c)
  \/ Keyboard
  \/ Rtc

SmpSpec == SmpInit /\ [][SmpNext]_smpVars

\* Every core executes its instructions, an interrupt that was sent arrives, a workload
\* comes to an end, and the clock ticks.  Nobody has to press a key.
SmpFairSpec ==
  /\ SmpSpec
  /\ \A c \in Cores :
       WF_smpVars(Core(c)) /\ WF_smpVars(ApWakeup(c)) /\ WF_smpVars(WorkReturns(c))
  /\ WF_smpVars(Rtc)

\* The same with a user at the keyboard.
SmpKeysFairSpec == SmpFairSpec /\ WF_smpVars(Keyboard)

-----------------------------------------------------------------------------
(* Properties                                                              *)

SmpTypeOK ==
  /\ phase \in [Cores -> Phases]
  /\ item \in [Cores -> Work \cup {NoWork}]
  /\ fifo \in Seq(Work) /\ Len(fifo) \in 0 .. MaxLen
  /\ loc \in [Cores -> {"clear", "spin", "dequeue", "halt", "asleep", "claimed", "running",
                        "program", "waiting"}]
  /\ cpustatus \in [0 .. StatusSize - 1 -> {Absent, Ready, Busy}]
  /\ ipi \subseteq Cores
  /\ work \in [Cores -> Work \cup {NoWork}]
  /\ fresh \subseteq Work
  /\ ended \subseteq Work
  /\ cursor \in 0 .. StatusSize
  /\ awaited \subseteq Work

\* The places a workload can be in: with its author, in the hands of a core that passes it
\* to the queue, in the queue, in the hands of a core that has dequeued it, or over.
Places(w) ==
  (IF w \in fresh THEN {<<"author">>} ELSE {})
    \cup {<<"queue", i>> : i \in {j \in DOMAIN fifo : fifo[j] = w}}
    \cup {<<"passed", c>> : c \in {d \in Cores : phase[d] \in {"enqueue", "failed"}
                                                  /\ item[d] = w}}
    \cup {<<"handed", c>> : c \in {d \in Cores : loc[d] = "dequeue" /\ item[d] = w}}
    \cup {<<"taken", c>> : c \in {d \in Cores : work[d] = w}}
    \cup (IF w \in ended THEN {<<"over">>} ELSE {})

\* A workload is in exactly one place: none is lost between queue and core, none runs on two
\* cores or a second time.
RunAtMostOnce == \A w \in Work : Cardinality(Places(w)) = 1

\* The status byte tells what the core does: Busy from before the first instruction of a
\* workload to after its last, and never on a core that looks for work.
StatusTellsTruth ==
  \A c \in Cores :
    /\ loc[c] = "running" => cpustatus[c] = Busy /\ work[c] \in Work
    /\ loc[c] \in {"spin", "dequeue", "halt", "asleep", "claimed"} => cpustatus[c] = Ready

\* What os_smp_wait can promise: a workload whose core was marked busy when it was called is
\* over when it returns.
WaitCoversBusy == [][\A c \in Cores : WaitReturn(c) => awaited \subseteq ended]_smpVars

\* os_smp_wait comes to an end when the workloads do.
WaitEnds == loc[BSP] = "waiting" ~> loc[BSP] # "waiting"

\* A workload in the queue gets a core.
WorkIsRun == \A w \in Work : (\E i \in DOMAIN fifo : fifo[i] = w) ~> (w \in ended)
=============================================================================
