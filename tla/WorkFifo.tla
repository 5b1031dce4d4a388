------------------------------ MODULE WorkFifo ------------------------------
(***************************************************************************)
(* What os_smp_enqueue and os_smp_dequeue promise to the programs that     *)
(* call them (bmos/syscalls/smp.asm): one FIFO of at most MaxLen workloads *)
(* shared by all cores.  An operation takes effect at one instant between  *)
(* its call and its return; an enqueue is refused (carry set) only when    *)
(* the FIFO is full at some instant of the call, a dequeue only when it is *)
(* empty.  Nothing is said here of locks, cursors or table entries:        *)
(* SmpQueue has them and is shown to implement this module.                *)
(***************************************************************************)
EXTENDS Naturals, Sequences

CONSTANTS
  Cores,    \* the CPU cores, each executes at most one operation at a time
  Work,     \* the workloads (code address and variable)
  NoWork,   \* the zero a core gets when there is nothing to run
  MaxLen    \* how many workloads fit

VARIABLES
  fifo,     \* the workloads that wait, the oldest first
  phase,    \* what each core is doing with the FIFO
  item      \* the workload each core passes in, or has been given

vars == <<fifo, phase, item>>

Phases == {"idle", "enqueue", "dequeue", "ok", "failed"}

Init ==
  /\ fifo = <<>>
  /\ phase = [c \in Cores |-> "idle"]
  /\ item = [c \in Cores |-> NoWork]

Move(c, from, to) ==
  /\ phase[c] = from
  /\ phase' = [phase EXCEPT ![c] = to]

CallEnqueue(c, w) ==
  /\ Move(c, "idle", "enqueue")
  /\ item' = [item EXCEPT ![c] = w]
  /\ UNCHANGED fifo

CallDequeue(c) ==
  /\ Move(c, "idle", "dequeue")
  /\ UNCHANGED <<fifo, item>>

Enqueue(c) ==
  /\ Move(c, "enqueue", "ok")
  /\ Len(fifo) < MaxLen
  /\ fifo' = Append(fifo, item[c])
  /\ UNCHANGED item

RefuseEnqueue(c) ==
  /\ Move(c, "enqueue", "failed")
  /\ Len(fifo) = MaxLen
  /\ UNCHANGED <<fifo, item>>

Dequeue(c) ==
  /\ Move(c, "dequeue", "ok")
  /\ fifo # <<>>
  /\ item' = [item EXCEPT ![c] = Head(fifo)]
  /\ fifo' = Tail(fifo)

RefuseDequeue(c) ==
  /\ Move(c, "dequeue", "failed")
  /\ fifo = <<>>
  /\ UNCHANGED <<fifo, item>>

Return(c) ==
  /\ phase[c] \in {"ok", "failed"}
  /\ phase' = [phase EXCEPT ![c] = "idle"]
  /\ item' = [item EXCEPT ![c] = NoWork]
  /\ UNCHANGED fifo

Next ==
  \E c \in Cores :
    \/ \E w \in Work : CallEnqueue(c, w)
    \/ CallDequeue(c)
    \/ Enqueue(c)
    \/ RefuseEnqueue(c)
    \/ Dequeue(c)
    \/ RefuseDequeue(c)
    \/ Return(c)

Spec == Init /\ [][Next]_vars
=============================================================================
