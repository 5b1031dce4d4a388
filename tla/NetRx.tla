------------------------------- MODULE NetRx -------------------------------
(***************************************************************************)
(* Receiving packets: the card, the network interrupt on the BSP           *)
(* (bmos/interrupt.asm) with the driver it calls (bmos/drivers/net), and   *)
(* os_ethernet_rx (bmos/syscalls/ethernet.asm) in programs on any core.    *)
(*                                                                         *)
(* The card writes a packet to its buffer and marks the descriptor.  The   *)
(* interrupt copies it to os_EthernetBuffer, which holds one packet, and   *)
(* then stores its length in front of it.  os_ethernet_rx takes the length *)
(* and then copies the packet, with interrupts enabled.                    *)
(*                                                                         *)
(* Packets are numbered as they arrive.  A packet's bytes are halves, each *)
(* known by the number of its packet, and its length is named by that      *)
(* number too: Halves(n) is how many halves a length of n stands for.      *)
(*                                                                         *)
(* Where the interrupt handler is (irq):                                   *)
(*   none   not running          ackout  out dx, ax (RTL8169)              *)
(*   ack    in os_net_ack_int    len     mov cx, [os_eth_rx_buffer+8]      *)
(*   copy   in the rep movsb     rdh     giving the descriptor back        *)
(*   store  stosw, the length, and the acknowledgement to the PIC          *)
(* Where a program is (pc):                                                *)
(*   idle   not in os_ethernet_rx                                          *)
(*   clear  mov word [rsi], cx                                             *)
(*   copy   in the rep movsb                                               *)
(*   done   back, with what it got                                         *)
(***************************************************************************)
EXTENDS Naturals, Sequences, SequencesExt

CONSTANTS
  Cards,       \* the cards that may be there, of "i8254x" and "rtl8169"
  Programs,    \* those that call os_ethernet_rx, each on a core of its own
  OnBsp,       \* which of them is on the BSP
  PacketSizes, \* the packets that may arrive, in order: how many halves each has
  CardRoom     \* packets the card keeps while it has no descriptor

MaxHalves == 2

ASSUME NetAssumption ==
  /\ Cards \subseteq {"i8254x", "rtl8169"}
  /\ OnBsp \in Programs
  /\ PacketSizes \in Seq(1 .. MaxHalves)
  /\ CardRoom \in Nat \ {0}

VARIABLES
  card,      \* the card init_net has found
  arrived,   \* how many packets have come in over the wire
  waiting,   \* the packets the card keeps
  filled,    \* descriptors the card has filled (i8254x: RDH)
  desc,      \* the length in the descriptor, that of packet number desc
  rxbuf,     \* the card's buffer at 0x1c9000
  causes,    \* the interrupt causes that are set, bits of ICR or ISR
  irq, ax, cx, k,  \* the handler: where it is, ack's result, the length, halves copied
  len, slot, \* os_EthernetBuffer: the length (0: none) and the packet
  pc, rx, i, memory, \* programs: where they are, the length, halves copied, their memory
  kept,      \* the packets the card has not dropped
  polled,    \* the packets the interrupt has handed up
  took,      \* the lengths each program has taken
  disturbed  \* has the interrupt written os_EthernetBuffer during this os_ethernet_rx?

cardVars == <<arrived, waiting, filled, desc, rxbuf, kept>>
handlerVars == <<irq, ax, cx, k, polled>>
programVars == <<pc, rx, i, memory, took>>
netVars == <<card, cardVars, causes, handlerVars, len, slot, programVars, disturbed>>

Halves(n) == IF n = 0 THEN 0 ELSE PacketSizes[n]

Packets == 1 .. Len(PacketSizes)

\* The bits the handler tests for, and those the cards set.
TxBit == 0
RxBit == 7
Received == IF card = "i8254x" THEN 7 ELSE 0   \* RXT0, ROK
Sent == IF card = "i8254x" THEN 0 ELSE 2       \* TXDW, TOK

\* Descriptors the card may fill before it gets one back.
Descriptors == IF card = "i8254x" THEN 1 ELSE 2

\* After init_net, whose last step acknowledges what was pending.
NetInit ==
  /\ card \in Cards
  /\ arrived = 0 /\ waiting = <<>> /\ filled = 0 /\ desc = 0
  /\ rxbuf = [h \in 1 .. MaxHalves |-> 0]
  /\ causes = {}
  /\ irq = "none" /\ ax = {} /\ cx = 0 /\ k = 0
  /\ len = 0
  /\ slot = [h \in 1 .. MaxHalves |-> 0]
  /\ pc = [p \in Programs |-> "idle"]
  /\ rx = [p \in Programs |-> 0]
  /\ i = [p \in Programs |-> 0]
  /\ memory = [p \in Programs |-> [h \in 1 .. MaxHalves |-> 0]]
  /\ kept = <<>> /\ polled = <<>>
  /\ took = [p \in Programs |-> <<>>]
  /\ disturbed = [p \in Programs |-> FALSE]

-----------------------------------------------------------------------------
(* The card                                                                *)

\* A packet for which there is no room is dropped.
Arrive ==
  /\ arrived < Len(PacketSizes)
  /\ arrived' = arrived + 1
  /\ IF Len(waiting) < CardRoom
       THEN /\ waiting' = Append(waiting, arrived')
            /\ kept' = Append(kept, arrived')
       ELSE UNCHANGED <<waiting, kept>>
  /\ UNCHANGED <<card, filled, desc, rxbuf, causes, handlerVars, len, slot, programVars, disturbed>>

\* All descriptors point to the same buffer.
CardStores ==
  /\ waiting # <<>>
  /\ filled < Descriptors
  /\ rxbuf' = [h \in 1 .. MaxHalves |-> IF h <= Halves(Head(waiting)) THEN Head(waiting) ELSE rxbuf[h]]
  /\ desc' = Head(waiting)
  /\ waiting' = Tail(waiting)
  /\ filled' = filled + 1
  /\ causes' = causes \cup {Received}
  /\ UNCHANGED <<card, arrived, kept, handlerVars, len, slot, programVars, disturbed>>

\* A transmission has come to an end.
CardHasSent ==
  /\ causes' = causes \cup {Sent}
  /\ UNCHANGED <<card, cardVars, handlerVars, len, slot, programVars, disturbed>>

-----------------------------------------------------------------------------
(* The network interrupt                                                   *)

NetworkInterrupt ==
  /\ irq = "none"
  /\ causes # {}
  /\ irq' = "ack"
  /\ UNCHANGED <<card, cardVars, causes, ax, cx, k, polled, len, slot, programVars, disturbed>>

\* bt ax, 0 and bt ax, 7: without the RX bit the handler ends, whether TX is set or not.
Branch(bits) == IF RxBit \in bits THEN "len" ELSE "none"

\* A plausible bug: the causes stay set.
i8254x_ack_keeps ==
  /\ irq = "ack"
  /\ card = "i8254x"
  /\ ax' = causes
  /\ irq' = Branch(ax')
  /\ UNCHANGED <<card, cardVars, causes, cx, k, polled, len, slot, programVars, disturbed>>

\* Reading ICR clears it.
i8254x_ack_int ==
  /\ irq = "ack"
  /\ card = "i8254x"
  /\ ax' = causes
  /\ causes' = {}
  /\ irq' = Branch(ax')
  /\ UNCHANGED <<card, cardVars, cx, k, polled, len, slot, programVars, disturbed>>

\* in ax, dx: the causes stay set until they are written back.
rtl8169_ack_in ==
  /\ irq = "ack"
  /\ card = "rtl8169"
  /\ ax' = causes
  /\ irq' = "ackout"
  /\ UNCHANGED <<card, cardVars, causes, cx, k, polled, len, slot, programVars, disturbed>>

\* out dx, ax and shr eax, 2.
rtl8169_ack_out ==
  /\ irq = "ackout"
  /\ causes' = causes \ ax
  /\ ax' = {b - 2 : b \in {c \in ax : c >= 2}}
  /\ irq' = Branch(ax')
  /\ UNCHANGED <<card, cardVars, cx, k, polled, len, slot, programVars, disturbed>>

\* A plausible bug: the length is stored before the packet is there.
PollLenStored ==
  /\ irq = "len"
  /\ cx' = desc
  /\ k' = 0
  /\ irq' = "copy"
  /\ len' = cx'
  /\ UNCHANGED <<card, cardVars, causes, ax, polled, slot, programVars, disturbed>>

PollLen ==
  /\ irq = "len"
  /\ cx' = desc
  /\ k' = 0
  /\ irq' = "copy"
  /\ UNCHANGED <<card, cardVars, causes, ax, polled, len, slot, programVars, disturbed>>

\* rep movsb to os_EthernetBuffer + 2.
PollCopy ==
  /\ irq = "copy"
  /\ k' = k + 1
  /\ slot' = [slot EXCEPT ![k'] = rxbuf[k']]
  /\ irq' = IF k' = Halves(cx) THEN "rdh" ELSE "copy"
  /\ disturbed' = [p \in Programs |-> TRUE]
  /\ UNCHANGED <<card, cardVars, causes, ax, cx, polled, len, programVars>>

\* A plausible bug: only the tail is written, which has the value it always has.
PollTailOnly ==
  /\ irq = "rdh"
  /\ irq' = "store"
  /\ UNCHANGED <<card, cardVars, causes, ax, cx, k, polled, len, slot, programVars, disturbed>>

\* RDH := 0, RDT := 1 and the buffer's address, the last two as they were.
PollGiveBack ==
  /\ irq = "rdh"
  /\ filled' = 0
  /\ irq' = "store"
  /\ UNCHANGED <<card, arrived, waiting, desc, rxbuf, kept, causes, ax, cx, k, polled, len, slot, programVars, disturbed>>

\* stosw; no callback is set; iretq.
StoreLength ==
  /\ irq = "store"
  /\ len' = cx
  /\ polled' = Append(polled, cx)
  /\ irq' = "none"
  /\ UNCHANGED <<card, cardVars, causes, ax, cx, k, slot, programVars, disturbed>>

-----------------------------------------------------------------------------
(* os_ethernet_rx, with networking enabled                                 *)

\* A program on the BSP stands still while the handler runs.
Runs(p) == p = OnBsp => irq = "none"

\* mov ax, word [rsi], and back with 0 if there is nothing.
RxLength(p) ==
  /\ pc[p] = "idle"
  /\ Runs(p)
  /\ len # 0
  /\ rx' = [rx EXCEPT ![p] = len]
  /\ i' = [i EXCEPT ![p] = 0]
  /\ took' = [took EXCEPT ![p] = Append(@, len)]
  /\ pc' = [pc EXCEPT ![p] = "clear"]
  /\ disturbed' = [disturbed EXCEPT ![p] = irq \in {"copy", "rdh", "store"}]
  /\ UNCHANGED <<card, cardVars, causes, handlerVars, len, slot, memory>>

RxNothing(p) ==
  /\ pc[p] = "idle"
  /\ Runs(p)
  /\ len = 0
  /\ UNCHANGED netVars

\* A plausible bug: the length is left there.
RxNotCleared(p) ==
  /\ pc[p] = "clear"
  /\ Runs(p)
  /\ pc' = [pc EXCEPT ![p] = "copy"]
  /\ UNCHANGED <<card, cardVars, causes, handlerVars, len, slot, rx, i, memory, took, disturbed>>

RxClear(p) ==
  /\ pc[p] = "clear"
  /\ Runs(p)
  /\ len' = 0
  /\ pc' = [pc EXCEPT ![p] = "copy"]
  /\ UNCHANGED <<card, cardVars, causes, handlerVars, slot, rx, i, memory, took, disturbed>>

\* A plausible bug: the last of the packet is not copied.
RxCopyShort(p) ==
  /\ pc[p] = "copy"
  /\ Runs(p)
  /\ i' = [i EXCEPT ![p] = @ + 1]
  /\ memory' = [memory EXCEPT ![p][i'[p]] = slot[i'[p]]]
  /\ pc' = [pc EXCEPT ![p] = IF i'[p] + 1 >= Halves(rx[p]) THEN "done" ELSE "copy"]
  /\ UNCHANGED <<card, cardVars, causes, handlerVars, len, slot, rx, took, disturbed>>

\* rep movsb, rcx times.
RxCopy(p) ==
  /\ pc[p] = "copy"
  /\ Runs(p)
  /\ i' = [i EXCEPT ![p] = @ + 1]
  /\ memory' = [memory EXCEPT ![p][i'[p]] = slot[i'[p]]]
  /\ pc' = [pc EXCEPT ![p] = IF i'[p] = Halves(rx[p]) THEN "done" ELSE "copy"]
  /\ UNCHANGED <<card, cardVars, causes, handlerVars, len, slot, rx, took, disturbed>>

RxReturn(p) ==
  /\ pc[p] = "done"
  /\ Runs(p)
  /\ pc' = [pc EXCEPT ![p] = "idle"]
  /\ UNCHANGED <<card, cardVars, causes, handlerVars, len, slot, rx, i, memory, took, disturbed>>

-----------------------------------------------------------------------------
Handler ==
  \/ NetworkInterrupt
  \/ i8254x_ack_int \/ rtl8169_ack_in \/ rtl8169_ack_out
  \/ PollLen \/ PollCopy \/ PollGiveBack \/ StoreLength

os_ethernet_rx(p) ==
  RxLength(p) \/ RxNothing(p) \/ RxClear(p) \/ RxCopy(p) \/ RxReturn(p)

NetNext ==
  \/ Arrive \/ CardStores \/ CardHasSent
  \/ Handler
  \/ \E p \in Programs : os_ethernet_rx(p)

NetSpec == NetInit /\ [][NetNext]_netVars

-----------------------------------------------------------------------------
(* Properties                                                              *)

\* What an 8254x keeps reaches os_EthernetBuffer in order, each packet once and whole: those
\* handed up, the one in the handler's hands, the one in the card's buffer and those that wait
\* are all of them, and while the card fills its one buffer again, nothing is copied out of it.
HandedUp ==
  LET inHand == IF irq = "store" THEN <<cx>> ELSE <<>>
      inCard == IF filled = 1 THEN <<desc>> ELSE <<>>
  IN  /\ card = "i8254x" => polled \o inHand \o inCard \o waiting = kept
      /\ irq \in {"none", "ack", "store"} /\ cx # 0 => \A h \in 1 .. Halves(cx) : slot[h] = cx

\* What os_ethernet_rx returns is one packet, unless the interrupt has written the buffer
\* between its first and its last look at it.
WholeUnlessDisturbed ==
  \A p \in Programs : pc[p] = "done" /\ ~disturbed[p] =>
    \A h \in 1 .. Halves(rx[p]) : memory[p][h] = rx[p]

\* Even then no part of it is older than the packet whose length it returns.
NeverOlder ==
  \A p \in Programs : pc[p] = "done" =>
    \A h \in 1 .. Halves(rx[p]) : memory[p][h] >= rx[p]

\* No program is told twice of a packet, and it is told of them in order.
ToldOnce ==
  \A p \in Programs : \A m, n \in DOMAIN took[p] : m < n => took[p][m] < took[p][n]

Polled(n) == Contains(polled, n)

\* On an 8254x every packet the card keeps is handed up.
KeptIsPolled ==
  \A n \in Packets : (card = "i8254x" /\ Contains(kept, n)) ~> Polled(n)

=============================================================================
