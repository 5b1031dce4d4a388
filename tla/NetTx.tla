-------------------------------- MODULE NetTx --------------------------------
(***************************************************************************)
(* Sending packets: os_ethernet_tx (bmos/syscalls/ethernet.asm) in         *)
(* programs on several cores and in a callback that interrupts the program *)
(* on the BSP, the drivers' one transmit descriptor (bmos/drivers/net),    *)
(* and the card, which reads descriptor and packet in its own time.        *)
(*                                                                         *)
(* It goes on together with NetRx: a packet that has been sent interrupts  *)
(* the BSP like one that has come, the handler stops the program and the   *)
(* callback there, the callback stops a program that sends or receives,    *)
(* and a program is in one of the two functions at a time.                 *)
(*                                                                         *)
(* Where a sender is (at):                                                 *)
(*   idle   not in os_ethernet_tx                                          *)
(*   lock   in os_smp_lock                                                 *)
(*   size, address     about to store the length, the packet's address     *)
(*   head, tail        8254x: about to write TDH, TDT                      *)
(*   own, wait         8169: about to set OWN, in the sendloop             *)
(*   unlock about to call os_smp_unlock                                    *)
(***************************************************************************)
EXTENDS NetRx

CONSTANTS
  Callback,   \* the clock or network callback, which also sends
  Lengths,    \* the lengths each sender gives
  MaxCalls,   \* calls of os_ethernet_tx (bounds the model)
  MaxTraffic  \* calls and packets that come in, together (bounds the model)

Senders == Programs \cup {Callback}
NoOne == "no one"
MinFrame == 64
MaxFrame == 1522

ASSUME TxAssumption ==
  /\ Callback \notin Programs
  /\ NoOne \notin Senders
  /\ Lengths \in [Senders -> SUBSET Nat]
  /\ MaxCalls \in Nat
  /\ MaxTraffic \in Nat

VARIABLES
  busy,        \* os_EthernetBusyLock: who holds it
  at,          \* where each sender is
  size,        \* RCX of each sender, 0 outside the function
  interrupted, \* the callback runs, and the program on the BSP stands still
  content,     \* what each sender's packet holds: the number of the call it was made for
  td,          \* the transmit descriptor: whose packet, and its length
  TDH, TDT,    \* the 8254x's head and tail: different while the descriptor is the card's
  OWN,         \* bit 31 of the 8169's descriptor: the descriptor is the card's
  sending,     \* the descriptor the card has read
  calls,       \* how many calls there have been
  given,       \* the packets that were accepted, in the order of the lock
  wire,        \* what the card has sent
  careless     \* has the descriptor or the packet been written while the card was not done?

cardTx == <<td, TDH, TDT, OWN, sending, wire>>
txVars == <<busy, at, size, interrupted, content, cardTx, calls, given, careless>>

Frame(data, length) == [data |-> data, len |-> length]
Descriptor(whose, length) == [whose |-> whose, len |-> length]
Empty == Descriptor(NoOne, 0)

TxInit ==
  /\ busy = NoOne
  /\ at = [p \in Senders |-> "idle"]
  /\ size = [p \in Senders |-> 0]
  /\ interrupted = FALSE
  /\ content = [p \in Senders |-> 0]
  /\ td = Empty /\ sending = Empty
  /\ TDH = 0 /\ TDT = 0 /\ OWN = FALSE
  /\ calls = 0 /\ given = <<>> /\ wire = <<>> /\ careless = FALSE

TrafficGoesOn == arrived + calls < MaxTraffic

-----------------------------------------------------------------------------
(* os_ethernet_tx                                                          *)

CanRun(p) ==
  /\ p = OnBsp => ~ interrupted
  /\ p = Callback => interrupted
  /\ p \in {OnBsp, Callback} => irq = "none"

\* The descriptor is the card's.
CardBusy == IF card = "i8254x" THEN TDH # TDT ELSE OWN

\* A packet of more than 1522 bytes: nothing happens, and the caller is not told.
TxFail(p, n) ==
  /\ at[p] = "idle"
  /\ CanRun(p)
  /\ n > MaxFrame
  /\ UNCHANGED txVars

\* A sender makes its next packet and calls.  Below 64 bytes, 64 are sent.
TxCall(p, n) ==
  /\ at[p] = "idle"
  /\ CanRun(p)
  /\ n <= MaxFrame
  /\ calls < MaxCalls
  /\ TrafficGoesOn
  /\ calls' = calls + 1
  /\ content' = [content EXCEPT ![p] = calls']
  /\ careless' = (careless \/ (CardBusy /\ td.whose = p))
  /\ size' = [size EXCEPT ![p] = IF n < MinFrame THEN MinFrame ELSE n]
  /\ at' = [at EXCEPT ![p] = "lock"]
  /\ UNCHANGED <<busy, interrupted, cardTx, given>>

\* bt and jc, until the lock is free.
TxSpin(p) ==
  /\ at[p] = "lock"
  /\ CanRun(p)
  /\ busy # NoOne
  /\ UNCHANGED txVars

\* Each driver has its own order.
Begin == IF card = "i8254x" THEN "address" ELSE "size"

TxLock(p) ==
  /\ at[p] = "lock"
  /\ CanRun(p)
  /\ busy = NoOne
  /\ busy' = p
  /\ at' = [at EXCEPT ![p] = Begin]
  /\ given' = Append(given, Frame(content[p], size[p]))
  /\ careless' = (careless \/ CardBusy)
  /\ UNCHANGED <<size, interrupted, content, cardTx, calls>>

Step(p, from, to) ==
  /\ at[p] = from
  /\ CanRun(p)
  /\ at' = [at EXCEPT ![p] = to]

TxAddress(p) ==
  /\ Step(p, "address", IF card = "i8254x" THEN "size" ELSE "own")
  /\ td' = [td EXCEPT !.whose = p]
  /\ UNCHANGED <<busy, size, interrupted, content, TDH, TDT, OWN, sending, wire, calls, given, careless>>

TxSize(p) ==
  /\ Step(p, "size", IF card = "i8254x" THEN "head" ELSE "address")
  /\ td' = [td EXCEPT !.len = size[p]]
  /\ UNCHANGED <<busy, size, interrupted, content, TDH, TDT, OWN, sending, wire, calls, given, careless>>

\* The tail is still 1 from the packet before: the card begins here.
i8254x_head(p) ==
  /\ Step(p, "head", "tail")
  /\ TDH' = 0
  /\ UNCHANGED <<busy, size, interrupted, content, td, TDT, OWN, sending, wire, calls, given, careless>>

i8254x_tail(p) ==
  /\ Step(p, "tail", "unlock")
  /\ TDT' = 1
  /\ UNCHANGED <<busy, size, interrupted, content, td, TDH, OWN, sending, wire, calls, given, careless>>

\* or [os_eth_tx_buffer], 0xF0000000, and the card is told to look.
rtl8169_own(p) ==
  /\ Step(p, "own", "wait")
  /\ OWN' = TRUE
  /\ UNCHANGED <<busy, size, interrupted, content, td, TDH, TDT, sending, wire, calls, given, careless>>

\* A plausible bug: the descriptor is looked at once.
rtl8169_once(p) ==
  /\ Step(p, "wait", "unlock")
  /\ UNCHANGED <<busy, size, interrupted, content, cardTx, calls, given, careless>>

\* The sendloop: until the card has given the descriptor back.
rtl8169_sendloop(p) ==
  /\ Step(p, "wait", "unlock")
  /\ ~ OWN
  /\ UNCHANGED <<busy, size, interrupted, content, cardTx, calls, given, careless>>

\* A plausible bug: nobody unlocks.
TxReturn(p) ==
  /\ Step(p, "unlock", "idle")
  /\ size' = [size EXCEPT ![p] = 0]
  /\ UNCHANGED <<busy, interrupted, content, cardTx, calls, given, careless>>

TxUnlock(p) ==
  /\ Step(p, "unlock", "idle")
  /\ busy' = NoOne
  /\ size' = [size EXCEPT ![p] = 0]
  /\ UNCHANGED <<interrupted, content, cardTx, calls, given, careless>>

\* A clock or network interrupt, after which the callback runs with interrupts enabled; it
\* comes at any instruction of the program on the BSP.
CallbackBegins ==
  /\ ~ interrupted
  /\ irq = "none"
  /\ calls < MaxCalls
  /\ TrafficGoesOn
  /\ interrupted' = TRUE
  /\ UNCHANGED <<busy, at, size, content, cardTx, calls, given, careless>>

CallbackReturns ==
  /\ interrupted
  /\ irq = "none"
  /\ at[Callback] = "idle"
  /\ interrupted' = FALSE
  /\ UNCHANGED <<busy, at, size, content, cardTx, calls, given, careless>>

-----------------------------------------------------------------------------
(* The card                                                                *)

CardReads ==
  /\ CardBusy
  /\ sending = Empty
  /\ sending' = td
  /\ UNCHANGED <<busy, at, size, interrupted, content, td, TDH, TDT, OWN, wire, calls, given, careless>>

CardSends ==
  /\ sending # Empty
  /\ wire' = Append(wire, Frame(content[sending.whose], sending.len))
  /\ sending' = Empty
  /\ IF card = "i8254x" THEN TDH' = TDH + 1 /\ UNCHANGED OWN
                        ELSE OWN' = FALSE /\ UNCHANGED TDH
  /\ UNCHANGED <<busy, at, size, interrupted, content, td, TDT, calls, given, careless>>

-----------------------------------------------------------------------------
Driver(p) ==
  \/ TxAddress(p) \/ TxSize(p) \/ i8254x_head(p) \/ i8254x_tail(p)
  \/ rtl8169_own(p) \/ rtl8169_sendloop(p) \/ TxUnlock(p)

os_ethernet_tx(p) ==
  \/ \E n \in Lengths[p] : TxFail(p, n) \/ TxCall(p, n)
  \/ TxSpin(p) \/ TxLock(p) \/ Driver(p)

TxNext ==
  \/ \E p \in Senders : os_ethernet_tx(p)
  \/ CallbackBegins \/ CallbackReturns
  \/ CardReads \/ CardSends

\* The card's interrupt finds the cause of a transmission next to those of receiving.
EthernetNext ==
  \/ TrafficGoesOn /\ Arrive /\ UNCHANGED txVars
  \/ (CardStores \/ Handler) /\ UNCHANGED txVars
  \/ \E p \in Programs : at[p] = "idle" /\ CanRun(p) /\ os_ethernet_rx(p) /\ UNCHANGED txVars
  \/ \E p \in Senders : (p \in Programs => pc[p] = "idle") /\ os_ethernet_tx(p) /\ UNCHANGED netVars
  \/ (CallbackBegins \/ CallbackReturns \/ CardReads) /\ UNCHANGED netVars
  \/ CardSends /\ CardHasSent

EthernetInit == NetInit /\ TxInit

EthernetSpec == EthernetInit /\ [][EthernetNext]_<<netVars, txVars>>

\* The card stores what it keeps and sends what it has been given, its interrupt is delivered and
\* handled, callbacks come to an end, and a program executes instructions between two interrupts.
EthernetFairSpec ==
  /\ EthernetSpec
  /\ WF_netVars(CardStores) /\ WF_netVars(Handler)
  /\ WF_txVars(CardReads \/ CardSends) /\ SF_txVars(CallbackReturns)
  /\ \A p \in Senders : SF_txVars(Driver(p))

-----------------------------------------------------------------------------
(* Properties                                                              *)

\* What is on the wire is what os_ethernet_tx has accepted, each packet whole, once, in order and
\* with its length, as long as nobody is careless.  With a driver that waits for the card nobody
\* can be: when the lock is free the card is done.  And no frame is ever too short or too long.
SentAsGiven ==
  /\ ~ careless => /\ IsPrefix(wire, given)
                   /\ busy = NoOne /\ ~ CardBusy => wire = given
  /\ card = "rtl8169" => ~ careless /\ (busy = NoOne => ~ CardBusy)
  /\ \A n \in DOMAIN wire : wire[n].len \in MinFrame .. MaxFrame

\* The callback waits for a lock that the program under it holds: neither ever goes on.
SpinsOnItself == interrupted /\ busy = OnBsp /\ at[Callback] = "lock"

\* os_EthernetBusyLock is always released, whatever the card and the cores do, save by a callback
\* that sends while the program it has interrupted is sending.
BusyLockReleased == busy # NoOne ~> busy = NoOne \/ SpinsOnItself
=============================================================================
