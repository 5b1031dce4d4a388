------------------------------- MODULE NetProofs -------------------------------
(***************************************************************************)
(* Theorems about the Ethernet driver, for either card, any number of      *)
(* programs and packets of at most two halves.  Receiving: what the        *)
(* interrupt hands up is what the card has kept, in order and whole, and   *)
(* what os_ethernet_rx returns is one packet or, where the interrupt has   *)
(* come in between, nothing older than it says.  Sending, with the         *)
(* callback that interrupts the program on the BSP: what the card sends is *)
(* what os_ethernet_tx has accepted, and with the RTL8169, whose driver    *)
(* waits for the card, nobody can write what the card has not yet read.    *)
(***************************************************************************)
EXTENDS NetTx, SequenceTheorems, TLAPS

(***************************************************************************)
(* Receiving.                                                              *)
(***************************************************************************)
PacketNos == 0 .. Len(PacketSizes)

NetTypeOK ==
  /\ card \in Cards
  /\ arrived \in PacketNos
  /\ waiting \in Seq(Packets) /\ kept \in Seq(Packets) /\ polled \in Seq(Packets)
  /\ filled \in Nat
  /\ desc \in PacketNos /\ rxbuf \in [1 .. MaxHalves -> PacketNos]
  /\ causes \subseteq {Received, Sent}
  /\ irq \in {"none", "ack", "ackout", "len", "copy", "rdh", "store"}
  /\ cx \in PacketNos /\ k \in Nat
  /\ len \in PacketNos /\ slot \in [1 .. MaxHalves -> PacketNos]
  /\ pc \in [Programs -> {"idle", "clear", "copy", "done"}]
  /\ rx \in [Programs -> PacketNos] /\ i \in [Programs -> Nat]
  /\ memory \in [Programs -> [1 .. MaxHalves -> PacketNos]]
  /\ took \in [Programs -> Seq(Packets)]
  /\ disturbed \in [Programs -> BOOLEAN]

\* Between the load of the length and the store, os_EthernetBuffer is not what its length says.
Writing == irq \in {"copy", "rdh", "store"}

\* The descriptor is filled from the moment the cause is set until the handler gives it back,
\* so that the card's one buffer stays as it is while the handler copies it.
DescriptorHeld ==
  /\ filled # 0 => desc # 0
  /\ card = "rtl8169" => irq \in {"none", "ack", "ackout"} /\ cx = 0
  /\ irq = "ackout" => card = "rtl8169" /\ ax \subseteq causes
  /\ card = "i8254x" => /\ filled \in {0, 1}
                        /\ irq \in {"len", "copy", "rdh"} => filled = 1 /\ RxBit \notin causes
                        /\ RxBit \in causes => filled = 1

\* What is in the card's buffer and what is in os_EthernetBuffer, as far as it has been copied.
BuffersHold ==
  /\ \A h \in 1 .. Halves(desc) : rxbuf[h] = desc
  /\ irq \in {"copy", "rdh"} => cx = desc
  /\ Writing => cx # 0
  /\ irq = "copy" => k < Halves(cx) /\ \A h \in 1 .. k : slot[h] = cx
  /\ irq # "copy" => \A h \in 1 .. Halves(cx) : slot[h] = cx
  /\ ~ Writing => len \in {0, cx}

Increasing(s) == \A m, n \in 1 .. Len(s) : m < n => s[m] < s[n]
Within(s, low, high) == \A m \in 1 .. Len(s) : low < s[m] /\ s[m] <= high

\* Packets leave every place in the order in which they have come to it.
InOrder ==
  /\ Increasing(waiting) /\ Within(waiting, desc, arrived)
  /\ desc <= arrived
  /\ cx <= desc /\ (filled # 0 /\ irq \notin {"copy", "rdh"} => cx < desc)
  /\ len <= cx /\ (Writing => len < cx)

\* A program has not been told of what os_EthernetBuffer holds, unless it is about to clear it.
ToldBefore ==
  \A p \in Programs :
    /\ \A m \in 1 .. Len(took[p]) : /\ took[p][m] <= cx /\ (Writing => took[p][m] < cx)
                                    /\ len # 0 /\ pc[p] # "clear" => took[p][m] < len
    /\ Increasing(took[p])

\* What a program that has taken a length finds in os_EthernetBuffer and has copied of it.
CopiesHold ==
  /\ \A h \in 1 .. Halves(len) : slot[h] >= len
  /\ \A p \in Programs : pc[p] # "idle" =>
       /\ rx[p] # 0 /\ rx[p] <= cx
       /\ pc[p] = "clear" => i[p] = 0
       /\ pc[p] = "copy" => i[p] < Halves(rx[p])
       /\ pc[p] = "done" => i[p] = Halves(rx[p])
       /\ \A h \in 1 .. Halves(rx[p]) : slot[h] >= rx[p]
       /\ \A h \in 1 .. i[p] : memory[p][h] >= rx[p]
       /\ ~ disturbed[p] => /\ \A h \in 1 .. Halves(rx[p]) : slot[h] = rx[p]
                            /\ \A h \in 1 .. i[p] : memory[p][h] = rx[p]

\* What an 8254x has kept: handed up, in the handler's hands, in the card's buffer, or waiting.
InHand == IF irq = "store" THEN <<cx>> ELSE <<>>
InCard == IF filled = 1 THEN <<desc>> ELSE <<>>
AllKept == card = "i8254x" => polled \o InHand \o InCard \o waiting = kept

NetInv ==
  /\ NetTypeOK
  /\ DescriptorHeld
  /\ BuffersHold
  /\ InOrder
  /\ ToldBefore
  /\ CopiesHold
  /\ AllKept

-----------------------------------------------------------------------------
LEMMA HalvesType ==
  \A n \in PacketNos : Halves(n) \in 0 .. MaxHalves /\ (n # 0 => Halves(n) # 0)
<1> SUFFICES ASSUME NEW n \in PacketNos, n # 0 PROVE PacketSizes[n] \in 1 .. MaxHalves
  BY DEF Halves, MaxHalves
<1>1. PacketSizes \in Seq(1 .. MaxHalves)
  BY NetAssumption
<1>2. Len(PacketSizes) \in Nat
  BY <1>1, LenProperties
<1>3. n \in 1 .. Len(PacketSizes)
  BY <1>2 DEF PacketNos
<1> QED
  BY <1>1, <1>3, ElementOfSeq

LEMMA NumbersType == Len(PacketSizes) \in Nat /\ Packets = PacketNos \ {0}
<1>1. Len(PacketSizes) \in Nat
  BY NetAssumption, LenProperties
<1> QED
  BY <1>1 DEF Packets, PacketNos

LEMMA AppendKeepsOrder ==
  ASSUME NEW s \in Seq(Packets), NEW e \in Packets, NEW low \in PacketNos, NEW high \in PacketNos,
         Increasing(s), Within(s, low, high), high < e, low < e
  PROVE  Increasing(Append(s, e)) /\ Within(Append(s, e), low, e)
<1> DEFINE t == Append(s, e)
<1>1. /\ Len(t) = Len(s) + 1 /\ Len(s) \in Nat
      /\ \A m \in 1 .. Len(s) : t[m] = s[m] /\ s[m] \in Packets
      /\ t[Len(s) + 1] = e
  BY AppendProperties, LenProperties, ElementOfSeq
<1>2. \A m \in 1 .. Len(s) : t[m] \in Nat /\ low < t[m] /\ t[m] < e
  BY <1>1, NumbersType DEF Within, PacketNos
<1> HIDE DEF t
<1>3. \A m \in 1 .. Len(t) : m \in 1 .. Len(s) \/ m = Len(s) + 1
  BY <1>1
<1>4. Within(t, low, e)
  BY <1>1, <1>2, <1>3, NumbersType DEF Within, PacketNos
<1>5. ASSUME NEW m \in 1 .. Len(t), NEW n \in 1 .. Len(t), m < n PROVE t[m] < t[n]
  <2>1. m \in 1 .. Len(s)
    BY <1>1, <1>5
  <2>2. CASE n \in 1 .. Len(s)
    BY <1>1, <1>5, <2>1, <2>2 DEF Increasing
  <2>3. CASE n = Len(s) + 1
    BY <1>1, <1>2, <2>1, <2>3
  <2>4. QED
    BY <1>3, <2>2, <2>3
<1> QED
  BY <1>4, <1>5 DEF t, Increasing

LEMMA TailKeepsOrder ==
  ASSUME NEW s \in Seq(Packets), NEW low \in PacketNos, NEW high \in PacketNos, s # <<>>,
         Increasing(s), Within(s, low, high)
  PROVE  /\ Head(s) \in Packets /\ low < Head(s) /\ Head(s) <= high
         /\ Tail(s) \in Seq(Packets) /\ Increasing(Tail(s)) /\ Within(Tail(s), Head(s), high)
<1> DEFINE t == Tail(s)
<1>1. /\ Head(s) \in Packets /\ t \in Seq(Packets)
      /\ Len(s) \in Nat \ {0} /\ Len(t) = Len(s) - 1
      /\ \A m \in 1 .. Len(t) : t[m] = s[m + 1]
  BY HeadTailProperties, EmptySeq
<1>2. Head(s) = s[1]
  OBVIOUS
<1> HIDE DEF t
<1>3. \A m \in 1 .. Len(t) : m + 1 \in 1 .. Len(s) /\ 1 < m + 1
  BY <1>1
<1>4. Within(t, Head(s), high)
  BY <1>1, <1>2, <1>3 DEF Within, Increasing
<1>5. Increasing(t)
  BY <1>1, <1>3 DEF Increasing
<1> QED
  BY <1>1, <1>2, <1>4, <1>5 DEF t, Within

LEMMA NetInitInv == NetInit => NetInv
<1> SUFFICES ASSUME NetInit PROVE NetInv
  OBVIOUS
<1> USE DEF NetInit
<1>1. Halves(0) = 0
  BY DEF Halves
<1>2. NetTypeOK
  BY NumbersType DEF NetTypeOK, PacketNos, MaxHalves
<1>3. DescriptorHeld
  BY DEF DescriptorHeld
<1>4. BuffersHold
  BY <1>1 DEF BuffersHold, Writing
<1>5. InOrder
  BY DEF InOrder, Writing, Increasing, Within
<1>6. ToldBefore
  BY DEF ToldBefore, Increasing
<1>7. CopiesHold
  BY <1>1 DEF CopiesHold
<1>8. AllKept
  BY DEF AllKept, InHand, InCard
<1> QED
  BY <1>2, <1>3, <1>4, <1>5, <1>6, <1>7, <1>8 DEF NetInv

-----------------------------------------------------------------------------
(* A step preserves the invariant: one lemma for each of its parts.        *)

LEMMA NetTypeStep == NetInv /\ [NetNext]_netVars => NetTypeOK'
<1> SUFFICES ASSUME NetInv, [NetNext]_netVars PROVE NetTypeOK'
  OBVIOUS
<1> USE NumbersType DEF NetInv, NetTypeOK, cardVars, handlerVars, programVars, Received, Sent
<1>1. CASE UNCHANGED netVars
  BY <1>1 DEF netVars
<1>2. CASE Arrive
  <2>1. arrived' \in Packets
    BY <1>2 DEF Arrive, PacketNos
  <2>2. Append(waiting, arrived') \in Seq(Packets) /\ Append(kept, arrived') \in Seq(Packets)
    BY <2>1, AppendProperties
  <2>3. QED
    BY <1>2, <2>1, <2>2 DEF Arrive
<1>3. CASE CardStores
  <2>1. Head(waiting) \in Packets /\ Tail(waiting) \in Seq(Packets)
    BY <1>3, HeadTailProperties DEF CardStores
  <2>2. rxbuf' \in [1 .. MaxHalves -> PacketNos]
    BY <1>3, <2>1 DEF CardStores
  <2>3. QED
    BY <1>3, <2>1, <2>2 DEF CardStores
<1>4. CASE CardHasSent
  BY <1>4 DEF CardHasSent
<1>5. CASE NetworkInterrupt
  BY <1>5 DEF NetworkInterrupt
<1>6. CASE i8254x_ack_int
  BY <1>6 DEF i8254x_ack_int, Branch
<1>7. CASE rtl8169_ack_in \/ rtl8169_ack_out
  BY <1>7 DEF rtl8169_ack_in, rtl8169_ack_out, Branch
<1>8. CASE PollLen
  BY <1>8 DEF PollLen
<1>9. CASE PollCopy
  <2>1. k' \in 1 .. MaxHalves
    <3>1. k < Halves(cx) /\ k' = k + 1
      BY <1>9 DEF PollCopy, BuffersHold
    <3>2. Halves(cx) \in 0 .. 2
      BY HalvesType DEF MaxHalves
    <3>3. QED
      BY <3>1, <3>2 DEF MaxHalves
  <2>2. slot' \in [1 .. MaxHalves -> PacketNos]
    BY <1>9, <2>1 DEF PollCopy
  <2>3. QED
    <3>1. k' \in Nat
      BY <2>1 DEF MaxHalves
    <3>2. disturbed' \in [Programs -> BOOLEAN] /\ irq' \in {"rdh", "copy"}
      BY <1>9 DEF PollCopy
    <3>3. QED
      BY <1>9, <2>2, <3>1, <3>2 DEF PollCopy
<1>10. CASE PollGiveBack
  BY <1>10 DEF PollGiveBack
<1>11. CASE StoreLength
  <2>1. Append(polled, cx) \in Seq(Packets)
    BY <1>11, AppendProperties DEF StoreLength, BuffersHold, Writing
  <2>2. QED
    BY <1>11, <2>1 DEF StoreLength
<1>12. ASSUME NEW p \in Programs, RxLength(p) PROVE NetTypeOK'
  <2>1. Append(took[p], len) \in Seq(Packets)
    BY <1>12, AppendProperties DEF RxLength
  <2>2. QED
    BY <1>12, <2>1 DEF RxLength
<1>13. ASSUME NEW p \in Programs, RxNothing(p) \/ RxClear(p) \/ RxReturn(p) PROVE NetTypeOK'
  <2>1. CASE RxNothing(p)
    BY <2>1 DEF RxNothing, netVars
  <2>2. CASE RxClear(p)
    <3>1. 0 \in PacketNos
      BY DEF PacketNos
    <3>2. QED
      BY <2>2, <3>1 DEF RxClear
  <2>3. CASE RxReturn(p)
    BY <2>3 DEF RxReturn
  <2>4. QED
    BY <1>13, <2>1, <2>2, <2>3
<1>14. ASSUME NEW p \in Programs, RxCopy(p) PROVE NetTypeOK'
  <2>1. i'[p] \in 1 .. MaxHalves
    BY <1>14, HalvesType DEF RxCopy, CopiesHold, MaxHalves
  <2>2. memory' \in [Programs -> [1 .. MaxHalves -> PacketNos]]
    BY <1>14, <2>1 DEF RxCopy
  <2>3. QED
    BY <1>14, <2>1, <2>2 DEF RxCopy
<1> QED
  BY <1>1, <1>2, <1>3, <1>4, <1>5, <1>6, <1>7, <1>8, <1>9, <1>10, <1>11, <1>12, <1>13, <1>14
     DEF NetNext, Handler, os_ethernet_rx

LEMMA DescriptorStep == NetInv /\ [NetNext]_netVars => DescriptorHeld'
<1> SUFFICES ASSUME NetInv, [NetNext]_netVars PROVE DescriptorHeld'
  OBVIOUS
<1> USE NumbersType, NetAssumption
    DEF NetInv, NetTypeOK, DescriptorHeld, cardVars, handlerVars, programVars, Received, Sent, RxBit
<1>1. CASE UNCHANGED netVars
  BY <1>1 DEF netVars
<1>2. CASE Arrive \/ CardHasSent
  BY <1>2 DEF Arrive, CardHasSent
<1>3. CASE CardStores
  <2>1. Head(waiting) \in Packets
    BY <1>3, HeadTailProperties DEF CardStores
  <2>2. QED
    BY <1>3, <2>1 DEF CardStores, Descriptors
<1>4. CASE NetworkInterrupt \/ i8254x_ack_int
  BY <1>4 DEF NetworkInterrupt, i8254x_ack_int, Branch
<1>5. CASE rtl8169_ack_in \/ rtl8169_ack_out
  <2>1. CASE rtl8169_ack_in
    BY <2>1 DEF rtl8169_ack_in
  <2>2. CASE rtl8169_ack_out
    <3>1. card = "rtl8169" /\ ax \subseteq {0, 2}
      BY <2>2 DEF rtl8169_ack_out
    <3>2. RxBit \notin ax'
      BY <2>2, <3>1 DEF rtl8169_ack_out
    <3>3. QED
      BY <2>2, <3>1, <3>2 DEF rtl8169_ack_out, Branch
  <2>3. QED
    BY <1>5, <2>1, <2>2
<1>6. CASE PollLen \/ PollCopy \/ PollGiveBack \/ StoreLength
  BY <1>6 DEF PollLen, PollCopy, PollGiveBack, StoreLength
<1>7. ASSUME NEW p \in Programs, os_ethernet_rx(p) PROVE DescriptorHeld'
  BY <1>7 DEF os_ethernet_rx, RxLength, RxNothing, RxClear, RxCopy, RxReturn, netVars
<1> QED
  BY <1>1, <1>2, <1>3, <1>4, <1>5, <1>6, <1>7 DEF NetNext, Handler

\* The descriptor is the handler's while it copies: the card has to wait.
LEMMA CardWaits == NetInv /\ CardStores => irq \notin {"len", "copy", "rdh"}
BY NetAssumption DEF NetInv, NetTypeOK, DescriptorHeld, CardStores, Descriptors

LEMMA BuffersStep == NetInv /\ [NetNext]_netVars => BuffersHold'
<1> SUFFICES ASSUME NetInv, [NetNext]_netVars PROVE BuffersHold'
  OBVIOUS
<1> USE NumbersType DEF NetInv, NetTypeOK, BuffersHold, Writing, cardVars, handlerVars, programVars
<1>1. CASE UNCHANGED netVars
  BY <1>1 DEF netVars
<1>2. CASE Arrive \/ CardHasSent \/ NetworkInterrupt
  BY <1>2 DEF Arrive, CardHasSent, NetworkInterrupt
<1>3. CASE CardStores
  <2>1. Halves(desc') \in 0 .. MaxHalves
    BY <1>3, HeadTailProperties, HalvesType DEF CardStores
  <2>2. \A h \in 1 .. Halves(desc') : rxbuf'[h] = desc'
    BY <1>3, <2>1 DEF CardStores, MaxHalves
  <2>3. QED
    BY <1>3, <2>2, CardWaits DEF CardStores
<1>4. CASE i8254x_ack_int \/ rtl8169_ack_in \/ rtl8169_ack_out
  BY <1>4 DEF i8254x_ack_int, rtl8169_ack_in, rtl8169_ack_out, Branch
<1>5. CASE PollLen
  <2>1. desc # 0
    BY <1>5, NetAssumption DEF PollLen, DescriptorHeld
  <2>2. Halves(desc) \in 0 .. 2 /\ Halves(desc) # 0
    BY <2>1, HalvesType DEF MaxHalves
  <2>3. QED
    BY <1>5, <2>1, <2>2 DEF PollLen
<1>6. CASE PollCopy
  <2>1. k < Halves(cx) /\ k' = k + 1 /\ cx' = cx /\ cx = desc /\ \A h \in 1 .. k : slot[h] = cx
    BY <1>6 DEF PollCopy
  <2>2. Halves(cx) \in 0 .. 2
    BY HalvesType DEF MaxHalves
  <2>3. k' \in 1 .. MaxHalves
    BY <2>1, <2>2 DEF MaxHalves
  <2>4. rxbuf[k'] = desc
    BY <2>1, <2>2
  <2>5. \A h \in 1 .. k' : slot'[h] = cx
    BY <1>6, <2>1, <2>3, <2>4 DEF PollCopy, MaxHalves
  <2>6. QED
    BY <1>6, <2>1, <2>2, <2>5 DEF PollCopy
<1>7. CASE PollGiveBack \/ StoreLength
  BY <1>7 DEF PollGiveBack, StoreLength
<1>8. ASSUME NEW p \in Programs, os_ethernet_rx(p) PROVE BuffersHold'
  BY <1>8 DEF os_ethernet_rx, RxLength, RxNothing, RxClear, RxCopy, RxReturn, netVars
<1> QED
  BY <1>1, <1>2, <1>3, <1>4, <1>5, <1>6, <1>7, <1>8 DEF NetNext, Handler

LEMMA OrderStep == NetInv /\ [NetNext]_netVars => InOrder'
<1> SUFFICES ASSUME NetInv, [NetNext]_netVars PROVE InOrder'
  OBVIOUS
<1> USE NumbersType DEF NetInv, NetTypeOK, InOrder, Writing, cardVars, handlerVars, programVars
<1>1. CASE UNCHANGED netVars
  BY <1>1 DEF netVars
<1>2. CASE Arrive
  <2>1. arrived < arrived' /\ arrived' \in Packets /\ desc < arrived'
    BY <1>2 DEF Arrive, PacketNos
  <2>2. CASE waiting' = waiting
    <3>1. Within(waiting, desc, arrived')
      BY <2>1, ElementOfSeq DEF Within, PacketNos
    <3>2. QED
      BY <1>2, <2>1, <2>2, <3>1 DEF Arrive, PacketNos
  <2>3. CASE waiting' = Append(waiting, arrived')
    <3>1. Increasing(waiting') /\ Within(waiting', desc, arrived')
      BY <2>1, <2>3, AppendKeepsOrder
    <3>2. QED
      BY <1>2, <2>1, <3>1 DEF Arrive, PacketNos
  <2>4. QED
    BY <1>2, <2>2, <2>3 DEF Arrive
<1>3. CASE CardStores
  <2>1. /\ desc' \in Packets /\ desc < desc' /\ desc' <= arrived
        /\ Increasing(waiting') /\ Within(waiting', desc', arrived)
    BY <1>3, TailKeepsOrder DEF CardStores
  <2>2. cx < desc'
    BY <2>1 DEF PacketNos
  <2>3. arrived' = arrived /\ cx' = cx /\ len' = len /\ irq' = irq
    BY <1>3 DEF CardStores
  <2>4. cx \in Nat /\ desc' \in Nat /\ len \in Nat
    BY <2>1 DEF PacketNos
  <2>5. cx <= desc' /\ len <= cx /\ (Writing => len < cx)
    BY <2>2, <2>4
  <2> HIDE DEF NetInv, NetTypeOK
  <2>6. QED
    BY <2>1, <2>2, <2>3, <2>5
<1>4. CASE CardHasSent \/ NetworkInterrupt
  BY <1>4 DEF CardHasSent, NetworkInterrupt
<1>5. CASE i8254x_ack_int \/ rtl8169_ack_in \/ rtl8169_ack_out
  BY <1>5 DEF i8254x_ack_int, rtl8169_ack_in, rtl8169_ack_out, Branch
<1>6. CASE PollLen
  <2>1. cx < desc
    BY <1>6, NetAssumption DEF PollLen, DescriptorHeld
  <2>2. QED
    BY <1>6, <2>1 DEF PollLen, PacketNos
<1>7. CASE PollCopy
  BY <1>7 DEF PollCopy
<1>8. CASE PollGiveBack
  BY <1>8 DEF PollGiveBack
<1>9. CASE StoreLength
  BY <1>9 DEF StoreLength, PacketNos
<1>10. ASSUME NEW p \in Programs, os_ethernet_rx(p) PROVE InOrder'
  <2>1. CASE RxClear(p)
    <3>1. 0 < cx \/ ~ Writing
      BY DEF BuffersHold, PacketNos
    <3>2. QED
      BY <2>1, <3>1 DEF RxClear, PacketNos
  <2>2. CASE RxLength(p) \/ RxNothing(p) \/ RxCopy(p) \/ RxReturn(p)
    BY <2>2 DEF RxLength, RxNothing, RxCopy, RxReturn, netVars
  <2>3. QED
    BY <1>10, <2>1, <2>2 DEF os_ethernet_rx
<1> QED
  BY <1>1, <1>2, <1>3, <1>4, <1>5, <1>6, <1>7, <1>8, <1>9, <1>10 DEF NetNext, Handler

LEMMA ToldStep == NetInv /\ [NetNext]_netVars => ToldBefore'
<1> SUFFICES ASSUME NetInv, [NetNext]_netVars PROVE ToldBefore'
  OBVIOUS
<1> USE NumbersType DEF NetInv, NetTypeOK, ToldBefore, Writing, cardVars, handlerVars, programVars
<1>1. \A p \in Programs : \A m \in 1 .. Len(took[p]) : took[p][m] \in Packets
  BY ElementOfSeq
<1>2. CASE UNCHANGED netVars
  BY <1>2 DEF netVars
<1>3. CASE Arrive \/ CardStores \/ CardHasSent \/ NetworkInterrupt
  BY <1>3 DEF Arrive, CardStores, CardHasSent, NetworkInterrupt
<1>4. CASE i8254x_ack_int \/ rtl8169_ack_in \/ rtl8169_ack_out
  BY <1>4 DEF i8254x_ack_int, rtl8169_ack_in, rtl8169_ack_out, Branch
<1>5. CASE PollLen
  <2>1. cx < desc
    BY <1>5, NetAssumption DEF PollLen, DescriptorHeld, InOrder
  <2>2. \A p \in Programs : \A m \in 1 .. Len(took[p]) : took[p][m] < desc
    <3>1. cx \in Nat /\ desc \in Nat
      BY DEF PacketNos
    <3>2. ASSUME NEW p \in Programs, NEW m \in 1 .. Len(took[p]) PROVE took[p][m] < desc
      <4>1. took[p][m] \in Nat /\ took[p][m] <= cx
        BY <1>1, NumbersType DEF PacketNos
      <4>2. QED
        BY ONLY <2>1, <3>1, <4>1
    <3>3. QED
      BY <3>2
  <2>3. cx' = desc /\ took' = took /\ len' = len /\ pc' = pc
    BY <1>5 DEF PollLen
  <2>4. ASSUME NEW p \in Programs, NEW m \in 1 .. Len(took[p])
        PROVE  took'[p][m] <= cx' /\ took'[p][m] < cx'
    <3>1. took[p][m] \in Nat /\ desc \in Nat
      BY <1>1 DEF PacketNos
    <3>2. QED
      BY <2>2, <2>3, <3>1
  <2>5. QED
    BY <2>3, <2>4
<1>6. CASE PollCopy \/ PollGiveBack
  BY <1>6 DEF PollCopy, PollGiveBack
<1>7. CASE StoreLength
  BY <1>1, <1>7 DEF StoreLength, PacketNos
<1>8. ASSUME NEW p \in Programs, RxLength(p) PROVE ToldBefore'
  <2>1. len \in Packets /\ pc[p] = "idle" /\ took'[p] = Append(took[p], len)
    BY <1>8 DEF RxLength
  <2>2. Increasing(took'[p]) /\ Within(took'[p], 0, len)
    <3>1. \A m \in 1 .. Len(took[p]) : took[p][m] \in Packets /\ took[p][m] < len
      BY <1>1, <1>8, <2>1 DEF RxLength
    <3>2. Increasing(took[p]) /\ took[p] \in Seq(Packets)
      OBVIOUS
    <3>3. Len(PacketSizes) \in Nat /\ Packets = 1 .. Len(PacketSizes)
      BY DEF Packets
    <3> HIDE DEF NetInv, NetTypeOK, ToldBefore
    <3>4. len - 1 \in PacketNos /\ 0 \in PacketNos /\ len - 1 < len /\ 0 < len
      BY <2>1, <3>3 DEF PacketNos
    <3>5. Within(took[p], 0, len - 1)
      BY <2>1, <3>1, <3>3 DEF Within
    <3>6. QED
      BY <2>1, <3>2, <3>4, <3>5, AppendKeepsOrder
  <2>3. ASSUME NEW m \in 1 .. Len(took'[p]) PROVE took'[p][m] <= cx /\ (Writing => took'[p][m] < cx)
    <3>1. took'[p] \in Seq(Packets)
      BY <1>8, <2>1, AppendProperties DEF RxLength
    <3>2. took'[p][m] \in Packets
      BY <3>1, ElementOfSeq
    <3>3. took'[p][m] <= len
      BY <2>2 DEF Within
    <3>4. len <= cx /\ (Writing => len < cx) /\ len \in Nat /\ cx \in Nat
      BY DEF InOrder, PacketNos
    <3> HIDE DEF NetInv, NetTypeOK, ToldBefore, Writing
    <3>5. took'[p][m] \in Nat
      BY <3>2 DEF Packets
    <3>6. QED
      BY <3>3, <3>4, <3>5
  <2>4. \A q \in Programs : q # p => took'[q] = took[q] /\ pc'[q] = pc[q]
    BY <1>8 DEF RxLength
  <2>5. pc'[p] = "clear" /\ cx' = cx /\ irq' = irq /\ len' = len
    BY <1>8 DEF RxLength
  <2>6. QED
    BY <2>2, <2>3, <2>4, <2>5
<1>9. ASSUME NEW p \in Programs, RxNothing(p) \/ RxClear(p) \/ RxCopy(p) \/ RxReturn(p)
      PROVE  ToldBefore'
  <2>1. /\ took' = took /\ cx' = cx /\ irq' = irq /\ len' \in {len, 0}
        /\ \A q \in Programs : pc'[q] = "clear" => pc[q] = "clear"
        /\ len' # 0 => \A q \in Programs : pc[q] = "clear" => pc'[q] = "clear"
    BY <1>9 DEF RxNothing, RxClear, RxCopy, RxReturn, netVars
  <2>2. QED
    BY <2>1
<1> QED
  BY <1>2, <1>3, <1>4, <1>5, <1>6, <1>7, <1>8, <1>9 DEF NetNext, Handler, os_ethernet_rx

\* What a program's copy is worth does not depend on what the others do.
CopyHolds(p) ==
  pc[p] # "idle" =>
    /\ rx[p] # 0 /\ rx[p] <= cx
    /\ pc[p] = "clear" => i[p] = 0
    /\ pc[p] = "copy" => i[p] < Halves(rx[p])
    /\ pc[p] = "done" => i[p] = Halves(rx[p])
    /\ \A h \in 1 .. Halves(rx[p]) : slot[h] >= rx[p]
    /\ \A h \in 1 .. i[p] : memory[p][h] >= rx[p]
    /\ ~ disturbed[p] => /\ \A h \in 1 .. Halves(rx[p]) : slot[h] = rx[p]
                         /\ \A h \in 1 .. i[p] : memory[p][h] = rx[p]

LEMMA CopiesStep == NetInv /\ [NetNext]_netVars => CopiesHold'
<1> SUFFICES ASSUME NetInv, [NetNext]_netVars PROVE CopiesHold'
  OBVIOUS
<1> DEFINE SlotHolds == \A h \in 1 .. Halves(len) : slot[h] >= len
<1> USE NumbersType DEF NetInv, NetTypeOK, cardVars, handlerVars, programVars
<1>1. SlotHolds /\ \A p \in Programs : CopyHolds(p)
  BY DEF CopiesHold, CopyHolds
<1>2. SUFFICES SlotHolds' /\ \A p \in Programs : CopyHolds(p)'
  BY DEF CopiesHold, CopyHolds
<1>3. \A p \in Programs : Halves(rx[p]) \in 0 .. 2 /\ (rx[p] # 0 => Halves(rx[p]) # 0)
  BY HalvesType DEF MaxHalves
<1>4. CASE UNCHANGED netVars
  BY <1>1, <1>4 DEF netVars, CopyHolds
<1>5. CASE Arrive \/ CardStores \/ CardHasSent \/ NetworkInterrupt
  <2>1. UNCHANGED <<cx, len, slot, pc, rx, i, memory, disturbed>>
    BY <1>5 DEF Arrive, CardStores, CardHasSent, NetworkInterrupt
  <2>2. QED
    BY <1>1, <2>1 DEF CopyHolds
<1>6. CASE i8254x_ack_int \/ rtl8169_ack_in \/ rtl8169_ack_out
  <2>1. UNCHANGED <<cx, len, slot, pc, rx, i, memory, disturbed>>
    BY <1>6 DEF i8254x_ack_int, rtl8169_ack_in, rtl8169_ack_out
  <2>2. QED
    BY <1>1, <2>1 DEF CopyHolds
<1>7. CASE PollLen
  <2>1. cx <= desc /\ cx' = desc
    BY <1>7 DEF PollLen, InOrder
  <2>2. SlotHolds'
    BY <1>1, <1>7 DEF PollLen
  <2>3. ASSUME NEW p \in Programs PROVE CopyHolds(p)'
    <3>1. CopyHolds(p)
      BY <1>1
    <3>2. rx[p] <= cx => rx[p] <= desc
      BY <2>1 DEF PacketNos
    <3>3. QED
      BY <1>7, <3>1, <3>2 DEF PollLen, CopyHolds
  <2>4. QED
    BY <2>2, <2>3
<1>8. CASE PollCopy
  <2>1. k' \in 1 .. MaxHalves /\ rxbuf[k'] = cx
    <3>1. k < Halves(cx) /\ k' = k + 1 /\ cx = desc /\ \A h \in 1 .. Halves(desc) : rxbuf[h] = desc
      BY <1>8 DEF PollCopy, BuffersHold
    <3>2. Halves(cx) \in 0 .. 2
      BY HalvesType DEF MaxHalves
    <3>3. QED
      BY <3>1, <3>2 DEF MaxHalves
  <2>2. \A h \in 1 .. MaxHalves : slot'[h] = IF h = k' THEN cx ELSE slot[h]
    BY <1>8, <2>1 DEF PollCopy
  <2>3. SlotHolds'
    <3>1. Halves(len) \in 0 .. MaxHalves /\ len < cx /\ len' = len
      BY <1>8, HalvesType DEF PollCopy, InOrder, Writing
    <3>2. cx \in Nat /\ len \in Nat /\ slot \in [1 .. MaxHalves -> Nat]
      BY DEF PacketNos
    <3> HIDE DEF NetInv, NetTypeOK
    <3>3. ASSUME NEW h \in 1 .. Halves(len) PROVE slot'[h] >= len
      BY <1>1, <2>2, <3>1, <3>2, <3>3 DEF MaxHalves
    <3>4. QED
      BY <3>1, <3>3
  <2>4. ASSUME NEW p \in Programs PROVE CopyHolds(p)'
    <3>1. /\ CopyHolds(p)
          /\ pc' = pc /\ rx' = rx /\ i' = i /\ memory' = memory /\ cx' = cx /\ disturbed'[p]
      BY <1>1, <1>8 DEF PollCopy
    <3>2. cx \in Nat /\ rx[p] \in Nat /\ slot \in [1 .. MaxHalves -> Nat] /\ Halves(rx[p]) \in 0 .. MaxHalves
      BY <1>3 DEF PacketNos, MaxHalves
    <3>3. ASSUME pc[p] # "idle", NEW h \in 1 .. Halves(rx[p]) PROVE slot'[h] >= rx[p]
      <4>1. slot[h] >= rx[p] /\ rx[p] <= cx
        BY <3>1, <3>3 DEF CopyHolds
      <4>2. h \in 1 .. MaxHalves
        BY <3>2, <3>3 DEF MaxHalves
      <4>3. QED
        BY <2>2, <3>2, <4>1, <4>2
    <3>4. QED
      BY <3>1, <3>3 DEF CopyHolds
  <2>5. QED
    BY <2>3, <2>4
<1>9. CASE PollGiveBack
  BY <1>1, <1>9 DEF PollGiveBack, CopyHolds
<1>10. CASE StoreLength
  <2>1. \A h \in 1 .. Halves(cx) : slot[h] = cx
    BY <1>10 DEF StoreLength, BuffersHold
  <2>2. SlotHolds'
    BY <1>10, <2>1 DEF StoreLength, PacketNos
  <2>3. QED
    BY <1>1, <1>10, <2>2 DEF StoreLength, CopyHolds
<1>11. ASSUME NEW p \in Programs, RxLength(p) PROVE SlotHolds' /\ \A q \in Programs : CopyHolds(q)'
  <2>1. SlotHolds'
    BY <1>1, <1>11 DEF RxLength
  <2>2. len # 0 /\ len <= cx /\ \A h \in 1 .. Halves(len) : slot[h] >= len
    BY <1>1, <1>11 DEF RxLength, InOrder
  <2>3. ~ Writing => \A h \in 1 .. Halves(len) : slot[h] = len
    BY <2>2 DEF BuffersHold, Writing
  <2>4. /\ pc'[p] = "clear" /\ rx'[p] = len /\ i'[p] = 0 /\ (~ disturbed'[p] => ~ Writing)
        /\ slot' = slot /\ cx' = cx
    BY <1>11 DEF RxLength, Writing
  <2>5. CopyHolds(p)'
    BY <2>2, <2>3, <2>4 DEF CopyHolds
  <2>6. ASSUME NEW q \in Programs, q # p PROVE CopyHolds(q)'
    <3>1. /\ pc'[q] = pc[q] /\ rx'[q] = rx[q] /\ i'[q] = i[q] /\ disturbed'[q] = disturbed[q]
          /\ slot' = slot /\ cx' = cx /\ memory' = memory
      BY <1>11, <2>6 DEF RxLength
    <3>2. QED
      BY <1>1, <3>1 DEF CopyHolds
  <2>7. QED
    BY <2>1, <2>5, <2>6
<1>12. ASSUME NEW p \in Programs, RxCopy(p) PROVE SlotHolds' /\ \A q \in Programs : CopyHolds(q)'
  <2>1. SlotHolds'
    BY <1>1, <1>12 DEF RxCopy
  <2>2. /\ pc[p] = "copy" /\ i'[p] = i[p] + 1 /\ i[p] \in Nat /\ i[p] < Halves(rx[p])
        /\ rx' = rx /\ cx' = cx /\ slot' = slot /\ disturbed' = disturbed
        /\ pc'[p] = IF i'[p] = Halves(rx[p]) THEN "done" ELSE "copy"
    BY <1>1, <1>12 DEF RxCopy, CopyHolds
  <2>3. i'[p] \in 1 .. Halves(rx[p]) /\ i'[p] \in 1 .. MaxHalves
    BY <1>3, <2>2 DEF MaxHalves
  <2>4. \A h \in 1 .. MaxHalves : memory'[p][h] = IF h = i'[p] THEN slot[h] ELSE memory[p][h]
    BY <1>12, <2>3 DEF RxCopy
  <2>5. \A h \in 1 .. i'[p] : h \in 1 .. MaxHalves /\ (h # i'[p] => h \in 1 .. i[p])
    BY <2>2, <2>3 DEF MaxHalves
  <2>6. CopyHolds(p)
    BY <1>1
  <2>7. ASSUME NEW h \in 1 .. i'[p]
        PROVE  memory'[p][h] >= rx[p] /\ (~ disturbed[p] => memory'[p][h] = rx[p])
    <3>1. CASE h = i'[p]
      <4>1. memory'[p][h] = slot[h] /\ h \in 1 .. Halves(rx[p])
        BY <2>3, <2>4, <3>1
      <4>2. QED
        BY <2>2, <2>6, <4>1 DEF CopyHolds
    <3>2. CASE h # i'[p]
      <4>1. memory'[p][h] = memory[p][h] /\ h \in 1 .. i[p]
        BY <2>4, <2>5, <3>2
      <4>2. QED
        BY <2>2, <2>6, <4>1 DEF CopyHolds
    <3>3. QED
      BY <3>1, <3>2
  <2>8. CopyHolds(p)'
    <3>1. pc'[p] = "copy" => i'[p] < Halves(rx[p])
      <4>1. pc'[p] = "copy" => i'[p] # Halves(rx[p])
        BY <2>2
      <4>2. Halves(rx[p]) \in 0 .. 2
        BY <1>3
      <4> HIDE DEF NetInv, NetTypeOK
      <4>3. QED
        BY <2>3, <4>1, <4>2
    <3>2. pc'[p] \in {"done", "copy"} /\ (pc'[p] = "done" => i'[p] = Halves(rx[p]))
      BY <2>2
    <3>3. /\ rx[p] # 0 /\ rx[p] <= cx
          /\ \A h \in 1 .. Halves(rx[p]) : slot[h] >= rx[p] /\ (~ disturbed[p] => slot[h] = rx[p])
      BY <2>2, <2>6 DEF CopyHolds
    <3> HIDE DEF NetInv, NetTypeOK
    <3>4. rx'[p] = rx[p] /\ cx' = cx /\ slot' = slot /\ disturbed'[p] = disturbed[p]
      BY <2>2
    <3>5. \A h \in 1 .. i'[p] : memory'[p][h] >= rx[p] /\ (~ disturbed[p] => memory'[p][h] = rx[p])
      BY <2>7
    <3>6. QED
      BY <3>1, <3>2, <3>3, <3>4, <3>5 DEF CopyHolds
  <2>9. ASSUME NEW q \in Programs, q # p PROVE CopyHolds(q)'
    <3>1. /\ pc'[q] = pc[q] /\ i'[q] = i[q] /\ memory'[q] = memory[q]
      BY <1>12, <2>9 DEF RxCopy
    <3>2. QED
      BY <1>1, <2>2, <3>1 DEF CopyHolds
  <2>10. QED
    BY <2>1, <2>8, <2>9
<1>13. ASSUME NEW p \in Programs, RxNothing(p) \/ RxClear(p) \/ RxReturn(p)
       PROVE  SlotHolds' /\ \A q \in Programs : CopyHolds(q)'
  <2>1. CASE RxNothing(p)
    BY <1>1, <2>1 DEF RxNothing, netVars, CopyHolds
  <2>2. CASE RxClear(p)
    <3>1. SlotHolds'
      <4>1. len' = 0 /\ Halves(len') = 0
        BY <2>2 DEF RxClear, Halves
      <4>2. QED
        BY <4>1
    <3>2. /\ pc[p] = "clear" /\ pc' = [pc EXCEPT ![p] = "copy"] /\ DOMAIN pc = Programs
          /\ rx' = rx /\ i' = i /\ memory' = memory /\ slot' = slot /\ cx' = cx /\ disturbed' = disturbed
      BY <2>2 DEF RxClear
    <3> HIDE DEF NetInv, NetTypeOK
    <3>3. CopyHolds(p)'
      <4>1. CopyHolds(p) /\ pc'[p] = "copy"
        BY <1>1, <3>2
      <4>2. i[p] = 0 /\ rx[p] # 0 /\ 0 < Halves(rx[p])
        BY <1>3, <3>2, <4>1 DEF CopyHolds
      <4>3. QED
        BY <3>2, <4>1, <4>2 DEF CopyHolds
    <3>4. ASSUME NEW q \in Programs, q # p PROVE CopyHolds(q)'
      BY <1>1, <3>2, <3>4 DEF CopyHolds
    <3>5. QED
      BY <3>1, <3>3, <3>4
  <2>3. CASE RxReturn(p)
    BY <1>1, <2>3 DEF RxReturn, CopyHolds
  <2>4. QED
    BY <1>13, <2>1, <2>2, <2>3
<1> QED
  BY <1>4, <1>5, <1>6, <1>7, <1>8, <1>9, <1>10, <1>11, <1>12, <1>13
     DEF NetNext, Handler, os_ethernet_rx

LEMMA HeadFirst ==
  ASSUME NEW s \in Seq(Packets), NEW t \in Seq(Packets), s # <<>>
  PROVE  (t \o <<Head(s)>>) \o Tail(s) = t \o s
<1>1. Head(s) \in Packets /\ Tail(s) \in Seq(Packets) /\ <<Head(s)>> \in Seq(Packets)
  BY HeadTailProperties
<1>2. <<Head(s)>> \o Tail(s) = s
  <2>1. Len(s) \in Nat \ {0} /\ Head(s) = s[1]
    BY EmptySeq
  <2>2. s = SubSeq(s, 1, Len(s)) /\ Tail(s) = SubSeq(s, 2, Len(s))
    BY SubSeqFull, TailIsSubSeq
  <2>3. SubSeq(s, 1, Len(s)) = <<s[1]>> \o SubSeq(s, 1 + 1, Len(s))
    BY <2>1, SubSeqRecursiveFirst
  <2>4. QED
    BY <2>1, <2>2, <2>3
<1> QED
  BY <1>1, <1>2, ConcatAssociative

LEMMA CardStays == [NetNext]_netVars => card' = card
BY DEF NetNext, Handler, os_ethernet_rx, Arrive, CardStores, CardHasSent, NetworkInterrupt,
       i8254x_ack_int, rtl8169_ack_in, rtl8169_ack_out, PollLen, PollCopy, PollGiveBack, StoreLength,
       RxLength, RxNothing, RxClear, RxCopy, RxReturn, netVars

LEMMA KeptStep == NetInv /\ [NetNext]_netVars => AllKept'
<1> SUFFICES ASSUME NetInv, [NetNext]_netVars, card = "i8254x" PROVE AllKept'
  BY CardStays DEF AllKept
<1> DEFINE before == polled \o InHand \o InCard
<1> USE NumbersType DEF cardVars, handlerVars, programVars
<1>1. /\ polled \in Seq(Packets) /\ waiting \in Seq(Packets) /\ kept = before \o waiting
      /\ desc \in PacketNos /\ cx \in PacketNos /\ filled \in {0, 1}
  BY DEF NetInv, NetTypeOK, AllKept, DescriptorHeld
<1>2. InHand \in Seq(Packets) /\ InCard \in Seq(Packets)
  <2>1. irq = "store" => cx \in Packets
    BY <1>1 DEF NetInv, BuffersHold, Writing
  <2>2. filled = 1 => desc \in Packets
    BY <1>1 DEF NetInv, DescriptorHeld
  <2>3. <<>> \in Seq(Packets) /\ \A n \in Packets : <<n>> \in Seq(Packets)
    OBVIOUS
  <2>4. InHand \in Seq(Packets)
    BY <2>1, <2>3 DEF InHand
  <2>5. InCard \in Seq(Packets)
    BY <2>2, <2>3 DEF InCard
  <2>6. QED
    BY <2>4, <2>5
<1>3. polled \o InHand \in Seq(Packets) /\ before \in Seq(Packets)
  BY <1>1, <1>2, ConcatProperties
<1>4. SUFFICES polled' \o InHand' \o InCard' \o waiting' = kept'
  BY DEF AllKept
<1>5. CASE UNCHANGED netVars
  BY <1>1, <1>5 DEF netVars, InHand, InCard
<1>6. CASE Arrive
  <2>1. before' = before
    <3>1. polled' = polled /\ InHand' = InHand /\ InCard' = InCard
      BY <1>6 DEF Arrive, InHand, InCard
    <3>2. QED
      BY <3>1
  <2>2. CASE waiting' = waiting /\ kept' = kept
    BY <1>1, <2>1, <2>2
  <2>3. CASE waiting' = Append(waiting, arrived') /\ kept' = Append(kept, arrived')
    <3>1. arrived' \in Packets
      BY <1>6 DEF Arrive, NetInv, NetTypeOK, PacketNos
    <3>2. <<arrived'>> \in Seq(Packets) /\ kept \in Seq(Packets)
      BY <3>1 DEF NetInv, NetTypeOK
    <3> HIDE DEF before
    <3>3. before \o (waiting \o <<arrived'>>) = (before \o waiting) \o <<arrived'>>
      BY <1>1, <1>3, <3>2, ConcatAssociative
    <3>4. Append(waiting, arrived') = waiting \o <<arrived'>> /\ Append(kept, arrived') = kept \o <<arrived'>>
      BY <1>1, <3>1, <3>2, AppendIsConcat
    <3>5. before' \o waiting' = kept'
      BY <1>1, <2>1, <2>3, <3>3, <3>4
    <3>6. QED
      BY <3>5 DEF before
  <2>4. QED
    BY <1>6, <2>2, <2>3 DEF Arrive
<1>7. CASE CardStores
  <2>1. /\ InCard = <<>> /\ InCard' = <<Head(waiting)>> /\ waiting # <<>> /\ waiting' = Tail(waiting)
        /\ polled' = polled /\ InHand' = InHand /\ kept' = kept
    BY <1>1, <1>7 DEF CardStores, Descriptors, InCard, InHand
  <2>2. before = polled \o InHand
    BY <1>3, <2>1, ConcatEmptySeq
  <2>3. QED
    BY <1>1, <1>3, <2>1, <2>2, HeadFirst
<1>8. CASE CardHasSent \/ NetworkInterrupt \/ i8254x_ack_int \/ rtl8169_ack_in \/ rtl8169_ack_out
  BY <1>1, <1>8
     DEF CardHasSent, NetworkInterrupt, i8254x_ack_int, rtl8169_ack_in, rtl8169_ack_out, Branch, InHand, InCard
<1>9. CASE PollLen \/ PollCopy
  BY <1>1, <1>9 DEF PollLen, PollCopy, InHand, InCard
<1>10. CASE PollGiveBack
  <2>1. filled = 1 /\ cx = desc
    BY <1>1, <1>10 DEF PollGiveBack, NetInv, DescriptorHeld, BuffersHold
  <2>2. /\ InHand = <<>> /\ InCard = <<cx>> /\ InHand' = <<cx>> /\ InCard' = <<>>
        /\ polled' = polled /\ waiting' = waiting /\ kept' = kept
    BY <1>10, <2>1 DEF PollGiveBack, InHand, InCard
  <2>3. polled \o <<>> = polled
    BY <1>1, ConcatEmptySeq
  <2>4. (polled \o <<cx>>) \o <<>> = polled \o <<cx>>
    BY <1>1, <1>2, <2>2, ConcatProperties, ConcatEmptySeq
  <2>5. QED
    BY <1>1, <2>2, <2>3, <2>4
<1>11. CASE StoreLength
  <2>1. /\ InHand = <<cx>> /\ InHand' = <<>> /\ InCard' = InCard /\ polled' = Append(polled, cx)
        /\ waiting' = waiting /\ kept' = kept
    BY <1>11 DEF StoreLength, InHand, InCard
  <2>2. cx \in Packets
    BY <1>1, <1>11 DEF StoreLength, NetInv, BuffersHold, Writing
  <2>3. Append(polled, cx) = polled \o <<cx>> /\ (polled \o <<cx>>) \o <<>> = polled \o <<cx>>
    BY <1>1, <1>3, <2>1, <2>2, AppendIsConcat, ConcatEmptySeq, SMTT(40)
  <2>4. QED
    BY <1>1, <2>1, <2>3
<1>12. ASSUME NEW p \in Programs, os_ethernet_rx(p) PROVE polled' \o InHand' \o InCard' \o waiting' = kept'
  BY <1>1, <1>12 DEF os_ethernet_rx, RxLength, RxNothing, RxClear, RxCopy, RxReturn, netVars, InHand, InCard
<1> QED
  BY <1>5, <1>6, <1>7, <1>8, <1>9, <1>10, <1>11, <1>12 DEF NetNext, Handler

LEMMA NetStepInv == NetInv /\ [NetNext]_netVars => NetInv'
BY NetTypeStep, DescriptorStep, BuffersStep, OrderStep, ToldStep, CopiesStep, KeptStep DEF NetInv

\* The invariant holds always: packets go from the wire to a program through one descriptor, one
\* buffer of the card and one buffer of the kernel, and are in order at each place.
THEOREM NetInvariant == NetSpec => []NetInv
<1>1. QED
  BY NetInitInv, NetStepInv, PTL DEF NetSpec

-----------------------------------------------------------------------------
(* What it says to those who call os_ethernet_rx.                          *)

\* The state of the cards and of the programs is always of the type given above.
THEOREM NetTypeCorrect == NetSpec => []NetTypeOK
<1>1. NetInv => NetTypeOK
  BY DEF NetInv
<1> QED
  BY <1>1, NetInvariant, PTL

\* What an 8254x keeps is handed up once, in order and whole: net_i8254x's poll and the interrupt
\* handler around it neither lose a packet nor store its length before the packet is there.
THEOREM EverythingHandedUp == NetSpec => []HandedUp
<1>1. NetInv => HandedUp
  BY DEF NetInv, AllKept, BuffersHold, Writing, HandedUp, InHand, InCard
<1> QED
  BY <1>1, NetInvariant, PTL

\* What os_ethernet_rx returns is one packet, unless the network interrupt has written
\* os_EthernetBuffer between its first and its last look at it.
THEOREM WholePackets == NetSpec => []WholeUnlessDisturbed
<1>1. NetInv => WholeUnlessDisturbed
  <2> SUFFICES ASSUME NetInv, NEW p \in Programs, pc[p] = "done", ~ disturbed[p],
                      NEW h \in 1 .. Halves(rx[p])
               PROVE  memory[p][h] = rx[p]
    BY DEF WholeUnlessDisturbed
  <2> QED
    BY DEF NetInv, CopiesHold
<1> QED
  BY <1>1, NetInvariant, PTL

\* Even when the interrupt has come in between, no part of what os_ethernet_rx returns is older
\* than the packet whose length it returns.
THEOREM NothingOlder == NetSpec => []NeverOlder
<1>1. NetInv => NeverOlder
  <2> SUFFICES ASSUME NetInv, NEW p \in Programs, pc[p] = "done", NEW h \in 1 .. Halves(rx[p])
               PROVE  memory[p][h] >= rx[p]
    BY DEF NeverOlder
  <2> QED
    BY DEF NetInv, CopiesHold
<1> QED
  BY <1>1, NetInvariant, PTL

\* No program is told twice of a packet, and it is told of them in order: by the time it can look
\* again, os_ethernet_rx has cleared the length or the interrupt has stored a later one.
THEOREM ToldInOrder == NetSpec => []ToldOnce
<1>1. NetInv => ToldOnce
  <2> SUFFICES ASSUME NetInv, NEW p \in Programs, NEW m \in DOMAIN took[p], NEW n \in DOMAIN took[p], m < n
               PROVE  took[p][m] < took[p][n]
    BY DEF ToldOnce
  <2>1. took[p] \in Seq(Packets) /\ Increasing(took[p])
    BY DEF NetInv, NetTypeOK, ToldBefore
  <2>2. DOMAIN took[p] = 1 .. Len(took[p])
    BY <2>1, LenProperties
  <2> QED
    BY <2>1, <2>2 DEF Increasing
<1> QED
  BY <1>1, NetInvariant, PTL

(***************************************************************************)
(* Sending.                                                                *)
(***************************************************************************)
FrameLengths == MinFrame .. MaxFrame
Holders == Senders \cup {NoOne}

TxTypeOK ==
  /\ card \in {"i8254x", "rtl8169"}
  /\ busy \in Holders
  /\ at \in [Senders -> {"idle", "lock", "size", "address", "head", "tail", "own", "wait", "unlock"}]
  /\ size \in [Senders -> Nat]
  /\ content \in [Senders -> Nat]
  /\ td \in [whose : Holders, len : Nat] /\ sending \in [whose : Holders, len : Nat]
  /\ TDH \in Nat /\ TDT \in {0, 1} /\ OWN \in BOOLEAN
  /\ calls \in Nat /\ careless \in BOOLEAN
  /\ given \in Seq([data : Nat, len : Nat]) /\ wire \in Seq([data : Nat, len : Nat])

\* One sender is past os_smp_lock, the one that holds the lock, and it is where its driver goes.
LockedAt(p) ==
  /\ at[p] \notin {"idle", "lock"} <=> busy = p
  /\ at[p] # "idle" => size[p] \in FrameLengths
  /\ card = "i8254x" => at[p] \notin {"own", "wait"}
  /\ card = "rtl8169" => at[p] \notin {"head", "tail"}

LockHeld == \A p \in Senders : LockedAt(p)

\* As far as the holder has filled it, the descriptor describes its packet.
FilledAt(p) ==
  /\ card = "i8254x" => /\ at[p] \in {"size", "head", "tail"} => td.whose = p
                        /\ at[p] \in {"head", "tail"} => td.len = size[p]
  /\ card = "rtl8169" => /\ at[p] \in {"own", "wait"} => td.whose = p
                         /\ at[p] \in {"address", "own", "wait"} => td.len = size[p]

DescriptorFilled == \A p \in Senders : FilledAt(p)

\* What the card reads is a descriptor that somebody has filled; the 8169's is the card's only
\* while the holder waits for it.
CardKnows ==
  /\ card = "i8254x" => /\ TDH <= TDT
                        /\ sending # Empty => TDH = 0 /\ TDT = 1
                        /\ TDT = 1 => td.whose \in Senders /\ td.len \in FrameLengths
  /\ card = "rtl8169" => /\ OWN => busy \in Senders /\ at[busy] = "wait"
                         /\ sending # Empty => OWN
                         /\ ~ careless
  /\ sending # Empty => sending.whose \in Senders /\ sending.len \in FrameLengths
  /\ \A n \in 1 .. Len(wire) : wire[n].len \in FrameLengths

\* A packet has been accepted and the card does not know of it.
Pending ==
  /\ busy # NoOne
  /\ at[busy] \in {"address", "size", "head", "own"} \/ (at[busy] = "tail" /\ TDT = 0)

\* Unless somebody has been careless, one accepted packet at most is not on the wire yet: the
\* holder's, or the one the card has been told of.
OneAhead ==
  ~ careless =>
    /\ Pending => ~ CardBusy /\ given = Append(wire, Frame(content[busy], size[busy]))
    /\ ~ Pending /\ CardBusy => given = Append(wire, Frame(content[td.whose], td.len))
    /\ ~ Pending /\ ~ CardBusy => given = wire
    /\ sending # Empty => CardBusy /\ sending = td

TxInv == TxTypeOK /\ LockHeld /\ DescriptorFilled /\ CardKnows /\ OneAhead

-----------------------------------------------------------------------------
LEMMA TxInitInv == EthernetInit => TxInv
<1> SUFFICES ASSUME EthernetInit PROVE TxInv
  OBVIOUS
<1> USE NetAssumption, TxAssumption
    DEF EthernetInit, NetInit, TxInit, Empty, Descriptor, Holders, FrameLengths, CardBusy, Pending
<1>1. TxTypeOK
  <2>1. card \in {"i8254x", "rtl8169"} /\ busy \in Holders
    OBVIOUS
  <2>2. td \in [whose : Holders, len : Nat] /\ sending \in [whose : Holders, len : Nat]
    OBVIOUS
  <2>3. given \in Seq([data : Nat, len : Nat]) /\ wire \in Seq([data : Nat, len : Nat])
    BY EmptySeq
  <2>4. QED
    BY <2>1, <2>2, <2>3 DEF TxTypeOK
<1>2. LockHeld
  BY DEF LockHeld, LockedAt
<1>3. DescriptorFilled
  BY DEF DescriptorFilled, FilledAt
<1>4. CardKnows
  BY DEF CardKnows
<1>5. OneAhead
  BY DEF OneAhead
<1> QED
  BY <1>1, <1>2, <1>3, <1>4, <1>5 DEF TxInv

-----------------------------------------------------------------------------
(* A step of sending preserves the invariant.                              *)

LEMMA TxTypeStep == TxInv /\ TxNext /\ card' = card => TxTypeOK'
<1> SUFFICES ASSUME TxInv, TxNext, card' = card PROVE TxTypeOK'
  BY DEF netVars
<1> USE DEF TxInv, TxTypeOK, Holders, cardTx, Step
<1>1. Empty \in [whose : Holders, len : Nat]
  BY DEF Empty, Descriptor
<1>2. ASSUME NEW p \in Senders, NEW n \in Lengths[p], TxCall(p, n) PROVE TxTypeOK'
  <2>1. (IF n < MinFrame THEN MinFrame ELSE n) \in Nat
    BY TxAssumption DEF MinFrame
  <2>2. size' \in [Senders -> Nat] /\ content' \in [Senders -> Nat] /\ calls' \in Nat
    BY <1>2, <2>1 DEF TxCall
  <2>3. /\ at' = [at EXCEPT ![p] = "lock"] /\ busy' = busy
        /\ UNCHANGED cardTx /\ given' = given
    BY <1>2, Zenon DEF TxCall
  <2>4. careless' \in BOOLEAN
    BY <1>2, Zenon DEF TxCall
  <2>5. QED
    BY <2>2, <2>3, <2>4
<1>3. ASSUME NEW p \in Senders, TxLock(p) PROVE TxTypeOK'
  <2>1. Frame(content[p], size[p]) \in [data : Nat, len : Nat]
    BY DEF Frame
  <2>2. given' \in Seq([data : Nat, len : Nat])
    BY <1>3, <2>1, AppendProperties DEF TxLock
  <2>3. QED
    BY <1>3, <2>2 DEF TxLock, Begin
<1>4. ASSUME NEW p \in Senders, TxAddress(p) \/ TxSize(p) PROVE TxTypeOK'
  BY <1>4 DEF TxAddress, TxSize
<1>5. ASSUME NEW p \in Senders, i8254x_head(p) \/ i8254x_tail(p) \/ rtl8169_own(p) \/ rtl8169_sendloop(p)
      PROVE  TxTypeOK'
  <2>1. CASE i8254x_head(p) \/ i8254x_tail(p)
    <3>1. TDH' \in Nat /\ TDT' \in {0, 1} /\ OWN' = OWN
      BY <2>1 DEF i8254x_head, i8254x_tail
    <3>2. QED
      BY <2>1, <3>1 DEF i8254x_head, i8254x_tail
  <2>2. CASE rtl8169_own(p)
    BY <2>2 DEF rtl8169_own
  <2>3. CASE rtl8169_sendloop(p)
    BY <2>3 DEF rtl8169_sendloop
  <2>4. QED
    BY <1>5, <2>1, <2>2, <2>3
<1>6. ASSUME NEW p \in Senders, TxUnlock(p) PROVE TxTypeOK'
  BY <1>6 DEF TxUnlock
<1>7. ASSUME UNCHANGED txVars PROVE TxTypeOK'
  BY <1>7 DEF txVars
<1>8. CASE CallbackBegins \/ CallbackReturns
  BY <1>8 DEF CallbackBegins, CallbackReturns
<1>9. CASE CardReads
  BY <1>9 DEF CardReads
<1>10. CASE CardSends
  <2>1. Frame(content[sending.whose], sending.len) \in [data : Nat, len : Nat]
    <3>1. sending.whose \in Senders /\ sending.len \in Nat
      BY <1>10 DEF CardSends, CardKnows
    <3>2. QED
      BY <3>1 DEF Frame
  <2>2. wire' \in Seq([data : Nat, len : Nat])
    BY <1>10, <2>1, AppendProperties DEF CardSends
  <2>3. TDH' \in Nat /\ OWN' \in BOOLEAN
    <3>1. TDH \in Nat /\ OWN \in BOOLEAN
      OBVIOUS
    <3>2. TDH' = TDH + 1 \/ TDH' = TDH
      BY <1>10 DEF CardSends
    <3>3. OWN' = OWN \/ OWN' = FALSE
      BY <1>10 DEF CardSends
    <3> HIDE DEF TxInv, TxTypeOK
    <3>4. TDH' \in Nat
      BY <3>1, <3>2
    <3>5. OWN' \in BOOLEAN
      BY <3>1, <3>3
    <3>6. QED
      BY <3>4, <3>5
  <2>4. /\ sending' = Empty /\ UNCHANGED <<busy, at, size, interrupted, content, td, TDT, calls, given, careless>>
    BY <1>10 DEF CardSends
  <2>5. QED
    BY <1>1, <2>2, <2>3, <2>4
<1> QED
  BY <1>2, <1>3, <1>4, <1>5, <1>6, <1>7, <1>8, <1>9, <1>10 DEF TxNext, os_ethernet_tx, Driver, TxFail, TxSpin

\* Where the senders are after a step of p.
Moves(p, from, to) ==
  /\ at[p] = from /\ at'[p] = to
  /\ \A q \in Senders : q # p => at'[q] = at[q]

LEMMA MovesTo ==
  ASSUME TxTypeOK, NEW p \in Senders
  PROVE  /\ \A n \in Lengths[p] : TxCall(p, n) => Moves(p, "idle", "lock")
         /\ TxLock(p) => Moves(p, "lock", Begin)
         /\ TxAddress(p) => Moves(p, "address", IF card = "i8254x" THEN "size" ELSE "own")
         /\ TxSize(p) => Moves(p, "size", IF card = "i8254x" THEN "head" ELSE "address")
         /\ i8254x_head(p) => Moves(p, "head", "tail")
         /\ i8254x_tail(p) => Moves(p, "tail", "unlock")
         /\ rtl8169_own(p) => Moves(p, "own", "wait")
         /\ rtl8169_sendloop(p) => Moves(p, "wait", "unlock")
         /\ TxUnlock(p) => Moves(p, "unlock", "idle")
BY DEF TxTypeOK, Moves, Step, TxCall, TxLock, TxAddress, TxSize, i8254x_head, i8254x_tail,
       rtl8169_own, rtl8169_sendloop, TxUnlock

LEMMA LockStep == TxInv /\ TxNext /\ card' = card => LockHeld'
<1> SUFFICES ASSUME TxInv, TxNext, card' = card, NEW q \in Senders PROVE LockedAt(q)'
  BY DEF netVars, LockHeld
<1>1. TxTypeOK /\ \A p \in Senders : LockedAt(p)
  BY DEF TxInv, LockHeld
<1>2. /\ size \in [Senders -> Nat] /\ card \in {"i8254x", "rtl8169"}
      /\ NoOne \notin Senders /\ Lengths \in [Senders -> SUBSET Nat]
  BY <1>1, TxAssumption DEF TxTypeOK
<1>3. ASSUME NEW p \in Senders, NEW n \in Lengths[p], TxCall(p, n) PROVE LockedAt(q)'
  <2>1. busy' = busy /\ (q # p => size'[q] = size[q]) /\ Moves(p, "idle", "lock")
    BY <1>1, <1>2, <1>3, MovesTo DEF TxCall
  <2>2. size'[p] \in FrameLengths
    BY <1>2, <1>3 DEF TxCall, FrameLengths, MinFrame, MaxFrame
  <2>3. QED
    BY <1>1, <2>1, <2>2 DEF LockedAt, Moves
<1>4. ASSUME NEW p \in Senders, TxLock(p) PROVE LockedAt(q)'
  <2>1. busy = NoOne /\ busy' = p /\ size' = size /\ Moves(p, "lock", Begin)
    BY <1>1, <1>4, MovesTo DEF TxLock
  <2>2. QED
    BY <1>1, <1>2, <2>1 DEF LockedAt, Moves, Begin
<1>5. ASSUME NEW p \in Senders, TxAddress(p) \/ TxSize(p) PROVE LockedAt(q)'
  <2>1. /\ busy' = busy /\ size' = size
        /\ \/ Moves(p, "address", IF card = "i8254x" THEN "size" ELSE "own")
           \/ Moves(p, "size", IF card = "i8254x" THEN "head" ELSE "address")
    BY <1>1, <1>5, MovesTo DEF TxAddress, TxSize
  <2>2. QED
    BY <1>1, <1>2, <2>1 DEF LockedAt, Moves
<1>6. ASSUME NEW p \in Senders, i8254x_head(p) \/ i8254x_tail(p) \/ rtl8169_own(p) \/ rtl8169_sendloop(p)
      PROVE  LockedAt(q)'
  <2>1. /\ busy' = busy /\ size' = size
        /\ \/ Moves(p, "head", "tail") \/ Moves(p, "tail", "unlock")
           \/ Moves(p, "own", "wait") \/ Moves(p, "wait", "unlock")
    BY <1>1, <1>6, MovesTo DEF i8254x_head, i8254x_tail, rtl8169_own, rtl8169_sendloop, cardTx
  <2>2. QED
    BY <1>1, <1>2, <2>1 DEF LockedAt, Moves
<1>7. ASSUME NEW p \in Senders, TxUnlock(p) PROVE LockedAt(q)'
  <2>1. busy' = NoOne /\ (q # p => size'[q] = size[q]) /\ Moves(p, "unlock", "idle")
    BY <1>1, <1>2, <1>7, MovesTo DEF TxUnlock
  <2>2. QED
    BY <1>1, <1>2, <2>1 DEF LockedAt, Moves
<1>8. ASSUME UNCHANGED <<busy, at, size>> PROVE LockedAt(q)'
  BY <1>1, <1>8 DEF LockedAt
<1> QED
  BY <1>3, <1>4, <1>5, <1>6, <1>7, <1>8
     DEF TxNext, os_ethernet_tx, Driver, TxFail, TxSpin, CallbackBegins, CallbackReturns, CardReads, CardSends, txVars

LEMMA DescriptorStays == TxInv /\ TxNext /\ card' = card => DescriptorFilled'
<1> SUFFICES ASSUME TxInv, TxNext, card' = card, NEW q \in Senders PROVE FilledAt(q)'
  BY DEF netVars, DescriptorFilled
<1>1. TxTypeOK /\ \A p \in Senders : LockedAt(p) /\ FilledAt(p)
  BY DEF TxInv, LockHeld, DescriptorFilled
<1>2. /\ size \in [Senders -> Nat] /\ card \in {"i8254x", "rtl8169"}
      /\ td \in [whose : Holders, len : Nat]
  BY <1>1 DEF TxTypeOK
<1>3. ASSUME NEW p \in Senders, NEW n \in Lengths[p], TxCall(p, n) PROVE FilledAt(q)'
  <2>1. td' = td /\ (q # p => size'[q] = size[q]) /\ Moves(p, "idle", "lock")
    BY <1>1, <1>2, <1>3, MovesTo DEF TxCall, cardTx
  <2>2. QED
    BY <1>1, <2>1 DEF FilledAt, Moves
<1>4. ASSUME NEW p \in Senders, TxLock(p) PROVE FilledAt(q)'
  <2>1. td' = td /\ size' = size /\ Moves(p, "lock", Begin)
    BY <1>1, <1>4, MovesTo DEF TxLock, cardTx
  <2>2. QED
    BY <1>1, <1>2, <2>1 DEF FilledAt, Moves, Begin
<1>5. ASSUME NEW p \in Senders, TxAddress(p) PROVE FilledAt(q)'
  <2>1. /\ td'.whose = p /\ td'.len = td.len /\ size' = size
        /\ Moves(p, "address", IF card = "i8254x" THEN "size" ELSE "own")
    BY <1>1, <1>2, <1>5, MovesTo DEF TxAddress
  <2>2. QED
    BY <1>1, <1>2, <2>1 DEF LockedAt, FilledAt, Moves
<1>6. ASSUME NEW p \in Senders, TxSize(p) PROVE FilledAt(q)'
  <2>1. /\ td'.whose = td.whose /\ td'.len = size[p] /\ size' = size
        /\ Moves(p, "size", IF card = "i8254x" THEN "head" ELSE "address")
    BY <1>1, <1>2, <1>6, MovesTo DEF TxSize
  <2>2. QED
    BY <1>1, <1>2, <2>1 DEF LockedAt, FilledAt, Moves
<1>7. ASSUME NEW p \in Senders, i8254x_head(p) \/ i8254x_tail(p) \/ rtl8169_own(p) \/ rtl8169_sendloop(p)
      PROVE  FilledAt(q)'
  <2>1. /\ td' = td /\ size' = size
        /\ \/ Moves(p, "head", "tail") \/ Moves(p, "tail", "unlock")
           \/ Moves(p, "own", "wait") \/ Moves(p, "wait", "unlock")
    BY <1>1, <1>7, MovesTo DEF i8254x_head, i8254x_tail, rtl8169_own, rtl8169_sendloop, cardTx
  <2>2. QED
    BY <1>1, <1>2, <2>1 DEF LockedAt, FilledAt, Moves
<1>8. ASSUME NEW p \in Senders, TxUnlock(p) PROVE FilledAt(q)'
  <2>1. td' = td /\ (q # p => size'[q] = size[q]) /\ Moves(p, "unlock", "idle")
    BY <1>1, <1>2, <1>8, MovesTo DEF TxUnlock, cardTx
  <2>2. QED
    BY <1>1, <2>1 DEF FilledAt, Moves
<1>9. ASSUME UNCHANGED <<td, at, size>> PROVE FilledAt(q)'
  BY <1>1, <1>9 DEF FilledAt
<1> QED
  BY <1>3, <1>4, <1>5, <1>6, <1>7, <1>8, <1>9
     DEF TxNext, os_ethernet_tx, Driver, TxFail, TxSpin, CallbackBegins, CallbackReturns, CardReads, CardSends, txVars, cardTx

LEMMA CardKnowsStep == TxInv /\ TxNext /\ card' = card => CardKnows'
<1> SUFFICES ASSUME TxInv, TxNext, card' = card PROVE CardKnows'
  BY DEF netVars
<1>1. /\ TxTypeOK /\ CardKnows
      /\ \A p \in Senders : LockedAt(p) /\ FilledAt(p)
  BY DEF TxInv, LockHeld, DescriptorFilled
<1>2. /\ card \in {"i8254x", "rtl8169"} /\ TDH \in Nat /\ TDT \in {0, 1} /\ OWN \in BOOLEAN
      /\ td \in [whose : Holders, len : Nat] /\ careless \in BOOLEAN
      /\ NoOne \notin Senders
  BY <1>1, TxAssumption DEF TxTypeOK
<1>3. CASE UNCHANGED <<cardTx, busy, at, careless>>
  BY <1>1, <1>3 DEF CardKnows, cardTx
<1>4. ASSUME NEW p \in Senders, NEW n \in Lengths[p], TxCall(p, n) PROVE CardKnows'
  <2>1. Moves(p, "idle", "lock") /\ UNCHANGED <<busy, cardTx>>
    BY <1>1, <1>4, MovesTo DEF TxCall
  <2>2. card = "rtl8169" /\ OWN => td.whose = busy /\ busy # p
    BY <1>1, <2>1 DEF CardKnows, FilledAt, Moves
  <2>3. card = "rtl8169" => ~ careless'
    BY <1>1, <1>4, <2>2 DEF TxCall, CardKnows, CardBusy
  <2>4. QED
    BY <1>1, <2>1, <2>2, <2>3 DEF CardKnows, Moves, cardTx
<1>5. ASSUME NEW p \in Senders, TxLock(p) PROVE CardKnows'
  <2>1. busy = NoOne /\ UNCHANGED cardTx
    BY <1>5 DEF TxLock
  <2>2. card = "rtl8169" => ~ OWN
    BY <1>1, <1>2, <2>1 DEF CardKnows
  <2>3. card = "rtl8169" => ~ careless'
    BY <1>1, <1>5, <2>2 DEF TxLock, CardKnows, CardBusy
  <2>4. QED
    BY <1>1, <2>1, <2>2, <2>3 DEF CardKnows, cardTx
<1>6. ASSUME NEW p \in Senders, TxAddress(p) PROVE CardKnows'
  <2>1. /\ td'.whose = p /\ td'.len = td.len /\ UNCHANGED <<busy, TDH, TDT, OWN, sending, wire, careless>>
        /\ at[p] = "address"
    BY <1>2, <1>6 DEF TxAddress, Step
  <2>2. card = "rtl8169" => ~ OWN
    BY <1>1, <2>1 DEF CardKnows, LockedAt
  <2>3. QED
    BY <1>1, <2>1, <2>2 DEF CardKnows
<1>7. ASSUME NEW p \in Senders, TxSize(p) PROVE CardKnows'
  <2>1. /\ td'.whose = td.whose /\ td'.len = size[p] /\ UNCHANGED <<busy, TDH, TDT, OWN, sending, wire, careless>>
        /\ at[p] = "size"
    BY <1>2, <1>7 DEF TxSize, Step
  <2>2. card = "rtl8169" => ~ OWN
    BY <1>1, <2>1 DEF CardKnows, LockedAt
  <2>3. size[p] \in FrameLengths
    BY <1>1, <2>1 DEF LockedAt
  <2>4. QED
    BY <1>1, <2>1, <2>2, <2>3 DEF CardKnows
<1>8. ASSUME NEW p \in Senders, i8254x_head(p) PROVE CardKnows'
  <2>1. at[p] = "head" /\ TDH' = 0 /\ UNCHANGED <<busy, td, TDT, OWN, sending, wire, careless>>
    BY <1>8 DEF i8254x_head, Step
  <2>2. card = "i8254x"
    BY <1>1, <1>2, <2>1 DEF LockedAt
  <2>3. QED
    BY <1>1, <1>2, <2>1, <2>2 DEF CardKnows
<1>9. ASSUME NEW p \in Senders, i8254x_tail(p) PROVE CardKnows'
  <2>1. at[p] = "tail" /\ TDT' = 1 /\ UNCHANGED <<busy, td, TDH, OWN, sending, wire, careless>>
    BY <1>9 DEF i8254x_tail, Step
  <2>2. card = "i8254x" /\ td.whose = p /\ td.len \in FrameLengths
    BY <1>1, <1>2, <2>1 DEF LockedAt, FilledAt
  <2>3. QED
    BY <1>1, <1>2, <2>1, <2>2 DEF CardKnows
<1>10. ASSUME NEW p \in Senders, rtl8169_own(p) PROVE CardKnows'
  <2>1. at[p] = "own" /\ at'[p] = "wait" /\ OWN' /\ UNCHANGED <<busy, td, TDH, TDT, sending, wire, careless>>
    BY <1>1, <1>10, MovesTo DEF rtl8169_own, Moves
  <2>2. card = "rtl8169" /\ busy = p
    BY <1>1, <1>2, <2>1 DEF LockedAt
  <2>3. QED
    BY <1>1, <2>1, <2>2 DEF CardKnows
<1>11. ASSUME NEW p \in Senders, rtl8169_sendloop(p) \/ TxUnlock(p) PROVE CardKnows'
  <2>1. UNCHANGED <<cardTx, careless>> /\ (at[p] = "unlock" \/ (at[p] = "wait" /\ ~ OWN))
    BY <1>11 DEF rtl8169_sendloop, TxUnlock, Step
  <2>2. card = "rtl8169" => ~ OWN
    BY <1>1, <2>1 DEF CardKnows, LockedAt
  <2>3. QED
    BY <1>1, <2>1, <2>2 DEF CardKnows, cardTx
<1>12. CASE CardReads
  <2>1. CardBusy /\ sending' = td /\ UNCHANGED <<busy, at, td, TDH, TDT, OWN, wire, careless>>
    BY <1>12 DEF CardReads
  <2>2. CASE card = "i8254x"
    BY <1>1, <1>2, <2>1, <2>2 DEF CardKnows, CardBusy
  <2>3. CASE card = "rtl8169"
    <3>1. OWN /\ busy \in Senders /\ at[busy] = "wait"
      BY <1>1, <2>1, <2>3 DEF CardBusy, CardKnows
    <3>2. td.whose = busy /\ td.len = size[busy] /\ size[busy] \in FrameLengths
      BY <1>1, <2>3, <3>1 DEF LockedAt, FilledAt
    <3>3. QED
      BY <1>1, <2>1, <2>3, <3>1, <3>2 DEF CardKnows
  <2>4. QED
    BY <1>2, <2>2, <2>3
<1>13. CASE CardSends
  <2>1. /\ sending # Empty /\ sending' = Empty /\ UNCHANGED <<busy, at, td, TDT, careless>>
        /\ wire' = Append(wire, Frame(content[sending.whose], sending.len))
        /\ card = "i8254x" => TDH' = TDH + 1
        /\ card = "rtl8169" => ~ OWN'
    BY <1>13 DEF CardSends
  <2>2. sending.whose \in Senders /\ sending.len \in FrameLengths
    BY <1>1, <2>1 DEF CardKnows
  <2>3. \A n \in 1 .. Len(wire') : wire'[n].len \in FrameLengths
    <3>1. Frame(content[sending.whose], sending.len) \in [data : Nat, len : Nat]
      BY <1>1, <2>2 DEF TxTypeOK, Frame
    <3>2. Frame(content[sending.whose], sending.len).len \in FrameLengths
      BY <2>2 DEF Frame
    <3>3. /\ Len(wire') = Len(wire) + 1 /\ Len(wire) \in Nat
          /\ \A n \in 1 .. Len(wire) : wire'[n] = wire[n]
          /\ wire'[Len(wire) + 1] = Frame(content[sending.whose], sending.len)
      BY <1>1, <2>1, <3>1, AppendProperties, LenProperties DEF TxTypeOK
    <3>4. \A n \in 1 .. Len(wire') : n \in 1 .. Len(wire) \/ n = Len(wire) + 1
      BY <3>3
    <3>5. QED
      BY <1>1, <3>2, <3>3, <3>4 DEF CardKnows
  <2>4. QED
    BY <1>1, <1>2, <2>1, <2>3 DEF CardKnows
<1> QED
  BY <1>3, <1>4, <1>5, <1>6, <1>7, <1>8, <1>9, <1>10, <1>11, <1>12, <1>13
     DEF TxNext, os_ethernet_tx, Driver, TxFail, TxSpin, CallbackBegins, CallbackReturns, txVars

LEMMA OneAheadStep == TxInv /\ TxNext /\ card' = card => OneAhead'
<1> SUFFICES ASSUME TxInv, TxNext, card' = card, ~ careless' PROVE OneAhead'
  BY DEF netVars, OneAhead
<1>1. /\ TxTypeOK /\ CardKnows
      /\ \A p \in Senders : LockedAt(p) /\ FilledAt(p)
  BY DEF TxInv, LockHeld, DescriptorFilled
<1>2. /\ card \in {"i8254x", "rtl8169"} /\ TDH \in Nat /\ TDT \in {0, 1} /\ OWN \in BOOLEAN
      /\ td \in [whose : Holders, len : Nat] /\ sending \in [whose : Holders, len : Nat]
      /\ busy \in Holders /\ NoOne \notin Senders
      /\ size \in [Senders -> Nat] /\ content \in [Senders -> Nat]
  BY <1>1, TxAssumption DEF TxTypeOK
<1>3. ~ careless /\ OneAhead
  <2>1. careless \in BOOLEAN
    BY <1>1 DEF TxTypeOK
  <2>2. ASSUME NEW p \in Senders, NEW n \in Lengths[p], TxCall(p, n) PROVE ~ careless
    BY <2>1, <2>2 DEF TxCall
  <2>3. ASSUME careless' = careless PROVE ~ careless
    BY <2>3
  <2>4. \/ careless' = careless
        \/ \E p \in Senders : TxLock(p) \/ \E n \in Lengths[p] : TxCall(p, n)
    BY DEF TxNext, os_ethernet_tx, Driver, TxFail, TxSpin, TxAddress, TxSize, i8254x_head, i8254x_tail,
           rtl8169_own, rtl8169_sendloop, TxUnlock, CallbackBegins, CallbackReturns, CardReads, CardSends, txVars
  <2>5. ASSUME NEW p \in Senders, TxLock(p) PROVE ~ careless
    BY <2>1, <2>5 DEF TxLock
  <2>6. ~ careless
    BY <2>2, <2>3, <2>4, <2>5
  <2>7. QED
    BY <2>6 DEF TxInv
<1>4. CASE UNCHANGED <<cardTx, busy, at, size, content, given>>
  BY <1>3, <1>4 DEF OneAhead, Pending, CardBusy, cardTx
<1>5. ASSUME NEW p \in Senders, NEW n \in Lengths[p], TxCall(p, n) PROVE OneAhead'
  <2>1. /\ Moves(p, "idle", "lock") /\ UNCHANGED <<busy, cardTx, given>>
        /\ ~ (CardBusy /\ td.whose = p)
        /\ \A q \in Senders : q # p => size'[q] = size[q] /\ content'[q] = content[q]
    BY <1>1, <1>2, <1>5, MovesTo DEF TxCall
  <2>2. busy # p
    BY <1>1, <2>1 DEF LockedAt, Moves
  <2>3. busy # NoOne => at'[busy] = at[busy] /\ size'[busy] = size[busy] /\ content'[busy] = content[busy]
    BY <1>2, <2>1, <2>2 DEF Moves, Holders
  <2>4. Pending' = Pending /\ CardBusy' = CardBusy
    BY <2>1, <2>3 DEF Pending, CardBusy, cardTx
  <2>5. CardBusy => td.whose \in Senders
    BY <1>1, <1>2 DEF CardBusy, CardKnows, FilledAt
  <2>6. CardBusy => content'[td.whose] = content[td.whose]
    BY <2>1, <2>5
  <2>7. Pending => busy # NoOne
    BY DEF Pending
  <2>8. QED
    BY <1>3, <2>1, <2>3, <2>4, <2>6, <2>7 DEF OneAhead, cardTx
<1>6. ASSUME NEW p \in Senders, TxLock(p) PROVE OneAhead'
  <2>1. /\ busy = NoOne /\ busy' = p /\ Moves(p, "lock", Begin) /\ ~ CardBusy
        /\ given' = Append(given, Frame(content[p], size[p])) /\ UNCHANGED <<cardTx, size, content>>
    BY <1>1, <1>6, MovesTo DEF TxLock
  <2>2. given = wire /\ sending = Empty
    BY <1>3, <2>1 DEF OneAhead, Pending
  <2>3. Pending' /\ ~ CardBusy'
    BY <1>2, <2>1 DEF Pending, Moves, Begin, CardBusy, cardTx
  <2>4. QED
    BY <2>1, <2>2, <2>3 DEF OneAhead, cardTx
<1>7. ASSUME NEW p \in Senders, TxAddress(p) \/ TxSize(p) PROVE OneAhead'
  <2>1. /\ at[p] \in {"address", "size"} /\ at'[p] \in {"address", "size", "head", "own"}
        /\ UNCHANGED <<busy, TDH, TDT, OWN, sending, wire, given, content, size>>
    BY <1>1, <1>7, MovesTo DEF TxAddress, TxSize, Moves
  <2>2. busy = p
    BY <1>1, <2>1 DEF LockedAt
  <2>3. Pending /\ Pending' /\ CardBusy' = CardBusy
    BY <1>2, <2>1, <2>2 DEF Pending, CardBusy
  <2>4. QED
    BY <1>3, <2>1, <2>2, <2>3 DEF OneAhead
<1>8. ASSUME NEW p \in Senders, i8254x_head(p) PROVE OneAhead'
  <2>1. /\ at[p] = "head" /\ at'[p] = "tail" /\ TDH' = 0
        /\ UNCHANGED <<busy, td, TDT, OWN, sending, wire, given, content, size>>
    BY <1>1, <1>8, MovesTo DEF i8254x_head, Moves
  <2>2. card = "i8254x" /\ busy = p /\ td.whose = p /\ td.len = size[p]
    BY <1>1, <1>2, <2>1 DEF LockedAt, FilledAt
  <2>3. Pending /\ (Pending' <=> TDT = 0) /\ (CardBusy' <=> TDT # 0)
    BY <1>2, <2>1, <2>2 DEF Pending, CardBusy
  <2>4. sending = Empty /\ given = Append(wire, Frame(content[p], size[p]))
    BY <1>3, <2>2, <2>3 DEF OneAhead
  <2>5. QED
    BY <1>2, <2>1, <2>2, <2>3, <2>4 DEF OneAhead
<1>9. ASSUME NEW p \in Senders, i8254x_tail(p) PROVE OneAhead'
  <2>1. /\ at[p] = "tail" /\ at'[p] = "unlock" /\ TDT' = 1
        /\ UNCHANGED <<busy, td, TDH, OWN, sending, wire, given, content, size>>
    BY <1>1, <1>9, MovesTo DEF i8254x_tail, Moves
  <2>2. card = "i8254x" /\ busy = p /\ td.whose = p /\ td.len = size[p]
    BY <1>1, <1>2, <2>1 DEF LockedAt, FilledAt
  <2>3. ~ Pending'
    BY <2>1, <2>2 DEF Pending
  <2>4. CASE TDT = 0
    <3>1. Pending /\ TDH = 0 /\ CardBusy'
      BY <1>1, <1>2, <2>1, <2>2, <2>4 DEF Pending, CardBusy, CardKnows
    <3>2. sending = Empty /\ given = Append(wire, Frame(content[p], size[p]))
      BY <1>3, <2>2, <3>1 DEF OneAhead
    <3>3. QED
      BY <2>1, <2>2, <2>3, <3>1, <3>2 DEF OneAhead
  <2>5. CASE TDT = 1
    <3>1. ~ Pending /\ CardBusy' = CardBusy
      BY <1>2, <2>1, <2>2, <2>5 DEF Pending, CardBusy
    <3>2. QED
      BY <1>3, <2>1, <2>3, <3>1 DEF OneAhead
  <2>6. QED
    BY <1>2, <2>4, <2>5
<1>10. ASSUME NEW p \in Senders, rtl8169_own(p) PROVE OneAhead'
  <2>1. /\ at[p] = "own" /\ at'[p] = "wait" /\ OWN'
        /\ UNCHANGED <<busy, td, TDH, TDT, sending, wire, given, content, size>>
    BY <1>1, <1>10, MovesTo DEF rtl8169_own, Moves
  <2>2. card = "rtl8169" /\ busy = p /\ td.whose = p /\ td.len = size[p]
    BY <1>1, <1>2, <2>1 DEF LockedAt, FilledAt
  <2>3. Pending /\ ~ Pending' /\ CardBusy'
    BY <1>2, <2>1, <2>2 DEF Pending, CardBusy
  <2>4. sending = Empty /\ given = Append(wire, Frame(content[p], size[p]))
    BY <1>3, <2>2, <2>3 DEF OneAhead
  <2>5. QED
    BY <2>1, <2>2, <2>3, <2>4 DEF OneAhead
<1>11. ASSUME NEW p \in Senders, rtl8169_sendloop(p) \/ TxUnlock(p) PROVE OneAhead'
  <2>1. /\ at[p] \in {"wait", "unlock"} /\ at'[p] \in {"unlock", "idle"} /\ UNCHANGED <<cardTx, given, content>>
        /\ busy' \in {busy, NoOne}
    BY <1>1, <1>11, MovesTo DEF rtl8169_sendloop, TxUnlock, Moves
  <2>2. busy = p
    BY <1>1, <2>1 DEF LockedAt
  <2>3. ~ Pending /\ ~ Pending' /\ CardBusy' = CardBusy
    BY <1>2, <2>1, <2>2 DEF Pending, CardBusy, cardTx
  <2>4. QED
    BY <1>3, <2>1, <2>3 DEF OneAhead, cardTx
<1>12. CASE CardReads
  <2>1. /\ CardBusy /\ sending' = td
        /\ UNCHANGED <<busy, at, td, TDH, TDT, OWN, wire, given, content, size>>
    BY <1>12 DEF CardReads
  <2>2. Pending' = Pending /\ CardBusy' = CardBusy
    BY <2>1 DEF Pending, CardBusy
  <2>3. QED
    BY <1>3, <2>1, <2>2 DEF OneAhead
<1>13. CASE CardSends
  <2>1. /\ sending # Empty /\ sending' = Empty /\ UNCHANGED <<busy, at, td, TDT, given, content, size>>
        /\ wire' = Append(wire, Frame(content[sending.whose], sending.len))
        /\ card = "i8254x" => TDH' = TDH + 1
        /\ card = "rtl8169" => ~ OWN'
    BY <1>13 DEF CardSends
  <2>2. ~ Pending /\ CardBusy /\ sending = td /\ given = Append(wire, Frame(content[td.whose], td.len))
    BY <1>3, <2>1 DEF OneAhead
  <2>3. ~ Pending'
    BY <2>1, <2>2 DEF Pending
  <2>4. ~ CardBusy'
    BY <1>1, <1>2, <2>1 DEF CardBusy, CardKnows
  <2>5. QED
    BY <2>1, <2>2, <2>3, <2>4 DEF OneAhead
<1> QED
  BY <1>4, <1>5, <1>6, <1>7, <1>8, <1>9, <1>10, <1>11, <1>12, <1>13
     DEF TxNext, os_ethernet_tx, Driver, TxFail, TxSpin, CallbackBegins, CallbackReturns, txVars

\* A step of the two sides together is one that senders, callback and card may take, or none of theirs,
\* and it is one of receiving, or none: the end of a transmission is CardHasSent.
LEMMA EthernetSteps ==
  [EthernetNext]_<<netVars, txVars>> =>
    /\ TxNext \/ UNCHANGED txVars
    /\ [NetNext]_netVars
    /\ card' = card
<1> SUFFICES ASSUME [EthernetNext]_<<netVars, txVars>>
             PROVE  (TxNext \/ UNCHANGED txVars) /\ [NetNext]_netVars
  BY CardStays
<1>1. CASE (Arrive \/ CardStores \/ Handler) /\ UNCHANGED txVars
  BY <1>1 DEF NetNext
<1>2. ASSUME NEW p \in Programs, os_ethernet_rx(p), UNCHANGED txVars
      PROVE  (TxNext \/ UNCHANGED txVars) /\ [NetNext]_netVars
  BY <1>2 DEF NetNext
<1>3. ASSUME NEW p \in Senders, os_ethernet_tx(p), UNCHANGED netVars
      PROVE  (TxNext \/ UNCHANGED txVars) /\ [NetNext]_netVars
  BY <1>3 DEF TxNext
<1>4. CASE (CallbackBegins \/ CallbackReturns \/ CardReads) /\ UNCHANGED netVars
  BY <1>4 DEF TxNext
<1>5. CASE CardSends /\ CardHasSent
  BY <1>5 DEF TxNext, NetNext
<1>6. CASE UNCHANGED <<netVars, txVars>>
  BY <1>6
<1> QED
  BY <1>1, <1>2, <1>3, <1>4, <1>5, <1>6 DEF EthernetNext

LEMMA TxStepInv == TxInv /\ [EthernetNext]_<<netVars, txVars>> => TxInv'
<1> SUFFICES ASSUME TxInv, [EthernetNext]_<<netVars, txVars>> PROVE TxInv'
  OBVIOUS
<1>1. CASE TxNext /\ card' = card
  BY <1>1, TxTypeStep, LockStep, DescriptorStays, CardKnowsStep, OneAheadStep DEF TxInv
<1>2. CASE UNCHANGED txVars /\ card' = card
  <2>1. UNCHANGED <<busy, at, size, content, td, TDH, TDT, OWN, sending, calls, given, wire, careless>>
    BY <1>2 DEF txVars, cardTx
  <2>2. QED
    BY <1>2, <2>1
       DEF TxInv, TxTypeOK, LockHeld, LockedAt, DescriptorFilled, FilledAt, CardKnows, OneAhead, Pending, CardBusy
<1> QED
  BY <1>1, <1>2, EthernetSteps

\* The invariant of sending holds always, in whatever order senders and card act.
THEOREM TxInvariant == EthernetSpec => []TxInv
<1>1. QED
  BY TxInitInv, TxStepInv, PTL DEF EthernetSpec

\* What is on the wire is what os_ethernet_tx has accepted, each packet whole, once, in order and
\* with its length, as long as no sender makes a packet or takes the lock while the card is at
\* work; with the RTL8169, whose driver waits in its sendloop, none can.  No frame is too short
\* or too long.
THEOREM SentCorrectly == EthernetSpec => []SentAsGiven
<1>1. TxInv => SentAsGiven
  <2> SUFFICES ASSUME TxInv PROVE SentAsGiven
    OBVIOUS
  <2>1. /\ TxTypeOK /\ CardKnows /\ OneAhead /\ NoOne \notin Senders
        /\ \A p \in Senders : LockedAt(p) /\ FilledAt(p)
    BY TxAssumption DEF TxInv, LockHeld, DescriptorFilled
  <2>2. wire \in Seq([data : Nat, len : Nat]) /\ given \in Seq([data : Nat, len : Nat])
    BY <2>1 DEF TxTypeOK
  <2>3. ASSUME ~ careless PROVE IsPrefix(wire, given)
    <3>1. PICK frame : given = wire \/ given = Append(wire, frame)
      BY <2>1, <2>3 DEF OneAhead
    <3>2. Len(wire) \in Nat /\ SubSeq(wire, 1, Len(wire)) = wire
      BY <2>2, LenProperties, SubSeqFull
    <3>3. CASE given = wire
      BY <3>2, <3>3 DEF IsPrefix
    <3>4. CASE given = Append(wire, frame)
      <4>1. Len(given) = Len(wire) + 1 /\ SubSeq(given, 1, Len(wire)) = wire
        BY <2>2, <3>2, <3>4
      <4>2. QED
        BY <3>2, <4>1 DEF IsPrefix
    <3>5. QED
      BY <3>1, <3>3, <3>4
  <2>4. ~ careless /\ busy = NoOne /\ ~ CardBusy => wire = given
    BY <2>1 DEF OneAhead, Pending
  <2>5. card = "rtl8169" => ~ careless /\ (busy = NoOne => ~ CardBusy)
    BY <2>1 DEF CardKnows, CardBusy
  <2>6. \A n \in DOMAIN wire : wire[n].len \in MinFrame .. MaxFrame
    BY <2>1, <2>2, LenProperties DEF CardKnows, FrameLengths
  <2>7. QED
    BY <2>3, <2>4, <2>5, <2>6 DEF SentAsGiven
<1> QED
  BY <1>1, TxInvariant, PTL

-----------------------------------------------------------------------------
(* Receiving, in the specification that both sides are part of.            *)

LEMMA ReceivingIsNetSpec == EthernetSpec => NetSpec
<1>1. EthernetInit => NetInit
  BY DEF EthernetInit
<1>2. [EthernetNext]_<<netVars, txVars>> => [NetNext]_netVars
  BY EthernetSteps
<1> QED
  BY <1>1, <1>2, PTL DEF EthernetSpec, NetSpec

\* What is proved of receiving alone holds while packets are sent at the same time: with causes of
\* transmissions among those of receiving, with a program on the BSP stopped by a callback that
\* sends, and with programs that send and receive in turn, a packet that is handed up is whole, once
\* and in order, and what a program is told of, it is told of once.
THEOREM ReceivingCorrect ==
  EthernetSpec => [](HandedUp /\ WholeUnlessDisturbed /\ NeverOlder /\ ToldOnce)
BY ReceivingIsNetSpec, EverythingHandedUp, WholePackets, NothingOlder, ToldInOrder, PTL

=============================================================================
