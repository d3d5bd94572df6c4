--------------------------- MODULE EthUartProofs ---------------------------
(***************************************************************************)
(* Theorems about EthUart for every number and size of buffers and every   *)
(* number of packets and bytes.                                            *)
(***************************************************************************)
EXTENDS EthUart, SequenceTheorems, TLAPS

(***************************************************************************)
(* The inductive invariant.  In the parts about the ring, First is the   *)
(* number of the packet before the one at tx_read.                         *)
(***************************************************************************)
Used  == Num - remain
First == delivered - SentNotFreed

Holding == pc \in {"lockLoad", "lockStore", "publish", "take"}
Locked  == pc \in {"publish", "take", "unlock"}

(* A packet is held on its way into the ring, and the lock is held. *)
LoopInv ==
  /\ tcie = ~Locked
  /\ Holding => remain > 0 /\ len \in 1 .. MaxLen
  /\ pc = "take" => old = remain

(* Where the ring begins and ends, and what its slots hold. *)
RingInv ==
  /\ txWrite = IF pc = "take" THEN After(SlotAt(Used)) ELSE SlotAt(Used)
  /\ accepted = First + Used + IF Holding THEN 1 ELSE 0
  /\ \A i \in Slots : i < Used =>
       txBuf[SlotAt(i)] = [num |-> First + i + 1, len |-> txLen[SlotAt(i)]]
  /\ \A i \in Slots : i < Used => txLen[SlotAt(i)] \in 1 .. MaxLen
  /\ Holding => txBuf[SlotAt(Used)] = [num |-> accepted, len |-> len]
  /\ pc = "take" => txLen[SlotAt(Used)] = len

(* How far the packet at tx_read has got. *)
DmaInv ==
  /\ state = "IDLE" => cntr = 0 /\ ~tc
  /\ cntr = 0 => out = 0
  /\ tc => cntr = 0 /\ Used > 0
  /\ cntr > 0 => /\ state = "BUSY" /\ maddr = txRead /\ Used > 0
                 /\ cntr + out = txLen[txRead]

(* What channel 6 has stored and the socket has not. *)
CellFrom(c, i) == IF c + i >= Size THEN c + i - Size ELSE c + i
Waiting == rcvd - sent
RxInv ==
  /\ pc = "send" => len <= last
  /\ ~overrun =>
       /\ Waiting \in 0 .. Size - 1
       /\ count = IF last > Waiting THEN last - Waiting ELSE last - Waiting + Size
       /\ pc = "send" => len <= Waiting
       /\ \A j \in 0 .. Size - 1 : j < Waiting =>
            rxBuf[CellFrom(Size - last, j)] = sent + j + 1

(* TypeOK in two parts, that each take a prover of their own. *)
Booleans ==
  /\ en \in BOOLEAN /\ tcie \in BOOLEAN /\ tc \in BOOLEAN
  /\ valid \in BOOLEAN /\ sock \in BOOLEAN /\ torn \in BOOLEAN /\ overrun \in BOOLEAN
Others ==
  /\ txBuf \in [Slots -> Packets] /\ txLen \in [Slots -> 0 .. MaxLen]
  /\ txRead \in Slots /\ txWrite \in Slots /\ maddr \in Slots
  /\ remain \in 0 .. Num /\ state \in {"IDLE", "BUSY"}
  /\ cntr \in 0 .. MaxLen /\ out \in 0 .. MaxLen
  /\ rxBuf \in [0 .. Size - 1 -> Nat]
  /\ count \in 1 .. Size /\ last \in 1 .. Size
  /\ pc \in {"head", "lockLoad", "lockStore", "publish", "take", "unlock", "ethTx",
             "ethEnable", "events", "mainTx", "mainEnable", "poll", "send"}
  /\ len \in Nat /\ old \in Nat
  /\ rcvd \in 0 .. MaxBytes /\ sent \in Nat
  /\ accepted \in 0 .. MaxPackets /\ delivered \in 0 .. MaxPackets

LEMMA TypeParts == TypeOK <=> Booleans /\ Others
BY DEF TypeOK, Booleans, Others

IInv == TypeOK /\ LoopInv /\ RingInv /\ DmaInv /\ RxInv
----------------------------------------------------------------------------
LEMMA Sizes ==
  /\ Num \in Nat /\ Num > 0 /\ MaxLen \in Nat /\ MaxLen > 0
  /\ Size \in Nat /\ Size > 0 /\ MaxPackets \in Nat /\ MaxBytes \in Nat
BY SizesAssumption

(* A slot number is stepped, and the slots of a ring are distinct. *)
LEMMA SlotStep ==
  ASSUME NEW s \in Slots, NEW i \in Slots
  PROVE  /\ After(s) \in Slots
         /\ SlotFrom(s, i) \in Slots
         /\ SlotFrom(s, i + 1) = After(SlotFrom(s, i))
         /\ SlotFrom(After(s), i) = SlotFrom(s, i + 1)
         /\ SlotFrom(s, 0) = s
         /\ SlotFrom(s, Num) = s
BY Sizes DEF Slots, After, SlotFrom

LEMMA SlotDistinct ==
  ASSUME NEW s \in Slots, NEW i \in Slots, NEW j \in Slots, i # j
  PROVE  SlotFrom(s, i) # SlotFrom(s, j)
BY Sizes DEF Slots, SlotFrom

(* The same of the cells of the receive buffer. *)
LEMMA CellDistinct ==
  ASSUME NEW c \in 0 .. Size - 1, NEW i \in 0 .. Size - 1, NEW j \in 0 .. Size - 1,
         i # j
  PROVE  CellFrom(c, i) # CellFrom(c, j) /\ CellFrom(c, i) \in 0 .. Size - 1
BY Sizes DEF CellFrom
----------------------------------------------------------------------------
LEMMA InvInit == Init => IInv
<1>. SUFFICES ASSUME Init PROVE IInv
  OBVIOUS
<1>. USE Sizes
<1>1. TypeOK
  <2>1. Empty \in Packets /\ 0 \in 0 .. MaxLen /\ 0 \in Slots
    BY DEF Empty, Packets, Slots
  <2>2. /\ [s \in Slots |-> Empty] \in [Slots -> Packets]
        /\ [s \in Slots |-> 0] \in [Slots -> 0 .. MaxLen]
        /\ [c \in 0 .. Size - 1 |-> 0] \in [0 .. Size - 1 -> Nat]
    BY <2>1
  <2>3. Booleans
    BY Zenon DEF Init, Booleans
  <2>4. Others
    BY <2>1, <2>2 DEF Init, Others
  <2>. QED  BY <2>3, <2>4, TypeParts
<1>2. LoopInv
  BY DEF Init, LoopInv, Locked, Holding
<1>3. RingInv
  <2>1. Used = 0 /\ 0 \in Slots
    BY DEF Init, Used, Slots
  <2>2. SentNotFreed = 0
    BY Zenon DEF Init, SentNotFreed
  <2>3. First = 0
    BY <2>2 DEF Init, First
  <2>4. ~Holding /\ pc # "take"
    BY DEF Init, Holding
  <2>5. SlotAt(0) = 0
    BY DEF Init, SlotAt, SlotFrom
  <2>6. txWrite = 0 /\ accepted = 0
    BY DEF Init
  <2>7. \A i \in Slots : ~(i < Used)
    BY <2>1 DEF Slots
  <2>. QED  BY <2>1, <2>3, <2>4, <2>5, <2>6, <2>7 DEF RingInv
<1>4. DmaInv
  BY DEF Init, DmaInv
<1>5. RxInv
  <2>1. Waiting = 0
    BY DEF Init, Waiting
  <2>. QED  BY <2>1 DEF Init, RxInv
<1>. QED  BY <1>1, <1>2, <1>3, <1>4, <1>5 DEF IInv
----------------------------------------------------------------------------
(***************************************************************************)
(* Types.                                                                  *)
(***************************************************************************)
LEMMA BooleansStep == TypeOK /\ [Next]_vars => Booleans'
<1>. SUFFICES ASSUME Booleans, [Next]_vars PROVE Booleans'
  BY TypeParts
<1>1. CASE DmaByte
  BY <1>1, Zenon DEF DmaByte, Booleans, rxVars, linkVars
<1>2. CASE DmaRx
  BY <1>2, Zenon DEF DmaRx, Booleans, dmaVars, linkVars, txHist
<1>3. CASE TcIsr
  BY <1>3, Zenon DEF TcIsr, Booleans, rxVars, linkVars, txHist
<1>4. CASE RecvPacket
  BY <1>4, Zenon DEF RecvPacket, Booleans, dmaVars, rxVars, linkVars
<1>5. CASE NoPacket \/ LockLoad \/ Publish \/ TakeSlot
  BY <1>5, Zenon DEF NoPacket, LockLoad, Publish, TakeSlot, Booleans, dmaVars, rxVars, linkVars, txHist
<1>6. CASE LockStore
  BY <1>6, Zenon DEF LockStore, Booleans, rxVars, linkVars
<1>7. CASE Unlock
  BY <1>7, Zenon DEF Unlock, Booleans, rxVars, linkVars, txHist
<1>8. CASE UartTx
  BY <1>8, Zenon DEF UartTx, TxIdle, TxProgram, TxEnable, Booleans, dmaVars, rxVars, linkVars, txHist
<1>9. CASE SockEvents
  BY <1>9, Zenon DEF SockEvents, Booleans, dmaVars, rxVars, linkVars, txHist
<1>10. CASE Rx
  BY <1>10, Zenon DEF Rx, RxPoll, RxSend, Booleans, dmaVars, rxVars, linkVars, txHist
<1>11. CASE UNCHANGED vars
  BY <1>11, Zenon DEF vars, Booleans, dmaVars, rxVars, linkVars, txHist
<1>. QED  BY <1>1, <1>2, <1>3, <1>4, <1>5, <1>6, <1>7, <1>8, <1>9, <1>10, <1>11
          DEF Next, MainLoop, EthRx

LEMMA OthersStep == IInv /\ [Next]_vars => Others'
<1>. SUFFICES ASSUME IInv, [Next]_vars PROVE Others'
  OBVIOUS
<1>. USE Sizes
<1>a. Others
  BY TypeParts DEF IInv
<1>. USE <1>a
<1>1. CASE DmaByte
  <2>1. txBuf[maddr].num \in 0 .. MaxPackets
    BY DEF Others, Packets
  <2>2. cntr > 1 => out + 1 \in 0 .. MaxLen
    BY DEF IInv, DmaInv, Others
  <2>. QED  BY <1>1, <2>1, <2>2 DEF DmaByte, Others, ringVars, rxVars, loopVars, linkVars
<1>2. CASE DmaRx
  BY <1>2 DEF DmaRx, Others, ringVars, dmaVars, loopVars, linkVars, txHist
<1>3. CASE TcIsr
  <2>1. remain + 1 \in 0 .. Num
    BY <1>3 DEF TcIsr, IInv, DmaInv, Used, Others
  <2>2. After(txRead) \in Slots
    BY DEF Others, After, Slots
  <2>. QED  BY <1>3, <2>1, <2>2 DEF TcIsr, Others, rxVars, loopVars, linkVars, txHist
<1>4. CASE RecvPacket
  <2>1. txBuf' \in [Slots -> Packets] /\ len' \in Nat /\ accepted' \in 0 .. MaxPackets
    <3>1. CASE UNCHANGED <<txBuf, len, accepted>>
      BY <3>1 DEF Others
    <3>2. CASE /\ accepted < MaxPackets /\ accepted' = accepted + 1
               /\ \E n \in 1 .. MaxLen :
                    /\ len' = n
                    /\ txBuf' = [txBuf EXCEPT ![txWrite] = [num |-> accepted + 1, len |-> n]]
      <4>1. PICK n \in 1 .. MaxLen :
                    /\ len' = n
                    /\ txBuf' = [txBuf EXCEPT ![txWrite] = [num |-> accepted + 1, len |-> n]]
        BY <3>2
      <4>2. [num |-> accepted + 1, len |-> n] \in Packets
        BY <3>2 DEF Others, Packets
      <4>. QED  BY <3>2, <4>1, <4>2 DEF Others
    <3>. QED  BY <1>4, <3>1, <3>2 DEF RecvPacket
  <2>. QED  BY <1>4, <2>1 DEF RecvPacket, Others, dmaVars, rxVars, linkVars
<1>5. CASE NoPacket
  BY <1>5 DEF NoPacket, Others, ringVars, dmaVars, rxVars, linkVars, txHist
<1>6. CASE LockLoad
  BY <1>6 DEF LockLoad, Others, ringVars, dmaVars, rxVars, linkVars, txHist
<1>7. CASE LockStore
  BY <1>7 DEF LockStore, Others, ringVars, rxVars, linkVars
<1>8. CASE Publish
  <2>1. len \in 0 .. MaxLen
    BY <1>8 DEF Publish, IInv, LoopInv, Holding
  <2>2. After(txWrite) \in Slots
    BY DEF Others, After, Slots
  <2>. QED  BY <1>8, <2>1, <2>2 DEF Publish, Others, dmaVars, rxVars, linkVars, txHist
<1>9. CASE TakeSlot
  <2>1. old - 1 \in 0 .. Num
    BY <1>9 DEF TakeSlot, IInv, LoopInv, Holding, Others
  <2>. QED  BY <1>9, <2>1 DEF TakeSlot, Others, dmaVars, rxVars, linkVars, txHist
<1>10. CASE Unlock
  BY <1>10 DEF Unlock, Others, ringVars, rxVars, linkVars, txHist
<1>11. CASE TxIdle
  BY <1>11 DEF TxIdle, TxDone, Others, ringVars, dmaVars, rxVars, linkVars, txHist
<1>12. CASE TxProgram
  BY <1>12 DEF TxProgram, Others, rxVars, linkVars, txHist
<1>13. CASE TxEnable
  BY <1>13 DEF TxEnable, TxDone, Others, ringVars, rxVars, linkVars, txHist
<1>14. CASE SockEvents
  BY <1>14 DEF SockEvents, Others, ringVars, dmaVars, rxVars, txHist
<1>15. CASE RxPoll
  BY <1>15 DEF RxPoll, ToSend, Others, ringVars, dmaVars, rxVars, linkVars, txHist
<1>16. ASSUME NEW k \in 0 .. Size, RxSend(k) PROVE Others'
  <2>1. k <= len /\ len <= last /\ k \in Nat
    BY <1>16 DEF RxSend, IInv, RxInv, Others
  <2>. QED  BY <1>16, <2>1 DEF RxSend, Others, ringVars, dmaVars, linkVars, txHist
<1>17. CASE UNCHANGED vars
  BY <1>17 DEF vars, Others, ringVars, dmaVars, rxVars, loopVars, linkVars, txHist
<1>. QED  BY <1>1, <1>2, <1>3, <1>4, <1>5, <1>6, <1>7, <1>8, <1>9, <1>10, <1>11, <1>12,
             <1>13, <1>14, <1>15, <1>16, <1>17
          DEF Next, MainLoop, EthRx, UartTx, Rx
----------------------------------------------------------------------------
(***************************************************************************)
(* The main loop and the lock.                                             *)
(***************************************************************************)
LEMMA LoopStep == IInv /\ [Next]_vars => LoopInv'
<1>. SUFFICES ASSUME IInv, [Next]_vars PROVE LoopInv'
  OBVIOUS
<1>a. LoopInv /\ Others /\ Booleans
  BY TypeParts DEF IInv
<1>. USE Sizes, <1>a DEF LoopInv, Holding, Locked
<1>1. CASE DmaByte
  BY <1>1 DEF DmaByte, ringVars, loopVars
<1>2. CASE DmaRx
  BY <1>2 DEF DmaRx, ringVars, dmaVars, loopVars
<1>3. CASE TcIsr
  <2>1. ~Locked /\ UNCHANGED <<pc, tcie, len>>
    BY <1>3, Zenon DEF TcIsr, loopVars
  <2>2. tcie' = ~Locked'
    BY <2>1, Zenon
  <2>3. pc # "take" /\ remain \in Nat /\ remain' = remain + 1
    BY <1>3, <2>1 DEF TcIsr, Others
  <2>. QED  BY <2>1, <2>2, <2>3
<1>4. CASE RecvPacket
  BY <1>4 DEF RecvPacket, dmaVars, Others
<1>5. CASE NoPacket \/ LockLoad
  BY <1>5 DEF NoPacket, LockLoad, ringVars, dmaVars
<1>6. CASE LockStore
  BY <1>6 DEF LockStore, ringVars
<1>7. CASE Publish \/ TakeSlot
  BY <1>7 DEF Publish, TakeSlot, dmaVars
<1>8. CASE Unlock
  BY <1>8 DEF Unlock, ringVars
<1>9. CASE UartTx
  BY <1>9 DEF UartTx, TxIdle, TxProgram, TxEnable, TxDone, ringVars, dmaVars
<1>10. CASE SockEvents
  BY <1>10 DEF SockEvents, ringVars, dmaVars
<1>11. CASE Rx
  BY <1>11 DEF Rx, RxPoll, RxSend, ringVars, dmaVars
<1>12. CASE UNCHANGED vars
  BY <1>12 DEF vars, ringVars, dmaVars, loopVars
<1>. QED  BY <1>1, <1>2, <1>3, <1>4, <1>5, <1>6, <1>7, <1>8, <1>9, <1>10, <1>11, <1>12
          DEF Next, MainLoop, EthRx
----------------------------------------------------------------------------
(***************************************************************************)
(* Channel 7.                                                              *)
(***************************************************************************)
LEMMA KeepDma ==
  ASSUME DmaInv, UNCHANGED <<txLen, txRead, remain, state, tc, maddr, cntr, out>>
  PROVE  DmaInv'
BY DEF DmaInv, Used

LEMMA DmaStep == IInv /\ [Next]_vars => DmaInv'
<1>. SUFFICES ASSUME IInv, [Next]_vars PROVE DmaInv'
  OBVIOUS
<1>a. DmaInv /\ Others /\ LoopInv /\ Booleans
  BY TypeParts DEF IInv
<1>. USE Sizes, <1>a
<1>1. CASE DmaByte
  BY <1>1 DEF DmaByte, DmaInv, Used, Others, ringVars
<1>2. CASE DmaRx
  BY <1>2, KeepDma DEF DmaRx, ringVars, dmaVars, txHist
<1>3. CASE TcIsr
  BY <1>3 DEF TcIsr, DmaInv, Others, txHist
<1>4. CASE RecvPacket
  BY <1>4, KeepDma DEF RecvPacket, dmaVars
<1>5. CASE NoPacket \/ LockLoad \/ LockStore \/ Unlock \/ TxIdle \/ TxEnable \/ SockEvents
  BY <1>5, KeepDma DEF NoPacket, LockLoad, LockStore, Unlock, TxIdle, TxEnable, SockEvents,
                       ringVars, dmaVars, txHist
<1>6. CASE Publish
  <2>1. Used > 0 /\ cntr > 0 => txWrite # txRead
    <3>1. SUFFICES ASSUME Used > 0 PROVE txWrite # txRead
      OBVIOUS
    <3>2. 0 \in Slots /\ Used \in Slots
      BY <1>6, <3>1 DEF Publish, LoopInv, Holding, Others, Used, Slots
    <3>3. txWrite = SlotFrom(txRead, Used) /\ txRead = SlotFrom(txRead, 0)
      BY <1>6, <3>2, SlotStep DEF Publish, IInv, RingInv, SlotAt, Others
    <3>. QED  BY <3>1, <3>2, <3>3, SlotDistinct DEF Others
  <2>2. cntr > 0 => txLen'[txRead] = txLen[txRead]
    BY <1>6, <2>1 DEF Publish, DmaInv, Others
  <2>. QED  BY <1>6, <2>2 DEF Publish, DmaInv, Used, dmaVars, txHist
<1>7. CASE TakeSlot
  BY <1>7 DEF TakeSlot, DmaInv, LoopInv, Holding, Used, Others, dmaVars, txHist
<1>8. CASE TxProgram
  <2>1. out = 0 /\ ~tc /\ cntr = 0 /\ Used > 0
    BY <1>8 DEF TxProgram, DmaInv, Used, Others
  <2>2. txLen[txRead] > 0
    <3>1. 0 \in Slots /\ txRead = SlotAt(0)
      BY SlotStep DEF Slots, SlotAt, Others
    <3>. QED  BY <2>1, <3>1 DEF IInv, RingInv
  <2>. QED  BY <1>8, <2>1, <2>2 DEF TxProgram, DmaInv, Used, Others, txHist
<1>9. CASE Rx
  BY <1>9, KeepDma DEF Rx, RxPoll, RxSend, ringVars, dmaVars, txHist
<1>10. CASE UNCHANGED vars
  BY <1>10, KeepDma DEF vars, ringVars, dmaVars, txHist
<1>. QED  BY <1>1, <1>2, <1>3, <1>4, <1>5, <1>6, <1>7, <1>8, <1>9, <1>10
          DEF Next, MainLoop, EthRx, UartTx
----------------------------------------------------------------------------
(***************************************************************************)
(* The ring.                                                               *)
(***************************************************************************)
LEMMA KeepRing ==
  ASSUME RingInv, UNCHANGED <<txBuf, txLen, txRead, txWrite, remain, tc>>,
         UNCHANGED <<accepted, delivered>>, Holding => len' = len,
         Holding' <=> Holding, (pc = "take")' <=> pc = "take"
  PROVE  RingInv'
<1>1. SentNotFreed' = SentNotFreed /\ First' = First /\ Used' = Used
  BY DEF SentNotFreed, First, Used
<1>2. \A i : SlotAt(i)' = SlotAt(i)
  BY DEF SlotAt
<1>3. pc = "take" => Holding
  BY DEF Holding
<1>. QED  BY <1>1, <1>2, <1>3 DEF RingInv

LEMMA SlotsApart ==
  ASSUME Others, Used \in Slots
  PROVE  \A i \in Slots : i < Used => SlotAt(i) \in Slots /\ SlotAt(i) # SlotAt(Used)
<1>. SUFFICES ASSUME NEW i \in Slots, i < Used
              PROVE  SlotAt(i) \in Slots /\ SlotAt(i) # SlotAt(Used)
  OBVIOUS
<1>1. i # Used /\ txRead \in Slots
  BY Sizes DEF Slots, Others
<1>2. SlotFrom(txRead, i) # SlotFrom(txRead, Used)
  BY <1>1, SlotDistinct
<1>3. SlotFrom(txRead, i) \in Slots
  BY <1>1, SlotStep
<1>. QED  BY <1>2, <1>3 DEF SlotAt

LEMMA RingStep == IInv /\ [Next]_vars => RingInv'
<1>. SUFFICES ASSUME IInv, [Next]_vars PROVE RingInv'
  OBVIOUS
<1>a. RingInv /\ DmaInv /\ Others /\ LoopInv /\ Booleans
  BY TypeParts DEF IInv
<1>b. /\ Used \in 0 .. Num /\ First \in Int /\ SentNotFreed \in {0, 1}
      /\ SlotAt(0) = txRead /\ 0 \in Slots
  BY <1>a, Sizes, SlotStep DEF Used, First, SentNotFreed, SlotAt, Slots, Others
<1>. USE Sizes, <1>a, <1>b
<1>1. CASE DmaByte
  <2>1. UNCHANGED <<Holding, pc, txBuf, txLen, txRead, txWrite, remain, len, accepted>>
    BY <1>1 DEF DmaByte, ringVars, loopVars, Holding
  <2>2. CASE cntr > 1
    BY <1>1, <2>1, <2>2, KeepRing DEF DmaByte
  <2>3. CASE cntr = 1
    <3>a. 0 < Used /\ maddr = txRead /\ ~tc
      BY <2>3 DEF DmaInv
    <3>b. txBuf[SlotAt(0)] = [num |-> First + 0 + 1, len |-> txLen[SlotAt(0)]]
      BY <3>a DEF RingInv
    <3>1. txBuf[maddr].num = First + 1
      BY <3>a, <3>b
    <3>c. tc' = TRUE /\ delivered' = txBuf[maddr].num
      BY <1>1, <2>3 DEF DmaByte
    <3>2. SentNotFreed = 0 /\ SentNotFreed' = 1
      BY <3>a, <3>c, Zenon DEF SentNotFreed
    <3>3. First' = First /\ Used' = Used
      BY <2>1, <3>1, <3>2, <3>c DEF First, Used, Others
    <3>4. \A i : SlotAt(i)' = SlotAt(i)
      BY <2>1 DEF SlotAt
    <3>. QED  BY <2>1, <3>3, <3>4 DEF RingInv
  <2>. QED  BY <1>1, <2>2, <2>3 DEF DmaByte, Others
<1>2. CASE DmaRx
  BY <1>2, KeepRing DEF DmaRx, ringVars, dmaVars, loopVars, txHist, Holding
<1>3. CASE TcIsr
  <2>1. /\ UNCHANGED <<Holding, pc, txBuf, txLen, txWrite, len, accepted, delivered>>
        /\ txRead' = After(txRead) /\ Used' = Used - 1 /\ Used > 0
    BY <1>3 DEF TcIsr, loopVars, txHist, Holding, Used, DmaInv, Others
  <2>2. SentNotFreed = 1 /\ SentNotFreed' = 0
    BY <1>3, Zenon DEF TcIsr, SentNotFreed
  <2>3. First' = First + 1
    BY <2>1, <2>2 DEF First, Others
  <2>4. \A i \in Slots : SlotAt(i)' = SlotAt(i + 1)
    BY <2>1, SlotStep DEF SlotAt, Others
  <2>5. pc # "take"
    BY <1>3, Zenon DEF TcIsr, LoopInv, Locked
  <2>6. Used - 1 \in Slots
    BY <2>1 DEF Slots
  <2>. QED  BY <2>1, <2>3, <2>4, <2>5, <2>6 DEF RingInv, Slots
<1>4. CASE RecvPacket
  <2>1. ~Holding /\ pc # "take" /\ pc' # "take"
    BY <1>4 DEF RecvPacket, Holding
  <2>2. CASE pc' = "ethTx"
    BY <1>4, <2>1, <2>2, KeepRing DEF RecvPacket, dmaVars, Holding
  <2>3. CASE pc' = "lockLoad"
    <3>1. PICK n \in 1 .. MaxLen :
            /\ len' = n /\ remain > 0 /\ accepted' = accepted + 1
            /\ txBuf' = [txBuf EXCEPT ![txWrite] = [num |-> accepted + 1, len |-> n]]
      BY <1>4, <2>3 DEF RecvPacket
    <3>2. /\ UNCHANGED <<txLen, txRead, txWrite, remain, delivered>>
          /\ SentNotFreed' = SentNotFreed /\ Holding'
      BY <1>4, <2>3 DEF RecvPacket, dmaVars, SentNotFreed, Holding
    <3>3. First' = First /\ Used' = Used /\ Used \in Slots
      BY <3>1, <3>2 DEF First, Used, Slots, Others
    <3>4. \A i : SlotAt(i)' = SlotAt(i)
      BY <3>2 DEF SlotAt
    <3>5. txWrite = SlotAt(Used)
      BY <2>1 DEF RingInv
    <3>6. \A i \in Slots : i < Used => SlotAt(i) \in Slots /\ SlotAt(i) # txWrite
      BY <3>3, <3>5, SlotsApart
    <3>7. \A i \in Slots : i < Used => txBuf'[SlotAt(i)] = txBuf[SlotAt(i)]
      BY <3>1, <3>6 DEF Others
    <3>8. txBuf'[SlotAt(Used)] = [num |-> accepted', len |-> len']
      BY <3>1, <3>5 DEF Others
    <3>. QED  BY <2>1, <3>1, <3>2, <3>3, <3>4, <3>5, <3>7, <3>8 DEF RingInv
  <2>. QED  BY <1>4, <2>2, <2>3 DEF RecvPacket
<1>5. CASE NoPacket \/ LockLoad \/ LockStore
  BY <1>5, KeepRing DEF NoPacket, LockLoad, LockStore, ringVars, dmaVars, txHist, Holding
<1>6. CASE Publish
  <2>1. /\ UNCHANGED <<txBuf, txRead, remain, len, delivered, accepted, tc>>
        /\ pc # "take" /\ Holding /\ Holding' /\ pc' = "take"
        /\ txWrite' = After(txWrite) /\ txLen' = [txLen EXCEPT ![txWrite] = len]
    BY <1>6 DEF Publish, dmaVars, txHist, Holding
  <2>2. First' = First /\ Used' = Used /\ Used \in Slots
    BY <2>1 DEF First, Used, SentNotFreed, Slots, Others, LoopInv
  <2>3. \A i : SlotAt(i)' = SlotAt(i)
    BY <2>1 DEF SlotAt
  <2>4. txWrite = SlotAt(Used)
    BY <2>1 DEF RingInv
  <2>5. \A i \in Slots : i < Used => SlotAt(i) \in Slots /\ SlotAt(i) # txWrite
    BY <2>2, <2>4, SlotsApart
  <2>6. \A i \in Slots : i < Used => txLen'[SlotAt(i)] = txLen[SlotAt(i)]
    BY <2>1, <2>5 DEF Others
  <2>7. txLen'[SlotAt(Used)] = len'
    BY <2>1, <2>4 DEF Others
  <2>. QED  BY <2>1, <2>2, <2>3, <2>4, <2>6, <2>7 DEF RingInv
<1>7. CASE TakeSlot
  <2>1. /\ UNCHANGED <<txBuf, txLen, txRead, txWrite, len, delivered, accepted, tc>>
        /\ pc = "take" /\ Holding /\ ~Holding' /\ pc' # "take"
        /\ remain' = remain - 1 /\ remain > 0
    BY <1>7 DEF TakeSlot, dmaVars, txHist, Holding, LoopInv
  <2>2. First' = First /\ Used' = Used + 1 /\ Used \in Slots
    BY <2>1 DEF First, Used, SentNotFreed, Slots, Others
  <2>3. \A i : SlotAt(i)' = SlotAt(i)
    BY <2>1 DEF SlotAt
  <2>4. txWrite = SlotAt(Used + 1)
    BY <2>1, <2>2, SlotStep DEF RingInv, SlotAt, Others
  <2>5. /\ txBuf[SlotAt(Used)] = [num |-> First + Used + 1, len |-> txLen[SlotAt(Used)]]
        /\ txLen[SlotAt(Used)] \in 1 .. MaxLen
    BY <2>1 DEF RingInv, LoopInv
  <2>6. \A i \in Slots : i < Used + 1 => i < Used \/ i = Used
    BY DEF Slots
  <2>. QED  BY <2>1, <2>2, <2>3, <2>4, <2>5, <2>6 DEF RingInv
<1>8. CASE Unlock \/ UartTx \/ SockEvents \/ Rx
  <2>1. ~Holding /\ ~Holding' /\ pc # "take" /\ pc' # "take"
    BY <1>8 DEF Unlock, UartTx, TxIdle, TxProgram, TxEnable, TxDone, SockEvents, Rx,
                RxPoll, RxSend, Holding
  <2>2. /\ UNCHANGED <<txBuf, txLen, txRead, txWrite, remain, tc>>
        /\ UNCHANGED <<accepted, delivered>>
    BY <1>8 DEF Unlock, UartTx, TxIdle, TxProgram, TxEnable, SockEvents, Rx, RxPoll, RxSend,
                ringVars, dmaVars, txHist
  <2>3. (Holding' <=> Holding) /\ ((pc = "take")' <=> pc = "take")
    BY <2>1
  <2>. QED  BY <2>1, <2>2, <2>3, KeepRing
<1>9. CASE UNCHANGED vars
  BY <1>9, KeepRing DEF vars, ringVars, dmaVars, loopVars, txHist, Holding
<1>. QED  BY <1>1, <1>2, <1>3, <1>4, <1>5, <1>6, <1>7, <1>8, <1>9
          DEF Next, MainLoop, EthRx
----------------------------------------------------------------------------
(***************************************************************************)
(* Channel 6 and the socket.                                               *)
(***************************************************************************)
LEMMA KeepRx ==
  ASSUME RxInv, UNCHANGED rxVars, pc' = "send" => pc = "send" /\ len' = len
  PROVE  RxInv'
<1>1. Waiting' = Waiting /\ UNCHANGED <<rxBuf, count, last, sent, overrun>>
  BY DEF rxVars, Waiting
<1>2. \A c, i : CellFrom(c, i)' = CellFrom(c, i)
  BY DEF CellFrom
<1>. QED  BY <1>1, <1>2 DEF RxInv

LEMMA RxStep == IInv /\ [Next]_vars => RxInv'
<1>. SUFFICES ASSUME IInv, [Next]_vars PROVE RxInv'
  OBVIOUS
<1>a. RxInv /\ Others
  BY TypeParts DEF IInv
<1>. USE Sizes, <1>a
<1>1. CASE DmaRx
  <2>1. /\ UNCHANGED <<last, sent, pc, len>>
        /\ rcvd' = rcvd + 1 /\ Waiting' = Waiting + 1
        /\ rxBuf' = [rxBuf EXCEPT ![Size - count] = rcvd + 1]
        /\ count' = IF count = 1 THEN Size ELSE count - 1
    BY <1>1 DEF DmaRx, loopVars, Waiting, Others
  <2>2. pc' = "send" => len' <= last'
    BY <2>1 DEF RxInv
  <2>3. ASSUME ~overrun'
        PROVE  /\ Waiting' \in 0 .. Size - 1
               /\ count' = IF last' > Waiting' THEN last' - Waiting'
                           ELSE last' - Waiting' + Size
               /\ pc' = "send" => len' <= Waiting'
               /\ \A j \in 0 .. Size - 1 : j < Waiting' =>
                    rxBuf'[CellFrom(Size - last', j)] = sent' + j + 1
    <3>1. ~overrun /\ rcvd + 1 - sent < Size
      <4>1. overrun' = (overrun \/ rcvd + 1 - sent >= Size)
        BY <1>1 DEF DmaRx
      <4>2. ~overrun /\ ~(rcvd + 1 - sent >= Size)
        BY <2>3, <4>1, Zenon
      <4>. QED  BY <4>2 DEF Others
    <3>2. Waiting \in 0 .. Size - 1 /\ Waiting + 1 \in 0 .. Size - 1
      BY <3>1 DEF RxInv, Waiting, Others
    <3>3. count = IF last > Waiting THEN last - Waiting ELSE last - Waiting + Size
      BY <3>1 DEF RxInv
    <3>4. Size - count = CellFrom(Size - last, Waiting)
      BY <3>2, <3>3 DEF CellFrom, Others
    <3>5. ASSUME NEW j \in 0 .. Size - 1, j < Waiting + 1
          PROVE  rxBuf'[CellFrom(Size - last, j)] = sent + j + 1
      <4>1. CASE j = Waiting
        BY <2>1, <3>4, <4>1 DEF Others, Waiting
      <4>2. CASE j < Waiting
        <5>1. CellFrom(Size - last, j) # Size - count /\ CellFrom(Size - last, j) \in 0 .. Size - 1
          <6>1. Size - last \in 0 .. Size - 1 /\ j # Waiting
            BY <4>2 DEF Others
          <6>2. CellFrom(Size - last, j) # CellFrom(Size - last, Waiting)
            BY <3>2, <6>1, CellDistinct
          <6>3. CellFrom(Size - last, j) \in 0 .. Size - 1
            BY <6>1 DEF CellFrom
          <6>. QED  BY <3>4, <6>2, <6>3
        <5>. QED  BY <2>1, <3>1, <4>2, <5>1 DEF RxInv, Others
      <4>. QED  BY <3>2, <3>5, <4>1, <4>2
    <3>. QED  BY <2>1, <3>1, <3>2, <3>3, <3>5 DEF RxInv, Others
  <2>. QED  BY <2>2, <2>3 DEF RxInv
<1>2. CASE RxPoll
  <2>1. UNCHANGED <<rxBuf, count, last, rcvd, sent, overrun>> /\ Waiting' = Waiting
    BY <1>2 DEF RxPoll, rxVars, Waiting
  <2>2. pc' = "send" => len' <= last /\ (~overrun => len' <= Waiting)
    BY <1>2 DEF RxPoll, ToSend, RxInv, Others
  <2>3. \A c, i : CellFrom(c, i)' = CellFrom(c, i)
    BY DEF CellFrom
  <2>. QED  BY <2>1, <2>2, <2>3 DEF RxInv
<1>3. ASSUME NEW k \in 0 .. Size, RxSend(k) PROVE RxInv'
  <2>1. /\ UNCHANGED <<rxBuf, count, overrun>> /\ pc' # "send"
        /\ last' = (IF last = k THEN Size ELSE last - k)
        /\ sent' = sent + k /\ Waiting' = Waiting - k
        /\ k \in Nat /\ k <= last
    BY <1>3 DEF RxSend, RxInv, Waiting, Others
  <2>2. ASSUME ~overrun
        PROVE  /\ Waiting' \in 0 .. Size - 1
               /\ count' = IF last' > Waiting' THEN last' - Waiting'
                           ELSE last' - Waiting' + Size
               /\ \A j \in 0 .. Size - 1 : j < Waiting' =>
                    rxBuf'[CellFrom(Size - last', j)] = sent' + j + 1
    <3>1. k <= Waiting /\ Waiting \in 0 .. Size - 1
      BY <1>3, <2>2 DEF RxSend, RxInv, Others
    <3>2. ASSUME NEW j \in 0 .. Size - 1, j < Waiting - k
          PROVE  rxBuf'[CellFrom(Size - last', j)] = sent + k + j + 1
      <4>1. j + k \in 0 .. Size - 1 /\ j + k < Waiting
        BY <2>1, <3>1, <3>2
      <4>2. rxBuf[CellFrom(Size - last, j + k)] = sent + (j + k) + 1
        BY <2>2, <4>1 DEF RxInv
      <4>3. CellFrom(Size - last', j) = CellFrom(Size - last, j + k)
        <5>1. CASE last = k
          <6>1. last' = Size
            BY <2>1, <5>1
          <6>. QED  BY <4>1, <5>1, <6>1 DEF CellFrom, Others
        <5>2. CASE last # k
          <6>1. last' = last - k
            BY <2>1, <5>2
          <6>. QED  BY <2>1, <4>1, <5>2, <6>1 DEF CellFrom, Others
        <5>. QED  BY <5>1, <5>2
      <4>. QED  BY <2>1, <4>2, <4>3 DEF Others
    <3>3. count = IF last > Waiting THEN last - Waiting ELSE last - Waiting + Size
      BY <2>2 DEF RxInv
    <3>. QED  BY <2>1, <3>1, <3>2, <3>3 DEF Others
  <2>. QED  BY <2>1, <2>2 DEF RxInv
<1>4. CASE DmaByte \/ TcIsr \/ EthRx \/ UartTx \/ SockEvents \/ UNCHANGED vars
  <2>1. UNCHANGED rxVars
    BY <1>4 DEF DmaByte, TcIsr, EthRx, UartTx, SockEvents, RecvPacket, NoPacket, LockLoad,
                LockStore, Publish, TakeSlot, Unlock, TxIdle, TxProgram, TxEnable, vars
  <2>2. pc' = "send" => pc = "send" /\ len' = len
    BY <1>4 DEF DmaByte, TcIsr, EthRx, UartTx, SockEvents, RecvPacket, NoPacket, LockLoad,
                LockStore, Publish, TakeSlot, Unlock, TxIdle, TxProgram, TxEnable, TxDone,
                loopVars, vars
  <2>. QED  BY <2>1, <2>2, KeepRx
<1>. QED  BY <1>1, <1>2, <1>3, <1>4 DEF Next, MainLoop, Rx
----------------------------------------------------------------------------
LEMMA InvStep == IInv /\ [Next]_vars => IInv'
BY BooleansStep, OthersStep, LoopStep, RingStep, DmaStep, RxStep, TypeParts DEF IInv, TypeOK, Booleans, Others

LEMMA InvAlways == Spec => []IInv
BY InvInit, InvStep, PTL DEF Spec

(***************************************************************************)
(* No index leaves its buffer, no counter its range.                       *)
(***************************************************************************)
THEOREM TypeCorrect == Spec => []TypeOK
<1>1. IInv => TypeOK
  BY DEF IInv
<1>. QED  BY <1>1, InvAlways, PTL

(***************************************************************************)
(* Channel 7 is on the byte due whenever it can move one.                  *)
(***************************************************************************)
THEOREM DmaIsOnTheByteDue == Spec => []DmaSendsNextByte
<1>1. IInv => DmaSendsNextByte
  <2>. SUFFICES ASSUME IInv, en, cntr > 0
                PROVE  /\ txBuf[maddr] = [num |-> delivered + 1, len |-> cntr + out]
                       /\ state = "BUSY" /\ maddr = txRead
    BY DEF DmaSendsNextByte
  <2>1. /\ state = "BUSY" /\ maddr = txRead /\ 0 < Used /\ ~tc
        /\ cntr + out = txLen[txRead]
    BY DEF IInv, DmaInv, TypeOK
  <2>2. First = delivered /\ delivered \in Nat
    BY <2>1 DEF First, SentNotFreed, IInv, TypeOK
  <2>3. 0 \in Slots /\ SlotAt(0) = txRead
    BY Sizes, SlotStep DEF IInv, TypeOK, Slots, SlotAt
  <2>4. txBuf[SlotAt(0)] = [num |-> First + 0 + 1, len |-> txLen[SlotAt(0)]]
    BY <2>1, <2>3 DEF IInv, RingInv
  <2>. QED  BY <2>1, <2>2, <2>3, <2>4
<1>. QED  BY <1>1, InvAlways, PTL

(***************************************************************************)
(* What the socket is handed is what it is due, until the DMA laps.        *)
(***************************************************************************)
THEOREM SocketIsOnTheByteDue == Spec => []SocketGetsNextBytes
<1>1. IInv => SocketGetsNextBytes
  <2>. SUFFICES ASSUME IInv, pc = "send", ~overrun
                PROVE  /\ len <= rcvd - sent /\ len <= last
                       /\ \A i \in 1 .. len : rxBuf[Size - last + i - 1] = sent + i
    BY DEF SocketGetsNextBytes
  <2>1. /\ len <= last /\ len <= Waiting /\ Waiting \in 0 .. Size - 1
        /\ \A j \in 0 .. Size - 1 : j < Waiting =>
             rxBuf[CellFrom(Size - last, j)] = sent + j + 1
    BY DEF IInv, RxInv
  <2>2. ASSUME NEW i \in 1 .. len PROVE rxBuf[Size - last + i - 1] = sent + i
    <3>1. i - 1 \in 0 .. Size - 1 /\ i - 1 < Waiting
      BY <2>1, Sizes DEF IInv, TypeOK
    <3>2. CellFrom(Size - last, i - 1) = Size - last + i - 1
      BY <2>1, Sizes DEF CellFrom, IInv, TypeOK
    <3>3. rxBuf[CellFrom(Size - last, i - 1)] = sent + (i - 1) + 1
      BY <2>1, <3>1
    <3>. QED  BY <3>2, <3>3 DEF IInv, TypeOK
  <2>. QED  BY <2>1, <2>2 DEF Waiting
<1>. QED  BY <1>1, InvAlways, PTL
----------------------------------------------------------------------------
(***************************************************************************)
(* The refinement: what the ring holds, as a sequence.                     *)
(***************************************************************************)
Left == Used - SentNotFreed

LEMMA RingSeq ==
  ASSUME IInv
  PROVE  /\ Left \in 0 .. Num
         /\ InRing \in Seq(Packets) /\ Len(InRing) = Left
         /\ \A i \in 1 .. Left : InRing[i] = txBuf[SlotAt(i - 1 + SentNotFreed)]
<1>1. Others /\ Booleans /\ DmaInv
  BY TypeParts DEF IInv
<1>2. SentNotFreed \in {0, 1} /\ (tc => SentNotFreed = 1) /\ (~tc => SentNotFreed = 0)
  BY DEF SentNotFreed
<1>3. Left \in 0 .. Num
  BY <1>1, <1>2, Sizes DEF Left, Used, DmaInv, Others
<1>4. ASSUME NEW i \in 1 .. Left PROVE txBuf[SlotAt(i - 1 + SentNotFreed)] \in Packets
  <2>1. i - 1 + SentNotFreed \in Slots
    BY <1>1, <1>2, <1>3, Sizes DEF Left, Used, Others, Slots
  <2>2. SlotAt(i - 1 + SentNotFreed) \in Slots
    BY <1>1, <2>1, SlotStep DEF SlotAt, Others
  <2>. QED  BY <1>1, <2>2 DEF Others
<1>5. InRing = [i \in 1 .. Left |-> txBuf[SlotAt(i - 1 + SentNotFreed)]]
  BY DEF InRing, Left, Used
<1>. QED  BY <1>3, <1>4, <1>5

(* The packet at tx_read is delivered with its last byte. *)
LEMMA DeliverStep ==
  ASSUME IInv, IInv', DmaByte, cntr = 1
  PROVE  InRing # <<>> /\ delivered' = Head(InRing).num /\ InRing' = Tail(InRing)
<1>1. /\ 0 < Used /\ maddr = txRead /\ ~tc /\ tc' /\ delivered' = txBuf[maddr].num
      /\ UNCHANGED <<txBuf, txRead, remain>>
  <2>1. 0 < Used /\ maddr = txRead /\ ~tc
    BY DEF IInv, DmaInv, TypeOK
  <2>2. tc' = TRUE /\ delivered' = txBuf[maddr].num /\ UNCHANGED <<txBuf, txRead, remain>>
    BY DEF DmaByte, ringVars, IInv, TypeOK
  <2>. QED  BY <2>1, <2>2, Zenon
<1>2. SentNotFreed = 0 /\ SentNotFreed' = 1
  BY <1>1, Zenon DEF SentNotFreed
<1>3. Left = Used /\ Left' = Used - 1 /\ Used \in Nat
  BY <1>1, <1>2, Sizes DEF Left, Used, IInv, TypeOK
<1>4. \A i : SlotAt(i)' = SlotAt(i)
  BY <1>1 DEF SlotAt
<1>5. /\ InRing \in Seq(Packets) /\ Len(InRing) = Used
      /\ \A i \in 1 .. Used : InRing[i] = txBuf[SlotAt(i - 1 + 0)]
  BY <1>2, <1>3, RingSeq
<1>6. /\ InRing' \in Seq(Packets) /\ Len(InRing') = Used - 1
      /\ \A i \in 1 .. Used - 1 : InRing'[i] = txBuf[SlotAt(i - 1 + 1)]
  <2>1. /\ (InRing \in Seq(Packets))' /\ (Len(InRing) = Left)'
        /\ (\A i \in 1 .. Left : InRing[i] = txBuf[SlotAt(i - 1 + SentNotFreed)])'
    BY RingSeq, PTL
  <2>. QED  BY <1>1, <1>2, <1>3, <1>4, <2>1
<1>7. InRing # <<>> /\ Head(InRing) = InRing[1] /\ InRing[1] = txBuf[SlotAt(0)]
  BY <1>1, <1>3, <1>5
<1>8. SlotAt(0) = txRead
  BY Sizes, SlotStep DEF SlotAt, Slots, IInv, TypeOK
<1>9. /\ Tail(InRing) \in Seq(Packets) /\ Len(Tail(InRing)) = Used - 1
      /\ \A i \in 1 .. Used - 1 : Tail(InRing)[i] = InRing[i + 1]
  BY <1>5, <1>7, HeadTailProperties
<1>10. ASSUME NEW i \in 1 .. Used - 1 PROVE InRing'[i] = Tail(InRing)[i]
  <2>1. i + 1 \in 1 .. Used /\ i - 1 + 1 = i /\ (i + 1) - 1 + 0 = i
    BY <1>3
  <2>2. InRing'[i] = txBuf[SlotAt(i)] /\ InRing[i + 1] = txBuf[SlotAt(i)]
    BY <1>5, <1>6, <2>1
  <2>. QED  BY <1>9, <2>2
<1>11. InRing' = Tail(InRing)
  BY <1>6, <1>9, <1>10, SeqEqual
<1>. QED  BY <1>1, <1>7, <1>8, <1>11

(* A packet is accepted when the count says so. *)
LEMMA AcceptStep ==
  ASSUME IInv, IInv', TakeSlot
  PROVE  /\ Len(InRing) < Num /\ UNCHANGED delivered
         /\ \E n \in 1 .. MaxLen :
              InRing' = Append(InRing, [num |-> delivered + Len(InRing) + 1, len |-> n])
<1>1. /\ UNCHANGED <<txBuf, txRead, delivered, tc, len>> /\ remain' = remain - 1
      /\ remain > 0 /\ len \in 1 .. MaxLen
      /\ txBuf[SlotAt(Used)] = [num |-> accepted, len |-> len]
      /\ accepted = First + Used + 1
  BY DEF TakeSlot, dmaVars, txHist, IInv, LoopInv, RingInv, Holding
<1>2. SentNotFreed' = SentNotFreed /\ SentNotFreed \in {0, 1}
  BY <1>1 DEF SentNotFreed
<1>3. /\ Left \in 0 .. Num - 1 /\ Left' = Left + 1 /\ Left + SentNotFreed = Used
      /\ accepted = delivered + Left + 1
  <2>1. Left \in 0 .. Num
    BY RingSeq
  <2>2. remain \in 0 .. Num /\ delivered \in Int
    BY DEF IInv, TypeOK
  <2>3. Used = Num - remain /\ Left = Used - SentNotFreed /\ First = delivered - SentNotFreed
    BY DEF Left, Used, First
  <2>4. Used' = Num - remain' /\ Left' = Used' - SentNotFreed'
    BY DEF Left, Used
  <2>. QED  BY <1>1, <1>2, <2>1, <2>2, <2>3, <2>4, Sizes
<1>4. \A i : SlotAt(i)' = SlotAt(i)
  BY <1>1 DEF SlotAt
<1>5. /\ InRing \in Seq(Packets) /\ Len(InRing) = Left
      /\ \A i \in 1 .. Left : InRing[i] = txBuf[SlotAt(i - 1 + SentNotFreed)]
  BY RingSeq
<1>6. /\ InRing' \in Seq(Packets) /\ Len(InRing') = Left + 1
      /\ \A i \in 1 .. Left + 1 : InRing'[i] = txBuf[SlotAt(i - 1 + SentNotFreed)]
  <2>1. /\ (InRing \in Seq(Packets))' /\ (Len(InRing) = Left)'
        /\ (\A i \in 1 .. Left : InRing[i] = txBuf[SlotAt(i - 1 + SentNotFreed)])'
    BY RingSeq, PTL
  <2>. QED  BY <1>1, <1>2, <1>3, <1>4, <2>1
<1>7. DEFINE e == [num |-> delivered + Left + 1, len |-> len]
<1>8. e = txBuf[SlotAt(Used)] /\ e \in Packets
  <2>1. accepted \in 0 .. MaxPackets /\ len \in 0 .. MaxLen
    BY <1>1, Sizes DEF IInv, TypeOK
  <2>. QED  BY <1>1, <1>3, <2>1 DEF Packets
<1>. HIDE DEF e
<1>9. /\ Append(InRing, e) \in Seq(Packets) /\ Len(Append(InRing, e)) = Left + 1
      /\ \A i \in 1 .. Left : Append(InRing, e)[i] = InRing[i]
      /\ Append(InRing, e)[Left + 1] = e
  BY <1>3, <1>5, <1>8
<1>10. ASSUME NEW i \in 1 .. Left + 1 PROVE InRing'[i] = Append(InRing, e)[i]
  <2>1. CASE i = Left + 1
    <3>1. Left + 1 - 1 + SentNotFreed = Used
      BY <1>2, <1>3
    <3>2. InRing'[Left + 1] = txBuf[SlotAt(Left + 1 - 1 + SentNotFreed)]
      BY <1>3, <1>6
    <3>. QED  BY <1>8, <1>9, <2>1, <3>1, <3>2
  <2>2. CASE i \in 1 .. Left
    BY <1>5, <1>6, <1>9, <2>2
  <2>3. i = Left + 1 \/ i \in 1 .. Left
    BY <1>3, Sizes
  <2>. QED  BY <2>1, <2>2, <2>3
<1>11. InRing' = Append(InRing, e)
  BY <1>6, <1>9, <1>10, SeqEqual
<1>. QED  BY <1>1, <1>3, <1>5, <1>11, Sizes DEF e

(* Nothing else changes what is in the ring. *)
LEMMA SameRing ==
  ASSUME IInv, IInv', UNCHANGED <<delivered, Left>>,
         \A i \in 1 .. Left :
           txBuf'[SlotAt(i - 1 + SentNotFreed)'] = txBuf[SlotAt(i - 1 + SentNotFreed)]
  PROVE  InRing' = InRing /\ delivered' = delivered
<1>1. /\ InRing \in Seq(Packets) /\ Len(InRing) = Left
      /\ \A i \in 1 .. Left : InRing[i] = txBuf[SlotAt(i - 1 + SentNotFreed)]
  BY RingSeq
<1>2. /\ (InRing \in Seq(Packets))' /\ (Len(InRing) = Left)'
      /\ (\A i \in 1 .. Left : InRing[i] = txBuf[SlotAt(i - 1 + SentNotFreed)])'
  BY RingSeq, PTL
<1>3. \A i \in 1 .. Left : InRing'[i] = InRing[i]
  BY <1>1, <1>2
<1>. QED  BY <1>1, <1>2, <1>3, SeqEqual

LEMMA RecvKeepsRing ==
  ASSUME IInv, IInv', RecvPacket
  PROVE  InRing' = InRing /\ delivered' = delivered
<1>1. /\ UNCHANGED <<txRead, remain, tc, delivered>> /\ pc # "take"
      /\ \/ UNCHANGED txBuf
         \/ remain > 0 /\ \E c : txBuf' = [txBuf EXCEPT ![txWrite] = c]
  BY DEF RecvPacket, dmaVars
<1>2. SentNotFreed' = SentNotFreed /\ Used' = Used /\ Left' = Left
  BY <1>1 DEF SentNotFreed, Used, Left
<1>3. \A i : SlotAt(i)' = SlotAt(i)
  BY <1>1 DEF SlotAt
<1>4. txWrite = SlotAt(Used) /\ Others
  BY <1>1, TypeParts DEF IInv, RingInv
<1>5. ASSUME NEW i \in 1 .. Left
      PROVE  txBuf'[SlotAt(i - 1 + SentNotFreed)'] = txBuf[SlotAt(i - 1 + SentNotFreed)]
  <2>1. CASE UNCHANGED txBuf
    BY <1>2, <1>3, <2>1
  <2>2. CASE remain > 0 /\ \E c : txBuf' = [txBuf EXCEPT ![txWrite] = c]
    <3>1. Used \in Slots
      BY <1>4, <2>2, Sizes DEF Used, Others, Slots
    <3>2. SentNotFreed \in {0, 1} /\ Left = Used - SentNotFreed /\ Left \in 0 .. Num
      BY RingSeq DEF SentNotFreed, Left
    <3>3. i - 1 + SentNotFreed \in Slots /\ i - 1 + SentNotFreed < Used
      BY <3>1, <3>2, Sizes DEF Slots
    <3>4. SlotAt(i - 1 + SentNotFreed) # SlotAt(Used)
      BY <1>4, <3>1, <3>3, SlotsApart
    <3>. QED  BY <1>2, <1>3, <1>4, <2>2, <3>4 DEF Others
  <2>. QED  BY <1>1, <2>1, <2>2
<1>. QED  BY <1>1, <1>2, <1>5, SameRing

LEMMA IsrKeepsRing ==
  ASSUME IInv, IInv', TcIsr
  PROVE  InRing' = InRing /\ delivered' = delivered
<1>1. /\ UNCHANGED <<txBuf, delivered>> /\ txRead' = After(txRead) /\ remain' = remain + 1
      /\ txRead \in Slots /\ remain \in 0 .. Num
  BY DEF TcIsr, txHist, IInv, TypeOK
<1>2. SentNotFreed = 1 /\ SentNotFreed' = 0
  BY Zenon DEF TcIsr, SentNotFreed
<1>3. Left' = Left /\ Left = Used - 1 /\ Left \in 0 .. Num /\ Used <= Num
  <2>1. Left \in 0 .. Num
    BY RingSeq
  <2>. QED  BY <1>1, <1>2, <2>1, Sizes DEF Left, Used
<1>4. ASSUME NEW i \in 1 .. Left
      PROVE  txBuf'[SlotAt(i - 1 + SentNotFreed)'] = txBuf[SlotAt(i - 1 + SentNotFreed)]
  <2>1. i - 1 \in Slots /\ i - 1 + 1 = i /\ i - 1 + 0 = i - 1
    BY <1>3, Sizes DEF Slots, Used
  <2>2. SlotFrom(After(txRead), i - 1) = SlotFrom(txRead, i - 1 + 1)
    BY <1>1, <2>1, SlotStep
  <2>. QED  BY <1>1, <1>2, <2>1, <2>2 DEF SlotAt
<1>. QED  BY <1>1, <1>3, <1>4, SameRing

LEMMA OthersKeepRing ==
  ASSUME IInv, IInv', UNCHANGED <<txBuf, txRead, remain, tc, delivered>>
  PROVE  InRing' = InRing /\ delivered' = delivered
<1>1. SentNotFreed' = SentNotFreed /\ Left' = Left
  BY DEF SentNotFreed, Used, Left
<1>2. \A i : SlotAt(i)' = SlotAt(i)
  BY DEF SlotAt
<1>. QED  BY <1>1, <1>2, SameRing

(***************************************************************************)
(* The ring, filled by the main loop and emptied by the interrupt, is a    *)
(* queue of packets for whatever number and size of buffers.               *)
(***************************************************************************)
THEOREM RingIsPipe == Spec => IsPipe
<1>1. Init => Pipe!Init
  <2>. SUFFICES ASSUME Init PROVE InRing = <<>> /\ delivered = 0
    BY DEF Pipe!Init
  <2>1. IInv
    BY InvInit
  <2>2. SentNotFreed = 0 /\ delivered = 0
    BY Zenon DEF Init, SentNotFreed
  <2>3. Left = 0
    BY <2>2, Sizes DEF Init, Left, Used
  <2>4. InRing \in Seq(Packets) /\ Len(InRing) = 0
    BY <2>1, <2>3, RingSeq
  <2>. QED  BY <2>2, <2>4, EmptySeq
<1>2. IInv /\ IInv' /\ [Next]_vars => [Pipe!Next]_(Pipe!pipeVars)
  <2>. SUFFICES ASSUME IInv, IInv', [Next]_vars PROVE [Pipe!Next]_(Pipe!pipeVars)
    OBVIOUS
  <2>. USE DEF Pipe!Next, Pipe!pipeVars
  <2>1. CASE DmaByte
    <3>1. CASE cntr = 1
      BY <2>1, <3>1, DeliverStep DEF Pipe!Deliver
    <3>2. CASE cntr # 1
      BY <2>1, <3>2, OthersKeepRing DEF DmaByte, ringVars
    <3>. QED  BY <3>1, <3>2
  <2>2. CASE TcIsr
    BY <2>2, IsrKeepsRing
  <2>3. CASE RecvPacket
    BY <2>3, RecvKeepsRing
  <2>4. CASE TakeSlot
    BY <2>4, AcceptStep DEF Pipe!Accept
  <2>5. CASE NoPacket \/ LockLoad \/ LockStore \/ Publish \/ Unlock \/ SockEvents \/ DmaRx
    BY <2>5, OthersKeepRing
       DEF NoPacket, LockLoad, LockStore, Publish, Unlock, SockEvents, DmaRx, ringVars, dmaVars,
           txHist
  <2>6. CASE UartTx
    BY <2>6, OthersKeepRing
       DEF UartTx, TxIdle, TxProgram, TxEnable, ringVars, dmaVars, txHist
  <2>7. CASE Rx
    BY <2>7, OthersKeepRing DEF Rx, RxPoll, RxSend, ringVars, dmaVars, txHist
  <2>8. CASE UNCHANGED vars
    BY <2>8, OthersKeepRing DEF vars, ringVars, dmaVars, txHist
  <2>. QED  BY <2>1, <2>2, <2>3, <2>4, <2>5, <2>6, <2>7, <2>8 DEF Next, MainLoop, EthRx
<1>. QED  BY <1>1, <1>2, InvAlways, PTL DEF Spec, IsPipe, Pipe!Spec
=============================================================================
