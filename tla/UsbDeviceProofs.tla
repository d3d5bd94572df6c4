-------------------------- MODULE UsbDeviceProofs --------------------------
(***************************************************************************)
(* Theorems about the two programs that are a USB device: CdcDownlink, for *)
(* every number of slots, slot size, set of packet lengths and bound on    *)
(* the host, then MscBot, for every number of sectors and packs, every set *)
(* of versions and any number of faults.  They share nothing but TLAPS.    *)
(***************************************************************************)
EXTENDS CdcDownlink, MscBot, SequenceTheorems, TLAPS

(***************************************************************************)
(* CdcDownlink: the inductive invariant.  Every part but TypeOK assumes    *)
(* Calm, which once lost only returns with a re-initialisation.            *)
(***************************************************************************)
(* The room the pause threshold keeps free, less what CLEAR_FEATURE took. *)
FlowControl ==
  /\ remainNum <= NumMax
  /\ got = sent + remainNum + Pending
  /\ stopFlag = 0 => remainNum <= NumMax - 3 /\ forced = 0
  /\ stopFlag = 1 => /\ remainNum + Pending <= NumMax - 2 + forced
                     /\ ep2 = "ACK" => remainNum < NumMax - 2 + forced

(* Where the ring begins and ends, and what its slots hold. *)
RingContents ==
  /\ uep2dma = loadNum
  /\ loadNum = SlotAt(remainNum)
  /\ \A k \in 0 .. NumMax - 1 : k < remainNum =>
       store[SlotAt(k)] = [seq |-> sent + 1 + k, len |-> packLen[SlotAt(k)]]
  /\ rxLen # NoRx => store[loadNum] = [seq |-> got, len |-> rxLen]

Flying == txFlag = 1 \/ pc = "flag"

(* How far the packet at the head of the ring has got. *)
Sending ==
  /\ pc = "complete" => txFlag = 1
  /\ pc \in {"load", "program", "flag"} => txFlag = 0 /\ remainNum > 0
  /\ Flying => /\ live /\ dmaReq /\ remainNum > 0
               /\ cntr <= curLen /\ curLen <= packLen[dealNum]
               /\ curPtr = dealNum * PackSize + (packLen[dealNum] - curLen)
               /\ maddr = curPtr + (curLen - cntr)
               /\ off = packLen[dealNum] - cntr
  /\ ~Flying => /\ live => ~dmaReq
                /\ curLen # 0 => remainNum > 0
                /\ curLen # 0 \/ pc = "program" =>
                     /\ curLen <= packLen[dealNum]
                     /\ off = packLen[dealNum] - curLen
                     /\ curPtr = dealNum * PackSize + off
                /\ curLen = 0 /\ pc # "program" => off = 0

IInv == TypeOK /\ (Calm => FlowControl /\ RingContents /\ Sending)
----------------------------------------------------------------------------
(* Arithmetic of the ring. *)

LEMMA WordSize == W16 \in Nat /\ W16 > 4
BY DEF W16

(* A slot number is stepped, and the slots of a ring are distinct. *)
LEMMA SlotStep ==
  ASSUME NEW d \in Slots, NEW k \in 0 .. NumMax - 1
  PROVE  /\ WrapNum(d) \in Slots
         /\ SlotFrom(d, k) \in Slots
         /\ SlotFrom(d, k + 1) = WrapNum(SlotFrom(d, k))
         /\ SlotFrom(WrapNum(d), k) = SlotFrom(d, k + 1)
         /\ SlotFrom(d, 0) = d
BY NumMaxAssumption DEF Slots, WrapNum, SlotFrom

LEMMA SlotDistinct ==
  ASSUME NEW d \in Slots, NEW j \in 0 .. NumMax - 1, NEW k \in 0 .. NumMax - 1,
         j # k
  PROVE  SlotFrom(d, j) # SlotFrom(d, k)
BY NumMaxAssumption DEF Slots, SlotFrom

(* The first byte of a slot, and its last, lie in a 16-bit address. *)
LEMMA SlotBytes ==
  ASSUME NEW d \in Slots
  PROVE  d * PackSize \in Nat /\ d * PackSize + PackSize < W16
<1>1. /\ d \in Nat /\ NumMax - 1 - d \in Nat /\ PackSize \in Nat
  BY NumMaxAssumption, PackSizeAssumption DEF Slots
<1>2. /\ d * PackSize \in Nat /\ (NumMax - 1 - d) * PackSize \in Nat
  BY <1>1
<1>3. (NumMax - 1 - d) * PackSize = NumMax * PackSize - PackSize - d * PackSize
  BY <1>1, NumMaxAssumption
<1>. QED  BY <1>1, <1>2, <1>3, BufferAssumption, NumMaxAssumption, WordSize

(* 16-bit registers stay 16 bits wide. *)
LEMMA Width16 ==
  ASSUME NEW a \in 0 .. W16 - 1, NEW b \in 0 .. W16 - 1
  PROVE  Add16(a, b) \in 0 .. W16 - 1 /\ Sub16(a, b) \in 0 .. W16 - 1
BY WordSize DEF Add16, Sub16
----------------------------------------------------------------------------
(***************************************************************************)
(* Every variable keeps its type, in races and after overruns too: no      *)
(* index leaves UART2_Tx_Buf or Tx_PackLen and no register its width.      *)
(***************************************************************************)
LEMMA EmptyRing ==
  /\ 0 \in Slots
  /\ [s \in Slots |-> 0] \in [Slots -> 0 .. PackSize]
  /\ [s \in Slots |-> Free] \in [Slots -> [seq : Nat, len : 0 .. PackSize]]
<1>1. 0 \in Slots /\ 0 \in 0 .. PackSize
  BY NumMaxAssumption, PackSizeAssumption DEF Slots
<1>2. Free \in [seq : Nat, len : 0 .. PackSize]
  BY <1>1 DEF Free
<1>. QED  BY <1>1, <1>2

LEMMA TypeInit == Init => TypeOK
<1>1. 0 \in 0 .. W16 - 1 /\ 0 \in Nat /\ 0 \in 0 .. 3
  BY WordSize
<1>. QED  BY <1>1, EmptyRing DEF Init, TypeOK

LEMMA TypeStep == TypeOK /\ [Next]_vars => TypeOK'
<1>. SUFFICES ASSUME TypeOK, [Next]_vars PROVE TypeOK'
  OBVIOUS
<1>. USE NumMaxAssumption, PackSizeAssumption, WordSize
<1>1. CASE SieOut
  BY <1>1, LensAssumption
     DEF SieOut, TypeOK, NoRx, ringVars, sendVars, dmaVars
<1>2. CASE IsrOut
  <2>1. WrapNum(loadNum) \in Slots
    BY DEF TypeOK, Slots, WrapNum
  <2>2. Add16(remainNum, 1) \in 0 .. W16 - 1
    BY DEF TypeOK, Add16
  <2>. QED  BY <1>2, <2>1, <2>2
            DEF IsrOut, TypeOK, NoRx, sendVars, dmaVars, ghostVars
<1>3. CASE BusReset
  <2>1. raced' \in BOOLEAN /\ live' \in BOOLEAN
    BY <1>3 DEF BusReset, NewEpoch
  <2>2. dmaReq' \in BOOLEAN /\ tc' \in BOOLEAN /\ shifting' \in BOOLEAN
    BY <1>3 DEF BusReset, TypeOK, dmaVars
  <2>3. 0 \in 0 .. W16 - 1 /\ 0 \in Nat /\ 0 \in 0 .. 3
    OBVIOUS
  <2>. QED  BY <1>3, <2>1, <2>2, <2>3, EmptyRing DEF BusReset, ParaInit, NewEpoch, TypeOK, dmaVars
<1>4. CASE SetLineCoding
  <2>1. raced' \in BOOLEAN /\ live' \in BOOLEAN
    BY <1>4 DEF SetLineCoding, NewEpoch
  <2>2. dmaReq' \in BOOLEAN /\ tc' \in BOOLEAN /\ shifting' \in BOOLEAN
    BY <1>4 DEF SetLineCoding, TypeOK, dmaVars
  <2>3. 0 \in 0 .. W16 - 1 /\ 0 \in Nat /\ 0 \in 0 .. 3
    OBVIOUS
  <2>. QED  BY <1>4, <2>1, <2>2, <2>3, EmptyRing DEF SetLineCoding, ParaInit, NewEpoch, TypeOK
<1>5. CASE ClearHalt
  BY <1>5 DEF ClearHalt, TypeOK, ringVars, sendVars, dmaVars
<1>6. CASE SetHalt
  BY <1>6 DEF SetHalt, TypeOK, ringVars, sendVars, dmaVars, ghostVars
<1>7. CASE TxSeesTC
  BY <1>7 DEF TxSeesTC, TypeOK, ringVars, sendVars, usbVars, dmaVars, ghostVars
<1>8. CASE TxComplete
  <2>1. /\ Sub16(curLen, Moved) \in 0 .. W16 - 1
        /\ Add16(curPtr, Moved) \in 0 .. W16 - 1
        /\ Sub16(remainNum, 1) \in 0 .. W16 - 1
    BY Width16 DEF TypeOK, Moved
  <2>2. WrapNum(dealNum) \in Slots
    BY DEF TypeOK, Slots, WrapNum
  <2>3. Free \in [seq : Nat, len : 0 .. PackSize]
    BY DEF Free
  <2>4. packLen' \in [Slots -> 0 .. PackSize] /\ store' \in [Slots -> [seq : Nat, len : 0 .. PackSize]]
    BY <1>8, <2>3 DEF TxComplete, TypeOK
  <2>5. /\ dealNum' \in Slots /\ remainNum' \in 0 .. W16 - 1
        /\ sent' \in Nat /\ off' \in Nat
    BY <1>8, <2>1, <2>2 DEF TxComplete, TypeOK
  <2>6. /\ ep2' \in {"ACK", "NAK", "STALL"} /\ stopFlag' \in {0, 1}
        /\ forced' \in 0 .. 3
    BY <1>8 DEF TxComplete, TypeOK
  <2>. QED  BY <1>8, <2>1, <2>4, <2>5, <2>6 DEF TxComplete, TypeOK
<1>9. CASE TxSeesWork
  BY <1>9 DEF TxSeesWork, TypeOK, ringVars, sendVars, usbVars, dmaVars, ghostVars
<1>10. CASE TxLoad
  <2>1. dealNum * PackSize \in 0 .. W16 - 1 /\ packLen[dealNum] \in 0 .. W16 - 1
    BY SlotBytes DEF TypeOK
  <2>. QED  BY <1>10, <2>1
            DEF TxLoad, TypeOK, ringVars, usbVars, dmaVars, ghostVars
<1>11. CASE TxProgram
  <2>1. /\ dmaReq' \in BOOLEAN /\ tc' \in BOOLEAN /\ shifting' \in BOOLEAN
        /\ live' \in BOOLEAN /\ raced' \in BOOLEAN
    BY <1>11 DEF TxProgram, TypeOK
  <2>2. cntr' \in 0 .. W16 - 1 /\ maddr' \in Nat
    BY <1>11 DEF TxProgram, TypeOK
  <2>. QED  BY <1>11, <2>1, <2>2 DEF TxProgram, TypeOK, ringVars, sendVars, usbVars
<1>12. CASE TxSetFlag
  BY <1>12 DEF TxSetFlag, TypeOK, ringVars, usbVars, dmaVars, ghostVars
<1>13. CASE DmaByte
  BY <1>13 DEF DmaByte, TypeOK, ringVars, sendVars, usbVars
<1>14. CASE UartIdle
  BY <1>14 DEF UartIdle, TypeOK, ringVars, sendVars, usbVars, ghostVars
<1>15. CASE UNCHANGED vars
  BY <1>15 DEF vars, TypeOK, ringVars, sendVars, usbVars, dmaVars, ghostVars
<1>. QED  BY <1>1, <1>2, <1>3, <1>4, <1>5, <1>6, <1>7, <1>8, <1>9, <1>10, <1>11,
             <1>12, <1>13, <1>14, <1>15 DEF Next, MainLoop, Hardware, Control

THEOREM TypeCorrect == Spec => []TypeOK
BY TypeInit, TypeStep, PTL DEF Spec
----------------------------------------------------------------------------
(* The inductive invariant holds initially. *)
LEMMA InvInit == Init => IInv
<1>. SUFFICES ASSUME Init PROVE IInv
  OBVIOUS
<1>1. TypeOK
  BY TypeInit
<1>2. FlowControl
  BY NumMaxAssumption DEF Init, FlowControl, Pending
<1>3. RingContents
  BY SlotStep, EmptyRing, NumMaxAssumption DEF Init, RingContents, SlotAt
<1>4. Sending
  BY DEF Init, Sending, Flying
<1>. QED  BY <1>1, <1>2, <1>3, <1>4 DEF IInv

(* A re-initialisation that finds the main loop elsewhere starts afresh. *)
LEMMA Restart ==
  ASSUME TypeOK, ParaInit, NewEpoch, ~raced', rxLen' = NoRx,
         ep2' = "ACK", uep2dma' = 0, pc' = pc
  PROVE  FlowControl' /\ RingContents' /\ Sending'
<1>1. pc = "top"
  BY DEF NewEpoch
<1>2. FlowControl'
  BY NumMaxAssumption DEF ParaInit, NewEpoch, FlowControl, Pending
<1>3. SlotFrom(0, 0) = 0
  BY SlotStep, EmptyRing, NumMaxAssumption
<1>4. RingContents'
  BY <1>3 DEF ParaInit, NewEpoch, RingContents, SlotAt
<1>5. Sending'
  BY <1>1 DEF ParaInit, NewEpoch, Sending, Flying
<1>. QED  BY <1>2, <1>4, <1>5

(* Outside a re-initialisation what is no longer Calm stays so. *)
LEMMA CalmBefore ==
  ASSUME TypeOK, Next, ~BusReset, ~SetLineCoding, Calm'
  PROVE  Calm
<1>1. CASE SieOut \/ IsrOut
  BY <1>1 DEF SieOut, IsrOut, Calm, ghostVars
<1>2. CASE ClearHalt \/ SetHalt
  BY <1>2 DEF ClearHalt, SetHalt, Calm, ghostVars, TypeOK
<1>3. CASE TxComplete
  BY <1>3 DEF TxComplete, Calm, TypeOK
<1>4. CASE TxSeesTC \/ TxSeesWork \/ TxLoad \/ TxProgram \/ TxSetFlag
  BY <1>4 DEF TxSeesTC, TxSeesWork, TxLoad, TxProgram, TxSetFlag, Calm, ghostVars
<1>5. CASE DmaByte \/ UartIdle
  BY <1>5 DEF DmaByte, UartIdle, Calm, ghostVars
<1>. QED  BY <1>1, <1>2, <1>3, <1>4, <1>5 DEF Next, MainLoop, Hardware, Control
----------------------------------------------------------------------------
(* The endpoint stores a packet behind the backlog. *)
LEMMA SieOutStep ==
  ASSUME TypeOK, FlowControl, RingContents, Sending, SieOut, Calm
  PROVE  FlowControl' /\ RingContents' /\ Sending'
<1>. USE NumMaxAssumption
<1>1. /\ rxLen = NoRx /\ rxLen' \in 0 .. PackSize /\ rxLen' # NoRx
      /\ got' = got + 1
      /\ store' = [store EXCEPT ![loadNum] = [seq |-> got + 1, len |-> rxLen']]
      /\ UNCHANGED <<loadNum, dealNum, remainNum, packLen, uep2dma, sent>>
  BY LensAssumption DEF SieOut, RingContents, ringVars, NoRx
<1>2. remainNum < NumMax
  BY <1>1 DEF SieOut, FlowControl, TypeOK, Calm, Pending
<1>3. FlowControl'
  BY <1>1 DEF SieOut, FlowControl, TypeOK, Calm, Pending, NoRx
<1>4. \A k \in 0 .. NumMax - 1 : k < remainNum =>
        SlotFrom(dealNum, k) # loadNum /\ SlotFrom(dealNum, k) \in Slots
  <2>. TAKE k \in 0 .. NumMax - 1
  <2>. HAVE k < remainNum
  <2>1. remainNum \in 0 .. NumMax - 1 /\ dealNum \in Slots
    BY <1>2 DEF TypeOK
  <2>. QED  BY <2>1, SlotDistinct, SlotStep DEF RingContents, SlotAt
<1>5. RingContents'
  <2>1. \A k \in 0 .. NumMax - 1 : k < remainNum =>
          store'[SlotFrom(dealNum, k)] = store[SlotFrom(dealNum, k)]
    BY <1>1, <1>4 DEF TypeOK
  <2>2. store'[loadNum] = [seq |-> got', len |-> rxLen']
    BY <1>1 DEF TypeOK
  <2>. QED  BY <1>1, <2>1, <2>2 DEF RingContents, SlotAt
<1>6. Sending'
  BY DEF SieOut, Sending, Flying, ringVars, sendVars, dmaVars
<1>. QED  BY <1>3, <1>5, <1>6

(* The handler puts the stored packet on the books. *)
LEMMA IsrOutStep ==
  ASSUME TypeOK, FlowControl, RingContents, Sending, IsrOut, Calm
  PROVE  FlowControl' /\ RingContents' /\ Sending'
<1>. USE NumMaxAssumption
<1>1. /\ rxLen \in 0 .. PackSize /\ rxLen # NoRx /\ rxLen' = NoRx
      /\ packLen' = [packLen EXCEPT ![loadNum] = rxLen]
      /\ loadNum' = WrapNum(loadNum) /\ uep2dma' = WrapNum(loadNum)
      /\ UNCHANGED <<dealNum, got, store, sent, forced, pc>>
      /\ UNCHANGED <<txFlag, curLen, curPtr, cntr, maddr, dmaReq, off, live>>
  BY DEF IsrOut, TypeOK, NoRx, ghostVars, sendVars, dmaVars
<1>2. remainNum < NumMax /\ remainNum' = remainNum + 1
  <2>1. remainNum < NumMax
    BY <1>1 DEF FlowControl, TypeOK, Calm, Pending
  <2>. QED  BY <2>1, WordSize DEF IsrOut, TypeOK, Add16
<1>3. FlowControl'
  <2>1. Pending = 1 /\ Pending' = 0
    BY <1>1 DEF Pending
  <2>2. got' = sent' + remainNum' + Pending'
    BY <1>1, <1>2, <2>1 DEF FlowControl, TypeOK
  <2>3. CASE remainNum' >= PauseAt /\ ep2' = "NAK" /\ stopFlag' = 1
    BY <1>1, <1>2, <2>1, <2>2, <2>3 DEF FlowControl, TypeOK, PauseAt
  <2>4. CASE remainNum' < PauseAt /\ UNCHANGED <<ep2, stopFlag>>
    BY <1>1, <1>2, <2>1, <2>2, <2>4 DEF FlowControl, TypeOK, PauseAt
  <2>. QED  BY <2>3, <2>4 DEF IsrOut
<1>4. remainNum \in 0 .. NumMax - 1 /\ dealNum \in Slots
  BY <1>2 DEF TypeOK
<1>5. \A k \in 0 .. NumMax - 1 : k < remainNum =>
        SlotFrom(dealNum, k) # loadNum /\ SlotFrom(dealNum, k) \in Slots
  BY <1>4, SlotDistinct, SlotStep DEF RingContents, SlotAt
<1>6. SlotFrom(dealNum, remainNum) = loadNum
  BY DEF RingContents, SlotAt
<1>7. RingContents'
  <2>1. loadNum' = SlotFrom(dealNum, remainNum + 1)
    BY <1>1, <1>4, <1>6, SlotStep
  <2>2. ASSUME NEW k \in 0 .. NumMax - 1, k < remainNum + 1
        PROVE  store[SlotFrom(dealNum, k)]
                 = [seq |-> sent + 1 + k, len |-> packLen'[SlotFrom(dealNum, k)]]
    <3>1. CASE k < remainNum
      <4>1. packLen'[SlotFrom(dealNum, k)] = packLen[SlotFrom(dealNum, k)]
        BY <1>1, <1>5, <3>1 DEF TypeOK
      <4>. QED  BY <3>1, <4>1 DEF RingContents, SlotAt
    <3>2. CASE k = remainNum
      <4>1. got = sent + 1 + k
        BY <1>1, <3>2 DEF FlowControl, Pending, TypeOK
      <4>2. packLen'[loadNum] = rxLen
        BY <1>1 DEF TypeOK
      <4>. QED  BY <1>1, <1>6, <3>2, <4>1, <4>2 DEF RingContents
    <3>. QED  BY <2>2, <1>4, <3>1, <3>2
  <2>. QED  BY <1>1, <1>2, <2>1, <2>2 DEF RingContents, SlotAt
<1>8. Sending'
  <2>1. remainNum > 0 => packLen'[dealNum] = packLen[dealNum]
    BY <1>1, <1>4, <1>5, SlotStep DEF TypeOK
  <2>2. Flying' <=> Flying
    BY <1>1 DEF Flying
  <2>3. remainNum > 0 => remainNum' > 0
    BY <1>2, <1>4
  <2>4. live' = live /\ dmaReq' = dmaReq
    BY <1>1
  <2>5. CASE Flying
    BY <1>1, <2>1, <2>2, <2>3, <2>5 DEF Sending
  <2>6. CASE ~Flying
    BY <1>1, <2>1, <2>2, <2>3, <2>6 DEF Sending
  <2>. QED  BY <2>5, <2>6
<1>. QED  BY <1>3, <1>7, <1>8

(* CLEAR_FEATURE and SET_FEATURE touch the response of the endpoint only. *)
LEMMA HaltStep ==
  ASSUME TypeOK, FlowControl, RingContents, Sending, ClearHalt \/ SetHalt, Calm'
  PROVE  FlowControl' /\ RingContents' /\ Sending'
<1>1. FlowControl'
  BY NumMaxAssumption
     DEF ClearHalt, SetHalt, FlowControl, Pending, TypeOK, Calm, ringVars, ghostVars
<1>2. RingContents'
  BY DEF ClearHalt, SetHalt, RingContents, SlotAt, ringVars, ghostVars
<1>3. Sending'
  BY DEF ClearHalt, SetHalt, Sending, Flying, ringVars, sendVars, dmaVars, ghostVars
<1>. QED  BY <1>1, <1>2, <1>3
----------------------------------------------------------------------------
(* Steps that leave the ring and the endpoint alone. *)
RingKept == UNCHANGED <<ringVars, usbVars, got, store, sent, forced>>

LEMMA KeepRing ==
  ASSUME FlowControl, RingContents, RingKept
  PROVE  FlowControl' /\ RingContents'
BY DEF RingKept, FlowControl, RingContents, Pending, SlotAt, ringVars, usbVars

(* The main loop looks at the flags and chooses a branch. *)
LEMMA BranchStep ==
  ASSUME TypeOK, Sending, TxSeesTC \/ TxSeesWork
  PROVE  RingKept /\ Sending'
<1>1. RingKept
  BY DEF TxSeesTC, TxSeesWork, RingKept, ghostVars
<1>2. /\ UNCHANGED <<txFlag, curLen, curPtr, cntr, maddr, dmaReq, off, live>>
      /\ UNCHANGED <<remainNum, dealNum, packLen>>
  BY DEF TxSeesTC, TxSeesWork, sendVars, dmaVars, ghostVars, ringVars
<1>3. CASE TxSeesTC
  <2>1. pc = "top" /\ txFlag = 1 /\ pc' = "complete" /\ Flying /\ Flying'
    BY <1>2, <1>3 DEF TxSeesTC, Flying
  <2>. QED  BY <1>1, <1>2, <2>1 DEF Sending
<1>4. CASE TxSeesWork
  <2>1. /\ pc = "top" /\ txFlag = 0 /\ pc' = "load" /\ ~Flying /\ ~Flying'
        /\ remainNum > 0
    BY <1>2, <1>4 DEF TxSeesWork, Flying, TypeOK
  <2>. QED  BY <1>1, <1>2, <2>1 DEF Sending
<1>. QED  BY <1>3, <1>4

(* The packet at the head is taken up, or what is left of it. *)
LEMMA TxLoadStep ==
  ASSUME TypeOK, Sending, TxLoad
  PROVE  RingKept /\ Sending'
<1>1. RingKept
  BY DEF TxLoad, RingKept, ghostVars
<1>2. /\ UNCHANGED <<txFlag, cntr, maddr, dmaReq, off, live>>
      /\ UNCHANGED <<remainNum, dealNum, packLen>>
      /\ pc = "load" /\ pc' = "program"
  BY DEF TxLoad, dmaVars, ghostVars, ringVars
<1>3. ~Flying /\ ~Flying' /\ txFlag = 0 /\ remainNum > 0
  BY <1>2 DEF Sending, Flying
<1>4. packLen[dealNum] \in 0 .. PackSize /\ dealNum * PackSize \in Nat
  BY SlotBytes DEF TypeOK
<1>5. CASE curLen = 0
  <2>1. curLen' = packLen[dealNum] /\ curPtr' = dealNum * PackSize /\ off = 0
    BY <1>2, <1>3, <1>5 DEF TxLoad, Sending
  <2>2. /\ curLen' <= packLen[dealNum] /\ off = packLen[dealNum] - curLen'
        /\ curPtr' = dealNum * PackSize + off
    BY <1>4, <2>1, PackSizeAssumption
  <2>. QED  BY <1>1, <1>2, <1>3, <2>2 DEF Sending
<1>6. CASE curLen # 0
  <2>1. UNCHANGED <<curLen, curPtr>>
    BY <1>6 DEF TxLoad
  <2>. QED  BY <1>1, <1>2, <1>3, <1>6, <2>1 DEF Sending
<1>. QED  BY <1>5, <1>6

(* The DMA is given the rest of the packet, from the byte that is due. *)
LEMMA TxProgramStep ==
  ASSUME TypeOK, Sending, TxProgram
  PROVE  RingKept /\ Sending'
<1>1. RingKept
  BY DEF TxProgram, RingKept
<1>2. /\ UNCHANGED <<txFlag, curLen, curPtr, off, remainNum, dealNum, packLen>>
      /\ pc = "program" /\ pc' = "flag" /\ maddr' = curPtr /\ cntr' = curLen
  BY DEF TxProgram, sendVars, ringVars
<1>3. live' /\ dmaReq' /\ Flying'
  BY DEF TxProgram, Flying
<1>4. ~Flying /\ txFlag = 0 /\ remainNum > 0
  BY <1>2 DEF Sending, Flying
<1>5. /\ curLen <= packLen[dealNum] /\ off = packLen[dealNum] - curLen
      /\ curPtr = dealNum * PackSize + off
  BY <1>2, <1>4 DEF Sending
<1>6. /\ curLen \in Nat /\ curPtr \in Nat /\ curLen <= curLen
      /\ curPtr = curPtr + (curLen - curLen)
  BY WordSize DEF TypeOK
<1>. QED  BY <1>1, <1>2, <1>3, <1>4, <1>5, <1>6 DEF Sending

(* Tx_Flag records the program. *)
LEMMA TxSetFlagStep ==
  ASSUME TypeOK, Sending, TxSetFlag
  PROVE  RingKept /\ Sending'
<1>1. RingKept
  BY DEF TxSetFlag, RingKept, ghostVars
<1>2. /\ UNCHANGED <<curLen, curPtr, cntr, maddr, dmaReq, off, live>>
      /\ UNCHANGED <<remainNum, dealNum, packLen>>
      /\ pc = "flag" /\ pc' = "top" /\ txFlag' = 1
  BY DEF TxSetFlag, dmaVars, ghostVars, ringVars
<1>3. Flying /\ Flying'
  BY <1>2 DEF Flying
<1>. QED  BY <1>1, <1>2, <1>3 DEF Sending

(* The DMA moves the byte that is due; a stale program moves none of ours. *)
LEMMA DmaByteStep ==
  ASSUME TypeOK, Sending, DmaByte
  PROVE  RingKept /\ Sending'
<1>1. RingKept
  BY DEF DmaByte, RingKept
<1>2. /\ UNCHANGED <<txFlag, curLen, curPtr, remainNum, dealNum, packLen, pc>>
      /\ cntr' = cntr - 1 /\ maddr' = maddr + 1 /\ cntr > 0
  BY DEF DmaByte, sendVars, ringVars
<1>3. (Flying' <=> Flying) /\ (dmaReq' <=> dmaReq) /\ (live' <=> live) /\ dmaReq
  BY <1>2 DEF DmaByte, Flying
<1>4. CASE Flying
  <2>1. live /\ off' = off + 1
    BY <1>4 DEF DmaByte, Sending
  <2>2. packLen[dealNum] \in 0 .. PackSize
    BY DEF TypeOK
  <2>3. /\ cntr' <= curLen /\ maddr' = curPtr + (curLen - cntr')
        /\ off' = packLen[dealNum] - cntr'
    BY <1>2, <1>4, <2>1, <2>2, WordSize, PackSizeAssumption DEF Sending, TypeOK
  <2>. QED  BY <1>1, <1>2, <1>3, <1>4, <2>1, <2>3 DEF Sending
<1>5. CASE ~Flying
  <2>1. ~live /\ off' = off
    BY <1>3, <1>5 DEF DmaByte, Sending
  <2>. QED  BY <1>1, <1>2, <1>3, <1>5, <2>1 DEF Sending
<1>. QED  BY <1>4, <1>5

LEMMA UartIdleStep ==
  ASSUME TypeOK, Sending, UartIdle
  PROVE  RingKept /\ Sending'
<1>1. RingKept
  BY DEF UartIdle, RingKept, ghostVars
<1>2. /\ UNCHANGED <<txFlag, curLen, curPtr, cntr, maddr, dmaReq, off, live>>
      /\ UNCHANGED <<remainNum, dealNum, packLen, pc>>
  BY DEF UartIdle, sendVars, ghostVars, ringVars
<1>. QED  BY <1>1, <1>2 DEF Sending, Flying
----------------------------------------------------------------------------
(* The completion branch: the program ended, or an early TC cut it short. *)
LEMMA TxCompleteStep ==
  ASSUME TypeOK, FlowControl, RingContents, Sending, TxComplete, Calm
  PROVE  FlowControl' /\ RingContents' /\ Sending'
<1>. USE NumMaxAssumption
<1>1. /\ pc' = "top" /\ txFlag' = 0 /\ ~dmaReq' /\ ~Flying' /\ Flying
      /\ UNCHANGED <<loadNum, uep2dma, rxLen, got>>
  BY DEF TxComplete, Sending, Flying
<1>2. /\ dealNum \in Slots /\ remainNum \in 1 .. NumMax
      /\ packLen[dealNum] \in 0 .. PackSize /\ packLen \in [Slots -> 0 .. PackSize]
      /\ store \in [Slots -> [seq : Nat, len : 0 .. PackSize]]
      /\ cntr \in Nat /\ curLen \in Nat /\ curPtr \in Nat /\ sent \in Nat /\ got \in Nat
  BY <1>1, WordSize DEF TypeOK, Sending, FlowControl
<1>3. /\ cntr <= curLen /\ curLen <= packLen[dealNum]
      /\ curPtr = dealNum * PackSize + (packLen[dealNum] - curLen)
      /\ off = packLen[dealNum] - cntr
  BY <1>1 DEF Sending
<1>4. curLen' = cntr /\ curPtr' = curPtr + (curLen - cntr)
  <2>1. Moved = curLen - cntr
    BY <1>2, <1>3 DEF Moved, Sub16
  <2>2. Sub16(curLen, Moved) = cntr
    BY <2>1, <1>2, <1>3 DEF Sub16
  <2>3. dealNum * PackSize \in Nat /\ dealNum * PackSize + PackSize < W16
    BY <1>2, SlotBytes
  <2>4. Add16(curPtr, Moved) = curPtr + (curLen - cntr)
    BY <2>1, <2>3, <1>2, <1>3, PackSizeAssumption, WordSize DEF Add16
  <2>. QED  BY <2>2, <2>1, <2>4 DEF TxComplete
<1>5. CASE cntr = 0
  <2>1. /\ packLen' = [packLen EXCEPT ![dealNum] = 0]
        /\ dealNum' = WrapNum(dealNum) /\ remainNum' = remainNum - 1
        /\ sent' = sent + 1 /\ off' = 0 /\ curLen' = 0
        /\ store' = [store EXCEPT ![dealNum] = Free]
    BY <1>2, <1>4, <1>5 DEF TxComplete, Sub16
  <2>2. FlowControl'
    BY <1>1, <1>2, <2>1 DEF TxComplete, FlowControl, Pending, Calm, ResumeBelow, TypeOK
  <2>3. Sending'
    BY <1>1, <2>1 DEF Sending
  <2>4. loadNum' = SlotFrom(dealNum', remainNum')
    <3>1. remainNum - 1 \in 0 .. NumMax - 1 /\ (remainNum - 1) + 1 = remainNum
      BY <1>2
    <3>2. SlotFrom(WrapNum(dealNum), remainNum - 1) = SlotFrom(dealNum, remainNum)
      BY <3>1, <1>2, SlotStep
    <3>. QED  BY <1>1, <2>1, <3>2 DEF RingContents, SlotAt
  <2>5. ASSUME NEW k \in 0 .. NumMax - 1, k < remainNum'
        PROVE  store'[SlotFrom(dealNum', k)]
                 = [seq |-> sent' + 1 + k, len |-> packLen'[SlotFrom(dealNum', k)]]
    <3>1. /\ k + 1 \in 0 .. NumMax - 1 /\ k + 1 < remainNum /\ k + 1 # 0
          /\ 0 \in 0 .. NumMax - 1
      BY <1>2, <2>1, <2>5
    <3>2. /\ SlotFrom(dealNum', k) = SlotFrom(dealNum, k + 1)
          /\ SlotFrom(dealNum, k + 1) \in Slots
          /\ SlotFrom(dealNum, 0) = dealNum
      BY <1>2, <2>1, <2>5, <3>1, SlotStep
    <3>3. SlotFrom(dealNum, k + 1) # dealNum
      BY <1>2, <3>1, <3>2, SlotDistinct
    <3>4. /\ store'[SlotFrom(dealNum, k + 1)] = store[SlotFrom(dealNum, k + 1)]
          /\ packLen'[SlotFrom(dealNum, k + 1)] = packLen[SlotFrom(dealNum, k + 1)]
      BY <1>2, <2>1, <3>2, <3>3
    <3>5. store[SlotFrom(dealNum, k + 1)]
            = [seq |-> sent + 1 + (k + 1), len |-> packLen[SlotFrom(dealNum, k + 1)]]
      BY <3>1 DEF RingContents, SlotAt
    <3>6. sent + 1 + (k + 1) = sent' + 1 + k
      BY <1>2, <2>1
    <3>. QED  BY <3>2, <3>4, <3>5, <3>6
  <2>6. rxLen' # NoRx => store'[loadNum'] = [seq |-> got', len |-> rxLen']
    <3>. SUFFICES ASSUME rxLen # NoRx
                  PROVE  store'[loadNum] = [seq |-> got, len |-> rxLen]
      BY <1>1
    <3>1. remainNum \in 0 .. NumMax - 1 /\ remainNum # 0 /\ 0 \in 0 .. NumMax - 1
      BY <1>2 DEF FlowControl, Pending, Calm, TypeOK
    <3>2. SlotFrom(dealNum, remainNum) # dealNum /\ loadNum = SlotFrom(dealNum, remainNum)
      BY <1>2, <3>1, SlotStep, SlotDistinct DEF RingContents, SlotAt
    <3>. QED  BY <1>2, <2>1, <3>2 DEF RingContents, TypeOK
  <2>7. RingContents'
    BY <1>1, <2>4, <2>5, <2>6 DEF RingContents, SlotAt
  <2>. QED  BY <2>2, <2>3, <2>7
<1>6. CASE cntr # 0
  <2>1. /\ UNCHANGED <<packLen, dealNum, remainNum, sent, off, store>>
        /\ curLen' = cntr
    BY <1>4, <1>6 DEF TxComplete
  <2>2. FlowControl'
    BY <1>1, <1>2, <2>1 DEF TxComplete, FlowControl, Pending, Calm, ResumeBelow, TypeOK
  <2>3. RingContents'
    BY <1>1, <2>1 DEF RingContents, SlotAt
  <2>4. /\ curLen' <= packLen'[dealNum'] /\ off' = packLen'[dealNum'] - curLen'
        /\ remainNum' > 0
    BY <1>2, <1>3, <2>1
  <2>5. curPtr' = dealNum' * PackSize + off'
    <3>1. dealNum * PackSize \in Nat
      BY <1>2, SlotBytes
    <3>. QED  BY <1>2, <1>3, <1>4, <2>1, <3>1, PackSizeAssumption
  <2>6. Sending'
    BY <1>1, <1>6, <2>1, <2>4, <2>5 DEF Sending
  <2>. QED  BY <2>2, <2>3, <2>6
<1>. QED  BY <1>5, <1>6
----------------------------------------------------------------------------
(* The invariant is inductive. *)
LEMMA InvStep == IInv /\ [Next]_vars => IInv'
<1>. SUFFICES ASSUME IInv, [Next]_vars PROVE IInv'
  OBVIOUS
<1>1. TypeOK /\ TypeOK'
  BY TypeStep DEF IInv
<1>. SUFFICES ASSUME Calm' PROVE FlowControl' /\ RingContents' /\ Sending'
  BY <1>1 DEF IInv
<1>2. CASE BusReset \/ SetLineCoding
  <2>1. /\ ParaInit /\ NewEpoch /\ rxLen' = NoRx
        /\ ep2' = "ACK" /\ uep2dma' = 0 /\ pc' = pc
    BY <1>2 DEF BusReset, SetLineCoding
  <2>. QED  BY <1>1, <2>1, Restart DEF Calm
<1>3. CASE Next /\ ~BusReset /\ ~SetLineCoding
  <2>1. Calm /\ FlowControl /\ RingContents /\ Sending
    BY <1>1, <1>3, CalmBefore DEF IInv
  <2>2. CASE SieOut
    BY <1>1, <2>1, <2>2, SieOutStep
  <2>3. CASE IsrOut
    BY <1>1, <2>1, <2>3, IsrOutStep
  <2>4. CASE ClearHalt \/ SetHalt
    BY <1>1, <2>1, <2>4, HaltStep
  <2>5. CASE TxComplete
    BY <1>1, <2>1, <2>5, TxCompleteStep
  <2>6. CASE TxSeesTC \/ TxSeesWork
    BY <1>1, <2>1, <2>6, BranchStep, KeepRing
  <2>7. CASE TxLoad
    BY <1>1, <2>1, <2>7, TxLoadStep, KeepRing
  <2>8. CASE TxProgram
    BY <1>1, <2>1, <2>8, TxProgramStep, KeepRing
  <2>9. CASE TxSetFlag
    BY <1>1, <2>1, <2>9, TxSetFlagStep, KeepRing
  <2>10. CASE DmaByte
    BY <1>1, <2>1, <2>10, DmaByteStep, KeepRing
  <2>11. CASE UartIdle
    BY <1>1, <2>1, <2>11, UartIdleStep, KeepRing
  <2>. QED  BY <1>3, <2>2, <2>3, <2>4, <2>5, <2>6, <2>7, <2>8, <2>9, <2>10, <2>11
            DEF Next, MainLoop, Hardware, Control
<1>4. CASE UNCHANGED vars
  <2>1. Calm
    BY <1>4 DEF vars, ghostVars, Calm
  <2>2. RingKept /\ FlowControl /\ RingContents /\ Sending
    BY <1>4, <2>1 DEF vars, ghostVars, RingKept, IInv
  <2>3. Sending'
    BY <1>4, <2>2 DEF vars, ringVars, sendVars, dmaVars, ghostVars, Sending, Flying
  <2>. QED  BY <2>2, <2>3, KeepRing
<1>. QED  BY <1>2, <1>3, <1>4

LEMMA InvAlways == Spec => []IInv
BY InvInit, InvStep, PTL DEF Spec
----------------------------------------------------------------------------
(***************************************************************************)
(* The waiting slots hold exactly the accepted packets that are not dealt, *)
(* in order and with their lengths (IsrOut against TxComplete).            *)
(***************************************************************************)
THEOREM RingIsFaithful == Spec => []RingHoldsBacklog
<1>1. IInv => RingHoldsBacklog
  <2>. SUFFICES ASSUME IInv, Calm PROVE RingHoldsBacklog
    BY DEF RingHoldsBacklog
  <2>1. /\ remainNum <= NumMax
        /\ got = sent + remainNum + (IF rxLen # NoRx THEN 1 ELSE 0)
    BY DEF IInv, FlowControl, Pending
  <2>2. ASSUME NEW k \in 0 .. NumMax - 1, k < remainNum
        PROVE  /\ store[SlotAt(k)].seq = sent + 1 + k
               /\ store[SlotAt(k)].len = packLen[SlotAt(k)]
    <3>1. store[SlotAt(k)] = [seq |-> sent + 1 + k, len |-> packLen[SlotAt(k)]]
      BY <2>2 DEF IInv, RingContents
    <3>. QED  BY <3>1
  <2>. QED  BY <2>1, <2>2 DEF RingHoldsBacklog, Pending
<1>. QED  BY <1>1, InvAlways, PTL

(***************************************************************************)
(* An open endpoint never points at a slot that waits to be sent: the      *)
(* slots kept back by the pause threshold of the handler are enough for    *)
(* two forced reopenings, whatever the number of slots.                    *)
(***************************************************************************)
THEOREM OpenEndpointIsSafe == Spec => []NeverOverwrites
<1>1. IInv => NeverOverwrites
  <2>. SUFFICES ASSUME IInv, Calm, ep2 = "ACK", rxLen = NoRx,
                       NEW k \in 0 .. NumMax - 1, k < remainNum
                PROVE  SlotAt(k) # uep2dma
    BY DEF NeverOverwrites
  <2>1. /\ uep2dma = SlotFrom(dealNum, remainNum) /\ dealNum \in Slots
        /\ remainNum \in 0 .. NumMax - 1
    BY NumMaxAssumption DEF IInv, TypeOK, FlowControl, RingContents, SlotAt, Pending, Calm
  <2>. QED  BY <2>1, SlotDistinct DEF SlotAt
<1>. QED  BY <1>1, InvAlways, PTL

(***************************************************************************)
(* The DMA always stands at the byte that is due, across early TCs and     *)
(* the resumption of a packet that was cut.                                *)
(***************************************************************************)
THEOREM DmaIsOnTheByteDue == Spec => []DmaFetchesNextByte
<1>1. IInv => DmaFetchesNextByte
  <2>. SUFFICES ASSUME IInv, Calm, live, dmaReq, cntr > 0
                PROVE  /\ maddr = dealNum * PackSize + off
                       /\ store[dealNum].seq = sent + 1
                       /\ off + cntr = store[dealNum].len
    BY DEF DmaFetchesNextByte
  <2>1. Flying
    BY DEF IInv, Sending
  <2>2. /\ remainNum > 0 /\ dealNum \in Slots /\ 0 \in 0 .. NumMax - 1
        /\ packLen[dealNum] \in 0 .. PackSize /\ dealNum * PackSize \in Nat
        /\ cntr \in Nat /\ curLen \in Nat /\ off \in Nat /\ sent \in Nat
    BY <2>1, SlotBytes, NumMaxAssumption, WordSize DEF IInv, TypeOK, Sending
  <2>3. store[dealNum] = [seq |-> sent + 1 + 0, len |-> packLen[dealNum]]
    BY <2>2, SlotStep DEF IInv, RingContents, SlotAt
  <2>4. maddr = dealNum * PackSize + off /\ off + cntr = packLen[dealNum]
    BY <2>1, <2>2, PackSizeAssumption DEF IInv, Sending
  <2>. QED  BY <2>2, <2>3, <2>4
<1>. QED  BY <1>1, InvAlways, PTL

(***************************************************************************)
(* A packet leaves the ring only when its last byte was handed to the      *)
(* UART, and packets leave in the order they came.                         *)
(***************************************************************************)
THEOREM PacketsLeaveWhole == Spec => PacketsSentWhole
<1>1. IInv /\ [Next]_vars =>
        [(Calm /\ sent' # sent /\ sent' # 0) =>
           off = store[dealNum].len /\ store[dealNum].seq = sent + 1]_vars
  <2>. SUFFICES ASSUME IInv, Next, Calm, sent' # sent, sent' # 0
                PROVE  off = store[dealNum].len /\ store[dealNum].seq = sent + 1
    OBVIOUS
  <2>1. TxComplete
    BY DEF Next, MainLoop, Hardware, Control, SieOut, IsrOut, BusReset, SetLineCoding,
           NewEpoch, ClearHalt, SetHalt, TxSeesTC, TxSeesWork, TxLoad, TxProgram,
           TxSetFlag, DmaByte, UartIdle, ghostVars
  <2>2. Flying /\ curLen' = 0
    BY <2>1 DEF TxComplete, IInv, Sending, Flying
  <2>3. /\ dealNum \in Slots /\ packLen[dealNum] \in 0 .. PackSize
        /\ cntr \in Nat /\ curLen \in Nat /\ sent \in Nat /\ remainNum > 0
        /\ cntr <= curLen /\ off = packLen[dealNum] - cntr
    BY <2>2, WordSize DEF IInv, TypeOK, Sending
  <2>4. cntr = 0
    BY <2>1, <2>2, <2>3 DEF TxComplete, Moved, Sub16
  <2>5. store[dealNum] = [seq |-> sent + 1 + 0, len |-> packLen[dealNum]]
    BY <2>3, SlotStep, NumMaxAssumption DEF IInv, RingContents, SlotAt
  <2>. QED  BY <2>3, <2>4, <2>5
<1>. QED  BY <1>1, InvAlways, PTL DEF Spec, PacketsSentWhole
----------------------------------------------------------------------------
(***************************************************************************)
(* CdcDownlink implements PacketPipe: what waits, as a sequence.           *)
(***************************************************************************)
Numbered == [num : Nat, len : 0 .. PackSize]
Waits    == IF Calm THEN remainNum + Pending ELSE 0

LEMMA BacklogIs ==
  ASSUME IInv
  PROVE  /\ Waits \in 0 .. NumMax /\ Dealt \in Nat
         /\ Backlog \in Seq(Numbered) /\ Len(Backlog) = Waits
         /\ \A k \in 1 .. Waits :
              Backlog[k] = [num |-> Dealt + k, len |-> store[SlotAt(k - 1)].len]
<1>. USE NumMaxAssumption
<1>1. CASE ~Calm
  <2>1. Waits = 0 /\ Dealt = 0 /\ Backlog = <<>>
    BY <1>1 DEF Waits, Dealt, Backlog
  <2>. QED  BY <2>1, EmptySeq
<1>2. CASE Calm
  <2>1. TypeOK /\ FlowControl /\ RingContents
    BY <1>2 DEF IInv
  <2>2. Waits = remainNum + Pending /\ Dealt = sent
    BY <1>2 DEF Waits, Dealt
  <2>3. /\ remainNum \in 0 .. NumMax /\ Pending \in {0, 1} /\ sent \in Nat /\ dealNum \in Slots
        /\ store \in [Slots -> [seq : Nat, len : 0 .. PackSize]]
    BY <2>1 DEF TypeOK, FlowControl, Pending
  <2>4. Waits \in 0 .. NumMax
    BY <1>2, <2>1, <2>2, <2>3 DEF FlowControl, Calm, TypeOK, Pending
  <2>. DEFINE one(k) == [num |-> store[SlotAt(k - 1)].seq,
                         len |-> IF k <= remainNum THEN packLen[SlotAt(k - 1)] ELSE rxLen]
  <2>5. ASSUME NEW k \in 1 .. Waits
        PROVE  /\ one(k) = [num |-> sent + k, len |-> store[SlotAt(k - 1)].len]
               /\ one(k) \in Numbered
    <3>1. k - 1 \in 0 .. NumMax - 1 /\ sent + k \in Nat
      BY <2>3, <2>4
    <3>2. store[SlotAt(k - 1)] \in [seq : Nat, len : 0 .. PackSize]
      BY <2>3, <3>1, SlotStep DEF SlotAt
    <3>3. CASE k <= remainNum
      <4>1. store[SlotAt(k - 1)] = [seq |-> sent + 1 + (k - 1), len |-> packLen[SlotAt(k - 1)]]
        BY <2>1, <2>3, <3>1, <3>3 DEF RingContents
      <4>. QED  BY <2>3, <3>1, <3>2, <3>3, <4>1 DEF Numbered
    <3>4. CASE ~(k <= remainNum)
      <4>1. k = remainNum + 1 /\ rxLen # NoRx /\ k - 1 = remainNum
        BY <2>2, <2>3, <3>4 DEF Pending
      <4>2. got = sent + k
        BY <2>1, <2>3, <4>1 DEF FlowControl, Pending
      <4>3. SlotAt(k - 1) = loadNum
        BY <2>1, <4>1 DEF RingContents
      <4>4. store[SlotAt(k - 1)] = [seq |-> sent + k, len |-> rxLen]
        BY <2>1, <4>1, <4>2, <4>3 DEF RingContents
      <4>. QED  BY <3>1, <3>2, <3>4, <4>4 DEF Numbered
    <3>. QED  BY <3>3, <3>4
  <2>6. Backlog = [k \in 1 .. Waits |-> one(k)]
    BY <1>2, <2>2 DEF Backlog
  <2>. HIDE DEF one
  <2>. QED  BY <2>2, <2>3, <2>4, <2>5, <2>6
<1>. QED  BY <1>1, <1>2

LEMMA BacklogNext ==
  ASSUME IInv'
  PROVE  /\ Waits' \in 0 .. NumMax
         /\ Backlog' \in Seq(Numbered) /\ Len(Backlog') = Waits'
         /\ \A k \in 1 .. Waits' :
              Backlog'[k] = [num |-> Dealt' + k, len |-> store'[SlotAt(k - 1)'].len]
<1>1. (/\ Waits \in 0 .. NumMax
       /\ Backlog \in Seq(Numbered) /\ Len(Backlog) = Waits
       /\ \A k \in 1 .. Waits :
            Backlog[k] = [num |-> Dealt + k, len |-> store[SlotAt(k - 1)].len])'
  BY BacklogIs, PTL
<1>. QED  BY <1>1

(* A step that moves no packet. *)
LEMMA PipeRests ==
  ASSUME IInv, IInv', Dealt' = Dealt, Waits' = Waits,
         \A k \in 1 .. Waits : store'[SlotAt(k - 1)'].len = store[SlotAt(k - 1)].len
  PROVE  UNCHANGED Pipe!pipeVars
<1>1. \A k \in 1 .. Waits : Backlog'[k] = Backlog[k]
  BY BacklogIs, BacklogNext
<1>2. Backlog' = Backlog
  BY <1>1, BacklogIs, BacklogNext, SeqEqual
<1>. QED  BY <1>2 DEF Pipe!pipeVars

(* A step that brings one. *)
LEMMA PipeAccepts ==
  ASSUME IInv, IInv', Dealt' = Dealt, NEW w, w = Waits, Waits' = w + 1, w < NumMax,
         NEW n \in Lens, store'[SlotAt(w)'].len = n,
         \A k \in 1 .. Waits : store'[SlotAt(k - 1)'].len = store[SlotAt(k - 1)].len
  PROVE  Pipe!Accept
<1>. DEFINE e == [num |-> Dealt + Waits + 1, len |-> n]
<1>1. /\ Waits \in Nat /\ Backlog \in Seq(Numbered) /\ Len(Backlog) = Waits
      /\ Backlog' \in Seq(Numbered) /\ Len(Backlog') = Waits + 1
  BY BacklogIs, BacklogNext
<1>2. e \in Numbered
  BY <1>1, LensAssumption, BacklogIs DEF Numbered
<1>3. w + 1 \in 1 .. Waits' /\ (w + 1) - 1 = w
  BY <1>1
<1>4. Backlog'[Waits + 1] = e
  <2>1. Backlog'[w + 1] = [num |-> Dealt' + (w + 1), len |-> store'[SlotAt((w + 1) - 1)'].len]
    BY <1>3, BacklogNext
  <2>2. SlotAt((w + 1) - 1)' = SlotAt(w)'
    BY <1>3 DEF SlotAt
  <2>3. Dealt' + (w + 1) = Dealt + Waits + 1
    BY <1>1, BacklogIs
  <2>4. Backlog'[w + 1] = [num |-> Dealt + Waits + 1, len |-> n]
    BY <2>1, <2>2, <2>3
  <2>. QED  BY <2>4
<1>5. ASSUME NEW k \in 1 .. Waits PROVE Backlog'[k] = Backlog[k]
  <2>1. k \in 1 .. Waits'
    BY <1>1
  <2>2. Backlog'[k] = [num |-> Dealt' + k, len |-> store'[SlotAt(k - 1)'].len]
    BY <2>1, BacklogNext
  <2>3. Backlog[k] = [num |-> Dealt + k, len |-> store[SlotAt(k - 1)].len]
    BY BacklogIs
  <2>. QED  BY <2>2, <2>3
<1>. HIDE DEF e
<1>6. /\ Append(Backlog, e) \in Seq(Numbered) /\ Len(Append(Backlog, e)) = Waits + 1
      /\ \A k \in 1 .. Waits : Append(Backlog, e)[k] = Backlog[k]
      /\ Append(Backlog, e)[Waits + 1] = e
  BY <1>1, <1>2, AppendProperties
<1>7. \A k \in 1 .. Waits + 1 : Backlog'[k] = Append(Backlog, e)[k]
  <2>1. \A k \in 1 .. Waits + 1 : k \in 1 .. Waits \/ k = Waits + 1
    BY <1>1
  <2>. QED  BY <1>4, <1>5, <1>6, <2>1
<1>8. Backlog' = Append(Backlog, e)
  BY <1>1, <1>6, <1>7, SeqEqual
<1>9. e = [num |-> Dealt + Len(Backlog) + 1, len |-> n]
  BY <1>1 DEF e
<1>. QED  BY <1>1, <1>8, <1>9 DEF Pipe!Accept

(* A step that gives one away. *)
LEMMA PipeDelivers ==
  ASSUME IInv, IInv', Waits >= 1, Dealt' = Dealt + 1, Waits' = Waits - 1,
         \A k \in 1 .. Waits - 1 : store'[SlotAt(k - 1)'].len = store[SlotAt(k)].len
  PROVE  Pipe!Deliver
<1>1. /\ Waits \in Nat /\ Dealt \in Nat /\ Backlog \in Seq(Numbered) /\ Len(Backlog) = Waits
      /\ Backlog' \in Seq(Numbered) /\ Len(Backlog') = Waits - 1
  BY BacklogIs, BacklogNext
<1>2. Backlog # <<>> /\ Head(Backlog).num = Dealt + 1
  <2>1. Backlog[1] = [num |-> Dealt + 1, len |-> store[SlotAt(1 - 1)].len]
    BY <1>1, BacklogIs
  <2>. QED  BY <1>1, <2>1
<1>3. /\ Tail(Backlog) \in Seq(Numbered) /\ Len(Tail(Backlog)) = Waits - 1
      /\ \A k \in 1 .. Waits - 1 : Tail(Backlog)[k] = Backlog[k + 1]
  BY <1>1, <1>2, HeadTailProperties
<1>4. ASSUME NEW k \in 1 .. Waits - 1 PROVE Backlog'[k] = Tail(Backlog)[k]
  <2>1. k + 1 \in 1 .. Waits /\ (k + 1) - 1 = k /\ (Dealt + 1) + k = Dealt + (k + 1)
    BY <1>1
  <2>2. Backlog[k + 1] = [num |-> Dealt + (k + 1), len |-> store[SlotAt((k + 1) - 1)].len]
    BY <2>1, BacklogIs
  <2>3. Backlog'[k] = [num |-> Dealt' + k, len |-> store'[SlotAt(k - 1)'].len]
    BY BacklogNext
  <2>. QED  BY <1>3, <2>1, <2>2, <2>3
<1>5. Backlog' = Tail(Backlog)
  BY <1>1, <1>3, <1>4, SeqEqual
<1>. QED  BY <1>2, <1>5 DEF Pipe!Deliver

(* Steps that leave ring and endpoint alone. *)
LEMMA RingLeftAlone ==
  ASSUME IInv, IInv', Calm' = Calm, UNCHANGED <<dealNum, remainNum, rxLen, store, sent>>
  PROVE  UNCHANGED Pipe!pipeVars
<1>1. Dealt' = Dealt /\ Waits' = Waits
  BY DEF Dealt, Waits, Pending
<1>2. \A k : SlotAt(k)' = SlotAt(k)
  BY DEF SlotAt
<1>. QED  BY <1>1, <1>2, PipeRests

LEMMA SieOutAccepts ==
  ASSUME IInv, IInv', SieOut, Calm, Calm'
  PROVE  Pipe!Accept
<1>. USE NumMaxAssumption
<1>1. TypeOK /\ FlowControl /\ RingContents
  BY DEF IInv
<1>2. /\ rxLen = NoRx /\ rxLen' \in Lens /\ rxLen' # NoRx /\ uep2dma = loadNum
      /\ store' = [store EXCEPT ![loadNum] = [seq |-> got + 1, len |-> rxLen']]
      /\ UNCHANGED <<loadNum, dealNum, remainNum, sent>>
  BY <1>1, LensAssumption DEF SieOut, RingContents, ringVars, NoRx
<1>3. remainNum \in 0 .. NumMax - 1 /\ dealNum \in Slots /\ loadNum \in Slots
  BY <1>1, <1>2 DEF SieOut, FlowControl, TypeOK, Calm, Pending
<1>4. Dealt' = Dealt /\ Waits = remainNum /\ Waits' = Waits + 1 /\ Waits < NumMax
  BY <1>2, <1>3 DEF Dealt, Waits, Pending
<1>0. PICK w : w = Waits
  OBVIOUS
<1>5. \A k : SlotAt(k)' = SlotAt(k)
  BY <1>2 DEF SlotAt
<1>6. SlotAt(w) = loadNum /\ store'[loadNum].len = rxLen'
  BY <1>0, <1>1, <1>2, <1>4 DEF RingContents, TypeOK
<1>7. ASSUME NEW k \in 1 .. Waits
      PROVE  store'[SlotAt(k - 1)'].len = store[SlotAt(k - 1)].len
  <2>1. k - 1 \in 0 .. NumMax - 1 /\ k - 1 # remainNum
    BY <1>3, <1>4
  <2>2. SlotAt(k - 1) # loadNum /\ SlotAt(k - 1) \in Slots
    BY <1>0, <1>3, <1>4, <1>6, <2>1, SlotDistinct, SlotStep DEF SlotAt
  <2>3. store'[SlotAt(k - 1)] = store[SlotAt(k - 1)]
    BY <1>1, <1>2, <2>2 DEF TypeOK
  <2>. QED  BY <1>5, <2>3
<1>. QED  BY <1>0, <1>2, <1>4, <1>5, <1>6, <1>7, PipeAccepts

LEMMA IsrOutRests ==
  ASSUME IInv, IInv', IsrOut, Calm, Calm'
  PROVE  UNCHANGED Pipe!pipeVars
<1>1. TypeOK /\ FlowControl
  BY DEF IInv
<1>2. /\ rxLen # NoRx /\ rxLen' = NoRx /\ remainNum' = Add16(remainNum, 1)
      /\ UNCHANGED <<dealNum, got, store, sent, forced>>
  BY DEF IsrOut, ghostVars
<1>3. remainNum' = remainNum + 1 /\ remainNum \in Nat
  BY <1>1, <1>2, NumMaxAssumption, WordSize DEF FlowControl, TypeOK, Calm, Pending, Add16
<1>4. Dealt' = Dealt /\ Waits' = Waits
  BY <1>2, <1>3 DEF Dealt, Waits, Pending
<1>5. \A k : SlotAt(k)' = SlotAt(k)
  BY <1>2 DEF SlotAt
<1>. QED  BY <1>2, <1>4, <1>5, PipeRests

LEMMA TxCompleteDelivers ==
  ASSUME IInv, IInv', TxComplete, Calm, Calm'
  PROVE  Pipe!Deliver \/ UNCHANGED Pipe!pipeVars
<1>. USE NumMaxAssumption
<1>1. TypeOK /\ FlowControl /\ RingContents /\ Sending
  BY DEF IInv
<1>2. /\ dealNum \in Slots /\ remainNum \in 1 .. NumMax /\ sent \in Nat /\ Pending \in {0, 1}
      /\ store \in [Slots -> [seq : Nat, len : 0 .. PackSize]] /\ rxLen' = rxLen
  BY <1>1, WordSize DEF TxComplete, TypeOK, Sending, Flying, FlowControl, Pending
<1>3. CASE UNCHANGED <<packLen, dealNum, remainNum, sent, off, store>>
  BY <1>2, <1>3, RingLeftAlone
<1>4. CASE /\ dealNum' = WrapNum(dealNum) /\ remainNum' = Sub16(remainNum, 1) /\ sent' = sent + 1
           /\ store' = [store EXCEPT ![dealNum] = Free]
  <2>1. remainNum' = remainNum - 1
    BY <1>2, <1>4 DEF Sub16
  <2>2. Dealt' = Dealt + 1 /\ Waits' = Waits - 1 /\ Waits >= 1
    BY <1>2, <1>4, <2>1 DEF Dealt, Waits, Pending
  <2>3. ASSUME NEW k \in 1 .. Waits - 1
        PROVE  store'[SlotAt(k - 1)'].len = store[SlotAt(k)].len
    <3>1. Waits \in 0 .. NumMax
      BY BacklogIs
    <3>2. /\ k - 1 \in 0 .. NumMax - 1 /\ k \in 0 .. NumMax - 1 /\ (k - 1) + 1 = k /\ k # 0
          /\ 0 \in 0 .. NumMax - 1
      BY <3>1
    <3>3. SlotFrom(WrapNum(dealNum), k - 1) = SlotFrom(dealNum, k)
      BY <1>2, <3>2, SlotStep
    <3>4. SlotFrom(dealNum, k) # dealNum /\ SlotFrom(dealNum, k) \in Slots
      BY <1>2, <3>2, SlotStep, SlotDistinct
    <3>. QED  BY <1>2, <1>4, <3>3, <3>4 DEF SlotAt
  <2>. QED  BY <2>2, <2>3, PipeDelivers
<1>. QED  BY <1>3, <1>4 DEF TxComplete

(***************************************************************************)
(* The downlink is a pipe of packets for every ring and every set of       *)
(* lengths: the handler of endpoint 2, the main loop that interrupts cut   *)
(* and the DMA implement one queue, begun anew by a re-initialisation.     *)
(***************************************************************************)
THEOREM DownlinkIsPipe == Spec => IsSerialPipe
<1>1. Init => Pipe!Init
  <2>. SUFFICES ASSUME Init PROVE Backlog = <<>> /\ Dealt = 0
    BY DEF Pipe!Init
  <2>1. IInv
    BY InvInit
  <2>2. Waits = 0 /\ Dealt = 0
    BY DEF Init, Waits, Dealt, Pending
  <2>. QED  BY <2>1, <2>2, BacklogIs, EmptySeq
<1>2. IInv /\ IInv' /\ [Next]_vars => [Pipe!Next \/ BeginsAnew]_(Pipe!pipeVars)
  <2>. SUFFICES ASSUME IInv, IInv', [Next]_vars
                PROVE  Pipe!Next \/ BeginsAnew \/ UNCHANGED Pipe!pipeVars
    OBVIOUS
  <2>1. ASSUME Waits' = 0, Dealt' = 0 PROVE Pipe!Init'
    <3>1. Backlog' = <<>>
      BY <2>1, BacklogNext, EmptySeq
    <3>. QED  BY <2>1, <3>1 DEF Pipe!Init
  <2>2. CASE BusReset \/ SetLineCoding
    <3>1. Waits' = 0 /\ Dealt' = 0
      BY <2>2 DEF BusReset, SetLineCoding, ParaInit, NewEpoch, Waits, Dealt, Pending
    <3>. QED  BY <2>1, <2>2, <3>1 DEF BeginsAnew
  <2>3. CASE Calm /\ ~Calm'
    <3>1. Waits' = 0 /\ Dealt' = 0
      BY <2>3 DEF Waits, Dealt
    <3>. QED  BY <2>1, <2>3, <3>1 DEF BeginsAnew
  <2>4. CASE Next /\ ~BusReset /\ ~SetLineCoding /\ ~Calm
    <3>1. ~Calm'
      BY <2>4, CalmBefore DEF IInv
    <3>2. Waits = 0 /\ Waits' = 0 /\ Dealt = 0 /\ Dealt' = 0
      BY <2>4, <3>1 DEF Waits, Dealt
    <3>. QED  BY <3>2, PipeRests
  <2>5. CASE Next /\ ~BusReset /\ ~SetLineCoding /\ Calm /\ Calm'
    <3>1. CASE SieOut
      BY <2>5, <3>1, SieOutAccepts DEF Pipe!Next
    <3>2. CASE IsrOut
      BY <2>5, <3>2, IsrOutRests
    <3>3. CASE TxComplete
      BY <2>5, <3>3, TxCompleteDelivers DEF Pipe!Next
    <3>4. CASE ClearHalt \/ SetHalt \/ Hardware
      BY <2>5, <3>4, RingLeftAlone DEF ClearHalt, SetHalt, Hardware, DmaByte, UartIdle, ringVars,
                                       usbVars, ghostVars
    <3>5. CASE TxSeesTC \/ TxSeesWork \/ TxLoad \/ TxProgram \/ TxSetFlag
      BY <2>5, <3>5, RingLeftAlone DEF TxSeesTC, TxSeesWork, TxLoad, TxProgram, TxSetFlag,
                                       ringVars, usbVars, ghostVars
    <3>. QED  BY <2>5, <3>1, <3>2, <3>3, <3>4, <3>5 DEF Next, MainLoop, Control
  <2>6. CASE UNCHANGED vars
    <3>1. Calm' = Calm
      BY <2>6 DEF vars, ghostVars, Calm
    <3>. QED  BY <2>6, <3>1, RingLeftAlone DEF vars, ringVars, usbVars, ghostVars
  <2>. QED  BY <2>2, <2>3, <2>4, <2>5, <2>6
<1>. QED  BY <1>1, <1>2, InvAlways, PTL DEF Spec, IsSerialPipe
----------------------------------------------------------------------------
(***************************************************************************)
(* MscBot: the inductive invariant.                                        *)
(***************************************************************************)
Places  == 0 .. Packs - 1
Stored  == {<<"cbw">>} \cup
           {Pack(x[1], x[2], x[3]) : x \in (Versions \cup {0}) \X SectorIds \X Places}
Packets == Stored \cup {None, <<"zlp">>, <<"info">>}
                  \cup {<<"csw", x[1], x[2]>> : x \in (0 .. 3) \X (0 .. 2)}

Lengths == 0 .. Sectors * Packs

Device == [flags : SUBSET {"up", "down", "csw"}, len : Lengths,
           lba : 0 .. Sectors, count : Places, status : 0 .. 2, tag : 0 .. 3,
           isRead : BOOLEAN, buf : [Places -> Stored \cup {None}],
           disk : [SectorIds -> [Places -> Stored]],
           res : {"ack", "nak", "stall"}, tog : 0 .. 1, busy : BOOLEAN, packet : Packets,
           rxRes : {"ack", "nak", "stall"}, rxTog : 0 .. 1]

WellFormed(c) ==
  /\ c.op \in {"read", "write", "info", "ready", "mode", "page", "unknown", "garbled"}
  /\ c.dir \in {"in", "out", "none"} /\ c.tag \in 1 .. 3
  /\ c.lba \in SectorIds /\ c.n \in 0 .. Sectors - c.lba /\ c.ver \in Versions \cup {0}
  /\ c.op = "read"  => c.dir = "in" /\ c.n >= 1
  /\ c.op = "write" => c.dir = "out" /\ c.n >= 1 /\ c.ver \in Versions
  /\ c.op = "info"  => c.dir = "in"
  /\ c.op \in {"ready", "garbled"} => c.dir = "none"
  /\ c.op \in {"mode", "page"} => c.dir \in {"in", "none"}

Live == phase \in {"cbw", "out", "in", "csw"}

(* The command block is on its way, or is not: its first copy is dealt with. *)
Undealt == phase = "cbw" /\ hostOut = dev.rxTog

Shape ==
  /\ dev \in Device
  /\ {hostOut, hostIn} \subseteq 0 .. 1
  /\ phase \in {"idle", "cbw", "out", "in", "csw", "reset", "clearIn", "clearOut"}
  /\ done \in Lengths /\ faults \in 0 .. MaxFaults /\ clean \in BOOLEAN
  /\ kept \in [SectorIds -> Versions \cup {0, Unsure}]
  /\ Live => WellFormed(cmd)
  /\ phase \in {"in", "out"} => done < Length(cmd)

(* The endpoints, the flags and the host's phase. *)
Endpoints ==
  /\ dev.res = "ack" => dev.busy
  /\ dev.res = "nak" => dev.tog = hostIn
  /\ hostOut # dev.rxTog => phase \in {"cbw", "out", "reset", "clearIn", "clearOut"}
  /\ dev.res = "stall" =>
       /\ phase \notin {"idle", "clearOut"} /\ ~Undealt
       /\ Live => cmd.op \in {"page", "unknown", "garbled"}

Flags ==
  /\ Undealt => dev.tag # cmd.tag
  /\ phase \in {"clearIn", "clearOut"} => dev.flags = {}
  /\ "up" \in dev.flags /\ dev.res = "ack" =>
       phase \in {"cbw", "out", "in", "csw", "reset"} /\ ~Undealt
  /\ {"up", "down"} \subseteq dev.flags => dev.res # "ack"
  /\ Live /\ dev.packet[1] = "csw" /\ dev.packet[2] = cmd.tag =>
       dev.flags = {} /\ dev.tag = cmd.tag

(* What is left of a transfer ends where a sector ends, on the disk. *)
Left(d, e) == d.len >= 1 /\ d.count + d.len = (e - d.lba) * Packs
Room ==
  /\ "up" \in dev.flags /\ dev.isRead => \E e \in dev.lba + 1 .. Sectors : Left(dev, e)
  /\ "down" \in dev.flags =>
       /\ \E e \in dev.lba + 1 .. Sectors :
            Left(dev, e) /\ \A s \in dev.lba .. e - 1 : kept[s] = Unsure
       /\ \A i \in 0 .. dev.count - 1 : dev.buf[i] \in Stored

(* Where the host stands, a packet it has not heard about counted. *)
Ahead     == phase \in {"cbw", "out"} /\ hostOut # dev.rxTog
HostPhase == IF Ahead THEN PhaseAfterOut ELSE phase
HostDone  == IF Ahead THEN DoneAfterOut ELSE done

(* The command at hand is a WRITE the device has understood. *)
Writing == Live /\ cmd.op = "write" /\ dev.tag = cmd.tag

(* Packs of the command at hand that are through. *)
Through == (dev.lba - cmd.lba) * Packs + dev.count

Disk ==
  /\ AcknowledgedIsStored
  /\ Live /\ cmd.op = "write" => \A s \in SectorsOf(cmd) : kept[s] = Unsure
  /\ Writing => dev.flags = {} \/ "down" \in dev.flags
  /\ Writing /\ dev.packet[1] = "csw" /\ dev.packet[2] = cmd.tag /\ dev.packet[3] = 0 =>
       \A s \in SectorsOf(cmd) : dev.disk[s] = Sector(cmd.ver, s)
  /\ Writing /\ "down" \in dev.flags =>
       /\ Left(dev, cmd.lba + cmd.n) /\ cmd.lba <= dev.lba
       /\ HostPhase = "out" /\ HostDone = Through
       /\ \A i \in 0 .. dev.count - 1 : dev.buf[i] = Pack(cmd.ver, dev.lba, i)
       /\ \A s \in cmd.lba .. dev.lba - 1 : dev.disk[s] = Sector(cmd.ver, s)
  /\ clean /\ Live /\ "down" \in dev.flags => Writing

Reports(st) == cmd.op = "mode" \/ st = StatusOf(cmd)

(* The pack in the endpoint, and whether the host has it already. *)
Offering(k) ==
  /\ k \in 0 .. Length(cmd) - 1 /\ cmd.dir = "in"
  /\ IF dev.tog = hostIn
     THEN HostPhase = "in" /\ HostDone = k /\ IsDue(dev.packet, "in", k)
     ELSE IF k + 1 < Length(cmd) THEN phase = "in" /\ done = k + 1 ELSE phase = "csw"

Offers ==
  clean /\ Live =>
    /\ dev.busy => dev.res = "ack"
    /\ dev.flags \in {{}, {"csw"}, {"up", "csw"}, {"down", "csw"}}
    /\ Undealt => dev.flags = {}
    /\ dev.flags # {} => dev.tag = cmd.tag /\ Reports(dev.status)
    /\ dev.flags = {} /\ dev.res = "ack" =>
         /\ HostPhase = "csw" /\ dev.tog = hostIn
         /\ dev.packet[1] = "csw" /\ dev.packet[2] = cmd.tag /\ Reports(dev.packet[3])
    /\ dev.flags = {"csw"} /\ dev.res = "ack" => Offering(Length(cmd) - 1)
    /\ dev.flags = {"up", "csw"} =>
         /\ cmd.op = "read" /\ dev.res = "ack" /\ dev.isRead
         /\ Left(dev, cmd.lba + cmd.n) /\ cmd.lba <= dev.lba
         /\ Offering(Through - 1)
    /\ dev.flags = {"down", "csw"} => cmd.op = "write" /\ dev.res = "nak"

DiskInv == Shape /\ Endpoints /\ Flags /\ Room /\ Disk /\ Offers
----------------------------------------------------------------------------
LEMMA Amounts ==
  /\ Sectors \in Nat /\ Packs \in Nat /\ 0 < Sectors /\ 0 < Packs /\ MaxFaults \in Nat
  /\ Versions \subseteq Nat /\ 0 \notin Versions
BY DiskAssumption

LEMMA PacketsAre ==
  /\ None \in Packets /\ <<"zlp">> \in Packets /\ <<"info">> \in Packets /\ Stored \subseteq Packets
  /\ \A t \in 0 .. 3, st \in 0 .. 2 : <<"csw", t, st>> \in Packets
  /\ <<"cbw">> \in Stored
  /\ \A v \in Versions \cup {0}, s \in SectorIds, i \in Places : Pack(v, s, i) \in Stored
  /\ \A p \in Stored : p[1] \in {"data", "cbw"}
  /\ None[1] = "none"
<1>1. \A t \in 0 .. 3, st \in 0 .. 2 : <<"csw", t, st>> \in Packets
  <2>. SUFFICES ASSUME NEW t \in 0 .. 3, NEW st \in 0 .. 2 PROVE <<"csw", t, st>> \in Packets
    OBVIOUS
  <2>1. <<t, st>> \in (0 .. 3) \X (0 .. 2) /\ <<t, st>>[1] = t /\ <<t, st>>[2] = st
    OBVIOUS
  <2>2. <<"csw", t, st>> \in {<<"csw", x[1], x[2]>> : x \in (0 .. 3) \X (0 .. 2)}
    BY <2>1
  <2>. QED  BY <2>2 DEF Packets
<1>2. \A v \in Versions \cup {0}, s \in SectorIds, i \in Places : Pack(v, s, i) \in Stored
  <2>. SUFFICES ASSUME NEW v \in Versions \cup {0}, NEW s \in SectorIds, NEW i \in Places
                PROVE  Pack(v, s, i) \in Stored
    OBVIOUS
  <2>. DEFINE all == (Versions \cup {0}) \X SectorIds \X Places
  <2>1. <<v, s, i>> \in all /\ <<v, s, i>>[1] = v /\ <<v, s, i>>[2] = s /\ <<v, s, i>>[3] = i
    OBVIOUS
  <2>2. Pack(v, s, i) \in {Pack(x[1], x[2], x[3]) : x \in all}
    BY <2>1 DEF Pack
  <2>. QED  BY <2>2 DEF Stored
<1>3. \A p \in Stored : p[1] \in {"data", "cbw"}
  BY DEF Stored, Pack
<1>. QED  BY <1>1, <1>2, <1>3 DEF Packets, Stored, None

(***************************************************************************)
(* What an operation leaves alone, and what endpoint 2 gets.               *)
(***************************************************************************)
SameWork(r, d)    == r.flags = d.flags /\ r.len = d.len /\ r.lba = d.lba /\ r.count = d.count
SameCommand(r, d) == r.status = d.status /\ r.tag = d.tag /\ r.isRead = d.isRead
SameDisk(r, d)    == r.buf = d.buf /\ r.disk = d.disk
SameIn(r, d)      == r.res = d.res /\ r.tog = d.tog /\ r.busy = d.busy /\ r.packet = d.packet
SameOut(r, d)     == r.rxRes = d.rxRes /\ r.rxTog = d.rxTog
Sends(r, d, p)    ==
  /\ r.tog = d.tog /\ r.busy
  /\ IF d.busy THEN r.res = d.res /\ r.packet = d.packet ELSE r.res = "ack" /\ r.packet = p

LEMMA DataUpIs ==
  ASSUME NEW d \in Device, NEW p \in Packets, NEW r, r = DataUp(d, p)
  PROVE  /\ r \in Device
         /\ SameWork(r, d) /\ SameCommand(r, d) /\ SameDisk(r, d) /\ SameOut(r, d)
         /\ Sends(r, d, p)
BY DEF DataUp, Device, SameWork, SameCommand, SameDisk, SameOut, Sends

LEMMA UpCswIs ==
  ASSUME NEW d \in Device, NEW r, r = UpCsw(d)
  PROVE  /\ r \in Device
         /\ r.flags = {} /\ r.len = d.len /\ r.lba = d.lba /\ r.count = d.count
         /\ SameCommand(r, d) /\ SameDisk(r, d) /\ SameOut(r, d)
         /\ Sends(r, d, <<"csw", d.tag, d.status>>)
<1>. DEFINE e == [d EXCEPT !.flags = {}]
<1>1. /\ e \in Device /\ e.flags = {} /\ e.len = d.len /\ e.lba = d.lba /\ e.count = d.count
      /\ SameCommand(e, d) /\ SameDisk(e, d) /\ SameIn(e, d) /\ SameOut(e, d)
  BY DEF Device, SameCommand, SameDisk, SameIn, SameOut
<1>2. <<"csw", d.tag, d.status>> \in Packets
  BY PacketsAre DEF Device
<1>3. r = DataUp(e, <<"csw", d.tag, d.status>>)
  BY DEF UpCsw
<1>. HIDE DEF e
<1>. QED  BY <1>1, <1>2, <1>3, DataUpIs DEF SameWork, SameCommand, SameDisk, SameIn, SameOut, Sends

(* One pack more, within a transfer that ends where a sector ends. *)
LEMMA Advance ==
  ASSUME NEW lba \in 0 .. Sectors, NEW count \in Places, NEW len \in Nat,
         NEW e \in lba + 1 .. Sectors, len >= 1, count + len = (e - lba) * Packs,
         NEW lba2, lba2 = IF count + 1 = Packs THEN lba + 1 ELSE lba,
         NEW count2, count2 = IF count + 1 = Packs THEN 0 ELSE count + 1
  PROVE  /\ lba2 \in 0 .. Sectors /\ count2 \in Places /\ len - 1 \in Nat
         /\ lba \in SectorIds
         /\ count2 + (len - 1) = (e - lba2) * Packs
         /\ len - 1 >= 1 => e \in lba2 + 1 .. Sectors
         /\ len = 1 => count + 1 = Packs /\ lba2 = e
         /\ \A a \in Nat : (lba2 - a) * Packs + count2 = (lba - a) * Packs + count + 1
<1>1. lba \in Nat /\ e \in Nat /\ count \in Nat /\ count < Packs
  BY Amounts DEF Places
<1>2. lba2 \in 0 .. Sectors /\ count2 \in Places /\ len - 1 \in Nat /\ lba \in SectorIds
  BY <1>1, Amounts DEF Places, SectorIds
<1>3. (e - (lba + 1)) * Packs = (e - lba) * Packs - Packs
  BY <1>1, Amounts
<1>4. count2 + (len - 1) = (e - lba2) * Packs
  BY <1>1, <1>3, Amounts
<1>5. e = lba + 1 => (e - lba) * Packs = Packs
  BY <1>1, Amounts
<1>6. e > lba + 1 => (e - lba) * Packs >= Packs + Packs
  <2>. SUFFICES ASSUME e > lba + 1 PROVE (e - lba) * Packs >= Packs + Packs
    OBVIOUS
  <2>1. PICK k \in Nat : e = lba + 2 + k
    BY <1>1, e - (lba + 2) \in Nat
  <2>2. (e - lba) * Packs = Packs + Packs + k * Packs
    BY <1>1, <2>1, Amounts
  <2>3. k * Packs \in Nat
    BY <2>1, Amounts
  <2>. QED  BY <2>2, <2>3, Amounts
<1>7. len - 1 >= 1 => e \in lba2 + 1 .. Sectors
  BY <1>1, <1>5, Amounts
<1>8. len = 1 => count + 1 = Packs /\ lba2 = e
  BY <1>1, <1>5, <1>6, Amounts
<1>9. \A a \in Nat : (lba2 - a) * Packs + count2 = (lba - a) * Packs + count + 1
  <2>. SUFFICES ASSUME NEW a \in Nat
                PROVE  (lba2 - a) * Packs + count2 = (lba - a) * Packs + count + 1
    OBVIOUS
  <2>1. (lba + 1 - a) * Packs = (lba - a) * Packs + Packs
    BY <1>1, Amounts
  <2>. QED  BY <1>1, <2>1, Amounts
<1>. QED  BY <1>2, <1>4, <1>7, <1>8, <1>9

LEMMA LengthsFit ==
  /\ Sectors * Packs \in Nat /\ 1 <= Sectors * Packs
  /\ \A n \in 0 .. Sectors : n * Packs \in Lengths
<1>1. ASSUME NEW n \in 0 .. Sectors PROVE n * Packs \in Lengths
  <2>1. PICK k \in Nat : Sectors = n + k
    BY Amounts, Sectors - n \in Nat
  <2>2. Sectors * Packs = n * Packs + k * Packs
    BY <2>1, Amounts
  <2>3. n * Packs \in Nat /\ k * Packs \in Nat
    BY <2>1, Amounts
  <2>. QED  BY <2>2, <2>3 DEF Lengths
<1>2. 1 * Packs \in Lengths /\ 1 * Packs = Packs
  BY <1>1, Amounts DEF Lengths
<1>3. Sectors * Packs \in Nat
  BY Amounts
<1>. QED  BY <1>1, <1>2, <1>3, Amounts DEF Lengths

(* Numbers of a device, and their place in a transfer. *)
LEMMA Numbers ==
  ASSUME NEW d \in Device
  PROVE  /\ d.len \in Nat /\ d.len <= Sectors * Packs /\ d.lba \in 0 .. Sectors
         /\ d.count \in Places /\ d.count \in Nat
BY Amounts, LengthsFit DEF Device, Places, Lengths
----------------------------------------------------------------------------
(***************************************************************************)
(* What the handlers do to the device, field by field.                     *)
(***************************************************************************)

(* One pack is over. *)
Moves(r, d) ==
  /\ r.len = d.len - 1
  /\ r.lba = IF d.count + 1 = Packs THEN d.lba + 1 ELSE d.lba
  /\ r.count = IF d.count + 1 = Packs THEN 0 ELSE d.count + 1

(* What is left of a transfer when one pack is over. *)
LEMMA MovesOn ==
  ASSUME NEW d \in Device, NEW e \in d.lba + 1 .. Sectors, Left(d, e), NEW r, Moves(r, d)
  PROVE  /\ d.lba \in SectorIds /\ d.lba <= r.lba
         /\ d.len > 1 => Left(r, e) /\ e \in r.lba + 1 .. Sectors
         /\ d.len = 1 => d.count + 1 = Packs /\ r.lba = e
         /\ \A a \in Nat : (r.lba - a) * Packs + r.count = (d.lba - a) * Packs + d.count + 1
<1>1. PICK lba \in 0 .. Sectors : lba = d.lba
  BY Numbers
<1>2. PICK count \in Places : count = d.count
  BY Numbers
<1>3. PICK len \in Nat : len = d.len
  BY Numbers
<1>4. /\ lba \in 0 .. Sectors /\ count \in Places /\ len \in Nat
      /\ e \in lba + 1 .. Sectors /\ len >= 1 /\ count + len = (e - lba) * Packs
  BY <1>1, <1>2, <1>3, Zenon DEF Left
<1>5. PICK lba2 : lba2 = IF count + 1 = Packs THEN lba + 1 ELSE lba
  OBVIOUS
<1>6. PICK count2 : count2 = IF count + 1 = Packs THEN 0 ELSE count + 1
  OBVIOUS
<1>7. /\ lba \in SectorIds
      /\ count2 + (len - 1) = (e - lba2) * Packs
      /\ len - 1 >= 1 => e \in lba2 + 1 .. Sectors
      /\ len = 1 => count + 1 = Packs /\ lba2 = e
  BY <1>4, <1>5, <1>6, Advance
<1>12. \A a \in Nat : (lba2 - a) * Packs + count2 = (lba - a) * Packs + count + 1
  <2>. SUFFICES ASSUME NEW a \in Nat
                PROVE  (lba2 - a) * Packs + count2 = (lba - a) * Packs + count + 1
    OBVIOUS
  <2>1. lba \in Nat /\ count \in Nat /\ (lba + 1 - a) * Packs = (lba - a) * Packs + Packs
    BY <1>4, Amounts DEF Places
  <2>. QED  BY <1>5, <1>6, <2>1, Amounts
<1>8. r.lba = lba2 /\ r.count = count2 /\ r.len = len - 1
  BY <1>1, <1>2, <1>3, <1>5, <1>6 DEF Moves
<1>9. lba <= lba2
  BY <1>5
<1>10. d.len > 1 => len - 1 >= 1
  BY <1>3
<1>11. Left(r, e) <=> len - 1 >= 1 /\ count2 + (len - 1) = (e - lba2) * Packs
  BY <1>8, Zenon DEF Left
<1>. QED  BY <1>1, <1>2, <1>3, <1>7, <1>8, <1>9, <1>10, <1>11, <1>12, Zenon

LEMMA UpOnePackIs ==
  ASSUME NEW d \in Device, NEW e \in d.lba + 1 .. Sectors, Left(d, e), NEW r, r = UpOnePack(d)
  PROVE  /\ r \in Device /\ Moves(r, d)
         /\ r.flags = IF d.len = 1 THEN d.flags \ {"up"} ELSE d.flags
         /\ SameCommand(r, d) /\ SameDisk(r, d) /\ SameOut(r, d)
         /\ Sends(r, d, d.disk[d.lba][d.count])
<1>. DEFINE full   == d.count + 1 = Packs
            lba2   == IF full THEN d.lba + 1 ELSE d.lba
            count2 == IF full THEN 0 ELSE d.count + 1
            flags2 == IF d.len = 1 THEN d.flags \ {"up"} ELSE d.flags
            len2   == d.len - 1
            f == [d EXCEPT !.count = count2, !.lba = lba2, !.len = len2, !.flags = flags2]
<1>1. /\ lba2 \in 0 .. Sectors /\ count2 \in Places /\ d.len - 1 \in Nat /\ d.lba \in SectorIds
  BY Advance, Numbers DEF Left
<1>2. d.len - 1 \in Lengths
  BY <1>1, Numbers, LengthsFit DEF Lengths
<1>3. /\ f \in Device /\ Moves(f, d) /\ f.flags = flags2
      /\ SameCommand(f, d) /\ SameDisk(f, d) /\ SameIn(f, d) /\ SameOut(f, d)
  <2>1. flags2 \in SUBSET {"up", "down", "csw"} /\ len2 \in Lengths
    BY <1>2 DEF Device
  <2>2. /\ lba2 = IF d.count + 1 = Packs THEN d.lba + 1 ELSE d.lba
        /\ count2 = IF d.count + 1 = Packs THEN 0 ELSE d.count + 1
    OBVIOUS
  <2>. HIDE DEF full, lba2, count2, flags2, len2
  <2>3. f \in Device
    BY <1>1, <2>1 DEF Device
  <2>4. /\ f.lba = lba2 /\ f.count = count2 /\ f.len = len2 /\ f.flags = flags2
        /\ SameCommand(f, d) /\ SameDisk(f, d) /\ SameIn(f, d) /\ SameOut(f, d)
    BY DEF Device, SameCommand, SameDisk, SameIn, SameOut
  <2>5. Moves(f, d)
    BY <2>2, <2>4 DEF Moves, len2
  <2>. QED  BY <2>3, <2>4, <2>5
<1>4. d.disk[d.lba][d.count] \in Packets
  BY <1>1, PacketsAre DEF Device
<1>5. r = DataUp(f, d.disk[d.lba][d.count])
  BY DEF UpOnePack
<1>. HIDE DEF f
<1>. QED  BY <1>3, <1>4, <1>5, DataUpIs
          DEF Moves, SameWork, SameCommand, SameDisk, SameIn, SameOut, Sends

LEMMA BulkUpIs ==
  ASSUME NEW d \in Device, NEW r, r = BulkUp(d)
  PROVE  /\ r \in Device
         /\ r.len = IF d.len <= 1 THEN 0 ELSE d.len - 1
         /\ r.flags = IF d.len <= 1 THEN d.flags \ {"up"} ELSE d.flags
         /\ r.lba = d.lba /\ r.count = d.count
         /\ SameCommand(r, d) /\ SameDisk(r, d) /\ SameOut(r, d)
         /\ Sends(r, d, IF d.len = 0 THEN <<"zlp">> ELSE <<"info">>)
<1>. DEFINE last == d.len <= 1
            f == [d EXCEPT !.len = IF last THEN 0 ELSE @ - 1,
                           !.flags = IF last THEN @ \ {"up"} ELSE @]
            p == IF d.len = 0 THEN <<"zlp">> ELSE <<"info">>
<1>1. (IF last THEN 0 ELSE d.len - 1) \in Lengths
  BY Numbers, LengthsFit DEF Lengths
<1>2. /\ f \in Device /\ f.lba = d.lba /\ f.count = d.count
      /\ f.len = IF last THEN 0 ELSE d.len - 1
      /\ f.flags = IF last THEN d.flags \ {"up"} ELSE d.flags
      /\ SameCommand(f, d) /\ SameDisk(f, d) /\ SameIn(f, d) /\ SameOut(f, d)
  BY <1>1 DEF Device, SameCommand, SameDisk, SameIn, SameOut
<1>3. p \in Packets
  BY PacketsAre
<1>4. r = DataUp(f, p)
  BY DEF BulkUp
<1>. HIDE DEF f
<1>. QED  BY <1>2, <1>3, <1>4, DataUpIs
          DEF SameWork, SameCommand, SameDisk, SameIn, SameOut, Sends

(* A sector is programmed with its last pack, the status follows the last. *)
LEMMA DownOnePackIs ==
  ASSUME NEW d \in Device, NEW e \in d.lba + 1 .. Sectors, Left(d, e), NEW p \in Stored,
         \A i \in 0 .. d.count - 1 : d.buf[i] \in Stored,
         NEW r, r = DownOnePack(d, p)
  PROVE  /\ r \in Device /\ Moves(r, d)
         /\ r.buf = [d.buf EXCEPT ![d.count] = p]
         /\ r.disk = IF d.count + 1 = Packs THEN [d.disk EXCEPT ![d.lba] = r.buf] ELSE d.disk
         /\ SameCommand(r, d) /\ SameOut(r, d)
         /\ d.len > 1 => r.flags = d.flags /\ SameIn(r, d)
         /\ d.len = 1 => r.flags = {} /\ Sends(r, d, <<"csw", d.tag, d.status>>)
<1>. DEFINE full == d.count + 1 = Packs
            buf  == [d.buf EXCEPT ![d.count] = p]
            lba2   == IF full THEN d.lba + 1 ELSE d.lba
            count2 == IF full THEN 0 ELSE d.count + 1
            f == [d EXCEPT !.buf = buf, !.count = IF full THEN 0 ELSE @ + 1, !.len = @ - 1,
                           !.disk = IF full THEN [@ EXCEPT ![d.lba] = buf] ELSE @,
                           !.lba = IF full THEN @ + 1 ELSE @]
<1>1. /\ lba2 \in 0 .. Sectors /\ count2 \in Places /\ d.len - 1 \in Nat /\ d.lba \in SectorIds
      /\ d.len = 1 => full
  BY Advance, Numbers DEF Left
<1>2. d.len - 1 \in Lengths
  BY <1>1, Numbers, LengthsFit DEF Lengths
<1>3. buf \in [Places -> Stored \cup {None}]
  BY DEF Device
<1>4. full => buf \in [Places -> Stored]
  <2>. SUFFICES ASSUME full, NEW i \in Places PROVE buf[i] \in Stored
    BY <1>3
  <2>1. i = d.count \/ i \in 0 .. d.count - 1
    BY Numbers DEF Places
  <2>. QED  BY <2>1 DEF Device
<1>5. (IF full THEN [d.disk EXCEPT ![d.lba] = buf] ELSE d.disk) \in [SectorIds -> [Places -> Stored]]
  BY <1>1, <1>4 DEF Device
<1>6. /\ f \in Device /\ Moves(f, d) /\ f.flags = d.flags
      /\ f.buf = buf /\ f.disk = IF full THEN [d.disk EXCEPT ![d.lba] = buf] ELSE d.disk
      /\ SameCommand(f, d) /\ SameIn(f, d) /\ SameOut(f, d)
  BY <1>1, <1>2, <1>3, <1>5 DEF Device, Moves, SameCommand, SameIn, SameOut
<1>7. r = IF full /\ d.len = 1 THEN UpCsw(f) ELSE f
  BY DEF DownOnePack
<1>. HIDE DEF f, buf
<1>8. CASE d.len = 1
  <2>1. r = UpCsw(f)
    BY <1>1, <1>7, <1>8
  <2>2. /\ r \in Device /\ r.flags = {} /\ r.len = f.len /\ r.lba = f.lba /\ r.count = f.count
        /\ SameCommand(r, f) /\ SameDisk(r, f) /\ SameOut(r, f)
        /\ Sends(r, f, <<"csw", f.tag, f.status>>)
    BY <1>6, <2>1, UpCswIs
  <2>. QED  BY <1>6, <1>8, <2>2 DEF buf, Moves, SameCommand, SameDisk, SameIn, SameOut, Sends
<1>9. CASE d.len # 1
  <2>1. r = f
    BY <1>7, <1>9
  <2>. QED  BY <1>6, <1>9, <2>1 DEF buf
<1>. QED  BY <1>8, <1>9

LEMMA EndpInitIs ==
  ASSUME NEW d \in Device, NEW r, r = EndpInit(d)
  PROVE  /\ r \in Device /\ SameWork(r, d) /\ SameCommand(r, d) /\ SameDisk(r, d)
         /\ r.res = "nak" /\ r.tog = 0 /\ r.packet = None /\ ~r.busy
         /\ r.rxRes = "ack" /\ r.rxTog = 0
<1>1. 0 \in 0 .. 1 /\ None \in Packets
  BY PacketsAre
<1>. QED  BY <1>1 DEF EndpInit, Device, SameWork, SameCommand, SameDisk

LEMMA UdiskResetIs ==
  ASSUME NEW d \in Device, NEW r, r = UdiskReset(d)
  PROVE  /\ r \in Device /\ r.flags = {} /\ r.tag = d.tag
         /\ SameDisk(r, d) /\ SameIn(r, d) /\ SameOut(r, d)
<1>1. 0 \in 0 .. 2 /\ 0 \in Lengths
  BY LengthsFit DEF Lengths
<1>. QED  BY <1>1 DEF UdiskReset, Device, SameDisk, SameIn, SameOut

LEMMA ClearInIs ==
  ASSUME NEW d \in Device, NEW r, r = ClearIn(d)
  PROVE  /\ r \in Device /\ r.tag = d.tag /\ r.status = d.status
         /\ SameDisk(r, d) /\ SameOut(r, d) /\ r.tog = 0
         /\ "csw" \notin d.flags =>
              /\ SameWork(r, d) /\ SameCommand(r, d)
              /\ r.res = "nak" /\ r.packet = None /\ r.busy = d.busy
         /\ "csw" \in d.flags =>
              /\ r.flags = {} /\ r.busy
              /\ IF d.busy THEN r.res = "nak" /\ r.packet = None
                 ELSE r.res = "ack" /\ r.packet = <<"csw", d.tag, d.status>>
<1>. DEFINE f == [d EXCEPT !.res = "nak", !.tog = 0, !.packet = None]
<1>0. 0 \in 0 .. 1 /\ None \in Packets
  BY PacketsAre
<1>1. /\ f \in Device /\ SameWork(f, d) /\ SameCommand(f, d) /\ SameDisk(f, d) /\ SameOut(f, d)
      /\ f.res = "nak" /\ f.tog = 0 /\ f.packet = None /\ f.busy = d.busy
  BY <1>0 DEF Device, SameWork, SameCommand, SameDisk, SameOut
<1>2. r = IF "csw" \in f.flags THEN UpCsw(f) ELSE f
  BY DEF ClearIn, CswIfDue
<1>. HIDE DEF f
<1>3. CASE "csw" \in f.flags
  <2>1. /\ r \in Device /\ r.flags = {} /\ SameCommand(r, f) /\ SameDisk(r, f) /\ SameOut(r, f)
        /\ Sends(r, f, <<"csw", f.tag, f.status>>)
    BY <1>1, <1>2, <1>3, UpCswIs
  <2>. QED  BY <1>1, <1>3, <2>1 DEF SameWork, SameCommand, SameDisk, SameOut, Sends
<1>4. CASE "csw" \notin f.flags
  BY <1>1, <1>2, <1>4 DEF SameWork, SameCommand, SameDisk, SameOut
<1>. QED  BY <1>3, <1>4

LEMMA ClearOutIs ==
  ASSUME NEW d \in Device, d.flags = {}, NEW r, r = ClearOut(d)
  PROVE  /\ r \in Device /\ SameWork(r, d) /\ SameCommand(r, d) /\ SameDisk(r, d) /\ SameIn(r, d)
         /\ r.rxRes = "ack" /\ r.rxTog = 0
<1>. DEFINE f == [d EXCEPT !.rxRes = "ack", !.rxTog = 0]
<1>1. /\ f \in Device /\ SameWork(f, d) /\ SameCommand(f, d) /\ SameDisk(f, d) /\ SameIn(f, d)
      /\ f.rxRes = "ack" /\ f.rxTog = 0
  BY 0 \in 0 .. 1 DEF Device, SameWork, SameCommand, SameDisk, SameIn
<1>2. r = IF "csw" \in f.flags THEN UpCsw(f) ELSE f
  BY DEF ClearOut, CswIfDue
<1>. HIDE DEF f
<1>. QED  BY <1>1, <1>2 DEF SameWork

(* An upload is over, and the next packet is in the endpoint. *)
Answers(r, d, p) == r.tog = 1 - d.tog /\ r.busy /\ r.res = "ack" /\ r.packet = p

LEMMA IsrInIs ==
  ASSUME NEW d \in Device, NEW r, r = IsrEp2In(d),
         "up" \in d.flags /\ d.isRead => \E e \in d.lba + 1 .. Sectors : Left(d, e)
  PROVE  /\ r \in Device /\ SameCommand(r, d) /\ SameDisk(r, d) /\ SameOut(r, d)
         /\ "up" \in d.flags /\ d.isRead =>
              /\ Moves(r, d) /\ r.flags = IF d.len = 1 THEN d.flags \ {"up"} ELSE d.flags
              /\ Answers(r, d, d.disk[d.lba][d.count])
         /\ "up" \in d.flags /\ ~d.isRead =>
              /\ r.flags \in {d.flags, d.flags \ {"up"}} /\ r.lba = d.lba /\ r.count = d.count
              /\ Answers(r, d, IF d.len = 0 THEN <<"zlp">> ELSE <<"info">>)
         /\ "up" \notin d.flags /\ "csw" \in d.flags =>
              r.flags = {} /\ Answers(r, d, <<"csw", d.tag, d.status>>)
         /\ d.flags \cap {"up", "csw"} = {} =>
              /\ SameWork(r, d)
              /\ r.tog = 1 - d.tog /\ ~r.busy /\ r.res = "nak" /\ r.packet = None
<1>. DEFINE f == [d EXCEPT !.res = "nak", !.tog = 1 - @, !.packet = None, !.busy = FALSE]
<1>0. 1 - d.tog \in 0 .. 1 /\ None \in Packets
  BY PacketsAre DEF Device
<1>1. /\ f \in Device /\ SameWork(f, d) /\ SameCommand(f, d) /\ SameDisk(f, d) /\ SameOut(f, d)
      /\ f.res = "nak" /\ f.tog = 1 - d.tog /\ f.packet = None /\ ~f.busy
  BY <1>0 DEF Device, SameWork, SameCommand, SameDisk, SameOut
<1>2. r = InEpDeal(f)
  BY DEF IsrEp2In
<1>. HIDE DEF f
<1>3. CASE "up" \in d.flags /\ d.isRead
  <2>1. r = UpOnePack(f)
    BY <1>1, <1>2, <1>3 DEF InEpDeal, UpData, SameWork, SameCommand
  <2>2. PICK e \in f.lba + 1 .. Sectors : Left(f, e)
    BY <1>1, <1>3 DEF Left, SameWork
  <2>3. /\ r \in Device /\ Moves(r, f)
        /\ r.flags = IF f.len = 1 THEN f.flags \ {"up"} ELSE f.flags
        /\ SameCommand(r, f) /\ SameDisk(r, f) /\ SameOut(r, f)
        /\ Sends(r, f, f.disk[f.lba][f.count])
    BY <1>1, <2>1, <2>2, UpOnePackIs
  <2>4. SameCommand(r, d) /\ SameDisk(r, d) /\ SameOut(r, d) /\ Moves(r, d)
    BY <1>1, <2>3 DEF SameWork, SameCommand, SameDisk, SameOut, Moves
  <2>5. /\ r.flags = IF d.len = 1 THEN d.flags \ {"up"} ELSE d.flags
        /\ Answers(r, d, d.disk[d.lba][d.count])
    BY <1>1, <2>3 DEF SameWork, SameDisk, Sends, Answers
  <2>. QED  BY <1>3, <2>3, <2>4, <2>5
<1>4. CASE "up" \in d.flags /\ ~d.isRead
  <2>1. r = BulkUp(f)
    BY <1>1, <1>2, <1>4 DEF InEpDeal, UpData, SameWork, SameCommand
  <2>2. /\ r \in Device /\ r.flags \in {f.flags, f.flags \ {"up"}}
        /\ r.lba = f.lba /\ r.count = f.count
        /\ SameCommand(r, f) /\ SameDisk(r, f) /\ SameOut(r, f)
        /\ Sends(r, f, IF f.len = 0 THEN <<"zlp">> ELSE <<"info">>)
    BY <1>1, <2>1, BulkUpIs
  <2>. QED  BY <1>1, <1>4, <2>2
            DEF SameWork, SameCommand, SameDisk, SameOut, Sends, Answers
<1>5. CASE "up" \notin d.flags /\ "csw" \in d.flags
  <2>1. r = UpCsw(f)
    BY <1>1, <1>2, <1>5 DEF InEpDeal, SameWork
  <2>2. /\ r \in Device /\ r.flags = {} /\ SameCommand(r, f) /\ SameDisk(r, f) /\ SameOut(r, f)
        /\ Sends(r, f, <<"csw", f.tag, f.status>>)
    BY <1>1, <2>1, UpCswIs
  <2>. QED  BY <1>1, <1>5, <2>2
            DEF SameWork, SameCommand, SameDisk, SameOut, Sends, Answers
<1>6. CASE d.flags \cap {"up", "csw"} = {}
  <2>1. r = f
    BY <1>1, <1>2, <1>6 DEF InEpDeal, SameWork
  <2>. QED  BY <1>1, <1>6, <2>1
<1>7. \/ "up" \in d.flags /\ d.isRead
      \/ "up" \in d.flags /\ ~d.isRead
      \/ "up" \notin d.flags /\ "csw" \in d.flags
      \/ d.flags \cap {"up", "csw"} = {}
  BY Zenon
<1>. QED  BY <1>3, <1>4, <1>5, <1>6, <1>7

(***************************************************************************)
(* Command blocks.                                                         *)
(***************************************************************************)
LEMMA FailIs ==
  ASSUME NEW d \in Device, NEW r, r = Fail(d)
  PROVE  /\ r \in Device /\ r.flags = d.flags \ {"up", "down"}
         /\ r.len = d.len /\ r.lba = d.lba /\ r.count = d.count
         /\ SameCommand(r, d) /\ SameDisk(r, d)
         /\ r.tog = d.tog /\ r.busy = d.busy /\ r.rxTog = d.rxTog
         /\ IF "up" \in d.flags THEN r.res = "stall" /\ r.packet = None
            ELSE r.res = d.res /\ r.packet = d.packet
<1>1. None \in Packets
  BY PacketsAre
<1>. QED  BY <1>1 DEF Fail, Device, SameCommand, SameDisk

LEMMA LengthIs ==
  ASSUME NEW c, WellFormed(c)
  PROVE  /\ Length(c) \in Lengths
         /\ c.op \in {"read", "write"} => Length(c) = c.n * Packs /\ Length(c) >= 1
         /\ c.op \notin {"read", "write"} => Length(c) = IF c.dir = "none" THEN 0 ELSE 1
<1>1. c.n \in 0 .. Sectors
  BY Amounts DEF WellFormed, SectorIds
<1>2. c.n * Packs \in Lengths
  BY <1>1, LengthsFit
<1>3. c.n >= 1 => c.n * Packs >= 1
  BY <1>1, Amounts
<1>4. 0 \in Lengths /\ 1 \in Lengths
  BY LengthsFit DEF Lengths
<1>. QED  BY <1>2, <1>3, <1>4 DEF Length, WellFormed

OfData(c) == CASE c.dir = "in" -> {"up"} [] c.dir = "out" -> {"down"} [] OTHER -> {}

(* What UDISK_SCSI_CMD_Deal does first. *)
Begun(d, c) ==
  [d EXCEPT !.tag = c.tag, !.isRead = (c.op = "read"), !.len = Length(c),
            !.flags = @ \cup OfData(c) \cup {"csw"}]

LEMMA BegunIs ==
  ASSUME NEW d \in Device, NEW c, WellFormed(c), NEW f, f = Begun(d, c)
  PROVE  /\ f \in Device /\ f.flags = d.flags \cup OfData(c) \cup {"csw"}
         /\ f.tag = c.tag /\ f.isRead = (c.op = "read") /\ f.len = Length(c)
         /\ f.lba = d.lba /\ f.count = d.count /\ f.status = d.status
         /\ SameDisk(f, d) /\ SameIn(f, d) /\ SameOut(f, d)
<1>1. c.tag \in 0 .. 3 /\ (c.op = "read") \in BOOLEAN
  BY DEF WellFormed
<1>2. Length(c) \in Lengths
  BY LengthIs
<1>3. OfData(c) \subseteq {"up", "down", "csw"}
  BY DEF OfData
<1>. QED  BY <1>1, <1>2, <1>3 DEF Begun, Device, SameDisk, SameIn, SameOut

(* ... and CMD_RD_WR_Deal_Pre after it. *)
Placed(d, l, k, n, st) == [d EXCEPT !.lba = l, !.len = k, !.count = n, !.status = st]

LEMMA PlacedIs ==
  ASSUME NEW d \in Device, NEW l \in 0 .. Sectors, NEW k \in Lengths, NEW n \in Places,
         NEW st \in 0 .. 2, NEW r, r = Placed(d, l, k, n, st)
  PROVE  /\ r \in Device /\ r.flags = d.flags /\ r.tag = d.tag /\ r.isRead = d.isRead
         /\ r.lba = l /\ r.len = k /\ r.count = n /\ r.status = st
         /\ SameDisk(r, d) /\ SameIn(r, d) /\ SameOut(r, d)
<1>1. r \in Device
  BY DEF Placed, Device
<1>. QED  BY <1>1 DEF Placed, Device, SameDisk, SameIn, SameOut

LEMMA ReadWriteIs ==
  ASSUME NEW d \in Device, NEW c, WellFormed(c), c.op \in {"read", "write"},
         NEW r, r = ScsiCmdDeal(d, c)
  PROVE  /\ r \in Device /\ r.flags = d.flags \cup OfData(c) \cup {"csw"}
         /\ r.tag = c.tag /\ r.isRead = (c.op = "read") /\ r.status = 0
         /\ r.lba = c.lba /\ r.count = 0 /\ Left(r, c.lba + c.n)
         /\ c.lba + c.n \in r.lba + 1 .. Sectors
         /\ SameDisk(r, d) /\ SameIn(r, d) /\ SameOut(r, d)
<1>. DEFINE f == Begun(d, c)
<1>1. /\ f \in Device /\ f.flags = d.flags \cup OfData(c) \cup {"csw"}
      /\ f.tag = c.tag /\ f.isRead = (c.op = "read") /\ f.len = Length(c)
      /\ f.lba = d.lba /\ f.count = d.count /\ f.status = d.status
      /\ SameDisk(f, d) /\ SameIn(f, d) /\ SameOut(f, d)
  BY BegunIs
<1>2. r = RdWrPre(f, c)
  BY DEF ScsiCmdDeal, Begun, OfData
<1>. HIDE DEF f
<1>3. /\ c.n * Packs \in Lengths /\ c.n * Packs >= 1 /\ c.n \in Nat
      /\ c.lba \in Nat /\ c.lba \in 0 .. Sectors /\ c.n >= 1 /\ c.lba + c.n <= Sectors
  BY LengthIs, Amounts DEF WellFormed, SectorIds
<1>4. 0 \in Places /\ 0 \in 0 .. 2
  BY Amounts DEF Places
<1>. DEFINE k == c.n * Packs
<1>5. /\ r \in Device /\ r.flags = f.flags /\ r.tag = f.tag /\ r.isRead = f.isRead /\ r.status = 0
      /\ r.lba = c.lba /\ r.count = 0 /\ r.len = k
      /\ SameDisk(r, f) /\ SameIn(r, f) /\ SameOut(r, f)
  <2>1. /\ r = Placed(f, c.lba, k, 0, 0)
        /\ k \in Lengths /\ c.lba \in 0 .. Sectors
    BY <1>2, <1>3 DEF RdWrPre, Placed
  <2>. HIDE DEF k
  <2>. QED  BY <1>1, <1>4, <2>1, PlacedIs
<1>6. Left(r, c.lba + c.n)
  <2>1. (c.lba + c.n) - r.lba = c.n
    BY <1>3, <1>5
  <2>2. 0 + k = k /\ k >= 1
    BY <1>3 DEF Lengths
  <2>. QED  BY <1>5, <2>1, <2>2, Zenon DEF Left
<1>7. c.lba + c.n \in r.lba + 1 .. Sectors
  BY <1>3, <1>5, Amounts
<1>8. SameDisk(r, d) /\ SameIn(r, d) /\ SameOut(r, d)
  BY <1>1, <1>5 DEF SameDisk, SameIn, SameOut
<1>. QED  BY <1>1, <1>5, <1>6, <1>7, <1>8

(* The commands that do not read or write the disk. *)
LEMMA OtherIs ==
  ASSUME NEW d \in Device, NEW c, WellFormed(c), c.op \notin {"read", "write"},
         NEW r, r = ScsiCmdDeal(d, c)
  PROVE  /\ r \in Device /\ SameDisk(r, d) /\ r.rxTog = d.rxTog /\ ~r.isRead
         /\ r.lba = d.lba /\ r.count = d.count /\ r.tog = d.tog /\ r.busy = d.busy
         /\ c.op # "garbled" => r.tag = c.tag
         /\ c.op \in {"info", "ready", "mode"} =>
              /\ r.flags = d.flags \cup OfData(c) \cup {"csw"} /\ r.len = Length(c)
              /\ SameIn(r, d)
              /\ r.status = IF c.op = "mode" THEN d.status ELSE 0
         /\ c.op = "page" =>
              /\ r.flags = (d.flags \cup {"csw"}) \ {"up", "down"} /\ r.status = 1
              /\ IF "up" \in d.flags \/ c.dir = "in" THEN r.res = "stall" /\ r.packet = None
                 ELSE SameIn(r, d)
         /\ c.op = "unknown" =>
              /\ r.flags = (d.flags \cup {"csw"}) \ {"up", "down"} /\ r.status = 1
              /\ r.res = "stall" /\ r.packet = None
         /\ c.op = "garbled" =>
              /\ r.flags = d.flags \ {"up", "down"} /\ r.status = 2
              /\ r.res = "stall" /\ r.packet = None
<1>. DEFINE f == Begun(d, c)
<1>1. /\ f \in Device /\ f.flags = d.flags \cup OfData(c) \cup {"csw"}
      /\ f.tag = c.tag /\ f.isRead = (c.op = "read") /\ f.len = Length(c)
      /\ f.lba = d.lba /\ f.count = d.count /\ f.status = d.status
      /\ SameDisk(f, d) /\ SameIn(f, d) /\ SameOut(f, d)
  BY BegunIs
<1>2. r = CASE c.op \in {"info", "ready"} -> [f EXCEPT !.status = 0]
            [] c.op = "mode" -> f
            [] c.op = "page" -> Fail([f EXCEPT !.status = 1])
            [] c.op = "unknown" -> Fail([f EXCEPT !.status = 1, !.flags = @ \cup {"up"}])
            [] c.op = "garbled" -> Fail([d EXCEPT !.isRead = FALSE, !.status = 2,
                                                  !.flags = @ \cup {"up", "down"}])
  BY DEF ScsiCmdDeal, Begun, OfData, WellFormed
<1>. HIDE DEF f
<1>3. 0 \in 0 .. 2 /\ 1 \in 0 .. 2 /\ 2 \in 0 .. 2 /\ ~f.isRead
  <2>1. ~f.isRead
    BY <1>1, Zenon
  <2>. QED  BY <2>1
<1>4. CASE c.op \in {"info", "ready"}
  <2>1. r = [f EXCEPT !.status = 0]
    BY <1>2, <1>4
  <2>2. /\ r \in Device /\ r.status = 0 /\ SameWork(r, f) /\ r.tag = f.tag /\ r.isRead = f.isRead
        /\ SameDisk(r, f) /\ SameIn(r, f) /\ SameOut(r, f)
    BY <1>1, <1>3, <2>1 DEF Device, SameWork, SameDisk, SameIn, SameOut
  <2>. QED  BY <1>1, <1>3, <1>4, <2>2 DEF SameWork, SameDisk, SameIn, SameOut
<1>5. CASE c.op = "mode"
  <2>1. r = f
    BY <1>2, <1>5
  <2>. QED  BY <1>1, <1>3, <1>5, <2>1 DEF SameDisk, SameIn, SameOut
<1>6. CASE c.op = "page"
  <2>. DEFINE g == [f EXCEPT !.status = 1]
  <2>1. r = Fail(g)
    BY <1>2, <1>6
  <2>2. /\ g \in Device /\ g.status = 1 /\ SameWork(g, f) /\ g.tag = f.tag /\ g.isRead = f.isRead
        /\ SameDisk(g, f) /\ SameIn(g, f) /\ SameOut(g, f)
    BY <1>1, <1>3 DEF Device, SameWork, SameDisk, SameIn, SameOut
  <2>. HIDE DEF g
  <2>3. /\ r \in Device /\ r.flags = g.flags \ {"up", "down"}
        /\ r.lba = g.lba /\ r.count = g.count
        /\ SameCommand(r, g) /\ SameDisk(r, g)
        /\ r.tog = g.tog /\ r.busy = g.busy /\ r.rxTog = g.rxTog
        /\ IF "up" \in g.flags THEN r.res = "stall" /\ r.packet = None
           ELSE r.res = g.res /\ r.packet = g.packet
    BY <2>1, <2>2, FailIs
  <2>4. g.flags = d.flags \cup OfData(c) \cup {"csw"}
    BY <1>1, <2>2 DEF SameWork
  <2>5. /\ r.flags = (d.flags \cup {"csw"}) \ {"up", "down"}
        /\ "up" \in g.flags <=> "up" \in d.flags \/ c.dir = "in"
    BY <2>3, <2>4, <1>6 DEF OfData, WellFormed
  <2>. QED  BY <1>1, <1>3, <1>6, <2>2, <2>3, <2>5
            DEF SameWork, SameCommand, SameDisk, SameIn, SameOut
<1>7. CASE c.op = "unknown"
  <2>. DEFINE g == [f EXCEPT !.status = 1, !.flags = @ \cup {"up"}]
  <2>1. r = Fail(g)
    BY <1>2, <1>7
  <2>2. /\ g \in Device /\ g.status = 1 /\ g.flags = f.flags \cup {"up"}
        /\ g.lba = f.lba /\ g.count = f.count /\ g.tag = f.tag /\ g.isRead = f.isRead
        /\ SameDisk(g, f) /\ SameIn(g, f) /\ SameOut(g, f)
    BY <1>1, <1>3 DEF Device, SameDisk, SameIn, SameOut
  <2>. HIDE DEF g
  <2>3. /\ r \in Device /\ r.flags = g.flags \ {"up", "down"}
        /\ r.lba = g.lba /\ r.count = g.count
        /\ SameCommand(r, g) /\ SameDisk(r, g)
        /\ r.tog = g.tog /\ r.busy = g.busy /\ r.rxTog = g.rxTog
        /\ "up" \in g.flags => r.res = "stall" /\ r.packet = None
    BY <2>1, <2>2, FailIs
  <2>4. r.flags = (d.flags \cup {"csw"}) \ {"up", "down"}
    BY <1>1, <2>2, <2>3 DEF OfData
  <2>. QED  BY <1>1, <1>3, <1>7, <2>2, <2>3, <2>4 DEF SameCommand, SameDisk, SameIn, SameOut
<1>8. CASE c.op = "garbled"
  <2>. DEFINE g == [d EXCEPT !.isRead = FALSE, !.status = 2, !.flags = @ \cup {"up", "down"}]
  <2>1. r = Fail(g)
    BY <1>2, <1>8
  <2>2. /\ g \in Device /\ g.status = 2 /\ g.flags = d.flags \cup {"up", "down"}
        /\ g.lba = d.lba /\ g.count = d.count /\ ~g.isRead
        /\ SameDisk(g, d) /\ SameIn(g, d) /\ SameOut(g, d)
    BY <1>3 DEF Device, SameDisk, SameIn, SameOut
  <2>. HIDE DEF g
  <2>3. /\ r \in Device /\ r.flags = g.flags \ {"up", "down"}
        /\ r.lba = g.lba /\ r.count = g.count
        /\ SameCommand(r, g) /\ SameDisk(r, g)
        /\ r.tog = g.tog /\ r.busy = g.busy /\ r.rxTog = g.rxTog
        /\ "up" \in g.flags => r.res = "stall" /\ r.packet = None
    BY <2>1, <2>2, FailIs
  <2>. QED  BY <1>8, <2>2, <2>3 DEF SameCommand, SameDisk, SameIn, SameOut
<1>. QED  BY <1>4, <1>5, <1>6, <1>7, <1>8 DEF WellFormed

(***************************************************************************)
(* Packets of endpoint 3 that have the toggle that is due.                 *)
(***************************************************************************)
Toggled(d) == [d EXCEPT !.rxTog = 1 - @]
Took(r, d) == r.rxRes = "ack" /\ r.rxTog = 1 - d.rxTog

LEMMA ToggledIs ==
  ASSUME NEW d \in Device, NEW f, f = Toggled(d)
  PROVE  /\ f \in Device /\ SameWork(f, d) /\ SameCommand(f, d) /\ SameDisk(f, d) /\ SameIn(f, d)
         /\ f.rxTog = 1 - d.rxTog
<1>1. 1 - d.rxTog \in 0 .. 1
  BY DEF Device
<1>. QED  BY <1>1 DEF Toggled, Device, SameWork, SameCommand, SameDisk, SameIn

LEMMA TookIs ==
  ASSUME NEW d \in Device, NEW c, NEW p, NEW q \in Device, q = OutEpDeal(Toggled(d), c, p),
         q.rxTog = 1 - d.rxTog, NEW r, r = IsrEp3Out(d, d.rxTog, c, p)
  PROVE  /\ r \in Device /\ SameWork(r, q) /\ SameCommand(r, q) /\ SameDisk(r, q) /\ SameIn(r, q)
         /\ Took(r, d)
<1>1. r = [q EXCEPT !.rxRes = "ack"]
  BY DEF IsrEp3Out, Toggled
<1>. QED  BY <1>1 DEF Device, SameWork, SameCommand, SameDisk, SameIn, Took

(* What a pack of a download leaves. *)
PackDealt(r, d, p) ==
  /\ Moves(r, d) /\ SameCommand(r, d)
  /\ r.buf = [d.buf EXCEPT ![d.count] = p]
  /\ r.disk = IF d.count + 1 = Packs THEN [d.disk EXCEPT ![d.lba] = r.buf] ELSE d.disk
  /\ d.len > 1 => r.flags = d.flags /\ SameIn(r, d)
  /\ d.len = 1 => r.flags = {} /\ Sends(r, d, <<"csw", d.tag, d.status>>)

LEMMA OutPack ==
  ASSUME NEW d \in Device, "down" \in d.flags, NEW e \in d.lba + 1 .. Sectors, Left(d, e),
         \A i \in 0 .. d.count - 1 : d.buf[i] \in Stored,
         NEW c, NEW p \in Stored, NEW r, r = IsrEp3Out(d, d.rxTog, c, p)
  PROVE  r \in Device /\ Took(r, d) /\ PackDealt(r, d, p)
<1>. DEFINE f == Toggled(d)
            q == OutEpDeal(f, c, p)
<1>1. /\ f \in Device /\ SameWork(f, d) /\ SameCommand(f, d) /\ SameDisk(f, d) /\ SameIn(f, d)
      /\ f.rxTog = 1 - d.rxTog
  BY ToggledIs
<1>2. q = DownOnePack(f, p)
  BY <1>1 DEF OutEpDeal, SameWork
<1>3. e \in f.lba + 1 .. Sectors /\ Left(f, e) /\ \A i \in 0 .. f.count - 1 : f.buf[i] \in Stored
  BY <1>1 DEF Left, SameWork, SameDisk
<1>. HIDE DEF f
<1>4. /\ q \in Device /\ Moves(q, f)
      /\ q.buf = [f.buf EXCEPT ![f.count] = p]
      /\ q.disk = IF f.count + 1 = Packs THEN [f.disk EXCEPT ![f.lba] = q.buf] ELSE f.disk
      /\ SameCommand(q, f) /\ SameOut(q, f)
      /\ f.len > 1 => q.flags = f.flags /\ SameIn(q, f)
      /\ f.len = 1 => q.flags = {} /\ Sends(q, f, <<"csw", f.tag, f.status>>)
  BY <1>1, <1>2, <1>3, DownOnePackIs
<1>5. q.rxTog = 1 - d.rxTog
  BY <1>1, <1>4 DEF SameOut
<1>6. /\ r \in Device /\ SameWork(r, q) /\ SameCommand(r, q) /\ SameDisk(r, q) /\ SameIn(r, q)
      /\ Took(r, d)
  BY <1>4, <1>5, TookIs DEF f
<1>. HIDE DEF q
<1>7. Moves(r, d) /\ SameCommand(r, d)
  BY <1>1, <1>4, <1>6 DEF Moves, SameWork, SameCommand
<1>8. /\ r.buf = [d.buf EXCEPT ![d.count] = p]
      /\ r.disk = IF d.count + 1 = Packs THEN [d.disk EXCEPT ![d.lba] = r.buf] ELSE d.disk
  BY <1>1, <1>4, <1>6 DEF SameWork, SameDisk
<1>9. /\ d.len > 1 => r.flags = d.flags /\ SameIn(r, d)
      /\ d.len = 1 => r.flags = {} /\ Sends(r, d, <<"csw", d.tag, d.status>>)
  BY <1>1, <1>4, <1>6 DEF SameWork, SameCommand, SameIn, Sends
<1>. QED  BY <1>6, <1>7, <1>8, <1>9 DEF PackDealt

LEMMA OutNothing ==
  ASSUME NEW d \in Device, "down" \notin d.flags, NEW c, NEW p, p # <<"cbw">>,
         NEW r, r = IsrEp3Out(d, d.rxTog, c, p)
  PROVE  /\ r \in Device /\ SameWork(r, d) /\ SameCommand(r, d) /\ SameDisk(r, d) /\ SameIn(r, d)
         /\ Took(r, d)
<1>. DEFINE f == Toggled(d)
<1>1. /\ f \in Device /\ SameWork(f, d) /\ SameCommand(f, d) /\ SameDisk(f, d) /\ SameIn(f, d)
      /\ f.rxTog = 1 - d.rxTog
  BY ToggledIs
<1>2. f = OutEpDeal(f, c, p)
  BY <1>1 DEF OutEpDeal, SameWork
<1>3. /\ r \in Device /\ SameWork(r, f) /\ SameCommand(r, f) /\ SameDisk(r, f) /\ SameIn(r, f)
      /\ Took(r, d)
  BY <1>1, <1>2, TookIs
<1>. HIDE DEF f
<1>. QED  BY <1>1, <1>3 DEF SameWork, SameCommand, SameDisk, SameIn

(* What a READ leaves: its first pack is in endpoint 2, or is lost to it. *)
ReadBegun(r, d, c) ==
  /\ r.tag = c.tag /\ r.isRead /\ r.status = 0
  /\ r.flags = IF Length(c) = 1 THEN (d.flags \cup {"csw"}) \ {"up"}
               ELSE d.flags \cup {"up", "csw"}
  /\ Length(c) > 1 =>
       Left(r, c.lba + c.n) /\ c.lba + c.n \in r.lba + 1 .. Sectors /\ c.lba <= r.lba
  /\ (r.lba - c.lba) * Packs + r.count = 1
  /\ Sends(r, d, d.disk[c.lba][0])

LEMMA OutRead ==
  ASSUME NEW d \in Device, "down" \notin d.flags, NEW c, WellFormed(c), c.op = "read",
         NEW r, r = IsrEp3Out(d, d.rxTog, c, <<"cbw">>)
  PROVE  r \in Device /\ SameDisk(r, d) /\ Took(r, d) /\ ReadBegun(r, d, c)
<1>. DEFINE f == Toggled(d)
            g == ScsiCmdDeal(f, c)
            q == OutEpDeal(f, c, <<"cbw">>)
            e == c.lba + c.n
<1>1. /\ f \in Device /\ SameWork(f, d) /\ SameCommand(f, d) /\ SameDisk(f, d) /\ SameIn(f, d)
      /\ f.rxTog = 1 - d.rxTog
  BY ToggledIs
<1>2. q = CASE "down" \in g.flags -> g
            [] "down" \notin g.flags /\ "up" \in g.flags -> UpData(g)
            [] g.flags \cap {"up", "down"} = {} /\ g.status = 0 -> UpCsw(g)
            [] OTHER -> g
  BY <1>1 DEF OutEpDeal, SameWork
<1>. HIDE DEF f, q
<1>3. /\ g \in Device /\ g.flags = f.flags \cup OfData(c) \cup {"csw"}
      /\ g.tag = c.tag /\ g.isRead = (c.op = "read") /\ g.status = 0
      /\ g.lba = c.lba /\ g.count = 0 /\ Left(g, e)
      /\ e \in g.lba + 1 .. Sectors
      /\ SameDisk(g, f) /\ SameIn(g, f) /\ SameOut(g, f)
  BY <1>1, ReadWriteIs
<1>. HIDE DEF g
<1>4. g.flags = d.flags \cup {"up", "csw"} /\ g.isRead
  <2>1. OfData(c) = {"up"} /\ f.flags = d.flags
    BY <1>1 DEF OfData, WellFormed, SameWork
  <2>2. g.isRead
    BY <1>3, Zenon
  <2>. QED  BY <1>3, <2>1, <2>2
<1>5. q = UpOnePack(g)
  BY <1>2, <1>4 DEF UpData
<1>6. /\ q \in Device /\ Moves(q, g)
      /\ q.flags = IF g.len = 1 THEN g.flags \ {"up"} ELSE g.flags
      /\ SameCommand(q, g) /\ SameDisk(q, g) /\ SameOut(q, g)
      /\ Sends(q, g, g.disk[g.lba][g.count])
  <2>. HIDE DEF e
  <2>. QED  BY <1>3, <1>5, UpOnePackIs
<1>7. q.rxTog = 1 - d.rxTog
  BY <1>1, <1>3, <1>6 DEF SameOut
<1>8. /\ r \in Device /\ SameWork(r, q) /\ SameCommand(r, q) /\ SameDisk(r, q) /\ SameIn(r, q)
      /\ Took(r, d)
  BY <1>6, <1>7, TookIs DEF q, f
<1>9. g.len = Length(c) /\ Length(c) >= 1
  <2>1. e - g.lba = c.n /\ c.n * Packs \in Nat
    BY <1>3, Amounts DEF WellFormed, SectorIds
  <2>2. g.len = c.n * Packs
    BY <1>3, <2>1, Numbers DEF Left
  <2>. QED  BY <2>2, LengthIs
<1>10. /\ q.lba \in 0 .. Sectors /\ q.count \in Places
       /\ Left(g, e) /\ g.len - 1 >= 1 => Left(q, e) /\ e \in q.lba + 1 .. Sectors
       /\ (q.lba - c.lba) * Packs + q.count = 1
       /\ c.lba <= q.lba
  <2>1. /\ g.lba \in 0 .. Sectors /\ g.count \in Places /\ g.len \in Nat /\ c.lba \in Nat
        /\ q.lba = IF g.count + 1 = Packs THEN g.lba + 1 ELSE g.lba
        /\ q.count = IF g.count + 1 = Packs THEN 0 ELSE g.count + 1
        /\ q.len = g.len - 1
        /\ g.len >= 1 /\ g.count + g.len = (e - g.lba) * Packs /\ e \in g.lba + 1 .. Sectors
    <3>1. g.lba \in 0 .. Sectors /\ g.count \in Places /\ g.len \in Nat
      BY <1>3, Numbers
    <3>2. c.lba \in Nat
      BY Amounts DEF WellFormed, SectorIds
    <3>. HIDE DEF e
    <3>. QED  BY <1>3, <1>6, <3>1, <3>2, Zenon DEF Moves, Left
  <2>. HIDE DEF e
  <2>2. /\ q.lba \in 0 .. Sectors /\ q.count \in Places
        /\ q.count + (g.len - 1) = (e - q.lba) * Packs
        /\ g.len - 1 >= 1 => e \in q.lba + 1 .. Sectors
        /\ (q.lba - c.lba) * Packs + q.count = (g.lba - c.lba) * Packs + g.count + 1
    BY <2>1, Advance
  <2>3. (g.lba - c.lba) * Packs + g.count + 1 = 1
    <3>1. g.lba - c.lba = 0 /\ g.count = 0
      BY <1>3, <2>1
    <3>. QED  BY <3>1, Amounts
  <2>4. c.lba <= q.lba
    BY <1>3, <2>1
  <2>. QED  BY <2>1, <2>2, <2>3, <2>4 DEF Left
<1>11. SameDisk(r, d) /\ r.tag = c.tag /\ r.isRead /\ r.status = 0
  BY <1>1, <1>3, <1>4, <1>6, <1>8 DEF SameDisk, SameCommand
<1>12. r.flags = IF Length(c) = 1 THEN (d.flags \cup {"csw"}) \ {"up"} ELSE d.flags \cup {"up", "csw"}
  BY <1>4, <1>6, <1>8, <1>9 DEF SameWork
<1>13. /\ Length(c) > 1 =>
            Left(r, c.lba + c.n) /\ c.lba + c.n \in r.lba + 1 .. Sectors /\ c.lba <= r.lba
       /\ (r.lba - c.lba) * Packs + r.count = 1
  <2>1. r.lba = q.lba /\ r.count = q.count /\ r.len = q.len
    BY <1>8 DEF SameWork
  <2>. HIDE DEF e
  <2>2. Length(c) > 1 => Left(q, e) /\ e \in q.lba + 1 .. Sectors
    BY <1>3, <1>9, <1>10, Numbers
  <2>3. Length(c) > 1 => Left(r, e) /\ e \in r.lba + 1 .. Sectors
    BY <2>1, <2>2 DEF Left
  <2>. QED  BY <1>10, <2>1, <2>3 DEF e
<1>14. Sends(r, d, d.disk[c.lba][0])
  <2>1. g.disk = d.disk /\ SameIn(g, d)
    BY <1>1, <1>3 DEF SameDisk, SameIn
  <2>2. Sends(q, g, d.disk[c.lba][0])
    BY <1>3, <1>6, <2>1
  <2>. QED  BY <1>8, <2>1, <2>2 DEF Sends, SameIn
<1>15. ReadBegun(r, d, c)
  BY <1>11, <1>12, <1>13, <1>14, Zenon DEF ReadBegun
<1>. QED  BY <1>8, <1>11, <1>15

LEMMA OutWrite ==
  ASSUME NEW d \in Device, "down" \notin d.flags, NEW c, WellFormed(c), c.op = "write",
         NEW r, r = IsrEp3Out(d, d.rxTog, c, <<"cbw">>)
  PROVE  /\ r \in Device /\ SameDisk(r, d) /\ SameIn(r, d) /\ Took(r, d)
         /\ r.flags = d.flags \cup {"down", "csw"}
         /\ r.tag = c.tag /\ ~r.isRead /\ r.status = 0
         /\ r.lba = c.lba /\ r.count = 0
         /\ Left(r, c.lba + c.n) /\ c.lba + c.n \in r.lba + 1 .. Sectors
<1>. DEFINE f == Toggled(d)
            q == OutEpDeal(f, c, <<"cbw">>)
            e == c.lba + c.n
<1>1. /\ f \in Device /\ SameWork(f, d) /\ SameCommand(f, d) /\ SameDisk(f, d) /\ SameIn(f, d)
      /\ f.rxTog = 1 - d.rxTog
  BY ToggledIs
<1>. DEFINE g == ScsiCmdDeal(f, c)
<1>2. q = CASE "down" \in g.flags -> g
            [] "down" \notin g.flags /\ "up" \in g.flags -> UpData(g)
            [] g.flags \cap {"up", "down"} = {} /\ g.status = 0 -> UpCsw(g)
            [] OTHER -> g
  BY <1>1 DEF OutEpDeal, SameWork
<1>. HIDE DEF f, q
<1>3. /\ g \in Device /\ g.flags = f.flags \cup OfData(c) \cup {"csw"}
      /\ g.tag = c.tag /\ g.isRead = (c.op = "read") /\ g.status = 0
      /\ g.lba = c.lba /\ g.count = 0 /\ Left(g, e)
      /\ e \in g.lba + 1 .. Sectors
      /\ SameDisk(g, f) /\ SameIn(g, f) /\ SameOut(g, f)
  BY <1>1, ReadWriteIs
<1>. HIDE DEF g, e
<1>4. g.flags = d.flags \cup {"down", "csw"} /\ ~g.isRead
  <2>1. OfData(c) = {"down"} /\ f.flags = d.flags
    BY <1>1 DEF OfData, WellFormed, SameWork
  <2>2. c.op # "read"
    OBVIOUS
  <2>3. ~g.isRead
    BY <1>3, <2>2, Zenon
  <2>. QED  BY <1>3, <2>1, <2>3
<1>5. q = g
  BY <1>2, <1>4
<1>6. q.rxTog = 1 - d.rxTog
  BY <1>1, <1>3, <1>5 DEF SameOut
<1>7. /\ r \in Device /\ SameWork(r, g) /\ SameCommand(r, g) /\ SameDisk(r, g) /\ SameIn(r, g)
      /\ Took(r, d)
  BY <1>3, <1>5, <1>6, TookIs DEF q, f
<1>8. Left(r, e) /\ e \in r.lba + 1 .. Sectors
  BY <1>3, <1>7, Zenon DEF Left, SameWork
<1>. QED  BY <1>1, <1>3, <1>4, <1>7, <1>8 DEF SameWork, SameCommand, SameDisk, SameIn, e

(* Of a command that does not read or write the disk, endpoint 2 gets      *)
(* nothing, a stall, what it answers or its status, or was busy.           *)
OtherBegun(r, d, c) ==
  /\ "down" \notin r.flags /\ ~r.isRead /\ r.tog = d.tog
  /\ c.op # "garbled" => r.tag = c.tag
  /\ \/ SameIn(r, d)
     \/ /\ c.op \in {"page", "unknown", "garbled"}
        /\ r.res = "stall" /\ r.packet = None /\ r.busy = d.busy
     \/ d.busy /\ r.busy /\ r.res = d.res /\ r.packet = d.packet
     \/ /\ ~d.busy /\ r.busy /\ r.res = "ack"
        /\ \/ r.packet \in {<<"zlp">>, <<"info">>}
           \/ c.op # "garbled" /\ r.flags = {} /\ r.packet = <<"csw", c.tag, 0>>
  /\ d.flags = {} /\ ~d.busy =>
       /\ r.flags \in {{}, {"csw"}}
       /\ r.busy => r.res = "ack"
       /\ r.flags = {"csw"} => c.op # "garbled" /\ (c.op = "mode" \/ r.status = StatusOf(c))
       /\ r.busy /\ r.flags = {} => /\ c.dir = "none" /\ c.op \in {"ready", "mode"}
                                    /\ r.packet = <<"csw", c.tag, 0>>
       /\ r.busy /\ r.flags = {"csw"} => c.dir = "in" /\ r.packet = <<"info">>

LEMMA OutOther ==
  ASSUME NEW d \in Device, "down" \notin d.flags, NEW c, WellFormed(c),
         c.op \notin {"read", "write"}, NEW r, r = IsrEp3Out(d, d.rxTog, c, <<"cbw">>)
  PROVE  r \in Device /\ SameDisk(r, d) /\ Took(r, d) /\ OtherBegun(r, d, c)
<1>. DEFINE f == Toggled(d)
            q == OutEpDeal(f, c, <<"cbw">>)
<1>1. /\ f \in Device /\ SameWork(f, d) /\ SameCommand(f, d) /\ SameDisk(f, d) /\ SameIn(f, d)
      /\ f.rxTog = 1 - d.rxTog
  BY ToggledIs
<1>. DEFINE g == ScsiCmdDeal(f, c)
<1>2. q = CASE "down" \in g.flags -> g
            [] "down" \notin g.flags /\ "up" \in g.flags -> UpData(g)
            [] g.flags \cap {"up", "down"} = {} /\ g.status = 0 -> UpCsw(g)
            [] OTHER -> g
  BY <1>1 DEF OutEpDeal, SameWork
<1>. HIDE DEF f, q
<1>3. /\ g \in Device /\ SameDisk(g, f) /\ g.rxTog = f.rxTog /\ ~g.isRead
      /\ g.lba = f.lba /\ g.count = f.count /\ g.tog = f.tog /\ g.busy = f.busy
      /\ c.op # "garbled" => g.tag = c.tag
      /\ c.op \in {"info", "ready", "mode"} =>
           /\ g.flags = f.flags \cup OfData(c) \cup {"csw"} /\ g.len = Length(c)
           /\ SameIn(g, f)
           /\ g.status = IF c.op = "mode" THEN f.status ELSE 0
      /\ c.op = "page" =>
           /\ g.flags = (f.flags \cup {"csw"}) \ {"up", "down"} /\ g.status = 1
           /\ IF "up" \in f.flags \/ c.dir = "in" THEN g.res = "stall" /\ g.packet = None
              ELSE SameIn(g, f)
      /\ c.op = "unknown" =>
           /\ g.flags = (f.flags \cup {"csw"}) \ {"up", "down"} /\ g.status = 1
           /\ g.res = "stall" /\ g.packet = None
      /\ c.op = "garbled" =>
           /\ g.flags = f.flags \ {"up", "down"} /\ g.status = 2
           /\ g.res = "stall" /\ g.packet = None
  BY <1>1, OtherIs
<1>. HIDE DEF g
<1>4. f.flags = d.flags /\ f.status = d.status /\ SameIn(f, d)
  BY <1>1 DEF SameWork, SameCommand
<1>5. ASSUME q \in Device, q.rxTog = g.rxTog
      PROVE  /\ r \in Device /\ SameWork(r, q) /\ SameCommand(r, q) /\ SameDisk(r, q) /\ SameIn(r, q)
             /\ Took(r, d)
  <2>1. q.rxTog = 1 - d.rxTog
    BY <1>1, <1>3, <1>5
  <2>. QED  BY <1>5, <2>1, TookIs DEF q, f
<1>6. SameDisk(g, d) /\ g.tog = d.tog /\ g.busy = d.busy /\ (SameIn(g, f) => SameIn(g, d))
  BY <1>1, <1>3 DEF SameDisk, SameIn
<1>7. CASE c.op \in {"page", "unknown", "garbled"}
  <2>1. "down" \notin g.flags /\ "up" \notin g.flags /\ g.status # 0
    BY <1>3, <1>4, <1>7
  <2>2. q = g
    BY <1>2, <2>1
  <2>3. /\ r \in Device /\ SameWork(r, g) /\ SameCommand(r, g) /\ SameDisk(r, g) /\ SameIn(r, g)
        /\ Took(r, d)
    BY <1>3, <1>5, <2>2
  <2>4. SameDisk(r, d) /\ r.tog = d.tog /\ ~r.isRead /\ "down" \notin r.flags
    BY <1>3, <1>6, <2>1, <2>3 DEF SameDisk, SameIn, SameCommand, SameWork
  <2>5. c.op # "garbled" => r.tag = c.tag
    BY <1>3, <2>3 DEF SameCommand
  <2>6. \/ SameIn(r, d)
        \/ r.res = "stall" /\ r.packet = None /\ r.busy = d.busy
    BY <1>3, <1>6, <1>7, <2>3 DEF SameIn
  <2>7. ASSUME d.flags = {}, ~d.busy
        PROVE  /\ r.flags \in {{}, {"csw"}} /\ ~r.busy
               /\ r.flags = {"csw"} => c.op # "garbled" /\ r.status = 1
    BY <1>3, <1>4, <1>6, <1>7, <2>3, <2>7 DEF SameIn, SameWork, SameCommand
  <2>8. c.op \in {"page", "unknown"} => StatusOf(c) = 1
    BY DEF StatusOf
  <2>. QED  BY <1>7, <2>3, <2>4, <2>5, <2>6, <2>7, <2>8 DEF OtherBegun
<1>8. CASE c.op \in {"info", "ready", "mode"}
  <2>1. /\ g.flags = d.flags \cup OfData(c) \cup {"csw"} /\ g.len = Length(c) /\ SameIn(g, d)
        /\ g.status = IF c.op = "mode" THEN d.status ELSE 0
    BY <1>3, <1>4, <1>6, <1>8
  <2>2. /\ OfData(c) = IF c.dir = "in" THEN {"up"} ELSE {}
        /\ Length(c) = IF c.dir = "in" THEN 1 ELSE 0
        /\ c.dir \in {"in", "none"}
    BY <1>8, LengthIs DEF OfData, WellFormed
  <2>3. CASE "up" \in g.flags
    <3>1. q = BulkUp(g)
      BY <1>2, <1>3, <2>1, <2>2, <2>3 DEF UpData
    <3>2. /\ q \in Device
          /\ q.flags = IF g.len <= 1 THEN g.flags \ {"up"} ELSE g.flags
          /\ SameCommand(q, g) /\ SameDisk(q, g) /\ SameOut(q, g)
          /\ Sends(q, g, IF g.len = 0 THEN <<"zlp">> ELSE <<"info">>)
      BY <1>3, <3>1, BulkUpIs
    <3>3. /\ r \in Device /\ SameWork(r, q) /\ SameCommand(r, q) /\ SameDisk(r, q) /\ SameIn(r, q)
          /\ Took(r, d)
      BY <1>5, <3>2 DEF SameOut
    <3>4. SameDisk(r, d) /\ r.tog = d.tog /\ ~r.isRead /\ r.tag = c.tag /\ r.status = g.status
      BY <1>3, <1>6, <1>8, <3>2, <3>3 DEF SameDisk, SameCommand, SameIn, Sends
    <3>5. r.flags = g.flags \ {"up"} /\ "down" \notin r.flags
      BY <2>1, <2>2, <3>2, <3>3 DEF SameWork
    <3>6. /\ r.busy
          /\ IF d.busy THEN r.res = d.res /\ r.packet = d.packet
             ELSE r.res = "ack" /\ r.packet = IF g.len = 0 THEN <<"zlp">> ELSE <<"info">>
      BY <2>1, <3>2, <3>3 DEF Sends, SameIn
    <3>7. d.flags = {} => g.len = 1 /\ c.dir = "in" /\ r.flags = {"csw"}
      BY <2>1, <2>2, <2>3, <3>5
    <3>8. c.op # "mode" => r.status = StatusOf(c)
      BY <1>8, <2>1, <3>4 DEF StatusOf
    <3>. QED  BY <1>8, <3>3, <3>4, <3>5, <3>6, <3>7, <3>8 DEF OtherBegun
  <2>4. CASE "up" \notin g.flags /\ g.status = 0
    <3>1. q = UpCsw(g)
      BY <1>2, <2>1, <2>2, <2>4
    <3>2. /\ q \in Device /\ q.flags = {}
          /\ SameCommand(q, g) /\ SameDisk(q, g) /\ SameOut(q, g)
          /\ Sends(q, g, <<"csw", g.tag, g.status>>)
      BY <1>3, <3>1, UpCswIs
    <3>3. /\ r \in Device /\ SameWork(r, q) /\ SameCommand(r, q) /\ SameDisk(r, q) /\ SameIn(r, q)
          /\ Took(r, d)
      BY <1>5, <3>2 DEF SameOut
    <3>4. SameDisk(r, d) /\ r.tog = d.tog /\ ~r.isRead /\ r.tag = c.tag
      BY <1>3, <1>6, <1>8, <3>2, <3>3 DEF SameDisk, SameCommand, SameIn, Sends
    <3>5. r.flags = {}
      BY <3>2, <3>3 DEF SameWork
    <3>6. /\ r.busy
          /\ IF d.busy THEN r.res = d.res /\ r.packet = d.packet
             ELSE r.res = "ack" /\ r.packet = <<"csw", c.tag, 0>>
      BY <1>3, <1>8, <2>1, <2>4, <3>2, <3>3 DEF Sends, SameIn
    <3>7. c.dir = "none" /\ c.op \in {"ready", "mode"}
      BY <1>8, <2>1, <2>2, <2>4 DEF WellFormed
    <3>. QED  BY <1>8, <3>3, <3>4, <3>5, <3>6, <3>7 DEF OtherBegun
  <2>5. CASE "up" \notin g.flags /\ g.status # 0
    <3>1. q = g
      BY <1>2, <2>1, <2>2, <2>5
    <3>2. /\ r \in Device /\ SameWork(r, g) /\ SameCommand(r, g) /\ SameDisk(r, g) /\ SameIn(r, g)
          /\ Took(r, d)
      BY <1>3, <1>5, <3>1
    <3>3. SameDisk(r, d) /\ SameIn(r, d) /\ ~r.isRead /\ r.tag = c.tag /\ c.op = "mode"
      BY <1>3, <1>6, <1>8, <2>1, <2>5, <3>2 DEF SameDisk, SameCommand, SameIn
    <3>4. "down" \notin r.flags /\ (d.flags = {} => r.flags = {"csw"})
      BY <2>1, <2>2, <2>5, <3>2 DEF SameWork
    <3>. QED  BY <3>2, <3>3, <3>4 DEF SameIn, OtherBegun
  <2>. QED  BY <2>3, <2>4, <2>5
<1>. QED  BY <1>7, <1>8 DEF WellFormed
----------------------------------------------------------------------------
(***************************************************************************)
(* The invariant holds at first.                                           *)
(***************************************************************************)
LEMMA DiskInvAtFirst == DiskInit => DiskInv
<1>. SUFFICES ASSUME DiskInit PROVE DiskInv
  OBVIOUS
<1>. USE DEF DiskInit
<1>1. /\ 0 \in Lengths /\ 0 \in Places /\ 0 \in 0 .. Sectors /\ 0 \in 0 .. 2 /\ 0 \in 0 .. 3
      /\ 0 \in 0 .. 1 /\ 0 \in 0 .. MaxFaults /\ None \in Packets
  BY Amounts, LengthsFit, PacketsAre DEF Lengths, Places
<1>2. \A s \in SectorIds : Sector(0, s) \in [Places -> Stored]
  BY PacketsAre DEF Sector, Places
<1>3. dev \in Device
  <2>1. [s \in SectorIds |-> Sector(0, s)] \in [SectorIds -> [Places -> Stored]]
    BY <1>2
  <2>2. [i \in 0 .. Packs - 1 |-> None] \in [Places -> Stored \cup {None}]
    BY DEF Places
  <2>. QED  BY <1>1, <2>1, <2>2 DEF Device
<1>4. Shape
  BY <1>1, <1>3 DEF Shape, Live, Lengths
<1>5. Endpoints /\ Flags /\ Room
  BY DEF Endpoints, Flags, Room, Live, Undealt
<1>6. Disk
  BY DEF Disk, AcknowledgedIsStored, Writing, Live
<1>7. Offers
  BY DEF Offers, Live
<1>. QED  BY <1>4, <1>5, <1>6, <1>7 DEF DiskInv

(***************************************************************************)
(* The host asks for something.                                            *)
(***************************************************************************)
LEMMA BlocksAre ==
  ASSUME NEW b \in Commands, NEW c, c.tag \in 1 .. 3,
         c.op = b.op, c.dir = b.dir, c.lba = b.lba, c.n = b.n, c.ver = b.ver
  PROVE  WellFormed(c)
<1>1. 0 \in SectorIds /\ 0 \in 0 .. Sectors - 0
  BY Amounts DEF SectorIds
<1>2. CASE b \in {Block("read", "in", r[1], r[2], 0) :
                    r \in {r \in SectorIds \X (1 .. Sectors) : r[1] + r[2] <= Sectors}}
  <2>1. PICK l \in SectorIds, n \in 1 .. Sectors : b = Block("read", "in", l, n, 0) /\ l + n <= Sectors
    BY <1>2
  <2>. QED  BY <2>1, Amounts DEF Block, WellFormed, SectorIds
<1>3. CASE b \in {Block("write", "out", r[1], r[2], r[3]) :
                    r \in {r \in SectorIds \X (1 .. Sectors) \X Versions : r[1] + r[2] <= Sectors}}
  <2>1. PICK l \in SectorIds, n \in 1 .. Sectors, v \in Versions :
          b = Block("write", "out", l, n, v) /\ l + n <= Sectors
    BY <1>3
  <2>. QED  BY <2>1, Amounts DEF Block, WellFormed, SectorIds
<1>4. CASE b \in {Block(op, "in", 0, 0, 0) : op \in {"info", "mode", "page", "unknown"}}
  BY <1>1, <1>4 DEF Block, WellFormed
<1>5. CASE b \in {Block(op, "none", 0, 0, 0) : op \in {"ready", "mode", "page", "unknown", "garbled"}}
  BY <1>1, <1>5 DEF Block, WellFormed
<1>6. CASE b = Block("unknown", "out", 0, 0, 0)
  BY <1>1, <1>6 DEF Block, WellFormed
<1>. QED  BY <1>2, <1>3, <1>4, <1>5, <1>6 DEF Commands

LEMMA TagIsFresh ==
  ASSUME NEW b, Command(b)
  PROVE  /\ cmd'.tag \in 1 .. 3 /\ cmd'.tag # dev.tag
         /\ dev.packet[1] = "csw" => dev.packet[2] # cmd'.tag
         /\ cmd'.op = b.op /\ cmd'.dir = b.dir /\ cmd'.lba = b.lba /\ cmd'.n = b.n
         /\ cmd'.ver = b.ver
<1>. DEFINE old == {dev.tag} \cup (IF dev.packet[1] = "csw" THEN {dev.packet[2]} ELSE {})
            tag == CHOOSE t \in 1 .. 3 : t \notin old
<1>1. cmd' = [op |-> b.op, dir |-> b.dir, lba |-> b.lba, n |-> b.n, ver |-> b.ver, tag |-> tag]
  BY DEF Command
<1>2. \E t \in 1 .. 3 : t \notin old
  OBVIOUS
<1>3. tag \in 1 .. 3 /\ tag \notin old
  BY <1>2
<1>. QED  BY <1>1, <1>3

LEMMA CommandStep == ASSUME DiskInv, NEW b \in Commands, Command(b) PROVE DiskInv'
<1>1. /\ phase = "idle" /\ phase' = "cbw" /\ done' = 0 /\ clean' = Ready(dev)
      /\ dev' = dev /\ hostOut' = hostOut /\ hostIn' = hostIn /\ faults' = faults
      /\ kept' = IF b.op = "write"
                 THEN [s \in SectorIds |-> IF s \in SectorsOf(b) THEN Unsure ELSE kept[s]] ELSE kept
  BY DEF Command
<1>2. /\ cmd'.tag \in 1 .. 3 /\ cmd'.tag # dev.tag
      /\ dev.packet[1] = "csw" => dev.packet[2] # cmd'.tag
      /\ cmd'.op = b.op /\ SectorsOf(cmd)' = SectorsOf(b)
  BY TagIsFresh DEF SectorsOf
<1>3. WellFormed(cmd')
  BY TagIsFresh, BlocksAre
<1>4. /\ hostOut = dev.rxTog /\ dev.res # "stall" /\ ~("up" \in dev.flags /\ dev.res = "ack")
      /\ Undealt' /\ ~Writing'
  BY <1>1, <1>2 DEF DiskInv, Endpoints, Flags, Undealt, Writing
<1>5. /\ kept' \in [SectorIds -> Versions \cup {0, Unsure}]
      /\ \A s \in SectorIds : kept'[s] # Unsure => kept'[s] = kept[s]
      /\ b.op = "write" => \A s \in SectorsOf(b) : s \in SectorIds => kept'[s] = Unsure
  BY <1>1 DEF DiskInv, Shape
<1>6. Shape'
  <2>1. clean' \in BOOLEAN
    BY <1>1 DEF Ready
  <2>2. 0 \in Lengths
    BY LengthsFit DEF Lengths
  <2>. QED  BY <1>1, <1>3, <1>5, <2>1, <2>2 DEF DiskInv, Shape, Live
<1>7. Endpoints' /\ Flags'
  BY <1>1, <1>2, <1>4 DEF DiskInv, Endpoints, Flags, Undealt, Live
<1>8. Room'
  <2>1. dev.lba \in Nat
    BY Numbers, Amounts DEF DiskInv, Shape
  <2>2. \A e \in dev.lba + 1 .. Sectors : \A s \in dev.lba .. e - 1 : s \in SectorIds
    BY <2>1, Amounts DEF SectorIds
  <2>3. \A s \in SectorIds : kept[s] = Unsure => kept'[s] = Unsure
    BY <1>1 DEF DiskInv, Shape
  <2>. QED  BY <1>1, <2>2, <2>3 DEF DiskInv, Room, Left
<1>9. Disk'
  <2>1. AcknowledgedIsStored'
    BY <1>1, <1>5 DEF DiskInv, Disk, AcknowledgedIsStored
  <2>2. (Live /\ cmd.op = "write" => \A s \in SectorsOf(cmd) : kept[s] = Unsure)'
    <3>1. \A s \in SectorsOf(cmd') : s \in SectorIds
      BY <1>3, Amounts DEF WellFormed, SectorsOf, SectorIds
    <3>. QED  BY <1>2, <1>5, <3>1 DEF SectorsOf
  <2>3. ~(clean /\ "down" \in dev.flags)'
    BY <1>1 DEF Ready
  <2>. QED  BY <1>4, <2>1, <2>2, <2>3 DEF Disk
<1>10. Offers'
  <2>1. clean' => dev'.flags = {} /\ ~dev'.busy /\ dev'.res # "ack"
    BY <1>1 DEF Ready, DiskInv, Endpoints
  <2>. QED  BY <2>1 DEF Offers
<1>. QED  BY <1>6, <1>7, <1>8, <1>9, <1>10 DEF DiskInv

(***************************************************************************)
(* The host gives up and recovers, or the bus is reset.                    *)
(***************************************************************************)
LEMMA AbortStep == ASSUME DiskInv, Abort PROVE DiskInv'
<1>1. /\ phase' = "reset" /\ clean' = FALSE /\ done' = 0 /\ dev' = dev /\ kept' = kept
      /\ hostOut' = hostOut /\ hostIn' = hostIn /\ faults' = faults + 1 /\ faults < MaxFaults
  BY DEF Abort, Goes, Fault
<1>2. ~Live' /\ ~Undealt' /\ ~Writing'
  BY <1>1 DEF Live, Undealt, Writing
<1>3. Shape'
  <2>1. 0 \in Lengths /\ (faults \in 0 .. MaxFaults => faults + 1 \in 0 .. MaxFaults)
    BY <1>1, LengthsFit, Amounts DEF Lengths
  <2>. QED  BY <1>1, <1>2, <2>1 DEF DiskInv, Shape
<1>4. Endpoints' /\ Flags'
  BY <1>1, <1>2 DEF DiskInv, Endpoints, Flags
<1>5. Room'
  BY <1>1 DEF DiskInv, Room, Left
<1>6. AcknowledgedIsStored'
  BY <1>1 DEF DiskInv, Disk, AcknowledgedIsStored
<1>7. Disk' /\ Offers'
  BY <1>1, <1>2, <1>6 DEF Disk, Offers
<1>. QED  BY <1>3, <1>4, <1>5, <1>7 DEF DiskInv

LEMMA RecoverResetStep == ASSUME DiskInv, RecoverReset PROVE DiskInv'
<1>1. /\ phase = "reset" /\ phase' = "clearIn" /\ clean' = FALSE /\ dev' = UdiskReset(dev)
      /\ done' = done /\ kept' = kept /\ hostOut' = hostOut /\ hostIn' = hostIn /\ faults' = faults
  BY DEF RecoverReset
<1>2. ~Live' /\ ~Undealt' /\ ~Writing'
  BY <1>1 DEF Live, Undealt, Writing
<1>3. /\ dev' \in Device /\ dev'.flags = {} /\ dev'.tag = dev.tag
      /\ SameDisk(dev', dev) /\ SameIn(dev', dev) /\ SameOut(dev', dev)
  BY <1>1, UdiskResetIs DEF DiskInv, Shape
<1>4. Shape'
  BY <1>1, <1>2, <1>3 DEF DiskInv, Shape
<1>5. Endpoints' /\ Flags' /\ Room'
  BY <1>1, <1>2, <1>3 DEF DiskInv, Endpoints, Flags, Room, SameIn, SameOut
<1>6. AcknowledgedIsStored'
  BY <1>1, <1>3 DEF DiskInv, Disk, AcknowledgedIsStored, SameDisk
<1>7. Disk' /\ Offers'
  BY <1>1, <1>2, <1>6 DEF Disk, Offers
<1>. QED  BY <1>4, <1>5, <1>7 DEF DiskInv

LEMMA RecoverInStep == ASSUME DiskInv, RecoverIn PROVE DiskInv'
<1>1. /\ phase = "clearIn" /\ phase' = "clearOut" /\ hostIn' = 0 /\ dev' = ClearIn(dev)
      /\ done' = done /\ kept' = kept /\ hostOut' = hostOut /\ clean' = clean /\ faults' = faults
  BY DEF RecoverIn
<1>2. ~Live' /\ ~Undealt' /\ ~Writing'
  BY <1>1 DEF Live, Undealt, Writing
<1>3. dev.flags = {}
  BY <1>1 DEF DiskInv, Flags
<1>4. /\ dev' \in Device /\ SameDisk(dev', dev) /\ SameOut(dev', dev) /\ dev'.tog = 0
      /\ dev'.flags = {} /\ dev'.res = "nak"
  BY <1>1, <1>3, ClearInIs DEF DiskInv, Shape, SameWork
<1>5. Shape'
  BY <1>1, <1>2, <1>4 DEF DiskInv, Shape
<1>6. Endpoints' /\ Flags' /\ Room'
  BY <1>1, <1>2, <1>4 DEF DiskInv, Endpoints, Flags, Room, SameOut
<1>7. AcknowledgedIsStored'
  BY <1>1, <1>4 DEF DiskInv, Disk, AcknowledgedIsStored, SameDisk
<1>8. Disk' /\ Offers'
  BY <1>1, <1>2, <1>7 DEF Disk, Offers
<1>. QED  BY <1>5, <1>6, <1>8 DEF DiskInv

LEMMA RecoverOutStep == ASSUME DiskInv, RecoverOut PROVE DiskInv'
<1>1. /\ phase = "clearOut" /\ phase' = "idle" /\ hostOut' = 0 /\ dev' = ClearOut(dev)
      /\ done' = done /\ kept' = kept /\ hostIn' = hostIn /\ clean' = clean /\ faults' = faults
  BY DEF RecoverOut
<1>2. ~Live' /\ ~Undealt' /\ ~Writing'
  BY <1>1 DEF Live, Undealt, Writing
<1>3. dev.flags = {} /\ dev.res # "stall"
  BY <1>1 DEF DiskInv, Flags, Endpoints
<1>4. /\ dev' \in Device /\ SameWork(dev', dev) /\ SameDisk(dev', dev) /\ SameIn(dev', dev)
      /\ dev'.rxTog = 0
  BY <1>1, <1>3, ClearOutIs DEF DiskInv, Shape
<1>5. Shape'
  BY <1>1, <1>2, <1>4 DEF DiskInv, Shape
<1>6. Endpoints' /\ Flags' /\ Room'
  BY <1>1, <1>2, <1>3, <1>4 DEF DiskInv, Endpoints, Flags, Room, SameWork, SameIn
<1>7. AcknowledgedIsStored'
  BY <1>1, <1>4 DEF DiskInv, Disk, AcknowledgedIsStored, SameDisk
<1>8. Disk' /\ Offers'
  BY <1>1, <1>2, <1>7 DEF Disk, Offers
<1>. QED  BY <1>5, <1>6, <1>8 DEF DiskInv

LEMMA PortResetStep == ASSUME DiskInv, PortReset PROVE DiskInv'
<1>1. /\ phase' = "idle" /\ hostOut' = 0 /\ hostIn' = 0 /\ dev' = EndpInit(dev)
      /\ done' = 0 /\ kept' = kept /\ clean' = FALSE /\ faults' = faults + 1 /\ faults < MaxFaults
  BY DEF PortReset, Goes, Fault
<1>2. ~Live' /\ ~Undealt' /\ ~Writing'
  BY <1>1 DEF Live, Undealt, Writing
<1>3. /\ dev' \in Device /\ SameWork(dev', dev) /\ SameCommand(dev', dev) /\ SameDisk(dev', dev)
      /\ dev'.res = "nak" /\ dev'.tog = 0 /\ dev'.rxTog = 0
  BY <1>1, EndpInitIs DEF DiskInv, Shape
<1>4. Shape'
  <2>1. 0 \in Lengths /\ (faults \in 0 .. MaxFaults => faults + 1 \in 0 .. MaxFaults)
    BY <1>1, LengthsFit, Amounts DEF Lengths
  <2>2. {hostOut, hostIn}' \subseteq 0 .. 1
    BY <1>1
  <2>3. faults' \in 0 .. MaxFaults
    BY <1>1, <2>1 DEF DiskInv, Shape
  <2>. QED  BY <1>1, <1>2, <1>3, <2>1, <2>2, <2>3 DEF DiskInv, Shape
<1>5. Endpoints' /\ Flags'
  BY <1>1, <1>2, <1>3 DEF Endpoints, Flags
<1>6. Room'
  BY <1>1, <1>3 DEF DiskInv, Room, Left, SameWork, SameCommand, SameDisk
<1>7. AcknowledgedIsStored'
  BY <1>1, <1>3 DEF DiskInv, Disk, AcknowledgedIsStored, SameDisk
<1>8. Disk' /\ Offers'
  BY <1>1, <1>2, <1>7 DEF Disk, Offers
<1>. QED  BY <1>4, <1>5, <1>6, <1>8 DEF DiskInv

(***************************************************************************)
(* The host clears a stalled endpoint 2.                                   *)
(***************************************************************************)
LEMMA HostStalledStep == ASSUME DiskInv, HostStalled PROVE DiskInv'
<1>1. /\ phase \in {"in", "csw"} /\ dev.res = "stall" /\ dev' = ClearIn(dev)
      /\ hostIn' = 0 /\ phase' = "csw" /\ done' = 0
      /\ cmd' = cmd /\ hostOut' = hostOut /\ clean' = clean /\ faults' = faults /\ kept' = kept
  BY DEF HostStalled
<1>2. Live /\ Live' /\ ~Undealt' /\ ~Writing /\ ~Writing' /\ cmd.op \notin {"read", "write"}
  BY <1>1 DEF DiskInv, Endpoints, Live, Undealt, Writing
<1>3. /\ dev' \in Device /\ dev'.tag = dev.tag /\ SameDisk(dev', dev) /\ SameOut(dev', dev)
      /\ dev'.tog = 0
  BY <1>1, ClearInIs DEF DiskInv, Shape
<1>4. "csw" \notin dev.flags =>
        /\ SameWork(dev', dev) /\ SameCommand(dev', dev)
        /\ dev'.res = "nak" /\ dev'.packet = None /\ dev'.busy = dev.busy
  BY <1>1, ClearInIs DEF DiskInv, Shape
<1>5. "csw" \in dev.flags =>
        /\ dev'.flags = {} /\ dev'.busy
        /\ IF dev.busy THEN dev'.res = "nak" /\ dev'.packet = None
           ELSE dev'.res = "ack" /\ dev'.packet = <<"csw", dev.tag, dev.status>>
  BY <1>1, ClearInIs DEF DiskInv, Shape
<1>6. Shape'
  <2>1. 0 \in Lengths
    BY LengthsFit DEF Lengths
  <2>. QED  BY <1>1, <1>2, <1>3, <2>1 DEF DiskInv, Shape
<1>7. Endpoints'
  BY <1>1, <1>2, <1>3, <1>4, <1>5 DEF DiskInv, Endpoints, SameOut
<1>8. Flags'
  <2>1. dev'.packet[1] = "csw" => dev'.flags = {} /\ dev'.packet[2] = dev'.tag
    BY <1>3, <1>4, <1>5, PacketsAre
  <2>. QED  BY <1>1, <1>2, <1>4, <1>5, <2>1 DEF Flags
<1>9. Room'
  <2>1. CASE "csw" \in dev.flags
    BY <1>5, <2>1 DEF Room
  <2>2. CASE "csw" \notin dev.flags
    BY <1>1, <1>3, <1>4, <2>2 DEF DiskInv, Room, Left, SameWork, SameCommand, SameDisk
  <2>. QED  BY <2>1, <2>2
<1>10. Disk'
  <2>1. AcknowledgedIsStored'
    BY <1>1, <1>3 DEF DiskInv, Disk, AcknowledgedIsStored, SameDisk
  <2>2. (clean /\ Live /\ "down" \in dev.flags => Writing)'
    BY <1>1, <1>2, <1>4, <1>5 DEF DiskInv, Disk, SameWork
  <2>. QED  BY <1>1, <1>2, <2>1, <2>2 DEF Disk
<1>11. Offers'
  <2>. SUFFICES ASSUME clean PROVE Offers'
    BY <1>1 DEF Offers
  <2>1. ~dev.busy /\ dev.flags \in {{}, {"csw"}}
    BY <1>1, <1>2 DEF DiskInv, Offers
  <2>2. HostPhase' = "csw"
    BY <1>1 DEF HostPhase, Ahead
  <2>3. CASE dev.flags = {}
    BY <1>2, <1>4, <2>1, <2>3 DEF Offers, SameWork
  <2>4. CASE dev.flags = {"csw"}
    <3>1. /\ dev'.flags = {} /\ dev'.busy /\ dev'.res = "ack"
          /\ dev'.packet = <<"csw", dev.tag, dev.status>>
      BY <1>5, <2>1, <2>4
    <3>2. dev.tag = cmd.tag /\ Reports(dev.status)
      BY <1>2, <2>4 DEF DiskInv, Offers
    <3>3. Reports(dev.packet[3])'
      BY <1>1, <3>1, <3>2 DEF Reports
    <3>. QED  BY <1>1, <1>2, <1>3, <2>2, <3>1, <3>2, <3>3 DEF Offers
  <2>. QED  BY <2>1, <2>3, <2>4
<1>. QED  BY <1>6, <1>7, <1>8, <1>9, <1>10, <1>11 DEF DiskInv

(***************************************************************************)
(* Places of a transfer.                                                   *)
(***************************************************************************)
LEMMA PlaceIs ==
  ASSUME NEW q \in Nat, NEW r \in Places
  PROVE  (q * Packs + r) \div Packs = q /\ (q * Packs + r) % Packs = r
<1>. DEFINE b == Packs
<1>0. b \in Nat \ {0} /\ r \in 0 .. b - 1
  BY Amounts DEF Places
<1>. HIDE DEF b
<1>1. PICK a \in Nat : a = q * b + r
  BY <1>0
<1>2. /\ a \div b \in Nat /\ a % b \in 0 .. b - 1 /\ a = b * (a \div b) + (a % b)
  BY <1>0
<1>3. PICK p \in Nat : p = a \div b
  BY <1>2
<1>4. PICK s \in 0 .. b - 1 : s = a % b
  BY <1>2
<1>5. p * b + s = q * b + r /\ p * b \in Nat /\ q * b \in Nat
  <2>1. a = b * p + s
    BY <1>2, <1>3, <1>4
  <2>2. b * p = p * b
    BY <1>0
  <2>. QED  BY <1>0, <1>1, <2>1, <2>2
<1>6. ~(p < q)
  <2>. SUFFICES ASSUME p < q PROVE FALSE
    OBVIOUS
  <2>1. PICK d \in Nat : q = p + d + 1
    BY q - p - 1 \in Nat, q = p + (q - p - 1) + 1
  <2>2. q * b = p * b + d * b + b /\ d * b \in Nat /\ p * b \in Nat
    BY <1>0, <2>1
  <2>. QED  BY <1>0, <1>5, <2>2
<1>7. ~(q < p)
  <2>. SUFFICES ASSUME q < p PROVE FALSE
    OBVIOUS
  <2>1. PICK d \in Nat : p = q + d + 1
    BY p - q - 1 \in Nat, p = q + (p - q - 1) + 1
  <2>2. p * b = q * b + d * b + b /\ d * b \in Nat /\ q * b \in Nat
    BY <1>0, <2>1
  <2>. QED  BY <1>0, <1>5, <2>2
<1>8. p = q
  BY <1>6, <1>7
<1>9. s = r
  BY <1>0, <1>5, <1>8
<1>. QED  BY <1>1, <1>3, <1>4, <1>8, <1>9 DEF b

(***************************************************************************)
(* The host takes what endpoint 2 offers.                                  *)
(***************************************************************************)
LEMMA HostInIs ==
  ASSUME DiskInv, NEW heard \in BOOLEAN, HostIn(heard)
  PROVE  /\ phase \in {"in", "csw"} /\ dev.res = "ack" /\ Live /\ ~Undealt
         /\ HostPhase = phase /\ HostDone = done /\ hostOut = dev.rxTog
         /\ hostOut' = hostOut /\ clean' = clean /\ faults' \in 0 .. MaxFaults
         /\ phase' \in {"in", "csw", "idle", "reset"} /\ ~Undealt'
         /\ done' \in Lengths /\ (phase' = "in" => done' < Length(cmd))
         /\ phase' \in {"in", "csw"} => cmd' = cmd
         /\ dev.tog = hostIn =>
              /\ hostIn' = 1 - hostIn
              /\ phase = "csw" => phase' \in {"idle", "reset"}
              /\ phase = "in" /\ IsData(dev.packet) /\ done + 1 < Length(cmd) =>
                   phase' = "in" /\ done' = done + 1
              /\ phase = "in" /\ ~(IsData(dev.packet) /\ done + 1 < Length(cmd)) => phase' = "csw"
         /\ dev.tog # hostIn => UNCHANGED <<hostIn, phase, cmd, done, kept>>
         /\ phase' = "idle" => IsStatus(dev.packet)
         /\ \/ kept' = kept
            \/ /\ phase' = "idle" /\ dev.packet[3] = 0 /\ cmd.op = "write"
               /\ kept' = [s \in SectorIds |-> IF s \in SectorsOf(cmd) THEN cmd.ver ELSE kept[s]]
<1>1. /\ phase \in {"in", "csw"} /\ dev.res = "ack" /\ hostOut' = hostOut /\ clean' = clean
      /\ \/ /\ dev.tog = hostIn
            /\ hostIn' = 1 - hostIn
            /\ Goes(PhaseAfterIn(dev.packet))
            /\ done' = IF phase' = "in" THEN done + 1 ELSE 0
            /\ kept' = IF phase' = "idle" /\ dev.packet[3] = 0 /\ cmd.op = "write"
                       THEN [s \in SectorIds |-> IF s \in SectorsOf(cmd) THEN cmd.ver ELSE kept[s]]
                       ELSE kept
         \/ dev.tog # hostIn /\ UNCHANGED <<hostIn, phase, cmd, done, kept>>
  BY DEF HostIn
<1>2. faults' \in 0 .. MaxFaults
  <2>1. faults' = faults \/ (faults < MaxFaults /\ faults' = faults + 1)
    BY DEF HostIn, Fault
  <2>. QED  BY <2>1, Amounts DEF DiskInv, Shape
<1>3. Live /\ WellFormed(cmd) /\ done \in Lengths /\ (phase = "in" => done < Length(cmd))
  BY <1>1 DEF DiskInv, Shape, Live
<1>4. ~Undealt /\ hostOut = dev.rxTog /\ HostPhase = phase /\ HostDone = done
  BY <1>1 DEF DiskInv, Endpoints, Undealt, HostPhase, HostDone, Ahead
<1>5. Length(cmd) \in Lengths /\ \A n \in Nat : n < Length(cmd) => n \in Lengths
  BY <1>3, LengthIs, LengthsFit DEF Lengths
<1>6. done \in Nat /\ done + 1 \in Nat /\ Length(cmd) \in Nat /\ 0 \in Lengths
  BY <1>3, <1>5, LengthsFit DEF Lengths
<1>7. CASE dev.tog # hostIn
  <2>1. UNCHANGED <<hostIn, phase, cmd, done, kept>>
    BY <1>1, <1>7
  <2>2. ~Undealt'
    BY <1>1, <2>1 DEF Undealt
  <2>. QED  BY <1>1, <1>2, <1>3, <1>4, <1>7, <2>1, <2>2
<1>8. CASE dev.tog = hostIn
  <2>1. /\ hostIn' = 1 - hostIn
        /\ Goes(PhaseAfterIn(dev.packet))
        /\ done' = IF phase' = "in" THEN done + 1 ELSE 0
        /\ kept' = IF phase' = "idle" /\ dev.packet[3] = 0 /\ cmd.op = "write"
                   THEN [s \in SectorIds |-> IF s \in SectorsOf(cmd) THEN cmd.ver ELSE kept[s]]
                   ELSE kept
    BY <1>1, <1>8
  <2>2. phase' = PhaseAfterIn(dev.packet) /\ (phase' \in {"in", "csw"} => cmd' = cmd)
    BY <2>1 DEF Goes
  <2>3. phase = "csw" =>
          phase' \in {"idle", "reset"} /\ (phase' = "idle" => IsStatus(dev.packet))
    BY <2>2 DEF PhaseAfterIn
  <2>4. CASE phase = "in" /\ IsData(dev.packet) /\ done + 1 < Length(cmd)
    <3>1. phase' = "in"
      BY <1>6, <2>2, <2>4 DEF PhaseAfterIn
    <3>2. done' = done + 1
      BY <2>1, <3>1
    <3>. QED  BY <1>1, <1>2, <1>3, <1>4, <1>5, <1>6, <1>8, <2>1, <2>2, <2>4, <3>1, <3>2 DEF Undealt
  <2>5. CASE phase = "in" /\ ~(IsData(dev.packet) /\ done + 1 < Length(cmd))
    <3>1. phase' = "csw"
      <4>1. IsData(dev.packet) => done + 1 = Length(cmd)
        BY <1>3, <1>6, <2>5
      <4>. QED  BY <2>2, <2>5, <4>1 DEF PhaseAfterIn
    <3>2. done' = 0
      BY <2>1, <3>1
    <3>. QED  BY <1>1, <1>2, <1>3, <1>4, <1>6, <1>8, <2>1, <2>2, <2>5, <3>1, <3>2 DEF Undealt
  <2>6. CASE phase = "csw"
    <3>1. done' = 0
      BY <2>1, <2>3, <2>6
    <3>. QED  BY <1>1, <1>2, <1>3, <1>4, <1>6, <1>8, <2>1, <2>2, <2>3, <2>6, <3>1 DEF Undealt
  <2>. QED  BY <1>1, <2>4, <2>5, <2>6
<1>. QED  BY <1>7, <1>8

LEMMA HostInDevice ==
  ASSUME DiskInv, NEW heard \in BOOLEAN, HostIn(heard)
  PROVE  /\ dev' \in Device /\ SameCommand(dev', dev) /\ SameDisk(dev', dev) /\ SameOut(dev', dev)
         /\ heard \/ dev' = dev
         /\ ~(Writing /\ "down" \in dev.flags) /\ ~(clean /\ "down" \in dev.flags)
         /\ heard =>
              /\ "up" \in dev.flags /\ dev.isRead =>
                   /\ Moves(dev', dev)
                   /\ dev'.flags = IF dev.len = 1 THEN dev.flags \ {"up"} ELSE dev.flags
                   /\ Answers(dev', dev, dev.disk[dev.lba][dev.count])
              /\ "up" \in dev.flags /\ ~dev.isRead =>
                   /\ dev'.flags \in {dev.flags, dev.flags \ {"up"}}
                   /\ dev'.lba = dev.lba /\ dev'.count = dev.count
                   /\ Answers(dev', dev, IF dev.len = 0 THEN <<"zlp">> ELSE <<"info">>)
              /\ "up" \notin dev.flags /\ "csw" \in dev.flags =>
                   dev'.flags = {} /\ Answers(dev', dev, <<"csw", dev.tag, dev.status>>)
              /\ dev.flags \cap {"up", "csw"} = {} =>
                   /\ SameWork(dev', dev)
                   /\ dev'.tog = 1 - dev.tog /\ ~dev'.busy /\ dev'.res = "nak" /\ dev'.packet = None
<1>1. dev \in Device /\ ("up" \in dev.flags /\ dev.isRead => \E e \in dev.lba + 1 .. Sectors : Left(dev, e))
  BY DEF DiskInv, Shape, Room
<1>2. phase \in {"in", "csw"} /\ HostPhase = phase /\ Live
  BY HostInIs
<1>3. ~(Writing /\ "down" \in dev.flags)
  <2>1. Writing /\ "down" \in dev.flags => HostPhase = "out"
    BY DEF DiskInv, Disk
  <2>. QED  BY <1>2, <2>1
<1>4. ~(clean /\ "down" \in dev.flags)
  BY <1>2, <1>3 DEF DiskInv, Disk
<1>5. CASE heard
  <2>1. dev' = IsrEp2In(dev)
    BY <1>5 DEF HostIn
  <2>. QED  BY <1>1, <1>3, <1>4, <1>5, <2>1, IsrInIs
<1>6. CASE ~heard
  <2>1. dev' = dev
    BY <1>6 DEF HostIn
  <2>. QED  BY <1>1, <1>3, <1>4, <1>6, <2>1 DEF SameCommand, SameDisk, SameOut
<1>. QED  BY <1>5, <1>6

(* A pack of a command lies in one of its sectors. *)
LEMMA PackIsThere ==
  ASSUME NEW c, WellFormed(c), NEW k \in Nat, k < Length(c)
  PROVE  c.lba + k \div Packs \in SectorIds /\ k % Packs \in Places
<1>1. c.lba \in SectorIds /\ c.n \in 0 .. Sectors - c.lba /\ c.lba \in Nat /\ c.n \in Nat
  BY Amounts DEF WellFormed, SectorIds
<1>2. PICK q \in Nat, r \in Places : k = q * Packs + r
  <2>. DEFINE b == Packs
  <2>1. b \in Nat \ {0}
    BY Amounts
  <2>. HIDE DEF b
  <2>2. /\ k \div b \in Nat /\ k % b \in 0 .. b - 1 /\ k = b * (k \div b) + (k % b)
    BY <2>1
  <2>3. PICK p \in Nat : p = k \div b
    BY <2>2
  <2>4. PICK s \in 0 .. b - 1 : s = k % b
    BY <2>2
  <2>5. k = b * p + s /\ b * p = p * b
    BY <2>1, <2>2, <2>3, <2>4
  <2>. QED  BY <2>5 DEF b, Places
<1>3. k \div Packs = q /\ k % Packs = r
  BY <1>2, PlaceIs
<1>4. q = 0 \/ q < c.n
  <2>1. CASE c.op \in {"read", "write"}
    <3>1. q * Packs + r < c.n * Packs
      BY <1>2, <2>1, LengthIs
    <3>2. ASSUME c.n <= q PROVE FALSE
      <4>1. PICK j \in Nat : q = c.n + j
        BY <1>1, <3>2, q - c.n \in Nat
      <4>2. q * Packs = c.n * Packs + j * Packs /\ j * Packs \in Nat /\ c.n * Packs \in Nat
        BY <1>1, <4>1, Amounts
      <4>. QED  BY <3>1, <4>2, Amounts DEF Places
    <3>. QED  BY <1>1, <3>2
  <2>2. CASE c.op \notin {"read", "write"}
    <3>1. q * Packs + r < 1
      BY <1>2, <2>2, LengthIs
    <3>2. ASSUME 1 <= q PROVE FALSE
      <4>1. PICK j \in Nat : q = 1 + j
        BY <3>2, q - 1 \in Nat
      <4>2. q * Packs = Packs + j * Packs /\ j * Packs \in Nat
        BY <4>1, Amounts
      <4>. QED  BY <3>1, <4>2, Amounts DEF Places
    <3>. QED  BY <3>2
  <2>. QED  BY <2>1, <2>2
<1>. QED  BY <1>1, <1>2, <1>3, <1>4, Amounts DEF SectorIds

LEMMA DataIsNoStatus ==
  ASSUME NEW d \in Device, NEW s \in SectorIds, NEW i \in Places
  PROVE  IsData(d.disk[s][i]) /\ d.disk[s][i][1] # "csw" /\ d.disk[s][i] \in Stored
<1>1. d.disk[s][i] \in Stored
  BY DEF Device
<1>. QED  BY <1>1, PacketsAre DEF IsData

(* What is offered is taken: at once, or it was taken before. *)
LEMMA OfferTaken ==
  ASSUME DiskInv, NEW heard \in BOOLEAN, HostIn(heard), NEW k, Offering(k)
  PROVE  /\ hostIn' = 1 - dev.tog
         /\ IF k + 1 < Length(cmd) THEN phase' = "in" /\ done' = k + 1 ELSE phase' = "csw"
<1>1. /\ phase \in {"in", "csw"} /\ dev.res = "ack" /\ Live
      /\ HostPhase = phase /\ HostDone = done
      /\ dev.tog = hostIn =>
           /\ hostIn' = 1 - hostIn
           /\ phase = "in" /\ IsData(dev.packet) /\ done + 1 < Length(cmd) =>
                phase' = "in" /\ done' = done + 1
           /\ phase = "in" /\ ~(IsData(dev.packet) /\ done + 1 < Length(cmd)) => phase' = "csw"
      /\ dev.tog # hostIn => UNCHANGED <<hostIn, phase, cmd, done, kept>>
  BY HostInIs
<1>2. /\ dev \in Device /\ dev.tog \in 0 .. 1 /\ hostIn \in 0 .. 1 /\ WellFormed(cmd)
  BY <1>1 DEF DiskInv, Shape, Device
<1>3. k \in 0 .. Length(cmd) - 1 /\ Length(cmd) \in Nat
  BY <1>2, LengthIs, LengthsFit DEF Offering, Lengths
<1>4. CASE dev.tog = hostIn
  <2>1. phase = "in" /\ done = k /\ IsDue(dev.packet, "in", k)
    BY <1>1, <1>4 DEF Offering
  <2>2. IsData(dev.packet)
    <3>1. CASE cmd.op = "read"
      <4>1. dev.packet = dev.disk[cmd.lba + k \div Packs][k % Packs]
        BY <2>1, <3>1 DEF IsDue
      <4>2. cmd.lba + k \div Packs \in SectorIds /\ k % Packs \in Places
        BY <1>2, <1>3, PackIsThere
      <4>. QED  BY <1>2, <4>1, <4>2, DataIsNoStatus
    <3>2. CASE cmd.op # "read"
      BY <2>1, <3>2 DEF IsDue, IsData
    <3>. QED  BY <3>1, <3>2
  <2>. QED  BY <1>1, <1>4, <2>1, <2>2
<1>5. CASE dev.tog # hostIn
  <2>1. hostIn = 1 - dev.tog
    BY <1>2, <1>5
  <2>2. IF k + 1 < Length(cmd) THEN phase = "in" /\ done = k + 1 ELSE phase = "csw"
    BY <1>5 DEF Offering
  <2>. QED  BY <1>1, <1>5, <2>1, <2>2
<1>. QED  BY <1>4, <1>5

LEMMA HostInFlags ==
  ASSUME DiskInv, NEW heard \in BOOLEAN, HostIn(heard)
  PROVE  /\ dev'.flags \subseteq dev.flags /\ dev'.tog \in {dev.tog, 1 - dev.tog}
         /\ dev'.res = "ack" => dev'.busy
         /\ dev'.res = "nak" => dev'.tog = 1 - dev.tog
         /\ dev'.res \in {"ack", "nak"}
         /\ dev'.packet[1] = "csw" =>
              \/ /\ dev'.flags = {} /\ dev'.packet[2] = dev'.tag
                 /\ "up" \notin dev.flags /\ "csw" \in dev.flags
              \/ ~heard
<1>1. dev \in Device /\ dev.res = "ack" /\ dev.busy
  BY HostInIs DEF DiskInv, Shape, Endpoints
<1>2. CASE ~heard
  <2>1. dev' = dev
    BY <1>2, HostInDevice
  <2>. QED  BY <1>1, <1>2, <2>1
<1>3. CASE heard /\ "up" \in dev.flags /\ dev.isRead
  <2>1. PICK e \in dev.lba + 1 .. Sectors : Left(dev, e)
    BY <1>3 DEF DiskInv, Room
  <2>2. dev.lba \in SectorIds /\ dev.count \in Places
    BY <1>1, <2>1, Numbers, Amounts DEF SectorIds
  <2>3. dev'.flags \subseteq dev.flags /\ Answers(dev', dev, dev.disk[dev.lba][dev.count])
    BY <1>3, HostInDevice
  <2>. QED  BY <1>1, <2>2, <2>3, DataIsNoStatus DEF Answers
<1>4. CASE heard /\ "up" \in dev.flags /\ ~dev.isRead
  <2>1. /\ dev'.flags \subseteq dev.flags
        /\ Answers(dev', dev, IF dev.len = 0 THEN <<"zlp">> ELSE <<"info">>)
    BY <1>4, HostInDevice
  <2>2. dev'.packet \in {<<"zlp">>, <<"info">>}
    BY <2>1, Zenon DEF Answers
  <2>3. dev'.packet[1] # "csw"
    BY <2>2
  <2>. QED  BY <2>1, <2>3 DEF Answers
<1>5. CASE heard /\ "up" \notin dev.flags /\ "csw" \in dev.flags
  <2>1. /\ dev'.flags = {} /\ Answers(dev', dev, <<"csw", dev.tag, dev.status>>)
        /\ dev'.tag = dev.tag
    BY <1>5, HostInDevice DEF SameCommand
  <2>. QED  BY <1>5, <2>1 DEF Answers
<1>6. CASE heard /\ dev.flags \cap {"up", "csw"} = {}
  <2>1. /\ SameWork(dev', dev) /\ dev'.tog = 1 - dev.tog /\ dev'.res = "nak"
        /\ dev'.packet = None
    BY <1>6, HostInDevice
  <2>. QED  BY <2>1, PacketsAre DEF SameWork
<1>7. \/ heard /\ "up" \in dev.flags /\ dev.isRead
      \/ heard /\ "up" \in dev.flags /\ ~dev.isRead
      \/ heard /\ "up" \notin dev.flags /\ "csw" \in dev.flags
      \/ heard /\ dev.flags \cap {"up", "csw"} = {}
      \/ ~heard
  BY Zenon
<1>. QED  BY <1>2, <1>3, <1>4, <1>5, <1>6, <1>7

LEMMA HostInRoom == ASSUME DiskInv, NEW heard \in BOOLEAN, HostIn(heard) PROVE Room'
<1>1. /\ dev \in Device /\ dev.res = "ack" /\ dev'.flags \subseteq dev.flags
      /\ SameCommand(dev', dev) /\ SameDisk(dev', dev)
  BY HostInIs, HostInDevice, HostInFlags DEF DiskInv, Shape
<1>2. "down" \in dev.flags => "up" \notin dev.flags /\ kept' = kept
  <2>1. phase' = "idle" /\ cmd.op = "write" => dev.flags = {}
    <3>1. phase' = "idle" => Live /\ dev.packet[1] = "csw" /\ dev.packet[2] = cmd.tag
      BY HostInIs DEF IsStatus
    <3>. QED  BY <3>1 DEF DiskInv, Flags
  <2>2. kept' = kept \/ (phase' = "idle" /\ cmd.op = "write")
    BY HostInIs
  <2>3. {"up", "down"} \subseteq dev.flags => FALSE
    BY <1>1 DEF DiskInv, Flags
  <2>. QED  BY <2>1, <2>2, <2>3
<1>3. CASE "down" \in dev.flags
  <2>1. "up" \notin dev.flags /\ kept' = kept
    BY <1>2, <1>3
  <2>2. CASE heard /\ "csw" \in dev.flags
    <3>1. dev'.flags = {}
      BY <2>1, <2>2, HostInDevice
    <3>. QED  BY <3>1 DEF Room
  <2>3. CASE ~heard \/ "csw" \notin dev.flags
    <3>1. SameWork(dev', dev)
      BY <2>1, <2>3, HostInDevice DEF SameWork
    <3>. QED  BY <1>1, <2>1, <3>1 DEF DiskInv, Room, Left, SameWork, SameDisk
  <2>. QED  BY <2>2, <2>3
<1>4. CASE "down" \notin dev.flags /\ ("up" \notin dev.flags \/ ~dev.isRead)
  BY <1>1, <1>4 DEF Room, SameCommand
<1>5. CASE "down" \notin dev.flags /\ "up" \in dev.flags /\ dev.isRead
  <2>1. "down" \notin dev'.flags
    BY <1>1, <1>5
  <2>2. CASE ~heard
    <3>1. dev' = dev
      BY <2>2, HostInDevice
    <3>. QED  BY <1>5, <3>1 DEF DiskInv, Room, Left
  <2>3. CASE heard
    <3>1. PICK e \in dev.lba + 1 .. Sectors : Left(dev, e)
      BY <1>5 DEF DiskInv, Room
    <3>2. Moves(dev', dev) /\ dev'.flags = IF dev.len = 1 THEN dev.flags \ {"up"} ELSE dev.flags
      BY <1>5, <2>3, HostInDevice
    <3>3. ASSUME "up" \in dev'.flags PROVE e \in dev'.lba + 1 .. Sectors /\ Left(dev', e)
      <4>1. dev.len > 1
        BY <1>1, <3>1, <3>2, <3>3, Numbers DEF Left
      <4>. QED  BY <1>1, <3>1, <3>2, <4>1, MovesOn
    <3>. QED  BY <2>1, <3>3 DEF Room
  <2>. QED  BY <2>2, <2>3
<1>. QED  BY <1>3, <1>4, <1>5, Zenon

LEMMA HostInDisk == ASSUME DiskInv, NEW heard \in BOOLEAN, HostIn(heard) PROVE Disk'
<1>1. /\ Live /\ clean' = clean /\ dev'.tag = dev.tag /\ dev'.disk = dev.disk
      /\ phase' \in {"in", "csw", "idle", "reset"} /\ (phase' \in {"in", "csw"} => cmd' = cmd)
      /\ dev'.flags \subseteq dev.flags
      /\ ~(Writing /\ "down" \in dev.flags) /\ ~(clean /\ "down" \in dev.flags)
  BY HostInIs, HostInDevice, HostInFlags DEF SameCommand, SameDisk
<1>2. Live' => phase' \in {"in", "csw"}
  BY <1>1 DEF Live
<1>3. /\ phase' = "idle" => dev.packet[1] = "csw" /\ dev.packet[2] = cmd.tag
      /\ \/ kept' = kept
         \/ /\ phase' = "idle" /\ dev.packet[3] = 0 /\ cmd.op = "write"
            /\ kept' = [s \in SectorIds |-> IF s \in SectorsOf(cmd) THEN cmd.ver ELSE kept[s]]
  BY HostInIs DEF IsStatus
<1>4. AcknowledgedIsStored'
  <2>1. CASE kept' = kept
    BY <1>1, <2>1 DEF DiskInv, Disk, AcknowledgedIsStored
  <2>2. CASE /\ phase' = "idle" /\ dev.packet[3] = 0 /\ cmd.op = "write"
             /\ kept' = [s \in SectorIds |-> IF s \in SectorsOf(cmd) THEN cmd.ver ELSE kept[s]]
    <3>1. Writing
      BY <1>1, <1>3, <2>2 DEF DiskInv, Flags, Writing
    <3>2. \A s \in SectorsOf(cmd) : dev.disk[s] = Sector(cmd.ver, s)
      BY <1>3, <2>2, <3>1 DEF DiskInv, Disk
    <3>3. \A s \in SectorIds : kept[s] # Unsure => dev.disk[s] = Sector(kept[s], s)
      BY DEF DiskInv, Disk, AcknowledgedIsStored
    <3>. QED  BY <1>1, <2>2, <3>2, <3>3 DEF AcknowledgedIsStored
  <2>. QED  BY <1>3, <2>1, <2>2
<1>5. (Live /\ cmd.op = "write" => \A s \in SectorsOf(cmd) : kept[s] = Unsure)'
  BY <1>1, <1>2, <1>3 DEF DiskInv, Disk
<1>6. Writing' => Writing /\ dev.flags = {} /\ dev'.flags = {}
  <2>1. Writing' => Writing
    BY <1>1, <1>2 DEF Writing
  <2>. QED  BY <1>1, <2>1 DEF DiskInv, Disk
<1>7. (Writing /\ dev.packet[1] = "csw" /\ dev.packet[2] = cmd.tag /\ dev.packet[3] = 0 =>
         \A s \in SectorsOf(cmd) : dev.disk[s] = Sector(cmd.ver, s))'
  <2>. SUFFICES ASSUME Writing', dev'.packet[1] = "csw", dev'.packet[2] = cmd'.tag,
                       dev'.packet[3] = 0
                PROVE  \A s \in SectorsOf(cmd) : dev.disk[s] = Sector(cmd.ver, s)
    BY <1>1, <1>2 DEF Writing
  <2>1. Writing /\ dev.flags = {} /\ cmd' = cmd
    BY <1>1, <1>2, <1>6 DEF Writing
  <2>2. dev' = dev
    BY <2>1, HostInFlags, HostInDevice
  <2>. QED  BY <2>1, <2>2 DEF DiskInv, Disk
<1>8. (clean /\ Live /\ "down" \in dev.flags => Writing)'
  BY <1>1
<1>. QED  BY <1>4, <1>5, <1>6, <1>7, <1>8 DEF Disk

(* How much of a transfer of the command at hand is through. *)
LEMMA ThroughIs ==
  ASSUME dev \in Device, WellFormed(cmd), cmd.op \in {"read", "write"},
         Left(dev, cmd.lba + cmd.n), cmd.lba <= dev.lba
  PROVE  /\ Through \in Nat /\ Through + dev.len = Length(cmd) /\ Length(cmd) \in Nat
         /\ cmd.lba + cmd.n \in dev.lba + 1 .. Sectors
         /\ cmd.lba + Through \div Packs = dev.lba /\ Through % Packs = dev.count
<1>1. /\ cmd.lba \in Nat /\ cmd.n \in Nat /\ cmd.lba + cmd.n <= Sectors
      /\ dev.lba \in Nat /\ dev.count \in Places /\ dev.count \in Nat /\ dev.len \in Nat
  BY Numbers, Amounts DEF WellFormed, SectorIds
<1>2. PICK q \in Nat : dev.lba = cmd.lba + q
  BY <1>1, dev.lba - cmd.lba \in Nat
<1>3. Through = q * Packs + dev.count /\ q * Packs \in Nat
  <2>1. dev.lba - cmd.lba = q
    BY <1>1, <1>2
  <2>. QED  BY <2>1, <1>2, Amounts DEF Through
<1>4. Through \div Packs = q /\ Through % Packs = dev.count
  BY <1>1, <1>3, PlaceIs
<1>5. dev.count + dev.len = (cmd.n - q) * Packs /\ dev.len >= 1
  <2>1. (cmd.lba + cmd.n) - dev.lba = cmd.n - q
    BY <1>1, <1>2
  <2>. QED  BY <2>1, Zenon DEF Left
<1>6. Length(cmd) = cmd.n * Packs /\ Length(cmd) \in Nat
  BY <1>1, LengthIs, Amounts
<1>7. (cmd.n - q) * Packs = cmd.n * Packs - q * Packs /\ cmd.n * Packs \in Nat
  BY <1>1, <1>2, Amounts
<1>8. Through + dev.len = Length(cmd)
  BY <1>1, <1>3, <1>5, <1>6, <1>7
<1>9. q < cmd.n
  <2>. SUFFICES ASSUME cmd.n <= q PROVE FALSE
    BY <1>1, <1>2
  <2>1. PICK j \in Nat : q = cmd.n + j
    BY <1>1, <1>2, q - cmd.n \in Nat
  <2>2. q * Packs = cmd.n * Packs + j * Packs /\ j * Packs \in Nat
    BY <1>1, <2>1, Amounts
  <2>. QED  BY <1>1, <1>5, <1>7, <2>2
<1>. QED  BY <1>1, <1>2, <1>3, <1>4, <1>6, <1>8, <1>9

LEMMA HostInOffers == ASSUME DiskInv, NEW heard \in BOOLEAN, HostIn(heard) PROVE Offers'
<1>1. /\ phase \in {"in", "csw"} /\ dev.res = "ack" /\ Live /\ HostPhase = phase
      /\ clean' = clean /\ phase' \in {"in", "csw", "idle", "reset"} /\ ~Undealt'
      /\ phase' \in {"in", "csw"} => cmd' = cmd
      /\ dev.tog = hostIn /\ phase = "csw" => phase' \in {"idle", "reset"}
  BY HostInIs
<1>2. Live' => phase' \in {"in", "csw"}
  BY <1>1 DEF Live
<1>. SUFFICES ASSUME clean, phase' \in {"in", "csw"} PROVE Offers'
  BY <1>1, <1>2 DEF Offers
<1>3. /\ dev \in Device /\ WellFormed(cmd) /\ dev.busy
      /\ dev.flags \in {{}, {"csw"}, {"up", "csw"}, {"down", "csw"}}
      /\ dev.flags # {} => dev.tag = cmd.tag /\ Reports(dev.status)
      /\ dev.flags = {} => HostPhase = "csw" /\ dev.tog = hostIn
      /\ dev.flags = {"csw"} => Offering(Length(cmd) - 1)
      /\ dev.flags = {"up", "csw"} =>
           /\ cmd.op = "read" /\ dev.isRead
           /\ Left(dev, cmd.lba + cmd.n) /\ cmd.lba <= dev.lba
           /\ Offering(Through - 1)
      /\ dev.flags # {"down", "csw"}
  BY <1>1 DEF DiskInv, Shape, Endpoints, Offers
<1>4. /\ SameCommand(dev', dev) /\ SameDisk(dev', dev)
      /\ cmd' = cmd /\ HostPhase' = phase' /\ HostDone' = done' /\ Reports(dev.status)' = Reports(dev.status)
  <2>1. SameCommand(dev', dev) /\ SameDisk(dev', dev) /\ cmd' = cmd
    BY <1>1, HostInDevice
  <2>2. HostPhase' = phase' /\ HostDone' = done'
    BY <1>1 DEF HostPhase, HostDone, Ahead
  <2>. QED  BY <2>1, <2>2 DEF Reports, SameCommand
<1>5. dev.flags # {}
  BY <1>1, <1>3
<1>6. dev'.tag = cmd'.tag /\ Reports(dev.status)'
  BY <1>3, <1>4, <1>5 DEF SameCommand
<1>7. PICK k : /\ Offering(k) /\ (dev.flags = {"csw"} => k = Length(cmd) - 1)
               /\ (dev.flags = {"up", "csw"} => k = Through - 1)
  BY <1>3, <1>5
<1>8. /\ hostIn' = 1 - dev.tog /\ k \in 0 .. Length(cmd) - 1 /\ cmd.dir = "in"
      /\ IF k + 1 < Length(cmd) THEN phase' = "in" /\ done' = k + 1 ELSE phase' = "csw"
  BY <1>7, OfferTaken DEF Offering
<1>9. CASE ~heard
  <2>1. dev' = dev /\ dev.tog # hostIn'
    BY <1>3, <1>8, <1>9, HostInDevice DEF Device
  <2>2. Offering(k)'
    BY <1>4, <1>8, <2>1 DEF Offering, Length
  <2>3. Length(cmd)' = Length(cmd) /\ Through' = Through
    BY <1>4, <2>1 DEF Length, Through
  <2>4. dev.flags = {"csw"} => Offering(Length(cmd) - 1)'
    BY <1>7, <2>2, <2>3 DEF Offering
  <2>5. dev.flags = {"up", "csw"} => Offering(Through - 1)'
    BY <1>7, <2>2, <2>3 DEF Offering
  <2>. QED  BY <1>1, <1>3, <1>4, <1>5, <1>6, <2>1, <2>4, <2>5 DEF Offers, Left
<1>10. CASE heard /\ dev.flags = {"csw"}
  <2>1. dev'.flags = {} /\ Answers(dev', dev, <<"csw", dev.tag, dev.status>>)
    BY <1>10, HostInDevice
  <2>2. phase' = "csw"
    <3>1. Length(cmd) \in Nat
      BY <1>3, LengthIs, LengthsFit DEF Lengths
    <3>. QED  BY <1>7, <1>8, <1>10, <3>1
  <2>3. Reports(dev.packet[3])'
    BY <1>4, <1>6, <2>1 DEF Answers, Reports, SameCommand
  <2>4. /\ dev'.flags = {} /\ dev'.busy /\ dev'.res = "ack" /\ dev'.tog = hostIn'
        /\ HostPhase' = "csw"
    BY <1>4, <1>8, <2>1, <2>2 DEF Answers
  <2>5. dev'.packet[1] = "csw" /\ dev'.packet[2] = cmd'.tag
    <3>1. dev.tag = cmd'.tag
      BY <1>4, <1>6 DEF SameCommand
    <3>. QED  BY <2>1, <3>1 DEF Answers
  <2>. QED  BY <1>1, <2>3, <2>4, <2>5 DEF Offers
<1>11. CASE heard /\ dev.flags = {"up", "csw"}
  <2>. DEFINE e == cmd.lba + cmd.n
  <2>1. cmd.op = "read" /\ dev.isRead /\ Left(dev, e) /\ cmd.lba <= dev.lba /\ k = Through - 1
    BY <1>3, <1>7, <1>11
  <2>2. /\ Moves(dev', dev) /\ dev'.flags = IF dev.len = 1 THEN {"csw"} ELSE {"up", "csw"}
        /\ Answers(dev', dev, dev.disk[dev.lba][dev.count])
    BY <1>11, <2>1, HostInDevice
  <2>3. /\ Through \in Nat /\ Through + dev.len = Length(cmd) /\ Length(cmd) \in Nat
        /\ e \in dev.lba + 1 .. Sectors
        /\ cmd.lba + Through \div Packs = dev.lba /\ Through % Packs = dev.count
    BY <1>3, <2>1, ThroughIs
  <2>4. PICK t \in Nat : t = Through
    BY <2>3
  <2>5. /\ k + 1 = t /\ k \in Int /\ t < Length(cmd) /\ dev.len \in Nat /\ dev.len >= 1
        /\ dev.len = 1 => t = Length(cmd) - 1
    BY <1>3, <1>8, <2>1, <2>3, <2>4, Numbers DEF Left
  <2>6. phase' = "in" /\ done' = t
    BY <1>8, <2>5
  <2>7. IsDue(dev.packet, "in", t)'
    <3>1. dev'.packet = dev'.disk[cmd'.lba + t \div Packs][t % Packs]
      BY <1>4, <2>2, <2>3, <2>4 DEF Answers, SameDisk
    <3>2. t < Length(cmd)' /\ cmd'.op = "read"
      BY <1>4, <2>1, <2>5 DEF Length
    <3>. QED  BY <3>1, <3>2 DEF IsDue
  <2>8. Offering(t)'
    <3>1. t \in 0 .. Length(cmd)' - 1 /\ cmd'.dir = "in"
      BY <1>4, <1>8, <2>3, <2>5 DEF Length
    <3>2. dev'.tog = hostIn'
      BY <1>8, <2>2 DEF Answers
    <3>. QED  BY <1>4, <2>6, <2>7, <3>1, <3>2 DEF Offering
  <2>9. CASE dev.len = 1
    <3>1. dev'.flags = {"csw"} /\ t = Length(cmd)' - 1
      BY <1>4, <2>2, <2>5, <2>9 DEF Length
    <3>2. Offering(Length(cmd) - 1)'
      BY <2>8, <3>1 DEF Offering
    <3>3. dev'.busy /\ dev'.res = "ack"
      BY <2>2 DEF Answers
    <3>. QED  BY <1>1, <1>6, <3>1, <3>2, <3>3 DEF Offers
  <2>10. CASE dev.len # 1
    <3>1. dev.len > 1
      BY <2>5, <2>10
    <3>2. /\ Left(dev', e) /\ dev.lba <= dev'.lba
          /\ (dev'.lba - cmd.lba) * Packs + dev'.count = (dev.lba - cmd.lba) * Packs + dev.count + 1
      <4>1. cmd.lba \in Nat
        BY <1>3, Amounts DEF WellFormed, SectorIds
      <4>. HIDE DEF e
      <4>. QED  BY <1>3, <2>1, <2>2, <2>3, <3>1, <4>1, MovesOn
    <3>3. Through' = Through + 1
      BY <1>4, <3>2 DEF Through
    <3>4. Offering(Through - 1)'
      <4>1. t = Through' - 1
        BY <2>4, <3>3
      <4>. QED  BY <2>8, <4>1 DEF Offering
    <3>5. cmd'.lba <= dev'.lba /\ Left(dev', cmd'.lba + cmd'.n)
      <4>1. cmd.lba \in Nat /\ dev.lba \in Nat /\ dev'.lba \in Nat
        BY <1>3, <2>2, Numbers, Amounts DEF WellFormed, SectorIds, Moves
      <4>. QED  BY <1>4, <2>1, <3>2, <4>1
    <3>6. dev'.flags = {"up", "csw"} /\ dev'.res = "ack" /\ dev'.isRead /\ cmd'.op = "read"
      BY <1>4, <2>1, <2>2, <2>10 DEF Answers, SameCommand
    <3>. QED  BY <1>1, <1>6, <3>4, <3>5, <3>6 DEF Offers
  <2>. QED  BY <2>9, <2>10
<1>. QED  BY <1>3, <1>5, <1>9, <1>10, <1>11

LEMMA HostInStep == ASSUME DiskInv, NEW heard \in BOOLEAN, HostIn(heard) PROVE DiskInv'
<1>1. /\ phase \in {"in", "csw"} /\ dev.res = "ack" /\ Live /\ hostOut = dev.rxTog
      /\ hostOut' = hostOut /\ clean' = clean /\ faults' \in 0 .. MaxFaults
      /\ phase' \in {"in", "csw", "idle", "reset"} /\ ~Undealt'
      /\ done' \in Lengths /\ (phase' = "in" => done' < Length(cmd))
      /\ phase' \in {"in", "csw"} => cmd' = cmd
  BY HostInIs
<1>2. /\ dev' \in Device /\ SameCommand(dev', dev) /\ SameDisk(dev', dev) /\ SameOut(dev', dev)
      /\ heard \/ dev' = dev
  BY HostInDevice
<1>3. /\ dev'.flags \subseteq dev.flags /\ dev'.tog \in {dev.tog, 1 - dev.tog}
      /\ dev'.res = "ack" => dev'.busy
      /\ dev'.res = "nak" => dev'.tog = 1 - dev.tog
      /\ dev'.res \in {"ack", "nak"}
      /\ dev'.packet[1] = "csw" =>
           \/ dev'.flags = {} /\ dev'.packet[2] = dev'.tag
           \/ ~heard
  BY HostInFlags
<1>4. hostIn \in 0 .. 1 /\ dev.tog \in 0 .. 1 /\ hostIn' = 1 - dev.tog
  <2>1. hostIn \in 0 .. 1 /\ dev.tog \in 0 .. 1
    BY DEF DiskInv, Shape, Device
  <2>2. dev.tog = hostIn => hostIn' = 1 - hostIn
    BY HostInIs
  <2>3. dev.tog # hostIn => hostIn' = hostIn
    BY HostInIs
  <2>. QED  BY <2>1, <2>2, <2>3
<1>5. Shape'
  <2>1. hostIn' \in 0 .. 1
    BY <1>4
  <2>2. kept' \in [SectorIds -> Versions \cup {0, Unsure}]
    <3>1. cmd.ver \in Versions \cup {0}
      BY <1>1 DEF DiskInv, Shape, WellFormed
    <3>2. \/ kept' = kept
          \/ kept' = [s \in SectorIds |-> IF s \in SectorsOf(cmd) THEN cmd.ver ELSE kept[s]]
      BY HostInIs
    <3>. QED  BY <3>1, <3>2 DEF DiskInv, Shape
  <2>3. Live' => WellFormed(cmd')
    BY <1>1 DEF DiskInv, Shape, Live
  <2>4. phase' \in {"in", "out"} => done' < Length(cmd)'
    BY <1>1 DEF Length
  <2>. QED  BY <1>1, <1>2, <2>1, <2>2, <2>3, <2>4 DEF DiskInv, Shape
<1>6. Endpoints'
  BY <1>1, <1>2, <1>3, <1>4 DEF Endpoints, SameOut
<1>7. Flags'
  <2>1. (~("up" \in dev.flags /\ dev.res = "ack") \/ phase \in {"cbw", "out", "in", "csw", "reset"})'
    <3>1. phase' = "idle" => dev.packet[1] = "csw" /\ dev.packet[2] = cmd.tag
      BY HostInIs DEF IsStatus
    <3>2. phase' = "idle" => dev.flags = {}
      BY <1>1, <3>1 DEF DiskInv, Flags
    <3>. QED  BY <1>1, <1>3, <3>2
  <2>2. ~({"up", "down"} \subseteq dev.flags)'
    BY <1>1, <1>3 DEF DiskInv, Flags
  <2>3. (Live /\ dev.packet[1] = "csw" /\ dev.packet[2] = cmd.tag =>
           dev.flags = {} /\ dev.tag = cmd.tag)'
    <3>1. Live' => cmd' = cmd
      BY <1>1 DEF Live
    <3>2. CASE heard
      BY <1>3, <3>2
    <3>3. CASE ~heard
      BY <1>1, <1>2, <3>1, <3>3 DEF DiskInv, Flags
    <3>. QED  BY <3>2, <3>3
  <2>. QED  BY <1>1, <2>1, <2>2, <2>3 DEF Flags
<1>. QED  BY <1>5, <1>6, <1>7, HostInRoom, HostInDisk, HostInOffers DEF DiskInv

(***************************************************************************)
(* The host sends a packet.                                                *)
(***************************************************************************)
LEMMA HostOutIs ==
  ASSUME DiskInv, NEW heard \in BOOLEAN, HostOut(heard)
  PROVE  /\ phase \in {"cbw", "out"} /\ Live /\ Live' /\ WellFormed(cmd)
         /\ dev' = IsrEp3Out(dev, hostOut, cmd,
                         IF phase = "cbw" THEN <<"cbw">> ELSE PackAt(cmd, cmd.ver, done))
         /\ cmd' = cmd /\ hostIn' = hostIn /\ clean' = clean /\ kept' = kept
         /\ faults' \in 0 .. MaxFaults
         /\ phase' \in {"cbw", "in", "out", "csw"}
         /\ done' \in Lengths /\ (phase' \in {"in", "out"} => done' < Length(cmd)')
         /\ PhaseAfterOut \in {"in", "out", "csw"}
         /\ \/ /\ heard /\ hostOut' = 1 - hostOut
               /\ phase' = PhaseAfterOut /\ done' = DoneAfterOut
            \/ ~heard /\ hostOut' = hostOut /\ phase' = phase /\ done' = done
<1>1. /\ phase \in {"cbw", "out"}
      /\ dev' = IsrEp3Out(dev, hostOut, cmd,
                      IF phase = "cbw" THEN <<"cbw">> ELSE PackAt(cmd, cmd.ver, done))
      /\ cmd' = cmd /\ hostIn' = hostIn /\ clean' = clean /\ kept' = kept
      /\ \/ /\ heard /\ faults' = faults /\ hostOut' = 1 - hostOut
            /\ phase' = PhaseAfterOut /\ done' = DoneAfterOut
         \/ /\ ~heard /\ Fault /\ hostOut' = hostOut /\ phase' = phase /\ done' = done
  BY DEF HostOut
<1>2. Live /\ WellFormed(cmd)
  BY <1>1 DEF DiskInv, Shape, Live
<1>3. faults' \in 0 .. MaxFaults
  <2>1. faults' = faults \/ (faults < MaxFaults /\ faults' = faults + 1)
    BY <1>1 DEF Fault
  <2>. QED  BY <2>1, Amounts DEF DiskInv, Shape
<1>4. done \in Lengths /\ (phase = "out" => done < Length(cmd)) /\ Length(cmd) \in Lengths
  BY <1>2, LengthIs DEF DiskInv, Shape
<1>5. done \in Nat /\ Length(cmd) \in Nat /\ \A n \in Nat : n < Length(cmd) => n \in Lengths
  BY <1>4, LengthsFit DEF Lengths
<1>6. cmd.dir \in {"in", "out"} => Length(cmd) >= 1
  BY <1>2, LengthIs DEF WellFormed
<1>7. PhaseAfterOut \in {"in", "out", "csw"}
  BY DEF PhaseAfterOut, AfterCbw
<1>8. DoneAfterOut \in Lengths
  <2>1. 0 \in Lengths
    BY LengthsFit DEF Lengths
  <2>. QED  BY <1>5, <2>1 DEF DoneAfterOut
<1>9. PhaseAfterOut \in {"in", "out"} => DoneAfterOut < Length(cmd)
  <2>1. CASE phase = "cbw"
    <3>1. PhaseAfterOut \in {"in", "out"} => cmd.dir \in {"in", "out"}
      BY <2>1 DEF PhaseAfterOut, AfterCbw
    <3>2. DoneAfterOut = 0
      BY <2>1 DEF DoneAfterOut
    <3>. QED  BY <1>5, <1>6, <3>1, <3>2
  <2>2. CASE phase = "out"
    BY <1>4, <1>5, <2>2 DEF DoneAfterOut
  <2>. QED  BY <1>1, <2>1, <2>2
<1>10. Length(cmd)' = Length(cmd)
  BY <1>1 DEF Length
<1>11. CASE heard
  BY <1>1, <1>2, <1>3, <1>7, <1>8, <1>9, <1>10, <1>11 DEF Live
<1>12. CASE ~heard
  BY <1>1, <1>2, <1>3, <1>4, <1>7, <1>10, <1>12 DEF Live
<1>. QED  BY <1>11, <1>12

(* A packet with the toggle of the last one is a copy of it. *)
LEMMA IgnoredStep ==
  ASSUME DiskInv, NEW heard \in BOOLEAN, HostOut(heard), hostOut # dev.rxTog
  PROVE  DiskInv' /\ dev' = dev
<1>1. /\ phase \in {"cbw", "out"} /\ Live /\ Live' /\ WellFormed(cmd)
      /\ cmd' = cmd /\ hostIn' = hostIn /\ clean' = clean /\ kept' = kept
      /\ faults' \in 0 .. MaxFaults
      /\ phase' \in {"cbw", "in", "out", "csw"}
      /\ done' \in Lengths /\ (phase' \in {"in", "out"} => done' < Length(cmd)')
      /\ PhaseAfterOut \in {"in", "out", "csw"}
      /\ \/ /\ heard /\ hostOut' = 1 - hostOut
            /\ phase' = PhaseAfterOut /\ done' = DoneAfterOut
         \/ ~heard /\ hostOut' = hostOut /\ phase' = phase /\ done' = done
  BY HostOutIs
<1>2. dev' = dev
  BY HostOutIs DEF IsrEp3Out
<1>3. hostOut \in 0 .. 1 /\ dev.rxTog \in 0 .. 1 /\ 1 - hostOut \in 0 .. 1
  BY DEF DiskInv, Shape, Device
<1>4. /\ ~Undealt /\ ~Undealt' /\ hostOut' \in 0 .. 1
      /\ hostOut' # dev'.rxTog => phase' \in {"cbw", "out"}
  BY <1>1, <1>2, <1>3 DEF Undealt
<1>5. HostPhase' = HostPhase /\ HostDone' = HostDone
  <2>1. HostPhase = PhaseAfterOut /\ HostDone = DoneAfterOut
    BY <1>1 DEF HostPhase, HostDone, Ahead
  <2>2. CASE heard
    <3>1. hostOut' = dev'.rxTog /\ phase' = PhaseAfterOut /\ done' = DoneAfterOut
      BY <1>1, <1>2, <1>3, <2>2
    <3>2. ~Ahead'
      BY <3>1 DEF Ahead
    <3>. QED  BY <2>1, <3>1, <3>2 DEF HostPhase, HostDone
  <2>3. CASE ~heard
    BY <1>1, <1>2, <2>3 DEF HostPhase, HostDone, Ahead, PhaseAfterOut, DoneAfterOut
  <2>. QED  BY <2>2, <2>3
<1>6. Shape'
  BY <1>1, <1>2, <1>3, <1>4 DEF DiskInv, Shape
<1>7. Endpoints'
  BY <1>1, <1>2, <1>4 DEF DiskInv, Endpoints
<1>8. Flags'
  BY <1>1, <1>2, <1>4 DEF DiskInv, Flags
<1>9. Room'
  BY <1>1, <1>2 DEF DiskInv, Room
<1>10. Disk'
  <2>1. AcknowledgedIsStored'
    BY <1>1, <1>2 DEF DiskInv, Disk, AcknowledgedIsStored
  <2>2. Writing' = Writing /\ Through' = Through
    BY <1>1, <1>2 DEF Writing, Through
  <2>. QED  BY <1>1, <1>2, <1>5, <2>1, <2>2 DEF DiskInv, Disk
<1>11. Offers'
  <2>1. ASSUME NEW k, Offering(k) PROVE Offering(k)'
    <3>1. dev.tog = hostIn
      BY <1>1, <2>1 DEF Offering
    <3>. QED  BY <1>1, <1>2, <1>5, <2>1, <3>1 DEF Offering, IsDue, Length
  <2>2. Length(cmd)' = Length(cmd) /\ Through' = Through
    BY <1>1, <1>2 DEF Length, Through
  <2>3. Offering(Length(cmd) - 1) => Offering(Length(cmd) - 1)'
    BY <2>1, <2>2 DEF Offering
  <2>4. Offering(Through - 1) => Offering(Through - 1)'
    BY <2>1, <2>2 DEF Offering
  <2>5. Reports(dev.status)' = Reports(dev.status) /\ Reports(dev.packet[3])' = Reports(dev.packet[3])
    BY <1>1, <1>2 DEF Reports
  <2>. QED  BY <1>1, <1>2, <1>4, <1>5, <2>3, <2>4, <2>5 DEF DiskInv, Offers
<1>. QED  BY <1>2, <1>6, <1>7, <1>8, <1>9, <1>10, <1>11 DEF DiskInv

(* The host and a packet of its that the device deals with. *)
LEMMA DealtIs ==
  ASSUME DiskInv, NEW heard \in BOOLEAN, HostOut(heard), hostOut = dev.rxTog,
         dev' \in Device, Took(dev', dev)
  PROVE  /\ Shape' /\ ~Undealt'
         /\ hostOut' # dev'.rxTog => phase' \in {"cbw", "out"}
         /\ HostPhase = phase /\ HostDone = done
         /\ HostPhase' = PhaseAfterOut /\ HostDone' = DoneAfterOut
<1>1. /\ phase \in {"cbw", "out"} /\ Live /\ Live' /\ WellFormed(cmd)
      /\ cmd' = cmd /\ hostIn' = hostIn /\ clean' = clean /\ kept' = kept
      /\ faults' \in 0 .. MaxFaults
      /\ phase' \in {"cbw", "in", "out", "csw"}
      /\ done' \in Lengths /\ (phase' \in {"in", "out"} => done' < Length(cmd)')
      /\ PhaseAfterOut \in {"in", "out", "csw"}
      /\ \/ /\ heard /\ hostOut' = 1 - hostOut
            /\ phase' = PhaseAfterOut /\ done' = DoneAfterOut
         \/ ~heard /\ hostOut' = hostOut /\ phase' = phase /\ done' = done
  BY HostOutIs
<1>2. hostOut \in 0 .. 1 /\ dev'.rxTog = 1 - hostOut /\ 1 - hostOut \in 0 .. 1 /\ 1 - hostOut # hostOut
  BY DEF DiskInv, Shape, Took
<1>3. HostPhase = phase /\ HostDone = done
  BY DEF HostPhase, HostDone, Ahead
<1>4. Shape'
  BY <1>1, <1>2 DEF DiskInv, Shape
<1>5. CASE heard
  <2>1. hostOut' = dev'.rxTog /\ phase' = PhaseAfterOut /\ done' = DoneAfterOut
    BY <1>1, <1>2, <1>5
  <2>2. ~Ahead' /\ ~Undealt'
    BY <1>1, <2>1 DEF Ahead, Undealt
  <2>. QED  BY <1>3, <1>4, <2>1, <2>2 DEF HostPhase, HostDone
<1>6. CASE ~heard
  <2>1. hostOut' # dev'.rxTog /\ hostOut' = hostOut /\ phase' = phase /\ done' = done
    BY <1>1, <1>2, <1>6
  <2>2. ~Undealt' /\ Ahead'
    BY <1>1, <2>1 DEF Undealt, Ahead
  <2>3. PhaseAfterOut' = PhaseAfterOut /\ DoneAfterOut' = DoneAfterOut
    BY <1>1, <2>1 DEF PhaseAfterOut, DoneAfterOut, AfterCbw, Length
  <2>. QED  BY <1>1, <1>3, <1>4, <2>1, <2>2, <2>3 DEF HostPhase, HostDone
<1>. QED  BY <1>5, <1>6

(* A command block the device has not dealt with yet. *)
LEMMA UndealtIs ==
  ASSUME DiskInv, phase = "cbw", hostOut = dev.rxTog
  PROVE  /\ dev \in Device /\ Live /\ WellFormed(cmd)
         /\ dev.tag # cmd.tag /\ dev.res # "stall" /\ ~("up" \in dev.flags /\ dev.res = "ack")
         /\ ~(dev.packet[1] = "csw" /\ dev.packet[2] = cmd.tag)
         /\ PhaseAfterOut = AfterCbw(cmd) /\ DoneAfterOut = 0
         /\ clean => dev.flags = {} /\ ~dev.busy /\ dev.res = "nak" /\ dev.tog = hostIn
<1>1. Undealt /\ Live /\ dev \in Device /\ WellFormed(cmd)
  BY DEF DiskInv, Shape, Undealt, Live
<1>2. dev.tag # cmd.tag /\ dev.res # "stall" /\ ~("up" \in dev.flags /\ dev.res = "ack")
  BY <1>1 DEF DiskInv, Flags, Endpoints
<1>3. ~(dev.packet[1] = "csw" /\ dev.packet[2] = cmd.tag)
  BY <1>1, <1>2 DEF DiskInv, Flags
<1>4. PhaseAfterOut = AfterCbw(cmd) /\ DoneAfterOut = 0
  BY DEF PhaseAfterOut, DoneAfterOut
<1>5. ASSUME clean PROVE dev.flags = {} /\ ~dev.busy /\ dev.res = "nak" /\ dev.tog = hostIn
  <2>1. dev.flags = {} /\ (dev.busy => dev.res = "ack")
    BY <1>1, <1>5 DEF DiskInv, Offers
  <2>2. dev.res # "ack"
    <3>1. HostPhase = "cbw"
      BY DEF HostPhase, Ahead
    <3>. QED  BY <1>1, <1>5, <2>1, <3>1 DEF DiskInv, Offers
  <2>3. dev.res = "nak"
    BY <1>1, <1>2, <2>2 DEF Device
  <2>. QED  BY <2>1, <2>2, <2>3 DEF DiskInv, Endpoints
<1>. QED  BY <1>1, <1>2, <1>3, <1>4, <1>5

LEMMA OutNothingStep ==
  ASSUME DiskInv, NEW heard \in BOOLEAN, HostOut(heard), hostOut = dev.rxTog, phase = "out",
         "down" \notin dev.flags
  PROVE  DiskInv' /\ dev'.disk = dev.disk
<1>1. /\ Live /\ Live' /\ cmd' = cmd /\ hostIn' = hostIn /\ clean' = clean /\ kept' = kept
      /\ phase' \in {"cbw", "in", "out", "csw"}
      /\ dev' = IsrEp3Out(dev, dev.rxTog, cmd, PackAt(cmd, cmd.ver, done))
  BY HostOutIs
<1>2. PackAt(cmd, cmd.ver, done) # <<"cbw">>
  <2>1. PackAt(cmd, cmd.ver, done)[1] = "data" /\ <<"cbw">>[1] = "cbw"
    BY DEF PackAt, Pack
  <2>. QED  BY <2>1
<1>3. /\ dev' \in Device /\ SameWork(dev', dev) /\ SameCommand(dev', dev) /\ SameDisk(dev', dev)
      /\ SameIn(dev', dev) /\ Took(dev', dev)
  BY <1>1, <1>2, OutNothing DEF DiskInv, Shape
<1>4. /\ Shape' /\ ~Undealt' /\ HostPhase = "out"
      /\ hostOut' # dev'.rxTog => phase' \in {"cbw", "out"}
  BY <1>3, DealtIs
<1>5. Endpoints'
  <2>1. dev'.res = "stall" => cmd'.op \in {"page", "unknown", "garbled"}
    BY <1>1, <1>3 DEF DiskInv, Endpoints, SameIn
  <2>. QED  BY <1>1, <1>3, <1>4, <2>1 DEF DiskInv, Endpoints, SameIn
<1>6. Flags'
  BY <1>1, <1>3, <1>4 DEF DiskInv, Flags, SameIn, SameWork, SameCommand
<1>7. Room'
  BY <1>1, <1>3 DEF DiskInv, Room, Left, SameWork, SameCommand
<1>8. Disk'
  <2>1. AcknowledgedIsStored'
    BY <1>1, <1>3 DEF DiskInv, Disk, AcknowledgedIsStored, SameDisk
  <2>2. Writing' = Writing
    BY <1>1, <1>3 DEF Writing, SameCommand
  <2>. QED  BY <1>1, <1>3, <2>1, <2>2 DEF DiskInv, Disk, SameWork, SameDisk, SameIn
<1>9. Offers'
  <2>. SUFFICES ASSUME clean PROVE Offers'
    BY <1>1 DEF Offers
  <2>1. \A k : ~Offering(k) \/ dev.tog = hostIn
    BY DEF Offering
  <2>2. \A k : ~Offering(k)
    BY <1>4, <2>1 DEF Offering
  <2>3. dev.res # "ack" /\ dev.flags \in {{}, {"csw"}} /\ ~dev.busy
    BY <1>1, <1>4, <2>2 DEF DiskInv, Offers
  <2>4. dev.flags # {} => dev.tag = cmd.tag /\ Reports(dev.status)
    BY <1>1 DEF DiskInv, Offers
  <2>5. dev'.flags # {} => dev'.tag = cmd'.tag /\ Reports(dev.status)'
    BY <1>1, <1>3, <2>4 DEF Reports, SameWork, SameCommand
  <2>. QED  BY <1>3, <1>4, <2>3, <2>5 DEF Offers, SameWork, SameIn
<1>. QED  BY <1>3, <1>4, <1>5, <1>6, <1>7, <1>8, <1>9 DEF DiskInv, SameDisk

LEMMA OutReadStep ==
  ASSUME DiskInv, NEW heard \in BOOLEAN, HostOut(heard), hostOut = dev.rxTog, phase = "cbw",
         "down" \notin dev.flags, cmd.op = "read"
  PROVE  DiskInv' /\ dev'.disk = dev.disk
<1>1. /\ Live /\ Live' /\ cmd' = cmd /\ hostIn' = hostIn /\ clean' = clean /\ kept' = kept
      /\ phase' \in {"cbw", "in", "out", "csw"}
      /\ dev' = IsrEp3Out(dev, dev.rxTog, cmd, <<"cbw">>)
  BY HostOutIs
<1>2. /\ dev \in Device /\ WellFormed(cmd) /\ dev.tag # cmd.tag /\ dev.res # "stall"
      /\ ~(dev.packet[1] = "csw" /\ dev.packet[2] = cmd.tag)
      /\ PhaseAfterOut = AfterCbw(cmd) /\ DoneAfterOut = 0
      /\ clean => dev.flags = {} /\ ~dev.busy /\ dev.res = "nak" /\ dev.tog = hostIn
  BY UndealtIs
<1>3. /\ dev' \in Device /\ SameDisk(dev', dev) /\ Took(dev', dev)
      /\ dev'.tag = cmd.tag /\ dev'.isRead /\ dev'.status = 0
      /\ dev'.flags = IF Length(cmd) = 1 THEN (dev.flags \cup {"csw"}) \ {"up"}
                      ELSE dev.flags \cup {"up", "csw"}
      /\ Length(cmd) > 1 =>
           /\ Left(dev', cmd.lba + cmd.n) /\ cmd.lba + cmd.n \in dev'.lba + 1 .. Sectors
           /\ cmd.lba <= dev'.lba
      /\ (dev'.lba - cmd.lba) * Packs + dev'.count = 1
      /\ Sends(dev', dev, dev.disk[cmd.lba][0])
  <2>0. /\ dev \in Device /\ "down" \notin dev.flags /\ WellFormed(cmd) /\ cmd.op = "read"
        /\ dev' = IsrEp3Out(dev, dev.rxTog, cmd, <<"cbw">>)
    BY <1>1, <1>2
  <2>1. dev' \in Device /\ SameDisk(dev', dev) /\ Took(dev', dev) /\ ReadBegun(dev', dev, cmd)
    BY <2>0, OutRead
  <2>. QED  BY <2>1, Zenon DEF ReadBegun
<1>4. /\ Shape' /\ ~Undealt' /\ HostPhase' = "in" /\ HostDone' = 0
      /\ hostOut' # dev'.rxTog => phase' \in {"cbw", "out"}
  <2>1. AfterCbw(cmd) = "in"
    BY <1>2 DEF AfterCbw, WellFormed
  <2>. QED  BY <1>2, <1>3, <2>1, DealtIs
<1>5. /\ dev.disk[cmd.lba][0] \in Stored /\ dev.disk[cmd.lba][0][1] # "csw"
      /\ Length(cmd) \in Nat /\ Length(cmd) >= 1
  <2>1. cmd.lba \in SectorIds /\ 0 \in Places
    BY <1>2, Amounts DEF WellFormed, Places
  <2>2. Length(cmd) \in Nat /\ Length(cmd) >= 1
    BY <1>2, LengthIs, LengthsFit DEF Lengths
  <2>. QED  BY <1>2, <2>1, <2>2, DataIsNoStatus
<1>6. Endpoints'
  BY <1>1, <1>2, <1>3, <1>4 DEF DiskInv, Endpoints, Sends
<1>7. ~(dev'.packet[1] = "csw" /\ dev'.packet[2] = cmd.tag)
  BY <1>2, <1>3, <1>5 DEF Sends
<1>8. Flags'
  BY <1>1, <1>3, <1>4, <1>7 DEF Flags
<1>9. Room'
  <2>1. "up" \in dev'.flags => Length(cmd) > 1
    BY <1>3, <1>5
  <2>2. "down" \notin dev'.flags
    BY <1>3
  <2>. QED  BY <1>3, <2>1, <2>2 DEF Room
<1>10. Disk'
  <2>1. AcknowledgedIsStored'
    BY <1>1, <1>3 DEF DiskInv, Disk, AcknowledgedIsStored, SameDisk
  <2>2. "down" \notin dev'.flags /\ ~Writing'
    BY <1>1, <1>3 DEF Writing
  <2>. QED  BY <1>1, <2>1, <2>2 DEF Disk
<1>11. Offers'
  <2>. SUFFICES ASSUME clean PROVE Offers'
    BY <1>1 DEF Offers
  <2>1. /\ dev'.flags = (IF Length(cmd) = 1 THEN {"csw"} ELSE {"up", "csw"})
        /\ dev'.busy /\ dev'.res = "ack" /\ dev'.packet = dev.disk[cmd.lba][0]
        /\ dev'.tog = hostIn'
    BY <1>1, <1>2, <1>3 DEF Sends
  <2>2. Offering(0)'
    <3>1. 0 \div Packs = 0 /\ 0 % Packs = 0
      <4>1. 0 \in Places /\ 0 * Packs + 0 = 0
        BY Amounts DEF Places
      <4>2. (0 * Packs + 0) \div Packs = 0 /\ (0 * Packs + 0) % Packs = 0
        BY <4>1, PlaceIs
      <4>. QED  BY <4>1, <4>2
    <3>2. cmd.lba + 0 = cmd.lba
      BY <1>2, Amounts DEF WellFormed, SectorIds
    <3>3. dev'.packet = dev'.disk[cmd'.lba + 0 \div Packs][0 % Packs]
      BY <1>1, <1>3, <2>1, <3>1, <3>2 DEF SameDisk
    <3>4. 0 \in 0 .. Length(cmd)' - 1 /\ 0 < Length(cmd)'
      BY <1>1, <1>5 DEF Length
    <3>5. cmd'.dir = "in" /\ cmd'.op = "read"
      BY <1>1, <1>2 DEF WellFormed
    <3>6. IsDue(dev.packet, "in", 0)'
      BY <3>3, <3>4, <3>5 DEF IsDue
    <3>. QED  BY <1>4, <2>1, <3>4, <3>5, <3>6 DEF Offering
  <2>3. dev'.tag = cmd'.tag /\ Reports(dev.status)'
    BY <1>1, <1>3 DEF Reports, StatusOf
  <2>4. CASE Length(cmd) = 1
    <3>1. Offering(Length(cmd) - 1)'
      <4>1. Length(cmd)' - 1 = 0
        BY <1>1, <2>4 DEF Length
      <4>. QED  BY <2>2, <4>1 DEF Offering
    <3>. QED  BY <1>4, <2>1, <2>3, <2>4, <3>1 DEF Offers
  <2>5. CASE Length(cmd) # 1
    <3>1. Length(cmd) > 1
      BY <1>5, <2>5
    <3>2. Offering(Through - 1)'
      <4>1. Through' - 1 = 0
        BY <1>1, <1>3 DEF Through
      <4>. QED  BY <2>2, <4>1 DEF Offering
    <3>3. Left(dev', cmd'.lba + cmd'.n) /\ cmd'.lba <= dev'.lba
      BY <1>1, <1>3, <3>1
    <3>. QED  BY <1>1, <1>3, <1>4, <2>1, <2>3, <2>5, <3>2, <3>3 DEF Offers
  <2>. QED  BY <2>4, <2>5
<1>. QED  BY <1>3, <1>4, <1>6, <1>8, <1>9, <1>10, <1>11 DEF DiskInv, SameDisk

LEMMA OutWriteStep ==
  ASSUME DiskInv, NEW heard \in BOOLEAN, HostOut(heard), hostOut = dev.rxTog, phase = "cbw",
         "down" \notin dev.flags, cmd.op = "write"
  PROVE  DiskInv' /\ dev'.disk = dev.disk
<1>1. /\ Live /\ Live' /\ cmd' = cmd /\ hostIn' = hostIn /\ clean' = clean /\ kept' = kept
      /\ phase' \in {"cbw", "in", "out", "csw"}
      /\ dev' = IsrEp3Out(dev, dev.rxTog, cmd, <<"cbw">>)
  BY HostOutIs
<1>2. /\ dev \in Device /\ WellFormed(cmd) /\ dev.tag # cmd.tag /\ dev.res # "stall"
      /\ ~("up" \in dev.flags /\ dev.res = "ack")
      /\ ~(dev.packet[1] = "csw" /\ dev.packet[2] = cmd.tag)
      /\ PhaseAfterOut = AfterCbw(cmd) /\ DoneAfterOut = 0
      /\ clean => dev.flags = {} /\ ~dev.busy /\ dev.res = "nak" /\ dev.tog = hostIn
  BY UndealtIs
<1>3. /\ dev' \in Device /\ SameDisk(dev', dev) /\ SameIn(dev', dev) /\ Took(dev', dev)
      /\ dev'.flags = dev.flags \cup {"down", "csw"}
      /\ dev'.tag = cmd.tag /\ dev'.status = 0
      /\ dev'.lba = cmd.lba /\ dev'.count = 0
      /\ Left(dev', cmd.lba + cmd.n) /\ cmd.lba + cmd.n \in dev'.lba + 1 .. Sectors
  BY <1>1, <1>2, OutWrite
<1>4. ~dev'.isRead
  BY <1>1, <1>2, OutWrite, Zenon
<1>5. /\ Shape' /\ ~Undealt' /\ HostPhase' = "out" /\ HostDone' = 0
      /\ hostOut' # dev'.rxTog => phase' \in {"cbw", "out"}
  <2>1. AfterCbw(cmd) = "out"
    BY <1>2 DEF AfterCbw, WellFormed
  <2>. QED  BY <1>2, <1>3, <2>1, DealtIs
<1>6. Endpoints'
  BY <1>1, <1>2, <1>3, <1>5 DEF DiskInv, Endpoints, SameIn
<1>7. ~(dev'.packet[1] = "csw" /\ dev'.packet[2] = cmd.tag)
  BY <1>2, <1>3 DEF SameIn
<1>8. Flags'
  <2>1. ~({"up", "down"} \subseteq dev'.flags /\ dev'.res = "ack")
    BY <1>2, <1>3 DEF SameIn
  <2>. QED  BY <1>1, <1>2, <1>3, <1>5, <1>7, <2>1 DEF Flags, SameIn
<1>9. Room'
  <2>1. \A s \in dev'.lba .. (cmd.lba + cmd.n) - 1 : kept'[s] = Unsure
    <3>1. \A s \in SectorsOf(cmd) : kept[s] = Unsure
      BY <1>1 DEF DiskInv, Disk
    <3>2. SectorsOf(cmd) = dev'.lba .. (cmd.lba + cmd.n) - 1
      BY <1>2, <1>3, Amounts DEF SectorsOf, WellFormed, SectorIds
    <3>. QED  BY <1>1, <3>1, <3>2
  <2>2. \A i \in 0 .. dev'.count - 1 : dev'.buf[i] \in Stored
    BY <1>3
  <2>3. \E e \in dev'.lba + 1 .. Sectors :
          Left(dev', e) /\ \A s \in dev'.lba .. e - 1 : kept'[s] = Unsure
    <3>1. PICK e \in dev'.lba + 1 .. Sectors : e = cmd.lba + cmd.n
      BY <1>3
    <3>. QED  BY <1>3, <2>1, <3>1
  <2>. QED  BY <1>4, <2>2, <2>3, Zenon DEF Room, Left
<1>10. Disk'
  <2>1. AcknowledgedIsStored'
    BY <1>1, <1>3 DEF DiskInv, Disk, AcknowledgedIsStored, SameDisk
  <2>2. (Live /\ cmd.op = "write" => \A s \in SectorsOf(cmd) : kept[s] = Unsure)'
    BY <1>1 DEF DiskInv, Disk, SectorsOf
  <2>3. Left(dev', cmd'.lba + cmd'.n) /\ cmd'.lba <= dev'.lba /\ Through' = 0
    <3>1. cmd'.lba \in Nat /\ dev'.lba - cmd'.lba = 0 /\ dev'.count = 0
      BY <1>1, <1>2, <1>3, Amounts DEF WellFormed, SectorIds
    <3>2. Through' = 0
      BY <3>1, Amounts DEF Through
    <3>. QED  BY <1>1, <1>3, <3>1, <3>2
  <2>4. /\ \A i \in 0 .. dev'.count - 1 : dev'.buf[i] = Pack(cmd'.ver, dev'.lba, i)
        /\ \A s \in cmd'.lba .. dev'.lba - 1 : dev'.disk[s] = Sector(cmd'.ver, s)
    BY <1>1, <1>2, <1>3, Amounts DEF WellFormed, SectorIds
  <2>5. Writing' /\ "down" \in dev'.flags
    BY <1>1, <1>3 DEF Writing
  <2>6. (Left(dev, cmd.lba + cmd.n))'
    BY <2>3 DEF Left
  <2>. QED  BY <1>1, <1>5, <1>7, <2>1, <2>2, <2>3, <2>4, <2>5, <2>6 DEF Disk
<1>11. Offers'
  <2>. SUFFICES ASSUME clean PROVE Offers'
    BY <1>1 DEF Offers
  <2>1. dev'.flags = {"down", "csw"} /\ ~dev'.busy /\ dev'.res = "nak"
    BY <1>2, <1>3 DEF SameIn
  <2>2. dev'.tag = cmd'.tag /\ Reports(dev.status)'
    BY <1>1, <1>3 DEF Reports, StatusOf
  <2>. QED  BY <1>1, <1>5, <2>1, <2>2 DEF Offers
<1>. QED  BY <1>3, <1>5, <1>6, <1>8, <1>9, <1>10, <1>11 DEF DiskInv, SameDisk

LEMMA OutOtherStep ==
  ASSUME DiskInv, NEW heard \in BOOLEAN, HostOut(heard), hostOut = dev.rxTog, phase = "cbw",
         "down" \notin dev.flags, cmd.op \notin {"read", "write"}
  PROVE  DiskInv' /\ dev'.disk = dev.disk
<1>1. /\ Live /\ Live' /\ cmd' = cmd /\ hostIn' = hostIn /\ clean' = clean /\ kept' = kept
      /\ phase' \in {"cbw", "in", "out", "csw"}
      /\ dev' = IsrEp3Out(dev, dev.rxTog, cmd, <<"cbw">>)
  BY HostOutIs
<1>2. /\ dev \in Device /\ WellFormed(cmd) /\ dev.tag # cmd.tag /\ dev.res # "stall"
      /\ ~(dev.packet[1] = "csw" /\ dev.packet[2] = cmd.tag)
      /\ PhaseAfterOut = AfterCbw(cmd) /\ DoneAfterOut = 0
      /\ clean => dev.flags = {} /\ ~dev.busy /\ dev.res = "nak" /\ dev.tog = hostIn
  BY UndealtIs
<1>3. dev' \in Device /\ SameDisk(dev', dev) /\ Took(dev', dev) /\ OtherBegun(dev', dev, cmd)
  BY <1>1, <1>2, OutOther
<1>4. /\ Shape' /\ ~Undealt' /\ HostPhase' = AfterCbw(cmd) /\ HostDone' = 0
      /\ hostOut' # dev'.rxTog => phase' \in {"cbw", "out"}
  BY <1>2, <1>3, DealtIs
<1>5. "down" \notin dev'.flags /\ ~dev'.isRead /\ dev'.tog = dev.tog
  BY <1>3, Zenon DEF OtherBegun
<1>6. \/ dev'.res = dev.res /\ dev'.packet = dev.packet /\ (dev.busy => dev'.busy)
      \/ /\ cmd.op \in {"page", "unknown", "garbled"}
         /\ dev'.res = "stall" /\ dev'.packet = None
      \/ /\ dev'.busy /\ dev'.res = "ack"
         /\ \/ dev'.packet \in {<<"zlp">>, <<"info">>}
            \/ dev'.flags = {} /\ dev'.packet = <<"csw", cmd.tag, 0>> /\ dev'.tag = cmd.tag
  <2>1. cmd.op # "garbled" => dev'.tag = cmd.tag
    BY <1>3 DEF OtherBegun
  <2>. QED  BY <1>3, <2>1 DEF OtherBegun, SameIn
<1>7. Endpoints'
  BY <1>1, <1>2, <1>4, <1>5, <1>6 DEF DiskInv, Endpoints
<1>8. Flags'
  <2>1. dev'.packet[1] = "csw" /\ dev'.packet[2] = cmd.tag =>
          dev'.flags = {} /\ dev'.tag = cmd.tag
    BY <1>2, <1>6, PacketsAre
  <2>. QED  BY <1>1, <1>4, <1>5, <2>1 DEF Flags
<1>9. Room'
  BY <1>5, Zenon DEF Room
<1>10. Disk'
  <2>1. AcknowledgedIsStored'
    BY <1>1, <1>3 DEF DiskInv, Disk, AcknowledgedIsStored, SameDisk
  <2>. QED  BY <1>1, <1>5, <2>1 DEF Disk, Writing
<1>11. Offers'
  <2>. SUFFICES ASSUME clean PROVE Offers'
    BY <1>1 DEF Offers
  <2>1. /\ dev'.flags \in {{}, {"csw"}}
        /\ dev'.busy => dev'.res = "ack"
        /\ dev'.flags = {"csw"} =>
             cmd.op # "garbled" /\ (cmd.op = "mode" \/ dev'.status = StatusOf(cmd))
        /\ dev'.busy /\ dev'.flags = {} => /\ cmd.dir = "none" /\ cmd.op \in {"ready", "mode"}
                                         /\ dev'.packet = <<"csw", cmd.tag, 0>>
        /\ dev'.busy /\ dev'.flags = {"csw"} => cmd.dir = "in" /\ dev'.packet = <<"info">>
    BY <1>2, <1>3 DEF OtherBegun
  <2>2. cmd.op # "garbled" => dev'.tag = cmd'.tag
    BY <1>1, <1>3 DEF OtherBegun
  <2>3. dev'.flags # {} => dev'.tag = cmd'.tag /\ Reports(dev.status)'
    BY <1>1, <2>1, <2>2 DEF Reports, StatusOf
  <2>4. dev'.res = "ack" => dev'.busy
    BY <1>7 DEF Endpoints
  <2>5. ASSUME dev'.flags = {}, dev'.res = "ack"
        PROVE  /\ HostPhase' = "csw" /\ dev'.tog = hostIn'
               /\ dev'.packet[1] = "csw" /\ dev'.packet[2] = cmd'.tag /\ Reports(dev.packet[3])'
    <3>1. cmd.dir = "none" /\ cmd.op \in {"ready", "mode"} /\ dev'.packet = <<"csw", cmd.tag, 0>>
      BY <2>1, <2>4, <2>5
    <3>2. Reports(dev.packet[3])'
      BY <1>1, <3>1 DEF Reports, StatusOf
    <3>. QED  BY <1>1, <1>2, <1>4, <1>5, <3>1, <3>2 DEF AfterCbw
  <2>6. ASSUME dev'.flags = {"csw"}, dev'.res = "ack" PROVE Offering(Length(cmd) - 1)'
    <3>1. cmd'.dir = "in" /\ dev'.packet = <<"info">>
      BY <1>1, <2>1, <2>4, <2>6
    <3>2. Length(cmd)' = 1
      BY <1>1, <1>2, <3>1, LengthIs DEF Length
    <3>3. HostPhase' = "in" /\ dev'.tog = hostIn' /\ cmd'.op # "read"
      BY <1>1, <1>2, <1>4, <1>5, <3>1 DEF AfterCbw
    <3>4. Offering(0)'
      BY <1>4, <3>1, <3>2, <3>3 DEF Offering, IsDue
    <3>5. Length(cmd)' - 1 = 0
      BY <3>2
    <3>. QED  BY <3>4, <3>5 DEF Offering
  <2>. QED  BY <1>4, <2>1, <2>3, <2>5, <2>6 DEF Offers
<1>. QED  BY <1>3, <1>4, <1>7, <1>8, <1>9, <1>10, <1>11 DEF DiskInv, SameDisk

(* The data of a WRITE come in lockstep with the device. *)
LEMMA WritingIs ==
  ASSUME DiskInv, phase \in {"cbw", "out"}, hostOut = dev.rxTog, Writing, "down" \in dev.flags
  PROVE  /\ phase = "out" /\ cmd.op = "write" /\ WellFormed(cmd) /\ dev \in Device
         /\ Left(dev, cmd.lba + cmd.n) /\ cmd.lba <= dev.lba
         /\ cmd.lba + cmd.n \in dev.lba + 1 .. Sectors
         /\ done \in Nat /\ done + dev.len = Length(cmd) /\ done = Through
         /\ PackAt(cmd, cmd.ver, done) = Pack(cmd.ver, dev.lba, dev.count)
         /\ \A i \in 0 .. dev.count - 1 : dev.buf[i] = Pack(cmd.ver, dev.lba, i)
         /\ \A s \in cmd.lba .. dev.lba - 1 : dev.disk[s] = Sector(cmd.ver, s)
<1>1. cmd.op = "write" /\ WellFormed(cmd) /\ dev \in Device
  BY DEF DiskInv, Shape, Writing
<1>2. HostPhase = phase /\ HostDone = done
  BY DEF HostPhase, HostDone, Ahead
<1>3. /\ Left(dev, cmd.lba + cmd.n) /\ cmd.lba <= dev.lba
      /\ phase = "out" /\ done = Through
      /\ \A i \in 0 .. dev.count - 1 : dev.buf[i] = Pack(cmd.ver, dev.lba, i)
      /\ \A s \in cmd.lba .. dev.lba - 1 : dev.disk[s] = Sector(cmd.ver, s)
  BY <1>2 DEF DiskInv, Disk
<1>4. /\ Through \in Nat /\ Through + dev.len = Length(cmd)
      /\ cmd.lba + cmd.n \in dev.lba + 1 .. Sectors
      /\ cmd.lba + Through \div Packs = dev.lba /\ Through % Packs = dev.count
  BY <1>1, <1>3, ThroughIs
<1>5. PackAt(cmd, cmd.ver, done) = Pack(cmd.ver, dev.lba, dev.count)
  BY <1>3, <1>4 DEF PackAt
<1>. QED  BY <1>1, <1>3, <1>4, <1>5

LEMMA OutPackIs ==
  ASSUME DiskInv, NEW heard \in BOOLEAN, HostOut(heard), hostOut = dev.rxTog, "down" \in dev.flags
  PROVE  /\ dev \in Device /\ dev' \in Device /\ Took(dev', dev)
         /\ \E e \in dev.lba + 1 .. Sectors :
              Left(dev, e) /\ \A s \in dev.lba .. e - 1 : kept[s] = Unsure
         /\ \E p \in Stored :
              PackDealt(dev', dev, p) /\ (phase = "out" => p = PackAt(cmd, cmd.ver, done))
<1>1. /\ phase \in {"cbw", "out"} /\ WellFormed(cmd) /\ dev \in Device
      /\ dev' = IsrEp3Out(dev, dev.rxTog, cmd,
                      IF phase = "cbw" THEN <<"cbw">> ELSE PackAt(cmd, cmd.ver, done))
  BY HostOutIs DEF DiskInv, Shape
<1>2. PICK p : p = IF phase = "cbw" THEN <<"cbw">> ELSE PackAt(cmd, cmd.ver, done)
  OBVIOUS
<1>3. p \in Stored
  <2>1. CASE phase = "cbw"
    BY <1>2, <2>1, PacketsAre
  <2>2. CASE phase = "out"
    <3>1. done \in Nat /\ done < Length(cmd)
      BY <2>2, LengthsFit DEF DiskInv, Shape, Lengths
    <3>2. cmd.lba + done \div Packs \in SectorIds /\ done % Packs \in Places
      BY <1>1, <3>1, PackIsThere
    <3>3. cmd.ver \in Versions \cup {0}
      BY <1>1 DEF WellFormed
    <3>. QED  BY <1>2, <2>2, <3>2, <3>3, PacketsAre DEF PackAt
  <2>. QED  BY <1>1, <2>1, <2>2
<1>4. PICK e \in dev.lba + 1 .. Sectors : Left(dev, e) /\ \A s \in dev.lba .. e - 1 : kept[s] = Unsure
  BY DEF DiskInv, Room
<1>5. \A i \in 0 .. dev.count - 1 : dev.buf[i] \in Stored
  BY DEF DiskInv, Room
<1>6. dev' = IsrEp3Out(dev, dev.rxTog, cmd, p)
  BY <1>1, <1>2
<1>7. dev' \in Device /\ Took(dev', dev) /\ PackDealt(dev', dev, p)
  BY <1>1, <1>3, <1>4, <1>5, <1>6, OutPack
<1>8. phase = "out" => p = PackAt(cmd, cmd.ver, done)
  BY <1>2
<1>. QED  BY <1>1, <1>3, <1>4, <1>7, <1>8

(* A sector is programmed with what the host has sent for it. *)
LEMMA OutPackPrograms ==
  ASSUME DiskInv, NEW heard \in BOOLEAN, HostOut(heard), hostOut = dev.rxTog, "down" \in dev.flags,
         Writing
  PROVE  /\ \A i \in 0 .. dev.count : dev'.buf[i] = Pack(cmd.ver, dev.lba, i)
         /\ dev'.disk = IF dev.count + 1 = Packs
                        THEN [dev.disk EXCEPT ![dev.lba] = Sector(cmd.ver, dev.lba)] ELSE dev.disk
<1>1. PICK p \in Stored : PackDealt(dev', dev, p) /\ (phase = "out" => p = PackAt(cmd, cmd.ver, done))
  BY OutPackIs
<1>2. /\ dev \in Device /\ dev' \in Device /\ p = Pack(cmd.ver, dev.lba, dev.count)
      /\ \A i \in 0 .. dev.count - 1 : dev.buf[i] = Pack(cmd.ver, dev.lba, i)
  BY <1>1, HostOutIs, WritingIs, OutPackIs
<1>3. /\ dev'.buf = [dev.buf EXCEPT ![dev.count] = p]
      /\ dev'.disk = IF dev.count + 1 = Packs THEN [dev.disk EXCEPT ![dev.lba] = dev'.buf] ELSE dev.disk
  BY <1>1 DEF PackDealt
<1>4. /\ dev.count \in Places /\ dev.count \in Nat
      /\ dev.buf \in [Places -> Stored \cup {None}] /\ dev'.buf \in [Places -> Stored \cup {None}]
  BY <1>2, Numbers DEF Device
<1>5. \A i \in 0 .. dev.count : dev'.buf[i] = Pack(cmd.ver, dev.lba, i)
  <2>. SUFFICES ASSUME NEW i \in 0 .. dev.count PROVE dev'.buf[i] = Pack(cmd.ver, dev.lba, i)
    OBVIOUS
  <2>1. i \in Places
    BY <1>4, Amounts DEF Places
  <2>2. CASE i = dev.count
    BY <1>2, <1>3, <1>4, <2>2
  <2>3. CASE i # dev.count
    <3>1. i \in 0 .. dev.count - 1
      BY <1>4, <2>3
    <3>. QED  BY <1>2, <1>3, <1>4, <2>1, <2>3, <3>1
  <2>. QED  BY <2>2, <2>3
<1>6. dev.count + 1 = Packs => dev'.buf = Sector(cmd.ver, dev.lba)
  <2>. SUFFICES ASSUME dev.count + 1 = Packs PROVE dev'.buf = Sector(cmd.ver, dev.lba)
    OBVIOUS
  <2>1. \A i \in Places : dev'.buf[i] = Pack(cmd.ver, dev.lba, i)
    BY <1>4, <1>5, Amounts DEF Places
  <2>. QED  BY <1>4, <2>1 DEF Sector, Places
<1>. QED  BY <1>3, <1>5, <1>6

LEMMA OutPackRoom ==
  ASSUME DiskInv, NEW heard \in BOOLEAN, HostOut(heard), hostOut = dev.rxTog, "down" \in dev.flags
  PROVE  Room' /\ AcknowledgedIsStored'
<1>1. PICK p \in Stored : PackDealt(dev', dev, p)
  BY OutPackIs
<1>2. PICK e \in dev.lba + 1 .. Sectors : Left(dev, e) /\ \A s \in dev.lba .. e - 1 : kept[s] = Unsure
  BY OutPackIs
<1>3. /\ dev \in Device /\ dev' \in Device /\ kept' = kept /\ Moves(dev', dev)
      /\ dev'.buf = [dev.buf EXCEPT ![dev.count] = p]
      /\ dev'.disk = IF dev.count + 1 = Packs THEN [dev.disk EXCEPT ![dev.lba] = dev'.buf] ELSE dev.disk
      /\ dev.len > 1 => dev'.flags = dev.flags
      /\ dev.len = 1 => dev'.flags = {}
  BY <1>1, OutPackIs, HostOutIs DEF PackDealt
<1>4. /\ dev.lba \in SectorIds /\ dev.lba <= dev'.lba
      /\ dev.len > 1 => Left(dev', e) /\ e \in dev'.lba + 1 .. Sectors
  BY <1>2, <1>3, MovesOn
<1>5. dev.lba \in Nat /\ dev.count \in Nat /\ dev.count \in Places /\ dev.len \in Nat /\ dev.len >= 1
      /\ dev'.lba \in Nat /\ e \in Nat
  BY <1>2, <1>3, Numbers, Amounts DEF Left, Moves
<1>6. kept[dev.lba] = Unsure
  BY <1>2, <1>5
<1>7. AcknowledgedIsStored'
  BY <1>3, <1>6 DEF DiskInv, Disk, AcknowledgedIsStored, Device
<1>8. Room'
  <2>1. CASE dev.len = 1
    BY <1>3, <2>1 DEF Room
  <2>2. CASE dev.len > 1
    <3>1. \A s \in dev'.lba .. e - 1 : kept'[s] = Unsure
      BY <1>2, <1>3, <1>4, <1>5
    <3>2. \A i \in 0 .. dev'.count - 1 : dev'.buf[i] \in Stored
      <4>. SUFFICES ASSUME NEW i \in 0 .. dev'.count - 1 PROVE dev'.buf[i] \in Stored
        OBVIOUS
      <4>1. dev'.count = 0 \/ dev'.count = dev.count + 1
        BY <1>3 DEF Moves
      <4>2. i \in 0 .. dev.count /\ i \in Places
        BY <1>5, <4>1, Amounts DEF Places
      <4>3. \A j \in 0 .. dev.count - 1 : dev.buf[j] \in Stored
        BY DEF DiskInv, Room
      <4>4. CASE i = dev.count
        BY <1>3, <1>5, <4>4 DEF Device
      <4>5. CASE i # dev.count
        <5>1. i \in 0 .. dev.count - 1
          BY <1>5, <4>2, <4>5
        <5>. QED  BY <1>3, <4>2, <4>3, <4>5, <5>1 DEF Device
      <4>. QED  BY <4>4, <4>5
    <3>3. Left(dev', e) /\ e \in dev'.lba + 1 .. Sectors
      BY <1>4, <2>2
    <3>. QED  BY <3>1, <3>2, <3>3 DEF Room, Left
  <2>. QED  BY <1>5, <2>1, <2>2
<1>. QED  BY <1>7, <1>8

LEMMA OutPackDisk ==
  ASSUME DiskInv, NEW heard \in BOOLEAN, HostOut(heard), hostOut = dev.rxTog, "down" \in dev.flags
  PROVE  Disk'
<1>1. PICK p \in Stored : PackDealt(dev', dev, p)
  BY OutPackIs
<1>2. /\ dev \in Device /\ dev' \in Device /\ Moves(dev', dev) /\ Took(dev', dev)
      /\ SameCommand(dev', dev)
      /\ dev.len > 1 => dev'.flags = dev.flags /\ SameIn(dev', dev)
      /\ dev.len = 1 => dev'.flags = {} /\ Sends(dev', dev, <<"csw", dev.tag, dev.status>>)
  BY <1>1, OutPackIs DEF PackDealt
<1>3. /\ phase \in {"cbw", "out"} /\ Live /\ Live'
      /\ cmd' = cmd /\ clean' = clean /\ kept' = kept
  BY HostOutIs
<1>4. HostPhase' = PhaseAfterOut /\ HostDone' = DoneAfterOut
  BY <1>2, DealtIs
<1>5. Writing' = Writing
  BY <1>2, <1>3 DEF Writing, SameCommand
<1>6. dev.len = 1 \/ dev.len > 1
  BY <1>2, OutPackIs, Numbers DEF Left
<1>7. AcknowledgedIsStored'
  BY OutPackRoom
<1>8. (Live /\ cmd.op = "write" => \A s \in SectorsOf(cmd) : kept[s] = Unsure)'
  BY <1>3 DEF DiskInv, Disk, SectorsOf
<1>9. (Writing => dev.flags = {} \/ "down" \in dev.flags)'
  BY <1>2, <1>6
<1>10. ASSUME Writing
       PROVE  /\ phase = "out" /\ WellFormed(cmd) /\ cmd.lba \in Nat /\ cmd.n \in Nat
              /\ Left(dev, cmd.lba + cmd.n) /\ cmd.lba <= dev.lba /\ dev.lba \in Nat
              /\ cmd.lba + cmd.n \in dev.lba + 1 .. Sectors
              /\ done \in Nat /\ done + dev.len = Length(cmd) /\ done = Through
              /\ \A s \in cmd.lba .. dev.lba - 1 : dev.disk[s] = Sector(cmd.ver, s)
              /\ \A i \in 0 .. dev.count : dev'.buf[i] = Pack(cmd.ver, dev.lba, i)
              /\ dev'.disk = IF dev.count + 1 = Packs
                             THEN [dev.disk EXCEPT ![dev.lba] = Sector(cmd.ver, dev.lba)]
                             ELSE dev.disk
              /\ dev.len > 1 => Left(dev', cmd.lba + cmd.n)
              /\ dev.len = 1 => dev.count + 1 = Packs /\ dev.lba + 1 = cmd.lba + cmd.n
              /\ dev.lba \in SectorIds /\ dev.lba <= dev'.lba
              /\ Through' = Through + 1
  <2>. DEFINE e == cmd.lba + cmd.n
  <2>1. /\ phase = "out" /\ WellFormed(cmd) /\ Left(dev, e) /\ cmd.lba <= dev.lba
        /\ e \in dev.lba + 1 .. Sectors
        /\ done \in Nat /\ done + dev.len = Length(cmd) /\ done = Through
        /\ \A s \in cmd.lba .. dev.lba - 1 : dev.disk[s] = Sector(cmd.ver, s)
    BY <1>3, <1>10, WritingIs
  <2>2. cmd.lba \in Nat /\ cmd.n \in Nat /\ dev.lba \in Nat
    BY <1>2, <2>1, Numbers, Amounts DEF WellFormed, SectorIds
  <2>3. /\ \A i \in 0 .. dev.count : dev'.buf[i] = Pack(cmd.ver, dev.lba, i)
        /\ dev'.disk = IF dev.count + 1 = Packs
                       THEN [dev.disk EXCEPT ![dev.lba] = Sector(cmd.ver, dev.lba)] ELSE dev.disk
    BY <1>10, OutPackPrograms
  <2>. HIDE DEF e
  <2>4. /\ dev.lba \in SectorIds /\ dev.lba <= dev'.lba
        /\ dev.len > 1 => Left(dev', e)
        /\ dev.len = 1 => dev.count + 1 = Packs /\ dev'.lba = e
        /\ (dev'.lba - cmd.lba) * Packs + dev'.count = (dev.lba - cmd.lba) * Packs + dev.count + 1
    BY <1>2, <2>1, <2>2, MovesOn
  <2>5. Through' = Through + 1
    BY <1>3, <2>4 DEF Through
  <2>6. dev.len = 1 => dev.lba + 1 = e
    BY <1>2, <2>4 DEF Moves
  <2>. QED  BY <2>1, <2>2, <2>3, <2>4, <2>5, <2>6 DEF e
<1>11. ASSUME Writing, dev.len = 1
       PROVE  dev'.flags = {} /\ \A s \in SectorsOf(cmd) : dev'.disk[s] = Sector(cmd.ver, s)
  <2>1. \A s \in SectorsOf(cmd) : s \in cmd.lba .. dev.lba - 1 \/ s = dev.lba
    BY <1>10, <1>11 DEF SectorsOf
  <2>2. dev'.disk = [dev.disk EXCEPT ![dev.lba] = Sector(cmd.ver, dev.lba)]
    BY <1>10, <1>11
  <2>3. \A s \in SectorsOf(cmd) : s \in SectorIds
    BY <1>10, Amounts, <1>11 DEF SectorsOf, SectorIds, WellFormed
  <2>. QED  BY <1>2, <1>10, <1>11, <2>1, <2>2, <2>3 DEF Device
<1>12. ASSUME Writing, dev.len > 1
       PROVE  /\ dev'.flags = dev.flags /\ SameIn(dev', dev)
              /\ Left(dev', cmd.lba + cmd.n) /\ cmd.lba <= dev'.lba
              /\ HostPhase' = "out" /\ HostDone' = Through'
              /\ \A i \in 0 .. dev'.count - 1 : dev'.buf[i] = Pack(cmd.ver, dev'.lba, i)
              /\ \A s \in cmd.lba .. dev'.lba - 1 : dev'.disk[s] = Sector(cmd.ver, s)
  <2>1. dev'.lba \in Nat /\ dev.count \in Nat /\ dev.len \in Nat
    BY <1>2, <1>10, <1>12, Numbers DEF Moves
  <2>2. done + 1 < Length(cmd) /\ done + 1 # Length(cmd)
    BY <1>10, <1>12, <2>1
  <2>3. HostPhase' = "out" /\ HostDone' = done + 1
    BY <1>4, <1>10, <1>12, <2>2 DEF PhaseAfterOut, DoneAfterOut
  <2>4. CASE dev.count + 1 = Packs
    <3>1. dev'.lba = dev.lba + 1 /\ dev'.count = 0
      BY <1>2, <2>4 DEF Moves
    <3>2. \A s \in cmd.lba .. dev'.lba - 1 : s \in cmd.lba .. dev.lba - 1 \/ s = dev.lba
      BY <1>10, <1>12, <3>1
    <3>3. dev'.disk = [dev.disk EXCEPT ![dev.lba] = Sector(cmd.ver, dev.lba)]
      BY <1>10, <1>12, <2>4
    <3>4. \A s \in cmd.lba .. dev'.lba - 1 : s \in SectorIds
      BY <1>10, <1>12, <3>1, Amounts DEF SectorIds
    <3>5. \A s \in cmd.lba .. dev'.lba - 1 : dev'.disk[s] = Sector(cmd.ver, s)
      BY <1>2, <1>10, <1>12, <3>2, <3>3, <3>4 DEF Device
    <3>. QED  BY <1>2, <1>10, <1>12, <2>1, <2>3, <3>1, <3>5
  <2>5. CASE dev.count + 1 # Packs
    <3>1. dev'.lba = dev.lba /\ dev'.count = dev.count + 1 /\ dev'.disk = dev.disk
      BY <1>2, <1>10, <1>12, <2>5 DEF Moves
    <3>. QED  BY <1>2, <1>10, <1>12, <2>1, <2>3, <3>1
  <2>. QED  BY <2>4, <2>5
<1>13. (Writing /\ dev.packet[1] = "csw" /\ dev.packet[2] = cmd.tag /\ dev.packet[3] = 0 =>
          \A s \in SectorsOf(cmd) : dev.disk[s] = Sector(cmd.ver, s))'
  <2>. SUFFICES ASSUME Writing, dev'.packet[1] = "csw", dev'.packet[2] = cmd.tag, dev.len > 1
                PROVE  FALSE
    BY <1>3, <1>5, <1>6, <1>11 DEF SectorsOf
  <2>1. dev.packet[1] = "csw" /\ dev.packet[2] = cmd.tag
    BY <1>12 DEF SameIn
  <2>. QED  BY <1>3, <2>1 DEF DiskInv, Flags
<1>14. (Writing /\ "down" \in dev.flags =>
          /\ Left(dev, cmd.lba + cmd.n) /\ cmd.lba <= dev.lba
          /\ HostPhase = "out" /\ HostDone = Through
          /\ \A i \in 0 .. dev.count - 1 : dev.buf[i] = Pack(cmd.ver, dev.lba, i)
          /\ \A s \in cmd.lba .. dev.lba - 1 : dev.disk[s] = Sector(cmd.ver, s))'
  <2>. SUFFICES ASSUME Writing, dev.len > 1
                PROVE  /\ Left(dev, cmd.lba + cmd.n)' /\ cmd'.lba <= dev'.lba
                       /\ HostPhase' = "out" /\ HostDone' = Through'
                       /\ \A i \in 0 .. dev'.count - 1 : dev'.buf[i] = Pack(cmd'.ver, dev'.lba, i)
                       /\ \A s \in cmd'.lba .. dev'.lba - 1 : dev'.disk[s] = Sector(cmd'.ver, s)
    BY <1>5, <1>6, <1>11
  <2>1. Left(dev, cmd.lba + cmd.n)'
    BY <1>3, <1>12 DEF Left
  <2>. QED  BY <1>3, <1>12, <2>1
<1>15. (clean /\ Live /\ "down" \in dev.flags => Writing)'
  BY <1>3, <1>5 DEF DiskInv, Disk
<1>. QED  BY <1>7, <1>8, <1>9, <1>13, <1>14, <1>15, Zenon DEF Disk

LEMMA OutPackOffers ==
  ASSUME DiskInv, NEW heard \in BOOLEAN, HostOut(heard), hostOut = dev.rxTog, "down" \in dev.flags,
         clean
  PROVE  Offers'
<1>1. PICK p \in Stored : PackDealt(dev', dev, p)
  BY OutPackIs
<1>2. /\ dev \in Device /\ dev' \in Device /\ Took(dev', dev) /\ SameCommand(dev', dev)
      /\ dev.len > 1 => dev'.flags = dev.flags /\ SameIn(dev', dev)
      /\ dev.len = 1 => dev'.flags = {} /\ Sends(dev', dev, <<"csw", dev.tag, dev.status>>)
  BY <1>1, OutPackIs DEF PackDealt
<1>3. /\ phase \in {"cbw", "out"} /\ Live /\ Live'
      /\ cmd' = cmd /\ clean' = clean /\ hostIn' = hostIn
  BY HostOutIs
<1>4. HostPhase' = PhaseAfterOut /\ ~Undealt'
  BY <1>2, DealtIs
<1>5. /\ dev.flags = {"down", "csw"} /\ cmd.op = "write" /\ dev.res = "nak" /\ ~dev.busy
      /\ dev.tag = cmd.tag /\ Reports(dev.status)
  BY <1>3 DEF DiskInv, Offers
<1>6. dev.tog = hostIn
  BY <1>5 DEF DiskInv, Endpoints
<1>7. /\ phase = "out" /\ done \in Nat /\ done + dev.len = Length(cmd)
      /\ dev.len = 1 \/ dev.len > 1
  <2>1. Writing
    BY <1>3, <1>5 DEF Writing
  <2>2. phase = "out" /\ done \in Nat /\ done + dev.len = Length(cmd) /\ Left(dev, cmd.lba + cmd.n)
    BY <1>3, <2>1, WritingIs
  <2>. QED  BY <1>2, <2>2, Numbers DEF Left
<1>8. Reports(dev.status)'
  BY <1>2, <1>3, <1>5 DEF Reports, SameCommand
<1>9. CASE dev.len > 1
  <2>1. /\ dev'.flags = {"down", "csw"} /\ dev'.res = "nak" /\ ~dev'.busy /\ dev'.tag = cmd'.tag
        /\ cmd'.op = "write"
    BY <1>2, <1>3, <1>5, <1>9 DEF SameIn, SameCommand
  <2>. QED  BY <1>4, <1>8, <2>1 DEF Offers
<1>10. CASE dev.len = 1
  <2>1. /\ dev'.flags = {} /\ dev'.res = "ack" /\ dev'.tog = hostIn'
        /\ dev'.packet = <<"csw", cmd.tag, dev.status>>
    BY <1>2, <1>3, <1>5, <1>6, <1>10 DEF Sends
  <2>2. HostPhase' = "csw"
    BY <1>4, <1>7, <1>10 DEF PhaseAfterOut
  <2>3. Reports(dev.packet[3])'
    BY <1>3, <1>5, <2>1 DEF Reports
  <2>4. dev'.packet[1] = "csw" /\ dev'.packet[2] = cmd'.tag
    BY <1>3, <2>1
  <2>. QED  BY <1>4, <2>1, <2>2, <2>3, <2>4 DEF Offers
<1>. QED  BY <1>7, <1>9, <1>10

LEMMA OutPackStep ==
  ASSUME DiskInv, NEW heard \in BOOLEAN, HostOut(heard), hostOut = dev.rxTog, "down" \in dev.flags
  PROVE  DiskInv'
<1>1. PICK p \in Stored : PackDealt(dev', dev, p)
  BY OutPackIs
<1>2. /\ dev \in Device /\ dev' \in Device /\ Took(dev', dev) /\ SameCommand(dev', dev)
      /\ dev.len > 1 => dev'.flags = dev.flags /\ SameIn(dev', dev)
      /\ dev.len = 1 => dev'.flags = {} /\ Sends(dev', dev, <<"csw", dev.tag, dev.status>>)
  BY <1>1, OutPackIs DEF PackDealt
<1>3. /\ Live /\ Live' /\ phase' \in {"cbw", "in", "out", "csw"}
      /\ cmd' = cmd /\ clean' = clean /\ hostIn' = hostIn
  BY HostOutIs
<1>4. /\ Shape' /\ ~Undealt'
      /\ hostOut' # dev'.rxTog => phase' \in {"cbw", "out"}
  BY <1>2, DealtIs
<1>5. dev.len = 1 \/ dev.len > 1
  BY <1>2, OutPackIs, Numbers DEF Left
<1>6. \/ dev'.flags = dev.flags /\ SameIn(dev', dev)
      \/ dev'.flags = {} /\ Sends(dev', dev, <<"csw", dev.tag, dev.status>>)
  BY <1>2, <1>5
<1>7. Endpoints'
  <2>1. /\ dev'.tog = dev.tog
        /\ dev'.res = "ack" => dev'.busy
        /\ dev'.res \in {"nak", "stall"} => dev.res = dev'.res
    BY <1>6 DEF SameIn, Sends, DiskInv, Endpoints
  <2>. QED  BY <1>3, <1>4, <2>1 DEF DiskInv, Endpoints
<1>8. Flags'
  <2>1. ~(dev.packet[1] = "csw" /\ dev.packet[2] = cmd.tag)
    BY <1>3 DEF DiskInv, Flags
  <2>2. dev'.packet[1] = "csw" /\ dev'.packet[2] = cmd.tag => dev'.flags = {} /\ dev.tag = cmd.tag
    BY <1>6, <2>1 DEF SameIn, Sends
  <2>3. {"up", "down"} \subseteq dev'.flags => dev'.res # "ack"
    BY <1>6 DEF DiskInv, Flags, SameIn
  <2>4. dev'.tag = dev.tag
    BY <1>2 DEF SameCommand
  <2>. QED  BY <1>3, <1>4, <2>2, <2>3, <2>4 DEF Flags
<1>9. Offers'
  <2>1. CASE clean
    BY <2>1, OutPackOffers
  <2>2. CASE ~clean
    BY <1>3, <2>2 DEF Offers
  <2>. QED  BY <2>1, <2>2
<1>. QED  BY <1>4, <1>7, <1>8, <1>9, OutPackRoom, OutPackDisk DEF DiskInv

LEMMA HostOutStep ==
  ASSUME DiskInv, NEW heard \in BOOLEAN, HostOut(heard) PROVE DiskInv'
<1>1. phase \in {"cbw", "out"}
  BY HostOutIs
<1>2. CASE hostOut # dev.rxTog
  BY <1>2, IgnoredStep
<1>3. CASE hostOut = dev.rxTog /\ "down" \in dev.flags
  BY <1>3, OutPackStep
<1>4. CASE hostOut = dev.rxTog /\ "down" \notin dev.flags /\ phase = "out"
  BY <1>4, OutNothingStep
<1>5. CASE hostOut = dev.rxTog /\ "down" \notin dev.flags /\ phase = "cbw"
  <2>1. CASE cmd.op = "read"
    BY <1>5, <2>1, OutReadStep
  <2>2. CASE cmd.op = "write"
    BY <1>5, <2>2, OutWriteStep
  <2>3. CASE cmd.op \notin {"read", "write"}
    BY <1>5, <2>3, OutOtherStep
  <2>. QED  BY <2>1, <2>2, <2>3
<1>. QED  BY <1>1, <1>2, <1>3, <1>4, <1>5

LEMMA DiskInvStep == DiskInv /\ [DiskNext]_diskVars => DiskInv'
<1>. SUFFICES ASSUME DiskInv, [DiskNext]_diskVars PROVE DiskInv'
  OBVIOUS
<1>1. ASSUME NEW b \in Commands, Command(b) PROVE DiskInv'
  BY <1>1, CommandStep
<1>2. CASE Transfer
  <2>1. CASE HostStalled
    BY <2>1, HostStalledStep
  <2>2. ASSUME NEW heard \in BOOLEAN, HostOut(heard) PROVE DiskInv'
    BY <2>2, HostOutStep
  <2>3. ASSUME NEW heard \in BOOLEAN, HostIn(heard) PROVE DiskInv'
    BY <2>3, HostInStep
  <2>. QED  BY <1>2, <2>1, <2>2, <2>3 DEF Transfer
<1>3. CASE Recovery
  BY <1>3, RecoverResetStep, RecoverInStep, RecoverOutStep DEF Recovery
<1>4. CASE Abort
  BY <1>4, AbortStep
<1>5. CASE PortReset
  BY <1>5, PortResetStep
<1>6. CASE UNCHANGED diskVars
  <2>1. /\ dev' = dev /\ phase' = phase /\ cmd' = cmd /\ done' = done /\ hostOut' = hostOut
        /\ hostIn' = hostIn /\ clean' = clean /\ faults' = faults /\ kept' = kept
    BY <1>6 DEF diskVars
  <2>2. Live' = Live /\ Undealt' = Undealt /\ Writing' = Writing /\ Through' = Through
    BY <2>1 DEF Live, Undealt, Writing, Through
  <2>3. HostPhase' = HostPhase /\ HostDone' = HostDone /\ AcknowledgedIsStored' = AcknowledgedIsStored
    BY <2>1 DEF HostPhase, HostDone, Ahead, PhaseAfterOut, DoneAfterOut, AfterCbw, Length,
                AcknowledgedIsStored
  <2>4. Shape' /\ Endpoints' /\ Flags' /\ Room'
    BY <2>1, <2>2 DEF DiskInv, Shape, Endpoints, Flags, Room
  <2>5. Disk'
    BY <2>1, <2>2, <2>3 DEF DiskInv, Disk
  <2>6. \A k : Offering(k) => Offering(k)'
    BY <2>1, <2>3 DEF Offering, IsDue, Length
  <2>7. Offering(Length(cmd) - 1) => Offering(Length(cmd) - 1)'
    BY <2>1, <2>6 DEF Length, Offering
  <2>8. Offering(Through - 1) => Offering(Through - 1)'
    BY <2>1, <2>2, <2>6 DEF Offering
  <2>9. Offers'
    BY <2>1, <2>2, <2>3, <2>7, <2>8 DEF DiskInv, Offers, Reports
  <2>. QED  BY <2>4, <2>5, <2>9 DEF DiskInv
<1>. QED  BY <1>1, <1>2, <1>3, <1>4, <1>5, <1>6 DEF DiskNext

LEMMA DiskInvAlways == DiskSpec => []DiskInv
<1>. QED  BY DiskInvAtFirst, DiskInvStep, PTL DEF DiskSpec
----------------------------------------------------------------------------
(***************************************************************************)
(* The state stays within its types, and no transfer runs past the disk:   *)
(* mCBW_DataLen, the sector and the pack counters of SW_UDISK.c.           *)
(***************************************************************************)
THEOREM DiskTypes == DiskSpec => []DiskTypeOK
<1>1. ASSUME DiskInv PROVE DiskTypeOK
  BY <1>1, Amounts DEF DiskInv, Shape, DiskTypeOK, Device, Lengths, Places
<1>. QED  BY <1>1, DiskInvAlways, PTL

(***************************************************************************)
(* What the host was told is written stays on the disk, whatever handshake *)
(* is lost, whatever command is given up and however often the bus is      *)
(* reset: a transfer left over in the device (DownOnePack programs when    *)
(* its sector is full) only ends in sectors the host has been told nothing *)
(* of, and a status under the tag of a WRITE comes after all its sectors.  *)
(***************************************************************************)
THEOREM AcknowledgedWritesStored == DiskSpec => []AcknowledgedIsStored
<1>1. DiskInv => AcknowledgedIsStored
  BY DEF DiskInv, Disk
<1>. QED  BY <1>1, DiskInvAlways, PTL

(***************************************************************************)
(* What endpoint 2 offers a host that began on a ready device is the next  *)
(* pack of its READ or the status of its command, and nothing early: the   *)
(* flags of Udisk_Transfer_Status name the stage, and a lost handshake is  *)
(* the toggle that the host does not wait for.                             *)
(***************************************************************************)
THEOREM OfferIsDue == DiskSpec => []OffersWhatIsDue
<1>1. ASSUME DiskInv PROVE OffersWhatIsDue
  <2>. SUFFICES ASSUME clean, Live, dev.res = "ack", dev.tog = hostIn
                PROVE  IsDue(dev.packet, HostPhase, HostDone)
    BY Zenon DEF OffersWhatIsDue, HostPhase, HostDone, Ahead, Live
  <2>1. dev.flags \in {{}, {"csw"}, {"up", "csw"}, {"down", "csw"}}
    BY <1>1 DEF DiskInv, Offers
  <2>2. CASE dev.flags = {}
    <3>1. /\ HostPhase = "csw"
          /\ dev.packet[1] = "csw" /\ dev.packet[2] = cmd.tag /\ Reports(dev.packet[3])
      BY <1>1, <2>2 DEF DiskInv, Offers
    <3>. QED  BY <3>1 DEF IsDue, Reports
  <2>3. ASSUME NEW k, Offering(k) PROVE IsDue(dev.packet, HostPhase, HostDone)
    BY <2>3 DEF Offering
  <2>4. CASE dev.flags = {"csw"}
    BY <1>1, <2>3, <2>4 DEF DiskInv, Offers
  <2>5. CASE dev.flags = {"up", "csw"}
    BY <1>1, <2>3, <2>5 DEF DiskInv, Offers
  <2>6. CASE dev.flags = {"down", "csw"}
    BY <1>1, <2>6 DEF DiskInv, Offers
  <2>. QED  BY <2>1, <2>2, <2>4, <2>5, <2>6
<1>. QED  BY <1>1, DiskInvAlways, PTL

(* Only a packet of the host's changes what is on the disk. *)
LEMMA OnlyPacketsProgram ==
  ASSUME DiskInv, [DiskNext]_diskVars, dev'.disk # dev.disk
  PROVE  \E heard \in BOOLEAN :
           HostOut(heard) /\ hostOut = dev.rxTog /\ "down" \in dev.flags
<1>1. dev \in Device
  BY DEF DiskInv, Shape
<1>2. CASE Recovery
  <2>1. \/ dev' \in {UdiskReset(dev), ClearIn(dev)}
        \/ dev' = ClearOut(dev) /\ phase = "clearOut"
    BY <1>2 DEF Recovery, RecoverReset, RecoverIn, RecoverOut
  <2>2. phase = "clearOut" => dev.flags = {}
    BY DEF DiskInv, Flags
  <2>. QED  BY <1>1, <2>1, <2>2, UdiskResetIs, ClearInIs, ClearOutIs DEF SameDisk
<1>3. CASE PortReset
  BY <1>1, <1>3, EndpInitIs DEF PortReset, SameDisk
<1>4. CASE HostStalled
  BY <1>1, <1>4, ClearInIs DEF HostStalled, SameDisk
<1>5. ASSUME NEW heard \in BOOLEAN, HostIn(heard) PROVE FALSE
  BY <1>5, HostInDevice DEF SameDisk
<1>6. ASSUME NEW heard \in BOOLEAN, HostOut(heard)
      PROVE  hostOut = dev.rxTog /\ "down" \in dev.flags
  <2>1. hostOut = dev.rxTog
    BY <1>6, IgnoredStep
  <2>2. phase \in {"cbw", "out"}
    BY <1>6, HostOutIs
  <2>. QED  BY <1>6, <2>1, <2>2, OutNothingStep, OutReadStep, OutWriteStep, OutOtherStep
<1>7. (\E b \in Commands : Command(b)) \/ Abort \/ UNCHANGED diskVars => dev' = dev
  BY DEF Command, Abort, diskVars
<1>. QED  BY <1>2, <1>3, <1>4, <1>5, <1>6, <1>7 DEF DiskNext, Transfer

(***************************************************************************)
(* A command that began on a ready device programs nothing but whole       *)
(* sectors of its own, with what the host has sent for them: DownOnePack   *)
(* cannot be off by a pack or a sector, a copy of a packet is dealt with   *)
(* once (the toggle), and no other handler programs.                       *)
(***************************************************************************)
THEOREM WritesAreExact == DiskSpec => ProgramsWhatIsWritten
<1>. DEFINE Exact == clean => \A s \in SectorIds : dev'.disk[s] # dev.disk[s] =>
                       cmd.op = "write" /\ s \in SectorsOf(cmd) /\ dev'.disk[s] = Sector(cmd.ver, s)
<1>1. ASSUME DiskInv, [DiskNext]_diskVars PROVE Exact
  <2>. SUFFICES ASSUME clean, NEW s \in SectorIds, dev'.disk[s] # dev.disk[s]
                PROVE  cmd.op = "write" /\ s \in SectorsOf(cmd) /\ dev'.disk[s] = Sector(cmd.ver, s)
    OBVIOUS
  <2>1. PICK heard \in BOOLEAN : HostOut(heard) /\ hostOut = dev.rxTog /\ "down" \in dev.flags
    BY <1>1, OnlyPacketsProgram
  <2>2. Live /\ phase \in {"cbw", "out"}
    BY <1>1, <2>1, HostOutIs
  <2>3. Writing
    BY <1>1, <2>1, <2>2 DEF DiskInv, Disk
  <2>4. /\ cmd.op = "write" /\ WellFormed(cmd) /\ dev \in Device
        /\ cmd.lba <= dev.lba /\ cmd.lba + cmd.n \in dev.lba + 1 .. Sectors
    BY <1>1, <2>1, <2>2, <2>3, WritingIs
  <2>5. dev'.disk = IF dev.count + 1 = Packs
                    THEN [dev.disk EXCEPT ![dev.lba] = Sector(cmd.ver, dev.lba)] ELSE dev.disk
    BY <1>1, <2>1, <2>3, OutPackPrograms
  <2>6. s = dev.lba /\ dev'.disk[s] = Sector(cmd.ver, s)
    BY <2>4, <2>5 DEF Device
  <2>7. s \in SectorsOf(cmd)
    BY <2>4, <2>6, Amounts DEF SectorsOf, WellFormed, SectorIds, Device
  <2>. QED  BY <2>4, <2>6, <2>7
<1>. QED  BY <1>1, DiskInvAlways, PTL DEF DiskSpec, ProgramsWhatIsWritten
=============================================================================
