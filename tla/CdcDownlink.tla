---------------------------- MODULE CdcDownlink ----------------------------
(***************************************************************************)
(* The downlink of the USB-CDC serial bridge (SimulateCDC): packets that   *)
(* the USB host writes to bulk endpoint 2 are stored by the USB engine in  *)
(* a ring of NumMax slots and sent on USART2 by DMA1 channel 7.            *)
(*                                                                         *)
(* Actors: the host and the USB engine (SieOut), the USBFS interrupt       *)
(* handler (IsrOut, BusReset, SetLineCoding, ClearHalt, SetHalt), the main *)
(* loop inside UART2_DataTx_Deal (Tx actions, cut wherever the USBFS       *)
(* interrupt can strike), and the DMA channel with the UART behind it      *)
(* (DmaByte, UartIdle).                                                    *)
(*                                                                         *)
(* got, store, sent, off, live, raced and forced are history variables:    *)
(* no guard reads them, except that got bounds the host.                   *)
(***************************************************************************)
EXTENDS Integers

CONSTANTS
  NumMax,    \* DEF_UARTx_TX_BUF_NUM_MAX: slots of UART2_Tx_Buf
  PackSize,  \* DEF_USB_FS_PACK_LEN: bytes of a slot
  Lens,      \* lengths of the packets the host sends
  MaxPkts    \* model bound: packets accepted since the last re-initialisation

W16 == 65536   \* values of a uint16_t

ASSUME NumMaxAssumption   == NumMax \in Nat /\ NumMax >= 4 /\ NumMax < W16
ASSUME PackSizeAssumption == PackSize \in Nat /\ PackSize > 0 /\ PackSize < W16
ASSUME BufferAssumption   == NumMax * PackSize < W16
ASSUME LensAssumption     == Lens \subseteq 0..PackSize
ASSUME MaxPktsAssumption  == MaxPkts \in Nat

VARIABLES
  loadNum,    \* Uart.Tx_LoadNum
  dealNum,    \* Uart.Tx_DealNum
  remainNum,  \* Uart.Tx_RemainNum
  packLen,    \* Uart.Tx_PackLen
  txFlag,     \* Uart.Tx_Flag
  curLen,     \* Uart.Tx_CurPackLen
  curPtr,     \* Uart.Tx_CurPackPtr
  stopFlag,   \* Uart.USB_Down_StopFlag
  pc,         \* where the main loop stands in UART2_DataTx_Deal
  ep2,        \* response of endpoint 2 OUT in UEP2_RX_CTRL
  uep2dma,    \* slot UEP2_DMA points at
  rxLen,      \* RX_LEN of the OUT transfer that waits for the handler, or NoRx
  cntr,       \* CNTR of the Tx DMA channel
  maddr,      \* byte of UART2_Tx_Buf the channel reads next
  dmaReq,     \* USART_DMAReq_Tx in CTLR3
  tc,         \* USART_FLAG_TC in STATR
  shifting,   \* a byte is in the UART's shift register
  got,        \* packets accepted from the host
  store,      \* number and length of the packet last written to each slot
  sent,       \* packets dealt out of the ring
  off,        \* bytes of packet sent + 1 handed to the UART
  live,       \* the DMA program was made after the last re-initialisation
  raced,      \* that re-initialisation struck inside UART2_DataTx_Deal
  forced      \* CLEAR_FEATURE(HALT) that reopened a paused endpoint (up to 3)

ringVars  == <<loadNum, dealNum, remainNum, packLen>>
sendVars  == <<txFlag, curLen, curPtr>>
usbVars   == <<stopFlag, ep2, uep2dma, rxLen>>
dmaVars   == <<cntr, maddr, dmaReq, tc, shifting>>
ghostVars == <<got, store, sent, off, live, raced, forced>>
vars      == <<ringVars, sendVars, usbVars, dmaVars, ghostVars, pc>>

Slots == 0 .. NumMax - 1
NoRx  == -1   \* no transfer waits for the interrupt handler
Free  == [seq |-> 0, len |-> 0]

Add16(a, b) == IF a + b >= W16 THEN a + b - W16 ELSE a + b
Sub16(a, b) == IF a >= b THEN a - b ELSE a - b + W16

(* Successor of a slot number, for Tx_LoadNum and for Tx_DealNum. *)
WrapNum(n)     == IF n + 1 >= NumMax THEN 0 ELSE n + 1

(* Number of waiting packets at which the host is paused. *)
PauseAtLast == NumMax - 1
PauseAt     == NumMax - 2

(* A paused host is let in again below this number of waiting packets. *)
ResumeNever == 0
ResumeBelow == 2
----------------------------------------------------------------------------
Init ==
  /\ loadNum = 0 /\ dealNum = 0 /\ remainNum = 0
  /\ packLen = [s \in Slots |-> 0]
  /\ txFlag = 0 /\ curLen = 0 /\ curPtr = 0
  /\ stopFlag = 0 /\ ep2 = "ACK" /\ uep2dma = 0
  /\ rxLen = NoRx
  /\ cntr = 0 /\ maddr = 0 /\ dmaReq = FALSE /\ tc = FALSE /\ shifting = FALSE
  /\ pc = "top"
  /\ got = 0 /\ sent = 0 /\ off = 0
  /\ store = [s \in Slots |-> Free]
  /\ live = FALSE /\ raced = FALSE /\ forced = 0
----------------------------------------------------------------------------
(***************************************************************************)
(* The host and the USB engine.  With USBFS_UC_INT_BUSY set the engine     *)
(* answers NAK while a transfer waits for the handler.                     *)
(***************************************************************************)
SieOut ==
  /\ ep2 = "ACK" /\ rxLen = NoRx
  /\ got < MaxPkts
  /\ \E n \in Lens :
       /\ rxLen' = n
       /\ store' = [store EXCEPT ![uep2dma] = [seq |-> got + 1, len |-> n]]
  /\ got' = got + 1
  /\ UNCHANGED <<ringVars, sendVars, dmaVars, pc, stopFlag, ep2, uep2dma,
                 sent, off, live, raced, forced>>
----------------------------------------------------------------------------
(***************************************************************************)
(* USBFS_IRQHandler.  The handler runs to completion between two main-loop *)
(* actions: every region the main loop protects with NVIC_DisableIRQ is    *)
(* one action below.                                                       *)
(***************************************************************************)
IsrOut ==
  /\ rxLen # NoRx
  /\ packLen'   = [packLen EXCEPT ![loadNum] = rxLen]
  /\ loadNum'   = WrapNum(loadNum)
  /\ uep2dma'   = WrapNum(loadNum)
  /\ remainNum' = Add16(remainNum, 1)
  /\ \/ /\ remainNum' >= PauseAt
        /\ ep2' = "NAK" /\ stopFlag' = 1
     \/ /\ remainNum' < PauseAt
        /\ UNCHANGED <<ep2, stopFlag>>
  /\ rxLen' = NoRx
  /\ UNCHANGED <<dealNum, sendVars, dmaVars, ghostVars, pc>>

(* UART2_ParaInit, the part that belongs to the downlink. *)
ParaInitKeepDeal ==
  /\ loadNum' = 0 /\ dealNum' = dealNum /\ remainNum' = 0
  /\ packLen' = [s \in Slots |-> 0]
  /\ txFlag' = 0 /\ curLen' = 0 /\ curPtr' = 0
  /\ stopFlag' = 0
ParaInit ==
  /\ loadNum' = 0 /\ dealNum' = 0 /\ remainNum' = 0
  /\ packLen' = [s \in Slots |-> 0]
  /\ txFlag' = 0 /\ curLen' = 0 /\ curPtr' = 0
  /\ stopFlag' = 0

(* What every re-initialisation does to the history variables. *)
NewEpoch ==
  /\ got' = 0 /\ sent' = 0 /\ off' = 0 /\ forced' = 0
  /\ live' = FALSE
  /\ raced' = (pc # "top")
  /\ store' = [s \in Slots |-> Free]

(* Bus reset: endpoints and parameters are initialised, the DMA is not. *)
BusReset ==
  /\ rxLen = NoRx
  /\ ep2' = "ACK" /\ uep2dma' = 0
  /\ ParaInit
  /\ NewEpoch
  /\ UNCHANGED <<rxLen, dmaVars, pc>>

(* CDC SET_LINE_CODING: UART2_USB_Init initialises UART, DMA and bridge. *)
SetLineCoding ==
  /\ rxLen = NoRx
  /\ cntr' = 0 /\ maddr' = 0 /\ tc' = FALSE
  /\ ParaInit
  /\ ep2' = "ACK" /\ uep2dma' = 0
  /\ NewEpoch
  /\ UNCHANGED <<rxLen, dmaReq, shifting, pc>>

(* CLEAR_FEATURE(ENDPOINT_HALT) on endpoint 2 OUT. *)
ClearHalt ==
  /\ rxLen = NoRx
  /\ ep2' = "ACK"
  /\ forced' = IF stopFlag = 1 /\ forced < 3 THEN forced + 1 ELSE forced
  /\ UNCHANGED <<ringVars, sendVars, stopFlag, uep2dma, rxLen, dmaVars, pc,
                 got, store, sent, off, live, raced>>

(* SET_FEATURE(ENDPOINT_HALT) on endpoint 2 OUT. *)
SetHalt ==
  /\ rxLen = NoRx
  /\ ep2' = "STALL"
  /\ UNCHANGED <<ringVars, sendVars, stopFlag, uep2dma, rxLen, dmaVars, pc,
                 ghostVars>>
----------------------------------------------------------------------------
(***************************************************************************)
(* UART2_DataTx_Deal.                                                      *)
(***************************************************************************)

(* Tx_Flag is set and TC is seen: the completion branch is entered. *)
TxSeesTC ==
  /\ pc = "top" /\ txFlag = 1 /\ tc
  /\ pc' = "complete"
  /\ UNCHANGED <<ringVars, sendVars, usbVars, dmaVars, ghostVars>>

(* Bytes of the current program that the DMA has handed to the UART. *)
MovedAll == curLen
Moved    == Sub16(curLen, cntr)

(***************************************************************************)
(* The completion branch.  Its writes to TC, CTLR3 and Tx_Flag precede     *)
(* NVIC_DisableIRQ; a handler that runs between them has the same effect   *)
(* as one that runs before them, so they are part of this action.          *)
(***************************************************************************)
TxComplete ==
  /\ pc = "complete"
  /\ tc' = FALSE /\ dmaReq' = FALSE /\ txFlag' = 0
  /\ curLen' = Sub16(curLen, Moved)
  /\ curPtr' = Add16(curPtr, Moved)
  /\ \/ /\ curLen' = 0
        /\ packLen' = [packLen EXCEPT ![dealNum] = 0]
        /\ dealNum' = WrapNum(dealNum)
        /\ remainNum' = Sub16(remainNum, 1)
        /\ sent' = sent + 1 /\ off' = 0
        /\ store' = [store EXCEPT ![dealNum] = Free]
     \/ /\ curLen' # 0
        /\ UNCHANGED <<packLen, dealNum, remainNum, sent, off, store>>
  /\ \/ /\ stopFlag = 1 /\ remainNum' < ResumeBelow
        /\ ep2' = "ACK" /\ stopFlag' = 0
        /\ forced' = IF forced = 3 THEN 3 ELSE 0
     \/ /\ ~(stopFlag = 1 /\ remainNum' < ResumeBelow)
        /\ UNCHANGED <<ep2, stopFlag, forced>>
  /\ pc' = "top"
  /\ UNCHANGED <<loadNum, uep2dma, rxLen, cntr, maddr, shifting,
                 got, live, raced>>

(* Tx_Flag is clear and a packet waits: the load branch is entered. *)
TxSeesWork ==
  /\ pc = "top" /\ txFlag = 0 /\ remainNum # 0
  /\ pc' = "load"
  /\ UNCHANGED <<ringVars, sendVars, usbVars, dmaVars, ghostVars>>

(* A new packet is taken only when the last one left nothing unsent. *)
TxLoadAlways ==
  /\ pc = "load"
  /\ curLen' = packLen[dealNum] /\ curPtr' = dealNum * PackSize
  /\ pc' = "program"
  /\ UNCHANGED <<ringVars, txFlag, usbVars, dmaVars, ghostVars>>
TxLoad ==
  /\ pc = "load"
  /\ \/ /\ curLen = 0
        /\ curLen' = packLen[dealNum] /\ curPtr' = dealNum * PackSize
     \/ /\ curLen # 0
        /\ UNCHANGED <<curLen, curPtr>>
  /\ pc' = "program"
  /\ UNCHANGED <<ringVars, txFlag, usbVars, dmaVars, ghostVars>>

TxProgramNoRequest ==
  /\ pc = "program"
  /\ tc' = FALSE
  /\ maddr' = curPtr /\ cntr' = curLen
  /\ live' = TRUE
  /\ pc' = "flag"
  /\ UNCHANGED <<ringVars, sendVars, usbVars, dmaReq, shifting,
                 got, store, sent, off, raced, forced>>
TxProgram ==
  /\ pc = "program"
  /\ tc' = FALSE
  /\ maddr' = curPtr /\ cntr' = curLen
  /\ dmaReq' = TRUE
  /\ live' = TRUE
  /\ pc' = "flag"
  /\ UNCHANGED <<ringVars, sendVars, usbVars, shifting,
                 got, store, sent, off, raced, forced>>

TxSetFlag ==
  /\ pc = "flag"
  /\ txFlag' = 1
  /\ pc' = "top"
  /\ UNCHANGED <<ringVars, curLen, curPtr, usbVars, dmaVars, ghostVars>>
----------------------------------------------------------------------------
(***************************************************************************)
(* DMA1 channel 7 and USART2.  The UART may run empty while the channel    *)
(* still has bytes to move, so TC can come before the program is finished. *)
(***************************************************************************)
DmaByte ==
  /\ dmaReq /\ cntr > 0
  /\ cntr' = cntr - 1
  /\ maddr' = maddr + 1
  /\ shifting' = TRUE
  /\ off' = IF live THEN off + 1 ELSE off
  /\ UNCHANGED <<ringVars, sendVars, usbVars, dmaReq, tc, pc,
                 got, store, sent, live, raced, forced>>

UartIdle ==
  /\ shifting
  /\ shifting' = FALSE /\ tc' = TRUE
  /\ UNCHANGED <<ringVars, sendVars, usbVars, cntr, maddr, dmaReq, pc, ghostVars>>
----------------------------------------------------------------------------
MainLoop == TxSeesTC \/ TxComplete \/ TxSeesWork \/ TxLoad \/ TxProgram \/ TxSetFlag
Hardware == DmaByte \/ UartIdle
Control  == BusReset \/ SetLineCoding \/ ClearHalt \/ SetHalt

Next == SieOut \/ IsrOut \/ MainLoop \/ Hardware \/ Control

(***************************************************************************)
(* The main loop calls UART2_DataTx_Deal for ever, a pending interrupt is  *)
(* taken, the DMA and the UART run by themselves.  The host owes nothing.  *)
(***************************************************************************)
Fairness ==
  /\ WF_vars(MainLoop) /\ WF_vars(IsrOut)
  /\ WF_vars(DmaByte) /\ WF_vars(UartIdle)

Spec == Init /\ [][Next]_vars /\ Fairness
----------------------------------------------------------------------------
(* Every variable holds a value of its register or C type. *)
TypeOK ==
  /\ loadNum \in Slots /\ dealNum \in Slots /\ uep2dma \in Slots
  /\ remainNum \in 0 .. W16 - 1
  /\ packLen \in [Slots -> 0 .. PackSize]
  /\ txFlag \in {0, 1} /\ stopFlag \in {0, 1}
  /\ curLen \in 0 .. W16 - 1 /\ curPtr \in 0 .. W16 - 1
  /\ ep2 \in {"ACK", "NAK", "STALL"}
  /\ rxLen \in 0 .. PackSize \cup {NoRx}
  /\ cntr \in 0 .. W16 - 1 /\ maddr \in Nat
  /\ dmaReq \in BOOLEAN /\ tc \in BOOLEAN /\ shifting \in BOOLEAN
  /\ pc \in {"top", "complete", "load", "program", "flag"}
  /\ got \in Nat /\ sent \in Nat /\ off \in Nat
  /\ store \in [Slots -> [seq : Nat, len : 0 .. PackSize]]
  /\ live \in BOOLEAN /\ raced \in BOOLEAN /\ forced \in 0 .. 3

(* The slot k places after slot d, and after the one being dealt. *)
SlotFrom(d, k) == IF d + k >= NumMax THEN d + k - NumMax ELSE d + k
SlotAt(k)      == SlotFrom(dealNum, k)

(* The packet the handler has not seen yet. *)
Pending == IF rxLen # NoRx THEN 1 ELSE 0

(* The environment has stayed inside what the ring is built for. *)
Calm == ~raced /\ forced <= 2

(***************************************************************************)
(* The ring never loses, repeats or reorders a packet: the waiting slots   *)
(* hold exactly the packets accepted and not yet dealt, in order, with     *)
(* their lengths, however the handler and the main loop interleave         *)
(* (IsrOut against TxComplete, UART.c:352-378).                            *)
(***************************************************************************)
RingHoldsBacklog ==
  Calm =>
    /\ remainNum <= NumMax
    /\ got = sent + remainNum + Pending
    /\ \A k \in 0 .. NumMax - 1 : k < remainNum =>
         /\ store[SlotAt(k)].seq = sent + 1 + k
         /\ store[SlotAt(k)].len = packLen[SlotAt(k)]

(***************************************************************************)
(* The bridge implements PacketPipe.  The packets that wait are those in   *)
(* the ring, under the lengths the code keeps of them, and the one the     *)
(* handler has not seen: none is lost, repeated, overwritten or passed by  *)
(* another between the engine and the last byte, across IsrOut and both    *)
(* branches of UART2_DataTx_Deal.  The pipe begins anew where the code     *)
(* initialises the bridge, and is given up where the ring was overrun.     *)
(***************************************************************************)
Backlog ==
  IF Calm
  THEN [k \in 1 .. remainNum + Pending |->
          [num |-> store[SlotAt(k - 1)].seq,
           len |-> IF k <= remainNum THEN packLen[SlotAt(k - 1)] ELSE rxLen]]
  ELSE <<>>
Dealt == IF Calm THEN sent ELSE 0

Pipe == INSTANCE PacketPipe
          WITH Capacity <- NumMax, Lengths <- Lens, waiting <- Backlog, delivered <- Dealt

BeginsAnew == /\ BusReset \/ SetLineCoding \/ (Calm /\ ~Calm')
              /\ Pipe!Init'
IsSerialPipe == Pipe!Init /\ [][Pipe!Next \/ BeginsAnew]_(Pipe!pipeVars)

(***************************************************************************)
(* The endpoint never accepts a packet into a slot that still waits to be  *)
(* sent: the two slots kept back by the pause threshold are enough even    *)
(* when the host twice reopens the paused endpoint with CLEAR_FEATURE.     *)
(***************************************************************************)
NeverOverwrites ==
  (Calm /\ ep2 = "ACK" /\ rxLen = NoRx) =>
    \A k \in 0 .. NumMax - 1 : k < remainNum => SlotAt(k) # uep2dma

(***************************************************************************)
(* The next byte the DMA will fetch is the next byte owed to the UART: the *)
(* right packet, and the right place in it after an early TC made the main *)
(* loop resume in the middle of a packet (UART.c:356-358, 387-396).        *)
(***************************************************************************)
DmaFetchesNextByte ==
  (Calm /\ live /\ dmaReq /\ cntr > 0) =>
    /\ maddr = dealNum * PackSize + off
    /\ store[dealNum].seq = sent + 1
    /\ off + cntr = store[dealNum].len

(* A slot is given back only after every byte of its packet was sent. *)
PacketsSentWhole ==
  [][(Calm /\ sent' # sent /\ sent' # 0) =>
        /\ off = store[dealNum].len
        /\ store[dealNum].seq = sent + 1]_vars

(***************************************************************************)
(* UART.h:59 calls Tx_RemainNum the "remaining unprocessed number" of the  *)
(* send buffer, which has NumMax slots.  A re-initialisation that strikes  *)
(* after TC was seen makes the completion branch count below zero.         *)
(***************************************************************************)
RemainNumCountsSlots == remainNum <= NumMax

(* A zero-length packet at the head: no byte moves, so TC never comes. *)
WedgedByEmptyPacket == remainNum > 0 /\ store[dealNum].len = 0

(***************************************************************************)
(* Once the host stops adding to it (after MaxPkts packets it must), the   *)
(* backlog is sent to the end, unless a re-initialisation discards it or   *)
(* the path is wedged: the TC that ends a program is never missed.         *)
(***************************************************************************)
BacklogDrains == (got > sent) ~> (got = sent \/ ~Calm \/ WedgedByEmptyPacket)

(* A paused host is let in again. *)
PauseEnds == (stopFlag = 1) ~> (stopFlag = 0 \/ ~Calm \/ WedgedByEmptyPacket)

(***************************************************************************)
(* UART.c:383 says the load branch loads "data from the serial port send   *)
(* buffer to send": whatever was accepted is sent.  A zero-length packet   *)
(* starts a DMA program of no bytes, after which TC is awaited for ever.   *)
(***************************************************************************)
BacklogAlwaysDrains == (got > sent) ~> (got = sent \/ ~Calm)
============================================================================
