----------------------------- MODULE CdcUplink -----------------------------
(***************************************************************************)
(* The uplink of the USB-CDC serial bridge (SimulateCDC): bytes received   *)
(* on USART2 are written by DMA1 channel 6 into a circular buffer, and     *)
(* UART2_DataRx_Deal uploads them to the host through bulk endpoint 3.     *)
(*                                                                         *)
(* Actors: the DMA (DmaRx), the 100 us timer (Tick), the host and the USB  *)
(* engine (HostIn), the USBFS handler (IsrIn, BusReset, SetLineCoding,     *)
(* SetHalt, ClearHalt) and the main loop (Poll, Choose, Clip, Upload,      *)
(* ZlpTest, ZlpSend), cut wherever the USBFS interrupt is enabled.         *)
(*                                                                         *)
(* The bytes received since the last re-initialisation are numbered from   *)
(* 1; byte 0 stands for anything older.  taken, delivered, fresh, lost,    *)
(* overrun, raced and owesEnd are history variables.                       *)
(***************************************************************************)
EXTENDS Integers, Sequences

CONSTANTS
  BufLen,     \* DEF_UARTx_RX_BUF_LEN
  PackSize,   \* DEF_USBD_FS_PACK_SIZE
  W16,        \* values of a uint16_t, on the scale of BufLen
  RxWrap,     \* values of Rx_TimeOut
  RxMax,      \* Uart.Rx_TimeOutMax
  UpWrap,     \* values of USB_Up_TimeOut
  ZlpTime,    \* DEF_UARTx_RX_TIMEOUT * 20
  UpTime,     \* DEF_UARTx_USB_UP_TIMEOUT
  MaxBytes    \* model bound: bytes received since the last re-initialisation

ASSUME SizesAssumption ==
  /\ {BufLen, PackSize, W16, RxWrap, UpWrap, MaxBytes} \subseteq Nat
  /\ 0 < PackSize /\ PackSize <= BufLen /\ 2 * BufLen < W16
ASSUME TimesAssumption ==
  /\ RxMax \in 1 .. RxWrap - 1
  /\ ZlpTime \in 1 .. UpTime - 1 /\ UpTime \in 1 .. UpWrap - 1

VARIABLES
  lastCount,  \* UARTx_Rx_DMALastCount
  remainLen,  \* Uart.Rx_RemainLen
  dealPtr,    \* Uart.Rx_DealPtr
  rxTimeOut,  \* Uart.Rx_TimeOut
  upTimeOut,  \* Uart.USB_Up_TimeOut
  ingFlag,    \* Uart.USB_Up_IngFlag
  pack0,      \* Uart.USB_Up_Pack0_Flag
  busy,       \* USBFS_Endp_Busy[ DEF_UEP3 ]
  ep3,        \* response of endpoint 3 IN in UEP3_TX_CTRL
  epBuf,      \* bytes loaded in USBFS_EP3_Buf, their number is UEP3_TX_LEN
  inPend,     \* a completed IN transfer waits for the handler
  pc,         \* where the main loop stands in UART2_DataRx_Deal
  packlen,    \* its local variable
  passed,     \* the main loop made a pass since the last tick
  rcvd,       \* bytes the DMA has written
  taken,      \* bytes taken out of the circular buffer
  delivered,  \* bytes the host has received
  fresh,      \* epBuf was loaded and not collected
  lost,       \* what first made a packet be lost, if anything did
  overrun,    \* the DMA has run over bytes that were not taken
  raced,      \* the last re-initialisation struck inside an upload
  owesEnd     \* the last packet the host has received was a full one

ringVars == <<lastCount, remainLen, dealPtr>>
timeVars == <<rxTimeOut, upTimeOut, passed>>
epVars   == <<ingFlag, busy, ep3, epBuf, inPend, fresh>>
loopVars == <<pc, packlen>>
histVars == <<taken, delivered, lost, overrun, raced, owesEnd>>
vars     == <<ringVars, timeVars, epVars, pack0, loopVars, rcvd, histVars>>

Add16(a, b) == (a + b) % W16
Sub16(a, b) == (a - b + W16) % W16

(* The CNTR register of the circular DMA channel. *)
CurCount == BufLen - (rcvd % BufLen)

(* Bytes that came since the last poll, as the firmware computes them. *)
ArrivedNoWrap ==
  IF lastCount > CurCount THEN lastCount - CurCount ELSE BufLen - CurCount
Arrived ==
  IF lastCount = CurCount THEN 0
  ELSE IF lastCount > CurCount THEN lastCount - CurCount
  ELSE BufLen - CurCount + lastCount

(* The byte now in cell p of the buffer, and the n cells from p on. *)
ByteAt(p)   == IF p >= rcvd THEN 0 ELSE rcvd - ((rcvd - 1 - p) % BufLen)
Cells(p, n) == [i \in 1 .. n |-> ByteAt(p + i - 1)]

(* Inside what the buffer is built for; outside it nothing is counted. *)
Calm == ~overrun /\ ~raced

(* The first cause is kept. *)
Lose(cause) == IF Calm /\ lost = "none" THEN cause ELSE lost
----------------------------------------------------------------------------
Init ==
  /\ lastCount = 0 /\ remainLen = 0 /\ dealPtr = 0
  /\ rxTimeOut = 0 /\ upTimeOut = 0 /\ passed = FALSE
  /\ ingFlag = 0 /\ pack0 = 0
  /\ busy = 0 /\ ep3 = "NAK" /\ epBuf = <<>> /\ inPend = FALSE
  /\ pc = "poll" /\ packlen = 0
  /\ rcvd = 0 /\ taken = 0 /\ delivered = 0 /\ fresh = FALSE
  /\ lost = "none" /\ overrun = FALSE /\ raced = FALSE /\ owesEnd = FALSE
----------------------------------------------------------------------------
(***************************************************************************)
(* The environment.                                                        *)
(***************************************************************************)

(* The main loop polls before a whole lap has come in. *)
DmaRx ==
  /\ rcvd < MaxBytes
  /\ Arrived + 1 < BufLen
  /\ rcvd' = rcvd + 1
  /\ \/ /\ Calm /\ rcvd' - taken > BufLen
        /\ overrun' = TRUE /\ taken' = 0 /\ delivered' = 0
     \/ /\ ~Calm \/ rcvd' - taken <= BufLen
        /\ UNCHANGED <<overrun, taken, delivered>>
  /\ UNCHANGED <<ringVars, timeVars, epVars, pack0, loopVars, lost, raced, owesEnd>>

(* TIM2_IRQHandler, the counters wrap.  A pass takes less than 100 us. *)
Tick ==
  /\ passed
  /\ rxTimeOut' = (rxTimeOut + 1) % RxWrap
  /\ upTimeOut' = (upTimeOut + 1) % UpWrap
  /\ passed' = FALSE
  /\ UNCHANGED <<ringVars, epVars, pack0, loopVars, rcvd, histVars>>

(* The host collects the loaded packet. *)
HostIn ==
  /\ ep3 = "ACK" /\ ~inPend
  /\ inPend' = TRUE /\ fresh' = FALSE
  /\ delivered' = IF Calm /\ \E i \in DOMAIN epBuf : epBuf[i] > 0
                  THEN delivered + Len(epBuf) ELSE delivered
  /\ owesEnd' = (Calm /\ Len(epBuf) = PackSize /\ epBuf[1] > 0)
  /\ epBuf' = <<>>
  /\ UNCHANGED <<ringVars, timeVars, ingFlag, busy, ep3, pack0, loopVars, rcvd,
                 taken, lost, overrun, raced>>
----------------------------------------------------------------------------
(***************************************************************************)
(* USBFS_IRQHandler.                                                       *)
(***************************************************************************)

(* IN transfer on endpoint 3 completed. *)
IsrIn ==
  /\ inPend
  /\ ep3' = "NAK" /\ busy' = 0 /\ ingFlag' = 0
  /\ inPend' = FALSE /\ fresh' = FALSE /\ epBuf' = <<>>
  /\ lost' = IF fresh /\ epBuf # <<>> THEN Lose("late") ELSE lost
  /\ UNCHANGED <<ringVars, timeVars, pack0, loopVars, rcvd,
                 taken, delivered, overrun, raced, owesEnd>>

(* UART2_ParaInit, the part that belongs to the uplink. *)
ParaInitKeepLast ==
  /\ dealPtr' = 0 /\ remainLen' = 0 /\ lastCount' = lastCount
  /\ rxTimeOut' = 0 /\ upTimeOut' = 0
  /\ ingFlag' = 0 /\ pack0' = 0
ParaInit ==
  /\ dealPtr' = 0 /\ remainLen' = 0 /\ lastCount' = 0
  /\ rxTimeOut' = 0 /\ upTimeOut' = 0
  /\ ingFlag' = 0 /\ pack0' = 0

NewEpoch ==
  /\ taken' = 0 /\ delivered' = 0
  /\ lost' = "none" /\ overrun' = FALSE
  /\ raced' = (pc \in {"clip", "upload"})
  /\ owesEnd' = FALSE

(***************************************************************************)
(* Bus reset: endpoints and parameters are initialised, the receiving DMA  *)
(* runs on, so the bytes of its present lap count as received again.       *)
(***************************************************************************)
BusReset ==
  /\ ~inPend
  /\ ep3' = "NAK" /\ busy' = 0 /\ epBuf' = <<>> /\ fresh' = FALSE
  /\ ParaInit
  /\ NewEpoch
  /\ rcvd' = rcvd % BufLen
  /\ UNCHANGED <<passed, inPend, loopVars>>

(* CDC SET_LINE_CODING: the DMA restarts too, endpoint 3 stays as it is. *)
SetLineCoding ==
  /\ ~inPend
  /\ epBuf' = [i \in DOMAIN epBuf |-> 0]
  /\ ParaInit
  /\ NewEpoch
  /\ rcvd' = 0
  /\ UNCHANGED <<passed, busy, ep3, inPend, fresh, loopVars>>

(* SET_FEATURE and CLEAR_FEATURE(ENDPOINT_HALT) on endpoint 3 IN. *)
SetHalt ==
  /\ ~inPend
  /\ ep3' = "STALL"
  /\ UNCHANGED <<ringVars, timeVars, ingFlag, busy, epBuf, inPend, fresh, pack0,
                 loopVars, rcvd, histVars>>

ClearHalt ==
  /\ ~inPend
  /\ ep3' = "NAK"
  /\ lost' = IF busy = 1 \/ fresh THEN Lose("halted") ELSE lost
  /\ UNCHANGED <<ringVars, timeVars, ingFlag, busy, epBuf, inPend, fresh, pack0,
                 loopVars, rcvd, taken, delivered, overrun, raced, owesEnd>>
----------------------------------------------------------------------------
(***************************************************************************)
(* UART2_DataRx_Deal.  Poll, Upload and ZlpSend run with the USBFS         *)
(* interrupt disabled; the timer and the DMA are never held off.           *)
(***************************************************************************)
Poll ==
  /\ pc = "poll"
  /\ \/ /\ lastCount # CurCount
        /\ lastCount' = CurCount
        /\ remainLen' = IF remainLen + Arrived > BufLen THEN remainLen
                        ELSE Add16(remainLen, Arrived)
        /\ rxTimeOut' = 0
     \/ /\ lastCount = CurCount
        /\ UNCHANGED <<lastCount, remainLen, rxTimeOut>>
  /\ pc' = "choose"
  /\ UNCHANGED <<dealPtr, upTimeOut, passed, epVars, pack0, packlen, rcvd, histVars>>

(* Length of the next upload: a full packet, or the rest after a silence. *)
UploadLenNoRest == IF remainLen >= PackSize THEN PackSize ELSE 0
UploadLen ==
  IF remainLen >= PackSize THEN PackSize
  ELSE IF rxTimeOut >= RxMax THEN remainLen ELSE 0

(* A packet the host has not collected in time counts as uploaded. *)
GiveUp         == ingFlag' = 0 /\ busy' = 0

Choose ==
  /\ pc = "choose"
  /\ passed' = TRUE
  /\ \/ /\ remainLen # 0 /\ ingFlag = 0 /\ UploadLen > 0
        /\ packlen' = UploadLen
        /\ pc' = "clip"
        /\ UNCHANGED <<ingFlag, busy>>
     \/ /\ remainLen = 0 \/ (ingFlag = 0 /\ UploadLen = 0)
        /\ pc' = "zlp"
        /\ UNCHANGED <<packlen, ingFlag, busy>>
     \/ /\ remainLen # 0 /\ ingFlag # 0
        /\ \/ upTimeOut >= UpTime /\ GiveUp
           \/ upTimeOut < UpTime /\ UNCHANGED <<ingFlag, busy>>
        /\ pc' = "zlp"
        /\ UNCHANGED packlen
  /\ UNCHANGED <<ringVars, rxTimeOut, upTimeOut, ep3, epBuf, inPend, fresh, pack0,
                 rcvd, histVars>>

(* An upload does not cross the end of the buffer. *)
Clip ==
  /\ pc = "clip"
  /\ packlen' = IF packlen > BufLen - dealPtr THEN BufLen - dealPtr ELSE packlen
  /\ pc' = "upload"
  /\ UNCHANGED <<ringVars, timeVars, epVars, pack0, rcvd, histVars>>

(* USBFS_Endp_DataUp on endpoint 3, in copy mode. *)
DataUp(bytes) ==
  \/ /\ busy = 0
     /\ busy' = 1 /\ ep3' = "ACK" /\ epBuf' = bytes /\ fresh' = TRUE
     /\ lost' = IF fresh /\ epBuf # <<>> THEN Lose("replaced") ELSE lost
  \/ /\ busy = 1
     /\ lost' = IF bytes # <<>> THEN Lose("refused") ELSE lost
     /\ UNCHANGED <<busy, ep3, epBuf, fresh>>

(* The read pointer after n more bytes. *)
Advance(n)     == IF dealPtr + n >= BufLen THEN 0 ELSE dealPtr + n

(* The result of USBFS_Endp_DataUp is not looked at. *)
UploadNoPack0 ==
  /\ pc = "upload"
  /\ DataUp(Cells(dealPtr, packlen))
  /\ ingFlag' = 1 /\ upTimeOut' = 0
  /\ remainLen' = Sub16(remainLen, packlen)
  /\ dealPtr' = Advance(packlen)
  /\ taken' = IF Calm THEN taken + packlen ELSE taken
  /\ packlen' = 0
  /\ pc' = "zlp"
  /\ UNCHANGED <<lastCount, rxTimeOut, passed, inPend, pack0, rcvd,
                 delivered, overrun, raced, owesEnd>>
Upload ==
  /\ pc = "upload"
  /\ DataUp(Cells(dealPtr, packlen))
  /\ ingFlag' = 1 /\ upTimeOut' = 0
  /\ remainLen' = Sub16(remainLen, packlen)
  /\ dealPtr' = Advance(packlen)
  /\ taken' = IF Calm THEN taken + packlen ELSE taken
  /\ pack0' = IF packlen = PackSize THEN 1 ELSE pack0
  /\ packlen' = 0
  /\ pc' = "zlp"
  /\ UNCHANGED <<lastCount, rxTimeOut, passed, inPend, rcvd,
                 delivered, overrun, raced, owesEnd>>

(* Is a zero-length packet due? *)
ZlpTest ==
  /\ pc = "zlp"
  /\ pc' = IF pack0 = 1 /\ ingFlag = 0 /\ upTimeOut >= ZlpTime
           THEN "zlpsend" ELSE "poll"
  /\ UNCHANGED <<ringVars, timeVars, epVars, pack0, packlen, rcvd, histVars>>

ZlpSend ==
  /\ pc = "zlpsend"
  /\ DataUp(<<>>)
  /\ ingFlag' = 0 /\ pack0' = 0 /\ upTimeOut' = 0
  /\ pc' = "poll"
  /\ UNCHANGED <<ringVars, rxTimeOut, passed, inPend, packlen, rcvd,
                 taken, delivered, overrun, raced, owesEnd>>
----------------------------------------------------------------------------
MainLoop == Poll \/ Choose \/ Clip \/ Upload \/ ZlpTest \/ ZlpSend
Control  == BusReset \/ SetLineCoding \/ SetHalt \/ ClearHalt

Next == DmaRx \/ Tick \/ HostIn \/ IsrIn \/ Control \/ MainLoop

(* The host polls the endpoint; nothing obliges bytes or requests to come. *)
Fairness ==
  /\ WF_vars(MainLoop) /\ WF_vars(IsrIn) /\ WF_vars(Tick)
  /\ WF_vars(HostIn)

Spec == Init /\ [][Next]_vars /\ Fairness
----------------------------------------------------------------------------
TypeOK ==
  /\ lastCount \in 0 .. BufLen
  /\ remainLen \in 0 .. W16 - 1
  /\ dealPtr \in 0 .. BufLen - 1
  /\ rxTimeOut \in 0 .. RxWrap - 1 /\ upTimeOut \in 0 .. UpWrap - 1
  /\ {ingFlag, pack0, busy} \subseteq {0, 1}
  /\ ep3 \in {"ACK", "NAK", "STALL"}
  /\ epBuf \in Seq(Nat) /\ Len(epBuf) <= PackSize
  /\ {inPend, passed, fresh, overrun, raced, owesEnd} \subseteq BOOLEAN
  /\ pc \in {"poll", "choose", "clip", "upload", "zlp", "zlpsend"}
  /\ packlen \in 0 .. PackSize
  /\ {rcvd, taken, delivered} \subseteq Nat
  /\ lost \in {"none", "refused", "replaced", "late", "halted"}

(***************************************************************************)
(* The circular buffer and the DMA agree: what Rx_RemainLen counts and     *)
(* what the next poll will add is what was received and not taken, and     *)
(* Rx_DealPtr stands on the oldest of these bytes, over laps, short and    *)
(* clipped uploads and re-initialisations (UART.c:426-447, 486-493).       *)
(***************************************************************************)
RingFollowsDma ==
  Calm => /\ remainLen + Arrived = rcvd - taken
          /\ dealPtr = taken % BufLen
          /\ pc \in {"clip", "upload"} => packlen \in 1 .. remainLen

(***************************************************************************)
(* As long as no packet was lost for one of the causes of lost, every byte *)
(* that left the buffer has reached the host or waits in endpoint 3, and   *)
(* the packet that waits holds the very bytes that come next.              *)
(***************************************************************************)
NoSilentLoss ==
  (Calm /\ lost = "none") =>
    \/ taken = delivered /\ \A i \in DOMAIN epBuf : epBuf[i] = 0
    \/ /\ fresh /\ taken = delivered + Len(epBuf)
       /\ epBuf = [i \in 1 .. Len(epBuf) |-> delivered + i]

(***************************************************************************)
(* The two flags that hold uploads back are set only while a packet is in  *)
(* the endpoint or its interrupt is on the way: a flag left behind by a    *)
(* reset or a late interrupt would stop the uplink.                        *)
(***************************************************************************)
FlagsAreBacked ==
  /\ ingFlag = 1 => busy = 1
  /\ busy = 1 => fresh \/ inPend

(***************************************************************************)
(* The two flags disagree in two cases only: an upload is refused behind a *)
(* zero-length packet, or behind a packet from before SET_LINE_CODING.     *)
(***************************************************************************)
RefusedOnlyBehindZlp ==
  [][(lost' = "refused" /\ lost # "refused") => (epBuf = <<>> \/ epBuf[1] = 0)]_vars

ResetsEnd == <>[][~BusReset]_vars

(***************************************************************************)
(* Every byte reaches the host, a tail shorter than a packet too: after    *)
(* the silence of Rx_TimeOutMax ticks it is uploaded.                      *)
(***************************************************************************)
TailIsUploaded ==
  ResetsEnd =>
    ((rcvd > delivered) ~> (rcvd = delivered \/ lost # "none" \/ ~Calm \/ ep3 = "STALL"))

(***************************************************************************)
(* A transfer that ended with a full packet is closed by a short or empty  *)
(* one, unless a re-initialisation has come in between.                    *)
(***************************************************************************)
TransferIsClosed ==
  owesEnd ~> (~owesEnd \/ lost # "none" \/ ~Calm \/ ep3 = "STALL")

(***************************************************************************)
(* UART.c:475 "Upload serial data via usb".  With a zero-length packet not *)
(* yet collected, the data is taken out of the buffer and not uploaded.    *)
(***************************************************************************)
ZlpCostsNoData ==
  [][(lost' = "refused" /\ lost # "refused") => ~(fresh /\ epBuf = <<>>)]_vars
============================================================================
