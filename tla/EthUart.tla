------------------------------ MODULE EthUart ------------------------------
(***************************************************************************)
(* The Ethernet to UART bridge (ETH_UART).  What a TCP socket receives is  *)
(* kept, packet by packet, in a ring of TX buffers that DMA1 channel 7     *)
(* sends to USART2; what USART2 receives is written by DMA1 channel 6 in a *)
(* circular buffer and handed to the socket.                               *)
(*                                                                         *)
(* Actors: the two DMA channels (DmaByte, DmaRx), the transfer-complete    *)
(* interrupt of channel 7 (TcIsr), and the main loop (the rest), cut where *)
(* the interrupt can strike.  Packets and UART bytes are numbered from 1   *)
(* in the order they come.  accepted, delivered, out, torn, sent and       *)
(* overrun are history variables.                                          *)
(***************************************************************************)
EXTENDS Integers, Sequences

CONSTANTS
  Num,         \* UART_TX_BUF_NUM
  MaxLen,      \* ETH_RECEIVE_SIZE
  Size,        \* UART_RX_DMA_SIZE
  MaxPackets,  \* model bound: packets put in the ring
  MaxBytes     \* model bound: bytes received from the UART

ASSUME SizesAssumption ==
  /\ {Num, MaxLen, Size} \subseteq Nat \ {0}
  /\ {MaxPackets, MaxBytes} \subseteq Nat

VARIABLES
  txBuf,      \* TX_buffer: the packet in each of its slots
  txLen,      \* TX_data_length
  txRead,     \* tx_read
  txWrite,    \* tx_write
  remain,     \* tx_remainBuffNum
  state,      \* uart_tx_dma_state
  en,         \* EN of DMA1_Channel7->CFGR
  tcie,       \* TCIE of the same register
  tc,         \* the transfer-complete flag of channel 7
  maddr,      \* the slot DMA1_Channel7->MADDR points to
  cntr,       \* DMA1_Channel7->CNTR
  rxBuf,      \* RX_buffer: the byte in each of its cells
  count,      \* DMA1_Channel6->CNTR
  last,       \* last_RX_DMA_length
  pc,         \* where the main loop stands
  len,        \* the local variable len, of ETHRx or uartRxAndSendDataToETH
  old,        \* CFGR.EN or tx_remainBuffNum, between its load and its store
  valid,      \* TCPConnValid
  sock,       \* WCHNET_SocketCreat has succeeded for the present socket
  rcvd,       \* bytes received from the UART
  accepted,   \* number of the last packet taken from the socket
  delivered,  \* number of the last packet sent whole to the UART
  out,        \* bytes sent of the packet after it
  torn,       \* a store of CFGR has undone the interrupt's
  sent,       \* bytes the socket has accepted
  overrun     \* a whole buffer of bytes was received and not handed over

ringVars == <<txBuf, txLen, txRead, txWrite, remain, state>>
dmaVars  == <<en, tcie, tc, maddr, cntr>>
rxVars   == <<rxBuf, count, last, rcvd, sent, overrun>>
loopVars == <<pc, len, old>>
linkVars == <<valid, sock>>
txHist   == <<accepted, delivered, out, torn>>
vars     == <<ringVars, dmaVars, rxVars, loopVars, linkVars, txHist>>

After(i) == IF i + 1 = Num THEN 0 ELSE i + 1
Slots    == 0 .. Num - 1
Empty    == [num |-> 0, len |-> 0]

Init ==
  /\ txBuf = [s \in Slots |-> Empty] /\ txLen = [s \in Slots |-> 0]
  /\ txRead = 0 /\ txWrite = 0 /\ remain = Num /\ state = "IDLE"
  /\ en = FALSE /\ tcie = TRUE /\ tc = FALSE /\ maddr = 0 /\ cntr = 0
  /\ rxBuf = [c \in 0 .. Size - 1 |-> 0] /\ count = Size /\ last = Size
  /\ pc = "head" /\ len = 0 /\ old = 0
  /\ valid = FALSE /\ sock \in BOOLEAN
  /\ rcvd = 0 /\ accepted = 0 /\ delivered = 0 /\ out = 0 /\ torn = FALSE
  /\ sent = 0 /\ overrun = FALSE
----------------------------------------------------------------------------
(***************************************************************************)
(* The hardware.                                                           *)
(***************************************************************************)

(* Channel 7 gives the UART a byte of the slot. *)
DmaByte ==
  /\ en /\ cntr > 0
  /\ cntr' = cntr - 1
  /\ \/ cntr = 1 /\ tc' = TRUE /\ delivered' = txBuf[maddr].num /\ out' = 0
     \/ cntr > 1 /\ out' = out + 1 /\ UNCHANGED <<tc, delivered>>
  /\ UNCHANGED <<ringVars, en, tcie, maddr, rxVars, loopVars, linkVars,
                 accepted, torn>>

(* Channel 6 stores a byte the UART has received, round and round. *)
DmaRx ==
  /\ rcvd < MaxBytes
  /\ rcvd' = rcvd + 1
  /\ rxBuf' = [rxBuf EXCEPT ![Size - count] = rcvd + 1]
  /\ count' = IF count = 1 THEN Size ELSE count - 1
  /\ overrun' = (overrun \/ rcvd + 1 - sent >= Size)
  /\ UNCHANGED <<ringVars, dmaVars, last, sent, loopVars, linkVars, txHist>>

(* DMA1_Channel7_IRQHandler. *)
TcIsrKeepBuff ==
  /\ tc /\ tcie
  /\ en' = FALSE /\ tc' = FALSE /\ state' = "IDLE"
  /\ txRead' = After(txRead)
  /\ UNCHANGED <<txBuf, txLen, txWrite, remain, tcie, maddr, cntr,
                 rxVars, loopVars, linkVars, txHist>>
TcIsr ==
  /\ tc /\ tcie
  /\ en' = FALSE /\ tc' = FALSE /\ state' = "IDLE"
  /\ txRead' = After(txRead)
  /\ remain' = remain + 1
  /\ UNCHANGED <<txBuf, txLen, txWrite, tcie, maddr, cntr,
                 rxVars, loopVars, linkVars, txHist>>
----------------------------------------------------------------------------
(***************************************************************************)
(* ETHRx, called for a RECV interrupt of the socket.                       *)
(***************************************************************************)
(***************************************************************************)
(* WCHNET_SocketRecv takes a packet into the slot; it can fail, and the    *)
(* packet that finds no slot free is dropped.                              *)
(***************************************************************************)
RecvPacket ==
  /\ pc = "head" /\ sock
  /\ \/ /\ remain > 0 /\ accepted < MaxPackets
        /\ \E n \in 1 .. MaxLen :
             /\ len' = n
             /\ txBuf' = [txBuf EXCEPT ![txWrite] = [num |-> accepted + 1, len |-> n]]
        /\ accepted' = accepted + 1
        /\ pc' = "lockLoad"
     \/ /\ pc' = "ethTx"
        /\ UNCHANGED <<txBuf, len, accepted>>
  /\ UNCHANGED <<txLen, txRead, txWrite, remain, state, dmaVars, rxVars, old,
                 linkVars, delivered, out, torn>>

NoPacket ==
  /\ pc = "head"
  /\ pc' = "events"
  /\ UNCHANGED <<ringVars, dmaVars, rxVars, len, old, linkVars, txHist>>

(* DMA_ITConfig(.., DISABLE): CFGR is loaded, then stored without TCIE. *)
LockLoad ==
  /\ pc = "lockLoad"
  /\ old' = IF en THEN 1 ELSE 0
  /\ pc' = "lockStore"
  /\ UNCHANGED <<ringVars, dmaVars, rxVars, len, linkVars, txHist>>

LockStoreNothing ==
  /\ pc = "lockStore"
  /\ pc' = "publish"
  /\ UNCHANGED <<ringVars, dmaVars, rxVars, len, old, linkVars, txHist>>
LockStore ==
  /\ pc = "lockStore"
  /\ en' = (old = 1) /\ tcie' = FALSE
  /\ torn' = (torn \/ (old = 1 /\ ~en))
  /\ pc' = "publish"
  /\ UNCHANGED <<ringVars, tc, maddr, cntr, rxVars, len, old, linkVars,
                 accepted, delivered, out>>

(* The slot becomes part of the ring; tx_remainBuffNum-- loads, then stores. *)
Publish ==
  /\ pc = "publish"
  /\ txLen' = [txLen EXCEPT ![txWrite] = len]
  /\ txWrite' = After(txWrite)
  /\ old' = remain
  /\ pc' = "take"
  /\ UNCHANGED <<txBuf, txRead, remain, state, dmaVars, rxVars, len, linkVars, txHist>>

TakeSlot ==
  /\ pc = "take"
  /\ remain' = old - 1
  /\ pc' = "unlock"
  /\ UNCHANGED <<txBuf, txLen, txRead, txWrite, state, dmaVars, rxVars, len, old,
                 linkVars, txHist>>

UnlockNothing ==
  /\ pc = "unlock"
  /\ len' = 0 /\ old' = 0 /\ pc' = "ethTx"
  /\ UNCHANGED <<ringVars, dmaVars, rxVars, linkVars, txHist>>
Unlock ==
  /\ pc = "unlock"
  /\ tcie' = TRUE
  /\ len' = 0 /\ old' = 0 /\ pc' = "ethTx"
  /\ UNCHANGED <<ringVars, en, tc, maddr, cntr, rxVars, linkVars, txHist>>
----------------------------------------------------------------------------
(***************************************************************************)
(* uartTx, called by ETHRx (ethTx) and by the main loop (mainTx).  MADDR   *)
(* and CNTR cannot be written while the channel is enabled.                *)
(***************************************************************************)
TxDone == IF pc \in {"ethTx", "ethEnable"} THEN "events" ELSE "poll"

TxIdle ==
  /\ pc \in {"ethTx", "mainTx"}
  /\ state = "BUSY" \/ remain = Num
  /\ pc' = TxDone
  /\ UNCHANGED <<ringVars, dmaVars, rxVars, len, old, linkVars, txHist>>

TxProgramAtWrite ==
  /\ pc \in {"ethTx", "mainTx"}
  /\ state = "IDLE" /\ remain < Num
  /\ \/ ~en /\ maddr' = txWrite /\ cntr' = txLen[txRead]
     \/ en /\ UNCHANGED <<maddr, cntr>>
  /\ state' = "BUSY"
  /\ pc' = IF pc = "ethTx" THEN "ethEnable" ELSE "mainEnable"
  /\ UNCHANGED <<txBuf, txLen, txRead, txWrite, remain, en, tcie, tc, rxVars,
                 len, old, linkVars, txHist>>
TxProgram ==
  /\ pc \in {"ethTx", "mainTx"}
  /\ state = "IDLE" /\ remain < Num
  /\ \/ ~en /\ maddr' = txRead /\ cntr' = txLen[txRead]
     \/ en /\ UNCHANGED <<maddr, cntr>>
  /\ state' = "BUSY"
  /\ pc' = IF pc = "ethTx" THEN "ethEnable" ELSE "mainEnable"
  /\ UNCHANGED <<txBuf, txLen, txRead, txWrite, remain, en, tcie, tc, rxVars,
                 len, old, linkVars, txHist>>

TxEnable ==
  /\ pc \in {"ethEnable", "mainEnable"}
  /\ en' = TRUE
  /\ pc' = TxDone
  /\ UNCHANGED <<ringVars, tcie, tc, maddr, cntr, rxVars, len, old, linkVars, txHist>>
----------------------------------------------------------------------------
(***************************************************************************)
(* WCHNET_HandleSockInt, after RECV: CONNECT, and DISCONNECT or TIM_OUT,   *)
(* after which a new socket is created, or is not.                         *)
(***************************************************************************)
SockEvents ==
  /\ pc = "events"
  /\ \/ UNCHANGED linkVars
     \/ sock /\ ~valid /\ valid' = TRUE /\ UNCHANGED sock
     \/ sock /\ valid' = FALSE /\ sock' \in BOOLEAN
  /\ pc' = IF valid' THEN "mainTx" ELSE "head"
  /\ UNCHANGED <<ringVars, dmaVars, rxVars, len, old, txHist>>
----------------------------------------------------------------------------
(***************************************************************************)
(* uartRxAndSendDataToETH.                                                 *)
(***************************************************************************)

(* The bytes up to the DMA, or up to the end of the buffer. *)
ToSendPastEnd == IF count < last THEN last - count ELSE last - count + Size
ToSend        == IF count < last THEN last - count ELSE last

RxPoll ==
  /\ pc = "poll"
  /\ \/ count # last /\ len' = ToSend /\ pc' = "send"
     \/ count = last /\ UNCHANGED len /\ pc' = "head"
  /\ UNCHANGED <<ringVars, dmaVars, rxVars, old, linkVars, txHist>>

RxSendNoWrap(k) ==
  /\ pc = "send" /\ k \in 0 .. len
  /\ sent' = sent + k
  /\ last' = last - k
  /\ len' = 0 /\ pc' = "head"
  /\ UNCHANGED <<ringVars, dmaVars, rxBuf, count, rcvd, overrun, old, linkVars, txHist>>
(* WCHNET_SocketSend accepts k of the len bytes, none if it fails. *)
RxSend(k) ==
  /\ pc = "send" /\ k \in 0 .. len
  /\ sent' = sent + k
  /\ last' = IF last = k THEN Size ELSE last - k
  /\ len' = 0 /\ pc' = "head"
  /\ UNCHANGED <<ringVars, dmaVars, rxBuf, count, rcvd, overrun, old, linkVars, txHist>>
----------------------------------------------------------------------------
EthRx    == RecvPacket \/ NoPacket \/ LockLoad \/ LockStore \/ Publish \/ TakeSlot \/ Unlock
UartTx   == TxIdle \/ TxProgram \/ TxEnable
Rx       == RxPoll \/ \E k \in 0 .. Size : RxSend(k)
MainLoop == EthRx \/ UartTx \/ SockEvents \/ Rx

Next == DmaByte \/ DmaRx \/ TcIsr \/ MainLoop

(* The socket does not refuse bytes for ever; nothing else is asked of it. *)
Fairness ==
  /\ WF_vars(DmaByte) /\ WF_vars(TcIsr) /\ WF_vars(MainLoop)
  /\ SF_vars(\E k \in 1 .. Size : RxSend(k))

Spec == Init /\ [][Next]_vars /\ Fairness
----------------------------------------------------------------------------
Packets == [num : 0 .. MaxPackets, len : 0 .. MaxLen]

TypeOK ==
  /\ txBuf \in [Slots -> Packets] /\ txLen \in [Slots -> 0 .. MaxLen]
  /\ txRead \in Slots /\ txWrite \in Slots /\ maddr \in Slots
  /\ remain \in 0 .. Num /\ state \in {"IDLE", "BUSY"}
  /\ en \in BOOLEAN /\ tcie \in BOOLEAN /\ tc \in BOOLEAN
  /\ valid \in BOOLEAN /\ sock \in BOOLEAN /\ torn \in BOOLEAN /\ overrun \in BOOLEAN
  /\ cntr \in 0 .. MaxLen /\ out \in 0 .. MaxLen
  /\ rxBuf \in [0 .. Size - 1 -> Nat]
  /\ count \in 1 .. Size /\ last \in 1 .. Size
  /\ pc \in {"head", "lockLoad", "lockStore", "publish", "take", "unlock", "ethTx",
             "ethEnable", "events", "mainTx", "mainEnable", "poll", "send"}
  /\ len \in Nat /\ old \in Nat
  /\ rcvd \in 0 .. MaxBytes /\ sent \in Nat
  /\ accepted \in 0 .. MaxPackets /\ delivered \in 0 .. MaxPackets

(***************************************************************************)
(* Whenever channel 7 can move a byte, it is the next byte of the oldest   *)
(* packet not sent, and CNTR ends with the packet: over the wrap of the    *)
(* ring, stores into the other slots, and interrupts held off or striking  *)
(* inside the store of CFGR (Main.c:153-166, 186-201).                     *)
(***************************************************************************)
DmaSendsNextByte ==
  (en /\ cntr > 0) =>
    /\ txBuf[maddr] = [num |-> delivered + 1, len |-> cntr + out]
    /\ state = "BUSY" /\ maddr = txRead

(***************************************************************************)
(* As long as the DMA has not lapped the firmware, what is handed to the   *)
(* socket is exactly the bytes that follow those it has accepted, however  *)
(* few it accepts at a time and wherever the buffer ends (Main.c:121-143). *)
(***************************************************************************)
SocketGetsNextBytes ==
  (pc = "send" /\ ~overrun) =>
    /\ len <= rcvd - sent /\ len <= last
    /\ \A i \in 1 .. len : rxBuf[Size - last + i - 1] = sent + i

(***************************************************************************)
(* The ring is a queue: tx_read, tx_write and tx_remainBuffNum, changed by *)
(* the main loop and by the interrupt, keep the packets in order, lose     *)
(* none, repeat none and overwrite none.  A packet leaves with its last    *)
(* byte, not with its interrupt.                                           *)
(***************************************************************************)
SentNotFreed == IF tc THEN 1 ELSE 0
SlotFrom(s, i) == IF s + i >= Num THEN s + i - Num ELSE s + i
SlotAt(i)    == SlotFrom(txRead, i)
InRing       == [i \in 1 .. Num - remain - SentNotFreed |->
                   txBuf[SlotAt(i - 1 + SentNotFreed)]]

Pipe == INSTANCE PacketPipe WITH Capacity <- Num, Lengths <- 1 .. MaxLen, waiting <- InRing

IsPipe == Pipe!Spec

(* The connection comes up in the end and stays up. *)
StaysUp == <>[]valid

(***************************************************************************)
(* Every packet taken from the socket reaches the UART once the connection *)
(* holds: no interrupt, lock or BUSY is left that nothing clears.  The one *)
(* exception is a torn store of CFGR, which leaves the channel enabled.    *)
(***************************************************************************)
BacklogDrains ==
  StaysUp => (accepted > delivered ~> (accepted = delivered \/ torn))

(***************************************************************************)
(* Every byte the UART receives reaches the socket once the connection     *)
(* holds, unless a whole buffer of them was received first.                *)
(***************************************************************************)
BytesReachSocket == StaysUp => (rcvd > sent ~> (rcvd = sent \/ overrun))
============================================================================
