------------------------------ MODULE BleUart ------------------------------
(***************************************************************************)
(* The UART to BLE direction of the BLE bridge (BLE_UART): a byte FIFO     *)
(* with free-running 16-bit counters, filled by the USART3 interrupt and   *)
(* by the callback that echoes what the peer writes, and emptied by the    *)
(* event UART_TO_BLE_SEND_EVT, which notifies the peer and tries again     *)
(* until the stack has taken the packet.                                   *)
(*                                                                         *)
(* Actors: the interrupt (UartRx), the peer and the stack (Link), and the  *)
(* main loop (the rest), cut where the interrupt can strike.  The bytes    *)
(* the FIFO accepts are numbered from 1; byte 0 is one whose number a race *)
(* of the two producers has blurred.  pushed, popped, sent, got and raced  *)
(* are history variables.                                                  *)
(***************************************************************************)
EXTENDS Integers, Sequences

CONSTANTS
  Size,      \* APP_UART_RX_BUFFER_LENGTH
  W16,       \* values of a uint16_t, on the scale of Size
  Payload,   \* ATT_GetMTU - 3
  Patience,  \* the 10 of uart_to_ble_send_evt_cnt > 10
  MaxBytes   \* model bound: bytes offered to the FIFO

ASSUME SizesAssumption ==
  /\ {Size, W16, Payload, Patience, MaxBytes} \subseteq Nat
  /\ 0 < Payload /\ Payload <= Size /\ 2 * Size < W16 /\ W16 % Size = 0

VARIABLES
  data,      \* app_uart_rx_buffer
  begin,     \* app_uart_rx_fifo.begin
  end,       \* app_uart_rx_fifo.end
  rxFlag,    \* uart_rx_flag
  evt,       \* UART_TO_BLE_SEND_EVT is started or set
  cnt,       \* uart_to_ble_send_evt_cnt
  failed,    \* send_to_ble_state is ALLOC_FAILED or SEND_FAILED
  note,      \* to_test_buffer, while its packet is not sent
  conn,      \* peripheralConnList.connHandle is that of a connection
  notify,    \* the peer has enabled notifications in the CCCD
  pc,        \* where the main loop stands
  left,      \* bytes app_drv_fifo_write still has to push
  old,       \* fifo->end, between its load and its store
  pushed,    \* bytes the FIFO has accepted
  popped,    \* bytes taken out of it, or flushed
  sent,      \* the last packet the peer was notified
  got,       \* the number all such bytes have, and those flushed, at most
  raced      \* the two producers have met since the FIFO was last empty

fifoVars == <<data, begin, end>>
sendVars == <<evt, cnt, failed, note>>
linkVars == <<conn, notify>>
loopVars == <<pc, left, old>>
histVars == <<pushed, popped, sent, got, raced>>
vars     == <<fifoVars, rxFlag, sendVars, linkVars, loopVars, histVars>>

Length == (end - begin + W16) % W16
Room   == (Size - Length + W16) % W16
Ready  == conn /\ notify

Smaller(a, b) == IF a < b THEN a ELSE b

Init ==
  /\ data = [c \in 0 .. Size - 1 |-> 0] /\ begin = 0 /\ end = 0
  /\ rxFlag = FALSE /\ evt = FALSE /\ cnt = 0 /\ failed = FALSE /\ note = <<>>
  /\ conn = FALSE /\ notify = FALSE
  /\ pc = "idle" /\ left = 0 /\ old = 0
  /\ pushed = 0 /\ popped = 0 /\ sent = <<>> /\ got = 0 /\ raced = FALSE
----------------------------------------------------------------------------
(***************************************************************************)
(* USART3_IRQHandler: app_drv_fifo_write_from_same_addr of one byte, which *)
(* a full FIFO refuses.  It races with app_drv_fifo_write if that one is   *)
(* about to store end, or has counted on the room now taken.  Past its     *)
(* size the FIFO refuses nothing, until end has come round to begin.       *)
(***************************************************************************)
Meets     == pc = "store" \/ (pc = "next" /\ left >= Room)
CameRound == raced /\ end' = begin /\ pc' = "idle"

(* With the FIFO empty the damage is over. *)
Settle(blurred) ==
  /\ raced' = (blurred /\ ~CameRound)
  /\ popped' = IF CameRound THEN pushed' ELSE popped
  /\ got' = IF CameRound /\ ~failed THEN pushed' ELSE got

UartRx ==
  /\ pushed + left < MaxBytes
  /\ UNCHANGED loopVars
  /\ \/ /\ Room # 0
        /\ data' = [data EXCEPT ![end % Size] = IF raced \/ Meets THEN 0 ELSE pushed + 1]
        /\ end' = (end + 1) % W16
        /\ pushed' = pushed + 1
        /\ Settle(raced \/ Meets)
     \/ /\ Room = 0
        /\ UNCHANGED <<data, end, pushed, raced, popped, got>>
  /\ rxFlag' = TRUE
  /\ UNCHANGED <<begin, sendVars, linkVars, sent>>

(***************************************************************************)
(* Peripheral_LinkEstablished, a write of the CCCD, and                    *)
(* Peripheral_LinkTerminated with the reset of the CCCD.                   *)
(***************************************************************************)
Link ==
  /\ pc = "idle"
  /\ \/ ~conn /\ conn' = TRUE /\ UNCHANGED notify
     \/ conn /\ notify' = ~notify /\ UNCHANGED conn
     \/ conn /\ conn' = FALSE /\ notify' = FALSE
  /\ UNCHANGED <<fifoVars, rxFlag, sendVars, loopVars, histVars>>
----------------------------------------------------------------------------
(***************************************************************************)
(* on_bleuartServiceEvt, BLE_UART_EVT_BLE_DATA_RECEIVED: the n bytes the   *)
(* peer has written go to app_uart_rx_fifo, as many as there is room for.  *)
(***************************************************************************)
EchoAllOfThem(n) ==
  /\ pc = "idle" /\ conn
  /\ pushed + n <= MaxBytes
  /\ left' = n
  /\ pc' = "next"
  /\ UNCHANGED <<fifoVars, rxFlag, sendVars, linkVars, old, histVars>>
Echo(n) ==
  /\ pc = "idle" /\ conn
  /\ pushed + n <= MaxBytes
  /\ left' = Smaller(n, Room)
  /\ pc' = "next"
  /\ UNCHANGED <<fifoVars, rxFlag, sendVars, linkVars, old, histVars>>

(* The byte is stored in its cell, and end++ ... *)
EchoByte ==
  /\ pc = "next" /\ left > 0
  /\ data' = [data EXCEPT ![end % Size] = IF raced THEN 0 ELSE pushed + 1]
  /\ old' = end
  /\ pc' = "store"
  /\ UNCHANGED <<begin, end, rxFlag, sendVars, linkVars, left, histVars>>

(* ... loads end before the interrupt's push, or after it. *)
EchoEnd ==
  /\ pc = "store"
  /\ end' \in {(old + 1) % W16, (end + 1) % W16}
  /\ pushed' = pushed + 1
  /\ left' = left - 1 /\ old' = 0
  /\ pc' = "next"
  /\ UNCHANGED <<data, begin, rxFlag, sendVars, linkVars, popped, sent, got, raced>>

EchoDone ==
  /\ pc = "next" /\ left = 0
  /\ evt' = TRUE
  /\ pc' = "idle"
  /\ UNCHANGED <<fifoVars, rxFlag, cnt, failed, note, linkVars, left, old, pushed, sent>>
  /\ Settle(raced)
----------------------------------------------------------------------------
(* app_uart_process; it looks at the flag with interrupts disabled. *)
AppProcess ==
  /\ pc = "idle" /\ rxFlag
  /\ evt' = TRUE /\ rxFlag' = FALSE
  /\ UNCHANGED <<fifoVars, cnt, failed, note, linkVars, loopVars, histVars>>
----------------------------------------------------------------------------
(***************************************************************************)
(* Peripheral_ProcessEvent, UART_TO_BLE_SEND_EVT, by its branches.         *)
(***************************************************************************)

(* Not enabled: nothing is sent; without a connection the FIFO is flushed. *)
NotReady ==
  /\ pc = "idle" /\ evt /\ ~failed /\ ~Ready
  /\ evt' = FALSE
  /\ \/ ~conn /\ begin' = 0 /\ pc' = "flush"
     \/ conn /\ UNCHANGED <<begin, pc>>
  /\ UNCHANGED <<data, end, rxFlag, cnt, failed, note, linkVars, left, old, histVars>>

(* The second store of app_drv_fifo_flush. *)
FlushEnd ==
  /\ pc = "flush"
  /\ end' = 0
  /\ popped' = pushed /\ got' = pushed /\ raced' = FALSE
  /\ pc' = "idle"
  /\ UNCHANGED <<data, begin, rxFlag, sendVars, linkVars, left, old, pushed, sent>>

(* Less than a packet: wait for more, at most Patience times and once. *)
WaitNoRestart ==
  /\ pc = "idle" /\ evt /\ ~failed /\ Ready
  /\ Length < Payload /\ cnt <= Patience
  /\ cnt' = cnt + 1 /\ evt' = FALSE
  /\ UNCHANGED <<fifoVars, rxFlag, failed, note, linkVars, loopVars, histVars>>
Wait ==
  /\ pc = "idle" /\ evt /\ ~failed /\ Ready
  /\ Length < Payload /\ cnt <= Patience
  /\ cnt' = cnt + 1 /\ evt' = TRUE
  /\ UNCHANGED <<fifoVars, rxFlag, failed, note, linkVars, loopVars, histVars>>

ReadsNothing ==
  /\ pc = "idle" /\ evt /\ ~failed /\ Ready
  /\ Length = 0 /\ cnt > Patience
  /\ cnt' = 0 /\ evt' = FALSE
  /\ UNCHANGED <<fifoVars, rxFlag, failed, note, linkVars, loopVars, histVars>>

(* GATT_bm_alloc and ble_uart_notify: the stack takes the packet or not. *)
OfferAndForget(packet, ok) ==
  /\ evt' = TRUE
  /\ failed' = FALSE /\ note' = <<>>
  /\ \/ ok /\ Ready /\ sent' = packet
     \/ ~ok /\ UNCHANGED sent
Offer(packet, ok) ==
  /\ evt' = TRUE
  /\ \/ ok /\ Ready /\ failed' = FALSE /\ note' = <<>> /\ sent' = packet
     \/ ~ok /\ failed' = TRUE /\ note' = packet /\ UNCHANGED sent

(* What app_drv_fifo_read copies, and the number of the last byte taken. *)
ReadLenFull == Payload
ReadLen     == Smaller(Payload, Length)
Bytes ==
  [i \in 1 .. ReadLen |-> IF raced THEN 0 ELSE data[(begin + i - 1) % Size]]

SendNew(ok) ==
  /\ pc = "idle" /\ evt /\ ~failed /\ Ready
  /\ Length >= Payload \/ (Length > 0 /\ cnt > Patience)
  /\ begin' = (begin + ReadLen) % W16 /\ cnt' = 0
  /\ raced' = (raced /\ begin' # end)
  /\ popped' = IF raced THEN pushed ELSE popped + ReadLen
  /\ Offer(Bytes, ok)
  /\ got' = IF ok \/ raced THEN popped' ELSE got
  /\ UNCHANGED <<data, end, rxFlag, linkVars, loopVars, pushed>>

SendAgain(ok) ==
  /\ pc = "idle" /\ evt /\ failed
  /\ Offer(note, ok)
  /\ got' = IF ok THEN popped ELSE got
  /\ UNCHANGED <<fifoVars, rxFlag, cnt, linkVars, loopVars, pushed, popped, raced>>
----------------------------------------------------------------------------
EchoSteps == (\E n \in 1 .. Size : Echo(n)) \/ EchoByte \/ EchoEnd \/ EchoDone
SendEvt   == \/ NotReady \/ FlushEnd \/ Wait \/ ReadsNothing
             \/ \E ok \in BOOLEAN : SendNew(ok) \/ SendAgain(ok)

Next == UartRx \/ Link \/ EchoSteps \/ AppProcess \/ SendEvt

(* The stack does not refuse a packet for ever on a connection that holds. *)
Fairness ==
  /\ WF_vars(EchoByte \/ EchoEnd \/ EchoDone)
  /\ WF_vars(AppProcess) /\ WF_vars(SendEvt)
  /\ SF_vars(SendNew(TRUE) \/ SendAgain(TRUE))

Spec == Init /\ [][Next]_vars /\ Fairness
----------------------------------------------------------------------------
TypeOK ==
  /\ data \in [0 .. Size - 1 -> Nat]
  /\ {begin, end, old} \subseteq 0 .. W16 - 1
  /\ {rxFlag, evt, failed, conn, notify, raced} \subseteq BOOLEAN
  /\ cnt \in 0 .. Patience + 1
  /\ {note, sent} \subseteq Seq(Nat) /\ Len(note) <= Payload /\ Len(sent) <= Payload
  /\ notify => conn
  /\ failed <=> note # <<>>
  /\ pc \in {"idle", "next", "store", "flush"}
  /\ left \in 0 .. Size
  /\ {pushed, popped, got} \subseteq 0 .. MaxBytes

(***************************************************************************)
(* Unless its two producers have met, the FIFO holds the bytes it has      *)
(* accepted and not given back, each in its cell, never more than fit: over*)
(* the wrap of the 16-bit counters, a refusal, a flush that the interrupt  *)
(* splits, and writes cut by the interrupt (app_drv_fifo.c:45-170).        *)
(***************************************************************************)
FifoHoldsBacklog ==
  (~raced /\ pc # "flush") =>
    /\ Length = pushed - popped /\ Length <= Size
    /\ \A i \in 1 .. Length : data[(begin + i - 1) % Size] = popped + i

(***************************************************************************)
(* What the peer is notified is exactly the bytes that follow what it was  *)
(* notified before: a packet that the stack refuses, once or often, is     *)
(* sent neither twice nor after its successor, even when the connection is *)
(* lost in between (peripheral.c:352-437).                                 *)
(***************************************************************************)
NotifiesNextBytes ==
  [][sent' # sent => \/ \A i \in DOMAIN sent' : sent'[i] = 0
                     \/ sent' = [i \in 1 .. Len(sent') |-> got + i]]_vars

(***************************************************************************)
(* Once a byte has arrived or been refused by the stack, all that is in    *)
(* the FIFO leaves it, a rest shorter than a packet too, while the peer    *)
(* keeps notifications enabled: no wakeup is lost between the interrupt,   *)
(* the flag and the event (app_uart.c:95-101, peripheral.c:367).           *)
(***************************************************************************)
Awake == rxFlag \/ evt

BytesLeave ==
  (Ready /\ Awake /\ Length > 0) ~> (~Ready \/ (Length = 0 /\ ~failed))

(***************************************************************************)
(* The damage of a race ends: whatever it has done to the counters, the    *)
(* next time the FIFO is drained it is in order again.                     *)
(***************************************************************************)
RaceHeals == (Ready /\ Awake /\ raced) ~> (~Ready \/ ~raced)
============================================================================
