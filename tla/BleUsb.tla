------------------------------- MODULE BleUsb -------------------------------
(***************************************************************************)
(* The BLE to USB bridge (BLE_USB): what the host writes to endpoint 2     *)
(* goes through the ring RingMemUSB to the BLE peer as notifications, what *)
(* the peer writes goes through RingMemBLE to endpoint 2 IN.  Every        *)
(* operation on a ring runs with interrupts disabled, and one that refuses *)
(* returns with interrupts still disabled.                                 *)
(*                                                                         *)
(* Actors: the USB host (Host...), the interrupt of the USB device         *)
(* (Isr...), the peer (Link, BleWrite), and the event loop of TMOS (the    *)
(* rest), cut where the interrupt can strike.  The bytes a ring accepts    *)
(* are numbered from 1; byte 0 is one of an uninitialised buffer.          *)
(***************************************************************************)
EXTENDS Integers, Sequences

CONSTANTS
  Size,       \* 2048, the size of either ring
  OutMax,     \* 64, the longest packet of endpoint 2 OUT
  InMax,      \* the longest write of the peer, 512 at most
  Load,       \* 32, the longest packet of endpoint 2 IN
  MinMtu,     \* ATT_MTU_SIZE - 3
  MaxMtu,     \* the largest peripheralMTU - 3
  ByteRange,  \* 256, the range of the uint8_t that app_usb_notify takes
  MaxOut,     \* model bound: bytes the host writes
  MaxIn,      \* model bound: bytes the peer writes
  MaxFaults   \* model bound: lost handshakes, resets, cleared endpoints

ASSUME SizesAssumption ==
  /\ {Size, OutMax, InMax, Load, MinMtu, MaxMtu, ByteRange, MaxOut, MaxIn, MaxFaults}
       \subseteq Nat
  /\ 0 < MinMtu /\ MinMtu <= MaxMtu /\ 0 < ByteRange
  /\ OutMax \in 1 .. Size /\ InMax \in 1 .. Size /\ Load \in 1 .. Size

VARIABLES
  usb, ble,   \* RingMemUSB and RingMemBLE
  irqOn,      \* PRIMASK is clear
  pend,       \* the transfer whose interrupt waits: "none", "out" or "in"
  out,        \* the packet of that "out": its length and its toggle
  rxTog,      \* USBFS_UEP_R_TOG of UEP2_RX_CTRL
  tx,         \* UEP2_TX_CTRL: its response and its toggle
  epBuf,      \* pEP2_IN_DataBuf
  epLen,      \* UEP2_TX_LEN
  hostOut,    \* the toggle of the host's next packet
  hostIn,     \* the toggle the host expects
  again,      \* length of the packet whose handshake the host missed, or 0
  faults,
  usbEvt, usbTimer,   \* SBP_PROCESS_USBDATA_EVT is set, is started
  bleEvt, bleTimer,   \* SBP_PROCESS_BLEDATA_EVT is set, is started
  link,       \* "down", "up", or "ready": the peer takes notifications
  mtu,        \* peripheralMTU - 3
  pc,         \* where the event loop stands
  rest,       \* it is in the branch that takes RingMemUSB.CurrentLen
  buf,        \* buf, while the loop's body runs
  ctrl,       \* the toggle loaded by DevEP2_IN_Deal, while that runs
  begun, taken,       \* packets the host has begun, the device dealt with
  offered,            \* bytes the host has begun to write
  pushed, popped,     \* bytes accepted by, and removed from, RingMemUSB
  sent,               \* the last notification of this pass
  raced,              \* a packet was accepted in the midst of this pass
  written, loaded,    \* bytes accepted by, and read from, RingMemBLE
  packet,             \* what was loaded last
  got,                \* the last byte the host has got
  disturbed           \* a packet was loaded over one that waits, or amid a reset

hostVars == <<pend, out, hostOut, hostIn, again, faults>>
inVars   == <<tx, epBuf, epLen, ctrl>>
evtVars  == <<usbEvt, usbTimer, bleEvt, bleTimer>>
linkVars == <<link, mtu>>
passVars == <<rest, buf>>
outHist  == <<begun, taken, offered, pushed, popped, sent, raced>>
inHist   == <<written, loaded, packet, got, disturbed>>
vars     == <<usb, ble, irqOn, rxTog, hostVars, inVars, evtVars, linkVars,
              pc, passVars, outHist, inHist>>

Smaller(a, b) == IF a < b THEN a ELSE b
Bytes(n, k)   == [i \in 1 .. k |-> n + i]
NoPacket      == [len |-> 0, tog |-> 0]
----------------------------------------------------------------------------
(***************************************************************************)
(* The ring.  A pointer ranges over 0 .. Size: one that stops at the edge  *)
(* is not wrapped before it is next moved.                                 *)
(***************************************************************************)
NewRing == [mem |-> [c \in 0 .. Size - 1 |-> 0], w |-> 0, r |-> 0,
            room |-> Size, count |-> 0]

Moved(p, n) == IF n > Size - p THEN n - (Size - p) ELSE p + n
CellPastFirst(p, i) == IF i > Size - p THEN i - (Size - p) ELSE p + i - 1
Cell(p, i)          == IF i > Size - p THEN i - (Size - p) - 1 ELSE p + i - 1

Written(ring, bytes) ==
  LET n == Len(bytes)
      Lands(c) == {i \in 1 .. n : Cell(ring.w, i) = c}
  IN  [ring EXCEPT
        !.mem = [c \in DOMAIN @ |->
                   IF Lands(c) = {} THEN @[c] ELSE bytes[CHOOSE i \in Lands(c) : TRUE]],
        !.w = Moved(@, n), !.room = @ - n, !.count = @ + n]
Front(ring, n)   == [i \in 1 .. n |-> ring.mem[Cell(ring.r, i)]]
Deleted(ring, n) ==
  [ring EXCEPT !.r = Moved(@, n), !.room = @ + n, !.count = @ - n]

Init ==
  /\ usb = NewRing /\ ble = NewRing /\ irqOn = TRUE
  /\ pend = "none" /\ out = NoPacket /\ rxTog = 0
  /\ tx = [res |-> "nak", tog |-> 0] /\ epBuf = [i \in 1 .. Load |-> 0] /\ epLen = 0
  /\ ctrl = 0 /\ hostOut = 0 /\ hostIn = 0 /\ again = 0 /\ faults = 0
  /\ usbEvt = FALSE /\ usbTimer = FALSE /\ bleEvt = FALSE /\ bleTimer = FALSE
  /\ link = "down" /\ mtu = MinMtu /\ pc = "idle" /\ rest = FALSE /\ buf = <<>>
  /\ begun = 0 /\ taken = 0 /\ offered = 0
  /\ pushed = 0 /\ popped = 0 /\ sent = <<>> /\ raced = FALSE
  /\ written = 0 /\ loaded = 0 /\ packet = <<>> /\ got = 0 /\ disturbed = FALSE
----------------------------------------------------------------------------
(***************************************************************************)
(* The USB host.  While an interrupt waits the controller answers NAK.     *)
(***************************************************************************)

(* A packet of n bytes; the host hears the handshake, or writes it again. *)
HostOut(n, heard) ==
  /\ pend = "none" /\ again \in {0, n}
  /\ again = n \/ offered + n <= MaxOut
  /\ heard \/ faults < MaxFaults
  /\ pend' = "out" /\ out' = [len |-> n, tog |-> hostOut]
  /\ hostOut' = IF heard THEN 1 - hostOut ELSE hostOut
  /\ again' = IF heard THEN 0 ELSE n
  /\ faults' = IF heard THEN faults ELSE faults + 1
  /\ begun' = IF again = 0 THEN begun + 1 ELSE begun
  /\ offered' = IF again = 0 THEN offered + n ELSE offered
  /\ UNCHANGED <<usb, ble, irqOn, rxTog, inVars, evtVars, linkVars, pc, passVars,
                 hostIn, taken, pushed, popped, sent, raced, inHist>>

(* The host reads endpoint 2, and takes a packet of the toggle it expects. *)
HostIn(heard) ==
  /\ pend = "none" /\ tx.res = "ack"
  /\ heard \/ faults < MaxFaults
  /\ pend' = IF heard THEN "in" ELSE "none"
  /\ faults' = IF heard THEN faults ELSE faults + 1
  /\ hostIn' = 1 - tx.tog
  /\ got' = IF tx.tog = hostIn /\ epLen > 0 THEN epBuf[epLen] ELSE got
  /\ UNCHANGED <<usb, ble, irqOn, rxTog, inVars, evtVars, linkVars, pc, passVars,
                 out, hostOut, again, outHist, written, loaded, packet, disturbed>>
----------------------------------------------------------------------------
(***************************************************************************)
(* USBFS_IRQHandler.                                                       *)
(***************************************************************************)

(* Endpoint 2 OUT: DevEP2_OUT_Deal, unless the packet is a repeated one. *)
IsrOutBlind ==
  /\ irqOn /\ pend = "out"
  /\ pend' = "none" /\ out' = NoPacket /\ rxTog' = 1 - rxTog /\ usbEvt' = TRUE
  /\ taken' = taken + 1
  /\ \/ /\ out.len <= usb.room
        /\ usb' = Written(usb, Bytes(pushed, out.len)) /\ irqOn' = TRUE
        /\ pushed' = pushed + out.len
        /\ raced' = (raced \/ (pc \in {"copy", "notify", "delete"} /\ rest))
     \/ /\ out.len > usb.room
        /\ irqOn' = FALSE
        /\ UNCHANGED <<usb, pushed, raced>>
  /\ UNCHANGED <<ble, inVars, usbTimer, bleEvt, bleTimer, linkVars, pc, passVars,
                 hostOut, hostIn, again, faults, begun, offered, popped, sent, inHist>>
IsrOut == out.tog = rxTog /\ IsrOutBlind

IsrOutAgain ==
  /\ irqOn /\ pend = "out" /\ out.tog # rxTog
  /\ pend' = "none" /\ out' = NoPacket
  /\ UNCHANGED <<usb, ble, irqOn, rxTog, inVars, evtVars, linkVars, pc, passVars,
                 hostOut, hostIn, again, faults, outHist, inHist>>

IsrInSameToggle ==
  /\ irqOn /\ pend = "in"
  /\ pend' = "none"
  /\ tx' = [tx EXCEPT !.res = "nak"]
  /\ UNCHANGED <<usb, ble, irqOn, rxTog, epBuf, epLen, ctrl, evtVars, linkVars, pc,
                 passVars, out, hostOut, hostIn, again, faults, outHist, inHist>>
IsrIn ==
  /\ irqOn /\ pend = "in"
  /\ pend' = "none"
  /\ tx' = [res |-> "nak", tog |-> 1 - tx.tog]
  /\ UNCHANGED <<usb, ble, irqOn, rxTog, epBuf, epLen, ctrl, evtVars, linkVars, pc,
                 passVars, out, hostOut, hostIn, again, faults, outHist, inHist>>

(* A bus reset, or CLEAR_FEATURE of either half of endpoint 2. *)
Reset(ofOut, ofIn) ==
  /\ irqOn /\ pend = "none" /\ faults < MaxFaults /\ (ofOut \/ ofIn)
  /\ faults' = faults + 1
  /\ \/ ofOut /\ rxTog' = 0 /\ hostOut' = 0 /\ again' = 0
     \/ ~ofOut /\ UNCHANGED <<rxTog, hostOut, again>>
  /\ \/ /\ ofIn
        /\ tx' = [res |-> "nak", tog |-> 0] /\ hostIn' = 0
        /\ disturbed' = (pc \in {"len", "ctrl", "store"})
        /\ got' = loaded
     \/ ~ofIn /\ UNCHANGED <<tx, hostIn, disturbed, got>>
  /\ UNCHANGED <<usb, ble, irqOn, epBuf, epLen, ctrl, evtVars, linkVars, pc, passVars,
                 pend, out, outHist, written, loaded, packet>>
----------------------------------------------------------------------------
(***************************************************************************)
(* Peripheral_LinkEstablished, a write of the CCCD, ATT_MTU_UPDATED_EVENT, *)
(* Peripheral_LinkTerminated with the reset of the CCCD.                   *)
(***************************************************************************)
Link ==
  /\ pc = "idle"
  /\ \/ link = "down" /\ link' = "up" /\ mtu' = MinMtu
     \/ link = "up" /\ link' = "ready" /\ UNCHANGED mtu
     \/ link = "ready" /\ link' = "up" /\ UNCHANGED mtu
     \/ link # "down" /\ link' = "down" /\ UNCHANGED mtu
     \/ link # "down" /\ mtu' \in MinMtu .. MaxMtu /\ UNCHANGED link
  /\ UNCHANGED <<usb, ble, irqOn, rxTog, hostVars, inVars, evtVars, pc, passVars,
                 outHist, inHist>>

(* ble_usb_ServiceEvt: the n bytes the peer has written. *)
BleWrite(n) ==
  /\ pc = "idle" /\ link # "down"
  /\ \/ /\ n <= ble.room /\ written + n <= MaxIn
        /\ ble' = Written(ble, Bytes(written, n)) /\ irqOn' = TRUE
        /\ written' = written + n
     \/ /\ n > ble.room
        /\ irqOn' = FALSE
        /\ UNCHANGED <<ble, written>>
  /\ bleEvt' = TRUE
  /\ UNCHANGED <<usb, rxTog, hostVars, inVars, usbEvt, usbTimer, bleTimer, linkVars, pc,
                 passVars, outHist, loaded, packet, got, disturbed>>
----------------------------------------------------------------------------
(***************************************************************************)
(* SBP_PROCESS_USBDATA_EVT.  RingMemUSB.CurrentLen is read anew by every   *)
(* line that names it.                                                     *)
(***************************************************************************)
UsbTimer ==
  /\ pc = "idle" /\ usbTimer
  /\ usbTimer' = FALSE /\ usbEvt' = TRUE
  /\ UNCHANGED <<usb, ble, irqOn, rxTog, hostVars, inVars, bleEvt, bleTimer, linkVars, pc,
                 passVars, outHist, inHist>>

UsbEvent ==
  /\ pc = "idle" /\ usbEvt
  /\ usbEvt' = FALSE /\ pc' = "head"
  /\ UNCHANGED <<usb, ble, irqOn, rxTog, hostVars, inVars, usbTimer, bleEvt, bleTimer,
                 linkVars, passVars, outHist, inHist>>

Test ==
  /\ pc = "head"
  /\ pc' = IF usb.count = 0 THEN "idle" ELSE "copy"
  /\ rest' = (usb.count <= mtu)
  /\ sent' = <<>> /\ raced' = FALSE
  /\ UNCHANGED <<usb, ble, irqOn, rxTog, hostVars, inVars, evtVars, linkVars, buf,
                 begun, taken, offered, pushed, popped, inHist>>

Length == IF rest THEN usb.count ELSE mtu

(* RingMemCopy; it may fill more than buf holds. *)
Copy ==
  /\ pc = "copy"
  /\ buf' = Front(usb, Length)
  /\ irqOn' = TRUE
  /\ pc' = "notify"
  /\ UNCHANGED <<usb, ble, rxTog, hostVars, inVars, evtVars, linkVars, rest,
                 outHist, inHist>>

(* app_usb_notify takes the length as a byte, RingMemDelete takes it whole. *)
InAByte == Length % ByteRange

(* app_usb_notify, when the stack takes the packet, one of no bytes too ... *)
Notified ==
  /\ pc = "notify" /\ link = "ready" /\ InAByte <= mtu
  /\ sent' = [i \in 1 .. InAByte |-> IF i \in DOMAIN buf THEN buf[i] ELSE 0]
  /\ pc' = "delete"
  /\ UNCHANGED <<usb, ble, irqOn, rxTog, hostVars, inVars, evtVars, linkVars, passVars,
                 begun, taken, offered, pushed, popped, raced, inHist>>

(* ... and when it does not. *)
Refused ==
  /\ pc = "notify"
  /\ usbTimer' = TRUE
  /\ pc' = "idle" /\ buf' = <<>>
  /\ UNCHANGED <<usb, ble, irqOn, rxTog, hostVars, inVars, usbEvt, bleEvt, bleTimer,
                 linkVars, rest, outHist, inHist>>

(* RingMemDelete *)
DeleteAll ==
  /\ pc = "delete"
  /\ usb' = Deleted(usb, usb.count) /\ popped' = popped + usb.count
  /\ irqOn' = TRUE
  /\ pc' = "head" /\ buf' = <<>>
  /\ UNCHANGED <<ble, rxTog, hostVars, inVars, evtVars, linkVars, rest,
                 begun, taken, offered, pushed, sent, raced, inHist>>
Delete ==
  /\ pc = "delete"
  /\ usb' = Deleted(usb, Length) /\ popped' = popped + Length
  /\ irqOn' = TRUE
  /\ pc' = "head" /\ buf' = <<>>
  /\ UNCHANGED <<ble, rxTog, hostVars, inVars, evtVars, linkVars, rest,
                 begun, taken, offered, pushed, sent, raced, inHist>>
----------------------------------------------------------------------------
(***************************************************************************)
(* SBP_PROCESS_BLEDATA_EVT, with USBSendData and DevEP2_IN_Deal.           *)
(***************************************************************************)
BleTimer ==
  /\ pc = "idle" /\ bleTimer
  /\ bleTimer' = FALSE /\ bleEvt' = TRUE
  /\ UNCHANGED <<usb, ble, irqOn, rxTog, hostVars, inVars, usbEvt, usbTimer, linkVars, pc,
                 passVars, outHist, inHist>>

(* UEP2_TX_CTRL & USBFS_UEP_T_RES_MASK == USBFS_UEP_T_RES_ACK: the mask is *)
(* compared with the response first, and UEP2_TX_CTRL & 0 is never true.   *)
EndpointBusyWhenAck == tx.res = "ack"
EndpointBusy        == FALSE

BleEvent ==
  /\ pc = "idle" /\ bleEvt
  /\ bleEvt' = FALSE
  /\ LET n == Smaller(ble.count, Load) IN
     \/ /\ ble.count > 0 /\ ~EndpointBusy
        /\ epBuf' = [i \in DOMAIN epBuf |-> IF i <= n THEN Front(ble, n)[i] ELSE epBuf[i]]
        /\ ble' = Deleted(ble, n) /\ irqOn' = TRUE
        /\ loaded' = loaded + n /\ packet' = Front(ble, n)
        /\ disturbed' = (disturbed \/ tx.res = "ack")
        /\ pc' = "len"
        /\ UNCHANGED bleTimer
     \/ /\ ble.count > 0 /\ EndpointBusy
        /\ bleTimer' = TRUE
        /\ UNCHANGED <<epBuf, ble, irqOn, loaded, packet, disturbed, pc>>
     \/ /\ ble.count = 0
        /\ UNCHANGED <<epBuf, ble, irqOn, loaded, packet, disturbed, pc, bleTimer>>
  /\ UNCHANGED <<usb, rxTog, hostVars, tx, epLen, ctrl, usbEvt, usbTimer, linkVars,
                 passVars, outHist, written, got>>

SetLen ==
  /\ pc = "len"
  /\ epLen' = Len(packet)
  /\ pc' = "ctrl"
  /\ UNCHANGED <<usb, ble, irqOn, rxTog, hostVars, tx, epBuf, ctrl, evtVars, linkVars,
                 passVars, outHist, inHist>>

(* The toggle is loaded, and stored with the response ACK. *)
LoadCtrl ==
  /\ pc = "ctrl"
  /\ ctrl' = tx.tog
  /\ pc' = "store"
  /\ UNCHANGED <<usb, ble, irqOn, rxTog, hostVars, tx, epBuf, epLen, evtVars, linkVars,
                 passVars, outHist, inHist>>
StoreCtrl ==
  /\ pc = "store"
  /\ tx' = [res |-> "ack", tog |-> ctrl]
  /\ bleTimer' = TRUE
  /\ pc' = "idle" /\ ctrl' = 0
  /\ UNCHANGED <<usb, ble, irqOn, rxTog, hostVars, epBuf, epLen, usbEvt, usbTimer,
                 bleEvt, linkVars, passVars, outHist, inHist>>
----------------------------------------------------------------------------
Host      == \/ \E n \in 1 .. OutMax, heard \in BOOLEAN : HostOut(n, heard)
             \/ \E heard \in BOOLEAN : HostIn(heard)
Isr       == IsrOut \/ IsrOutAgain \/ IsrIn
             \/ \E ofOut, ofIn \in BOOLEAN : Reset(ofOut, ofIn)
Peer      == Link \/ \E n \in 1 .. InMax : BleWrite(n)
UsbToBle  == UsbTimer \/ UsbEvent \/ Test \/ Copy \/ Notified \/ Refused \/ Delete
BleToUsb  == BleTimer \/ BleEvent \/ SetLen \/ LoadCtrl \/ StoreCtrl

Next == Host \/ Isr \/ Peer \/ UsbToBle \/ BleToUsb

(* The interrupt is served, the loop goes round, and the host polls.      *)
Fairness == /\ WF_vars(IsrOut \/ IsrOutAgain \/ IsrIn)
            /\ WF_vars(UsbToBle \/ BleToUsb)
            /\ SF_vars(HostIn(TRUE))

Spec == Init /\ [][Next]_vars /\ Fairness
----------------------------------------------------------------------------
Ring == [mem : [0 .. Size - 1 -> Nat], w : 0 .. Size, r : 0 .. Size,
         room : 0 .. Size, count : 0 .. Size]

(* The state stays within its types. *)
TypeOK ==
  /\ usb \in Ring /\ ble \in Ring
  /\ {irqOn, usbEvt, usbTimer, bleEvt, bleTimer, rest, raced, disturbed} \subseteq BOOLEAN
  /\ pend \in {"none", "out", "in"} /\ out \in [len : 0 .. OutMax, tog : 0 .. 1]
  /\ {rxTog, ctrl, hostOut, hostIn} \subseteq 0 .. 1
  /\ tx \in [res : {"ack", "nak"}, tog : 0 .. 1]
  /\ epBuf \in [1 .. Load -> Nat] /\ epLen \in 0 .. Load
  /\ link \in {"down", "up", "ready"} /\ mtu \in MinMtu .. MaxMtu
  /\ pc \in {"idle", "head", "copy", "notify", "delete", "len", "ctrl", "store"}

(***************************************************************************)
(* Either ring holds, from its read pointer on, exactly the bytes accepted *)
(* and not removed, oldest first, although pointers stop at the edge.      *)
(***************************************************************************)
RingsHoldBacklog ==
  /\ Front(usb, usb.count) = Bytes(popped, pushed - popped)
  /\ Front(ble, ble.count) = Bytes(loaded, written - loaded)
  /\ usb.room = Size - usb.count /\ ble.room = Size - ble.count

(***************************************************************************)
(* A notification carries the oldest bytes of the ring, and what is then   *)
(* deleted is what was notified, whatever the interrupt adds: all of it as *)
(* long as a payload is counted by a byte.  With a larger MTU the length   *)
(* is cut to one, and the rest of the payload is deleted unsent.  No such  *)
(* promise for a pass that sends the rest while a packet is accepted.      *)
(***************************************************************************)
PeerGetsNextBytes ==
  [][/\ sent' \notin {sent, <<>>} => raced \/ sent' = Bytes(popped, Len(sent'))
     /\ popped' # popped =>
          \/ raced
          \/ popped' = popped + Len(sent)
          \/ mtu >= ByteRange /\ Len(sent) = (popped' - popped) % ByteRange]_vars

(***************************************************************************)
(* Every packet the host begins is dealt with once, however often it must  *)
(* be written again because a handshake was lost.                          *)
(***************************************************************************)
DealtWithOnce ==
  begun - taken = IF pend = "out" /\ out.tog = rxTog THEN 1 ELSE 0

(***************************************************************************)
(* What endpoint 2 offers the host next is the next of the peer's bytes,   *)
(* unless a packet was loaded over one that waits.                         *)
(***************************************************************************)
HostGetsNextBytes ==
  disturbed \/
  IF tx.res = "ack" /\ tx.tog = hostIn
  THEN SubSeq(epBuf, 1, epLen) = Bytes(got, epLen) /\ got + epLen = loaded
  ELSE got = loaded \/ pc \in {"len", "ctrl", "store"}

(***************************************************************************)
(* Interrupts that a refused write has left disabled are enabled again.    *)
(***************************************************************************)
InterruptsComeBack == ~irqOn ~> irqOn
=============================================================================
