---------------------------- MODULE BleUsbProofs ----------------------------
(***************************************************************************)
(* Theorems about BleUsb for every size of the rings and the packets, and  *)
(* any number of bytes and faults.                                         *)
(***************************************************************************)
EXTENDS BleUsb, SequenceTheorems, TLAPS

(***************************************************************************)
(* The inductive invariant.                                                *)
(***************************************************************************)

(* A ring that has accepted so many bytes, and of which so many are gone:  *)
(* its pointers are as far apart as it has bytes, in one lap or two.       *)
Holds(ring, gone, accepted) ==
  /\ ring \in Ring
  /\ ring.room = Size - ring.count
  /\ gone \in Nat /\ accepted = gone + ring.count
  /\ \/ ring.r + ring.count = ring.w
     \/ ring.r + ring.count = ring.w + Size
  /\ \A i \in 1 .. ring.count : ring.mem[Cell(ring.r, i)] = gone + i

Rings == Holds(usb, popped, pushed) /\ Holds(ble, loaded, written)

(* The pass of the event loop: the branch it has taken stays right unless  *)
(* a packet came in between, and the branch of whole packets always does.  *)
Passing == pc \in {"copy", "notify", "delete"}
Pass ==
  Passing =>
    /\ ~rest => mtu <= usb.count
    /\ rest /\ ~raced => usb.count <= mtu
    /\ pc = "notify" /\ ~raced => buf = Bytes(popped, Length)
    /\ pc = "delete" /\ ~raced => sent = Bytes(popped, InAByte)

(* Endpoint 2 OUT: the toggle of the host's next packet follows from what  *)
(* it has heard, and the packets are counted.                              *)
Counting ==
  /\ begun \in Nat /\ taken \in Nat
  /\ hostOut = IF pend = "out" THEN (IF again = 0 THEN 1 - out.tog ELSE out.tog)
               ELSE IF again = 0 THEN rxTog ELSE 1 - rxTog
  /\ DealtWithOnce

(* Endpoint 2 IN: where the packet that was loaded last stands.            *)
Loading == pc \in {"len", "ctrl", "store"}
Offered ==
  ~disturbed =>
    /\ pend = "in" => tx.res = "ack" /\ tx.tog # hostIn
    /\ tx.res = "nak" => tx.tog = hostIn
    /\ Loading => /\ tx.res = "nak" /\ packet \in Seq(Nat) /\ Len(packet) \in 1 .. Load
                  /\ packet = Bytes(got, Len(packet)) /\ got + Len(packet) = loaded
                  /\ \A i \in 1 .. Len(packet) : epBuf[i] = packet[i]
    /\ pc \in {"ctrl", "store"} => epLen = Len(packet)
    /\ pc = "store" => ctrl = hostIn
    /\ tx.res = "ack" /\ tx.tog = hostIn =>
         /\ epLen > 0 /\ got + epLen = loaded
         /\ \A i \in 1 .. epLen : epBuf[i] = got + i
    /\ ~Loading /\ ~(tx.res = "ack" /\ tx.tog = hostIn) => got = loaded

(* TypeOK in two parts, that each take a prover of their own, and the      *)
(* types of the variables it leaves out.                                   *)
Booleans ==
  /\ irqOn \in BOOLEAN /\ usbEvt \in BOOLEAN /\ usbTimer \in BOOLEAN
  /\ bleEvt \in BOOLEAN /\ bleTimer \in BOOLEAN /\ rest \in BOOLEAN
  /\ raced \in BOOLEAN /\ disturbed \in BOOLEAN
Others ==
  /\ pend \in {"none", "out", "in"} /\ out \in [len : 0 .. OutMax, tog : 0 .. 1]
  /\ rxTog \in 0 .. 1 /\ ctrl \in 0 .. 1 /\ hostOut \in 0 .. 1 /\ hostIn \in 0 .. 1
  /\ tx \in [res : {"ack", "nak"}, tog : 0 .. 1]
  /\ epBuf \in [1 .. Load -> Nat] /\ epLen \in 0 .. Load
  /\ link \in {"down", "up", "ready"} /\ mtu \in MinMtu .. MaxMtu
  /\ pc \in {"idle", "head", "copy", "notify", "delete", "len", "ctrl", "store"}
  /\ got \in Nat /\ again \in 0 .. OutMax
  /\ Loading => packet \in Seq(Nat) /\ Len(packet) <= Load

IInv == TypeOK /\ Others /\ Rings /\ Pass /\ Counting /\ Offered

LEMMA Sizes ==
  /\ Size \in Nat /\ OutMax \in Nat /\ InMax \in Nat /\ Load \in Nat
  /\ MinMtu \in Nat /\ MaxMtu \in Nat /\ MaxOut \in Nat /\ MaxIn \in Nat
  /\ MaxFaults \in Nat /\ ByteRange \in Nat \ {0} /\ 0 < MinMtu /\ MinMtu <= MaxMtu
  /\ 0 < OutMax /\ OutMax <= Size /\ 0 < InMax /\ InMax <= Size /\ 0 < Load /\ Load <= Size
BY SizesAssumption

LEMMA TypeParts == Others /\ Rings => (TypeOK <=> Booleans)
<1>1. TypeOK => Booleans
  BY Zenon DEF TypeOK, Booleans
<1>2. Rings => usb \in Ring /\ ble \in Ring
  BY DEF Rings, Holds
<1>3. Booleans => {irqOn, usbEvt, usbTimer, bleEvt, bleTimer, rest, raced, disturbed} \subseteq BOOLEAN
  BY Zenon DEF Booleans
<1>4. Others => {rxTog, ctrl, hostOut, hostIn} \subseteq 0 .. 1
  BY DEF Others
<1>5. /\ Others /\ usb \in Ring /\ ble \in Ring
      /\ {irqOn, usbEvt, usbTimer, bleEvt, bleTimer, rest, raced, disturbed} \subseteq BOOLEAN
      /\ {rxTog, ctrl, hostOut, hostIn} \subseteq 0 .. 1
      => TypeOK
  BY Zenon DEF TypeOK, Others
<1>. QED  BY <1>1, <1>2, <1>3, <1>4, <1>5
----------------------------------------------------------------------------
(***************************************************************************)
(* The operators on a ring.                                                *)
(***************************************************************************)
LEMMA BytesAre ==
  ASSUME NEW n \in Nat, NEW k \in Nat
  PROVE  /\ Bytes(n, k) \in Seq(Nat) /\ Len(Bytes(n, k)) = k
         /\ DOMAIN Bytes(n, k) = 1 .. k
         /\ \A i \in 1 .. k : Bytes(n, k)[i] = n + i
<1>1. Bytes(n, k) \in [1 .. k -> Nat]
  BY DEF Bytes
<1>2. Bytes(n, k) \in Seq(Nat) /\ Len(Bytes(n, k)) = k
  BY <1>1
<1>. QED  BY <1>1, <1>2 DEF Bytes

LEMMA CellIs ==
  ASSUME NEW p \in 0 .. Size, NEW i \in 1 .. Size
  PROVE  /\ Cell(p, i) \in 0 .. Size - 1
         /\ Cell(p, i) = IF p + i <= Size THEN p + i - 1 ELSE p + i - 1 - Size
BY Sizes DEF Cell

LEMMA MovedIs ==
  ASSUME NEW p \in 0 .. Size, NEW n \in 0 .. Size
  PROVE  /\ Moved(p, n) \in 0 .. Size
         /\ Moved(p, n) = IF p + n <= Size THEN p + n ELSE p + n - Size
BY Sizes DEF Moved

(* The pointers alone, when n of c bytes are removed ... *)
LEMMA ReadMoves ==
  ASSUME NEW r \in 0 .. Size, NEW w \in 0 .. Size, NEW c \in 0 .. Size, NEW n \in 0 .. c,
         r + c = w \/ r + c = w + Size
  PROVE  /\ Moved(r, n) + (c - n) = w \/ Moved(r, n) + (c - n) = w + Size
         /\ \A i \in 1 .. c - n : Cell(Moved(r, n), i) = Cell(r, n + i)
<1>1. n \in 0 .. Size
  BY Sizes
<1>2. PICK q \in 0 .. Size : q = Moved(r, n) /\ q = IF r + n <= Size THEN r + n ELSE r + n - Size
  BY <1>1, MovedIs
<1>3. q + (c - n) = w \/ q + (c - n) = w + Size
  BY <1>2, Sizes
<1>4. ASSUME NEW i \in 1 .. c - n PROVE Cell(q, i) = Cell(r, n + i)
  <2>1. i \in 1 .. Size /\ n + i \in 1 .. Size
    BY Sizes
  <2>2. Cell(q, i) = IF q + i <= Size THEN q + i - 1 ELSE q + i - 1 - Size
    BY <2>1, CellIs
  <2>3. Cell(r, n + i) = IF r + (n + i) <= Size THEN r + (n + i) - 1 ELSE r + (n + i) - 1 - Size
    BY <2>1, CellIs
  <2>. QED  BY <1>2, <2>1, <2>2, <2>3, Sizes
<1>. QED  BY <1>2, <1>3, <1>4

(* ... and when n are added. *)
LEMMA WriteMoves ==
  ASSUME NEW r \in 0 .. Size, NEW w \in 0 .. Size, NEW c \in 0 .. Size, NEW n \in 0 .. Size - c,
         r + c = w \/ r + c = w + Size
  PROVE  /\ r + (c + n) = Moved(w, n) \/ r + (c + n) = Moved(w, n) + Size
         /\ \A j \in 1 .. n : Cell(w, j) = Cell(r, c + j)
<1>1. n \in 0 .. Size
  BY Sizes
<1>2. PICK q \in 0 .. Size : q = Moved(w, n) /\ q = IF w + n <= Size THEN w + n ELSE w + n - Size
  BY <1>1, MovedIs
<1>3. r + (c + n) = q \/ r + (c + n) = q + Size
  BY <1>2, Sizes
<1>4. ASSUME NEW j \in 1 .. n PROVE Cell(w, j) = Cell(r, c + j)
  <2>1. j \in 1 .. Size /\ c + j \in 1 .. Size
    BY Sizes
  <2>2. Cell(w, j) = IF w + j <= Size THEN w + j - 1 ELSE w + j - 1 - Size
    BY <2>1, CellIs
  <2>3. Cell(r, c + j) = IF r + (c + j) <= Size THEN r + (c + j) - 1 ELSE r + (c + j) - 1 - Size
    BY <2>1, CellIs
  <2>. QED  BY <2>1, <2>2, <2>3, Sizes
<1>. QED  BY <1>2, <1>3, <1>4

LEMMA CellsDiffer ==
  ASSUME NEW p \in 0 .. Size, NEW i \in 1 .. Size, NEW j \in 1 .. Size, Cell(p, i) = Cell(p, j)
  PROVE  i = j
<1>1. PICK c \in 0 .. Size - 1 :
         c = Cell(p, i) /\ c = IF p + i <= Size THEN p + i - 1 ELSE p + i - 1 - Size
  BY CellIs
<1>2. c = IF p + j <= Size THEN p + j - 1 ELSE p + j - 1 - Size
  BY <1>1, CellIs
<1>. QED  BY <1>1, <1>2, Sizes

LEMMA FrontIsNext ==
  ASSUME NEW ring, NEW gone, NEW accepted, Holds(ring, gone, accepted),
         NEW n \in 0 .. ring.count
  PROVE  Front(ring, n) = Bytes(gone, n)
<1>1. \A i \in 1 .. n : ring.mem[Cell(ring.r, i)] = gone + i
  BY DEF Holds, Ring
<1>. QED  BY <1>1 DEF Front, Bytes

LEMMA Gives ==
  ASSUME NEW ring, NEW gone, NEW accepted, Holds(ring, gone, accepted),
         NEW n \in 0 .. ring.count
  PROVE  Holds(Deleted(ring, n), gone + n, accepted)
<1>1. PICK m \in [0 .. Size - 1 -> Nat], w \in 0 .. Size, r \in 0 .. Size, c \in 0 .. Size :
         ring = [mem |-> m, w |-> w, r |-> r, room |-> Size - c, count |-> c]
  BY DEF Holds, Ring
<1>2. PICK g \in Nat : g = gone /\ accepted = g + c
  BY <1>1 DEF Holds
<1>3. /\ r + c = w \/ r + c = w + Size
      /\ \A i \in 1 .. c : m[Cell(r, i)] = g + i
  BY <1>1, <1>2 DEF Holds
<1>4. PICK k \in 0 .. c : k = n
  BY <1>1
<1>5. PICK q \in 0 .. Size : q = Moved(r, k)
  <2>1. k \in 0 .. Size
    BY Sizes
  <2>. QED  BY <2>1, MovedIs
<1>6. PICK d \in 0 .. Size : d = c - k
  BY <1>4, Sizes
<1>. DEFINE new == Deleted(ring, n)
<1>7. /\ new \in Ring /\ new.mem = m /\ new.w = w /\ new.r = q
      /\ new.room = Size - d /\ new.count = d
  <2>1. (Size - c) + k = Size - d /\ Size - d \in 0 .. Size
    BY <1>6, Sizes
  <2>2. ring \in Ring /\ ring.mem = m /\ ring.w = w /\ ring.r = r
        /\ ring.room = Size - c /\ ring.count = c
    BY <1>1 DEF Holds
  <2>3. /\ new.mem = m /\ new.w = w /\ new.r = Moved(r, k)
        /\ new.room = (Size - c) + k /\ new.count = c - k
    BY <1>4, <2>2 DEF Deleted, Ring
  <2>4. new \in Ring
    BY <1>4, <1>5, <1>6, <2>1, <2>2 DEF Deleted, Ring
  <2>. QED  BY <1>5, <1>6, <2>1, <2>3, <2>4, Zenon
<1>8. Size - d \in 0 .. Size /\ g + k \in Nat /\ accepted = g + k + d
  BY <1>2, <1>4, <1>6, Sizes
<1>9. /\ q + d = w \/ q + d = w + Size
      /\ \A i \in 1 .. d : Cell(q, i) = Cell(r, k + i)
  BY <1>3, <1>4, <1>5, <1>6, ReadMoves
<1>10. \A i \in 1 .. d : m[Cell(q, i)] = (g + k) + i
  <2>. SUFFICES ASSUME NEW i \in 1 .. d PROVE m[Cell(r, k + i)] = (g + k) + i
    BY <1>9
  <2>1. k + i \in 1 .. c
    BY <1>4, <1>6
  <2>. QED  BY <1>2, <1>3, <1>4, <2>1
<1>. HIDE DEF new
<1>11. Holds(new, gone + n, accepted)
  BY <1>2, <1>4, <1>7, <1>8, <1>9, <1>10 DEF Holds
<1>. QED  BY <1>11 DEF new

LEMMA Accepts ==
  ASSUME NEW ring, NEW gone, NEW accepted, Holds(ring, gone, accepted),
         NEW n \in 0 .. ring.room
  PROVE  Holds(Written(ring, Bytes(accepted, n)), gone, accepted + n)
<1>1. PICK m \in [0 .. Size - 1 -> Nat], w \in 0 .. Size, r \in 0 .. Size, c \in 0 .. Size :
         ring = [mem |-> m, w |-> w, r |-> r, room |-> Size - c, count |-> c]
  BY DEF Holds, Ring
<1>2. PICK g \in Nat : g = gone /\ accepted = g + c
  BY <1>1 DEF Holds
<1>3. /\ r + c = w \/ r + c = w + Size
      /\ \A i \in 1 .. c : m[Cell(r, i)] = g + i
  BY <1>1, <1>2 DEF Holds
<1>4. PICK k \in 0 .. Size - c : k = n
  BY <1>1
<1>5. PICK q \in 0 .. Size : q = Moved(w, k)
  <2>1. k \in 0 .. Size
    BY Sizes
  <2>. QED  BY <2>1, MovedIs
<1>6. PICK d \in 0 .. Size : d = c + k
  BY <1>4, Sizes
<1>7. /\ r + d = q \/ r + d = q + Size
      /\ \A j \in 1 .. k : Cell(w, j) = Cell(r, c + j)
  BY <1>3, <1>4, <1>5, <1>6, WriteMoves
<1>. DEFINE bytes    == Bytes(accepted, n)
            Lands(x) == {i \in 1 .. k : Cell(w, i) = x}
            cells    == [x \in 0 .. Size - 1 |->
                           IF Lands(x) = {} THEN m[x] ELSE bytes[CHOOSE i \in Lands(x) : TRUE]]
<1>8. Len(bytes) = k /\ \A j \in 1 .. k : bytes[j] = g + (c + j)
  <2>1. accepted \in Nat /\ n \in Nat
    BY <1>2, <1>4, Sizes
  <2>2. Len(bytes) = n /\ \A j \in 1 .. n : bytes[j] = accepted + j
    BY <2>1, BytesAre
  <2>. QED  BY <1>2, <1>4, <2>2
<1>. DEFINE new == Written(ring, bytes)
<1>9. /\ new.mem = cells /\ new.w = q /\ new.r = r
      /\ new.room = Size - d /\ new.count = d
  <2>1. (Size - c) - k = Size - d
    BY <1>4, <1>6, Sizes
  <2>2. ring \in Ring /\ ring.mem = m /\ ring.w = w /\ ring.r = r
        /\ ring.room = Size - c /\ ring.count = c /\ DOMAIN m = 0 .. Size - 1
    BY <1>1 DEF Holds
  <2>3. /\ new.mem = cells /\ new.w = Moved(w, k) /\ new.r = r
        /\ new.room = (Size - c) - k /\ new.count = c + k
    BY <1>8, <2>2 DEF Written, Ring
  <2>. QED  BY <1>5, <1>6, <2>1, <2>3, Zenon
<1>10. ASSUME NEW j \in 1 .. k
       PROVE  Cell(w, j) \in 0 .. Size - 1 /\ cells[Cell(w, j)] = g + (c + j)
  <2>1. j \in 1 .. Size
    BY <1>4, Sizes
  <2>2. Cell(w, j) \in 0 .. Size - 1
    BY <2>1, CellIs
  <2>3. Lands(Cell(w, j)) = {j}
    <3>1. \A i \in 1 .. k : i \in 1 .. Size
      BY <1>4, Sizes
    <3>. QED  BY <2>1, <3>1, CellsDiffer
  <2>4. (CHOOSE i \in Lands(Cell(w, j)) : TRUE) = j
    BY <2>3
  <2>5. cells[Cell(w, j)] = bytes[j]
    BY <2>2, <2>3, <2>4
  <2>. QED  BY <1>8, <2>2, <2>5
<1>11. cells \in [0 .. Size - 1 -> Nat]
  <2>. SUFFICES ASSUME NEW x \in 0 .. Size - 1 PROVE cells[x] \in Nat
    OBVIOUS
  <2>1. CASE Lands(x) = {}
    BY <2>1
  <2>2. CASE Lands(x) # {}
    <3>1. PICK j \in 1 .. k : Cell(w, j) = x
      BY <2>2
    <3>2. cells[x] = g + (c + j)
      BY <1>10, <3>1
    <3>. QED  BY <3>2
  <2>. QED  BY <2>1, <2>2
<1>12. ASSUME NEW i \in 1 .. d PROVE cells[Cell(r, i)] = g + i
  <2>1. CASE i \in 1 .. c
    <3>1. i \in 1 .. Size
      BY <2>1, Sizes
    <3>2. Cell(r, i) \in 0 .. Size - 1 /\ m[Cell(r, i)] = g + i
      BY <1>3, <2>1, <3>1, CellIs
    <3>3. ASSUME NEW j \in 1 .. k PROVE Cell(w, j) # Cell(r, i)
      <4>1. Cell(w, j) = Cell(r, c + j) /\ c + j \in 1 .. Size /\ c + j # i
        BY <1>4, <1>7, <2>1, Sizes
      <4>. QED  BY <3>1, <4>1, CellsDiffer
    <3>4. Lands(Cell(r, i)) = {}
      BY <3>3
    <3>. QED  BY <3>2, <3>4
  <2>2. CASE i \notin 1 .. c
    <3>1. PICK j \in 1 .. k : i = c + j
      BY <1>4, <1>6, <2>2, i - c \in 1 .. k
    <3>2. cells[Cell(w, j)] = g + (c + j) /\ Cell(w, j) = Cell(r, i)
      BY <1>7, <1>10, <3>1
    <3>. QED  BY <3>1, <3>2
  <2>. QED  BY <2>1, <2>2
<1>13. /\ Size - d \in 0 .. Size /\ accepted + n = g + d
  BY <1>2, <1>4, <1>6, Sizes
<1>14. PICK f \in [0 .. Size - 1 -> Nat] : f = cells
  BY <1>11, Zenon
<1>15. new.mem = f /\ \A i \in 1 .. d : f[Cell(r, i)] = g + i
  BY <1>9, <1>12, <1>14, Zenon
<1>. HIDE DEF cells, Lands
<1>16. new \in Ring
  <2>1. /\ new.w \in 0 .. Size /\ new.r \in 0 .. Size /\ new.room \in 0 .. Size
        /\ new.count \in 0 .. Size /\ new.mem \in [0 .. Size - 1 -> Nat]
    BY <1>9, <1>13, <1>15
  <2>2. ring \in Ring
    BY DEF Holds
  <2>. QED  BY <2>1, <2>2 DEF Written, Ring
<1>. HIDE DEF new
<1>17. Holds(new, gone, accepted + n)
  BY <1>2, <1>7, <1>9, <1>13, <1>15, <1>16 DEF Holds
<1>. QED  BY <1>17 DEF new, bytes

LEMMA NewHolds == Holds(NewRing, 0, 0)
<1>1. NewRing \in Ring
  BY Sizes DEF NewRing, Ring
<1>2. /\ NewRing.r = 0 /\ NewRing.w = 0 /\ NewRing.count = 0 /\ NewRing.room = Size
  BY DEF NewRing
<1>. QED  BY <1>1, <1>2, Sizes DEF Holds
----------------------------------------------------------------------------
LEMMA InvInit == Init => IInv
<1>. SUFFICES ASSUME Init PROVE IInv
  OBVIOUS
<1>1. Booleans
  BY Zenon DEF Init, Booleans
<1>2. Others
  BY Sizes DEF Init, Others, Loading, NoPacket
<1>3. Rings
  BY NewHolds DEF Init, Rings
<1>4. Pass /\ Counting /\ Offered
  BY DEF Init, Pass, Passing, Counting, DealtWithOnce, Offered, Loading
<1>. QED  BY <1>1, <1>2, <1>3, <1>4, TypeParts DEF IInv
----------------------------------------------------------------------------
(***************************************************************************)
(* Types.                                                                  *)
(***************************************************************************)
LEMMA BooleansStep == Booleans /\ [Next]_vars => Booleans'
<1>. SUFFICES ASSUME Booleans, [Next]_vars PROVE Booleans'
  OBVIOUS
<1>. USE DEF inVars, evtVars, hostVars, linkVars, passVars, outHist, inHist
<1>1. ASSUME NEW n, NEW heard, HostOut(n, heard) PROVE Booleans'
  BY <1>1, Zenon DEF HostOut, Booleans
<1>2. ASSUME NEW heard, HostIn(heard) PROVE Booleans'
  BY <1>2, Zenon DEF HostIn, Booleans
<1>3. CASE IsrOut
  <2>1. raced' \in BOOLEAN /\ irqOn' \in BOOLEAN
    BY <1>3 DEF IsrOut, IsrOutBlind, Booleans
  <2>. QED  BY <1>3, <2>1, Zenon DEF IsrOut, IsrOutBlind, Booleans
<1>4. CASE IsrOutAgain \/ IsrIn
  BY <1>4, Zenon DEF IsrOutAgain, IsrIn, Booleans
<1>5. ASSUME NEW ofOut, NEW ofIn, Reset(ofOut, ofIn) PROVE Booleans'
  <2>1. \/ disturbed' = (pc \in {"len", "ctrl", "store"})
        \/ disturbed' = disturbed
    BY <1>5, Zenon DEF Reset
  <2>2. (pc \in {"len", "ctrl", "store"}) \in BOOLEAN
    OBVIOUS
  <2>3. disturbed' \in BOOLEAN
    BY <2>1, <2>2, Zenon DEF Booleans
  <2>. QED  BY <1>5, <2>3, Zenon DEF Reset, Booleans
<1>6. CASE Link
  BY <1>6, Zenon DEF Link, Booleans
<1>7. ASSUME NEW n, BleWrite(n) PROVE Booleans'
  BY <1>7, Zenon DEF BleWrite, Booleans
<1>8. CASE UsbTimer \/ UsbEvent \/ Copy \/ Notified \/ Refused \/ Delete
  BY <1>8, Zenon DEF UsbTimer, UsbEvent, Copy, Notified, Refused, Delete, Booleans
<1>9. CASE Test
  <2>1. rest' \in BOOLEAN
    BY <1>9 DEF Test
  <2>. QED  BY <1>9, <2>1, Zenon DEF Test, Booleans
<1>10. CASE BleEvent
  <2>1. disturbed' \in BOOLEAN
    BY <1>10 DEF BleEvent, Booleans
  <2>2. irqOn' \in BOOLEAN /\ bleTimer' \in BOOLEAN
    BY <1>10, Zenon DEF BleEvent, Booleans
  <2>. QED  BY <1>10, <2>1, <2>2, Zenon DEF BleEvent, Booleans
<1>11. CASE BleTimer \/ SetLen \/ LoadCtrl \/ StoreCtrl
  BY <1>11, Zenon DEF BleTimer, SetLen, LoadCtrl, StoreCtrl, Booleans
<1>12. CASE UNCHANGED vars
  BY <1>12, Zenon DEF vars, Booleans
<1>. QED  BY <1>1, <1>2, <1>3, <1>4, <1>5, <1>6, <1>7, <1>8, <1>9, <1>10, <1>11, <1>12
          DEF Next, Host, Isr, Peer, UsbToBle, BleToUsb

(* What BleEvent loads: the next bytes of the ring, one packet at most. *)
LEMMA LoadedIs ==
  ASSUME Others, Rings, ble.count > 0
  PROVE  \E n \in 1 .. Load :
           /\ n = Smaller(ble.count, Load) /\ n \in 0 .. ble.count
           /\ Front(ble, n) = Bytes(loaded, n)
           /\ Front(ble, n) \in Seq(Nat) /\ Len(Front(ble, n)) = n
           /\ \A i \in 1 .. n : Front(ble, n)[i] = loaded + i
<1>1. Holds(ble, loaded, written)
  BY DEF Rings
<1>2. PICK c \in 0 .. Size : c = ble.count
  BY <1>1 DEF Holds, Ring
<1>3. PICK n \in 1 .. Load : n = Smaller(c, Load) /\ n \in 0 .. c
  BY <1>2, Sizes DEF Smaller
<1>4. Front(ble, n) = Bytes(loaded, n)
  BY <1>1, <1>2, <1>3, FrontIsNext
<1>5. loaded \in Nat /\ n \in Nat
  BY <1>1 DEF Holds
<1>6. /\ Bytes(loaded, n) \in Seq(Nat) /\ Len(Bytes(loaded, n)) = n
      /\ \A i \in 1 .. n : Bytes(loaded, n)[i] = loaded + i
  BY <1>5, BytesAre
<1>. QED  BY <1>2, <1>3, <1>4, <1>6, Zenon

LEMMA OthersStep == Others /\ Rings /\ [Next]_vars => Others'
<1>. SUFFICES ASSUME Others, Rings, [Next]_vars PROVE Others'
  OBVIOUS
<1>. USE DEF inVars, evtVars, hostVars, linkVars, passVars, outHist, inHist, Others, Loading
<1>1. ASSUME NEW n \in 1 .. OutMax, NEW heard, HostOut(n, heard) PROVE Others'
  <2>1. out' \in [len : 0 .. OutMax, tog : 0 .. 1]
    BY <1>1, Sizes DEF HostOut
  <2>2. hostOut' \in 0 .. 1 /\ again' \in 0 .. OutMax
    BY <1>1, Sizes DEF HostOut
  <2>. QED  BY <1>1, <2>1, <2>2 DEF HostOut
<1>2. ASSUME NEW heard, HostIn(heard) PROVE Others'
  <2>1. got' \in Nat
    BY <1>2, Sizes DEF HostIn
  <2>2. hostIn' \in 0 .. 1
    BY <1>2 DEF HostIn
  <2>3. pend' \in {"none", "out", "in"}
    BY <1>2 DEF HostIn
  <2>. QED  BY <1>2, <2>1, <2>2, <2>3 DEF HostIn
<1>3. CASE IsrOut \/ IsrOutAgain
  <2>1. rxTog' \in 0 .. 1 /\ pend' = "none"
    BY <1>3 DEF IsrOut, IsrOutBlind, IsrOutAgain
  <2>2. out' \in [len : 0 .. OutMax, tog : 0 .. 1]
    BY <1>3, Sizes DEF IsrOut, IsrOutBlind, IsrOutAgain, NoPacket
  <2>. QED  BY <1>3, <2>1, <2>2 DEF IsrOut, IsrOutBlind, IsrOutAgain
<1>4. CASE IsrIn
  <2>1. tx' \in [res : {"ack", "nak"}, tog : 0 .. 1]
    BY <1>4 DEF IsrIn
  <2>. QED  BY <1>4, <2>1 DEF IsrIn
<1>5. ASSUME NEW ofOut, NEW ofIn, Reset(ofOut, ofIn) PROVE Others'
  <2>1. tx' \in [res : {"ack", "nak"}, tog : 0 .. 1]
    BY <1>5 DEF Reset
  <2>2. got' \in Nat
    BY <1>5 DEF Reset, Rings, Holds
  <2>3. rxTog' \in 0 .. 1 /\ hostOut' \in 0 .. 1 /\ hostIn' \in 0 .. 1 /\ again' \in 0 .. OutMax
    BY <1>5, Sizes DEF Reset
  <2>. QED  BY <1>5, <2>1, <2>2, <2>3 DEF Reset
<1>6. CASE Link
  <2>1. mtu' \in MinMtu .. MaxMtu /\ link' \in {"down", "up", "ready"}
    BY <1>6, Sizes DEF Link
  <2>. QED  BY <1>6, <2>1 DEF Link
<1>7. ASSUME NEW n, BleWrite(n) PROVE Others'
  BY <1>7 DEF BleWrite
<1>8. CASE UsbTimer \/ UsbEvent \/ Copy \/ Notified \/ Refused \/ Delete
  BY <1>8 DEF UsbTimer, UsbEvent, Copy, Notified, Refused, Delete
<1>9. CASE Test
  <2>1. pc' \in {"idle", "copy"}
    BY <1>9 DEF Test
  <2>. QED  BY <1>9, <2>1 DEF Test
<1>10. CASE BleEvent
  <2>1. CASE ble.count > 0 /\ ~EndpointBusy
    <3>1. PICK n \in 1 .. Load :
            /\ n = Smaller(ble.count, Load)
            /\ Front(ble, n) \in Seq(Nat) /\ Len(Front(ble, n)) = n
            /\ \A i \in 1 .. n : Front(ble, n)[i] = loaded + i
      BY <2>1, LoadedIs
    <3>2. /\ epBuf' = [i \in DOMAIN epBuf |-> IF i <= n THEN Front(ble, n)[i] ELSE epBuf[i]]
          /\ packet' = Front(ble, n) /\ pc' = "len"
      BY <1>10, <2>1, <3>1 DEF BleEvent
    <3>3. \A i \in 1 .. n : Front(ble, n)[i] \in Nat
      BY <3>1 DEF Rings, Holds
    <3>4. epBuf' \in [1 .. Load -> Nat]
      BY <3>2, <3>3
    <3>. QED  BY <1>10, <3>1, <3>2, <3>4 DEF BleEvent
  <2>2. CASE ~(ble.count > 0 /\ ~EndpointBusy)
    BY <1>10, <2>2 DEF BleEvent
  <2>. QED  BY <2>1, <2>2
<1>11. CASE SetLen
  <2>1. epLen' \in 0 .. Load
    BY <1>11 DEF SetLen
  <2>. QED  BY <1>11, <2>1 DEF SetLen
<1>12. CASE BleTimer \/ LoadCtrl
  BY <1>12 DEF BleTimer, LoadCtrl
<1>13. CASE StoreCtrl
  <2>1. tx' \in [res : {"ack", "nak"}, tog : 0 .. 1]
    BY <1>13 DEF StoreCtrl
  <2>. QED  BY <1>13, <2>1 DEF StoreCtrl
<1>14. CASE UNCHANGED vars
  BY <1>14 DEF vars
<1>. QED  BY <1>1, <1>2, <1>3, <1>4, <1>5, <1>6, <1>7, <1>8, <1>9, <1>10, <1>11, <1>12, <1>13, <1>14
          DEF Next, Host, Isr, Peer, UsbToBle, BleToUsb
----------------------------------------------------------------------------
(***************************************************************************)
(* The rings.  The event loop removes no more than a ring has, even when a *)
(* packet has come since it chose its branch.                              *)
(***************************************************************************)
LEMMA LengthFits ==
  ASSUME Others, Rings, Pass, Passing
  PROVE  /\ Length \in 0 .. usb.count
         /\ ~raced => Length \in 0 .. mtu
<1>1. PICK c \in 0 .. Size : c = usb.count
  BY DEF Rings, Holds, Ring
<1>2. mtu \in Nat
  BY Sizes DEF Others
<1>. QED  BY <1>1, <1>2 DEF Pass, Length

(* The length of a notification: a byte of what is copied and deleted.     *)
LEMMA ByteIs ==
  ASSUME NEW n \in Nat, Length = n
  PROVE  /\ InAByte \in 0 .. n
         /\ n < ByteRange => InAByte = n
<1>1. PICK b \in Nat \ {0} : b = ByteRange
  BY Sizes
<1>2. /\ n \div b \in Nat /\ n % b \in 0 .. b - 1
      /\ n = b * (n \div b) + (n % b)
  OBVIOUS
<1>3. PICK q \in Nat, m \in 0 .. b - 1 : q = n \div b /\ m = n % b
  BY <1>2
<1>4. n = b * q + m
  BY <1>2, <1>3
<1>5. b * q \in Nat /\ (q > 0 => b * q >= b)
  <2>1. CASE q = 0
    BY <2>1
  <2>2. CASE q > 0
    <3>1. PICK p \in Nat : q = p + 1
      BY <2>2, q - 1 \in Nat
    <3>2. b * q = b * p + b /\ b * p \in Nat
      BY <3>1
    <3>. QED  BY <3>2
  <2>. QED  BY <2>1, <2>2
<1>6. m \in 0 .. n /\ (n < b => m = n)
  <2>1. n >= b * q
    BY <1>4, <1>5
  <2>2. CASE q = 0
    BY <1>4, <2>2
  <2>3. CASE q > 0
    BY <1>4, <1>5, <2>1, <2>3
  <2>. QED  BY <2>2, <2>3
<1>. QED  BY <1>1, <1>3, <1>6 DEF InAByte

(* What app_usb_notify copies are the oldest bytes, as many as it counts.  *)
LEMMA NotedIs ==
  ASSUME Others, Rings, Pass, pc = "notify", ~raced
  PROVE  [i \in 1 .. InAByte |-> IF i \in DOMAIN buf THEN buf[i] ELSE 0]
           = Bytes(popped, InAByte)
<1>1. Passing /\ buf = Bytes(popped, Length)
  BY DEF Pass, Passing
<1>2. PICK n \in Nat : n = Length
  <2>1. PICK c \in Nat : c = usb.count
    BY DEF Rings, Holds, Ring
  <2>. QED  BY <1>1, <2>1, LengthFits
<1>3. PICK k \in 0 .. n : k = InAByte
  BY <1>2, ByteIs
<1>4. popped \in Nat
  BY DEF Rings, Holds
<1>5. DOMAIN buf = 1 .. n /\ \A i \in 1 .. n : buf[i] = popped + i
  BY <1>1, <1>2, <1>4, BytesAre
<1>6. \A i \in 1 .. k : i \in 1 .. n
  OBVIOUS
<1>7. [i \in 1 .. k |-> IF i \in DOMAIN buf THEN buf[i] ELSE 0] = [i \in 1 .. k |-> popped + i]
  BY <1>5, <1>6
<1>. QED  BY <1>3, <1>7 DEF Bytes

LEMMA RingsStep == Others /\ Rings /\ Pass /\ [Next]_vars => Rings'
<1>. SUFFICES ASSUME Others, Rings, Pass, [Next]_vars PROVE Rings'
  OBVIOUS
<1>. USE DEF evtVars, inHist, outHist
<1>0. ASSUME UNCHANGED <<usb, popped, pushed, ble, loaded, written>> PROVE Rings'
  BY <1>0, Zenon DEF Rings
<1>1. CASE IsrOutBlind
  <2>1. CASE UNCHANGED <<usb, pushed, raced>>
    BY <1>0, <1>1, <2>1 DEF IsrOutBlind
  <2>2. CASE /\ out.len <= usb.room /\ usb' = Written(usb, Bytes(pushed, out.len))
             /\ pushed' = pushed + out.len
    <3>1. out.len \in 0 .. usb.room
      BY <2>2 DEF Others, Rings, Holds, Ring
    <3>2. Holds(usb, popped, pushed) /\ Holds(ble, loaded, written)
      BY DEF Rings
    <3>3. Holds(usb', popped, pushed')
      BY <2>2, <3>1, <3>2, Accepts
    <3>4. UNCHANGED <<popped, ble, loaded, written>>
      BY <1>1 DEF IsrOutBlind
    <3>. QED  BY <3>2, <3>3, <3>4, Zenon DEF Rings
  <2>. QED  BY <1>1, <2>1, <2>2 DEF IsrOutBlind
<1>2. ASSUME NEW n \in 1 .. InMax, BleWrite(n) PROVE Rings'
  <2>1. CASE UNCHANGED <<ble, written>>
    BY <1>0, <1>2, <2>1 DEF BleWrite
  <2>2. CASE n <= ble.room /\ ble' = Written(ble, Bytes(written, n)) /\ written' = written + n
    <3>1. n \in 0 .. ble.room
      BY <2>2, Sizes DEF Rings, Holds, Ring
    <3>2. Holds(usb, popped, pushed) /\ Holds(ble, loaded, written)
      BY DEF Rings
    <3>3. Holds(ble', loaded, written')
      BY <2>2, <3>1, <3>2, Accepts
    <3>4. UNCHANGED <<usb, popped, pushed, loaded>>
      BY <1>2 DEF BleWrite
    <3>. QED  BY <3>2, <3>3, <3>4, Zenon DEF Rings
  <2>. QED  BY <1>2, <2>1, <2>2 DEF BleWrite
<1>3. CASE Delete
  <2>1. Holds(usb, popped, pushed) /\ Holds(ble, loaded, written)
    BY DEF Rings
  <2>2. Length \in 0 .. usb.count
    BY <1>3, LengthFits DEF Delete, Passing
  <2>3. Holds(usb', popped', pushed)
    BY <1>3, <2>1, <2>2, Gives DEF Delete
  <2>4. UNCHANGED <<pushed, ble, loaded, written>>
    BY <1>3 DEF Delete
  <2>. QED  BY <2>1, <2>3, <2>4, Zenon DEF Rings
<1>4. CASE BleEvent
  <2>1. CASE ~(ble.count > 0 /\ ~EndpointBusy)
    <3>1. UNCHANGED <<usb, popped, pushed, ble, loaded, written>>
      BY <1>4, <2>1 DEF BleEvent
    <3>. QED  BY <1>0, <3>1
  <2>2. CASE ble.count > 0 /\ ~EndpointBusy
    <3>1. PICK n \in 1 .. Load : n = Smaller(ble.count, Load) /\ n \in 0 .. ble.count
      BY <2>2, LoadedIs
    <3>2. ble' = Deleted(ble, n) /\ loaded' = loaded + n
      BY <1>4, <2>2, <3>1 DEF BleEvent
    <3>3. Holds(usb, popped, pushed) /\ Holds(ble, loaded, written)
      BY DEF Rings
    <3>4. Holds(ble', loaded', written)
      BY <3>1, <3>2, <3>3, Gives
    <3>5. UNCHANGED <<usb, popped, pushed, written>>
      BY <1>4 DEF BleEvent
    <3>. QED  BY <3>3, <3>4, <3>5, Zenon DEF Rings
  <2>. QED  BY <2>1, <2>2
<1>5. ASSUME NEW n, NEW heard, HostOut(n, heard) PROVE Rings'
  BY <1>0, <1>5 DEF HostOut
<1>6. ASSUME NEW heard, HostIn(heard) PROVE Rings'
  BY <1>0, <1>6 DEF HostIn
<1>7. ASSUME NEW ofOut, NEW ofIn, Reset(ofOut, ofIn) PROVE Rings'
  BY <1>0, <1>7 DEF Reset
<1>8. CASE IsrOutAgain \/ IsrIn \/ Link
  BY <1>0, <1>8 DEF IsrOutAgain, IsrIn, Link
<1>9. CASE UsbTimer \/ UsbEvent \/ Test \/ Copy \/ Notified \/ Refused
  BY <1>0, <1>9 DEF UsbTimer, UsbEvent, Test, Copy, Notified, Refused
<1>10. CASE BleTimer \/ SetLen \/ LoadCtrl \/ StoreCtrl \/ UNCHANGED vars
  BY <1>0, <1>10 DEF BleTimer, SetLen, LoadCtrl, StoreCtrl, vars
<1>. QED  BY <1>1, <1>2, <1>3, <1>4, <1>5, <1>6, <1>7, <1>8, <1>9, <1>10
          DEF Next, Host, Isr, Peer, UsbToBle, BleToUsb, IsrOut
----------------------------------------------------------------------------
(***************************************************************************)
(* The pass of the event loop.                                             *)
(***************************************************************************)
LEMMA PassStep == Others /\ Rings /\ Pass /\ [Next]_vars => Pass'
<1>. SUFFICES ASSUME Others, Rings, Pass, [Next]_vars, Passing' PROVE Pass'
  BY DEF Pass
<1>. USE DEF evtVars, inHist, outHist, passVars, linkVars, hostVars, inVars
<1>0. ASSUME UNCHANGED <<usb.count, mtu, rest, raced, pc, buf, sent, popped>> PROVE Pass'
  BY <1>0 DEF Pass, Passing, Length, InAByte
<1>1. CASE IsrOutBlind
  <2>1. CASE UNCHANGED <<usb, pushed, raced>>
    BY <1>0, <1>1, <2>1 DEF IsrOutBlind
  <2>2. CASE /\ out.len <= usb.room /\ usb' = Written(usb, Bytes(pushed, out.len))
             /\ raced' = (raced \/ (pc \in {"copy", "notify", "delete"} /\ rest))
    <3>1. PICK c \in Nat, n \in Nat : c = usb.count /\ n = out.len
      BY DEF Others, Rings, Holds, Ring
    <3>2. pushed \in Nat
      <4>1. popped \in Nat /\ pushed = popped + usb.count
        BY DEF Rings, Holds
      <4>. QED  BY <3>1, <4>1
    <3>3. usb'.count = c + n
      <4>1. Len(Bytes(pushed, n)) = n
        BY <3>1, <3>2, BytesAre
      <4>. QED  BY <2>2, <3>1, <4>1 DEF Written, Rings, Holds, Ring
    <3>4. UNCHANGED <<mtu, rest, pc, buf, sent, popped>>
      BY <1>1 DEF IsrOutBlind
    <3>5. mtu \in Nat
      BY Sizes DEF Others
    <3>6. Passing /\ (rest => raced') /\ (raced => raced')
      BY <2>2, <3>4 DEF Passing
    <3>7. CASE rest
      BY <3>4, <3>6, <3>7 DEF Pass
    <3>8. CASE ~rest
      BY <3>1, <3>3, <3>4, <3>5, <3>6, <3>8 DEF Pass, Length, InAByte
    <3>. QED  BY <3>7, <3>8
  <2>. QED  BY <1>1, <2>1, <2>2 DEF IsrOutBlind
<1>2. CASE Test
  <2>1. /\ pc' = "copy" /\ rest' = (usb.count <= mtu)
        /\ UNCHANGED <<usb, mtu>>
    BY <1>2 DEF Test, Passing
  <2>2. PICK c \in Nat, m \in Nat : c = usb.count /\ m = mtu
    BY Sizes DEF Others, Rings, Holds, Ring
  <2>3. rest' <=> c <= m
    BY <2>1, <2>2
  <2>4. /\ ~rest' => mtu' <= (usb').count
        /\ rest' => (usb').count <= mtu'
    BY <2>1, <2>2, <2>3
  <2>. QED  BY <2>1, <2>4 DEF Pass
<1>3. CASE Copy
  <2>1. Passing /\ UNCHANGED <<usb, mtu, rest, raced, popped>> /\ pc' = "notify"
        /\ buf' = Front(usb, Length)
    BY <1>3 DEF Copy, Passing
  <2>2. Length \in 0 .. usb.count
    BY <2>1, LengthFits
  <2>3. buf' = Bytes(popped, Length)
    BY <2>1, <2>2, FrontIsNext DEF Rings
  <2>4. Length' = Length
    BY <2>1 DEF Length
  <2>. QED  BY <2>1, <2>3, <2>4 DEF Pass
<1>4. CASE Notified
  <2>1. pc = "notify" /\ UNCHANGED <<usb, mtu, rest, raced, popped>> /\ pc' = "delete"
        /\ sent' = [i \in 1 .. InAByte |-> IF i \in DOMAIN buf THEN buf[i] ELSE 0]
    BY <1>4 DEF Notified
  <2>2. InAByte' = InAByte
    BY <2>1 DEF Length, InAByte
  <2>3. ~raced => sent' = Bytes(popped, InAByte)
    BY <2>1, NotedIs DEF Passing
  <2>. QED  BY <2>1, <2>2, <2>3 DEF Pass, Passing
<1>5. CASE UsbTimer \/ UsbEvent \/ Refused \/ Delete
  BY <1>5 DEF UsbTimer, UsbEvent, Refused, Delete, Passing
<1>6. ASSUME NEW n, NEW heard, HostOut(n, heard) PROVE Pass'
  BY <1>0, <1>6 DEF HostOut
<1>7. ASSUME NEW heard, HostIn(heard) PROVE Pass'
  BY <1>0, <1>7 DEF HostIn
<1>8. ASSUME NEW ofOut, NEW ofIn, Reset(ofOut, ofIn) PROVE Pass'
  BY <1>0, <1>8 DEF Reset
<1>9. CASE IsrOutAgain \/ IsrIn
  BY <1>0, <1>9 DEF IsrOutAgain, IsrIn
<1>10. CASE Link
  BY <1>10 DEF Link, Passing
<1>11. ASSUME NEW n, BleWrite(n) PROVE Pass'
  BY <1>11 DEF BleWrite, Passing
<1>12. CASE BleEvent
  BY <1>12 DEF BleEvent, Passing
<1>13. CASE BleTimer \/ SetLen \/ LoadCtrl \/ StoreCtrl
  BY <1>13 DEF BleTimer, SetLen, LoadCtrl, StoreCtrl, Passing
<1>14. CASE UNCHANGED vars
  BY <1>0, <1>14 DEF vars
<1>. QED  BY <1>1, <1>2, <1>3, <1>4, <1>5, <1>6, <1>7, <1>8, <1>9, <1>10, <1>11, <1>12, <1>13,
             <1>14 DEF Next, Host, Isr, Peer, UsbToBle, BleToUsb, IsrOut
----------------------------------------------------------------------------
(***************************************************************************)
(* The toggles of endpoint 2.                                              *)
(***************************************************************************)
LEMMA CountingStep == Others /\ Counting /\ [Next]_vars => Counting'
<1>. SUFFICES ASSUME Others, Counting, [Next]_vars PROVE Counting'
  OBVIOUS
<1>. USE DEF evtVars, inHist, outHist, passVars, linkVars, inVars, DealtWithOnce
<1>0. ASSUME UNCHANGED <<begun, taken, hostOut, pend, out, again, rxTog>> PROVE Counting'
  BY <1>0 DEF Counting
<1>t. /\ rxTog \in 0 .. 1 /\ hostOut \in 0 .. 1 /\ out.tog \in 0 .. 1 /\ again \in Nat
      /\ begun \in Nat /\ taken \in Nat
  BY Sizes DEF Others, Counting
<1>1. ASSUME NEW n \in 1 .. OutMax, NEW heard \in BOOLEAN, HostOut(n, heard) PROVE Counting'
  <2>1. /\ pend = "none" /\ pend' = "out" /\ out' = [len |-> n, tog |-> hostOut]
        /\ UNCHANGED <<rxTog, taken>> /\ n # 0
    BY <1>1 DEF HostOut
  <2>2. out'.tog = hostOut
    BY <2>1
  <2>3. /\ hostOut' = IF heard THEN 1 - hostOut ELSE hostOut
        /\ again' = IF heard THEN 0 ELSE n
        /\ begun' = IF again = 0 THEN begun + 1 ELSE begun
    BY <1>1 DEF HostOut
  <2>4. hostOut' = IF again' = 0 THEN 1 - out'.tog ELSE out'.tog
    BY <2>1, <2>2, <2>3
  <2>5. begun' - taken' = IF out'.tog = rxTog' THEN 1 ELSE 0
    BY <1>t, <2>1, <2>2, <2>3 DEF Counting
  <2>. QED  BY <1>t, <2>1, <2>3, <2>4, <2>5 DEF Counting
<1>2. CASE IsrOut
  <2>1. /\ pend = "out" /\ out.tog = rxTog /\ pend' = "none" /\ rxTog' = 1 - rxTog
        /\ taken' = taken + 1 /\ out'.tog = 0 /\ UNCHANGED <<hostOut, again, begun>>
    BY <1>2 DEF IsrOut, IsrOutBlind, NoPacket
  <2>. QED  BY <1>t, <2>1 DEF Counting
<1>3. CASE IsrOutAgain
  <2>1. /\ pend = "out" /\ out.tog # rxTog /\ pend' = "none"
        /\ out'.tog = 0 /\ UNCHANGED <<rxTog, taken, hostOut, again, begun>>
    BY <1>3 DEF IsrOutAgain, NoPacket
  <2>. QED  BY <1>t, <2>1 DEF Counting
<1>4. CASE IsrIn
  <2>1. /\ pend = "in" /\ pend' = "none"
        /\ UNCHANGED <<rxTog, taken, out, hostOut, again, begun>>
    BY <1>4 DEF IsrIn
  <2>. QED  BY <2>1 DEF Counting
<1>5. ASSUME NEW heard, HostIn(heard) PROVE Counting'
  <2>1. /\ pend = "none" /\ pend' \in {"none", "in"}
        /\ UNCHANGED <<rxTog, taken, out, hostOut, again, begun>>
    BY <1>5 DEF HostIn
  <2>. QED  BY <2>1 DEF Counting
<1>6. ASSUME NEW ofOut, NEW ofIn, Reset(ofOut, ofIn) PROVE Counting'
  <2>1. /\ pend = "none" /\ UNCHANGED <<pend, taken, out, begun>>
    BY <1>6 DEF Reset
  <2>2. \/ rxTog' = 0 /\ hostOut' = 0 /\ again' = 0
        \/ UNCHANGED <<rxTog, hostOut, again>>
    BY <1>6, Zenon DEF Reset
  <2>. QED  BY <1>t, <2>1, <2>2 DEF Counting
<1>7. ASSUME NEW n, BleWrite(n) PROVE Counting'
  BY <1>0, <1>7 DEF BleWrite, hostVars
<1>8. CASE UsbTimer \/ UsbEvent \/ Test \/ Copy \/ Notified \/ Refused \/ Delete
  BY <1>0, <1>8 DEF UsbTimer, UsbEvent, Test, Copy, Notified, Refused, Delete, hostVars
<1>9. CASE BleTimer \/ BleEvent \/ SetLen \/ LoadCtrl \/ StoreCtrl
  BY <1>0, <1>9 DEF BleTimer, BleEvent, SetLen, LoadCtrl, StoreCtrl, hostVars
<1>10. CASE Link \/ UNCHANGED vars
  BY <1>0, <1>10 DEF Link, vars, hostVars
<1>. QED  BY <1>1, <1>2, <1>3, <1>4, <1>5, <1>6, <1>7, <1>8, <1>9, <1>10
          DEF Next, Host, Isr, Peer, UsbToBle, BleToUsb

LEMMA OfferedStep == Others /\ Rings /\ Offered /\ [Next]_vars => Offered'
<1>. SUFFICES ASSUME Others, Rings, Offered, [Next]_vars, ~disturbed' PROVE Offered'
  BY DEF Offered
<1>. USE DEF evtVars, outHist, passVars, linkVars, hostVars
<1>0. ASSUME UNCHANGED <<pend, tx, hostIn, packet, epBuf, epLen, ctrl, got, loaded, disturbed, pc>>
      PROVE  Offered'
  BY <1>0 DEF Offered, Loading
<1>a. ASSUME UNCHANGED <<pend, tx, hostIn, packet, epBuf, epLen, ctrl, got, loaded, disturbed>>,
             ~Loading, ~Loading'
      PROVE  Offered'
  BY <1>a DEF Offered, Loading
<1>t. /\ tx.tog \in 0 .. 1 /\ hostIn \in 0 .. 1 /\ tx.res \in {"ack", "nak"}
      /\ got \in Nat /\ loaded \in Nat /\ epLen \in Nat
  BY Sizes DEF Others, Rings, Holds
<1>1. ASSUME NEW heard \in BOOLEAN, HostIn(heard) PROVE Offered'
  <2>1. /\ pend = "none" /\ tx.res = "ack" /\ hostIn' = 1 - tx.tog
        /\ got' = IF tx.tog = hostIn /\ epLen > 0 THEN epBuf[epLen] ELSE got
        /\ UNCHANGED <<tx, packet, epBuf, epLen, ctrl, loaded, disturbed, pc>>
    BY <1>1 DEF HostIn, inVars
  <2>2. ~disturbed /\ ~Loading
    BY <2>1 DEF Offered
  <2>3. got' = loaded
    <3>1. CASE tx.tog = hostIn
      <4>1. epLen \in 1 .. epLen /\ got + epLen = loaded /\ epBuf[epLen] = got + epLen
        BY <1>t, <2>1, <2>2, <3>1 DEF Offered
      <4>. QED  BY <1>t, <2>1, <3>1, <4>1
    <3>2. CASE tx.tog # hostIn
      BY <2>1, <2>2, <3>2 DEF Offered
    <3>. QED  BY <3>1, <3>2
  <2>4. tx'.tog # hostIn' /\ ~Loading'
    BY <1>t, <2>1, <2>2 DEF Loading
  <2>. QED  BY <2>1, <2>3, <2>4 DEF Offered, Loading
<1>2. CASE IsrIn
  <2>1. /\ pend = "in" /\ pend' = "none" /\ tx' = [res |-> "nak", tog |-> 1 - tx.tog]
        /\ UNCHANGED <<hostIn, packet, epBuf, epLen, ctrl, got, loaded, disturbed, pc>>
    BY <1>2 DEF IsrIn, inHist
  <2>2. tx.res = "ack" /\ tx.tog # hostIn /\ ~Loading /\ got = loaded
    BY <2>1 DEF Offered
  <2>3. tx'.res = "nak" /\ tx'.tog = hostIn'
    BY <1>t, <2>1, <2>2
  <2>. QED  BY <2>1, <2>2, <2>3 DEF Offered, Loading
<1>3. ASSUME NEW ofOut, NEW ofIn, Reset(ofOut, ofIn) PROVE Offered'
  <2>1. pend = "none" /\ UNCHANGED <<pend, packet, epBuf, epLen, ctrl, loaded, pc>>
    BY <1>3 DEF Reset
  <2>2. CASE UNCHANGED <<tx, hostIn, disturbed, got>>
    BY <1>0, <2>1, <2>2
  <2>3. CASE /\ tx' = [res |-> "nak", tog |-> 0] /\ hostIn' = 0
             /\ disturbed' = (pc \in {"len", "ctrl", "store"}) /\ got' = loaded
    BY <2>1, <2>3 DEF Offered, Loading
  <2>. QED  BY <1>3, <2>2, <2>3 DEF Reset
<1>4. CASE BleEvent
  <2>1. CASE ~(ble.count > 0 /\ ~EndpointBusy)
    <3>1. UNCHANGED <<pend, tx, hostIn, packet, epBuf, epLen, ctrl, got, loaded, disturbed, pc>>
      BY <1>4, <2>1 DEF BleEvent
    <3>. QED  BY <1>0, <3>1
  <2>2. CASE ble.count > 0 /\ ~EndpointBusy
    <3>1. PICK n \in 1 .. Load :
            /\ n = Smaller(ble.count, Load)
            /\ Front(ble, n) = Bytes(loaded, n)
            /\ Front(ble, n) \in Seq(Nat) /\ Len(Front(ble, n)) = n
            /\ \A i \in 1 .. n : Front(ble, n)[i] = loaded + i
      BY <2>2, LoadedIs
    <3>2. /\ epBuf' = [i \in DOMAIN epBuf |-> IF i <= n THEN Front(ble, n)[i] ELSE epBuf[i]]
          /\ packet' = Front(ble, n) /\ loaded' = loaded + n /\ pc' = "len" /\ pc = "idle"
          /\ disturbed' = (disturbed \/ tx.res = "ack")
          /\ UNCHANGED <<pend, tx, hostIn, epLen, ctrl, got>>
      BY <1>4, <2>2, <3>1 DEF BleEvent
    <3>3. ~disturbed /\ tx.res = "nak"
      BY <1>t, <3>2
    <3>4. got = loaded /\ tx.tog = hostIn /\ pend # "in"
      BY <3>2, <3>3 DEF Offered, Loading
    <3>5. Len(packet') = n /\ packet' \in Seq(Nat) /\ packet' = Bytes(got', n)
      BY <3>1, <3>2, <3>4
    <3>6. ASSUME NEW i \in 1 .. n PROVE epBuf'[i] = packet'[i]
      <4>1. i \in DOMAIN epBuf /\ i <= n
        BY Sizes DEF Others
      <4>. QED  BY <3>2, <4>1
    <3>7. got' + n = loaded'
      BY <1>t, <3>2, <3>4
    <3>. QED  BY <3>2, <3>3, <3>4, <3>5, <3>6, <3>7 DEF Offered, Loading
  <2>. QED  BY <2>1, <2>2
<1>5. CASE SetLen
  <2>1. /\ pc = "len" /\ epLen' = Len(packet) /\ pc' = "ctrl"
        /\ UNCHANGED <<pend, tx, hostIn, packet, epBuf, ctrl, got, loaded, disturbed>>
    BY <1>5 DEF SetLen, inHist
  <2>. QED  BY <2>1 DEF Offered, Loading
<1>6. CASE LoadCtrl
  <2>1. /\ pc = "ctrl" /\ ctrl' = tx.tog /\ pc' = "store"
        /\ UNCHANGED <<pend, tx, hostIn, packet, epBuf, epLen, got, loaded, disturbed>>
    BY <1>6 DEF LoadCtrl, inHist
  <2>. QED  BY <2>1 DEF Offered, Loading
<1>7. CASE StoreCtrl
  <2>1. /\ pc = "store" /\ tx' = [res |-> "ack", tog |-> ctrl] /\ pc' = "idle"
        /\ UNCHANGED <<pend, hostIn, packet, epBuf, epLen, got, loaded, disturbed>>
    BY <1>7 DEF StoreCtrl, inHist
  <2>2. /\ ctrl = hostIn /\ epLen = Len(packet) /\ Len(packet) \in 1 .. Load
        /\ packet = Bytes(got, epLen) /\ got + epLen = loaded
        /\ \A i \in 1 .. epLen : epBuf[i] = packet[i]
        /\ pend # "in"
    BY <2>1 DEF Offered, Loading
  <2>3. \A i \in 1 .. epLen : epBuf[i] = got + i
    <3>1. \A i \in 1 .. epLen : Bytes(got, epLen)[i] = got + i
      BY <1>t, BytesAre
    <3>. QED  BY <2>2, <3>1
  <2>4. epLen > 0
    BY <2>2
  <2>. QED  BY <2>1, <2>2, <2>3, <2>4 DEF Offered, Loading
<1>8. CASE IsrOut \/ IsrOutAgain
  <2>1. /\ pend # "in" /\ pend' # "in"
        /\ UNCHANGED <<tx, hostIn, packet, epBuf, epLen, ctrl, got, loaded, disturbed, pc>>
    BY <1>8 DEF IsrOut, IsrOutBlind, IsrOutAgain, inVars, inHist
  <2>. QED  BY <2>1 DEF Offered, Loading
<1>9. ASSUME NEW n, NEW heard, HostOut(n, heard) PROVE Offered'
  <2>1. /\ pend # "in" /\ pend' # "in"
        /\ UNCHANGED <<tx, hostIn, packet, epBuf, epLen, ctrl, got, loaded, disturbed, pc>>
    BY <1>9 DEF HostOut, inVars, inHist
  <2>. QED  BY <2>1 DEF Offered, Loading
<1>10. ASSUME NEW n, BleWrite(n) PROVE Offered'
  BY <1>0, <1>10 DEF BleWrite, inVars
<1>11. CASE UsbTimer \/ UsbEvent \/ Test \/ Copy \/ Notified \/ Refused \/ Delete
  BY <1>a, <1>11 DEF UsbTimer, UsbEvent, Test, Copy, Notified, Refused, Delete, inVars, inHist, Loading
<1>12. CASE BleTimer \/ Link \/ UNCHANGED vars
  BY <1>0, <1>12 DEF BleTimer, Link, vars, inVars, inHist
<1>. QED  BY <1>1, <1>2, <1>3, <1>4, <1>5, <1>6, <1>7, <1>8, <1>9, <1>10, <1>11, <1>12
          DEF Next, Host, Isr, Peer, UsbToBle, BleToUsb
----------------------------------------------------------------------------
LEMMA InvStep == IInv /\ [Next]_vars => IInv'
<1>. SUFFICES ASSUME IInv, [Next]_vars PROVE IInv'
  OBVIOUS
<1>1. Booleans /\ Others /\ Rings /\ Pass /\ Counting /\ Offered
  BY TypeParts DEF IInv
<1>2. Booleans' /\ Others' /\ Rings'
  BY <1>1, BooleansStep, OthersStep, RingsStep
<1>3. TypeOK'
  BY <1>2, TypeParts, PTL
<1>4. Pass' /\ Counting' /\ Offered'
  BY <1>1, PassStep, CountingStep, OfferedStep
<1>. QED  BY <1>2, <1>3, <1>4 DEF IInv

LEMMA Inductive == Spec => []IInv
BY InvInit, InvStep, PTL DEF Spec

(***************************************************************************)
(* The state keeps its types: no operation drives a pointer or a length of *)
(* either ring out of its range, whatever the two actors do (RingMem.c).   *)
(***************************************************************************)
THEOREM TypeCorrect == Spec => []TypeOK
<1>1. IInv => TypeOK
  BY DEF IInv
<1>. QED  BY <1>1, Inductive, PTL

(***************************************************************************)
(* From its read pointer on, either ring holds exactly the bytes accepted  *)
(* and not removed, oldest first, and its two lengths agree, with pointers *)
(* that stop at the edge (RingMem.c:46-290).                               *)
(***************************************************************************)
THEOREM RingsAreInOrder == Spec => []RingsHoldBacklog
<1>1. ASSUME NEW ring, NEW gone, NEW accepted, Holds(ring, gone, accepted)
      PROVE  Front(ring, ring.count) = Bytes(gone, accepted - gone) /\ ring.room = Size - ring.count
  <2>1. PICK c \in Nat, g \in Nat : c = ring.count /\ g = gone /\ accepted = g + c
    BY <1>1 DEF Holds, Ring
  <2>2. accepted - gone = c /\ c \in 0 .. ring.count
    BY <2>1
  <2>3. Front(ring, c) = Bytes(gone, c)
    BY <1>1, <2>2, FrontIsNext
  <2>4. ring.room = Size - ring.count
    BY <1>1 DEF Holds
  <2>. QED  BY <2>1, <2>2, <2>3, <2>4, Zenon
<1>2. IInv => RingsHoldBacklog
  BY <1>1 DEF IInv, Rings, RingsHoldBacklog
<1>. QED  BY <1>2, Inductive, PTL

(***************************************************************************)
(* A packet the host begins is dealt with once, however often a lost       *)
(* handshake makes it write the packet again, and over bus resets and      *)
(* cleared endpoints (ch32f20x_usbfs_device.c:292-325).                    *)
(***************************************************************************)
THEOREM PacketsAreDealtWithOnce == Spec => []DealtWithOnce
<1>1. IInv => DealtWithOnce
  BY DEF IInv, Counting
<1>. QED  BY <1>1, Inductive, PTL

(***************************************************************************)
(* What endpoint 2 offers the host next is the next of the peer's bytes,   *)
(* unless a packet was loaded over one that waits or was in the midst of   *)
(* being loaded at a reset (peripheral.c:389-470).                         *)
(***************************************************************************)
THEOREM HostIsOnTheByteDue == Spec => []HostGetsNextBytes
<1>1. IInv => HostGetsNextBytes
  <2>. SUFFICES ASSUME IInv, ~disturbed
                PROVE  IF tx.res = "ack" /\ tx.tog = hostIn
                       THEN SubSeq(epBuf, 1, epLen) = Bytes(got, epLen) /\ got + epLen = loaded
                       ELSE got = loaded \/ pc \in {"len", "ctrl", "store"}
    BY DEF HostGetsNextBytes
  <2>1. Offered /\ Others
    BY DEF IInv
  <2>2. CASE tx.res = "ack" /\ tx.tog = hostIn
    <3>1. got + epLen = loaded /\ \A i \in 1 .. epLen : epBuf[i] = got + i
      BY <2>1, <2>2 DEF Offered
    <3>2. epLen \in 0 .. Load /\ epBuf \in [1 .. Load -> Nat]
      BY <2>1 DEF Others
    <3>3. SubSeq(epBuf, 1, epLen) = [i \in 1 .. epLen |-> epBuf[i]]
      BY <3>2
    <3>4. SubSeq(epBuf, 1, epLen) = Bytes(got, epLen)
      BY <3>1, <3>3 DEF Bytes
    <3>. QED  BY <2>2, <3>1, <3>4
  <2>3. CASE ~(tx.res = "ack" /\ tx.tog = hostIn)
    BY <2>1, <2>3 DEF Offered, Loading
  <2>. QED  BY <2>2, <2>3
<1>. QED  BY <1>1, Inductive, PTL

(***************************************************************************)
(* A notification carries the oldest bytes of the ring, and what is then   *)
(* deleted is what was notified, for every MTU up to 258.  With a larger   *)
(* one the length of either is the same in the byte app_usb_notify counts  *)
(* with (peripheral.c:817), and no more than that holds.  Exempt is a pass *)
(* that sends the rest while the interrupt accepts a packet                *)
(* (peripheral.c:380-407).                                                 *)
(***************************************************************************)
THEOREM PeerIsOnTheByteDue == Spec => PeerGetsNextBytes
<1>1. ASSUME IInv, [Next]_vars
      PROVE  /\ sent' \notin {sent, <<>>} => raced \/ sent' = Bytes(popped, Len(sent'))
             /\ popped' # popped =>
                  \/ raced
                  \/ popped' = popped + Len(sent)
                  \/ mtu >= ByteRange /\ Len(sent) = (popped' - popped) % ByteRange
  <2>. USE DEF evtVars, inHist, outHist
  <2>1. Others /\ Rings /\ Pass
    BY <1>1 DEF IInv
  <2>2. popped \in Nat
    BY <2>1 DEF Rings, Holds
  <2>3. PICK c \in Nat : c = usb.count
    BY <2>1 DEF Rings, Holds, Ring
  <2>4. CASE Notified
    <3>1. /\ pc = "notify" /\ UNCHANGED popped
          /\ sent' = [i \in 1 .. InAByte |-> IF i \in DOMAIN buf THEN buf[i] ELSE 0]
      BY <2>4 DEF Notified
    <3>2. InAByte \in Nat
      <4>1. Length \in Nat
        BY <2>1, <2>3, <3>1, LengthFits DEF Passing
      <4>. QED  BY <4>1, ByteIs
    <3>3. ~raced => sent' = Bytes(popped, InAByte)
      BY <2>1, <3>1, NotedIs
    <3>4. Len(Bytes(popped, InAByte)) = InAByte
      BY <2>2, <3>2, BytesAre
    <3>. QED  BY <3>1, <3>3, <3>4
  <2>5. CASE Delete
    <3>1. pc = "delete" /\ popped' = popped + Length /\ sent' = sent
      BY <2>5 DEF Delete
    <3>2. PICK n \in Nat : n = Length /\ (~raced => n <= mtu)
      <4>1. mtu \in Nat
        BY <2>1, Sizes DEF Others
      <4>. QED  BY <2>1, <2>3, <3>1, <4>1, LengthFits DEF Passing
    <3>3. InAByte \in Nat /\ (n < ByteRange => InAByte = n)
      BY <3>2, ByteIs
    <3>4. ~raced => sent = Bytes(popped, InAByte)
      BY <2>1, <3>1 DEF Pass, Passing
    <3>5. Len(Bytes(popped, InAByte)) = InAByte
      BY <2>2, <3>3, BytesAre
    <3>6. popped' - popped = n
      BY <2>2, <3>1, <3>2
    <3>7. ~raced => Len(sent) = InAByte /\ InAByte = (popped' - popped) % ByteRange
      BY <3>2, <3>4, <3>5, <3>6 DEF InAByte
    <3>8. CASE n < ByteRange
      BY <3>1, <3>2, <3>3, <3>7, <3>8
    <3>9. CASE ~(n < ByteRange)
      <4>1. ~raced => mtu >= ByteRange
        BY <2>1, <3>2, <3>9, Sizes DEF Others
      <4>. QED  BY <3>1, <3>7, <4>1
    <3>. QED  BY <3>8, <3>9
  <2>6. ASSUME ~Notified, ~Delete PROVE UNCHANGED popped /\ (UNCHANGED sent \/ sent' = <<>>)
    <3>1. ASSUME NEW n, NEW heard, HostOut(n, heard) PROVE UNCHANGED <<popped, sent>>
      BY <3>1 DEF HostOut
    <3>2. ASSUME NEW heard, HostIn(heard) PROVE UNCHANGED <<popped, sent>>
      BY <3>2 DEF HostIn
    <3>3. ASSUME NEW ofOut, NEW ofIn, Reset(ofOut, ofIn) PROVE UNCHANGED <<popped, sent>>
      BY <3>3 DEF Reset
    <3>4. ASSUME NEW n, BleWrite(n) PROVE UNCHANGED <<popped, sent>>
      BY <3>4 DEF BleWrite
    <3>5. CASE IsrOut \/ IsrOutAgain \/ IsrIn \/ Link
      BY <3>5 DEF IsrOut, IsrOutBlind, IsrOutAgain, IsrIn, Link
    <3>6. CASE UsbTimer \/ UsbEvent \/ Test \/ Copy \/ Refused
      BY <3>6 DEF UsbTimer, UsbEvent, Test, Copy, Refused
    <3>7. CASE BleToUsb \/ UNCHANGED vars
      BY <3>7 DEF BleToUsb, BleTimer, BleEvent, SetLen, LoadCtrl, StoreCtrl, vars
    <3>. QED  BY <1>1, <2>6, <3>1, <3>2, <3>3, <3>4, <3>5, <3>6, <3>7
              DEF Next, Host, Isr, Peer, UsbToBle
  <2>. QED  BY <2>4, <2>5, <2>6
<1>. QED  BY <1>1, Inductive, PTL DEF Spec, PeerGetsNextBytes
=============================================================================
