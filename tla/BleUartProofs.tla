---------------------------- MODULE BleUartProofs ----------------------------
(***************************************************************************)
(* Theorems about BleUart for every size of the FIFO and the packets and   *)
(* any number of bytes.                                                    *)
(***************************************************************************)
EXTENDS BleUart, SequenceTheorems, TLAPS

Backlog == pushed - popped

(***************************************************************************)
(* The inductive invariant.  Fifo is FifoHoldsBacklog by the counters      *)
(* themselves; Writers is why a write of several bytes, cut by the         *)
(* interrupt, never passes the room it counted on unless the race is       *)
(* recorded; Numbers is what a refused packet is worth.                    *)
(***************************************************************************)
Fifo ==
  (~raced /\ pc # "flush") =>
    /\ Backlog \in 0 .. Size
    /\ end = (begin + Backlog) % W16
    /\ \A i \in 1 .. Backlog : data[(begin + i - 1) % Size] = popped + i

Writers ==
  /\ pushed + left <= MaxBytes
  /\ pc = "store" => left > 0
  /\ pc = "flush" => begin = 0 /\ ~failed
  /\ (pc \in {"next", "store"} /\ ~raced) => Backlog + left <= Size
  /\ (pc = "store" /\ ~raced) => old = end /\ data[end % Size] = pushed + 1

NumbersFrom(s, k) == \A i \in DOMAIN s : s[i] = k + i
Blurred(s) == \A i \in DOMAIN s : s[i] = 0
Numbers ==
  /\ ~failed => got = popped
  /\ failed => Blurred(note) \/ NumbersFrom(note, got)

(* TypeOK in three parts, that take provers of their own. *)
Booleans ==
  /\ rxFlag \in BOOLEAN /\ evt \in BOOLEAN /\ failed \in BOOLEAN
  /\ conn \in BOOLEAN /\ notify \in BOOLEAN /\ raced \in BOOLEAN
Flags == (notify => conn) /\ (failed <=> note # <<>>)
Others ==
  /\ data \in [0 .. Size - 1 -> Nat]
  /\ begin \in 0 .. W16 - 1 /\ end \in 0 .. W16 - 1 /\ old \in 0 .. W16 - 1
  /\ cnt \in 0 .. Patience + 1
  /\ note \in Seq(Nat) /\ sent \in Seq(Nat) /\ Len(note) <= Payload /\ Len(sent) <= Payload
  /\ pc \in {"idle", "next", "store", "flush"}
  /\ left \in 0 .. Size
  /\ pushed \in 0 .. MaxBytes /\ popped \in 0 .. MaxBytes /\ got \in 0 .. MaxBytes

IInv == TypeOK /\ Fifo /\ Writers /\ Numbers

LEMMA TypeParts == TypeOK <=> Booleans /\ Flags /\ Others
<1>1. TypeOK => Booleans
  BY Zenon DEF TypeOK, Booleans
<1>2. TypeOK => Others
  BY DEF TypeOK, Others
<1>3. TypeOK => Flags
  BY Zenon DEF TypeOK, Flags
<1>4. Booleans => {rxFlag, evt, failed, conn, notify, raced} \subseteq BOOLEAN
  BY Zenon DEF Booleans
<1>5. Others => /\ {begin, end, old} \subseteq 0 .. W16 - 1
                /\ {note, sent} \subseteq Seq(Nat)
                /\ {pushed, popped, got} \subseteq 0 .. MaxBytes
  BY DEF Others
<1>6. /\ Others /\ Flags /\ {rxFlag, evt, failed, conn, notify, raced} \subseteq BOOLEAN
      /\ {begin, end, old} \subseteq 0 .. W16 - 1
      /\ {note, sent} \subseteq Seq(Nat)
      /\ {pushed, popped, got} \subseteq 0 .. MaxBytes
      => TypeOK
  BY Zenon DEF TypeOK, Others, Flags
<1>. QED  BY <1>1, <1>2, <1>3, <1>4, <1>5, <1>6
----------------------------------------------------------------------------
(***************************************************************************)
(* Remainders.                                                             *)
(***************************************************************************)
LEMMA ModRange ==
  ASSUME NEW a \in Nat, NEW b \in Nat \ {0}
  PROVE  /\ a % b \in 0 .. b - 1 /\ a % b <= a
         /\ a \div b \in Nat /\ a = (a \div b) * b + (a % b)
<1>1. /\ a \div b \in Nat /\ a % b \in 0 .. b - 1
      /\ a = b * (a \div b) + (a % b)
  OBVIOUS
<1>2. PICK q \in Nat : q = a \div b
  BY <1>1
<1>3. PICK r \in 0 .. b - 1 : r = a % b
  BY <1>1
<1>4. a = b * q + r
  BY <1>1, <1>2, <1>3
<1>5. b * q = q * b /\ b * q \in Nat
  OBVIOUS
<1>. QED  BY <1>1, <1>2, <1>3, <1>4, <1>5

LEMMA ModUnique ==
  ASSUME NEW b \in Nat \ {0}, NEW q \in Nat, NEW r \in 0 .. b - 1
  PROVE  (q * b + r) % b = r
<1>1. PICK a \in Nat : a = q * b + r
  OBVIOUS
<1>2. PICK p \in Nat : p = a \div b
  BY ModRange
<1>3. PICK s \in 0 .. b - 1 : s = a % b
  BY ModRange
<1>4. p * b + s = q * b + r
  BY <1>1, <1>2, <1>3, ModRange
<1>5. CASE p < q
  <2>1. PICK d \in Nat : q = p + d + 1
    BY <1>5, q - p - 1 \in Nat, q = p + (q - p - 1) + 1
  <2>2. q * b = p * b + d * b + b /\ d * b \in Nat /\ p * b \in Nat
    BY <2>1
  <2>. QED  BY <1>4, <2>2
<1>6. CASE q < p
  <2>1. PICK d \in Nat : p = q + d + 1
    BY <1>6, p - q - 1 \in Nat, p = q + (p - q - 1) + 1
  <2>2. p * b = q * b + d * b + b /\ d * b \in Nat /\ q * b \in Nat
    BY <2>1
  <2>. QED  BY <1>4, <2>2
<1>7. CASE p = q
  <2>1. q * b \in Nat
    OBVIOUS
  <2>. QED  BY <1>1, <1>3, <1>4, <1>7, <2>1
<1>. QED  BY <1>5, <1>6, <1>7

LEMMA ModSmall ==
  ASSUME NEW b \in Nat \ {0}, NEW r \in 0 .. b - 1
  PROVE  r % b = r
<1>1. 0 * b + r = r
  OBVIOUS
<1>. QED  BY <1>1, ModUnique, 0 \in Nat

(* On a ring of b cells, one lap on. *)
LEMMA ModLap ==
  ASSUME NEW b \in Nat \ {0}, NEW x \in 0 .. 2 * b - 1
  PROVE  x % b = IF x < b THEN x ELSE x - b
<1>1. CASE x < b
  BY <1>1, ModSmall, x \in 0 .. b - 1
<1>2. CASE x >= b
  <2>1. x - b \in 0 .. b - 1 /\ 1 * b + (x - b) = x
    BY <1>2
  <2>2. (1 * b + (x - b)) % b = x - b
    BY <2>1, ModUnique, 1 \in Nat
  <2>. QED  BY <1>2, <2>1, <2>2
<1>. QED  BY <1>1, <1>2

LEMMA ModShift ==
  ASSUME NEW a \in Nat, NEW b \in Nat \ {0}, NEW q \in Nat
  PROVE  (q * b + a) % b = a % b
<1>1. PICK p \in Nat : p = a \div b
  BY ModRange
<1>2. PICK r \in 0 .. b - 1 : r = a % b
  BY ModRange
<1>3. a = p * b + r /\ p * b \in Nat
  BY <1>1, <1>2, ModRange
<1>4. (q + p) * b = q * b + p * b /\ q * b \in Nat
  OBVIOUS
<1>5. q * b + a = (q + p) * b + r
  BY <1>3, <1>4
<1>6. ((q + p) * b + r) % b = r
  BY ModUnique, q + p \in Nat
<1>. QED  BY <1>2, <1>5, <1>6

LEMMA ModPlus ==
  ASSUME NEW a \in Nat, NEW b \in Nat \ {0}, NEW c \in Nat
  PROVE  ((a % b) + c) % b = (a + c) % b
<1>1. PICK p \in Nat : p = a \div b
  BY ModRange
<1>2. PICK r \in 0 .. b - 1 : r = a % b
  BY ModRange
<1>3. a + c = p * b + (r + c)
  BY <1>1, <1>2, ModRange
<1>4. (p * b + (r + c)) % b = (r + c) % b
  BY ModShift, r + c \in Nat
<1>. QED  BY <1>2, <1>3, <1>4

(* A counter that wraps at a multiple of the size of the ring. *)
LEMMA ModNested ==
  ASSUME NEW a \in Nat, NEW b \in Nat \ {0}, NEW w \in Nat \ {0}, w % b = 0
  PROVE  (a % w) % b = a % b
<1>1. PICK p \in Nat : p = a \div w
  BY ModRange
<1>2. PICK r \in 0 .. w - 1 : r = a % w
  BY ModRange
<1>3. PICK k \in Nat : k = w \div b
  BY ModRange
<1>4. a = p * w + r
  BY <1>1, <1>2, ModRange
<1>5. w = k * b
  <2>1. w = (w \div b) * b + (w % b)
    BY ModRange
  <2>2. w = k * b + 0
    BY <1>3, <2>1
  <2>. QED  BY <2>2
<1>6. p * w = (p * k) * b /\ p * k \in Nat
  BY <1>5
<1>7. ((p * k) * b + r) % b = r % b
  <2>1. r \in Nat
    OBVIOUS
  <2>. QED  BY <1>6, <2>1, ModShift
<1>. QED  BY <1>2, <1>4, <1>6, <1>7

LEMMA ModDistinct ==
  ASSUME NEW a \in Nat, NEW b \in Nat \ {0}, NEW i \in 0 .. b - 1, NEW j \in 0 .. b - 1, i < j
  PROVE  (a + i) % b # (a + j) % b
<1>1. PICK r \in 0 .. b - 1 : r = a % b
  BY ModRange
<1>2. (a + i) % b = (r + i) % b /\ (a + j) % b = (r + j) % b
  <2>1. i \in Nat /\ j \in Nat
    OBVIOUS
  <2>2. ((a % b) + i) % b = (a + i) % b
    BY <2>1, ModPlus
  <2>3. ((a % b) + j) % b = (a + j) % b
    BY <2>1, ModPlus
  <2>. QED  BY <1>1, <2>2, <2>3
<1>3. (r + i) % b = IF r + i < b THEN r + i ELSE r + i - b
  <2>1. PICK x \in 0 .. 2 * b - 1 : x = r + i
    OBVIOUS
  <2>2. x % b = IF x < b THEN x ELSE x - b
    BY ModLap
  <2>. QED  BY <2>1, <2>2
<1>4. (r + j) % b = IF r + j < b THEN r + j ELSE r + j - b
  <2>1. PICK x \in 0 .. 2 * b - 1 : x = r + j
    OBVIOUS
  <2>2. x % b = IF x < b THEN x ELSE x - b
    BY ModLap
  <2>. QED  BY <2>1, <2>2
<1>. QED  BY <1>2, <1>3, <1>4
----------------------------------------------------------------------------
LEMMA Sizes ==
  /\ Size \in Nat \ {0} /\ W16 \in Nat \ {0} /\ Payload \in Nat /\ Patience \in Nat
  /\ MaxBytes \in Nat /\ 0 < Payload /\ Payload <= Size /\ 2 * Size < W16 /\ W16 % Size = 0
BY SizesAssumption

(***************************************************************************)
(* The counters and the cells.                                             *)
(***************************************************************************)
LEMMA LengthRange ==
  ASSUME Others
  PROVE  Length \in 0 .. W16 - 1 /\ Room \in 0 .. W16 - 1
<1>1. PICK l \in Nat : l = end - begin + W16
  BY Sizes DEF Others
<1>2. l % W16 \in 0 .. W16 - 1
  BY Sizes, ModRange
<1>3. Length \in 0 .. W16 - 1
  BY <1>1, <1>2 DEF Length
<1>4. PICK r \in Nat : r = Size - Length + W16
  BY <1>3, Sizes
<1>5. r % W16 \in 0 .. W16 - 1
  BY Sizes, ModRange
<1>. QED  BY <1>3, <1>4, <1>5 DEF Room

LEMMA CounterStep ==
  ASSUME NEW c \in Nat
  PROVE  (c + 1) % W16 \in 0 .. W16 - 1
BY Sizes, ModRange, c + 1 \in Nat

(* Between two counters, the second n ahead of the first. *)
LEMMA Difference ==
  ASSUME NEW b \in 0 .. W16 - 1, NEW n \in 0 .. Size
  PROVE  (((b + n) % W16) - b + W16) % W16 = n
<1>1. PICK x \in 0 .. 2 * W16 - 1 : x = b + n
  BY Sizes
<1>2. x % W16 = IF x < W16 THEN x ELSE x - W16
  BY Sizes, ModLap
<1>3. PICK z \in Int : z = x % W16 /\ z = IF x < W16 THEN x ELSE x - W16
  BY <1>2, Sizes
<1>4. PICK y \in 0 .. 2 * W16 - 1 : y = z - b + W16
  BY <1>1, <1>3, Sizes
<1>5. y % W16 = IF y < W16 THEN y ELSE y - W16
  BY Sizes, ModLap
<1>6. y % W16 = n
  BY <1>1, <1>3, <1>4, <1>5, Sizes
<1>. QED  BY <1>1, <1>3, <1>4, <1>6

LEMMA LengthIs ==
  ASSUME Others, Fifo, ~raced, pc # "flush"
  PROVE  Length = Backlog /\ Room = Size - Backlog /\ Backlog \in 0 .. Size
<1>1. PICK n \in 0 .. Size : n = Backlog
  BY DEF Fifo
<1>2. PICK b \in 0 .. W16 - 1 : b = begin
  BY DEF Others
<1>3. end = (b + n) % W16
  BY <1>1, <1>2 DEF Fifo
<1>4. Length = n
  BY <1>2, <1>3, Difference DEF Length
<1>5. PICK x \in 0 .. 2 * W16 - 1 : x = Size - n + W16
  BY Sizes
<1>6. x % W16 = IF x < W16 THEN x ELSE x - W16
  BY Sizes, ModLap
<1>7. Room = Size - n
  BY <1>4, <1>5, <1>6, Sizes DEF Room
<1>. QED  BY <1>1, <1>4, <1>7

(* A cell counted from a counter that has wrapped. *)
LEMMA CellShift ==
  ASSUME NEW a \in Nat, NEW c \in Nat
  PROVE  ((a % W16) + c) % Size = (a + c) % Size
<1>1. PICK x \in Nat : x = a % W16
  BY Sizes, ModRange
<1>2. ((x % Size) + c) % Size = (x + c) % Size
  BY Sizes, ModPlus
<1>3. x % Size = a % Size
  BY <1>1, Sizes, ModNested
<1>4. ((a % Size) + c) % Size = (a + c) % Size
  BY Sizes, ModPlus
<1>. QED  BY <1>1, <1>2, <1>3, <1>4

(* The cell of the next byte is none of those in use. *)
LEMMA NextCell ==
  ASSUME Others, Fifo, ~raced, pc # "flush", Backlog < Size
  PROVE  /\ end % Size \in 0 .. Size - 1
         /\ end % Size = (begin + (Backlog + 1) - 1) % Size
         /\ \A i \in 1 .. Backlog : /\ (begin + i - 1) % Size # end % Size
                                    /\ (begin + i - 1) % Size \in 0 .. Size - 1
         /\ (end + 1) % W16 = (begin + (Backlog + 1)) % W16
<1>1. PICK n \in 0 .. Size : n = Backlog /\ n < Size
  BY DEF Fifo
<1>2. PICK b \in Nat : b = begin
  BY Sizes DEF Others
<1>3. end = (b + n) % W16 /\ end \in Nat
  BY <1>1, <1>2, Sizes DEF Fifo, Others
<1>4. ((b + n) % W16) % Size = (b + n) % Size
  BY Sizes, ModNested, b + n \in Nat
<1>5. end % Size = (b + (n + 1) - 1) % Size
  <2>1. b + (n + 1) - 1 = b + n
    OBVIOUS
  <2>. QED  BY <1>3, <1>4, <2>1
<1>6. end % Size \in 0 .. Size - 1
  BY <1>3, Sizes, ModRange
<1>7. ASSUME NEW i \in 1 .. n
      PROVE  (b + i - 1) % Size # end % Size /\ (b + i - 1) % Size \in 0 .. Size - 1
  <2>1. PICK j \in 0 .. Size - 1 : j = i - 1 /\ j < n /\ b + i - 1 = b + j
    BY <1>1, Sizes
  <2>2. n \in 0 .. Size - 1
    BY <1>1, Sizes
  <2>3. (b + j) % Size # (b + n) % Size
    BY <2>1, <2>2, Sizes, ModDistinct
  <2>4. (b + j) % Size \in 0 .. Size - 1
    BY Sizes, ModRange, b + j \in Nat
  <2>. QED  BY <1>3, <1>4, <2>1, <2>3, <2>4
<1>8. (end + 1) % W16 = (b + (n + 1)) % W16
  <2>1. (((b + n) % W16) + 1) % W16 = (b + n + 1) % W16
    BY Sizes, ModPlus, b + n \in Nat, 1 \in Nat
  <2>2. b + n + 1 = b + (n + 1)
    OBVIOUS
  <2>. QED  BY <1>3, <2>1, <2>2
<1>. QED  BY <1>1, <1>2, <1>5, <1>6, <1>7, <1>8

(* What is read, and what is left behind it. *)
LEMMA Advance ==
  ASSUME Others, Fifo, ~raced, pc # "flush", NEW k \in 0 .. Backlog
  PROVE  /\ end = (((begin + k) % W16) + (Backlog - k)) % W16
         /\ \A i \in 1 .. Backlog - k :
              data[(((begin + k) % W16) + i - 1) % Size] = popped + k + i
<1>1. PICK n \in 0 .. Size : n = Backlog /\ k \in 0 .. n
  BY DEF Fifo
<1>2. PICK b \in Nat : b = begin
  BY Sizes DEF Others
<1>3. end = (((b + k) % W16) + (n - k)) % W16
  <2>1. PICK c \in Nat : c = n - k
    BY <1>1
  <2>2. (((b + k) % W16) + c) % W16 = (b + k + c) % W16
    BY Sizes, ModPlus, b + k \in Nat
  <2>3. b + k + c = b + n
    BY <1>1, <2>1
  <2>. QED  BY <1>1, <1>2, <2>1, <2>2, <2>3 DEF Fifo
<1>4. ASSUME NEW i \in 1 .. n - k
      PROVE  data[(((b + k) % W16) + i - 1) % Size] = popped + k + i
  <2>1. PICK c \in Nat : c = i - 1
    OBVIOUS
  <2>2. (((b + k) % W16) + c) % Size = (b + k + c) % Size
    BY CellShift, b + k \in Nat
  <2>3. PICK x \in 0 .. W16 - 1 : x = (b + k) % W16
    BY Sizes, ModRange, b + k \in Nat
  <2>4. x + i - 1 = x + c /\ b + k + c = b + (k + i) - 1 /\ k + i \in 1 .. n
    BY <1>1, <2>1
  <2>5. data[(b + (k + i) - 1) % Size] = popped + (k + i)
    BY <1>1, <1>2, <2>4 DEF Fifo
  <2>6. popped + (k + i) = popped + k + i
    BY DEF Others
  <2>. QED  BY <2>2, <2>3, <2>4, <2>5, <2>6
<1>. QED  BY <1>1, <1>2, <1>3, <1>4

(* The packet that is taken. *)
LEMMA Packet ==
  ASSUME Others
  PROVE  /\ ReadLen \in 0 .. Payload /\ ReadLen <= Length /\ (Length > 0 => ReadLen > 0)
         /\ Bytes \in Seq(Nat) /\ Len(Bytes) = ReadLen
         /\ raced => Blurred(Bytes)
         /\ (Fifo /\ ~raced /\ pc # "flush") => NumbersFrom(Bytes, popped)
<1>1. ReadLen \in 0 .. Payload /\ ReadLen <= Length /\ (Length > 0 => ReadLen > 0)
  BY LengthRange, Sizes DEF ReadLen, Smaller
<1>2. PICK k \in 0 .. Payload : k = ReadLen
  BY <1>1
<1>3. Bytes = [i \in 1 .. k |-> IF raced THEN 0 ELSE data[(begin + i - 1) % Size]]
  BY <1>2 DEF Bytes
<1>4. ASSUME NEW i \in 1 .. k PROVE data[(begin + i - 1) % Size] \in Nat
  <2>1. PICK a \in Nat : a = begin + i - 1
    BY Sizes DEF Others
  <2>2. a % Size \in 0 .. Size - 1
    BY Sizes, ModRange
  <2>. QED  BY <2>1, <2>2 DEF Others
<1>5. \A i \in 1 .. k : (IF raced THEN 0 ELSE data[(begin + i - 1) % Size]) \in Nat
  BY <1>4
<1>6. k \in Nat
  BY Sizes
<1>7. Bytes \in Seq(Nat) /\ Len(Bytes) = k /\ DOMAIN Bytes = 1 .. k
  BY <1>3, <1>5, <1>6
<1>8. raced => Blurred(Bytes)
  BY <1>3, <1>7 DEF Blurred
<1>9. (Fifo /\ ~raced /\ pc # "flush") => NumbersFrom(Bytes, popped)
  <2>. SUFFICES ASSUME Fifo, ~raced, pc # "flush", NEW i \in 1 .. k
                PROVE  Bytes[i] = popped + i
    BY <1>7 DEF NumbersFrom
  <2>1. i \in 1 .. Backlog
    BY <1>1, <1>2, LengthIs
  <2>. QED  BY <1>3, <2>1 DEF Fifo
<1>. QED  BY <1>1, <1>2, <1>7, <1>8, <1>9
----------------------------------------------------------------------------
LEMMA InvInit == Init => IInv
<1>. SUFFICES ASSUME Init PROVE IInv
  OBVIOUS
<1>1. Booleans
  BY Zenon DEF Init, Booleans
<1>2. Flags /\ Others
  BY Sizes DEF Init, Flags, Others
<1>3. Fifo
  <2>1. 0 % W16 = 0
    BY Sizes, ModSmall, 0 \in 0 .. W16 - 1
  <2>. QED  BY <2>1, Sizes DEF Init, Fifo, Backlog
<1>4. Writers /\ Numbers
  BY Sizes DEF Init, Writers, Numbers
<1>. QED  BY <1>1, <1>2, <1>3, <1>4, TypeParts DEF IInv
----------------------------------------------------------------------------
(***************************************************************************)
(* Types.                                                                  *)
(***************************************************************************)
LEMMA BooleansStep == Booleans /\ [Next]_vars => Booleans'
<1>. SUFFICES ASSUME Booleans, [Next]_vars PROVE Booleans'
  OBVIOUS
<1>1. CASE UartRx
  <2>1. raced' \in BOOLEAN
    BY <1>1 DEF UartRx, Settle, Booleans
  <2>. QED  BY <1>1, <2>1, Zenon DEF UartRx, Booleans, sendVars, linkVars
<1>2. CASE Link
  <2>1. notify' \in BOOLEAN
    BY <1>2 DEF Link, Booleans
  <2>. QED  BY <1>2, <2>1, Zenon DEF Link, Booleans, sendVars, histVars
<1>3. ASSUME NEW n, Echo(n) PROVE Booleans'
  BY <1>3, Zenon DEF Echo, Booleans, sendVars, linkVars, histVars
<1>4. CASE EchoByte \/ EchoEnd
  BY <1>4, Zenon DEF EchoByte, EchoEnd, Booleans, sendVars, linkVars, histVars
<1>5. CASE EchoDone
  <2>1. raced' \in BOOLEAN
    BY <1>5 DEF EchoDone, Settle
  <2>. QED  BY <1>5, <2>1, Zenon DEF EchoDone, Booleans, linkVars
<1>6. CASE AppProcess \/ NotReady \/ FlushEnd \/ Wait \/ ReadsNothing
  BY <1>6, Zenon DEF AppProcess, NotReady, FlushEnd, Wait, ReadsNothing, Booleans,
                     sendVars, linkVars, histVars
<1>7. ASSUME NEW ok \in BOOLEAN, SendNew(ok) PROVE Booleans'
  <2>1. raced' \in BOOLEAN
    BY <1>7 DEF SendNew
  <2>. QED  BY <1>7, <2>1, Zenon DEF SendNew, Offer, Booleans, linkVars
<1>8. ASSUME NEW ok \in BOOLEAN, SendAgain(ok) PROVE Booleans'
  BY <1>8, Zenon DEF SendAgain, Offer, Booleans, linkVars
<1>9. CASE UNCHANGED vars
  BY <1>9, Zenon DEF vars, Booleans, sendVars, linkVars, histVars
<1>. QED  BY <1>1, <1>2, <1>3, <1>4, <1>5, <1>6, <1>7, <1>8, <1>9 DEF Next, EchoSteps, SendEvt

LEMMA FlagsStep == Others /\ Flags /\ [Next]_vars => Flags'
<1>. SUFFICES ASSUME Others, Flags, [Next]_vars PROVE Flags'
  OBVIOUS
<1>. USE DEF Flags
<1>1. CASE UartRx \/ AppProcess \/ EchoSteps
  BY <1>1 DEF UartRx, AppProcess, EchoSteps, Echo, EchoByte, EchoEnd, EchoDone, sendVars, linkVars
<1>2. CASE Link
  BY <1>2 DEF Link, sendVars
<1>3. CASE NotReady \/ FlushEnd \/ Wait \/ ReadsNothing
  BY <1>3 DEF NotReady, FlushEnd, Wait, ReadsNothing, sendVars, linkVars
<1>4. ASSUME NEW ok \in BOOLEAN, SendNew(ok) PROVE Flags'
  <2>1. Length > 0
    BY <1>4, LengthRange, Sizes DEF SendNew
  <2>2. Bytes # <<>>
    BY <2>1, Packet
  <2>. QED  BY <1>4, <2>2 DEF SendNew, Offer, linkVars
<1>5. ASSUME NEW ok \in BOOLEAN, SendAgain(ok) PROVE Flags'
  BY <1>5 DEF SendAgain, Offer, linkVars
<1>6. CASE UNCHANGED vars
  BY <1>6 DEF vars, sendVars, linkVars
<1>. QED  BY <1>1, <1>2, <1>3, <1>4, <1>5, <1>6 DEF Next, SendEvt

LEMMA OthersStep == Others /\ Fifo /\ Writers /\ [Next]_vars => Others'
<1>. SUFFICES ASSUME Others, Fifo, Writers, [Next]_vars PROVE Others'
  OBVIOUS
<1>. USE DEF Others
<1>1. CASE UartRx
  <2>1. end' \in 0 .. W16 - 1
    BY <1>1, Sizes, CounterStep DEF UartRx
  <2>2. pushed' \in 0 .. MaxBytes
    BY <1>1, Sizes DEF UartRx
  <2>3. popped' \in 0 .. MaxBytes /\ got' \in 0 .. MaxBytes
    BY <1>1, <2>2 DEF UartRx, Settle
  <2>4. data' \in [0 .. Size - 1 -> Nat]
    <3>1. PICK v \in Nat : v = IF raced \/ Meets THEN 0 ELSE pushed + 1
      OBVIOUS
    <3>. QED  BY <1>1, <3>1 DEF UartRx
  <2>. QED  BY <1>1, <2>1, <2>2, <2>3, <2>4 DEF UartRx, sendVars, loopVars
<1>2. CASE Link
  BY <1>2 DEF Link, fifoVars, sendVars, loopVars, histVars
<1>3. ASSUME NEW n \in 1 .. Size, Echo(n) PROVE Others'
  <2>1. left' \in 0 .. Size
    BY <1>3, LengthRange, Sizes DEF Echo, Smaller
  <2>. QED  BY <1>3, <2>1 DEF Echo, fifoVars, sendVars, histVars
<1>4. CASE EchoByte
  <2>1. data' \in [0 .. Size - 1 -> Nat]
    <3>1. PICK v \in Nat : v = IF raced THEN 0 ELSE pushed + 1
      OBVIOUS
    <3>. QED  BY <1>4, <3>1 DEF EchoByte
  <2>. QED  BY <1>4, <2>1 DEF EchoByte, sendVars, histVars
<1>5. CASE EchoEnd
  <2>1. end' \in 0 .. W16 - 1
    BY <1>5, Sizes, CounterStep DEF EchoEnd
  <2>2. left' \in 0 .. Size /\ pushed' \in 0 .. MaxBytes
    BY <1>5, Sizes DEF EchoEnd, Writers
  <2>. QED  BY <1>5, <2>1, <2>2, Sizes DEF EchoEnd, sendVars
<1>6. CASE EchoDone
  BY <1>6 DEF EchoDone, Settle, fifoVars
<1>7. CASE AppProcess \/ NotReady \/ FlushEnd \/ Wait \/ ReadsNothing
  <2>1. CASE AppProcess
    BY <2>1 DEF AppProcess, fifoVars, loopVars, histVars
  <2>5. CASE Wait
    <3>1. cnt' \in 0 .. Patience + 1
      BY <2>5, Sizes DEF Wait
    <3>. QED  BY <2>5, <3>1 DEF Wait, fifoVars, loopVars, histVars
  <2>2. CASE NotReady
    BY <2>2, Sizes DEF NotReady, histVars
  <2>3. CASE FlushEnd
    BY <2>3, Sizes DEF FlushEnd, sendVars
  <2>4. CASE ReadsNothing
    BY <2>4, Sizes DEF ReadsNothing, fifoVars, loopVars, histVars
  <2>. QED  BY <1>7, <2>1, <2>2, <2>3, <2>4, <2>5
<1>8. ASSUME NEW ok \in BOOLEAN, SendNew(ok) PROVE Others'
  <2>1. begin' \in 0 .. W16 - 1
    <3>1. PICK a \in Nat : a = begin + ReadLen
      BY Packet, Sizes
    <3>. QED  BY <1>8, <3>1, Sizes, ModRange DEF SendNew
  <2>2. popped' \in 0 .. MaxBytes
    <3>1. CASE raced
      BY <1>8, <3>1 DEF SendNew
    <3>2. CASE ~raced
      <4>1. ReadLen <= Backlog /\ ReadLen \in Nat
        <5>1. pc # "flush"
          BY <1>8 DEF SendNew
        <5>2. Length = Backlog
          BY <3>2, <5>1, LengthIs
        <5>. QED  BY <5>2, Packet, Sizes
      <4>. QED  BY <1>8, <3>2, <4>1, Sizes DEF SendNew, Backlog
    <3>. QED  BY <3>1, <3>2
  <2>3. note' \in Seq(Nat) /\ sent' \in Seq(Nat) /\ Len(note') <= Payload /\ Len(sent') <= Payload
    <3>1. Bytes \in Seq(Nat) /\ Len(Bytes) <= Payload
      BY Packet, Sizes
    <3>2. <<>> \in Seq(Nat) /\ Len(<<>>) <= Payload
      BY Sizes
    <3>. QED  BY <1>8, <3>1, <3>2 DEF SendNew, Offer
  <2>4. cnt' \in 0 .. Patience + 1
    BY <1>8, Sizes DEF SendNew
  <2>. QED  BY <1>8, <2>1, <2>2, <2>3, <2>4 DEF SendNew, loopVars
<1>9. ASSUME NEW ok \in BOOLEAN, SendAgain(ok) PROVE Others'
  <2>1. <<>> \in Seq(Nat) /\ Len(<<>>) <= Payload
    BY Sizes
  <2>. QED  BY <1>9, <2>1 DEF SendAgain, Offer, fifoVars, loopVars
<1>10. CASE UNCHANGED vars
  BY <1>10 DEF vars, fifoVars, sendVars, loopVars, histVars
<1>. QED  BY <1>1, <1>2, <1>3, <1>4, <1>5, <1>6, <1>7, <1>8, <1>9, <1>10
          DEF Next, EchoSteps, SendEvt
----------------------------------------------------------------------------
(***************************************************************************)
(* What the FIFO holds.                                                    *)
(***************************************************************************)
(* A push that meets no race. *)
LEMMA Push ==
  ASSUME Others, Fifo, ~raced, pc # "flush", Backlog < Size,
         end' = (end + 1) % W16, pushed' = pushed + 1,
         data' = [data EXCEPT ![end % Size] = pushed + 1],
         UNCHANGED <<begin, popped>>
  PROVE  /\ Backlog' \in 0 .. Size
         /\ end' = (begin' + Backlog') % W16
         /\ \A i \in 1 .. Backlog' : data'[(begin' + i - 1) % Size] = popped' + i
<1>1. PICK n \in 0 .. Size : n = Backlog /\ n < Size
  BY DEF Fifo
<1>2. Backlog' = n + 1 /\ pushed + 1 = popped + (n + 1)
  BY <1>1 DEF Backlog, Others
<1>3. end' = (begin + (n + 1)) % W16
  BY <1>1, NextCell
<1>4. ASSUME NEW i \in 1 .. n + 1
      PROVE  data'[(begin + i - 1) % Size] = popped + i
  <2>1. CASE i = n + 1
    <3>1. (begin + i - 1) % Size = end % Size /\ end % Size \in 0 .. Size - 1
      BY <1>1, <2>1, NextCell
    <3>2. data'[end % Size] = pushed + 1
      BY <3>1 DEF Others
    <3>. QED  BY <1>2, <2>1, <3>1, <3>2
  <2>2. CASE i # n + 1
    <3>1. i \in 1 .. n
      BY <2>2
    <3>2. (begin + i - 1) % Size # end % Size /\ (begin + i - 1) % Size \in 0 .. Size - 1
      BY <1>1, <3>1, NextCell
    <3>3. data'[(begin + i - 1) % Size] = data[(begin + i - 1) % Size]
      BY <3>2 DEF Others
    <3>4. data[(begin + i - 1) % Size] = popped + i
      BY <1>1, <3>1 DEF Fifo
    <3>. QED  BY <3>3, <3>4
  <2>. QED  BY <2>1, <2>2
<1>5. n + 1 \in 0 .. Size
  BY <1>1, Sizes
<1>. QED  BY <1>2, <1>3, <1>4, <1>5, Zenon

(* An empty FIFO is in order. *)
LEMMA Emptied ==
  ASSUME Others, Others', begin' = end', popped' = pushed'
  PROVE  Fifo'
<1>1. Backlog' = 0
  <2>1. PICK n \in Nat : n = pushed'
    BY DEF Others
  <2>2. n - n = 0
    OBVIOUS
  <2>. QED  BY <2>1, <2>2, Zenon DEF Backlog
<1>2. PICK e \in 0 .. W16 - 1 : e = end'
  BY DEF Others
<1>3. e % W16 = e
  BY Sizes, ModSmall
<1>4. (begin' + Backlog') % W16 = end'
  BY <1>1, <1>2, <1>3
<1>. QED  BY <1>1, <1>4, Sizes DEF Fifo

LEMMA FifoStep == Others /\ Fifo /\ Writers /\ [Next]_vars /\ Others' => Fifo'
<1>. SUFFICES ASSUME Others, Fifo, Writers, [Next]_vars, Others', ~raced', pc' # "flush"
              PROVE  Fifo'
  BY DEF Fifo
<1>k. ASSUME UNCHANGED <<fifoVars, pushed, popped>>, ~raced, pc # "flush" PROVE Fifo'
  BY <1>k DEF Fifo, Backlog, fifoVars
<1>1. CASE UartRx
  <2>1. CASE Room = 0
    BY <1>1, <1>k, <2>1 DEF UartRx, loopVars, fifoVars
  <2>2. CASE Room # 0 /\ CameRound
    <3>1. end' = begin' /\ popped' = pushed'
      BY <1>1, <2>2 DEF UartRx, Settle, CameRound
    <3>. QED  BY <3>1, Emptied
  <2>3. CASE Room # 0 /\ ~CameRound
    <3>1. ~raced /\ ~Meets /\ pc # "flush" /\ popped' = popped
      BY <1>1, <2>3 DEF UartRx, Settle, loopVars
    <3>2. Backlog < Size
      BY <2>3, <3>1, LengthIs, Sizes
    <3>. QED  BY <1>1, <2>3, <3>1, <3>2, Push DEF UartRx, Fifo
  <2>. QED  BY <2>1, <2>2, <2>3
<1>2. CASE Link
  BY <1>2, <1>k DEF Link, histVars
<1>3. ASSUME NEW n, Echo(n) PROVE Fifo'
  BY <1>3, <1>k DEF Echo, histVars
<1>4. CASE EchoByte
  <2>1. ~raced /\ pc = "next" /\ Backlog < Size /\ UNCHANGED <<begin, end, pushed, popped>>
    BY <1>4, Sizes DEF EchoByte, Writers, histVars, Others, Backlog
  <2>2. \A i \in 1 .. Backlog : /\ (begin + i - 1) % Size # end % Size
                                /\ (begin + i - 1) % Size \in 0 .. Size - 1
    BY <2>1, NextCell
  <2>3. \A i \in 1 .. Backlog : data'[(begin + i - 1) % Size] = data[(begin + i - 1) % Size]
    BY <1>4, <2>2 DEF EchoByte, Others
  <2>. QED  BY <2>1, <2>3 DEF Fifo, Backlog
<1>5. CASE EchoEnd
  <2>1. /\ ~raced /\ pc = "store" /\ old = end /\ data[end % Size] = pushed + 1
        /\ Backlog < Size /\ UNCHANGED <<data, begin, popped>>
    BY <1>5, Sizes DEF EchoEnd, Writers, Others, Backlog
  <2>2. end' = (end + 1) % W16 /\ pushed' = pushed + 1
    BY <1>5, <2>1 DEF EchoEnd
  <2>3. data' = [data EXCEPT ![end % Size] = pushed + 1]
    BY <2>1 DEF Others
  <2>. QED  BY <2>1, <2>2, <2>3, Push DEF Fifo
<1>6. CASE EchoDone
  <2>1. CASE raced
    <3>1. CameRound /\ begin' = begin /\ pc' = "idle" /\ popped' = pushed'
      BY <1>6, <2>1 DEF EchoDone, Settle, fifoVars
    <3>. QED  BY <3>1, Emptied DEF CameRound
  <2>2. CASE ~raced
    <3>1. UNCHANGED <<fifoVars, pushed, popped>> /\ pc = "next"
      BY <1>6, <2>2 DEF EchoDone, Settle, CameRound
    <3>. QED  BY <2>2, <3>1, <1>k
  <2>. QED  BY <2>1, <2>2
<1>7. CASE AppProcess \/ Wait \/ ReadsNothing
  BY <1>7, <1>k DEF AppProcess, Wait, ReadsNothing, histVars
<1>8. CASE NotReady
  BY <1>8, <1>k DEF NotReady, fifoVars, histVars
<1>9. CASE FlushEnd
  BY <1>9, Emptied DEF FlushEnd, Writers
<1>10. ASSUME NEW ok \in BOOLEAN, SendNew(ok) PROVE Fifo'
  <2>1. UNCHANGED <<data, end, pushed>> /\ pc = "idle" /\ begin' = (begin + ReadLen) % W16
    BY <1>10 DEF SendNew
  <2>2. CASE raced
    <3>1. begin' = end' /\ popped' = pushed'
      BY <1>10, <2>1, <2>2 DEF SendNew
    <3>. QED  BY <3>1, Emptied
  <2>3. CASE ~raced
    <3>1. popped' = popped + ReadLen
      BY <1>10, <2>3 DEF SendNew
    <3>2. PICK k \in 0 .. Backlog : k = ReadLen
      BY <2>1, <2>3, LengthIs, Packet, Sizes
    <3>3. Backlog' = Backlog - k /\ Backlog - k \in 0 .. Size
      <4>1. Backlog \in 0 .. Size
        BY <2>1, <2>3, LengthIs
      <4>2. Backlog - k \in 0 .. Size
        BY <3>2, <4>1, Sizes
      <4>3. Backlog' = pushed - (popped + k) /\ Backlog = pushed - popped
        BY <2>1, <3>1, <3>2, Zenon DEF Backlog
      <4>4. pushed \in Nat /\ popped \in Nat /\ k \in Int
        BY <4>1 DEF Others
      <4>. QED  BY <4>2, <4>3, <4>4
    <3>4. /\ end' = (begin' + (Backlog - k)) % W16
          /\ \A i \in 1 .. Backlog - k : data'[(begin' + i - 1) % Size] = popped' + i
      BY <2>1, <2>3, <3>1, <3>2, Advance
    <3>. QED  BY <3>3, <3>4, Zenon DEF Fifo
  <2>. QED  BY <2>2, <2>3
<1>11. ASSUME NEW ok \in BOOLEAN, SendAgain(ok) PROVE Fifo'
  BY <1>11, <1>k DEF SendAgain
<1>12. CASE UNCHANGED vars
  BY <1>12, <1>k DEF vars, loopVars, histVars
<1>. QED  BY <1>1, <1>2, <1>3, <1>4, <1>5, <1>6, <1>7, <1>8, <1>9, <1>10, <1>11, <1>12
          DEF Next, EchoSteps, SendEvt
----------------------------------------------------------------------------
(***************************************************************************)
(* The room a write has counted on, and the numbers of a refused packet.   *)
(***************************************************************************)
LEMMA WritersStep == Others /\ Fifo /\ Writers /\ [Next]_vars => Writers'
<1>. SUFFICES ASSUME Others, Fifo, Writers, [Next]_vars PROVE Writers'
  OBVIOUS
<1>k. ASSUME UNCHANGED <<data, end, pushed, popped, left, old, pc, raced>>,
             pc = "flush" => UNCHANGED <<begin, failed>>
      PROVE  Writers'
  BY <1>k DEF Writers, Backlog
<1>i. ASSUME pc' \notin {"next", "store", "flush"}, pushed' + left' <= MaxBytes PROVE Writers'
  BY <1>i DEF Writers
<1>1. CASE UartRx
  <2>1. CASE Room = 0
    BY <1>1, <1>k, <2>1 DEF UartRx, loopVars, sendVars
  <2>2. CASE Room # 0
    <3>1. /\ UNCHANGED <<begin, failed, pc, left, old>> /\ pushed' = pushed + 1
          /\ pushed + left < MaxBytes
      BY <1>1, <2>2 DEF UartRx, loopVars, sendVars
    <3>2. pushed' + left' <= MaxBytes
      BY <3>1, Sizes DEF Others
    <3>3. pc = "store" => raced'
      BY <1>1, <2>2 DEF UartRx, Settle, CameRound, Meets, loopVars
    <3>4. (pc = "next" /\ ~raced') => Backlog' + left' <= Size
      <4>. SUFFICES ASSUME pc = "next", ~raced' PROVE Backlog' + left' <= Size
        OBVIOUS
      <4>1. ~raced /\ ~Meets /\ popped' = popped
        BY <1>1, <2>2 DEF UartRx, Settle, CameRound, loopVars
      <4>2. left < Room /\ Room = Size - Backlog /\ Backlog \in 0 .. Size
        BY <4>1, LengthIs, LengthRange DEF Meets, Others
      <4>3. Backlog' = Backlog + 1
        BY <3>1, <4>1 DEF Backlog, Others
      <4>. QED  BY <3>1, <4>2, <4>3, Sizes DEF Others
    <3>. QED  BY <3>1, <3>2, <3>3, <3>4 DEF Writers
  <2>. QED  BY <2>1, <2>2
<1>2. CASE Link
  BY <1>2, <1>k DEF Link, fifoVars, loopVars, histVars
<1>3. ASSUME NEW n \in 1 .. Size, Echo(n) PROVE Writers'
  <2>1. /\ pc = "idle" /\ pc' = "next" /\ pushed + n <= MaxBytes /\ left' = Smaller(n, Room)
        /\ UNCHANGED <<pushed, popped, raced>>
    BY <1>3 DEF Echo, histVars
  <2>2. left' <= n /\ left' <= Room /\ left' \in Nat
    BY <2>1, LengthRange, Sizes DEF Smaller
  <2>3. pushed' + left' <= MaxBytes
    BY <2>1, <2>2, Sizes DEF Others
  <2>4. ~raced => Backlog' + left' <= Size
    <3>. SUFFICES ASSUME ~raced PROVE Backlog' + left' <= Size
      OBVIOUS
    <3>1. Room = Size - Backlog /\ Backlog \in 0 .. Size
      BY <2>1, LengthIs
    <3>2. Backlog' = Backlog
      BY <2>1 DEF Backlog
    <3>3. PICK m \in 0 .. Size : m = Backlog
      BY <3>1
    <3>4. m + left' <= Size
      <4>1. PICK l \in Nat : l = left'
        BY <2>2
      <4>2. l <= Size - m
        BY <2>2, <3>1, <3>3, <4>1, Zenon
      <4>3. m \in Nat /\ m + l <= Size
        BY <4>2, Sizes
      <4>. QED  BY <4>1, <4>3, Zenon
    <3>. QED  BY <3>2, <3>3, <3>4, Zenon
  <2>. QED  BY <2>1, <2>3, <2>4 DEF Writers
<1>4. CASE EchoByte
  <2>1. /\ UNCHANGED <<end, pushed, popped, left, raced>> /\ pc = "next" /\ pc' = "store"
        /\ left > 0 /\ old' = end /\ data' = [data EXCEPT ![end % Size] = IF raced THEN 0 ELSE pushed + 1]
    BY <1>4 DEF EchoByte, histVars
  <2>2. PICK e \in Nat : e = end
    BY Sizes DEF Others
  <2>3. e % Size \in 0 .. Size - 1
    BY Sizes, ModRange
  <2>4. ~raced => data'[end % Size] = pushed + 1
    BY <2>1, <2>2, <2>3 DEF Others
  <2>. QED  BY <2>1, <2>4 DEF Writers, Backlog
<1>5. CASE EchoEnd
  <2>1. /\ pc = "store" /\ pc' = "next" /\ pushed' = pushed + 1 /\ left' = left - 1
        /\ UNCHANGED <<popped, raced>>
    BY <1>5 DEF EchoEnd
  <2>2. pushed' + left' = pushed + left /\ Backlog' + left' = Backlog + left
    BY <2>1 DEF Backlog, Others
  <2>. QED  BY <2>1, <2>2 DEF Writers
<1>6. CASE EchoDone
  BY <1>6, <1>i DEF EchoDone, Writers
<1>7. CASE AppProcess \/ Wait \/ ReadsNothing
  BY <1>7, <1>k DEF AppProcess, Wait, ReadsNothing, fifoVars, loopVars, histVars
<1>8. CASE NotReady
  BY <1>8 DEF NotReady, Writers, histVars
<1>9. CASE FlushEnd
  BY <1>9, <1>i DEF FlushEnd, Writers
<1>10. ASSUME NEW ok \in BOOLEAN, SendNew(ok) \/ SendAgain(ok) PROVE Writers'
  BY <1>10, <1>i DEF SendNew, SendAgain, Writers, loopVars
<1>11. CASE UNCHANGED vars
  BY <1>11, <1>k DEF vars, fifoVars, sendVars, loopVars, histVars
<1>. QED  BY <1>1, <1>2, <1>3, <1>4, <1>5, <1>6, <1>7, <1>8, <1>9, <1>10, <1>11
          DEF Next, EchoSteps, SendEvt

LEMMA NumbersStep ==
  Others /\ Fifo /\ Writers /\ Numbers /\ [Next]_vars => Numbers'
<1>. SUFFICES ASSUME Others, Fifo, Writers, Numbers, [Next]_vars PROVE Numbers'
  OBVIOUS
<1>k. ASSUME UNCHANGED <<failed, note, got, popped>> PROVE Numbers'
  BY <1>k DEF Numbers, Blurred, NumbersFrom
<1>s. ASSUME UNCHANGED <<failed, note>>, NEW b, Settle(b) PROVE Numbers'
  BY <1>s DEF Numbers, Blurred, NumbersFrom, Settle
<1>1. CASE UartRx
  BY <1>1, <1>k, <1>s DEF UartRx, sendVars
<1>2. CASE Link \/ AppProcess \/ Wait \/ ReadsNothing
  BY <1>2, <1>k DEF Link, AppProcess, Wait, ReadsNothing, sendVars, histVars
<1>3. ASSUME NEW n, Echo(n) PROVE Numbers'
  BY <1>3, <1>k DEF Echo, sendVars, histVars
<1>4. CASE EchoByte \/ EchoEnd
  BY <1>4, <1>k DEF EchoByte, EchoEnd, sendVars, histVars
<1>5. CASE EchoDone
  BY <1>5, <1>s DEF EchoDone
<1>6. CASE NotReady
  BY <1>6, <1>k DEF NotReady, histVars
<1>7. CASE FlushEnd
  BY <1>7 DEF FlushEnd, Writers, Numbers, sendVars
<1>8. ASSUME NEW ok \in BOOLEAN, SendNew(ok) PROVE Numbers'
  <2>1. pc = "idle" /\ ~failed /\ got = popped /\ Offer(Bytes, ok)
        /\ got' = IF ok \/ raced THEN popped' ELSE got
    BY <1>8 DEF SendNew, Numbers
  <2>2. CASE ok
    BY <2>1, <2>2 DEF Offer, Numbers
  <2>3. CASE ~ok
    <3>1. failed' /\ note' = Bytes
      BY <2>1, <2>3 DEF Offer
    <3>2. CASE raced
      BY <3>1, <3>2, Packet DEF Numbers, Blurred
    <3>3. CASE ~raced
      <4>1. got' = popped
        BY <2>1, <2>3, <3>3
      <4>2. NumbersFrom(Bytes, popped)
        BY <2>1, <3>3, Packet
      <4>. QED  BY <3>1, <4>1, <4>2 DEF Numbers, NumbersFrom
    <3>. QED  BY <3>2, <3>3
  <2>. QED  BY <2>2, <2>3
<1>9. ASSUME NEW ok \in BOOLEAN, SendAgain(ok) PROVE Numbers'
  BY <1>9 DEF SendAgain, Offer, Numbers, NumbersFrom, Blurred
<1>10. CASE UNCHANGED vars
  BY <1>10, <1>k DEF vars, sendVars, histVars
<1>. QED  BY <1>1, <1>2, <1>3, <1>4, <1>5, <1>6, <1>7, <1>8, <1>9, <1>10
          DEF Next, EchoSteps, SendEvt
----------------------------------------------------------------------------
LEMMA InvStep == IInv /\ [Next]_vars => IInv'
<1>. SUFFICES ASSUME IInv, [Next]_vars PROVE IInv'
  OBVIOUS
<1>1. Booleans /\ Flags /\ Others /\ Fifo /\ Writers /\ Numbers
  BY TypeParts DEF IInv
<1>2. Booleans' /\ Flags' /\ Others'
  BY <1>1, BooleansStep, FlagsStep, OthersStep
<1>3. TypeOK'
  BY <1>2, TypeParts, PTL
<1>4. Fifo' /\ Writers' /\ Numbers'
  BY <1>1, <1>2, FifoStep, WritersStep, NumbersStep
<1>. QED  BY <1>3, <1>4 DEF IInv

LEMMA Inductive == Spec => []IInv
BY InvInit, InvStep, PTL DEF Spec

(***************************************************************************)
(* The state keeps its types: a packet is never longer than the link takes,*)
(* one that is kept for another try is never empty, and notifications are  *)
(* enabled only on a connection (peripheral.c:352-437).                    *)
(***************************************************************************)
THEOREM TypeCorrect == Spec => []TypeOK
<1>1. IInv => TypeOK
  BY DEF IInv
<1>. QED  BY <1>1, Inductive, PTL

(***************************************************************************)
(* Unless its two producers have met, the FIFO holds the bytes it has      *)
(* accepted and not given back, each in its cell, never more than fit,     *)
(* over the wrap of the 16-bit counters (app_drv_fifo.c:45-170).           *)
(***************************************************************************)
THEOREM FifoIsInOrder == Spec => []FifoHoldsBacklog
<1>1. IInv => FifoHoldsBacklog
  <2>. SUFFICES ASSUME IInv, ~raced, pc # "flush"
                PROVE  /\ Length = pushed - popped /\ Length <= Size
                       /\ \A i \in 1 .. Length : data[(begin + i - 1) % Size] = popped + i
    BY DEF FifoHoldsBacklog
  <2>1. Others /\ Fifo
    BY TypeParts DEF IInv
  <2>2. Length = Backlog /\ Backlog \in 0 .. Size
    BY <2>1, LengthIs
  <2>. QED  BY <2>1, <2>2, Sizes DEF Fifo, Backlog
<1>. QED  BY <1>1, Inductive, PTL

(***************************************************************************)
(* What the peer is notified is exactly the bytes that follow what it was  *)
(* notified before, however often the stack refuses a packet and whatever  *)
(* becomes of the connection (peripheral.c:352-437).                       *)
(***************************************************************************)
THEOREM PeerIsOnTheByteDue == Spec => NotifiesNextBytes
<1>1. ASSUME IInv, [Next]_vars, sent' # sent
      PROVE  \/ \A i \in DOMAIN sent' : sent'[i] = 0
             \/ sent' = [i \in 1 .. Len(sent') |-> got + i]
  <2>1. Others /\ Fifo /\ Numbers
    BY <1>1, TypeParts DEF IInv
  <2>2. Blurred(sent') \/ NumbersFrom(sent', got)
    <3>1. ASSUME NEW ok \in BOOLEAN, SendNew(ok) PROVE Blurred(sent') \/ NumbersFrom(sent', got)
      <4>1. sent' = Bytes /\ got = popped /\ pc # "flush"
        BY <1>1, <2>1, <3>1 DEF SendNew, Offer, Numbers
      <4>2. Blurred(Bytes) \/ NumbersFrom(Bytes, popped)
        BY <2>1, <4>1, Packet
      <4>. QED  BY <4>1, <4>2
    <3>2. ASSUME NEW ok \in BOOLEAN, SendAgain(ok) PROVE Blurred(sent') \/ NumbersFrom(sent', got)
      <4>1. sent' = note /\ (Blurred(note) \/ NumbersFrom(note, got))
        BY <1>1, <2>1, <3>2 DEF SendAgain, Offer, Numbers
      <4>. QED  BY <4>1
    <3>3. UNCHANGED sent \/ \E ok \in BOOLEAN : SendNew(ok) \/ SendAgain(ok)
      BY <1>1 DEF Next, EchoSteps, SendEvt, UartRx, Link, Echo, EchoByte, EchoEnd, EchoDone,
                  AppProcess, NotReady, FlushEnd, Wait, ReadsNothing, vars, histVars
    <3>. QED  BY <1>1, <3>1, <3>2, <3>3
  <2>3. sent' \in Seq(Nat)
    <3>1. Others'
      BY <1>1, <2>1, OthersStep DEF IInv
    <3>. QED  BY <3>1 DEF Others
  <2>4. sent' = [i \in 1 .. Len(sent') |-> sent'[i]] /\ DOMAIN sent' = 1 .. Len(sent')
    BY <2>3
  <2>5. NumbersFrom(sent', got) => sent' = [i \in 1 .. Len(sent') |-> got + i]
    BY <2>4 DEF NumbersFrom
  <2>. QED  BY <2>2, <2>5 DEF Blurred
<1>. QED  BY <1>1, Inductive, PTL DEF Spec, NotifiesNextBytes
=============================================================================
