---------------------------- MODULE EthIapProofs ----------------------------
(***************************************************************************)
(* Theorems about EthIap for every set of images, every size of the pages, *)
(* the blocks and the ring, and every way the host cuts a file.            *)
(***************************************************************************)
EXTENDS EthIap, TLAPS

(* What page p of BACKUP holds when flashProgramLen units are saved. *)
Piece(p) ==
  [i \in 1 .. IF flashProgramLen >= (p + 1) * PageUnits THEN PageUnits
              ELSE IF flashProgramLen > p * PageUnits
              THEN flashProgramLen - p * PageUnits ELSE 0
     |-> <<file, p * PageUnits + i>>]

(* Outside the loop of the boot program. *)
Starting == {"boot", "copyErase", "copyPage", "wipe", "app", "halt"}
Copying  == {"copyErase", "copyPage", "wipe", "halt"}
Erasing  == {"copyErase", "wipe", "connErase"}

(***************************************************************************)
(* The inductive invariant.  Ranges are the types that matter; Connection  *)
(* is the order of the interrupts of a connection; Stream is the account   *)
(* of the bytes between the socket, the ring and the pages; Saved is what  *)
(* the pages of BACKUP hold meanwhile; Committed is which of USER and      *)
(* BACKUP is whole, for every position and either value of the flag.       *)
(***************************************************************************)
Ranges ==
  /\ DOMAIN user = Pages /\ DOMAIN backup = Pages
  /\ flag \in {"none", "update"}
  /\ pc \in Starting \cup {"recv", "connect", "connErase", "disconnect", "save", "setFlag"}
  /\ step \in Nat
  /\ pc \in Erasing => step < NBlocks
  /\ pc = "copyPage" => step < NPages
  /\ pc \notin Erasing \cup {"copyPage"} => step = 0
  /\ conn \in {"none", "connecting", "open", "lost", "closed"}
  /\ file \in Images /\ want \in Images
  /\ hostSent \in Nat /\ hostSent <= Hdr + file /\ inSock \in Nat
  /\ connFlag \in {0, 1}
  /\ DOMAIN ring = 0 .. RingLen - 1
  /\ readIndex \in 0 .. RingLen - 1 /\ writeIndex \in 0 .. RingLen - 1
  /\ buffUsedLen \in 0 .. RingLen
  /\ fileDataLen \in Nat /\ flashProgramLen \in 0 .. MaxData

Connection ==
  /\ conn \in {"none", "connecting"} =>
       /\ fileDataLen = 0 /\ hostSent = 0 /\ inSock = 0
       /\ connFlag = 0 /\ "CONNECT" \notin ints
  /\ "CONNECT" \in ints => connFlag = 0
  /\ pc \in Starting => conn = "none"
  /\ conn = "closed" => /\ pc \in {"recv", "connect", "connErase", "disconnect"}
                        /\ "DISCONNECT" \in ints
                        /\ pc = "recv" => fileDataLen > 0
  /\ pc = "connErase" => connFlag = 1

InRing(from) ==
  /\ writeIndex = (readIndex + buffUsedLen) % RingLen
  /\ \A i \in 1 .. buffUsedLen : ring[(readIndex + i - 1) % RingLen] = <<file, from + i>>

Stream ==
  /\ fileDataLen = 0 => /\ buffUsedLen = 0 /\ flashProgramLen = 0 /\ para.len = 0
                        /\ conn # "closed" => hostSent = inSock
  /\ fileDataLen > 0 => /\ fileDataLen = Hdr + flashProgramLen + buffUsedLen
                        /\ fileDataLen = hostSent - inSock
                        /\ para.len = Hdr + file
  /\ InRing(flashProgramLen)
  /\ flashProgramLen > 0 => connFlag = 1 /\ pc # "connErase"
  /\ flashProgramLen % PageUnits = 0 \/ flashProgramLen = file
  /\ pc = "setFlag" => flashProgramLen = file /\ connFlag = 1

Saved ==
  /\ (connFlag = 1 /\ pc # "connErase" /\ ~worn) =>
       \A p \in Pages : backup[p] = Piece(p)
  /\ pc = "connErase" => \A p \in Pages : p \div BlockPages < step => backup[p] = Erased

Committed ==
  /\ pc \in Copying => flag = "update"
  /\ pc = "app" => flag = "none"
  /\ exposed = "no" =>
       /\ flag = "none" \/ pc = "wipe" => Whole(user, want)
       /\ flag = "update" /\ (pc = "wipe" => step = 0) => Whole(backup, want)
       /\ connFlag = 1 \/ pc \in {"connErase", "setFlag"} => flag = "none"
       /\ pc = "copyPage" => \A p \in 0 .. step - 1 : user[p] = backup[p]

IInv == Ranges /\ Connection /\ Stream /\ Saved /\ Committed
----------------------------------------------------------------------------
(***************************************************************************)
(* Remainders.                                                             *)
(***************************************************************************)
LEMMA ModRange ==
  ASSUME NEW a \in Nat, NEW b \in Nat \ {0}
  PROVE  /\ a % b \in 0 .. b - 1 /\ a % b <= a
         /\ a \div b \in Nat /\ a = (a \div b) * b + (a % b)
<1>1. /\ a \div b \in Nat /\ a % b \in 0 .. b - 1
      /\ a = b * (a \div b) + (a % b)
  OBVIOUS
<1>2. PICK q \in Nat : q = a \div b
  BY <1>1
<1>3. PICK r \in 0 .. b - 1 : r = a % b
  BY <1>1
<1>4. a = b * q + r
  BY <1>1, <1>2, <1>3
<1>5. b * q = q * b /\ b * q \in Nat
  OBVIOUS
<1>. QED  BY <1>1, <1>2, <1>3, <1>4, <1>5

LEMMA ModUnique ==
  ASSUME NEW b \in Nat \ {0}, NEW q \in Nat, NEW r \in 0 .. b - 1
  PROVE  (q * b + r) % b = r
<1>1. PICK a \in Nat : a = q * b + r
  OBVIOUS
<1>2. PICK p \in Nat : p = a \div b
  BY ModRange
<1>3. PICK s \in 0 .. b - 1 : s = a % b
  BY ModRange
<1>4. p * b + s = q * b + r
  BY <1>1, <1>2, <1>3, ModRange
<1>5. CASE p < q
  <2>1. PICK d \in Nat : q = p + d + 1
    BY <1>5, q - p - 1 \in Nat, q = p + (q - p - 1) + 1
  <2>2. q * b = p * b + d * b + b /\ d * b \in Nat /\ p * b \in Nat
    BY <2>1
  <2>. QED  BY <1>4, <2>2
<1>6. CASE q < p
  <2>1. PICK d \in Nat : p = q + d + 1
    BY <1>6, p - q - 1 \in Nat, p = q + (p - q - 1) + 1
  <2>2. p * b = q * b + d * b + b /\ d * b \in Nat /\ q * b \in Nat
    BY <2>1
  <2>. QED  BY <1>4, <2>2
<1>7. CASE p = q
  <2>1. q * b \in Nat
    OBVIOUS
  <2>. QED  BY <1>1, <1>3, <1>4, <1>7, <2>1
<1>. QED  BY <1>5, <1>6, <1>7

LEMMA ModSmall ==
  ASSUME NEW b \in Nat \ {0}, NEW r \in 0 .. b - 1
  PROVE  r % b = r
<1>1. 0 * b + r = r
  OBVIOUS
<1>. QED  BY <1>1, ModUnique, 0 \in Nat

(* On a ring of b cells, one lap on. *)
LEMMA ModLap ==
  ASSUME NEW b \in Nat \ {0}, NEW x \in 0 .. 2 * b - 1
  PROVE  x % b = IF x < b THEN x ELSE x - b
<1>1. CASE x < b
  BY <1>1, ModSmall, x \in 0 .. b - 1
<1>2. CASE x >= b
  <2>1. x - b \in 0 .. b - 1 /\ 1 * b + (x - b) = x
    BY <1>2
  <2>2. (1 * b + (x - b)) % b = x - b
    BY <2>1, ModUnique, 1 \in Nat
  <2>. QED  BY <1>2, <2>1, <2>2
<1>. QED  BY <1>1, <1>2

LEMMA ModShift ==
  ASSUME NEW a \in Nat, NEW b \in Nat \ {0}, NEW q \in Nat
  PROVE  (q * b + a) % b = a % b
<1>1. PICK p \in Nat : p = a \div b
  BY ModRange
<1>2. PICK r \in 0 .. b - 1 : r = a % b
  BY ModRange
<1>3. a = p * b + r /\ p * b \in Nat
  BY <1>1, <1>2, ModRange
<1>4. (q + p) * b = q * b + p * b /\ q * b \in Nat
  OBVIOUS
<1>5. q * b + a = (q + p) * b + r
  BY <1>3, <1>4
<1>6. ((q + p) * b + r) % b = r
  BY ModUnique, q + p \in Nat
<1>. QED  BY <1>2, <1>5, <1>6

LEMMA ModPlus ==
  ASSUME NEW a \in Nat, NEW b \in Nat \ {0}, NEW c \in Nat
  PROVE  ((a % b) + c) % b = (a + c) % b
<1>1. PICK p \in Nat : p = a \div b
  BY ModRange
<1>2. PICK r \in 0 .. b - 1 : r = a % b
  BY ModRange
<1>3. a + c = p * b + (r + c)
  BY <1>1, <1>2, ModRange
<1>4. (p * b + (r + c)) % b = (r + c) % b
  BY ModShift, r + c \in Nat
<1>. QED  BY <1>2, <1>3, <1>4
----------------------------------------------------------------------------
LEMMA Sizes ==
  /\ PageUnits \in Nat \ {0} /\ BlockPages \in Nat \ {0} /\ NBlocks \in Nat \ {0}
  /\ RingLen \in Nat \ {0} /\ PageUnits <= RingLen
  /\ NPages \in Nat \ {0} /\ MaxData \in Nat
  /\ Images \subseteq 1 .. MaxData
<1>1. /\ PageUnits \in Nat \ {0} /\ BlockPages \in Nat \ {0} /\ NBlocks \in Nat \ {0}
      /\ RingLen \in Nat \ {0} /\ PageUnits <= RingLen
      /\ Images \subseteq 1 .. MaxData
  BY SizesAssumption
<1>2. PICK k \in Nat : NBlocks = k + 1
  BY <1>1, NBlocks - 1 \in Nat, NBlocks = (NBlocks - 1) + 1
<1>3. (k + 1) * BlockPages = k * BlockPages + BlockPages /\ k * BlockPages \in Nat
  BY <1>1
<1>4. NPages \in Nat \ {0}
  BY <1>1, <1>2, <1>3 DEF NPages
<1>5. PICK n \in Nat : n = NPages - 1
  BY <1>4
<1>6. n * PageUnits \in Nat
  BY <1>1
<1>. QED  BY <1>1, <1>4, <1>5, <1>6 DEF MaxData

LEMMA ImageSize ==
  ASSUME NEW v \in Images
  PROVE  v \in Nat /\ 0 < v /\ v <= MaxData
BY Sizes

(* Where page p begins and ends. *)
LEMMA PageMono ==
  ASSUME NEW p \in Nat, NEW q \in Nat
  PROVE  /\ p * PageUnits \in Nat /\ (p + 1) * PageUnits = p * PageUnits + PageUnits
         /\ p < q => p * PageUnits + PageUnits <= q * PageUnits
<1>1. p * PageUnits \in Nat /\ (p + 1) * PageUnits = p * PageUnits + PageUnits
  BY Sizes
<1>2. ASSUME p < q PROVE p * PageUnits + PageUnits <= q * PageUnits
  <2>1. PICK d \in Nat : q = p + 1 + d
    BY <1>2, q - p - 1 \in Nat, q = p + 1 + (q - p - 1)
  <2>2. q * PageUnits = p * PageUnits + PageUnits + d * PageUnits /\ d * PageUnits \in Nat
    BY <2>1, Sizes
  <2>. QED  BY <1>1, <2>2, Sizes
<1>. QED  BY <1>1, <1>2

LEMMA BlockOfPage ==
  ASSUME NEW p \in Pages
  PROVE  p \div BlockPages \in 0 .. NBlocks - 1
<1>1. p \in Nat /\ p < NPages
  BY Sizes DEF Pages
<1>2. PICK q \in Nat : q = p \div BlockPages
  BY <1>1, Sizes, ModRange
<1>3. PICK r \in 0 .. BlockPages - 1 : r = p % BlockPages
  BY <1>1, Sizes, ModRange
<1>4. p = q * BlockPages + r
  BY <1>1, <1>2, <1>3, Sizes, ModRange
<1>5. q < NBlocks
  <2>. SUFFICES ASSUME q >= NBlocks PROVE FALSE
    BY <1>2, Sizes
  <2>1. PICK d \in Nat : q = NBlocks + d
    BY Sizes, q - NBlocks \in Nat, q = NBlocks + (q - NBlocks)
  <2>2. q * BlockPages = NBlocks * BlockPages + d * BlockPages /\ d * BlockPages \in Nat
    BY <2>1, Sizes
  <2>. QED  BY <1>1, <1>3, <1>4, <2>2, Sizes DEF NPages
<1>. QED  BY <1>2, <1>5, Sizes

(* How much of page p is filled when n units are saved. *)
LEMMA PieceOfFile ==
  ASSUME NEW p \in Pages, flashProgramLen = file
  PROVE  Piece(p) = Image(file, p)
BY DEF Piece, Image

LEMMA PieceOfNothing ==
  ASSUME NEW p \in Pages, flashProgramLen = 0
  PROVE  Piece(p) = Erased
<1>1. p \in Nat
  BY Sizes DEF Pages
<1>2. PICK m \in Nat : m = p * PageUnits /\ (p + 1) * PageUnits = m + PageUnits
  BY <1>1, PageMono
<1>3. Piece(p) = [i \in 1 .. 0 |-> <<file, m + i>>]
  BY <1>2, Sizes DEF Piece
<1>. QED  BY <1>3 DEF Erased

(* Distances on the ring. *)
LEMMA RingDistance ==
  ASSUME NEW r \in 0 .. RingLen - 1, NEW a \in 0 .. RingLen - 1, NEW b \in 0 .. RingLen - 1
  PROVE  (((r + a) % RingLen) - ((r + b) % RingLen) + RingLen) % RingLen
           = IF a >= b THEN a - b ELSE a - b + RingLen
<1>1. PICK x \in 0 .. 2 * RingLen - 1 : x = r + a
  BY Sizes
<1>2. PICK y \in 0 .. 2 * RingLen - 1 : y = r + b
  BY Sizes
<1>3. PICK c \in Int : c = x % RingLen /\ c = IF x < RingLen THEN x ELSE x - RingLen
  <2>1. x % RingLen = IF x < RingLen THEN x ELSE x - RingLen
    BY Sizes, ModLap
  <2>. QED  BY <2>1, Sizes
<1>4. PICK d \in Int : d = y % RingLen /\ d = IF y < RingLen THEN y ELSE y - RingLen
  <2>1. y % RingLen = IF y < RingLen THEN y ELSE y - RingLen
    BY Sizes, ModLap
  <2>. QED  BY <2>1, Sizes
<1>5. PICK z \in 0 .. 2 * RingLen - 1 : z = c - d + RingLen
  BY <1>1, <1>2, <1>3, <1>4, Sizes
<1>6. z % RingLen = IF z < RingLen THEN z ELSE z - RingLen
  BY Sizes, ModLap
<1>7. z % RingLen = IF a >= b THEN a - b ELSE a - b + RingLen
  BY <1>1, <1>2, <1>3, <1>4, <1>5, <1>6, Sizes
<1>. QED  BY <1>1, <1>2, <1>3, <1>4, <1>5, <1>7

LEMMA RingCell ==
  ASSUME NEW a \in Nat
  PROVE  a % RingLen \in 0 .. RingLen - 1
BY Sizes, ModRange
----------------------------------------------------------------------------
LEMMA InvInit == Init => IInv
<1>. SUFFICES ASSUME Init PROVE IInv
  OBVIOUS
<1>1. Ranges
  BY Sizes, ImageSize DEF Init, Ranges, NoBytes, Starting, Erasing, Hdr
<1>2. Connection
  BY DEF Init, Connection
<1>3. Stream
  <2>1. 0 % RingLen = 0 /\ 0 % PageUnits = 0
    BY Sizes, ModSmall
  <2>. QED  BY <2>1 DEF Init, Stream, InRing, NoPara
<1>4. Saved
  BY DEF Init, Saved
<1>5. Committed
  BY DEF Init, Committed, Whole, Copying
<1>. QED  BY <1>1, <1>2, <1>3, <1>4, <1>5 DEF IInv
----------------------------------------------------------------------------
(***************************************************************************)
(* What the ring and the pages take.                                       *)
(***************************************************************************)
LEMMA StreamFacts ==
  ASSUME Ranges, Connection, Stream, fileDataLen > 0
  PROVE  /\ flashProgramLen + buffUsedLen <= file
         /\ flashProgramLen = file => buffUsedLen = 0
         /\ para.len = fileDataLen => flashProgramLen + buffUsedLen = file
<1>1. /\ fileDataLen = 1 + flashProgramLen + buffUsedLen /\ fileDataLen = hostSent - inSock
      /\ para.len = 1 + file
  BY DEF Stream, Hdr
<1>2. /\ {flashProgramLen, buffUsedLen, hostSent, inSock, file} \subseteq Nat
      /\ hostSent <= 1 + file
  BY ImageSize DEF Ranges, Hdr
<1>. QED  BY <1>1, <1>2

LEMMA TakenFits ==
  ASSUME Ranges, InRing(flashProgramLen), buffUsedLen < RingLen
  PROVE  Taken \in 0 .. inSock /\ Taken <= RingLen - buffUsedLen
<1>1. PICK r \in 0 .. RingLen - 1, w \in 0 .. RingLen - 1, b \in 0 .. RingLen - 1 :
        r = readIndex /\ w = writeIndex /\ b = buffUsedLen
  BY Sizes DEF Ranges
<1>2. PICK x \in 0 .. 2 * RingLen - 1 : x = r + b
  BY Sizes
<1>3. w = IF x < RingLen THEN x ELSE x - RingLen
  <2>1. w = x % RingLen
    BY <1>1, <1>2 DEF InRing
  <2>. QED  BY <2>1, Sizes, ModLap
<1>4. FirstRoom = IF r <= w THEN RingLen - w ELSE r - w
  BY <1>1 DEF FirstRoom
<1>5. PICK n \in Nat : n = inSock
  BY DEF Ranges
<1>6. CASE r <= w
  <2>1. FirstRoom = RingLen - w /\ b = w - r
    BY <1>2, <1>3, <1>4, <1>6, Sizes
  <2>2. CASE n <= RingLen - w
    <3>1. Taken = n
      BY <1>1, <1>5, <1>6, <2>1, <2>2, Sizes DEF Taken, AtMost
    <3>. QED  BY <1>1, <1>5, <1>6, <2>1, <2>2, <3>1, Sizes
  <2>3. CASE n > RingLen - w
    <3>1. Taken = (RingLen - w) + AtMost(n - (RingLen - w), RingLen - b - (RingLen - w))
      BY <1>1, <1>5, <1>6, <2>1, <2>3, Sizes DEF Taken, AtMost
    <3>2. /\ AtMost(n - (RingLen - w), RingLen - b - (RingLen - w)) \in Nat
          /\ AtMost(n - (RingLen - w), RingLen - b - (RingLen - w)) <= n - (RingLen - w)
          /\ AtMost(n - (RingLen - w), RingLen - b - (RingLen - w)) <= RingLen - b - (RingLen - w)
      BY <1>6, <2>1, <2>3, Sizes DEF AtMost
    <3>. QED  BY <1>1, <1>5, <3>1, <3>2, Sizes
  <2>. QED  BY <2>2, <2>3, Sizes
<1>7. CASE r > w
  <2>1. FirstRoom = r - w /\ RingLen - b = r - w
    BY <1>2, <1>3, <1>4, <1>7, Sizes
  <2>2. Taken = AtMost(n, r - w)
    BY <1>1, <1>5, <1>7, <2>1, Sizes DEF Taken
  <2>3. AtMost(n, r - w) \in 0 .. n /\ AtMost(n, r - w) <= r - w
    BY <1>7, Sizes DEF AtMost
  <2>. QED  BY <1>1, <1>5, <2>1, <2>2, <2>3
<1>. QED  BY <1>6, <1>7, Sizes

LEMMA RingTakes ==
  ASSUME Ranges, Stream, fileDataLen > 0, buffUsedLen < RingLen, ReceUpdatedFile, file' = file
  PROVE  /\ DOMAIN ring' = 0 .. RingLen - 1
         /\ writeIndex' \in 0 .. RingLen - 1 /\ buffUsedLen' \in 0 .. RingLen
         /\ inSock' \in Nat
         /\ InRing(flashProgramLen)'
         /\ fileDataLen' \in Nat /\ fileDataLen' > 0
         /\ fileDataLen' = Hdr + flashProgramLen + buffUsedLen'
         /\ fileDataLen' = hostSent - inSock'
<1>0. InRing(flashProgramLen)
  BY DEF Stream
<1>1. PICK t \in Nat : t = Taken /\ t <= inSock /\ t <= RingLen - buffUsedLen
  BY <1>0, TakenFits DEF Ranges
<1>2. PICK r \in 0 .. RingLen - 1, w \in 0 .. RingLen - 1, b \in 0 .. RingLen - 1 :
        r = readIndex /\ w = writeIndex /\ b = buffUsedLen
  BY Sizes DEF Ranges
<1>3. PICK l \in Nat : l = flashProgramLen
  BY DEF Ranges
<1>4. /\ ring' = [c \in DOMAIN ring |->
                    LET i == ((c - w + RingLen) % RingLen) + 1
                    IN  IF i <= t THEN FromSock(i) ELSE ring[c]]
      /\ writeIndex' = (w + t) % RingLen /\ buffUsedLen' = b + t
      /\ fileDataLen' = fileDataLen + t /\ inSock' = inSock - t
      /\ readIndex' = r /\ flashProgramLen' = l
  BY <1>1, <1>2, <1>3 DEF ReceUpdatedFile
<1>5. w = (r + b) % RingLen
  BY <1>0, <1>2 DEF InRing
<1>6. writeIndex' = (r + (b + t)) % RingLen
  <2>1. (((r + b) % RingLen) + t) % RingLen = (r + b + t) % RingLen
    BY Sizes, ModPlus, r + b \in Nat
  <2>2. r + b + t = r + (b + t)
    OBVIOUS
  <2>. QED  BY <1>4, <1>5, <2>1, <2>2
<1>7. writeIndex' \in 0 .. RingLen - 1
  BY <1>6, RingCell, r + (b + t) \in Nat
<1>8. /\ fileDataLen = 1 + l + b /\ fileDataLen = hostSent - inSock
      /\ fileDataLen \in Nat /\ inSock \in Nat /\ hostSent \in Nat
  BY <1>2, <1>3 DEF Stream, Ranges, Hdr
<1>9. ASSUME NEW i \in 1 .. b + t
      PROVE  ring'[(r + i - 1) % RingLen] = <<file, l + i>>
  <2>1. PICK a \in 0 .. RingLen - 1 : a = i - 1 /\ r + i - 1 = r + a /\ a < b + t
    BY <1>1, <1>2, Sizes
  <2>2. PICK c \in 0 .. RingLen - 1 : c = (r + a) % RingLen
    BY RingCell, r + a \in Nat
  <2>3. (c - w + RingLen) % RingLen = IF a >= b THEN a - b ELSE a - b + RingLen
    BY <1>5, <2>2, RingDistance
  <2>4. ring'[c] = IF ((c - w + RingLen) % RingLen) + 1 <= t
                   THEN FromSock(((c - w + RingLen) % RingLen) + 1) ELSE ring[c]
    BY <1>4, <2>2 DEF Ranges
  <2>5. CASE a >= b
    <3>1. ((c - w + RingLen) % RingLen) + 1 = i - b /\ i - b <= t
      BY <2>1, <2>3, <2>5
    <3>2. ring'[c] = FromSock(i - b)
      BY <2>4, <3>1
    <3>3. FromSock(i - b) = <<file, hostSent - inSock + (i - b) - 1>>
      BY DEF FromSock, Hdr
    <3>4. hostSent - inSock + (i - b) - 1 = l + i
      BY <1>8
    <3>. QED  BY <2>1, <2>2, <3>2, <3>3, <3>4
  <2>6. CASE a < b
    <3>1. (c - w + RingLen) % RingLen = a - b + RingLen
      BY <2>3, <2>6
    <3>2. ~((a - b + RingLen) + 1 <= t)
      BY <1>1, <1>2, Sizes
    <3>3. ring'[c] = ring[c]
      BY <2>4, <3>1, <3>2
    <3>4. i \in 1 .. b
      BY <2>1, <2>6
    <3>5. ring[(r + i - 1) % RingLen] = <<file, l + i>>
      BY <1>0, <1>2, <1>3, <3>4 DEF InRing
    <3>. QED  BY <2>1, <2>2, <3>3, <3>5
  <2>. QED  BY <2>5, <2>6
<1>10. InRing(flashProgramLen)'
  BY <1>3, <1>4, <1>6, <1>9 DEF InRing
<1>11. DOMAIN ring' = 0 .. RingLen - 1
  BY <1>4 DEF Ranges
<1>12. buffUsedLen' \in 0 .. RingLen /\ inSock' \in Nat
  BY <1>1, <1>2, <1>4, <1>8, Sizes
<1>13. /\ fileDataLen' \in Nat /\ fileDataLen' > 0
       /\ fileDataLen' = 1 + l + (b + t) /\ fileDataLen' = hostSent - inSock'
  BY <1>1, <1>4, <1>8
<1>. QED  BY <1>3, <1>4, <1>7, <1>10, <1>11, <1>12, <1>13 DEF Hdr

LEMMA WritableIs ==
  ASSUME Ranges, Connection, Stream, Writable > 0
  PROVE  /\ fileDataLen > 0 /\ Writable \in 1 .. buffUsedLen
         /\ flashProgramLen % PageUnits = 0
         /\ \/ (flashProgramLen + Writable) % PageUnits = 0
            \/ flashProgramLen + Writable = file
<1>1. PICK b \in Nat : b = buffUsedLen
  BY DEF Ranges
<1>2. PICK k \in Nat : k = b \div PageUnits
  BY Sizes, ModRange
<1>3. b = k * PageUnits + (b % PageUnits) /\ b % PageUnits \in Nat /\ k * PageUnits \in Nat
  BY <1>2, Sizes, ModRange
<1>4. b >= PageUnits => Writable = k * PageUnits
  BY <1>1, <1>2 DEF Writable
<1>5. b < PageUnits => Writable = b /\ para.len = fileDataLen
  BY <1>1, Sizes DEF Writable
<1>6. Writable \in 1 .. b
  <2>1. CASE b >= PageUnits
    BY <1>3, <1>4, <2>1
  <2>2. CASE b < PageUnits
    BY <1>5, <2>2
  <2>. QED  BY <2>1, <2>2, Sizes
<1>7. fileDataLen > 0
  BY <1>1, <1>6 DEF Stream, Ranges
<1>8. PICK l \in Nat : l = flashProgramLen
  BY DEF Ranges
<1>9. l % PageUnits = 0
  BY <1>1, <1>6, <1>7, <1>8, StreamFacts DEF Stream
<1>10. CASE b >= PageUnits
  <2>1. PICK q \in Nat : q = l \div PageUnits
    BY Sizes, ModRange
  <2>2. l = q * PageUnits + 0
    BY <1>9, <2>1, Sizes, ModRange
  <2>3. q * PageUnits \in Nat /\ (q + k) * PageUnits = q * PageUnits + k * PageUnits
    BY Sizes
  <2>4. l + k * PageUnits = (q + k) * PageUnits + 0
    BY <1>3, <2>2, <2>3
  <2>5. ((q + k) * PageUnits + 0) % PageUnits = 0
    BY Sizes, ModUnique, q + k \in Nat, 0 \in 0 .. PageUnits - 1
  <2>. QED  BY <1>1, <1>4, <1>6, <1>7, <1>8, <1>9, <1>10, <2>4, <2>5
<1>11. CASE b < PageUnits
  <2>1. l + b = file
    BY <1>1, <1>5, <1>7, <1>8, <1>11, StreamFacts
  <2>. QED  BY <1>1, <1>5, <1>6, <1>7, <1>8, <1>9, <1>11, <2>1
<1>. QED  BY <1>10, <1>11, Sizes

(* What is taken out of the ring, and what is left in it. *)
LEMMA ChunkIs ==
  ASSUME Ranges, Connection, Stream, Writable > 0, NEW j \in 1 .. Writable
  PROVE  Chunk[j] = <<file, flashProgramLen + j>>
<1>1. j \in 1 .. buffUsedLen
  BY WritableIs DEF Ranges
<1>2. Chunk[j] = ring[(readIndex + j - 1) % RingLen]
  BY DEF Chunk
<1>. QED  BY <1>1, <1>2 DEF Stream, InRing

LEMMA RingGives ==
  ASSUME Ranges, Connection, Stream, Writable > 0,
         readIndex' = (readIndex + Writable) % RingLen,
         buffUsedLen' = buffUsedLen - Writable,
         flashProgramLen' = flashProgramLen + Writable,
         UNCHANGED <<ring, writeIndex, file>>
  PROVE  /\ readIndex' \in 0 .. RingLen - 1 /\ buffUsedLen' \in 0 .. RingLen
         /\ InRing(flashProgramLen)'
<1>1. PICK k \in Nat : k = Writable /\ k \in 1 .. buffUsedLen
  BY WritableIs DEF Ranges
<1>2. PICK r \in Nat, b \in Nat, l \in Nat :
        r = readIndex /\ b = buffUsedLen /\ l = flashProgramLen
  BY Sizes DEF Ranges
<1>3. readIndex' = (r + k) % RingLen /\ (r + k) % RingLen \in 0 .. RingLen - 1
  BY <1>1, <1>2, RingCell, r + k \in Nat
<1>4. buffUsedLen' = b - k /\ b - k \in 0 .. RingLen
  BY <1>1, <1>2, Sizes DEF Ranges
<1>5. writeIndex' = (readIndex' + buffUsedLen') % RingLen
  <2>1. PICK c \in Nat : c = b - k
    BY <1>4
  <2>2. (((r + k) % RingLen) + c) % RingLen = (r + k + c) % RingLen
    BY Sizes, ModPlus, r + k \in Nat
  <2>3. r + k + c = r + b
    BY <2>1
  <2>4. writeIndex = (r + b) % RingLen
    BY <1>2 DEF Stream, InRing
  <2>. QED  BY <1>3, <1>4, <2>1, <2>2, <2>3, <2>4
<1>6. ASSUME NEW i \in 1 .. b - k
      PROVE  ring[(((r + k) % RingLen) + i - 1) % RingLen] = <<file, (l + k) + i>>
  <2>1. PICK c \in Nat : c = i - 1
    OBVIOUS
  <2>2. (((r + k) % RingLen) + c) % RingLen = (r + k + c) % RingLen
    BY Sizes, ModPlus, r + k \in Nat
  <2>3. PICK x \in Nat : x = (r + k) % RingLen
    BY <1>3
  <2>4. x + i - 1 = x + c /\ r + k + c = r + (k + i) - 1 /\ k + i \in 1 .. b
    BY <2>1
  <2>5. ring[(r + (k + i) - 1) % RingLen] = <<file, l + (k + i)>>
    BY <1>2, <2>4 DEF Stream, InRing
  <2>6. l + (k + i) = (l + k) + i
    OBVIOUS
  <2>. QED  BY <2>2, <2>3, <2>4, <2>5, <2>6
<1>7. flashProgramLen' = l + k
  BY <1>1, <1>2
<1>8. \A i \in 1 .. b - k : ring'[(readIndex' + i - 1) % RingLen] = <<file', flashProgramLen' + i>>
  BY <1>3, <1>6, <1>7
<1>. QED  BY <1>3, <1>4, <1>5, <1>8 DEF InRing

LEMMA PagesTake ==
  ASSUME Ranges, Connection, Stream, Writable > 0, ProgramBackup, ~worn',
         \A p \in Pages : backup[p] = Piece(p),
         flashProgramLen' = flashProgramLen + Writable, file' = file
  PROVE  \A p \in Pages : backup'[p] = Piece(p)'
<1>1. PICK l \in Nat : l = flashProgramLen /\ l % PageUnits = 0
  BY WritableIs DEF Ranges
<1>2. PICK q \in Nat : q = l \div PageUnits
  BY Sizes, ModRange
<1>3. l = q * PageUnits
  <2>1. l = q * PageUnits + 0
    BY <1>1, <1>2, Sizes, ModRange
  <2>2. q * PageUnits \in Nat
    BY Sizes
  <2>. QED  BY <2>1, <2>2
<1>4. PICK w \in Nat : w = Writable /\ w > 0
  BY WritableIs DEF Ranges
<1> DEFINE first == flashProgramLen \div PageUnits
           Part(p) == [i \in 1 .. AtMost(PageUnits, Writable - (p - first) * PageUnits) |->
                         Chunk[(p - first) * PageUnits + i]]
           pages == {p \in Pages : p >= first /\ (p - first) * PageUnits < Writable}
           After(p) == IF backup[p] = Erased THEN Part(p) ELSE Junk
<1>5. PICK bad \in {{}} \cup {{x} : x \in pages} :
        /\ backup' = [p \in Pages |-> IF p \in bad THEN Junk
                                     ELSE IF p \in pages THEN After(p) ELSE backup[p]]
        /\ worn' = (worn \/ bad # {})
  BY DEF ProgramBackup
<1>5a. bad = {}
  BY <1>5
<1>. SUFFICES ASSUME NEW p \in Pages PROVE backup'[p] = Piece(p)'
  OBVIOUS
<1>6. p \in Nat
  BY Sizes DEF Pages
<1>6a. backup'[p] = IF p \in pages THEN After(p) ELSE backup[p]
  <2>. HIDE DEF pages, After
  <2>. QED  BY <1>5, <1>5a
<1>6b. backup'[p] = IF p >= q /\ (p - q) * PageUnits < w
                    THEN IF backup[p] = Erased
                         THEN [i \in 1 .. AtMost(PageUnits, w - (p - q) * PageUnits) |->
                                 Chunk[(p - q) * PageUnits + i]]
                         ELSE Junk
                    ELSE backup[p]
  <2>1. first = q
    BY <1>1, <1>2
  <2>2. (p \in pages) = (p >= q /\ (p - q) * PageUnits < w)
    BY <1>4, <2>1
  <2>3. After(p) = IF backup[p] = Erased
                   THEN [i \in 1 .. AtMost(PageUnits, w - (p - q) * PageUnits) |->
                           Chunk[(p - q) * PageUnits + i]]
                   ELSE Junk
    BY <1>4, <2>1, Zenon
  <2>. HIDE DEF pages, After
  <2>. QED  BY <1>6a, <2>2, <2>3
<1>. HIDE DEF first, Part, pages, After
<1>7. PICK m \in Nat : m = p * PageUnits /\ (p + 1) * PageUnits = m + PageUnits
  BY <1>6, PageMono
<1>8. Piece(p) = [i \in 1 .. IF l >= m + PageUnits THEN PageUnits
                             ELSE IF l > m THEN l - m ELSE 0 |-> <<file, m + i>>]
  BY <1>1, <1>7 DEF Piece
<1>9. Piece(p)' = [i \in 1 .. IF l + w >= m + PageUnits THEN PageUnits
                              ELSE IF l + w > m THEN l + w - m ELSE 0 |-> <<file, m + i>>]
  BY <1>1, <1>4, <1>7 DEF Piece
<1>10. CASE p < q
  <2>1. l >= m + PageUnits /\ l + w >= m + PageUnits
    BY <1>3, <1>4, <1>6, <1>7, <1>10, PageMono, Sizes
  <2>2. backup'[p] = backup[p]
    <3>1. ~(p >= q)
      BY <1>2, <1>6, <1>10
    <3>. QED  BY <1>6b, <3>1
  <2>3. Piece(p) = Piece(p)'
    BY <1>8, <1>9, <2>1
  <2>. QED  BY <2>2, <2>3
<1>11. CASE p >= q
  <2>1. PICK d \in Nat : d = p - q /\ p = q + d
    BY <1>6, <1>11
  <2>2. PICK e \in Nat : e = d * PageUnits
    BY Sizes
  <2>3. m = l + e
    <3>1. (q + d) * PageUnits = q * PageUnits + d * PageUnits
      BY Sizes
    <3>. QED  BY <1>3, <1>7, <2>1, <2>2, <3>1
  <2>4. backup[p] = Erased
    <3>1. ~(l >= m + PageUnits) /\ ~(l > m)
      BY <2>3, Sizes
    <3>2. Piece(p) = [i \in 1 .. 0 |-> <<file, m + i>>]
      BY <1>8, <3>1
    <3>. QED  BY <3>2 DEF Erased
  <2>5. CASE e >= w
    <3>1. ~(e < w)
      BY <2>5
    <3>1a. backup'[p] = Erased
      BY <1>6b, <2>1, <2>2, <2>4, <3>1
    <3>2. ~(l + w >= m + PageUnits) /\ ~(l + w > m)
      BY <2>3, <2>5, Sizes
    <3>3. Piece(p)' = [i \in 1 .. 0 |-> <<file, m + i>>]
      BY <1>9, <3>2
    <3>. QED  BY <3>1a, <3>3 DEF Erased
  <2>6. CASE e < w
    <3>0. AtMost(PageUnits, w - e) \in Nat /\ AtMost(PageUnits, w - e) <= w - e
      BY <2>6, Sizes DEF AtMost
    <3>1. PICK n \in Nat : n = AtMost(PageUnits, w - e) /\ n <= w - e
      BY <3>0
    <3>2. backup'[p] = [i \in 1 .. n |-> Chunk[e + i]]
      BY <1>6b, <1>11, <2>1, <2>2, <2>4, <2>6, <3>1
    <3>3. n = IF l + w >= m + PageUnits THEN PageUnits
              ELSE IF l + w > m THEN l + w - m ELSE 0
      BY <2>3, <2>6, <3>1, Sizes DEF AtMost
    <3>4. ASSUME NEW i \in 1 .. n PROVE Chunk[e + i] = <<file, m + i>>
      <4>1. e + i \in 1 .. w
        BY <3>1
      <4>2. Chunk[e + i] = <<file, l + (e + i)>>
        BY <1>1, <1>4, <4>1, ChunkIs
      <4>3. l + (e + i) = m + i
        BY <2>3
      <4>. QED  BY <4>2, <4>3
    <3>5. Piece(p)' = [i \in 1 .. n |-> <<file, m + i>>]
      BY <1>9, <3>3
    <3>. QED  BY <3>2, <3>4, <3>5
  <2>. QED  BY <2>5, <2>6
<1>. QED  BY <1>6, <1>10, <1>11
----------------------------------------------------------------------------
(***************************************************************************)
(* A step keeps the ranges.                                                *)
(***************************************************************************)
LEMMA Reset ==
  ASSUME ParaInit
  PROVE  /\ readIndex' \in 0 .. RingLen - 1 /\ writeIndex' \in 0 .. RingLen - 1
         /\ buffUsedLen' = 0 /\ fileDataLen' = 0 /\ flashProgramLen' = 0 /\ para'.len = 0
         /\ InRing(flashProgramLen)'
         /\ flashProgramLen' % PageUnits = 0
<1>1. 0 % RingLen = 0 /\ 0 % PageUnits = 0
  BY Sizes, ModSmall
<1>2. readIndex' = 0 /\ writeIndex' = 0 /\ buffUsedLen' = 0 /\ flashProgramLen' = 0
  BY DEF ParaInit
<1>3. InRing(flashProgramLen)'
  BY <1>1, <1>2 DEF InRing
<1>. QED  BY <1>1, <1>2, <1>3, Sizes DEF ParaInit, NoPara

LEMMA BackupErased ==
  ASSUME Ranges, pc \in {"wipe", "connErase"}, EraseBackup
  PROVE  /\ DOMAIN backup' = Pages /\ flag' \in {"none", "update"} /\ step' \in Nat
         /\ step = NBlocks - 1 => step' = 0
         /\ step # NBlocks - 1 => step' = step + 1 /\ step' < NBlocks
<1>1. step \in Nat /\ step < NBlocks
  BY DEF Ranges, Erasing
<1>. QED  BY <1>1, Sizes DEF EraseBackup, EraseBlock, Ranges

LEMMA RangesStep == IInv /\ Next => Ranges'
<1>. SUFFICES ASSUME IInv, Next PROVE Ranges'
  OBVIOUS
<1>0. Ranges /\ Connection /\ Stream
  BY DEF IInv
<1>1. CASE HostConnects
  BY <1>0, <1>1, ImageSize DEF HostConnects, Ranges, vars, flashVars, recvVars, ringVars, histVars,
    InLoop, Starting, Erasing, Hdr
<1>2. CASE HostSends
  <2>1. hostSent' \in Nat /\ hostSent' <= Hdr + file /\ inSock' \in Nat
    BY <1>0, <1>2, Sizes DEF HostSends, Ranges
  <2>. QED  BY <1>0, <1>2, <2>1 DEF HostSends, Ranges, flashVars, recvVars, ringVars, histVars
<1>3. CASE LinkEnds
  BY <1>0, <1>3 DEF LinkEnds, Ranges, flashVars, recvVars, ringVars, histVars
<1>4. CASE Boot
  <2>1. CASE IAPParaInit /\ NewSocket /\ pc' = "recv"
    BY <1>0, <1>4, <2>1, Reset, Sizes DEF Boot, IAPParaInit, NewSocket, Ranges, flashVars, histVars,
      Starting, Erasing
  <2>2. CASE UNCHANGED <<conn, recvVars>> /\ pc' \in {"copyErase", "app"}
    BY <1>0, <1>4, <2>2, Sizes DEF Boot, Ranges, flashVars, recvVars, ringVars, histVars,
      Starting, Erasing
  <2>. QED  BY <1>4, <2>1, <2>2 DEF Boot
<1>5. CASE CopyErase
  <2>1. step \in Nat /\ step < NBlocks
    BY <1>0, <1>5 DEF CopyErase, Ranges, Erasing
  <2>2. DOMAIN user' = Pages
    BY <1>5 DEF CopyErase, EraseBlock
  <2>3. /\ step' \in Nat
        /\ \/ pc' = "copyErase" /\ step' < NBlocks
           \/ pc' = "copyPage" /\ step' < NPages
    BY <1>5, <2>1, Sizes DEF CopyErase
  <2>. QED  BY <1>0, <1>5, <2>2, <2>3 DEF CopyErase, Ranges, hostVars, recvVars, ringVars,
              histVars, Starting, Erasing
<1>6. CASE CopyPage
  <2>1. step \in Nat /\ step < NPages
    BY <1>0, <1>6 DEF CopyPage, Ranges
  <2>2. DOMAIN user' = Pages
    BY <1>0, <1>6 DEF CopyPage, Written, Ranges
  <2>3. /\ step' \in Nat
        /\ \/ pc' = "copyPage" /\ step' < NPages
           \/ pc' \in {"wipe", "halt"} /\ step' = 0
    BY <1>6, <2>1, Sizes DEF CopyPage
  <2>. QED  BY <1>0, <1>6, <2>2, <2>3, Sizes DEF CopyPage, Ranges, hostVars, recvVars, ringVars,
              histVars, Starting, Erasing
<1>7. CASE Wipe
  <2>1. /\ DOMAIN backup' = Pages /\ flag' \in {"none", "update"} /\ step' \in Nat
        /\ step = NBlocks - 1 => step' = 0
        /\ step # NBlocks - 1 => step' = step + 1 /\ step' < NBlocks
    BY <1>0, <1>7, BackupErased DEF Wipe
  <2>. QED  BY <1>0, <1>7, <2>1 DEF Wipe, Ranges, hostVars, recvVars, ringVars,
              histVars, Starting, Erasing
<1>8. CASE Recv
  <2>0. step = 0 /\ pc' = "connect"
    BY <1>0, <1>8 DEF Recv, Ranges, Erasing
  <2>1. CASE IAPFileParaCheck
    <3>1. inSock' \in Nat
      BY <1>0, <2>1 DEF IAPFileParaCheck, Ranges, Hdr
    <3>2. CASE header # "flag"
      BY <1>0, <1>8, <2>0, <2>1, <3>1, <3>2 DEF Recv, IAPFileParaCheck, Ranges, flashVars,
        ringVars, histVars, Starting, Erasing, Hdr
    <3>3. CASE header = "flag"
      BY <1>0, <1>8, <2>0, <2>1, <3>1, <3>3, Reset, Sizes DEF Recv, IAPFileParaCheck, IAPParaInit,
        Ranges, flashVars, histVars, Starting, Erasing
    <3>. QED  BY <3>2, <3>3
  <2>2. CASE fileDataLen >= Hdr /\ buffUsedLen < RingLen /\ ReceUpdatedFile
    <3>1. fileDataLen > 0 /\ file' = file
      BY <1>0, <1>8, <2>2 DEF Recv, Ranges, Hdr
    <3>2. /\ DOMAIN ring' = 0 .. RingLen - 1
          /\ writeIndex' \in 0 .. RingLen - 1 /\ buffUsedLen' \in 0 .. RingLen
          /\ inSock' \in Nat /\ fileDataLen' \in Nat
      BY <1>0, <2>2, <3>1, RingTakes
    <3>. QED  BY <1>0, <1>8, <2>0, <2>2, <3>2 DEF Recv, ReceUpdatedFile, Ranges, flashVars,
                histVars, Starting, Erasing
  <2>3. CASE UNCHANGED <<conn, inSock, recvVars>>
    BY <1>0, <1>8, <2>0, <2>3 DEF Recv, Ranges, flashVars, recvVars, ringVars, histVars,
      Starting, Erasing
  <2>. QED  BY <1>8, <2>1, <2>2, <2>3 DEF Recv
<1>9. CASE Connect
  BY <1>0, <1>9, Sizes DEF Connect, Ranges, flashVars, recvVars, ringVars, Starting, Erasing
<1>10. CASE ConnErase
  <2>1. /\ DOMAIN backup' = Pages /\ flag' \in {"none", "update"} /\ step' \in Nat
        /\ step = NBlocks - 1 => step' = 0
        /\ step # NBlocks - 1 => step' = step + 1 /\ step' < NBlocks
    BY <1>0, <1>10, BackupErased DEF ConnErase
  <2>. QED  BY <1>0, <1>10, <2>1 DEF ConnErase, Ranges, hostVars, recvVars, ringVars,
              histVars, Starting, Erasing
<1>11. CASE Disconnect
  <2>0. step = 0 /\ pc' = "save"
    BY <1>0, <1>11 DEF Disconnect, Ranges, Erasing
  <2>1. CASE ints \cap {"DISCONNECT", "TIM_OUT"} # {}
    <3>1. /\ conn' \in {"none", "connecting"} /\ hostSent' = 0 /\ inSock' = 0
          /\ connFlag' = 0 /\ IAPParaInit
      BY <1>11, <2>1 DEF Disconnect, NewSocket
    <3>. QED  BY <1>0, <1>11, <2>0, <2>1, <3>1, Reset, ImageSize, Sizes DEF Disconnect, IAPParaInit, Ranges,
                flashVars, histVars, Starting, Erasing, Hdr
  <2>2. CASE ints \cap {"DISCONNECT", "TIM_OUT"} = {}
    BY <1>0, <1>11, <2>0, <2>2 DEF Disconnect, Ranges, flashVars, recvVars, ringVars, histVars,
      Starting, Erasing
  <2>. QED  BY <1>11, <2>1, <2>2 DEF Disconnect
<1>12. CASE Save
  <2>0. step = 0 /\ pc' \in {"recv", "setFlag"}
    BY <1>0, <1>12 DEF Save, Ranges, Erasing
  <2>1. CASE UNCHANGED <<backup, worn, conn, ints, recvVars>>
    BY <1>0, <1>12, <2>0, <2>1 DEF Save, Ranges, recvVars, ringVars, Starting, Erasing
  <2>2. CASE /\ Writable > 0 /\ flashProgramLen + Writable <= MaxData /\ ProgramBackup
             /\ readIndex' = (readIndex + Writable) % RingLen
             /\ buffUsedLen' = buffUsedLen - Writable
             /\ flashProgramLen' = flashProgramLen + Writable
             /\ UNCHANGED <<ring, writeIndex, fileDataLen, para>>
    <3>1. readIndex' \in 0 .. RingLen - 1 /\ buffUsedLen' \in 0 .. RingLen
      BY <1>0, <1>12, <2>2, RingGives DEF Save
    <3>2. flashProgramLen' \in 0 .. MaxData
      <4>1. Writable \in Nat /\ flashProgramLen \in Nat
        BY <1>0, <2>2, WritableIs DEF Ranges
      <4>. QED  BY <2>2, <4>1, Sizes
    <3>3. DOMAIN backup' = Pages
      BY <2>2 DEF ProgramBackup
    <3>4. conn' \in {conn, "closed"}
      BY <1>12 DEF Save, SocketClose
    <3>. QED  BY <1>0, <1>12, <2>0, <2>2, <3>1, <3>2, <3>3, <3>4 DEF Save, Ranges, Starting, Erasing
  <2>. QED  BY <1>12, <2>1, <2>2 DEF Save
<1>13. CASE SetFlag
  <2>1. ParaInit /\ ring' = NoBytes
    BY <1>13 DEF SetFlag, RamReset
  <2>2. pc' = "boot" /\ step' = 0 /\ conn' = "none" /\ hostSent' = 0 /\ inSock' = 0
        /\ connFlag' = 0 /\ file' = want' /\ want' = file /\ flag' = "update"
        /\ UNCHANGED <<user, backup>>
    BY <1>13 DEF SetFlag, RamReset
  <2>. QED  BY <1>0, <2>1, <2>2, Reset, ImageSize, Sizes DEF Ranges, NoBytes, Starting, Erasing, Hdr
<1>14. CASE PowerLoss
  <2>1. ParaInit /\ ring' = NoBytes
    BY <1>14 DEF PowerLoss, RamReset
  <2>2. pc' = "boot" /\ step' = 0 /\ conn' = "none" /\ hostSent' = 0 /\ inSock' = 0
        /\ connFlag' = 0 /\ file' = want' /\ want' = want
    BY <1>14 DEF PowerLoss, RamReset
  <2>3. DOMAIN user' = Pages /\ DOMAIN backup' = Pages /\ flag' \in {"none", "update"}
    BY <1>0, <1>14 DEF PowerLoss, TornFlash, TearBlock, Ranges, flashVars
  <2>. QED  BY <1>0, <2>1, <2>2, <2>3, Reset, ImageSize, Sizes DEF Ranges, NoBytes, Starting, Erasing, Hdr
<1>. QED  BY <1>1, <1>2, <1>3, <1>4, <1>5, <1>6, <1>7, <1>8, <1>9, <1>10, <1>11, <1>12, <1>13,
            <1>14 DEF Next, Host, BootSteps, Loop
----------------------------------------------------------------------------
(***************************************************************************)
(* A step keeps the order of a connection.                                 *)
(***************************************************************************)
LEMMA ConnectionStep == IInv /\ Next => Connection'
<1>. SUFFICES ASSUME IInv, Next PROVE Connection'
  OBVIOUS
<1>0. Ranges /\ Connection /\ Stream
  BY DEF IInv
<1>1. CASE HostConnects
  BY <1>0, <1>1 DEF HostConnects, Connection, InLoop, Starting, recvVars
<1>2. CASE HostSends
  BY <1>0, <1>2 DEF HostSends, Connection, InLoop, Starting, recvVars
<1>3. CASE LinkEnds
  BY <1>0, <1>3 DEF LinkEnds, Connection, InLoop, Starting, recvVars
<1>4. CASE Boot
  <2>1. conn = "none"
    BY <1>0, <1>4 DEF Boot, Connection, Starting
  <2>2. CASE IAPParaInit /\ NewSocket /\ pc' = "recv"
    BY <1>0, <1>4, <2>1, <2>2 DEF Boot, Connection, Starting, IAPParaInit, ParaInit, NewSocket
  <2>3. CASE UNCHANGED <<conn, recvVars>> /\ pc' \in {"copyErase", "app"}
    BY <1>0, <1>4, <2>1, <2>3 DEF Boot, Connection, Starting, recvVars
  <2>. QED  BY <1>4, <2>2, <2>3 DEF Boot
<1>5. CASE CopyErase
  BY <1>0, <1>5 DEF CopyErase, Connection, Starting, hostVars, recvVars
<1>6. CASE CopyPage
  BY <1>0, <1>6 DEF CopyPage, Connection, Starting, hostVars, recvVars
<1>7. CASE Wipe
  BY <1>0, <1>7 DEF Wipe, Connection, Starting, hostVars, recvVars
<1>8. CASE Recv
  <2>0. pc = "recv" /\ pc' = "connect" /\ UNCHANGED <<hostSent, connFlag>>
    BY <1>8 DEF Recv
  <2>1. CASE IAPFileParaCheck
    <3>1. inSock > 0
      BY <1>0, <2>1 DEF IAPFileParaCheck, Ranges, Hdr
    <3>2. conn \notin {"none", "connecting"}
      BY <1>0, <3>1 DEF Connection
    <3>3. /\ \/ conn' = conn /\ ints' = ints \ {"RECV"}
             \/ conn' = "closed" /\ ints' = (ints \ {"RECV"}) \cup {"DISCONNECT"}
      BY <2>1 DEF IAPFileParaCheck
    <3>. QED  BY <1>0, <2>0, <3>2, <3>3 DEF Connection, Starting
  <2>2. CASE fileDataLen >= Hdr /\ ReceUpdatedFile
    <3>1. conn \notin {"none", "connecting"}
      BY <1>0, <2>2 DEF Connection, Hdr
    <3>. QED  BY <1>0, <2>0, <2>2, <3>1 DEF ReceUpdatedFile, Connection, Starting
  <2>3. CASE UNCHANGED <<conn, inSock, recvVars>> /\ ints' = ints \ {"RECV"}
    BY <1>0, <2>0, <2>3 DEF Connection, Starting, recvVars
  <2>. QED  BY <1>8, <2>1, <2>2, <2>3 DEF Recv
<1>9. CASE Connect
  BY <1>0, <1>9 DEF Connect, Connection, Starting, recvVars
<1>10. CASE ConnErase
  BY <1>0, <1>10 DEF ConnErase, Connection, Starting, hostVars, recvVars
<1>11. CASE Disconnect
  <2>1. CASE ints \cap {"DISCONNECT", "TIM_OUT"} # {}
    BY <1>11, <2>1 DEF Disconnect, Connection, Starting, IAPParaInit, ParaInit, NewSocket
  <2>2. CASE ints \cap {"DISCONNECT", "TIM_OUT"} = {}
    BY <1>0, <1>11, <2>2 DEF Disconnect, Connection, Starting, recvVars
  <2>. QED  BY <2>1, <2>2
<1>12. CASE Save
  <2>0. pc = "save" /\ pc' \in {"recv", "setFlag"} /\ UNCHANGED <<hostSent, inSock, connFlag>>
    BY <1>12 DEF Save
  <2>1. conn # "closed"
    BY <1>0, <2>0 DEF Connection
  <2>2. CASE UNCHANGED <<backup, worn, conn, ints, recvVars>>
    BY <1>0, <1>12, <2>0, <2>1, <2>2 DEF Save, Connection, Starting, recvVars
  <2>3. CASE Writable > 0 /\ UNCHANGED fileDataLen
    <3>1. fileDataLen > 0 /\ conn \notin {"none", "connecting"}
      <4>1. fileDataLen > 0
        BY <1>0, <2>3, WritableIs
      <4>. QED  BY <1>0, <4>1 DEF Connection
    <3>2. \/ UNCHANGED <<conn, ints>>
          \/ conn' = "closed" /\ ints' = ints \cup {"DISCONNECT"} /\ pc' = "recv"
      BY <1>12 DEF Save, SocketClose
    <3>3. ints' \subseteq ints \cup {"DISCONNECT"}
      BY <3>2
    <3>. QED  BY <1>0, <2>0, <2>1, <2>3, <3>1, <3>2, <3>3 DEF Connection, Starting
  <2>. QED  BY <1>12, <2>2, <2>3 DEF Save
<1>13. CASE RamReset
  BY <1>13 DEF RamReset, ParaInit, Connection, Starting
<1>. QED  BY <1>1, <1>2, <1>3, <1>4, <1>5, <1>6, <1>7, <1>8, <1>9, <1>10, <1>11, <1>12, <1>13
          DEF Next, Host, BootSteps, Loop, SetFlag, PowerLoss
----------------------------------------------------------------------------
(***************************************************************************)
(* A step keeps the account of the bytes.                                  *)
(***************************************************************************)
LEMMA SameRing ==
  ASSUME InRing(flashProgramLen),
         UNCHANGED <<readIndex, writeIndex, buffUsedLen, ring, file, flashProgramLen>>
  PROVE  InRing(flashProgramLen)'
BY DEF InRing

LEMMA StreamStep == IInv /\ Next => Stream'
<1>. SUFFICES ASSUME IInv, Next PROVE Stream'
  OBVIOUS
<1>0. Ranges /\ Connection /\ Stream
  BY DEF IInv
<1>0a. InRing(flashProgramLen) /\ fileDataLen \in Nat
  BY <1>0 DEF Stream, Ranges
<1>1. CASE HostConnects
  <2>1. /\ fileDataLen = 0 /\ buffUsedLen = 0 /\ flashProgramLen = 0
        /\ UNCHANGED <<readIndex, writeIndex, buffUsedLen, flashProgramLen, fileDataLen, para, pc>>
        /\ hostSent' = 0 /\ inSock' = 0
    BY <1>0, <1>1 DEF HostConnects, Connection, Stream, recvVars, ringVars
  <2>2. InRing(flashProgramLen)'
    BY <1>0a, <2>1 DEF InRing
  <2>3. pc # "setFlag"
    BY <1>1 DEF HostConnects, InLoop
  <2>4. 0 % PageUnits = 0
    BY Sizes, ModSmall
  <2>. QED  BY <1>0, <2>1, <2>2, <2>3, <2>4 DEF Stream
<1>2. CASE HostSends
  <2>1. /\ UNCHANGED <<readIndex, writeIndex, buffUsedLen, ring, file, flashProgramLen,
                       fileDataLen, para, pc, connFlag>>
        /\ conn = "open"
    BY <1>2 DEF HostSends, recvVars, ringVars
  <2>2. InRing(flashProgramLen)'
    BY <1>0a, <2>1, SameRing
  <2>3. PICK n \in 1 .. RingLen - inSock : hostSent' = hostSent + n /\ inSock' = inSock + n
    BY <1>2 DEF HostSends
  <2>4. hostSent' - inSock' = hostSent - inSock /\ (hostSent = inSock => hostSent' = inSock')
    BY <1>0, <2>3, Sizes DEF Ranges
  <2>. QED  BY <1>0, <2>1, <2>2, <2>4 DEF Stream
<1>3. CASE LinkEnds
  <2>1. /\ UNCHANGED <<readIndex, writeIndex, buffUsedLen, ring, file, flashProgramLen,
                       fileDataLen, para, pc, connFlag, hostSent, inSock>>
        /\ conn # "closed"
    BY <1>3 DEF LinkEnds, recvVars, ringVars
  <2>2. InRing(flashProgramLen)'
    BY <1>0a, <2>1, SameRing
  <2>. QED  BY <1>0, <2>1, <2>2 DEF Stream
<1>4. CASE Boot
  <2>1. conn = "none" /\ hostSent' = 0 /\ inSock' = 0 /\ pc' \notin {"setFlag", "connErase"}
    BY <1>0, <1>4 DEF Boot, Connection, Starting
  <2>2. CASE IAPParaInit
    BY <2>1, <2>2, Reset DEF IAPParaInit, Stream
  <2>3. CASE UNCHANGED <<conn, recvVars>>
    <3>1. UNCHANGED <<readIndex, writeIndex, buffUsedLen, ring, file, flashProgramLen,
                      fileDataLen, para, connFlag>>
      BY <1>4, <2>3 DEF Boot, recvVars, ringVars
    <3>2. InRing(flashProgramLen)'
      BY <1>0a, <3>1, SameRing
    <3>. QED  BY <1>0, <1>4, <2>1, <3>1, <3>2 DEF Stream, Connection
  <2>. QED  BY <1>4, <2>2, <2>3 DEF Boot
<1>5. CASE CopyErase \/ CopyPage \/ Wipe \/ ConnErase
  <2>1. /\ UNCHANGED <<readIndex, writeIndex, buffUsedLen, ring, file, flashProgramLen,
                       fileDataLen, para, connFlag, hostSent, inSock, conn>>
        /\ pc' # "setFlag" /\ (pc' = "connErase" => pc = "connErase")
    BY <1>5 DEF CopyErase, CopyPage, Wipe, ConnErase, hostVars, recvVars, ringVars
  <2>2. InRing(flashProgramLen)'
    BY <1>0a, <2>1, SameRing
  <2>. QED  BY <1>0, <2>1, <2>2 DEF Stream
<1>6. CASE Recv
  <2>0. pc = "recv" /\ pc' = "connect" /\ UNCHANGED <<hostSent, connFlag, file>>
    BY <1>6 DEF Recv
  <2>1. CASE fileDataLen < Hdr /\ IAPFileParaCheck
    <3>1. /\ fileDataLen = 0 /\ conn # "closed" /\ hostSent = inSock /\ flashProgramLen = 0
          /\ buffUsedLen = 0
      BY <1>0, <1>0a, <2>0, <2>1 DEF Stream, Connection, Hdr
    <3>2. CASE header = "flag"
      BY <2>0, <2>1, <3>2, Reset DEF IAPFileParaCheck, IAPParaInit, Stream
    <3>3. CASE header # "flag"
      <4>1. /\ UNCHANGED <<readIndex, writeIndex, buffUsedLen, ring, flashProgramLen>>
            /\ fileDataLen' = 1 /\ inSock' = inSock - 1 /\ para'.len = Hdr + file
        BY <2>1, <3>1, <3>3 DEF IAPFileParaCheck, ringVars, Hdr
      <4>2. InRing(flashProgramLen)'
        BY <1>0a, <2>0, <4>1, SameRing
      <4>3. fileDataLen' = hostSent' - inSock'
        BY <1>0, <2>0, <3>1, <4>1 DEF Ranges
      <4>. QED  BY <1>0, <2>0, <3>1, <4>1, <4>2, <4>3 DEF Stream, Hdr
    <3>. QED  BY <3>2, <3>3
  <2>2. CASE fileDataLen >= Hdr /\ buffUsedLen < RingLen /\ ReceUpdatedFile
    <3>1. fileDataLen > 0
      BY <1>0a, <2>2 DEF Hdr
    <3>2. /\ InRing(flashProgramLen)' /\ fileDataLen' > 0
          /\ fileDataLen' = Hdr + flashProgramLen + buffUsedLen'
          /\ fileDataLen' = hostSent - inSock'
      BY <1>0, <2>0, <2>2, <3>1, RingTakes
    <3>3. UNCHANGED <<flashProgramLen, para>>
      BY <2>2 DEF ReceUpdatedFile
    <3>. QED  BY <1>0, <2>0, <3>1, <3>2, <3>3 DEF Stream
  <2>3. CASE UNCHANGED <<conn, inSock, recvVars>>
    <3>1. UNCHANGED <<readIndex, writeIndex, buffUsedLen, ring, flashProgramLen,
                      fileDataLen, para, inSock, conn>>
      BY <2>3 DEF recvVars, ringVars
    <3>2. InRing(flashProgramLen)'
      BY <1>0a, <2>0, <3>1, SameRing
    <3>. QED  BY <1>0, <2>0, <3>1, <3>2 DEF Stream
  <2>. QED  BY <1>6, <2>1, <2>2, <2>3 DEF Recv
<1>7. CASE Connect
  <2>1. UNCHANGED <<readIndex, writeIndex, buffUsedLen, ring, file, flashProgramLen,
                    fileDataLen, para, hostSent, inSock, conn>>
    BY <1>7 DEF Connect, recvVars, ringVars
  <2>2. InRing(flashProgramLen)'
    BY <1>0a, <2>1, SameRing
  <2>3. flashProgramLen > 0 => connFlag' = 1 /\ pc' # "connErase"
    BY <1>0, <1>7 DEF Connect, Connection, Stream
  <2>4. pc' # "setFlag"
    BY <1>7 DEF Connect
  <2>. QED  BY <1>0, <2>1, <2>2, <2>3, <2>4 DEF Stream
<1>8. CASE Disconnect
  <2>1. CASE ints \cap {"DISCONNECT", "TIM_OUT"} # {}
    <3>1. IAPParaInit /\ hostSent' = 0 /\ inSock' = 0 /\ pc' = "save"
      BY <1>8, <2>1 DEF Disconnect
    <3>. QED  BY <3>1, Reset DEF IAPParaInit, Stream
  <2>2. CASE ints \cap {"DISCONNECT", "TIM_OUT"} = {}
    <3>1. /\ UNCHANGED <<readIndex, writeIndex, buffUsedLen, ring, file, flashProgramLen,
                         fileDataLen, para, connFlag, hostSent, inSock, conn>>
          /\ pc' = "save"
      BY <1>8, <2>2 DEF Disconnect, recvVars, ringVars
    <3>2. InRing(flashProgramLen)'
      BY <1>0a, <3>1, SameRing
    <3>. QED  BY <1>0, <3>1, <3>2 DEF Stream
  <2>. QED  BY <2>1, <2>2
<1>9. CASE Save
  <2>0. pc' \in {"recv", "setFlag"} /\ UNCHANGED <<hostSent, inSock, connFlag, file>>
    BY <1>9 DEF Save
  <2>1. CASE pc' = "recv" /\ UNCHANGED <<conn, recvVars>>
    <3>1. UNCHANGED <<readIndex, writeIndex, buffUsedLen, ring, flashProgramLen,
                      fileDataLen, para, conn>>
      BY <2>1 DEF recvVars, ringVars
    <3>2. InRing(flashProgramLen)'
      BY <1>0a, <2>0, <3>1, SameRing
    <3>. QED  BY <1>0, <2>0, <2>1, <3>1, <3>2 DEF Stream
  <2>2. CASE /\ connFlag = 1 /\ Writable > 0
             /\ readIndex' = (readIndex + Writable) % RingLen
             /\ buffUsedLen' = buffUsedLen - Writable
             /\ flashProgramLen' = flashProgramLen + Writable
             /\ pc' = "setFlag" => para.len = flashProgramLen' + Hdr
             /\ UNCHANGED <<ring, writeIndex, fileDataLen, para>>
    <3>1. InRing(flashProgramLen)'
      BY <1>0, <2>0, <2>2, RingGives
    <3>2. PICK k \in Nat, l \in Nat, b \in Nat :
            k = Writable /\ l = flashProgramLen /\ b = buffUsedLen
      BY <1>0, <2>2, WritableIs DEF Ranges
    <3>3. fileDataLen > 0 /\ k \in 1 .. b /\ ((l + k) % PageUnits = 0 \/ l + k = file)
      BY <1>0, <2>2, <3>2, WritableIs
    <3>4. /\ fileDataLen = 1 + l + b /\ fileDataLen = hostSent - inSock
          /\ para.len = 1 + file /\ file \in Nat
      BY <1>0, <3>2, <3>3, ImageSize DEF Stream, Ranges, Hdr
    <3>5. /\ flashProgramLen' = l + k /\ buffUsedLen' = b - k
          /\ 1 + l + b = 1 + (l + k) + (b - k)
      BY <2>2, <3>2
    <3>6. pc' = "setFlag" => l + k = file
      BY <2>2, <3>4, <3>5 DEF Hdr
    <3>. QED  BY <2>0, <2>2, <3>1, <3>3, <3>4, <3>5, <3>6 DEF Stream, Hdr
  <2>. QED  BY <1>9, <2>1, <2>2 DEF Save
<1>10. CASE RamReset
  <2>1. ParaInit /\ pc' = "boot" /\ hostSent' = 0 /\ inSock' = 0
    BY <1>10 DEF RamReset
  <2>. QED  BY <2>1, Reset DEF Stream
<1>. QED  BY <1>1, <1>2, <1>3, <1>4, <1>5, <1>6, <1>7, <1>8, <1>9, <1>10
          DEF Next, Host, BootSteps, Loop, SetFlag, PowerLoss
----------------------------------------------------------------------------
(***************************************************************************)
(* A step keeps what the pages of BACKUP hold.                             *)
(***************************************************************************)
LEMMA SamePieces ==
  ASSUME UNCHANGED <<flashProgramLen, file>>, NEW p
  PROVE  Piece(p)' = Piece(p)
BY DEF Piece

LEMMA SavedSame ==
  ASSUME Saved, UNCHANGED <<backup, worn, connFlag, step, flashProgramLen, file>>,
         pc # "connErase", pc' # "connErase"
  PROVE  Saved'
<1>1. \A p \in Pages : Piece(p)' = Piece(p)
  BY SamePieces
<1>. QED  BY <1>1 DEF Saved

LEMMA SavedStep == IInv /\ Next => Saved'
<1>. SUFFICES ASSUME IInv, Next PROVE Saved'
  OBVIOUS
<1>0. Ranges /\ Connection /\ Stream /\ Saved
  BY DEF IInv
<1>1. CASE Host \/ Recv
  <2>1. /\ UNCHANGED <<backup, worn, connFlag, step>>
        /\ (pc' = "connErase" <=> pc = "connErase")
    BY <1>1 DEF Host, HostConnects, HostSends, LinkEnds, Recv, flashVars, histVars
  <2>2. connFlag = 1 => flashProgramLen' = flashProgramLen /\ file' = file
    <3>1. CASE HostConnects
      BY <1>0, <3>1 DEF HostConnects, Connection
    <3>2. CASE HostSends \/ LinkEnds
      BY <3>2 DEF HostSends, LinkEnds, recvVars
    <3>3. CASE Recv
      <4>1. CASE fileDataLen < Hdr /\ IAPFileParaCheck
        <5>1. fileDataLen = 0 /\ flashProgramLen = 0
          BY <1>0, <4>1 DEF Ranges, Stream, Hdr
        <5>2. flashProgramLen' = 0
          BY <4>1, <5>1 DEF IAPFileParaCheck, IAPParaInit, ParaInit
        <5>. QED  BY <3>3, <5>1, <5>2 DEF Recv
      <4>2. CASE ReceUpdatedFile \/ UNCHANGED <<conn, inSock, recvVars>>
        BY <3>3, <4>2 DEF Recv, ReceUpdatedFile, recvVars
      <4>. QED  BY <3>3, <4>1, <4>2 DEF Recv
    <3>. QED  BY <1>1, <3>1, <3>2, <3>3 DEF Host
  <2>3. CASE connFlag = 1
    <3>1. \A p \in Pages : Piece(p)' = Piece(p)
      BY <2>2, <2>3, SamePieces
    <3>. QED  BY <1>0, <2>1, <3>1 DEF Saved
  <2>4. CASE connFlag # 1
    BY <1>0, <2>1, <2>4 DEF Saved
  <2>. QED  BY <2>3, <2>4
<1>2. CASE BootSteps
  <2>1. connFlag = 0
    BY <1>0, <1>2 DEF BootSteps, Boot, CopyErase, CopyPage, Wipe, Connection, Starting
  <2>2. connFlag' = connFlag /\ pc' # "connErase"
    BY <1>2 DEF BootSteps, Boot, CopyErase, CopyPage, Wipe
  <2>. QED  BY <2>1, <2>2 DEF Saved
<1>3. CASE Connect
  <2>1. CASE "CONNECT" \in ints
    <3>1. pc' = "connErase" /\ step' = 0
      BY <1>0, <1>3, <2>1 DEF Connect, Ranges, Erasing
    <3>2. \A p \in Pages : ~(p \div BlockPages < 0)
      BY BlockOfPage, Sizes
    <3>. QED  BY <3>1, <3>2 DEF Saved
  <2>2. CASE "CONNECT" \notin ints
    <3>1. /\ UNCHANGED <<backup, worn, connFlag, step, flashProgramLen, file>>
          /\ pc # "connErase" /\ pc' # "connErase"
      BY <1>3, <2>2 DEF Connect, flashVars, recvVars
    <3>. QED  BY <1>0, <3>1, SavedSame
  <2>. QED  BY <2>1, <2>2
<1>4. CASE ConnErase
  <2>1. /\ pc = "connErase" /\ UNCHANGED <<worn, connFlag, flashProgramLen, file>>
        /\ backup' = [p \in Pages |-> IF p \div BlockPages = step THEN Erased ELSE backup[p]]
        /\ step' = IF step = NBlocks - 1 THEN 0 ELSE step + 1
        /\ pc' = IF step = NBlocks - 1 THEN "disconnect" ELSE pc
    BY <1>4 DEF ConnErase, EraseBackup, EraseBlock, Block, recvVars, hostVars, histVars
  <2>2. step \in Nat /\ step < NBlocks
    BY <1>0, <2>1 DEF Ranges, Erasing
  <2>3. ASSUME NEW p \in Pages, p \div BlockPages <= step
        PROVE  backup'[p] = Erased
    <3>1. p \div BlockPages \in Nat
      BY BlockOfPage, Sizes
    <3>2. p \div BlockPages < step => backup[p] = Erased
      BY <1>0, <2>1 DEF Saved
    <3>. QED  BY <2>1, <2>2, <2>3, <3>1, <3>2
  <2>4. CASE step = NBlocks - 1
    <3>1. flashProgramLen' = 0
      BY <1>0, <2>1 DEF Stream, Ranges
    <3>2. ASSUME NEW p \in Pages PROVE backup'[p] = Piece(p)'
      <4>1. p \div BlockPages <= step
        BY <2>4, BlockOfPage, Sizes
      <4>2. Piece(p) = Erased
        BY <2>1, <3>1, PieceOfNothing
      <4>. QED  BY <2>1, <2>3, <4>1, <4>2, SamePieces
    <3>3. pc' = "disconnect"
      BY <2>1, <2>4
    <3>. QED  BY <3>2, <3>3 DEF Saved
  <2>5. CASE step # NBlocks - 1
    <3>1. pc' = "connErase" /\ step' = step + 1
      BY <2>1, <2>5
    <3>2. ASSUME NEW p \in Pages, p \div BlockPages < step + 1 PROVE backup'[p] = Erased
      BY <2>2, <2>3, <3>2, BlockOfPage, Sizes
    <3>. QED  BY <3>1, <3>2 DEF Saved
  <2>. QED  BY <2>4, <2>5
<1>5. CASE Disconnect
  <2>1. CASE ints \cap {"DISCONNECT", "TIM_OUT"} # {}
    BY <1>5, <2>1 DEF Disconnect, Saved
  <2>2. CASE ints \cap {"DISCONNECT", "TIM_OUT"} = {}
    <3>1. /\ UNCHANGED <<backup, worn, connFlag, step, flashProgramLen, file>>
          /\ pc # "connErase" /\ pc' # "connErase"
      BY <1>5, <2>2 DEF Disconnect, flashVars, recvVars, histVars
    <3>. QED  BY <1>0, <3>1, SavedSame
  <2>. QED  BY <2>1, <2>2
<1>6. CASE Save
  <2>0. pc = "save" /\ pc' \in {"recv", "setFlag"} /\ UNCHANGED <<step, connFlag, file>>
    BY <1>6 DEF Save
  <2>1. CASE UNCHANGED <<backup, worn, conn, ints, recvVars>>
    BY <1>0, <2>0, <2>1, SavedSame DEF recvVars
  <2>2. CASE /\ connFlag = 1 /\ Writable > 0 /\ ProgramBackup
             /\ flashProgramLen' = flashProgramLen + Writable
    <3>1. CASE worn'
      BY <2>0, <3>1 DEF Saved
    <3>2. CASE ~worn'
      <4>1. ~worn
        BY <2>2, <3>2 DEF ProgramBackup
      <4>2. \A p \in Pages : backup[p] = Piece(p)
        BY <1>0, <2>0, <2>2, <4>1 DEF Saved
      <4>3. \A p \in Pages : backup'[p] = Piece(p)'
        BY <1>0, <2>0, <2>2, <3>2, <4>2, PagesTake
      <4>. QED  BY <2>0, <4>3 DEF Saved
    <3>. QED  BY <3>1, <3>2
  <2>. QED  BY <1>6, <2>1, <2>2 DEF Save
<1>7. CASE RamReset
  BY <1>7 DEF RamReset, Saved
<1>. QED  BY <1>1, <1>2, <1>3, <1>4, <1>5, <1>6, <1>7 DEF Next, Loop, SetFlag, PowerLoss
----------------------------------------------------------------------------
(***************************************************************************)
(* A step keeps one of USER and BACKUP whole.                              *)
(***************************************************************************)
LEMMA CommittedSame ==
  ASSUME Committed, UNCHANGED <<flashVars, exposed, want>>,
         exposed = "no" /\ connFlag' = 1 => connFlag = 1 \/ flag = "none",
         pc \notin Copying \cup {"app"}, pc' \notin Copying \cup {"app"},
         exposed = "no" /\ pc' \in {"connErase", "setFlag"} => flag = "none"
  PROVE  Committed'
BY DEF Committed, flashVars, Whole, Copying

LEMMA CommittedStep == IInv /\ Next => Committed'
<1>. SUFFICES ASSUME IInv, Next PROVE Committed'
  OBVIOUS
<1>0. Ranges /\ Connection /\ Stream /\ Saved /\ Committed
  BY DEF IInv
<1>1. CASE Host
  <2>1. UNCHANGED <<flashVars, exposed, want, connFlag, pc>> /\ pc \notin Copying \cup {"app"}
    BY <1>1 DEF Host, HostConnects, HostSends, LinkEnds, histVars, InLoop, Copying
  <2>2. exposed = "no" /\ pc \in {"connErase", "setFlag"} => flag = "none"
    BY <1>0 DEF Committed
  <2>. QED  BY <1>0, <2>1, <2>2, CommittedSame
<1>2. CASE Boot
  <2>1. connFlag' = 0 /\ UNCHANGED <<flashVars, exposed, want>> /\ pc = "boot" /\ step' = 0
    BY <1>0, <1>2 DEF Boot, Ranges, Connection, Starting, Erasing, histVars
  <2>2. \/ pc' = "recv"
        \/ flag = "update" /\ pc' = "copyErase"
        \/ flag = "none" /\ pc' = "app"
    BY <1>2 DEF Boot
  <2>. QED  BY <1>0, <2>1, <2>2 DEF Committed, Whole, Copying, flashVars
<1>3. CASE CopyErase
  <2>1. /\ pc = "copyErase" /\ connFlag' = 0 /\ UNCHANGED <<backup, flag, exposed, want>>
        /\ \/ pc' = "copyErase"
           \/ pc' = "copyPage" /\ step' = 0
    BY <1>0, <1>3 DEF CopyErase, Connection, Starting, histVars
  <2>2. flag = "update"
    BY <1>0, <2>1 DEF Committed, Copying
  <2>. QED  BY <1>0, <2>1, <2>2 DEF Committed, Whole, Copying
<1>4. CASE CopyPage
  <2>1. /\ pc = "copyPage" /\ connFlag' = 0 /\ UNCHANGED <<backup, flag, exposed, want>>
    BY <1>0, <1>4 DEF CopyPage, Connection, Starting, histVars
  <2>2. flag = "update" /\ step \in Nat /\ step < NPages
    BY <1>0, <2>1 DEF Committed, Copying, Ranges
  <2>3. exposed = "no" =>
          Whole(backup, want) /\ \A p \in 0 .. step - 1 : user[p] = backup[p]
    BY <1>0, <2>1, <2>2 DEF Committed
  <2>4. \A p \in Pages : p # step => user'[p] = user[p]
    BY <1>0, <1>4 DEF CopyPage, Written, Ranges
  <2>5. CASE user'[step] # backup[step] /\ pc' = "halt"
    BY <2>1, <2>2, <2>3, <2>5 DEF Committed, Whole, Copying
  <2>6. CASE /\ user'[step] = backup[step]
             /\ \/ step < NPages - 1 /\ step' = step + 1 /\ UNCHANGED pc
                \/ step = NPages - 1 /\ step' = 0 /\ pc' = "wipe"
    <3>1. ASSUME exposed = "no", NEW p \in 0 .. step PROVE user'[p] = backup[p]
      <4>1. p \in Pages /\ (p = step \/ p \in 0 .. step - 1)
        BY <2>2, Sizes DEF Pages
      <4>. QED  BY <2>3, <2>4, <2>6, <3>1, <4>1
    <3>2. CASE step < NPages - 1 /\ step' = step + 1 /\ pc' = pc
      <4>1. exposed = "no" => \A p \in 0 .. step' - 1 : user'[p] = backup'[p]
        BY <2>1, <2>2, <3>1, <3>2
      <4>. QED  BY <2>1, <2>2, <2>3, <3>2, <4>1 DEF Committed, Whole, Copying
    <3>3. CASE step = NPages - 1 /\ step' = 0 /\ pc' = "wipe"
      <4>1. exposed = "no" => \A p \in Pages : user'[p] = backup[p]
        BY <3>1, <3>3 DEF Pages
      <4>. QED  BY <2>1, <2>2, <2>3, <3>3, <4>1 DEF Committed, Whole, Copying
    <3>. QED  BY <2>6, <3>2, <3>3
  <2>. QED  BY <1>4, <2>5, <2>6 DEF CopyPage
<1>5. CASE Wipe
  <2>1. /\ pc = "wipe" /\ connFlag' = 0 /\ UNCHANGED <<user, exposed, want>>
        /\ step = NBlocks - 1 => flag' = "none" /\ pc' = "app"
        /\ step # NBlocks - 1 => flag' = flag /\ step' = step + 1 /\ pc' = "wipe"
    BY <1>0, <1>5 DEF Wipe, EraseBackup, Connection, Starting, histVars
  <2>2. flag = "update" /\ step \in Nat
    BY <1>0, <2>1 DEF Committed, Copying, Ranges
  <2>3. exposed = "no" => Whole(user', want')
    BY <1>0, <2>1 DEF Committed, Whole
  <2>4. step + 1 # 0
    BY <2>2
  <2>. QED  BY <2>1, <2>2, <2>3, <2>4 DEF Committed, Whole, Copying
<1>6. CASE Recv
  BY <1>0, <1>6, CommittedSame DEF Recv, histVars, Copying
<1>7. CASE Connect
  <2>1. CASE "CONNECT" \notin ints
    BY <1>0, <1>7, <2>1, CommittedSame DEF Connect, Copying
  <2>2. CASE "CONNECT" \in ints
    <3>1. /\ UNCHANGED <<flashVars, want>> /\ pc = "connect" /\ pc' = "connErase"
          /\ exposed' = IF flag = "update" THEN "connected" ELSE exposed
      BY <1>7, <2>2 DEF Connect
    <3>2. CASE flag = "update"
      BY <3>1, <3>2 DEF Committed, Copying
    <3>3. CASE flag # "update"
      <4>1. flag = "none" /\ exposed' = exposed
        BY <1>0, <3>1, <3>3 DEF Ranges
      <4>. QED  BY <1>0, <3>1, <4>1, CommittedSame DEF Copying
    <3>. QED  BY <3>2, <3>3
  <2>. QED  BY <2>1, <2>2
<1>8. CASE ConnErase
  <2>1. /\ pc = "connErase" /\ UNCHANGED <<user, exposed, want, connFlag>>
        /\ flag' \in {flag, "none"} /\ pc' \in {"connErase", "disconnect"}
    BY <1>8 DEF ConnErase, EraseBackup, histVars
  <2>2. exposed = "no" => flag = "none" /\ Whole(user, want)
    BY <1>0, <2>1 DEF Committed
  <2>. QED  BY <2>1, <2>2 DEF Committed, Whole, Copying
<1>9. CASE Disconnect
  <2>1. /\ pc = "disconnect" /\ pc' = "save" /\ UNCHANGED <<flashVars, exposed, want>>
        /\ connFlag' = 0 \/ connFlag' = connFlag
    BY <1>9 DEF Disconnect, histVars
  <2>. QED  BY <1>0, <2>1, CommittedSame DEF Copying
<1>10. CASE Save
  <2>1. /\ pc = "save" /\ pc' \in {"recv", "setFlag"}
        /\ UNCHANGED <<user, flag, exposed, want, connFlag>>
    BY <1>10 DEF Save
  <2>2. CASE backup' = backup /\ pc' = "recv"
    BY <1>0, <2>1, <2>2, CommittedSame DEF flashVars, Copying
  <2>3. CASE connFlag = 1
    <3>1. exposed = "no" => flag = "none" /\ Whole(user, want)
      BY <1>0, <2>3 DEF Committed
    <3>. QED  BY <2>1, <3>1 DEF Committed, Whole, Copying
  <2>. QED  BY <1>10, <2>2, <2>3 DEF Save
<1>11. CASE SetFlag
  <2>1. /\ pc = "setFlag" /\ pc' = "boot" /\ connFlag' = 0 /\ flag' = "update"
        /\ want' = file /\ backup' = backup /\ (exposed' = "no" => ~worn)
    BY <1>11 DEF SetFlag, RamReset
  <2>2. connFlag = 1 /\ flashProgramLen = file
    BY <1>0, <2>1 DEF Stream
  <2>3. exposed' = "no" => \A p \in Pages : backup[p] = Image(file, p)
    BY <1>0, <2>1, <2>2, PieceOfFile DEF Saved
  <2>. QED  BY <2>1, <2>3 DEF Committed, Whole, Copying
<1>12. CASE PowerLoss
  <2>1. /\ pc # "boot" /\ pc' = "boot" /\ connFlag' = 0 /\ want' = want /\ TornFlash
        /\ exposed' = IF CutWipe /\ exposed = "no" THEN "cut" ELSE exposed
    BY <1>12 DEF PowerLoss, RamReset
  <2>2. SUFFICES ASSUME exposed' = "no"
                 PROVE  /\ flag' = "none" => Whole(user', want)
                        /\ flag' = "update" => Whole(backup', want)
    BY <2>1 DEF Committed, Whole, Copying
  <2>3. exposed = "no" /\ ~CutWipe
    BY <2>1, <2>2
  <2>4. CASE pc \in {"copyErase", "copyPage"}
    <3>1. UNCHANGED <<backup, flag>>
      BY <2>1, <2>4 DEF TornFlash, flashVars
    <3>2. flag = "update"
      BY <1>0, <2>4 DEF Committed, Copying
    <3>. QED  BY <1>0, <2>3, <2>4, <3>1, <3>2 DEF Committed, Whole
  <2>5. CASE pc = "wipe"
    <3>1. user' = user
      BY <2>1, <2>5 DEF TornFlash, flashVars
    <3>2. Whole(user, want)
      BY <1>0, <2>3, <2>5 DEF Committed
    <3>3. flag = "update" /\ step \in Nat
      BY <1>0, <2>5 DEF Committed, Copying, Ranges
    <3>4. flag' = "update" => backup' = backup /\ step = 0
      BY <2>3, <2>5, <3>3 DEF CutWipe
    <3>5. flag' = "update" => Whole(backup, want)
      BY <1>0, <2>3, <3>3, <3>4 DEF Committed
    <3>. QED  BY <3>1, <3>2, <3>4, <3>5 DEF Whole
  <2>6. CASE pc = "connErase"
    <3>1. user' = user /\ flag' \in {flag, "none"}
      BY <2>1, <2>6 DEF TornFlash, flashVars
    <3>2. flag = "none" /\ Whole(user, want)
      BY <1>0, <2>3, <2>6 DEF Committed
    <3>. QED  BY <3>1, <3>2 DEF Whole
  <2>7. CASE pc \notin {"copyErase", "copyPage", "wipe", "connErase"}
    <3>1. UNCHANGED <<user, backup, flag>>
      BY <2>1, <2>7 DEF TornFlash, flashVars
    <3>. QED  BY <1>0, <2>3, <2>7, <3>1 DEF Committed, Whole
  <2>. QED  BY <2>4, <2>5, <2>6, <2>7
<1>. QED  BY <1>1, <1>2, <1>3, <1>4, <1>5, <1>6, <1>7, <1>8, <1>9, <1>10, <1>11, <1>12
          DEF Next, BootSteps, Loop
----------------------------------------------------------------------------
LEMMA InvStep == IInv /\ [Next]_vars => IInv'
<1>1. CASE Next
  BY <1>1, RangesStep, ConnectionStep, StreamStep, SavedStep, CommittedStep DEF IInv
<1>2. CASE UNCHANGED vars
  <2>. SUFFICES ASSUME IInv PROVE IInv'
    BY <1>2
  <2>1. /\ UNCHANGED <<user, backup, flag, pc, step, conn, ints, file, header, hostSent, inSock>>
        /\ UNCHANGED <<connFlag, ring, readIndex, writeIndex, buffUsedLen, fileDataLen, para>>
        /\ UNCHANGED <<flashProgramLen, want, worn, exposed>>
    BY <1>2 DEF vars, flashVars, hostVars, recvVars, ringVars, histVars
  <2>2. Ranges'
    BY <2>1 DEF IInv, Ranges
  <2>3. Connection'
    BY <2>1 DEF IInv, Connection
  <2>4. Stream'
    BY <2>1 DEF IInv, Stream, InRing
  <2>5. Saved'
    BY <2>1 DEF IInv, Saved, Piece
  <2>6. Committed'
    BY <2>1 DEF IInv, Committed, Whole
  <2>. QED  BY <2>2, <2>3, <2>4, <2>5, <2>6 DEF IInv
<1>. QED  BY <1>1, <1>2

LEMMA Inductive == Spec => []IInv
<1>1. Init => IInv
  BY InvInit
<1>2. IInv /\ [Next]_vars => IInv'
  BY InvStep
<1>. QED  BY <1>1, <1>2, PTL DEF Spec

(* A unit that is saved is at its place in the pages of BACKUP. *)
LEMMA UnitOfPiece ==
  ASSUME Ranges, NEW u \in 1 .. flashProgramLen, \A p \in Pages : backup[p] = Piece(p)
  PROVE  UnitAt(backup, u) = <<file, u>>
<1>1. PICK l \in Nat : l = flashProgramLen /\ l <= MaxData /\ u <= l
  BY Sizes DEF Ranges
<1>2. PICK n \in Nat : n = u - 1 /\ u = n + 1 /\ n < l
  BY <1>1
<1>3. PICK q \in Nat : q = n \div PageUnits
  BY Sizes, ModRange
<1>4. PICK r \in 0 .. PageUnits - 1 : r = n % PageUnits
  BY Sizes, ModRange
<1>5. PICK m \in Nat : m = q * PageUnits /\ (q + 1) * PageUnits = m + PageUnits
  BY PageMono
<1>6. n = m + r
  BY <1>3, <1>4, <1>5, Sizes, ModRange
<1>7. q \in Pages
  <2>1. PICK k \in Nat : NPages = k + 1
    BY Sizes, NPages - 1 \in Nat, NPages = (NPages - 1) + 1
  <2>2. MaxData = k * PageUnits
    BY <2>1 DEF MaxData
  <2>3. CASE k < q
    <3>1. k * PageUnits + PageUnits <= m /\ k * PageUnits \in Nat
      BY <1>5, <2>3, PageMono
    <3>. QED  BY <1>1, <1>2, <1>6, <2>2, <3>1, Sizes
  <2>4. CASE q <= k
    BY <2>1, <2>4 DEF Pages
  <2>. QED  BY <2>3, <2>4
<1>8. Piece(q) = [i \in 1 .. IF l >= m + PageUnits THEN PageUnits
                             ELSE IF l > m THEN l - m ELSE 0 |-> <<file, m + i>>]
  BY <1>1, <1>5 DEF Piece
<1>9. r + 1 \in 1 .. IF l >= m + PageUnits THEN PageUnits
                     ELSE IF l > m THEN l - m ELSE 0
  BY <1>1, <1>2, <1>4, <1>6, Sizes
<1>10. r + 1 \in DOMAIN Piece(q) /\ Piece(q)[r + 1] = <<file, m + (r + 1)>>
  BY <1>8, <1>9
<1>11. UnitAt(backup, u) = IF r + 1 \in DOMAIN backup[q] THEN backup[q][r + 1] ELSE <<0, 0>>
  BY <1>2, <1>3, <1>4 DEF UnitAt
<1>12. m + (r + 1) = u
  BY <1>2, <1>4, <1>6
<1>. QED  BY <1>7, <1>10, <1>11, <1>12

(***************************************************************************)
(* Every byte receUpdatedFile took from the socket is in one place, in the *)
(* order of the file: in the pages saveUpdatedFile programmed, or after    *)
(* them in the ring (IAP_Task.c:291-345, 358-412).                         *)
(***************************************************************************)
THEOREM BytesAreSavedInOrder == Spec => []StreamIsSaved
<1>1. IInv => StreamIsSaved
  <2>. SUFFICES ASSUME IInv, fileDataLen >= Hdr
                PROVE  /\ fileDataLen = Hdr + flashProgramLen + buffUsedLen
                       /\ fileDataLen = hostSent - inSock
                       /\ \A u \in 1 .. flashProgramLen :
                            worn \/ UnitAt(backup, u) = <<file, u>>
                       /\ \A i \in 1 .. buffUsedLen :
                            ring[(readIndex + i - 1) % RingLen] = <<file, flashProgramLen + i>>
    BY DEF StreamIsSaved
  <2>1. Ranges /\ Stream /\ Saved
    BY DEF IInv
  <2>2. fileDataLen > 0
    BY <2>1 DEF Ranges, Hdr
  <2>3. ASSUME NEW u \in 1 .. flashProgramLen, ~worn
        PROVE  UnitAt(backup, u) = <<file, u>>
    <3>1. flashProgramLen > 0
      BY <2>1 DEF Ranges
    <3>2. \A p \in Pages : backup[p] = Piece(p)
      BY <2>1, <2>3, <3>1 DEF Stream, Saved
    <3>. QED  BY <2>1, <3>2, UnitOfPiece
  <2>. QED  BY <2>1, <2>2, <2>3 DEF Stream, InRing
<1>. QED  BY <1>1, Inductive, PTL

(***************************************************************************)
(* The pages, indices and lengths of IAP_Task.c stay within the areas, the *)
(* ring and the file, for every geometry and every image that fits.        *)
(***************************************************************************)
THEOREM TypeCorrect == Spec => []TypeOK
<1>1. IInv => TypeOK
  <2>. SUFFICES ASSUME IInv
                PROVE  TypeOK
    OBVIOUS
  <2>1. Ranges
    BY DEF IInv
  <2>2. NBlocks \in Nat /\ NPages \in Nat \ {0} /\ NBlocks <= NPages
    <3>1. PICK k \in Nat : BlockPages = k + 1
      BY Sizes, BlockPages - 1 \in Nat, BlockPages = (BlockPages - 1) + 1
    <3>2. NBlocks * (k + 1) = NBlocks * k + NBlocks /\ NBlocks * k \in Nat
      BY Sizes
    <3>. QED  BY <3>1, <3>2, Sizes DEF NPages
  <2>3. step \in Pages
    BY <2>1, <2>2 DEF Ranges, Pages
  <2>4. Hdr + file \in Nat
    BY <2>1, ImageSize DEF Ranges, Hdr
  <2>. QED  BY <2>1, <2>3, <2>4 DEF Ranges, Starting, TypeOK
<1>. QED  BY <1>1, Inductive, PTL

(***************************************************************************)
(* While the flag orders a copy, BACKUP holds the whole image it was set   *)
(* for, at any loss of power before the wipe: IAPCopyFlashDeal can begin   *)
(* again (IAP_Task.c:452-490).                                              *)
(***************************************************************************)
THEOREM BackupIsWhole == Spec => []CopyCanBeRedone
<1>1. IInv => CopyCanBeRedone
  BY DEF IInv, Committed, CopyCanBeRedone
<1>. QED  BY <1>1, Inductive, PTL

(***************************************************************************)
(* What main jumps to is whole, and the last image the flag was set for,   *)
(* wherever power was lost: but for the cases exposed names.               *)
(***************************************************************************)
THEOREM StartedImageIsWhole == Spec => []StartsWholeImage
<1>1. IInv => StartsWholeImage
  BY DEF IInv, Committed, StartsWholeImage
<1>. QED  BY <1>1, Inductive, PTL
=============================================================================
