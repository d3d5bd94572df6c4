-------------------------- MODULE CdcUplinkProofs --------------------------
(***************************************************************************)
(* Theorems about CdcUplink for every size of the buffer and the packets,  *)
(* every timeout and every number of bytes.                                *)
(***************************************************************************)
EXTENDS CdcUplink, SequenceTheorems, TLAPS

Uploading == pc \in {"clip", "upload"}

(***************************************************************************)
(* The inductive invariant.  Fitting is what the arithmetic of the ring    *)
(* needs, Held is why an upload is seldom refused: with ingFlag at 0 a     *)
(* busy endpoint holds nothing that was received.                          *)
(***************************************************************************)
Fitting ==
  Calm => /\ rcvd - taken <= BufLen
          /\ pc = "upload" => packlen <= BufLen - dealPtr

NoBytes(s) == s = <<>> \/ s[1] = 0

Held ==
  /\ Uploading \/ pc = "zlpsend" => ingFlag = 0
  /\ busy = 1 /\ ingFlag = 0 => NoBytes(epBuf)

(* TypeOK in two parts, that each take a prover of their own. *)
Booleans ==
  /\ inPend \in BOOLEAN /\ passed \in BOOLEAN /\ fresh \in BOOLEAN
  /\ overrun \in BOOLEAN /\ raced \in BOOLEAN /\ owesEnd \in BOOLEAN
Others ==
  /\ lastCount \in 0 .. BufLen
  /\ remainLen \in 0 .. W16 - 1
  /\ dealPtr \in 0 .. BufLen - 1
  /\ rxTimeOut \in 0 .. RxWrap - 1 /\ upTimeOut \in 0 .. UpWrap - 1
  /\ ingFlag \in {0, 1} /\ pack0 \in {0, 1} /\ busy \in {0, 1}
  /\ ep3 \in {"ACK", "NAK", "STALL"}
  /\ epBuf \in Seq(Nat) /\ Len(epBuf) <= PackSize
  /\ pc \in {"poll", "choose", "clip", "upload", "zlp", "zlpsend"}
  /\ packlen \in 0 .. PackSize
  /\ rcvd \in Nat /\ taken \in Nat /\ delivered \in Nat
  /\ lost \in {"none", "refused", "replaced", "late", "halted"}

LEMMA TypeParts == TypeOK <=> Booleans /\ Others
<1>1. TypeOK => Booleans
  BY Zenon DEF TypeOK, Booleans
<1>2. TypeOK => Others
  BY DEF TypeOK, Others
<1>3. Booleans => {inPend, passed, fresh, overrun, raced, owesEnd} \subseteq BOOLEAN
  BY Zenon DEF Booleans
<1>4. Others /\ {inPend, passed, fresh, overrun, raced, owesEnd} \subseteq BOOLEAN => TypeOK
  BY DEF TypeOK, Others
<1>. QED  BY <1>1, <1>2, <1>3, <1>4

IInv == TypeOK /\ FlagsAreBacked /\ Held /\ RingFollowsDma /\ Fitting /\ NoSilentLoss
----------------------------------------------------------------------------
(***************************************************************************)
(* Remainders.                                                             *)
(***************************************************************************)
LEMMA ModRange ==
  ASSUME NEW a \in Nat, NEW b \in Nat \ {0}
  PROVE  /\ a % b \in 0 .. b - 1 /\ a % b <= a
         /\ a \div b \in Nat /\ a = (a \div b) * b + (a % b)
<1>1. /\ a \div b \in Nat /\ a % b \in 0 .. b - 1
      /\ a = b * (a \div b) + (a % b)
  OBVIOUS
<1>2. PICK q \in Nat : q = a \div b
  BY <1>1
<1>3. PICK r \in 0 .. b - 1 : r = a % b
  BY <1>1
<1>4. a = b * q + r
  BY <1>1, <1>2, <1>3
<1>5. b * q = q * b /\ b * q \in Nat
  OBVIOUS
<1>. QED  BY <1>1, <1>2, <1>3, <1>4, <1>5

LEMMA ModUnique ==
  ASSUME NEW b \in Nat \ {0}, NEW q \in Nat, NEW r \in 0 .. b - 1
  PROVE  (q * b + r) % b = r
<1>1. PICK a \in Nat : a = q * b + r
  OBVIOUS
<1>2. PICK p \in Nat : p = a \div b
  BY ModRange
<1>3. PICK s \in 0 .. b - 1 : s = a % b
  BY ModRange
<1>4. p * b + s = q * b + r
  BY <1>1, <1>2, <1>3, ModRange
<1>5. CASE p < q
  <2>1. PICK d \in Nat : q = p + d + 1
    BY <1>5, q - p - 1 \in Nat, q = p + (q - p - 1) + 1
  <2>2. q * b = p * b + d * b + b /\ d * b \in Nat /\ p * b \in Nat
    BY <2>1
  <2>. QED  BY <1>4, <2>2
<1>6. CASE q < p
  <2>1. PICK d \in Nat : p = q + d + 1
    BY <1>6, p - q - 1 \in Nat, p = q + (p - q - 1) + 1
  <2>2. p * b = q * b + d * b + b /\ d * b \in Nat /\ q * b \in Nat
    BY <2>1
  <2>. QED  BY <1>4, <2>2
<1>7. CASE p = q
  <2>1. q * b \in Nat
    OBVIOUS
  <2>. QED  BY <1>1, <1>3, <1>4, <1>7, <2>1
<1>. QED  BY <1>5, <1>6, <1>7

LEMMA ModSmall ==
  ASSUME NEW b \in Nat \ {0}, NEW r \in 0 .. b - 1
  PROVE  r % b = r
<1>1. 0 * b + r = r
  OBVIOUS
<1>. QED  BY <1>1, ModUnique, 0 \in Nat

LEMMA ModStep ==
  ASSUME NEW a \in Nat, NEW b \in Nat \ {0}, NEW n \in Nat, (a % b) + n <= b
  PROVE  (a + n) % b = IF (a % b) + n = b THEN 0 ELSE (a % b) + n
<1>1. PICK q \in Nat : q = a \div b
  BY ModRange
<1>2. PICK r \in 0 .. b - 1 : r = a % b
  BY ModRange
<1>3. a = q * b + r /\ q * b \in Nat
  BY <1>1, <1>2, ModRange
<1>4. CASE r + n = b
  <2>1. (q + 1) * b = q * b + b
    OBVIOUS
  <2>2. a + n = (q + 1) * b + 0
    BY <1>3, <1>4, <2>1
  <2>3. ((q + 1) * b + 0) % b = 0
    BY ModUnique, q + 1 \in Nat, 0 \in 0 .. b - 1
  <2>. QED  BY <1>2, <1>4, <2>2, <2>3
<1>5. CASE r + n < b
  <2>1. a + n = q * b + (r + n)
    BY <1>3
  <2>2. (q * b + (r + n)) % b = r + n
    BY <1>5, ModUnique, r + n \in 0 .. b - 1
  <2>. QED  BY <1>2, <1>5, <2>1, <2>2
<1>. QED  BY <1>2, <1>4, <1>5
----------------------------------------------------------------------------
LEMMA Sizes ==
  /\ BufLen \in Nat /\ PackSize \in Nat /\ W16 \in Nat /\ RxWrap \in Nat /\ UpWrap \in Nat
  /\ 0 < PackSize /\ PackSize <= BufLen /\ 2 * BufLen < W16
  /\ RxMax \in Nat /\ 0 < RxMax /\ RxMax < RxWrap
  /\ UpTime \in Nat /\ 0 < UpTime /\ UpTime < UpWrap
<1>1. UpTime \in Nat
  BY SizesAssumption, TimesAssumption
<1>. QED  BY <1>1, SizesAssumption, TimesAssumption
----------------------------------------------------------------------------
(***************************************************************************)
(* The operators of the module.                                            *)
(***************************************************************************)
LEMMA BufMod ==
  ASSUME NEW a \in Nat
  PROVE  /\ a % BufLen \in 0 .. BufLen - 1 /\ a % BufLen <= a
         /\ \E q \in Nat : a = q * BufLen + (a % BufLen)
<1>1. BufLen \in Nat \ {0}
  BY Sizes
<1>. QED  BY <1>1, ModRange, Zenon

LEMMA CountRange ==
  ASSUME Others
  PROVE  CurCount \in 1 .. BufLen /\ CurCount = BufLen - (rcvd % BufLen)
         /\ Arrived \in 0 .. BufLen
<1>1. rcvd % BufLen \in 0 .. BufLen - 1
  BY BufMod, Zenon DEF Others
<1>2. CurCount \in 1 .. BufLen
  BY <1>1, Sizes DEF CurCount
<1>3. Arrived \in 0 .. BufLen
  BY <1>2, Sizes DEF Arrived, Others
<1>. QED  BY <1>2, <1>3 DEF CurCount

LEMMA Add16Small ==
  ASSUME NEW a \in Nat, NEW b \in Nat
  PROVE  Add16(a, b) \in 0 .. W16 - 1 /\ (a + b < W16 => Add16(a, b) = a + b)
<1>1. (a + b) % W16 \in 0 .. W16 - 1
  BY Sizes, ModRange, a + b \in Nat
<1>2. a + b < W16 => (a + b) % W16 = a + b
  BY Sizes, ModSmall
<1>. QED  BY <1>1, <1>2 DEF Add16

LEMMA Sub16Small ==
  ASSUME NEW a \in 0 .. W16 - 1, NEW b \in Nat, b < W16
  PROVE  Sub16(a, b) \in 0 .. W16 - 1 /\ (b <= a => Sub16(a, b) = a - b)
<1>1. a - b + W16 \in Nat
  BY Sizes
<1>2. (a - b + W16) % W16 \in 0 .. W16 - 1
  BY <1>1, Sizes, ModRange
<1>3. b <= a => (a - b + W16) % W16 = a - b
  <2>1. SUFFICES ASSUME b <= a PROVE (a - b + W16) % W16 = a - b
    OBVIOUS
  <2>2. a - b \in 0 .. W16 - 1 /\ a - b + W16 = 1 * W16 + (a - b)
    BY <2>1, Sizes
  <2>3. (1 * W16 + (a - b)) % W16 = a - b
    BY <2>2, ModUnique, Sizes, 1 \in Nat
  <2>. QED  BY <2>2, <2>3
<1>. QED  BY <1>2, <1>3 DEF Sub16

LEMMA CellsType ==
  ASSUME Others, NEW p \in Nat, NEW n \in Nat
  PROVE  /\ Cells(p, n) \in Seq(Nat) /\ Len(Cells(p, n)) = n
         /\ \A i \in 1 .. n : Cells(p, n)[i] = ByteAt(p + i - 1)
<1>1. \A c \in Nat : ByteAt(c) \in Nat
  <2>1. SUFFICES ASSUME NEW c \in Nat, c < rcvd
                 PROVE  rcvd - ((rcvd - 1 - c) % BufLen) \in Nat
    BY DEF ByteAt, Others
  <2>2. rcvd - 1 - c \in Nat
    BY <2>1 DEF Others
  <2>3. PICK m \in Nat : m = (rcvd - 1 - c) % BufLen /\ m <= rcvd - 1 - c
    <3>1. (rcvd - 1 - c) % BufLen \in 0 .. BufLen - 1
      BY <2>2, BufMod, Zenon
    <3>2. (rcvd - 1 - c) % BufLen <= rcvd - 1 - c
      BY <2>2, BufMod, Zenon
    <3>. QED  BY <3>1, <3>2, Sizes
  <2>. QED  BY <2>2, <2>3 DEF Others
<1>2. \A i \in 1 .. n : ByteAt(p + i - 1) \in Nat
  BY <1>1
<1>. QED  BY <1>2 DEF Cells

(* The cells from the read pointer on hold the bytes that come next. *)
LEMMA CellsHoldNext ==
  ASSUME Others, NEW n \in Nat, dealPtr = taken % BufLen,
         n <= BufLen - dealPtr, taken + n <= rcvd, rcvd - taken <= BufLen
  PROVE  Cells(dealPtr, n) = [i \in 1 .. n |-> taken + i]
<1>1. SUFFICES ASSUME NEW i \in 1 .. n
               PROVE  ByteAt(dealPtr + i - 1) = taken + i
  BY DEF Cells
<1>2. PICK q \in Nat : taken = q * BufLen + (taken % BufLen)
  BY BufMod, Zenon DEF Others
<1>3. taken = q * BufLen + dealPtr /\ q * BufLen \in Nat
  BY <1>2, Sizes
<1>a. PICK m \in Nat : m = q * BufLen /\ taken = m + dealPtr
  BY <1>3
<1>b. rcvd \in Nat /\ taken \in Nat /\ dealPtr \in Nat
  BY Sizes DEF Others
<1>c. i \in Nat /\ 1 <= i /\ i <= n
  OBVIOUS
<1>4. dealPtr + i - 1 \in Nat /\ dealPtr + i - 1 < rcvd
  BY <1>a, <1>b, <1>c
<1>5. rcvd - taken - i \in 0 .. BufLen - 1
  BY <1>b, <1>c, Sizes
<1>6. rcvd - 1 - (dealPtr + i - 1) = q * BufLen + (rcvd - taken - i)
  <2>1. rcvd - 1 - (dealPtr + i - 1) = m + (rcvd - taken - i)
    BY <1>a, <1>b, <1>c
  <2>. QED  BY <1>a, <2>1
<1>7. (q * BufLen + (rcvd - taken - i)) % BufLen = rcvd - taken - i
  BY <1>5, ModUnique, Sizes
<1>8. (rcvd - 1 - (dealPtr + i - 1)) % BufLen = rcvd - taken - i
  BY <1>6, <1>7, Zenon
<1>9. ~(dealPtr + i - 1 >= rcvd) /\ rcvd - (rcvd - taken - i) = taken + i
  BY <1>4, <1>b, <1>c
<1>. QED  BY <1>8, <1>9, Zenon DEF ByteAt
----------------------------------------------------------------------------
LEMMA InvInit == Init => IInv
<1>. SUFFICES ASSUME Init PROVE IInv
  OBVIOUS
<1>1. 0 % BufLen = 0
  BY ModSmall, Sizes
<1>2. CurCount = BufLen /\ Arrived = 0
  BY <1>1, Sizes DEF Init, CurCount, Arrived
<1>3. Booleans
  BY Zenon DEF Init, Booleans
<1>4. Others
  BY Sizes DEF Init, Others
<1>5. FlagsAreBacked /\ Held
  BY DEF Init, FlagsAreBacked, Held, Uploading
<1>6. RingFollowsDma /\ Fitting
  BY <1>1, <1>2, Sizes DEF Init, RingFollowsDma, Fitting
<1>7. NoSilentLoss
  BY DEF Init, NoSilentLoss
<1>. QED  BY <1>3, <1>4, <1>5, <1>6, <1>7, TypeParts DEF IInv
----------------------------------------------------------------------------
(***************************************************************************)
(* Types.                                                                  *)
(***************************************************************************)
LEMMA BooleansStep == Booleans /\ [Next]_vars => Booleans'
<1>. SUFFICES ASSUME Booleans, [Next]_vars PROVE Booleans'
  OBVIOUS
<1>. USE DEF Booleans
<1>1. CASE DmaRx
  BY <1>1, Zenon DEF DmaRx, timeVars, epVars
<1>2. CASE Tick
  BY <1>2, Zenon DEF Tick, epVars, histVars
<1>3. CASE HostIn
  <2>1. owesEnd' \in BOOLEAN
    BY <1>3, Zenon DEF HostIn
  <2>. QED  BY <1>3, <2>1, Zenon DEF HostIn, timeVars
<1>4. CASE IsrIn
  BY <1>4, Zenon DEF IsrIn, timeVars
<1>5. CASE BusReset
  <2>3. raced' \in BOOLEAN
    BY <1>5, SMT DEF BusReset, NewEpoch
  <2>. QED  BY <1>5, <2>3, Zenon DEF BusReset, NewEpoch
<1>6. CASE SetLineCoding
  <2>3. raced' \in BOOLEAN
    BY <1>6, SMT DEF SetLineCoding, NewEpoch
  <2>. QED  BY <1>6, <2>3, Zenon DEF SetLineCoding, NewEpoch
<1>7. CASE SetHalt \/ ClearHalt
  BY <1>7, Zenon DEF SetHalt, ClearHalt, timeVars, histVars
<1>8. CASE Poll \/ Choose \/ Clip \/ ZlpTest
  BY <1>8, Zenon DEF Poll, Choose, Clip, ZlpTest, timeVars, epVars, histVars
<1>9. CASE Upload \/ ZlpSend
  BY <1>9, Zenon DEF Upload, ZlpSend, DataUp, histVars
<1>10. CASE UNCHANGED vars
  BY <1>10, Zenon DEF vars, timeVars, epVars, histVars
<1>. QED  BY <1>1, <1>2, <1>3, <1>4, <1>5, <1>6, <1>7, <1>8, <1>9, <1>10, Zenon
          DEF Next, Control, MainLoop

LEMMA OthersStep == Others /\ Booleans /\ [Next]_vars => Others'
<1>. SUFFICES ASSUME Others, Booleans, [Next]_vars PROVE Others'
  OBVIOUS
<1>. USE Sizes
<1>a. <<>> \in Seq(Nat) /\ Len(<<>>) = 0
  OBVIOUS
<1>b. Lose("late") \in {"none", "refused", "replaced", "late", "halted"}
  BY DEF Lose, Others
<1>c. Lose("halted") \in {"none", "refused", "replaced", "late", "halted"}
  BY DEF Lose, Others
<1>d. /\ Lose("replaced") \in {"none", "refused", "replaced", "late", "halted"}
      /\ Lose("refused") \in {"none", "refused", "replaced", "late", "halted"}
  BY DEF Lose, Others
<1>1. CASE DmaRx
  BY <1>1 DEF DmaRx, Others, ringVars, timeVars, epVars, loopVars
<1>2. CASE Tick
  <2>1. (rxTimeOut + 1) % RxWrap \in 0 .. RxWrap - 1
    BY ModRange, rxTimeOut + 1 \in Nat, RxWrap \in Nat \ {0} DEF Others
  <2>2. (upTimeOut + 1) % UpWrap \in 0 .. UpWrap - 1
    BY ModRange, upTimeOut + 1 \in Nat, UpWrap \in Nat \ {0} DEF Others
  <2>. QED  BY <1>2, <2>1, <2>2 DEF Tick, Others, ringVars, epVars, loopVars, histVars
<1>3. CASE HostIn
  <2>1. delivered' \in Nat
    BY <1>3 DEF HostIn, Others
  <2>. QED  BY <1>3, <1>a, <2>1 DEF HostIn, Others, ringVars, timeVars, loopVars
<1>4. CASE IsrIn
  BY <1>4, <1>a, <1>b DEF IsrIn, Others, ringVars, timeVars, loopVars
<1>5. CASE BusReset
  <2>1. rcvd % BufLen \in Nat
    BY BufMod DEF Others
  <2>. QED  BY <1>5, <1>a, <2>1 DEF BusReset, NewEpoch, ParaInit, Others, loopVars
<1>6. CASE SetLineCoding
  <2>1. epBuf' \in Seq(Nat) /\ Len(epBuf') = Len(epBuf)
    <3>1. epBuf' = [i \in 1 .. Len(epBuf) |-> 0] /\ Len(epBuf) \in Nat
      BY <1>6 DEF SetLineCoding, Others
    <3>. QED  BY <3>1
  <2>. QED  BY <1>6, <2>1 DEF SetLineCoding, NewEpoch, ParaInit, Others, loopVars
<1>7. CASE SetHalt
  BY <1>7 DEF SetHalt, Others, ringVars, timeVars, loopVars, histVars
<1>8. CASE ClearHalt
  BY <1>8, <1>c DEF ClearHalt, Others, ringVars, timeVars, loopVars
<1>9. CASE Poll
  <2>1. CurCount \in 1 .. BufLen
    BY CountRange
  <2>2. Add16(remainLen, Arrived) \in 0 .. W16 - 1
    <3>1. remainLen \in Nat /\ Arrived \in Nat
      BY CountRange DEF Others
    <3>. QED  BY <3>1, Add16Small, Zenon
  <2>3. remainLen' \in 0 .. W16 - 1
    BY <1>9, <2>2 DEF Poll, Others
  <2>4. lastCount' \in 0 .. BufLen /\ rxTimeOut' \in 0 .. RxWrap - 1
    BY <1>9, <2>1 DEF Poll, Others
  <2>. QED  BY <1>9, <2>3, <2>4 DEF Poll, Others, epVars, histVars
<1>10. CASE Choose
  <2>1. UploadLen > 0 => UploadLen \in 0 .. PackSize
    BY DEF UploadLen, Others
  <2>2. packlen' \in 0 .. PackSize
    BY <1>10, <2>1 DEF Choose, Others
  <2>3. ingFlag' \in {0, 1} /\ busy' \in {0, 1}
    BY <1>10 DEF Choose, GiveUp, Others
  <2>. QED  BY <1>10, <2>2, <2>3 DEF Choose, Others, ringVars, histVars
<1>11. CASE Clip
  BY <1>11 DEF Clip, Others, ringVars, timeVars, epVars, histVars
<1>12. CASE Upload
  <2>1. /\ Cells(dealPtr, packlen) \in Seq(Nat)
        /\ Len(Cells(dealPtr, packlen)) <= PackSize
    <3>1. dealPtr \in Nat /\ packlen \in Nat /\ packlen <= PackSize
      BY DEF Others
    <3>2. Cells(dealPtr, packlen) \in Seq(Nat) /\ Len(Cells(dealPtr, packlen)) = packlen
      BY <3>1, CellsType, Zenon
    <3>. QED  BY <3>1, <3>2
  <2>2. /\ busy' \in {0, 1} /\ ep3' \in {"ACK", "NAK", "STALL"}
        /\ epBuf' \in Seq(Nat) /\ Len(epBuf') <= PackSize
        /\ lost' \in {"none", "refused", "replaced", "late", "halted"}
    BY <1>12, <1>d, <2>1 DEF Upload, DataUp, Others
  <2>3. Sub16(remainLen, packlen) \in 0 .. W16 - 1
    <3>1. remainLen \in 0 .. W16 - 1 /\ packlen \in Nat /\ packlen < W16
      BY DEF Others
    <3>. QED  BY <3>1, Sub16Small, Zenon
  <2>4. Advance(packlen) \in 0 .. BufLen - 1
    BY DEF Advance, Others
  <2>5. taken' \in Nat /\ pack0' \in {0, 1}
    BY <1>12 DEF Upload, Others
  <2>. QED  BY <1>12, <2>2, <2>3, <2>4, <2>5 DEF Upload, Others
<1>13. CASE ZlpTest
  BY <1>13 DEF ZlpTest, Others, ringVars, timeVars, epVars, histVars
<1>14. CASE ZlpSend
  <2>1. /\ busy' \in {0, 1} /\ ep3' \in {"ACK", "NAK", "STALL"}
        /\ epBuf' \in Seq(Nat) /\ Len(epBuf') <= PackSize
        /\ lost' \in {"none", "refused", "replaced", "late", "halted"}
    <3>1. DataUp(<<>>)
      BY <1>14 DEF ZlpSend
    <3>2. CASE busy = 0
      BY <3>1, <3>2, <1>a, <1>d DEF DataUp, Others
    <3>3. CASE busy = 1
      BY <3>1, <3>3, <1>a, <1>d DEF DataUp, Others
    <3>. QED  BY <3>1, <3>2, <3>3 DEF Others
  <2>. QED  BY <1>14, <2>1 DEF ZlpSend, Others, ringVars
<1>15. CASE UNCHANGED vars
  BY <1>15 DEF vars, Others, ringVars, timeVars, epVars, loopVars, histVars
<1>. QED  BY <1>1, <1>2, <1>3, <1>4, <1>5, <1>6, <1>7, <1>8, <1>9, <1>10, <1>11, <1>12,
             <1>13, <1>14, <1>15
          DEF Next, Control, MainLoop
----------------------------------------------------------------------------
(***************************************************************************)
(* The flags.                                                              *)
(***************************************************************************)
LEMMA FlagsStep ==
  Others /\ FlagsAreBacked /\ [Next]_vars => FlagsAreBacked'
<1>. SUFFICES ASSUME Others, FlagsAreBacked, [Next]_vars PROVE FlagsAreBacked'
  OBVIOUS
<1>. USE DEF FlagsAreBacked
<1>1. CASE DmaRx \/ Tick \/ Clip \/ ZlpTest \/ Poll
  BY <1>1 DEF DmaRx, Tick, Clip, ZlpTest, Poll, epVars
<1>2. CASE HostIn \/ IsrIn
  BY <1>2 DEF HostIn, IsrIn
<1>3. CASE Control
  BY <1>3 DEF Control, BusReset, SetLineCoding, SetHalt, ClearHalt, ParaInit
<1>4. CASE Choose
  BY <1>4 DEF Choose, GiveUp
<1>5. CASE Upload \/ ZlpSend
  BY <1>5 DEF Upload, ZlpSend, DataUp, Others
<1>6. CASE UNCHANGED vars
  BY <1>6 DEF vars, epVars
<1>. QED  BY <1>1, <1>2, <1>3, <1>4, <1>5, <1>6 DEF Next, MainLoop

LEMMA HeldStep == Others /\ Held /\ [Next]_vars => Held'
<1>. SUFFICES ASSUME Others, Held, [Next]_vars PROVE Held'
  OBVIOUS
<1>. USE DEF Held, NoBytes, Uploading
<1>1. CASE DmaRx \/ Tick
  BY <1>1 DEF DmaRx, Tick, epVars, loopVars
<1>2. CASE Poll \/ Clip \/ ZlpTest
  BY <1>2 DEF Poll, Clip, ZlpTest, epVars
<1>3. CASE HostIn \/ IsrIn
  BY <1>3 DEF HostIn, IsrIn, loopVars
<1>4. CASE BusReset \/ SetHalt \/ ClearHalt
  BY <1>4 DEF BusReset, SetHalt, ClearHalt, ParaInit, loopVars
<1>5. CASE SetLineCoding
  <2>1. epBuf' = <<>> \/ epBuf'[1] = 0
    BY <1>5 DEF SetLineCoding, Others
  <2>. QED  BY <1>5, <2>1 DEF SetLineCoding, ParaInit, loopVars
<1>6. CASE Choose
  BY <1>6 DEF Choose, GiveUp
<1>7. CASE Upload
  BY <1>7 DEF Upload
<1>8. CASE ZlpSend
  BY <1>8 DEF ZlpSend, DataUp, Others
<1>9. CASE UNCHANGED vars
  BY <1>9 DEF vars, epVars, loopVars
<1>. QED  BY <1>1, <1>2, <1>3, <1>4, <1>5, <1>6, <1>7, <1>8, <1>9 DEF Next, MainLoop, Control
----------------------------------------------------------------------------
(***************************************************************************)
(* The ring and the DMA.                                                   *)
(***************************************************************************)
(* One more byte adds one to what the firmware will find. *)
LEMMA ArrivedStep ==
  ASSUME Others, Arrived + 1 < BufLen, rcvd' = rcvd + 1, lastCount' = lastCount
  PROVE  Arrived' = Arrived + 1
<1>1. PICK r \in 0 .. BufLen - 1 : r = rcvd % BufLen
  BY BufMod DEF Others
<1>2. rcvd' % BufLen = IF r + 1 = BufLen THEN 0 ELSE r + 1
  <2>1. rcvd \in Nat /\ BufLen \in Nat \ {0} /\ 1 \in Nat /\ (rcvd % BufLen) + 1 <= BufLen
    BY <1>1, Sizes DEF Others
  <2>2. (rcvd + 1) % BufLen = IF (rcvd % BufLen) + 1 = BufLen THEN 0 ELSE (rcvd % BufLen) + 1
    BY <2>1, ModStep, Zenon
  <2>. QED  BY <1>1, <2>2, Zenon
<1>3. CurCount = BufLen - r /\ CurCount' = IF r + 1 = BufLen THEN BufLen ELSE BufLen - (r + 1)
  BY <1>1, <1>2, Sizes DEF CurCount
<1>4. PICK c \in 1 .. BufLen : c = CurCount
  BY <1>1, <1>3, Sizes, BufLen - r \in 1 .. BufLen
<1>5. CurCount' = IF c = 1 THEN BufLen ELSE c - 1
  BY <1>1, <1>3, <1>4, Sizes
<1>6. lastCount \in 0 .. BufLen
  BY DEF Others
<1>. QED  BY <1>4, <1>5, <1>6, Sizes DEF Arrived

(* An upload moves the read pointer on with the bytes it takes. *)
LEMMA TakenStep ==
  ASSUME Others, dealPtr = taken % BufLen, packlen <= BufLen - dealPtr
  PROVE  (taken + packlen) % BufLen
           = IF dealPtr + packlen = BufLen THEN 0 ELSE dealPtr + packlen
<1>1. taken \in Nat /\ packlen \in Nat /\ BufLen \in Nat \ {0} /\ dealPtr \in 0 .. BufLen - 1
  BY Sizes DEF Others
<1>2. PICK q \in Nat : taken = q * BufLen + (taken % BufLen)
  BY <1>1, BufMod, Zenon
<1>3. taken = q * BufLen + dealPtr /\ q * BufLen \in Nat
  BY <1>1, <1>2
<1>4. CASE dealPtr + packlen = BufLen
  <2>1. (q + 1) * BufLen = q * BufLen + BufLen
    BY <1>1
  <2>2. taken + packlen = (q + 1) * BufLen + 0
    BY <1>1, <1>3, <1>4, <2>1
  <2>3. ((q + 1) * BufLen + 0) % BufLen = 0
    BY <1>1, ModUnique, q + 1 \in Nat, 0 \in 0 .. BufLen - 1
  <2>. QED  BY <1>4, <2>2, <2>3
<1>5. CASE dealPtr + packlen < BufLen
  <2>1. taken + packlen = q * BufLen + (dealPtr + packlen)
    BY <1>1, <1>3
  <2>2. (q * BufLen + (dealPtr + packlen)) % BufLen = dealPtr + packlen
    BY <1>1, <1>5, ModUnique, dealPtr + packlen \in 0 .. BufLen - 1
  <2>. QED  BY <1>1, <1>5, <2>1, <2>2
<1>. QED  BY <1>1, <1>4, <1>5

Ring == RingFollowsDma /\ Fitting

LEMMA RingStep == Others /\ Ring /\ [Next]_vars => Ring'
<1>. SUFFICES ASSUME Others, Ring, [Next]_vars PROVE Ring'
  OBVIOUS
<1>. USE Sizes DEF Ring, RingFollowsDma, Fitting
<1>a. CurCount \in 1 .. BufLen /\ Arrived \in 0 .. BufLen
  BY CountRange
<1>k. ASSUME UNCHANGED <<rcvd, taken, ringVars, loopVars, overrun, raced>> PROVE Ring'
  BY <1>k DEF Calm, Arrived, CurCount, ringVars, loopVars
<1>1. CASE DmaRx
  <2>1. Arrived' = Arrived + 1
    BY <1>1, ArrivedStep DEF DmaRx, ringVars
  <2>2. SUFFICES ASSUME Calm' PROVE Ring'
    OBVIOUS
  <2>3. Calm /\ rcvd' - taken <= BufLen /\ UNCHANGED taken
    BY <1>1, <2>2 DEF DmaRx, Calm
  <2>. QED  BY <1>a, <1>1, <2>1, <2>3 DEF DmaRx, ringVars, loopVars, Others
<1>2. CASE Tick \/ HostIn \/ IsrIn \/ SetHalt \/ ClearHalt
  BY <1>2, <1>k DEF Tick, HostIn, IsrIn, SetHalt, ClearHalt, histVars
<1>3. CASE BusReset
  <2>1. SUFFICES ASSUME Calm' PROVE Ring'
    OBVIOUS
  <2>2. ~Uploading
    BY <1>3, <2>1 DEF BusReset, NewEpoch, Calm, Uploading
  <2>3. PICK r \in 0 .. BufLen - 1 : r = rcvd % BufLen
    BY BufMod DEF Others
  <2>4. r % BufLen = r
    BY ModSmall
  <2>5. 0 % BufLen = 0
    BY ModSmall
  <2>6. rcvd' = r /\ taken' = 0 /\ dealPtr' = 0 /\ remainLen' = 0 /\ lastCount' = 0
    BY <1>3, <2>3 DEF BusReset, NewEpoch, ParaInit
  <2>7. CurCount' = BufLen - r
    BY <2>4, <2>6 DEF CurCount
  <2>8. Arrived' = r
    BY <2>6, <2>7 DEF Arrived
  <2>9. UNCHANGED pc
    BY <1>3 DEF BusReset, loopVars
  <2>. QED  BY <2>2, <2>5, <2>6, <2>8, <2>9 DEF Uploading
<1>4. CASE SetLineCoding
  <2>1. SUFFICES ASSUME Calm' PROVE Ring'
    OBVIOUS
  <2>2. ~Uploading
    BY <1>4, <2>1 DEF SetLineCoding, NewEpoch, Calm, Uploading
  <2>3. 0 % BufLen = 0
    BY ModSmall
  <2>4. rcvd' = 0 /\ taken' = 0 /\ dealPtr' = 0 /\ remainLen' = 0 /\ lastCount' = 0
    BY <1>4 DEF SetLineCoding, NewEpoch, ParaInit
  <2>5. CurCount' = BufLen
    BY <2>3, <2>4 DEF CurCount
  <2>6. Arrived' = 0
    BY <2>4, <2>5 DEF Arrived
  <2>7. UNCHANGED pc
    BY <1>4 DEF SetLineCoding, loopVars
  <2>. QED  BY <2>2, <2>3, <2>4, <2>6, <2>7 DEF Uploading
<1>5. CASE Poll
  <2>1. UNCHANGED <<rcvd, taken, dealPtr, overrun, raced>> /\ pc' = "choose"
    BY <1>5 DEF Poll, histVars
  <2>2. CurCount' = CurCount /\ lastCount' = CurCount
    BY <1>5, <2>1 DEF Poll, CurCount
  <2>3. Arrived' = 0
    BY <2>2 DEF Arrived
  <2>4. SUFFICES ASSUME Calm' PROVE Ring'
    OBVIOUS
  <2>5. Calm
    BY <2>1, <2>4 DEF Calm
  <2>6. remainLen + Arrived <= BufLen /\ remainLen \in Nat
    BY <2>5 DEF Others
  <2>7. Add16(remainLen, Arrived) = remainLen + Arrived
    <3>1. Arrived \in Nat /\ remainLen + Arrived < W16
      BY <1>a, <2>6
    <3>. QED  BY <2>6, <3>1, Add16Small, Zenon
  <2>8. remainLen' = remainLen + Arrived
    BY <1>5, <2>6, <2>7, <1>a DEF Poll, Arrived
  <2>. QED  BY <2>1, <2>3, <2>5, <2>8 DEF Others
<1>6. CASE Choose
  <2>1. UNCHANGED <<rcvd, taken, ringVars, overrun, raced>>
    BY <1>6 DEF Choose, histVars
  <2>2. Arrived' = Arrived
    BY <2>1 DEF Arrived, CurCount, ringVars
  <2>3. pc' = "zlp" \/ (pc' = "clip" /\ packlen' \in 1 .. remainLen)
    <3>1. UploadLen > 0 => UploadLen \in 1 .. remainLen
      BY DEF UploadLen, Others
    <3>. QED  BY <1>6, <3>1 DEF Choose
  <2>. QED  BY <2>1, <2>2, <2>3 DEF Calm, ringVars
<1>7. CASE Clip
  <2>1. UNCHANGED <<rcvd, taken, ringVars, overrun, raced>>
    BY <1>7 DEF Clip, histVars
  <2>2. Arrived' = Arrived
    BY <2>1 DEF Arrived, CurCount, ringVars
  <2>. QED  BY <1>7, <2>1, <2>2 DEF Clip, Calm, ringVars, Others
<1>8. CASE Upload
  <2>1. UNCHANGED <<rcvd, lastCount, overrun, raced>> /\ pc' = "zlp"
    BY <1>8 DEF Upload
  <2>2. Arrived' = Arrived
    BY <2>1 DEF Arrived, CurCount
  <2>3. SUFFICES ASSUME Calm' PROVE Ring'
    OBVIOUS
  <2>4. Calm
    BY <2>1, <2>3 DEF Calm
  <2>5. /\ packlen \in 1 .. remainLen /\ packlen <= BufLen - dealPtr /\ packlen \in Nat
        /\ dealPtr = taken % BufLen /\ taken' = taken + packlen
    BY <1>8, <2>4 DEF Upload, Others
  <2>6. remainLen' = remainLen - packlen
    <3>1. remainLen \in 0 .. W16 - 1 /\ packlen \in Nat /\ packlen < W16 /\ packlen <= remainLen
      BY <2>5 DEF Others
    <3>2. Sub16(remainLen, packlen) = remainLen - packlen
      BY <3>1, Sub16Small, Zenon
    <3>. QED  BY <1>8, <3>2 DEF Upload
  <2>7. dealPtr' = taken' % BufLen
    <3>2. (taken + packlen) % BufLen
            = IF dealPtr + packlen = BufLen THEN 0 ELSE dealPtr + packlen
      BY <2>5, TakenStep
    <3>3. dealPtr' = IF dealPtr + packlen = BufLen THEN 0 ELSE dealPtr + packlen
      BY <1>8, <2>5 DEF Upload, Advance, Others
    <3>. QED  BY <2>5, <3>2, <3>3, Zenon
  <2>. QED  BY <1>a, <2>1, <2>2, <2>4, <2>5, <2>6, <2>7 DEF Others
<1>9. CASE ZlpTest
  <2>1. UNCHANGED <<rcvd, taken, ringVars, overrun, raced>> /\ pc' \in {"zlpsend", "poll"}
    BY <1>9 DEF ZlpTest, histVars
  <2>2. Arrived' = Arrived
    BY <2>1 DEF Arrived, CurCount, ringVars
  <2>. QED  BY <2>1, <2>2 DEF Calm, ringVars
<1>10. CASE ZlpSend
  <2>1. UNCHANGED <<rcvd, taken, ringVars, overrun, raced>> /\ pc' = "poll"
    BY <1>10 DEF ZlpSend
  <2>2. Arrived' = Arrived
    BY <2>1 DEF Arrived, CurCount, ringVars
  <2>. QED  BY <2>1, <2>2 DEF Calm, ringVars
<1>11. CASE UNCHANGED vars
  BY <1>11, <1>k DEF vars, histVars
<1>. QED  BY <1>1, <1>2, <1>3, <1>4, <1>5, <1>6, <1>7, <1>8, <1>9, <1>10, <1>11
          DEF Next, Control, MainLoop
----------------------------------------------------------------------------
(***************************************************************************)
(* What left the buffer.                                                   *)
(***************************************************************************)
(* When a packet takes its place, nothing that was not collected was in    *)
(* the endpoint.                                                           *)
Nothing == taken = delivered /\ \A i \in DOMAIN epBuf : epBuf[i] = 0
Loaded  == /\ fresh /\ taken = delivered + Len(epBuf)
           /\ epBuf = [i \in 1 .. Len(epBuf) |-> delivered + i]

LEMMA NothingLeft ==
  ASSUME Others, Calm, Nothing \/ Loaded, fresh => epBuf = <<>>
  PROVE  taken = delivered
<1>1. CASE Nothing
  BY <1>1 DEF Nothing
<1>2. CASE Loaded
  <2>1. epBuf = <<>> /\ Len(<<>>) = 0
    BY <1>2 DEF Loaded
  <2>. QED  BY <1>2, <2>1 DEF Loaded, Others
<1>. QED  BY <1>1, <1>2

LEMMA LossStep ==
  Others /\ Ring /\ NoSilentLoss /\ [Next]_vars => NoSilentLoss'
<1>. SUFFICES ASSUME Others, Ring, NoSilentLoss, [Next]_vars, Calm', lost' = "none"
              PROVE  Nothing' \/ Loaded'
  BY DEF NoSilentLoss, Nothing, Loaded
<1>a. Calm /\ lost = "none" => Nothing \/ Loaded
  BY DEF NoSilentLoss, Nothing, Loaded
<1>b. DOMAIN <<>> = {}
  OBVIOUS
<1>k. ASSUME Calm, lost = "none", UNCHANGED <<taken, delivered, epBuf, fresh>>
      PROVE  Nothing' \/ Loaded'
  BY <1>k, <1>a DEF Nothing, Loaded
<1>1. CASE DmaRx
  BY <1>1, <1>k DEF DmaRx, Calm, epVars
<1>2. CASE Tick
  BY <1>2, <1>k DEF Tick, Calm, epVars, histVars
<1>3. CASE HostIn
  <2>1. Calm /\ lost = "none" /\ epBuf' = <<>> /\ taken' = taken
    BY <1>3 DEF HostIn, Calm
  <2>2. taken = delivered'
    <3>1. CASE Nothing
      BY <1>3, <2>1, <3>1 DEF HostIn, Nothing
    <3>2. CASE Loaded /\ Len(epBuf) = 0
      <4>1. DOMAIN epBuf = {}
        BY <3>2 DEF Others
      <4>. QED  BY <1>3, <3>2, <4>1 DEF HostIn, Loaded, Others
    <3>3. CASE Loaded /\ Len(epBuf) > 0
      <4>1. 1 \in 1 .. Len(epBuf) /\ 1 \in DOMAIN epBuf
        BY <3>3 DEF Others
      <4>2. epBuf[1] > 0
        BY <3>3, <4>1 DEF Loaded, Others
      <4>. QED  BY <1>3, <2>1, <3>3, <4>1, <4>2 DEF HostIn, Loaded
    <3>. QED  BY <1>a, <2>1, <3>1, <3>2, <3>3 DEF Others
  <2>. QED  BY <1>b, <2>1, <2>2 DEF Nothing
<1>4. CASE IsrIn
  <2>1. Calm /\ lost = "none" /\ (fresh => epBuf = <<>>)
    BY <1>4 DEF IsrIn, Calm, Lose
  <2>2. taken = delivered
    BY <1>a, <2>1, NothingLeft
  <2>. QED  BY <1>4, <1>b, <2>2 DEF IsrIn, Nothing
<1>5. CASE BusReset
  BY <1>5, <1>b DEF BusReset, NewEpoch, Nothing
<1>6. CASE SetLineCoding
  BY <1>6 DEF SetLineCoding, NewEpoch, Nothing
<1>7. CASE SetHalt
  BY <1>7, <1>k DEF SetHalt, Calm, histVars
<1>8. CASE ClearHalt
  BY <1>8, <1>k DEF ClearHalt, Calm, Lose
<1>9. CASE Poll \/ Clip \/ ZlpTest
  BY <1>9, <1>k DEF Poll, Clip, ZlpTest, Calm, epVars, histVars
<1>10. CASE Choose
  BY <1>10, <1>k DEF Choose, Calm, histVars
<1>11. CASE Upload
  <2>1. Calm
    BY <1>11 DEF Upload, Calm
  <2>2. /\ packlen \in 1 .. remainLen /\ packlen <= BufLen - dealPtr /\ packlen \in Nat
        /\ dealPtr = taken % BufLen /\ taken' = taken + packlen
        /\ rcvd - taken <= BufLen /\ remainLen + Arrived = rcvd - taken
    BY <1>11, <2>1 DEF Upload, Others, Ring, RingFollowsDma, Fitting
  <2>3. taken + packlen <= rcvd
    BY <2>2, CountRange DEF Others
  <2>4. Cells(dealPtr, packlen) = [i \in 1 .. packlen |-> taken + i]
    BY <2>2, <2>3, CellsHoldNext, Zenon
  <2>5. /\ Len(Cells(dealPtr, packlen)) = packlen /\ Cells(dealPtr, packlen) # <<>>
    BY <2>2, <2>4
  <2>6. DataUp(Cells(dealPtr, packlen)) /\ UNCHANGED delivered
    BY <1>11 DEF Upload
  <2>7. /\ lost = "none" /\ (fresh => epBuf = <<>>)
        /\ epBuf' = Cells(dealPtr, packlen) /\ fresh'
    BY <2>1, <2>5, <2>6 DEF DataUp, Lose
  <2>8. taken = delivered
    BY <1>a, <2>1, <2>7, NothingLeft
  <2>. QED  BY <2>2, <2>4, <2>5, <2>6, <2>7, <2>8 DEF Loaded
<1>12. CASE ZlpSend
  <2>1. Calm /\ DataUp(<<>>) /\ UNCHANGED <<taken, delivered>>
    BY <1>12 DEF ZlpSend, Calm
  <2>2. CASE busy = 0
    <3>1. lost = "none" /\ (fresh => epBuf = <<>>) /\ epBuf' = <<>>
      BY <2>1, <2>2 DEF DataUp, Lose
    <3>2. taken = delivered
      BY <1>a, <2>1, <3>1, NothingLeft
    <3>. QED  BY <1>b, <2>1, <3>1, <3>2 DEF Nothing
  <2>3. CASE busy = 1
    BY <1>k, <2>1, <2>3 DEF DataUp
  <2>. QED  BY <2>2, <2>3 DEF Others
<1>13. CASE UNCHANGED vars
  BY <1>13, <1>k DEF vars, Calm, epVars, histVars
<1>. QED  BY <1>1, <1>2, <1>3, <1>4, <1>5, <1>6, <1>7, <1>8, <1>9, <1>10, <1>11, <1>12, <1>13
          DEF Next, Control, MainLoop
----------------------------------------------------------------------------
LEMMA InvStep == IInv /\ [Next]_vars => IInv'
<1>1. IInv /\ [Next]_vars => TypeOK'
  <2>1. IInv /\ [Next]_vars => Booleans' /\ Others'
    BY BooleansStep, OthersStep, TypeParts DEF IInv
  <2>. QED  BY <2>1, TypeParts, PTL
<1>2. IInv /\ [Next]_vars => FlagsAreBacked' /\ Held'
  BY FlagsStep, HeldStep, TypeParts DEF IInv
<1>3. IInv /\ [Next]_vars => RingFollowsDma' /\ Fitting'
  BY RingStep, TypeParts DEF IInv, Ring
<1>4. IInv /\ [Next]_vars => NoSilentLoss'
  BY LossStep, TypeParts DEF IInv, Ring
<1>. QED  BY <1>1, <1>2, <1>3, <1>4 DEF IInv

LEMMA Inductive == Spec => []IInv
BY InvInit, InvStep, PTL DEF Spec

(***************************************************************************)
(* Every variable of the uplink stays within its register or C type, and   *)
(* no upload is longer than a packet.                                      *)
(***************************************************************************)
THEOREM TypeCorrect == Spec => []TypeOK
<1>1. IInv => TypeOK
  BY DEF IInv
<1>. QED  BY <1>1, Inductive, PTL

(***************************************************************************)
(* The counters of the firmware agree with the circular DMA, for every     *)
(* size of the buffer (UART.c:426-447, 486-493).                           *)
(***************************************************************************)
THEOREM CountersFollowDma == Spec => []RingFollowsDma
<1>1. IInv => RingFollowsDma
  BY DEF IInv
<1>. QED  BY <1>1, Inductive, PTL

(***************************************************************************)
(* Bytes are lost between the buffer and the host for the four causes of   *)
(* lost only, and the packet in the endpoint holds the bytes that are due. *)
(***************************************************************************)
THEOREM LossesAreNamed == Spec => []NoSilentLoss
<1>1. IInv => NoSilentLoss
  BY DEF IInv
<1>. QED  BY <1>1, Inductive, PTL

(***************************************************************************)
(* No reset, timeout or late interrupt leaves a flag that nothing clears.  *)
(***************************************************************************)
THEOREM NoFlagIsLeft == Spec => []FlagsAreBacked
<1>1. IInv => FlagsAreBacked
  BY DEF IInv
<1>. QED  BY <1>1, Inductive, PTL

(* A packet is refused only in Upload, which starts with ingFlag at 0. *)
LEMMA RefusalStep ==
  IInv /\ [Next]_vars =>
    (lost' = "refused" /\ lost # "refused" => (epBuf = <<>> \/ epBuf[1] = 0))
<1>. SUFFICES ASSUME IInv, [Next]_vars, lost' = "refused", lost # "refused"
              PROVE  NoBytes(epBuf)
  BY DEF NoBytes
<1>1. CASE Upload
  <2>1. busy = 1
    BY <1>1 DEF Upload, DataUp, Lose
  <2>2. ingFlag = 0
    BY <1>1 DEF Upload, IInv, Held, Uploading
  <2>. QED  BY <2>1, <2>2 DEF IInv, Held
<1>2. CASE ZlpSend
  BY <1>2 DEF ZlpSend, DataUp, Lose
<1>3. CASE DmaRx \/ Tick \/ HostIn \/ IsrIn
  BY <1>3 DEF DmaRx, Tick, HostIn, IsrIn, Lose, histVars
<1>4. CASE Control
  BY <1>4 DEF Control, BusReset, SetLineCoding, SetHalt, ClearHalt, NewEpoch, Lose, histVars
<1>5. CASE Poll \/ Choose \/ Clip \/ ZlpTest
  BY <1>5 DEF Poll, Choose, Clip, ZlpTest, histVars
<1>6. CASE UNCHANGED vars
  BY <1>6 DEF vars, histVars
<1>. QED  BY <1>1, <1>2, <1>3, <1>4, <1>5, <1>6 DEF Next, MainLoop

(***************************************************************************)
(* An upload meets a busy endpoint only behind a zero-length packet, or    *)
(* behind a packet from before SET_LINE_CODING (UART.c:475-496, 516-526).  *)
(***************************************************************************)
THEOREM RefusalsAreRare == Spec => RefusedOnlyBehindZlp
<1>1. IInv /\ [Next]_vars =>
        [(lost' = "refused" /\ lost # "refused") => (epBuf = <<>> \/ epBuf[1] = 0)]_vars
  BY RefusalStep
<1>. QED  BY <1>1, Inductive, PTL DEF Spec, RefusedOnlyBehindZlp
============================================================================
