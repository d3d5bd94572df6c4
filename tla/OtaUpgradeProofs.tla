-------------------------- MODULE OtaUpgradeProofs --------------------------
(***************************************************************************)
(* Theorems about OtaUpgrade for every set of versions and every size of   *)
(* the areas, blocks, pages, frames and image.                             *)
(***************************************************************************)
EXTENDS OtaUpgrade, SequenceTheorems, TLAPS

Copying  == {"copyErase", "copyProg"}
Flagging == {"flagErase", "flagProg"}
Ending   == {"endErase", "endProg"}
Booting  == {"boot", "wipe", "jump"} \cup Copying \cup Flagging

(* The host is at work only with the application, and END comes last. *)
Sessions ==
  /\ pc \in Booting => host = "idle"
  /\ pc \in Ending => host = "verify" /\ done = ImgUnits
  /\ erasing => eraseNum = ImgBlocks /\ eraseCnt < eraseNum
  /\ host \in {"prom", "verify"} => ~erasing
  /\ host \in {"erase", "prom"} => promAddr # NoAddr
  /\ host = "verify" /\ done > 0 => blockBuf = <<>>

(* VERIFY has compared all that the host counts as done. *)
Verified ==
  host = "verify" =>
    \A i \in 0 .. ImgUnits - 1 : i < done => UnitAt(imgB, i) = <<ver, i>>

(* Pages of A that jump_APP has copied so far. *)
Copied(x) == x[1] < blk \/ (pc = "copyProg" /\ x[1] = blk /\ x[2] < pg)

CopyLoop ==
  /\ pc = "boot" => blk = 0
  /\ pc \in Copying => \A x \in PageIds : Copied(x) => imgA[x] = imgB[x]
  /\ pc = "copyProg" =>
       \A p \in 0 .. BlockPages - 1 :
         /\ flashData[p] = imgB[<<blk, p>>]
         /\ p >= pg => imgA[<<blk, p>>] = BlankPage

(* Where the flag may send the boot program, and what it finds there. *)
Committed ==
  /\ pc \in Copying => flag = "IAP"
  /\ pc \in {"wipe", "jump", "app"} \cup Ending => flag # "IAP"
  /\ flag = "IAP" \/ pc \in Flagging => Whole(imgB, want)
  /\ pc \in {"wipe", "jump", "app"} \cup Flagging \cup Ending => Whole(imgA, want)
  /\ pc = "boot" /\ flag # "IAP" => Whole(imgA, want)

IInv == TypeOK /\ Sessions /\ Verified /\ CopyLoop /\ Committed
----------------------------------------------------------------------------
(* Arithmetic of pages and units. *)

LEMMA DivBound ==
  ASSUME NEW a \in Nat, NEW b \in Nat \ {0}, NEW c \in Nat, a < c * b
  PROVE  /\ a \div b \in Nat /\ a \div b < c
         /\ a % b \in 0 .. b - 1
         /\ (a \div b) * b + (a % b) = a
<1>1. /\ a \div b \in Nat /\ a % b \in 0 .. b - 1
      /\ a = b * (a \div b) + (a % b)
  OBVIOUS
<1>2. a \div b < c
  <2>1. SUFFICES ASSUME a \div b >= c PROVE FALSE
    BY <1>1
  <2>2. DEFINE q == a \div b
               r == a % b
  <2>3. q \in Nat /\ r \in 0 .. b - 1 /\ a = b * q + r /\ q >= c
    BY <1>1, <2>1
  <2>4. PICK d \in Nat : q = c + d
    BY <2>3, q - c \in Nat, q = c + (q - c)
  <2>5. HIDE DEF q, r
  <2>6. b * q = c * b + b * d /\ b * d \in Nat
    BY <2>4
  <2>7. QED BY <2>3, <2>6
<1>3. QED BY <1>1, <1>2

LEMMA UnitInPage ==
  ASSUME NEW i \in 0 .. ImgUnits - 1
  PROVE  /\ PageId(i \div PageUnits) \in PageIds
         /\ i % PageUnits \in Offsets
<1>1. PICK m \in Nat : m = NBlocks * BlockPages
  BY SizesAssumption
<1>2. i \in Nat /\ i < m * PageUnits
  BY <1>1, SizesAssumption
<1>3. i \div PageUnits \in Nat /\ i \div PageUnits < m /\ i % PageUnits \in 0 .. PageUnits - 1
  BY <1>1, <1>2, DivBound, SizesAssumption
<1>4. PICK p \in Nat : p = i \div PageUnits
  BY <1>3
<1>5. p < NBlocks * BlockPages
  BY <1>1, <1>3, <1>4
<1>6. p \div BlockPages \in Nat /\ p \div BlockPages < NBlocks /\ p % BlockPages \in 0 .. BlockPages - 1
  BY <1>5, DivBound, SizesAssumption
<1>7. QED BY <1>3, <1>4, <1>6, SizesAssumption DEF PageId, PageIds, Blocks, Offsets

LEMMA ImgBlocksBound == ImgBlocks \in Nat /\ ImgBlocks > 0 /\ ImgBlocks <= NBlocks
<1>1. PICK n \in Nat \ {0} : n = BlockPages * PageUnits
  BY SizesAssumption
<1>2. ImgUnits \in 1 .. NBlocks * n
  <2>1. NBlocks * BlockPages * PageUnits = NBlocks * (BlockPages * PageUnits)
    BY SizesAssumption
  <2>2. QED BY <1>1, <2>1, SizesAssumption
<1>3. /\ NBlocks \in Nat \ {0} /\ ImgUnits + n - 1 \in Nat
      /\ ImgUnits + n - 1 < (NBlocks + 1) * n
  BY <1>1, <1>2, SizesAssumption
<1>4. /\ (ImgUnits + n - 1) \div n \in Nat
      /\ (ImgUnits + n - 1) \div n < NBlocks + 1
      /\ (ImgUnits + n - 1) % n \in 0 .. n - 1
      /\ ((ImgUnits + n - 1) \div n) * n + ((ImgUnits + n - 1) % n) = ImgUnits + n - 1
  <2>1. PICK a \in Nat : a = ImgUnits + n - 1
    BY <1>3
  <2>2. PICK c \in Nat : c = NBlocks + 1
    BY <1>3
  <2>3. a < c * n
    BY <1>3, <2>1, <2>2
  <2>4. /\ a \div n \in Nat /\ a \div n < c
        /\ a % n \in 0 .. n - 1
        /\ (a \div n) * n + (a % n) = a
    BY <2>3, DivBound
  <2>5. QED BY <2>1, <2>2, <2>4
<1>5. (ImgUnits + n - 1) \div n # 0
  <2>1. SUFFICES ASSUME (ImgUnits + n - 1) \div n = 0 PROVE FALSE
    OBVIOUS
  <2>2. 0 * n = 0 /\ n \in Nat /\ ImgUnits \in Nat /\ ImgUnits >= 1
    BY <1>1, SizesAssumption
  <2>3. (ImgUnits + n - 1) % n = ImgUnits + n - 1
    BY <1>4, <2>1, <2>2
  <2>4. QED BY <1>4, <2>2, <2>3
<1>6. ImgBlocks = (ImgUnits + n - 1) \div n
  BY <1>1 DEF ImgBlocks
<1>7. QED BY <1>4, <1>5, <1>6, SizesAssumption

(* Two areas that agree on the pages of the image hold the same image. *)
LEMMA SamePages ==
  ASSUME NEW f, NEW g, NEW v, \A x \in PageIds : f[x] = g[x], Whole(g, v)
  PROVE  Whole(f, v)
BY UnitInPage DEF Whole, UnitAt
----------------------------------------------------------------------------
(* What the operations on the flash return. *)

Pages == [Offsets -> ({"blank", "junk"} \cup Versions) \X Nat]

LEMMA SpecialPages == BlankPage \in Pages /\ JunkPage \in Pages
BY DEF BlankPage, JunkPage, Pages, Blank, Junk

LEMMA FlashOps ==
  ASSUME NEW f \in Area, NEW b, NEW x, NEW page \in Pages
  PROVE  /\ SetBlock(f, b, page) \in Area
         /\ SetPage(f, x, page) \in Area
         /\ Program(f, x, page) \in Area
BY SpecialPages DEF SetBlock, SetPage, Program, Area, Pages

LEMMA BufPageType ==
  ASSUME NEW s \in Seq(Versions \X Nat)
  PROVE  BufPage(s) \in Pages
<1>1. \A i \in 1 .. Len(s) : s[i] \in Versions \X Nat
  OBVIOUS
<1>2. \A o \in Offsets : (IF o < Len(s) THEN s[o + 1] ELSE Junk)
                           \in ({"blank", "junk"} \cup Versions) \X Nat
  <2>1. SUFFICES ASSUME NEW o \in Offsets
                 PROVE  (IF o < Len(s) THEN s[o + 1] ELSE Junk)
                           \in ({"blank", "junk"} \cup Versions) \X Nat
    OBVIOUS
  <2>2. CASE o < Len(s)
    <3>1. o + 1 \in 1 .. Len(s)
      BY <2>2, SizesAssumption DEF Offsets
    <3>2. s[o + 1] \in Versions \X Nat
      BY <1>1, <3>1
    <3>3. QED BY <2>2, <3>2
  <2>3. CASE ~(o < Len(s))
    BY <2>3 DEF Junk
  <2>4. QED BY <2>2, <2>3
<1>3. QED BY <1>2 DEF BufPage, Pages
----------------------------------------------------------------------------
LEMMA InitInv == Init => IInv
<1>1. SUFFICES ASSUME Init PROVE IInv
  OBVIOUS
<1>2. Whole(imgA, want)
  <2>1. SUFFICES ASSUME NEW i \in 0 .. ImgUnits - 1 PROVE UnitAt(imgA, i) = <<want, i>>
    BY DEF Whole
  <2>2. PICK p \in Nat : p = i \div PageUnits
    BY SizesAssumption
  <2>3. PageId(p) \in PageIds /\ i % PageUnits \in Offsets
    BY <2>2, UnitInPage
  <2>4. /\ (p \div BlockPages) * BlockPages + (p % BlockPages) = p
        /\ p * PageUnits + (i % PageUnits) = i
    BY <2>2, SizesAssumption
  <2>5. UnitAt(imgA, i) = <<want,
      ((p \div BlockPages) * BlockPages + (p % BlockPages)) * PageUnits
                                    + (i % PageUnits)>>
    BY <1>1, <2>2, <2>3 DEF Init, UnitAt, PageId
  <2>6. QED BY <2>4, <2>5
<1>3. imgA \in Area
  <2>1. \A x \in PageIds,
      o \in Offsets : (x[1] * BlockPages + x[2]) * PageUnits + o \in Nat
    BY SizesAssumption DEF PageIds, Blocks, Offsets
  <2>2. QED BY <1>1, <2>1 DEF Init, Area
<1>4. imgB \in Area
  BY <1>1, SpecialPages DEF Init, Area, Pages
<1>5. TypeOK
  <2>1. /\ 0 \in Blocks /\ 0 \in 0 .. BlockPages - 1 /\ 0 \in 0 .. NBlocks
        /\ 0 \in 0 .. ImgUnits
    BY SizesAssumption DEF Blocks
  <2>2. blockBuf \in Seq(Versions \X Nat) /\ Len(blockBuf) < PageUnits
    BY <1>1, SizesAssumption DEF Init
  <2>3. flashData \in [0 .. BlockPages - 1 -> Pages]
    BY <1>1, SpecialPages DEF Init
  <2>4. QED
    BY <1>1, <1>3, <1>4, <2>1, <2>2, <2>3 DEF Init, TypeOK, Flags, Pages
<1>6. QED
  BY <1>1, <1>2, <1>5
  DEF Init, IInv, Sessions, Verified, CopyLoop, Committed, Booting, Ending, Copying,
      Flagging
(* A frame holds at least one unit, and no more than are left to send. *)
LEMMA FrameTypes ==
  ver \in Versions /\ done \in Nat /\ done < ImgUnits =>
    /\ FrameLen \in 1 .. FrameUnits /\ done + FrameLen <= ImgUnits
    /\ Frame \in Seq(Versions \X Nat) /\ Len(Frame) = FrameLen
<1>1. HAVE ver \in Versions /\ done \in Nat /\ done < ImgUnits
<1>2. FrameLen \in 1 .. FrameUnits /\ done + FrameLen <= ImgUnits
  BY <1>1, SizesAssumption DEF FrameLen
<1>3. PICK n \in Nat : n = FrameLen
  BY <1>2, SizesAssumption
<1>4. \A i \in 1 .. n : <<ver, done + i - 1>> \in Versions \X Nat
  BY <1>1
<1>5. /\ [i \in 1 .. n |-> <<ver, done + i - 1>>] \in Seq(Versions \X Nat)
      /\ Len([i \in 1 .. n |-> <<ver, done + i - 1>>]) = n
  BY <1>4
<1>6. QED BY <1>2, <1>3, <1>5 DEF Frame

(* The variables in RAM have their types after a reset. *)
LEMMA RamResetTypes ==
  RamReset =>
         /\ blk' \in Blocks /\ pg' \in 0 .. BlockPages - 1
         /\ flashData' \in [0 .. BlockPages - 1 -> Pages]
         /\ blockBuf' \in Seq(Versions \X Nat) /\ Len(blockBuf') < PageUnits
         /\ promAddr' \in {NoAddr} \cup 0 .. NBlocks * BlockPages
         /\ eraseNum' \in {0, ImgBlocks} /\ eraseCnt' \in 0 .. NBlocks
         /\ erasing' \in BOOLEAN /\ verifyStatus' \in {0, 255}
<1>1. HAVE RamReset
<1>2. /\ 0 \in Blocks /\ 0 \in 0 .. BlockPages - 1 /\ 0 \in 0 .. NBlocks
  BY SizesAssumption DEF Blocks
<1>3. blockBuf' \in Seq(Versions \X Nat) /\ Len(blockBuf') < PageUnits
  BY <1>1, SizesAssumption DEF RamReset
<1>4. flashData' \in [0 .. BlockPages - 1 -> Pages]
  BY <1>1, SpecialPages DEF RamReset
<1>5. QED BY <1>1, <1>2, <1>3, <1>4 DEF RamReset

(* All of B is verified when the host has nothing left to verify. *)
LEMMA VerifiedIsWhole ==
  Verified /\ host = "verify" /\ done = ImgUnits => Whole(imgB, ver)
<1>1. \A i \in 0 .. ImgUnits - 1 : i < ImgUnits
  BY SizesAssumption
<1>2. QED BY <1>1 DEF Verified, Whole
----------------------------------------------------------------------------
(* One step per action; under it, one per part of IInv. *)
LEMMA StepInv == IInv /\ [Next]_vars => IInv'
<1>1. SUFFICES ASSUME IInv, [Next]_vars PROVE IInv'
  OBVIOUS
<1>2. TypeOK /\ Sessions /\ Verified /\ CopyLoop /\ Committed
  BY <1>1 DEF IInv
<1>3. CASE Boot
  <2>1. TypeOK'
    BY <1>2, <1>3 DEF Boot, flashVars, bootVars, rxVars, hostVars, TypeOK
  <2>2. Sessions'
    BY <1>2, <1>3
    DEF Boot, flashVars, bootVars, rxVars, hostVars, Sessions, Booting, Copying,
        Flagging, Ending
  <2>3. Verified'
    BY <1>2, <1>3 DEF Boot, flashVars, bootVars, rxVars, hostVars, Verified
  <2>4. CopyLoop'
    BY <1>2, <1>3
    DEF Boot, flashVars, bootVars, CopyLoop, Copied, Copying, PageIds, Blocks
  <2>5. Committed'
    BY <1>2, <1>3
    DEF Boot, flashVars, bootVars, rxVars, hostVars, Committed, Copying, Flagging, Ending
  <2>6. QED BY <2>1, <2>2, <2>3, <2>4, <2>5 DEF IInv
<1>4. CASE FlagErase
  <2>1. TypeOK'
    BY <1>2, <1>4 DEF FlagErase, bootVars, rxVars, hostVars, TypeOK, Flags, Blocks, Pages
  <2>2. Sessions'
    BY <1>2, <1>4
    DEF FlagErase, bootVars, rxVars, hostVars, Sessions, Booting, Copying, Flagging,
        Ending
  <2>3. Verified'
    BY <1>2, <1>4 DEF FlagErase, bootVars, rxVars, hostVars, Verified
  <2>4. CopyLoop'
    BY <1>2, <1>4 DEF FlagErase, bootVars, rxVars, hostVars, CopyLoop, Copied, Copying
  <2>5. Committed'
    BY <1>2, <1>4
    DEF FlagErase, bootVars, rxVars, hostVars, Committed, Copying, Flagging, Ending
  <2>6. QED BY <2>1, <2>2, <2>3, <2>4, <2>5 DEF IInv
<1>5. CASE FlagProg
  <2>1. TypeOK'
    BY <1>2, <1>5 DEF FlagProg, bootVars, rxVars, hostVars, TypeOK, Flags, Blocks, Pages
  <2>2. Sessions'
    BY <1>2, <1>5
    DEF FlagProg, bootVars, rxVars, hostVars, Sessions, Booting, Copying, Flagging, Ending
  <2>3. Verified'
    BY <1>2, <1>5 DEF FlagProg, bootVars, rxVars, hostVars, Verified
  <2>4. CopyLoop'
    BY <1>2, <1>5 DEF FlagProg, bootVars, rxVars, hostVars, CopyLoop, Copied, Copying
  <2>5. Committed'
    BY <1>2, <1>5
    DEF FlagProg, bootVars, rxVars, hostVars, Committed, Copying, Flagging, Ending
  <2>6. QED BY <2>1, <2>2, <2>3, <2>4, <2>5 DEF IInv
<1>6. CASE Wipe
  <2>1. TypeOK'
    <3>1. imgB' \in Area
      BY <1>2, <1>6, FlashOps, SpecialPages DEF Wipe, TypeOK
    <3>2. blk' \in Blocks
      BY <1>2, <1>6, SizesAssumption DEF Wipe, TypeOK, Blocks
    <3>3. QED BY <1>2, <1>6, <3>1, <3>2 DEF Wipe, rxVars, hostVars, TypeOK
  <2>2. Sessions'
    BY <1>2, <1>6 DEF Wipe, rxVars, hostVars, Sessions, Booting, Copying, Flagging, Ending
  <2>3. Verified'
    BY <1>2, <1>6 DEF Wipe, hostVars, Verified, Sessions, Booting
  <2>4. CopyLoop'
    BY <1>2, <1>6 DEF Wipe, rxVars, hostVars, CopyLoop, Copied, Copying
  <2>5. Committed'
    BY <1>2, <1>6 DEF Wipe, rxVars, hostVars, Committed, Copying, Flagging, Ending
  <2>6. QED BY <2>1, <2>2, <2>3, <2>4, <2>5 DEF IInv
<1>7. CASE Jump
  <2>1. TypeOK'
    BY <1>2, <1>7, RamResetTypes DEF Jump, flashVars, hostVars, TypeOK, Pages
  <2>2. Sessions'
    BY <1>2, <1>7
    DEF Jump, flashVars, hostVars, RamReset, Sessions, Booting, Copying, Flagging, Ending
  <2>3. Verified'
    BY <1>2, <1>7 DEF Jump, flashVars, hostVars, RamReset, Verified
  <2>4. CopyLoop'
    BY <1>2, <1>7 DEF Jump, flashVars, hostVars, RamReset, CopyLoop, Copied, Copying
  <2>5. Committed'
    BY <1>2, <1>7
    DEF Jump, flashVars, hostVars, RamReset, Committed, Copying, Flagging, Ending
  <2>6. QED BY <2>1, <2>2, <2>3, <2>4, <2>5 DEF IInv
<1>8. CASE RecInfo
  <2>1. TypeOK'
    BY <1>2, <1>8, SizesAssumption, ImgBlocksBound
    DEF RecInfo, flashVars, bootVars, hostVars, LinkUp, TypeOK
  <2>2. Sessions'
    BY <1>2, <1>8
    DEF RecInfo, flashVars, bootVars, hostVars, LinkUp, Sessions, Booting, Copying,
        Flagging, Ending
  <2>3. Verified'
    BY <1>2, <1>8 DEF RecInfo, flashVars, bootVars, hostVars, LinkUp, Verified
  <2>4. CopyLoop'
    BY <1>2, <1>8
    DEF RecInfo, flashVars, bootVars, hostVars, LinkUp, CopyLoop, Copied, Copying
  <2>5. Committed'
    BY <1>2, <1>8
    DEF RecInfo, flashVars, bootVars, hostVars, LinkUp, Committed, Copying, Flagging,
        Ending
  <2>6. QED BY <2>1, <2>2, <2>3, <2>4, <2>5 DEF IInv
<1>9. CASE RecErase
  <2>1. TypeOK'
    BY <1>2, <1>9, SizesAssumption, ImgBlocksBound
    DEF RecErase, flashVars, bootVars, LinkUp, TypeOK
  <2>2. Sessions'
    BY <1>2, <1>9, ImgBlocksBound, SizesAssumption
    DEF RecErase, flashVars, bootVars, LinkUp, Sessions, TypeOK, Booting, Copying,
        Flagging, Ending, NoAddr
  <2>3. Verified'
    BY <1>2, <1>9 DEF RecErase, flashVars, bootVars, LinkUp, Verified
  <2>4. CopyLoop'
    BY <1>2, <1>9 DEF RecErase, flashVars, bootVars, LinkUp, CopyLoop, Copied, Copying
  <2>5. Committed'
    BY <1>2, <1>9
    DEF RecErase, flashVars, bootVars, LinkUp, Committed, Copying, Flagging, Ending
  <2>6. QED BY <2>1, <2>2, <2>3, <2>4, <2>5 DEF IInv
<1>10. CASE HostVerifies
  <2>1. TypeOK'
    BY <1>2, <1>10 DEF HostVerifies, flashVars, bootVars, rxVars, LinkUp, TypeOK
  <2>2. Sessions'
    BY <1>2, <1>10
    DEF HostVerifies, flashVars, bootVars, rxVars, LinkUp, Sessions, Booting, Copying,
        Flagging, Ending
  <2>3. Verified'
    BY <1>2, <1>10 DEF HostVerifies, flashVars, bootVars, rxVars, LinkUp, Verified
  <2>4. CopyLoop'
    BY <1>2, <1>10
    DEF HostVerifies, flashVars, bootVars, rxVars, LinkUp, CopyLoop, Copied, Copying
  <2>5. Committed'
    BY <1>2, <1>10
    DEF HostVerifies, flashVars, bootVars, rxVars, LinkUp, Committed, Copying,
        Flagging, Ending
  <2>6. QED BY <2>1, <2>2, <2>3, <2>4, <2>5 DEF IInv
<1>11. CASE RecEnd
  <2>1. TypeOK'
    BY <1>2, <1>11 DEF RecEnd, flashVars, bootVars, rxVars, hostVars, LinkUp, TypeOK
  <2>2. Sessions'
    BY <1>2, <1>11
    DEF RecEnd, flashVars, bootVars, rxVars, hostVars, LinkUp, Sessions, Booting,
        Copying, Flagging, Ending
  <2>3. Verified'
    BY <1>2, <1>11 DEF RecEnd, flashVars, bootVars, rxVars, hostVars, LinkUp, Verified
  <2>4. CopyLoop'
    BY <1>2, <1>11
    DEF RecEnd, flashVars, bootVars, rxVars, hostVars, LinkUp, CopyLoop, Copied, Copying
  <2>5. Committed'
    BY <1>2, <1>11
    DEF RecEnd, flashVars, bootVars, rxVars, hostVars, LinkUp, Committed, Copying,
        Flagging, Ending
  <2>6. QED BY <2>1, <2>2, <2>3, <2>4, <2>5 DEF IInv
<1>12. CASE EndErase
  <2>1. TypeOK'
    BY <1>2, <1>12 DEF EndErase, bootVars, rxVars, hostVars, TypeOK, Flags, Blocks, Pages
  <2>2. Sessions'
    BY <1>2, <1>12
    DEF EndErase, bootVars, rxVars, hostVars, Sessions, Booting, Copying, Flagging, Ending
  <2>3. Verified'
    BY <1>2, <1>12 DEF EndErase, bootVars, rxVars, hostVars, Verified
  <2>4. CopyLoop'
    BY <1>2, <1>12 DEF EndErase, bootVars, rxVars, hostVars, CopyLoop, Copied, Copying
  <2>5. Committed'
    BY <1>2, <1>12
    DEF EndErase, bootVars, rxVars, hostVars, Committed, Copying, Flagging, Ending,
        Verified
  <2>6. QED BY <2>1, <2>2, <2>3, <2>4, <2>5 DEF IInv
<1>13. CASE EndProg
  <2>1. TypeOK'
    <3>1. 0 \in 0 .. ImgUnits
      BY SizesAssumption
    <3>2. /\ imgA' \in Area /\ imgB' \in Area /\ flag' \in Flags
          /\ ver' \in Versions /\ want' \in Versions
      BY <1>2, <1>13 DEF EndProg, TypeOK, Flags
    <3>3. QED BY <1>13, <3>1, <3>2, RamResetTypes DEF EndProg, TypeOK, Pages
  <2>2. Sessions'
    BY <1>2, <1>13 DEF EndProg, RamReset, Sessions, Booting, Copying, Flagging, Ending
  <2>3. Verified'
    BY <1>2, <1>13 DEF EndProg, RamReset, Verified
  <2>4. CopyLoop'
    BY <1>2, <1>13 DEF EndProg, RamReset, CopyLoop, Copied, Copying
  <2>5. Committed'
    <3>1. Whole(imgB, ver)
      BY <1>2, <1>13, VerifiedIsWhole DEF EndProg, Sessions, Ending
    <3>2. QED BY <1>13, <3>1 DEF EndProg, Committed, Copying, Flagging, Ending
  <2>6. QED BY <2>1, <2>2, <2>3, <2>4, <2>5 DEF IInv
<1>14. CASE HostRestarts
  <2>1. TypeOK'
    BY <1>2, <1>14, SizesAssumption, ImgBlocksBound
    DEF HostRestarts, flashVars, bootVars, rxVars, LinkUp, TypeOK
  <2>2. Sessions'
    BY <1>2, <1>14
    DEF HostRestarts, flashVars, bootVars, rxVars, LinkUp, Sessions, Booting, Copying,
        Flagging, Ending
  <2>3. Verified'
    BY <1>2, <1>14 DEF HostRestarts, flashVars, bootVars, rxVars, LinkUp, Verified
  <2>4. CopyLoop'
    BY <1>2, <1>14
    DEF HostRestarts, flashVars, bootVars, rxVars, LinkUp, CopyLoop, Copied, Copying
  <2>5. Committed'
    BY <1>2, <1>14
    DEF HostRestarts, flashVars, bootVars, rxVars, LinkUp, Committed, Copying,
        Flagging, Ending
  <2>6. QED BY <2>1, <2>2, <2>3, <2>4, <2>5 DEF IInv
<1>15. CASE EraseEvt
  <2>1. TypeOK'
    <3>1. imgB' \in Area
      BY <1>2, <1>15, FlashOps, SpecialPages DEF EraseEvt, TypeOK
    <3>2. eraseCnt' \in 0 .. NBlocks
      BY <1>2, <1>15, ImgBlocksBound, SizesAssumption DEF EraseEvt, TypeOK, Sessions
    <3>3. erasing' \in BOOLEAN /\ host' \in {"idle", "erase", "prom", "verify"}
      BY <1>2, <1>15 DEF EraseEvt, TypeOK
    <3>4. QED BY <1>2, <1>15, <3>1, <3>2, <3>3 DEF EraseEvt, bootVars, TypeOK
  <2>2. Sessions'
    <3>1. pc = "app" /\ pc' = "app" /\ host # "verify" /\ host # "prom"
      BY <1>2, <1>15 DEF EraseEvt, LinkUp, Sessions
    <3>2. erasing' => eraseNum' = ImgBlocks /\ eraseCnt' < eraseNum'
      BY <1>2, <1>15, ImgBlocksBound DEF EraseEvt, EraseOver, Sessions, TypeOK
    <3>3. host' \in {"prom", "verify"} => ~erasing'
      BY <1>15, <3>1 DEF EraseEvt
    <3>4. host' \in {"erase", "prom"} => promAddr' # NoAddr
      BY <1>2, <1>15, <3>1 DEF EraseEvt, Sessions
    <3>5. host' # "verify"
      BY <1>15, <3>1 DEF EraseEvt
    <3>6. QED
      BY <3>1, <3>2, <3>3, <3>4, <3>5 DEF Sessions, Booting, Copying, Flagging, Ending
  <2>3. Verified'
    BY <1>2, <1>15 DEF EraseEvt, bootVars, LinkUp, EraseOver, Verified, Sessions
  <2>4. CopyLoop'
    BY <1>2, <1>15 DEF EraseEvt, bootVars, LinkUp, EraseOver, CopyLoop, Copied, Copying
  <2>5. Committed'
    BY <1>2, <1>15
    DEF EraseEvt, bootVars, LinkUp, EraseOver, Committed, Copying, Flagging, Ending
  <2>6. QED BY <2>1, <2>2, <2>3, <2>4, <2>5 DEF IInv
<1>16. CASE EraseFails
  <2>1. TypeOK'
    <3>1. imgB' \in Area
      BY <1>2, <1>16, FlashOps, SpecialPages DEF EraseFails, TypeOK
    <3>2. 0 \in 0 .. ImgUnits
      BY SizesAssumption
    <3>3. erasing' \in BOOLEAN /\ host' \in {"idle", "erase", "prom", "verify"}
      BY <1>16 DEF EraseFails
    <3>4. done' \in 0 .. ImgUnits
      BY <1>16, <3>2 DEF EraseFails
    <3>5. QED BY <1>2, <1>16, <3>1, <3>3, <3>4 DEF EraseFails, bootVars, TypeOK
  <2>2. Sessions'
    BY <1>2, <1>16
    DEF EraseFails, bootVars, LinkUp, Sessions, Booting, Copying, Flagging, Ending
  <2>3. Verified'
    BY <1>2, <1>16 DEF EraseFails, bootVars, LinkUp, Verified
  <2>4. CopyLoop'
    BY <1>2, <1>16 DEF EraseFails, bootVars, LinkUp, CopyLoop, Copied, Copying
  <2>5. Committed'
    BY <1>2, <1>16 DEF EraseFails, bootVars, LinkUp, Committed, Copying, Flagging, Ending
  <2>6. QED BY <2>1, <2>2, <2>3, <2>4, <2>5 DEF IInv
<1>17. CASE CopyErase
  <2>1. TypeOK'
    <3>1. imgA' \in Area
      BY <1>2, <1>17, FlashOps, SpecialPages DEF CopyErase, TypeOK
    <3>2. flashData' \in [0 .. BlockPages - 1 -> Pages]
      BY <1>2, <1>17 DEF CopyErase, TypeOK, Area, Pages, PageIds
    <3>3. 0 \in 0 .. BlockPages - 1
      BY SizesAssumption
    <3>4. QED
      BY <1>2, <1>17, <3>1, <3>2, <3>3 DEF CopyErase, rxVars, hostVars, TypeOK, Pages
  <2>2. Sessions'
    BY <1>2, <1>17
    DEF CopyErase, rxVars, hostVars, Sessions, Booting, Copying, Flagging, Ending
  <2>3. Verified'
    BY <1>2, <1>17 DEF CopyErase, rxVars, hostVars, Verified
  <2>4. CopyLoop'
    <3>1. pc = "copyErase" /\ pc' = "copyProg" /\ pg' = 0 /\ blk' = blk /\ imgB' = imgB
      BY <1>17 DEF CopyErase
    <3>2. \A x \in PageIds : imgA'[x] = IF x[1] = blk THEN BlankPage ELSE imgA[x]
      BY <1>17 DEF CopyErase, SetBlock
    <3>3. \A x \in PageIds : Copied(x)' => x[1] < blk /\ x[1] # blk
      BY <1>2, <3>1 DEF Copied, PageIds, Blocks, TypeOK
    <3>4. \A x \in PageIds : x[1] < blk => imgA[x] = imgB[x]
      BY <1>2, <3>1 DEF CopyLoop, Copied, Copying
    <3>5. \A p \in 0 .. BlockPages - 1 :
            <<blk, p>> \in PageIds /\ flashData'[p] = imgB[<<blk, p>>]
      BY <1>2, <1>17 DEF CopyErase, PageIds, TypeOK
    <3>6. \A p \in 0 .. BlockPages - 1 : imgA'[<<blk, p>>] = BlankPage
      BY <3>2, <3>5
    <3>7. \A x \in PageIds : Copied(x)' => imgA'[x] = imgB'[x]
      BY <3>1, <3>2, <3>3, <3>4
    <3>8. QED BY <3>1, <3>5, <3>6, <3>7 DEF CopyLoop
  <2>5. Committed'
    BY <1>2, <1>17 DEF CopyErase, rxVars, hostVars, Committed, Copying, Flagging, Ending
  <2>6. QED BY <2>1, <2>2, <2>3, <2>4, <2>5 DEF IInv
<1>18. CASE CopyProg
  <2>1. /\ imgA'[<<blk, pg>>] = imgB[<<blk, pg>>]
        /\ \A x \in PageIds : x # <<blk, pg>> => imgA'[x] = imgA[x]
        /\ \A x \in PageIds : Copied(x) => imgA'[x] = imgB[x]
    <3>1. pc = "copyProg" /\ <<blk, pg>> \in PageIds /\ pg \in 0 .. BlockPages - 1
      BY <1>2, <1>18 DEF CopyProg, PageIds, TypeOK
    <3>2. /\ flashData[pg] = imgB[<<blk, pg>>]
          /\ imgA[<<blk, pg>>] = BlankPage
      BY <1>2, <3>1, SizesAssumption DEF CopyLoop
    <3>3. imgA' = [imgA EXCEPT ![<<blk, pg>>] = imgB[<<blk, pg>>]]
      BY <1>18, <3>2 DEF CopyProg, Program, SetPage
    <3>4. imgA \in [PageIds -> Pages]
      BY <1>2 DEF TypeOK, Area, Pages
    <3>5. \A x \in PageIds : Copied(x) => imgA[x] = imgB[x]
      BY <1>2, <3>1 DEF CopyLoop, Copying
    <3>6. QED BY <3>1, <3>3, <3>4, <3>5
  <2>2. TypeOK'
    <3>1. flashData[pg] \in Pages
      BY <1>2 DEF TypeOK, Pages
    <3>2. imgA' \in Area
      <4>1. imgA \in Area /\ imgA' = Program(imgA, <<blk, pg>>, flashData[pg])
        BY <1>2, <1>18 DEF CopyProg, TypeOK
      <4>2. QED BY <3>1, <4>1, FlashOps
    <3>3. blk' \in Blocks /\ pg' \in 0 .. BlockPages - 1
      <4>1. blk \in Blocks /\ pg \in 0 .. BlockPages - 1 /\ CopyNext
        BY <1>2, <1>18 DEF CopyProg, TypeOK
      <4>2. QED BY <4>1, SizesAssumption DEF CopyNext, Blocks
    <3>4. pc' \in {"copyErase", "copyProg", "flagErase"}
      BY <1>18 DEF CopyProg, CopyNext
    <3>5. QED
      BY <1>2, <1>18, <3>2, <3>3, <3>4 DEF CopyProg, rxVars, hostVars, TypeOK
  <2>3. Sessions'
    BY <1>2, <1>18
    DEF CopyProg, rxVars, hostVars, CopyNext, Sessions, Booting, Copying, Flagging, Ending
  <2>4. Verified'
    BY <1>2, <1>18 DEF CopyProg, rxVars, hostVars, CopyNext, Verified
  <2>5. CopyLoop'
    <3>1. CASE pg + 1 < BlockPages
      <4>1. pg' = pg + 1 /\ blk' = blk /\ pc' = "copyProg" /\ flashData' = flashData
        BY <1>2, <1>18, <3>1 DEF CopyProg, CopyNext, TypeOK
      <4>2. \A x \in PageIds :
              Copied(x)' <=> Copied(x) \/ x = <<blk, pg>>
        BY <1>2, <1>18, <4>1 DEF CopyProg, Copied, PageIds, Blocks, TypeOK
      <4>3. \A x \in PageIds : Copied(x)' => imgA'[x] = imgB'[x]
        BY <4>2, <2>1, <1>18 DEF CopyProg
      <4>4. \A p \in 0 .. BlockPages - 1 :
              p >= pg' => imgA'[<<blk, p>>] = BlankPage
        <5>1. SUFFICES ASSUME NEW p \in 0 .. BlockPages - 1, p >= pg + 1
                       PROVE  imgA'[<<blk, p>>] = BlankPage
          BY <4>1
        <5>2. p # pg /\ p >= pg
          BY <1>2, <5>1 DEF TypeOK
        <5>3. <<blk, p>> \in PageIds /\ <<blk, p>> # <<blk, pg>>
          BY <1>2, <5>2 DEF TypeOK, PageIds
        <5>4. imgA'[<<blk, p>>] = imgA[<<blk, p>>]
          BY <2>1, <5>3
        <5>5. QED BY <1>2, <1>18, <5>2, <5>4 DEF CopyProg, CopyLoop
      <4>5. QED
        BY <1>2, <1>18, <4>1, <4>3, <4>4 DEF CopyProg, CopyLoop
    <3>2. CASE ~(pg + 1 < BlockPages)
      <4>1. pg + 1 = BlockPages /\ pc' \in {"copyErase", "flagErase"}
        BY <1>2, <1>18, <3>2, SizesAssumption DEF CopyProg, CopyNext, TypeOK
      <4>2. pc' = "copyErase" => blk' = blk + 1
        BY <1>18, <4>1 DEF CopyProg, CopyNext
      <4>3. ASSUME pc' = "copyErase", NEW x \in PageIds, Copied(x)'
            PROVE  imgA'[x] = imgB'[x]
        <5>1. x[1] < blk + 1
          BY <4>2, <4>3 DEF Copied
        <5>2. Copied(x) \/ x = <<blk, pg>>
          BY <1>2, <1>18, <4>1, <5>1 DEF CopyProg, Copied, PageIds, Blocks, TypeOK
        <5>3. QED BY <2>1, <5>2, <1>18 DEF CopyProg
      <4>4. QED BY <4>1, <4>3 DEF CopyLoop, Copying
    <3>3. QED BY <3>1, <3>2
  <2>6. Committed'
    <3>1. flag = "IAP" /\ flag' = "IAP" /\ imgB' = imgB /\ want' = want /\ Whole(imgB,
        want)
      BY <1>2, <1>18 DEF CopyProg, Committed, Copying
    <3>2. pc' \in {"copyErase", "copyProg", "flagErase"}
      BY <1>18 DEF CopyProg, CopyNext
    <3>3. ASSUME pc' = "flagErase" PROVE Whole(imgA', want)
      <4>1. pg + 1 = BlockPages /\ blk + 1 = NBlocks
        BY <1>18, <3>3 DEF CopyProg, CopyNext
      <4>2. \A x \in PageIds : Copied(x) \/ x = <<blk, pg>>
        <5>1. pc = "copyProg" /\ blk = NBlocks - 1 /\ pg = BlockPages - 1
          BY <1>2, <1>18, <4>1, SizesAssumption DEF CopyProg, TypeOK, Blocks
        <5>2. SUFFICES ASSUME NEW x \in PageIds, x[1] >= blk
                       PROVE  Copied(x) \/ x = <<blk, pg>>
          BY <5>1, SizesAssumption DEF Copied, PageIds, Blocks
        <5>3. x = <<x[1], x[2]>> /\ x[1] = blk /\ x[2] \in 0 .. BlockPages - 1
          BY <5>1, <5>2, SizesAssumption DEF PageIds, Blocks
        <5>4. QED BY <5>1, <5>3, SizesAssumption DEF Copied
      <4>3. \A x \in PageIds : imgA'[x] = imgB[x]
        BY <2>1, <4>2
      <4>4. QED BY <3>1, <4>3, SamePages
    <3>4. QED BY <3>1, <3>2, <3>3 DEF Committed, Copying, Flagging, Ending
  <2>7. QED BY <2>2, <2>3, <2>4, <2>5, <2>6 DEF IInv
<1>19. CASE RecProm
  <2>1. TypeOK'
    <3>1. /\ imgB \in Area /\ blockBuf \in Seq(Versions \X Nat)
          /\ Len(blockBuf) < PageUnits /\ Len(blockBuf) \in Nat
      BY <1>2 DEF TypeOK
    <3>2. /\ FrameLen \in 1 .. FrameUnits /\ done + FrameLen \in 0 .. ImgUnits
          /\ Frame \in Seq(Versions \X Nat) /\ Len(Frame) = FrameLen
      <4>1. ver \in Versions /\ done \in Nat /\ done < ImgUnits
        BY <1>2, <1>19, SizesAssumption DEF RecProm, TypeOK
      <4>2. QED BY <4>1, FrameTypes, SizesAssumption
    <3>3. PICK q \in Seq(Versions \X Nat) : q = blockBuf \o Frame
      BY <3>1, <3>2, ConcatProperties
    <3>4. Len(q) = Len(blockBuf) + FrameLen
      BY <3>1, <3>2, <3>3, ConcatProperties
    <3>5. Len(q) \in Nat /\ Len(q) < PageUnits + PageUnits
      BY <3>1, <3>2, <3>4, SizesAssumption
    <3>6. \/ /\ Len(q) >= PageUnits
             /\ imgB' = Program(imgB, PageId(promAddr), BufPage(q))
             /\ blockBuf' = SubSeq(q, PageUnits + 1, Len(q))
          \/ /\ Len(q) < PageUnits
             /\ blockBuf' = q
             /\ imgB' = imgB
      BY <1>19, <3>3 DEF RecProm
    <3>7. imgB' \in Area
      BY <3>1, <3>6, FlashOps, BufPageType
    <3>8. blockBuf' \in Seq(Versions \X Nat) /\ Len(blockBuf') < PageUnits
      <4>1. CASE Len(q) < PageUnits
        BY <3>5, <3>6, <4>1, SizesAssumption
      <4>2. CASE Len(q) >= PageUnits
        <5>1. blockBuf' = SubSeq(q, PageUnits + 1, Len(q))
          BY <3>5, <3>6, <4>2, SizesAssumption
        <5>2. \A i \in PageUnits + 1 .. Len(q) : q[i] \in Versions \X Nat
          BY <3>5, SizesAssumption
        <5>3. PageUnits + 1 \in Int /\ Len(q) \in Int
          BY <3>5, SizesAssumption
        <5>4. /\ SubSeq(q, PageUnits + 1, Len(q)) \in Seq(Versions \X Nat)
              /\ Len(SubSeq(q, PageUnits + 1, Len(q)))
                   = IF PageUnits + 1 <= Len(q) THEN Len(q) - (PageUnits + 1) + 1 ELSE 0
          BY <5>2, <5>3, SubSeqProperties
        <5>5. QED BY <3>5, <5>1, <5>4, SizesAssumption
      <4>3. QED BY <3>5, <4>1, <4>2, SizesAssumption
    <3>9. promAddr' \in {NoAddr} \cup 0 .. NBlocks * BlockPages
      <4>1. promAddr \in Nat
        BY <1>2, <1>19, SizesAssumption DEF RecProm, Sessions, TypeOK, NoAddr
      <4>2. promAddr * PageUnits < (NBlocks * BlockPages) * PageUnits
        <5>1. promAddr * PageUnits + Len(blockBuf) + FrameLen
                <= NBlocks * BlockPages * PageUnits
          BY <1>19 DEF RecProm, WithinB, Capacity
        <5>2. /\ promAddr * PageUnits \in Nat
              /\ NBlocks * BlockPages * PageUnits \in Nat
          BY <4>1, SizesAssumption
        <5>3. FrameLen \in Nat /\ FrameLen > 0
          BY <3>2, SizesAssumption
        <5>4. QED BY <3>1, <5>1, <5>2, <5>3
      <4>3. PICK m \in Nat : m = NBlocks * BlockPages
        BY SizesAssumption
      <4>4. promAddr < m
        BY <4>1, <4>2, <4>3, SizesAssumption
      <4>5. promAddr' = promAddr \/ promAddr' = promAddr + 1
        BY <1>19 DEF RecProm
      <4>6. QED BY <4>1, <4>3, <4>4, <4>5
    <3>10. done' \in 0 .. ImgUnits
      BY <1>2, <1>19, <3>2 DEF RecProm, TypeOK
    <3>11. QED
      BY <1>2, <1>19, <3>7, <3>8, <3>9, <3>10 DEF RecProm, bootVars, TypeOK
  <2>2. Sessions'
    BY <1>2, <1>19
    DEF RecProm, bootVars, LinkUp, Sessions, TypeOK, Booting, Copying, Flagging,
        Ending, NoAddr
  <2>3. Verified'
    BY <1>2, <1>19 DEF RecProm, bootVars, LinkUp, Verified
  <2>4. CopyLoop'
    BY <1>2, <1>19 DEF RecProm, bootVars, LinkUp, CopyLoop, Copied, Copying
  <2>5. Committed'
    BY <1>2, <1>19 DEF RecProm, bootVars, LinkUp, Committed, Copying, Flagging, Ending
  <2>6. QED BY <2>1, <2>2, <2>3, <2>4, <2>5 DEF IInv
<1>20. CASE RecVerify
  <2>1. TypeOK'
    <3>1. /\ imgB \in Area /\ blockBuf \in Seq(Versions \X Nat)
          /\ Len(blockBuf) < PageUnits
      BY <1>2 DEF TypeOK
    <3>2. \/ /\ imgB' = Program(imgB, PageId(promAddr), BufPage(blockBuf))
             /\ blockBuf' = <<>>
          \/ imgB' = imgB /\ blockBuf' = blockBuf
      BY <1>20 DEF RecVerify
    <3>3. imgB' \in Area
      BY <3>1, <3>2, FlashOps, BufPageType
    <3>4. blockBuf' \in Seq(Versions \X Nat) /\ Len(blockBuf') < PageUnits
      <4>1. Len(<<>>) < PageUnits /\ <<>> \in Seq(Versions \X Nat)
        BY SizesAssumption
      <4>2. QED BY <3>1, <3>2, <4>1
    <3>5. promAddr' \in {NoAddr} \cup 0 .. NBlocks * BlockPages
      BY <1>2, <1>20 DEF RecVerify, TypeOK
    <3>6. verifyStatus' \in {0, 255} /\ host' \in {"idle", "erase", "prom", "verify"}
      BY <1>2, <1>20 DEF RecVerify, TypeOK
    <3>7. done' \in 0 .. ImgUnits
      <4>1. done + FrameLen \in 0 .. ImgUnits
        BY <1>2, <1>20, FrameTypes, SizesAssumption DEF RecVerify, TypeOK
      <4>2. QED BY <1>2, <1>20, <4>1 DEF RecVerify, TypeOK
    <3>8. QED
      BY <1>2, <1>20, <3>3, <3>4, <3>5, <3>6, <3>7 DEF RecVerify, bootVars, TypeOK
  <2>2. Sessions'
    BY <1>2, <1>20
    DEF RecVerify, bootVars, LinkUp, Sessions, Booting, Copying, Flagging, Ending
  <2>3. Verified'
    <3>1. /\ FrameLen \in 1 .. FrameUnits /\ done \in Nat /\ done + FrameLen <= ImgUnits
      BY <1>2, <1>20, FrameTypes, SizesAssumption DEF RecVerify, TypeOK
    <3>2. SUFFICES ASSUME host' = "verify", NEW i \in 0 .. ImgUnits - 1, i < done'
                   PROVE  UnitAt(imgB', i) = <<ver, i>>
      BY <1>20 DEF Verified, RecVerify
    <3>3. CASE i < done
      <4>1. imgB' = imgB
        BY <1>2, <1>20, <3>1, <3>3 DEF RecVerify, Sessions
      <4>2. QED BY <1>2, <1>20, <3>3, <4>1 DEF RecVerify, Verified
    <3>4. CASE ~(i < done)
      <4>1. done' = done + FrameLen /\ verifyStatus' = 0
        BY <1>20, <3>1, <3>2, <3>4 DEF RecVerify
      <4>2. i \in done .. done + FrameLen - 1
        BY <3>1, <3>2, <3>4, <4>1, SizesAssumption
      <4>3. ~Mismatch(UnitAt(imgB', i), <<ver, i>>)
        BY <1>20, <4>1, <4>2 DEF RecVerify
      <4>4. QED BY <4>3 DEF Mismatch
    <3>5. QED BY <3>3, <3>4
  <2>4. CopyLoop'
    BY <1>2, <1>20 DEF RecVerify, bootVars, LinkUp, CopyLoop, Copied, Copying
  <2>5. Committed'
    BY <1>2, <1>20 DEF RecVerify, bootVars, LinkUp, Committed, Copying, Flagging, Ending
  <2>6. QED BY <2>1, <2>2, <2>3, <2>4, <2>5 DEF IInv
<1>21. CASE PowerLoss
  <2>1. TypeOK'
    <3>1. imgA' \in Area /\ imgB' \in Area /\ flag' \in Flags
      <4>1. imgA \in Area /\ imgB \in Area /\ flag \in Flags
        BY <1>2 DEF TypeOK
      <4>2. /\ \/ imgA' = imgA
               \/ \E b : imgA' = SetBlock(imgA, b, JunkPage)
               \/ \E x : imgA' = SetPage(imgA, x, JunkPage)
            /\ \/ imgB' = imgB
               \/ \E b : imgB' = SetBlock(imgB, b, JunkPage)
               \/ \E x : imgB' = SetPage(imgB, x, JunkPage)
            /\ flag' = flag \/ flag' \in Flags
        BY <1>21 DEF PowerLoss, TornFlash, flashVars
      <4>3. QED BY <4>1, <4>2, FlashOps, SpecialPages
    <3>2. 0 \in 0 .. ImgUnits
      BY SizesAssumption
    <3>3. ver' \in Versions /\ want' \in Versions
      BY <1>2, <1>21 DEF PowerLoss, TypeOK
    <3>4. QED BY <1>21, <3>1, <3>2, <3>3, RamResetTypes DEF PowerLoss, TypeOK, Pages
  <2>2. Sessions'
    BY <1>2, <1>21
    DEF PowerLoss, flashVars, RamReset, TornFlash, Sessions, Booting, Copying,
        Flagging, Ending
  <2>3. Verified'
    BY <1>2, <1>21 DEF PowerLoss, flashVars, RamReset, TornFlash, Verified
  <2>4. CopyLoop'
    BY <1>2, <1>21
    DEF PowerLoss, flashVars, RamReset, TornFlash, CopyLoop, Copied, Copying
  <2>5. Committed'
    <3>1. pc' = "boot" /\ pc \in (Booting \ {"boot"}) \cup {"app"} \cup Ending
      BY <1>2, <1>21 DEF PowerLoss, TypeOK, Booting, Copying, Flagging, Ending
    <3>2. CASE pc \in Copying
      BY <1>2, <1>21, <3>1, <3>2
      DEF PowerLoss, TornFlash, flashVars, Committed, Copying, Flagging, Ending
    <3>3. CASE pc \in Flagging
      BY <1>2, <1>21, <3>1, <3>3
      DEF PowerLoss, TornFlash, flashVars, Committed, Copying, Flagging, Ending
    <3>4. CASE pc \in {"wipe", "jump", "app"}
      BY <1>2, <1>21, <3>1, <3>4
      DEF PowerLoss, TornFlash, flashVars, Committed, Copying, Flagging, Ending
    <3>5. CASE pc \in Ending
      <4>1. Whole(imgB, ver) /\ Whole(imgA, want) /\ flag # "IAP"
        BY <1>2, <3>5, VerifiedIsWhole DEF Sessions, Committed, Ending
      <4>2. imgA' = imgA /\ imgB' = imgB
        BY <1>21, <3>5 DEF PowerLoss, TornFlash, flashVars, Ending
      <4>3. want' = IF flag' = "IAP" THEN ver ELSE want
        BY <1>21, <3>5 DEF PowerLoss, Ending
      <4>4. QED BY <3>1, <4>1, <4>2, <4>3 DEF Committed, Copying, Flagging, Ending
    <3>6. QED BY <3>1, <3>2, <3>3, <3>4, <3>5 DEF Booting
  <2>6. QED BY <2>1, <2>2, <2>3, <2>4, <2>5 DEF IInv
<1>22. CASE UNCHANGED vars
  BY <1>1, <1>22
  DEF vars, flashVars, bootVars, rxVars, hostVars, IInv, TypeOK, Sessions, Verified,
      CopyLoop, Copied, Committed
<1>23. QED BY <1>1, <1>3, <1>4, <1>5, <1>6, <1>7, <1>8, <1>9, <1>10, <1>11, <1>12, <1>13, <1>14, <1>15, <1>16, <1>17, <1>18, <1>19, <1>20, <1>21, <1>22
  DEF Next, BootStep, AppStep

LEMMA Inductive == Spec => []IInv
BY InitInv, StepInv, PTL DEF Spec

(***************************************************************************)
(* Every variable keeps its type; in particular the page that the next     *)
(* programming takes (prom_addr) stays within area B as long as the host   *)
(* sends no more than B holds.                                             *)
(***************************************************************************)
THEOREM TypeCorrect == Spec => []TypeOK
<1>1. IInv => TypeOK
  BY DEF IInv
<1>2. QED BY Inductive, <1>1, PTL

(***************************************************************************)
(* The boot program (jump_APP) starts only a whole image, the one last     *)
(* committed to, wherever the power was lost.                              *)
(***************************************************************************)
THEOREM BootIsSafe == Spec => []JumpsToCommitted
<1>1. IInv => JumpsToCommitted
  BY DEF IInv, Committed, JumpsToCommitted, Ending
<1>2. QED BY Inductive, <1>1, PTL

(***************************************************************************)
(* The flag (SwitchImageFlag) says "copy" only while the backup in area B  *)
(* is whole, so a copy that was cut is redone and not lost.                *)
(***************************************************************************)
THEOREM BackupOutlivesCopy == Spec => []CopyCanBeRedone
<1>1. IInv => CopyCanBeRedone
  BY DEF IInv, Committed, CopyCanBeRedone
<1>2. QED BY Inductive, <1>1, PTL

(***************************************************************************)
(* What the host has seen verified (CMD_IAP_VERIFY) is in the flash,       *)
(* whatever frames came twice before.                                      *)
(***************************************************************************)
THEOREM VerifyIsSound == Spec => []VerifiedIsStored
<1>1. IInv => VerifiedIsStored
  BY DEF IInv, Verified, VerifiedIsStored
<1>2. QED BY Inductive, <1>1, PTL
----------------------------------------------------------------------------
(* The refinement of SafeUpgrade. *)

LEMMA OneImage ==
  ASSUME NEW f, NEW v \in Versions, Whole(f, v)
  PROVE  ImagesIn(f) = {v}
<1>1. 0 \in 0 .. ImgUnits - 1
  BY SizesAssumption
<1>2. \A w : Whole(f, w) => UnitAt(f, 0) = <<w, 0>>
  BY <1>1 DEF Whole
<1>3. \A w \in Versions : Whole(f, w) => w = v
  BY <1>2
<1>4. QED BY <1>3 DEF ImagesIn

(* What the mapping makes of a state: the committed image, started or not. *)
Mapped ==
  /\ ImagesIn(IF flag = "IAP" THEN imgB ELSE imgA) = {want}
  /\ Running => ImagesIn(imgA) = {want}
  /\ want \in Versions

LEMMA MappedState == IInv => Mapped
<1> SUFFICES ASSUME IInv PROVE Mapped
  OBVIOUS
<1>1. TypeOK /\ Committed
  BY DEF IInv
<1>2. want \in Versions /\ pc \in Booting \cup {"app"} \cup Ending
  BY <1>1 DEF TypeOK, Booting, Copying, Flagging, Ending
<1>3. flag = "IAP" => Whole(imgB, want)
  BY <1>1 DEF Committed
<1>4. flag # "IAP" => Whole(imgA, want)
  BY <1>1, <1>2 DEF Committed, Booting
<1>5. Running => Whole(imgA, want)
  BY <1>1 DEF Committed, Running, Ending
<1>6. QED BY <1>2, <1>3, <1>4, <1>5, OneImage DEF Mapped

(* The three things a step can look like from outside, and the stutter. *)
LEMMA MappedStep ==
  ASSUME IInv, [Next]_vars
  PROVE  \/ want' = want /\ Running' = Running
         \/ want' = want /\ ~Running /\ Running'
         \/ Running /\ ~Running'
<1>1. CASE BootStep
  BY <1>1
  DEF BootStep, Boot, CopyErase, CopyProg, CopyNext, FlagErase, FlagProg, Wipe, Jump,
      Running, hostVars
<1>2. CASE AppStep
  BY <1>2
  DEF AppStep, RecInfo, RecErase, RecProm, HostVerifies, RecVerify, RecEnd,
      HostRestarts, LinkUp, Running
<1>3. CASE EraseEvt \/ EraseFails \/ EndErase \/ EndProg
  BY <1>3 DEF EraseEvt, EraseFails, EndErase, EndProg, LinkUp, Running
<1>4. CASE PowerLoss
  BY <1>4 DEF PowerLoss, Running
<1>5. CASE UNCHANGED vars
  BY <1>5 DEF vars, Running
<1>6. QED BY <1>1, <1>2, <1>3, <1>4, <1>5 DEF Next

(***************************************************************************)
(* Every behaviour of the two programs and of the power supply is one of   *)
(* a device with a single image and an atomic upgrade, judged by the       *)
(* contents of the flash alone.                                            *)
(***************************************************************************)
THEOREM UpgradeRefinesSafe == Spec => UpgradeIsAtomic
<1>1. Init => Safe!Init
  <2>1. SUFFICES ASSUME Init PROVE Safe!Init
    OBVIOUS
  <2>2. IInv /\ ~Running
    BY <2>1, InitInv DEF Init, Running
  <2>3. QED BY <2>2, MappedState DEF Safe!Init, Mapped
<1>2. IInv /\ IInv' /\ [Next]_vars => [Safe!Next]_(Safe!vars)
  <2>1. SUFFICES ASSUME IInv, IInv', [Next]_vars PROVE [Safe!Next]_(Safe!vars)
    OBVIOUS
  <2>2. Mapped
    BY <2>1, MappedState
  <2>3. Mapped'
    BY <2>1, MappedState, PTL
  <2>4. CASE want' = want /\ Running' = Running
    BY <2>2, <2>3, <2>4 DEF Safe!vars, Mapped
  <2>5. CASE want' = want /\ ~Running /\ Running'
    BY <2>2, <2>3, <2>5 DEF Safe!Next, Safe!Start, Mapped
  <2>6. CASE Running /\ ~Running'
    BY <2>2, <2>3, <2>6 DEF Safe!Next, Safe!Upgrade, Mapped
  <2>7. QED BY <2>1, <2>4, <2>5, <2>6, MappedStep
<1>3. QED BY Inductive, <1>1, <1>2, PTL DEF Spec, Safe!Spec, UpgradeIsAtomic
============================================================================
