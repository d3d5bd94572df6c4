----------------------------- MODULE OtaUpgrade -----------------------------
(***************************************************************************)
(* Firmware upgrade over BLE with a backup image (BackupUpgrade_OTA and    *)
(* BackupUpgrade_IAP).  The application receives a new image into area B   *)
(* of the flash and marks it in the image flag; the boot program copies B  *)
(* over A, clears the mark, erases B and always jumps to A.  Power may be  *)
(* lost at any moment, in the middle of a flash operation too.             *)
(*                                                                         *)
(* Actors: the host with its upgrade tool, the application (Rec actions,   *)
(* EraseEvt), the boot program (Boot .. Jump), SwitchImageFlag in both,    *)
(* and the power supply (PowerLoss).                                       *)
(*                                                                         *)
(* The flash is an array of pages (what FLASH_ProgramPage_Fast writes) in  *)
(* blocks (what FLASH_ErasePage erases); a page holds PageUnits units of   *)
(* data, and a PROM or VERIFY frame carries FrameUnits of them, the last   *)
(* one what is left.  want is a history variable: the image the upgrade    *)
(* last committed to.                                                      *)
(***************************************************************************)
EXTENDS Integers, Sequences

CONSTANTS
  Versions,    \* images the host may send
  NBlocks,     \* IMAGE_A_SIZE / FLASH_BLOCK_SIZE
  BlockPages,  \* FLASH_BLOCK_SIZE / FLASH_PAGE_SIZE
  PageUnits,   \* units of data that fill a page
  FrameUnits,  \* units of data in a frame, the last one excepted
  ImgUnits     \* length of an image

ASSUME SizesAssumption ==
  /\ NBlocks \in Nat \ {0} /\ BlockPages \in Nat \ {0} /\ PageUnits \in Nat \ {0}
  /\ FrameUnits \in 1 .. PageUnits
  /\ ImgUnits \in 1 .. NBlocks * BlockPages * PageUnits

Blocks  == 0 .. NBlocks - 1
PageIds == Blocks \X (0 .. BlockPages - 1)
Offsets == 0 .. PageUnits - 1

Blank == <<"blank", 0>>
Junk  == <<"junk", 0>>
BlankPage == [o \in Offsets |-> Blank]
JunkPage  == [o \in Offsets |-> Junk]

(* Page number n of an area, and unit i of it. *)
PageId(n)    == <<n \div BlockPages, n % BlockPages>>
UnitAt(f, i) == f[PageId(i \div PageUnits)][i % PageUnits]

(* An area starts with the whole of image v. *)
Whole(f, v) == \A i \in 0 .. ImgUnits - 1 : UnitAt(f, i) = <<v, i>>

(* Flash operations on an area: all pages of a block, or one page. *)
SetBlock(f, b, page) == [x \in PageIds |-> IF x[1] = b THEN page ELSE f[x]]
SetPage(f, x, page)  == [f EXCEPT ![x] = page]

(* Programming needs an erased page. *)
Program(f, x, page)  == SetPage(f, x, IF f[x] = BlankPage THEN page ELSE JunkPage)

VARIABLES
  imgA, imgB,   \* areas A and B of the flash
  flag,         \* what ReadImageFlag makes of the flag page
  pc,           \* where the processor stands
  blk, pg,      \* loop counters of jump_APP
  flashData,    \* flash_Data: the block being copied
  blockBuf,     \* block_buf up to block_buf_len
  promAddr,     \* number of the page at prom_addr, or NoAddr
  eraseNum,     \* EraseBlockNum
  eraseCnt,     \* EraseBlockCnt
  erasing,      \* OTA_FLASH_ERASE_EVT is set
  verifyStatus, \* VerifyStatus
  host,         \* stage of the host's session
  ver,          \* image the host is sending
  done,         \* units the host knows were taken in this stage
  want          \* image the upgrade last committed to

flashVars == <<imgA, imgB, flag>>
bootVars  == <<blk, pg, flashData>>
rxVars    == <<blockBuf, promAddr, eraseNum, eraseCnt, erasing, verifyStatus>>
hostVars  == <<host, ver, done>>
vars      == <<flashVars, pc, bootVars, rxVars, hostVars, want>>

NoAddr    == -1
Flags     == {"A", "IAP", "none"}   \* "none": erased or invalid, taken for A
Area      == [PageIds -> [Offsets -> ({"blank", "junk"} \cup Versions) \X Nat]]
Capacity  == NBlocks * BlockPages * PageUnits

(* Blocks that hold an image. *)
ImgBlocks == (ImgUnits + BlockPages * PageUnits - 1) \div (BlockPages * PageUnits)
----------------------------------------------------------------------------
(* Variables in RAM, as a reset leaves them. *)
RamReset ==
  /\ blk' = 0 /\ pg' = 0 /\ flashData' = [p \in 0 .. BlockPages - 1 |-> BlankPage]
  /\ blockBuf' = <<>> /\ promAddr' = NoAddr
  /\ eraseNum' = 0 /\ eraseCnt' = 0 /\ erasing' = FALSE /\ verifyStatus' = 0

Init ==
  /\ want \in Versions
  /\ imgA = [x \in PageIds |->
               [o \in Offsets |-> <<want, (x[1] * BlockPages + x[2]) * PageUnits + o>>]]
  /\ imgB = [x \in PageIds |-> BlankPage]
  /\ flag = "none"
  /\ pc = "boot"
  /\ blk = 0 /\ pg = 0 /\ flashData = [p \in 0 .. BlockPages - 1 |-> BlankPage]
  /\ blockBuf = <<>> /\ promAddr = NoAddr
  /\ eraseNum = 0 /\ eraseCnt = 0 /\ erasing = FALSE /\ verifyStatus = 0
  /\ host = "idle" /\ ver = want /\ done = 0
----------------------------------------------------------------------------
(***************************************************************************)
(* The boot program: main, ReadImageFlag, jump_APP.                        *)
(***************************************************************************)
BootUnlessA ==   \* mutant: an erased flag page counts as a wish to copy
  /\ pc = "boot"
  /\ pc' = IF flag # "A" THEN "copyErase" ELSE "jump"
  /\ UNCHANGED <<flashVars, bootVars, rxVars, hostVars, want>>

Boot ==
  /\ pc = "boot"
  /\ pc' = IF flag = "IAP" THEN "copyErase" ELSE "jump"
  /\ UNCHANGED <<flashVars, bootVars, rxVars, hostVars, want>>

CopyEraseSkipped ==   \* mutant: A is not erased
  /\ pc = "copyErase"
  /\ flashData' = [p \in 0 .. BlockPages - 1 |-> imgB[<<blk, p>>]]
  /\ pg' = 0
  /\ pc' = "copyProg"
  /\ UNCHANGED <<flashVars, blk, rxVars, hostVars, want>>

(* Erase a block of A and read the block of B that replaces it. *)
CopyErase ==
  /\ pc = "copyErase"
  /\ imgA' = SetBlock(imgA, blk, BlankPage)
  /\ flashData' = [p \in 0 .. BlockPages - 1 |-> imgB[<<blk, p>>]]
  /\ pg' = 0
  /\ pc' = "copyProg"
  /\ UNCHANGED <<imgB, flag, blk, rxVars, hostVars, want>>

(* Where the loops of jump_APP stand after the page programmed. *)
CopyNextSameBlock ==   \* mutant: the block number does not advance
  \/ /\ pg + 1 < BlockPages
     /\ pg' = pg + 1 /\ UNCHANGED <<blk, pc>>
  \/ /\ pg + 1 = BlockPages
     /\ pg' = 0 /\ pc' = "copyErase" /\ UNCHANGED blk

CopyNext ==
  \/ /\ pg + 1 < BlockPages
     /\ pg' = pg + 1 /\ UNCHANGED <<blk, pc>>
  \/ /\ pg + 1 = BlockPages /\ blk + 1 < NBlocks
     /\ pg' = 0 /\ blk' = blk + 1 /\ pc' = "copyErase"
  \/ /\ pg + 1 = BlockPages /\ blk + 1 = NBlocks
     /\ pg' = 0 /\ blk' = 0 /\ pc' = "flagErase"

CopyProg ==
  /\ pc = "copyProg"
  /\ imgA' = Program(imgA, <<blk, pg>>, flashData[pg])
  /\ CopyNext
  /\ UNCHANGED <<imgB, flag, flashData, rxVars, hostVars, want>>

(* SwitchImageFlag( IMAGE_A_FLAG ). *)
FlagErase ==
  /\ pc = "flagErase"
  /\ flag' = "none"
  /\ pc' = "flagProg"
  /\ UNCHANGED <<imgA, imgB, bootVars, rxVars, hostVars, want>>

FlagProg ==
  /\ pc = "flagProg"
  /\ flag' = "A"
  /\ pc' = "wipe"
  /\ UNCHANGED <<imgA, imgB, bootVars, rxVars, hostVars, want>>

(* Destroy the backup code. *)
Wipe ==
  /\ pc = "wipe"
  /\ imgB' = SetBlock(imgB, blk, BlankPage)
  /\ \/ blk + 1 < NBlocks /\ blk' = blk + 1 /\ UNCHANGED pc
     \/ blk + 1 = NBlocks /\ blk' = 0 /\ pc' = "jump"
  /\ UNCHANGED <<imgA, flag, pg, flashData, rxVars, hostVars, want>>

Jump ==
  /\ pc = "jump"
  /\ pc' = "app"
  /\ RamReset
  /\ UNCHANGED <<flashVars, hostVars, want>>
----------------------------------------------------------------------------
(***************************************************************************)
(* The application: Rec_OTA_IAP_DataDeal, one action per command, each     *)
(* with the step of the host that sends the command and reads the answer.  *)
(* The answer may be lost: the host then sends the same frame again.       *)
(***************************************************************************)
LinkUp == pc = "app"

RecInfo ==
  /\ LinkUp /\ host = "idle"
  /\ blockBuf' = <<>>
  /\ UNCHANGED <<flashVars, pc, bootVars, promAddr, eraseNum, eraseCnt, erasing,
                 verifyStatus, hostVars, want>>

(* The host starts a session. *)
RecErase ==
  /\ LinkUp /\ host = "idle"
  /\ blockBuf' = <<>>
  /\ eraseNum' = ImgBlocks /\ eraseCnt' = 0
  /\ verifyStatus' = 0
  /\ promAddr' = 0
  /\ erasing' = TRUE
  /\ host' = "erase" /\ done' = 0
  /\ ver' \in Versions
  /\ UNCHANGED <<flashVars, pc, bootVars, want>>

EraseOver(n)      == n >= eraseNum

(* OTA_FLASH_ERASE_EVT in Peripheral_ProcessEvent, until all is erased. *)
EraseEvt ==
  /\ LinkUp /\ erasing
  /\ imgB' = SetBlock(imgB, eraseCnt, BlankPage)
  /\ eraseCnt' = eraseCnt + 1
  /\ \/ /\ EraseOver(eraseCnt')
        /\ erasing' = FALSE
        /\ host' = IF host = "erase" THEN "prom" ELSE host
     \/ /\ ~EraseOver(eraseCnt')
        /\ UNCHANGED <<erasing, host>>
  /\ UNCHANGED <<imgA, flag, pc, bootVars, blockBuf, promAddr, eraseNum,
                 verifyStatus, ver, done, want>>

(* FLASH_ErasePage reports a failure: the host is told, the event is over. *)
EraseFails ==
  /\ LinkUp /\ erasing
  /\ imgB' = SetBlock(imgB, eraseCnt, JunkPage)
  /\ erasing' = FALSE
  /\ host' = "idle" /\ done' = 0
  /\ UNCHANGED <<imgA, flag, pc, bootVars, blockBuf, promAddr, eraseNum, eraseCnt,
                 verifyStatus, ver, want>>

(* A page of the buffer, padded with what older frames left in it. *)
BufPage(s) == [o \in Offsets |-> IF o < Len(s) THEN s[o + 1] ELSE Junk]

(* The units of the frame the host sends next. *)
FrameLen == IF ImgUnits - done < FrameUnits THEN ImgUnits - done ELSE FrameUnits
Frame    == [i \in 1 .. FrameLen |-> <<ver, done + i - 1>>]

(* Model bound: a host that repeats frames stops before the end of B. *)
WithinB == promAddr * PageUnits + Len(blockBuf) + FrameLen <= Capacity

(* Frames are stored in the order they come, whatever their address. *)
RecProm ==
  /\ LinkUp /\ host = "prom" /\ done < ImgUnits
  /\ WithinB
  /\ LET s == blockBuf \o Frame IN
       \/ /\ Len(s) >= PageUnits
          /\ imgB' = Program(imgB, PageId(promAddr), BufPage(s))
          /\ blockBuf' = SubSeq(s, PageUnits + 1, Len(s))
          /\ promAddr' = promAddr + 1
       \/ /\ Len(s) < PageUnits
          /\ blockBuf' = s
          /\ UNCHANGED <<imgB, promAddr>>
  /\ \E answered \in BOOLEAN : done' = IF answered THEN done + FrameLen ELSE done
  /\ UNCHANGED <<imgA, flag, pc, bootVars, eraseNum, eraseCnt, erasing,
                 verifyStatus, host, ver, want>>

(* The host has sent everything and starts to verify. *)
HostVerifies ==
  /\ LinkUp /\ host = "prom" /\ done = ImgUnits
  /\ host' = "verify" /\ done' = 0
  /\ UNCHANGED <<flashVars, pc, bootVars, rxVars, ver, want>>

MismatchPartly(stored, unit) == stored[1] # unit[1]   \* mutant: not all bytes compared
Mismatch(stored, unit)       == stored # unit

(* The first VERIFY flushes the buffer; a mismatch is kept till ERASE. *)
RecVerify ==
  /\ LinkUp /\ host = "verify" /\ done < ImgUnits
  /\ \/ /\ blockBuf # <<>>
        /\ imgB' = Program(imgB, PageId(promAddr), BufPage(blockBuf))
        /\ blockBuf' = <<>> /\ promAddr' = NoAddr
     \/ /\ blockBuf = <<>>
        /\ UNCHANGED <<imgB, blockBuf, promAddr>>
  /\ verifyStatus' =
       IF \E i \in done .. done + FrameLen - 1 : Mismatch(UnitAt(imgB', i), <<ver, i>>)
       THEN 255 ELSE verifyStatus
  /\ \/ /\ verifyStatus' = 0 /\ done' = done + FrameLen /\ UNCHANGED host
     \/ /\ verifyStatus' # 0 /\ host' = "idle" /\ UNCHANGED done
     \/ UNCHANGED <<host, done>>
  /\ UNCHANGED <<imgA, flag, pc, bootVars, eraseNum, eraseCnt, erasing, ver, want>>

(* Interrupts are disabled and the flag is switched to the boot program. *)
RecEnd ==
  /\ LinkUp /\ host = "verify" /\ done = ImgUnits
  /\ pc' = "endErase"
  /\ UNCHANGED <<flashVars, bootVars, rxVars, hostVars, want>>

(* SwitchImageFlag( IMAGE_IAP_FLAG ), then NVIC_SystemReset. *)
EndErase ==
  /\ pc = "endErase"
  /\ flag' = "none"
  /\ pc' = "endProg"
  /\ UNCHANGED <<imgA, imgB, bootVars, rxVars, hostVars, want>>

EndProg ==
  /\ pc = "endProg"
  /\ flag' = "IAP"
  /\ want' = ver
  /\ pc' = "boot"
  /\ RamReset
  /\ host' = "idle" /\ ver' = ver /\ done' = 0
  /\ UNCHANGED <<imgA, imgB>>

(* The link is lost, or the host gives up: it will begin again. *)
HostRestarts ==
  /\ LinkUp /\ host # "idle"
  /\ host' = "idle" /\ done' = 0
  /\ UNCHANGED <<flashVars, pc, bootVars, rxVars, ver, want>>
----------------------------------------------------------------------------
(***************************************************************************)
(* Power is lost.  The flash operation at hand may not have begun, or may  *)
(* be torn: its block or page holds junk, the flag page anything.  (One    *)
(* that is over is the state after its action.)                            *)
(***************************************************************************)
TornFlash ==
  \/ UNCHANGED flashVars
  \/ /\ pc = "copyErase" /\ imgA' = SetBlock(imgA, blk, JunkPage)
     /\ UNCHANGED <<imgB, flag>>
  \/ /\ pc = "copyProg" /\ imgA' = SetPage(imgA, <<blk, pg>>, JunkPage)
     /\ UNCHANGED <<imgB, flag>>
  \/ /\ pc = "wipe" /\ imgB' = SetBlock(imgB, blk, JunkPage)
     /\ UNCHANGED <<imgA, flag>>
  \/ /\ pc = "app" /\ erasing /\ imgB' = SetBlock(imgB, eraseCnt, JunkPage)
     /\ UNCHANGED <<imgA, flag>>
  \/ /\ pc = "app" /\ host \in {"prom", "verify"} /\ promAddr # NoAddr
     /\ promAddr < NBlocks * BlockPages
     /\ Len(blockBuf) > 0 \/ FrameUnits = PageUnits
     /\ imgB' = SetPage(imgB, PageId(promAddr), JunkPage)
     /\ UNCHANGED <<imgA, flag>>
  \/ /\ pc \in {"flagErase", "flagProg", "endErase", "endProg"}
     /\ flag' \in Flags
     /\ UNCHANGED <<imgA, imgB>>

PowerLoss ==
  /\ pc # "boot"
  /\ TornFlash
  /\ want' = IF pc \in {"endErase", "endProg"} /\ flag' = "IAP" THEN ver ELSE want
  /\ pc' = "boot"
  /\ RamReset
  /\ host' = "idle" /\ ver' = ver /\ done' = 0
----------------------------------------------------------------------------
BootStep == Boot \/ CopyErase \/ CopyProg \/ FlagErase \/ FlagProg \/ Wipe \/ Jump
AppStep  == RecInfo \/ RecErase \/ RecProm \/ HostVerifies \/ RecVerify \/ RecEnd
            \/ HostRestarts
Next     == BootStep \/ AppStep \/ EraseEvt \/ EraseFails \/ EndErase \/ EndProg \/ PowerLoss

(* The processor does not stop by itself. *)
Fairness == WF_vars(BootStep) /\ WF_vars(EraseEvt \/ EraseFails) /\ WF_vars(EndErase) /\ WF_vars(EndProg)

Spec == Init /\ [][Next]_vars /\ Fairness
----------------------------------------------------------------------------
TypeOK ==
  /\ imgA \in Area /\ imgB \in Area /\ flag \in Flags
  /\ pc \in {"boot", "copyErase", "copyProg", "flagErase", "flagProg", "wipe",
             "jump", "app", "endErase", "endProg"}
  /\ blk \in Blocks /\ pg \in 0 .. BlockPages - 1
  /\ flashData \in [0 .. BlockPages - 1 -> [Offsets -> ({"blank", "junk"} \cup Versions) \X Nat]]
  /\ blockBuf \in Seq(Versions \X Nat) /\ Len(blockBuf) < PageUnits
  /\ promAddr \in {NoAddr} \cup 0 .. NBlocks * BlockPages
  /\ eraseNum \in {0, ImgBlocks} /\ eraseCnt \in 0 .. NBlocks
  /\ erasing \in BOOLEAN /\ verifyStatus \in {0, 255}
  /\ host \in {"idle", "erase", "prom", "verify"}
  /\ ver \in Versions /\ want \in Versions /\ done \in 0 .. ImgUnits

(***************************************************************************)
(* The boot program only ever jumps to a whole image, and to the one the   *)
(* upgrade last committed to: no loss of power leaves the device without a *)
(* program, or makes it forget an accepted upgrade.                        *)
(***************************************************************************)
JumpsToCommitted == pc \in {"jump", "app", "endErase", "endProg"} => Whole(imgA, want)

(***************************************************************************)
(* As long as the flag sends the boot program to copy, B still holds the   *)
(* whole of the image to be copied, so a copy that was cut can be redone.  *)
(***************************************************************************)
CopyCanBeRedone == flag = "IAP" => Whole(imgB, want)

(***************************************************************************)
(* What the host has verified is in B, though frames are stored without    *)
(* regard to their address, the last page is flushed only by the first     *)
(* VERIFY and lost answers make frames come twice.                         *)
(***************************************************************************)
VerifiedIsStored ==
  (pc = "app" /\ host = "verify") =>
    \A i \in 0 .. ImgUnits - 1 : i < done => UnitAt(imgB, i) = <<ver, i>>

(* The images that an area holds from its first unit on: one or none. *)
ImagesIn(f) == {v \in Versions : Whole(f, v)}

Running == pc \in {"app", "endErase", "endProg"}

Safe == INSTANCE SafeUpgrade WITH
          installed <- ImagesIn(IF flag = "IAP" THEN imgB ELSE imgA),
          running   <- IF Running THEN ImagesIn(imgA) ELSE {}

(***************************************************************************)
(* Judged by what is in the flash, the upgrade is atomic: the two areas    *)
(* and the flag always amount to one installed image, which changes only   *)
(* when the application switches the flag (peripheral.c:734-741), and the  *)
(* copy of jump_APP, redone or not, shows nothing of itself.               *)
(***************************************************************************)
UpgradeIsAtomic == Safe!Spec

PowerStays == <>[][~PowerLoss]_vars

(* Once power stays, an accepted upgrade is installed and started. *)
UpgradeIsInstalled == PowerStays => ((flag = "IAP") ~> (pc = "app" /\ flag # "IAP"))
============================================================================
