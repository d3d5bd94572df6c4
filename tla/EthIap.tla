------------------------------- MODULE EthIap -------------------------------
(***************************************************************************)
(* The firmware upgrade over Ethernet (ETH_IAP): with the button pressed,  *)
(* the boot program receives a file over TCP, saves it page by page in the *)
(* BACKUP area and sets the update flag in the last page of that area; at  *)
(* the next start it copies BACKUP over USER, wipes BACKUP and jumps.      *)
(*                                                                         *)
(* Actors: the host and the TCP/IP library (Host), the boot program (Boot  *)
(* and Loop), and the power supply (PowerLoss).  The unit of data is half  *)
(* a flash page.  A file is one unit of header, numbered 0, and an image,  *)
(* named by its length, of units 1, 2, ...  want, worn and exposed are     *)
(* history variables.                                                      *)
(***************************************************************************)
EXTENDS Integers, Sequences, FiniteSets
LOCAL INSTANCE Functions

CONSTANTS
  Images,     \* the images there are, each named by its length in units
  PageUnits,  \* FLASH_PAGE_SIZE, in units
  BlockPages, \* FLASH_BLOCK_SIZE / FLASH_PAGE_SIZE
  NBlocks,    \* USER_IMAGE_MAX_SIZE / FLASH_BLOCK_SIZE
  RingLen     \* RECE_BUF_LEN, in units

NPages  == NBlocks * BlockPages
MaxData == (NPages - 1) * PageUnits    \* BACKUP_IMAGE_MAX_DATA_SIZE
Hdr     == 1                           \* BIN_INF_LEN

ASSUME SizesAssumption ==
  /\ {PageUnits, BlockPages, NBlocks, RingLen} \subseteq Nat \ {0}
  /\ PageUnits <= RingLen
  /\ Images \subseteq 1 .. MaxData /\ Images # {}

VARIABLES
  user,      \* the USER area: what each page holds
  backup,    \* the BACKUP area
  flag,      \* the word at UPDATA_FLAG_STORAGE_ADD, "update" or "none"
  pc,        \* where the boot program stands
  step,      \* the loop counter of an erasure or of the copy
  conn,      \* the socket, as the library has it
  ints,      \* SINT_STAT bits of the socket
  file,      \* the image the host sends
  header,    \* what is in its header: all right, a wrong flag or a wrong sum
  hostSent,  \* units the host has sent
  inSock,    \* units that wait in the socket's receive buffer
  connFlag,  \* connFlag
  ring,      \* dataDealBuf
  readIndex, writeIndex, buffUsedLen,  \* dataDeal
  fileDataLen,      \* fileDataLen
  para,             \* iapPara: length and checksum
  fileCheckSum,     \* fileCheckSum
  flashProgramLen,  \* flashProgramLen
  want,      \* the image of the last upgrade the flag was set for
  worn,      \* a page of BACKUP has not taken what was programmed
  exposed    \* why what starts may not be whole: worn, connected, cut, or no

flashVars == <<user, backup, flag>>
hostVars  == <<conn, ints, file, header, hostSent, inSock>>
ringVars  == <<ring, readIndex, writeIndex, buffUsedLen>>
recvVars  == <<ringVars, fileDataLen, para, fileCheckSum, flashProgramLen>>
histVars  == <<want, worn, exposed>>
vars      == <<flashVars, pc, step, hostVars, connFlag, recvVars, histVars>>

Headers == {"right", "flag", "sum"}

Pages  == 0 .. NPages - 1
Erased == <<>>
Junk   == << <<0, 0>> >>

Image(v, p) ==  \* what page p holds of image v
  [i \in 1 .. IF v >= (p + 1) * PageUnits THEN PageUnits
              ELSE IF v > p * PageUnits THEN v - p * PageUnits ELSE 0
     |-> <<v, p * PageUnits + i>>]

Whole(area, v) ==
  \A p \in Pages : p * PageUnits < v => area[p] = Image(v, p)

Block(b)         == {p \in Pages : p \div BlockPages = b}
EraseBlock(f, b) == [p \in Pages |-> IF p \in Block(b) THEN Erased ELSE f[p]]
TearBlock(f, b)  == [p \in Pages |-> IF p \in Block(b) THEN Junk ELSE f[p]]

(* Programming a page that is not erased leaves neither content. *)
Written(f, p, content) ==
  [f EXCEPT ![p] = IF f[p] = Erased \/ content = Erased THEN content ELSE Junk]

NoBytes == [c \in 0 .. RingLen - 1 |-> <<0, 0>>]
NoPara == [len |-> 0, sum |-> 0]
Sum(s) == SumFunctionOnSet([i \in DOMAIN s |-> s[i][2]], DOMAIN s)

ParaInitKeepSum ==
  /\ para' = NoPara /\ fileDataLen' = 0 /\ flashProgramLen' = 0
  /\ fileCheckSum' = fileCheckSum
  /\ buffUsedLen' = 0 /\ readIndex' = 0 /\ writeIndex' = 0
ParaInit ==
  /\ para' = NoPara /\ fileDataLen' = 0 /\ flashProgramLen' = 0
  /\ fileCheckSum' = 0
  /\ buffUsedLen' = 0 /\ readIndex' = 0 /\ writeIndex' = 0
IAPParaInit == ParaInit /\ UNCHANGED ring   \* the ring keeps its bytes

Init ==
  /\ want \in Images /\ user = [p \in Pages |-> Image(want, p)]
  /\ backup = [p \in Pages |-> Erased] /\ flag = "none"
  /\ pc = "boot" /\ step = 0
  /\ conn = "none" /\ ints = {} /\ file = want /\ header = "right"
  /\ hostSent = 0 /\ inSock = 0 /\ connFlag = 0
  /\ ring = NoBytes
  /\ readIndex = 0 /\ writeIndex = 0 /\ buffUsedLen = 0
  /\ para = NoPara /\ fileDataLen = 0 /\ fileCheckSum = 0 /\ flashProgramLen = 0
  /\ worn = FALSE /\ exposed = "no"
----------------------------------------------------------------------------
(***************************************************************************)
(* The host and the library.                                               *)
(***************************************************************************)
InLoop == pc \in {"recv", "connect", "connErase", "disconnect", "save"}

(* Bound: once exposed, no further upgrade is followed, only what starts. *)
HostConnects ==
  /\ InLoop /\ conn = "connecting" /\ exposed = "no"
  /\ conn' = "open" /\ ints' = ints \cup {"CONNECT"}
  /\ file' \in Images /\ header' \in Headers
  /\ hostSent' = 0 /\ inSock' = 0
  /\ UNCHANGED <<flashVars, pc, step, connFlag, recvVars, histVars>>

HostSends ==
  /\ InLoop /\ conn = "open" /\ hostSent < Hdr + file
  /\ \E n \in 1 .. RingLen - inSock :
       /\ hostSent + n <= Hdr + file
       /\ hostSent' = hostSent + n /\ inSock' = inSock + n
  /\ ints' = ints \cup {"RECV"}
  /\ UNCHANGED <<flashVars, pc, step, conn, file, header, connFlag, recvVars, histVars>>

(* The peer closes, or is not heard any more. *)
LinkEnds ==
  /\ InLoop
  /\ \/ conn = "open" /\ ints' = ints \cup {"DISCONNECT"}
     \/ conn \in {"connecting", "open"} /\ ints' = ints \cup {"TIM_OUT"}
  /\ conn' = "lost"
  /\ UNCHANGED <<flashVars, pc, step, file, header, hostSent, inSock, connFlag,
                 recvVars, histVars>>

Host == HostConnects \/ HostSends \/ LinkEnds

(* WCHNET_SocketClose *)
SocketClose == conn' = "closed" /\ ints' = ints \cup {"DISCONNECT"}
----------------------------------------------------------------------------
(***************************************************************************)
(* main: the button, the flag, and IAPCopyFlashDeal.                       *)
(***************************************************************************)
NewSocket == conn' \in {"connecting", "none"}   \* WCHNET_CreateTcpSocket

Boot ==
  /\ pc = "boot"
  /\ \/ /\ pc' = "recv"                       \* the button is pressed
        /\ IAPParaInit /\ NewSocket
     \/ /\ flag = "update" /\ pc' = "copyErase"
        /\ UNCHANGED <<conn, recvVars>>
     \/ /\ flag = "none" /\ pc' = "app"
        /\ UNCHANGED <<conn, recvVars>>
  /\ UNCHANGED <<flashVars, step, ints, file, header, hostSent, inSock, connFlag, histVars>>

CopyErase ==
  /\ pc = "copyErase"
  /\ user' = EraseBlock(user, step)
  /\ \/ step < NBlocks - 1 /\ step' = step + 1 /\ UNCHANGED pc
     \/ step = NBlocks - 1 /\ step' = 0 /\ pc' = "copyPage"
  /\ UNCHANGED <<backup, flag, hostVars, connFlag, recvVars, histVars>>

CopyPageUnchecked ==
  /\ pc = "copyPage"
  /\ user' \in {Written(user, step, backup[step]), [user EXCEPT ![step] = Junk]}
  /\ \/ step < NPages - 1 /\ step' = step + 1 /\ UNCHANGED pc
     \/ step = NPages - 1 /\ step' = 0 /\ pc' = "wipe"
  /\ UNCHANGED <<backup, flag, hostVars, connFlag, recvVars, histVars>>
(* A page that does not read back as it was ends the copy for header. *)
CopyPage ==
  /\ pc = "copyPage"
  /\ user' \in {Written(user, step, backup[step]), [user EXCEPT ![step] = Junk]}
  /\ \/ /\ user'[step] = backup[step]
        /\ \/ step < NPages - 1 /\ step' = step + 1 /\ UNCHANGED pc
           \/ step = NPages - 1 /\ step' = 0 /\ pc' = "wipe"
     \/ user'[step] # backup[step] /\ step' = 0 /\ pc' = "halt"
  /\ UNCHANGED <<backup, flag, hostVars, connFlag, recvVars, histVars>>

(* The flag is in the block that is erased last. *)
EraseBackup ==
  /\ backup' = EraseBlock(backup, step)
  /\ flag' = IF step = NBlocks - 1 THEN "none" ELSE flag
  /\ step' = IF step = NBlocks - 1 THEN 0 ELSE step + 1

Wipe ==
  /\ pc = "wipe"
  /\ EraseBackup
  /\ pc' = IF step = NBlocks - 1 THEN "app" ELSE pc
  /\ UNCHANGED <<user, hostVars, connFlag, recvVars, histVars>>
----------------------------------------------------------------------------
(***************************************************************************)
(* WCHNET_HandleSockInt, one interrupt after the other.                    *)
(***************************************************************************)

(* The header is read: the image is announced, or the socket is closed. *)
IAPFileParaCheck ==
  /\ inSock >= Hdr
  /\ inSock' = inSock - Hdr
  /\ \/ /\ header # "flag"
        /\ para' = [len |-> Hdr + file,
                    sum |-> IF header = "right" THEN (file * (file + 1)) \div 2 ELSE 0]
        /\ fileDataLen' = fileDataLen + Hdr
        /\ ints' = ints \ {"RECV"}
        /\ UNCHANGED <<conn, ringVars, fileCheckSum, flashProgramLen>>
     \/ /\ header = "flag"
        /\ IAPParaInit
        /\ conn' = "closed" /\ ints' = (ints \ {"RECV"}) \cup {"DISCONNECT"}

(* The units that wait in the socket, in the order of the file. *)
FromSock(i) == <<file, hostSent - inSock + i - Hdr>>

(* How many of them receUpdatedFile takes, in one WCHNET_SocketRecv or two. *)
FirstRoom == IF readIndex <= writeIndex THEN RingLen - writeIndex
             ELSE readIndex - writeIndex
AtMost(a, b) == IF a <= b THEN a ELSE b
TakenNoLimit ==
  IF readIndex <= writeIndex THEN inSock ELSE AtMost(inSock, FirstRoom)
Taken ==
  LET n1 == AtMost(inSock, FirstRoom)
  IN  IF readIndex <= writeIndex /\ inSock > n1
      THEN n1 + AtMost(inSock - n1, RingLen - buffUsedLen - n1)
      ELSE n1

ReceUpdatedFile ==
  /\ ring' = [c \in DOMAIN ring |->
                LET i == ((c - writeIndex + RingLen) % RingLen) + 1
                IN  IF i <= Taken THEN FromSock(i) ELSE ring[c]]
  /\ writeIndex' = (writeIndex + Taken) % RingLen
  /\ buffUsedLen' = buffUsedLen + Taken
  /\ fileDataLen' = fileDataLen + Taken
  /\ inSock' = inSock - Taken
  /\ ints' = ints \ {"RECV"}
  /\ UNCHANGED <<conn, readIndex, para, fileCheckSum, flashProgramLen>>

Recv ==
  /\ pc = "recv"
  /\ \/ "RECV" \in ints /\ fileDataLen < Hdr /\ IAPFileParaCheck
     \/ "RECV" \in ints /\ fileDataLen >= Hdr /\ buffUsedLen < RingLen /\ ReceUpdatedFile
     \/ /\ \/ "RECV" \notin ints
           \/ fileDataLen < Hdr /\ inSock < Hdr
           \/ fileDataLen >= Hdr /\ buffUsedLen = RingLen
        /\ ints' = ints \ {"RECV"}
        /\ UNCHANGED <<conn, inSock, recvVars>>
  /\ pc' = "connect"
  /\ UNCHANGED <<flashVars, step, file, header, hostSent, connFlag, histVars>>

(* CONNECT: BACKUP is erased, and the flag with it. *)
Connect ==
  /\ pc = "connect"
  /\ \/ /\ "CONNECT" \in ints
        /\ connFlag' = 1 /\ pc' = "connErase"
        /\ worn' = FALSE
        /\ exposed' = IF flag = "update" THEN "connected" ELSE exposed
     \/ /\ "CONNECT" \notin ints
        /\ pc' = "disconnect"
        /\ UNCHANGED <<connFlag, worn, exposed>>
  /\ ints' = ints \ {"CONNECT"}
  /\ UNCHANGED <<flashVars, step, conn, file, header, hostSent, inSock, recvVars, want>>

ConnErase ==
  /\ pc = "connErase"
  /\ EraseBackup
  /\ pc' = IF step = NBlocks - 1 THEN "disconnect" ELSE pc
  /\ UNCHANGED <<user, hostVars, connFlag, recvVars, histVars>>

(* Only TIM_OUT creates a new socket. *)
Disconnect ==
  /\ pc = "disconnect"
  /\ \/ /\ ints \cap {"DISCONNECT", "TIM_OUT"} # {}
        /\ connFlag' = 0 /\ IAPParaInit
        /\ IF "TIM_OUT" \in ints THEN NewSocket ELSE conn' = "none"
        /\ ints' = {} /\ hostSent' = 0 /\ inSock' = 0
     \/ /\ ints \cap {"DISCONNECT", "TIM_OUT"} = {}
        /\ UNCHANGED <<connFlag, recvVars, conn, ints, hostSent, inSock>>
  /\ pc' = "save"
  /\ UNCHANGED <<flashVars, step, file, header, histVars>>
----------------------------------------------------------------------------
(***************************************************************************)
(* saveUpdatedFile.                                                        *)
(***************************************************************************)

(* Whole pages; at the end of the file what is left. *)
WritablePagesOnly == (buffUsedLen \div PageUnits) * PageUnits
Writable ==
  IF buffUsedLen >= PageUnits THEN (buffUsedLen \div PageUnits) * PageUnits
  ELSE IF para.len = fileDataLen THEN buffUsedLen ELSE 0

Chunk == [i \in 1 .. Writable |-> ring[(readIndex + i - 1) % RingLen]]

(* IAP_EEPROM_WRITE at flashProgramLen; nothing is read back. *)
ProgramBackup ==
  LET first == flashProgramLen \div PageUnits
      Part(p) == [i \in 1 .. AtMost(PageUnits, Writable - (p - first) * PageUnits) |->
                    Chunk[(p - first) * PageUnits + i]]
      pages == {p \in Pages : p >= first /\ (p - first) * PageUnits < Writable}
      After(p) == IF backup[p] = Erased THEN Part(p) ELSE Junk
  IN  \E bad \in {{}} \cup {{q} : q \in pages} :
        /\ backup' = [p \in Pages |-> IF p \in bad THEN Junk
                                     ELSE IF p \in pages THEN After(p) ELSE backup[p]]
        /\ worn' = (worn \/ bad # {})

Save ==
  /\ pc = "save"
  /\ \/ /\ connFlag = 0 \/ Writable = 0
        /\ pc' = "recv"
        /\ UNCHANGED <<backup, worn, conn, ints, recvVars>>
     \/ /\ connFlag = 1 /\ Writable > 0
        /\ flashProgramLen + Writable <= MaxData
        /\ ProgramBackup
        /\ readIndex' = (readIndex + Writable) % RingLen
        /\ buffUsedLen' = buffUsedLen - Writable
        /\ flashProgramLen' = flashProgramLen + Writable
        /\ fileCheckSum' = fileCheckSum + Sum(Chunk)
        /\ \/ /\ para.len # flashProgramLen' + Hdr
              /\ pc' = "recv" /\ UNCHANGED <<conn, ints>>
           \/ /\ para.len = flashProgramLen' + Hdr /\ para.sum = fileCheckSum'
              /\ pc' = "setFlag" /\ UNCHANGED <<conn, ints>>
           \/ /\ para.len = flashProgramLen' + Hdr /\ para.sum # fileCheckSum'
              /\ pc' = "recv" /\ SocketClose
        /\ UNCHANGED <<ring, writeIndex, fileDataLen, para>>
  /\ UNCHANGED <<user, flag, step, file, header, hostSent, inSock, connFlag, want, exposed>>

(* RAM as after NVIC_SystemReset or a loss of power. *)
RamReset ==
  /\ ParaInit /\ ring' = NoBytes
  /\ conn' = "none" /\ ints' = {} /\ hostSent' = 0 /\ inSock' = 0
  /\ connFlag' = 0 /\ step' = 0 /\ pc' = "boot"
  /\ file' = want' /\ header' = "right" /\ worn' = FALSE

(* The flag page is erased and programmed, and the chip is reset. *)
SetFlag ==
  /\ pc = "setFlag"
  /\ flag' = "update"
  /\ want' = file /\ exposed' = (IF worn THEN "worn" ELSE "no")
  /\ RamReset
  /\ UNCHANGED <<user, backup>>
----------------------------------------------------------------------------
(***************************************************************************)
(* Power is lost.  The flash operation at hand has not begun, or is torn.  *)
(* The device is exposed if BACKUP was being wiped and the flag was not    *)
(* gone, once a connection is made while an upgrade is pending, and when   *)
(* the flag was set for an image of which a page was not programmed.       *)
(***************************************************************************)
TornFlash ==
  \/ UNCHANGED flashVars
  \/ /\ pc = "copyErase" /\ user' = TearBlock(user, step)
     /\ UNCHANGED <<backup, flag>>
  \/ /\ pc = "copyPage" /\ user' = [user EXCEPT ![step] = Junk]
     /\ UNCHANGED <<backup, flag>>
  \/ /\ pc \in {"wipe", "connErase"} /\ backup' = TearBlock(backup, step)
     /\ \/ UNCHANGED flag
        \/ step = NBlocks - 1 /\ flag' = "none"
     /\ UNCHANGED user

CutWipe ==
  pc = "wipe" /\ flag' = "update" /\ (step > 0 \/ backup' # backup)

PowerLoss ==
  /\ pc # "boot"
  /\ TornFlash
  /\ exposed' = IF CutWipe /\ exposed = "no" THEN "cut" ELSE exposed
  /\ want' = want
  /\ RamReset
----------------------------------------------------------------------------
Loop      == Recv \/ Connect \/ ConnErase \/ Disconnect \/ Save \/ SetFlag
BootSteps == Boot \/ CopyErase \/ CopyPage \/ Wipe

Next == Host \/ BootSteps \/ Loop \/ PowerLoss

Fairness == WF_vars(BootSteps) /\ WF_vars(Loop) /\ WF_vars(HostSends)

Spec == Init /\ [][Next]_vars /\ Fairness
----------------------------------------------------------------------------
(* The counters and indices of the boot program stay within the areas,     *)
(* the ring and the file they are used on.                                 *)
TypeOK ==
  /\ DOMAIN user = Pages /\ DOMAIN backup = Pages
  /\ flag \in {"none", "update"}
  /\ pc \in {"boot", "copyErase", "copyPage", "wipe", "app", "halt", "recv",
             "connect", "connErase", "disconnect", "save", "setFlag"}
  /\ step \in Pages
  /\ conn \in {"none", "connecting", "open", "lost", "closed"}
  /\ file \in Images /\ want \in Images
  /\ hostSent \in 0 .. Hdr + file /\ inSock \in Nat
  /\ connFlag \in {0, 1}
  /\ DOMAIN ring = 0 .. RingLen - 1
  /\ {readIndex, writeIndex} \subseteq 0 .. RingLen - 1
  /\ buffUsedLen \in 0 .. RingLen
  /\ fileDataLen \in Nat /\ flashProgramLen \in 0 .. MaxData

(***************************************************************************)
(* What was received is saved in the order of the file, and each byte is   *)
(* in one place: in BACKUP up to flashProgramLen, after it in the ring,    *)
(* over the wrap of the ring, reads in two parts, writes of whole pages    *)
(* and connections that break (IAP_Task.c:291-345, 358-412).               *)
(***************************************************************************)
UnitAt(area, u) ==
  LET page == area[(u - 1) \div PageUnits]
      off  == ((u - 1) % PageUnits) + 1
  IN  IF off \in DOMAIN page THEN page[off] ELSE <<0, 0>>

StreamIsSaved ==
  fileDataLen >= Hdr =>
    /\ fileDataLen = Hdr + flashProgramLen + buffUsedLen
    /\ fileDataLen = hostSent - inSock
    /\ \A u \in 1 .. flashProgramLen : worn \/ UnitAt(backup, u) = <<file, u>>
    /\ \A i \in 1 .. buffUsedLen :
         ring[(readIndex + i - 1) % RingLen] = <<file, flashProgramLen + i>>

(***************************************************************************)
(* As long as the flag orders a copy, BACKUP holds the whole image it was  *)
(* set for, so that a copy that was cut by a loss of power can be redone:  *)
(* the checksum is that of the whole file, the flag is written last.       *)
(***************************************************************************)
CopyCanBeRedone ==
  (flag = "update" /\ pc # "wipe" /\ exposed = "no") => Whole(backup, want)

(***************************************************************************)
(* The boot program starts only a whole image, the last one it accepted,   *)
(* whenever power is lost: but see exposed.                                *)
(***************************************************************************)
StartsWholeImage == (pc = "app" /\ exposed = "no") => Whole(user, want)

(***************************************************************************)
(* A file that was sent to its end is accepted, one shorter than a page or *)
(* a whole number of pages too, unless the link or the power is lost.  The *)
(* other exception: bytes left in the socket, and no interrupt to come.    *)
(***************************************************************************)
WholeFileSent == InLoop /\ conn = "open" /\ hostSent = Hdr + file /\ header = "right"
LeftInSocket  == inSock > 0 /\ "RECV" \notin ints

FileIsAccepted ==
  WholeFileSent ~> (flag = "update" \/ conn = "lost" \/ pc = "boot" \/ LeftInSocket)
=============================================================================
