------------------------------- MODULE UsbIap -------------------------------
(***************************************************************************)
(* In-application programming over USB and USART (IAP/USB_UART): the boot  *)
(* program and the application that hands over to it.  The host erases,    *)
(* programs, verifies and ends, one command at a time; the boot program    *)
(* answers each, and jumps to the application at END.                      *)
(*                                                                         *)
(* Actors: the host (Host), the boot program and the application (Device), *)
(* the links, which may lose a command or an answer (Lose), and the power  *)
(* supply (PowerLoss).  A file is named by its length, in units; a command *)
(* carries up to MaxChunk units.  verified, clean, asked and exposed are   *)
(* history variables.                                                      *)
(***************************************************************************)
EXTENDS Integers, Sequences

CONSTANTS
  Files,      \* the files there are, each named by its length in units
  PageUnits,  \* the flash page (256 bytes), in units
  NPages,     \* pages from FLASH_Base that the model follows
  MaxChunk,   \* the longest data of a command, in units
  MaxSessions, MaxLost  \* bounds: sessions the host begins, messages lost

ASSUME SizesAssumption ==
  /\ {PageUnits, NPages, MaxChunk} \subseteq Nat \ {0} /\ MaxChunk <= PageUnits
  /\ Files # {} /\ Files \subseteq 1 .. NPages * PageUnits
  /\ {MaxSessions, MaxLost} \subseteq Nat

VARIABLES
  flash,      \* the pages from FLASH_Base
  calFlag,    \* the word at CalAddr is CheckNum
  pc,         \* "boot", "iap" or "app"
  buf,        \* Fast_Program_Buf up to CodeLen
  progPage,   \* Program_addr, in pages from FLASH_Base
  verifyAddr, \* Verify_addr, in units from FLASH_Base
  verifyStar, \* Verify_Star_flag
  errByte,    \* EP2_Tx_Buffer[1] of the USBD link
  phase, file, at, link,   \* host: what it does, with which file, how far, where
  req,        \* the command on its way, or none
  rep,        \* the answer on its way, or none
  sessions, lost,  \* counters of the bounds
  verified,   \* Verify_addr was at FLASH_Base, and no VERIFY came twice
  clean,      \* the session began as after a reset, and lost nothing
  asked,      \* the application asked for the update
  exposed     \* an image that is not whole may be started, see PowerLoss

ramVars  == <<buf, progPage, verifyAddr, verifyStar, errByte>>
romVars  == <<flash, calFlag>>
hostVars == <<phase, file, at, link, sessions>>
histVars == <<verified, clean, asked, exposed>>
vars == <<romVars, pc, ramVars, hostVars, req, rep, lost, histVars>>

Pages  == 0 .. NPages - 1
Erased == <<>>
Junk   == << <<0, 1>> >>
Pad    == <<0, 0>>
Links  == {"usbd", "usbfs", "uart"}
Cmds   == {"erase", "prom", "verify", "end"}
NoReq  == [cmd |-> "none", at |-> 0, n |-> 0]

Unit(f, u) == <<f, u>>
UnitAt(area, u) ==  \* unit u of the area, counted from 0
  LET page == area[u \div PageUnits]
      off  == (u % PageUnits) + 1
  IN  IF u < NPages * PageUnits /\ off \in DOMAIN page THEN page[off] ELSE Pad
Whole(area, f) == \A u \in 1 .. f : UnitAt(area, u - 1) = Unit(f, u)

Holding(f) ==  \* the pages, with file f programmed
  [p \in Pages |->
     IF p * PageUnits >= f THEN Erased
     ELSE [i \in 1 .. PageUnits |->
             IF p * PageUnits + i <= f THEN Unit(f, p * PageUnits + i) ELSE Pad]]

(* The initial values of the boot program's variables. *)
Reset ==
  /\ buf' = <<>> /\ progPage' = 0 /\ verifyAddr' = 0
  /\ verifyStar' = FALSE /\ errByte' = FALSE

(* From the factory, or with an application. *)
Init ==
  /\ \/ flash = [p \in Pages |-> Erased]
     \/ \E f \in Files : flash = Holding(f)
  /\ calFlag = FALSE /\ pc = "boot"
  /\ buf = <<>> /\ progPage = 0 /\ verifyAddr = 0
  /\ verifyStar = FALSE /\ errByte = FALSE
  /\ phase = "idle" /\ file \in Files /\ at = 0 /\ link \in Links
  /\ req = NoReq /\ rep = "none" /\ sessions = 0 /\ lost = 0
  /\ verified = FALSE /\ clean = FALSE /\ asked = FALSE /\ exposed = FALSE
----------------------------------------------------------------------------
(***************************************************************************)
(* The host: erase, the data, the data again to verify, the end.           *)
(***************************************************************************)
Silent == req = NoReq /\ rep = "none"

Begin ==
  /\ pc = "iap" /\ phase = "idle" /\ Silent /\ sessions < MaxSessions
  /\ sessions' = sessions + 1
  /\ file' \in Files /\ link' \in Links /\ at' = 0 /\ phase' = "erase"
  /\ verified' = (verifyAddr = 0)
  /\ clean' = (ramVars = <<<<>>, 0, 0, FALSE, FALSE>>)
  /\ UNCHANGED <<romVars, pc, ramVars, req, rep, lost, asked, exposed>>

(* Sends the command of its phase, or sends it again if nothing came back. *)
Send ==
  /\ phase # "idle" /\ Silent
  /\ \E n \in IF phase \in {"prom", "verify"} THEN 1 .. MaxChunk ELSE {0} :
       /\ at + n <= file
       /\ req' = [cmd |-> phase, at |-> at, n |-> n]
  /\ UNCHANGED <<romVars, pc, ramVars, hostVars, rep, lost, histVars>>

NextPhase == [erase |-> "prom", prom |-> "verify", verify |-> "end", end |-> "idle"]

(* A good answer to the n units that were sent: on, or to the next phase.  *)
Answered ==
  /\ rep # "none"
  /\ rep' = "none" /\ req' = NoReq
  /\ \/ /\ rep = "error" /\ phase' = "idle" /\ UNCHANGED at
     \/ /\ rep = "ok"
        /\ at + req.n < file /\ phase \in {"prom", "verify"}
        /\ at' = at + req.n /\ UNCHANGED phase
     \/ /\ rep = "ok"
        /\ at + req.n = file \/ phase \notin {"prom", "verify"}
        /\ at' = 0 /\ phase' = NextPhase[phase]
  /\ UNCHANGED <<romVars, pc, ramVars, file, link, sessions, lost, histVars>>

GiveUp ==
  /\ phase # "idle" /\ Silent
  /\ phase' = "idle"
  /\ UNCHANGED <<romVars, pc, ramVars, file, at, link, sessions, req, rep, lost, histVars>>

Host == Begin \/ Send \/ Answered \/ GiveUp

(* A frame with a wrong byte is neither obeyed nor answered; or the answer *)
(* is lost, and what was obeyed will be sent again: a VERIFY that comes    *)
(* twice moves Verify_addr twice.                                          *)
Pending == req # NoReq /\ rep = "none"
Lose ==
  /\ lost < MaxLost
  /\ req # NoReq /\ req' = NoReq /\ rep' = "none"
  /\ lost' = lost + 1 /\ clean' = FALSE
  /\ verified' = (verified /\ ~(req.cmd = "verify" /\ rep # "none"))
  /\ UNCHANGED <<romVars, pc, ramVars, hostVars, asked, exposed>>
----------------------------------------------------------------------------
(***************************************************************************)
(* The boot program's main, RecData_Deal and UART_RecData_Deal.            *)
(***************************************************************************)

BootClearsFlag ==
  /\ pc = "boot"
  /\ pc' = IF flash[0] # Erased /\ ~calFlag THEN "app" ELSE "iap"
  /\ Reset /\ calFlag' = FALSE
  /\ UNCHANGED <<flash, hostVars, req, rep, lost, histVars>>
(* The application is started unless there is none or it asked for IAP. *)
Boot ==
  /\ pc = "boot"
  /\ pc' = IF flash[0] # Erased /\ ~calFlag THEN "app" ELSE "iap"
  /\ Reset
  /\ UNCHANGED <<romVars, hostVars, req, rep, lost, histVars>>

(* The USBD link never clears its error byte. *)
Reply(s) ==
  /\ errByte' = (errByte \/ (link = "usbd" /\ s = "error"))
  /\ rep' = IF link = "usbd" /\ errByte' THEN "error" ELSE s

At(cmd) == pc = "iap" /\ Pending /\ req.cmd = cmd

Erase ==
  /\ At("erase")
  /\ Reply("ok")
  /\ UNCHANGED <<romVars, pc, buf, progPage, verifyAddr, verifyStar, hostVars,
                 req, lost, histVars>>

FromReq == [i \in 1 .. req.n |-> Unit(file, req.at + i)]

(* The bytes are appended, wherever the host meant them to be; a full page *)
(* is programmed and the rest kept.                                        *)
RestDropped(s) == <<>>
Rest(s) == SubSeq(s, PageUnits + 1, Len(s))

Prom ==
  /\ At("prom") /\ progPage < NPages
  /\ LET all == buf \o FromReq IN
       \/ /\ Len(all) < PageUnits /\ buf' = all
          /\ UNCHANGED <<flash, progPage>>
       \/ /\ Len(all) >= PageUnits
          /\ flash' = [flash EXCEPT ![progPage] = SubSeq(all, 1, PageUnits)]
          /\ buf' = Rest(all) /\ progPage' = progPage + 1
  /\ Reply("ok")
  /\ UNCHANGED <<calFlag, pc, verifyAddr, verifyStar, hostVars, req, lost, histVars>>

(* The first VERIFY programs the page that was begun, with 0xff after it.  *)
(* Program_addr stays.                                                     *)
Flush == ~verifyStar /\ buf # <<>>
Padded == buf \o [i \in 1 .. PageUnits - Len(buf) |-> Pad]

MatchesLast(area) ==
  UnitAt(area, verifyAddr + req.n - 1) = FromReq[req.n]
Matches(area) ==
  \A i \in 1 .. req.n : UnitAt(area, verifyAddr + i - 1) = FromReq[i]

Verify ==
  /\ At("verify") /\ (Flush => progPage < NPages)
  /\ verifyStar' = TRUE
  /\ flash' = IF Flush THEN [flash EXCEPT ![progPage] = Padded] ELSE flash
  /\ buf' = IF Flush THEN <<>> ELSE buf
  /\ Reply(IF Matches(flash') THEN "ok" ELSE "error")
  /\ verifyAddr' = verifyAddr + req.n
  /\ UNCHANGED <<calFlag, pc, progPage, hostVars, req, lost, histVars>>

(* END is obeyed in any case, and not answered; the main loop jumps. *)
End ==
  /\ At("end")
  /\ verifyStar' = FALSE /\ progPage' = 0 /\ verifyAddr' = 0
  /\ calFlag' = FALSE /\ pc' = "app"
  /\ phase' = "idle" /\ req' = NoReq
  /\ asked' = FALSE /\ exposed' = (exposed \/ ~verified)
  /\ UNCHANGED <<flash, buf, errByte, file, at, link, sessions, rep, lost, verified, clean>>

(* CMD_JUMP_IAP, obeyed by the application, and the reset that follows. *)
JumpIap ==
  /\ pc = "app" /\ \E f \in Files : Whole(flash, f)
  /\ calFlag' = TRUE /\ asked' = TRUE /\ pc' = "boot"
  /\ UNCHANGED <<flash, ramVars, hostVars, req, rep, lost, verified, clean, exposed>>

Device == Boot \/ Erase \/ Prom \/ Verify \/ End \/ JumpIap
----------------------------------------------------------------------------
(***************************************************************************)
(* Power is lost: the page at hand is erased, torn or untouched.  If the   *)
(* application never asked for the update (the first programming, or one   *)
(* ended before), what has been programmed so far will be started.         *)
(***************************************************************************)
AtHand ==
  IF (At("prom") /\ Len(buf) + req.n >= PageUnits) \/ (At("verify") /\ Flush)
  THEN {p \in Pages : p = progPage} ELSE {}

PowerLoss ==
  /\ pc # "boot" /\ lost < MaxLost
  /\ pc' = "boot" /\ lost' = lost + 1
  /\ \/ UNCHANGED romVars
     \/ \E p \in AtHand, c \in {Erased, Junk} :
          flash' = [flash EXCEPT ![p] = c] /\ UNCHANGED calFlag
     \/ At("end") /\ calFlag' = FALSE /\ UNCHANGED flash
  /\ req' = NoReq /\ rep' = "none"
  /\ clean' = FALSE
  /\ exposed' = (exposed \/ (pc = "iap" /\ ~asked /\ flash'[0] # Erased)
                         \/ (At("end") /\ ~verified))
  /\ Reset
  /\ UNCHANGED <<hostVars, verified, asked>>
----------------------------------------------------------------------------
Next == Host \/ Lose \/ Device \/ PowerLoss

Spec == Init /\ [][Next]_vars
----------------------------------------------------------------------------
Contents == Seq(({0} \cup Files) \X (0 .. NPages * PageUnits))

TypeOK ==
  /\ \A p \in Pages : flash[p] \in Contents /\ Len(flash[p]) <= PageUnits
  /\ DOMAIN flash = Pages /\ calFlag \in BOOLEAN
  /\ pc \in {"boot", "iap", "app"}
  /\ buf \in Contents /\ Len(buf) < PageUnits
  /\ progPage \in 0 .. NPages /\ verifyAddr \in Nat
  /\ {verifyStar, errByte, verified, clean, asked, exposed} \subseteq BOOLEAN
  /\ phase \in Cmds \cup {"idle"} /\ file \in Files /\ at \in 0 .. file - 1
  /\ link \in Links
  /\ req \in [cmd : Cmds \cup {"none"}, at : Nat, n : 0 .. MaxChunk]
  /\ rep \in {"none", "ok", "error"}
  /\ sessions \in 0 .. MaxSessions /\ lost \in 0 .. MaxLost

(***************************************************************************)
(* When the host was told that all of its file was verified and sends END, *)
(* the file stands at FLASH_Base: whatever commands and answers were lost  *)
(* and sent again, whatever an earlier session had left half programmed    *)
(* and whatever resets came between (iap.c:53-108).  The exceptions are a  *)
(* session that finds Verify_addr where an abandoned one has left it, and  *)
(* a VERIFY obeyed twice: the address a VERIFY carries is not looked at.   *)
(***************************************************************************)
VerifiedIsInstalled == (phase = "end" /\ verified) => Whole(flash, file)

(***************************************************************************)
(* A session that begins as after a reset, and loses no message, gets no   *)
(* error, however the file is cut into commands and whatever part of a     *)
(* page its end is (iap.c:52-96).                                          *)
(***************************************************************************)
CleanSessionSucceeds == clean => rep # "error"

(***************************************************************************)
(* Only a whole image is started, wherever power is lost, if the update    *)
(* was asked for by the application: CheckNum keeps the boot program in    *)
(* charge until END (Main.c:72-83, iap.c:98-108).                          *)
(***************************************************************************)
StartsWholeImage == (pc = "app" /\ ~exposed) => \E f \in Files : Whole(flash, f)
=============================================================================
