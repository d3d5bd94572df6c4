---------------------------- MODULE UsbIapProofs ----------------------------
(***************************************************************************)
(* Theorems about UsbIap for every set of files, every size of the pages   *)
(* and the commands, and any number of sessions and losses.                *)
(***************************************************************************)
EXTENDS UsbIap, SequenceTheorems, TLAPS

(* The first k units of the file stand at FLASH_Base. *)
Holds(k) == \A u \in 1 .. k : UnitAt(flash, u - 1) = Unit(file, u)

(* What the host has been told, or is being told. *)
Reach == IF rep = "ok" THEN at + req.n ELSE at

(***************************************************************************)
(* The inductive invariant.  Channel is the protocol; Compared is what     *)
(* VERIFY has established, with Verify_addr where the host believes it or  *)
(* back at FLASH_Base after a reset; Startable is what the boot program    *)
(* may find; Programmed is how far a clean session has got.                *)
(***************************************************************************)
Channel ==
  /\ req # NoReq => /\ req.cmd = phase /\ req.at = at /\ at + req.n <= file
                    /\ phase \in {"prom", "verify"} => req.n > 0
  /\ rep # "none" => req # NoReq /\ phase \notin {"end", "idle"} /\ pc = "iap"

Compared ==
  verified =>
    /\ phase \in {"erase", "prom"} => verifyAddr = 0
    /\ phase = "verify" =>
         /\ Holds(Reach)
         /\ Reach > 0 => verifyStar \/ buf = <<>>
         /\ rep = "none" => verifyAddr = at \/ verifyAddr = 0
         /\ rep = "ok" => verifyAddr = at + req.n
    /\ phase = "end" => Whole(flash, file)

Image == \E f \in Files : Whole(flash, f)
Startable ==
  ~exposed =>
    /\ pc = "app" => Image
    /\ pc = "boot" /\ ~calFlag => flash[0] = Erased \/ Image
    /\ pc = "iap" /\ asked => calFlag
    /\ pc = "boot" /\ asked => calFlag \/ Image

(* The first k units are programmed, up to the page that was begun. *)
Stored(k) ==
  /\ progPage * PageUnits + Len(buf) = k
  /\ Holds(progPage * PageUnits)
  /\ \A i \in 1 .. Len(buf) : buf[i] = Unit(file, progPage * PageUnits + i)

Programmed ==
  clean =>
    /\ ~errByte /\ rep # "error"
    /\ phase # "idle" => pc = "iap"
    /\ phase \in {"erase", "prom"} => verifyAddr = 0 /\ ~verifyStar
    /\ phase = "erase" => progPage = 0 /\ buf = <<>>
    /\ phase = "prom" => Stored(Reach)
    /\ phase = "verify" => /\ verifyAddr = Reach
                           /\ IF verifyStar THEN Whole(flash, file) ELSE Stored(file)

(* TypeOK in two parts, that each take a prover of their own. *)
Booleans ==
  /\ calFlag \in BOOLEAN /\ verifyStar \in BOOLEAN /\ errByte \in BOOLEAN
  /\ verified \in BOOLEAN /\ clean \in BOOLEAN /\ asked \in BOOLEAN /\ exposed \in BOOLEAN
Others ==
  /\ \A p \in Pages : flash[p] \in Contents /\ Len(flash[p]) <= PageUnits
  /\ DOMAIN flash = Pages
  /\ pc \in {"boot", "iap", "app"}
  /\ buf \in Contents /\ Len(buf) < PageUnits
  /\ progPage \in 0 .. NPages /\ verifyAddr \in Nat
  /\ phase \in Cmds \cup {"idle"} /\ file \in Files /\ at \in 0 .. file - 1
  /\ link \in Links
  /\ req \in [cmd : Cmds \cup {"none"}, at : Nat, n : 0 .. MaxChunk]
  /\ rep \in {"none", "ok", "error"}
  /\ sessions \in 0 .. MaxSessions /\ lost \in 0 .. MaxLost

LEMMA TypeParts == TypeOK <=> Booleans /\ Others
<1>1. TypeOK => Booleans
  BY Zenon DEF TypeOK, Booleans
<1>2. TypeOK => Others
  BY DEF TypeOK, Others
<1>3. Booleans => /\ {verifyStar, errByte, verified, clean, asked, exposed} \subseteq BOOLEAN
                  /\ calFlag \in BOOLEAN
  BY Zenon DEF Booleans
<1>4. /\ Others /\ calFlag \in BOOLEAN
      /\ {verifyStar, errByte, verified, clean, asked, exposed} \subseteq BOOLEAN
      => TypeOK
  BY Zenon DEF TypeOK, Others
<1>. QED  BY <1>1, <1>2, <1>3, <1>4

IInv == TypeOK /\ Channel /\ Compared /\ Startable /\ Programmed
----------------------------------------------------------------------------
(***************************************************************************)
(* Sizes, pages and units.                                                 *)
(***************************************************************************)
LEMMA Sizes ==
  /\ PageUnits \in Nat /\ PageUnits > 0 /\ NPages \in Nat /\ NPages > 0
  /\ MaxChunk \in Nat /\ 0 < MaxChunk /\ MaxChunk <= PageUnits
  /\ MaxSessions \in Nat /\ MaxLost \in Nat
  /\ NPages * PageUnits \in Nat /\ NPages * PageUnits > 0
<1>1. /\ PageUnits \in Nat /\ PageUnits > 0 /\ NPages \in Nat /\ NPages > 0
      /\ MaxChunk \in Nat /\ 0 < MaxChunk /\ MaxChunk <= PageUnits
      /\ MaxSessions \in Nat /\ MaxLost \in Nat
  BY SizesAssumption
<1>2. PICK k \in Nat : NPages = k + 1
  BY <1>1, NPages - 1 \in Nat, NPages = (NPages - 1) + 1
<1>3. (k + 1) * PageUnits = k * PageUnits + PageUnits /\ k * PageUnits \in Nat
  BY <1>1
<1>. QED  BY <1>1, <1>2, <1>3

LEMMA FileSize ==
  ASSUME NEW f \in Files
  PROVE  f \in Nat /\ 0 < f /\ f <= NPages * PageUnits
<1>1. f \in 1 .. NPages * PageUnits
  BY SizesAssumption, Zenon
<1>. QED  BY <1>1, Sizes

LEMMA PageMono ==
  ASSUME NEW p \in Nat, NEW q \in Nat, p < q
  PROVE  p * PageUnits + PageUnits <= q * PageUnits /\ p * PageUnits \in Nat
         /\ (p + 1) * PageUnits = p * PageUnits + PageUnits
<1>1. PICK d \in Nat : q = p + 1 + d
  BY q - p - 1 \in Nat, q = p + 1 + (q - p - 1)
<1>2. q * PageUnits = p * PageUnits + PageUnits + d * PageUnits /\ d * PageUnits \in Nat
      /\ p * PageUnits \in Nat
  BY <1>1, Sizes
<1>3. (p + 1) * PageUnits = p * PageUnits + PageUnits
  BY Sizes
<1>. QED  BY <1>2, <1>3, Sizes

(* Where unit u is kept. *)
LEMMA Place ==
  ASSUME NEW u \in Nat, u < NPages * PageUnits
  PROVE  \E p \in Pages, r \in 0 .. PageUnits - 1 :
           /\ p = u \div PageUnits /\ r = u % PageUnits
           /\ u = p * PageUnits + r /\ p * PageUnits \in Nat
<1>1. /\ u \div PageUnits \in Nat /\ u % PageUnits \in 0 .. PageUnits - 1
      /\ u = PageUnits * (u \div PageUnits) + (u % PageUnits)
  BY Sizes
<1>2. PICK p \in Nat : p = u \div PageUnits
  BY <1>1
<1>3. PICK r \in 0 .. PageUnits - 1 : r = u % PageUnits
  BY <1>1
<1>4. u = PageUnits * p + r
  BY <1>1, <1>2, <1>3
<1>5. PageUnits * p = p * PageUnits /\ p * PageUnits \in Nat
  BY Sizes
<1>6. p < NPages
  <2>1. CASE NPages < p
    BY <1>4, <1>5, <2>1, PageMono, Sizes
  <2>2. CASE NPages = p
    BY <1>4, <1>5, <2>2, Sizes
  <2>. QED  BY <2>1, <2>2, Sizes
<1>7. p \in Pages
  BY <1>6, Sizes DEF Pages
<1>. QED  BY <1>2, <1>3, <1>4, <1>5, <1>7

LEMMA UnitsDiffer ==
  ASSUME NEW f, NEW u \in Nat, NEW v \in Nat, u # v
  PROVE  Unit(f, u) # Unit(f, v)
BY DEF Unit

(* An image has a first page. *)
LEMMA ImageHasFirst == Image => flash[0] # Erased
<1>. SUFFICES ASSUME NEW f \in Files, Whole(flash, f), flash[0] = Erased PROVE FALSE
  BY DEF Image
<1>1. 1 \in 1 .. f /\ 0 < NPages * PageUnits
  BY FileSize, Sizes
<1>2. UnitAt(flash, 0) = <<f, 1>>
  BY <1>1 DEF Whole, Unit
<1>3. 0 \div PageUnits = 0 /\ 0 % PageUnits = 0
  BY Sizes
<1>4. UnitAt(flash, 0) = Pad
  <2>1. 1 \notin DOMAIN flash[0]
    BY DEF Erased
  <2>. QED  BY <1>3, <2>1 DEF UnitAt
<1>. QED  BY <1>2, <1>4 DEF Pad

LEMMA HoldsIsWhole == Holds(file) <=> Whole(flash, file)
BY DEF Holds, Whole
----------------------------------------------------------------------------
(***************************************************************************)
(* What the pages, the buffer and a command hold.                          *)
(***************************************************************************)
Units == ({0} \cup Files) \X (0 .. NPages * PageUnits)

LEMMA ContentsAre ==
  /\ Contents = Seq(Units)
  /\ Pad \in Units
  /\ \A f \in Files, u \in 0 .. NPages * PageUnits : Unit(f, u) \in Units
  /\ Erased \in Contents /\ Len(Erased) = 0
  /\ Junk \in Contents /\ Len(Junk) = 1
<1>1. Pad \in Units
  BY Sizes DEF Pad, Units
<1>2. <<0, 1>> \in Units
  BY Sizes DEF Units
<1>3. \A f \in Files, u \in 0 .. NPages * PageUnits : Unit(f, u) \in Units
  BY DEF Unit, Units
<1>4. Contents = Seq(Units)
  BY DEF Contents, Units
<1>5. Junk \in Seq(Units) /\ Len(Junk) = 1
  BY <1>2 DEF Junk
<1>6. Erased \in Seq(Units) /\ Len(Erased) = 0
  BY DEF Erased
<1>. QED  BY <1>1, <1>3, <1>4, <1>5, <1>6

LEMMA FactoryPages ==
  ASSUME NEW f \in Files, NEW p \in Pages
  PROVE  Holding(f)[p] \in Contents /\ Len(Holding(f)[p]) <= PageUnits
<1>1. Holding(f)[p] = IF p * PageUnits >= f THEN Erased
        ELSE [i \in 1 .. PageUnits |->
               IF p * PageUnits + i <= f THEN Unit(f, p * PageUnits + i) ELSE Pad]
  BY DEF Holding
<1>2. PICK m \in Nat : m = p * PageUnits
  BY Sizes DEF Pages
<1>3. CASE m >= f
  BY <1>1, <1>2, <1>3, ContentsAre, Sizes
<1>4. CASE m < f
  <2>1. \A i \in 1 .. PageUnits : (IF m + i <= f THEN Unit(f, m + i) ELSE Pad) \in Units
    <3>. SUFFICES ASSUME NEW i \in 1 .. PageUnits, m + i <= f PROVE Unit(f, m + i) \in Units
      BY ContentsAre
    <3>1. m + i \in 0 .. NPages * PageUnits
      BY FileSize, Sizes
    <3>. QED  BY <3>1, ContentsAre
  <2>2. [i \in 1 .. PageUnits |-> IF m + i <= f THEN Unit(f, m + i) ELSE Pad] \in Seq(Units)
    BY <2>1, Sizes
  <2>3. Len([i \in 1 .. PageUnits |-> IF m + i <= f THEN Unit(f, m + i) ELSE Pad]) = PageUnits
    BY <2>1, Sizes
  <2>4. Holding(f)[p] = [i \in 1 .. PageUnits |-> IF m + i <= f THEN Unit(f, m + i) ELSE Pad]
    BY <1>1, <1>2, <1>4, FileSize
  <2>. QED  BY <2>2, <2>3, <2>4, ContentsAre, Sizes
<1>. QED  BY <1>2, <1>3, <1>4, FileSize

(* The data of a command, and what it makes with what was begun. *)
LEMMA Command ==
  ASSUME Others, Channel, req # NoReq
  PROVE  /\ req.n \in Nat /\ req.n <= MaxChunk /\ req.at = at /\ at + req.n <= file
         /\ FromReq \in Contents /\ Len(FromReq) = req.n
         /\ \A i \in 1 .. req.n : FromReq[i] = Unit(file, at + i)
         /\ buf \o FromReq \in Contents /\ Len(buf \o FromReq) = Len(buf) + req.n
<1>1. req.n \in Nat /\ req.n <= MaxChunk /\ req.at = at /\ at + req.n <= file
  BY Sizes DEF Others, Channel
<1>2. \A i \in 1 .. req.n : Unit(file, req.at + i) \in Units
  <2>. SUFFICES ASSUME NEW i \in 1 .. req.n PROVE Unit(file, req.at + i) \in Units
    OBVIOUS
  <2>1. file \in Files /\ at \in Nat
    BY FileSize DEF Others
  <2>2. req.at + i \in 0 .. NPages * PageUnits
    BY <1>1, <2>1, FileSize, Sizes
  <2>. QED  BY <2>1, <2>2, ContentsAre
<1>3. FromReq \in Seq(Units) /\ Len(FromReq) = req.n
  BY <1>1, <1>2 DEF FromReq
<1>4. \A i \in 1 .. req.n : FromReq[i] = Unit(file, at + i)
  BY <1>1 DEF FromReq
<1>5. buf \in Seq(Units)
  BY ContentsAre DEF Others
<1>6. buf \o FromReq \in Seq(Units) /\ Len(buf \o FromReq) = Len(buf) + req.n
  BY <1>3, <1>5
<1>. QED  BY <1>1, <1>3, <1>4, <1>6, ContentsAre

LEMMA Cut ==
  ASSUME NEW s \in Contents, Len(s) >= PageUnits
  PROVE  /\ SubSeq(s, 1, PageUnits) \in Contents /\ Len(SubSeq(s, 1, PageUnits)) = PageUnits
         /\ \A i \in 1 .. PageUnits : SubSeq(s, 1, PageUnits)[i] = s[i]
         /\ Rest(s) \in Contents /\ Len(Rest(s)) = Len(s) - PageUnits
         /\ \A i \in 1 .. Len(s) - PageUnits : Rest(s)[i] = s[PageUnits + i]
<1>1. s \in Seq(Units) /\ Len(s) \in Nat
  BY ContentsAre
<1>2. /\ SubSeq(s, 1, PageUnits) \in Seq(Units) /\ Len(SubSeq(s, 1, PageUnits)) = PageUnits
      /\ \A i \in 1 .. PageUnits : SubSeq(s, 1, PageUnits)[i] = s[i]
  BY <1>1, Sizes, SubSeqProperties
<1>3. /\ Rest(s) \in Seq(Units) /\ Len(Rest(s)) = Len(s) - PageUnits
      /\ \A i \in 1 .. Len(s) - PageUnits : Rest(s)[i] = s[PageUnits + i]
  BY <1>1, Sizes, SubSeqProperties DEF Rest
<1>. QED  BY <1>2, <1>3, ContentsAre

LEMMA PaddedPage ==
  ASSUME Others
  PROVE  /\ Padded \in Contents /\ Len(Padded) = PageUnits
         /\ \A i \in 1 .. Len(buf) : Padded[i] = buf[i]
<1>1. buf \in Seq(Units) /\ Len(buf) \in Nat /\ PageUnits - Len(buf) \in Nat
  BY ContentsAre, Sizes DEF Others
<1>2. /\ [i \in 1 .. PageUnits - Len(buf) |-> Pad] \in Seq(Units)
      /\ Len([i \in 1 .. PageUnits - Len(buf) |-> Pad]) = PageUnits - Len(buf)
  BY <1>1, ContentsAre
<1>. QED  BY <1>1, <1>2, ContentsAre, Sizes DEF Padded
----------------------------------------------------------------------------
LEMMA InvInit == Init => IInv
<1>. SUFFICES ASSUME Init PROVE IInv
  OBVIOUS
<1>1. Booleans
  BY Zenon DEF Init, Booleans
<1>2. Others
  <2>1. /\ \A p \in Pages : flash[p] \in Contents /\ Len(flash[p]) <= PageUnits
        /\ DOMAIN flash = Pages
    <3>1. CASE flash = [p \in Pages |-> Erased]
      BY <3>1, ContentsAre, Sizes
    <3>2. CASE \E f \in Files : flash = Holding(f)
      BY <3>2, FactoryPages DEF Holding
    <3>. QED  BY <3>1, <3>2 DEF Init
  <2>2. buf \in Contents /\ Len(buf) < PageUnits
    BY ContentsAre, Sizes DEF Init, Erased
  <2>3. req \in [cmd : Cmds \cup {"none"}, at : Nat, n : 0 .. MaxChunk]
    BY Sizes DEF Init, NoReq
  <2>4. at \in 0 .. file - 1
    BY FileSize DEF Init
  <2>. QED  BY <2>1, <2>2, <2>3, <2>4, Sizes DEF Init, Others
<1>3. Channel /\ Compared /\ Programmed
  BY DEF Init, Channel, Compared, Programmed
<1>4. Startable
  <2>1. CASE flash = [p \in Pages |-> Erased]
    <3>1. 0 \in Pages
      BY Sizes DEF Pages
    <3>. QED  BY <2>1, <3>1 DEF Init, Startable
  <2>2. ASSUME NEW f \in Files, flash = Holding(f) PROVE Image
    <3>. SUFFICES ASSUME NEW u \in 1 .. f PROVE UnitAt(flash, u - 1) = Unit(f, u)
      BY DEF Image, Whole
    <3>1. u - 1 \in Nat /\ u - 1 < NPages * PageUnits /\ u <= f
      BY FileSize, Sizes
    <3>2. PICK p \in Pages, r \in 0 .. PageUnits - 1 :
            /\ p = (u - 1) \div PageUnits /\ r = (u - 1) % PageUnits
            /\ u - 1 = p * PageUnits + r /\ p * PageUnits \in Nat
      BY <3>1, Place
    <3>3. PICK m \in Nat : m = p * PageUnits
      BY <3>2
    <3>4. u = m + (r + 1) /\ m < f /\ r + 1 \in 1 .. PageUnits
      BY <3>1, <3>2, <3>3, Sizes, FileSize
    <3>5. flash[p] = [i \in 1 .. PageUnits |->
                       IF m + i <= f THEN Unit(f, m + i) ELSE Pad]
      BY <2>2, <3>3, <3>4, FileSize DEF Holding
    <3>6. r + 1 \in DOMAIN flash[p] /\ flash[p][r + 1] = Unit(f, u)
      BY <3>1, <3>4, <3>5
    <3>. QED  BY <3>1, <3>2, <3>6 DEF UnitAt
  <2>. QED  BY <2>1, <2>2 DEF Init, Startable
<1>. QED  BY <1>1, <1>2, <1>3, <1>4, TypeParts DEF IInv
----------------------------------------------------------------------------
(***************************************************************************)
(* Types.                                                                  *)
(***************************************************************************)
LEMMA BooleansStep == Booleans /\ [Next]_vars => Booleans'
<1>. SUFFICES ASSUME Booleans, [Next]_vars PROVE Booleans'
  OBVIOUS
<1>. USE DEF Booleans
<1>1. CASE Begin
  <2>1. verified' \in BOOLEAN /\ clean' \in BOOLEAN
    BY <1>1 DEF Begin
  <2>. QED  BY <1>1, <2>1, Zenon DEF Begin, romVars, ramVars
<1>2. CASE Send \/ Answered \/ GiveUp
  BY <1>2, Zenon DEF Send, Answered, GiveUp, romVars, ramVars, histVars
<1>3. CASE Lose
  <2>1. verified' \in BOOLEAN
    BY <1>3 DEF Lose
  <2>. QED  BY <1>3, <2>1, Zenon DEF Lose, romVars, ramVars
<1>4. CASE Boot
  BY <1>4, Zenon DEF Boot, Reset, romVars, histVars
<1>5. CASE Erase \/ Prom \/ Verify
  <2>1. errByte' \in BOOLEAN
    BY <1>5 DEF Erase, Prom, Verify, Reply
  <2>. QED  BY <1>5, <2>1, Zenon DEF Erase, Prom, Verify, romVars, histVars
<1>6. CASE End
  <2>1. exposed' \in BOOLEAN
    BY <1>6 DEF End
  <2>. QED  BY <1>6, <2>1, Zenon DEF End
<1>7. CASE JumpIap
  BY <1>7, Zenon DEF JumpIap, ramVars
<1>8. CASE PowerLoss
  <2>1. exposed' \in BOOLEAN
    BY <1>8 DEF PowerLoss
  <2>2. calFlag' \in BOOLEAN
    BY <1>8, Zenon DEF PowerLoss, romVars
  <2>. QED  BY <1>8, <2>1, <2>2, Zenon DEF PowerLoss, Reset
<1>9. CASE UNCHANGED vars
  BY <1>9, Zenon DEF vars, romVars, ramVars, histVars
<1>. QED  BY <1>1, <1>2, <1>3, <1>4, <1>5, <1>6, <1>7, <1>8, <1>9, Zenon DEF Next, Host, Device

LEMMA OthersStep == Others /\ Channel /\ [Next]_vars => Others'
<1>. SUFFICES ASSUME Others, Channel, [Next]_vars PROVE Others'
  OBVIOUS
<1>. USE Sizes
<1>a. <<>> \in Contents /\ Len(<<>>) = 0
  BY ContentsAre DEF Erased
<1>b. NoReq \in [cmd : Cmds \cup {"none"}, at : Nat, n : 0 .. MaxChunk]
  BY DEF NoReq
<1>c. ASSUME NEW p \in Pages, NEW c \in Contents, Len(c) <= PageUnits,
             flash' = [flash EXCEPT ![p] = c]
      PROVE  /\ \A q \in Pages : flash'[q] \in Contents /\ Len(flash'[q]) <= PageUnits
             /\ DOMAIN flash' = Pages
  BY <1>c DEF Others
<1>d. ASSUME UNCHANGED flash
      PROVE  /\ \A q \in Pages : flash'[q] \in Contents /\ Len(flash'[q]) <= PageUnits
             /\ DOMAIN flash' = Pages
  BY <1>d DEF Others
<1>1. CASE Begin
  <2>1. at' \in 0 .. file' - 1
    BY <1>1, FileSize DEF Begin
  <2>. QED  BY <1>1, <2>1 DEF Begin, Others, romVars, ramVars, Cmds
<1>2. CASE Send
  <2>1. req' \in [cmd : Cmds \cup {"none"}, at : Nat, n : 0 .. MaxChunk]
    BY <1>2, FileSize DEF Send, Others, Cmds
  <2>. QED  BY <1>2, <2>1 DEF Send, Others, romVars, ramVars, hostVars
<1>3. CASE Answered
  <2>1. at' \in 0 .. file - 1 /\ phase' \in Cmds \cup {"idle"}
    <3>1. file \in Nat /\ 0 < file /\ at \in Nat /\ req.n \in Nat
      BY FileSize DEF Others
    <3>2. phase \in Cmds
      BY <1>3 DEF Answered, Channel, Others
    <3>3. NextPhase[phase] \in Cmds \cup {"idle"}
      BY <3>2 DEF NextPhase, Cmds
    <3>4. at' \in 0 .. file - 1
      BY <1>3, <3>1 DEF Answered, Others
    <3>. QED  BY <1>3, <3>2, <3>3, <3>4 DEF Answered
  <2>. QED  BY <1>3, <1>b, <2>1 DEF Answered, Others, romVars, ramVars
<1>4. CASE GiveUp
  BY <1>4 DEF GiveUp, Others, romVars, ramVars
<1>5. CASE Lose
  BY <1>5, <1>b DEF Lose, Others, romVars, ramVars, hostVars
<1>6. CASE Boot
  BY <1>6, <1>a DEF Boot, Reset, Others, romVars, hostVars
<1>7. CASE Erase
  BY <1>7 DEF Erase, Reply, Others, romVars, hostVars
<1>8. CASE Prom
  <2>1. progPage \in Pages /\ req # NoReq
    BY <1>8 DEF Prom, At, Pending, Others, Pages
  <2>2. /\ buf \o FromReq \in Contents /\ Len(buf \o FromReq) < 2 * PageUnits
        /\ Len(buf \o FromReq) \in Nat
    BY <2>1, Command DEF Others
  <2>3. /\ buf' \in Contents /\ Len(buf') < PageUnits /\ progPage' \in 0 .. NPages
        /\ \A q \in Pages : flash'[q] \in Contents /\ Len(flash'[q]) <= PageUnits
        /\ DOMAIN flash' = Pages
    <3>1. CASE Len(buf \o FromReq) < PageUnits
      <4>1. UNCHANGED <<flash, progPage>> /\ buf' = buf \o FromReq
        BY <1>8, <2>2, <3>1 DEF Prom
      <4>2. progPage \in 0 .. NPages
        BY DEF Others
      <4>. QED  BY <1>d, <2>2, <3>1, <4>1, <4>2
    <3>2. CASE Len(buf \o FromReq) >= PageUnits
      <4>1. /\ flash' = [flash EXCEPT ![progPage] = SubSeq(buf \o FromReq, 1, PageUnits)]
            /\ buf' = Rest(buf \o FromReq) /\ progPage' = progPage + 1
        BY <1>8, <2>2, <3>2 DEF Prom
      <4>2. /\ SubSeq(buf \o FromReq, 1, PageUnits) \in Contents
            /\ Len(SubSeq(buf \o FromReq, 1, PageUnits)) = PageUnits
            /\ Rest(buf \o FromReq) \in Contents
            /\ Len(Rest(buf \o FromReq)) = Len(buf \o FromReq) - PageUnits
        BY <2>2, <3>2, Cut
      <4>3. Len(SubSeq(buf \o FromReq, 1, PageUnits)) <= PageUnits
        BY <4>2
      <4>4. /\ \A q \in Pages : flash'[q] \in Contents /\ Len(flash'[q]) <= PageUnits
            /\ DOMAIN flash' = Pages
        BY <1>c, <2>1, <4>1, <4>2, <4>3, Zenon
      <4>. QED  BY <2>1, <2>2, <4>1, <4>2, <4>4 DEF Pages
    <3>. QED  BY <2>2, <3>1, <3>2
  <2>. QED  BY <1>8, <2>3 DEF Prom, Reply, Others, hostVars
<1>9. CASE Verify
  <2>1. /\ buf' \in Contents /\ Len(buf') < PageUnits
        /\ \A q \in Pages : flash'[q] \in Contents /\ Len(flash'[q]) <= PageUnits
        /\ DOMAIN flash' = Pages
    <3>1. CASE Flush
      <4>1. progPage \in Pages
        BY <1>9, <3>1 DEF Verify, Others, Pages
      <4>2. flash' = [flash EXCEPT ![progPage] = Padded] /\ buf' = <<>>
        BY <1>9, <3>1 DEF Verify
      <4>3. Padded \in Contents /\ Len(Padded) <= PageUnits
        BY PaddedPage
      <4>4. /\ \A q \in Pages : flash'[q] \in Contents /\ Len(flash'[q]) <= PageUnits
            /\ DOMAIN flash' = Pages
        BY <1>c, <4>1, <4>2, <4>3, Zenon
      <4>. QED  BY <1>a, <4>2, <4>4
    <3>2. CASE ~Flush
      BY <1>9, <1>d, <3>2 DEF Verify, Others
    <3>. QED  BY <3>1, <3>2
  <2>2. verifyAddr' \in Nat
    BY <1>9, Command DEF Verify, At, Pending, Others
  <2>. QED  BY <1>9, <2>1, <2>2 DEF Verify, Reply, Others, hostVars
<1>10. CASE End
  BY <1>10, <1>b DEF End, Others
<1>11. CASE JumpIap
  BY <1>11 DEF JumpIap, Others, ramVars, hostVars
<1>12. CASE PowerLoss
  <2>1. /\ \A q \in Pages : flash'[q] \in Contents /\ Len(flash'[q]) <= PageUnits
        /\ DOMAIN flash' = Pages
    <3>1. CASE UNCHANGED flash
      BY <1>d, <3>1
    <3>2. ASSUME NEW p \in AtHand, NEW c \in {Erased, Junk}, flash' = [flash EXCEPT ![p] = c]
          PROVE  /\ \A q \in Pages : flash'[q] \in Contents /\ Len(flash'[q]) <= PageUnits
                 /\ DOMAIN flash' = Pages
      <4>1. p \in Pages
        BY DEF AtHand
      <4>2. Len(Erased) <= PageUnits /\ Len(Junk) <= PageUnits
        BY ContentsAre
      <4>3. c \in Contents /\ Len(c) <= PageUnits
        BY <3>2, <4>2, ContentsAre, Zenon
      <4>. QED  BY <1>c, <3>2, <4>1, <4>3, Zenon
    <3>. QED  BY <1>12, <3>1, <3>2 DEF PowerLoss, romVars
  <2>. QED  BY <1>12, <1>a, <1>b, <2>1 DEF PowerLoss, Reset, Others, hostVars
<1>13. CASE UNCHANGED vars
  BY <1>13 DEF vars, Others, romVars, ramVars, hostVars
<1>. QED  BY <1>1, <1>2, <1>3, <1>4, <1>5, <1>6, <1>7, <1>8, <1>9, <1>10, <1>11, <1>12, <1>13
          DEF Next, Host, Device

LEMMA ChannelStep == Others /\ Channel /\ [Next]_vars => Channel'
<1>. SUFFICES ASSUME Others, Channel, [Next]_vars PROVE Channel'
  OBVIOUS
<1>. USE DEF Channel
<1>1. CASE Begin
  BY <1>1 DEF Begin, Silent
<1>2. CASE Send
  BY <1>2 DEF Send, Silent, hostVars
<1>3. CASE Answered \/ GiveUp \/ Lose
  BY <1>3 DEF Answered, GiveUp, Lose, Silent, hostVars
<1>4. CASE Boot \/ JumpIap
  BY <1>4 DEF Boot, JumpIap, hostVars
<1>5. CASE Erase \/ Prom \/ Verify
  <2>1. /\ req # NoReq /\ phase \in {"erase", "prom", "verify"} /\ pc = "iap"
        /\ UNCHANGED <<req, pc, hostVars>>
    BY <1>5 DEF Erase, Prom, Verify, At, Pending, Others
  <2>. QED  BY <2>1 DEF hostVars
<1>6. CASE End
  BY <1>6 DEF End, At, Pending
<1>7. CASE PowerLoss
  BY <1>7 DEF PowerLoss
<1>8. CASE UNCHANGED vars
  BY <1>8 DEF vars, hostVars
<1>. QED  BY <1>1, <1>2, <1>3, <1>4, <1>5, <1>6, <1>7, <1>8 DEF Next, Host, Device
----------------------------------------------------------------------------
(***************************************************************************)
(* What VERIFY has established.                                            *)
(***************************************************************************)
LEMMA ReachType == Others => Reach \in Nat /\ (rep = "none" => Reach = at) /\ at \in Nat
<1>. SUFFICES ASSUME Others PROVE Reach \in Nat /\ (rep = "none" => Reach = at) /\ at \in Nat
  OBVIOUS
<1>1. at \in Nat /\ req.n \in Nat
  BY FileSize, Sizes DEF Others
<1>. QED  BY <1>1 DEF Reach

LEMMA VerifyCompares ==
  ASSUME Others, Channel, Compared, verified, Verify
  PROVE  /\ Holds(Reach)'
         /\ rep' = "ok" => verifyAddr' = at + req.n
<1>1. /\ phase = "verify" /\ rep = "none" /\ req # NoReq /\ Reach = at /\ at \in Nat
      /\ UNCHANGED <<req, at, file>>
  BY ReachType DEF Verify, At, Pending, Channel, hostVars
<1>2. /\ Holds(at) /\ (at > 0 => ~Flush) /\ (verifyAddr = at \/ verifyAddr = 0)
  BY <1>1 DEF Compared, Flush
<1>3. at > 0 => flash' = flash
  BY <1>2 DEF Verify
<1>4. Holds(at)'
  <2>1. CASE at = 0
    BY <1>1, <2>1 DEF Holds
  <2>2. CASE at > 0
    BY <1>1, <1>2, <1>3, <2>2 DEF Holds
  <2>. QED  BY <1>1, <2>1, <2>2
<1>5. CASE rep' # "ok"
  BY <1>1, <1>4, <1>5 DEF Reach
<1>6. CASE rep' = "ok"
  <2>1. Matches(flash')
    BY <1>6 DEF Verify, Reply
  <2>2. \A i \in 1 .. req.n : UnitAt(flash', verifyAddr + i - 1) = Unit(file, at + i)
    BY <1>1, <2>1, Command DEF Matches
  <2>3. req.n \in Nat /\ req.n > 0
    BY <1>1, Command DEF Channel
  <2>4. verifyAddr = at
    <3>1. SUFFICES ASSUME at > 0, verifyAddr = 0 PROVE FALSE
      BY <1>1, <1>2
    <3>2. UnitAt(flash', 0) = Unit(file, at + 1)
      BY <2>2, <2>3, <3>1
    <3>3. UnitAt(flash, 0) = Unit(file, 1)
      BY <1>1, <1>2, <3>1 DEF Holds
    <3>. QED  BY <1>1, <1>3, <3>1, <3>2, <3>3, UnitsDiffer
  <2>5. ASSUME NEW u \in 1 .. at + req.n PROVE UnitAt(flash', u - 1) = Unit(file, u)
    <3>1. CASE u <= at
      BY <1>1, <1>4, <3>1 DEF Holds
    <3>2. CASE u > at
      <4>1. u - at \in 1 .. req.n /\ verifyAddr + (u - at) - 1 = u - 1 /\ at + (u - at) = u
        BY <1>1, <2>3, <2>4, <3>2
      <4>2. UnitAt(flash', verifyAddr + (u - at) - 1) = Unit(file, at + (u - at))
        BY <2>2, <4>1
      <4>. QED  BY <4>1, <4>2
    <3>. QED  BY <1>1, <2>3, <3>1, <3>2
  <2>6. Reach' = at + req.n
    BY <1>1, <1>6 DEF Reach
  <2>7. Holds(Reach)'
    BY <1>1, <2>5, <2>6 DEF Holds
  <2>8. verifyAddr' = at + req.n
    BY <2>4 DEF Verify
  <2>. QED  BY <2>7, <2>8
<1>. QED  BY <1>5, <1>6

LEMMA ComparedStep == Others /\ Channel /\ Compared /\ [Next]_vars => Compared'
<1>. SUFFICES ASSUME Others, Channel, Compared, [Next]_vars PROVE Compared'
  OBVIOUS
<1>k. ASSUME UNCHANGED <<flash, verifyAddr, verifyStar, buf, file, at, phase, rep>>,
             rep = "ok" => UNCHANGED req, verified' => verified
      PROVE  Compared'
  BY <1>k DEF Compared, Reach, Holds, Whole
<1>1. CASE Begin
  BY <1>1 DEF Begin, Compared, ramVars
<1>2. CASE Send
  BY <1>2, <1>k DEF Send, Silent, romVars, ramVars, hostVars, histVars
<1>3. CASE Answered
  <2>1. /\ UNCHANGED <<flash, verifyAddr, verifyStar, buf, file, verified>>
        /\ rep # "none" /\ rep' = "none" /\ phase \in Cmds \ {"end"}
    BY <1>3 DEF Answered, romVars, ramVars, histVars, Channel, Others
  <2>2. CASE rep = "error"
    BY <1>3, <2>1, <2>2 DEF Answered, Compared
  <2>3. CASE rep = "ok" /\ at' = at + req.n /\ phase' = phase
    <3>1. Reach = at + req.n /\ Reach' = at'
      BY <2>1, <2>3 DEF Reach
    <3>. QED  BY <2>1, <2>3, <3>1 DEF Compared, Holds, Cmds
  <2>4. CASE rep = "ok" /\ at' = 0 /\ phase' = NextPhase[phase] /\ phase \in {"erase", "prom"}
    <3>1. Reach' = 0 /\ phase' \in {"prom", "verify"}
      BY <2>1, <2>4 DEF Reach, NextPhase
    <3>2. Holds(Reach)'
      BY <3>1 DEF Holds
    <3>. QED  BY <2>1, <2>4, <3>1, <3>2 DEF Compared
  <2>5. CASE rep = "ok" /\ phase = "verify" /\ phase' = "end" /\ at + req.n = file
    <3>1. Reach = file
      BY <2>5 DEF Reach
    <3>2. verified => Whole(flash, file)
      BY <2>5, <3>1, HoldsIsWhole DEF Compared
    <3>. QED  BY <2>1, <2>5, <3>2 DEF Compared, Whole
  <2>6. phase = "verify" => NextPhase[phase] = "end"
    BY DEF NextPhase
  <2>. QED  BY <1>3, <2>1, <2>2, <2>3, <2>4, <2>5, <2>6 DEF Answered, Cmds
<1>4. CASE GiveUp
  BY <1>4 DEF GiveUp, Compared
<1>5. CASE Lose
  <2>1. /\ UNCHANGED <<flash, verifyAddr, verifyStar, buf, file, at, phase>> /\ rep' = "none"
        /\ verified' = (verified /\ ~(req.cmd = "verify" /\ rep # "none")) /\ req.cmd = phase
    BY <1>5 DEF Lose, romVars, ramVars, hostVars, Channel
  <2>2. CASE phase = "verify"
    <3>1. SUFFICES ASSUME verified' PROVE Compared'
      BY DEF Compared
    <3>2. verified /\ rep = "none"
      BY <2>1, <2>2, <3>1
    <3>. QED  BY <1>k, <2>1, <3>2
  <2>3. CASE phase # "verify"
    BY <2>1, <2>3 DEF Compared, Whole
  <2>. QED  BY <2>2, <2>3
<1>6. CASE Boot
  <2>1. /\ UNCHANGED <<flash, file, at, phase, req, rep, verified>> /\ rep = "none"
        /\ buf' = <<>> /\ verifyAddr' = 0
    BY <1>6 DEF Boot, Reset, romVars, hostVars, histVars, Channel
  <2>. QED  BY <2>1 DEF Compared, Reach, Holds, Whole
<1>7. CASE Erase \/ Prom
  BY <1>7 DEF Erase, Prom, At, Pending, Compared, Channel, hostVars, histVars
<1>8. CASE Verify
  <2>1. SUFFICES ASSUME verified' PROVE Compared'
    BY DEF Compared
  <2>2. verified /\ phase' = "verify" /\ verifyStar' /\ rep' # "none" /\ UNCHANGED <<at, req>>
    BY <1>8, <2>1 DEF Verify, Reply, At, Pending, Channel, hostVars, histVars
  <2>. QED  BY <1>8, <2>2, VerifyCompares DEF Compared
<1>9. CASE End
  BY <1>9 DEF End, Compared
<1>10. CASE JumpIap
  BY <1>10, <1>k DEF JumpIap, ramVars, hostVars
<1>11. CASE PowerLoss
  <2>1. SUFFICES ASSUME verified' PROVE Compared'
    BY DEF Compared
  <2>2. /\ verified /\ rep' = "none" /\ buf' = <<>> /\ verifyAddr' = 0
        /\ UNCHANGED <<file, at, phase>>
    BY <1>11, <2>1 DEF PowerLoss, Reset, hostVars
  <2>3. phase \in {"verify", "end"} => flash' = flash \/ (phase = "verify" /\ Flush /\ rep = "none")
    BY <1>11 DEF PowerLoss, romVars, AtHand, At, Pending, Channel
  <2>4. CASE phase = "verify"
    <3>1. Reach' = at /\ at \in Nat /\ Reach \in Nat
      BY <2>2, ReachType DEF Reach
    <3>2. Holds(Reach) /\ at <= Reach
      BY <2>2, <2>4, ReachType DEF Compared, Reach, Others
    <3>3. at = 0 \/ flash' = flash
      BY <2>2, <2>3, <2>4, <3>1, ReachType DEF Compared, Flush
    <3>4. Holds(Reach)'
      BY <2>2, <3>1, <3>2, <3>3 DEF Holds
    <3>. QED  BY <2>2, <2>4, <3>4 DEF Compared
  <2>5. CASE phase # "verify"
    BY <2>2, <2>3, <2>5 DEF Compared, Whole
  <2>. QED  BY <2>4, <2>5
<1>12. CASE UNCHANGED vars
  BY <1>12, <1>k DEF vars, romVars, ramVars, hostVars, histVars
<1>. QED  BY <1>1, <1>2, <1>3, <1>4, <1>5, <1>6, <1>7, <1>8, <1>9, <1>10, <1>11, <1>12
          DEF Next, Host, Device
----------------------------------------------------------------------------
(***************************************************************************)
(* What the boot program may find.                                         *)
(***************************************************************************)
LEMMA StartableStep ==
  Others /\ Channel /\ Compared /\ Startable /\ [Next]_vars => Startable'
<1>. SUFFICES ASSUME Others, Channel, Compared, Startable, [Next]_vars, ~exposed'
              PROVE  Startable'
  BY DEF Startable
<1>i. UNCHANGED flash => (Image' <=> Image)
  BY DEF Image, Whole
<1>k. ASSUME UNCHANGED <<flash, calFlag, pc, asked, exposed>> PROVE Startable'
  BY <1>k, <1>i DEF Startable
<1>1. CASE Host
  BY <1>1, <1>k DEF Host, Begin, Send, Answered, GiveUp, romVars, histVars
<1>2. CASE Lose \/ Erase
  BY <1>2, <1>k DEF Lose, Erase, romVars, histVars
<1>3. CASE Boot
  BY <1>3, <1>i, ImageHasFirst DEF Boot, romVars, histVars, Startable
<1>4. CASE Prom \/ Verify
  BY <1>4 DEF Prom, Verify, At, histVars, Startable
<1>5. CASE End
  <2>1. verified /\ phase = "end"
    BY <1>5 DEF End, At, Pending, Channel
  <2>2. Image
    BY <2>1 DEF Compared, Image, Others
  <2>. QED  BY <1>5, <1>i, <2>2 DEF End, Startable
<1>6. CASE JumpIap
  BY <1>6 DEF JumpIap, Startable
<1>7. CASE PowerLoss
  <2>1. /\ pc # "boot" /\ pc' = "boot" /\ ~exposed /\ asked' = asked
        /\ pc = "iap" /\ ~asked => flash'[0] = Erased
        /\ At("end") => verified
    BY <1>7 DEF PowerLoss
  <2>2. CASE pc = "app"
    <3>1. flash' = flash
      BY <1>7, <2>2 DEF PowerLoss, romVars, AtHand, At
    <3>. QED  BY <1>i, <2>1, <2>2, <3>1 DEF Startable
  <2>3. CASE pc = "iap" /\ At("end")
    <3>1. verified /\ phase = "end" /\ flash' = flash
      BY <1>7, <2>1, <2>3 DEF PowerLoss, romVars, AtHand, At, Pending, Channel
    <3>2. Image
      BY <3>1 DEF Compared, Image, Others
    <3>. QED  BY <1>i, <2>1, <3>1, <3>2 DEF Startable
  <2>4. CASE pc = "iap" /\ ~At("end")
    <3>1. calFlag' = calFlag
      BY <1>7, <2>4 DEF PowerLoss, romVars
    <3>. QED  BY <2>1, <2>4, <3>1 DEF Startable
  <2>. QED  BY <2>1, <2>2, <2>3, <2>4 DEF Others
<1>8. CASE UNCHANGED vars
  BY <1>8, <1>k DEF vars, romVars, histVars
<1>. QED  BY <1>1, <1>2, <1>3, <1>4, <1>5, <1>6, <1>7, <1>8 DEF Next, Device
----------------------------------------------------------------------------
(***************************************************************************)
(* How far a clean session has got.                                        *)
(***************************************************************************)
(* The page that was begun is programmed with c, which begins with n units *)
(* of the file.                                                            *)
LEMMA WrittenPage ==
  ASSUME Others, progPage \in Pages, Holds(progPage * PageUnits),
         NEW c \in Contents, Len(c) = PageUnits, NEW n \in 0 .. PageUnits,
         \A i \in 1 .. n : c[i] = Unit(file, progPage * PageUnits + i)
  PROVE  \A u \in 1 .. progPage * PageUnits + n :
           UnitAt([flash EXCEPT ![progPage] = c], u - 1) = Unit(file, u)
<1>1. PICK p \in Pages : p = progPage
  OBVIOUS
<1>2. PICK m \in Nat : m = p * PageUnits
  BY Sizes DEF Pages
<1>3. m + PageUnits <= NPages * PageUnits
  BY <1>2, PageMono, Sizes DEF Pages
<1>. SUFFICES ASSUME NEW u \in 1 .. m + n
              PROVE  UnitAt([flash EXCEPT ![p] = c], u - 1) = Unit(file, u)
  BY <1>1, <1>2
<1>4. u \in Nat /\ u - 1 \in Nat /\ u - 1 < m + n /\ u - 1 < NPages * PageUnits
  BY <1>3, Sizes
<1>5. PICK q \in Pages, r \in 0 .. PageUnits - 1 :
        /\ q = (u - 1) \div PageUnits /\ r = (u - 1) % PageUnits
        /\ u - 1 = q * PageUnits + r /\ q * PageUnits \in Nat
  BY <1>4, Place
<1>6. DOMAIN flash = Pages
  BY DEF Others
<1>7. ASSUME NEW area
      PROVE  UnitAt(area, u - 1) = IF r + 1 \in DOMAIN area[q] THEN area[q][r + 1] ELSE Pad
  BY <1>4, <1>5 DEF UnitAt
<1>8. CASE q = p
  <2>1. u = m + (r + 1) /\ r + 1 \in 1 .. n
    BY <1>2, <1>4, <1>5, <1>8, Sizes
  <2>2. DOMAIN c = 1 .. PageUnits
    BY ContentsAre
  <2>3. r + 1 \in DOMAIN c
    BY <2>2, Sizes
  <2>4. c[r + 1] = Unit(file, m + (r + 1))
    BY <1>1, <1>2, <2>1
  <2>5. [flash EXCEPT ![p] = c][q] = c
    BY <1>6, <1>8
  <2>. QED  BY <1>7, <2>1, <2>3, <2>4, <2>5, Zenon
<1>9. CASE q < p
  <2>1. u <= m
    BY <1>2, <1>4, <1>5, <1>9, PageMono, Sizes DEF Pages
  <2>2. UnitAt(flash, u - 1) = Unit(file, u)
    BY <1>1, <1>2, <2>1 DEF Holds
  <2>3. q # p
    BY <1>9 DEF Pages
  <2>4. [flash EXCEPT ![p] = c][q] = flash[q]
    BY <1>6, <2>3
  <2>. QED  BY <1>7, <2>2, <2>4, Zenon
<1>10. CASE p < q
  BY <1>2, <1>4, <1>5, <1>10, PageMono, Sizes DEF Pages
<1>. QED  BY <1>8, <1>9, <1>10, Sizes DEF Pages

LEMMA PromStores ==
  ASSUME Others, Channel, Prom, Stored(at)
  PROVE  /\ progPage' * PageUnits + Len(buf') = at + req.n
         /\ Holds(progPage * PageUnits)'
         /\ \A i \in 1 .. Len(buf') : buf'[i] = Unit(file, progPage' * PageUnits + i)
<1>1. req # NoReq /\ progPage \in Pages /\ file' = file /\ progPage \in Nat /\ at \in Nat
  BY ReachType, Sizes DEF Prom, At, Pending, Others, Pages, hostVars
<1>2. PICK m \in Nat : m = progPage * PageUnits
  BY <1>1, Sizes
<1>3. /\ (progPage + 1) * PageUnits = m + PageUnits
      /\ m + Len(buf) = at /\ Len(buf) \in Nat /\ buf \in Seq(Units)
      /\ \A i \in 1 .. Len(buf) : buf[i] = Unit(file, m + i)
  BY <1>1, <1>2, Sizes, ContentsAre DEF Stored, Others
<1>4. PICK all \in Contents : all = buf \o FromReq
  BY <1>1, Command
<1>5. /\ Len(all) = Len(buf) + req.n /\ req.n \in Nat /\ Len(all) \in Nat
      /\ FromReq \in Seq(Units) /\ Len(FromReq) = req.n
      /\ \A i \in 1 .. req.n : FromReq[i] = Unit(file, at + i)
  BY <1>1, <1>3, <1>4, Command, ContentsAre
<1>6. ASSUME NEW i \in 1 .. Len(all) PROVE all[i] = Unit(file, m + i)
  <2>1. CASE i <= Len(buf)
    <3>1. all[i] = buf[i]
      BY <1>3, <1>4, <1>5, <2>1
    <3>. QED  BY <1>3, <2>1, <3>1
  <2>2. CASE i > Len(buf)
    <3>1. all[i] = FromReq[i - Len(buf)]
      BY <1>3, <1>4, <1>5, <2>2
    <3>2. i - Len(buf) \in 1 .. req.n /\ at + (i - Len(buf)) = m + i
      <4>1. /\ i \in Nat /\ 0 < i /\ i <= Len(buf) + req.n /\ Len(buf) < i
            /\ Len(buf) \in Nat /\ req.n \in Nat /\ m + Len(buf) = at
        BY <1>3, <1>5, <2>2
      <4>. QED  BY <4>1
    <3>. QED  BY <1>5, <3>1, <3>2
  <2>. QED  BY <1>3, <1>5, <2>1, <2>2
<1>7. CASE Len(all) < PageUnits
  <2>1. UNCHANGED <<flash, progPage>> /\ buf' = all
    BY <1>4, <1>5, <1>7, Sizes DEF Prom
  <2>2. Holds(progPage * PageUnits)'
    BY <1>1, <2>1 DEF Stored, Holds
  <2>. QED  BY <1>2, <1>3, <1>5, <1>6, <2>1, <2>2
<1>8. CASE Len(all) >= PageUnits
  <2>1. /\ flash' = [flash EXCEPT ![progPage] = SubSeq(all, 1, PageUnits)]
        /\ buf' = Rest(all) /\ progPage' = progPage + 1
    BY <1>4, <1>5, <1>8, Sizes DEF Prom
  <2>2. /\ SubSeq(all, 1, PageUnits) \in Contents /\ Len(SubSeq(all, 1, PageUnits)) = PageUnits
        /\ \A i \in 1 .. PageUnits : SubSeq(all, 1, PageUnits)[i] = all[i]
        /\ Len(Rest(all)) = Len(all) - PageUnits
        /\ \A i \in 1 .. Len(all) - PageUnits : Rest(all)[i] = all[PageUnits + i]
    BY <1>8, Cut
  <2>3. \A i \in 1 .. PageUnits : SubSeq(all, 1, PageUnits)[i] = Unit(file, progPage * PageUnits + i)
    <3>. SUFFICES ASSUME NEW i \in 1 .. PageUnits PROVE all[i] = Unit(file, m + i)
      BY <1>2, <2>2
    <3>1. i \in 1 .. Len(all)
      BY <1>5, <1>8, Sizes
    <3>. QED  BY <1>6, <3>1
  <2>4. \A u \in 1 .. progPage * PageUnits + PageUnits : UnitAt(flash', u - 1) = Unit(file, u)
    <3>1. PageUnits \in 0 .. PageUnits /\ Holds(progPage * PageUnits)
      BY Sizes DEF Stored
    <3>2. \A u \in 1 .. progPage * PageUnits + PageUnits :
            UnitAt([flash EXCEPT ![progPage] = SubSeq(all, 1, PageUnits)], u - 1) = Unit(file, u)
      BY <1>1, <2>2, <2>3, <3>1, WrittenPage
    <3>. QED  BY <2>1, <3>2
  <2>5. Holds(progPage * PageUnits)'
    BY <1>1, <1>2, <1>3, <2>1, <2>4 DEF Holds
  <2>6. ASSUME NEW i \in 1 .. Len(buf') PROVE buf'[i] = Unit(file, progPage' * PageUnits + i)
    <3>1. /\ i \in 1 .. Len(all) - PageUnits /\ PageUnits + i \in 1 .. Len(all)
          /\ m + (PageUnits + i) = (m + PageUnits) + i
      BY <1>5, <1>8, <2>1, <2>2, Sizes
    <3>2. buf'[i] = all[PageUnits + i]
      BY <2>1, <2>2, <3>1
    <3>. QED  BY <1>3, <1>6, <2>1, <3>1, <3>2
  <2>7. progPage' * PageUnits + Len(buf') = at + req.n
    <3>1. progPage' * PageUnits = m + PageUnits /\ Len(buf') = Len(all) - PageUnits
      BY <1>3, <2>1, <2>2, Zenon
    <3>2. Len(all) = Len(buf) + req.n /\ m + Len(buf) = at
      BY <1>3, <1>5
    <3>3. {Len(buf), req.n, PageUnits, at, Len(all)} \subseteq Nat
      BY <1>1, <1>3, <1>5, Sizes
    <3>. QED  BY <3>1, <3>2, <3>3
  <2>. QED  BY <2>5, <2>6, <2>7
<1>9. Len(all) < PageUnits \/ Len(all) >= PageUnits
  BY <1>5, Sizes
<1>. QED  BY <1>7, <1>8, <1>9, Zenon

LEMMA VerifyAgrees ==
  ASSUME Others, Channel, Verify, verifyAddr = at,
         IF verifyStar THEN Whole(flash, file) ELSE Stored(file)
  PROVE  Whole(flash, file)' /\ Matches(flash')
<1>1. req # NoReq /\ file' = file /\ file \in Nat
  BY FileSize DEF Verify, At, Pending, Others, hostVars
<1>2. Whole(flash', file)
  <2>1. CASE verifyStar
    BY <2>1 DEF Verify, Flush
  <2>2. CASE ~verifyStar /\ buf = <<>>
    <3>1. progPage * PageUnits \in Nat
      BY Sizes DEF Others
    <3>2. progPage * PageUnits = file
      BY <2>2, <3>1 DEF Stored
    <3>. QED  BY <2>2, <3>2, HoldsIsWhole DEF Verify, Flush, Stored
  <2>3. CASE ~verifyStar /\ buf # <<>>
    <3>1. /\ progPage \in Pages /\ flash' = [flash EXCEPT ![progPage] = Padded]
          /\ Len(buf) \in 0 .. PageUnits
      BY <2>3, ContentsAre, Sizes DEF Verify, Flush, Others, Pages
    <3>2. /\ Padded \in Contents /\ Len(Padded) = PageUnits
          /\ \A i \in 1 .. Len(buf) : Padded[i] = Unit(file, progPage * PageUnits + i)
      BY <2>3, PaddedPage DEF Stored
    <3>3. Holds(progPage * PageUnits) /\ progPage * PageUnits + Len(buf) = file
      BY <2>3 DEF Stored
    <3>4. \A u \in 1 .. progPage * PageUnits + Len(buf) :
            UnitAt([flash EXCEPT ![progPage] = Padded], u - 1) = Unit(file, u)
      BY <3>1, <3>2, <3>3, WrittenPage
    <3>. QED  BY <3>1, <3>3, <3>4 DEF Whole
  <2>. QED  BY <2>1, <2>2, <2>3
<1>3. Matches(flash')
  <2>. SUFFICES ASSUME NEW i \in 1 .. req.n
                PROVE  UnitAt(flash', verifyAddr + i - 1) = FromReq[i]
    BY DEF Matches
  <2>1. at + i \in 1 .. file /\ FromReq[i] = Unit(file, at + i)
    BY <1>1, Command, ReachType
  <2>2. UnitAt(flash', (at + i) - 1) = Unit(file, at + i)
    BY <1>2, <2>1 DEF Whole
  <2>3. verifyAddr + i - 1 = (at + i) - 1
    BY ReachType DEF Others
  <2>. QED  BY <2>1, <2>2, <2>3
<1>. QED  BY <1>1, <1>2, <1>3 DEF Whole

LEMMA ProgrammedStep ==
  Others /\ Channel /\ Programmed /\ [Next]_vars => Programmed'
<1>. SUFFICES ASSUME Others, Channel, Programmed, [Next]_vars, clean'
              PROVE  Programmed'
  BY DEF Programmed
<1>k. ASSUME UNCHANGED <<flash, pc, ramVars, file, at, phase, rep, clean>>,
             rep = "ok" => UNCHANGED req
      PROVE  Programmed'
  BY <1>k DEF Programmed, Reach, Stored, Holds, Whole, ramVars
<1>1. CASE Begin
  <2>1. /\ pc' = "iap" /\ phase' = "erase" /\ rep' = "none"
        /\ buf' = <<>> /\ progPage' = 0 /\ verifyAddr' = 0
        /\ ramVars = <<<<>>, 0, 0, FALSE, FALSE>> /\ ramVars' = ramVars
    BY <1>1 DEF Begin, Silent, ramVars
  <2>2. ~verifyStar' /\ ~errByte'
    BY <2>1 DEF ramVars
  <2>. QED  BY <2>1, <2>2 DEF Programmed
<1>2. CASE Send
  BY <1>2, <1>k DEF Send, Silent, romVars, hostVars, histVars
<1>3. CASE Answered
  <2>1. /\ UNCHANGED <<flash, pc, buf, progPage, verifyAddr, verifyStar, errByte, file, clean>>
        /\ rep = "ok" /\ rep' = "none" /\ phase \in Cmds \ {"end"} /\ clean
    BY <1>3 DEF Answered, romVars, ramVars, histVars, Channel, Others, Programmed
  <2>2. /\ ~errByte /\ pc = "iap" /\ Reach = at + req.n
        /\ phase' \in Cmds
    BY <1>3, <2>1 DEF Programmed, Cmds, Reach, Answered, NextPhase
  <2>3. CASE at' = at + req.n /\ phase' = phase /\ phase \in {"prom", "verify"}
    <3>1. Reach' = Reach
      BY <2>1, <2>2, <2>3 DEF Reach
    <3>. QED  BY <2>1, <2>2, <2>3, <3>1 DEF Programmed, Stored, Holds, Whole
  <2>4. CASE at' = 0 /\ phase = "erase" /\ phase' = "prom"
    <3>1. Reach' = 0
      BY <2>1, <2>4 DEF Reach
    <3>2. progPage = 0 /\ buf = <<>> /\ verifyAddr = 0 /\ ~verifyStar /\ 0 * PageUnits = 0
      BY <2>1, <2>4, Sizes DEF Programmed
    <3>3. Stored(Reach)'
      BY <2>1, <3>1, <3>2 DEF Stored, Holds
    <3>. QED  BY <2>1, <2>2, <2>4, <3>2, <3>3 DEF Programmed
  <2>5. CASE at' = 0 /\ phase = "prom" /\ phase' = "verify" /\ at + req.n = file
    <3>1. Reach' = 0 /\ Reach = file
      BY <2>1, <2>2, <2>5 DEF Reach
    <3>2. Stored(file) /\ verifyAddr = 0 /\ ~verifyStar
      BY <2>1, <2>5, <3>1 DEF Programmed
    <3>. QED  BY <2>1, <2>2, <2>5, <3>1, <3>2 DEF Programmed, Stored, Holds
  <2>6. CASE phase = "verify" /\ phase' = "end"
    BY <2>1, <2>2, <2>6 DEF Programmed
  <2>. QED  BY <1>3, <2>1, <2>3, <2>4, <2>5, <2>6 DEF Answered, NextPhase, Cmds
<1>4. CASE GiveUp
  BY <1>4 DEF GiveUp, Programmed, ramVars, histVars
<1>5. CASE Lose \/ PowerLoss
  BY <1>5 DEF Lose, PowerLoss
<1>6. CASE Boot
  BY <1>6 DEF Boot, Reset, Programmed, hostVars, histVars
<1>7. CASE Erase \/ Prom \/ Verify
  <2>1. /\ clean /\ req # NoReq /\ rep = "none" /\ req.cmd = phase /\ pc = "iap"
        /\ phase \in {"erase", "prom", "verify"} /\ Reach = at
        /\ UNCHANGED <<pc, phase, at, file, req>>
    BY <1>7 DEF Erase, Prom, Verify, At, Pending, Channel, Reach, hostVars, histVars
  <2>2. ~errByte
    BY <2>1 DEF Programmed
  <2>3. CASE Erase
    <3>1. phase = "erase" /\ UNCHANGED <<buf, progPage, verifyAddr, verifyStar>>
      BY <2>1, <2>3 DEF Erase, At
    <3>2. ~errByte' /\ rep' = "ok"
      BY <2>2, <2>3 DEF Erase, Reply
    <3>. QED  BY <2>1, <3>1, <3>2 DEF Programmed
  <2>4. CASE Prom
    <3>1. phase = "prom" /\ UNCHANGED <<verifyAddr, verifyStar>>
      BY <2>1, <2>4 DEF Prom, At
    <3>2. ~errByte' /\ rep' = "ok"
      BY <2>2, <2>4 DEF Prom, Reply
    <3>3. Stored(at)
      BY <2>1, <3>1 DEF Programmed
    <3>4. Reach' = at + req.n
      BY <2>1, <3>2 DEF Reach
    <3>5. Stored(Reach)'
      BY <2>1, <2>4, <3>3, <3>4, PromStores DEF Stored
    <3>. QED  BY <2>1, <3>1, <3>2, <3>5 DEF Programmed
  <2>5. CASE Verify
    <3>1. phase = "verify" /\ verifyStar' /\ verifyAddr' = verifyAddr + req.n
      BY <2>1, <2>5 DEF Verify, At
    <3>2. verifyAddr = at /\ (IF verifyStar THEN Whole(flash, file) ELSE Stored(file))
      BY <2>1, <3>1 DEF Programmed
    <3>3. Whole(flash, file)' /\ Matches(flash')
      BY <2>5, <3>2, VerifyAgrees
    <3>4. ~errByte' /\ rep' = "ok"
      BY <2>2, <2>5, <3>3 DEF Verify, Reply
    <3>5. Reach' = at + req.n
      BY <2>1, <3>4 DEF Reach
    <3>. QED  BY <2>1, <3>1, <3>2, <3>3, <3>4, <3>5 DEF Programmed
  <2>. QED  BY <1>7, <2>3, <2>4, <2>5
<1>8. CASE End
  BY <1>8 DEF End, Programmed
<1>9. CASE JumpIap
  BY <1>9 DEF JumpIap, Programmed, ramVars, hostVars
<1>10. CASE UNCHANGED vars
  BY <1>10, <1>k DEF vars, romVars, hostVars, histVars
<1>. QED  BY <1>1, <1>2, <1>3, <1>4, <1>5, <1>6, <1>7, <1>8, <1>9, <1>10
          DEF Next, Host, Device
----------------------------------------------------------------------------
LEMMA InvStep == IInv /\ [Next]_vars => IInv'
<1>. SUFFICES ASSUME IInv, [Next]_vars PROVE IInv'
  OBVIOUS
<1>1. Booleans /\ Others /\ Channel /\ Compared /\ Startable /\ Programmed
  BY TypeParts DEF IInv
<1>2. Booleans' /\ Others'
  BY <1>1, BooleansStep, OthersStep
<1>3. TypeOK'
  BY <1>2, TypeParts, PTL
<1>4. Channel' /\ Compared' /\ Startable' /\ Programmed'
  BY <1>1, ChannelStep, ComparedStep, StartableStep, ProgrammedStep
<1>. QED  BY <1>3, <1>4 DEF IInv

LEMMA Inductive == Spec => []IInv
BY InvInit, InvStep, PTL DEF Spec

(***************************************************************************)
(* The state keeps its types: Fast_Program_Buf never holds a whole page    *)
(* between two commands, and no page more than there is room for           *)
(* (iap.c:52-62).                                                          *)
(***************************************************************************)
THEOREM TypeCorrect == Spec => []TypeOK
<1>1. IInv => TypeOK
  BY DEF IInv
<1>. QED  BY <1>1, Inductive, PTL

(***************************************************************************)
(* When the host was told that its whole file was verified and sends END,  *)
(* the file stands at FLASH_Base, whatever was lost, sent again or reset   *)
(* (iap.c:53-108).                                                         *)
(***************************************************************************)
THEOREM VerifyIsSound == Spec => []VerifiedIsInstalled
<1>1. IInv => VerifiedIsInstalled
  BY DEF IInv, Compared, VerifiedIsInstalled
<1>. QED  BY <1>1, Inductive, PTL

(***************************************************************************)
(* A session that begins as after a reset and loses no message gets no     *)
(* error, for every file and every way to cut it (iap.c:52-96).            *)
(***************************************************************************)
THEOREM CleanSessionsSucceed == Spec => []CleanSessionSucceeds
<1>1. IInv => CleanSessionSucceeds
  BY DEF IInv, Programmed, CleanSessionSucceeds
<1>. QED  BY <1>1, Inductive, PTL

(***************************************************************************)
(* Only a whole image is started, wherever power is lost, if the update    *)
(* was asked for by the application (Main.c:72-83, iap.c:98-108).          *)
(***************************************************************************)
THEOREM OnlyWholeImages == Spec => []StartsWholeImage
<1>1. IInv => StartsWholeImage
  BY DEF IInv, Startable, Image, StartsWholeImage
<1>. QED  BY <1>1, Inductive, PTL
============================================================================
