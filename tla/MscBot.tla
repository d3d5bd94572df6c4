------------------------------- MODULE MscBot -------------------------------
(***************************************************************************)
(* The USB disk (MSC_U-Disk, internal flash): the bulk-only transport of   *)
(* SW_UDISK.c over endpoints 2 IN and 3 OUT.  All of the program is the    *)
(* USBFS interrupt.  The controller answers NAK while one waits, so each   *)
(* transaction and its handler are one step, and the handlers are          *)
(* functions on the state of the device.                                   *)
(*                                                                         *)
(* The host follows the bulk-only protocol.  A handshake may be lost in    *)
(* either direction of data; the host may give up and recover at any time, *)
(* and the bus may be reset at any time.  A pack of a sector is named by   *)
(* its version, its sector and its place, whatever it is stored as.        *)
(***************************************************************************)
EXTENDS Integers, FiniteSets

CONSTANTS
  Sectors,    \* Udisk_Capability
  Packs,      \* 8, DEF_UDISK_SECTOR_SIZE / UDISK_Pack_Size
  Versions,   \* what a host may write to a sector, besides its first version 0
  MaxFaults   \* model bound: lost handshakes, aborts and bus resets

ASSUME DiskAssumption ==
  /\ Sectors \in Nat \ {0} /\ Packs \in Nat \ {0}
  /\ Versions \subseteq Nat \ {0} /\ IsFiniteSet(Versions)
  /\ MaxFaults \in Nat

VARIABLES
  dev,      \* the device: its variables, endpoints and disk
  phase,    \* where the host stands
  cmd,      \* the host's command
  done,     \* packs of its data the host has sent or got
  hostOut,  \* the toggle of the host's next packet
  hostIn,   \* the toggle the host expects
  clean,    \* the command began on a device that was ready for it
  faults,   \* how many of them there have been
  kept      \* the version the host may rely on, of each sector, or Unsure

diskVars == <<dev, phase, cmd, done, hostOut, hostIn, clean, faults, kept>>

Unsure        == -1
SectorIds     == 0 .. Sectors - 1
Pack(v, s, i) == <<"data", v, s, i>>
None          == <<"none">>
Sector(v, s)  == [i \in 0 .. Packs - 1 |-> Pack(v, s, i)]

(* A command block: one without data is of direction "none". *)
Block(op, dir, lba, n, ver) ==
  [op |-> op, dir |-> dir, lba |-> lba, n |-> n, ver |-> ver]
Commands ==
  {Block("read", "in", r[1], r[2], 0) :
     r \in {r \in SectorIds \X (1 .. Sectors) : r[1] + r[2] <= Sectors}}
  \cup {Block("write", "out", r[1], r[2], r[3]) :
     r \in {r \in SectorIds \X (1 .. Sectors) \X Versions : r[1] + r[2] <= Sectors}}
  \cup {Block(op, "in", 0, 0, 0) : op \in {"info", "mode", "page", "unknown"}}
  \cup {Block(op, "none", 0, 0, 0) : op \in {"ready", "mode", "page", "unknown", "garbled"}}
  \cup {Block("unknown", "out", 0, 0, 0)}

(* The packs of mCBW_DataLen. *)
Length(c) == IF c.op \in {"read", "write"} THEN c.n * Packs
             ELSE IF c.dir = "none" THEN 0 ELSE 1
----------------------------------------------------------------------------
(***************************************************************************)
(* The endpoints.                                                          *)
(***************************************************************************)
DataUp(d, p) ==
  IF d.busy THEN d ELSE [d EXCEPT !.busy = TRUE, !.res = "ack", !.packet = p]

EndpInit(d) == [d EXCEPT !.res = "nak", !.tog = 0, !.packet = None, !.busy = FALSE,
                         !.rxRes = "ack", !.rxTog = 0]

(***************************************************************************)
(* Uploads.  The flags are those of Udisk_Transfer_Status.                 *)
(***************************************************************************)
UpCsw(d) == DataUp([d EXCEPT !.flags = {}], <<"csw", d.tag, d.status>>)

BulkUp(d) ==
  LET last == d.len <= 1 IN
  DataUp([d EXCEPT !.len = IF last THEN 0 ELSE @ - 1,
                   !.flags = IF last THEN @ \ {"up"} ELSE @],
         IF d.len = 0 THEN <<"zlp">> ELSE <<"info">>)

UpOnePackLong(d) ==
  LET full == d.count + 1 = Packs IN
  DataUp([d EXCEPT !.count = IF full THEN 0 ELSE @ + 1, !.lba = IF full THEN @ + 1 ELSE @,
                   !.len = @ - 1],
         IF d.lba \in SectorIds THEN d.disk[d.lba][d.count] ELSE <<"zlp">>)
UpOnePackEarly(d) ==
  LET full == d.count + 1 = Packs IN
  DataUp([d EXCEPT !.count = IF full THEN 0 ELSE @ + 1, !.lba = IF full THEN @ + 1 ELSE @,
                   !.len = @ - 1, !.flags = IF full THEN @ \ {"up"} ELSE @],
         d.disk[d.lba][d.count])
UpOnePack(d) ==
  LET full == d.count + 1 = Packs IN
  DataUp([d EXCEPT !.count = IF full THEN 0 ELSE @ + 1, !.lba = IF full THEN @ + 1 ELSE @,
                   !.len = @ - 1, !.flags = IF d.len = 1 THEN @ \ {"up"} ELSE @],
         d.disk[d.lba][d.count])

UpData(d) == IF d.isRead THEN UpOnePack(d) ELSE BulkUp(d)

InEpDeal(d) ==
  CASE "up" \in d.flags -> UpData(d)
    [] "up" \notin d.flags /\ "csw" \in d.flags -> UpCsw(d)
    [] d.flags \cap {"up", "csw"} = {} -> d

(***************************************************************************)
(* Downloads: a sector is programmed when its last pack has come.          *)
(***************************************************************************)
DownOnePackSame(d, p) ==
  LET full == d.count + 1 = Packs
      buf  == [d.buf EXCEPT ![d.count] = p]
      next == [d EXCEPT !.buf = buf, !.count = IF full THEN 0 ELSE @ + 1, !.len = @ - 1,
                        !.disk = IF full THEN [@ EXCEPT ![d.lba] = buf] ELSE @]
  IN  IF full /\ d.len = 1 THEN UpCsw(next) ELSE next
DownOnePack(d, p) ==
  LET full == d.count + 1 = Packs
      buf  == [d.buf EXCEPT ![d.count] = p]
      next == [d EXCEPT !.buf = buf, !.count = IF full THEN 0 ELSE @ + 1, !.len = @ - 1,
                        !.disk = IF full THEN [@ EXCEPT ![d.lba] = buf] ELSE @,
                        !.lba = IF full THEN @ + 1 ELSE @]
  IN  IF full /\ d.len = 1 THEN UpCsw(next) ELSE next

(***************************************************************************)
(* Commands.  A failed one stalls the endpoint of its data.                *)
(***************************************************************************)
Fail(d) ==
  [d EXCEPT !.res = IF "up" \in d.flags THEN "stall" ELSE @,
            !.packet = IF "up" \in d.flags THEN None ELSE @,
            !.rxRes = IF "down" \in d.flags THEN "stall" ELSE @,
            !.flags = @ \ {"up", "down"}]

RdWrPre(d, c) ==
  [d EXCEPT !.lba = c.lba, !.len = c.n * Packs, !.count = 0, !.status = 0]

ScsiCmdDeal(d, c) ==
  LET ofData == CASE c.dir = "in" -> {"up"} [] c.dir = "out" -> {"down"} [] OTHER -> {}
      e == [d EXCEPT !.tag = c.tag, !.isRead = (c.op = "read"), !.len = Length(c),
                     !.flags = @ \cup ofData \cup {"csw"}]
  IN  CASE c.op \in {"read", "write"} -> RdWrPre(e, c)
        [] c.op \in {"info", "ready"} -> [e EXCEPT !.status = 0]
        [] c.op = "mode"    -> e
        [] c.op = "page"    -> Fail([e EXCEPT !.status = 1])
        [] c.op = "unknown" -> Fail([e EXCEPT !.status = 1, !.flags = @ \cup {"up"}])
        [] c.op = "garbled" -> Fail([d EXCEPT !.isRead = FALSE, !.status = 2,
                                              !.flags = @ \cup {"up", "down"}])

(* A packet of 31 bytes is a command, unless data are due. *)
OutEpDeal(d, c, p) ==
  LET e == ScsiCmdDeal(d, c) IN
  CASE "down" \in d.flags -> DownOnePack(d, p)
    [] "down" \notin d.flags /\ p # <<"cbw">> -> d
    [] "down" \notin d.flags /\ p = <<"cbw">> ->
         CASE "down" \in e.flags -> e
           [] "down" \notin e.flags /\ "up" \in e.flags -> UpData(e)
           [] e.flags \cap {"up", "down"} = {} /\ e.status = 0 -> UpCsw(e)
           [] OTHER -> e

(***************************************************************************)
(* USBFS_IRQHandler.  The last line of IsrEp3Out also undoes a stall.      *)
(***************************************************************************)
IsrEp3OutAgain(d, tog, c, p) ==
  [OutEpDeal([d EXCEPT !.rxTog = 1 - tog], c, p) EXCEPT !.rxRes = "ack"]
IsrEp3Out(d, tog, c, p) ==
  IF tog # d.rxTog THEN d
  ELSE [OutEpDeal([d EXCEPT !.rxTog = 1 - @], c, p) EXCEPT !.rxRes = "ack"]

IsrEp2In(d) ==
  InEpDeal([d EXCEPT !.res = "nak", !.tog = 1 - @, !.packet = None, !.busy = FALSE])

UdiskReset(d) == [d EXCEPT !.status = 0, !.flags = {}, !.len = 0]

CswIfDue(d)      == IF "csw" \in d.flags THEN UpCsw(d) ELSE d
ClearInSilent(d) == [d EXCEPT !.res = "nak", !.tog = 0, !.packet = None]
ClearIn(d)       == CswIfDue([d EXCEPT !.res = "nak", !.tog = 0, !.packet = None])
ClearOut(d)      == CswIfDue([d EXCEPT !.rxRes = "ack", !.rxTog = 0])
----------------------------------------------------------------------------
NoCommand == [op |-> "ready", dir |-> "none", lba |-> 0, n |-> 0, ver |-> 0, tag |-> 0]
Goes(ph)  == /\ phase' = ph /\ cmd' = IF ph \in {"idle", "reset"} THEN NoCommand ELSE cmd
Fault     == faults < MaxFaults /\ faults' = faults + 1

DiskInit ==
  /\ dev = [flags |-> {}, len |-> 0, lba |-> 0, count |-> 0, status |-> 0, tag |-> 0,
            isRead |-> FALSE, buf |-> [i \in 0 .. Packs - 1 |-> None],
            disk |-> [s \in SectorIds |-> Sector(0, s)],
            res |-> "nak", tog |-> 0, busy |-> FALSE, packet |-> None,
            rxRes |-> "ack", rxTog |-> 0]
  /\ phase = "idle" /\ done = 0 /\ hostOut = 0 /\ hostIn = 0
  /\ cmd = NoCommand /\ clean = TRUE /\ faults = 0 /\ kept = [s \in SectorIds |-> 0]

Ready(d) == d.flags = {} /\ ~d.busy

(***************************************************************************)
(* The host.  The tag of a command is none the device still remembers.     *)
(***************************************************************************)
SectorsOf(c) == c.lba .. c.lba + c.n - 1

Command(b) ==
  /\ phase = "idle"
  /\ LET old == {dev.tag} \cup (IF dev.packet[1] = "csw" THEN {dev.packet[2]} ELSE {})
         tag == CHOOSE t \in 1 .. 3 : t \notin old
     IN  cmd' = [op |-> b.op, dir |-> b.dir, lba |-> b.lba, n |-> b.n, ver |-> b.ver,
                 tag |-> tag]
  /\ phase' = "cbw" /\ done' = 0
  /\ clean' = Ready(dev)
  /\ kept' = IF b.op = "write"
             THEN [s \in SectorIds |-> IF s \in SectorsOf(b) THEN Unsure ELSE kept[s]]
             ELSE kept
  /\ UNCHANGED <<dev, hostOut, hostIn, faults>>

PackAt(c, ver, k) == Pack(ver, c.lba + k \div Packs, k % Packs)
AfterCbw(c)       == CASE c.dir = "in" -> "in" [] c.dir = "out" -> "out" [] OTHER -> "csw"

(* Where the host stands once its packet has been taken. *)
PhaseAfterOut == IF phase = "cbw" THEN AfterCbw(cmd)
                 ELSE IF done + 1 = Length(cmd) THEN "csw" ELSE "out"
DoneAfterOut  == IF phase = "out" /\ done + 1 < Length(cmd) THEN done + 1 ELSE 0

HostOut(heard) ==
  /\ phase \in {"cbw", "out"} /\ dev.rxRes = "ack"
  /\ dev' = IsrEp3Out(dev, hostOut, cmd,
                   IF phase = "cbw" THEN <<"cbw">> ELSE PackAt(cmd, cmd.ver, done))
  /\ \/ /\ heard /\ UNCHANGED faults
        /\ hostOut' = 1 - hostOut /\ phase' = PhaseAfterOut /\ done' = DoneAfterOut
     \/ ~heard /\ Fault /\ UNCHANGED <<hostOut, phase, done>>
  /\ UNCHANGED <<cmd, hostIn, clean, kept>>

IsData(p)      == p[1] \in {"data", "info", "cbw"}
IsStatus(p)    == p[1] = "csw" /\ p[2] = cmd.tag /\ p[3] # 2
PhaseAfterIn(p) ==
  CASE phase = "in" /\ IsData(p) /\ done + 1 < Length(cmd) -> "in"
    [] phase = "in" /\ (~IsData(p) \/ done + 1 = Length(cmd)) -> "csw"
    [] phase = "csw" -> IF IsStatus(p) THEN "idle" ELSE "reset"

(* The device hears the host's handshake, or it will offer the same again. *)
HostIn(heard) ==
  /\ phase \in {"in", "csw"} /\ dev.res = "ack"
  /\ \/ heard /\ dev' = IsrEp2In(dev) /\ UNCHANGED faults
     \/ ~heard /\ Fault /\ UNCHANGED dev
  /\ \/ /\ dev.tog = hostIn
        /\ hostIn' = 1 - hostIn
        /\ Goes(PhaseAfterIn(dev.packet))
        /\ done' = IF phase' = "in" THEN done + 1 ELSE 0
        /\ kept' = IF phase' = "idle" /\ dev.packet[3] = 0 /\ cmd.op = "write"
                   THEN [s \in SectorIds |-> IF s \in SectorsOf(cmd) THEN cmd.ver ELSE kept[s]]
                   ELSE kept
     \/ dev.tog # hostIn /\ UNCHANGED <<hostIn, phase, cmd, done, kept>>
  /\ UNCHANGED <<hostOut, clean>>

(* CLEAR_FEATURE of a stalled endpoint 2; the status comes next. *)
HostStalled ==
  /\ phase \in {"in", "csw"} /\ dev.res = "stall"
  /\ dev' = ClearIn(dev)
  /\ hostIn' = 0 /\ phase' = "csw" /\ done' = 0
  /\ UNCHANGED <<cmd, hostOut, clean, faults, kept>>

(* The host gives up, or cannot send its command; then it recovers. *)
Abort ==
  /\ phase \in {"cbw", "out", "in", "csw"}
  /\ Fault
  /\ Goes("reset") /\ clean' = FALSE /\ done' = 0
  /\ UNCHANGED <<dev, hostOut, hostIn, kept>>

RecoverReset ==
  /\ phase = "reset"
  /\ dev' = UdiskReset(dev) /\ phase' = "clearIn" /\ clean' = FALSE
  /\ UNCHANGED <<cmd, done, hostOut, hostIn, faults, kept>>
RecoverIn ==
  /\ phase = "clearIn"
  /\ dev' = ClearIn(dev) /\ hostIn' = 0 /\ phase' = "clearOut"
  /\ UNCHANGED <<cmd, done, hostOut, clean, faults, kept>>
RecoverOut ==
  /\ phase = "clearOut"
  /\ dev' = ClearOut(dev) /\ hostOut' = 0 /\ phase' = "idle"
  /\ UNCHANGED <<cmd, done, hostIn, clean, faults, kept>>

PortReset ==
  /\ Fault
  /\ dev' = EndpInit(dev)
  /\ Goes("idle") /\ done' = 0 /\ hostOut' = 0 /\ hostIn' = 0 /\ clean' = FALSE
  /\ UNCHANGED kept

Transfer == HostStalled \/ \E heard \in BOOLEAN : HostOut(heard) \/ HostIn(heard)
Recovery == RecoverReset \/ RecoverIn \/ RecoverOut
DiskNext == \/ \E b \in Commands : Command(b)
            \/ Transfer \/ Recovery \/ Abort \/ PortReset

(* The host polls, and its handshakes are heard in the end. *)
Progress == HostOut(TRUE) \/ HostIn(TRUE) \/ HostStalled \/ Recovery

DiskSpec == DiskInit /\ [][DiskNext]_diskVars /\ WF_diskVars(Progress)
----------------------------------------------------------------------------
(* The state stays within its types; no transfer runs past its length. *)
DiskTypeOK ==
  /\ dev.flags \subseteq {"up", "down", "csw"}
  /\ dev.len \in 0 .. Sectors * Packs
  /\ dev.lba \in 0 .. Sectors /\ dev.count \in 0 .. Packs - 1
  /\ dev.status \in 0 .. 2 /\ dev.busy \in BOOLEAN
  /\ {dev.res, dev.rxRes} \subseteq {"ack", "nak", "stall"}
  /\ {dev.tog, dev.rxTog, hostOut, hostIn} \subseteq 0 .. 1
  /\ phase \in {"idle", "cbw", "out", "in", "csw", "reset", "clearIn", "clearOut"}
  /\ done \in 0 .. Sectors * Packs /\ faults \in 0 .. MaxFaults /\ clean \in BOOLEAN
  /\ kept \in [SectorIds -> Versions \cup {0, Unsure}]

(***************************************************************************)
(* The status of a command: only one of READ and WRITE that is complete,   *)
(* or one the device knows, succeeds.  MODE SENSE(6) sets none.            *)
(***************************************************************************)
StatusOf(c) == IF c.op \in {"page", "unknown"} THEN 1 ELSE 0

(* What is due to the host in phase ph with k packs done. *)
IsDue(p, ph, k) ==
  \/ /\ ph = "in" /\ k < Length(cmd)
     /\ IF cmd.op = "read"
        THEN p = dev.disk[cmd.lba + k \div Packs][k % Packs]
        ELSE p = <<"info">>
  \/ ph = "csw" /\ p[1] = "csw" /\ p[2] = cmd.tag
     /\ (cmd.op = "mode" \/ p[3] = StatusOf(cmd))

(***************************************************************************)
(* What endpoint 2 offers is what the host is waiting for: the next pack   *)
(* of the sectors it reads, or the status of its command under its tag,    *)
(* not before all of the data; also if handshakes are lost on the way.     *)
(***************************************************************************)
OffersWhatIsDue ==
  (clean /\ phase \in {"cbw", "out", "in", "csw"} /\ dev.res = "ack" /\ dev.tog = hostIn)
    => IF phase \in {"cbw", "out"} /\ hostOut # dev.rxTog
       THEN IsDue(dev.packet, PhaseAfterOut, DoneAfterOut)
       ELSE IsDue(dev.packet, phase, done)

(***************************************************************************)
(* A sector whose last write has been reported done holds it, pack by      *)
(* pack, through aborted commands, recoveries and bus resets.              *)
(***************************************************************************)
AcknowledgedIsStored ==
  \A s \in SectorIds : kept[s] # Unsure => dev.disk[s] = Sector(kept[s], s)

(***************************************************************************)
(* Only whole sectors of the command at hand are programmed, and only      *)
(* those it names, if the device was ready when it began.                  *)
(***************************************************************************)
ProgramsWhatIsWritten ==
  [][clean => \A s \in SectorIds : dev'.disk[s] # dev.disk[s] =>
       cmd.op = "write" /\ s \in SectorsOf(cmd) /\ dev'.disk[s] = Sector(cmd.ver, s)]_diskVars

(***************************************************************************)
(* Commands the device does not answer: no valid command block, and        *)
(* MODE SENSE of no bytes when it fails or the last command has failed.    *)
(***************************************************************************)
Unanswered == \/ cmd.op = "garbled"
              \/ cmd.dir = "none" /\ cmd.op = "page"
              \/ cmd.dir = "none" /\ cmd.op = "mode" /\ dev.status # 0

(***************************************************************************)
(* A command that begins on a ready device comes to its end, by stalled    *)
(* endpoints and lost handshakes.                                          *)
(***************************************************************************)
CommandEnds == (clean /\ phase = "cbw" /\ ~Unanswered) ~> (phase = "idle")
=============================================================================
