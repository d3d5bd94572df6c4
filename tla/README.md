# TLA+ models of the CH32F20x example firmware

The repository (`openwch/ch32f20x`) holds the vendor's peripheral drivers for
the CH32F20x microcontrollers and some two hundred example programs under
`EVT/EXAM`. Most of the examples set a register or two. A few are programs with
a life of their own: bridges between USB, UART, BLE and Ethernet, boot loaders
that replace the running firmware, USB devices and hosts. They run on the bare
metal: one main loop, interrupt handlers that may strike between any two of its
instructions, DMA channels and USB engines that never wait for either. This
project models those programs, checks them with TLC and proves with TLAPS what
matters most. Paths below are relative to `src/EVT/EXAM`.

## Inventory

| Component | State it keeps | Operations | What is hard |
|---|---|---|---|
| USB-CDC bridge (`USB/USBFS/DEVICE/SimulateCDC/User`), downlink | the ring of 16 packet slots in `Uart.Tx_*`, endpoint 2, transmit DMA | EP2 OUT interrupt, `UART2_DataTx_Deal`, bus reset, line coding, halt requests | handler against main loop; two counters with two writers; flow control; TC that comes early or not at all |
| USB-CDC bridge, uplink | circular DMA buffer, `Uart.Rx_*`, `USB_Up_*`, endpoint 3 | `UART2_DataRx_Deal`, EP3 IN interrupt, timer, the same requests | a DMA nobody stops; two flags for one fact; timeouts against late completions |
| BLE firmware upgrade (`BLE/BackupUpgrade_OTA`, `BLE/BackupUpgrade_IAP`) | areas A and B of the flash, the image flag page, the page buffer | PROM, ERASE, VERIFY, END and INFO frames, the erase event, `jump_APP` | loss of power at any moment; repeated frames; sessions begun anew |
| USB/UART in-application programming (`IAP/USB_UART`) | page buffer, program and verify addresses, error byte | ERASE, PROM, VERIFY, END, jump | state that survives an abandoned session; commands and answers lost; loss of power |
| USB mass storage (`USB/*/DEVICE/MSC_U-Disk`) | CBW/CSW, remaining length, sector and packet counters | bulk-only transport, SCSI commands | two lengths that disagree, short packets, stalls |
| USB device control transfers (every `USB/*/DEVICE` demo) | setup request, remaining length, pending address, configuration | SETUP, IN, OUT on endpoint 0, bus reset, suspend | multi-packet stages, a SETUP in the middle of another, address change |
| BLE-UART bridge (`BLE/BLE_UART`) | byte FIFO with free-running 16-bit indices, a flag, a self-restarting event, the packet to retry | interrupt push, BLE callback push, main loop pop and notify | two producers, no lock; a packet the stack refuses; a link that goes away |
| BLE-USB bridge (`BLE/BLE_USB`) | two rings, each with two lengths | write, read, copy, delete | interrupts that early returns leave off; a length read three times between two ring calls |
| Ethernet-UART bridge (`ETH/ETH_UART`) | ring of packets, transmit DMA, circular receive DMA, socket | socket receive, completion interrupt, main loop send | a counter and a register written from both sides; the lock is itself a read-modify-write of that register |
| Ethernet firmware upgrade (`ETH/ETH_IAP`) | receive ring, header, checksum, flag, areas BACKUP and USER | socket events, save, set flag, copy, wipe | loss of power, ring arithmetic, connections that break, pages that do not take |
| Ethernet MAC driver (`ETH/NetLib`) | descriptor rings | interrupt, polling | the other side is a binary library |
| USB host demos, BLE/mesh/LWNS demos, StdPeriph drivers, vendored kernels | - | - | see "Not modelled" |

How they interact. Inside a component, main loop and interrupt handlers share
variables; `NVIC_DisableIRQ( USBFS_IRQn )` is the only lock and it is taken late
or not at all in places. Towards the outside the actors are the USB host (which
may reset the bus, halt an endpoint, change the line coding or stop collecting
whenever it likes), the DMA channels and the power supply. The two halves of the
CDC bridge share `UART2_ParaInit`, the bus reset and the requests on endpoint 0,
and nothing else. The two halves of the BLE upgrade never run together: they meet
in the flash, where the application leaves image B and the flag for the boot
program. The other components do not interact with each other.

What makes each correct: a bridge loses, repeats and reorders nothing, never
overwrites what waits, comes out of every pause, and leaves no tail behind; a boot
loader never starts a partial image and never forgets an accepted one; a USB device
ends every transfer in a state from which the next one works. The hazards of each,
line by line, are the `hazards` of `PROJECT.json`.

## Modules

| Module | Models | About |
|---|---|---|
| `CdcDownlink` | `UART/UART.c`, `USB_Device/ch32f20x_usbfs_device.c` | host to UART |
| `UsbDeviceProofs` | - | theorems about `CdcDownlink` and `MscBot`, which share nothing but the module |
| `CdcUplink` | the same files, `ch32f20x_it.c` | UART to host |
| `OtaUpgrade` | `BackupUpgrade_OTA/APP/peripheral.c`, `BackupUpgrade_IAP/APP/peripheral_main.c`, the flash driver | upgrade over BLE |
| `SafeUpgrade` | what the upgrade promises | abstract device: one installed image, replaced in one step |
| `OtaUpgradeProofs` | - | theorems about `OtaUpgrade` |
| `EthUart` | `ETH/ETH_UART/Main.c`, `bsp_uart.c`, the DMA driver | TCP socket to UART and back |
| `PacketPipe` | what `EthUart` and `CdcDownlink` promise | abstract bounded queue of packets |
| `EthUartProofs` | - | theorems about `EthUart` |
| `CdcUplinkProofs` | - | theorems about `CdcUplink` |
| `UsbIapProofs` | - | theorems about `UsbIap` |
| `BleUartProofs` | - | theorems about `BleUart` |
| `EthIapProofs` | - | theorems about `EthIap` |
| `BleUsbProofs` | - | theorems about `BleUsb` |
| `BleUart` | `BLE/BLE_UART/APP/app_uart.c`, `app_drv_fifo.c`, `peripheral.c` | UART to BLE notifications |
| `EthIap` | `ETH/ETH_IAP/Main.c`, `IAP_Task.c` | upgrade over TCP |
| `UsbIap` | `IAP/USB_UART`, boot program and application | upgrade over USB and USART |
| `MscBot` | `USB/USBFS/DEVICE/MSC_U-Disk/user/SW_UDISK.c`, `ch32f20x_usbfs_device.c` | USB disk on the internal flash |
| `BleUsb` | `BLE/BLE_USB`: `RingMem.c`, `peripheral.c`, `ble_usb_service.c`, `ch32f20x_usbfs_device.c` | USB host to BLE peer and back |

Each specification takes its sizes as CONSTANTS with named assumptions, so the
configuration files instantiate it directly. Every operator ending in the name of
a plausible slip (`MovedAll`, `CopyNextSameBlock`, ...) stands just before the
definition it corrupts; nothing refers to it. They are what shows that each
property can fail: put in place of the definition that follows, TLC refutes the
property.

### CdcDownlink

The variables are the fields of `Uart` under shorter names, the registers the
code reads or writes (response and DMA address of endpoint 2, `RX_LEN`, the CNTR,
MADDR and request bit of the DMA channel, the TC flag), a program counter for the
main loop, and history variables that number the packets. The engine writes a
packet to the slot `UEP2_DMA` points at (`SieOut`) and, because
`USBFS_UC_INT_BUSY` is set, takes no further one until the handler ran (`IsrOut`).
The handler is one action, for nothing interrupts it that touches the same state.
`UART2_DataTx_Deal` is cut into six: the test of TC; the completion branch, which is
protected except for three register writes that commute with the handler; the test
of `Tx_RemainNum`; and the three parts of the load branch, which is not protected at
all. `DmaByte` and `UartIdle` are the hardware; the UART may run empty while the
DMA has bytes left, so TC may come early.

Bus reset, line coding and the halt features act between any two of these steps.
A re-initialisation inside the completion or the load branch breaks the ring (the
first finding). It is recorded in `raced` and the properties promise nothing until
the next one; likewise after more than two `CLEAR_FEATURE(HALT)` on a paused
endpoint, for which the ring has no room (`forced`). `Calm` is the conjunction.

`RingHoldsBacklog` relates the ring to the sequence of accepted packets,
`NeverOverwrites` the pause threshold to the slots in use, `DmaFetchesNextByte` the
DMA program to the byte that is due, `PacketsSentWhole` (an action property) the
release of a slot to what the DMA moved. `BacklogDrains` and `PauseEnds` are
liveness.

`IsSerialPipe` says that the bridge implements `PacketPipe`, with the number of slots as
its capacity. The mapped queue is the waiting slots under the lengths the code keeps, and
behind them the packet the handler has not seen yet; a packet enters it with `SieOut` and
leaves it with the decrement in the completion branch, and everything else is a stutter.
The pipe begins anew where the code initialises the bridge, and where `Calm` ends, after which
it holds nothing and promises nothing until the next initialisation (`BeginsAnew`).

### CdcUplink

The circular DMA is the number of bytes received, from which CNTR follows; the
firmware's arithmetic on two readings of it is `Arrived`. `UART2_DataRx_Deal` is cut
where the USBFS interrupt is enabled: `Poll`, `Choose`, `Clip`, `Upload`, `ZlpTest`,
`ZlpSend`. `USBFS_Endp_DataUp` is `DataUp`, with its refusal when the endpoint is
busy. `Tick` is the 100 us timer, whose counters wrap; `HostIn` and `IsrIn` are the
two ends of an IN transfer, so a late completion can meet a timeout.

Two assumptions bound the environment: fewer bytes than the buffer holds arrive
between two polls, and the main loop makes a pass between two ticks (a pass is a
few microseconds, and the timer's counters are useless otherwise). Bytes that the
DMA overruns and re-initialisations inside an upload are exempt (`Calm`).

`RingFollowsDma` says the counters of the code agree with what was received and
taken. A packet can be lost in four ways, and `lost` names the first: refused by a
busy endpoint, replaced after the 6 s timeout, cleared by a late completion, or
dropped with a halt. `NoSilentLoss` says that there is no fifth.
`RefusedOnlyBehindZlp` says when the first occurs, `FlagsAreBacked` that no flag is
left behind, `TailIsUploaded` and `TransferIsClosed` are liveness.

### OtaUpgrade

The flash is two areas of blocks of pages of units, and the flag as
`ReadImageFlag` reads it. The application receives frames: they are appended in
`block_buf` and programmed page by page whatever their address; the last page is
flushed by the first VERIFY. The erase is an event of the BLE scheduler, one block
at a time, and may fail. The host sends frames in the order of the upgrade tool,
repeats one whose answer was lost, and may give up and begin again at any time. END
switches the flag and resets; the boot program copies B over A block by block,
switches the flag back, wipes B and jumps.

Power may be lost in every state; the flash operation at hand then did not begin, is
torn (its block or page holds junk, the flag page any value), or is over.
`want` remembers the image last committed to: it changes where the flag becomes
`IAP`.

`JumpsToCommitted`: only the whole of that image is ever started.
`CopyCanBeRedone`: while the flag asks for a copy, B is whole. `VerifiedIsStored`:
what the host has verified is in B. `UpgradeIsInstalled`: once power stays, an
accepted upgrade is started.

`UpgradeIsAtomic` says that `OtaUpgrade` implements `SafeUpgrade`. The refinement
mapping reads the flash only: the installed image is the one whole in B if the flag
asks for a copy and the one whole in A otherwise, and the running image is what A
holds while the application runs. The step that installs is the programming of the
flag in END, or the loss of power that leaves the flag page reading so; the whole of
`jump_APP` is a stutter until its jump.

### EthUart, PacketPipe

The transmit side is at the grain of a register access, for the completion interrupt
(`TcIsr`) strikes between any two. Masking it is a load (`LockLoad`) and a store
(`LockStore`) of the CFGR the interrupt also writes; a store that undoes the
interrupt's is recorded in `torn`: EN stays set with CNTR 0, the next
program is ignored, and nothing is sent any more. `Publish`, `TakeSlot` and `Unlock` are
the protected part of `ETHRx`; `TxIdle`, `TxProgram` and `TxEnable` start a packet.
Writes of CNTR and MADDR are ignored while the channel is enabled, as the reference
manual has it. The receive side is the CNTR of the circular channel, `RxPoll` and
`RxSend(k)`, where the socket accepts `k` of the bytes it is offered.

`DmaSendsNextByte` and `SocketGetsNextBytes` say what each side sends, `IsPipe` that
the three counters of the ring implement `PacketPipe`: a packet leaves the mapped queue
with its last byte, whenever the interrupt comes. `BacklogDrains` and
`BytesReachSocket` are liveness, once the connection stays up. The socket reports at
least one byte with RECV. Two behaviours of the code are kept and not hidden by
an exemption: packets in the ring when a connection ends are sent after the next is
made, and a failed `WCHNET_SocketCreat` is never tried again.

### BleUart

The FIFO counts in 16 bits without masking and indexes modulo its size. `UartRx` is the
interrupt and may strike inside the callback's write (`Echo`, `EchoByte`, `EchoEnd`) and
inside the flush (`FlushEnd`). When the two producers meet, bytes are overwritten or the
length passes the size, and the FIFO then refuses nothing; the history variable `raced`
records it and `RaceHeals` says that the damage ends. `Link` is the connection and the
CCCD. The event of the BLE scheduler either waits for a full payload (`Wait`, with its
counter), sends (`SendNew`) or repeats what the stack has refused (`SendAgain`).

`FifoHoldsBacklog` is the content of the FIFO, `NotifiesNextBytes` (an action property)
what the peer is sent, `BytesLeave` that no wakeup is lost. It starts from `Awake`, a
flag or the event being set, because bytes that came before notifications were enabled
do stay in the FIFO until the next byte arrives.

### EthIap

The host sends a header and an image over a connection that may break. The library
fills the socket and raises interrupts; `Recv` reads into the ring in one or two parts
and checks the header, `Save` programs whole pages, adds to the checksum and, at the
length of the header, compares it; `SetFlag` orders the copy and resets. `Boot`,
`CopyErase`, `CopyPage` and `Wipe` are the boot program. A page of BACKUP may fail to
take what is programmed (`worn`); the code compares after the copy into USER but not
after the save. The branch of the save that refuses a file longer than BACKUP is not
in the model: the check of the header refuses such a file first.

`StreamIsSaved` places every byte of the file in BACKUP or in the ring.
`CopyCanBeRedone` and `StartsWholeImage` are the guarantees of the boot program. Their
exceptions are named by `exposed`: a page that was worn when the flag was set, a
connection made while an upgrade is pending (it erases BACKUP and leaves the flag until
the last block), and a wipe that was cut: the flag, in the last page, then orders
a copy of what is left of BACKUP over the good image. The host makes no further
connection once `exposed`: nothing is promised then. `FileIsAccepted` is liveness.

### UsbIap

The three links share the command handler but not its answer: the USBD link never clears
its error byte. A session is erase, program, verify, end; a host that gets no answer
repeats its command or gives up, and `Lose` drops a command or an answer. Over USB the
engine gives the command to the host as sent and the answer waits in the endpoint:
a host discards a late answer, so there is one message in the channel. `PowerLoss` tears
the page at hand. `VERIFY` compares at `Verify_addr`, not at the address it carries, and
`END` is obeyed whatever was verified.

`VerifiedIsInstalled`, `CleanSessionSucceeds` and `StartsWholeImage` state what survives
that. `verified`, `clean` and `exposed` name the exceptions: a session that begins where
an abandoned one left `Verify_addr`, a `VERIFY` obeyed twice, and a first programming,
which nothing protects: after a loss of power the boot program starts whatever the first
page holds.

### BleUsb

Two rings of `RingMem.c`, whose pointers range over `0 .. Size` and whose two lengths are
`room` and `count`. `irqOn` is PRIMASK: every operation clears it and sets it, but one
that refuses returns before it is set again, also in the interrupt handler, whose return
does not restore it. The next operation that succeeds does. `HostOut` and `HostIn` are the
host, who may miss a handshake and then writes the packet again or reads it again;
`pend` is the finished transfer whose interrupt waits, during which the controller
answers NAK. `IsrOut` deals with a packet of the toggle that is due, `IsrOutAgain` with a
repeated one, `Reset` with a bus reset and `CLEAR_FEATURE`.

The two events of the BLE scheduler are cut where the interrupt can strike. `Length`
reads `CurrentLen` anew for each line that names it, so a packet accepted in the midst of
a pass is deleted with the rest, unsent: the lock covers each operation on the ring and
not the pass. `raced` records it. `EndpointBusy` is `FALSE` because of the precedence of
`==` over `&`: `USBSendData` never sees a busy endpoint and replaces a packet the host has
not read, which `disturbed` records. With the test as it was meant, a `BleWrite` that finds the
ring full would leave interrupts off while the endpoint waits for one, and nothing would move
again: that is the mutant of `InterruptsComeBack`.

`app_usb_notify` takes the length as a `uint8_t` (`peripheral.c:817`), `RingMemDelete` takes
it whole: `InAByte` and `Length`, with `ByteRange` for 256. `mtu` is `peripheralMTU - 3`, and
`peripheralMTU` is what the client offers, not what the stack agreed on (479-481). Up to an
MTU of 258 the two lengths are one. From 259 on a payload of 256 bytes or more is notified
modulo 256 and deleted whole: an MTU of 517 gives 514, of which 2 bytes are sent. The test of
the length in `app_usb_notify` sees the byte too, so of a rest that has outgrown the MTU it
refuses only what is too long in its last eight bits. What a copy longer than `buf`
overwrites on the stack is not modelled. The variables that are dead at a point of the loop
(`out`, `buf`, `ctrl`) are set back there, which no action reads. The halt feature of endpoint 2 is not either:
`SET_FEATURE` looks at `EP0_DatabufHD`, where the request is not.

`RingsHoldBacklog` relates pointers and lengths to what was accepted and removed,
`DealtWithOnce` and `HostGetsNextBytes` the toggles to the bytes, `PeerGetsNextBytes` the
notifications to what then leaves the ring: the same bytes while the payload fits a byte, and
else only as many modulo 256. `InterruptsComeBack` is liveness.

### MscBot

All of the USB disk is one interrupt handler, so a transaction with its handler is one
step, and the handlers are functions on the record `dev`: `flags` are the three of
`Udisk_Transfer_Status`, `len` counts packs where the code counts bytes, `count` and `lba`
are `UDISK_Sec_Pack_Count` and `UDISK_Cur_Sec_Lba`, `res`, `tog` and `packet` are endpoint 2,
`rxRes` and `rxTog` endpoint 3, `busy` is `USBFS_Endp_Busy[2]`. What matters is the other
side: a host that follows the bulk-only protocol and whose transactions lose handshakes,
which gives up at any point and recovers by class reset and the clearing of both
endpoints, or resets the bus. A data pack is named by its version, sector and place, so
a pack in the wrong place is seen. Commands stand for classes: `info` for every one that
answers from a table, `ready` for those without data, `mode` and `page` for the two MODE
SENSE, `unknown`, and `garbled` for one without the signature.

`clean` says that the command began on a device without flags and with a free endpoint.
That is not always so, and the model keeps each way it is not:

- class reset and `CLEAR_FEATURE` do not clear `USBFS_Endp_Busy`: after an abort with a
  packet unread every upload is refused, until a bus reset;
- when the handshake of a status is lost and the next command comes, its first upload is
  refused, for the status still waits; `UDISK_Up_CSW` does not look at the result;
- a bus reset keeps `Udisk_Transfer_Status`: in a WRITE, the next command block is data;
- MODE SENSE(6) sets no status and reports that of the command before;
- the STALL that `UDISK_CMD_Deal_Fail` sets on endpoint 3 is undone at the end of the
  handler, and a command without data that fails MODE SENSE(10) gets no status.

`OffersWhatIsDue` says what endpoint 2 holds against the host's phase, toggles included.
`ProgramsWhatIsWritten` (an action property) and `AcknowledgedIsStored`, which has no such
condition, are the disk. `CommandEnds` is liveness.

## Runs

| Run | Shows | Bounds |
|---|---|---|
| `downlink` | all properties of the downlink, and that it implements `PacketPipe` | 4 slots (the pause threshold is 2, both reserve slots and the wrap are used), packets of 0 and 2 bytes (so a packet can be cut by an early TC), 5 packets per initialisation: one more than there are slots |
| `downlink_race` | finding 1 | 4 slots, one packet |
| `downlink_empty_packet` | finding 2 | 4 slots, two packets |
| `uplink` | all properties of the uplink | 3 cells and 2-byte packets (full, short and clipped uploads), 4 bytes (a second lap, an overrun), timeouts of 1 and 2 ticks in their code's order |
| `uplink_zlp` | finding 3 | as `uplink` |
| `eth_uart` | all properties of the Ethernet bridge, and that it implements `PacketPipe` | 3 buffers, packets of up to 2 bytes, 4 packets and 4 bytes (one more than fit), a circular buffer of 3 bytes |
| `ble_uart` | all properties of the BLE bridge | a FIFO of 2 bytes, counters modulo 8, payload 2, a patience of 1, 9 bytes (the counters wrap) |
| `eth_iap` | all properties of the Ethernet upgrade | images of 3 and 4 units (a part of a page at the end, or none), 2 blocks of 2 pages of 2 units, a ring of 3 units (it wraps inside a page) |
| `usb_iap` | all properties of the in-application programming | files of 4 and 6 units, 4 pages of 3 units (a partial and a whole last page), commands of 1 or 2 units, 2 sessions, 2 losses of a message or of power |
| `ble_usb` | all properties of the BLE to USB bridge, both directions at once | rings of 2 bytes that either side refills at their edge; packets of 1 and 2 bytes from the host and of 1 to it, payloads of 1 byte (a rest is sent in parts) and of 2 against a byte of two values (a length is cut), 3 bytes of the host (one more than fit), 2 of the peer, one fault; the length test never fails at these sizes, the proof covers it |
| `msc` | all properties of the USB disk | 2 sectors of 2 packs (a transfer over the end of a sector, an abort inside one and between two), one version besides the first, 2 faults (an abort after a lost handshake, two lost handshakes in a row) |
| `ota` | all properties of the upgrade | 2 blocks of 2 pages of 3 units, frames of 2 units (they straddle pages), an image of 7 units (ends inside the third page), 2 versions |

"All properties" leaves out the invariants that are proved instead, see Proofs.

Bounds with a name: `MaxOut`, `MaxIn` and `MaxFaults` of `BleUsb` (bytes written by the
host and by the peer; missed handshakes, resets and cleared endpoints), `MaxFaults` of `MscBot`
(lost handshakes, aborts, bus resets), `MaxSessions` and `MaxLost` of `UsbIap`, `MaxPackets` of `EthUart`, `MaxPkts` (packets accepted since the last re-initialisation),
`MaxBytes` (bytes received since then), `WithinB` (a host that repeats frames stops
at the end of B). The scale of counters that wrap in the uplink is `W16`,
`RxWrap`, `UpWrap`, that of the `uint8_t` in `BleUsb` is `ByteRange`. Outside `BleUsb`, `MscBot` and `UsbIap`, bus resets, requests and losses
of power are not bounded: the history variables start again with them. `CHECK_DEADLOCK FALSE` is set because a
host that has sent its packets, or an idle application, may rest for ever.

Fairness. Weak fairness of the main loop (`while( 1 )`), of pending interrupts, of the
DMA and the UART (hardware), of the timer. The host owes the downlink nothing; in
the uplink it is assumed to poll endpoint 3, without which no byte can arrive, and
the liveness properties let it stall the endpoint. `UpgradeIsInstalled` needs
only that the processor runs and that power stays in the end. The BLE stack and the
TCP socket do not refuse for ever while the connection holds: strong fairness of the
step in which they accept, for a refusal disables nothing and comes between. In
`EthUart` this is a condition of the properties (`StaysUp`) rather than an assumption
about the network. In `BleUsb` the interrupt is served while interrupts are on, the
loop goes round (weak fairness), and the host polls endpoint 2 and is heard in the end
(strong fairness, for other transactions come between); nothing is assumed of the stack. In
`MscBot` the host polls, and its handshakes are not lost for ever; it may give up at any
time, as often as `MaxFaults` allows. `UsbIap` states no liveness, and its specification no fairness:
its host may give up.

## Findings

1. `RemainNumCountsSlots` (`UART.c:367`): a re-initialisation between the test of TC
   and `NVIC_DisableIRQ` makes `Tx_RemainNum` 65535.
2. `BacklogAlwaysDrains` (`UART.c:399`): a zero-length OUT packet stops the downlink.
3. `ZlpCostsNoData` (`UART.c:526`): data that arrives while a zero-length packet
   waits is taken from the buffer and not uploaded.

The models hold more that a reader of the code should know of. Each is named in its module
and exempted by name from the properties it breaks, rather than shown by a run of its own:
`torn` in `EthUart`, `exposed` in `EthIap` and `UsbIap`, `raced` in `BleUart`, `raced`,
`disturbed` and an MTU above 258 in `BleUsb`, and the list under `MscBot`.

## Proofs

`UsbDeviceProofs` proves of `CdcDownlink` `TypeOK`, `RingHoldsBacklog`, `NeverOverwrites`,
`DmaFetchesNextByte`, `PacketsSentWhole` and the refinement `IsSerialPipe` for every number of slots from 4 up, every
slot size whose buffer fits a `uint16_t`, every set of packet lengths and any
`MaxPkts`. The assumptions are those named in `CdcDownlink`. None of the properties is
inductive. The inductive invariant is
`TypeOK /\ (Calm => FlowControl /\ RingContents /\ Sending)`:

- `FlowControl` keeps the account of the room: an open endpoint has at most
  `NumMax - 3` packets behind it, a paused one at most `NumMax - 2`, plus one for each
  `CLEAR_FEATURE(HALT)`; a packet that waits for the handler is counted.
- `RingContents` says that the load position is the deal position plus the number
  of waiting packets, modulo the ring, and what each slot holds. Adding or removing a
  packet moves one end; the lemmas on `WrapNum` and `SlotFrom` (distinct, and
  shifting by one) carry it over.
- `Sending` ties the program counter, `Tx_Flag`, the DMA registers and the current
  length to the number of bytes already handed to the UART, which is what survives
  an early TC.

The refinement needs nothing further. Under the invariant the packet at place `k` of the
mapped queue is number `sent + k`, and there are at most as many as slots; so `SieOut`
appends one, `TxComplete` takes the head off, and a step that leaves the ring alone, or only
counts the packet that was pending, maps to a stutter. What had to be shown of the handler is
that the length it stores in `Tx_PackLen` is the one the pending packet had in the queue.

Of `MscBot` it proves `DiskTypeOK`, `AcknowledgedIsStored`, `OffersWhatIsDue` and
`ProgramsWhatIsWritten` for every number of sectors and of packs in one, every set of
versions and any number of lost handshakes, aborts and bus resets. The inductive invariant
is `DiskInv == Shape /\ Endpoints /\ Flags /\ Room /\ Disk /\ Offers`:

- `Shape` has the types, the device as a record and the command as one a host gives.
- `Endpoints` and `Flags` say which responses, toggles and tags go with which flags of
  `Udisk_Transfer_Status`, and what an abort or a bus reset leaves of them.
- `Room` bounds the device's own counters, in an abandoned command too: what is left of a
  transfer ends where some sector of the disk ends. Without it an upload or a programming
  could run past the disk, whatever the host of the moment has asked for.
- `Disk` is `AcknowledgedIsStored` with what makes it inductive. The sectors of a WRITE
  under way count as unsure; while the device takes data it is in step with the host, and the
  sectors passed hold the new version. A status of success in the endpoint, under the tag of
  this command, means that all of them do.
- `Offers` is `OffersWhatIsDue` by the flags: for each set of flags, the pack or the status in
  endpoint 2, and whether the host has it already. A handshake that was lost is told
  from one that was heard by the toggle alone, so `HostPhase` and `HostDone` are the
  host's phase as the device must see it.

The handlers are functions on a record, so the lemmas about them (`ReadWriteIs`, `DataUpIs`,
`OutPackIs` and the rest) say what each changes and keeps; the cases of the induction cite
these and seldom expand a handler.

`OtaUpgradeProofs` proves `TypeOK`, `JumpsToCommitted`, `CopyCanBeRedone`,
`VerifiedIsStored` and the refinement `UpgradeIsAtomic` for every number of versions, blocks, pages and units and every
length of frame and image that fits. The inductive invariant is
`TypeOK /\ Sessions /\ Verified /\ CopyLoop /\ Committed`:

- `Sessions` is the protocol: the host is idle unless the application runs, END comes
  only when all was verified, the erase is over before the first PROM.
- `Verified` strengthens `VerifiedIsStored` to what the state after END needs.
- `CopyLoop` is the loop invariant of `jump_APP`: the pages before the counters equal
  those of B, the rest of the block at hand is erased, `flash_Data` is that block of B.
- `Committed` says for every position of the processor and every value of the flag
  which of A and B is whole. That one of them always is, is the argument: a loss of
  power leads to `boot` with the flag deciding which. The refinement follows from it:
  under the invariant the mapped image is the one committed to, so every step is one of
  `SafeUpgrade` or changes nothing.

`EthUartProofs` proves `TypeOK`, `DmaSendsNextByte`, `SocketGetsNextBytes` and the
refinement `IsPipe` for every number of buffers, every length of packet and every size
of the circular buffer. The inductive invariant is
`TypeOK /\ LoopInv /\ RingInv /\ DmaInv /\ RxInv`:

- `LoopInv` says what the main loop's local copies are worth at each position, the
  interrupt having struck since or not.
- `RingInv` numbers the slots from `txRead` on with the packets after `delivered` and
  places `txWrite` behind them, with the slot that is half published between.
- `DmaInv` ties the enable bit, the flag and the counter of the channel to the state
  variable. A torn store enables the channel with CNTR 0, where it moves nothing; that is
  why safety survives what liveness exempts as `torn`.
- `RxInv` is the cell of each byte, counted back from the write position of the DMA.

`CdcUplinkProofs` proves `TypeOK`, `RingFollowsDma`, `NoSilentLoss`, `FlagsAreBacked` and
`RefusedOnlyBehindZlp` for every size of the circular buffer and the packets, every timeout
and every wrap of the timers. The inductive invariant is
`TypeOK /\ FlagsAreBacked /\ Held /\ RingFollowsDma /\ Fitting /\ NoSilentLoss`:

- `Fitting` bounds what is not yet taken by the size of the buffer, and the packet at hand
  by what is left of it up to its end; without it the 16-bit subtractions could wrap.
- `Held` says that with `USB_Up_IngFlag` at 0 an endpoint that is still busy holds no
  received bytes. That is why an upload is seldom refused, and what is lost when it is.

`UsbIapProofs` proves `TypeOK`, `VerifiedIsInstalled`, `CleanSessionSucceeds` and
`StartsWholeImage` for every set of files, every size of page and command, and any number of
sessions and losses. The inductive invariant is
`TypeOK /\ Channel /\ Compared /\ Startable /\ Programmed`:

- `Channel` is the protocol: a command on its way is the one of the host's phase, and an
  answer has its command.
- `Compared` is what VERIFY has established. The address may have gone back to
  `FLASH_Base` by a reset, unnoticed; a VERIFY after it then compares the next data with the
  first of the file, which differ, and fails. The model numbers the units of a file, so this
  leans on files whose parts differ; a file that repeats itself could pass.
- `Startable` says for each position what the boot program may find, with the flag.
- `Programmed` counts how far a clean session has got: page counter and buffer account for
  what was acknowledged, and the first VERIFY completes the last page.

`BleUartProofs` proves `TypeOK`, `FifoHoldsBacklog` and `NotifiesNextBytes` for every size of
the FIFO and the packets. The inductive invariant is `TypeOK /\ Fifo /\ Writers /\ Numbers`:

- `Fifo` is `FifoHoldsBacklog` by the counters, modulo their 16 bits; that the FIFO's size
  divides their range is what keeps a cell in place over the wrap.
- `Writers` gives the room a write of several bytes has counted on, and what it has stored
  but not published.
- `Numbers` says what the packet that was refused is worth, whatever was pushed since.

`EthIapProofs` proves `TypeOK`, `StreamIsSaved`, `CopyCanBeRedone` and `StartsWholeImage` for every set
of images, every size of pages, blocks and ring. The inductive invariant is
`Ranges /\ Connection /\ Stream /\ Saved /\ Committed`:

- `Connection` is the order in which the library's interrupts of one connection arrive:
  before CONNECT nothing is counted, and a socket the program closed still has its
  DISCONNECT to come.
- `Stream` is the account of the bytes: header, saved, in the ring, in the socket; and the
  ring's two positions are as far apart as it has bytes. That whole pages are saved until
  the last keeps `flashProgramLen` on a page boundary.
- `Saved` says how each page of BACKUP is filled, unless one was worn, and during the erasure
  which blocks are already empty.
- `Committed` says for every position and either value of the flag which of USER and BACKUP
  is whole; the header's length, not its checksum, is what makes the saved file whole.

`BleUsbProofs` proves `TypeOK`, `RingsHoldBacklog`, `DealtWithOnce`, `HostGetsNextBytes` and
`PeerGetsNextBytes` for every size of the rings, the packets, the MTU and the byte that counts
a notification, and any number of bytes and faults. That nothing is deleted unsent is proved
up to a payload of `ByteRange - 1`; beyond it, that the two lengths agree modulo `ByteRange`
(lemma `ByteIs`), and the model has behaviours in which they differ. The inductive invariant is
`TypeOK /\ Others /\ Rings /\ Pass /\ Counting /\ Offered`, where `Others` has the types
`TypeOK` leaves out:

- `Rings` is the content of either ring. Its pointers run up to `Size` and not only to the
  last cell, so the write pointer is the read pointer plus the count in the same lap or the
  next, and a pointer at the edge stands for both. The lemmas `Gives` and `Accepts` are about
  one ring; the actions of either direction cite them.
- `Pass` says what is left of a test the loop made before its three ring calls. A packet may
  come in between; the branch of whole payloads survives that, the branch of the rest does
  not, and `raced` says so.
- `Counting` is the host's toggle as a function of what it has heard. A handshake that is
  lost makes it send a packet again with the same toggle, whatever was reset since.
- `Offered` follows a packet through the three steps of its loading and says when the
  endpoint's toggle agrees with the host's.

Three of the proof modules start with the lemmas on remainders they need.

All proofs have a lemma per action or a case per action, and the temporal theorems
follow by PTL. Some invariants are proved and no longer model-checked, because their proof
says more than a run: `TypeOK` of the eight modules other than `MscBot`, `CopyCanBeRedone` of
`OtaUpgrade` and `EthIap`, `FlagsAreBacked` and `RefusedOnlyBehindZlp` of `CdcUplink`.
Model-checked only is every liveness property: fairness and ENABLED are outside what the
prover does. What TLC refutes, the three findings, is of course not proved either.

## Plan

Done: `CdcDownlink`, `OtaUpgrade` with `SafeUpgrade`, `EthUart`, `BleUart`, `UsbIap`, `EthIap`,
`CdcUplink`, `BleUsb` and `MscBot`, each with the proofs of its safety properties, and
`PacketPipe` with the proofs that both `EthUart` and `CdcDownlink` implement it. What is left,
in this order:

1. An abstract specification of the upgrade over TCP and over USB, as `SafeUpgrade` is for BLE,
   with the exceptions of either (`exposed`) as steps of its own; `JumpsToCommitted` and its
   kin of the other boot programs would follow from it.
2. The byte streams of `BleUart`, `BleUsb` and `CdcUplink` as one bounded byte pipe.
3. `Ep0Control`: the control transfers of the USB demos, of which only the requests
   that touch the modelled endpoints are present.

## Not modelled

- The host side beyond what is stated above, and the electrical side.
- The rest of endpoint 0, suspend and endpoint 1 of the bridge: see the plan.
- In `MscBot` the build for an SPI flash, the contents of the tables and the sense data, a
  residue (it is always 0), transfers of no blocks or past the end of the disk, data packs of
  31 bytes, `SET_FEATURE`, and `IFlash_Prog_512` failing or refusing an address, which the
  code does not report either.
- In `BleUsb` `RingAddInStart` and `RingReturnSingleData`, which nothing calls, the other
  endpoints and the rest of endpoint 0. The stack may refuse any notification, for ever too:
  whether it does for a length between the MTU agreed on and the one the client offered is
  inside the binary library, so no liveness is claimed of the bytes to the peer.
- In `BleUart` the BLE to UART direction, whose FIFO has one producer and one consumer in
  the same loop; in `UsbIap` the upgrade mode by a pin, a host that mixes links, and the
  enumeration of the links, which share one buffer.
- What the TCP/IP library and the BLE stack do inside: binary libraries, present in
  `EthUart`, `EthIap` and `BleUart` by what the code reads and expects of them.
- A data toggle mismatch on endpoint 2 OUT, which the handler does not look at: what
  the engine reports then is not in the sources.
- Failures of the flash other than by loss of power, except the one the application
  reports; frames outside the order of the upgrade tool.
- Ethernet MAC driver, BLE, mesh and LWNS demos: their other half is a binary
  library. USB host demos: blocking sequences. StdPeriph drivers and the register
  demos: no state of their own. FreeRTOS, LiteOS-M, RT-Thread, TencentOS: vendored.
