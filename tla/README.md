# Verification of ums-loader

ums-loader is a bare-metal program for a Tegra X1 console. Its menu lets the user
choose volumes (SD card, eMMC user area, the two eMMC boot partitions, or a piece of
one of them) and hands them to a USB mass storage gadget, which serves them to a
PC until they are ejected or the user stops it. There is one thread and no interrupt
handler; the concurrency is with the USB host, with the USB device controller that
moves packets from and to memory and appends events by itself, with the cards, and
with the user's fingers.

The project models the program's own logic from the menu down to the rings it shares
with the controller: `src/ums-loader/main.c` and the menu loop of `gfx/tui.c`, the
gadget `src/bdk/usb/usb_gadget_ums.c`, the USB driver `src/bdk/usb/xusbd.c`, and the
storage logic of `src/bdk/storage/sdmmc.c`, `sd.c` and `emmc.c`.

## The system

| component | state | operations | interacts with | must hold |
|---|---|---|---|---|
| gadget main loop (`usb_gadget_ums.c`) | `usbd_gadget_ums_t`, `bulk_ctxt_t` | get a command, parse, reply, status, exceptions, buttons | endpoint functions, SCSI handlers | every command answered by one data phase and one status, no locked unit given up |
| SCSI commands (same file) | `logical_unit_t`, residue, sense data | `_scsi_*` | storage, endpoint (double-buffered read) | no access outside a volume, honest residue, sense and status |
| bulk endpoints (`xusbd.c`) | queues, `tx_count`, `tx_bytes`, events | in_write, out_read, finish, `_xusb_ep_operation` | controller, host | memory of a queued transfer left alone, waits that end |
| rings (`xusbd.c`) | enqueue and dequeue places, cycle bits | queue a TRB, take an event | controller | each entry taken once and in order over every wrap |
| control endpoint, enumeration (`xusbd.c`) | `device_state`, `config_num`, `wait_for_event_trb`, port | setup requests, port changes, class requests | gadget through `bulk_reset_req` | states the host can see reached in its order, every request answered |
| storage (`sdmmc.c`, `sd.c`, `emmc.c`) | `initialized`, `partition`, speed, power, clock | read, write, set up anew, fall back to a lower speed, power off | SDMMC driver, gadget, menu | retries end, and restart the same transfer |
| menus (`main.c`, `gfx/tui.c`) | mount modes, partition table, offset, size | toggles, selectors, start | gadget through `usb_ctxt_t` | what is shown is what is mounted, inside its device as far as the code sees to it |
| boot and stop (`main.c`, `start.s`) | boot configuration | autostart, stop action, reload | menus, power | the configured devices and no others |
| heap, hardware set-up (`bdk/mem`, `soc`, `power`, `display`) | | | | |

What is hard about it: the host and the controller run beside the thread, and a buffer
lent to the controller is also a buffer of the next card access; the OUT buffer is at
times the second buffer of a read; requests stay queued over time-outs; a reset can
come between any two steps; a card can fail in the middle of a transfer, or be
set up anew under it; the sizes and directions announced by the wrapper and those
of the command may disagree; several units share one eMMC with one partition
selected; the interrupt handshake of the event ring lets an event fall between the
acknowledgement and the read of the place; one variable tells what the next event is
awaited for, whatever the endpoint; and the end of the loop is decided by a heuristic
counter. `PROJECT.json` lists each hazard at its line.

## Modules

| module | models | how |
|---|---|---|
| `UmsState` | the variables of the gadget, the endpoint, the host; types and assumptions on the constants | one variable or record field for each field of `usbd_gadget_ums_t`, `bulk_ctxt_t`, `xusbd_controller_t` that steers something |
| `XusbBulk` | the bulk endpoints as queues: requests, events, `_xusb_ep_operation`; controller and host as environment | a request appends to a queue; controller and host complete it and append an event; the thread takes events only while it waits (`pc` in `OutWaits`, `InWaits`) |
| `UmsScsi` | `_parse_scsi_cmd`, `_check_scsi_cmd`, the handlers, the loops of read, write and verify with the card accesses | one action per way through a handler up to the next wait, one per iteration of a loop between its waits |
| `UmsGadget` | the main loop, `_received_cbw`, `_finish_reply`, `_send_status`, `_handle_exception`; `Init`, `Next`, `Spec` | one action per function, or per part of it between waits |
| `BlockDevice` | what the gadget promises, abstractly: one command at a time, its sectors touched in order without gap, one answer that says how far they came | `UmsProperties!Device` is the refinement mapping |
| `SdmmcStorage` | `_sdmmc_storage_readwrite`, `sd_initialize`, `sd_init_retry`, `emmc_initialize`, `emmc_init_retry`, `sdmmc_storage_end`, power and clock | one action per attempt: a set-up, a command tried, the judgement of a failure |
| `StoragePromise` | what a card promises its users: an ordered transfer that is complete if it succeeds | `StorageProperties!Promise` is the mapping |
| `XusbRing` | transfer rings with a link TRB, the event ring of two segments: places and cycle bits of both sides | operators on records; `todo` is the history of what was put on a ring and not taken yet |
| `XusbCtrl` | `xusb_device_enumerate`, `_xusbd_handle_ep0_control_transfer`, `_xusb_handle_port_change`, `_xusb_handle_transfer_event`, `xusb_device_class_send_max_lun`, over those rings | `_xusb_ep_operation` is cut where the controller can come between: interrupt, read of the place, each event, the last store |
| `UmsMenu` | `main`, the volume menu, the sub-storage menu, its number selector, the volumes they make | one action per button press and callback; cards may fail at each access |
| `UmsProperties`, `StorageProperties`, `UsbProperties`, `MenuProperties` | the properties of each | |
| `MCUms`, `MCStorage`, `MCUsb`, `MCMenu` | values of the constants for TLC | |
| `XusbBulkProofs`, `UmsGadgetProofs`, `BlockDeviceProofs`, `SdmmcStorageProofs`, `XusbRingProofs`, `XusbCtrlProofs`, `UmsMenuProofs`, `UmsTalkProofs` | theorems, and the lemmas they rest on | |

How they meet. `UmsGadget` runs over the queues of `XusbBulk`; `XusbRing` shows,
in `XusbCtrl`, when rings are such queues (`BulkInOrder`). `UmsScsi` sees an access to a
card as succeeding, failing for good, or succeeding after a set-up that forgot the
partition; `SdmmcStorage` is what leads there. The `volumes` of `UmsMenu` are the
`NumSectors`, `Ro`, `LunType`, `LunPart` of the gadget: they are made exactly as
`usb_device_gadget_ums` reads them (`Resolved`).

### The gadget

- `pc` is the place in the thread's code. `"top"` is the head of the loop, `"parse"`
  to `"csw_wait"` the phases of a command, `"rd"`, `"wr"`, `"vf"` the heads of the
  three transfer loops, `"exit"` the end. Between two values of `pc` the thread does
  not look at the endpoint, so a stretch of code without a wait is one action.
- Lengths are in units, `BlkLen` of which make a sector, so that a transfer can end
  inside a sector. `EpMax` is the largest endpoint transfer (64K,
  `USB_EP_BUFFER_MAX_SIZE` = `USB_EP_BULK_OUT_MAX_XFER`); `U32` the width of a `u32`.
- The data itself is a kind: `"data"` (what the transfer should carry), `"csw"`, and
  `"junk"` once the memory of a queued transfer has been written to (`Overwritten`).
- A wrapper (`Cbws`) carries what the code looks at: unit, direction, announced size,
  and the command with its length and first sector, and three truth values: whether the
  command has only bits of the mask of `_check_scsi_cmd`, passes its handler's field
  checks, and has the length its handler needs.
- `ep.in_op` counts the events still to be taken in the present
  `_xusb_ep_operation`, which takes all that are there and returns the result of the
  last one.
- `info_valid` is merged into `sense_data_info` (`NoInfo`). "Saving parameters not
  supported" is folded into "invalid field". The retries of an access stay inside it.
- `luns[16]`, which `_handle_exception` clears before the first command, lies over
  `timeouts` and `xusb`: the model does to them what that assignment does
  (`HandleReset`, `HandleExit`).
- `moved`, `disk` and `faults` are history variables; `host` is the host: it starts
  any wrapper of `Cbws` when it is idle, takes or sends the data it announced, takes the
  status, and is `"stuck"` after anything that is against the Bulk-Only protocol, until
  it resets the device.

### The storage

One behaviour is that of one card. `pc` is `"try"` in the loop of
`_sdmmc_storage_readwrite`; `"restart"`, `"cycle"`, `"init"`, `"judge"`, `"giveup"` are
the places of the two `initialize` functions and of `init_retry`, with `caller` telling
who is to be returned to. `mode` is `sd_mode` or `emmc_mode` with its `u32` arithmetic
(`(mode - 1) % U32`). The dozens of commands of a set-up are one step with its outcomes
(`InitOutcomes`): the host controller does not start, the card does not answer, all is well.
`moved` is the set of pairs of place and sector moved since the last set-up.

### Rings, control endpoint, enumeration

`xotg` is `usbd_xotg` with its rings, `op` the locals of `_xusb_ep_operation`, `ip` the
interrupt, `events` the event ring, `host` the host's control transfer. The requests are
told apart by what their handlers do, not by their bytes (`Requests`). An entry that was
taken keeps its cycle bit only. Every control transfer has a number, as the controller
gives it to the driver (`ctrl_seq_num`); a stage queued for an earlier one is refused.

### The menus

`screen` is the function the program is in; `cursor` and `sub_cursor` are the selected
entries of the two menus. `sub` is `sub_cfg` with the entries that are disabled and
the texts shown (`shown`), which the code updates at some of the places where the
configuration changes. Tables and capacities are constants; cards fail at boot
or at the reading of a table.

In all modules, operators under a comment "Seeded bug" are not used by the
model. Each is a plausible mistake in the definition below it, kept to show that a
property notices.

## Runs

| run | shows | distinct states |
|---|---|---|
| `talk` | a faultless host and one card: transfers of one and of several pieces, READs and WRITEs from the end of the card on, a VERIFY across it, commands that disagree with their wrapper or are refused. No buffer is refilled while it is sent (`InFlightIntact`), the OUT buffer is not lent while a packet may land in it (`BorrowedBufferFree`), one request at a time (`OneRequest`), one data phase and one status for each command (`HostInSync`, `DataPhaseOver`), all commands answered (`HostServed`), the buttons looked at again (`StopHeard`), and all of it is a `BlockDevice` | 0.33 million |
| `faults` | up to two faults of twelve kinds in one behaviour, on two units, one write-protected: types, the account of residue and units moved (`ResidueTruthful`), honest status and sense data (`PassMeansDone`, `SenseInfoExact`), no access outside a volume, to a read-only one or to one that is not ready (`AccessAllowed`, `MediumReady`), still a `BlockDevice` | 1.9 million |
| `eject` | two eMMC partitions locked, read and ejected, port asleep or not, buttons pressed: `AllUnmountedExact`, `PartitionRight`, `NoUnsafeExit`, `MediumReady`, and the loop ends (`EjectEnds`) | 0.53 million |
| `storage` | a card that may fail at every command and every set-up, or be pulled: `ReadyHasPower`, `SpeedFalls`, every call returns (`CallReturns`), and it keeps `StoragePromise` | 11 thousand |
| `menu` | all sequences of button presses over devices with any tables, failing or not: what is shown is what is mounted (`MenuMountsSet`, `ShownIsMounted`); the drive the gadget makes of it ends inside its device if it begins there and its size is meant (`MountedInside`); the selected entry can be pressed; no division by zero; the number selector stays in bounds and does not hang (`SelectorBounded`) | 2.1 million |
| `usb` | enumeration and requests over rings of three entries, the port changes of one connection while others are handled, a host that gives a request up: both sides agree on every ring (`ControlInOrder`, `BulkInOrder`), the guard of status and data stages is exact (`ControlExact`), requests are handled at the speed of their connection (`SpeedKnown`), states are reached in the order the host sees (`ToldFirst`), no request is left without an answer (`NobodyForgotten`) | 1.3 million |
| `throw_away`, `spin`, `reset`, `reinit`, `menu_sub`, `usb_reconfigure` | the six findings | |

The six findings, each against a sentence of the code:

1. `throw_away`: `_throw_away_data` throws away one endpoint buffer of a refused write,
   not all (`usb_gadget_ums.c:1453-1482` against the comment at 1540). The test "a short
   packet or an error ends everything" at 1473 never fails either: the function returns
   before it looks at the transfer.
2. `spin`: a write that reaches past the end of the medium within one endpoint transfer
   makes `_scsi_write` loop forever (`usb_gadget_ums.c:614-707`), so that the way to stop
   that `main.c:176` announces does not work. `WriteSpin` is this iteration without effect.
   A wrapper that announces less data than the command has, and not a whole number of
   sectors, comes to the same: the part of a sector that is left is never written.
3. `reset`: nothing is flushed on a reset (`xusbd.c:2199` against
   `usb_gadget_ums.c:1786`), and what was queued before it is sent after it.
4. `reinit`: a card set up anew restarts the transfer on another partition
   (`sdmmc.c:314`, 678).
5. `menu_sub`: a sub-drive of BOOT0 is on the user area, one of BOOT1 on BOOT0: the
   sub-storage menu counts partitions from zero, the gadget from one (`main.c:605-622`
   against the entry text at 263).
6. `usb_reconfigure`: a second SET_CONFIGURATION starts the bulk rings over without
   clearing them, and the controller takes their old entries for new ones
   (`xusbd.c:1651`; only `xusb_device_init` clears, 956-958).

### Bounds, and why they are enough

Gadget. A sector has two units, a wrapper or a fixed reply one, an endpoint transfer
four sectors; an SDMMC read is of two sectors, or four for a request of ten and more. One
SD card of 11 sectors gives reads of one to five chunks, which is every case of the
double buffering (first, middle, last, odd and even), and writes of one to three endpoint
transfers. `Cbws` bounds the commands. Two faults (`MaxFaults`) are enough for one fault to
hit what another left behind. `MaxQueued` bounds the requests left in the OUT ring when
another command is awaited, which only grows after an early reset has cleared `xusb`;
that bound blocks the thread at its limit, and this is why the faults run does not check
for deadlock; the other runs of the gadget do. The talk run leaves out what the code does
not get right: wrappers that announce host data announce at most one endpoint transfer
(finding 1); a WRITE past the end starts at the end, and no WRITE is cut inside a sector
by its wrapper (finding 2: TLC finds `StopHeard` and `HostServed` violated by either); a
READ past the end starts there as well; no READ, WRITE or VERIFY of length zero announces
data. In the last two cases TLC finds
`HostInSync` violated, and these are hazards without a property: a READ across the end
breaks out of its loop while the chunk before may still be sent, and `_pad_with_zeros`
clears and sends that buffer (`usb_gadget_ums.c:510-516`, 1434-1445); a reply of length
zero is padded from the length of an earlier one. The same conditions, for any sizes, are
`Answerable` in `UmsProperties`; `TalkEnvironment` in `MCUms` has TLC confirm that the
run's commands meet them.

Storage. `Tries` and `TriesAfter` are those of the code (5 and 3), `TopSpeed` is that of
both cards (4), a command moves two sectors and a request one to five, so that a failure
comes before, between and after commands. The run does not check for deadlock because the
program ends when it switches the console off.

Menu. An SD card of seven sectors, an eMMC of one and boot partitions of two, so that
the next device is larger or smaller; two tables for each card, with partitions inside
it, reaching past its end and beginning behind it, more of them than there is room for
and fewer than on the other card; numbers of two digits in base three, so that the
selector wraps and meets its maximum; nine, the numbers there are, is `U32`, so that
a difference wraps where it would. Three configurations: the default, and two with
autostart, one for each stop action, whose modes of three cannot be toggled, which keeps
the run small. `off` and `hung` end the program, hence no deadlock check.

Two conditions are in the properties because the code does not see to them, and TLC finds
a violation without either. `SizeMeant`: the gadget takes a size of zero for all the
sectors of the card, but keeps the offset and the boot partition
(`usb_gadget_ums.c:1945-1947`), so the drive reaches past its device; the menu lets zero
be chosen, and a partition of size zero brings it along. `BeginsInside`: a table is taken
as it is (`main.c:339-361`); for a partition that begins behind the end,
`phys_size - offset` wraps (`main.c:378`), so the size is not cut, and the offset exceeds
the selector's maximum, where its loop (`main.c:544`) may never end (`SelectHangs`).
Partitions that begin inside and reach past the end are cut, and the properties cover
them.

USB. Rings of three entries (two and the link) wrap every other transfer; the event ring
of three entries is full with two. Control transfers are numbered modulo two: a number
meets its predecessor's. One plugging in (of a second one only the theorem
`SpeedIsKnown` speaks) and one request given up in a behaviour; after the latter the
host makes only the requests of the enumeration, and the behaviour is followed to its
end (`ShortAfterGivingUp`, the CONSTRAINT of the run), which is where an interrupted
transfer can disturb the states. The requests "plain", "halt", "clear", "reset" and
"unknown" are not sent in the run, for its size: they end in `StatusIn` or `Stall` like
others that are; the theorems on the control endpoint cover them. The gadget leaves no
more transfers on a bulk ring than it has room for (`GadgetQueues`): the driver never
looks, which is a hazard of its own. Deadlock is checked: the thread always has a step.

### Fairness

`UmsProperties!FairSpec`: weak fairness of the thread, of the events it takes and of its
timers (straight-line code that cannot be pre-empted), and of the controller's moving
packets that both sides are ready for. The host is not forced to start commands, and no
fault is forced. `WriteSpin` is a step of the thread without effect, so it counts
neither as progress nor as a deadlock. A wait ends by a time-out only where the host
cannot take or send the transfer, or as a fault.

`SdmmcStorage!FairSpec`: weak fairness of setting up and of trying a command; which way
a command or a set-up goes is left open, so `CallReturns` holds for a card that always
fails as well. Nothing is assumed of callers, of the slot, or of the menus and the USB
host, whose runs state no liveness.

## Proofs

All for every value of the constants that satisfies the named assumptions.

| theorem | module | property |
|---|---|---|
| `Invariance` | `UmsGadgetProofs` | `IInv`, the inductive invariant of the gadget |
| `TypeCorrect`, `MediaSafe`, `EjectedExact`, `ResidueExact`, `PassExact`, `MediumIsReady` | `UmsGadgetProofs` | `TypeOK`, `AccessAllowed`, `AllUnmountedExact`, `ResidueTruthful`, `PassMeansDone`, `MediumReady` |
| `ExitIsSafe`, `PartitionSelected` (each for a stated environment) | `UmsGadgetProofs` | `NoUnsafeExit`, `PartitionRight` |
| `PlaceKept`, `ImplementsBlockDevice` | `BlockDeviceProofs` | `DInv`; `IsBlockDevice`, the refinement of `BlockDevice` |
| `SenseExact` | `BlockDeviceProofs` | `SenseInfoExact` |
| `Conversation`, `RequestsSingle`, `BuffersIntact`, `BorrowingSafe`, `InSync`, `StatusAfterData` (for a stated environment) | `UmsTalkProofs` | `TalkInv`; `OneRequest`, `InFlightIntact`, `BorrowedBufferFree`, `HostInSync`, `DataPhaseOver` |
| `StorageTypeCorrect`, `ReadyIsPowered`, `SpeedOnlyFalls` | `SdmmcStorageProofs` | `TypeOK`, `ReadyHasPower`, `SpeedFalls` |
| `ImplementsPromise` | `SdmmcStorageProofs` | `KeepsPromise`, the refinement of `StoragePromise` |
| `UsbTypeCorrect`, `RingsInOrder`, `QuietIsQuiet` | `XusbCtrlProofs` | `TypeOK`, `ControlInOrder`, `ControlExact` |
| `HostIsTold`, `AnswerUnderWay` | `XusbCtrlProofs` | `ToldFirst`, `NobodyForgotten` |
| `BulkIsInOrder`, `SpeedIsKnown` (each for a stated environment) | `XusbCtrlProofs` | `BulkInOrder`, `SpeedKnown` |
| `MenuTypeCorrect`, `SubMountsInside`, `MountsWhatIsShown`, `SelectionLives`, `PartToggleSafe`, `SelectorStaysBounded`, `MenuMountsExactly` | `UmsMenuProofs` | `TypeOK`, `MountedInside`, `ShownIsMounted`, `SelectedLives`, `PartToggleDivides`, `SelectorBounded`, `MenuMountsSet` |

The assumptions: of the gadget `SizesAssumption` (positive sizes; a wrapper is shorter
than a sector, an endpoint transfer is a whole number of sectors and holds an SDMMC
read), `LunsAssumption`, `HostAssumption`; of the storage `StorageAssumption` (requests
have sectors, at least one speed and one try); of the rings `RingAssumption` (at least two
entries and a link) and `CtrlAssumption`; of the menus `MenuAssumption` (capacities
and the numbers of a partition table fit a u32; the partitions of a table may lie
anywhere). `WeightAssumption` of the menus says
that the weights are the powers of the base; the proofs do not use it.

Some theorems hold for a stated environment. Those of the gadget are defined at the end
of `UmsProperties`; the runs that check the properties are such environments, for
`Talking` TLC confirms it (`TalkEnvironment`). What happens in any other is known:

- `ExitIsSafe` under `Connected`: no endpoint is found disabled. The loop leaves on a
  disabled endpoint whatever is locked, since there is no one left to tell.
- `PartitionSelected` under `CardsHold`: no card fails to switch its partition, and none is
  set up again, which puts the eMMC back to its user area. Nothing looks at the result of
  the switch (`usb_gadget_ums.c:1695`): a hazard without a property.
- The theorems of `UmsTalkProofs` under `Talking`, which has three parts. `Orderly`: only
  the buttons, a port asleep and a failing switch of partitions may occur; after a
  time-out of a transfer the code goes on although it is still queued
  (`usb_gadget_ums.c:1445`), a set-up of a card writes to a buffer being sent
  (`sdmmc.c:1655`), nothing is flushed on a reset (finding 3), and a host that sends junk or
  too little is out of step by itself. `PacketsFit`: the sizes of 64 or 512 bytes a
  packet, 512 a sector and 32K an SDMMC read. `Answerable`, of each wrapper the host may
  send: it is for a unit that exists (for any other the gadget sends no status), and avoids
  finding 1, the READ across the end and the padding of a reply that is not there (see
  Bounds). WRITEs that never end (finding 2) are included: they stop, but do no harm.
- `BulkIsInOrder` under `NoReconf`, and only while the host gave no request up: a second
  SET_CONFIGURATION starts the rings over (finding 6, run `usb_reconfigure`).
- `SpeedIsKnown` under `OneReport`: one connection, or every change of the port
  acknowledged with the others. The driver takes a warm reset's change out of its copy of
  the register (`xusbd.c:1357`) before it acknowledges from that copy, so the change stays
  set, and the next one with it is not reported as new. With two connections of different
  speeds TLC finds a request handled with the earlier speed; this is listed as a hazard.

Arguments. No property is inductive by itself.

- Gadget, `IInv`: a chunk stays inside its volume because of where the loop stands, so
  it adds `InvUnit` (a command has a unit while it is carried out), `InvMedium` (a
  transfer loop runs for a unit that is neither ejected nor has a unit attention pending,
  at or below the end of the volume), `InvRead` and `InvWrite` (a chunk fits what is
  left, the volume and the endpoint; what is still to be asked of the host and what was
  asked and not yet written are together no more than what is still to be written),
  `InvAccount` (size announced = residue + units moved, up to the status), `InvDone` (a
  transfer without sense data, phase error or short packet has moved all whole sectors
  once its loop is over).
- Ejection, `LockInv`: the count that ends the loop stands still while a unit is locked
  and not ejected, and starts from zero with the command that locks one; so the exit is
  raised only when none is. Partition, `PartInv`: without a card that fails, the partition
  selected is that of the unit in use, from the first command for that unit on.
- Sense data, `SenseExact`: from `DInv`, since the address put into the sense data is the
  position of the loop, which `Place` ties to the sectors moved. A malformed command is
  left out of `SenseInfoExact`: it is refused before the sense data are cleared, so those
  of an earlier command are still there.
- Refinement of `BlockDevice`, `DInv`: `IInv` and `Place`, which ties the position of
  each loop to what was moved before (`InvPlace`), so that the next access begins where
  the last one ended. Each action maps to the abstract action of its name or to a stutter;
  controller and host always stutter.
- Conversation, `TalkInv`: `IInv` and `Phases`, which says for each place of the thread what
  the endpoint holds (`Asked`, `Came`, `Got` a request; `Sending`, `Sent`, `Over` a
  transfer; `Settled`) and what the host has left of its data phase (`Owes`). The link
  between the two sides is the account: while a reply is made, the host is owed the
  residue and the reply together; in a read, it is owed the residue and the chunk in
  the buffer that is not being filled (`AtRead`); in a write, what is still to be asked
  and what was asked (`AtWrite`); with the status, nothing (`AtStatus`). The
  properties follow because in every phase at most one transfer or request is queued,
  and none while the thread touches a buffer it could be in (`Queues`).
- Storage, `StorageInv`: `Tried` says that place, offset and remaining count of a
  transfer always add up to the request and that exactly the sectors before the place
  were moved; after a failed set-up the power may be off, but then `initialized` is clear.
- Rings, `RingOK`: the entries from the controller's place on, as many as are
  outstanding, carry the cycle bit of a new entry and all others do not; the link is new
  exactly when the outstanding entries reach over it. `XusbRingProofs` proves that each
  operation of either side keeps it, `EventsOK` likewise. `CtrlInv` adds `CtrlOK`: at
  most one stage or event of the control endpoint is outstanding, and the two places say
  whether.
- Dialogue, `HostInv`: while the host gave nothing up, each moment of its dialogue with
  the device is in one phase (`Resting`, `Asking`, `Working`, `Between`, `Refused`,
  `Unanswered`), which says what is on the control ring, what among the events, and what the
  thread is about to do. A phase has one way on, so a waiting host has an answer under way,
  and a request it has made is answered before it makes the next.
- Bulk rings, `BulkInv`: until the gadget runs the rings are `Fresh`, as
  `xusb_device_init` cleared them, so a configuration that sets their places back leaves
  them in order; afterwards no SET_CONFIGURATION is among the events (`NoConfigure`).
  That needs the dialogue: the host asks for the number of units after its configuration.
- Speed, `SpeedInv`: a connection's change of the port comes before all its requests among
  the events (`PortFirst`), and the speed is read when the change is handled.
- Menus, `MenuInv`: `Follows` (the disabled entries and the texts follow from the
  configuration, though the code updates them one by one), `Inside` (the size known of the
  device is its own, or zero where the card could not be read; the sub-drive begins inside
  it if all partitions of the table do, and ends inside it if it begins there), `SelOK`
  (the selector's maximum is still that of the sub-drive, and its value within it). The
  selector does not hang because a number within the maximum stays within it when one
  digit becomes zero, so that VOL- finds a digit (`LowerFits`). `SubMountsInside` adds what
  the gadget makes of the volume: a size of zero that is meant is the whole card.

For each step there is one lemma per action, or per part of one, and in it one step for
each conjunct the action disturbs; the last step of a theorem is the temporal one.

Only model-checked: liveness (`HostServed`, `StopHeard`, `EjectEnds`, `CallReturns`),
which the prover does not reach. Every safety property of the passing runs is a theorem.

## Not modelled

- The bytes of replies, descriptors, texts and graphics, and of boot records and
  partition tables: nothing the properties tell apart depends on them.
- The register sequences of drivers (SDMMC controller commands, DMA and tuning, clocks,
  power, display, touch, fuses, memory training): straight-line programming whose effect
  is in the hardware. Of the SDMMC driver, power and clock are in `SdmmcStorage`.
- The heap: a first-fit list used by the start-up code; nothing is allocated while the
  menu or the gadget runs.
- The second USB controller driver (`usbd.c`), the other gadget (`usb_gadget_hid.c`) and
  whatever else the Makefile leaves out: no behaviour of the program.
- Third-party code under `bdk/libs`: FatFs, LVGL, the decompressors. They and the drivers
  are most of the repository's lines, so the share of lines the modules
  stand for is small although the program's own logic is covered.
- Of the control endpoint: the checks of interface numbers, the stall of an unknown
  request with data from the host, and the time-outs of the register that stalls an
  endpoint. `OpLook` reads the controller's place and the first cycle bit in one step; the
  code reads them one after the other (`xusbd.c:1885-1889`), and can only see an event
  more.
- Time: a wait ends by a time-out or it does not; how long it takes is left out. The
  heuristics that count a silent host out are modelled by their counter (`Penalty`).
