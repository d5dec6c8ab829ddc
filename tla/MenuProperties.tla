---------------------------- MODULE MenuProperties ----------------------------
(***************************************************************************)
(* What the user may count on: what the menus show is what is mounted.     *)
(***************************************************************************)
EXTENDS UmsMenu

SubType ==
  [device : Devices, mode : {"part", "offset"}, part : Slots, n_parts : 0 .. MaxParts,
   parts : [Slots -> [offset : 0 .. U32 - 1, size : 0 .. U32 - 1]],
   offset : 0 .. U32 - 1, size : 0 .. U32 - 1, ro : BOOLEAN, phys_size : 0 .. U32 - 1,
   disabled : SUBSET {MODE, PART, OFFSET, SIZE},
   shown : [part : Slots, offset : 0 .. U32 - 1, size : 0 .. U32 - 1, ro : BOOLEAN]]

\* Every variable has its type: numbers stay inside a u32, the partition inside
\* part_table.parts.
TypeOK ==
  /\ screen \in {"boot", "menu", "ums", "sub", "sub_ums", "select", "hung", "off"}
  /\ storage_state \subseteq {"SD", "EMMC"}
  /\ config \in Configs
  /\ mount_modes \in [Devices -> 0 .. 3]
  /\ cursor \in 0 .. 12 /\ sub_cursor \in 0 .. 11
  /\ sub \in SubType
  /\ sel \in [of : {"none", "offset", "size"}, val : 0 .. U32 - 1, max : 0 .. U32 - 1,
              digit : 0 .. Digits - 1]

\* The gadget that the main menu or autostart starts gets each device that is
\* to be mounted, whole, in the mode that is set, with the eMMC
\* partition its SCSI side then selects, and none of a card that was not found
\* at boot.
MenuMountsSet ==
  screen = "ums" =>
    /\ {Resolved(v) : v \in volumes} =
         {Range(d, 0, SizeOf(d), mount_modes[d] = RO) :
             d \in {e \in Devices : mount_modes[e] # NO_MOUNT}}
    /\ \A d \in Devices : mount_modes[d] # NO_MOUNT => Available(d)

\* No partition loaded begins behind the end of the device.
BeginsInside(c) == \A i \in Slots : c.parts[i].offset <= c.phys_size

\* A size of zero stands for as many sectors as the card has, wherever the drive
\* begins (usb_device_gadget_ums): right for a whole card only.
SizeMeant(c) == c.size = 0 => c.offset = 0 /\ c.device \in {SD, GPP}

\* The drive that the gadget makes of a sub-drive ends inside the device that was
\* chosen, after any sequence of choices of device, mode, partition, offset and
\* size, also when a partition reaches past the end of its card (the cut of
\* ums_sub_storage_size_update).  The code does not keep it inside in two cases: a
\* drive that begins behind the end, where that cut wraps, and which only a
\* partition that begins there makes; and a size of zero for less than a card.
MountedInside ==
  screen = "sub_ums" =>
    /\ BeginsInside(sub) => sub.offset <= sub.phys_size
    /\ sub.offset <= sub.phys_size /\ SizeMeant(sub) =>
         \A v \in volumes : Resolved(v).offset + Resolved(v).sectors <= SizeOf(sub.device)

\* What the sub-storage menu shows is what it mounts; a size of zero stands for
\* the whole device (usb_device_gadget_ums).
ShownIsMounted ==
  screen = "sub_ums" =>
    \A v \in volumes :
      /\ v.offset = sub.shown.offset /\ v.ro = sub.shown.ro
      /\ sub.shown.size # 0 => Resolved(v).sectors = sub.shown.size

\* The selected entry can be pressed: no action disables the entry it was
\* started from, which would leave the buttons without effect.
SelectedLives ==
  /\ screen \in {"menu", "ums", "sub", "sub_ums", "select"} => cursor \in MainEntries
  /\ screen \in {"sub", "sub_ums", "select"} => sub_cursor \in SubEntries

\* ums_sub_storage_part_toggle_cb divides by the number of partitions.
PartToggleDivides == screen = "sub" /\ PART \in SubEntries => sub.n_parts > 0

\* The number selector stays within what it was asked for, and VOL- finds a lower
\* digit: only an offset that a partition brought from behind the end of the device
\* exceeds the maximum, and the loop of ums_sub_storage_u32_selector may not end.
SelectorBounded ==
  screen \in {"select", "hung"} /\ BeginsInside(sub) =>
    screen = "select" /\ sel.val <= sel.max

\* The text of the device entry: the sub-drive is on the device it names.
SubOnDevice ==
  screen = "sub_ums" =>
    \A v \in volumes : Resolved(v).partition = Range(sub.device, 0, 0, FALSE).partition
=============================================================================
