------------------------------- MODULE UmsMenu -------------------------------
(***************************************************************************)
(* The payload's main program: boot configuration, the menu of volumes,    *)
(* the sub-storage menu and its selector of numbers, and what they hand to *)
(* the mass storage gadget.  The user presses buttons one at a time; cards *)
(* may fail to start or to be read whenever they are.                      *)
(***************************************************************************)
EXTENDS Integers, Sequences, FiniteSets

CONSTANTS
  Configs,      \* boot configurations: mount modes, autostart, stop action
  Capacity,     \* [{"SD", "EMMC"} -> sectors], storage->sec_cnt
  BootSize,     \* sectors of an eMMC boot partition (0x2000)
  TablesOf,     \* [{SD, GPP} -> partition tables the device may have]
  MaxParts,     \* partitions a table of the menu has room for (30)
  U32,          \* modulus of a u32
  Base, Digits, \* the selector shows it as Digits digits of this base (4 bytes)
  Weight,       \* weight of each digit
  IsT210        \* a chip that can reboot to RCM

SD == 0  GPP == 1  BOOT0 == 2  BOOT1 == 3
Devices == SD .. BOOT1

NO_MOUNT == 0  RO == 1  RW == 2

Slots == 0 .. MaxParts - 1

NoPart == [offset |-> 0, size |-> 0]

StorageOf(d) == IF d = SD THEN "SD" ELSE "EMMC"

\* The sectors of a device.
SizeOf(d) == IF d \in {BOOT0, BOOT1} THEN BootSize ELSE Capacity[StorageOf(d)]

\* What may be read from a card for its table: any numbers, inside the device or
\* not.  An MBR has four partitions at most, a GPT may have more than the menu has
\* room for.
TableType ==
  {t \in [kind : {"GPT", "MBR"}, parts : Seq([offset : 0 .. U32 - 1, size : 0 .. U32 - 1])] :
     t.kind = "MBR" => Len(t.parts) <= MaxParts + 1}

ASSUME MenuAssumption ==
  /\ U32 \in Nat /\ U32 > BOOT1 /\ MaxParts \in Nat \ {0}
  /\ Base \in Nat \ {0, 1} /\ Digits \in Nat \ {0} /\ Weight \in [0 .. Digits - 1 -> Nat \ {0}]
  /\ Capacity \in [{"SD", "EMMC"} -> 1 .. U32 - 1] /\ BootSize \in 1 .. U32 - 1
  /\ \A d \in {SD, GPP} : TablesOf[d] \subseteq TableType
  /\ \A c \in Configs : c.modes \in [Devices -> 0 .. 3]

ASSUME WeightAssumption == U32 = Base ^ Digits /\ \A i \in 0 .. Digits - 1 : Weight[i] = Base ^ i

VARIABLES
  screen,         \* what the program shows
  storage_state,  \* cards that could not be started at boot
  config,         \* ums_loader_boot_cfg
  mount_modes,    \* [Devices -> mount mode]
  cursor,         \* selected entry of the main menu
  tables,         \* the partition tables on the cards
  sub,            \* sub_cfg, and the disabled entries and texts of its menu
  sub_cursor,     \* selected entry of the sub-storage menu
  sel,            \* locals of the number selector
  volumes         \* what the gadget runs with

vars == <<screen, storage_state, config, mount_modes, cursor, tables, sub, sub_cursor,
          sel, volumes>>

mainVars == <<storage_state, config, mount_modes, cursor, tables>>

NoSub == [device |-> SD, mode |-> "part", part |-> 0, n_parts |-> 0,
          parts |-> [i \in Slots |-> NoPart], offset |-> 0, size |-> 0, ro |-> FALSE,
          phys_size |-> 0, disabled |-> {},
          shown |-> [part |-> 0, offset |-> 0, size |-> 0, ro |-> FALSE]]

NoSel == [of |-> "none", val |-> 0, max |-> 0, digit |-> 0]

MinOf(a, b) == IF a < b THEN a ELSE b

-----------------------------------------------------------------------------
(* Moving in a menu (tui_menu_start).                                      *)

\* Up to the nearest entry that can be selected, or down to it; at the ends the
\* selection stays.
MovesTo(from, entries) ==
  {e \in entries : \/ e < from /\ \A f \in entries : f < from => f <= e
                   \/ e > from /\ \A f \in entries : f > from => f >= e}

\* Seeded bug: the first entry, disabled or not.
BugFirst(entries) == 1

First(entries) == CHOOSE e \in entries : \A f \in entries : e <= f

-----------------------------------------------------------------------------
(* The gadget's view of a volume: where its first sector is, and how many  *)
(* there are (usb_device_gadget_ums, _received_cbw).                       *)

\* A partition the card does not have is refused, and the user area stays.
Selected(p) == IF p \in 0 .. 2 THEN p ELSE 0

Resolved(v) ==
  [type |-> v.type, ro |-> v.ro, offset |-> v.offset,
   partition |-> IF v.type = "SD" THEN 0 ELSE Selected((v.partition - 1) % U32),
   sectors |-> IF v.sectors = 0 THEN Capacity[v.type] ELSE v.sectors]

\* The device d from one sector on.
Range(d, offset, sectors, ro) ==
  [type |-> StorageOf(d), ro |-> ro, offset |-> offset,
   partition |-> IF d = SD THEN 0 ELSE d - GPP, sectors |-> sectors]

-----------------------------------------------------------------------------
(* Boot and the main menu.                                                 *)

Init ==
  /\ screen = "boot" /\ storage_state = {}
  /\ config \in Configs
  /\ mount_modes = config.modes
  /\ cursor = 0
  /\ tables \in [{SD, GPP} -> UNION {TablesOf[d] : d \in {SD, GPP}}]
  /\ \A d \in {SD, GPP} : tables[d] \in TablesOf[d]
  /\ sub = NoSub /\ sub_cursor = 0 /\ sel = NoSel /\ volumes = {}

Available(d) == StorageOf(d) \notin storage_state

\* Seeded bug: the volumes of the eMMC count partitions like the card does.
BugMenuVolume(d) ==
  [type |-> StorageOf(d), offset |-> 0, partition |-> IF d = SD THEN 0 ELSE d - GPP,
   sectors |-> IF d \in {BOOT0, BOOT1} THEN BootSize ELSE 0, ro |-> mount_modes[d] = RO]

\* The volume of a device; its partition counts from one.
MenuVolume(d) ==
  [type |-> StorageOf(d), offset |-> 0, partition |-> IF d = SD THEN 0 ELSE d - GPP + 1,
   sectors |-> IF d \in {BOOT0, BOOT1} THEN BootSize ELSE 0, ro |-> mount_modes[d] = RO]

\* ums_start: the gadget runs with the devices that are to be mounted.
MenuVolumes ==
  {MenuVolume(d) : d \in {e \in Devices : mount_modes[e] # NO_MOUNT /\ Available(e)}}

\* The entries of the main menu that can be selected: the devices, Start UMS,
\* Mount Substorage, Reload, Reboot RCM and Power Off.
Toggle(d) == d + 1
MainEntries ==
  {Toggle(d) : d \in {e \in Devices : Available(e)}} \cup {6, 10, 12}
  \cup (IF storage_state = {"SD", "EMMC"} THEN {} ELSE {8})
  \cup (IF IsT210 THEN {11} ELSE {})

\* A device whose card did not start is not mounted.
ModesAtBoot ==
  [d \in Devices |-> IF Available(d)' THEN config.modes[d] ELSE NO_MOUNT]

\* main: start the cards to see whether they are there, then the gadget right
\* away or the menu.
Boot ==
  /\ screen = "boot"
  /\ storage_state' \in SUBSET {"SD", "EMMC"}
  /\ mount_modes' = ModesAtBoot
  /\ cursor' = First(MainEntries')
  /\ IF config.autostart THEN screen' = "ums" /\ volumes' = MenuVolumes'
     ELSE screen' = "menu" /\ UNCHANGED volumes
  /\ UNCHANGED <<config, tables, sub, sub_cursor, sel>>

MainMove ==
  /\ screen = "menu"
  /\ cursor' \in MovesTo(cursor, MainEntries)
  /\ UNCHANGED <<screen, storage_state, config, mount_modes, tables, sub, sub_cursor, sel,
                 volumes>>

\* ums_cfg_menu_toggle_cb; a mode of three, which only a boot configuration
\* has, stays.
NextMode == [m \in 0 .. 3 |-> IF m = 3 THEN 3 ELSE (m + 1) % 3]

MainToggle ==
  /\ screen = "menu"
  /\ \E d \in Devices :
       /\ cursor = Toggle(d)
       /\ mount_modes' = [mount_modes EXCEPT ![d] = NextMode[@]]
  /\ UNCHANGED <<screen, storage_state, config, cursor, tables, sub, sub_cursor, sel, volumes>>

MainStart ==
  /\ screen = "menu" /\ cursor = 6
  /\ screen' = "ums" /\ volumes' = MenuVolumes
  /\ UNCHANGED <<mainVars, sub, sub_cursor, sel>>

\* The gadget returns, and the stop action is taken.
MainStop ==
  /\ screen = "ums"
  /\ screen' = IF config.stop = "menu" THEN "menu" ELSE "off"
  /\ volumes' = {}
  /\ UNCHANGED <<mainVars, sub, sub_cursor, sel>>

\* menu_reload_cb: the payload starts over, with nothing but its configuration.
MainReload ==
  /\ screen = "menu" /\ cursor = 10
  /\ screen' = "boot" /\ storage_state' = {} /\ mount_modes' = config.modes /\ cursor' = 0
  /\ UNCHANGED <<config, tables, sub, sub_cursor, sel, volumes>>

\* Reboot to RCM, or power off.
MainOff ==
  /\ screen = "menu" /\ cursor \in {11, 12}
  /\ screen' = "off"
  /\ UNCHANGED <<mainVars, sub, sub_cursor, sel, volumes>>

-----------------------------------------------------------------------------
(* The sub-storage menu: load_part_table, and the updates that keep        *)
(* offset, size, the disabled entries and the texts in step with the mode. *)

\* Entries of the sub-storage menu.
DEVICE == 0  MODE == 1  PART == 2  OFFSET == 3  SIZE == 4  READ_ONLY == 5
START == 9  BACK == 11

SubEntries == {DEVICE, MODE, PART, OFFSET, SIZE, READ_ONLY, START, BACK} \ sub.disabled

SetDisabled(c, entry, disabled) ==
  [c EXCEPT !.disabled = IF disabled THEN @ \cup {entry} ELSE @ \ {entry}]

\* The partitions found on a device.  Of an MBR the last one is not counted.
Found(t) ==
  IF t.kind = "GPT" THEN MinOf(MaxParts, Len(t.parts))
  ELSE IF t.parts = <<>> THEN 0 ELSE Len(t.parts) - 1

\* load_part_table; boot partitions have none, and a card that does not start or
\* cannot be read seems to be empty.
Loaded(c, ok) ==
  LET d == c.device
      t == tables[d]
  IN IF d \in {SD, GPP} /\ ok
     THEN [c EXCEPT !.phys_size = SizeOf(d), !.n_parts = Found(t),
                    !.parts = [i \in Slots |-> IF i < Len(t.parts) THEN t.parts[i + 1]
                                               ELSE NoPart]]
     ELSE [c EXCEPT !.phys_size = IF d \in {SD, GPP} THEN 0 ELSE BootSize, !.n_parts = 0,
                    !.parts = [i \in Slots |-> NoPart]]

\* Seeded bug: the size is left as it is when the offset moves.
BugSizeUpdate(c) ==
  SetDisabled([c EXCEPT !.shown.size = c.size], SIZE, c.mode # "offset")

SizeUpdate(c) ==
  LET size == MinOf(c.size, (c.phys_size - c.offset) % U32)
  IN SetDisabled([c EXCEPT !.size = size, !.shown.size = size], SIZE, c.mode # "offset")

\* Seeded bug: the text shows the offset before.
BugOffsetUpdate(c) == SetDisabled(c, OFFSET, c.mode # "offset")

OffsetUpdate(c) ==
  SetDisabled([c EXCEPT !.shown.offset = c.offset], OFFSET, c.mode # "offset")

PartUpdate(c) ==
  LET p    == c.parts[c.part]
      here == IF c.mode = "part" THEN [c EXCEPT !.offset = p.offset, !.size = p.size] ELSE c
  IN SizeUpdate(OffsetUpdate(SetDisabled([here EXCEPT !.shown.part = c.part],
                                         PART, c.mode # "part")))

\* Seeded bug: the mode stays when there are no partitions to choose from.
BugModeUpdate(c) == PartUpdate(SetDisabled(c, MODE, c.n_parts = 0))

ModeUpdate(c) ==
  PartUpdate(SetDisabled(IF c.n_parts = 0 THEN [c EXCEPT !.mode = "offset"] ELSE c,
                         MODE, c.n_parts = 0))

RoUpdate(c) == [c EXCEPT !.shown.ro = c.ro]

subUnchanged == UNCHANGED <<mainVars, sel, volumes>>

\* ums_sub_storage_cb.
SubOpen ==
  /\ screen = "menu" /\ cursor = 8
  /\ \E ok \in BOOLEAN :
       LET d == IF Available(SD) THEN SD ELSE GPP
       IN sub' = RoUpdate(ModeUpdate(Loaded([NoSub EXCEPT !.device = d, !.ro = (d # SD)], ok)))
  /\ screen' = "sub" /\ sub_cursor' = DEVICE
  /\ subUnchanged

SubMove ==
  /\ screen = "sub"
  /\ sub_cursor' \in MovesTo(sub_cursor, SubEntries)
  /\ UNCHANGED <<screen, sub>>
  /\ subUnchanged

\* Seeded bug: there is no last device.
BugNextDevice(d) == IF d = SD /\ "EMMC" \in storage_state THEN SD ELSE d + 1

\* After the last device comes the SD card, also one that did not start: the
\* test of its error is one of no bits.
NextDevice(d) ==
  IF d = SD THEN (IF "EMMC" \in storage_state THEN SD ELSE GPP)
  ELSE IF d = BOOT1 THEN SD ELSE d + 1

\* The partition chosen on the last device stays chosen.
SwitchedTo(c, d, ok) ==
  LET new == RoUpdate(Loaded([c EXCEPT !.device = d, !.ro = (d # SD)], ok))
  IN ModeUpdate([new EXCEPT !.mode = "part", !.offset = 0, !.size = new.phys_size])

Pressed(entry) == screen = "sub" /\ sub_cursor = entry /\ entry \notin sub.disabled

DeviceToggle ==
  /\ Pressed(DEVICE)
  /\ NextDevice(sub.device) # sub.device
  /\ \E ok \in BOOLEAN : sub' = SwitchedTo(sub, NextDevice(sub.device), ok)
  /\ UNCHANGED <<screen, sub_cursor>>
  /\ subUnchanged

ModeToggle ==
  /\ Pressed(MODE)
  /\ sub' = ModeUpdate([sub EXCEPT !.mode = IF @ = "part" THEN "offset"
                                            ELSE IF sub.n_parts > 0 THEN "part" ELSE @])
  /\ UNCHANGED <<screen, sub_cursor>>
  /\ subUnchanged

PartToggle ==
  /\ Pressed(PART)
  /\ sub' = PartUpdate([sub EXCEPT !.part = (@ + 1) % sub.n_parts])
  /\ UNCHANGED <<screen, sub_cursor>>
  /\ subUnchanged

RoToggle ==
  /\ Pressed(READ_ONLY)
  /\ sub' = RoUpdate([sub EXCEPT !.ro = ~ @])
  /\ UNCHANGED <<screen, sub_cursor>>
  /\ subUnchanged

\* What the volume is made of, its partition counted like the card does.
SubVolume ==
  [type |-> StorageOf(sub.device), offset |-> sub.offset,
   partition |-> IF sub.device = SD THEN 0 ELSE sub.device - GPP,
   sectors |-> sub.size, ro |-> sub.ro]

SubStart ==
  /\ Pressed(START)
  /\ screen' = "sub_ums" /\ volumes' = {SubVolume}
  /\ UNCHANGED <<mainVars, sub, sub_cursor, sel>>

SubStop ==
  /\ screen = "sub_ums"
  /\ screen' = "sub" /\ volumes' = {}
  /\ UNCHANGED <<mainVars, sub, sub_cursor, sel>>

SubBack ==
  /\ Pressed(BACK)
  /\ screen' = "menu" /\ sub' = NoSub /\ sub_cursor' = 0
  /\ subUnchanged

-----------------------------------------------------------------------------
(* ums_sub_storage_u32_selector.                                           *)

\* The selector starts at the highest digit.
Select(of, val, max) ==
  /\ screen' = "select"
  /\ sel' = [of |-> of, val |-> val, max |-> max, digit |-> Digits - 1]
  /\ UNCHANGED <<mainVars, sub, sub_cursor, volumes>>

OffsetPressed == Pressed(OFFSET) /\ Select("offset", sub.offset, sub.phys_size)
SizePressed ==
  Pressed(SIZE) /\ Select("size", sub.size, (sub.phys_size - sub.offset) % U32)

Step == Weight[sel.digit]
Digit(v) == (v \div Step) % Base
WithDigit(v, n) == (v - Digit(v) * Step + n * Step) % U32

\* Seeded bug: the digit goes round whatever the maximum is.
BugLowers(v) == {WithDigit(v, (Digit(v) - 1) % Base)}

\* VOL-: the digit goes down and round, and on down until the number is within the
\* maximum.  If no digit makes it so, the subtraction borrows from the digits above,
\* round the end of the u32 if need be, and the digit it ends with is taken.
Fits(v) == {n \in 0 .. (Digit(v) - 1) % Base : WithDigit(v, n) <= sel.max}
Borrowed(v, k) == (WithDigit(v, 0) - k * Step) % U32
Borrows(v) == {k \in 1 .. U32 \div Step : Fits(v) = {} /\ Borrowed(v, k) <= sel.max}

Lowers(v) ==
  {WithDigit(v, n) : n \in {m \in Fits(v) : \A o \in Fits(v) : o <= m}}
  \cup {WithDigit(v, Digit(Borrowed(v, k))) :
          k \in {m \in Borrows(v) : \A o \in Borrows(v) : m <= o}}

\* VOL+: the digit goes up and round, and to zero at the maximum.
Raised(v) ==
  LET up == WithDigit(v, (Digit(v) + 1) % Base)
  IN IF up > sel.max THEN WithDigit(v, 0) ELSE up

SelectChange ==
  /\ screen = "select"
  /\ \E v \in Lowers(sel.val) \cup {Raised(sel.val)} : sel' = [sel EXCEPT !.val = v]
  /\ UNCHANGED <<screen, mainVars, sub, sub_cursor, volumes>>

\* VOL- where the digits below alone exceed the maximum: the loop never ends.
SelectHangs ==
  /\ screen = "select"
  /\ Fits(sel.val) = {} /\ Borrows(sel.val) = {}
  /\ screen' = "hung"
  /\ UNCHANGED <<mainVars, sub, sub_cursor, sel, volumes>>

\* The power button: the next digit, and after the last the value is taken.
SelectNext ==
  /\ screen = "select"
  /\ IF sel.digit > 0
     THEN sel' = [sel EXCEPT !.digit = @ - 1] /\ UNCHANGED <<screen, sub>>
     ELSE /\ sel' = NoSel /\ screen' = "sub"
          /\ sub' = IF sel.of = "offset"
                    THEN SizeUpdate(OffsetUpdate([sub EXCEPT !.offset = sel.val]))
                    ELSE SizeUpdate([sub EXCEPT !.size = sel.val])
  /\ UNCHANGED <<mainVars, sub_cursor, volumes>>

Next ==
  \/ Boot \/ MainMove \/ MainToggle \/ MainStart \/ MainStop \/ MainReload \/ MainOff
  \/ SubOpen \/ SubMove \/ DeviceToggle \/ ModeToggle \/ PartToggle \/ RoToggle
  \/ SubStart \/ SubStop \/ SubBack
  \/ OffsetPressed \/ SizePressed \/ SelectChange \/ SelectHangs \/ SelectNext

Spec == Init /\ [][Next]_vars
=============================================================================
