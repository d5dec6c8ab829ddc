----------------------------- MODULE UmsMenuProofs -----------------------------
(***************************************************************************)
(* The menus, for devices, partition tables and numbers of every size:     *)
(* what is shown is what is mounted, a sub-drive that begins inside its    *)
(* device ends there, and the selected entry can always be pressed.        *)
(***************************************************************************)
EXTENDS MenuProperties, TLAPS

Numbers == 0 .. U32 - 1

Subs == {"sub", "sub_ums", "select"}

\* The entries that are disabled and the texts follow from the configuration.
Follows(c) ==
  /\ c.mode = "part" => c.n_parts > 0
  /\ MODE \in c.disabled <=> c.n_parts = 0
  /\ PART \in c.disabled <=> c.mode # "part"
  /\ OFFSET \in c.disabled <=> c.mode # "offset"
  /\ SIZE \in c.disabled <=> c.mode # "offset"
  /\ c.shown.offset = c.offset /\ c.shown.size = c.size

InStep(c) == Follows(c) /\ c.shown.ro = c.ro

\* The sub-drive begins where a partition may, on the device that was loaded or on
\* one that could not be read.
Placed(c) ==
  /\ c.phys_size \in {0, SizeOf(c.device)}
  /\ BeginsInside(c) => c.offset <= c.phys_size

\* It ends inside the device if it begins there.
Inside(c) ==
  /\ Placed(c)
  /\ c.offset <= c.phys_size => c.offset + c.size <= c.phys_size

\* What the number selector was started with.
SelOK ==
  /\ BeginsInside(sub) => sel.val <= sel.max
  /\ sel.of \in {"offset", "size"}
  /\ sel.of = "offset" => sel.max = sub.phys_size
  /\ sub_cursor = IF sel.of = "offset" THEN OFFSET ELSE SIZE

MenuInv ==
  /\ TypeOK
  /\ \A d \in {SD, GPP} : tables[d] \in TablesOf[d]
  /\ Inside(sub)
  /\ screen \in Subs => InStep(sub) /\ sub_cursor \in SubEntries
  /\ screen = "select" => SelOK
  /\ screen = "hung" => ~ BeginsInside(sub)
  /\ screen = "sub_ums" => volumes = {SubVolume}
  /\ screen = "ums" => volumes = MenuVolumes
  /\ screen \in {"menu", "ums"} \cup Subs => cursor \in MainEntries
  /\ screen # "boot" => \A d \in Devices : mount_modes[d] # NO_MOUNT => Available(d)

-----------------------------------------------------------------------------
(* The updates of the sub-storage menu.                                    *)

\* What the assumptions say of the sizes.
LEMMA Constants ==
  /\ U32 \in Nat /\ U32 > 3 /\ MaxParts \in Nat /\ MaxParts > 0 /\ 0 \in Slots
  /\ BootSize \in Numbers /\ BootSize > 0
  /\ \A s \in {"SD", "EMMC"} : Capacity[s] \in Numbers /\ Capacity[s] > 0
BY MenuAssumption DEF BOOT1, Slots, Numbers

\* An element of a sequence.
LEMMA ElementOf ==
  ASSUME NEW S, NEW s \in Seq(S), NEW i \in 1 .. Len(s)
  PROVE  s[i] \in S
OBVIOUS

\* A device has sectors.
LEMMA SizeOfType ==
  ASSUME NEW d \in Devices
  PROVE  SizeOf(d) \in Numbers /\ SizeOf(d) > 0
BY Constants DEF SizeOf, StorageOf

\* Disabling an entry keeps the type.
LEMMA DisabledType ==
  ASSUME NEW c \in SubType, NEW e \in {MODE, PART, OFFSET, SIZE}, NEW b \in BOOLEAN
  PROVE  /\ SetDisabled(c, e, b) \in SubType
         /\ SetDisabled(c, e, b) =
              [c EXCEPT !.disabled = IF b THEN c.disabled \cup {e} ELSE c.disabled \ {e}]
<1>1. (IF b THEN c.disabled \cup {e} ELSE c.disabled \ {e}) \in SUBSET {MODE, PART, OFFSET, SIZE}
  BY DEF SubType
<1>2. SetDisabled(c, e, b) =
        [c EXCEPT !.disabled = IF b THEN c.disabled \cup {e} ELSE c.disabled \ {e}]
  BY DEF SetDisabled
<1> QED
  BY <1>1, <1>2 DEF SubType

\* The size is cut to what is left behind the offset, if anything is.
LEMMA SizeUpdated ==
  ASSUME NEW c \in SubType
  PROVE  /\ SizeUpdate(c) \in SubType
         /\ c.offset <= c.phys_size =>
              SizeUpdate(c).offset + SizeUpdate(c).size <= c.phys_size
         /\ SizeUpdate(c).shown.size = SizeUpdate(c).size
         /\ SIZE \in SizeUpdate(c).disabled <=> c.mode # "offset"
         /\ \A e \in {MODE, PART, OFFSET} : e \in SizeUpdate(c).disabled <=> e \in c.disabled
         /\ SizeUpdate(c).shown.offset = c.shown.offset /\ SizeUpdate(c).shown.ro = c.shown.ro
         /\ SizeUpdate(c).shown.part = c.shown.part
         /\ \A f \in {"device", "mode", "part", "n_parts", "parts", "offset", "ro", "phys_size"} :
              SizeUpdate(c)[f] = c[f]
<1> DEFINE size == MinOf(c.size, (c.phys_size - c.offset) % U32)
           d == [c EXCEPT !.size = size, !.shown.size = size]
           e == SizeUpdate(c)
<1>1. /\ c.phys_size \in Nat /\ c.offset \in Nat /\ c.phys_size < U32 /\ c.size \in Nat
      /\ c.size < U32
  BY Constants DEF SubType
<1>2. /\ (c.phys_size - c.offset) % U32 \in Numbers
      /\ c.offset <= c.phys_size => (c.phys_size - c.offset) % U32 = c.phys_size - c.offset
  <2> DEFINE left == c.phys_size - c.offset
  <2>1. left \in Int /\ left < U32 /\ (c.offset <= c.phys_size => left \in Nat)
    BY <1>1, Constants
  <2>2. U32 \in Nat /\ U32 > 0
    BY Constants
  <2> HIDE DEF left
  <2>3. left % U32 \in Numbers
    BY <2>1, <2>2 DEF Numbers
  <2>4. left \in Nat => left % U32 = left
    BY <2>1, <2>2
  <2> QED
    BY <2>1, <2>3, <2>4 DEF left
<1>3. size \in Numbers /\ (c.offset <= c.phys_size => c.offset + size <= c.phys_size)
  BY <1>1, <1>2, Constants DEF MinOf, Numbers
<1> HIDE DEF size
<1>4. d \in SubType
  BY <1>3 DEF SubType, Numbers
<1>5. e = SetDisabled(d, SIZE, c.mode # "offset")
  BY DEF SizeUpdate, size
<1>6. /\ d.size = size /\ d.shown.size = size /\ d.disabled = c.disabled /\ d.offset = c.offset
      /\ d.shown.offset = c.shown.offset /\ d.shown.ro = c.shown.ro
      /\ d.shown.part = c.shown.part
      /\ \A f \in {"device", "mode", "part", "n_parts", "parts", "offset", "ro", "phys_size"} :
           d[f] = c[f]
  BY DEF SubType
<1> HIDE DEF d, e
<1>7. /\ e \in SubType
      /\ e = [d EXCEPT !.disabled = IF c.mode # "offset" THEN d.disabled \cup {SIZE}
                                    ELSE d.disabled \ {SIZE}]
  BY <1>4, <1>5, DisabledType
<1>8. /\ e.disabled = IF c.mode # "offset" THEN c.disabled \cup {SIZE} ELSE c.disabled \ {SIZE}
      /\ e.size = size /\ e.shown = d.shown
      /\ \A f \in {"device", "mode", "part", "n_parts", "parts", "offset", "ro", "phys_size"} :
           e[f] = c[f]
  BY <1>4, <1>6, <1>7 DEF SubType
<1>9. /\ SIZE \in e.disabled <=> c.mode # "offset"
      /\ \A x \in {MODE, PART, OFFSET} : x \in e.disabled <=> x \in c.disabled
  BY <1>8 DEF SIZE, MODE, PART, OFFSET
<1>10. e.offset = c.offset
  BY <1>8
<1> QED
  BY <1>3, <1>6, <1>7, <1>8, <1>9, <1>10 DEF e

\* What ums_sub_storage_offset_update leaves alone, and what it shows.
LEMMA OffsetUpdated ==
  ASSUME NEW c \in SubType
  PROVE  /\ OffsetUpdate(c) \in SubType
         /\ OffsetUpdate(c).shown.offset = c.offset
         /\ OFFSET \in OffsetUpdate(c).disabled <=> c.mode # "offset"
         /\ \A e \in {MODE, PART} : e \in OffsetUpdate(c).disabled <=> e \in c.disabled
         /\ OffsetUpdate(c).shown.ro = c.shown.ro
         /\ \A f \in {"device", "mode", "part", "n_parts", "parts", "offset", "size", "ro",
                      "phys_size"} : OffsetUpdate(c)[f] = c[f]
<1> DEFINE d == [c EXCEPT !.shown.offset = c.offset]
           e == OffsetUpdate(c)
<1>1. d \in SubType
  BY DEF SubType
<1>2. e = SetDisabled(d, OFFSET, c.mode # "offset")
  BY DEF OffsetUpdate
<1>3. /\ d.shown.offset = c.offset /\ d.disabled = c.disabled /\ d.shown.ro = c.shown.ro
      /\ \A f \in {"device", "mode", "part", "n_parts", "parts", "offset", "size", "ro",
                   "phys_size"} : d[f] = c[f]
  BY DEF SubType
<1> HIDE DEF d, e
<1>4. /\ e \in SubType
      /\ e = [d EXCEPT !.disabled = IF c.mode # "offset" THEN d.disabled \cup {OFFSET}
                                    ELSE d.disabled \ {OFFSET}]
  BY <1>1, <1>2, DisabledType
<1>5. /\ e.disabled = IF c.mode # "offset" THEN c.disabled \cup {OFFSET} ELSE c.disabled \ {OFFSET}
      /\ e.shown = d.shown
      /\ \A f \in {"device", "mode", "part", "n_parts", "parts", "offset", "size", "ro",
                   "phys_size"} : e[f] = c[f]
  BY <1>1, <1>3, <1>4 DEF SubType
<1>6. /\ OFFSET \in e.disabled <=> c.mode # "offset"
      /\ \A x \in {MODE, PART} : x \in e.disabled <=> x \in c.disabled
  BY <1>5 DEF MODE, PART, OFFSET
<1> QED
  BY <1>3, <1>4, <1>5, <1>6 DEF e

\* In partition mode the sub-drive is the chosen partition; offset, size, texts and
\* entries follow.
LEMMA PartUpdated ==
  ASSUME NEW c \in SubType, Placed(c)
  PROVE  /\ PartUpdate(c) \in SubType /\ Inside(PartUpdate(c))
         /\ PartUpdate(c).shown.offset = PartUpdate(c).offset
         /\ PartUpdate(c).shown.size = PartUpdate(c).size
         /\ PartUpdate(c).shown.ro = c.shown.ro
         /\ MODE \in PartUpdate(c).disabled <=> MODE \in c.disabled
         /\ PART \in PartUpdate(c).disabled <=> c.mode # "part"
         /\ OFFSET \in PartUpdate(c).disabled <=> c.mode # "offset"
         /\ SIZE \in PartUpdate(c).disabled <=> c.mode # "offset"
         /\ \A f \in {"device", "mode", "part", "n_parts", "parts", "ro", "phys_size"} :
              PartUpdate(c)[f] = c[f]
<1> DEFINE p    == c.parts[c.part]
           here == IF c.mode = "part" THEN [c EXCEPT !.offset = p.offset, !.size = p.size] ELSE c
           text == [here EXCEPT !.shown.part = c.part]
           d    == SetDisabled(text, PART, c.mode # "part")
           o    == OffsetUpdate(d)
           s    == SizeUpdate(o)
<1>1. c.part \in Slots /\ p \in [offset : Numbers, size : Numbers]
      /\ BeginsInside(c) => p.offset <= c.phys_size
  BY DEF SubType, BeginsInside, Numbers
<1>2. /\ here \in SubType /\ (BeginsInside(c) => here.offset <= c.phys_size)
      /\ here.disabled = c.disabled /\ here.shown = c.shown
      /\ \A f \in {"device", "mode", "part", "n_parts", "parts", "ro", "phys_size"} :
           here[f] = c[f]
  BY <1>1 DEF SubType, Placed, Numbers
<1> HIDE DEF p, here
<1>3. /\ text \in SubType /\ (BeginsInside(c) => text.offset <= c.phys_size)
      /\ text.disabled = c.disabled /\ text.shown.ro = c.shown.ro
      /\ \A f \in {"device", "mode", "part", "n_parts", "parts", "ro", "phys_size"} :
           text[f] = c[f]
  BY <1>1, <1>2 DEF SubType
<1> HIDE DEF text
<1>4. /\ d \in SubType
      /\ d = [text EXCEPT !.disabled = IF c.mode # "part" THEN text.disabled \cup {PART}
                                       ELSE text.disabled \ {PART}]
  BY <1>3, DisabledType
<1> HIDE DEF d
<1>5. /\ d.disabled = IF c.mode # "part" THEN c.disabled \cup {PART} ELSE c.disabled \ {PART}
      /\ BeginsInside(c) => d.offset <= c.phys_size
      /\ d.shown.ro = c.shown.ro
      /\ \A f \in {"device", "mode", "part", "n_parts", "parts", "ro", "phys_size"} :
           d[f] = c[f]
  BY <1>3, <1>4 DEF SubType
<1>6. /\ PART \in d.disabled <=> c.mode # "part"
      /\ MODE \in d.disabled <=> MODE \in c.disabled
  BY <1>5 DEF MODE, PART
<1>7. /\ o \in SubType /\ o.shown.offset = d.offset /\ o.shown.ro = c.shown.ro
      /\ OFFSET \in o.disabled <=> c.mode # "offset"
      /\ PART \in o.disabled <=> c.mode # "part"
      /\ MODE \in o.disabled <=> MODE \in c.disabled
      /\ o.offset = d.offset /\ o.size = d.size
      /\ \A f \in {"device", "mode", "part", "n_parts", "parts", "ro", "phys_size"} :
           o[f] = c[f]
  <2>1. /\ o \in SubType /\ o.shown.offset = d.offset /\ o.shown.ro = d.shown.ro
        /\ OFFSET \in o.disabled <=> d.mode # "offset"
        /\ \A e \in {MODE, PART} : e \in o.disabled <=> e \in d.disabled
        /\ \A f \in {"device", "mode", "part", "n_parts", "parts", "offset", "size", "ro",
                     "phys_size"} : o[f] = d[f]
    BY <1>4, OffsetUpdated
  <2> HIDE DEF o
  <2> QED
    BY <1>5, <1>6, <2>1
<1> HIDE DEF o
<1>8. BeginsInside(c) => o.offset <= c.phys_size
  BY <1>5, <1>7
<1>9. /\ s \in SubType /\ (o.offset <= c.phys_size => s.offset + s.size <= c.phys_size)
      /\ s.shown.size = s.size /\ s.shown.offset = d.offset /\ s.shown.ro = c.shown.ro
      /\ SIZE \in s.disabled <=> c.mode # "offset"
      /\ OFFSET \in s.disabled <=> c.mode # "offset"
      /\ PART \in s.disabled <=> c.mode # "part"
      /\ MODE \in s.disabled <=> MODE \in c.disabled
      /\ s.offset = d.offset
      /\ \A f \in {"device", "mode", "part", "n_parts", "parts", "ro", "phys_size"} :
           s[f] = c[f]
  BY <1>7, SizeUpdated
<1>10. s = PartUpdate(c)
  BY DEF PartUpdate, s, o, d, text, here, p
<1> HIDE DEF s
<1>11. Inside(s)
  <2>1. BeginsInside(s) <=> BeginsInside(c)
    BY <1>9 DEF BeginsInside
  <2> QED
    BY <1>7, <1>8, <1>9, <2>1 DEF Inside, Placed
<1> QED
  BY <1>9, <1>10, <1>11

\* After ums_sub_storage_mode_update all is in step and inside the device.
LEMMA ModeUpdated ==
  ASSUME NEW c \in SubType, Placed(c)
  PROVE  /\ ModeUpdate(c) \in SubType /\ Inside(ModeUpdate(c))
         /\ ModeUpdate(c).shown.ro = c.shown.ro /\ ModeUpdate(c).ro = c.ro
         /\ Follows(ModeUpdate(c)) /\ (c.shown.ro = c.ro => InStep(ModeUpdate(c)))
         /\ ModeUpdate(c).device = c.device /\ ModeUpdate(c).n_parts = c.n_parts
<1> DEFINE here == IF c.n_parts = 0 THEN [c EXCEPT !.mode = "offset"] ELSE c
           d    == SetDisabled(here, MODE, c.n_parts = 0)
<1>1. /\ here \in SubType /\ (here.mode = "part" => c.n_parts # 0)
      /\ here.disabled = c.disabled /\ here.shown = c.shown
      /\ \A f \in {"device", "part", "n_parts", "parts", "offset", "size", "ro", "phys_size"} :
           here[f] = c[f]
  BY DEF SubType
<1> HIDE DEF here
<1>2. /\ d \in SubType
      /\ d = [here EXCEPT !.disabled = IF c.n_parts = 0 THEN here.disabled \cup {MODE}
                                       ELSE here.disabled \ {MODE}]
  BY <1>1, DisabledType
<1> HIDE DEF d
<1>3. /\ d.disabled = IF c.n_parts = 0 THEN c.disabled \cup {MODE} ELSE c.disabled \ {MODE}
      /\ d.mode = here.mode /\ d.shown = c.shown
      /\ \A f \in {"device", "part", "n_parts", "parts", "offset", "size", "ro", "phys_size"} :
           d[f] = c[f]
  BY <1>1, <1>2 DEF SubType
<1>4. MODE \in d.disabled <=> c.n_parts = 0
  BY <1>3 DEF MODE
<1>5. Placed(d)
  BY <1>3 DEF Placed, BeginsInside
<1> DEFINE r == PartUpdate(d)
<1>6. r = ModeUpdate(c)
  BY DEF ModeUpdate, d, here
<1>7. /\ r \in SubType /\ Inside(r) /\ r.shown.offset = r.offset /\ r.shown.size = r.size
      /\ r.shown.ro = d.shown.ro /\ (MODE \in r.disabled <=> MODE \in d.disabled)
      /\ (PART \in r.disabled <=> d.mode # "part")
      /\ (OFFSET \in r.disabled <=> d.mode # "offset")
      /\ (SIZE \in r.disabled <=> d.mode # "offset")
      /\ r.mode = d.mode /\ r.n_parts = d.n_parts /\ r.device = d.device /\ r.ro = d.ro
  BY <1>2, <1>5, PartUpdated
<1> HIDE DEF r
<1>8. c.n_parts \in Nat
  BY Constants DEF SubType
<1>9. Follows(r) /\ (c.shown.ro = c.ro => InStep(r))
  BY <1>1, <1>3, <1>4, <1>7, <1>8 DEF InStep, Follows
<1> QED
  BY <1>3, <1>6, <1>7, <1>9

\* What ums_sub_storage_ro_update leaves alone, and what it shows.
LEMMA RoUpdated ==
  ASSUME NEW c \in SubType
  PROVE  /\ RoUpdate(c) \in SubType /\ RoUpdate(c).shown.ro = c.ro
         /\ RoUpdate(c).shown.offset = c.shown.offset /\ RoUpdate(c).shown.size = c.shown.size
         /\ \A f \in {"device", "mode", "part", "n_parts", "parts", "offset", "size", "ro",
                      "phys_size", "disabled"} : RoUpdate(c)[f] = c[f]
BY DEF RoUpdate, SubType

\* Whatever a card holds and whether or not it can be read, the device gets its size
\* or none, and nothing else of the sub-drive changes.
LEMMA LoadedPlaced ==
  ASSUME NEW c \in SubType, NEW ok \in BOOLEAN, \A d \in {SD, GPP} : tables[d] \in TablesOf[d]
  PROVE  /\ Loaded(c, ok) \in SubType
         /\ Loaded(c, ok).phys_size \in {0, SizeOf(c.device)}
         /\ \A f \in {"device", "mode", "part", "offset", "size", "ro", "disabled", "shown"} :
              Loaded(c, ok)[f] = c[f]
<1> DEFINE d == c.device
           t == tables[d]
           l == Loaded(c, ok)
<1>1. d \in Devices
  BY DEF SubType
<1>2. NoPart \in [offset : Numbers, size : Numbers]
  BY Constants DEF NoPart, Numbers
<1>3. CASE d \in {SD, GPP} /\ ok
  <2> DEFINE parts == [i \in Slots |-> IF i < Len(t.parts) THEN t.parts[i + 1] ELSE NoPart]
  <2>1. t \in TableType
    BY <1>3, MenuAssumption
  <2>2. /\ t.kind \in {"GPT", "MBR"} /\ t.parts \in Seq([offset : Numbers, size : Numbers])
        /\ t.kind = "MBR" => Len(t.parts) <= MaxParts + 1
    BY <2>1 DEF TableType, Numbers
  <2>3. SizeOf(d) \in Numbers
    BY <1>1, SizeOfType
  <2>4. ASSUME NEW i \in Slots
        PROVE  parts[i] \in [offset : Numbers, size : Numbers]
    <3>1. CASE i < Len(t.parts)
      <4>1. i + 1 \in 1 .. Len(t.parts) /\ parts[i] = t.parts[i + 1]
        BY <2>2, <3>1, Constants DEF Slots
      <4> QED
        BY <2>2, <4>1, ElementOf
    <3>2. CASE ~ (i < Len(t.parts))
      BY <1>2, <3>2
    <3> QED
      BY <3>1, <3>2
  <2>5. Found(t) \in 0 .. MaxParts
    <3>1. Len(t.parts) \in Nat /\ (t.parts # <<>> => Len(t.parts) > 0)
      BY <2>2
    <3> QED
      BY <2>2, <3>1, Constants DEF Found, MinOf
  <2>6. parts \in [Slots -> [offset : Numbers, size : Numbers]]
    BY <2>4
  <2> HIDE DEF parts
  <2>7. l = [c EXCEPT !.phys_size = SizeOf(d), !.n_parts = Found(t), !.parts = parts]
    BY <1>3 DEF Loaded, parts
  <2> QED
    BY <2>3, <2>5, <2>6, <2>7 DEF SubType, Numbers
<1>4. CASE ~ (d \in {SD, GPP} /\ ok)
  <2> DEFINE parts == [i \in Slots |-> NoPart]
             size  == IF d \in {SD, GPP} THEN 0 ELSE BootSize
  <2>1. parts \in [Slots -> [offset : Numbers, size : Numbers]] /\ size \in Numbers
    BY <1>2, Constants DEF Numbers
  <2>2. size \in {0, SizeOf(d)}
    BY <1>1 DEF SizeOf, Devices, SD, GPP, BOOT0, BOOT1
  <2> HIDE DEF parts, size
  <2>3. l = [c EXCEPT !.phys_size = size, !.n_parts = 0, !.parts = parts]
    BY <1>4 DEF Loaded, parts, size
  <2>4. 0 \in 0 .. MaxParts
    BY Constants
  <2> QED
    BY <2>1, <2>2, <2>3, <2>4 DEF SubType, Numbers
<1> QED
  BY <1>3, <1>4

-----------------------------------------------------------------------------
(* The number selector.                                                    *)

\* A number with another digit is a number, and one with a digit of zero no greater.
LEMMA DigitFits ==
  ASSUME NEW v \in Numbers, sel.digit \in 0 .. Digits - 1
  PROVE  /\ WithDigit(v, 0) <= v
         /\ \A n \in Nat : WithDigit(v, n) \in Numbers
         /\ Digit(v) \in Nat
<1> DEFINE s == Step
           q == v \div s
           d == Digit(v)
<1>1. s \in Nat /\ s > 0
  BY MenuAssumption DEF Step
<1>2. Base \in Nat /\ Base > 0 /\ v \in Nat /\ v < U32 /\ U32 \in Nat /\ U32 > 0
  BY MenuAssumption, Constants DEF Numbers
<1> HIDE DEF s
<1>3. q \in Nat /\ q * s <= v
  BY <1>1, <1>2
<1>4. d = q % Base
  BY DEF Digit, s
<1> HIDE DEF q, d
<1>5. d \in Nat /\ d <= q
  BY <1>2, <1>3, <1>4
<1>6. d * s \in Nat /\ d * s <= q * s
  BY <1>1, <1>3, <1>5
<1>7. d * s <= v
  BY <1>1, <1>2, <1>3, <1>5, <1>6
<1>8. \A n \in Nat : n * s \in Nat
  BY <1>1
<1> DEFINE e == d * s
<1> HIDE DEF e
<1>9. e \in Nat /\ e <= v
  BY <1>6, <1>7 DEF e
<1>10. \A n \in Nat : WithDigit(v, n) = (v - e + n * s) % U32
  BY DEF WithDigit, e, d, s
<1>11. \A n \in Nat : WithDigit(v, n) \in Numbers
  <2> TAKE n \in Nat
  <2> DEFINE x == n * s
  <2>1. x \in Nat
    BY <1>8
  <2> HIDE DEF x
  <2>2. (v - e + x) % U32 \in Numbers
    BY <1>2, <1>9, <2>1 DEF Numbers
  <2> QED
    BY <1>10, <2>2 DEF x
<1>12. 0 * s = 0
  BY <1>1
<1>13. WithDigit(v, 0) <= v
  <2>1. WithDigit(v, 0) = (v - e) % U32
    BY <1>2, <1>9, <1>10, <1>12
  <2>2. (v - e) % U32 = v - e
    BY <1>2, <1>9
  <2> QED
    BY <1>2, <1>9, <2>1, <2>2
<1> QED
  BY <1>5, <1>11, <1>13 DEF d

\* A number within the maximum has a lower digit that keeps it there: the loop of
\* VOL- neither borrows nor hangs.
LEMMA LowerFits ==
  ASSUME sel.val \in Numbers, sel.max \in Numbers, sel.digit \in 0 .. Digits - 1,
         sel.val <= sel.max
  PROVE  0 \in Fits(sel.val)
<1>1. WithDigit(sel.val, 0) \in Numbers /\ WithDigit(sel.val, 0) <= sel.val
  BY DigitFits
<1>2. WithDigit(sel.val, 0) <= sel.max
  BY <1>1, Constants DEF Numbers
<1>3. Digit(sel.val) \in Nat
  BY DigitFits
<1>4. Base \in Nat /\ Base > 0
  BY MenuAssumption
<1>5. 0 \in 0 .. (Digit(sel.val) - 1) % Base
  BY <1>3, <1>4
<1> QED
  BY <1>2, <1>5 DEF Fits

\* A digit is changed.
LEMMA SelectChangeKeeps ==
  ASSUME MenuInv, SelectChange
  PROVE  MenuInv'
<1>1. /\ sel.val \in Numbers /\ sel.max \in Numbers /\ sel.digit \in 0 .. Digits - 1
      /\ BeginsInside(sub) => sel.val <= sel.max
  BY DEF MenuInv, TypeOK, SelOK, SelectChange, Numbers
<1>2. PICK v \in Lowers(sel.val) \cup {Raised(sel.val)} : sel' = [sel EXCEPT !.val = v]
  BY DEF SelectChange
<1>3. /\ \A n \in Nat : WithDigit(sel.val, n) \in Numbers
      /\ Digit(sel.val) \in Nat /\ WithDigit(sel.val, 0) <= sel.val
  BY <1>1, DigitFits
<1>4. v \in Numbers /\ (sel.val <= sel.max => v <= sel.max)
  <2>1. CASE \E n \in Fits(sel.val) : v = WithDigit(sel.val, n)
    <3>1. PICK n \in Fits(sel.val) : v = WithDigit(sel.val, n)
      BY <2>1
    <3>2. n \in 0 .. (Digit(sel.val) - 1) % Base /\ WithDigit(sel.val, n) <= sel.max
      BY DEF Fits
    <3>3. n \in Nat
      BY <3>2
    <3> QED
      BY <1>3, <3>1, <3>2, <3>3
  <2>2. CASE \E k \in Borrows(sel.val) : v = WithDigit(sel.val, Digit(Borrowed(sel.val, k)))
    <3>1. PICK k \in Borrows(sel.val) : v = WithDigit(sel.val, Digit(Borrowed(sel.val, k)))
      BY <2>2
    <3>2. k \in 1 .. U32 \div Step /\ Fits(sel.val) = {}
      BY DEF Borrows
    <3>3. Borrowed(sel.val, k) \in Numbers
      <4>1. Step \in Nat /\ k \in Nat /\ 0 \in Nat
        BY <1>1, <3>2, MenuAssumption DEF Step
      <4>2. WithDigit(sel.val, 0) \in Numbers
        BY <1>3, <4>1
      <4> DEFINE w == WithDigit(sel.val, 0)
                 x == k * Step
      <4>3. w \in Int /\ x \in Int
        BY <4>1, <4>2 DEF Numbers
      <4> HIDE DEF w, x
      <4>4. (w - x) % U32 \in Numbers
        BY <4>3, Constants DEF Numbers
      <4> QED
        BY <4>4 DEF Borrowed, w, x
    <3>4. Digit(Borrowed(sel.val, k)) \in Nat
      BY <1>1, <3>3, DigitFits
    <3>5. ~ (sel.val <= sel.max)
      BY <1>1, <3>2, LowerFits
    <3> QED
      BY <1>3, <3>1, <3>4, <3>5
  <2>3. CASE v = Raised(sel.val)
    <3> DEFINE up   == WithDigit(sel.val, (Digit(sel.val) + 1) % Base)
               zero == WithDigit(sel.val, 0)
    <3>1. (Digit(sel.val) + 1) % Base \in Nat
      BY <1>3, MenuAssumption
    <3>2. up \in Numbers /\ zero \in Numbers /\ zero <= sel.val
      BY <1>3, <3>1
    <3>3. v = IF up > sel.max THEN zero ELSE up
      BY <2>3 DEF Raised
    <3> HIDE DEF up, zero
    <3> QED
      BY <1>1, <3>2, <3>3, Constants DEF Numbers
  <2> QED
    BY <1>2, <2>1, <2>2, <2>3 DEF Lowers
<1>5. /\ sel' \in [of : {"none", "offset", "size"}, val : Numbers, max : Numbers,
                   digit : 0 .. Digits - 1]
      /\ sel'.max = sel.max /\ sel'.of = sel.of /\ sel'.val = v
  BY <1>2, <1>4 DEF MenuInv, TypeOK, Numbers
<1>6. /\ screen = "select"
      /\ UNCHANGED <<screen, storage_state, config, mount_modes, cursor, tables, sub,
                     sub_cursor, volumes>>
  BY DEF SelectChange, mainVars
<1>7. TypeOK' /\ SelOK'
  BY <1>1, <1>4, <1>5, <1>6 DEF MenuInv, TypeOK, SelOK, Numbers
<1> QED
  BY <1>6, <1>7 DEF MenuInv, SubEntries, MainEntries, Available, Subs

\* VOL- never ends, which takes a partition that begins behind the end.
LEMMA SelectHangsKeeps ==
  ASSUME MenuInv, SelectHangs
  PROVE  MenuInv'
<1>1. /\ screen = "select" /\ screen' = "hung" /\ Fits(sel.val) = {}
      /\ UNCHANGED <<storage_state, config, mount_modes, cursor, tables, sub, sub_cursor, sel,
                     volumes>>
  BY DEF SelectHangs, mainVars
<1>2. ~ BeginsInside(sub)
  <2>1. /\ sel.val \in Numbers /\ sel.max \in Numbers /\ sel.digit \in 0 .. Digits - 1
        /\ BeginsInside(sub) => sel.val <= sel.max
    BY <1>1 DEF MenuInv, TypeOK, SelOK, Numbers
  <2> QED
    BY <1>1, <2>1, LowerFits
<1>3. TypeOK'
  BY <1>1 DEF MenuInv, TypeOK
<1> QED
  BY <1>1, <1>2, <1>3 DEF MenuInv, Subs, Available

-----------------------------------------------------------------------------
(* The sub-storage menu.                                                   *)

\* Four entries of the sub-storage menu are never disabled.
LEMMA Entries ==
  ASSUME NEW c \in SubType
  PROVE  DEVICE \notin c.disabled /\ READ_ONLY \notin c.disabled /\ START \notin c.disabled
         /\ BACK \notin c.disabled
BY DEF SubType, DEVICE, READ_ONLY, START, BACK, MODE, PART, OFFSET, SIZE

\* An action of the sub-storage menu that leaves a configuration in step, with the
\* entry it was started from enabled.
LEMMA SubKeeps ==
  ASSUME MenuInv, sub' \in SubType, Inside(sub'), InStep(sub'), sub_cursor \notin sub'.disabled,
         screen \in Subs, screen' = "sub", sub_cursor' = sub_cursor,
         sel' \in [of : {"none", "offset", "size"}, val : Numbers, max : Numbers,
                   digit : 0 .. Digits - 1],
         UNCHANGED <<storage_state, config, mount_modes, cursor, tables, volumes>>
  PROVE  MenuInv'
<1>1. TypeOK'
  BY DEF MenuInv, TypeOK, Numbers
<1>2. sub_cursor' \in SubEntries'
  BY DEF MenuInv, SubEntries
<1>3. cursor' \in MainEntries'
  BY DEF MenuInv, MainEntries, Available
<1> QED
  BY <1>1, <1>2, <1>3 DEF MenuInv, Subs, Available

\* The selector has its type.
LEMMA SelType ==
  ASSUME MenuInv
  PROVE  sel \in [of : {"none", "offset", "size"}, val : Numbers, max : Numbers,
                  digit : 0 .. Digits - 1]
BY DEF MenuInv, TypeOK, Numbers

\* The mode is toggled.
LEMMA ModeToggleKeeps ==
  ASSUME MenuInv, ModeToggle
  PROVE  MenuInv'
<1> DEFINE c == [sub EXCEPT !.mode = IF sub.mode = "part" THEN "offset"
                                     ELSE IF sub.n_parts > 0 THEN "part" ELSE sub.mode]
<1>1. sub \in SubType /\ Inside(sub) /\ InStep(sub) /\ sub_cursor = MODE /\ MODE \notin sub.disabled
      /\ screen = "sub" /\ sub.n_parts # 0
  BY DEF MenuInv, TypeOK, ModeToggle, Pressed, InStep, Follows, Subs
<1>2. c \in SubType /\ Placed(c) /\ c.shown.ro = c.ro /\ c.n_parts = sub.n_parts
  BY <1>1 DEF SubType, Inside, Placed, BeginsInside, InStep, Follows
<1>3. sub' = ModeUpdate(c)
  BY DEF ModeToggle
<1> HIDE DEF c
<1>4. sub' \in SubType /\ Inside(sub') /\ InStep(sub') /\ sub'.n_parts = sub.n_parts
  BY <1>2, <1>3, ModeUpdated
<1>5. sub_cursor \notin sub'.disabled
  BY <1>1, <1>4 DEF InStep, Follows
<1> QED
  BY <1>1, <1>4, <1>5, SelType, SubKeeps DEF ModeToggle, subUnchanged, mainVars, Subs

\* Another partition is chosen.
LEMMA PartToggleKeeps ==
  ASSUME MenuInv, PartToggle
  PROVE  MenuInv'
<1> DEFINE c == [sub EXCEPT !.part = (sub.part + 1) % sub.n_parts]
<1>1. sub \in SubType /\ Inside(sub) /\ InStep(sub) /\ sub_cursor = PART /\ PART \notin sub.disabled
      /\ screen = "sub" /\ sub.n_parts > 0 /\ sub.mode = "part"
  BY DEF MenuInv, TypeOK, PartToggle, Pressed, InStep, Follows, Subs
<1>2. (sub.part + 1) % sub.n_parts \in Slots
  <2>1. sub.part + 1 \in Int /\ sub.n_parts \in Nat /\ sub.n_parts > 0 /\ sub.n_parts <= MaxParts
    BY <1>1, Constants DEF SubType, Slots
  <2>2. (sub.part + 1) % sub.n_parts \in 0 .. sub.n_parts - 1
    BY <2>1
  <2> QED
    BY <2>1, <2>2, Constants DEF Slots
<1>3. c \in SubType /\ Placed(c) /\ c.shown = sub.shown /\ c.disabled = sub.disabled
      /\ c.mode = "part" /\ c.n_parts = sub.n_parts /\ c.ro = sub.ro
  BY <1>1, <1>2 DEF SubType, Inside, Placed, BeginsInside
<1>4. sub' = PartUpdate(c)
  BY DEF PartToggle
<1> HIDE DEF c
<1>5. /\ sub' \in SubType /\ Inside(sub') /\ sub'.shown.offset = sub'.offset
      /\ sub'.shown.size = sub'.size /\ sub'.shown.ro = sub.shown.ro
      /\ (MODE \in sub'.disabled <=> MODE \in sub.disabled)
      /\ PART \notin sub'.disabled /\ OFFSET \in sub'.disabled /\ SIZE \in sub'.disabled
      /\ sub'.mode = "part" /\ sub'.n_parts = sub.n_parts /\ sub'.ro = sub.ro
  BY <1>3, <1>4, PartUpdated
<1>6. InStep(sub')
  BY <1>1, <1>5 DEF InStep, Follows
<1>7. sub_cursor \notin sub'.disabled
  BY <1>1, <1>5
<1> QED
  BY <1>1, <1>5, <1>6, <1>7, SelType, SubKeeps DEF PartToggle, subUnchanged, mainVars, Subs

\* Read-only is toggled.
LEMMA RoToggleKeeps ==
  ASSUME MenuInv, RoToggle
  PROVE  MenuInv'
<1> DEFINE c == [sub EXCEPT !.ro = ~ sub.ro]
<1>1. sub \in SubType /\ Inside(sub) /\ InStep(sub) /\ sub_cursor = READ_ONLY /\ screen = "sub"
  BY DEF MenuInv, TypeOK, RoToggle, Pressed, Subs
<1>2. /\ c \in SubType /\ c.shown = sub.shown
      /\ \A f \in {"device", "mode", "part", "n_parts", "parts", "offset", "size",
                   "phys_size", "disabled"} : c[f] = sub[f]
  BY <1>1 DEF SubType
<1>3. sub' = RoUpdate(c)
  BY DEF RoToggle
<1> HIDE DEF c
<1>4. /\ sub' \in SubType /\ sub'.shown.ro = sub'.ro
      /\ sub'.shown.offset = sub.shown.offset /\ sub'.shown.size = sub.shown.size
      /\ \A f \in {"device", "mode", "part", "n_parts", "parts", "offset", "size",
                   "phys_size", "disabled"} : sub'[f] = sub[f]
  BY <1>2, <1>3, RoUpdated
<1>5. Inside(sub') /\ InStep(sub')
  BY <1>1, <1>4 DEF Inside, Placed, BeginsInside, InStep, Follows
<1>6. sub_cursor \notin sub'.disabled
  BY <1>1, <1>4, Entries
<1> QED
  BY <1>1, <1>4, <1>5, <1>6, SelType, SubKeeps DEF RoToggle, subUnchanged, mainVars, Subs

\* Another device is chosen.
LEMMA DeviceToggleKeeps ==
  ASSUME MenuInv, DeviceToggle
  PROVE  MenuInv'
<1>1. sub \in SubType /\ sub_cursor = DEVICE /\ screen = "sub"
      /\ \A d \in {SD, GPP} : tables[d] \in TablesOf[d]
  BY DEF MenuInv, TypeOK, DeviceToggle, Pressed
<1>2. PICK ok \in BOOLEAN : sub' = SwitchedTo(sub, NextDevice(sub.device), ok)
  BY DEF DeviceToggle
<1> DEFINE d == NextDevice(sub.device)
           c == [sub EXCEPT !.device = d, !.ro = (d # SD)]
           l == Loaded(c, ok)
           r == RoUpdate(l)
           m == [r EXCEPT !.mode = "part", !.offset = 0, !.size = r.phys_size]
<1>3. d \in Devices
  BY <1>1 DEF NextDevice, SubType, Devices, SD, GPP, BOOT0, BOOT1
<1> HIDE DEF d
<1>4. c \in SubType
  BY <1>1, <1>3 DEF SubType
<1> HIDE DEF c
<1>5. l \in SubType /\ l.phys_size \in {0, SizeOf(l.device)}
  <2>1. l \in SubType /\ l.phys_size \in {0, SizeOf(c.device)} /\ l.device = c.device
    BY <1>1, <1>4, LoadedPlaced
  <2> HIDE DEF l
  <2> QED
    BY <2>1
<1> HIDE DEF l
<1>6. /\ r \in SubType /\ r.shown.ro = r.ro /\ r.device = l.device /\ r.phys_size = l.phys_size
  BY <1>5, RoUpdated
<1> HIDE DEF r
<1>7. /\ m \in SubType /\ m.shown.ro = m.ro /\ m.device = l.device
      /\ m.phys_size = l.phys_size /\ m.offset = 0 /\ l.phys_size \in Nat
  <2>1. r.phys_size \in 0 .. U32 - 1 /\ 0 \in 0 .. U32 - 1
    BY <1>6, Constants DEF SubType
  <2>2. m \in SubType
    BY <1>6, <2>1 DEF SubType
  <2>3. /\ m.offset = 0 /\ m.size = r.phys_size /\ m.shown = r.shown /\ m.ro = r.ro
        /\ m.device = r.device /\ m.phys_size = r.phys_size
    BY <1>6 DEF SubType
  <2>4. r.phys_size \in Nat
    BY <2>1
  <2> HIDE DEF m
  <2> QED
    BY <1>6, <2>2, <2>3, <2>4
<1>8. Placed(m)
  BY <1>5, <1>7 DEF Placed
<1>9. sub' = ModeUpdate(m)
  BY <1>2 DEF SwitchedTo, m, r, l, c, d
<1> HIDE DEF m
<1>10. sub' \in SubType /\ Inside(sub') /\ InStep(sub')
  BY <1>7, <1>8, <1>9, ModeUpdated
<1>11. sub_cursor \notin sub'.disabled
  BY <1>1, <1>10, Entries
<1> QED
  BY <1>1, <1>10, <1>11, SelType, SubKeeps DEF DeviceToggle, subUnchanged, mainVars, Subs

\* A cleared sub_cfg.
LEMMA NoSubType ==
  NoSub \in SubType /\ Inside(NoSub)
<1>1. NoPart \in [offset : Numbers, size : Numbers]
  BY Constants DEF NoPart, Numbers
<1>2. [i \in Slots |-> NoPart] \in [Slots -> [offset : Numbers, size : Numbers]]
  BY <1>1
<1>3. 0 \in 0 .. MaxParts /\ 0 \in Numbers /\ 0 \in Slots /\ SD \in Devices
  BY Constants DEF Numbers, SD, Devices, BOOT1
<1>4. [part |-> 0, offset |-> 0, size |-> 0, ro |-> FALSE]
        \in [part : Slots, offset : Numbers, size : Numbers, ro : BOOLEAN]
  BY <1>3
<1>5. NoSub \in SubType
  BY <1>2, <1>3, <1>4 DEF NoSub, SubType, Numbers
<1>6. NoSub.offset = 0 /\ NoSub.size = 0 /\ NoSub.phys_size = 0
  BY DEF NoSub
<1>7. Inside(NoSub)
  BY <1>6 DEF Inside, Placed
<1> QED
  BY <1>5, <1>7

\* The sub-storage menu is opened.
LEMMA SubOpenKeeps ==
  ASSUME MenuInv, SubOpen
  PROVE  MenuInv'
<1> DEFINE d == IF Available(SD) THEN SD ELSE GPP
           c == [NoSub EXCEPT !.device = d, !.ro = (d # SD)]
<1>1. PICK ok \in BOOLEAN : sub' = RoUpdate(ModeUpdate(Loaded(c, ok)))
  BY DEF SubOpen
<1> DEFINE l == Loaded(c, ok)
           m == ModeUpdate(l)
<1>2. d \in Devices
  BY DEF Devices, SD, GPP, BOOT1
<1> HIDE DEF d
<1>3. c \in SubType /\ c.offset = 0
  BY <1>2, NoSubType DEF SubType, NoSub
<1> HIDE DEF c
<1>4. l \in SubType /\ l.offset = 0 /\ l.phys_size \in {0, SizeOf(l.device)}
  <2>1. /\ l \in SubType /\ l.phys_size \in {0, SizeOf(c.device)} /\ l.device = c.device
        /\ l.offset = c.offset
    BY <1>3, LoadedPlaced DEF MenuInv
  <2> HIDE DEF l
  <2> QED
    BY <1>3, <2>1
<1> HIDE DEF l
<1>5. Placed(l)
  BY <1>4, Constants DEF Placed, SubType
<1>6. m \in SubType /\ Inside(m)
  BY <1>4, <1>5, ModeUpdated
<1>7. Follows(m)
  BY <1>4, <1>5, ModeUpdated
<1> HIDE DEF m
<1>8. /\ sub' \in SubType /\ sub'.shown.ro = sub'.ro
      /\ sub'.shown.offset = m.shown.offset /\ sub'.shown.size = m.shown.size
      /\ \A f \in {"device", "mode", "part", "n_parts", "parts", "offset", "size", "ro",
                  "phys_size", "disabled"} : sub'[f] = m[f]
  BY <1>1, <1>6, RoUpdated DEF m, l, c, d
<1>9. Inside(sub') /\ InStep(sub')
  BY <1>6, <1>7, <1>8 DEF Inside, Placed, BeginsInside, InStep, Follows
<1>10. DEVICE \in SubEntries'
  BY <1>8, Entries DEF SubEntries
<1>11. /\ screen' = "sub" /\ sub_cursor' = DEVICE /\ screen = "menu"
       /\ UNCHANGED <<storage_state, config, mount_modes, cursor, tables, sel, volumes>>
  BY DEF SubOpen, subUnchanged, mainVars
<1>12. TypeOK'
  BY <1>8, <1>11 DEF MenuInv, TypeOK, DEVICE
<1>13. cursor' \in MainEntries'
  BY <1>11 DEF MenuInv, MainEntries, Available
<1> QED
  BY <1>9, <1>10, <1>11, <1>12, <1>13 DEF MenuInv, Subs, Available

\* The selection moves in it.
LEMMA SubMoveKeeps ==
  ASSUME MenuInv, SubMove
  PROVE  MenuInv'
<1>1. /\ sub_cursor' \in SubEntries /\ screen = "sub" /\ screen' = "sub"
      /\ UNCHANGED <<storage_state, config, mount_modes, cursor, tables, sub, sel, volumes>>
  BY DEF SubMove, MovesTo, subUnchanged, mainVars
<1>2. sub_cursor' \in 0 .. 11
  BY <1>1 DEF SubEntries, DEVICE, MODE, PART, OFFSET, SIZE, READ_ONLY, START, BACK
<1>3. TypeOK' /\ sub_cursor' \in SubEntries' /\ cursor' \in MainEntries'
  BY <1>1, <1>2 DEF MenuInv, TypeOK, SubEntries, MainEntries, Available, Subs
<1> QED
  BY <1>1, <1>3 DEF MenuInv, Subs, Available

\* The gadget is started with what the menu shows, and returns to it.
LEMMA SubRunKeeps ==
  ASSUME MenuInv, SubStart \/ SubStop
  PROVE  MenuInv'
<1>1. /\ screen \in {"sub", "sub_ums"} /\ screen' \in {"sub", "sub_ums"}
      /\ screen' = "sub_ums" => volumes' = {SubVolume}
      /\ UNCHANGED <<storage_state, config, mount_modes, cursor, tables, sub, sub_cursor, sel>>
  BY DEF SubStart, SubStop, Pressed, mainVars
<1>2. TypeOK' /\ sub_cursor' \in SubEntries' /\ cursor' \in MainEntries' /\ SubVolume' = SubVolume
  BY <1>1 DEF MenuInv, TypeOK, SubEntries, MainEntries, Available, Subs, SubVolume
<1> QED
  BY <1>1, <1>2 DEF MenuInv, Subs, Available

\* It is left.
LEMMA SubBackKeeps ==
  ASSUME MenuInv, SubBack
  PROVE  MenuInv'
<1>1. /\ screen = "sub" /\ screen' = "menu" /\ sub' = NoSub /\ sub_cursor' = 0
      /\ UNCHANGED <<storage_state, config, mount_modes, cursor, tables, sel, volumes>>
  BY DEF SubBack, Pressed, subUnchanged, mainVars
<1>2. TypeOK' /\ cursor' \in MainEntries'
  BY <1>1, NoSubType DEF MenuInv, TypeOK, MainEntries, Available, Subs
<1> QED
  BY <1>1, <1>2, NoSubType DEF MenuInv, Subs, Available

\* The number selector is opened.
LEMMA SelectKeeps ==
  ASSUME MenuInv, OffsetPressed \/ SizePressed
  PROVE  MenuInv'
<1>1. sub \in SubType /\ Inside(sub)
  BY DEF MenuInv, TypeOK
<1>2. /\ sub.offset \in Nat /\ sub.size \in Nat /\ sub.phys_size \in Numbers
      /\ sub.offset \in Numbers /\ sub.size \in Numbers
      /\ BeginsInside(sub) =>
           sub.offset <= sub.phys_size /\ sub.offset + sub.size <= sub.phys_size
  BY <1>1, Constants DEF SubType, Inside, Placed, Numbers
<1>3. /\ (sub.phys_size - sub.offset) % U32 \in Numbers
      /\ sub.offset <= sub.phys_size =>
           (sub.phys_size - sub.offset) % U32 = sub.phys_size - sub.offset
  BY <1>2, Constants DEF Numbers
<1>4. PICK of \in {"offset", "size"} :
        /\ sub_cursor = IF of = "offset" THEN OFFSET ELSE SIZE
        /\ screen = "sub" /\ screen' = "select"
        /\ sel' = [of |-> of, val |-> IF of = "offset" THEN sub.offset ELSE sub.size,
                   max |-> IF of = "offset" THEN sub.phys_size
                           ELSE (sub.phys_size - sub.offset) % U32, digit |-> Digits - 1]
        /\ UNCHANGED <<storage_state, config, mount_modes, cursor, tables, sub, sub_cursor,
                       volumes>>
  <2>1. CASE OffsetPressed
    BY <2>1 DEF OffsetPressed, Pressed, Select, mainVars
  <2>2. CASE SizePressed
    BY <2>2 DEF SizePressed, Pressed, Select, mainVars
  <2> QED
    BY <2>1, <2>2
<1> DEFINE val == IF of = "offset" THEN sub.offset ELSE sub.size
           max == IF of = "offset" THEN sub.phys_size ELSE (sub.phys_size - sub.offset) % U32
<1>5. val \in Numbers /\ max \in Numbers /\ (BeginsInside(sub) => val <= max)
  BY <1>2, <1>3, Constants DEF Numbers
<1>6. (of = "offset" => max = sub.phys_size) /\ sel' = [of |-> of, val |-> val, max |-> max,
                                                      digit |-> Digits - 1]
  BY <1>4
<1> HIDE DEF val, max
<1>7. Digits - 1 \in 0 .. Digits - 1
  BY MenuAssumption
<1>8. /\ sel' \in [of : {"none", "offset", "size"}, val : Numbers, max : Numbers,
                   digit : 0 .. Digits - 1]
  BY <1>5, <1>6, <1>7
<1>9. SelOK'
  BY <1>4, <1>5, <1>6 DEF SelOK
<1>10. TypeOK' /\ sub_cursor' \in SubEntries' /\ cursor' \in MainEntries'
  BY <1>4, <1>8 DEF MenuInv, TypeOK, SubEntries, MainEntries, Available, Subs, Numbers
<1> QED
  BY <1>4, <1>9, <1>10 DEF MenuInv, Subs, Available

\* The number that was selected is taken, and the size cut to fit.
LEMMA SelectNextKeeps ==
  ASSUME MenuInv, SelectNext
  PROVE  MenuInv'
<1>1. /\ sub \in SubType /\ Inside(sub) /\ InStep(sub) /\ screen = "select" /\ SelOK
      /\ sel \in [of : {"none", "offset", "size"}, val : Numbers, max : Numbers,
                  digit : 0 .. Digits - 1]
  BY SelType DEF MenuInv, TypeOK, SelectNext, Subs
<1>2. UNCHANGED <<storage_state, config, mount_modes, cursor, tables, sub_cursor, volumes>>
  BY DEF SelectNext, mainVars
<1>3. CASE sel.digit > 0
  <2>1. sel' = [sel EXCEPT !.digit = sel.digit - 1] /\ UNCHANGED <<screen, sub>>
    BY <1>3 DEF SelectNext
  <2>2. /\ sel' \in [of : {"none", "offset", "size"}, val : Numbers, max : Numbers,
                     digit : 0 .. Digits - 1]
        /\ sel'.val = sel.val /\ sel'.max = sel.max /\ sel'.of = sel.of
    <3>1. sel.digit - 1 \in 0 .. Digits - 1
      BY <1>1, <1>3, MenuAssumption
    <3> QED
      BY <1>1, <2>1, <3>1
  <2>3. SelOK'
    BY <1>1, <1>2, <2>1, <2>2 DEF SelOK
  <2>4. TypeOK' /\ sub_cursor' \in SubEntries' /\ cursor' \in MainEntries'
    BY <1>1, <1>2, <2>1, <2>2 DEF MenuInv, TypeOK, SubEntries, MainEntries, Available, Subs, Numbers
  <2> QED
    BY <1>1, <1>2, <2>1, <2>3, <2>4 DEF MenuInv, Subs, Available
<1>4. CASE ~ (sel.digit > 0)
  <2>1. /\ sel' = NoSel /\ screen' = "sub"
        /\ sub' = IF sel.of = "offset"
                  THEN SizeUpdate(OffsetUpdate([sub EXCEPT !.offset = sel.val]))
                  ELSE SizeUpdate([sub EXCEPT !.size = sel.val])
    BY <1>4 DEF SelectNext
  <2>2. sel' \in [of : {"none", "offset", "size"}, val : Numbers, max : Numbers,
                  digit : 0 .. Digits - 1]
    BY <2>1, Constants, MenuAssumption DEF NoSel, Numbers
  <2>3. sub.mode = "offset" /\ sub_cursor \notin sub.disabled
    <3>1. sub_cursor \in {OFFSET, SIZE} /\ sub_cursor \notin sub.disabled
      BY <1>1 DEF MenuInv, SelOK, SubEntries, Subs
    <3> QED
      BY <1>1, <3>1 DEF InStep, Follows
  <2> DEFINE u == IF sel.of = "offset" THEN OffsetUpdate([sub EXCEPT !.offset = sel.val])
                  ELSE [sub EXCEPT !.size = sel.val]
  <2>4. /\ u \in SubType /\ (BeginsInside(sub) => u.offset <= u.phys_size)
        /\ u.shown.offset = u.offset
        /\ u.shown.ro = sub.shown.ro
        /\ \A e \in {MODE, PART, OFFSET} : e \in u.disabled <=> e \in sub.disabled
        /\ \A f \in {"device", "mode", "part", "n_parts", "parts", "ro", "phys_size"} :
             u[f] = sub[f]
    <3>1. CASE sel.of = "offset"
      <4> DEFINE c == [sub EXCEPT !.offset = sel.val]
      <4>1. /\ c \in SubType /\ c.offset = sel.val /\ c.disabled = sub.disabled
            /\ c.shown = sub.shown
            /\ \A f \in {"device", "mode", "part", "n_parts", "parts", "ro", "phys_size"} :
                 c[f] = sub[f]
        BY <1>1 DEF SubType, Numbers
      <4> HIDE DEF c
      <4>2. u = OffsetUpdate(c)
        BY <3>1 DEF c
      <4> HIDE DEF u
      <4>3. /\ u \in SubType /\ u.shown.offset = c.offset /\ u.shown.ro = c.shown.ro
            /\ (OFFSET \in u.disabled <=> c.mode # "offset")
            /\ \A e \in {MODE, PART} : e \in u.disabled <=> e \in c.disabled
            /\ \A f \in {"device", "mode", "part", "n_parts", "parts", "offset", "ro",
                        "phys_size"} : u[f] = c[f]
        BY <4>1, <4>2, OffsetUpdated
      <4>4. BeginsInside(sub) => sel.val <= sub.phys_size
        BY <1>1, <3>1 DEF SelOK
      <4>5. OFFSET \in u.disabled <=> OFFSET \in sub.disabled
        BY <1>1, <4>1, <4>3 DEF InStep, Follows
      <4> QED
        BY <4>1, <4>3, <4>4, <4>5
    <3>2. CASE sel.of # "offset"
      <4>1. u = [sub EXCEPT !.size = sel.val]
        BY <3>2
      <4>2. /\ u \in SubType /\ u.shown = sub.shown /\ u.disabled = sub.disabled
            /\ \A f \in {"device", "mode", "part", "n_parts", "parts", "offset", "ro",
                        "phys_size"} : u[f] = sub[f]
        BY <1>1, <4>1 DEF SubType, Numbers
      <4> HIDE DEF u
      <4>3. BeginsInside(sub) => sub.offset <= sub.phys_size
        BY <1>1 DEF Inside, Placed
      <4> QED
        BY <1>1, <4>2, <4>3 DEF InStep, Follows
    <3> QED
      BY <3>1, <3>2
  <2>5. sub' = SizeUpdate(u)
    BY <2>1
  <2> HIDE DEF u
  <2>6. /\ sub' \in SubType
        /\ u.offset <= u.phys_size => sub'.offset + sub'.size <= u.phys_size
        /\ sub'.shown.size = sub'.size /\ (SIZE \in sub'.disabled <=> u.mode # "offset")
        /\ \A e \in {MODE, PART, OFFSET} : e \in sub'.disabled <=> e \in u.disabled
        /\ sub'.shown.offset = u.shown.offset /\ sub'.shown.ro = u.shown.ro
        /\ \A f \in {"device", "mode", "part", "n_parts", "parts", "offset", "ro",
                    "phys_size"} : sub'[f] = u[f]
    BY <2>4, <2>5, SizeUpdated
  <2>7. Inside(sub')
    <3>1. BeginsInside(sub') <=> BeginsInside(sub)
      BY <2>4, <2>6 DEF BeginsInside
    <3>2. Placed(sub')
      BY <1>1, <2>4, <2>6, <3>1 DEF Inside, Placed
    <3> QED
      BY <2>6, <3>2 DEF Inside
  <2>8. InStep(sub')
    BY <1>1, <2>4, <2>6 DEF InStep, Follows
  <2>9. sub_cursor \notin sub'.disabled
    <3>1. sub_cursor \in {OFFSET, SIZE}
      BY <1>1 DEF SelOK
    <3> QED
      BY <2>3, <2>4, <2>6, <2>8, <3>1 DEF InStep, Follows
  <2> QED
    BY <1>1, <1>2, <2>1, <2>2, <2>6, <2>7, <2>8, <2>9, SubKeeps DEF Subs
<1> QED
  BY <1>3, <1>4

-----------------------------------------------------------------------------
(* The main menu, from boot to the stop action.                            *)

\* A set of entries with one always there has a first one.
LEMMA FirstOf ==
  ASSUME NEW S, S \subseteq (1 .. 4) \cup {6, 8, 10, 11, 12}, 6 \in S
  PROVE  First(S) \in S
<1>1. \E e \in S : \A f \in S : e <= f
  <2>1. CASE 1 \in S
    BY <2>1
  <2>2. CASE 1 \notin S /\ 2 \in S
    BY <2>2
  <2>3. CASE 1 \notin S /\ 2 \notin S /\ 3 \in S
    BY <2>3
  <2>4. CASE 1 \notin S /\ 2 \notin S /\ 3 \notin S /\ 4 \in S
    BY <2>4
  <2>5. CASE 1 \notin S /\ 2 \notin S /\ 3 \notin S /\ 4 \notin S
    BY <2>5
  <2> QED
    BY <2>1, <2>2, <2>3, <2>4, <2>5
<1> QED
  BY <1>1 DEF First

\* Start UMS is always an entry of the main menu.
LEMMA EntriesType ==
  MainEntries \subseteq (1 .. 4) \cup {6, 8, 10, 11, 12} /\ 6 \in MainEntries
<1>1. {Toggle(d) : d \in {e \in Devices : Available(e)}} \subseteq 1 .. 4
  BY DEF Toggle, Devices, SD, BOOT1
<1> QED
  BY <1>1 DEF MainEntries

\* The invariant holds at first.
LEMMA InitInv ==
  ASSUME Init
  PROVE  MenuInv
<1>1. sub \in SubType /\ Inside(sub)
  BY NoSubType DEF Init
<1>2. mount_modes \in [Devices -> 0 .. 3]
  BY MenuAssumption DEF Init
<1>3. sel \in [of : {"none", "offset", "size"}, val : Numbers, max : Numbers,
               digit : 0 .. Digits - 1]
  BY Constants, MenuAssumption DEF Init, NoSel, Numbers
<1>4. TypeOK
  BY <1>1, <1>2, <1>3 DEF Init, TypeOK, Numbers
<1>5. screen = "boot" /\ \A d \in {SD, GPP} : tables[d] \in TablesOf[d]
  BY DEF Init
<1> QED
  BY <1>1, <1>4, <1>5 DEF MenuInv, Subs

\* A device whose card was not found is not mounted, and the first entry that is
\* not disabled is selected.
LEMMA BootKeeps ==
  ASSUME MenuInv, Boot
  PROVE  MenuInv'
<1>1. /\ storage_state' \in SUBSET {"SD", "EMMC"} /\ mount_modes' = ModesAtBoot
      /\ UNCHANGED <<config, tables, sub, sub_cursor, sel>>
      /\ screen' \in {"ums", "menu"}
      /\ screen' = "ums" => volumes' = MenuVolumes'
  BY DEF Boot
<1>2. cursor' = First(MainEntries')
  BY DEF Boot
<1>3. MainEntries' \subseteq (1 .. 4) \cup {6, 8, 10, 11, 12} /\ 6 \in MainEntries'
  <2>1. \A d \in Devices : Toggle(d) \in 1 .. 4
    BY DEF Toggle, Devices, SD, BOOT1
  <2>2. {Toggle(d) : d \in {e \in Devices : Available(e)'}} \subseteq 1 .. 4
    BY <2>1
  <2>3. MainEntries' = {Toggle(d) : d \in {e \in Devices : Available(e)'}} \cup {6, 10, 12}
                      \cup (IF storage_state' = {"SD", "EMMC"} THEN {} ELSE {8})
                      \cup (IF IsT210 THEN {11} ELSE {})
    BY DEF MainEntries
  <2> QED
    BY <2>2, <2>3
<1>4. First(MainEntries') \in MainEntries'
  BY <1>3, FirstOf
<1>5. cursor' \in MainEntries' /\ cursor' \in 0 .. 12
  <2>1. cursor' \in MainEntries'
    BY <1>2, <1>4
  <2>2. cursor' \in (1 .. 4) \cup {6, 8, 10, 11, 12}
    BY <1>3, <2>1
  <2> QED
    BY <2>1, <2>2
<1>6. config.modes \in [Devices -> 0 .. 3]
  BY MenuAssumption DEF MenuInv, TypeOK
<1>7. /\ mount_modes' \in [Devices -> 0 .. 3]
      /\ \A d \in Devices : mount_modes'[d] # NO_MOUNT => Available(d)'
  BY <1>1, <1>6 DEF ModesAtBoot, NO_MOUNT
<1>8. TypeOK'
  BY <1>1, <1>5, <1>7 DEF MenuInv, TypeOK
<1> QED
  BY <1>1, <1>5, <1>7, <1>8 DEF MenuInv, Subs

\* The selection moves in the main menu.
LEMMA MainMoveKeeps ==
  ASSUME MenuInv, MainMove
  PROVE  MenuInv'
<1>1. /\ screen = "menu" /\ cursor' \in MainEntries
      /\ UNCHANGED <<screen, storage_state, config, mount_modes, tables, sub, sub_cursor, sel,
                     volumes>>
  BY DEF MainMove, MovesTo
<1>2. cursor' \in MainEntries' /\ cursor' \in 0 .. 12
  BY <1>1, EntriesType DEF MainEntries, Available
<1>3. TypeOK'
  BY <1>1, <1>2 DEF MenuInv, TypeOK
<1> QED
  BY <1>1, <1>2, <1>3 DEF MenuInv, Subs, Available

\* Only the entry of a card that was found can be selected.
LEMMA MainToggleKeeps ==
  ASSUME MenuInv, MainToggle
  PROVE  MenuInv'
<1>1. PICK d \in Devices :
        cursor = Toggle(d) /\ mount_modes' = [mount_modes EXCEPT ![d] = NextMode[mount_modes[d]]]
  BY DEF MainToggle
<1>2. /\ screen = "menu" /\ cursor \in MainEntries
      /\ UNCHANGED <<screen, storage_state, config, cursor, tables, sub, sub_cursor, sel, volumes>>
  BY DEF MainToggle, MenuInv
<1>3. Available(d)
  <2>1. d + 1 \in 1 .. 4 /\ d \in Int
    BY DEF Devices, SD, BOOT1
  <2>2. d + 1 \in {Toggle(e) : e \in {e \in Devices : Available(e)}}
    BY <1>1, <1>2, <2>1 DEF MainEntries, Toggle
  <2>3. PICK e \in Devices : Available(e) /\ d + 1 = e + 1
    BY <2>2 DEF Toggle
  <2>4. e = d
    BY <2>1, <2>3 DEF Devices, SD, BOOT1
  <2> QED
    BY <2>3, <2>4
<1>4. NextMode[mount_modes[d]] \in 0 .. 3
  BY DEF MenuInv, TypeOK, NextMode
<1>5. /\ mount_modes' \in [Devices -> 0 .. 3]
      /\ \A e \in Devices : e # d => mount_modes'[e] = mount_modes[e]
  BY <1>1, <1>4 DEF MenuInv, TypeOK
<1>6. \A e \in Devices : mount_modes'[e] # NO_MOUNT => Available(e)
  BY <1>2, <1>3, <1>5 DEF MenuInv
<1>7. TypeOK' /\ cursor' \in MainEntries'
  BY <1>2, <1>5 DEF MenuInv, TypeOK, MainEntries, Available
<1> QED
  BY <1>2, <1>6, <1>7 DEF MenuInv, Subs, Available

\* The gadget runs with the volumes of the menu until it returns.
LEMMA MainRunKeeps ==
  ASSUME MenuInv, MainStart \/ MainStop
  PROVE  MenuInv'
<1>1. /\ screen \in {"menu", "ums"} /\ screen' \in {"menu", "ums", "off"}
      /\ screen' = "ums" => volumes' = MenuVolumes
      /\ UNCHANGED <<storage_state, config, mount_modes, cursor, tables, sub, sub_cursor, sel>>
  BY DEF MainStart, MainStop, mainVars
<1>2. MenuVolumes' = MenuVolumes
  BY <1>1 DEF MenuVolumes, MenuVolume, Available
<1>3. TypeOK' /\ cursor' \in MainEntries'
  BY <1>1 DEF MenuInv, TypeOK, MainEntries, Available
<1> QED
  BY <1>1, <1>2, <1>3 DEF MenuInv, Subs, Available

\* The payload starts over.
LEMMA MainReloadKeeps ==
  ASSUME MenuInv, MainReload
  PROVE  MenuInv'
<1>1. /\ screen' = "boot" /\ storage_state' = {} /\ mount_modes' = config.modes /\ cursor' = 0
      /\ UNCHANGED <<config, tables, sub, sub_cursor, sel, volumes>>
  BY DEF MainReload
<1>2. config.modes \in [Devices -> 0 .. 3]
  BY MenuAssumption DEF MenuInv, TypeOK
<1>3. TypeOK'
  BY <1>1, <1>2 DEF MenuInv, TypeOK
<1> QED
  BY <1>1, <1>3 DEF MenuInv, Subs

\* The device is switched off.
LEMMA MainOffKeeps ==
  ASSUME MenuInv, MainOff
  PROVE  MenuInv'
<1>1. /\ screen' = "off" /\ screen = "menu"
      /\ UNCHANGED <<storage_state, config, mount_modes, cursor, tables, sub, sub_cursor, sel,
                     volumes>>
  BY DEF MainOff, mainVars
<1>2. TypeOK'
  BY <1>1 DEF MenuInv, TypeOK
<1> QED
  BY <1>1, <1>2 DEF MenuInv, Subs, Available

\* Nothing happens.
LEMMA StutterKeeps ==
  ASSUME MenuInv, UNCHANGED vars
  PROVE  MenuInv'
<1>1. UNCHANGED <<screen, storage_state, config, mount_modes, cursor, tables, sub, sub_cursor,
                  sel, volumes>>
  BY DEF vars
<1>2. TypeOK' /\ Inside(sub') /\ (InStep(sub') <=> InStep(sub)) /\ (SelOK' <=> SelOK)
  BY <1>1 DEF MenuInv, TypeOK, SelOK
<1>3. SubEntries' = SubEntries /\ MainEntries' = MainEntries /\ SubVolume' = SubVolume
  BY <1>1 DEF SubEntries, MainEntries, Available, SubVolume
<1>4. MenuVolumes' = MenuVolumes
  BY <1>1 DEF MenuVolumes, MenuVolume, Available
<1> QED
  BY <1>1, <1>2, <1>3, <1>4 DEF MenuInv, Available

\* So the invariant holds always.
LEMMA Inductive ==
  Spec => []MenuInv
<1>1. Init => MenuInv
  BY InitInv
<1>2. MenuInv /\ [Next]_vars => MenuInv'
  <2> SUFFICES ASSUME MenuInv, [Next]_vars
               PROVE  MenuInv'
    OBVIOUS
  <2>1. CASE Boot \/ MainMove \/ MainToggle \/ MainStart \/ MainStop \/ MainReload \/ MainOff
    BY <2>1, BootKeeps, MainMoveKeeps, MainToggleKeeps, MainRunKeeps, MainReloadKeeps, MainOffKeeps
  <2>2. CASE SubOpen \/ SubMove \/ DeviceToggle \/ ModeToggle \/ PartToggle \/ RoToggle
    BY <2>2, SubOpenKeeps, SubMoveKeeps, DeviceToggleKeeps, ModeToggleKeeps, PartToggleKeeps,
       RoToggleKeeps
  <2>3. CASE SubStart \/ SubStop \/ SubBack
    BY <2>3, SubRunKeeps, SubBackKeeps
  <2>4. CASE OffsetPressed \/ SizePressed \/ SelectChange \/ SelectHangs \/ SelectNext
    BY <2>4, SelectKeeps, SelectChangeKeeps, SelectHangsKeeps, SelectNextKeeps
  <2>5. CASE UNCHANGED vars
    BY <2>5, StutterKeeps
  <2> QED
    BY <2>1, <2>2, <2>3, <2>4, <2>5 DEF Next
<1> QED
  BY <1>1, <1>2, PTL DEF Spec

-----------------------------------------------------------------------------
(* What the user may count on.                                             *)

\* Whatever the cards hold and the buttons do, the state of both menus and of the
\* selector stays within its types.
THEOREM MenuTypeCorrect ==
  Spec => []TypeOK
<1>1. MenuInv => TypeOK
  BY DEF MenuInv
<1> QED
  BY <1>1, Inductive, PTL

\* The drive the gadget makes of a sub-drive ends inside the device chosen, whatever
\* the tables on the cards say, if it begins there and its size is meant; and it
\* begins there unless a partition of the table does not.
THEOREM SubMountsInside ==
  Spec => []MountedInside
<1>1. MenuInv => MountedInside
  <2> SUFFICES ASSUME MenuInv, screen = "sub_ums"
               PROVE  MountedInside
    BY DEF MountedInside
  <2>1. sub \in SubType /\ Inside(sub) /\ volumes = {SubVolume}
    BY DEF MenuInv, TypeOK
  <2>2. BeginsInside(sub) => sub.offset <= sub.phys_size
    BY <2>1 DEF Inside, Placed
  <2>3. ASSUME sub.offset <= sub.phys_size, SizeMeant(sub), NEW v \in volumes
        PROVE  Resolved(v).offset + Resolved(v).sectors <= SizeOf(sub.device)
    <3>1. /\ v.offset = sub.offset /\ v.sectors = sub.size /\ v.type = StorageOf(sub.device)
      BY <2>1 DEF SubVolume
    <3>2. /\ Resolved(v).offset = sub.offset
          /\ Resolved(v).sectors =
               IF sub.size = 0 THEN Capacity[StorageOf(sub.device)] ELSE sub.size
      BY <3>1 DEF Resolved
    <3>3. /\ sub.offset \in Nat /\ sub.size \in Nat /\ sub.device \in Devices
          /\ SizeOf(sub.device) \in Nat
      BY <2>1, SizeOfType, Constants DEF SubType, Numbers
    <3>4. sub.offset + sub.size <= SizeOf(sub.device)
      BY <2>1, <2>3, <3>3 DEF Inside, Placed
    <3>5. CASE sub.size = 0
      <4>1. sub.offset = 0 /\ SizeOf(sub.device) = Capacity[StorageOf(sub.device)]
        BY <2>3, <3>5 DEF SizeMeant, SizeOf, SD, GPP, BOOT0, BOOT1
      <4> QED
        BY <3>2, <3>3, <3>5, <4>1
    <3>6. CASE sub.size # 0
      BY <3>2, <3>4, <3>6
    <3> QED
      BY <3>5, <3>6
  <2> QED
    BY <2>2, <2>3 DEF MountedInside
<1> QED
  BY <1>1, Inductive, PTL

\* The gadget started by Start UMS of the sub-storage menu gets the offset, the
\* size and the mode that the menu shows.
THEOREM MountsWhatIsShown ==
  Spec => []ShownIsMounted
<1>1. MenuInv => ShownIsMounted
  <2> SUFFICES ASSUME MenuInv, screen = "sub_ums", NEW v \in volumes
               PROVE  /\ v.offset = sub.shown.offset /\ v.ro = sub.shown.ro
                      /\ sub.shown.size # 0 => Resolved(v).sectors = sub.shown.size
    BY DEF ShownIsMounted
  <2>1. v = SubVolume /\ InStep(sub)
    BY DEF MenuInv, Subs
  <2>2. v.offset = sub.offset /\ v.sectors = sub.size /\ v.ro = sub.ro
    BY <2>1 DEF SubVolume
  <2>3. Resolved(v).sectors = IF v.sectors = 0 THEN Capacity[v.type] ELSE v.sectors
    BY DEF Resolved
  <2> QED
    BY <2>1, <2>2, <2>3 DEF InStep, Follows
<1> QED
  BY <1>1, Inductive, PTL

\* No action disables the entry that is selected, in neither menu.
THEOREM SelectionLives ==
  Spec => []SelectedLives
<1>1. MenuInv => SelectedLives
  BY DEF MenuInv, SelectedLives, Subs
<1> QED
  BY <1>1, Inductive, PTL

\* Nothing is divided by a number of partitions that is zero.
THEOREM PartToggleSafe ==
  Spec => []PartToggleDivides
<1>1. MenuInv => PartToggleDivides
  <2> SUFFICES ASSUME MenuInv, screen = "sub", PART \in SubEntries
               PROVE  sub.n_parts > 0
    BY DEF PartToggleDivides
  <2>1. InStep(sub) /\ sub \in SubType /\ PART \notin sub.disabled
    BY DEF MenuInv, TypeOK, Subs, SubEntries
  <2> QED
    BY <2>1 DEF InStep, Follows, SubType
<1> QED
  BY <1>1, Inductive, PTL

\* The number selector neither exceeds its maximum nor hangs, if no partition begins
\* behind the end of the device.
THEOREM SelectorStaysBounded ==
  Spec => []SelectorBounded
<1>1. MenuInv => SelectorBounded
  BY DEF MenuInv, SelectorBounded, SelOK
<1> QED
  BY <1>1, Inductive, PTL

\* What the gadget makes of a volume of the main menu is the whole device.
LEMMA VolumeIsDevice ==
  ASSUME NEW d \in Devices
  PROVE  Resolved(MenuVolume(d)) = Range(d, 0, SizeOf(d), mount_modes[d] = RO)
<1> DEFINE v == MenuVolume(d)
<1>1. /\ v.type = StorageOf(d) /\ v.ro = (mount_modes[d] = RO) /\ v.offset = 0
      /\ v.partition = (IF d = SD THEN 0 ELSE d - GPP + 1)
      /\ v.sectors = IF d \in {BOOT0, BOOT1} THEN BootSize ELSE 0
  BY DEF MenuVolume
<1> HIDE DEF v
<1>2. (IF v.type = "SD" THEN 0 ELSE Selected((v.partition - 1) % U32)) =
        IF d = SD THEN 0 ELSE d - GPP
  <2>1. CASE d = SD
    BY <1>1, <2>1 DEF StorageOf
  <2>2. CASE d # SD
    <3>1. d - GPP \in 0 .. 2 /\ v.partition - 1 = d - GPP /\ v.type = "EMMC"
      BY <1>1, <2>2 DEF Devices, SD, GPP, BOOT1, StorageOf
    <3>2. (d - GPP) % U32 = d - GPP
      BY <3>1, Constants
    <3> QED
      BY <2>2, <3>1, <3>2 DEF Selected
  <2> QED
    BY <2>1, <2>2
<1>3. (IF v.sectors = 0 THEN Capacity[v.type] ELSE v.sectors) = SizeOf(d)
  BY <1>1, Constants DEF SizeOf
<1> QED
  BY <1>1, <1>2, <1>3 DEF Resolved, Range, v

\* Start UMS and autostart hand the gadget exactly the devices that are to be
\* mounted, whole and in their modes, and never one whose card was not found.
THEOREM MenuMountsExactly ==
  Spec => []MenuMountsSet
<1>1. MenuInv => MenuMountsSet
  <2> SUFFICES ASSUME MenuInv, screen = "ums"
               PROVE  MenuMountsSet
    BY DEF MenuMountsSet
  <2> DEFINE mounted == {e \in Devices : mount_modes[e] # NO_MOUNT}
  <2>1. /\ volumes = MenuVolumes
        /\ \A d \in Devices : mount_modes[d] # NO_MOUNT => Available(d)
    BY DEF MenuInv
  <2>2. volumes = {MenuVolume(d) : d \in mounted}
    BY <2>1 DEF MenuVolumes
  <2>3. {Resolved(v) : v \in volumes} = {Resolved(MenuVolume(d)) : d \in mounted}
    BY <2>2
  <2>4. {Resolved(MenuVolume(d)) : d \in mounted}
          = {Range(d, 0, SizeOf(d), mount_modes[d] = RO) : d \in mounted}
    BY VolumeIsDevice
  <2> QED
    BY <2>1, <2>3, <2>4 DEF MenuMountsSet
<1> QED
  BY <1>1, Inductive, PTL
=============================================================================
