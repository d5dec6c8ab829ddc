------------------------------- MODULE MCUms -------------------------------
(***************************************************************************)
(* Small instances of the gadget.  A sector is two units, a wrapper or a   *)
(* fixed reply is one, an endpoint transfer at most four sectors.          *)
(***************************************************************************)
EXTENDS UmsProperties

Cbw(lun, op, dir, size, len, lba) ==
  [lun |-> lun, op |-> op, dir |-> dir, size |-> size, len |-> len, lba |-> lba,
   mask |-> TRUE, field |-> TRUE, fits |-> TRUE]

OneLun(x) == [l \in 0 .. 0 |-> x]

\* One SD card of eleven sectors.
OneSectors == OneLun(11)
OneRw      == OneLun(FALSE)
OneSd      == OneLun("SD")
OnePart    == OneLun(0)

\* Transfers inside the card, long and short, aligned to the chunks and not,
\* with the sizes both sides agree on.
DataCbws ==
  {Cbw(0, "READ", "in", 2 * n, n, a) : n \in {2, 5, 10}, a \in {0, 1}}
  \cup {Cbw(0, "WRITE", "out", 2 * n, n, a) : n \in {1, 4}, a \in {0, 2}}
  \cup {Cbw(0, "VERIFY", "in", 0, 5, 1), Cbw(0, "REQUEST_SENSE", "in", 1, 1, 0),
        Cbw(0, "INQUIRY", "in", 2, 2, 0), Cbw(0, "TEST_UNIT_READY", "in", 0, 0, 0),
        Cbw(0, "MODE_SENSE", "in", 1, 1, 0), Cbw(0, "START", "in", 0, 0, 0),
        Cbw(0, "STOP", "in", 0, 0, 0)}

\* Commands whose size, direction or length differs from what the wrapper
\* announces, and commands that are refused.
MismatchCbws ==
  {c \in
     {Cbw(0, "READ", d, s, n, 0) : d \in {"in", "out"}, s \in {0, 3, 6, 10}, n \in {2, 4}}
     \cup {Cbw(0, "WRITE", d, s, n, 0) : d \in {"in", "out"}, s \in {0, 2, 6, 8}, n \in {2, 4}}
     \cup {Cbw(0, "INQUIRY", d, s, n, 0) : d \in {"in", "out"}, s \in {0, 1, 3}, n \in {2}}
     \cup {Cbw(0, "TEST_UNIT_READY", d, s, 0, 0) : d \in {"in", "out"}, s \in {0, 8, 10}}
     \cup {[Cbw(0, o, "in", 4, 2, 0) EXCEPT !.mask = m, !.field = f, !.fits = ~ m] :
              o \in {"READ", "MODE_SENSE", "OTHER"}, m \in BOOLEAN, f \in BOOLEAN} :
   c.dir = "out" => c.size <= 8}

\* Requests beyond the end of the medium.
EndCbws ==
  {Cbw(0, "READ", "in", 6, 3, 11), Cbw(0, "WRITE", "out", 8, 4, 11),
   Cbw(0, "VERIFY", "in", 0, 5, 8)}

TalkCbws == DataCbws \cup MismatchCbws \cup EndCbws

\* Two volumes: the card, and a write-protected eMMC boot partition.
TwoSectors == [l \in 0 .. 1 |-> IF l = 0 THEN 11 ELSE 3]
TwoRo      == [l \in 0 .. 1 |-> l = 1]
TwoTypes   == [l \in 0 .. 1 |-> IF l = 0 THEN "SD" ELSE "EMMC"]
TwoParts   == [l \in 0 .. 1 |-> l]

\* Requests in more than one piece, inside the medium and across its end, for
\* the run with faults.
FaultCbws ==
  {Cbw(0, "READ", "in", 10, 5, 0), Cbw(1, "READ", "in", 6, 3, 1),
   Cbw(0, "WRITE", "out", 18, 9, 7)}

\* Two volumes that share the eMMC: its boot partitions, one write-protected.
BootSectors == [l \in 0 .. 1 |-> 3]
BootRo      == [l \in 0 .. 1 |-> l = 1]
BootTypes   == [l \in 0 .. 1 |-> "EMMC"]
BootParts   == [l \in 0 .. 1 |-> l + 1]

\* Locking, ejecting and reading two volumes, and a write that reaches past the
\* end of one and is never over (see the run spin).
EjectCbws ==
  {Cbw(l, o, "in", 0, 0, 0) : l \in {0, 1}, o \in {"EJECT", "PREVENT", "ALLOW"}}
  \cup {Cbw(l, "READ", "in", 2, 1, 0) : l \in {0, 1}}
  \cup {Cbw(1, "WRITE", "out", 2, 1, 0), Cbw(0, "WRITE", "out", 6, 3, 1),
        Cbw(2, "TEST_UNIT_READY", "in", 0, 0, 0)}

\* A few commands of each kind for the run with a reset.
ResetCbws ==
  {Cbw(0, "READ", "in", 10, 5, 0), Cbw(0, "WRITE", "out", 8, 4, 0),
   Cbw(0, "TEST_UNIT_READY", "in", 0, 0, 0)}

\* A long write to a card that has not told of its reset yet.
LongWriteCbws == {Cbw(0, "WRITE", "out", 18, 9, 0), Cbw(0, "TEST_UNIT_READY", "in", 0, 0, 0)}

\* A write that reaches past the end of the card.
EndWriteCbws == {Cbw(0, "WRITE", "out", 8, 4, 9), Cbw(0, "TEST_UNIT_READY", "in", 0, 0, 0)}

\* The run talk is of the environment that the theorems on the conversation are
\* about.
ASSUME TalkEnvironment == Cbws = TalkCbws /\ Faults = {} => Talking
=============================================================================
