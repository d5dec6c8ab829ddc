----------------------------- MODULE SdmmcStorage -----------------------------
(***************************************************************************)
(* A card behind sdmmc_storage_read and sdmmc_storage_write: the retries   *)
(* of _sdmmc_storage_readwrite, the fall back to lower speeds of           *)
(* sd_initialize and emmc_initialize, and the power of card and host       *)
(* controller.  One behaviour is that of one card, SD or eMMC; the program *)
(* has one thread, the card may be pulled or fail at any time.             *)
(***************************************************************************)
EXTENDS Integers

CONSTANTS
  Kinds,        \* the cards looked at, a subset of {"SD", "EMMC"}
  TopSpeed,     \* SD_UHS_SDR104, EMMC_MMC_HS400
  U32,          \* modulus of a u32
  Tries,        \* commands tried before a card is set up anew
  TriesAfter,   \* and after it was
  MaxBlocks,    \* sectors of one command
  Requests,     \* the transfers asked for, [sector, num]
  Partitions    \* the partitions of an eMMC

ASSUME StorageAssumption ==
  /\ Kinds \subseteq {"SD", "EMMC"}
  /\ TopSpeed \in Nat \ {0} /\ U32 \in Nat /\ TopSpeed < U32
  /\ Tries \in Nat \ {0} /\ TriesAfter \in Nat \ {0} /\ MaxBlocks \in Nat \ {0}
  /\ Requests \subseteq [sector : Nat, num : Nat \ {0}]
  /\ Partitions \subseteq Nat /\ 0 \in Partitions

VARIABLES
  kind,                 \* which card
  inserted,             \* sdmmc_get_sd_inserted()
  mode,                 \* sd_mode, emmc_mode
  initialized,          \* storage->initialized
  partition,            \* storage->partition
  card_clock_enabled,   \* sdmmc->card_clock_enabled
  clock_stopped,        \* sdmmc->clock_stopped
  powered,              \* card and controller are supplied
  session,              \* whether the gadget or load_part_table uses the card
  pc,                   \* where the thread is
  caller,               \* who sets the card up
  req,                  \* arguments of the transfer under way
  xfer,                 \* locals of _sdmmc_storage_readwrite
  result,               \* what the last transfer returned
  moved                 \* <<place in the buffer, sector>> moved for it since the
                        \* card was last set up

hostVars == <<card_clock_enabled, clock_stopped, powered>>
storageVars == <<initialized, partition>>
callVars == <<req, xfer, result>>
vars == <<kind, inserted, mode, storageVars, hostVars, session, pc, caller, callVars, moved>>

INIT_FAIL == 0

NoReq == [sector |-> 0, num |-> 0]
NoXfer == [sct_off |-> 0, sct_total |-> 0, place |-> 0, retries |-> 0, first_reinit |-> FALSE]

Init ==
  /\ kind \in Kinds /\ inserted \in BOOLEAN /\ (kind = "EMMC" => inserted)
  /\ mode = TopSpeed
  /\ initialized = FALSE /\ partition = 0
  /\ card_clock_enabled = FALSE /\ clock_stopped = TRUE /\ powered = FALSE
  /\ session = FALSE /\ pc = "idle" /\ caller = "open"
  /\ req = NoReq /\ xfer = NoXfer /\ result = "none" /\ moved = {}

-----------------------------------------------------------------------------
(* Power.                                                                  *)

\* Seeded bug: the storage keeps its flag when it is ended.
BugStorageEnd ==
  \/ /\ card_clock_enabled
     /\ IF clock_stopped THEN UNCHANGED hostVars
        ELSE card_clock_enabled' = FALSE /\ clock_stopped' = TRUE /\ powered' = FALSE
     /\ UNCHANGED storageVars
  \/ UNCHANGED <<storageVars, hostVars>>

\* sdmmc_storage_end: the supply is cut only if the go-idle command was
\* executed, which takes a clock.
StorageEnd ==
  \/ /\ card_clock_enabled
     /\ IF clock_stopped THEN UNCHANGED hostVars
        ELSE card_clock_enabled' = FALSE /\ clock_stopped' = TRUE /\ powered' = FALSE
     /\ initialized' = FALSE
     /\ UNCHANGED partition
  \/ UNCHANGED <<storageVars, hostVars>>

\* sdmmc_storage_init_sd and sdmmc_storage_init_mmc: there is no card, the host
\* controller does not start, the card does not answer, or all is well.  In the
\* end the storage is all zero but for the last of these.
StorageInit(how) ==
  /\ initialized' = (how = "ok") /\ partition' = 0 /\ moved' = {}
  /\ IF how = "no card"
     THEN card_clock_enabled' = FALSE /\ clock_stopped' = TRUE /\ UNCHANGED powered
     ELSE /\ card_clock_enabled' = (how # "no host")
          /\ clock_stopped' = FALSE /\ powered' = TRUE

InitOutcomes == IF inserted THEN {"no host", "no answer", "ok"} ELSE {"no card"}

-----------------------------------------------------------------------------
(* Setting up: sd_initialize and sd_init_retry, emmc_initialize and        *)
(* emmc_init_retry.                                                        *)

\* Seeded bug: every set-up starts at the top speed.
BugStartMode == TopSpeed

\* emmc_initialize forgets an earlier failure, sd_initialize does not.
StartMode == IF kind = "EMMC" /\ mode = INIT_FAIL THEN TopSpeed ELSE mode

\* initialize(false), when the gadget or load_part_table begins.
Open ==
  /\ pc = "idle" /\ ~ session
  /\ pc' = "init" /\ caller' = "open" /\ mode' = StartMode /\ result' = "none"
  /\ UNCHANGED <<kind, inserted, storageVars, hostVars, session, req, xfer, moved>>

\* initialize(true) ends the storage first.
Restart ==
  /\ pc = "restart"
  /\ StorageEnd
  /\ pc' = "init" /\ mode' = StartMode
  /\ UNCHANGED <<kind, inserted, session, caller, callVars, moved>>

\* init_retry(true) is one speed slower, after a power cycle.
PowerCycle ==
  /\ pc = "cycle"
  /\ StorageEnd
  /\ pc' = "init" /\ mode' = (mode - 1) % U32
  /\ UNCHANGED <<kind, inserted, session, caller, callVars, moved>>

\* A transfer is over.
Return(res) ==
  /\ pc' = "idle" /\ result' = res
  /\ req' = NoReq /\ xfer' = NoXfer

Start(r, tries, first) ==
  [sct_off |-> r.sector, sct_total |-> r.num, place |-> 0, retries |-> tries,
   first_reinit |-> first]

\* Seeded bug: the rest of the transfer is gone on with.
BugSetUp ==
  IF caller = "open" THEN pc' = "idle" /\ session' = TRUE /\ UNCHANGED callVars
  ELSE /\ pc' = "try"
       /\ xfer' = [xfer EXCEPT !.retries = TriesAfter, !.first_reinit = FALSE]
       /\ UNCHANGED <<session, req, result>>

\* The card is set up: the session begins, or the transfer starts over.
SetUp ==
  IF caller = "open" THEN pc' = "idle" /\ session' = TRUE /\ UNCHANGED callVars
  ELSE /\ pc' = "try"
       /\ xfer' = Start(req, TriesAfter, FALSE)
       /\ UNCHANGED <<session, req, result>>

\* It is not, at this speed: init_retry returns to the transfer, initialize
\* goes on.
NotSetUp ==
  /\ UNCHANGED session
  /\ IF caller = "again" THEN Return("failed") ELSE pc' = "judge" /\ UNCHANGED callVars

\* init_retry once the power is cycled.
InitRetry ==
  /\ pc = "init"
  /\ IF mode = INIT_FAIL THEN NotSetUp /\ UNCHANGED <<mode, storageVars, hostVars, moved>>
     ELSE /\ mode' = IF mode \in 1 .. TopSpeed THEN mode ELSE TopSpeed
          /\ \E how \in InitOutcomes :
               StorageInit(how) /\ IF how = "ok" THEN SetUp ELSE NotSetUp
  /\ UNCHANGED <<kind, inserted, caller>>

Gone == kind = "SD" /\ ~ inserted

\* Seeded bug: a slower speed is looked for below the lowest.
BugAfterFailure == IF Gone THEN "giveup" ELSE "cycle"

\* The card is gone, no speed is left, or there is another one.
AfterFailure == IF Gone \/ mode = INIT_FAIL THEN "giveup" ELSE "cycle"

\* The loop of initialize after a failure.
Judge ==
  /\ pc = "judge"
  /\ mode' = IF Gone THEN TopSpeed ELSE mode
  /\ pc' = AfterFailure
  /\ UNCHANGED <<kind, inserted, storageVars, hostVars, session, caller, callVars, moved>>

GiveUp ==
  /\ pc = "giveup"
  /\ StorageEnd
  /\ IF caller = "open" THEN pc' = "idle" /\ UNCHANGED callVars ELSE Return("failed")
  /\ UNCHANGED <<kind, inserted, mode, session, caller, moved>>

-----------------------------------------------------------------------------
(* Transfers: _sdmmc_storage_readwrite.                                    *)

\* Called with storage->initialized clear, it returns at once.
Refuse ==
  /\ pc = "idle" /\ session /\ ~ initialized
  /\ result' = "refused"
  /\ UNCHANGED <<kind, inserted, mode, storageVars, hostVars, session, pc, caller, req,
                 xfer, moved>>

Call ==
  /\ pc = "idle" /\ session /\ initialized
  /\ req' \in Requests
  /\ xfer' = Start(req', Tries, TRUE)
  /\ pc' = "try" /\ result' = "none" /\ moved' = {}
  /\ UNCHANGED <<kind, inserted, mode, storageVars, hostVars, session, caller>>

Blocks == IF xfer.sct_total < MaxBlocks THEN xfer.sct_total ELSE MaxBlocks

\* The command was executed: on to the next sectors, with all its tries.
TryOk ==
  /\ pc = "try" /\ card_clock_enabled /\ inserted
  /\ moved' = moved \cup {<<xfer.place + i, xfer.sct_off + i>> : i \in 0 .. Blocks - 1}
  /\ IF xfer.sct_total = Blocks THEN Return("ok")
     ELSE /\ xfer' = [xfer EXCEPT !.sct_off = @ + Blocks, !.sct_total = @ - Blocks,
                                  !.place = @ + Blocks, !.retries = Tries]
          /\ UNCHANGED <<pc, req, result>>
  /\ UNCHANGED <<kind, inserted, mode, storageVars, hostVars, session, caller>>

\* Seeded bug: every set-up of a transfer is like its first.
BugReinit == pc' = "restart" /\ caller' = "first"

\* Set the card up anew, the first time in a transfer at the same speed.
Reinit ==
  IF xfer.first_reinit THEN pc' = "restart" /\ caller' = "first"
  ELSE pc' = "cycle" /\ caller' = "again"

\* The command was not executed, or not in full.
TryFails ==
  /\ pc = "try"
  /\ xfer' = [xfer EXCEPT !.retries = @ - 1]
  /\ IF xfer.retries > 1 THEN UNCHANGED <<pc, caller>> ELSE Reinit
  /\ UNCHANGED <<kind, inserted, mode, storageVars, hostVars, session, req, result, moved>>

-----------------------------------------------------------------------------
(* Between transfers.                                                      *)

\* emmc_set_partition, a switch command.
SetPartition ==
  /\ pc = "idle" /\ session /\ kind = "EMMC" /\ card_clock_enabled
  /\ partition' \in Partitions
  /\ UNCHANGED <<kind, inserted, mode, initialized, hostVars, session, pc, caller,
                 callVars, moved>>

\* emmc_end at the end of the gadget, and sdmmc_storage_end at that of
\* load_part_table.
Close ==
  /\ pc = "idle"
  /\ StorageEnd
  /\ session' = FALSE /\ result' = "none"
  /\ UNCHANGED <<kind, inserted, mode, pc, caller, req, xfer, moved>>

\* sd_end, at the end of the gadget.  Nobody sets sd_mounted, so the branch
\* that ends the storage is never taken.
SdEnd ==
  /\ pc = "idle" /\ kind = "SD"
  /\ mode' = IF mode = INIT_FAIL THEN TopSpeed ELSE mode
  /\ session' = FALSE /\ result' = "none"
  /\ UNCHANGED <<kind, inserted, storageVars, hostVars, pc, caller, req, xfer, moved>>

\* power_set_state, which begins with sd_end.
PowerSetState ==
  /\ pc = "idle" /\ ~ session
  /\ mode' = IF kind = "SD" /\ mode = INIT_FAIL THEN TopSpeed ELSE mode
  /\ pc' = "off" /\ result' = "none"
  /\ UNCHANGED <<kind, inserted, storageVars, hostVars, session, caller, req, xfer, moved>>

\* The user pulls the SD card or pushes it in.
Slot ==
  /\ kind = "SD"
  /\ inserted' = ~ inserted
  /\ UNCHANGED <<kind, mode, storageVars, hostVars, session, pc, caller, callVars, moved>>

SetUpStep == Restart \/ PowerCycle \/ InitRetry \/ Judge \/ GiveUp

Next ==
  \/ Open \/ SetUpStep \/ Refuse \/ Call \/ TryOk \/ TryFails
  \/ SetPartition \/ Close \/ SdEnd \/ PowerSetState \/ Slot

Spec == Init /\ [][Next]_vars

\* The thread goes on with what it has begun; it does not wait.
Fairness == WF_vars(SetUpStep) /\ WF_vars(TryOk \/ TryFails)

FairSpec == Spec /\ Fairness
=============================================================================
