-------------------------- MODULE StorageProperties --------------------------
(***************************************************************************)
(* What the stack of retries, speeds and set-ups of SdmmcStorage has to    *)
(* keep.                                                                   *)
(***************************************************************************)
EXTENDS SdmmcStorage

\* Every variable has its type: the speed does not fall below the failure value,
\* the tries not below zero.
TypeOK ==
  /\ kind \in Kinds /\ inserted \in BOOLEAN
  /\ mode \in 0 .. TopSpeed
  /\ initialized \in BOOLEAN /\ partition \in Partitions
  /\ card_clock_enabled \in BOOLEAN /\ clock_stopped \in BOOLEAN /\ powered \in BOOLEAN
  /\ session \in BOOLEAN
  /\ pc \in {"idle", "init", "restart", "cycle", "judge", "giveup", "try", "off"}
  /\ caller \in {"open", "first", "again"}
  /\ req \in Requests \cup {NoReq}
  /\ xfer \in [sct_off : Nat, sct_total : Nat, place : Nat,
               retries : 0 .. (IF Tries > TriesAfter THEN Tries ELSE TriesAfter),
               first_reinit : BOOLEAN]
  /\ result \in {"none", "ok", "failed", "refused"}
  /\ moved \subseteq Nat \X Nat

\* An access is tried only on a card that has power and clock, whatever went
\* wrong in setting it up or in ending it before (sdmmc_storage_end may leave
\* the flag initialized set, the memset of the set-up clears it first).
ReadyHasPower == initialized => card_clock_enabled /\ ~ clock_stopped /\ powered

\* The speed rises only after every speed failed or with no card in the slot:
\* a card that was slowed down by errors is not sped up for the same transfer.
SpeedFalls == [][mode' > mode => mode = INIT_FAIL \/ Gone]_vars

\* _sdmmc_storage_readwrite returns, however often the card fails: each set-up
\* of a transfer but the first is at a lower speed.
CallReturns == pc \notin {"idle", "off"} ~> pc = "idle"

Promise == INSTANCE StoragePromise WITH
  ready <- initialized, part <- partition, job <- req

\* Over all retries and restarts, a transfer that succeeds has moved each of
\* its sectors to its place, all since the card was last set up, and the
\* partition is forgotten only by setting up.
KeepsPromise == Promise!PromiseSpec
=============================================================================
