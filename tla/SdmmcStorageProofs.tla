-------------------------- MODULE SdmmcStorageProofs --------------------------
(***************************************************************************)
(* The storage, for every set of speeds, tries and transfers: its types,   *)
(* that an access is tried only on a card with power and clock, that the   *)
(* speed only falls, and that the retries of _sdmmc_storage_readwrite      *)
(* implement the promise of StoragePromise.  The invariant relates the     *)
(* three running locals of a transfer with what it has moved.              *)
(***************************************************************************)
EXTENDS StorageProperties, TLAPS

Busy == {"init", "restart", "cycle", "judge", "giveup"}

\* What the locals say of the transfer under way.
Tried ==
  /\ initialized /\ req \in Requests
  /\ xfer.place + xfer.sct_total = req.num /\ xfer.sct_total > 0
  /\ xfer.sct_off = req.sector + xfer.place
  /\ moved = Promise!Pairs(req, xfer.place)
  /\ xfer.retries > 0
  /\ xfer.first_reinit \/ mode \in 1 .. TopSpeed

StorageInv ==
  /\ TypeOK
  /\ ReadyHasPower
  /\ pc \in {"idle", "off"} => req = NoReq
  /\ pc = "try" => Tried
  /\ pc = "cycle" => mode \in 1 .. TopSpeed
  /\ pc \in Busy => IF caller = "open" THEN req = NoReq ELSE req \in Requests

Xfers ==
  [sct_off : Nat, sct_total : Nat, place : Nat,
   retries : 0 .. (IF Tries > TriesAfter THEN Tries ELSE TriesAfter),
   first_reinit : BOOLEAN]

-----------------------------------------------------------------------------
(* The parts of actions.                                                   *)

\* Requests have sectors, and the absence of one is none.
LEMMA NoReqType ==
  /\ NoReq.num = 0 /\ NoReq \notin Requests /\ NoReq = Promise!NoJob
  /\ NoXfer \in Xfers
  /\ \A r \in Requests : r \in [sector : Nat, num : Nat \ {0}]
<1>1. \A r \in Requests : r \in [sector : Nat, num : Nat \ {0}]
  BY StorageAssumption
<1>2. NoReq.num = 0 /\ NoReq = Promise!NoJob
  BY DEF NoReq, Promise!NoJob
<1>3. NoXfer \in Xfers
  BY StorageAssumption DEF NoXfer, Xfers
<1> QED
  BY <1>1, <1>2, <1>3

\* Ending a storage never leaves it marked ready without power.
LEMMA StorageEndKeeps ==
  ASSUME TypeOK, ReadyHasPower, StorageEnd
  PROVE  /\ ReadyHasPower'
         /\ initialized' \in BOOLEAN /\ partition' \in Partitions
         /\ card_clock_enabled' \in BOOLEAN /\ clock_stopped' \in BOOLEAN /\ powered' \in BOOLEAN
         /\ partition' = partition /\ (initialized' = FALSE \/ initialized' = initialized)
<1>1. CASE UNCHANGED <<storageVars, hostVars>>
  BY <1>1 DEF TypeOK, ReadyHasPower, storageVars, hostVars
<1>2. CASE clock_stopped /\ initialized' = FALSE /\ UNCHANGED hostVars /\ UNCHANGED partition
  BY <1>2 DEF TypeOK, ReadyHasPower, hostVars
<1>3. CASE /\ card_clock_enabled' = FALSE /\ clock_stopped' = TRUE /\ powered' = FALSE
           /\ initialized' = FALSE /\ UNCHANGED partition
  BY <1>3 DEF TypeOK, ReadyHasPower
<1> QED
  BY <1>1, <1>2, <1>3 DEF StorageEnd

\* Setting up marks a card ready only when all is well, and forgets partition and transfer.
LEMMA StorageInitKeeps ==
  ASSUME TypeOK, NEW how \in InitOutcomes, StorageInit(how)
  PROVE  /\ ReadyHasPower'
         /\ initialized' \in BOOLEAN /\ partition' \in Partitions
         /\ card_clock_enabled' \in BOOLEAN /\ clock_stopped' \in BOOLEAN /\ powered' \in BOOLEAN
         /\ partition' = 0 /\ moved' = {} /\ (initialized' <=> how = "ok")
BY StorageAssumption DEF TypeOK, ReadyHasPower, StorageInit, InitOutcomes

\* A transfer starts at its first sector, with nothing moved and some tries.
LEMMA StartType ==
  ASSUME NEW r \in Requests, NEW tries \in {Tries, TriesAfter}, NEW first \in BOOLEAN
  PROVE  /\ Start(r, tries, first) \in Xfers
         /\ Start(r, tries, first).place = 0 /\ Start(r, tries, first).sct_total = r.num
         /\ Start(r, tries, first).sct_off = r.sector /\ Start(r, tries, first).retries > 0
         /\ Start(r, tries, first).first_reinit = first
         /\ r.sector \in Nat /\ r.num \in Nat /\ r.num > 0
         /\ Promise!Pairs(r, 0) = {}
<1>1. r.sector \in Nat /\ r.num \in Nat /\ r.num > 0
  BY NoReqType
<1>2. tries \in 0 .. (IF Tries > TriesAfter THEN Tries ELSE TriesAfter) /\ tries > 0
  BY StorageAssumption
<1>3. Promise!Pairs(r, 0) = {}
  BY DEF Promise!Pairs
<1> QED
  BY <1>1, <1>2, <1>3 DEF Start, Xfers

\* A set-up starts at a valid speed, a higher one only after a failure.
LEMMA StartModeType ==
  ASSUME mode \in 0 .. TopSpeed
  PROVE  /\ StartMode \in 0 .. TopSpeed
         /\ StartMode > mode => mode = INIT_FAIL
BY StorageAssumption DEF StartMode, INIT_FAIL

\* One speed slower does not wrap around.
LEMMA SlowerType ==
  ASSUME NEW m \in 1 .. TopSpeed
  PROVE  (m - 1) % U32 = m - 1
BY StorageAssumption

-----------------------------------------------------------------------------
(* The invariant.                                                          *)

\* The invariant holds at first.
LEMMA InitInv ==
  ASSUME Init
  PROVE  StorageInv
<1>1. mode \in 0 .. TopSpeed /\ kind \in Kinds /\ 0 \in Partitions /\ xfer \in Xfers
  BY NoReqType, StorageAssumption DEF Init
<1>2. TypeOK
  BY <1>1 DEF Init, TypeOK, Xfers
<1> QED
  BY <1>2 DEF Init, StorageInv, ReadyHasPower, Busy

\* The gadget begins.
LEMMA OpenKeeps ==
  ASSUME StorageInv, Open
  PROVE  StorageInv'
BY StartModeType
   DEF StorageInv, TypeOK, ReadyHasPower, Busy, Open, storageVars, hostVars

\* initialize(true).
LEMMA RestartKeeps ==
  ASSUME StorageInv, Restart
  PROVE  StorageInv'
BY StartModeType, StorageEndKeeps
   DEF StorageInv, TypeOK, Busy, Restart, callVars

\* init_retry(true).
LEMMA PowerCycleKeeps ==
  ASSUME StorageInv, PowerCycle
  PROVE  StorageInv'
<1>1. mode \in 1 .. TopSpeed /\ mode' = mode - 1 /\ mode' \in 0 .. TopSpeed
  BY SlowerType, StorageAssumption DEF StorageInv, PowerCycle
<1> QED
  BY <1>1, StorageEndKeeps
     DEF StorageInv, TypeOK, Busy, PowerCycle, callVars

\* A set-up at one speed.
LEMMA InitRetryKeeps ==
  ASSUME StorageInv, InitRetry
  PROVE  StorageInv'
<1>1. IF caller = "open" THEN req = NoReq ELSE req \in Requests
  BY DEF StorageInv, InitRetry, Busy
<1>2. CASE mode = INIT_FAIL
  <2>1. NotSetUp /\ UNCHANGED <<mode, storageVars, hostVars, moved>>
    BY <1>2 DEF InitRetry
  <2>2. CASE caller = "again"
    BY <1>2, <2>1, <2>2, NoReqType
       DEF StorageInv, TypeOK, ReadyHasPower, Busy, InitRetry, NotSetUp, Return,
           storageVars, hostVars, Xfers
  <2>3. CASE caller # "again"
    BY <1>1, <2>1, <2>3
       DEF StorageInv, TypeOK, ReadyHasPower, Busy, InitRetry, NotSetUp, callVars,
           storageVars, hostVars
  <2> QED
    BY <2>2, <2>3
<1>3. CASE mode # INIT_FAIL
  <2>1. PICK how \in InitOutcomes : StorageInit(how) /\ IF how = "ok" THEN SetUp ELSE NotSetUp
    BY <1>3 DEF InitRetry
  <2>2. mode \in 1 .. TopSpeed /\ mode' = mode
    BY <1>3 DEF InitRetry, StorageInv, TypeOK, INIT_FAIL
  <2>3. /\ ReadyHasPower'
        /\ initialized' \in BOOLEAN /\ partition' \in Partitions
        /\ card_clock_enabled' \in BOOLEAN /\ clock_stopped' \in BOOLEAN /\ powered' \in BOOLEAN
        /\ moved' = {} /\ (initialized' <=> how = "ok")
    BY <2>1, StorageInitKeeps DEF StorageInv
  <2>4. CASE how = "ok" /\ caller = "open"
    BY <1>1, <2>1, <2>2, <2>3, <2>4
       DEF StorageInv, TypeOK, Busy, InitRetry, SetUp, callVars
  <2>5. CASE how = "ok" /\ caller # "open"
    <3>1. /\ pc' = "try" /\ xfer' = Start(req, TriesAfter, FALSE)
          /\ UNCHANGED <<session, req, result, kind, inserted, caller>>
      BY <2>1, <2>5 DEF SetUp, InitRetry
    <3>2. Tried' /\ xfer' \in Xfers
      <4>1. /\ req' = req /\ req \in Requests /\ moved' = {} /\ initialized'
            /\ mode' \in 1 .. TopSpeed
        BY <1>1, <2>2, <2>3, <2>5, <3>1
      <4>2. /\ xfer' \in Xfers /\ xfer'.place = 0 /\ xfer'.sct_total = req.num
            /\ xfer'.sct_off = req.sector /\ xfer'.retries > 0
            /\ req.sector \in Nat /\ req.num \in Nat /\ req.num > 0 /\ Promise!Pairs(req, 0) = {}
        BY <3>1, <4>1, StartType
      <4> QED
        BY <4>1, <4>2 DEF Tried
    <3> QED
      BY <1>1, <2>2, <2>3, <2>5, <3>1, <3>2 DEF StorageInv, TypeOK, Busy, Xfers
  <2>6. CASE how # "ok" /\ caller = "again"
    BY <2>1, <2>2, <2>3, <2>6, NoReqType
       DEF StorageInv, TypeOK, Busy, InitRetry, NotSetUp, Return, Xfers
  <2>7. CASE how # "ok" /\ caller # "again"
    BY <1>1, <2>1, <2>2, <2>3, <2>7
       DEF StorageInv, TypeOK, Busy, InitRetry, NotSetUp, callVars
  <2> QED
    BY <2>4, <2>5, <2>6, <2>7
<1> QED
  BY <1>2, <1>3

\* After a failed set-up.
LEMMA JudgeKeeps ==
  ASSUME StorageInv, Judge
  PROVE  StorageInv'
<1>1. pc' \in {"cycle", "giveup"} /\ (pc' = "cycle" => mode \in 1 .. TopSpeed /\ mode' = mode)
  BY DEF StorageInv, TypeOK, Judge, AfterFailure, INIT_FAIL
<1>2. mode' \in 0 .. TopSpeed
  BY StorageAssumption DEF StorageInv, TypeOK, Judge
<1> QED
  BY <1>1, <1>2
     DEF StorageInv, TypeOK, ReadyHasPower, Busy, Judge, callVars, storageVars, hostVars

\* No speed is left, or no card.
LEMMA GiveUpKeeps ==
  ASSUME StorageInv, GiveUp
  PROVE  StorageInv'
<1>1. CASE caller = "open"
  BY <1>1, StorageEndKeeps DEF StorageInv, TypeOK, Busy, GiveUp, callVars
<1>2. CASE caller # "open"
  BY <1>2, StorageEndKeeps, NoReqType
     DEF StorageInv, TypeOK, Busy, GiveUp, Return, Xfers
<1> QED
  BY <1>1, <1>2

\* A transfer on a card that is not ready.
LEMMA RefuseKeeps ==
  ASSUME StorageInv, Refuse
  PROVE  StorageInv'
BY DEF StorageInv, TypeOK, ReadyHasPower, Busy, Refuse, storageVars, hostVars

\* A transfer begins.
LEMMA CallKeeps ==
  ASSUME StorageInv, Call
  PROVE  StorageInv'
<1>1. /\ req' \in Requests /\ xfer' = Start(req', Tries, TRUE) /\ initialized' = initialized
      /\ pc' = "try" /\ moved' = {} /\ initialized
  BY DEF Call, storageVars
<1>2. Tried' /\ xfer' \in Xfers
  <2>1. /\ xfer' \in Xfers /\ xfer'.place = 0 /\ xfer'.sct_total = req'.num
        /\ xfer'.sct_off = req'.sector /\ xfer'.retries > 0 /\ xfer'.first_reinit = TRUE
        /\ req'.sector \in Nat /\ req'.num \in Nat /\ req'.num > 0
        /\ Promise!Pairs(req', 0) = {}
    BY <1>1, StartType
  <2>2. moved' = Promise!Pairs(req', xfer'.place)
    BY <1>1, <2>1
  <2>3. /\ xfer'.place + xfer'.sct_total = req'.num /\ xfer'.sct_total > 0
        /\ xfer'.sct_off = req'.sector + xfer'.place
    BY <2>1
  <2> QED
    BY <1>1, <2>1, <2>2, <2>3 DEF Tried
<1> QED
  BY <1>1, <1>2
     DEF StorageInv, TypeOK, ReadyHasPower, Busy, Call, storageVars, hostVars, Xfers

\* The pairs of one command are the next ones of the transfer.
LEMMA MovesNext ==
  ASSUME TypeOK, Tried
  PROVE  /\ Blocks \in Nat /\ Blocks > 0 /\ Blocks <= xfer.sct_total
         /\ moved \cup {<<xfer.place + i, xfer.sct_off + i>> : i \in 0 .. Blocks - 1}
              = Promise!Pairs(req, xfer.place + Blocks)
<1>1. /\ xfer.place \in Nat /\ xfer.sct_total \in Nat /\ req.sector \in Nat
      /\ xfer.sct_off = req.sector + xfer.place /\ moved = Promise!Pairs(req, xfer.place)
      /\ xfer.sct_total > 0
  BY NoReqType DEF TypeOK, Tried
<1>0. /\ xfer.place \in Nat /\ xfer.sct_off \in Nat /\ req.sector \in Nat
      /\ xfer.sct_off = req.sector + xfer.place
  BY <1>1
<1>2. Blocks \in Nat /\ Blocks > 0 /\ Blocks <= xfer.sct_total
  BY <1>1, StorageAssumption DEF Blocks
<1> DEFINE new == {<<xfer.place + i, xfer.sct_off + i>> : i \in 0 .. Blocks - 1}
           pairs(n) == {<<p, req.sector + p>> : p \in 0 .. n - 1}
<1>3. moved \cup new \subseteq pairs(xfer.place + Blocks)
  <2>1. moved \subseteq pairs(xfer.place + Blocks)
    BY <1>1, <1>2 DEF Promise!Pairs
  <2>2. ASSUME NEW i \in 0 .. Blocks - 1
        PROVE  <<xfer.place + i, xfer.sct_off + i>> \in pairs(xfer.place + Blocks)
    <3> DEFINE p0 == xfer.place + i
    <3>1. p0 \in 0 .. (xfer.place + Blocks) - 1 /\ xfer.sct_off + i = req.sector + p0
      BY <1>0, <1>2
    <3> HIDE DEF p0
    <3>2. <<p0, req.sector + p0>> \in pairs(xfer.place + Blocks)
      BY <3>1
    <3>3. <<xfer.place + i, xfer.sct_off + i>> = <<p0, req.sector + p0>>
      BY <3>1 DEF p0
    <3> QED
      BY <3>2, <3>3
  <2> QED
    BY <2>1, <2>2
<1>4. pairs(xfer.place + Blocks) \subseteq moved \cup new
  <2>1. ASSUME NEW p \in 0 .. (xfer.place + Blocks) - 1
        PROVE  <<p, req.sector + p>> \in moved \cup new
    <3>1. CASE p < xfer.place
      <4>1. p \in 0 .. xfer.place - 1
        BY <1>0, <1>2, <3>1
      <4> QED
        BY <1>1, <4>1 DEF Promise!Pairs
    <3>2. CASE p >= xfer.place
      <4>1. /\ p - xfer.place \in 0 .. Blocks - 1 /\ xfer.place + (p - xfer.place) = p
            /\ xfer.sct_off + (p - xfer.place) = req.sector + p
        BY <1>0, <1>2, <3>2
      <4>2. \E i \in 0 .. Blocks - 1 :
              <<p, req.sector + p>> = <<xfer.place + i, xfer.sct_off + i>>
        BY <4>1
      <4> QED
        BY <4>2 DEF new
    <3> QED
      BY <1>0, <1>2, <3>1, <3>2
  <2> QED
    BY <2>1 DEF pairs
<1> QED
  BY <1>2, <1>3, <1>4 DEF Promise!Pairs

\* A command was executed.
LEMMA TryOkKeeps ==
  ASSUME StorageInv, TryOk
  PROVE  StorageInv'
<1>1. TypeOK /\ Tried
  BY DEF StorageInv, TryOk
<1>2. Blocks \in Nat /\ Blocks > 0 /\ Blocks <= xfer.sct_total
  BY <1>1, MovesNext
<1>3. moved' = Promise!Pairs(req, xfer.place + Blocks)
  BY <1>1, MovesNext DEF TryOk
<1>4. moved' \subseteq Nat \X Nat
  <2>1. req.sector \in Nat /\ xfer.place + Blocks \in Nat
    BY <1>1, <1>2, NoReqType DEF Tried, TypeOK
  <2> QED
    BY <1>3, <2>1 DEF Promise!Pairs
<1>5. CASE xfer.sct_total = Blocks
  BY <1>1, <1>4, <1>5, NoReqType
     DEF StorageInv, TypeOK, ReadyHasPower, Busy, TryOk, Return, storageVars, hostVars, Xfers
<1>6. CASE xfer.sct_total # Blocks
  <2> DEFINE x == [xfer EXCEPT !.sct_off = xfer.sct_off + Blocks,
                               !.sct_total = xfer.sct_total - Blocks,
                               !.place = xfer.place + Blocks, !.retries = Tries]
  <2>1. /\ xfer' = x /\ UNCHANGED <<pc, req, result, mode, initialized>>
    BY <1>6 DEF TryOk, storageVars
  <2>2. xfer \in Xfers /\ req.sector \in Nat /\ req.num \in Nat
    BY <1>1, NoReqType DEF TypeOK, Tried, Xfers
  <2>3. /\ x \in Xfers /\ x.place = xfer.place + Blocks /\ x.sct_total = xfer.sct_total - Blocks
        /\ x.sct_off = xfer.sct_off + Blocks /\ x.retries > 0
        /\ x.first_reinit = xfer.first_reinit
    <3>1. /\ xfer.sct_off + Blocks \in Nat /\ xfer.sct_total - Blocks \in Nat
          /\ xfer.place + Blocks \in Nat
      BY <1>2, <2>2 DEF Xfers
    <3>2. Tries \in 0 .. (IF Tries > TriesAfter THEN Tries ELSE TriesAfter) /\ Tries > 0
      BY StorageAssumption
    <3> QED
      BY <2>2, <3>1, <3>2 DEF Xfers
  <2> HIDE DEF x
  <2>4. Tried'
    <3>1. /\ xfer.place \in Nat /\ xfer.sct_total \in Nat /\ xfer.sct_off \in Nat
          /\ xfer.place + xfer.sct_total = req.num /\ xfer.sct_off = req.sector + xfer.place
      BY <1>1, <2>2 DEF Tried, Xfers
    <3>2. /\ xfer'.place + xfer'.sct_total = req.num /\ xfer'.sct_total > 0
          /\ xfer'.sct_off = req.sector + xfer'.place
      BY <1>2, <1>6, <2>1, <2>2, <2>3, <3>1
    <3>3. moved' = Promise!Pairs(req, xfer'.place)
      BY <1>3, <2>1, <2>3
    <3> QED
      BY <1>1, <2>1, <2>3, <3>2, <3>3 DEF Tried
  <2> QED
    BY <1>1, <1>4, <2>1, <2>3, <2>4
       DEF StorageInv, TypeOK, ReadyHasPower, Busy, TryOk, storageVars, hostVars, Xfers
<1> QED
  BY <1>5, <1>6

\* A command failed.
LEMMA TryFailsKeeps ==
  ASSUME StorageInv, TryFails
  PROVE  StorageInv'
<1>1. TypeOK /\ Tried /\ xfer \in Xfers
  BY DEF StorageInv, TryFails, TypeOK, Xfers
<1>2. /\ xfer' = [xfer EXCEPT !.retries = xfer.retries - 1]
      /\ UNCHANGED <<kind, inserted, mode, initialized, partition, card_clock_enabled,
                     clock_stopped, powered, session, req, result, moved>>
  BY DEF TryFails, storageVars, hostVars
<1>3. /\ xfer' \in Xfers /\ xfer'.place = xfer.place /\ xfer'.sct_total = xfer.sct_total
      /\ xfer'.sct_off = xfer.sct_off /\ xfer'.first_reinit = xfer.first_reinit
      /\ xfer'.retries = xfer.retries - 1 /\ xfer.retries \in Nat
  BY <1>1, <1>2, StorageAssumption DEF Xfers, Tried
<1>4. CASE xfer.retries > 1
  <2>1. UNCHANGED <<pc, caller>>
    BY <1>4 DEF TryFails
  <2>2. Tried'
    BY <1>1, <1>2, <1>3, <1>4 DEF Tried
  <2> QED
    BY <1>1, <1>2, <1>3, <2>1, <2>2 DEF StorageInv, TypeOK, ReadyHasPower, Busy, TryFails, Xfers
<1>5. CASE ~ (xfer.retries > 1)
  <2>1. Reinit
    BY <1>5 DEF TryFails
  <2>2. \/ pc' = "restart" /\ caller' = "first"
        \/ pc' = "cycle" /\ caller' = "again" /\ mode \in 1 .. TopSpeed
    BY <1>1, <2>1 DEF Reinit, Tried
  <2>3. req' \in Requests
    BY <1>1, <1>2 DEF Tried
  <2> QED
    BY <1>1, <1>2, <1>3, <2>2, <2>3 DEF StorageInv, TypeOK, ReadyHasPower, Busy, Xfers
<1> QED
  BY <1>4, <1>5

\* The gadget ends.
LEMMA CloseKeeps ==
  ASSUME StorageInv, Close
  PROVE  StorageInv'
BY StorageEndKeeps DEF StorageInv, TypeOK, Busy, Close

\* What happens between transfers, and to the slot at any time.
LEMMA OthersKeep ==
  ASSUME StorageInv, SetPartition \/ SdEnd \/ PowerSetState \/ Slot
  PROVE  StorageInv'
<1>1. CASE SetPartition
  BY <1>1 DEF StorageInv, TypeOK, ReadyHasPower, Busy, SetPartition, hostVars, callVars
<1>2. CASE SdEnd
  <2>1. mode' \in 0 .. TopSpeed /\ pc' = "idle" /\ pc = "idle"
    BY <1>2, StorageAssumption DEF StorageInv, TypeOK, SdEnd
  <2> QED
    BY <1>2, <2>1
     DEF StorageInv, TypeOK, ReadyHasPower, Busy, SdEnd, hostVars, storageVars
<1>3. CASE PowerSetState
  BY <1>3, StorageAssumption
     DEF StorageInv, TypeOK, ReadyHasPower, Busy, PowerSetState, hostVars, storageVars
<1>4. CASE Slot
  BY <1>4
     DEF StorageInv, TypeOK, ReadyHasPower, Busy, Tried, Slot, hostVars, storageVars, callVars
<1> QED
  BY <1>1, <1>2, <1>3, <1>4

\* Every step keeps the invariant.
LEMMA StepKeeps ==
  ASSUME StorageInv, [Next]_vars
  PROVE  StorageInv'
<1>1. CASE UNCHANGED vars
  BY <1>1
     DEF StorageInv, TypeOK, ReadyHasPower, Busy, Tried, vars, hostVars, storageVars, callVars
<1>2. CASE SetUpStep
  BY <1>2, RestartKeeps, PowerCycleKeeps, InitRetryKeeps, JudgeKeeps, GiveUpKeeps
     DEF SetUpStep
<1> QED
  BY <1>1, <1>2, OpenKeeps, RefuseKeeps, CallKeeps, TryOkKeeps, TryFailsKeeps, CloseKeeps,
     OthersKeep DEF Next

\* So it holds always.
LEMMA Inductive == Spec => []StorageInv
<1>1. Init => StorageInv
  BY InitInv
<1>2. StorageInv /\ [Next]_vars => StorageInv'
  BY StepKeeps
<1> QED
  BY <1>1, <1>2, PTL DEF Spec

-----------------------------------------------------------------------------
(* The theorems.                                                           *)

\* All variables are of their types: the speed never goes below the lowest, the
\* tries left are never negative, and what is moved lies on the card.
THEOREM StorageTypeCorrect == Spec => []TypeOK
<1>1. StorageInv => TypeOK
  BY DEF StorageInv
<1> QED
  BY <1>1, Inductive, PTL

\* Through every failed set-up and every end that fails half way, storage that is
\* taken as initialized has power and clock (sdmmc_storage_init_sd and _mmc).
THEOREM ReadyIsPowered == Spec => []ReadyHasPower
<1>1. StorageInv => ReadyHasPower
  BY DEF StorageInv
<1> QED
  BY <1>1, Inductive, PTL

\* A step makes the card faster only after every speed failed, or with no card in
\* the slot (sd_initialize, emmc_initialize and their init_retry).
THEOREM SpeedOnlyFalls == Spec => SpeedFalls
<1>1. StorageInv /\ [Next]_vars => [mode' > mode => mode = INIT_FAIL \/ Gone]_vars
  <2> SUFFICES ASSUME StorageInv, [Next]_vars
               PROVE  mode' > mode => mode = INIT_FAIL \/ Gone
    OBVIOUS
  <2>1. mode \in 0 .. TopSpeed
    BY DEF StorageInv, TypeOK
  <2>2. CASE mode' = mode
    BY <2>1, <2>2
  <2>3. CASE Open \/ Restart
    BY <2>1, <2>3, StartModeType DEF Open, Restart
  <2>4. CASE PowerCycle
    <3>1. mode \in 1 .. TopSpeed /\ mode' = mode - 1
      BY <2>4, SlowerType DEF StorageInv, PowerCycle
    <3> QED
      BY <3>1
  <2>5. CASE InitRetry
    BY <2>1, <2>5 DEF InitRetry, INIT_FAIL
  <2>6. CASE Judge
    BY <2>1, <2>6 DEF Judge
  <2>7. CASE SdEnd \/ PowerSetState
    BY <2>1, <2>7 DEF SdEnd, PowerSetState
  <2> QED
    BY <2>2, <2>3, <2>4, <2>5, <2>6, <2>7
       DEF Next, SetUpStep, vars, GiveUp, Refuse, Call, TryOk, TryFails, SetPartition, Close, Slot
<1> QED
  BY <1>1, Inductive, PTL DEF Spec, SpeedFalls

\* What the storage does to the fields the promise sees when it is ended.
LEMMA EndIsShutDown ==
  ASSUME StorageInv, StorageEnd, moved' = moved
  PROVE  Promise!ShutDown \/ Promise!Calm
BY DEF StorageEnd, storageVars, hostVars, Promise!ShutDown, Promise!Calm

\* Every step of the storage is one the promise allows, or a stutter.
LEMMA StepPromised ==
  ASSUME StorageInv, [Next]_vars
  PROVE  [Promise!PromiseNext]_(Promise!promiseVars)
<1> USE DEF Promise!PromiseNext
<1>1. CASE UNCHANGED vars
  BY <1>1 DEF vars, storageVars, callVars, Promise!promiseVars
<1>2. CASE Open \/ Close \/ SdEnd \/ PowerSetState \/ Slot \/ Restart \/ PowerCycle \/ Judge
  <2>1. result' \in {result, "none"} /\ req' = req
    BY <1>2
       DEF Open, Close, SdEnd, PowerSetState, Slot, Restart, PowerCycle, Judge, callVars
  <2>2. Promise!ShutDown \/ Promise!Calm
    BY <1>2, EndIsShutDown
       DEF Open, Close, SdEnd, PowerSetState, Slot, Restart, PowerCycle, Judge, storageVars,
           Promise!Calm
  <2>3. Promise!Disturb
    BY <2>1, <2>2 DEF Promise!Disturb
  <2> QED
    BY <2>3
<1>3. CASE GiveUp
  <2>1. Promise!ShutDown \/ Promise!Calm
    BY <1>3, EndIsShutDown DEF GiveUp
  <2>2. CASE caller = "open"
    <3>1. Promise!Disturb
      BY <1>3, <2>1, <2>2 DEF GiveUp, callVars, Promise!Disturb
    <3> QED
      BY <3>1
  <2>3. CASE caller # "open"
    <3>1. req \in Requests /\ req' = NoReq /\ result' = "failed"
      BY <1>3, <2>3 DEF StorageInv, Busy, GiveUp, Return
    <3>2. Promise!Fail
      BY <2>1, <3>1, NoReqType DEF Promise!Fail
    <3> QED
      BY <3>2
  <2> QED
    BY <2>2, <2>3
<1>4. CASE InitRetry /\ mode = INIT_FAIL
  <2>1. NotSetUp /\ UNCHANGED <<storageVars, moved>>
    BY <1>4 DEF InitRetry
  <2>2. Promise!Calm
    BY <2>1 DEF storageVars, Promise!Calm
  <2>3. CASE caller = "again"
    <3>1. req \in Requests /\ req' = NoReq /\ result' = "failed"
      BY <1>4, <2>1, <2>3 DEF StorageInv, Busy, InitRetry, NotSetUp, Return
    <3>2. Promise!Fail
      BY <2>2, <3>1, NoReqType DEF Promise!Fail
    <3> QED
      BY <3>2
  <2>4. CASE caller # "again"
    <3>1. Promise!Disturb
      BY <2>1, <2>2, <2>4 DEF NotSetUp, callVars, Promise!Disturb
    <3> QED
      BY <3>1
  <2> QED
    BY <2>3, <2>4
<1>5. CASE InitRetry /\ mode # INIT_FAIL
  <2>1. PICK how \in InitOutcomes : StorageInit(how) /\ IF how = "ok" THEN SetUp ELSE NotSetUp
    BY <1>5 DEF InitRetry
  <2>2. partition' = 0 /\ moved' = {} /\ (initialized' <=> how = "ok") /\ initialized' \in BOOLEAN
    BY <2>1, StorageInitKeeps DEF StorageInv
  <2>3. CASE how = "ok"
    <3>1. Promise!SetUp
      BY <2>2, <2>3 DEF Promise!SetUp
    <3>2. UNCHANGED <<req, result>>
      BY <2>1, <2>3 DEF SetUp, callVars
    <3>3. Promise!Disturb
      BY <3>1, <3>2 DEF Promise!Disturb
    <3> QED
      BY <3>3
  <2>4. CASE how # "ok"
    <3>1. Promise!ShutDown
      BY <2>2, <2>4 DEF Promise!ShutDown
    <3>2. CASE caller = "again"
      <4>1. req \in Requests /\ req' = NoReq /\ result' = "failed"
        BY <1>5, <2>1, <2>4, <3>2 DEF StorageInv, Busy, InitRetry, NotSetUp, Return
      <4>2. Promise!Fail
        BY <3>1, <4>1, NoReqType DEF Promise!Fail
      <4> QED
        BY <4>2
    <3>3. CASE caller # "again"
      <4>1. Promise!Disturb
        BY <2>1, <2>4, <3>1, <3>3 DEF NotSetUp, callVars, Promise!Disturb
      <4> QED
        BY <4>1
    <3> QED
      BY <3>2, <3>3
  <2> QED
    BY <2>3, <2>4
<1>6. CASE Refuse
  <2>1. Promise!Refuse
    BY <1>6, NoReqType DEF StorageInv, Refuse, storageVars, Promise!Refuse
  <2> QED
    BY <2>1
<1>7. CASE Call
  <2>1. Promise!Begin
    BY <1>7, NoReqType DEF StorageInv, Call, storageVars, Promise!Begin
  <2> QED
    BY <2>1
<1>8. CASE TryOk
  <2>1. TypeOK /\ Tried
    BY <1>8 DEF StorageInv, TryOk
  <2>2. /\ Blocks \in Nat /\ Blocks > 0 /\ Blocks <= xfer.sct_total
        /\ moved' = Promise!Pairs(req, xfer.place + Blocks)
    BY <1>8, <2>1, MovesNext DEF TryOk
  <2>3. /\ xfer.place \in Nat /\ xfer.sct_total \in Nat /\ req \in Requests /\ initialized
        /\ xfer.place + xfer.sct_total = req.num /\ xfer.sct_total > 0
        /\ moved = Promise!Pairs(req, xfer.place)
    BY <2>1 DEF Tried, TypeOK
  <2>4. UNCHANGED <<initialized, partition>> /\ req # NoReq
    BY <1>8, <2>3, NoReqType DEF TryOk, storageVars
  <2>5. xfer.place \in 0 .. req.num - 1
    BY <2>3
  <2>6. CASE xfer.sct_total = Blocks
    <3>1. req' = NoReq /\ result' = "ok"
      BY <1>8, <2>6 DEF TryOk, Return
    <3>2. xfer.place + Blocks = req.num
      BY <2>3, <2>6
    <3>3. Promise!Succeed
      BY <2>2, <2>3, <2>4, <2>5, <3>1, <3>2, NoReqType DEF Promise!Succeed
    <3> QED
      BY <3>3
  <2>7. CASE xfer.sct_total # Blocks
    <3>1. UNCHANGED <<req, result>>
      BY <1>8, <2>7 DEF TryOk
    <3>2. xfer.place + Blocks \in 0 .. req.num - 1 /\ xfer.place < xfer.place + Blocks
      BY <2>2, <2>3, <2>7
    <3>3. Promise!Move
      BY <2>2, <2>3, <2>4, <2>5, <3>1, <3>2, NoReqType DEF Promise!Move
    <3> QED
      BY <3>3
  <2> QED
    BY <2>6, <2>7
<1>9. CASE TryFails
  <2>1. UNCHANGED <<req, result, initialized, partition, moved>>
    BY <1>9 DEF TryFails, storageVars
  <2> QED
    BY <2>1 DEF Promise!promiseVars
<1>10. CASE SetPartition
  <2>1. Promise!SelectPartition
    BY <1>10, NoReqType DEF StorageInv, SetPartition, callVars, Promise!SelectPartition
  <2> QED
    BY <2>1
<1> QED
  BY <1>1, <1>2, <1>3, <1>4, <1>5, <1>6, <1>7, <1>8, <1>9, <1>10 DEF Next, SetUpStep

\* The storage implements StoragePromise: whatever was retried and set up anew, a
\* transfer that succeeds has moved every sector since the last set-up.
THEOREM ImplementsPromise == Spec => KeepsPromise
<1>1. Init => Promise!PromiseInit
  BY NoReqType DEF Init, Promise!PromiseInit
<1>2. StorageInv /\ [Next]_vars => [Promise!PromiseNext]_(Promise!promiseVars)
  BY StepPromised
<1> QED
  BY <1>1, <1>2, Inductive, PTL DEF Spec, KeepsPromise, Promise!PromiseSpec
=============================================================================
