---------------------------- MODULE StoragePromise ----------------------------
(***************************************************************************)
(* What a card promises the code that reads and writes it, whatever it     *)
(* takes to get there: a transfer moves its sectors in order, each to its  *)
(* place in the buffer; one that succeeds has moved them all since the     *)
(* card was last set up anew, and leaves the card ready.  The selected     *)
(* partition is lost by setting up, and by nothing else.                   *)
(***************************************************************************)
EXTENDS Integers

CONSTANTS
  Requests,     \* the transfers asked for, [sector, num]
  Partitions    \* the partitions of a card

VARIABLES
  ready,        \* whether transfers are tried at all
  part,         \* the partition they go to
  job,          \* the transfer under way
  moved,        \* <<place, sector>> pairs moved for it
  result        \* the result of the last transfer, while there is none

promiseVars == <<ready, part, job, moved, result>>

NoJob == [sector |-> 0, num |-> 0]

\* The first n sectors of a transfer, each with its place.
Pairs(r, n) == {<<p, r.sector + p>> : p \in 0 .. n - 1}

PromiseInit ==
  /\ ready = FALSE /\ part = 0 /\ job = NoJob /\ moved = {} /\ result = "none"

Begin ==
  /\ job = NoJob /\ ready
  /\ job' \in Requests /\ moved' = {} /\ result' = "none"
  /\ UNCHANGED <<ready, part>>

Refuse ==
  /\ job = NoJob /\ ~ ready
  /\ result' = "refused"
  /\ UNCHANGED <<ready, part, job, moved>>

Move ==
  /\ job # NoJob /\ ready
  /\ \E from, to \in 0 .. job.num - 1 :
       from < to /\ moved = Pairs(job, from) /\ moved' = Pairs(job, to)
  /\ UNCHANGED <<ready, part, job, result>>

\* The card is shut down, or is set up anew: what was moved for the transfer
\* under way may be lost.
ShutDown == ready' = FALSE /\ part' \in {part, 0} /\ moved' \in {moved, {}}
SetUp    == ready' = TRUE /\ part' = 0 /\ moved' = {}
Calm     == UNCHANGED <<ready, part, moved>>

Disturb ==
  /\ ShutDown \/ SetUp \/ Calm
  /\ result' \in {result, "none"}
  /\ UNCHANGED job

\* The last sectors are moved.
Succeed ==
  /\ job # NoJob /\ ready
  /\ \E from \in 0 .. job.num - 1 : moved = Pairs(job, from)
  /\ moved' = Pairs(job, job.num)
  /\ job' = NoJob /\ result' = "ok"
  /\ UNCHANGED <<ready, part>>

Fail ==
  /\ job # NoJob
  /\ ShutDown \/ Calm
  /\ job' = NoJob /\ result' = "failed"

SelectPartition ==
  /\ job = NoJob
  /\ part' \in Partitions
  /\ UNCHANGED <<ready, job, moved, result>>

PromiseNext == Begin \/ Refuse \/ Move \/ Succeed \/ Fail \/ Disturb \/ SelectPartition

PromiseSpec == PromiseInit /\ [][PromiseNext]_promiseVars
=============================================================================
