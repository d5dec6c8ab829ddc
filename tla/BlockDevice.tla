----------------------------- MODULE BlockDevice -----------------------------
(***************************************************************************)
(* What the mass storage gadget promises, whatever the host, the cable and *)
(* the cards do: it serves one command at a time, touches the sectors of   *)
(* the command once each and in order, never others, and gives the command *)
(* one answer that says how much was done.  Only a reset or the end of the *)
(* gadget takes a command away without an answer.                          *)
(***************************************************************************)
EXTENDS Integers

CONSTANTS
  Commands,     \* the commands of the host
  NumSectors,   \* sectors of each unit
  Ro,           \* units that are read-only
  BlkLen,       \* units of a sector
  U32           \* modulus of a transfer length in units

VARIABLES
  mode,         \* "calm", "disturbed" by a reset or by the exit, or "over"
  job,          \* the command being served
  done,         \* units read, written or verified for it
  access,       \* the last access to the medium for it
  answer        \* the status and residue given to it

deviceVars == <<mode, job, done, access, answer>>

NoJob == [op |-> "NONE"]
NoDone == [op |-> "none"]
NoAnswer == [status |-> "NONE"]

AccessOf == [READ |-> "read", WRITE |-> "write", VERIFY |-> "verify"]

\* The units a command moves if all goes well: for data, what the command and
\* its wrapper agree on.
Extent(c) ==
  LET size == (c.len * BlkLen) % U32
  IN IF c.op = "VERIFY" THEN c.len * BlkLen
     ELSE IF size <= c.size THEN size ELSE c.size

WholeSectors(units) == (units \div BlkLen) * BlkLen

Serving == job # NoJob /\ answer = NoAnswer

Idle(j, d, a, w) == j = NoJob /\ d = 0 /\ a = NoDone /\ w = NoAnswer

DeviceInit == mode = "calm" /\ Idle(job, done, access, answer)

Accept ==
  /\ job = NoJob /\ mode = "calm"
  /\ job' \in Commands
  /\ UNCHANGED <<done, access, answer>>

\* The next sectors of the command, inside the unit and inside the command; the
\* access may fail, and then it does not count.
Touch ==
  /\ Serving /\ job.op \in DOMAIN AccessOf
  /\ job.op = "WRITE" => ~ Ro[job.lun]
  /\ \E n \in 1 .. NumSectors[job.lun], lba \in job.lba .. NumSectors[job.lun] :
       /\ lba * BlkLen = job.lba * BlkLen + done
       /\ lba + n <= NumSectors[job.lun]
       /\ access' = [op |-> AccessOf[job.op], lun |-> job.lun, lba |-> lba, n |-> n]
       /\ done + n * BlkLen <= Extent(job)
       /\ done' \in {done, done + n * BlkLen}
  /\ UNCHANGED <<job, answer>>

\* A transfer that passes was made in full, unless it is a WRITE whose host
\* ended it early; in any case the residue is exact.
Answer ==
  /\ Serving
  /\ answer'.status \in {"PASS", "FAIL", "PHASE_ERROR"}
  /\ job.op \in {"READ", "WRITE"} => answer'.residue = job.size - done
  /\ job.op \in {"READ", "VERIFY"} /\ answer'.status = "PASS" =>
       done >= WholeSectors(Extent(job))
  /\ UNCHANGED <<job, done, access>>

Release ==
  /\ job # NoJob /\ answer # NoAnswer
  /\ Idle(job', done', access', answer')

Abandon ==
  /\ Serving
  /\ mode = "disturbed" \/ mode' = "over"
  /\ Idle(job', done', access', answer')

DeviceNext ==
  /\ \/ Accept \/ Touch \/ Answer \/ Release \/ Abandon
     \/ UNCHANGED <<job, done, access, answer>>
  /\ mode = "over" => mode' = "over"

DeviceSpec == DeviceInit /\ [][DeviceNext]_deviceVars
=============================================================================
