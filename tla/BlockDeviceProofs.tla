-------------------------- MODULE BlockDeviceProofs --------------------------
(***************************************************************************)
(* The gadget is the block device of BlockDevice: the place of every       *)
(* transfer loop follows from what it has moved, and each step of the      *)
(* gadget is a step of the device or leaves it alone.                      *)
(***************************************************************************)
EXTENDS UmsGadgetProofs

-----------------------------------------------------------------------------
(* What the mapping needs on top of the invariant of the main loop.        *)

InvLun == InCommand => lun_idx = cmd.lun

InvSize == Answered => data_size_from_cmnd = Clamped(cmd)

InvShort == Answered /\ cmd.op # "WRITE" => ~ short_packet_received

\* A loop stands behind the sectors it has moved.
Placed(i, m) == i.lba >= cmd.lba /\ i.lba * BlkLen = cmd.lba * BlkLen + m

InvPlace ==
  /\ pc \in LoopPcs => Placed(io, moved)
  /\ pc = "vf" => moved + io.left * BlkLen = cmd.len * BlkLen

\* A VERIFY is over early only for a reason its answer gives.
Verified ==
  cmd.op = "VERIFY" =>
    moved >= cmd.len * BlkLen \/ phase_error \/ Lun.sense_data # "NO_SENSE"
InvVerified == Answered /\ pc # "vf" => Verified

Place == InvLun /\ InvSize /\ InvShort /\ InvPlace /\ InvVerified

DInv == IInv /\ Place

-----------------------------------------------------------------------------
(* Place is kept.                                                          *)

\* Between commands there is no place to keep.
LEMMA IdlePlace ==
  ASSUME pc' \in {"top", "cbw", "exit"}, state' # "ABORT_BULK_OUT"
  PROVE  Place'
BY DEF Place, InvLun, InvSize, InvShort, InvPlace, InvVerified, InCommand, Answered, LoopPcs,
       ReadPcs, WritePcs

\* A step that moves nothing keeps the place.
LEMMA SamePlace ==
  ASSUME Place, pc' \notin LoopPcs, pc # "vf", Answered' => Answered, InCommand' => InCommand,
         UNCHANGED <<cmd, lun_idx, data_size_from_cmnd, short_packet_received, phase_error,
                     moved, luns>>
  PROVE  Place'
BY DEF Place, InvLun, InvSize, InvShort, InvPlace, InvVerified, Verified, Clamped,
       SizeFromCmnd, Lun, LoopPcs

\* The steps between a command and its answer leave the command alone.
LEMMA ReplyFrame ==
  ASSUME DInv, FinishReply \/ SendStatus \/ StatusSent
  PROVE  /\ UNCHANGED <<cmd, lun_idx, data_size_from_cmnd, short_packet_received, phase_error,
                        moved, luns>>
         /\ Answered /\ InCommand
         /\ pc \notin LoopPcs /\ pc' \notin LoopPcs
<1>1. /\ replyUnchanged /\ pc \in ReplyPcs /\ pc' \in ReplyPcs \cup {"top"}
      /\ state' = "ABORT_BULK_OUT" => pc' = "top"
  <2>1. state # "ABORT_BULK_OUT"
    BY DEF DInv, IInv, Loops, InvUnit, FinishReply, Parsed, ReplyNone, ReplyLast, ReplyPad,
           PadSend, PadNext, ReplySent, ReplyShort, ThrowAway, ThrownAway, SendStatus, StatusSent
  <2>2. CASE Parsed
    BY <2>1, <2>2, HandleEp0Type DEF Parsed, ReplyPcs, DInv, IInv, TypeOK, TypeControl, excVars
  <2>3. CASE ReplyNone \/ ReplyLast \/ ReplyPad \/ PadSend \/ PadNext \/ ReplySent \/ ReplyShort
             \/ ThrowAway \/ ThrownAway \/ SendStatus \/ StatusSent
    BY <2>1, <2>3 DEF ReplyNone, ReplyLast, ReplyPad, PadSend, PadNext, ReplySent, ReplyShort,
       ThrowAway, ThrownAway, SendStatus, StatusSent, Continue, ReplyPcs, excVars
  <2> QED
    BY <2>2, <2>3 DEF FinishReply
<1>2. UNCHANGED <<cmd, lun_idx, data_size_from_cmnd, short_packet_received, phase_error, moved,
                  luns>>
  BY <1>1 DEF replyUnchanged, cmdVars, ghostVars
<1>3. Answered /\ InCommand
  BY <1>1 DEF Answered, InCommand, ReplyPcs, Pcs, InWaits, OutWaits
<1>4. pc \notin LoopPcs /\ pc' \notin LoopPcs
  BY <1>1 DEF ReplyPcs, LoopPcs, ReadPcs, WritePcs
<1> QED
  BY <1>2, <1>3, <1>4

\* And its place.
LEMMA ReplyPlace ==
  ASSUME DInv, FinishReply \/ SendStatus \/ StatusSent
  PROVE  Place'
BY ReplyFrame, SamePlace DEF DInv, LoopPcs

\* The handlers start with the size and the place of their command.
LEMMA ParsePlace ==
  ASSUME DInv, Parse
  PROVE  Place'
<1> USE DEF DInv
<1>1. ParseStart
  BY DEF Parse, ParseRefuse, ParseReply, ParseControl, ParseTransfer
<1>2. /\ data_size_from_cmnd' = Clamped(cmd) /\ ~ short_packet_received'
      /\ UNCHANGED <<cmd, lun_idx, moved>> /\ moved = 0 /\ lun_idx \in Luns
      /\ state' # "ABORT_BULK_OUT"
  BY <1>1, ParseStartType DEF ParseStart
<1>3. InvLun' /\ InvSize' /\ InvShort'
  <2>1. lun_idx = cmd.lun
    BY <1>1 DEF ParseStart, Place, InvLun, InCommand, Pcs
  <2> QED
    BY <1>2, <2>1 DEF InvLun, InvSize, InvShort, Clamped, SizeFromCmnd
<1>4. CASE ParseRefuse
  <2>1. pc' = "parsed"
    BY <1>4 DEF ParseRefuse
  <2>2. phase_error' \/ Lun'.sense_data # "NO_SENSE"
    <3>1. CASE Malformed(cmd)
      BY <1>1, <3>1 DEF ParseStart
    <3>2. CASE ~ Malformed(cmd)
      <4> DEFINE sense == Refusal(cmd, Lun)
                 info  == Cleared(cmd, Lun).sense_data_info
                 ua    == Lun.unit_attention_data /\ sense # "RESET_OCCURRED"
                 new   == [WithSense(Lun, sense, info) EXCEPT !.unit_attention_data = ua]
      <4>1. sense # "NO_SENSE" /\ luns' = [luns EXCEPT ![lun_idx] = new]
        BY <1>4, <3>2 DEF ParseRefuse, Lun
      <4> HIDE DEF sense, info, ua
      <4>2. new.sense_data = sense
        BY <1>2 DEF WithSense, Lun, IInv, TypeOK, TypeCommand, LunState
      <4> HIDE DEF new
      <4> QED
        BY <1>2, <4>1, <4>2 DEF Lun, IInv, TypeOK, TypeCommand
    <3> QED
      BY <3>1, <3>2
  <2> QED
    BY <1>3, <2>1, <2>2 DEF Place, InvPlace, InvVerified, Verified, LoopPcs, ReadPcs, WritePcs
<1>5. CASE ParseReply \/ ParseControl
  <2>1. pc' = "parsed" /\ cmd.op # "VERIFY"
    BY <1>5 DEF ParseReply, ParseControl, ToHost
  <2> QED
    BY <1>2, <1>3, <2>1 DEF Place, InvPlace, InvVerified, Verified, LoopPcs, ReadPcs, WritePcs
<1>6. CASE ParseTransfer
  <2> DEFINE left == CASE cmd.op = "READ"   -> Clamped(cmd) \div BlkLen
                       [] cmd.op = "WRITE"  -> Clamped(cmd)
                       [] cmd.op = "VERIFY" -> cmd.len
  <2>1. /\ io' = IF left = 0 THEN NoIo
                 ELSE [NoIo EXCEPT !.lba = cmd.lba, !.usb_lba = cmd.lba, !.left = left,
                                   !.req = Clamped(cmd)]
        /\ pc' = IF left = 0 THEN "parsed"
                 ELSE CASE cmd.op = "READ" -> "rd" [] cmd.op = "WRITE" -> "wr"
                        [] cmd.op = "VERIFY" -> "vf"
        /\ cmd.op \in {"READ", "WRITE", "VERIFY"}
    BY <1>6 DEF ParseTransfer
  <2>2. cmd.op = "VERIFY" => left = cmd.len
    OBVIOUS
  <2>3. cmd.len \in Nat /\ cmd.lba \in Nat /\ BlkLen \in Nat /\ cmd.len * BlkLen \in Nat
        /\ cmd.lba * BlkLen \in Nat
    BY ClampedType, SizesAssumption, TimesMonotone DEF IInv, TypeOK, CbwType
  <2> HIDE DEF left
  <2>4. CASE left = 0
    <3>1. pc' = "parsed"
      BY <2>1, <2>4
    <3>2. cmd.op = "VERIFY" => moved' >= cmd.len * BlkLen
      BY <1>2, <2>2, <2>3, <2>4
    <3> QED
      BY <1>2, <1>3, <3>1, <3>2
         DEF Place, InvPlace, InvVerified, Verified, LoopPcs, ReadPcs, WritePcs
  <2>5. CASE left # 0
    <3>1. io'.lba = cmd.lba /\ io'.left = left
      BY <2>1, <2>5 DEF NoIo
    <3>2. Placed(io, moved)'
      BY <1>2, <2>3, <3>1 DEF Placed
    <3>3. CASE cmd.op = "VERIFY"
      <4>1. pc' = "vf"
        BY <2>1, <2>5, <3>3
      <4>2. moved' + io'.left * BlkLen = cmd.len * BlkLen
        BY <1>2, <2>2, <2>3, <3>1, <3>3
      <4> QED
        BY <1>2, <1>3, <3>2, <4>1, <4>2 DEF Place, InvPlace, InvVerified
    <3>4. CASE cmd.op # "VERIFY"
      <4>1. pc' # "vf"
        BY <2>1, <2>5, <3>4
      <4> QED
        BY <1>2, <1>3, <3>2, <3>4, <4>1 DEF Place, InvPlace, InvVerified, Verified
    <3> QED
      BY <3>3, <3>4
  <2> QED
    BY <2>4, <2>5
<1> QED
  BY <1>4, <1>5, <1>6 DEF Parse

\* Inside a loop, and when it returns with sense data.
LEMMA LoopFacts ==
  ASSUME DInv, Transfer
  PROVE  /\ scsiUnchanged /\ pc \in LoopPcs
         /\ UNCHANGED <<cmd, lun_idx, data_size_from_cmnd, phase_error, state>>
         /\ Answered /\ state # "ABORT_BULK_OUT" /\ lun_idx \in Luns
         /\ Placed(io, moved) /\ moved \in Nat /\ io.lba \in Nat /\ io.left \in Nat
         /\ io.n \in Nat /\ cmd.lba \in Nat /\ cmd.len \in Nat /\ BlkLen \in Nat \ {0}
         /\ cmd.op \in {"READ", "WRITE", "VERIFY"} /\ (pc = "vf" <=> cmd.op = "VERIFY")
         /\ (pc \in WritePcs <=> cmd.op = "WRITE")
<1> USE DEF DInv
<1>1. scsiUnchanged /\ pc \in LoopPcs
  BY DEF Transfer, ReadChunk, ReadPastEnd, ReadAccount, WriteRequest, WritePastEnd, WriteEnd,
         WriteCommFailure, WriteNothing, WriteChunk, VerifyChunk, VerifyPastEnd, LoopPcs,
         ReadPcs, WritePcs
<1>2. cmd.lba \in Nat /\ cmd.len \in Nat /\ BlkLen \in Nat \ {0}
  BY ClampedType, SizesAssumption DEF IInv, TypeOK, CbwType
<1>3. /\ cmd.op \in {"READ", "WRITE", "VERIFY"} /\ (pc = "vf" <=> cmd.op = "VERIFY")
      /\ (pc \in WritePcs <=> cmd.op = "WRITE")
  BY <1>1 DEF IInv, Loops, InvRead, InvWrite, InvAccount, LoopPcs, ReadPcs, WritePcs
<1> QED
  BY <1>1, <1>2, <1>3, LoopStart DEF Place, InvPlace

\* Sizes, and the mark of a short packet, hold through the loops.
LEMMA LoopSizes ==
  ASSUME DInv, Transfer
  PROVE  InvLun' /\ InvSize' /\ InvShort'
<1>0. InvLun'
  <2>1. lun_idx = cmd.lun
    BY LoopFacts DEF DInv, Place, InvLun, InCommand, Answered
  <2> QED
    BY <2>1, LoopFacts DEF InvLun
<1>1. InvSize'
  BY LoopFacts DEF DInv, Place, InvSize, Clamped, SizeFromCmnd
<1>2. ASSUME cmd.op = "WRITE" PROVE InvShort'
  BY <1>2, LoopFacts DEF InvShort
<1>3. ASSUME cmd.op # "WRITE" PROVE InvShort'
  <2>1. pc \notin WritePcs
    BY <1>3, LoopFacts
  <2>2. UNCHANGED short_packet_received
    BY <2>1 DEF Transfer, ReadChunk, ReadPastEnd, ReadAccount, WriteRequest, WritePastEnd,
       WriteEnd, WriteCommFailure, WriteNothing, WriteChunk, VerifyChunk, VerifyPastEnd, WritePcs
  <2> QED
    BY <1>3, <2>2, LoopFacts DEF DInv, Place, InvShort
<1> QED
  BY <1>0, <1>1, <1>2, <1>3

\* A loop of a READ or a WRITE that returns has no place to keep.
LEMMA ReturnPlace ==
  ASSUME DInv, Transfer, pc' = "parsed", cmd.op # "VERIFY"
  PROVE  Place'
BY LoopSizes, LoopFacts DEF Place, InvPlace, InvVerified, Verified, LoopPcs, ReadPcs, WritePcs

\* One that goes on has its place.
LEMMA NextPlace ==
  ASSUME DInv, Transfer, pc' \in ReadPcs \cup WritePcs, cmd.op # "VERIFY", Placed(io', moved')
  PROVE  Place'
<1>1. pc' # "vf" /\ cmd' = cmd
  BY LoopFacts DEF ReadPcs, WritePcs
<1>2. Placed(io, moved)'
  BY <1>1 DEF Placed
<1> QED
  BY <1>1, <1>2, LoopSizes, LoopFacts DEF Place, InvPlace, InvVerified, Verified

\* Sectors moved take the place along.
LEMMA Advance ==
  ASSUME NEW a \in Nat, NEW b \in Nat, NEW m \in Nat, NEW n \in Nat, NEW l \in Nat,
         a * l = b * l + m
  PROVE  (a + n) * l = b * l + (m + n * l)
<1>1. (a + n) * l = a * l + n * l
  BY SMT
<1>2. a * l \in Nat /\ b * l \in Nat /\ n * l \in Nat
  BY SMT
<1> DEFINE x == a * l
           y == b * l
           z == n * l
<1> HIDE DEF x, y, z
<1>3. x = y + m => x + z = y + (m + z)
  BY <1>2 DEF x, y, z
<1> QED
  BY <1>1, <1>3 DEF x, y, z

\* The steps of _scsi_read.
LEMMA ReadPlace ==
  ASSUME DInv, ReadChunk \/ ReadPastEnd \/ ReadAccount
  PROVE  Place'
<1>1. Transfer /\ pc \in ReadPcs /\ cmd.op # "VERIFY"
  <2>1. Transfer /\ pc \in ReadPcs
    BY DEF Transfer, ReadChunk, ReadPastEnd, ReadAccount, ReadPcs
  <2> QED
    BY <2>1, LoopFacts DEF ReadPcs
<1>2. CASE ReadPastEnd
  BY <1>1, <1>2, ReturnPlace DEF ReadPastEnd, Return
<1>3. CASE ReadChunk
  <2>1. io'.lba = io.lba /\ moved' = moved
    BY <1>3 DEF ReadChunk, DInv, IInv, TypeOK, TypeAmounts, IoType
  <2>2. Placed(io', moved')
    BY <1>1, <2>1, LoopFacts DEF Placed
  <2>3. pc' \in ReadPcs
    BY <1>3 DEF ReadChunk, ReadPcs
  <2> QED
    BY <1>1, <2>2, <2>3, NextPlace
<1>4. CASE ReadAccount
  <2>1. CASE pc' = "parsed"
    BY <1>1, <2>1, ReturnPlace
  <2>2. CASE pc' # "parsed"
    <3>1. /\ pc' = "rd" /\ moved' = moved + io.n * BlkLen
          /\ io' = [io EXCEPT !.lba = @ + io.n, !.left = @ - io.n, !.first = FALSE,
                              !.cur = IF @ = "in" THEN "out" ELSE "in"]
      BY <1>4, <2>2 DEF ReadAccount, Account, Return
    <3>2. io'.lba = io.lba + io.n
      BY <3>1 DEF DInv, IInv, TypeOK, TypeAmounts, IoType
    <3>3. Placed(io', moved')
      BY <1>1, <3>1, <3>2, LoopFacts, Advance DEF Placed
    <3> QED
      BY <1>1, <3>1, <3>3, NextPlace DEF ReadPcs
  <2> QED
    BY <2>1, <2>2
<1> QED
  BY <1>2, <1>3, <1>4

\* The steps of _scsi_write.
LEMMA WritePlace ==
  ASSUME DInv, WriteRequest \/ WritePastEnd \/ WriteEnd \/ WriteCommFailure \/ WriteNothing
               \/ WriteChunk
  PROVE  Place'
<1>1. Transfer /\ pc \in WritePcs /\ cmd.op # "VERIFY"
  <2>1. Transfer /\ pc \in WritePcs
    BY DEF Transfer, WriteRequest, WritePastEnd, WriteEnd, WriteCommFailure, WriteNothing,
           WriteChunk, WritePcs
  <2> QED
    BY <2>1, LoopFacts DEF WritePcs
<1>2. CASE pc' = "parsed"
  BY <1>1, <1>2, ReturnPlace
<1>3. CASE pc' # "parsed" /\ (WriteRequest \/ WriteNothing)
  <2>1. io'.lba = io.lba /\ moved' = moved /\ pc' \in WritePcs
    BY <1>3 DEF WriteRequest, WriteNothing, WriteNext, DInv, IInv, TypeOK, TypeAmounts, IoType,
                ghostVars, WritePcs
  <2>2. Placed(io', moved')
    BY <1>1, <2>1, LoopFacts DEF Placed
  <2> QED
    BY <1>1, <2>1, <2>2, NextPlace
<1>4. CASE pc' # "parsed" /\ WriteChunk
  <2> DEFINE next == [io EXCEPT !.lba = @ + WriteAmount, !.left = @ - WriteAmount * BlkLen]
  <2>1. WriteNext(next) /\ Account(WriteAmount * BlkLen)
    BY <1>4 DEF WriteChunk, Return
  <2>2. pc' = "wr" /\ io' = next /\ moved' = moved + WriteAmount * BlkLen
    BY <1>4, <2>1 DEF WriteNext, Account
  <2>3. io'.lba = io.lba + WriteAmount
    BY <2>2 DEF DInv, IInv, TypeOK, TypeAmounts, IoType
  <2>4. WriteAmount \in Nat
    BY <1>1, <1>4, LoopFacts, WriteAmountType DEF DInv, WriteChunk
  <2>5. Placed(io', moved')
    BY <1>1, <2>2, <2>3, <2>4, LoopFacts, Advance DEF Placed
  <2> QED
    BY <1>1, <2>2, <2>5, NextPlace DEF WritePcs
<1>5. pc' # "parsed" => WriteRequest \/ WriteNothing \/ WriteChunk
  BY DEF WritePastEnd, WriteEnd, WriteCommFailure, Return
<1> QED
  BY <1>2, <1>3, <1>4, <1>5

\* The steps of _scsi_verify.
LEMMA VerifyPlace ==
  ASSUME DInv, VerifyChunk \/ VerifyPastEnd
  PROVE  Place'
<1>1. Transfer /\ pc = "vf" /\ scsiUnchanged
  BY DEF Transfer, VerifyChunk, VerifyPastEnd
<1>2. InvLun' /\ InvSize' /\ InvShort'
  BY <1>1, LoopSizes
<1>3. CASE pc' = "parsed" /\ \E s \in Sense \ {"NO_SENSE"}, i \in Int : SetSense(s, i)
  <2>1. Lun'.sense_data # "NO_SENSE"
    BY <1>1, <1>3, LoopFacts, SetSenseType DEF DInv, IInv, TypeOK, Lun
  <2> QED
    BY <1>2, <1>3, <2>1 DEF Place, InvPlace, InvVerified, Verified, LoopPcs, ReadPcs, WritePcs
<1>4. CASE VerifyPastEnd
  BY <1>1, <1>3, <1>4, LoopFacts, LoopSense DEF VerifyPastEnd, VerifyReturn, Return
<1>5. CASE VerifyChunk
  <2>1. PICK how \in Outcomes :
          /\ IF how \in Lost
             THEN SetSense("UNRECOVERED_READ_ERROR", io.lba) /\ VerifyReturn
             ELSE /\ UNCHANGED luns
                  /\ IF io.left = VerifyAmount THEN VerifyReturn
                     ELSE /\ io' = [io EXCEPT !.lba = @ + VerifyAmount, !.left = @ - VerifyAmount]
                          /\ UNCHANGED <<pc, bulk, residue>>
          /\ moved' = moved + (IF how \in Lost THEN 0 ELSE VerifyAmount * BlkLen)
    BY <1>5 DEF VerifyChunk
  <2>2. CASE how \in Lost
    BY <1>1, <1>3, <2>1, <2>2, LoopFacts, LoopSense DEF VerifyReturn, Return
  <2>3. CASE how \notin Lost
    <3> DEFINE n == VerifyAmount
    <3>1. moved' = moved + n * BlkLen /\ n \in Nat /\ n <= io.left
      BY <1>1, <2>1, <2>3, VerifyAmountType DEF DInv
    <3>2. moved + io.left * BlkLen = cmd.len * BlkLen
      BY <1>1 DEF DInv, Place, InvPlace
    <3>3. n * BlkLen \in Nat /\ io.left * BlkLen \in Nat /\ cmd.len * BlkLen \in Nat
          /\ (io.left - n) * BlkLen = io.left * BlkLen - n * BlkLen
      BY <1>1, <3>1, LoopFacts, TimesMinus, TimesMonotone
    <3> HIDE DEF n
    <3>4. CASE io.left = n
      <4>1. pc' = "parsed"
        BY <2>1, <2>3, <3>4 DEF VerifyReturn, Return, n
      <4>2. moved' >= cmd.len * BlkLen
        BY <1>1, <3>1, <3>2, <3>3, <3>4, LoopFacts
      <4>3. cmd' = cmd
        BY <1>1, LoopFacts
      <4> QED
        BY <1>2, <4>1, <4>2, <4>3
           DEF Place, InvPlace, InvVerified, Verified, LoopPcs, ReadPcs, WritePcs
    <3>5. CASE io.left # n
      <4>1. pc' = "vf" /\ io' = [io EXCEPT !.lba = @ + n, !.left = @ - n]
        BY <1>1, <2>1, <2>3, <3>5 DEF n
      <4>2. io'.lba = io.lba + n /\ io'.left = io.left - n
        BY <4>1 DEF DInv, IInv, TypeOK, TypeAmounts, IoType
      <4>3. Placed(io', moved')
        BY <1>1, <3>1, <4>2, LoopFacts, Advance DEF Placed
      <4>4. cmd' = cmd
        BY <1>1, LoopFacts
      <4>5. Placed(io, moved)'
        BY <4>3, <4>4 DEF Placed
      <4> DEFINE x == io.left * BlkLen
                 y == n * BlkLen
                 z == cmd.len * BlkLen
      <4>6. x \in Nat /\ y \in Nat /\ z \in Nat /\ moved + x = z /\ moved' = moved + y
            /\ io'.left * BlkLen = x - y
        BY <3>1, <3>2, <3>3, <4>2
      <4> HIDE DEF x, y, z
      <4>7. moved' + (x - y) = z
        BY <1>1, <4>6, LoopFacts
      <4>8. moved' + io'.left * BlkLen = cmd'.len * BlkLen
        BY <4>4, <4>6, <4>7 DEF z
      <4> QED
        BY <1>2, <4>1, <4>5, <4>8 DEF Place, InvPlace, InvVerified
    <3> QED
      BY <3>4, <3>5
  <2> QED
    BY <2>2, <2>3
<1> QED
  BY <1>4, <1>5

\* A step of the endpoint, of the controller or of the host.
LEMMA EndpointPlace ==
  ASSUME DInv, EpEvent \/ EpTimeout \/ EpDisabled \/ Hardware
  PROVE  /\ Place'
         /\ UNCHANGED <<pc, state, cmdVars, luns, acctVars, bulk, io, ghostVars>>
<1>1. UNCHANGED <<pc, state, cmdVars, luns, acctVars, bulk, io, ghostVars>>
  BY HardwareFrame, OperationRest DEF DInv, IInv, hwUnchanged, excVars
<1>2. Place'
  BY <1>1 DEF DInv, Place, InvLun, InvSize, InvShort, InvPlace, InvVerified, Verified, Placed,
     InCommand, Answered, Clamped, SizeFromCmnd, Lun, cmdVars, acctVars, ghostVars
<1> QED
  BY <1>1, <1>2

\* Reception of a command.
LEMMA CommandPlace ==
  ASSUME DInv, GetCommand \/ ReceiveCommand
  PROVE  Place'
<1>1. state \in States /\ state # "ABORT_BULK_OUT" /\ bulk_reset_req \in BOOLEAN
  BY DEF DInv, IInv, TypeOK, TypeControl, Loops, InvUnit, GetCommand, ReceiveCommand, CbwDropped,
         CbwInvalid, CbwForeign, CbwAccept, Received
<1>2. "EXIT" \in States
  BY DEF States
<1>3. Raise("EXIT") # "ABORT_BULK_OUT"
  BY <1>1, <1>2, RaiseType
<1>4. CASE GetCommand
  BY <1>1, <1>4, HandleEp0Type, IdlePlace DEF GetCommand
<1>5. CASE CbwDropped \/ CbwInvalid \/ CbwForeign
  BY <1>1, <1>3, <1>5, IdlePlace DEF CbwDropped, CbwInvalid, CbwForeign, Received
<1>6. CASE CbwAccept
  <2>1. /\ state' # "ABORT_BULK_OUT" /\ pc' \in {"parse", "top"} /\ lun_idx' = cmd'.lun
    BY <1>1, <1>3, <1>6 DEF CbwAccept, Continue
  <2> QED
    BY <2>1 DEF Place, InvLun, InvSize, InvShort, InvPlace, InvVerified, Answered, LoopPcs,
       ReadPcs, WritePcs
<1> QED
  BY <1>4, <1>5, <1>6 DEF ReceiveCommand

\* Exceptions: only the answer that is owed keeps its command.
LEMMA ExceptionPlace ==
  ASSUME DInv, HandleException \/ ComboExit
  PROVE  Place'
<1>1. CASE HandleReset \/ HandleExit
  BY <1>1, IdlePlace DEF HandleReset, HandleExit
<1>2. CASE HandleAbort
  BY <1>2, SamePlace DEF DInv, HandleAbort, excUnchanged, cmdVars, acctVars, ghostVars, Answered,
     InCommand, LoopPcs, ReadPcs, WritePcs
<1>3. CASE ComboExit
  BY <1>3, SamePlace DEF DInv, ComboExit, excUnchanged, cmdVars, acctVars, ghostVars, Answered,
     InCommand, LoopPcs, ReadPcs, WritePcs
<1> QED
  BY <1>1, <1>2, <1>3 DEF HandleException

\* Nothing happens.
LEMMA StillPlace ==
  ASSUME DInv, UNCHANGED vars
  PROVE  Place'
BY DEF DInv, Place, InvLun, InvSize, InvShort, InvPlace, InvVerified, Verified, Placed, InCommand,
       Answered, Clamped, SizeFromCmnd, Lun, vars, excVars, cmdVars, acctVars, ghostVars

\* The place is kept by every step.
LEMMA DInvInit == Init => DInv
<1>1. Init => Place
  BY DEF Init, Place, InvLun, InvSize, InvShort, InvPlace, InvVerified, InCommand, Answered,
         LoopPcs, ReadPcs, WritePcs
<1> QED
  BY <1>1, InitInv DEF DInv

\* Every step keeps the invariant.
LEMMA DInvStep == DInv /\ [Next]_vars => DInv'
<1> SUFFICES ASSUME DInv, [Next]_vars PROVE Place'
  BY StepInv DEF DInv
<1>1. CASE Transfer
  BY <1>1, ReadPlace, WritePlace, VerifyPlace DEF Transfer
<1>2. CASE Parse \/ FinishReply \/ SendStatus \/ StatusSent
  BY <1>2, ParsePlace, ReplyPlace
<1>3. CASE WriteSpin \/ Done \/ UNCHANGED vars
  BY <1>3, StillPlace DEF WriteSpin, Done
<1> QED
  BY <1>1, <1>2, <1>3, EndpointPlace, CommandPlace, ExceptionPlace DEF Next, Thread

-----------------------------------------------------------------------------
(* Every step is a step of the device, or leaves it alone.                 *)

Still == UNCHANGED <<DevJob, DevDone, DevAccess, DevAnswer>>

\* The end is the end.
LEMMA StillStep ==
  ASSUME Still, pc # "exit" \/ UNCHANGED vars
  PROVE  Device!DeviceNext \/ UNCHANGED Device!deviceVars
BY DEF Still, Device!DeviceNext, Device!deviceVars, DevMode, vars, excVars

\* The job stays as long as its command, its place and its answer do.
LEMMA BusyStill ==
  ASSUME Busy' = Busy, pc = "csw_wait" <=> pc' = "csw_wait",
         Busy => UNCHANGED <<cmd, disk>> /\ moved' + InBuffer' = moved + InBuffer,
         pc = "csw_wait" => UNCHANGED <<residue, Status>>
  PROVE  Still
BY DEF Still, DevJob, DevDone, DevAccess, DevAnswer

\* Between commands there is nothing.
LEMMA IdleStill ==
  ASSUME ~ Busy, ~ Busy'
  PROVE  Still
BY DEF Still, DevJob, DevDone, DevAccess, DevAnswer, Busy

\* Controller and host do nothing the block device knows of.
LEMMA EndpointStill ==
  ASSUME DInv, EpEvent \/ EpTimeout \/ EpDisabled \/ Hardware
  PROVE  Still
BY EndpointPlace DEF Still, DevJob, DevDone, DevAccess, DevAnswer, Busy, InBuffer, Status, Lun,
   cmdVars, acctVars, ghostVars

\* The job of a busy gadget is the command of its wrapper.
LEMMA JobIsCommand ==
  ASSUME DInv
  PROVE  Busy => DevJob \in Cbws /\ DevJob # Device!NoJob /\ DevJob = cmd
<1>1. cmd \in Cbws /\ cmd.op \in Ops
  BY HostAssumption DEF DInv, IInv, TypeOK, TypeCommand, CbwType
<1>2. cmd.op # "NONE"
  BY <1>1 DEF Ops
<1> QED
  BY <1>1, <1>2 DEF DevJob, Device!NoJob

\* A command that is not answered yet.
LEMMA BusyServing ==
  ASSUME DInv, Busy, pc # "csw_wait"
  PROVE  Device!Serving /\ DevJob = cmd
BY JobIsCommand DEF Device!Serving, DevAnswer, Device!NoAnswer

\* Accepting a wrapper is accepting a command.
LEMMA AcceptStep ==
  ASSUME DInv, CbwAccept
  PROVE  Device!DeviceNext
<1>1. pc = "cbw" /\ state \in States /\ state # "ABORT_BULK_OUT" /\ "EXIT" \in States
  BY DEF DInv, IInv, TypeOK, TypeControl, Loops, InvUnit, CbwAccept, States
<1>2. ~ Busy
  BY <1>1 DEF Busy
<1>3. CASE pc' = "top"
  <2>1. state' # "ABORT_BULK_OUT"
    BY <1>1, RaiseType DEF CbwAccept
  <2> QED
    BY <1>1, <1>2, <1>3, <2>1, IdleStill DEF Busy, Still, Device!DeviceNext, DevMode
<1>4. CASE pc' = "parse"
  <2>1. state' = "NORMAL"
    BY <1>4 DEF CbwAccept, Continue
  <2>2. state = "NORMAL"
    BY <1>1, <2>1, RaiseType DEF CbwAccept
  <2>3. cmd' \in Cbws /\ moved' = 0 /\ disk' = NoAccess
    <3>1. ep.rx.cbw \in Cbws
      BY DEF CbwAccept, IsCbw, DInv, IInv, TypeOK, TypeEndpoint, EpType, Pkt, NoPkt, JunkPkt, DataPkt
    <3> QED
      BY <3>1 DEF CbwAccept
  <2>4. DevMode = "calm" /\ DevJob = Device!NoJob /\ DevJob' \in Cbws
    BY <1>1, <1>2, <1>4, <2>2, <2>3 DEF DevMode, DevJob, Device!NoJob, Busy
  <2>5. UNCHANGED <<DevDone, DevAccess, DevAnswer>>
    BY <1>1, <1>2, <1>4, <2>3 DEF DevDone, DevAccess, DevAnswer, Busy, InBuffer
  <2> QED
    BY <2>4, <2>5 DEF Device!DeviceNext, Device!Accept
<1> QED
  BY <1>3, <1>4 DEF CbwAccept, Continue

\* An access of a loop touches the next sectors, or none.
LEMMA TouchStep ==
  ASSUME DInv, Transfer, pc \in {"rd", "write_wait", "vf"}, Busy', pc' # "csw_wait",
         NEW n \in Nat \ {0}, NEW how \in Outcomes,
         StorageAccess(Device!AccessOf[cmd.op], n, how),
         io.lba + n <= Num, cmd.op = "WRITE" => ~ Ro[lun_idx],
         moved + n * BlkLen <= Device!Extent(cmd),
         DevDone' = IF how \in Lost THEN moved ELSE moved + n * BlkLen
  PROVE  Device!DeviceNext
<1>1. /\ UNCHANGED <<cmd, lun_idx, state>> /\ lun_idx \in Luns /\ Placed(io, moved)
      /\ moved \in Nat /\ io.lba \in Nat /\ cmd.lba \in Nat /\ BlkLen \in Nat \ {0}
      /\ cmd.op \in {"READ", "WRITE", "VERIFY"} /\ InCommand /\ scsiUnchanged
  BY LoopFacts DEF Answered, InCommand
<1>2. lun_idx = cmd.lun /\ Num \in Nat
  BY <1>1, LunsAssumption DEF DInv, Place, InvLun, Num
<1>3. Busy /\ DevDone = moved /\ DevJob = cmd /\ DevJob' = cmd /\ UNCHANGED DevAnswer
      /\ Device!Serving
  BY <1>1, BusyServing DEF Busy, DevDone, InBuffer, DevJob, DevAnswer
<1>4. CASE how = "refused"
  <2>1. UNCHANGED <<DevAccess, DevDone>>
    BY <1>3, <1>4 DEF DevAccess, StorageAccess, Lost
  <2> QED
    BY <1>1, <1>3, <2>1 DEF Device!DeviceNext, DevMode
<1>5. CASE how # "refused"
  <2>1. disk' = [op |-> Device!AccessOf[cmd.op], lun |-> lun_idx, lba |-> io.lba, n |-> n,
                 part |-> emmc_part']
    BY <1>5 DEF StorageAccess
  <2>2. DevAccess' = [op |-> Device!AccessOf[cmd.op], lun |-> cmd.lun, lba |-> io.lba, n |-> n]
    <3>1. Device!AccessOf[cmd.op] \in {"read", "write", "verify"}
      BY <1>1 DEF Device!AccessOf
    <3>2. disk' # NoAccess
      BY <2>1, <3>1 DEF NoAccess
    <3> QED
      BY <1>2, <2>1, <3>2 DEF DevAccess
  <2>3. Device!Touch
    <3>1. n \in 1 .. NumSectors[cmd.lun] /\ io.lba \in cmd.lba .. NumSectors[cmd.lun]
          /\ io.lba + n <= NumSectors[cmd.lun]
          /\ io.lba * BlkLen = cmd.lba * BlkLen + moved
      BY <1>1, <1>2 DEF Placed, Num
    <3>2. cmd.op \in DOMAIN Device!AccessOf
      BY <1>1 DEF Device!AccessOf
    <3>3. DevDone' \in {moved, moved + n * BlkLen}
      OBVIOUS
    <3> QED
      BY <1>2, <1>3, <2>2, <3>1, <3>2, <3>3 DEF Device!Touch
  <2> QED
    BY <1>1, <2>3 DEF Device!DeviceNext, DevMode
<1> QED
  BY <1>4, <1>5

\* What the loops still have to do lies inside the command.
LEMMA LoopExtent ==
  ASSUME DInv, Transfer
  PROVE  /\ pc \in ReadPcs => moved + io.left * BlkLen <= Device!Extent(cmd)
         /\ pc \in WritePcs => moved + io.left = Device!Extent(cmd)
         /\ pc = "vf" => moved + io.left * BlkLen = Device!Extent(cmd)
         /\ Device!Extent(cmd) \in Nat
<1>1. /\ data_size_from_cmnd = Clamped(cmd) /\ data_size_from_cmnd \in Nat
      /\ cmd.len \in Nat /\ BlkLen \in Nat
  BY LoopFacts DEF DInv, Place, InvSize, IInv, TypeOK, TypeAmounts
<1>2. cmd.op \in {"READ", "WRITE"} => Device!Extent(cmd) = Clamped(cmd)
  BY DEF Device!Extent, Clamped, SizeFromCmnd, MinOf
<1>3. cmd.op = "VERIFY" => Device!Extent(cmd) = cmd.len * BlkLen
  BY DEF Device!Extent
<1>4. Agreed <= data_size_from_cmnd
  BY <1>1, WholeSectors DEF Agreed
<1>5. ASSUME pc \in ReadPcs PROVE moved + io.left * BlkLen <= Device!Extent(cmd)
  <2>1. cmd.op = "READ" /\ moved + io.left * BlkLen = Agreed
    BY <1>5 DEF DInv, IInv, Loops, InvRead, InvDone
  <2> QED
    BY <1>1, <1>2, <1>4, <2>1
<1>6. ASSUME pc \in WritePcs PROVE moved + io.left = Device!Extent(cmd)
  BY <1>1, <1>2, <1>6 DEF DInv, IInv, Loops, InvWrite, InvDone
<1>7. ASSUME pc = "vf" PROVE moved + io.left * BlkLen = Device!Extent(cmd)
  BY <1>3, <1>7, LoopFacts DEF DInv, Place, InvPlace
<1>8. Device!Extent(cmd) \in Nat
  <2>1. cmd.len * BlkLen \in Nat
    BY <1>1, TimesMonotone
  <2> QED
    BY <1>1, <1>2, <1>3, <2>1, LoopFacts
<1> QED
  BY <1>5, <1>6, <1>7, <1>8

\* A chunk of a READ is an access to the next sectors.
LEMMA ReadChunkStep ==
  ASSUME DInv, ReadChunk
  PROVE  Device!DeviceNext
<1>1. Transfer /\ pc = "rd" /\ pc \in ReadPcs /\ ReadAmount > 0 /\ scsiUnchanged
  BY DEF Transfer, ReadChunk, ReadPcs
<1>2. PICK how \in Outcomes :
        /\ StorageAccess("read", ReadAmount, how)
        /\ io' = [io EXCEPT !.n = IF how \in Lost THEN 0 ELSE ReadAmount]
  BY DEF ReadChunk
<1>3. cmd.op = "READ"
  BY <1>1 DEF DInv, IInv, Loops, InvRead
<1>4. /\ ReadAmount \in Nat \ {0} /\ io.lba + ReadAmount <= Num
      /\ ReadAmount * BlkLen \in Nat /\ ReadAmount * BlkLen <= io.left * BlkLen
      /\ io.left * BlkLen \in Nat
  BY <1>1, ReadAmountType, LoopFacts, TimesMonotone DEF DInv
<1>5. moved + ReadAmount * BlkLen <= Device!Extent(cmd)
  <2> DEFINE x == ReadAmount * BlkLen
             y == io.left * BlkLen
  <2>1. x \in Nat /\ y \in Nat /\ x <= y /\ moved + y <= Device!Extent(cmd) /\ moved \in Nat
        /\ Device!Extent(cmd) \in Nat
    BY <1>1, <1>4, LoopExtent, LoopFacts
  <2> HIDE DEF x, y
  <2>2. moved + x <= Device!Extent(cmd)
    BY <2>1
  <2> QED
    BY <2>2 DEF x
<1>6. pc' \in {"read_done", "read_wait"} /\ moved' = moved
  BY DEF ReadChunk
<1>7. Busy' /\ pc' # "csw_wait"
  BY <1>6 DEF Busy
<1>8. DevDone' = IF how \in Lost THEN moved ELSE moved + ReadAmount * BlkLen
  <2>1. io'.n = IF how \in Lost THEN 0 ELSE ReadAmount
    BY <1>2 DEF DInv, IInv, TypeOK, TypeAmounts, IoType
  <2>2. DevDone' = moved + io'.n * BlkLen
    BY <1>6, <1>7 DEF DevDone, InBuffer
  <2>3. 0 * BlkLen = 0 /\ moved \in Nat
    BY <1>1, LoopFacts
  <2> QED
    BY <2>1, <2>2, <2>3
<1> QED
  BY <1>1, <1>2, <1>3, <1>4, <1>5, <1>7, <1>8, TouchStep DEF Device!AccessOf

\* So is one of a WRITE.
LEMMA WriteChunkStep ==
  ASSUME DInv, WriteChunk
  PROVE  Device!DeviceNext
<1>1. Transfer /\ pc = "write_wait" /\ pc \in WritePcs /\ WriteAmount > 0 /\ scsiUnchanged
  BY DEF Transfer, WriteChunk, WritePcs
<1>2. PICK how \in Outcomes :
        /\ StorageAccess("write", WriteAmount, how)
        /\ IF how \in Lost
           THEN /\ SetSense("WRITE_ERROR", io.lba)
                /\ Return
                /\ UNCHANGED <<residue, moved, short_packet_received>>
           ELSE LET len == WriteAmount * BlkLen
                IN /\ WriteNext([io EXCEPT !.lba = @ + WriteAmount, !.left = @ - len])
                   /\ Account(len)
                   /\ UNCHANGED luns
  BY DEF WriteChunk
<1>3. cmd.op = "WRITE" /\ ~ Ro[lun_idx]
  BY <1>1, WriteStart DEF DInv
<1>4. /\ WriteAmount \in Nat \ {0} /\ io.lba + WriteAmount <= Num
      /\ WriteAmount * BlkLen \in Nat /\ WriteAmount * BlkLen <= bulk.out_length
      /\ bulk.out_length \in Nat
  BY <1>1, WriteAmountType DEF DInv
<1>5. moved + WriteAmount * BlkLen <= Device!Extent(cmd)
  <2> DEFINE x == WriteAmount * BlkLen
             e == Device!Extent(cmd)
  <2>1. x \in Nat /\ x <= bulk.out_length /\ bulk.out_length \in Nat /\ moved \in Nat /\ e \in Nat
        /\ io.left \in Nat /\ io.req \in Nat /\ io.req + bulk.out_length <= io.left
        /\ moved + io.left = e
    BY <1>1, <1>4, LoopExtent, LoopFacts
       DEF DInv, IInv, Loops, InvWrite, TypeOK, TypeAmounts, IoType
  <2> HIDE DEF x, e
  <2>2. moved + x <= e
    BY <2>1
  <2> QED
    BY <2>2 DEF x, e
<1>6. pc' \in {"parsed", "wr"} /\ moved' = IF how \in Lost THEN moved ELSE moved + WriteAmount * BlkLen
  BY <1>2 DEF Return, WriteNext, Account
<1>7. Busy' /\ pc' # "csw_wait"
  BY <1>6 DEF Busy
<1>8. DevDone' = IF how \in Lost THEN moved ELSE moved + WriteAmount * BlkLen
  BY <1>1, <1>4, <1>6, <1>7, LoopFacts DEF DevDone, InBuffer
<1> QED
  BY <1>1, <1>2, <1>3, <1>4, <1>5, <1>7, <1>8, TouchStep DEF Device!AccessOf

\* So is one of a VERIFY.
LEMMA VerifyChunkStep ==
  ASSUME DInv, VerifyChunk
  PROVE  Device!DeviceNext
<1>1. Transfer /\ pc = "vf" /\ VerifyAmount > 0 /\ scsiUnchanged
  BY DEF Transfer, VerifyChunk
<1>2. PICK how \in Outcomes :
        /\ StorageAccess("verify", VerifyAmount, how)
        /\ IF how \in Lost
           THEN SetSense("UNRECOVERED_READ_ERROR", io.lba) /\ VerifyReturn
           ELSE /\ UNCHANGED luns
                /\ IF io.left = VerifyAmount THEN VerifyReturn
                   ELSE /\ io' = [io EXCEPT !.lba = @ + VerifyAmount, !.left = @ - VerifyAmount]
                        /\ UNCHANGED <<pc, bulk, residue>>
        /\ moved' = moved + (IF how \in Lost THEN 0 ELSE VerifyAmount * BlkLen)
  BY DEF VerifyChunk
<1>3. cmd.op = "VERIFY"
  BY <1>1, LoopFacts
<1>4. /\ VerifyAmount \in Nat \ {0} /\ io.lba + VerifyAmount <= Num
      /\ VerifyAmount * BlkLen \in Nat /\ VerifyAmount * BlkLen <= io.left * BlkLen
      /\ io.left * BlkLen \in Nat
  BY <1>1, VerifyAmountType, LoopFacts, TimesMonotone DEF DInv
<1>5. moved + VerifyAmount * BlkLen <= Device!Extent(cmd)
  <2> DEFINE x == VerifyAmount * BlkLen
             y == io.left * BlkLen
  <2>1. x \in Nat /\ y \in Nat /\ x <= y /\ moved + y = Device!Extent(cmd) /\ moved \in Nat
        /\ Device!Extent(cmd) \in Nat
    BY <1>1, <1>4, LoopExtent, LoopFacts
  <2> HIDE DEF x, y
  <2>2. moved + x <= Device!Extent(cmd)
    BY <2>1
  <2> QED
    BY <2>2 DEF x
<1>6. pc' \in {"parsed", "vf"}
  BY <1>1, <1>2 DEF VerifyReturn, Return
<1>7. Busy' /\ pc' # "csw_wait"
  BY <1>6 DEF Busy
<1>8. DevDone' = IF how \in Lost THEN moved ELSE moved + VerifyAmount * BlkLen
  BY <1>1, <1>2, <1>4, <1>6, <1>7, LoopFacts DEF DevDone, InBuffer
<1> QED
  BY <1>1, <1>2, <1>3, <1>4, <1>5, <1>7, <1>8, TouchStep DEF Device!AccessOf

\* The other steps of the loops only count what is in the buffer.
LEMMA LoopStill ==
  ASSUME DInv, ReadPastEnd \/ ReadAccount \/ WriteRequest \/ WritePastEnd \/ WriteEnd
               \/ WriteCommFailure \/ WriteNothing \/ VerifyPastEnd
  PROVE  Device!DeviceNext
<1>1. Transfer /\ pc \in LoopPcs /\ cmd' = cmd /\ state' = state /\ moved \in Nat
  BY LoopFacts DEF Transfer
<1>2. disk' = disk /\ pc' \in {"rd", "wr", "write_wait", "parsed"}
  BY DEF ReadPastEnd, ReadAccount, WriteRequest, WritePastEnd, WriteEnd, WriteCommFailure,
     WriteNothing, WriteNext, VerifyPastEnd, VerifyReturn, Return, ghostVars
<1>3. Busy /\ Busy' /\ pc # "csw_wait" /\ pc # "exit" /\ InBuffer' = 0
  BY <1>1, <1>2 DEF Busy, LoopPcs, ReadPcs, WritePcs, InBuffer
<1>4. moved' = moved + InBuffer
  <2>1. CASE ReadAccount
    BY <2>1 DEF ReadAccount, Account, InBuffer
  <2>2. CASE ~ ReadAccount
    <3>1. pc \notin {"read_done", "read_wait"} /\ moved' = moved
      BY <2>2 DEF ReadPastEnd, WriteRequest, WritePastEnd, WriteEnd, WriteCommFailure,
         WriteNothing, VerifyPastEnd, ghostVars
    <3> QED
      BY <1>1, <3>1 DEF InBuffer
  <2> QED
    BY <2>1, <2>2
<1>5. DevDone' = DevDone
  <2>1. moved' \in Nat
    BY <1>1, StepInv DEF DInv, IInv, TypeOK, TypeAmounts, Next, Thread
  <2> QED
    BY <1>3, <1>4, <2>1 DEF DevDone
<1>6. Still
  BY <1>1, <1>2, <1>3, <1>5 DEF Still, DevJob, DevAccess, DevAnswer
<1> QED
  BY <1>1, <1>3, <1>6 DEF Still, Device!DeviceNext, DevMode

\* The handlers set a command up, nothing is touched yet.
LEMMA ParseStill ==
  ASSUME DInv, Parse
  PROVE  Device!DeviceNext
<1>1. ParseStart /\ pc = "parse"
  BY DEF Parse, ParseRefuse, ParseReply, ParseControl, ParseTransfer, ParseStart
<1>2. pc' \in {"parsed", "rd", "wr", "vf"}
  BY DEF Parse, ParseRefuse, ParseReply, ParseControl, ParseTransfer
<1>3. UNCHANGED <<cmd, moved, disk>>
  BY <1>1 DEF ParseStart, cmdVars, ghostVars
<1>4. Still
  BY <1>1, <1>2, <1>3 DEF Still, DevJob, DevDone, DevAccess, DevAnswer, Busy, InBuffer
<1> QED
  BY <1>1, <1>4 DEF Still, Device!DeviceNext, DevMode

\* Taken away from a command by a reset or by the end.
LEMMA AbandonStep ==
  ASSUME DInv, Busy, pc \notin {"csw_wait", "exit"}, ~ Busy', pc' # "csw_wait",
         DevMode = "disturbed" \/ DevMode' = "over"
  PROVE  Device!DeviceNext
<1>1. Device!Serving
  BY BusyServing
<1>2. Device!Idle(DevJob', DevDone', DevAccess', DevAnswer')
  BY DEF Device!Idle, DevJob, DevDone, DevAccess, DevAnswer, Device!NoJob, Device!NoDone,
     Device!NoAnswer
<1> QED
  BY <1>1, <1>2 DEF Device!DeviceNext, Device!Abandon, DevMode

\* The answer.
LEMMA AnswerStep ==
  ASSUME DInv, SendStatus
  PROVE  Device!DeviceNext
<1>1. /\ pc = "status" /\ pc' = "csw_wait"
      /\ UNCHANGED <<state, cmd, lun_idx, luns, phase_error, residue, moved, disk>>
  BY DEF SendStatus, replyUnchanged, cmdVars, ghostVars, excVars
<1>2. Answered /\ Busy /\ Busy' /\ pc \notin ReadPcs \cup WritePcs \cup {"vf"}
  BY <1>1 DEF Answered, Busy, Pcs, ReadPcs, WritePcs
<1>3. Device!Serving /\ DevJob = cmd /\ DevDone = moved /\ UNCHANGED <<DevJob, DevDone, DevAccess>>
  <2>1. DevDone = moved + 0 /\ DevDone' = moved + 0 /\ moved \in Nat
    BY <1>1, <1>2 DEF DevDone, InBuffer, DInv, IInv, TypeOK, TypeAmounts
  <2> QED
    BY <1>1, <1>2, <2>1, BusyServing DEF DevJob, DevAccess
<1>4. DevAnswer' = [status |-> Status, residue |-> residue]
  BY <1>1 DEF DevAnswer, Status, Lun
<1>5. Status \in {"PASS", "FAIL", "PHASE_ERROR"}
  BY DEF Status
<1>6. cmd.op \in {"READ", "WRITE"} => residue = cmd.size - moved
  <2>1. Accounted /\ residue \in Nat /\ moved \in Nat
    BY <1>2 DEF DInv, IInv, Loops, InvAccount, TypeOK, TypeAmounts
  <2> QED
    BY <2>1 DEF Accounted
<1>7. ASSUME cmd.op \in {"READ", "VERIFY"}, Status = "PASS"
      PROVE  moved >= Device!WholeSectors(Device!Extent(cmd))
  <2>1. ~ phase_error /\ Lun.sense_data = "NO_SENSE"
    BY <1>7 DEF Status
  <2>2. CASE cmd.op = "READ"
    <3>1. Finished /\ ~ short_packet_received /\ data_size_from_cmnd = Clamped(cmd)
      BY <1>2, <2>2 DEF DInv, IInv, Loops, InvDone, Place, InvShort, InvSize
    <3>2. moved >= Agreed
      BY <2>1, <2>2, <3>1 DEF Finished
    <3> QED
      BY <2>2, <3>1, <3>2 DEF Agreed, Device!WholeSectors, Device!Extent, Clamped, SizeFromCmnd, MinOf
  <2>3. CASE cmd.op = "VERIFY"
    <3>1. moved >= cmd.len * BlkLen /\ moved \in Nat
      BY <1>1, <1>2, <2>1, <2>3 DEF DInv, Place, InvVerified, Verified, IInv, TypeOK, TypeAmounts
    <3>2. cmd.len * BlkLen \in Nat
      BY ClampedType, SizesAssumption, TimesMonotone DEF DInv, IInv, TypeOK, CbwType
    <3> DEFINE e == cmd.len * BlkLen
    <3>3. Device!Extent(cmd) = e /\ e \in Nat /\ moved >= e
      BY <2>3, <3>1, <3>2 DEF Device!Extent
    <3> HIDE DEF e
    <3>4. (e \div BlkLen) * BlkLen \in 0 .. e
      BY <3>3, WholeSectors
    <3> QED
      BY <3>1, <3>3, <3>4 DEF Device!WholeSectors
  <2> QED
    BY <1>7, <2>2, <2>3
<1>8. Device!Answer
  BY <1>3, <1>4, <1>5, <1>6, <1>7 DEF Device!Answer
<1> QED
  BY <1>1, <1>8 DEF Device!DeviceNext, DevMode

\* After the status the gadget is free.
LEMMA ReleaseStep ==
  ASSUME DInv, StatusSent
  PROVE  Device!DeviceNext
<1>1. pc = "csw_wait" /\ pc' = "top" /\ state' = state /\ state # "ABORT_BULK_OUT"
  BY DEF StatusSent, excVars, DInv, IInv, Loops, InvUnit
<1>2. Busy /\ ~ Busy'
  BY <1>1 DEF Busy
<1>3. DevJob # Device!NoJob
  BY <1>2, JobIsCommand
<1>4. DevAnswer # Device!NoAnswer
  <2>1. Status # "NONE"
    BY DEF Status
  <2>2. DevAnswer.status # "NONE"
    BY <1>1, <2>1 DEF DevAnswer
  <2> QED
    BY <2>2 DEF Device!NoAnswer
<1>5. Device!Idle(DevJob', DevDone', DevAccess', DevAnswer')
  BY <1>1, <1>2 DEF Device!Idle, DevJob, DevDone, DevAccess, DevAnswer, Device!NoJob,
     Device!NoDone, Device!NoAnswer
<1> QED
  BY <1>1, <1>3, <1>4, <1>5 DEF Device!DeviceNext, Device!Release, DevMode

\* The data phase moves nothing on the medium; it may be cut short.
LEMMA FinishReplyStep ==
  ASSUME DInv, FinishReply
  PROVE  Device!DeviceNext
<1>1. /\ pc \in ReplyPcs \ {"status", "csw_wait"} /\ pc' \in (ReplyPcs \ {"csw_wait"}) \cup {"top"}
      /\ UNCHANGED <<cmd, moved, disk>>
      /\ pc' = "top" => state' # "NORMAL"
      /\ pc' = "top" /\ state = "NORMAL" => state' = "ABORT_BULK_OUT"
  <2>1. CASE ReplyShort
    <3>1. state' = Raise("ABORT_BULK_OUT") /\ state \in States
      BY <2>1 DEF ReplyShort, DInv, IInv, TypeOK, TypeControl
    <3>2. /\ state = "NORMAL" => state' = "ABORT_BULK_OUT"
          /\ state # "NORMAL" => state' # "NORMAL"
      BY <3>1 DEF Raise, States
    <3> QED
      BY <2>1, <3>2 DEF ReplyShort, replyUnchanged, cmdVars, ghostVars, ReplyPcs
  <2>2. CASE ~ ReplyShort
    BY <2>2 DEF FinishReply, Parsed, ReplyNone, ReplyLast, ReplyPad, PadSend, PadNext, ReplySent,
       ThrowAway, ThrownAway, Continue, replyUnchanged, cmdVars, ghostVars, ReplyPcs, excVars
  <2> QED
    BY <2>1, <2>2
<1>2. state # "ABORT_BULK_OUT" /\ state \in States
  BY <1>1 DEF DInv, IInv, Loops, InvUnit, TypeOK, TypeControl, ReplyPcs
<1>3. Busy /\ pc \notin {"csw_wait", "exit"}
  BY <1>1 DEF Busy, ReplyPcs
<1>4. CASE Busy'
  <2>1. InBuffer = 0 /\ InBuffer' = 0 /\ pc' # "csw_wait"
    BY <1>1 DEF InBuffer, ReplyPcs
  <2> QED
    BY <1>1, <1>3, <1>4, <2>1 DEF DevJob, DevDone, DevAccess, DevAnswer, Device!DeviceNext, DevMode
<1>5. CASE ~ Busy'
  <2>1. pc' = "top" /\ state # "NORMAL"
    BY <1>1, <1>5 DEF Busy, ReplyPcs
  <2>2. DevMode = "disturbed"
    BY <1>2, <1>3, <2>1 DEF DevMode
  <2> QED
    BY <1>3, <1>5, <2>1, <2>2, AbandonStep
<1> QED
  BY <1>4, <1>5

\* Exceptions: the answer that is owed is given, or forgotten at the end.
LEMMA ExceptionStep ==
  ASSUME DInv, HandleException \/ ComboExit
  PROVE  Device!DeviceNext
<1>1. UNCHANGED <<cmd, moved, disk, residue>> /\ pc = "top"
  BY DEF HandleException, HandleAbort, HandleReset, HandleExit, ComboExit, excUnchanged, cmdVars,
     acctVars, ghostVars
<1>2. CASE HandleAbort
  <2>1. state = "ABORT_BULK_OUT" /\ pc' = "status"
    BY <1>2 DEF HandleAbort
  <2> QED
    BY <1>1, <2>1 DEF Busy, InBuffer, DevJob, DevDone, DevAccess, DevAnswer, Device!DeviceNext, DevMode
<1>3. CASE HandleReset \/ HandleExit
  <2>1. ~ Busy /\ ~ Busy' /\ pc' # "csw_wait"
    BY <1>1, <1>3 DEF HandleReset, HandleExit, Busy
  <2> QED
    BY <1>1, <2>1, IdleStill DEF Still, Device!DeviceNext, DevMode
<1>4. CASE ComboExit
  <2>1. pc' = "exit" /\ ~ Busy'
    BY <1>4 DEF ComboExit, Busy
  <2>2. CASE Busy
    BY <1>1, <2>1, <2>2, AbandonStep DEF DevMode
  <2>3. CASE ~ Busy
    BY <1>1, <2>1, <2>3, IdleStill DEF Still, Device!DeviceNext, DevMode
  <2> QED
    BY <2>2, <2>3
<1> QED
  BY <1>2, <1>3, <1>4 DEF HandleException

\* Reception, without the command that is accepted.
LEMMA ReceptionStep ==
  ASSUME DInv, GetCommand \/ CbwDropped \/ CbwInvalid \/ CbwForeign
  PROVE  Device!DeviceNext
<1>1. Place'
  BY CommandPlace DEF ReceiveCommand
<1>2. /\ state \in States /\ bulk_reset_req \in BOOLEAN /\ "EXIT" \in States
      /\ pc \in {"top", "cbw"} /\ state # "ABORT_BULK_OUT" /\ pc' \in {"top", "cbw"}
  BY DEF DInv, IInv, TypeOK, TypeControl, Loops, InvUnit, GetCommand, CbwDropped, CbwInvalid,
     CbwForeign, Received, States
<1>3. state' # "ABORT_BULK_OUT"
  <2>1. CASE GetCommand
    BY <1>2, <2>1, HandleEp0Type DEF GetCommand
  <2>2. CASE CbwDropped \/ CbwInvalid \/ CbwForeign
    BY <1>2, <2>2, RaiseType DEF CbwDropped, CbwInvalid, CbwForeign, Received
  <2> QED
    BY <2>1, <2>2
<1>4. ~ Busy /\ ~ Busy'
  BY <1>2, <1>3 DEF Busy
<1> QED
  BY <1>2, <1>4, IdleStill DEF Still, Device!DeviceNext, DevMode

\* Every step is one of the block device, or none.
LEMMA DeviceStep == DInv /\ [Next]_vars => [Device!DeviceNext]_(Device!deviceVars)
<1> SUFFICES ASSUME DInv, [Next]_vars
             PROVE  Device!DeviceNext \/ UNCHANGED Device!deviceVars
  OBVIOUS
<1>1. CASE pc # "exit" /\ (EpEvent \/ EpTimeout \/ EpDisabled \/ Hardware)
  BY <1>1, EndpointStill, StillStep
<1>2. CASE GetCommand \/ ReceiveCommand
  BY <1>2, AcceptStep, ReceptionStep DEF ReceiveCommand
<1>3. CASE Parse \/ FinishReply \/ SendStatus \/ StatusSent
  BY <1>3, ParseStill, FinishReplyStep, AnswerStep, ReleaseStep
<1>4. CASE Transfer
  BY <1>4, ReadChunkStep, WriteChunkStep, VerifyChunkStep, LoopStill DEF Transfer
<1>5. CASE HandleException \/ ComboExit
  BY <1>5, ExceptionStep
<1>6. CASE WriteSpin \/ Done \/ UNCHANGED vars
  <2>1. UNCHANGED vars
    BY <1>6 DEF WriteSpin, Done
  <2>2. Still
    BY <2>1 DEF vars, excVars, cmdVars, acctVars, ghostVars, Still, DevJob, DevDone, DevAccess,
       DevAnswer, Busy, InBuffer, Status, Lun
  <2> QED
    BY <2>1, <2>2, StillStep
<1> QED
  BY <1>1, <1>2, <1>3, <1>4, <1>5, <1>6 DEF Next, Thread

-----------------------------------------------------------------------------
(* The address in the sense data.                                          *)

\* While _scsi_write still has data to ask for, it stands where the next
\* request does, or at the end of the medium.
InvAsked ==
  /\ pc = "wr" /\ io.req > 0 => io.usb_lba = io.lba \/ (io.lba = Num /\ io.usb_lba > Num)
  /\ pc = "write_wait" /\ io.req > 0 =>
       /\ io.usb_lba = io.lba + EpMax \div BlkLen /\ io.lba < Num
       /\ bulk.out_length = EpMax

\* The address is where the loop stood when it gave up.
SenseAt ==
  LET next == cmd.lba + moved \div BlkLen
  IN \/ Lun.sense_data_info = next
     \/ Lun.sense_data_info > Num /\ next = Num

InvSense ==
  Answered /\ cmd.op \in {"READ", "WRITE"} /\ ~ Malformed(cmd) /\ Lun.sense_data_info # NoInfo =>
    pc \notin LoopPcs /\ SenseAt

SInv == DInv /\ InvAsked /\ InvSense

\* Between commands there is no sense to vouch for.
LEMMA IdleSense ==
  ASSUME pc' \in {"top", "cbw", "exit", "parse"}, state' # "ABORT_BULK_OUT"
  PROVE  InvAsked' /\ InvSense'
BY DEF InvAsked, InvSense, Answered

\* A step outside the loops keeps the sense data.
LEMMA SameSense ==
  ASSUME InvSense, pc \notin LoopPcs, pc' \notin LoopPcs, Answered' => Answered,
         UNCHANGED <<cmd, lun_idx, moved, luns>>
  PROVE  InvAsked' /\ InvSense'
BY DEF InvAsked, InvSense, SenseAt, Malformed, BadDir, Clamped, SizeFromCmnd, Lun, Num, LoopPcs,
       ReadPcs, WritePcs

\* A handler starts without an address.
LEMMA ParseSense ==
  ASSUME SInv, Parse
  PROVE  InvAsked' /\ InvSense'
<1> USE DEF SInv, DInv
<1>1. ParseStart
  BY DEF Parse, ParseRefuse, ParseReply, ParseControl, ParseTransfer
<1>2. UNCHANGED <<cmd, lun_idx, moved>> /\ lun_idx \in Luns /\ lun_idx' = lun_idx
  BY <1>1, ParseStartType
<1>3. Malformed(cmd)' = Malformed(cmd)
  BY <1>2 DEF Malformed, BadDir, Clamped, SizeFromCmnd
<1>4. CASE Malformed(cmd) \/ cmd.op \notin {"READ", "WRITE"}
  <2>1. pc' \in {"parsed", "vf"} /\ (Malformed(cmd) => pc' = "parsed")
    BY <1>4 DEF Parse, ParseRefuse, ParseReply, ParseControl, ParseTransfer, Passes
  <2> QED
    BY <1>2, <1>3, <1>4, <2>1 DEF InvAsked, InvSense
<1>5. CASE ~ Malformed(cmd) /\ cmd.op \in {"READ", "WRITE"} /\ ParseRefuse
  <2> DEFINE sense == Refusal(cmd, Lun)
             info  == Cleared(cmd, Lun).sense_data_info
             ua    == Lun.unit_attention_data /\ sense # "RESET_OCCURRED"
             new   == [WithSense(Lun, sense, info) EXCEPT !.unit_attention_data = ua]
  <2>1. pc' = "parsed" /\ luns' = [luns EXCEPT ![lun_idx] = new]
    BY <1>5 DEF ParseRefuse, Lun
  <2>2. info = NoInfo
    BY <1>2, <1>5 DEF Cleared, WithSense, Lun, IInv, TypeOK, TypeCommand, LunState
  <2> HIDE DEF sense, ua, info
  <2>3. new.sense_data_info = NoInfo
    BY <1>2, <2>2 DEF WithSense, Lun, IInv, TypeOK, TypeCommand, LunState
  <2> HIDE DEF new
  <2>4. Lun'.sense_data_info = NoInfo
    BY <1>2, <2>1, <2>3 DEF Lun, IInv, TypeOK, TypeCommand
  <2>5. pc' = "parsed"
    BY <2>1
  <2> QED
    BY <2>4, <2>5 DEF InvAsked, InvSense
<1>6. CASE ~ Malformed(cmd) /\ cmd.op \in {"READ", "WRITE"} /\ ~ ParseRefuse
  <2>1. ParseTransfer
    BY <1>6 DEF Parse, ParseReply, ParseControl, ToHost
  <2>2. Lun'.sense_data_info = NoInfo
    BY <1>2, <2>1 DEF ParseTransfer, SetSense, WithSense, Lun, IInv, TypeOK, TypeCommand, LunState
  <2>3. pc' \in {"parsed", "rd", "wr"} /\ (pc' = "wr" => io'.usb_lba = io'.lba)
    BY <1>6, <2>1 DEF ParseTransfer, NoIo
  <2> QED
    BY <2>2, <2>3 DEF InvAsked, InvSense
<1> QED
  BY <1>4, <1>5, <1>6

\* The place of a loop, in sectors.
LEMMA PlaceSectors ==
  ASSUME DInv, Transfer
  PROVE  cmd.lba + moved \div BlkLen = io.lba
<1>1. /\ io.lba >= cmd.lba /\ io.lba \in Nat /\ cmd.lba \in Nat /\ BlkLen \in Nat \ {0}
      /\ moved \in Nat /\ io.lba * BlkLen = cmd.lba * BlkLen + moved
  BY LoopFacts DEF Placed
<1> DEFINE n == io.lba - cmd.lba
<1>2. n \in Nat /\ n * BlkLen = io.lba * BlkLen - cmd.lba * BlkLen
  BY <1>1, TimesMinus
<1>3. io.lba * BlkLen \in Nat /\ cmd.lba * BlkLen \in Nat
  BY <1>1, TimesMonotone
<1>4. moved = n * BlkLen
  BY <1>1, <1>2, <1>3
<1>5. (n * BlkLen) \div BlkLen = n
  BY <1>1, <1>2, DivProduct
<1> QED
  BY <1>1, <1>2, <1>4, <1>5

\* A loop that returns with sense data names its place; a WRITE, at times, a
\* place beyond the end.
LEMMA ReturnSense ==
  ASSUME SInv, Transfer, pc' = "parsed", moved' = moved,
         NEW s \in Sense, NEW info \in Int, SetSense(s, info),
         info = io.lba \/ (info > Num /\ io.lba = Num)
  PROVE  InvAsked' /\ InvSense'
<1>1. lun_idx' = lun_idx /\ lun_idx \in Luns /\ cmd' = cmd
  BY LoopFacts DEF SInv
<1>2. Lun'.sense_data_info = info
  BY <1>1 DEF SetSense, WithSense, Lun, SInv, DInv, IInv, TypeOK, TypeCommand, LunState
<1>3. cmd.lba + moved \div BlkLen = io.lba
  BY PlaceSectors DEF SInv
<1>4. Num' = Num
  BY <1>1 DEF Num
<1>5. SenseAt'
  BY <1>1, <1>2, <1>3, <1>4 DEF SenseAt
<1> QED
  BY <1>5 DEF InvAsked, InvSense, LoopPcs, ReadPcs, WritePcs

\* A step of a loop that sets no sense data keeps it clear.
LEMMA QuietSense ==
  ASSUME SInv, Transfer, UNCHANGED luns, cmd.op \in {"READ", "WRITE"}
  PROVE  InvSense'
<1>1. lun_idx' = lun_idx /\ cmd' = cmd /\ Answered /\ pc \in LoopPcs
  BY LoopFacts DEF SInv
<1>2. Malformed(cmd)' = Malformed(cmd)
  BY <1>1 DEF Malformed, BadDir, Clamped, SizeFromCmnd
<1>3. Lun' = Lun
  BY <1>1 DEF Lun
<1> QED
  BY <1>1, <1>2, <1>3 DEF SInv, InvSense

\* The steps of _scsi_read and _scsi_verify.
LEMMA ReadVerifySense ==
  ASSUME SInv, ReadChunk \/ ReadPastEnd \/ ReadAccount \/ VerifyChunk \/ VerifyPastEnd
  PROVE  InvAsked' /\ InvSense'
<1>1. Transfer
  BY DEF Transfer
<1>2. InvAsked'
  <2>1. pc' \notin WritePcs
    BY DEF ReadChunk, ReadPastEnd, ReadAccount, VerifyChunk, VerifyPastEnd, VerifyReturn, Return,
           WritePcs
  <2> QED
    BY <2>1 DEF InvAsked, WritePcs
<1>3. CASE VerifyChunk \/ VerifyPastEnd
  <2>1. cmd' = cmd /\ cmd.op = "VERIFY"
    BY <1>1, <1>3, LoopFacts DEF SInv, VerifyChunk, VerifyPastEnd
  <2> QED
    BY <1>2, <2>1 DEF InvSense
<1>4. CASE UNCHANGED luns /\ (ReadChunk \/ ReadAccount)
  <2>1. cmd.op = "READ"
    BY <1>4 DEF ReadChunk, ReadAccount, ReadPcs, SInv, DInv, IInv, Loops, InvRead
  <2> QED
    BY <1>1, <1>2, <1>4, <2>1, QuietSense
<1>5. io.lba \in Int
  BY <1>1, LoopFacts DEF SInv
<1>6. CASE ReadPastEnd
  <2>1. SetSense("LOGICAL_BLOCK_ADDRESS_OUT_OF_RANGE", io.lba) /\ pc' = "parsed" /\ moved' = moved
    BY <1>6 DEF ReadPastEnd, Return, ghostVars
  <2> QED
    BY <1>1, <1>5, <2>1, ReturnSense, LoopSense
<1>7. CASE ReadAccount /\ io.n = 0
  <2>1. SetSense("UNRECOVERED_READ_ERROR", io.lba) /\ pc' = "parsed" /\ moved' = moved + 0 * BlkLen
    BY <1>7 DEF ReadAccount, Account, Return
  <2>2. moved' = moved
    BY <1>1, <2>1, LoopFacts DEF SInv
  <2> QED
    BY <1>1, <1>5, <2>1, <2>2, ReturnSense, LoopSense
<1> QED
  BY <1>3, <1>4, <1>6, <1>7 DEF ReadChunk, ReadAccount

\* The steps of _scsi_write that return with sense data.
LEMMA WriteFailedSense ==
  ASSUME SInv, WritePastEnd \/ WriteCommFailure
  PROVE  InvAsked' /\ InvSense'
<1>1. Transfer
  BY DEF Transfer
<1>2. io.lba \in Int /\ io.usb_lba \in Int
  BY DEF SInv, DInv, IInv, TypeOK, TypeAmounts, IoType
<1>3. pc' = "parsed" /\ moved' = moved
  BY DEF WritePastEnd, WriteCommFailure, Return, ghostVars
<1>4. CASE WriteCommFailure
  BY <1>1, <1>2, <1>3, <1>4, ReturnSense, LoopSense DEF WriteCommFailure
<1>5. CASE WritePastEnd
  <2>1. io.lba <= Num /\ Num \in Nat
    BY <1>5, LoopStart DEF SInv, DInv, WritePastEnd, LoopPcs, WritePcs
  <2>2. io.req \in Nat /\ io.req > 0 /\ pc = "wr" /\ io.usb_lba >= Num
    BY <1>5 DEF WritePastEnd, SInv, DInv, IInv, TypeOK, TypeAmounts, IoType
  <2>3. io.usb_lba = io.lba \/ (io.usb_lba > Num /\ io.lba = Num)
    BY <2>2 DEF SInv, InvAsked
  <2> QED
    BY <1>1, <1>2, <1>3, <1>5, <2>3, ReturnSense, LoopSense DEF WritePastEnd
<1> QED
  BY <1>4, <1>5

\* A request for data is for the sectors that follow; it is a full one when
\* more is to be asked for.
LEMMA WriteRequestAsked ==
  ASSUME SInv, WriteRequest
  PROVE  InvAsked'
<1> DEFINE len == MinOf(io.req, EpMax)
<1>1. /\ pc = "wr" /\ pc' = "write_wait" /\ io.req \in Nat \ {0} /\ io.usb_lba < Num
      /\ io' = [io EXCEPT !.usb_lba = @ + len \div BlkLen, !.req = @ - len]
      /\ bulk' = [bulk EXCEPT !.out_length = len]
      /\ lun_idx' = lun_idx
  BY DEF WriteRequest, SInv, DInv, IInv, TypeOK, TypeAmounts, IoType, scsiUnchanged, cmdVars
<1>2. Num \in Nat /\ io.lba \in Nat /\ io.usb_lba \in Nat /\ EpMax \in Nat
  BY <1>1, LoopStart, SizesAssumption DEF WriteRequest, SInv, DInv, LoopPcs, WritePcs
<1>3. io.usb_lba = io.lba
  BY <1>1, <1>2 DEF SInv, InvAsked
<1>4. io'.req = io.req - len /\ io'.lba = io.lba /\ io'.usb_lba = io.usb_lba + len \div BlkLen
      /\ bulk'.out_length = len
  BY <1>1 DEF SInv, DInv, IInv, TypeOK, TypeAmounts, IoType
<1>5. io'.req > 0 => len = EpMax
  BY <1>1, <1>2, <1>4 DEF MinOf
<1> HIDE DEF len
<1> QED
  BY <1>1, <1>2, <1>3, <1>4, <1>5 DEF InvAsked, Num

\* A multiple is the product of its quotient.
LEMMA WholeProduct ==
  ASSUME NEW a \in Nat, NEW c \in Nat \ {0}, a % c = 0
  PROVE  a \div c \in Nat /\ a = (a \div c) * c
BY SMT

\* What was received is written as far as the medium goes: the loop stands
\* where its request ended, or at the end of the medium.
LEMMA WrittenAll ==
  ASSUME SInv, pc = "write_wait", scsiUnchanged, io.req > 0, ~ EndedShort
  PROVE  \/ io.lba + WriteAmount = io.usb_lba
         \/ io.lba + WriteAmount = Num /\ io.usb_lba > Num
<1> DEFINE room == Num - io.lba
           max  == EpMax \div BlkLen
<1>1. /\ Num \in Nat /\ io.lba \in Nat /\ io.lba < Num /\ room \in Nat \ {0}
      /\ io.usb_lba = io.lba + max /\ bulk.out_length = EpMax
  BY LoopStart DEF SInv, DInv, LoopPcs, WritePcs, InvAsked
<1>2. EpMax \in Nat /\ BlkLen \in Nat \ {0} /\ max \in Nat /\ EpMax = max * BlkLen
  BY SizesAssumption, WholeProduct
<1>3. ep.out_bytes \in Nat /\ ep.out_bytes >= EpMax
  BY <1>1, <1>2 DEF EndedShort, SInv, DInv, IInv, TypeOK, TypeEndpoint, EpType
<1>4. ep.out_bytes \div BlkLen >= max
  BY <1>2, <1>3, DivMonotone
<1>5. CASE room < ep.out_bytes \div BlkLen
  <2>1. WriteAmount = MinOf(room * BlkLen, EpMax) \div BlkLen
    BY <1>1, <1>5 DEF WriteAmount
  <2>2. CASE room <= max
    <3>1. room * BlkLen <= EpMax /\ room * BlkLen \in Nat
      BY <1>1, <1>2, <2>2, TimesMonotone
    <3>2. WriteAmount = room
      BY <1>1, <1>2, <2>1, <3>1, DivProduct DEF MinOf
    <3> QED
      BY <1>1, <1>2, <2>2, <3>2
  <2>3. CASE room > max
    <3>1. EpMax <= room * BlkLen /\ room * BlkLen \in Nat
      BY <1>1, <1>2, <2>3, TimesMonotone
    <3>2. MinOf(room * BlkLen, EpMax) = EpMax
      BY <1>2, <3>1 DEF MinOf
    <3> QED
      BY <1>1, <2>1, <3>2
  <2> QED
    BY <1>1, <1>2, <2>2, <2>3
<1>6. CASE ~ (room < ep.out_bytes \div BlkLen)
  <2>1. WriteAmount = MinOf(ep.out_bytes, EpMax) \div BlkLen
    BY <1>1, <1>6 DEF WriteAmount
  <2>2. MinOf(ep.out_bytes, EpMax) = EpMax
    BY <1>2, <1>3 DEF MinOf
  <2> QED
    BY <1>1, <2>1, <2>2
<1> QED
  BY <1>5, <1>6

\* The loop goes on where it has written to.
LEMMA WriteNextSense ==
  ASSUME SInv, WriteNothing \/ WriteChunk, UNCHANGED luns,
         NEW next, WriteNext(next), next.lba = io.lba + WriteAmount,
         next.usb_lba = io.usb_lba, next.req = io.req
  PROVE  InvAsked' /\ InvSense'
<1>1. Transfer /\ pc = "write_wait" /\ scsiUnchanged
  BY DEF Transfer, WriteNothing, WriteChunk
<1>2. lun_idx' = lun_idx /\ cmd.op = "WRITE"
  BY <1>1, LoopFacts DEF SInv, WritePcs
<1>3. CASE pc' = "wr"
  <2>1. io' = next /\ ~ EndedShort
    BY <1>3 DEF WriteNext
  <2>2. InvAsked'
    BY <1>1, <1>2, <1>3, <2>1, WrittenAll DEF InvAsked, Num
  <2> QED
    BY <1>1, <1>2, <2>2, QuietSense
<1>4. CASE pc' = "parsed"
  BY <1>1, <1>2, <1>4, QuietSense DEF InvAsked
<1> QED
  BY <1>3, <1>4 DEF WriteNext

\* The steps of _scsi_write that wrote what came, or nothing.
LEMMA WrittenSense ==
  ASSUME SInv, WriteNothing \/ WriteChunk
  PROVE  InvAsked' /\ InvSense'
<1>1. Transfer /\ pc = "write_wait" /\ scsiUnchanged
  BY DEF Transfer, WriteNothing, WriteChunk
<1>2. io.lba \in Nat /\ WriteAmount \in Nat /\ io \in IoType
  BY <1>1, WriteAmountType DEF SInv, DInv, IInv, TypeOK, TypeAmounts, IoType
<1>3. CASE WriteNothing
  <2>1. io.lba = io.lba + WriteAmount
    BY <1>2, <1>3 DEF WriteNothing
  <2> QED
    BY <1>3, <2>1, WriteNextSense DEF WriteNothing
<1>4. CASE WriteChunk
  <2> DEFINE next == [io EXCEPT !.lba = @ + WriteAmount, !.left = @ - WriteAmount * BlkLen]
  <2>1. CASE SetSense("WRITE_ERROR", io.lba) /\ Return /\ moved' = moved
    BY <1>1, <1>2, <2>1, ReturnSense, LoopSense DEF Return
  <2>2. CASE UNCHANGED luns /\ WriteNext(next)
    <3>1. next.lba = io.lba + WriteAmount /\ next.usb_lba = io.usb_lba /\ next.req = io.req
      BY <1>2 DEF IoType
    <3> HIDE DEF next
    <3> QED
      BY <1>4, <2>2, <3>1, WriteNextSense
  <2> QED
    BY <1>4, <2>1, <2>2 DEF WriteChunk
<1> QED
  BY <1>3, <1>4

\* And the rest of the loops.
LEMMA TransferSense ==
  ASSUME SInv, Transfer
  PROVE  InvAsked' /\ InvSense'
<1>1. CASE WriteRequest \/ WriteEnd
  <2>1. UNCHANGED luns /\ cmd.op = "WRITE"
    BY <1>1, LoopFacts DEF SInv, WriteRequest, WriteEnd, WritePcs
  <2>2. InvAsked'
    BY <1>1, WriteRequestAsked DEF WriteEnd, Return, InvAsked
  <2> QED
    BY <2>1, <2>2, QuietSense
<1> QED
  BY <1>1, ReadVerifySense, WriteFailedSense, WrittenSense DEF Transfer

\* A step of the endpoint, of the controller or of the host, or none.
LEMMA EndpointSense ==
  ASSUME SInv, UNCHANGED <<pc, state, cmdVars, luns, bulk, io, ghostVars>>
  PROVE  InvAsked' /\ InvSense'
BY DEF SInv, InvAsked, InvSense, SenseAt, Answered, Malformed, BadDir, Clamped, SizeFromCmnd, Lun,
       Num, cmdVars, ghostVars

\* Reception of a command, and exceptions.
LEMMA IdleStepSense ==
  ASSUME SInv, GetCommand \/ ReceiveCommand \/ HandleException \/ ComboExit
  PROVE  InvAsked' /\ InvSense'
<1> USE DEF SInv
<1>1. CASE HandleAbort \/ ComboExit
  BY <1>1, SameSense DEF HandleAbort, ComboExit, excUnchanged, cmdVars, ghostVars, Answered,
     LoopPcs, ReadPcs, WritePcs
<1>2. CASE HandleReset \/ HandleExit
  BY <1>2, IdleSense DEF HandleReset, HandleExit
<1>3. CASE GetCommand \/ ReceiveCommand
  <2>1. state \in States /\ state # "ABORT_BULK_OUT" /\ bulk_reset_req \in BOOLEAN
        /\ "EXIT" \in States
    BY <1>3 DEF DInv, IInv, TypeOK, TypeControl, Loops, InvUnit, GetCommand, ReceiveCommand,
       CbwDropped, CbwInvalid, CbwForeign, CbwAccept, Received, States
  <2>2. state' # "ABORT_BULK_OUT" /\ pc' \in {"top", "cbw", "exit", "parse"}
    <3>1. Raise("EXIT") # "ABORT_BULK_OUT"
      BY <2>1, RaiseType
    <3>2. CASE GetCommand
      BY <2>1, <3>2, HandleEp0Type DEF GetCommand
    <3>3. CASE ReceiveCommand
      BY <2>1, <3>1, <3>3 DEF ReceiveCommand, CbwDropped, CbwInvalid, CbwForeign, CbwAccept,
         Received, Continue
    <3> QED
      BY <1>3, <3>2, <3>3
  <2> QED
    BY <2>2, IdleSense
<1> QED
  BY <1>1, <1>2, <1>3 DEF HandleException

\* Every step keeps the invariant.
LEMMA SInvStep == SInv /\ [Next]_vars => SInv'
<1> SUFFICES ASSUME SInv, [Next]_vars PROVE InvAsked' /\ InvSense'
  BY DInvStep DEF SInv
<1>1. CASE EpEvent \/ EpTimeout \/ EpDisabled \/ Hardware
  BY <1>1, EndpointPlace, EndpointSense DEF SInv
<1>2. CASE FinishReply \/ SendStatus \/ StatusSent
  BY <1>2, ReplyFrame, SameSense DEF SInv
<1>3. CASE WriteSpin \/ Done \/ UNCHANGED vars
  BY <1>3, EndpointSense DEF WriteSpin, Done, vars, excVars
<1> QED
  BY <1>1, <1>2, <1>3, ParseSense, TransferSense, IdleStepSense DEF Next, Thread

-----------------------------------------------------------------------------
(* The theorems.                                                           *)

\* The inductive invariant of the refinement: while _scsi_read, _scsi_write or
\* _scsi_verify runs, its position, what is left of the command and what was
\* moved for it add up, so that the next access starts where the last one ended.
THEOREM PlaceKept == Spec => []DInv
BY DInvInit, DInvStep, PTL DEF Spec

\* The sense data never misleads the host about where a transfer stopped: _scsi_write
\* keeps two positions, that of its requests and that of its writes, and the
\* invariant ties them together.
THEOREM SenseExact == Spec => []SenseInfoExact
<1>1. Init => SInv
  BY DInvInit DEF SInv, InvAsked, InvSense, Answered, Init
<1>2. SInv => SenseInfoExact
  BY DEF SInv, InvSense, SenseAt, SenseInfoExact, Answered, Pcs, InWaits
<1> QED
  BY <1>1, <1>2, SInvStep, PTL DEF Spec

\* The gadget is a block device: whatever the host, the cable and the cards do,
\* a command's accesses follow each other without gap or overlap from its first
\* sector on and never leave it, and it is given one answer, which tells how
\* far they came; only a reset or the end takes a command away unanswered.
THEOREM ImplementsBlockDevice == Spec => IsBlockDevice
<1>1. Init => Device!DeviceInit
  BY DEF Init, Device!DeviceInit, Device!Idle, DevMode, DevJob, DevDone, DevAccess, DevAnswer,
     Busy, Device!NoJob, Device!NoDone, Device!NoAnswer
<1>2. Spec => []DInv
  BY PlaceKept
<1>3. Spec => Device!DeviceSpec
  BY <1>1, <1>2, DeviceStep, PTL DEF Spec, Device!DeviceSpec
<1> QED
  BY <1>3 DEF IsBlockDevice

=============================================================================
