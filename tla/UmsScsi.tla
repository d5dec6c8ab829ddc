------------------------------ MODULE UmsScsi ------------------------------
(***************************************************************************)
(* The SCSI side of the gadget: _parse_scsi_cmd with the check every       *)
(* command goes through, the handlers, and the loops of _scsi_read,        *)
(* _scsi_write and _scsi_verify with the storage accesses they make.       *)
(***************************************************************************)
EXTENDS XusbBulk

Lun == luns[lun_idx]
Num == NumSectors[lun_idx]

-----------------------------------------------------------------------------
(* What the switch of _parse_scsi_cmd says of each command.                *)

ToHost      == {"READ", "INQUIRY", "MODE_SENSE", "LOG_SENSE", "READ_CAPACITY",
                "READ_FORMAT_CAPACITIES", "REQUEST_SENSE"}
FromHost    == {"WRITE", "MODE_SELECT"}
\* Seeded bug: the needs_medium flag of READ is missing.
BugNeedsMedium == {"WRITE", "VERIFY", "READ_CAPACITY", "READ_FORMAT_CAPACITIES",
                   "TEST_UNIT_READY", "SYNCHRONIZE_CACHE"}
NeedsMedium == {"READ", "WRITE", "VERIFY", "READ_CAPACITY", "READ_FORMAT_CAPACITIES",
                "TEST_UNIT_READY", "SYNCHRONIZE_CACHE"}

\* data_size_from_cmnd; sector counts are shifted in a u32.
SizeFromCmnd(c) ==
  IF c.op \in {"READ", "WRITE"} THEN (c.len * BlkLen) % U32
  ELSE IF c.op = "READ_CAPACITY" THEN ReplyLen
  ELSE IF c.op \in ToHost \cup FromHost THEN c.len
  ELSE 0

Clamped(c) == MinOf(SizeFromCmnd(c), c.size)

\* Direction or length of the command disagree with the wrapper.
BadDir(c) == /\ Clamped(c) > 0
             /\ c.op \notin (IF c.dir = "in" THEN ToHost ELSE FromHost)
Malformed(c) == BadDir(c) \/ ~ c.fits

\* Seeded bug: READ goes ahead with a unit attention pending.
BugCheckSense(c, l) ==
  IF l.unit_attention_data /\ c.op \notin {"INQUIRY", "REQUEST_SENSE", "READ"} THEN "RESET_OCCURRED"
  ELSE IF ~ c.mask THEN "INVALID_FIELD_IN_CDB"
  ELSE IF l.unmounted /\ c.op \in NeedsMedium THEN "MEDIUM_NOT_PRESENT"
  ELSE "NO_SENSE"

\* The sense with which _check_scsi_cmd refuses a command, "NO_SENSE" if it
\* lets the command pass.
CheckSense(c, l) ==
  IF l.unit_attention_data /\ c.op \notin {"INQUIRY", "REQUEST_SENSE"} THEN "RESET_OCCURRED"
  ELSE IF ~ c.mask THEN "INVALID_FIELD_IN_CDB"
  ELSE IF l.unmounted /\ c.op \in NeedsMedium THEN "MEDIUM_NOT_PRESENT"
  ELSE "NO_SENSE"

PastEnd(c) == c.lba >= Num
NoFieldCheck == {"INQUIRY", "REQUEST_SENSE", "READ_FORMAT_CAPACITIES",
                 "TEST_UNIT_READY", "SYNCHRONIZE_CACHE"}

\* The same for the early returns of the handlers, in their order.
HandlerSense(c, l) ==
  IF c.op \in {"MODE_SELECT", "OTHER"} THEN "INVALID_COMMAND"
  ELSE IF c.op = "WRITE" /\ Ro[lun_idx] THEN "WRITE_PROTECTED"
  ELSE IF c.op = "VERIFY" /\ PastEnd(c) THEN "LOGICAL_BLOCK_ADDRESS_OUT_OF_RANGE"
  ELSE IF c.op \notin NoFieldCheck /\ ~ c.field THEN "INVALID_FIELD_IN_CDB"
  ELSE IF c.op \in {"READ", "WRITE"} /\ PastEnd(c) THEN "LOGICAL_BLOCK_ADDRESS_OUT_OF_RANGE"
  ELSE IF c.op = "START" /\ l.unmounted THEN "MEDIUM_NOT_PRESENT"
  ELSE IF c.op \in {"STOP", "EJECT"} /\ l.prevent_medium_removal THEN "MEDIUM_REMOVAL_PREVENTED"
  ELSE "NO_SENSE"

Refusal(c, l) == IF CheckSense(c, l) # "NO_SENSE" THEN CheckSense(c, l) ELSE HandlerSense(c, l)

-----------------------------------------------------------------------------

Raise(new) ==
  LET prio == [s \in States |-> CASE s = "NORMAL" -> 0 [] s = "ABORT_BULK_OUT" -> 1
                                  [] s = "PROTOCOL_RESET" -> 2 [] s = "EXIT" -> 3
                                  [] s = "TERMINATED" -> 4]
  IN IF prio[state] <= prio[new] THEN new ELSE state

\* _handle_ep0_ctrl: a reset noted by an endpoint operation is raised here.
HandleEp0 ==
  /\ state' = IF bulk_reset_req THEN Raise("PROTOCOL_RESET") ELSE state
  /\ bulk_reset_req' = FALSE

WithSense(l, sense, info) ==
  [l EXCEPT !.sense_data = sense, !.sense_data_info = info]

\* Seeded bug: the address reported is the one the USB side has reached.
BugSetSense(sense, info) ==
  luns' = [luns EXCEPT ![lun_idx] =
             WithSense(@, sense, IF info = NoInfo THEN NoInfo ELSE io.usb_lba)]

SetSense(sense, info) == luns' = [luns EXCEPT ![lun_idx] = WithSense(@, sense, info)]

\* The sense a command other than REQUEST SENSE starts from.
Cleared(c, l) == IF c.op = "REQUEST_SENSE" THEN l ELSE WithSense(l, "NO_SENSE", NoInfo)

\* What every command sets before its handler runs.
ParseStart ==
  /\ pc = "parse"
  /\ HandleEp0
  /\ data_size_from_cmnd' = Clamped(cmd)
  /\ usb_amount_left' = cmd.size
  /\ phase_error' = (cmd.size < SizeFromCmnd(cmd) \/ Malformed(cmd))
  /\ short_packet_received' = FALSE
  /\ UNCHANGED <<cmdVars, cbwVars, storageVars, exit_msg, host, ghostVars, faults>>

\* A reply of n units is left for _finish_reply.
Reply(n) ==
  IF DataDir = "in"
  THEN /\ bulk' = [bulk EXCEPT !.in_length = MinOf(n, Clamped(cmd))]
       /\ residue' = cmd.size - MinOf(n, Clamped(cmd))
  ELSE residue' = cmd.size /\ UNCHANGED bulk

\* Commands whose handler may have cleared the IN buffer before it refuses a page.
ClearsFirst ==
  /\ cmd.op \in {"MODE_SENSE", "LOG_SENSE"} /\ ~ Malformed(cmd)
  /\ CheckSense(cmd, Lun) = "NO_SENSE"

\* Malformed, or refused with sense data.
ParseRefuse ==
  /\ ParseStart
  /\ \/ Malformed(cmd) /\ UNCHANGED luns
     \/ LET sense == Refusal(cmd, Lun)
            info  == Cleared(cmd, Lun).sense_data_info
            ua    == Lun.unit_attention_data /\ sense # "RESET_OCCURRED"
        IN /\ ~ Malformed(cmd) /\ sense # "NO_SENSE"
           /\ luns' = [luns EXCEPT ![lun_idx] =
                         [WithSense(@, sense, info) EXCEPT !.unit_attention_data = ua]]
  /\ Reply(0)
  /\ pc' = "parsed"
  /\ ep' \in {ep} \cup (IF ClearsFirst THEN {Overwritten(ep, bulk.in_buf)} ELSE {})
  /\ UNCHANGED <<all_luns_unmounted, io>>

Passes == pc = "parse" /\ ~ Malformed(cmd) /\ Refusal(cmd, Lun) = "NO_SENSE"

\* Commands answered from the state of the unit, written to the IN buffer.
ParseReply ==
  /\ ParseStart /\ Passes
  /\ cmd.op \in ToHost \ {"READ"}
  /\ luns' = [luns EXCEPT ![lun_idx] =
                IF cmd.op = "REQUEST_SENSE" THEN WithSense(@, "NO_SENSE", NoInfo)
                ELSE Cleared(cmd, @)]
  /\ Reply(ReplyLen)
  /\ ep' = Overwritten(ep, bulk.in_buf)
  /\ pc' = "parsed"
  /\ UNCHANGED <<all_luns_unmounted, io>>

\* Seeded bug: only the unit being ejected is looked at.
BugAllEjected(ls) == ls[lun_idx].unmounted

AllEjected(ls) == \A l \in Luns : ls[l].unmounted

\* A unit after a command without data.
Controlled(l) ==
  [Cleared(cmd, l) EXCEPT
     !.unmounted = @ \/ cmd.op = "EJECT",
     !.prevent_medium_removal = cmd.op = "PREVENT" \/ (@ /\ cmd.op # "ALLOW")]

\* Commands without data: the ejection of a unit and the lock against it.
ParseControl ==
  /\ ParseStart /\ Passes
  /\ cmd.op \in {"TEST_UNIT_READY", "SYNCHRONIZE_CACHE", "START", "STOP", "EJECT",
                 "PREVENT", "ALLOW"}
  /\ luns' = [luns EXCEPT ![lun_idx] = Controlled(@)]
  /\ all_luns_unmounted' = IF cmd.op = "EJECT" THEN AllEjected(luns')
                           ELSE all_luns_unmounted
  /\ Reply(0)
  /\ pc' = "parsed"
  /\ UNCHANGED <<io, ep>>

\* READ, WRITE and VERIFY up to their loops; nothing is set up for a reply
\* when there is nothing to transfer.
ParseTransfer ==
  /\ ParseStart /\ Passes
  /\ cmd.op \in {"READ", "WRITE", "VERIFY"}
  /\ SetSense("NO_SENSE", NoInfo)
  /\ residue' = cmd.size
  /\ LET size == Clamped(cmd)
         left == CASE cmd.op = "READ"   -> size \div BlkLen
                   [] cmd.op = "WRITE"  -> size
                   [] cmd.op = "VERIFY" -> cmd.len
     IN /\ io' = IF left = 0 THEN NoIo
                 ELSE [NoIo EXCEPT !.lba = cmd.lba, !.usb_lba = cmd.lba, !.left = left,
                                   !.req = size]
        /\ pc' = IF left = 0 THEN "parsed"
                 ELSE CASE cmd.op = "READ" -> "rd" [] cmd.op = "WRITE" -> "wr"
                        [] cmd.op = "VERIFY" -> "vf"
  /\ UNCHANGED <<all_luns_unmounted, bulk, ep>>

Parse == ParseRefuse \/ ParseReply \/ ParseControl \/ ParseTransfer

-----------------------------------------------------------------------------
(* Storage accesses: sdmmc_storage_read and sdmmc_storage_write.           *)

\* An access succeeds at once, fails for good, or succeeds after the card was
\* initialised anew.  An initialisation, in vain or not, reads the card's
\* registers into the IN buffer (SDMMC_UPPER_BUFFER) and forgets the selected
\* eMMC partition.  After a failure the storage is not initialized and refuses
\* further accesses, unless sdmmc_storage_end could not reach the card either.
Dead == LunType[lun_idx] \in dead
Outcomes == IF Dead THEN {"refused"} ELSE {"ok", "failed", "reinit"}

StorageAccess(op, n, how) ==
  /\ how = "failed" => MayFail("sdmmc")
  /\ how = "reinit" => MayFail("reinit")
  /\ IF how \in {"ok", "refused"} THEN NoFault ELSE Failed
  /\ emmc_part' = IF how \in {"failed", "reinit"} /\ LunType[lun_idx] = "EMMC" THEN 0
                  ELSE emmc_part
  /\ dead' \in {dead} \cup (IF how = "failed" THEN {dead \cup {LunType[lun_idx]}} ELSE {})
  /\ IF how = "refused" THEN UNCHANGED disk
     ELSE disk' = [op |-> op, lun |-> lun_idx, lba |-> io.lba, n |-> n, part |-> emmc_part']

Lost == {"failed", "refused"}

Scratched(e, how) == IF how \in {"ok", "refused"} THEN e ELSE Overwritten(e, "in")

MaxIo == IF data_size_from_cmnd \div BlkLen >= IoBigFrom THEN IoBig ELSE IoSmall

\* Seeded bug: the residue shrinks by what was asked for.
BugAccount(len) ==
  /\ residue' = residue - (IF cmd.op = "WRITE" THEN bulk.out_length ELSE MaxIo * BlkLen)
  /\ moved' = moved + len

\* len units were read or written.
Account(len) == residue' = residue - len /\ moved' = moved + len

\* Out of the loop: its locals are gone.
Return == pc' = "parsed" /\ io' = NoIo

scsiUnchanged == UNCHANGED <<excVars, cmdVars, ejectVars, data_size_from_cmnd,
                             phase_error, cbwVars, host>>

-----------------------------------------------------------------------------
(* _scsi_read.                                                             *)

\* Seeded bug: a read is not cut at the end of the medium.
BugReadAmount == MinOf(io.left, MaxIo)

ReadAmount == MinOf(MinOf(io.left, MaxIo), Num - io.lba)

\* Read the next sectors into one buffer while the other is being sent, then
\* wait for that transfer.
ReadChunk ==
  /\ pc = "rd" /\ ReadAmount > 0
  /\ \E how \in Outcomes :
       /\ StorageAccess("read", ReadAmount, how)
       /\ io' = [io EXCEPT !.n = IF how \in Lost THEN 0 ELSE ReadAmount]
       /\ ep' = LET e == Scratched(Overwritten(ep, io.cur), how)
                IN IF io.first THEN e ELSE Finish(e)
  /\ pc' = IF io.first THEN "read_done" ELSE "read_wait"
  /\ scsiUnchanged
  /\ UNCHANGED <<luns, residue, usb_amount_left, short_packet_received, bulk, moved>>

\* The sectors end before the request does: out of the loop, whatever is in
\* flight.
ReadPastEnd ==
  /\ pc = "rd" /\ ReadAmount = 0
  /\ SetSense("LOGICAL_BLOCK_ADDRESS_OUT_OF_RANGE", io.lba)
  /\ bulk' = [bulk EXCEPT !.in_length = 0]
  /\ Return
  /\ scsiUnchanged
  /\ UNCHANGED <<residue, usb_amount_left, short_packet_received, ep, storageVars,
                 ghostVars, faults>>

\* Account for the sectors read, and send them; the last ones are left for
\* _finish_reply.
ReadAccount ==
  /\ pc = "read_done" \/ (pc = "read_wait" /\ WaitEnded)
  /\ LET len  == io.n * BlkLen
         more == io.n > 0 /\ io.left > io.n
     IN /\ Account(len)
        /\ bulk' = [bulk EXCEPT !.in_length = len, !.in_buf = io.cur]
        /\ IF io.n = 0 THEN SetSense("UNRECOVERED_READ_ERROR", io.lba) ELSE UNCHANGED luns
        /\ IF more
           THEN /\ ep' = InStart(ep, io.cur, len)
                /\ io' = [io EXCEPT !.lba = @ + io.n, !.left = @ - io.n, !.first = FALSE,
                                    !.cur = IF @ = "in" THEN "out" ELSE "in"]
                /\ pc' = "rd"
           ELSE Return /\ UNCHANGED ep
  /\ scsiUnchanged
  /\ UNCHANGED <<usb_amount_left, short_packet_received, storageVars, disk, faults>>

-----------------------------------------------------------------------------
(* _scsi_write.                                                            *)

\* Ask the host for the next data.
WriteRequest ==
  /\ pc = "wr" /\ io.left > 0 /\ io.req > 0 /\ io.usb_lba < Num
  /\ LET len == MinOf(io.req, EpMax)
     IN /\ io' = [io EXCEPT !.usb_lba = @ + len \div BlkLen, !.req = @ - len]
        /\ usb_amount_left' = usb_amount_left - len
        /\ bulk' = [bulk EXCEPT !.out_length = len]
        /\ ep' = OutRead(ep, len)
  /\ pc' = "write_wait"
  /\ scsiUnchanged
  /\ UNCHANGED <<luns, residue, short_packet_received, storageVars, ghostVars, faults>>

WritePastEnd ==
  /\ pc = "wr" /\ io.left > 0 /\ io.req > 0 /\ io.usb_lba >= Num
  /\ SetSense("LOGICAL_BLOCK_ADDRESS_OUT_OF_RANGE", io.usb_lba)
  /\ Return
  /\ scsiUnchanged
  /\ UNCHANGED <<residue, usb_amount_left, short_packet_received, bulk, ep,
                 storageVars, ghostVars, faults>>

WriteEnd ==
  /\ pc = "wr" /\ io.left = 0
  /\ Return
  /\ scsiUnchanged
  /\ UNCHANGED <<luns, residue, usb_amount_left, short_packet_received, bulk, ep,
                 storageVars, ghostVars, faults>>

\* Everything was asked for, not everything was written and the buffer is
\* empty: no step of the loop changes anything any more.
WriteSpin ==
  /\ pc = "wr" /\ io.left > 0 /\ io.req = 0
  /\ UNCHANGED vars

WriteCommFailure ==
  /\ pc = "write_wait" /\ WaitEnded /\ ep.res # "ok"
  /\ SetSense("COMMUNICATION_FAILURE", io.lba)
  /\ Return
  /\ scsiUnchanged
  /\ UNCHANGED <<residue, usb_amount_left, short_packet_received, bulk, ep,
                 storageVars, ghostVars, faults>>

\* Seeded bug: the last sector received is forgotten.
BugWriteAmount == (MinOf(ep.out_bytes, bulk.out_length) - 1) \div BlkLen

\* Whole sectors received, inside the medium and inside the request.
WriteAmount ==
  LET got == IF Num - io.lba < ep.out_bytes \div BlkLen THEN (Num - io.lba) * BlkLen
             ELSE ep.out_bytes
  IN MinOf(got, bulk.out_length) \div BlkLen

EndedShort == ep.out_bytes < bulk.out_length

\* The loop goes on with these locals, unless the host stopped early.
WriteNext(next) ==
  /\ short_packet_received' = (short_packet_received \/ EndedShort)
  /\ pc' = IF EndedShort THEN "parsed" ELSE "wr"
  /\ io' = IF EndedShort THEN NoIo ELSE next

\* Less than a sector is not written.
WriteNothing ==
  /\ pc = "write_wait" /\ WaitEnded /\ ep.res = "ok" /\ WriteAmount = 0
  /\ WriteNext(io)
  /\ scsiUnchanged
  /\ UNCHANGED <<luns, residue, usb_amount_left, bulk, ep, storageVars, ghostVars, faults>>

WriteChunk ==
  /\ pc = "write_wait" /\ WaitEnded /\ ep.res = "ok" /\ WriteAmount > 0
  /\ \E how \in Outcomes :
       /\ StorageAccess("write", WriteAmount, how)
       /\ ep' = Scratched(ep, how)
       /\ IF how \in Lost
          THEN /\ SetSense("WRITE_ERROR", io.lba)
               /\ Return
               /\ UNCHANGED <<residue, moved, short_packet_received>>
          ELSE LET len == WriteAmount * BlkLen
               IN /\ WriteNext([io EXCEPT !.lba = @ + WriteAmount, !.left = @ - len])
                  /\ Account(len)
                  /\ UNCHANGED luns
  /\ scsiUnchanged
  /\ UNCHANGED <<usb_amount_left, bulk>>

-----------------------------------------------------------------------------
(* _scsi_verify.                                                           *)

\* Seeded bug: the last piece of a verification is not cut.
BugVerifyAmount == MinOf(EpMax \div BlkLen, Num - io.lba)

VerifyAmount == MinOf(MinOf(io.left, EpMax \div BlkLen), Num - io.lba)

\* Its result is a reply of no data.
VerifyReturn == Reply(0) /\ Return

VerifyChunk ==
  /\ pc = "vf" /\ VerifyAmount > 0
  /\ \E how \in Outcomes :
       /\ StorageAccess("verify", VerifyAmount, how)
       /\ ep' = Scratched(Overwritten(ep, bulk.in_buf), how)
       /\ IF how \in Lost
          THEN SetSense("UNRECOVERED_READ_ERROR", io.lba) /\ VerifyReturn
          ELSE /\ UNCHANGED luns
               /\ IF io.left = VerifyAmount THEN VerifyReturn
                  ELSE /\ io' = [io EXCEPT !.lba = @ + VerifyAmount, !.left = @ - VerifyAmount]
                       /\ UNCHANGED <<pc, bulk, residue>>
       /\ moved' = moved + (IF how \in Lost THEN 0 ELSE VerifyAmount * BlkLen)
  /\ scsiUnchanged
  /\ UNCHANGED <<usb_amount_left, short_packet_received>>

VerifyPastEnd ==
  /\ pc = "vf" /\ VerifyAmount = 0
  /\ SetSense("LOGICAL_BLOCK_ADDRESS_OUT_OF_RANGE", io.lba)
  /\ VerifyReturn
  /\ scsiUnchanged
  /\ UNCHANGED <<usb_amount_left, short_packet_received, ep, storageVars, ghostVars, faults>>

Transfer == ReadChunk \/ ReadPastEnd \/ ReadAccount
            \/ WriteRequest \/ WritePastEnd \/ WriteEnd \/ WriteCommFailure
            \/ WriteNothing \/ WriteChunk \/ VerifyChunk \/ VerifyPastEnd
=============================================================================
