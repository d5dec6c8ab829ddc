------------------------------ MODULE UmsGadget ------------------------------
(***************************************************************************)
(* The USB mass storage gadget: the main loop of usb_device_gadget_ums     *)
(* from the first command on, with the reception of command wrappers, the  *)
(* data and status phases, exceptions and the ejection heuristics, over    *)
(* the bulk endpoints (XusbBulk) and the SCSI commands (UmsScsi).          *)
(***************************************************************************)
EXTENDS UmsScsi

\* The loop starts over with a pending exception; a command goes on otherwise.
Continue(next) == pc' = IF state' = "NORMAL" THEN next ELSE "top"

Init ==
  /\ pc = "top" /\ state = "NORMAL" /\ bulk_reset_req = FALSE
  /\ cmd = CHOOSE c \in Cbws : TRUE
  /\ tag = 0 /\ lun_idx = NoLun
  /\ luns = [l \in Luns |-> [prevent_medium_removal |-> FALSE, unmounted |-> FALSE,
                             sense_data |-> "NO_SENSE", sense_data_info |-> NoInfo,
                             unit_attention_data |-> TRUE]]
  /\ all_luns_unmounted = FALSE /\ exit_msg = "none"
  /\ data_size_from_cmnd = 0 /\ residue = 0 /\ usb_amount_left = 0
  /\ phase_error = FALSE /\ short_packet_received = FALSE
  /\ cbw_req_queued = FALSE /\ timeouts = 0 /\ xusb = TRUE
  /\ bulk = [in_length |-> 0, in_buf |-> "in", out_length |-> 0, out_ignore |-> FALSE]
  /\ io = NoIo
  /\ ep = [in |-> <<>>, in_count |-> 0, out |-> <<>>, out_count |-> 0, out_bytes |-> 0,
           events |-> <<>>, in_op |-> 0, res |-> "ok", rx |-> NoPkt]
  /\ emmc_part = 0 /\ dead = {}
  /\ host = [ph |-> "idle", cbw |-> CHOOSE c \in Cbws : TRUE, tag |-> 0, left |-> 0,
             err |-> FALSE]
  /\ moved = 0 /\ disk = NoAccess /\ faults = 0

-----------------------------------------------------------------------------
(* _get_next_command and _received_cbw.                                    *)

\* Seeded bug: every round queues another request.
BugRequestCommand(e) == OutRead(e, CbwLen)

\* Queue a request for a command wrapper, or go on waiting for the queued one.
RequestCommand(e) == IF cbw_req_queued THEN Finish(e) ELSE OutRead(e, CbwLen)

GetCommand ==
  /\ pc = "top" /\ state = "NORMAL"
  /\ cbw_req_queued \/ Len(ep.out) < MaxQueued
  /\ HandleEp0
  /\ bulk' = [bulk EXCEPT !.out_length = CbwLen]
  /\ ep' = RequestCommand(ep)
  /\ cbw_req_queued' = (cbw_req_queued \/ xusb)
  /\ pc' = "cbw"
  /\ UNCHANGED <<cmdVars, luns, ejectVars, acctVars, timeouts, xusb, io, storageVars,
                 host, ghostVars, faults>>

\* Seeded bug: ejected units are left out.
BugPenalty(asleep) ==
  CASE ep.res = "disabled"                            -> 4
    [] ep.res = "timeout" /\ ~ AnyPrevent /\ asleep   -> 14
    [] ep.res = "timeout" /\ ~ AnyPrevent /\ ~ asleep -> IF xusb THEN 0 ELSE 4
    [] OTHER                                          -> 0

\* What the heuristics for a host that is gone add to the timeouts.
Penalty(asleep) ==
  (CASE ep.res = "disabled"                            -> 4
     [] ep.res = "timeout" /\ ~ AnyPrevent /\ asleep   -> 14
     [] ep.res = "timeout" /\ ~ AnyPrevent /\ ~ asleep -> IF xusb THEN 0 ELSE 4
     [] OTHER                                          -> 0)
  + (IF ~ all_luns_unmounted THEN 0 ELSE IF ep.res = "ok" THEN 4 ELSE 1)

Asleep == IF "sleep" \in Faults THEN BOOLEAN ELSE {FALSE}

\* Whatever arrived, first see whether the host is still there.
Received ==
  /\ pc = "cbw" /\ WaitEnded
  /\ IF ep.res = "ok" /\ ~ all_luns_unmounted
     THEN UNCHANGED <<timeouts, state>>
     ELSE \E asleep \in Asleep :
            /\ timeouts' = timeouts + Penalty(asleep)
            /\ state' = IF timeouts' > 20 THEN Raise("EXIT") ELSE state
  /\ UNCHANGED <<bulk_reset_req, luns, ejectVars, acctVars, xusb, io, ep, host, moved,
                 faults>>

Dropped == bulk.out_ignore \/ ep.res # "ok"
IsCbw == ep.out_bytes = CbwLen /\ ep.rx.kind = "cbw"

\* No packet, or one to ignore: the request stays marked as queued.
CbwDropped ==
  /\ Dropped
  /\ Received
  /\ pc' = "top"
  /\ UNCHANGED <<cmdVars, cbw_req_queued, bulk, storageVars, disk>>

CbwInvalid ==
  /\ ~ Dropped /\ ~ IsCbw
  /\ Received
  /\ cbw_req_queued' = FALSE
  /\ bulk' = [bulk EXCEPT !.out_ignore = TRUE]
  /\ pc' = "top"
  /\ UNCHANGED <<cmdVars, storageVars, disk>>

\* A wrapper that is not meaningful is dropped without a status.
CbwForeign ==
  /\ ~ Dropped /\ IsCbw /\ ep.rx.cbw.lun \notin Luns
  /\ Received
  /\ cbw_req_queued' = FALSE
  /\ pc' = "top"
  /\ UNCHANGED <<cmdVars, bulk, storageVars, disk>>

\* Seeded bug: the first unit used is taken to have its partition.
BugSelectPartition(lun) ==
  IF lun_idx \notin {lun, NoLun} /\ LunType[lun] = "EMMC" /\ LunPart[lun] # emmc_part
  THEN emmc_part' = LunPart[lun] ELSE UNCHANGED emmc_part

\* Selecting another unit selects its eMMC partition; whether that succeeds is
\* not looked at.
SelectPartition(lun) ==
  IF lun # lun_idx /\ LunType[lun] = "EMMC" /\ LunPart[lun] # emmc_part
  THEN \/ "EMMC" \notin dead /\ emmc_part' = LunPart[lun]
       \/ ("EMMC" \in dead \/ "partition" \in Faults) /\ UNCHANGED emmc_part
  ELSE UNCHANGED emmc_part

CbwAccept ==
  /\ ~ Dropped /\ IsCbw /\ ep.rx.cbw.lun \in Luns
  /\ pc = "cbw" /\ WaitEnded
  /\ cbw_req_queued' = FALSE
  /\ cmd' = ep.rx.cbw /\ tag' = ep.rx.tag /\ lun_idx' = ep.rx.cbw.lun
  /\ SelectPartition(ep.rx.cbw.lun) /\ UNCHANGED dead
  /\ timeouts' = IF all_luns_unmounted THEN timeouts + 4 ELSE 0
  /\ state' = IF all_luns_unmounted /\ timeouts' > 20 THEN Raise("EXIT") ELSE state
  /\ moved' = 0 /\ disk' = NoAccess
  /\ Continue("parse")
  /\ UNCHANGED <<bulk_reset_req, luns, ejectVars, acctVars, xusb, bulk, io, ep, host, faults>>

ReceiveCommand == CbwDropped \/ CbwInvalid \/ CbwForeign \/ CbwAccept

-----------------------------------------------------------------------------
(* _finish_reply.                                                          *)

replyUnchanged == UNCHANGED <<cmdVars, luns, ejectVars, data_size_from_cmnd, residue,
                              phase_error, short_packet_received, cbwVars, storageVars,
                              host, ghostVars, faults>>

\* After the command: over if an exception is pending.  A reset noted since is
\* raised before the reply, which is made all the same.
Parsed ==
  /\ pc = "parsed"
  /\ IF state = "NORMAL" THEN HandleEp0 /\ pc' = "reply"
     ELSE pc' = "top" /\ UNCHANGED excVars
  /\ replyUnchanged /\ UNCHANGED <<usb_amount_left, bulk, io, ep>>

\* Seeded bug: data is only expected for a command that takes some.
BugDrained == residue = 0 \/ cmd.op \notin FromHost

\* Nothing of the host's data is left to read.
Drained == residue = 0 \/ (~ short_packet_received /\ usb_amount_left = 0)

ReplyNone ==
  /\ pc = "reply"
  /\ DataDir = "none" \/ (DataDir = "out" /\ Drained)
  /\ UNCHANGED excVars /\ Continue("status")
  /\ replyUnchanged /\ UNCHANGED <<usb_amount_left, bulk, io, ep>>

\* The last buffer of a complete reply.
ReplyLast ==
  /\ pc = "reply" /\ DataDir = "in" /\ residue = 0
  /\ ep' = InWrite(ep, bulk.in_buf, bulk.in_length, "data")
  /\ pc' = "send_wait"
  /\ replyUnchanged /\ UNCHANGED <<excVars, usb_amount_left, bulk, io>>

\* Seeded bug: what the last buffer holds is left out of the total.
BugPadTotal == residue

PadTotal == bulk.in_length + residue

\* _pad_with_zeros; io.n is its current_len_to_keep.
ReplyPad ==
  /\ pc = "reply" /\ DataDir = "in" /\ residue # 0
  /\ usb_amount_left' = PadTotal
  /\ io' = [io EXCEPT !.n = bulk.in_length]
  /\ pc' = "pad"
  /\ replyUnchanged /\ UNCHANGED <<excVars, bulk, ep>>

\* Seeded bug: every piece is a full one.
BugPadLen == EpMax

PadLen == MinOf(usb_amount_left, EpMax)

PadSend ==
  /\ pc = "pad" /\ usb_amount_left > 0
  /\ LET e == IF PadLen > io.n THEN Overwritten(ep, bulk.in_buf) ELSE ep
     IN ep' = InWrite(e, bulk.in_buf, PadLen, "data")
  /\ bulk' = [bulk EXCEPT !.in_length = PadLen]
  /\ usb_amount_left' = usb_amount_left - PadLen
  /\ io' = [io EXCEPT !.n = 0]
  /\ pc' = "pad_wait"
  /\ replyUnchanged /\ UNCHANGED excVars

\* The next piece, whatever became of the last one.
PadNext ==
  /\ pc = "pad_wait" /\ WaitEnded
  /\ pc' = "pad"
  /\ replyUnchanged /\ UNCHANGED <<excVars, usb_amount_left, bulk, io, ep>>

\* All sent or padded: back to the IN buffer, and to the status.
ReplySent ==
  /\ (pc = "send_wait" /\ WaitEnded) \/ (pc = "pad" /\ usb_amount_left = 0)
  /\ bulk' = [bulk EXCEPT !.in_buf = "in"] /\ io' = NoIo
  /\ UNCHANGED excVars /\ Continue("status")
  /\ replyUnchanged /\ UNCHANGED <<usb_amount_left, ep>>

\* The host stopped sending early.
ReplyShort ==
  /\ pc = "reply" /\ DataDir = "out" /\ residue # 0 /\ short_packet_received
  /\ state' = Raise("ABORT_BULK_OUT")
  /\ pc' = "top"
  /\ replyUnchanged /\ UNCHANGED <<bulk_reset_req, usb_amount_left, bulk, io, ep>>

\* _throw_away_data: the buffer is empty here, so it makes one request and
\* returns once that is over, however it ended.
ThrowAway ==
  /\ pc = "reply" /\ DataDir = "out" /\ residue # 0 /\ ~ short_packet_received
  /\ usb_amount_left > 0
  /\ LET len == MinOf(usb_amount_left, EpMax)
     IN /\ bulk' = [bulk EXCEPT !.out_length = len]
        /\ ep' = OutRead(ep, len)
        /\ usb_amount_left' = usb_amount_left - len
  /\ pc' = "throw_wait"
  /\ replyUnchanged /\ UNCHANGED <<excVars, io>>

ThrownAway ==
  /\ pc = "throw_wait" /\ WaitEnded
  /\ UNCHANGED excVars /\ Continue("status")
  /\ replyUnchanged /\ UNCHANGED <<usb_amount_left, bulk, io, ep>>

FinishReply == Parsed \/ ReplyNone \/ ReplyLast \/ ReplyPad \/ PadSend \/ PadNext
               \/ ReplySent \/ ReplyShort \/ ThrowAway \/ ThrownAway

-----------------------------------------------------------------------------
(* _send_status.                                                           *)

\* Seeded bug: sense data does not fail a command.
BugStatus == IF phase_error THEN "PHASE_ERROR" ELSE "PASS"

\* The status of the command being answered.
Status == IF phase_error THEN "PHASE_ERROR"
          ELSE IF Lun.sense_data # "NO_SENSE" THEN "FAIL" ELSE "PASS"

SendStatus ==
  /\ pc = "status"
  /\ bulk' = [bulk EXCEPT !.in_length = CswLen]
  /\ ep' = InWrite(Overwritten(ep, bulk.in_buf), bulk.in_buf, CswLen, "csw")
  /\ pc' = "csw_wait"
  /\ replyUnchanged /\ UNCHANGED <<excVars, usb_amount_left, io>>

StatusSent ==
  /\ pc = "csw_wait" /\ WaitEnded
  /\ pc' = "top"
  /\ replyUnchanged /\ UNCHANGED <<excVars, usb_amount_left, bulk, io, ep>>

-----------------------------------------------------------------------------
(* _handle_exception and the end of the loop.                              *)

excUnchanged == UNCHANGED <<bulk_reset_req, cmdVars, all_luns_unmounted, acctVars,
                            cbw_req_queued, io, ep, storageVars, host, ghostVars, faults>>

\* usbd_flush_endpoint is NULL: nothing is flushed.
HandleAbort ==
  /\ pc = "top" /\ state = "ABORT_BULK_OUT"
  /\ state' = "NORMAL"
  /\ pc' = "status"
  /\ excUnchanged /\ UNCHANGED <<luns, exit_msg, timeouts, xusb, bulk>>

Forgotten(l, ua) ==
  [WithSense(l, "NO_SENSE", NoInfo) EXCEPT !.prevent_medium_removal = FALSE,
                                           !.unit_attention_data = ua]

\* Before the first command lun_idx is 16: the unit cleared lies behind the
\* array, its sense_data and sense_data_info over timeouts and xusb.
HandleReset ==
  /\ pc = "top" /\ state = "PROTOCOL_RESET"
  /\ IF lun_idx = NoLun
     THEN timeouts' = 0 /\ xusb' = FALSE /\ UNCHANGED luns
     ELSE luns' = [luns EXCEPT ![lun_idx] = Forgotten(@, TRUE)] /\ UNCHANGED <<timeouts, xusb>>
  /\ bulk' = [bulk EXCEPT !.out_ignore = FALSE]
  /\ state' = "NORMAL"
  /\ pc' = "top"
  /\ excUnchanged /\ UNCHANGED exit_msg

\* The last text says whether a unit is still locked when the loop ends.
ExitMsg == IF \E l \in Luns : luns'[l].prevent_medium_removal THEN "unsafe" ELSE "ejected"

HandleExit ==
  /\ pc = "top" /\ state = "EXIT"
  /\ IF lun_idx = NoLun
     THEN timeouts' = 0 /\ xusb' = FALSE /\ UNCHANGED luns
     ELSE luns' = [luns EXCEPT ![lun_idx] = Forgotten(@, FALSE)] /\ UNCHANGED <<timeouts, xusb>>
  /\ state' = "TERMINATED"
  /\ exit_msg' = ExitMsg
  /\ pc' = "exit"
  /\ excUnchanged /\ UNCHANGED bulk

\* Both volume buttons end the loop unless a unit is locked.
ComboExit ==
  /\ pc = "top" /\ "combo" \in Faults /\ ~ AnyPrevent
  /\ UNCHANGED luns /\ exit_msg' = ExitMsg
  /\ pc' = "exit"
  /\ excUnchanged /\ UNCHANGED <<state, timeouts, xusb, bulk>>

HandleException == HandleAbort \/ HandleReset \/ HandleExit

-----------------------------------------------------------------------------

\* The thread, without WriteSpin, where it runs and gets nowhere.
Thread == GetCommand \/ ReceiveCommand \/ Parse \/ Transfer \/ FinishReply
          \/ SendStatus \/ StatusSent \/ HandleException

Done == pc = "exit" /\ UNCHANGED vars

Next == \/ pc # "exit" /\ (EpEvent \/ EpTimeout \/ EpDisabled \/ Hardware)
        \/ Thread \/ ComboExit \/ WriteSpin \/ Done

Spec == Init /\ [][Next]_vars
=============================================================================
