------------------------------ MODULE XusbBulk ------------------------------
(***************************************************************************)
(* The bulk endpoint pair: what xusbd.c does with transfer requests and    *)
(* controller events, the controller moving packets, and the USB host.     *)
(*                                                                         *)
(* A transfer is queued (ep.in, ep.out), the controller completes it when  *)
(* the host takes or sends the data and appends an event, and the thread   *)
(* handles events only while it is inside _xusb_ep_operation.              *)
(***************************************************************************)
EXTENDS UmsState

\* The places where the thread waits in `while (!res && tx_count)`.
OutWaits == {"cbw", "write_wait", "throw_wait"}
InWaits  == {"read_wait", "send_wait", "pad_wait", "csw_wait"}

\* Seeded bug: the counters of the two directions are taken for each other.
BugCount == IF pc \in OutWaits THEN ep.in_count ELSE ep.out_count

Count == IF pc \in OutWaits THEN ep.out_count ELSE ep.in_count

\* Seeded bug: nobody waits for a transfer that is still under way.
BugWaitEnded == ep.in_op = 0

\* The loop runs another _xusb_ep_operation, or it is over.
Waiting   == pc \in OutWaits \cup InWaits /\ ep.res = "ok" /\ Count > 0
WaitEnded == ep.in_op = 0 /\ (ep.res # "ok" \/ Count = 0)

-----------------------------------------------------------------------------
(* Requests of the gadget.                                                 *)

\* xusb_device_ep1_in_write with a timeout: queue one transfer and wait.
InWrite(e, buf, len, kind) ==
  [e EXCEPT !.in = Append(@, [buf |-> buf, len |-> len, kind |-> kind, tag |-> tag]),
            !.in_count = 1, !.res = "ok"]

\* The same without a timeout: a lone full packet is followed by an empty one.
InStart(e, buf, len) ==
  LET e1 == InWrite(e, buf, len, "data")
  IN IF len = MaxPacket
     THEN [InWrite(e1, buf, 0, "data") EXCEPT !.in_count = 2]
     ELSE e1

\* xusb_device_ep1_out_read, and one round of xusb_device_ep1_out_read_big.
OutRead(e, len) ==
  [e EXCEPT !.out = Append(@, [len |-> len]),
            !.out_count = 1, !.out_bytes = len, !.res = "ok"]

\* Memory of a buffer changes while transfers that send it are still queued.
Overwritten(e, buf) ==
  [e EXCEPT !.in = [i \in DOMAIN @ |->
                      IF @[i].buf = buf THEN [@[i] EXCEPT !.kind = "junk"] ELSE @[i]]]

\* xusb_device_ep1_in_writing_finish, xusb_device_ep1_out_reading_finish:
\* wait for what is already queued.
Finish(e) == [e EXCEPT !.res = "ok"]

-----------------------------------------------------------------------------
(* _xusb_ep_operation.                                                     *)

\* _xusb_handle_transfer_event: a transfer that ended well counts down those of
\* its direction, and tells how much of a request was received.
Transferred(e, ev) ==
  LET ok(dir) == ev.ep = dir /\ ev.res = "ok"
  IN [e EXCEPT !.res       = ev.res,
               !.in_count  = IF ok("in") /\ @ > 0 THEN @ - 1 ELSE @,
               !.out_count = IF ok("out") /\ @ > 0 THEN @ - 1 ELSE @,
               !.out_bytes = IF ok("out") THEN (@ - ev.resid) % U32 ELSE @,
               !.rx        = IF ok("out") THEN ev.pkt ELSE @]

\* One event of the batch the operation handles (in_op more follow); its result
\* is the result of the last one.  A bulk-only reset is only noted here.
EpEvent ==
  /\ ep.in_op > 0 \/ Waiting
  /\ ep.events # <<>>
  /\ LET ev == Head(ep.events)
     IN /\ ep' = [Transferred(ep, ev) EXCEPT
             !.events = Tail(@),
             !.in_op  = IF @ > 0 THEN @ - 1 ELSE Len(ep.events) - 1]
        /\ bulk_reset_req' = (bulk_reset_req \/ ev.ep = "reset")
        /\ host' = IF ev.ep = "reset" THEN [host EXCEPT !.ph = "idle"] ELSE host
  /\ UNCHANGED <<pc, state, cmdVars, luns, ejectVars, acctVars, cbwVars, bulk,
                 io, storageVars, ghostVars, faults>>

HostTakes == host.ph = "csw" \/ (host.ph = "data" /\ host.cbw.dir = "in")
HostSends == host.ph = "cbw" \/ (host.ph = "data" /\ host.cbw.dir = "out")

\* No interrupt within the time allowed.  The wait for a command is a second
\* of host inactivity; a data or status transfer is only given up while the
\* host could take or send it if the run has that fault.
EpTimeout ==
  /\ Waiting /\ ep.in_op = 0 /\ ep.events = <<>>
  /\ \/ pc = "cbw" /\ NoFault
     \/ pc \in {"write_wait", "throw_wait"} /\ ep.out # <<>> /\ HostSends
        /\ MayFail("out_timeout") /\ Failed
     \/ pc \in {"write_wait", "throw_wait"} /\ ~ (ep.out # <<>> /\ HostSends) /\ NoFault
     \/ pc \in InWaits \ {"read_wait"} /\ ep.in # <<>> /\ HostTakes
        /\ MayFail("in_timeout") /\ Failed
     \/ pc \in InWaits /\ ~ (ep.in # <<>> /\ HostTakes) /\ NoFault
  /\ ep' = [ep EXCEPT !.res = "timeout"]
  /\ UNCHANGED <<pc, excVars, cmdVars, luns, ejectVars, acctVars, cbwVars, bulk,
                 io, storageVars, host, ghostVars>>

\* An interrupt without a new event: XUSB_ERROR_INVALID_CYCLE, which has the
\* value of USB2_ERROR_XFER_EP_DISABLED.
EpDisabled ==
  /\ MayFail("disabled") /\ Failed
  /\ Waiting /\ ep.in_op = 0 /\ ep.events = <<>>
  /\ ep' = [ep EXCEPT !.res = "disabled"]
  /\ UNCHANGED <<pc, excVars, cmdVars, luns, ejectVars, acctVars, cbwVars, bulk,
                 io, storageVars, host, ghostVars>>

-----------------------------------------------------------------------------
(* The controller and the host (outside src/).                             *)

OutDone(resid, pkt) ==
  ep' = [Overwritten(ep, "out") EXCEPT
           !.out = Tail(@),
           !.events = Append(@, [ep |-> "out", res |-> "ok", resid |-> resid, pkt |-> pkt])]
OutFailed ==
  ep' = [ep EXCEPT !.out = Tail(@),
                   !.events = Append(@, [ep |-> "out", res |-> "error", resid |-> 0, pkt |-> NoPkt])]
InDone(result) ==
  ep' = [ep EXCEPT !.in = Tail(@),
                   !.events = Append(@, [ep |-> "in", res |-> result, resid |-> 0, pkt |-> NoPkt])]

hwUnchanged == UNCHANGED <<pc, excVars, cmdVars, luns, ejectVars, acctVars, cbwVars,
                           bulk, io, storageVars, ghostVars>>

HostStart(c) ==
  /\ host.ph = "idle"
  /\ host' = [host EXCEPT !.ph = "cbw", !.cbw = c, !.tag = 1 - @, !.left = c.size]
  /\ NoFault
  /\ hwUnchanged /\ UNCHANGED ep

\* The command wrapper reaches the device.
OutCbw ==
  /\ host.ph = "cbw" /\ ep.out # <<>>
  /\ LET len == Head(ep.out).len
     IN IF len < CbwLen
        THEN OutFailed /\ host' = [host EXCEPT !.ph = "stuck"]
        ELSE /\ OutDone(len - CbwLen, [kind |-> "cbw", cbw |-> host.cbw, tag |-> host.tag])
             /\ host' = [host EXCEPT !.ph = IF host.cbw.size = 0 THEN "csw" ELSE "data"]
  /\ NoFault /\ hwUnchanged

\* The host sends something that is no command wrapper in place of one.
OutJunk ==
  /\ host.ph = "idle" /\ ep.out # <<>> /\ MayFail("junk")
  /\ OutDone(0, JunkPkt)
  /\ host' = [host EXCEPT !.ph = "stuck"]
  /\ Failed /\ hwUnchanged

\* Data of the host fills the request.  A request that ends inside a packet
\* the host goes on with overflows: the controller reports babble.
OutData ==
  /\ host.ph = "data" /\ host.cbw.dir = "out" /\ ep.out # <<>>
  /\ LET len == Head(ep.out).len
         n   == MinOf(len, host.left)
     IN IF len < host.left /\ len % MaxPacket # 0
        THEN OutFailed /\ host' = [host EXCEPT !.ph = "stuck"]
        ELSE /\ OutDone(len - n, DataPkt)
             /\ host' = [host EXCEPT !.left = @ - n,
                                     !.ph = IF host.left = n THEN "csw" ELSE "data"]
  /\ NoFault /\ hwUnchanged

\* The host stops early: a short packet, and it waits for the status.
OutShort ==
  /\ host.ph = "data" /\ host.cbw.dir = "out" /\ ep.out # <<>> /\ MayFail("short")
  /\ \E n \in 0 .. MinOf(Head(ep.out).len, host.left) - 1 :
       OutDone(Head(ep.out).len - n, DataPkt)
  /\ host' = [host EXCEPT !.left = 0, !.ph = "csw"]
  /\ Failed /\ hwUnchanged

OutError ==
  /\ ep.out # <<>>
  /\ \/ host.ph = "data" /\ host.cbw.dir = "out" /\ MayFail("out_error")
     \/ host.ph = "cbw" /\ MayFail("cbw_error")
  /\ OutFailed
  /\ host' = [host EXCEPT !.ph = "stuck"]
  /\ Failed /\ hwUnchanged

\* The host takes the first transfer of the IN ring.  In its data phase it
\* takes at most what it asked for, and a packet that is not full ends the
\* phase; in its status phase it takes the status of its command.  err records
\* that it was given anything but the data or the status of that command.
Accepts(t) ==
  \/ host.ph = "data" /\ t.kind # "csw" /\ t.len <= host.left
  \/ host.ph = "csw" /\ t.kind = "csw" /\ t.tag = host.tag

InTake ==
  /\ HostTakes /\ ep.in # <<>>
  /\ LET t == Head(ep.in)
         last == t.len % MaxPacket # 0 \/ t.len \in {0, host.left}
         next == IF ~ Accepts(t) THEN "stuck"
                 ELSE IF host.ph = "csw" THEN "idle"
                 ELSE IF last THEN "csw" ELSE "data"
     IN host' = [host EXCEPT
          !.ph   = next,
          !.left = IF host.ph = "data" /\ Accepts(t) THEN @ - t.len ELSE @,
          !.err  = @ \/ ~ Accepts(t) \/ t.kind = "junk" \/ t.tag # host.tag]
  /\ InDone("ok")
  /\ NoFault /\ hwUnchanged

InError ==
  /\ HostTakes /\ ep.in # <<>> /\ MayFail("in_error")
  /\ InDone("error")
  /\ host' = [host EXCEPT !.ph = "stuck"]
  /\ Failed /\ hwUnchanged

\* Reset recovery: a bulk-only reset on the control endpoint, after which the
\* host clears both endpoints and starts afresh.
HostReset ==
  /\ \/ host.ph \in {"cbw", "data", "csw", "stuck"} /\ MayFail("reset")
     \/ host.ph = "idle" /\ lun_idx = NoLun /\ MayFail("early_reset")
  /\ ep' = [ep EXCEPT !.events =
              Append(@, [ep |-> "reset", res |-> "ok", resid |-> 0, pkt |-> NoPkt])]
  /\ host' = [host EXCEPT !.ph = "resetting"]
  /\ Failed /\ hwUnchanged

Hardware == OutCbw \/ OutJunk \/ OutData \/ OutShort \/ OutError \/ InTake
            \/ InError \/ HostReset \/ (\E c \in Cbws : HostStart(c))
=============================================================================
