------------------------------ MODULE XusbCtrl ------------------------------
(***************************************************************************)
(* Enumeration, control requests and port changes of xusbd.c, over the     *)
(* rings of XusbRing.  The thread enumerates, waits for the host to ask    *)
(* for the number of units, and then runs the gadget, which is seen here   *)
(* only as the transfers it queues (XusbBulk and UmsGadget hold the rest). *)
(* All of them handle events inside _xusb_ep_operation, one at a time,     *)
(* while controller and host go on.                                        *)
(***************************************************************************)
EXTENDS XusbRing

CONSTANTS
  Requests,     \* control requests the host makes, by what they do
  Eps,          \* the bulk endpoints looked at, of "in" and "out"
  Bufs,         \* buffers of the gadget's transfers
  SeqCount,     \* modulus of the numbers of control transfers
  Speeds,       \* port speeds
  PortFlags,    \* changes the port reports: "PRC", "WRC", "CSC", "PLC", "CEC"
  MaxConnects,  \* bound: how often a cable is plugged in
  MaxAbandoned, \* bound: requests the host gives up
  MaxReconf     \* bound: SET_CONFIGURATION sent after the enumeration

ASSUME CtrlAssumption ==
  /\ Requests \subseteq {"address", "configure", "unconfigure", "plain", "halt", "clear",
                         "reset", "other", "descriptor", "max_lun", "unknown"}
  /\ Eps \subseteq {"in", "out"} /\ SeqCount \in Nat \ {0, 1}
  /\ PortFlags \subseteq {"PRC", "WRC", "CSC", "PLC", "CEC"} /\ "CSC" \in PortFlags
  /\ "none" \notin Speeds
  /\ {MaxConnects, MaxAbandoned, MaxReconf} \subseteq Nat

VARIABLES
  pc,       \* which loop the thread is in
  op,       \* locals of _xusb_ep_operation
  xotg,     \* usbd_xotg, with the rings and halt bits of the endpoints
  events,   \* the event ring
  ip,       \* interrupt pending (XHCI_ST_IP)
  port,     \* PORTSC: speed and changes not yet acknowledged
  host      \* the host's control transfer and what it was told

vars == <<pc, op, xotg, events, ip, port, host>>

InReqs == {"descriptor", "max_lun", "unknown"}      \* requests with a data stage
SeqNums == 0 .. SeqCount - 1

\* Requests whose completion the thread waits for.
Told == {"configure", "max_lun"}

Idle == [at |-> "idle", stop |-> 0, res |-> "ok"]

\* The driver's state after xusb_device_init, which clears it and the rings.
NewXotg ==
  [ep0 |-> EmptyRing, bulk |-> [d \in Eps |-> EmptyRing],
   state |-> "default", config |-> 0, wait |-> "setup", lun_set |-> FALSE,
   reset_req |-> FALSE, seq |-> 0, speed |-> "none",
   stalled |-> FALSE, halted |-> {}, on |-> FALSE]

NewHost ==
  [stage |-> "idle", req |-> "none", seq |-> 0, conn |-> 0, abandoned |-> 0, did |-> {}]

NoPort == [speed |-> "none", flags |-> {}]

\* usb_device_gadget_ums has initialised the device and enumerates.
Init ==
  /\ pc = "enum" /\ op = Idle /\ xotg = NewXotg /\ events = EmptyEvents /\ ip = FALSE
  /\ port = NoPort /\ host = NewHost

-----------------------------------------------------------------------------
(* What the driver queues on the control endpoint.                         *)

\* Nothing the driver queued there is still to be answered by an event.
Quiet(x) == x.ep0.enq = x.ep0.deq

StatusOut(x) ==
  [x EXCEPT !.ep0 = Queued(@, Td("status", x.seq)), !.wait = "status"]

\* Seeded bug: a status stage is queued whatever the endpoint still holds.
BugStatusIn(x) == StatusOut(x)

\* _xusb_issue_status_trb(USB_DIR_IN); its result says nothing of a status that
\* was not queued.
StatusIn(x) == IF Quiet(x) THEN StatusOut(x) ELSE x

\* Seeded bug: nobody remembers that a data stage is under way.
BugDataIn(x) == IF Quiet(x) THEN [x EXCEPT !.ep0 = Queued(@, Td("data", x.seq))] ELSE x

\* _xusb_issue_data_trb.
DataIn(x) ==
  IF Quiet(x)
  THEN [x EXCEPT !.ep0 = Queued(@, Td("data", x.seq)), !.wait = "data"]
  ELSE x

Stall(x) == [x EXCEPT !.stalled = TRUE]

\* _xusb_disable_ep1.
Disabled(x) ==
  [x EXCEPT !.halted = IF x.on THEN Eps ELSE @, !.on = FALSE,
            !.config = 0, !.lun_set = FALSE, !.state = "default"]

\* _xusbd_ep_initialize for both bulk endpoints.
Opened(x) ==
  [x EXCEPT !.bulk = [d \in Eps |-> Reloaded(@[d])], !.halted = {}, !.on = TRUE]

\* The requests, each by its handler.
SetAddress(x) == [StatusIn(x) EXCEPT !.state = "addressed_wait"]

SetConfiguration(x, config) ==
  IF config = 0 THEN StatusIn(Disabled(x))
  ELSE [StatusIn([Opened(x) EXCEPT !.config = config]) EXCEPT !.state = "configured_wait"]

BulkReset(x) == StatusIn([x EXCEPT !.reset_req = TRUE])

\* Before the number of units is known the request is refused.
GetMaxLun(x) == IF x.lun_set THEN DataIn([x EXCEPT !.state = "lun_wait"]) ELSE Stall(x)

\* Of the descriptors only that one is sent.
GetDescriptor(x) == DataIn(x)

\* _xusbd_handle_ep0_control_transfer: the endpoint is no longer halted, and
\* then by request.  A standard request to the device other than the two that
\* are known gets neither status nor stall.
Setup(x0, ev) ==
  LET x == [x0 EXCEPT !.seq = ev.seq, !.stalled = FALSE]
  IN CASE ev.req = "address"     -> SetAddress(x)
       [] ev.req = "configure"   -> SetConfiguration(x, 1)
       [] ev.req = "unconfigure" -> SetConfiguration(x, 0)
       [] ev.req = "plain"       -> StatusIn(x)
       [] ev.req = "halt"        -> StatusIn([x EXCEPT !.halted = Eps])
       [] ev.req = "clear"       -> StatusIn([x EXCEPT !.halted = {}])
       [] ev.req = "reset"       -> BulkReset(x)
       [] ev.req = "other"       -> x
       [] ev.req = "descriptor"  -> GetDescriptor(x)
       [] ev.req = "max_lun"     -> GetMaxLun(x)
       [] OTHER                  -> Stall(x)

-----------------------------------------------------------------------------
(* Events.                                                                 *)

\* Seeded bug: the device takes a state when it queues the status, or at any
\* later event.
BugStateAfter(x) ==
  CASE x.state = "addressed_wait"  -> "addressed"
    [] x.state = "configured_wait" -> "configured"
    [] x.state \in {"configured", "lun_wait"} -> "lun_configured"
    [] OTHER                       -> x.state

\* The state waited for is reached with the status stage.
StateAfter(x) ==
  CASE x.state = "addressed_wait"  -> "addressed"
    [] x.state = "configured_wait" -> "configured"
    [] x.state = "lun_wait"        -> "lun_configured"
    [] OTHER                       -> x.state

\* _xusb_handle_transfer_event: wait is one variable for all endpoints.
Transfer(x0, ev) ==
  LET x == IF ev.ep = "ctrl" THEN [x0 EXCEPT !.ep0 = Retired(@)]
           ELSE [x0 EXCEPT !.bulk[ev.ep] = Retired(@)]
  IN CASE ev.ep = "ctrl" /\ ev.code = "ok" /\ x.wait = "data"   -> StatusOut(x)
       [] ev.ep = "ctrl" /\ ev.code = "ok" /\ x.wait = "status" ->
            [x EXCEPT !.state = StateAfter(x)]
       [] OTHER -> x

\* Seeded bug: the port status is not read again before the connect change.
BugAcknowledged(flags) ==
  LET reset == IF "PRC" \in flags THEN {"PRC"} ELSE flags \cap {"WRC"}
      link  == IF "PLC" \in flags THEN {"PLC"} ELSE flags \cap {"CEC"}
      conn  == IF reset = {} THEN flags \cap {"CSC"} ELSE {}
  IN reset \cup conn \cup link

\* The changes _xusb_handle_port_change acknowledges: a change that was handled
\* masks the others of the copy of the port status, until it is read again.
Acknowledged(flags) ==
  LET reset == IF "PRC" \in flags THEN {"PRC"} ELSE flags \cap {"WRC"}
      link  == IF "PLC" \in flags THEN {"PLC"} ELSE flags \cap {"CEC"}
  IN reset \cup (flags \cap {"CSC"}) \cup link

PortResult(flags) == IF "CEC" \in Acknowledged(flags) THEN "port_cfg" ELSE "ok"

Result(ev) ==
  CASE ev.type = "port"     -> PortResult(port.flags)
    [] ev.type = "transfer" -> ev.code
    [] OTHER                -> "ok"

-----------------------------------------------------------------------------
(* _xusb_ep_operation.                                                     *)

\* A loop calls it: enumeration and gadget always, the wait for GET_MAX_LUN
\* until that was answered.
Calls ==
  /\ op.at = "idle"
  /\ pc \in {"enum", "gadget"} \/ (pc = "lun" /\ xotg.state # "lun_configured")

\* An interrupt is pending: it is acknowledged first.
OpInterrupt ==
  /\ Calls /\ ip
  /\ ip' = FALSE /\ op' = [op EXCEPT !.at = "acked"]
  /\ UNCHANGED <<pc, xotg, events, port, host>>

OpTimeout ==
  /\ Calls /\ ~ ip
  /\ op' = [op EXCEPT !.at = "done", !.res = "timeout"]
  /\ UNCHANGED <<pc, xotg, events, ip, port, host>>

\* Then the place of the controller is read; without a new event the operation
\* fails (XUSB_ERROR_INVALID_CYCLE).
OpLook ==
  /\ op.at = "acked"
  /\ op' = IF IsNew(events) THEN [at |-> "batch", stop |-> events.enq, res |-> "ok"]
           ELSE [op EXCEPT !.at = "done", !.res = "cycle"]
  /\ UNCHANGED <<pc, xotg, events, ip, port, host>>

\* One event.  The batch ends at the place read before or without a new event,
\* and the controller is told how far the driver is: what was posted meanwhile
\* raises an interrupt.
OpEvent ==
  /\ op.at = "batch"
  /\ LET ev   == events.trb[events.deq].event
         q    == Taken(events)
         ends == q.deq = op.stop \/ ~ IsNew(q)
     IN /\ xotg' = CASE ev.type = "transfer" -> Transfer(xotg, ev)
                     [] ev.type = "setup" -> Setup(xotg, ev)
                     [] ev.type = "port" /\ "CSC" \in Acknowledged(port.flags) ->
                          [xotg EXCEPT !.speed = port.speed]
                     [] OTHER -> xotg
        /\ port' = IF ev.type = "port"
                   THEN [port EXCEPT !.flags = @ \ Acknowledged(@)] ELSE port
        /\ events' = IF ends THEN [q EXCEPT !.erdp = q.deq] ELSE q
        /\ ip' = (ip \/ (ends /\ IsNew(q)))
        /\ op' = [op EXCEPT !.at = IF ends THEN "done" ELSE @, !.res = Result(ev)]
  /\ UNCHANGED <<pc, host>>

-----------------------------------------------------------------------------
(* The loops of the thread.                                                *)

\* xusb_device_enumerate after an operation: once configured, the number of
\* units may be asked for.
EnumNext ==
  /\ pc = "enum" /\ op.at = "done" /\ op.res \in {"ok", "timeout"}
  /\ op' = Idle
  /\ IF xotg.state = "configured"
     THEN pc' = "lun" /\ xotg' = [xotg EXCEPT !.lun_set = TRUE]
     ELSE UNCHANGED <<pc, xotg>>
  /\ UNCHANGED <<events, ip, port, host>>

\* xusb_device_class_send_max_lun: the result of the operation is not looked at.
LunNext ==
  /\ pc = "lun"
  /\ \/ op.at = "done" /\ op' = Idle /\ UNCHANGED <<pc, xotg>>
     \/ op.at = "idle" /\ xotg.state = "lun_configured" /\ UNCHANGED op
        /\ pc' = "gadget" /\ xotg' = [xotg EXCEPT !.state = "configured"]
  /\ UNCHANGED <<events, ip, port, host>>

\* The gadget goes on; a bulk-only reset is handed to it.
GadgetNext ==
  /\ pc = "gadget" /\ op.at = "done"
  /\ op' = Idle
  /\ xotg' = [xotg EXCEPT !.reset_req = FALSE]
  /\ UNCHANGED <<pc, events, ip, port, host>>

\* An error other than a timeout ends the enumeration, the buttons or the time
\* allowed either wait, and the gadget ends by itself: xusb_end.  What that
\* leaves is of no use any more and is cleared by the next xusb_device_init.
End ==
  /\ op.at = "done"
  /\ pc = "enum" /\ op.res \in {"ok", "timeout"} => xotg.state # "configured"
  /\ pc' = "off" /\ op' = Idle /\ xotg' = NewXotg /\ events' = EmptyEvents /\ ip' = FALSE
  /\ port' = NoPort /\ host' = NewHost

Restart ==
  /\ pc = "off" /\ pc' = "enum"
  /\ UNCHANGED <<op, xotg, events, ip, port, host>>

\* _xusb_issue_normal_trb.  The gadget leaves no more transfers on a ring than
\* it has room for: a bound of the model.
GadgetQueues ==
  /\ pc = "gadget" /\ op.at = "idle"
  /\ \E d \in Eps, b \in Bufs :
       /\ Len(xotg.bulk[d].todo) < Link
       /\ xotg' = [xotg EXCEPT !.bulk[d] = Queued(@, Td(b, 0)), !.wait = "normal"]
  /\ UNCHANGED <<pc, op, events, ip, port, host>>

Thread ==
  \/ OpInterrupt \/ OpTimeout \/ OpLook \/ OpEvent
  \/ EnumNext \/ LunNext \/ GadgetNext \/ End

-----------------------------------------------------------------------------
(* The controller and the host.                                            *)

\* An event is posted.  While the driver handles a batch it raises no interrupt
\* (the driver's last store does), but it may do so before the place is read,
\* although its event then belongs to the batch.
Post(ev) ==
  /\ pc # "off" /\ HasRoom(events)
  /\ events' = Posted(events, ev)
  /\ ip' \in CASE op.at = "acked" -> {ip, TRUE} [] op.at = "batch" -> {ip} [] OTHER -> {TRUE}

\* Whether the host is in the middle of a control transfer.
Busy == host.stage # "idle"

MayGiveUp == host.abandoned < MaxAbandoned

\* A cable is plugged in.  The controller reports changes of the port once, until
\* all of them have been acknowledged.
Connect ==
  /\ pc # "off"
  /\ host.conn < MaxConnects /\ (Busy => MayGiveUp)
  /\ \E s \in Speeds, flags \in SUBSET PortFlags :
       /\ "CSC" \in flags
       /\ port' = [speed |-> s, flags |-> port.flags \cup flags]
       /\ IF port.flags = {} THEN Post([type |-> "port"]) ELSE UNCHANGED <<events, ip>>
  /\ host' = [host EXCEPT !.conn = @ + 1, !.stage = "idle", !.req = "none",
                          !.abandoned = IF Busy THEN @ + 1 ELSE @]
  /\ UNCHANGED <<pc, op, xotg>>

\* The host starts a control transfer, or gives up the present one for another.
HostSetup ==
  /\ host.conn > 0 /\ (Busy => MayGiveUp)
  /\ \E r \in Requests :
       /\ r = "configure" /\ pc # "enum" => MaxReconf > 0
       /\ LET seq == (host.seq + 1) % SeqCount
          IN /\ Post([type |-> "setup", req |-> r, seq |-> seq, conn |-> host.conn])
             /\ host' = [host EXCEPT
                  !.stage = IF r \in InReqs THEN "data" ELSE "status", !.req = r,
                  !.seq = seq, !.abandoned = IF Busy THEN @ + 1 ELSE @]
  /\ UNCHANGED <<pc, op, xotg, port>>

\* The controller does what is next on the control endpoint: for the present
\* transfer if the host is at that stage; otherwise it is refused.
ControlDone ==
  /\ Due(xotg.ep0, 0)
  /\ LET td == xotg.ep0.trb[Place(xotg.ep0, 0)].td
         ev(code) == [type |-> "transfer", ep |-> "ctrl", code |-> code]
     IN \/ td.seq # host.seq /\ Post(ev("seq_num")) /\ UNCHANGED host
        \/ /\ td.seq = host.seq /\ td.what = host.stage /\ Post(ev("ok"))
           /\ host' = IF td.what = "data" THEN [host EXCEPT !.stage = "status"]
                      ELSE [host EXCEPT !.stage = "idle", !.req = "none",
                                             !.did = @ \cup ({host.req} \cap Told)]
  /\ xotg' = [xotg EXCEPT !.ep0 = Fetched(@)]
  /\ UNCHANGED <<pc, op, port>>

\* The host sees that the device refuses.
HostStalled ==
  /\ Busy /\ xotg.stalled /\ xotg.seq = host.seq
  /\ host' = [host EXCEPT !.stage = "idle", !.req = "none"]
  /\ UNCHANGED <<pc, op, xotg, events, ip, port>>

\* A bulk transfer is done.
BulkDone ==
  /\ xotg.on
  /\ \E d \in Eps \ xotg.halted :
       /\ Due(xotg.bulk[d], 0)
       /\ Post([type |-> "transfer", ep |-> d, code |-> "ok"])
       /\ xotg' = [xotg EXCEPT !.bulk[d] = Fetched(@)]
  /\ UNCHANGED <<pc, op, port, host>>

Hardware == Connect \/ HostSetup \/ ControlDone \/ HostStalled \/ BulkDone

Next == Thread \/ GadgetQueues \/ Restart \/ Hardware

Spec == Init /\ [][Next]_vars
=============================================================================
