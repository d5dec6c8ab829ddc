---------------------------- MODULE UsbProperties ----------------------------
(***************************************************************************)
(* What the rings, the control endpoint and the enumeration have to keep.  *)
(***************************************************************************)
EXTENDS XusbCtrl

Tds(whats) == [what : whats \cup {"none"}, seq : SeqNums]

RingType(whats) ==
  [trb : [0 .. Link - 1 -> [cycle : {0, 1}, td : Tds(whats)]], link : {0, 1},
   enq : 0 .. Link - 1, deq : 0 .. Link - 1, cycle : {0, 1},
   at : 0 .. Link, ccs : {0, 1}, todo : Seq(Tds(whats))]

Events ==
  [type : {"none", "port"}]
    \cup [type : {"setup"}, req : Requests, seq : SeqNums, conn : Nat]
    \cup [type : {"transfer"}, ep : Eps \cup {"ctrl"}, code : {"ok", "seq_num"}]

EventRingType ==
  [trb : [0 .. EventSlots - 1 -> [cycle : {0, 1}, event : Events]],
   enq : 0 .. EventSlots - 1, pcs : {0, 1}, deq : 0 .. EventSlots - 1, ccs : {0, 1},
   erdp : 0 .. EventSlots - 1, todo : Seq(Events)]

XotgType ==
  [ep0 : RingType({"data", "status"}), bulk : [Eps -> RingType(Bufs)],
   state : {"default", "addressed_wait", "addressed", "configured_wait", "configured",
            "lun_wait", "lun_configured"},
   config : {0, 1}, wait : {"setup", "data", "status", "normal"}, lun_set : BOOLEAN,
   reset_req : BOOLEAN, seq : SeqNums, speed : Speeds \cup {"none"},
   stalled : BOOLEAN, halted : SUBSET Eps, on : BOOLEAN]

\* The rings stay inside their memory: no place runs past the link.
TypeOK ==
  /\ pc \in {"enum", "lun", "gadget", "off"}
  /\ op \in [at : {"idle", "acked", "batch", "done"}, stop : 0 .. EventSlots - 1,
             res : {"ok", "timeout", "cycle", "seq_num", "port_cfg"}]
  /\ xotg \in XotgType
  /\ events \in EventRingType
  /\ ip \in BOOLEAN
  /\ port \in [speed : Speeds \cup {"none"}, flags : SUBSET PortFlags]
  /\ host \in [stage : {"idle", "data", "status"}, req : Requests \cup {"none"},
               seq : SeqNums, conn : Nat, abandoned : Nat, did : SUBSET Told]

\* The driver handles every event once and in order, and the controller does the
\* stages of control transfers that were queued for it, each once and in order,
\* with either side anywhere on the rings and over every wrap.
ControlInOrder == EventsInOrder(events) /\ InOrder(xotg.ep0)

\* The same of the bulk transfers.
BulkInOrder == \A d \in Eps : InOrder(xotg.bulk[d])

\* The i-th event not handled yet is of a control transfer.
OfControl(i) == events.todo[i].type = "transfer" /\ events.todo[i].ep = "ctrl"

\* The control endpoint counts as quiet exactly when nothing is queued there and
\* no event is outstanding, and it never holds two transfers: the comparison
\* of the two places that guards _xusb_issue_status_trb is exact.
ControlExact ==
  LET pending == {i \in DOMAIN events.todo : OfControl(i)}
  IN /\ Len(xotg.ep0.todo) <= 1
     /\ \A i, j \in pending : i = j
     /\ xotg.ep0.todo # <<>> => pending = {}
     /\ Quiet(xotg) <=> xotg.ep0.todo = <<>> /\ pending = {}

\* A request of the present connection is handled knowing its speed: the
\* descriptors it returns announce packet sizes of that speed.
SpeedKnown ==
  op.at = "batch" /\ events.todo # <<>> =>
    LET ev == Head(events.todo)
    IN ev.type = "setup" /\ ev.conn = host.conn => xotg.speed = port.speed

\* Unless the host gave a request up, the enumeration ends only when it has the
\* status of SET_CONFIGURATION, and the gadget runs only when it knows how many
\* units there are.
ToldFirst ==
  host.abandoned = 0 =>
    /\ pc = "lun" => "configure" \in host.did
    /\ pc = "gadget" => "max_lun" \in host.did

\* A host that waits for an answer waits for something that is under way: a
\* stage queued for the controller, an event not handled yet, or a refusal it
\* will see.  Otherwise it gave a request up before, or a bulk transfer was queued
\* in the middle of the request, or the request is of class "other", which is
\* never answered (xusbd.c: "What about others.").
NobodyForgotten ==
  Busy /\ host.abandoned = 0 /\ host.req # "other" /\ xotg.wait # "normal" /\ pc # "off"
    => xotg.ep0.todo # <<>> \/ events.todo # <<>> \/ (xotg.stalled /\ xotg.seq = host.seq)
=============================================================================
