------------------------------ MODULE XusbRing ------------------------------
(***************************************************************************)
(* The rings the USB driver and the controller share: the driver queues    *)
(* transfer request blocks (TRBs) on a ring per endpoint, the controller   *)
(* appends events to the event ring.  Neither side sees the other's place: *)
(* an entry is new if its cycle bit is that of the reader's present round. *)
(*                                                                         *)
(* The field todo is history: what was put on the ring and not yet taken   *)
(* off it, in order.  Of an entry that was taken the model keeps the cycle *)
(* bit, which is what tells it from a new one, and forgets the rest.       *)
(***************************************************************************)
EXTENDS Integers, Sequences

CONSTANTS
  Slots,        \* XUSB_TRB_SLOTS: entries of a transfer ring, the last a link
  EventSlots    \* entries of the two segments of the event ring

ASSUME RingAssumption ==
  /\ Slots \in Nat /\ Slots >= 3
  /\ EventSlots \in Nat /\ EventSlots >= 2

Link == Slots - 1       \* XUSB_LINK_TRB_IDX

-----------------------------------------------------------------------------
(* Transfer rings.                                                         *)

\* What a TRB transfers, a stage of a control transfer or a buffer, and the
\* number of the control transfer it was queued for.
Td(what, seq) == [what |-> what, seq |-> seq]

NoTd == Td("none", 0)

\* A ring of cleared memory after _xusb_ep_init_context: the driver's enqueue
\* and dequeue places and cycle, and the controller's place and cycle.
EmptyRing ==
  [trb |-> [i \in 0 .. Link - 1 |-> [cycle |-> 0, td |-> NoTd]], link |-> 0,
   enq |-> 0, deq |-> 0, cycle |-> 1, at |-> 0, ccs |-> 1, todo |-> <<>>]

\* Seeded bug: the index is compared with the number of slots.
BugAdvance(i) == (i + 1) % Slots

\* The entry after entry i: the link leads back to the first one.
Advance(i) == IF i + 1 = Link THEN 0 ELSE i + 1

\* Seeded bug: the cycle of the link stays that of the first round.
BugQueued(r, td) ==
  [r EXCEPT !.trb[r.enq] = [cycle |-> r.cycle, td |-> td],
            !.link = 1,
            !.cycle = IF r.enq + 1 = Link THEN 1 - @ ELSE @,
            !.enq = Advance(@),
            !.todo = Append(@, td)]

\* _xusb_queue_trb.  Nothing looks whether the ring has room.
Queued(r, td) ==
  [r EXCEPT !.trb[r.enq] = [cycle |-> r.cycle, td |-> td],
            !.link = IF r.enq + 1 = Link THEN r.cycle ELSE @,
            !.cycle = IF r.enq + 1 = Link THEN 1 - @ ELSE @,
            !.enq = Advance(@),
            !.todo = Append(@, td)]

\* The driver's dequeue place moves on with each transfer event.
Retired(r) == [r EXCEPT !.deq = Advance(@)]

\* _xusb_ep_init_context on a ring that was in use: its entries stay.
Reloaded(r) ==
  [r EXCEPT !.enq = 0, !.deq = 0, !.cycle = 1, !.at = 0, !.ccs = 1, !.todo = <<>>]

\* The n-th entry from the controller's place on (the link is not counted), the
\* cycle it must have to be new, and whether the link before it is passed.
Place(r, n)   == IF r.at + n < Link THEN r.at + n ELSE r.at + n - Link
CycleAt(r, n) == IF r.at + n < Link THEN r.ccs ELSE 1 - r.ccs
Open(r, n)    == r.at + n < Link \/ r.link = r.ccs

\* What the controller takes for the n-th transfer it has to do.
Due(r, n) == Open(r, n) /\ r.trb[Place(r, n)].cycle = CycleAt(r, n)

\* The controller did the first one: it goes on, past the link if that is new.
Fetched(r) ==
  LET next == Place(r, 0) + 1
      over == next = Link /\ r.link = CycleAt(r, 0)
  IN [r EXCEPT !.trb[Place(r, 0)].td = NoTd,
               !.at   = IF over THEN 0 ELSE next,
               !.ccs  = IF over THEN 1 - CycleAt(r, 0) ELSE CycleAt(r, 0),
               !.todo = IF @ = <<>> THEN @ ELSE Tail(@)]

\* The controller finds exactly the transfers that were queued, in that order.
InOrder(r) ==
  /\ Len(r.todo) <= Link
  /\ \A n \in 0 .. Len(r.todo) - 1 :
       Due(r, n) /\ r.trb[Place(r, n)].td = r.todo[n + 1]
  /\ Len(r.todo) < Link => ~ Due(r, Len(r.todo))

-----------------------------------------------------------------------------
(* The event ring.                                                         *)

NoEvent == [type |-> "none"]

EmptyEvents ==
  [trb |-> [i \in 0 .. EventSlots - 1 |-> [cycle |-> 0, event |-> NoEvent]],
   enq |-> 0, pcs |-> 1, deq |-> 0, ccs |-> 1, erdp |-> 0, todo |-> <<>>]

NextEvent(i) == IF i = EventSlots - 1 THEN 0 ELSE i + 1

\* The controller posts an event unless the ring is full up to where the driver
\* last said it had read.
HasRoom(q) == NextEvent(q.enq) # q.erdp

Posted(q, event) ==
  [q EXCEPT !.trb[q.enq] = [cycle |-> q.pcs, event |-> event],
            !.pcs = IF q.enq = EventSlots - 1 THEN 1 - @ ELSE @,
            !.enq = NextEvent(@),
            !.todo = Append(@, event)]

IsNew(q) == q.trb[q.deq].cycle = q.ccs

\* Seeded bug: the expected cycle is kept over the end of the second segment.
BugTaken(q) ==
  [q EXCEPT !.trb[q.deq].event = NoEvent,
            !.deq = NextEvent(@),
            !.todo = IF @ = <<>> THEN @ ELSE Tail(@)]

\* The driver is done with the event at its place.
Taken(q) ==
  [q EXCEPT !.trb[q.deq].event = NoEvent,
            !.ccs = IF q.deq = EventSlots - 1 THEN 1 - @ ELSE @,
            !.deq = NextEvent(@),
            !.todo = IF @ = <<>> THEN @ ELSE Tail(@)]

\* The driver finds the events that were posted, the oldest one first.
EventsInOrder(q) ==
  /\ IsNew(q) <=> q.todo # <<>>
  /\ q.todo # <<>> => q.trb[q.deq].event = Head(q.todo)
=============================================================================
