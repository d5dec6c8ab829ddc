---------------------------- MODULE XusbRingProofs ----------------------------
(***************************************************************************)
(* Lemmas about the operators of XusbRing, for rings of every size: where  *)
(* the entries not yet taken lie, and that the cycle bits of all others    *)
(* are those of an earlier round.  No operation changes that.              *)
(***************************************************************************)
EXTENDS UsbProperties, TLAPS

\* A transfer ring, from the controller's place on.
RingOK(r) ==
  /\ r.at \in 0 .. Link - 1
  /\ Len(r.todo) <= Link
  /\ r.enq = Place(r, Len(r.todo))
  /\ r.cycle = CycleAt(r, Len(r.todo))
  /\ r.link = r.ccs <=> r.at + Len(r.todo) >= Link
  /\ \A n \in 0 .. Link - 1 :
       r.trb[Place(r, n)].cycle = CycleAt(r, n) <=> n < Len(r.todo)
  /\ \A n \in 0 .. Link - 1 : n < Len(r.todo) => r.trb[Place(r, n)].td = r.todo[n + 1]

-----------------------------------------------------------------------------
(* Transfer rings.                                                         *)

\* A ring has at least two entries beside the link.
LEMMA LinkNat == Link \in Nat /\ Link >= 2
BY RingAssumption DEF Link

\* Queueing keeps the type of a ring.
LEMMA QueuedType ==
  ASSUME NEW W, NEW r \in RingType(W), NEW td \in Tds(W)
  PROVE  Queued(r, td) \in RingType(W)
<1>1. r.trb \in [0 .. Link - 1 -> [cycle : {0, 1}, td : Tds(W)]]
  BY DEF RingType
<1>2. [cycle |-> r.cycle, td |-> td] \in [cycle : {0, 1}, td : Tds(W)]
  BY DEF RingType
<1>3. [r.trb EXCEPT ![r.enq] = [cycle |-> r.cycle, td |-> td]]
        \in [0 .. Link - 1 -> [cycle : {0, 1}, td : Tds(W)]]
  BY <1>1, <1>2
<1>4. Advance(r.enq) \in 0 .. Link - 1
  BY LinkNat DEF RingType, Advance
<1>5. Append(r.todo, td) \in Seq(Tds(W))
  BY DEF RingType
<1>6. /\ (IF r.enq + 1 = Link THEN r.cycle ELSE r.link) \in {0, 1}
      /\ (IF r.enq + 1 = Link THEN 1 - r.cycle ELSE r.cycle) \in {0, 1}
  BY DEF RingType
<1>7. Queued(r, td) =
        [r EXCEPT !.trb = [r.trb EXCEPT ![r.enq] = [cycle |-> r.cycle, td |-> td]],
                  !.link = IF r.enq + 1 = Link THEN r.cycle ELSE r.link,
                  !.cycle = IF r.enq + 1 = Link THEN 1 - r.cycle ELSE r.cycle,
                  !.enq = Advance(r.enq), !.todo = Append(r.todo, td)]
  BY DEF Queued
<1> QED
  BY <1>3, <1>4, <1>5, <1>6, <1>7 DEF RingType

\* So does moving on the driver's dequeue place.
LEMMA RetiredType ==
  ASSUME NEW W, NEW r \in RingType(W)
  PROVE  Retired(r) \in RingType(W)
<1>1. Advance(r.deq) \in 0 .. Link - 1
  BY LinkNat DEF RingType, Advance
<1> QED
  BY <1>1 DEF RingType, Retired

\* So does starting the ring over.
LEMMA ReloadedType ==
  ASSUME NEW W, NEW r \in RingType(W)
  PROVE  Reloaded(r) \in RingType(W)
<1>1. 0 \in 0 .. Link - 1 /\ 0 \in 0 .. Link /\ <<>> \in Seq(Tds(W))
  BY LinkNat
<1> QED
  BY <1>1 DEF RingType, Reloaded

\* The controller's place is on the ring.
LEMMA PlaceType ==
  ASSUME NEW W, NEW r \in RingType(W)
  PROVE  Place(r, 0) \in 0 .. Link - 1 /\ CycleAt(r, 0) \in {0, 1}
BY LinkNat DEF RingType, Place, CycleAt

\* An entry may be empty.
LEMMA NoTdType ==
  ASSUME NEW W
  PROVE  NoTd \in Tds(W)
<1>1. 0 \in SeqNums
  BY CtrlAssumption DEF SeqNums
<1> QED
  BY <1>1 DEF NoTd, Td, Tds

\* The controller keeps the type of a ring.
LEMMA FetchedType ==
  ASSUME NEW W, NEW r \in RingType(W)
  PROVE  Fetched(r) \in RingType(W)
<1> DEFINE i == Place(r, 0)
           over == i + 1 = Link /\ r.link = CycleAt(r, 0)
<1>1. i \in 0 .. Link - 1 /\ CycleAt(r, 0) \in {0, 1}
  BY PlaceType
<1>2. r.trb \in [0 .. Link - 1 -> [cycle : {0, 1}, td : Tds(W)]]
  BY DEF RingType
<1>3. [r.trb EXCEPT ![i].td = NoTd] \in [0 .. Link - 1 -> [cycle : {0, 1}, td : Tds(W)]]
  <2>1. [r.trb[i] EXCEPT !.td = NoTd] \in [cycle : {0, 1}, td : Tds(W)]
    BY <1>1, <1>2, NoTdType
  <2> QED
    BY <1>2, <2>1
<1>4. (IF over THEN 0 ELSE i + 1) \in 0 .. Link
  BY <1>1, LinkNat
<1>5. (IF over THEN 1 - CycleAt(r, 0) ELSE CycleAt(r, 0)) \in {0, 1}
  BY <1>1
<1>6. (IF r.todo = <<>> THEN r.todo ELSE Tail(r.todo)) \in Seq(Tds(W))
  BY DEF RingType
<1>7. Fetched(r) = [r EXCEPT !.trb = [r.trb EXCEPT ![i].td = NoTd],
                             !.at = IF over THEN 0 ELSE i + 1,
                             !.ccs = IF over THEN 1 - CycleAt(r, 0) ELSE CycleAt(r, 0),
                             !.todo = IF r.todo = <<>> THEN r.todo ELSE Tail(r.todo)]
  BY DEF Fetched
<1> QED
  BY <1>3, <1>4, <1>5, <1>6, <1>7 DEF RingType

\* A cleared ring is in order and empty.
LEMMA EmptyType ==
  ASSUME NEW W
  PROVE  EmptyRing \in RingType(W) /\ RingOK(EmptyRing) /\ EmptyRing.todo = <<>>
<1>1. EmptyRing \in RingType(W)
  BY LinkNat, NoTdType DEF EmptyRing, RingType
<1>2. RingOK(EmptyRing)
  BY LinkNat DEF EmptyRing, RingOK, Place, CycleAt
<1> QED
  BY <1>1, <1>2 DEF EmptyRing

\* A transfer queued on a ring with room comes after those that are there.
LEMMA QueuedKeeps ==
  ASSUME NEW W, NEW r \in RingType(W), NEW td \in Tds(W), RingOK(r), Len(r.todo) < Link
  PROVE  RingOK(Queued(r, td))
<1> DEFINE q == Queued(r, td)
           k == Len(r.todo)
<1>1. k \in 0 .. Link - 1 /\ Len(q.todo) = k + 1
  BY LinkNat DEF RingType, Queued
<1>11. q.todo[k + 1] = td /\ \A n \in 1 .. k : q.todo[n] = r.todo[n]
  BY LinkNat DEF RingType, Queued
<1>2. /\ q.at = r.at /\ q.ccs = r.ccs /\ q.enq = Advance(r.enq)
      /\ q.link = IF r.enq + 1 = Link THEN r.cycle ELSE r.link
      /\ q.cycle = IF r.enq + 1 = Link THEN 1 - r.cycle ELSE r.cycle
  BY DEF RingType, Queued
<1>3. q.trb = [r.trb EXCEPT ![r.enq] = [cycle |-> r.cycle, td |-> td]]
  BY DEF RingType, Queued
<1>4. /\ r.at \in 0 .. Link - 1 /\ r.ccs \in {0, 1} /\ r.link \in {0, 1}
      /\ r.enq = Place(r, k) /\ r.cycle = CycleAt(r, k)
      /\ (r.link = r.ccs) <=> (r.at + k >= Link)
  BY DEF RingType, RingOK
<1>0. \A n \in 0 .. Link - 1 :
        /\ r.trb[Place(r, n)].cycle = CycleAt(r, n) <=> n < k
        /\ n < k => r.trb[Place(r, n)].td = r.todo[n + 1]
  BY DEF RingOK
<1> HIDE DEF q, k
<1>5. /\ q.enq = Place(q, k + 1) /\ q.cycle = CycleAt(q, k + 1)
      /\ (q.link = q.ccs) <=> (q.at + (k + 1) >= Link)
  <2>1. CASE r.at + k < Link - 1
    BY <2>1, <1>1, <1>2, <1>4, LinkNat DEF Place, CycleAt, Advance
  <2>2. CASE r.at + k = Link - 1
    BY <2>2, <1>1, <1>2, <1>4, LinkNat DEF Place, CycleAt, Advance
  <2>3. CASE r.at + k > Link - 1
    BY <2>3, <1>1, <1>2, <1>4, LinkNat DEF Place, CycleAt, Advance
  <2> QED
    BY <2>1, <2>2, <2>3, <1>1, <1>4, LinkNat
<1>6. ASSUME NEW n \in 0 .. Link - 1
      PROVE  /\ Place(q, n) = Place(r, n) /\ CycleAt(q, n) = CycleAt(r, n)
             /\ Place(r, n) \in 0 .. Link - 1
             /\ (Place(r, n) = r.enq) <=> (n = k)
  <2>1. Place(q, n) = Place(r, n) /\ CycleAt(q, n) = CycleAt(r, n)
    BY <1>2 DEF Place, CycleAt
  <2>2. Place(r, n) \in 0 .. Link - 1
    BY <1>4, LinkNat DEF Place
  <2>3. (Place(r, n) = r.enq) <=> (n = k)
    BY <1>1, <1>4, LinkNat DEF Place
  <2> QED
    BY <2>1, <2>2, <2>3
<1>7. r.trb \in [0 .. Link - 1 -> [cycle : {0, 1}, td : Tds(W)]] /\ r.todo \in Seq(Tds(W))
  BY DEF RingType
<1>8. ASSUME NEW n \in 0 .. Link - 1
      PROVE  /\ q.trb[Place(q, n)].cycle = CycleAt(q, n) <=> n < k + 1
             /\ n < k + 1 => q.trb[Place(q, n)].td = q.todo[n + 1]
  <2>1. CASE n = k
    <3>1. q.trb[Place(q, n)] = [cycle |-> r.cycle, td |-> td]
      BY <1>3, <1>6, <1>7, <2>1
    <3>2. q.todo[n + 1] = td
      BY <1>11, <2>1
    <3>3. q.trb[Place(q, n)].cycle = CycleAt(q, n)
      BY <1>4, <1>6, <2>1, <3>1
    <3> QED
      BY <1>1, <2>1, <3>1, <3>2, <3>3
  <2>2. CASE n # k
    <3>1. q.trb[Place(q, n)] = r.trb[Place(r, n)]
      BY <1>3, <1>6, <1>7, <2>2
    <3>2. n < k => q.todo[n + 1] = r.todo[n + 1]
      BY <1>1, <1>11
    <3>3. n < k + 1 <=> n < k
      BY <1>1, <2>2
    <3> QED
      BY <1>0, <1>6, <3>1, <3>2, <3>3
  <2> QED
    BY <2>1, <2>2
<1>9. k + 1 <= Link /\ q.at \in 0 .. Link - 1
  BY <1>1, <1>2, <1>4, LinkNat
<1>10. RingOK(q)
  BY <1>1, <1>5, <1>8, <1>9 DEF RingOK
<1> QED
  BY <1>10 DEF q

\* What the controller takes first is what was queued first, and nothing if
\* nothing is left.
LEMMA DueIsQueued ==
  ASSUME NEW W, NEW r \in RingType(W), RingOK(r)
  PROVE  /\ Due(r, 0) <=> r.todo # <<>>
         /\ Due(r, 0) => r.trb[Place(r, 0)].td = Head(r.todo)
         /\ Place(r, 0) = r.at /\ CycleAt(r, 0) = r.ccs
<1>1. r.todo \in Seq(Tds(W)) /\ 0 \in 0 .. Link - 1
  BY LinkNat DEF RingType
<1>2. Len(r.todo) > 0 <=> r.todo # <<>>
  BY <1>1
<1>3. Place(r, 0) = r.at /\ CycleAt(r, 0) = r.ccs /\ Open(r, 0)
  BY LinkNat DEF RingOK, Place, CycleAt, Open
<1>4. Due(r, 0) <=> 0 < Len(r.todo)
  BY <1>1, <1>3 DEF Due, RingOK
<1>5. 0 < Len(r.todo) => r.trb[Place(r, 0)].td = r.todo[0 + 1]
  BY <1>1 DEF RingOK
<1> QED
  BY <1>1, <1>2, <1>3, <1>4, <1>5

\* The controller takes the first transfer and leaves the others in order.
LEMMA FetchedKeeps ==
  ASSUME NEW W, NEW r \in RingType(W), RingOK(r), r.todo # <<>>
  PROVE  RingOK(Fetched(r)) /\ Fetched(r).todo = Tail(r.todo)
<1> DEFINE f == Fetched(r)
           k == Len(r.todo)
           over == r.at + 1 = Link /\ r.link = r.ccs
<1>1. r.todo \in Seq(Tds(W)) /\ k \in 1 .. Link
  BY LinkNat DEF RingType, RingOK
<1>2. Place(r, 0) = r.at /\ CycleAt(r, 0) = r.ccs
  BY DueIsQueued
<1>3. /\ f.at = IF over THEN 0 ELSE r.at + 1
      /\ f.ccs = IF over THEN 1 - r.ccs ELSE r.ccs
      /\ f.todo = Tail(r.todo) /\ f.enq = r.enq /\ f.cycle = r.cycle /\ f.link = r.link
      /\ f.trb = [r.trb EXCEPT ![r.at].td = NoTd]
  BY <1>2 DEF Fetched, RingType
<1>4. Len(f.todo) = k - 1 /\ \A n \in 1 .. k - 1 : f.todo[n] = r.todo[n + 1]
  BY <1>1, <1>3
<1>5. /\ r.at \in 0 .. Link - 1 /\ r.ccs \in {0, 1} /\ r.link \in {0, 1}
      /\ r.enq = Place(r, k) /\ r.cycle = CycleAt(r, k)
      /\ (r.link = r.ccs) <=> (r.at + k >= Link)
  BY DEF RingType, RingOK
<1>6. over <=> r.at + 1 = Link
  BY <1>1, <1>5, LinkNat
<1>0. \A n \in 0 .. Link - 1 :
        /\ r.trb[Place(r, n)].cycle = CycleAt(r, n) <=> n < k
        /\ n < k => r.trb[Place(r, n)].td = r.todo[n + 1]
  BY DEF RingOK
<1> HIDE DEF f, k, over
<1>7. /\ f.at \in 0 .. Link - 1
      /\ f.enq = Place(f, k - 1) /\ f.cycle = CycleAt(f, k - 1)
      /\ f.link = f.ccs <=> f.at + (k - 1) >= Link
  <2>1. CASE r.at + 1 = Link
    <3>1. f.at = 0 /\ f.ccs = 1 - r.ccs
      BY <1>3, <1>6, <2>1
    <3>2. r.enq = k - 1 /\ r.cycle = 1 - r.ccs /\ r.link = r.ccs
      BY <1>1, <1>5, <2>1, LinkNat DEF Place, CycleAt
    <3>3. k - 1 < Link /\ f.link # f.ccs
      BY <1>1, <1>3, <1>5, <3>1, <3>2, LinkNat
    <3> QED
      BY <1>1, <1>3, <3>1, <3>2, <3>3, LinkNat DEF Place, CycleAt
  <2>2. CASE r.at + 1 < Link
    <3>1. f.at = r.at + 1 /\ f.ccs = r.ccs
      BY <1>3, <1>6, <2>2, <1>5, LinkNat
    <3>2. f.at + (k - 1) = r.at + k
      BY <1>1, <1>5, <3>1, LinkNat
    <3> QED
      BY <1>1, <1>3, <1>5, <2>2, <3>1, <3>2, LinkNat DEF Place, CycleAt
  <2> QED
    BY <1>5, <2>1, <2>2, LinkNat
<1>8. r.trb \in [0 .. Link - 1 -> [cycle : {0, 1}, td : Tds(W)]]
  BY DEF RingType
<1>9. ASSUME NEW n \in 0 .. Link - 1
      PROVE  /\ f.trb[Place(f, n)].cycle = CycleAt(f, n) <=> n < k - 1
             /\ n < k - 1 => f.trb[Place(f, n)].td = f.todo[n + 1]
  <2>1. CASE n = Link - 1
    <3>1. Place(f, n) = r.at /\ CycleAt(f, n) = 1 - r.ccs
      BY <1>3, <1>5, <1>6, <2>1, LinkNat DEF Place, CycleAt
    <3>2. f.trb[r.at].cycle = r.trb[r.at].cycle
      BY <1>3, <1>5, <1>8
    <3>3. r.trb[r.at].cycle = r.ccs
      BY <1>0, <1>1, <1>2, LinkNat
    <3>4. f.trb[Place(f, n)].cycle # CycleAt(f, n)
      BY <1>5, <3>1, <3>2, <3>3
    <3>5. ~ (n < k - 1)
      BY <1>1, <2>1, LinkNat
    <3> QED
      BY <3>4, <3>5
  <2>2. CASE n < Link - 1
    <3>1. /\ n + 1 \in 0 .. Link - 1
          /\ Place(f, n) = Place(r, n + 1) /\ CycleAt(f, n) = CycleAt(r, n + 1)
          /\ Place(r, n + 1) # r.at /\ Place(r, n + 1) \in 0 .. Link - 1
      <4>1. n + 1 \in 0 .. Link - 1
        BY <2>2, LinkNat
      <4>2. Place(r, n + 1) # r.at /\ Place(r, n + 1) \in 0 .. Link - 1
        BY <1>5, <2>2, LinkNat DEF Place
      <4>3. CASE r.at + 1 = Link
        <5>1. f.at = 0 /\ f.ccs = 1 - r.ccs
          BY <1>3, <1>6, <4>3
        <5> QED
          BY <1>5, <2>2, <4>1, <4>2, <4>3, <5>1, LinkNat DEF Place, CycleAt
      <4>4. CASE r.at + 1 < Link
        <5>1. f.at = r.at + 1 /\ f.ccs = r.ccs
          BY <1>3, <1>6, <4>4, <1>5, LinkNat
        <5> QED
          BY <1>5, <2>2, <4>1, <4>2, <4>4, <5>1, LinkNat DEF Place, CycleAt
      <4> QED
        BY <1>5, <4>3, <4>4, LinkNat
    <3>2. f.trb[Place(f, n)] = r.trb[Place(r, n + 1)]
      BY <1>3, <1>8, <3>1
    <3>3. n < k - 1 <=> n + 1 < k
      BY <1>1
    <3>4. n < k - 1 => f.todo[n + 1] = r.todo[(n + 1) + 1]
      BY <1>1, <1>4
    <3> QED
      BY <1>0, <3>1, <3>2, <3>3, <3>4
  <2> QED
    BY <2>1, <2>2, LinkNat
<1>10. RingOK(f)
  BY <1>1, <1>4, <1>7, <1>9, LinkNat DEF RingOK
<1> QED
  BY <1>3, <1>10 DEF f

\* A ring that is in order by its places is in order for the controller.
LEMMA RingInOrder ==
  ASSUME NEW W, NEW r \in RingType(W), RingOK(r)
  PROVE  InOrder(r)
<1>1. r.todo \in Seq(Tds(W)) /\ Len(r.todo) \in 0 .. Link
  BY LinkNat DEF RingType, RingOK
<1>2. ASSUME NEW n \in 0 .. Len(r.todo) - 1
      PROVE  Due(r, n) /\ r.trb[Place(r, n)].td = r.todo[n + 1]
  <2>1. n \in 0 .. Link - 1 /\ n < Len(r.todo)
    BY <1>1, LinkNat
  <2>2. Open(r, n)
    BY <2>1, LinkNat, <1>1 DEF RingOK, Open
  <2> QED
    BY <2>1, <2>2 DEF RingOK, Due
<1>3. Len(r.todo) < Link => ~ Due(r, Len(r.todo))
  BY <1>1, LinkNat DEF RingOK, Due
<1> QED
  BY <1>1, <1>2, <1>3 DEF InOrder

-----------------------------------------------------------------------------
(* The event ring.                                                         *)

\* The n-th entry from the driver's place on, and the cycle of a new one there;
\* how many entries were read since the controller was told.
EventPlace(q, n) ==
  IF q.deq + n < EventSlots THEN q.deq + n ELSE q.deq + n - EventSlots
EventCycle(q, n) == IF q.deq + n < EventSlots THEN q.ccs ELSE 1 - q.ccs
Unsaid(q) == IF q.deq >= q.erdp THEN q.deq - q.erdp ELSE q.deq - q.erdp + EventSlots

EventsOK(q) ==
  /\ Unsaid(q) + Len(q.todo) <= EventSlots - 1
  /\ q.enq = EventPlace(q, Len(q.todo))
  /\ q.pcs = EventCycle(q, Len(q.todo))
  /\ \A n \in 0 .. EventSlots - 1 :
       /\ q.trb[EventPlace(q, n)].cycle = EventCycle(q, n) <=> n < Len(q.todo)
       /\ n < Len(q.todo) => q.trb[EventPlace(q, n)].event = q.todo[n + 1]

\* The event ring has at least two entries.
LEMMA EventNat == EventSlots \in Nat /\ EventSlots >= 2
BY RingAssumption

\* A cleared event ring is in order and empty.
LEMMA EmptyEventsOK ==
  EmptyEvents \in EventRingType /\ EventsOK(EmptyEvents) /\ EmptyEvents.todo = <<>>
<1>1. NoEvent \in Events
  BY DEF NoEvent, Events
<1>2. EmptyEvents \in EventRingType
  BY <1>1, EventNat DEF EmptyEvents, EventRingType
<1>3. EventsOK(EmptyEvents)
  BY EventNat DEF EmptyEvents, EventsOK, EventPlace, EventCycle, Unsaid
<1> QED
  BY <1>2, <1>3 DEF EmptyEvents

\* The driver finds the oldest event that was posted.
LEMMA NewIsPosted ==
  ASSUME NEW q \in EventRingType, EventsOK(q)
  PROVE  EventsInOrder(q)
<1>1. q.todo \in Seq(Events) /\ 0 \in 0 .. EventSlots - 1 /\ q.deq \in 0 .. EventSlots - 1
  BY EventNat DEF EventRingType
<1>2. Len(q.todo) > 0 <=> q.todo # <<>>
  BY <1>1
<1>3. EventPlace(q, 0) = q.deq /\ EventCycle(q, 0) = q.ccs
  BY <1>1, EventNat DEF EventPlace, EventCycle
<1>4. /\ q.trb[q.deq].cycle = q.ccs <=> 0 < Len(q.todo)
      /\ 0 < Len(q.todo) => q.trb[q.deq].event = q.todo[0 + 1]
  BY <1>1, <1>3 DEF EventsOK
<1> QED
  BY <1>1, <1>2, <1>4 DEF EventsInOrder, IsNew

\* Posting keeps the type of the event ring.
LEMMA PostedType ==
  ASSUME NEW q \in EventRingType, NEW ev \in Events
  PROVE  Posted(q, ev) \in EventRingType
<1>1. q.trb \in [0 .. EventSlots - 1 -> [cycle : {0, 1}, event : Events]]
  BY DEF EventRingType
<1>2. [cycle |-> q.pcs, event |-> ev] \in [cycle : {0, 1}, event : Events]
  BY DEF EventRingType
<1>3. [q.trb EXCEPT ![q.enq] = [cycle |-> q.pcs, event |-> ev]]
        \in [0 .. EventSlots - 1 -> [cycle : {0, 1}, event : Events]]
  BY <1>1, <1>2
<1>4. NextEvent(q.enq) \in 0 .. EventSlots - 1
  BY EventNat DEF EventRingType, NextEvent
<1>5. Append(q.todo, ev) \in Seq(Events)
  BY DEF EventRingType
<1>6. (IF q.enq = EventSlots - 1 THEN 1 - q.pcs ELSE q.pcs) \in {0, 1}
  BY DEF EventRingType
<1>7. Posted(q, ev) =
        [q EXCEPT !.trb = [q.trb EXCEPT ![q.enq] = [cycle |-> q.pcs, event |-> ev]],
                  !.pcs = IF q.enq = EventSlots - 1 THEN 1 - q.pcs ELSE q.pcs,
                  !.enq = NextEvent(q.enq), !.todo = Append(q.todo, ev)]
  BY DEF Posted
<1> QED
  BY <1>3, <1>4, <1>5, <1>6, <1>7 DEF EventRingType

\* An event posted on a ring with room comes after those that are there.
LEMMA PostedKeeps ==
  ASSUME NEW q \in EventRingType, NEW ev \in Events, EventsOK(q), HasRoom(q)
  PROVE  EventsOK(Posted(q, ev)) /\ Posted(q, ev).todo = Append(q.todo, ev)
<1> DEFINE p == Posted(q, ev)
           k == Len(q.todo)
<1>1. q.todo \in Seq(Events) /\ k \in Nat /\ Len(p.todo) = k + 1
  BY DEF EventRingType, Posted
<1>2. p.todo = Append(q.todo, ev)
  BY DEF EventRingType, Posted
<1>3. p.todo[k + 1] = ev /\ \A n \in 1 .. k : p.todo[n] = q.todo[n]
  BY <1>1, <1>2
<1>4. /\ p.deq = q.deq /\ p.ccs = q.ccs /\ p.erdp = q.erdp /\ p.enq = NextEvent(q.enq)
      /\ p.pcs = IF q.enq = EventSlots - 1 THEN 1 - q.pcs ELSE q.pcs
      /\ p.trb = [q.trb EXCEPT ![q.enq] = [cycle |-> q.pcs, event |-> ev]]
  BY DEF EventRingType, Posted
<1>5. /\ q.deq \in 0 .. EventSlots - 1 /\ q.ccs \in {0, 1} /\ q.erdp \in 0 .. EventSlots - 1
      /\ q.enq = EventPlace(q, k) /\ q.pcs = EventCycle(q, k)
      /\ Unsaid(q) + k <= EventSlots - 1
      /\ NextEvent(q.enq) # q.erdp
  BY DEF EventRingType, EventsOK, HasRoom
<1>6. \A n \in 0 .. EventSlots - 1 :
        /\ q.trb[EventPlace(q, n)].cycle = EventCycle(q, n) <=> n < k
        /\ n < k => q.trb[EventPlace(q, n)].event = q.todo[n + 1]
  BY DEF EventsOK
<1>7. q.trb \in [0 .. EventSlots - 1 -> [cycle : {0, 1}, event : Events]]
  BY DEF EventRingType
<1> HIDE DEF p, k
<1>8. Unsaid(q) + k < EventSlots - 1 /\ k < EventSlots - 1
  <2>1. Unsaid(q) \in 0 .. EventSlots - 1
    BY <1>5, EventNat DEF Unsaid
  <2>2. ASSUME Unsaid(q) + k = EventSlots - 1 PROVE FALSE
    <3>1. CASE q.deq >= q.erdp /\ q.erdp = 0
      <4>1. q.deq + k = EventSlots - 1
        BY <1>1, <1>5, <2>2, <3>1, EventNat DEF Unsaid
      <4>2. q.enq = EventSlots - 1
        BY <1>1, <1>5, <4>1, EventNat DEF EventPlace
      <4> QED
        BY <1>5, <3>1, <4>2 DEF NextEvent
    <3>2. CASE q.deq >= q.erdp /\ q.erdp > 0
      <4>1. q.deq + k = q.erdp + EventSlots - 1
        BY <1>1, <1>5, <2>2, <3>2, EventNat DEF Unsaid
      <4>2. q.enq = q.erdp - 1
        BY <1>1, <1>5, <3>2, <4>1, EventNat DEF EventPlace
      <4> QED
        BY <1>5, <3>2, <4>2, EventNat DEF NextEvent
    <3>3. CASE q.deq < q.erdp
      <4>1. q.deq + k = q.erdp - 1
        <5>1. Unsaid(q) = q.deq - q.erdp + EventSlots
          BY <1>5, <3>3 DEF Unsaid
        <5>2. k \in Nat /\ q.deq \in Nat /\ q.erdp \in Nat
          BY <1>1, <1>5
        <5> QED
          BY <2>2, <5>1, <5>2, EventNat
      <4>2. q.enq = q.erdp - 1
        <5>1. q.deq + k < EventSlots
          BY <1>5, <4>1, EventNat
        <5> QED
          BY <1>5, <4>1, <5>1 DEF EventPlace
      <4> QED
        BY <1>5, <3>3, <4>2, EventNat DEF NextEvent
    <3> QED
      BY <1>5, <3>1, <3>2, <3>3
  <2> QED
    BY <1>1, <1>5, <2>1, <2>2, EventNat
<1>9. p.enq = EventPlace(p, k + 1) /\ p.pcs = EventCycle(p, k + 1)
  <2>1. CASE q.deq + k < EventSlots - 1
    <3>1. q.enq = q.deq + k /\ q.pcs = q.ccs
      <4>1. q.deq + k < EventSlots
        BY <1>1, <1>5, <2>1, EventNat
      <4> QED
        BY <1>5, <4>1 DEF EventPlace, EventCycle
    <3>2. p.enq = q.deq + k + 1 /\ p.pcs = q.ccs
      <4>1. q.enq # EventSlots - 1
        BY <1>1, <1>5, <2>1, <3>1, EventNat
      <4> QED
        BY <1>4, <3>1, <4>1 DEF NextEvent
    <3>3. p.deq + (k + 1) < EventSlots /\ p.deq + (k + 1) = q.deq + k + 1
      <4>1. p.deq = q.deq /\ q.deq \in Nat
        BY <1>4, <1>5
      <4> QED
        BY <1>1, <2>1, <4>1, EventNat
    <3> QED
      BY <1>4, <3>2, <3>3 DEF EventPlace, EventCycle
  <2>2. CASE q.deq + k = EventSlots - 1
    BY <2>2, <1>1, <1>4, <1>5, EventNat DEF EventPlace, EventCycle, NextEvent
  <2>3. CASE q.deq + k > EventSlots - 1
    BY <2>3, <1>1, <1>4, <1>5, <1>8, EventNat DEF EventPlace, EventCycle, NextEvent
  <2> QED
    BY <2>1, <2>2, <2>3, <1>1, <1>5, EventNat
<1>10. ASSUME NEW n \in 0 .. EventSlots - 1
       PROVE  /\ p.trb[EventPlace(p, n)].cycle = EventCycle(p, n) <=> n < k + 1
              /\ n < k + 1 => p.trb[EventPlace(p, n)].event = p.todo[n + 1]
  <2>1. EventPlace(p, n) = EventPlace(q, n) /\ EventCycle(p, n) = EventCycle(q, n)
    BY <1>4 DEF EventPlace, EventCycle
  <2>2. EventPlace(q, n) \in 0 .. EventSlots - 1
    BY <1>5, EventNat DEF EventPlace
  <2>3. (EventPlace(q, n) = q.enq) <=> (n = k)
    BY <1>1, <1>5, <1>8, EventNat DEF EventPlace
  <2>4. CASE n = k
    <3>1. p.trb[EventPlace(p, n)] = [cycle |-> q.pcs, event |-> ev]
      BY <1>4, <1>7, <2>1, <2>2, <2>3, <2>4
    <3>2. p.trb[EventPlace(p, n)].cycle = EventCycle(p, n)
      BY <1>5, <2>1, <2>4, <3>1
    <3>3. p.todo[n + 1] = ev
      BY <1>3, <2>4
    <3> QED
      BY <1>1, <2>4, <3>1, <3>2, <3>3
  <2>5. CASE n # k
    <3>1. p.trb[EventPlace(p, n)] = q.trb[EventPlace(q, n)]
      BY <1>4, <1>7, <2>1, <2>2, <2>3, <2>5
    <3>2. n < k => p.todo[n + 1] = q.todo[n + 1]
      BY <1>1, <1>3
    <3>3. n < k + 1 <=> n < k
      BY <1>1, <2>5
    <3> QED
      BY <1>6, <2>1, <3>1, <3>2, <3>3
  <2> QED
    BY <2>4, <2>5
<1>11. Unsaid(p) + (k + 1) <= EventSlots - 1
  <2>1. Unsaid(p) = Unsaid(q)
    BY <1>4 DEF Unsaid
  <2>2. Unsaid(q) \in Int
    BY <1>5, EventNat DEF Unsaid
  <2> QED
    BY <1>1, <1>8, <2>1, <2>2, EventNat
<1>12. EventsOK(p)
  BY <1>1, <1>9, <1>10, <1>11 DEF EventsOK
<1> QED
  BY <1>2, <1>12 DEF p

\* So does taking an event.
LEMMA TakenType ==
  ASSUME NEW q \in EventRingType
  PROVE  Taken(q) \in EventRingType
<1>1. q.trb \in [0 .. EventSlots - 1 -> [cycle : {0, 1}, event : Events]]
      /\ q.deq \in 0 .. EventSlots - 1
  BY DEF EventRingType
<1>2. [q.trb[q.deq] EXCEPT !.event = NoEvent] \in [cycle : {0, 1}, event : Events]
  <2>1. NoEvent \in Events
    BY DEF NoEvent, Events
  <2>2. q.trb[q.deq] \in [cycle : {0, 1}, event : Events]
    BY <1>1
  <2> HIDE DEF Events
  <2> QED
    BY <2>1, <2>2
<1>3. [q.trb EXCEPT ![q.deq].event = NoEvent]
        \in [0 .. EventSlots - 1 -> [cycle : {0, 1}, event : Events]]
  BY <1>1, <1>2
<1>4. NextEvent(q.deq) \in 0 .. EventSlots - 1
  BY <1>1, EventNat DEF NextEvent
<1>5. (IF q.todo = <<>> THEN q.todo ELSE Tail(q.todo)) \in Seq(Events)
  BY DEF EventRingType
<1>6. (IF q.deq = EventSlots - 1 THEN 1 - q.ccs ELSE q.ccs) \in {0, 1}
  BY DEF EventRingType
<1>7. Taken(q) =
        [q EXCEPT !.trb = [q.trb EXCEPT ![q.deq].event = NoEvent],
                  !.ccs = IF q.deq = EventSlots - 1 THEN 1 - q.ccs ELSE q.ccs,
                  !.deq = NextEvent(q.deq),
                  !.todo = IF q.todo = <<>> THEN q.todo ELSE Tail(q.todo)]
  BY DEF Taken
<1> QED
  BY <1>3, <1>4, <1>5, <1>6, <1>7 DEF EventRingType

\* The driver takes the first event and leaves the others in order.
LEMMA TakenKeeps ==
  ASSUME NEW q \in EventRingType, EventsOK(q), q.todo # <<>>
  PROVE  EventsOK(Taken(q)) /\ Taken(q).todo = Tail(q.todo)
<1> DEFINE t == Taken(q)
           k == Len(q.todo)
<1>1. q.todo \in Seq(Events) /\ k \in Nat /\ k > 0 /\ k <= EventSlots - 1
  BY EventNat DEF EventRingType, EventsOK, Unsaid
<1>2. t.todo = Tail(q.todo)
  BY DEF EventRingType, Taken
<1>3. Len(t.todo) = k - 1 /\ \A n \in 1 .. k - 1 : t.todo[n] = q.todo[n + 1]
  BY <1>1, <1>2
<1>4. /\ t.deq = NextEvent(q.deq) /\ t.erdp = q.erdp /\ t.enq = q.enq /\ t.pcs = q.pcs
      /\ t.ccs = IF q.deq = EventSlots - 1 THEN 1 - q.ccs ELSE q.ccs
      /\ t.trb = [q.trb EXCEPT ![q.deq].event = NoEvent]
  BY DEF EventRingType, Taken
<1>5. /\ q.deq \in 0 .. EventSlots - 1 /\ q.ccs \in {0, 1} /\ q.erdp \in 0 .. EventSlots - 1
      /\ q.enq = EventPlace(q, k) /\ q.pcs = EventCycle(q, k)
      /\ Unsaid(q) + k <= EventSlots - 1
  BY DEF EventRingType, EventsOK
<1>6. \A n \in 0 .. EventSlots - 1 :
        /\ q.trb[EventPlace(q, n)].cycle = EventCycle(q, n) <=> n < k
        /\ n < k => q.trb[EventPlace(q, n)].event = q.todo[n + 1]
  BY DEF EventsOK
<1>7. q.trb \in [0 .. EventSlots - 1 -> [cycle : {0, 1}, event : Events]]
  BY DEF EventRingType
<1> HIDE DEF t, k
<1>8. \/ q.deq = EventSlots - 1 /\ t.deq = 0 /\ t.ccs = 1 - q.ccs
      \/ q.deq < EventSlots - 1 /\ t.deq = q.deq + 1 /\ t.ccs = q.ccs
  BY <1>4, <1>5, EventNat DEF NextEvent
<1>9. t.enq = EventPlace(t, k - 1) /\ t.pcs = EventCycle(t, k - 1)
  <2>1. CASE q.deq = EventSlots - 1
    BY <2>1, <1>1, <1>4, <1>5, <1>8, EventNat DEF EventPlace, EventCycle
  <2>2. CASE q.deq < EventSlots - 1
    BY <2>2, <1>1, <1>4, <1>5, <1>8, EventNat DEF EventPlace, EventCycle
  <2> QED
    BY <2>1, <2>2, <1>5, EventNat
<1>10. ASSUME NEW n \in 0 .. EventSlots - 1
       PROVE  /\ t.trb[EventPlace(t, n)].cycle = EventCycle(t, n) <=> n < k - 1
              /\ n < k - 1 => t.trb[EventPlace(t, n)].event = t.todo[n + 1]
  <2>1. CASE n = EventSlots - 1
    <3>1. EventPlace(t, n) = q.deq /\ EventCycle(t, n) = 1 - q.ccs
      BY <1>5, <1>8, <2>1, EventNat DEF EventPlace, EventCycle
    <3>2. EventPlace(q, 0) = q.deq /\ EventCycle(q, 0) = q.ccs /\ 0 \in 0 .. EventSlots - 1
      BY <1>5, EventNat DEF EventPlace, EventCycle
    <3>3. q.trb[q.deq].cycle = q.ccs
      BY <1>1, <1>6, <3>2
    <3>4. t.trb[q.deq].cycle = q.trb[q.deq].cycle
      BY <1>4, <1>5, <1>7
    <3>5. t.trb[EventPlace(t, n)].cycle # EventCycle(t, n)
      BY <1>5, <3>1, <3>3, <3>4
    <3>6. ~ (n < k - 1)
      BY <1>1, <2>1, EventNat
    <3> QED
      BY <3>5, <3>6
  <2>2. CASE n < EventSlots - 1
    <3>1. n + 1 \in 0 .. EventSlots - 1
      BY <2>2, EventNat
    <3>2. /\ EventPlace(t, n) = EventPlace(q, n + 1) /\ EventCycle(t, n) = EventCycle(q, n + 1)
      <4>1. CASE q.deq = EventSlots - 1
        BY <4>1, <1>5, <1>8, <2>2, EventNat DEF EventPlace, EventCycle
      <4>2. CASE q.deq < EventSlots - 1
        BY <4>2, <1>5, <1>8, <2>2, EventNat DEF EventPlace, EventCycle
      <4> QED
        BY <4>1, <4>2, <1>5, EventNat
    <3>3. EventPlace(q, n + 1) # q.deq /\ EventPlace(q, n + 1) \in 0 .. EventSlots - 1
      BY <1>5, <2>2, EventNat DEF EventPlace
    <3>4. t.trb[EventPlace(t, n)] = q.trb[EventPlace(q, n + 1)]
      BY <1>4, <1>7, <3>2, <3>3
    <3>5. n < k - 1 <=> n + 1 < k
      BY <1>1
    <3>6. n < k - 1 => t.todo[n + 1] = q.todo[(n + 1) + 1]
      BY <1>1, <1>3
    <3> QED
      BY <1>6, <3>1, <3>2, <3>4, <3>5, <3>6
  <2> QED
    BY <2>1, <2>2, EventNat
<1>11. Unsaid(t) + (k - 1) <= EventSlots - 1
  BY <1>1, <1>4, <1>5, <1>8, EventNat DEF Unsaid
<1>12. EventsOK(t)
  BY <1>3, <1>9, <1>10, <1>11 DEF EventsOK
<1> QED
  BY <1>2, <1>12 DEF t

\* Telling the controller how far the driver is only makes room.
LEMMA SaidKeeps ==
  ASSUME NEW q \in EventRingType, EventsOK(q)
  PROVE  /\ [q EXCEPT !.erdp = q.deq] \in EventRingType
         /\ EventsOK([q EXCEPT !.erdp = q.deq])
         /\ [q EXCEPT !.erdp = q.deq].todo = q.todo
<1> DEFINE p == [q EXCEPT !.erdp = q.deq]
<1>1. p \in EventRingType
  BY DEF EventRingType
<1>2. /\ p.trb = q.trb /\ p.enq = q.enq /\ p.pcs = q.pcs /\ p.deq = q.deq /\ p.ccs = q.ccs
      /\ p.todo = q.todo /\ p.erdp = q.deq
  BY DEF EventRingType
<1>3. Len(q.todo) \in Nat /\ q.deq \in 0 .. EventSlots - 1 /\ q.erdp \in 0 .. EventSlots - 1
  BY DEF EventRingType
<1> HIDE DEF p
<1>4. Unsaid(p) + Len(p.todo) <= EventSlots - 1
  BY <1>2, <1>3, EventNat DEF Unsaid, EventsOK
<1>5. EventsOK(p)
  BY <1>2, <1>4 DEF EventsOK, EventPlace, EventCycle
<1> QED
  BY <1>1, <1>2, <1>5 DEF p

=============================================================================
