---------------------------- MODULE XusbCtrlProofs ----------------------------
(***************************************************************************)
(* The control endpoint and the event ring, for rings of every size and    *)
(* every host: the state is of its type, events and control stages are     *)
(* taken as they were queued, and the endpoint counts as quiet exactly     *)
(* when it is.                                                             *)
(***************************************************************************)
EXTENDS XusbRingProofs

Stages == {"data", "status"}

IsCtrl(ev) == ev.type = "transfer" /\ ev.ep = "ctrl"

\* None or exactly one of the events s is of a control transfer.
NoCtrl(s)  == \A i \in 1 .. Len(s) : ~ IsCtrl(s[i])
OneCtrl(s) == \E i \in 1 .. Len(s) :
                IsCtrl(s[i]) /\ \A j \in 1 .. Len(s) : IsCtrl(s[j]) => j = i

\* The control endpoint is quiet, has one stage to do, or has one to be told of.
CtrlOK(r, s) ==
  \/ r.todo = <<>> /\ NoCtrl(s) /\ r.enq = r.deq
  \/ Len(r.todo) = 1 /\ NoCtrl(s) /\ r.enq = Advance(r.deq)
  \/ r.todo = <<>> /\ OneCtrl(s) /\ r.enq = Advance(r.deq)

CtrlInv ==
  /\ TypeOK
  /\ RingOK(xotg.ep0)
  /\ EventsOK(events)
  /\ CtrlOK(xotg.ep0, events.todo)
  /\ op.at = "batch" => events.todo # <<>>

-----------------------------------------------------------------------------
(* The invariant implies the properties.                                   *)

\* The entry after an entry is another one.
LEMMA AdvanceMoves ==
  ASSUME NEW i \in 0 .. Link - 1
  PROVE  Advance(i) # i /\ Advance(i) \in 0 .. Link - 1
BY LinkNat DEF Advance

\* The ring of the control endpoint has its type.
LEMMA Ep0Type ==
  ASSUME NEW x \in XotgType
  PROVE  x.ep0 \in RingType(Stages)
BY DEF XotgType, Stages

\* The invariant implies the order of the rings.
LEMMA InvInOrder ==
  ASSUME CtrlInv
  PROVE  ControlInOrder
<1>1. xotg.ep0 \in RingType(Stages) /\ events \in EventRingType
  BY Ep0Type DEF CtrlInv, TypeOK
<1>2. InOrder(xotg.ep0)
  BY <1>1, RingInOrder DEF CtrlInv
<1>3. EventsInOrder(events)
  BY <1>1, NewIsPosted DEF CtrlInv
<1> QED
  BY <1>2, <1>3 DEF ControlInOrder

\* The invariant implies the exactness of the guard.
LEMMA InvExact ==
  ASSUME CtrlInv
  PROVE  ControlExact
<1> DEFINE pending == {i \in DOMAIN events.todo : OfControl(i)}
<1>1. /\ xotg.ep0.todo \in Seq(Tds(Stages)) /\ events.todo \in Seq(Events)
      /\ xotg.ep0.deq \in 0 .. Link - 1
  BY Ep0Type DEF CtrlInv, TypeOK, RingType, EventRingType
<1>2. Advance(xotg.ep0.deq) # xotg.ep0.deq
  BY <1>1, AdvanceMoves
<1>3. DOMAIN events.todo = 1 .. Len(events.todo)
  BY <1>1
<1>4. \A i : OfControl(i) <=> IsCtrl(events.todo[i])
  BY DEF OfControl, IsCtrl
<1>5. NoCtrl(events.todo) <=> pending = {}
  BY <1>3, <1>4 DEF NoCtrl
<1>6. OneCtrl(events.todo) => pending # {} /\ \A i, j \in pending : i = j
  <2>1. \A i : i \in pending <=> i \in 1 .. Len(events.todo) /\ IsCtrl(events.todo[i])
    BY <1>3, <1>4
  <2> HIDE DEF pending
  <2> QED
    BY <2>1 DEF OneCtrl
<1>7. /\ xotg.ep0.todo = <<>> => Len(xotg.ep0.todo) = 0
      /\ Len(xotg.ep0.todo) = 1 => xotg.ep0.todo # <<>>
  <2>1. Len(<<>>) = 0
    OBVIOUS
  <2> QED
    BY <2>1
<1>8. CtrlOK(xotg.ep0, events.todo)
  BY DEF CtrlInv
<1> HIDE DEF pending
<1>9. CASE xotg.ep0.todo = <<>> /\ NoCtrl(events.todo) /\ xotg.ep0.enq = xotg.ep0.deq
  BY <1>5, <1>7, <1>9 DEF ControlExact, Quiet, pending
<1>10. CASE /\ Len(xotg.ep0.todo) = 1 /\ NoCtrl(events.todo)
            /\ xotg.ep0.enq = Advance(xotg.ep0.deq)
  BY <1>2, <1>5, <1>7, <1>10 DEF ControlExact, Quiet, pending
<1>11. CASE /\ xotg.ep0.todo = <<>> /\ OneCtrl(events.todo)
            /\ xotg.ep0.enq = Advance(xotg.ep0.deq)
  BY <1>2, <1>6, <1>7, <1>11 DEF ControlExact, Quiet, pending
<1> QED
  BY <1>8, <1>9, <1>10, <1>11 DEF CtrlOK

-----------------------------------------------------------------------------
(* The events of control transfers.                                        *)

\* An event of another endpoint changes nothing for the control endpoint.
LEMMA PostedOther ==
  ASSUME NEW s \in Seq(Events), NEW ev \in Events, ~ IsCtrl(ev), NEW r, CtrlOK(r, s)
  PROVE  CtrlOK(r, Append(s, ev))
<1>1. /\ Len(Append(s, ev)) = Len(s) + 1 /\ Append(s, ev)[Len(s) + 1] = ev
      /\ \A i \in 1 .. Len(s) : Append(s, ev)[i] = s[i]
  OBVIOUS
<1>2. \A i \in 1 .. Len(s) + 1 : IsCtrl(Append(s, ev)[i]) => i \in 1 .. Len(s) /\ IsCtrl(s[i])
  BY <1>1
<1>3. NoCtrl(s) => NoCtrl(Append(s, ev))
  BY <1>1, <1>2 DEF NoCtrl
<1>4. OneCtrl(s) => OneCtrl(Append(s, ev))
  <2> SUFFICES ASSUME NEW i \in 1 .. Len(s), IsCtrl(s[i]),
                      \A j \in 1 .. Len(s) : IsCtrl(s[j]) => j = i
               PROVE  OneCtrl(Append(s, ev))
    BY DEF OneCtrl
  <2>1. i \in 1 .. Len(Append(s, ev)) /\ IsCtrl(Append(s, ev)[i])
    BY <1>1
  <2>2. \A j \in 1 .. Len(Append(s, ev)) : IsCtrl(Append(s, ev)[j]) => j = i
    BY <1>1, <1>2
  <2> QED
    BY <2>1, <2>2 DEF OneCtrl
<1> QED
  BY <1>3, <1>4 DEF CtrlOK

\* After an event of the control endpoint there is one to be handled.
LEMMA PostedCtrl ==
  ASSUME NEW s \in Seq(Events), NEW ev \in Events, IsCtrl(ev), NoCtrl(s)
  PROVE  OneCtrl(Append(s, ev))
<1>1. /\ Len(Append(s, ev)) = Len(s) + 1 /\ Append(s, ev)[Len(s) + 1] = ev
      /\ \A i \in 1 .. Len(s) : Append(s, ev)[i] = s[i]
  OBVIOUS
<1>2. \A i \in 1 .. Len(s) + 1 : IsCtrl(Append(s, ev)[i]) => i = Len(s) + 1
  BY <1>1 DEF NoCtrl
<1>3. Len(s) + 1 \in 1 .. Len(s) + 1
  OBVIOUS
<1> QED
  BY <1>1, <1>2, <1>3 DEF OneCtrl

\* Nor does handling one.
LEMMA TakenOther ==
  ASSUME NEW s \in Seq(Events), s # <<>>, ~ IsCtrl(Head(s)), NEW r, CtrlOK(r, s)
  PROVE  CtrlOK(r, Tail(s))
<1>1. /\ Len(s) \in Nat /\ Len(s) > 0 /\ Len(Tail(s)) = Len(s) - 1 /\ Head(s) = s[1]
      /\ \A i \in 1 .. Len(s) - 1 : Tail(s)[i] = s[i + 1]
  OBVIOUS
<1>2. NoCtrl(s) => NoCtrl(Tail(s))
  BY <1>1 DEF NoCtrl
<1>3. OneCtrl(s) => OneCtrl(Tail(s))
  <2> SUFFICES ASSUME NEW i \in 1 .. Len(s), IsCtrl(s[i]),
                      \A j \in 1 .. Len(s) : IsCtrl(s[j]) => j = i
               PROVE  OneCtrl(Tail(s))
    BY DEF OneCtrl
  <2>1. i # 1
    BY <1>1
  <2>2. i - 1 \in 1 .. Len(s) - 1 /\ (i - 1) + 1 = i
    BY <1>1, <2>1
  <2>3. IsCtrl(Tail(s)[i - 1])
    BY <1>1, <2>2
  <2>4. ASSUME NEW j \in 1 .. Len(s) - 1, IsCtrl(Tail(s)[j])
        PROVE  j = i - 1
    <3>1. IsCtrl(s[j + 1]) /\ j + 1 \in 1 .. Len(s)
      BY <1>1, <2>4
    <3> QED
      BY <3>1
  <2> QED
    BY <1>1, <2>2, <2>3, <2>4 DEF OneCtrl
<1> QED
  BY <1>2, <1>3 DEF CtrlOK

\* After it was handled there is none.
LEMMA TakenCtrl ==
  ASSUME NEW s \in Seq(Events), s # <<>>, IsCtrl(Head(s)), OneCtrl(s)
  PROVE  NoCtrl(Tail(s))
<1>1. /\ Len(s) \in Nat /\ Len(s) > 0 /\ Len(Tail(s)) = Len(s) - 1 /\ Head(s) = s[1]
      /\ \A i \in 1 .. Len(s) - 1 : Tail(s)[i] = s[i + 1]
  OBVIOUS
<1>2. \A j \in 1 .. Len(s) : IsCtrl(s[j]) => j = 1
  BY <1>1 DEF OneCtrl
<1>3. \A i \in 1 .. Len(s) - 1 : i + 1 \in 1 .. Len(s) /\ i + 1 # 1
  BY <1>1
<1> QED
  BY <1>1, <1>2, <1>3 DEF NoCtrl

-----------------------------------------------------------------------------
(* What the handlers do to the driver's state.                             *)

\* y is of its type, and on the control endpoint nothing changed or one stage was
\* queued while the endpoint was quiet.
Answers(x, y) ==
  /\ y \in XotgType
  /\ \/ y.ep0 = x.ep0
     \/ Quiet(x) /\ \E td \in Tds(Stages) : y.ep0 = Queued(x.ep0, td)

\* A stage can be queued.
LEMMA StageType ==
  ASSUME NEW x \in XotgType, NEW w \in Stages
  PROVE  Td(w, x.seq) \in Tds(Stages) /\ Queued(x.ep0, Td(w, x.seq)) \in RingType(Stages)
<1>1. Td(w, x.seq) \in Tds(Stages)
  BY DEF XotgType, Td, Tds
<1> QED
  BY <1>1, Ep0Type, QueuedType

\* A status stage is queued at once.
LEMMA StatusOutType ==
  ASSUME NEW x \in XotgType
  PROVE  /\ StatusOut(x) \in XotgType
         /\ StatusOut(x).ep0 = Queued(x.ep0, Td("status", x.seq))
<1>1. Queued(x.ep0, Td("status", x.seq)) \in RingType({"data", "status"})
  BY StageType DEF Stages
<1>2. StatusOut(x) = [x EXCEPT !.ep0 = Queued(x.ep0, Td("status", x.seq)), !.wait = "status"]
  BY DEF StatusOut
<1> QED
  BY <1>1, <1>2 DEF XotgType

\* The status of a request is queued if the endpoint is quiet.
LEMMA StatusInAnswers ==
  ASSUME NEW x \in XotgType
  PROVE  Answers(x, StatusIn(x))
BY StatusOutType, StageType DEF StatusIn, Answers, Stages

\* So is its data stage.
LEMMA DataInAnswers ==
  ASSUME NEW x \in XotgType
  PROVE  Answers(x, DataIn(x))
<1>1. Queued(x.ep0, Td("data", x.seq)) \in RingType({"data", "status"})
  BY StageType DEF Stages
<1>2. CASE Quiet(x)
  <2>1. DataIn(x) = [x EXCEPT !.ep0 = Queued(x.ep0, Td("data", x.seq)), !.wait = "data"]
    BY <1>2 DEF DataIn
  <2>2. DataIn(x) \in XotgType /\ DataIn(x).ep0 = Queued(x.ep0, Td("data", x.seq))
    BY <1>1, <2>1 DEF XotgType
  <2> QED
    BY <1>2, <2>2, StageType DEF Answers, Stages
<1>3. CASE ~ Quiet(x)
  BY <1>3 DEF DataIn, Answers
<1> QED
  BY <1>2, <1>3

\* Disabling the bulk endpoints leaves the control endpoint alone.
LEMMA DisabledType ==
  ASSUME NEW x \in XotgType
  PROVE  Disabled(x) \in XotgType /\ Disabled(x).ep0 = x.ep0
<1>1. (IF x.on THEN Eps ELSE x.halted) \in SUBSET Eps
  BY DEF XotgType
<1>2. Disabled(x) = [x EXCEPT !.halted = IF x.on THEN Eps ELSE x.halted, !.on = FALSE,
                              !.config = 0, !.lun_set = FALSE, !.state = "default"]
  BY DEF Disabled
<1> QED
  BY <1>1, <1>2 DEF XotgType

\* So does setting them up.
LEMMA OpenedType ==
  ASSUME NEW x \in XotgType
  PROVE  Opened(x) \in XotgType /\ Opened(x).ep0 = x.ep0
<1>1. x.bulk \in [Eps -> RingType(Bufs)]
  BY DEF XotgType
<1>2. [d \in Eps |-> Reloaded(x.bulk[d])] \in [Eps -> RingType(Bufs)]
  BY <1>1, ReloadedType
<1>3. Opened(x) = [x EXCEPT !.bulk = [d \in Eps |-> Reloaded(x.bulk[d])],
                            !.halted = {}, !.on = TRUE]
  BY DEF Opened
<1> QED
  BY <1>2, <1>3 DEF XotgType

\* A request is answered on a quiet control endpoint or not at all.
LEMMA SetupAnswers ==
  ASSUME NEW x0 \in XotgType, NEW ev \in Events, ev.type = "setup"
  PROVE  Answers(x0, Setup(x0, ev))
<1> DEFINE x == [x0 EXCEPT !.seq = ev.seq, !.stalled = FALSE]
           y == Setup(x0, ev)
<1>1. ev.req \in Requests /\ ev.seq \in SeqNums
  BY DEF Events
<1>2. x \in XotgType /\ x.ep0 = x0.ep0
  BY <1>1 DEF XotgType
<1>3. ASSUME NEW z \in XotgType, z.ep0 = x0.ep0, Answers(z, y)
      PROVE  Answers(x0, y)
  BY <1>3 DEF Answers, Quiet
<1> HIDE DEF x
<1>4. CASE ev.req = "address"
  <2>1. y = [StatusIn(x) EXCEPT !.state = "addressed_wait"]
    BY <1>4 DEF Setup, SetAddress, x
  <2>2. Answers(x, StatusIn(x))
    BY <1>2, StatusInAnswers
  <2>3. y \in XotgType /\ y.ep0 = StatusIn(x).ep0
    BY <2>1, <2>2 DEF Answers, XotgType
  <2> QED
    BY <1>2, <1>3, <2>2, <2>3 DEF Answers
<1>5. CASE ev.req = "configure"
  <2> DEFINE z == [Opened(x) EXCEPT !.config = 1]
  <2>1. y = [StatusIn(z) EXCEPT !.state = "configured_wait"]
    BY <1>5 DEF Setup, SetConfiguration, x
  <2>2. Opened(x) \in XotgType /\ Opened(x).ep0 = x0.ep0
    BY <1>2, OpenedType
  <2>3. z \in XotgType /\ z.ep0 = x0.ep0
    BY <2>2 DEF XotgType
  <2> HIDE DEF z
  <2>4. Answers(z, StatusIn(z))
    BY <2>3, StatusInAnswers
  <2>5. y \in XotgType /\ y.ep0 = StatusIn(z).ep0
    BY <2>1, <2>4 DEF Answers, XotgType
  <2> QED
    BY <1>3, <2>3, <2>4, <2>5 DEF Answers
<1>6. CASE ev.req = "unconfigure"
  <2>1. y = StatusIn(Disabled(x))
    BY <1>6 DEF Setup, SetConfiguration, x
  <2>2. Disabled(x) \in XotgType /\ Disabled(x).ep0 = x0.ep0
    BY <1>2, DisabledType
  <2> QED
    BY <1>3, <2>1, <2>2, StatusInAnswers
<1>7. CASE ev.req = "plain"
  BY <1>2, <1>3, <1>7, StatusInAnswers DEF Setup, x
<1>8. CASE ev.req = "halt"
  <2>1. y = StatusIn([x EXCEPT !.halted = Eps])
    BY <1>8 DEF Setup, x
  <2>2. [x EXCEPT !.halted = Eps] \in XotgType /\ [x EXCEPT !.halted = Eps].ep0 = x0.ep0
    BY <1>2 DEF XotgType
  <2> QED
    BY <1>3, <2>1, <2>2, StatusInAnswers
<1>9. CASE ev.req = "clear"
  <2>1. y = StatusIn([x EXCEPT !.halted = {}])
    BY <1>9 DEF Setup, x
  <2>2. [x EXCEPT !.halted = {}] \in XotgType /\ [x EXCEPT !.halted = {}].ep0 = x0.ep0
    BY <1>2 DEF XotgType
  <2> QED
    BY <1>3, <2>1, <2>2, StatusInAnswers
<1>10. CASE ev.req = "reset"
  <2>1. y = StatusIn([x EXCEPT !.reset_req = TRUE])
    BY <1>10 DEF Setup, BulkReset, x
  <2>2. [x EXCEPT !.reset_req = TRUE] \in XotgType /\ [x EXCEPT !.reset_req = TRUE].ep0 = x0.ep0
    BY <1>2 DEF XotgType
  <2> QED
    BY <1>3, <2>1, <2>2, StatusInAnswers
<1>11. CASE ev.req = "other"
  <2>1. y = x
    BY <1>11 DEF Setup, x
  <2> QED
    BY <1>2, <2>1 DEF Answers
<1>12. CASE ev.req = "descriptor"
  BY <1>2, <1>3, <1>12, DataInAnswers DEF Setup, GetDescriptor, x
<1>13. CASE ev.req = "max_lun" /\ x.lun_set
  <2>1. y = DataIn([x EXCEPT !.state = "lun_wait"])
    BY <1>13 DEF Setup, GetMaxLun, x
  <2>2. [x EXCEPT !.state = "lun_wait"] \in XotgType /\ [x EXCEPT !.state = "lun_wait"].ep0 = x0.ep0
    BY <1>2 DEF XotgType
  <2> QED
    BY <1>3, <2>1, <2>2, DataInAnswers
<1>14. CASE ev.req = "unknown" \/ (ev.req = "max_lun" /\ ~ x.lun_set)
  <2>1. y = Stall(x)
    BY <1>14 DEF Setup, GetMaxLun, x
  <2>2. y \in XotgType /\ y.ep0 = x0.ep0
    BY <1>2, <2>1 DEF Stall, XotgType
  <2> QED
    BY <2>2 DEF Answers
<1> QED
  BY <1>1, <1>4, <1>5, <1>6, <1>7, <1>8, <1>9, <1>10, <1>11, <1>12, <1>13, <1>14,
     CtrlAssumption

\* What an event of a control transfer leaves: the ring with its dequeue place
\* moved on, and perhaps the status stage queued.
LEMMA TransferCtrl ==
  ASSUME NEW x0 \in XotgType, NEW ev \in Events, IsCtrl(ev)
  PROVE  /\ Transfer(x0, ev) \in XotgType
         /\ \/ Transfer(x0, ev).ep0 = Retired(x0.ep0)
            \/ \E td \in Tds(Stages) : Transfer(x0, ev).ep0 = Queued(Retired(x0.ep0), td)
<1> DEFINE x == [x0 EXCEPT !.ep0 = Retired(x0.ep0)]
<1>1. Retired(x0.ep0) \in RingType({"data", "status"})
  BY Ep0Type, RetiredType DEF Stages
<1>2. x \in XotgType /\ x.ep0 = Retired(x0.ep0)
  BY <1>1 DEF XotgType
<1> HIDE DEF x
<1>3. CASE ev.code = "ok" /\ x.wait = "data"
  <2>1. Transfer(x0, ev) = StatusOut(x)
    BY <1>3 DEF Transfer, x, IsCtrl
  <2> QED
    BY <1>2, <2>1, StatusOutType, StageType DEF Stages
<1>4. CASE ev.code = "ok" /\ x.wait = "status"
  <2>1. Transfer(x0, ev) = [x EXCEPT !.state = StateAfter(x)]
    BY <1>4 DEF Transfer, x, IsCtrl
  <2>2. StateAfter(x) \in {"default", "addressed_wait", "addressed", "configured_wait",
                           "configured", "lun_wait", "lun_configured"}
    BY <1>2 DEF StateAfter, XotgType
  <2>3. Transfer(x0, ev) \in XotgType /\ Transfer(x0, ev).ep0 = x.ep0
    BY <1>2, <2>1, <2>2 DEF XotgType
  <2> QED
    BY <1>2, <2>3
<1>5. CASE ~ (ev.code = "ok" /\ x.wait = "data") /\ ~ (ev.code = "ok" /\ x.wait = "status")
  <2>1. Transfer(x0, ev) = x
    BY <1>5 DEF Transfer, x, IsCtrl
  <2> QED
    BY <1>2, <2>1
<1> QED
  BY <1>3, <1>4, <1>5

\* So does an event of theirs.
LEMMA TransferBulk ==
  ASSUME NEW x \in XotgType, NEW ev \in Events, ev.type = "transfer", ~ IsCtrl(ev)
  PROVE  Transfer(x, ev) \in XotgType /\ Transfer(x, ev).ep0 = x.ep0
<1>1. ev.ep \in Eps /\ ev.ep # "ctrl"
  BY DEF Events, IsCtrl
<1>2. x.bulk \in [Eps -> RingType(Bufs)]
  BY DEF XotgType
<1>3. Retired(x.bulk[ev.ep]) \in RingType(Bufs)
  BY <1>1, <1>2, RetiredType
<1>4. [x.bulk EXCEPT ![ev.ep] = Retired(x.bulk[ev.ep])] \in [Eps -> RingType(Bufs)]
  BY <1>2, <1>3
<1>5. Transfer(x, ev) = [x EXCEPT !.bulk = [x.bulk EXCEPT ![ev.ep] = Retired(x.bulk[ev.ep])]]
  BY <1>1 DEF Transfer
<1> QED
  BY <1>4, <1>5 DEF XotgType

-----------------------------------------------------------------------------
(* The steps.                                                              *)

\* A step that posts an event that is not of a control transfer, or none.
LEMMA PostKeeps ==
  ASSUME CtrlInv, NEW ev \in Events, ~ IsCtrl(ev), Post(ev)
  PROVE  /\ events' \in EventRingType /\ EventsOK(events') /\ events'.todo # <<>>
         /\ CtrlOK(xotg.ep0, events'.todo) /\ ip' \in BOOLEAN
<1>1. events \in EventRingType /\ EventsOK(events) /\ ip \in BOOLEAN
  BY DEF CtrlInv, TypeOK
<1>2. events' = Posted(events, ev) /\ HasRoom(events)
  BY DEF Post
<1>3. events.todo \in Seq(Events)
  BY <1>1 DEF EventRingType
<1>4. events'.todo = Append(events.todo, ev) /\ EventsOK(events') /\ events' \in EventRingType
  BY <1>1, <1>2, PostedKeeps, PostedType
<1>5. Append(events.todo, ev) # <<>>
  BY <1>3
<1>6. CtrlOK(xotg.ep0, events'.todo)
  BY <1>3, <1>4, PostedOther DEF CtrlInv
<1>7. ip' \in BOOLEAN
  BY <1>1 DEF Post
<1> QED
  BY <1>4, <1>5, <1>6, <1>7

\* The invariant holds at first.
LEMMA InitInv ==
  ASSUME Init
  PROVE  CtrlInv
<1>1. EmptyRing \in RingType({"data", "status"}) /\ RingOK(EmptyRing) /\ EmptyRing.todo = <<>>
  BY EmptyType
<1>2. [d \in Eps |-> EmptyRing] \in [Eps -> RingType(Bufs)]
  BY EmptyType
<1>3. 0 \in SeqNums /\ 0 \in 0 .. EventSlots - 1
  BY CtrlAssumption, EventNat DEF SeqNums
<1>4. NewXotg \in XotgType /\ NewXotg.ep0 = EmptyRing
  BY <1>1, <1>2, <1>3 DEF NewXotg, XotgType
<1>5. Idle \in [at : {"idle", "acked", "batch", "done"}, stop : 0 .. EventSlots - 1,
                res : {"ok", "timeout", "cycle", "seq_num", "port_cfg"}]
  BY <1>3 DEF Idle
<1>6. NoPort \in [speed : Speeds \cup {"none"}, flags : SUBSET PortFlags]
  BY DEF NoPort
<1>7. NewHost \in [stage : {"idle", "data", "status"}, req : Requests \cup {"none"},
               seq : SeqNums, conn : Nat, abandoned : Nat, did : SUBSET Told]
  BY <1>3 DEF NewHost
<1>8. TypeOK
  BY <1>4, <1>5, <1>6, <1>7, EmptyEventsOK DEF Init, TypeOK
<1>9. EmptyRing.enq = EmptyRing.deq /\ NoCtrl(<<>>)
  BY DEF EmptyRing, NoCtrl
<1>10. CtrlOK(xotg.ep0, events.todo)
  BY <1>1, <1>4, <1>9, EmptyEventsOK DEF CtrlOK, Init
<1> QED
  BY <1>1, <1>4, <1>8, <1>10, EmptyEventsOK DEF CtrlInv, Init, Idle

Ops == [at : {"idle", "acked", "batch", "done"}, stop : 0 .. EventSlots - 1,
        res : {"ok", "timeout", "cycle", "seq_num", "port_cfg"}]

\* A step that leaves the event ring and the control endpoint alone.
LEMMA QuietKeeps ==
  ASSUME CtrlInv, TypeOK', events' = events, xotg'.ep0 = xotg.ep0,
         op'.at = "batch" => events.todo # <<>>
  PROVE  CtrlInv'
BY DEF CtrlInv

\* The interrupt is acknowledged.
LEMMA OpInterruptKeeps ==
  ASSUME CtrlInv, OpInterrupt
  PROVE  CtrlInv'
<1>1. op' \in Ops /\ op'.at = "acked"
  BY DEF CtrlInv, TypeOK, OpInterrupt, Ops
<1>2. TypeOK'
  BY <1>1 DEF CtrlInv, TypeOK, OpInterrupt, Ops
<1> QED
  BY <1>1, <1>2, QuietKeeps DEF OpInterrupt

\* No interrupt came.
LEMMA OpTimeoutKeeps ==
  ASSUME CtrlInv, OpTimeout
  PROVE  CtrlInv'
<1>1. op' \in Ops /\ op'.at = "done"
  BY DEF CtrlInv, TypeOK, OpTimeout, Ops
<1>2. TypeOK'
  BY <1>1 DEF CtrlInv, TypeOK, OpTimeout, Ops
<1> QED
  BY <1>1, <1>2, QuietKeeps DEF OpTimeout

\* A batch begins only if there is an event.
LEMMA OpLookKeeps ==
  ASSUME CtrlInv, OpLook
  PROVE  CtrlInv'
<1>1. events.enq \in 0 .. EventSlots - 1
  BY DEF CtrlInv, TypeOK, EventRingType
<1>2. op' \in Ops /\ (op'.at = "batch" => IsNew(events))
  BY <1>1 DEF CtrlInv, TypeOK, OpLook, Ops
<1>3. IsNew(events) => events.todo # <<>>
  BY NewIsPosted DEF CtrlInv, TypeOK, EventsInOrder
<1>4. TypeOK'
  BY <1>2 DEF CtrlInv, TypeOK, OpLook, Ops
<1> QED
  BY <1>2, <1>3, <1>4, QuietKeeps DEF OpLook

\* The handler of one event, seen from the control endpoint.
LEMMA HandledKeeps ==
  ASSUME CtrlInv, OpEvent
  PROVE  /\ xotg' \in XotgType /\ RingOK(xotg'.ep0)
         /\ CtrlOK(xotg'.ep0, Taken(events).todo)
         /\ EventsOK(Taken(events)) /\ Taken(events) \in EventRingType
<1> DEFINE ev == events.trb[events.deq].event
           s  == events.todo
<1>1. /\ xotg \in XotgType /\ RingOK(xotg.ep0) /\ events \in EventRingType /\ EventsOK(events)
      /\ s # <<>> /\ CtrlOK(xotg.ep0, s) /\ port.speed \in Speeds \cup {"none"}
  BY DEF CtrlInv, TypeOK, OpEvent
<1>2. EventsOK(Taken(events)) /\ Taken(events).todo = Tail(s)
  BY <1>1, TakenKeeps
<1>3. Taken(events) \in EventRingType
  BY <1>1, TakenType
<1>4. s \in Seq(Events) /\ ev = Head(s)
  BY <1>1, NewIsPosted DEF EventsInOrder, EventRingType
<1>5. ev \in Events
  BY <1>1, <1>4
<1>6. xotg' = CASE ev.type = "transfer" -> Transfer(xotg, ev)
                [] ev.type = "setup" -> Setup(xotg, ev)
                [] ev.type = "port" /\ "CSC" \in Acknowledged(port.flags) ->
                     [xotg EXCEPT !.speed = port.speed]
                [] OTHER -> xotg
  BY DEF OpEvent
<1>7. xotg.ep0 \in RingType(Stages) /\ xotg.ep0.deq \in 0 .. Link - 1
  BY <1>1, Ep0Type DEF RingType
<1> HIDE DEF ev, s
<1>8. CASE IsCtrl(ev)
  <2>1. ev.type = "transfer" /\ xotg' = Transfer(xotg, ev)
    BY <1>6, <1>8 DEF IsCtrl
  <2>2. ~ NoCtrl(s)
    <3>1. Head(s) = s[1] /\ 1 \in 1 .. Len(s)
      BY <1>1, <1>4
    <3> QED
      BY <1>4, <1>8, <3>1 DEF NoCtrl
  <2>3. xotg.ep0.todo = <<>> /\ OneCtrl(s) /\ xotg.ep0.enq = Advance(xotg.ep0.deq)
    BY <1>1, <2>2 DEF CtrlOK
  <2>4. NoCtrl(Tail(s))
    BY <1>1, <1>4, <1>8, <2>3, TakenCtrl
  <2> DEFINE r == Retired(xotg.ep0)
  <2>5. /\ r \in RingType(Stages) /\ r.enq = r.deq /\ r.todo = <<>>
        /\ r.enq = Advance(xotg.ep0.deq)
    BY <1>7, <2>3, RetiredType DEF Retired, RingType
  <2>6. RingOK(r)
    <3>1. /\ r.at = xotg.ep0.at /\ r.ccs = xotg.ep0.ccs /\ r.todo = xotg.ep0.todo
          /\ r.enq = xotg.ep0.enq /\ r.cycle = xotg.ep0.cycle /\ r.link = xotg.ep0.link
          /\ r.trb = xotg.ep0.trb
      BY <1>7 DEF Retired, RingType
    <3> HIDE DEF r
    <3> QED
      BY <1>1, <3>1 DEF RingOK, Place, CycleAt
  <2>7. CtrlOK(r, Tail(s))
    BY <2>4, <2>5 DEF CtrlOK
  <2> HIDE DEF r
  <2>8. ASSUME NEW td \in Tds(Stages), xotg'.ep0 = Queued(r, td)
        PROVE  RingOK(xotg'.ep0) /\ CtrlOK(xotg'.ep0, Tail(s))
    <3>1. Len(<<>>) = 0
      OBVIOUS
    <3>2. RingOK(xotg'.ep0)
      BY <2>5, <2>6, <2>8, <3>1, LinkNat, QueuedKeeps
    <3>3. /\ xotg'.ep0.todo = Append(r.todo, td) /\ xotg'.ep0.enq = Advance(r.enq)
          /\ xotg'.ep0.deq = r.deq
      BY <2>5, <2>8 DEF Queued, RingType
    <3>4. Len(xotg'.ep0.todo) = 1
      BY <2>5, <3>3
    <3> QED
      BY <2>4, <2>5, <3>2, <3>3, <3>4 DEF CtrlOK
  <2>9. xotg' \in XotgType /\ RingOK(xotg'.ep0) /\ CtrlOK(xotg'.ep0, Tail(s))
    BY <1>1, <1>5, <1>8, <2>1, <2>6, <2>7, <2>8, TransferCtrl DEF r
  <2> QED
    BY <1>2, <1>3, <2>9
<1>9. CASE ~ IsCtrl(ev)
  <2>1. CtrlOK(xotg.ep0, Tail(s))
    BY <1>1, <1>4, <1>9, TakenOther
  <2>2. CASE ev.type = "transfer"
    BY <1>1, <1>2, <1>3, <1>5, <1>6, <1>9, <2>1, <2>2, TransferBulk
  <2>3. CASE ev.type = "setup"
    <3>1. Answers(xotg, xotg')
      BY <1>1, <1>5, <1>6, <2>3, SetupAnswers
    <3>2. ASSUME Quiet(xotg), NEW td \in Tds(Stages), xotg'.ep0 = Queued(xotg.ep0, td)
          PROVE  RingOK(xotg'.ep0) /\ CtrlOK(xotg'.ep0, Tail(s))
      <4>1. xotg.ep0.todo = <<>> /\ NoCtrl(Tail(s)) /\ xotg.ep0.enq = xotg.ep0.deq
        BY <1>7, <2>1, <3>2, AdvanceMoves DEF CtrlOK, Quiet
      <4>2. Len(<<>>) = 0
        OBVIOUS
      <4>3. RingOK(xotg'.ep0)
        BY <1>1, <1>7, <3>2, <4>1, <4>2, LinkNat, QueuedKeeps
      <4>4. /\ xotg'.ep0.todo = Append(xotg.ep0.todo, td)
            /\ xotg'.ep0.enq = Advance(xotg.ep0.enq) /\ xotg'.ep0.deq = xotg.ep0.deq
        BY <1>7, <3>2 DEF Queued, RingType
      <4>5. Len(xotg'.ep0.todo) = 1
        BY <4>1, <4>4
      <4> QED
        BY <4>1, <4>3, <4>4, <4>5 DEF CtrlOK
    <3> QED
      BY <1>1, <1>2, <1>3, <2>1, <3>1, <3>2 DEF Answers
  <2>4. CASE ev.type \notin {"transfer", "setup"}
    <3>1. xotg' = [xotg EXCEPT !.speed = port.speed] \/ xotg' = xotg
      BY <1>6, <2>4
    <3>2. xotg' \in XotgType /\ xotg'.ep0 = xotg.ep0
      BY <1>1, <3>1 DEF XotgType
    <3> QED
      BY <1>1, <1>2, <1>3, <2>1, <3>2
  <2> QED
    BY <2>2, <2>3, <2>4
<1> QED
  BY <1>8, <1>9

\* An event is handled.
LEMMA OpEventKeeps ==
  ASSUME CtrlInv, OpEvent
  PROVE  CtrlInv'
<1> DEFINE ev   == events.trb[events.deq].event
           q    == Taken(events)
           ends == q.deq = op.stop \/ ~ IsNew(q)
<1>1. /\ xotg' \in XotgType /\ RingOK(xotg'.ep0) /\ CtrlOK(xotg'.ep0, q.todo)
      /\ EventsOK(q) /\ q \in EventRingType
  BY HandledKeeps
<1>2. /\ events' = IF ends THEN [q EXCEPT !.erdp = q.deq] ELSE q
      /\ op' = [op EXCEPT !.at = IF ends THEN "done" ELSE @, !.res = Result(ev)]
      /\ port' = IF ev.type = "port"
                 THEN [port EXCEPT !.flags = port.flags \ Acknowledged(port.flags)] ELSE port
      /\ ip' = (ip \/ (ends /\ IsNew(q)))
      /\ op.at = "batch" /\ UNCHANGED <<pc, host>>
  BY DEF OpEvent
<1>3. ev \in Events
  BY NewIsPosted DEF CtrlInv, TypeOK, EventsInOrder, EventRingType
<1>4. IsNew(q) <=> q.todo # <<>>
  BY <1>1, NewIsPosted DEF EventsInOrder
<1> HIDE DEF ev, q, ends
<1>5. events' \in EventRingType /\ EventsOK(events') /\ events'.todo = q.todo
  BY <1>1, <1>2, SaidKeeps
<1>6. Result(ev) \in {"ok", "timeout", "cycle", "seq_num", "port_cfg"}
  BY <1>3 DEF Result, PortResult, Events
<1>7. op' \in Ops /\ (op'.at = "batch" => ~ ends)
  BY <1>2, <1>6 DEF CtrlInv, TypeOK, Ops
<1>8. port' \in [speed : Speeds \cup {"none"}, flags : SUBSET PortFlags]
  BY <1>2 DEF CtrlInv, TypeOK
<1>9. op'.at = "batch" => events'.todo # <<>>
  BY <1>4, <1>5, <1>7 DEF ends
<1>10. ip' \in BOOLEAN
  BY <1>2 DEF CtrlInv, TypeOK
<1>11. TypeOK'
  BY <1>1, <1>2, <1>5, <1>7, <1>8, <1>10 DEF CtrlInv, TypeOK, Ops
<1> QED
  BY <1>1, <1>5, <1>9, <1>11 DEF CtrlInv

\* Between operations the thread is idle.
LEMMA IdleType == Idle \in Ops /\ Idle.at = "idle"
BY EventNat DEF Idle, Ops

\* The enumeration goes on.
LEMMA EnumNextKeeps ==
  ASSUME CtrlInv, EnumNext
  PROVE  CtrlInv'
<1>1. xotg' \in XotgType /\ xotg'.ep0 = xotg.ep0
  <2>1. xotg \in XotgType
    BY DEF CtrlInv, TypeOK
  <2>2. xotg' = [xotg EXCEPT !.lun_set = TRUE] \/ xotg' = xotg
    BY DEF EnumNext
  <2> QED
    BY <2>1, <2>2 DEF XotgType
<1>2. op' = Idle /\ pc' \in {"enum", "lun", "gadget", "off"}
  BY DEF CtrlInv, TypeOK, EnumNext
<1>3. TypeOK'
  BY <1>1, <1>2, IdleType DEF CtrlInv, TypeOK, EnumNext, Ops
<1> QED
  BY <1>1, <1>2, <1>3, IdleType, QuietKeeps DEF EnumNext

\* The wait for GET_MAX_LUN goes on.
LEMMA LunNextKeeps ==
  ASSUME CtrlInv, LunNext
  PROVE  CtrlInv'
<1>1. xotg' \in XotgType /\ xotg'.ep0 = xotg.ep0
  BY DEF CtrlInv, TypeOK, LunNext, XotgType
<1>2. op' \in Ops /\ op'.at # "batch" /\ pc' \in {"enum", "lun", "gadget", "off"}
  BY IdleType DEF CtrlInv, TypeOK, LunNext, Ops
<1>3. TypeOK'
  BY <1>1, <1>2 DEF CtrlInv, TypeOK, LunNext, Ops
<1> QED
  BY <1>1, <1>2, <1>3, QuietKeeps DEF LunNext

\* The gadget goes on.
LEMMA GadgetNextKeeps ==
  ASSUME CtrlInv, GadgetNext
  PROVE  CtrlInv'
<1>1. xotg' \in XotgType /\ xotg'.ep0 = xotg.ep0
  BY DEF CtrlInv, TypeOK, GadgetNext, XotgType
<1>2. op' = Idle
  BY DEF GadgetNext
<1>3. TypeOK'
  BY <1>1, <1>2, IdleType DEF CtrlInv, TypeOK, GadgetNext, Ops
<1> QED
  BY <1>1, <1>2, <1>3, IdleType, QuietKeeps DEF GadgetNext

\* What the end leaves is what Init finds.
LEMMA EndKeeps ==
  ASSUME CtrlInv, End
  PROVE  CtrlInv'
<1>1. EmptyRing \in RingType({"data", "status"}) /\ RingOK(EmptyRing) /\ EmptyRing.todo = <<>>
  BY EmptyType
<1>2. [d \in Eps |-> EmptyRing] \in [Eps -> RingType(Bufs)]
  BY EmptyType
<1>3. 0 \in SeqNums
  BY CtrlAssumption DEF SeqNums
<1>4. NewXotg \in XotgType /\ NewXotg.ep0 = EmptyRing
  BY <1>1, <1>2, <1>3 DEF NewXotg, XotgType
<1>5. TypeOK'
  BY <1>3, <1>4, IdleType, EmptyEventsOK DEF End, TypeOK, Ops, NoPort, NewHost
<1>6. EmptyRing.enq = EmptyRing.deq /\ NoCtrl(<<>>)
  BY DEF EmptyRing, NoCtrl
<1>8. CtrlOK(NewXotg.ep0, EmptyEvents.todo)
  BY <1>1, <1>4, <1>6, EmptyEventsOK DEF CtrlOK
<1> QED
  BY <1>1, <1>4, <1>5, <1>8, EmptyEventsOK, IdleType DEF CtrlInv, End

\* The device is initialised again.
LEMMA RestartKeeps ==
  ASSUME CtrlInv, Restart
  PROVE  CtrlInv'
<1>1. TypeOK'
  BY DEF CtrlInv, TypeOK, Restart
<1> QED
  BY <1>1, QuietKeeps DEF Restart, CtrlInv

\* The gadget queues a bulk transfer.
LEMMA GadgetQueuesKeeps ==
  ASSUME CtrlInv, GadgetQueues
  PROVE  CtrlInv'
<1>1. PICK d \in Eps, b \in Bufs :
        xotg' = [xotg EXCEPT !.bulk[d] = Queued(xotg.bulk[d], Td(b, 0)), !.wait = "normal"]
  BY DEF GadgetQueues
<1>2. xotg \in XotgType /\ xotg.bulk \in [Eps -> RingType(Bufs)]
  BY DEF CtrlInv, TypeOK, XotgType
<1>3. Td(b, 0) \in Tds(Bufs)
  BY CtrlAssumption DEF Td, Tds, SeqNums
<1>4. Queued(xotg.bulk[d], Td(b, 0)) \in RingType(Bufs)
  BY <1>2, <1>3, QueuedType
<1>5. [xotg.bulk EXCEPT ![d] = Queued(xotg.bulk[d], Td(b, 0))] \in [Eps -> RingType(Bufs)]
  BY <1>2, <1>4
<1>6. xotg' = [xotg EXCEPT !.bulk = [xotg.bulk EXCEPT ![d] = Queued(xotg.bulk[d], Td(b, 0))],
                           !.wait = "normal"]
  BY <1>1
<1>7. xotg' \in XotgType /\ xotg'.ep0 = xotg.ep0
  BY <1>2, <1>5, <1>6 DEF XotgType
<1>8. TypeOK'
  BY <1>7 DEF CtrlInv, TypeOK, GadgetQueues
<1> QED
  BY <1>7, <1>8, QuietKeeps DEF GadgetQueues, CtrlInv

HostType ==
  [stage : {"idle", "data", "status"}, req : Requests \cup {"none"},
   seq : SeqNums, conn : Nat, abandoned : Nat, did : SUBSET Told]

\* A cable is plugged in.
LEMMA ConnectKeeps ==
  ASSUME CtrlInv, Connect
  PROVE  CtrlInv'
<1>1. PICK s \in Speeds, flags \in SUBSET PortFlags :
        /\ port' = [speed |-> s, flags |-> port.flags \cup flags]
        /\ IF port.flags = {} THEN Post([type |-> "port"]) ELSE UNCHANGED <<events, ip>>
  BY DEF Connect
<1>2. port' \in [speed : Speeds \cup {"none"}, flags : SUBSET PortFlags]
  BY <1>1 DEF CtrlInv, TypeOK
<1>3. host' \in HostType
  <2>1. host \in HostType
    BY DEF CtrlInv, TypeOK, HostType
  <2>2. host.conn + 1 \in Nat /\ (IF Busy THEN host.abandoned + 1 ELSE host.abandoned) \in Nat
    BY <2>1 DEF HostType
  <2>3. host' = [host EXCEPT !.conn = host.conn + 1, !.stage = "idle", !.req = "none",
                   !.abandoned = IF Busy THEN host.abandoned + 1 ELSE host.abandoned]
    BY DEF Connect
  <2> QED
    BY <2>1, <2>2, <2>3 DEF HostType
<1>4. [type |-> "port"] \in Events /\ ~ IsCtrl([type |-> "port"])
  BY DEF Events, IsCtrl
<1>5. /\ events' \in EventRingType /\ EventsOK(events')
      /\ CtrlOK(xotg.ep0, events'.todo) /\ ip' \in BOOLEAN
      /\ op.at = "batch" => events'.todo # <<>>
  <2>1. CASE port.flags = {}
    BY <1>1, <1>4, <2>1, PostKeeps
  <2>2. CASE port.flags # {}
    BY <1>1, <2>2 DEF CtrlInv, TypeOK
  <2> QED
    BY <2>1, <2>2
<1>6. UNCHANGED <<pc, op, xotg>>
  BY DEF Connect
<1>7. TypeOK'
  BY <1>2, <1>3, <1>5, <1>6 DEF CtrlInv, TypeOK, HostType
<1> QED
  BY <1>5, <1>6, <1>7 DEF CtrlInv

\* The host makes a request.
LEMMA HostSetupKeeps ==
  ASSUME CtrlInv, HostSetup
  PROVE  CtrlInv'
<1> DEFINE seq == (host.seq + 1) % SeqCount
<1>1. PICK r \in Requests :
        /\ Post([type |-> "setup", req |-> r, seq |-> seq, conn |-> host.conn])
        /\ host' = [host EXCEPT
             !.stage = IF r \in InReqs THEN "data" ELSE "status", !.req = r,
             !.seq = seq, !.abandoned = IF Busy THEN host.abandoned + 1 ELSE host.abandoned]
  BY DEF HostSetup
<1> DEFINE ev == [type |-> "setup", req |-> r, seq |-> seq, conn |-> host.conn]
<1>2. host \in HostType
  BY DEF CtrlInv, TypeOK, HostType
<1>3. seq \in SeqNums
  <2>1. host.seq + 1 \in Int /\ SeqCount \in Nat \ {0}
    BY <1>2, CtrlAssumption DEF HostType, SeqNums
  <2> QED
    BY <2>1 DEF SeqNums
<1> HIDE DEF seq
<1>4. ev \in Events /\ ~ IsCtrl(ev)
  BY <1>2, <1>3 DEF Events, IsCtrl, HostType
<1>5. host' \in HostType
  <2>1. (IF Busy THEN host.abandoned + 1 ELSE host.abandoned) \in Nat
    BY <1>2 DEF HostType
  <2> QED
    BY <1>1, <1>2, <1>3, <2>1 DEF HostType
<1> HIDE DEF ev
<1>6. /\ events' \in EventRingType /\ EventsOK(events') /\ events'.todo # <<>>
      /\ CtrlOK(xotg.ep0, events'.todo) /\ ip' \in BOOLEAN
  BY <1>1, <1>4, PostKeeps DEF ev
<1>7. UNCHANGED <<pc, op, xotg, port>>
  BY DEF HostSetup
<1>8. TypeOK'
  BY <1>5, <1>6, <1>7 DEF CtrlInv, TypeOK, HostType
<1> QED
  BY <1>6, <1>7, <1>8 DEF CtrlInv

\* A stage is taken off the ring, and the event of it is the only one of a control
\* transfer.
LEMMA ControlDoneKeeps ==
  ASSUME CtrlInv, ControlDone
  PROVE  CtrlInv'
<1>1. /\ xotg \in XotgType /\ RingOK(xotg.ep0) /\ events \in EventRingType /\ EventsOK(events)
      /\ CtrlOK(xotg.ep0, events.todo) /\ ip \in BOOLEAN
  BY DEF CtrlInv, TypeOK
<1>2. xotg.ep0 \in RingType(Stages) /\ events.todo \in Seq(Events)
  BY <1>1, Ep0Type DEF EventRingType
<1>3. xotg.ep0.todo # <<>>
  BY <1>1, <1>2, DueIsQueued DEF ControlDone
<1>4. PICK code \in {"ok", "seq_num"} :
        Post([type |-> "transfer", ep |-> "ctrl", code |-> code])
  BY DEF ControlDone
<1> DEFINE ev == [type |-> "transfer", ep |-> "ctrl", code |-> code]
<1>5. ev \in Events /\ IsCtrl(ev)
  BY DEF Events, IsCtrl
<1> HIDE DEF ev
<1>6. events' = Posted(events, ev) /\ HasRoom(events) /\ ip' \in BOOLEAN
  BY <1>1, <1>4 DEF Post, ev
<1>7. events' \in EventRingType /\ EventsOK(events') /\ events'.todo = Append(events.todo, ev)
  BY <1>1, <1>5, <1>6, PostedType, PostedKeeps
<1>8. /\ Len(xotg.ep0.todo) = 1 /\ NoCtrl(events.todo)
      /\ xotg.ep0.enq = Advance(xotg.ep0.deq)
  BY <1>1, <1>3 DEF CtrlOK
<1>9. OneCtrl(events'.todo) /\ events'.todo # <<>>
  BY <1>2, <1>5, <1>7, <1>8, PostedCtrl
<1> DEFINE r == Fetched(xotg.ep0)
<1>10. r \in RingType(Stages) /\ RingOK(r) /\ r.todo = Tail(xotg.ep0.todo)
  BY <1>1, <1>2, <1>3, FetchedType, FetchedKeeps
<1>11. r.todo = <<>>
  <2>1. xotg.ep0.todo \in Seq(Tds(Stages)) /\ r.todo \in Seq(Tds(Stages))
    BY <1>2, <1>10 DEF RingType
  <2>2. Len(r.todo) = 0
    BY <1>3, <1>8, <1>10, <2>1
  <2> QED
    BY <2>1, <2>2
<1>12. r.enq = xotg.ep0.enq /\ r.deq = xotg.ep0.deq
  BY <1>2 DEF Fetched, RingType
<1> HIDE DEF r
<1>13. xotg' = [xotg EXCEPT !.ep0 = r] /\ UNCHANGED <<pc, op, port>>
  BY DEF ControlDone, r
<1>14. xotg' \in XotgType /\ xotg'.ep0 = r
  BY <1>1, <1>10, <1>13 DEF XotgType, Stages
<1>15. CtrlOK(r, events'.todo)
  BY <1>8, <1>9, <1>11, <1>12 DEF CtrlOK
<1>16. host' \in HostType
  <2>1. host \in HostType
    BY DEF CtrlInv, TypeOK, HostType
  <2>2. host.did \cup ({host.req} \cap Told) \in SUBSET Told
    BY <2>1 DEF HostType
  <2>3. \/ host' = host
        \/ host' = [host EXCEPT !.stage = "status"]
        \/ host' = [host EXCEPT !.stage = "idle", !.req = "none",
                                !.did = host.did \cup ({host.req} \cap Told)]
    BY DEF ControlDone
  <2> QED
    BY <2>1, <2>2, <2>3 DEF HostType
<1>17. TypeOK'
  BY <1>6, <1>7, <1>13, <1>14, <1>16 DEF CtrlInv, TypeOK, HostType
<1> QED
  BY <1>7, <1>9, <1>10, <1>14, <1>15, <1>17 DEF CtrlInv

\* The host sees a refusal.
LEMMA HostStalledKeeps ==
  ASSUME CtrlInv, HostStalled
  PROVE  CtrlInv'
<1>1. TypeOK'
  BY DEF CtrlInv, TypeOK, HostStalled
<1> QED
  BY <1>1, QuietKeeps DEF HostStalled, CtrlInv

\* The controller did a bulk transfer.
LEMMA BulkDoneKeeps ==
  ASSUME CtrlInv, BulkDone
  PROVE  CtrlInv'
<1>1. PICK d \in Eps :
        /\ Post([type |-> "transfer", ep |-> d, code |-> "ok"])
        /\ xotg' = [xotg EXCEPT !.bulk[d] = Fetched(xotg.bulk[d])]
  BY DEF BulkDone
<1> DEFINE ev == [type |-> "transfer", ep |-> d, code |-> "ok"]
<1>2. ev \in Events /\ ~ IsCtrl(ev)
  BY CtrlAssumption DEF Events, IsCtrl
<1> HIDE DEF ev
<1>3. /\ events' \in EventRingType /\ EventsOK(events') /\ events'.todo # <<>>
      /\ CtrlOK(xotg.ep0, events'.todo) /\ ip' \in BOOLEAN
  BY <1>1, <1>2, PostKeeps DEF ev
<1>4. xotg \in XotgType /\ xotg.bulk \in [Eps -> RingType(Bufs)]
  BY DEF CtrlInv, TypeOK, XotgType
<1>5. [xotg.bulk EXCEPT ![d] = Fetched(xotg.bulk[d])] \in [Eps -> RingType(Bufs)]
  BY <1>4, FetchedType
<1>6. xotg' = [xotg EXCEPT !.bulk = [xotg.bulk EXCEPT ![d] = Fetched(xotg.bulk[d])]]
  BY <1>1
<1>7. xotg' \in XotgType /\ xotg'.ep0 = xotg.ep0
  BY <1>4, <1>5, <1>6 DEF XotgType
<1>8. UNCHANGED <<pc, op, port, host>>
  BY DEF BulkDone
<1>9. TypeOK'
  BY <1>3, <1>7, <1>8 DEF CtrlInv, TypeOK
<1> QED
  BY <1>3, <1>7, <1>8, <1>9 DEF CtrlInv

-----------------------------------------------------------------------------
(* The theorems.                                                           *)

\* Every step keeps the invariant.
LEMMA StepKeeps ==
  ASSUME CtrlInv, [Next]_vars
  PROVE  CtrlInv'
<1>1. CASE UNCHANGED vars
  BY <1>1 DEF CtrlInv, TypeOK, vars
<1>2. CASE Thread
  BY <1>2, OpInterruptKeeps, OpTimeoutKeeps, OpLookKeeps, OpEventKeeps, EnumNextKeeps,
     LunNextKeeps, GadgetNextKeeps, EndKeeps DEF Thread
<1>3. CASE Hardware
  BY <1>3, ConnectKeeps, HostSetupKeeps, ControlDoneKeeps, HostStalledKeeps, BulkDoneKeeps
     DEF Hardware
<1> QED
  BY <1>1, <1>2, <1>3, GadgetQueuesKeeps, RestartKeeps DEF Next

\* So it holds always.
LEMMA Inductive == Spec => []CtrlInv
<1>1. Init => CtrlInv
  BY InitInv
<1>2. CtrlInv /\ [Next]_vars => CtrlInv'
  BY StepKeeps
<1> QED
  BY <1>1, <1>2, PTL DEF Spec

\* The driver's places never leave the rings (_xusb_queue_trb, the event loop of
\* _xusb_ep_operation), and all its variables are of their types.
THEOREM UsbTypeCorrect == Spec => []TypeOK
<1>1. CtrlInv => TypeOK
  BY DEF CtrlInv
<1> QED
  BY <1>1, Inductive, PTL

\* Events are handled and stages of control transfers done as they were queued,
\* each once: the cycle bits always tell new entries from old ones.
THEOREM RingsInOrder == Spec => []ControlInOrder
<1>1. CtrlInv => ControlInOrder
  BY InvInOrder
<1> QED
  BY <1>1, Inductive, PTL

\* The test of _xusb_issue_status_trb and _xusb_issue_data_trb is exact: they queue
\* a stage only where nothing is queued or outstanding.
THEOREM QuietIsQuiet == Spec => []ControlExact
<1>1. CtrlInv => ControlExact
  BY InvExact
<1> QED
  BY <1>1, Inductive, PTL
-----------------------------------------------------------------------------
(* What the host was told.                                                 *)

LunStates == {"lun_wait", "lun_configured"}

\* None of the events s is a request.
NoSetup(s) == \A i \in 1 .. Len(s) : s[i].type # "setup"

\* The i-th of the events s is the host's request, it is the only request, and what
\* the control endpoint did before comes before it.
Request(s, h, i) ==
  /\ s[i].type = "setup" /\ s[i].req = h.req /\ s[i].seq = h.seq
  /\ \A j \in 1 .. Len(s) : /\ s[j].type = "setup" => j = i
                            /\ IsCtrl(s[j]) => j < i

Promise(state) ==
  CASE state \in {"configured_wait", "configured"} -> {"configure"}
    [] state \in {"lun_wait", "lun_configured"} -> {"max_lun"}
    [] OTHER -> {}

\* The host was told what the device's state says it was told.
Kept(x, h) == Promise(x.state) \subseteq h.did

\* Or it is to be told by the request under way.
KeptOr(x, h) ==
  Promise(x.state) \subseteq
    h.did \cup (IF x.state \in {"configured_wait", "lun_wait"} THEN {h.req} ELSE {})

\* The host makes no request.
Resting(x, s, h) ==
  /\ h.stage = "idle" /\ NoSetup(s)
  /\ x.ep0.todo = <<>> /\ x.wait # "data" /\ x.seq = h.seq /\ Kept(x, h)

\* It made one that is not handled yet.
Asking(x, s, h) ==
  /\ h.stage = IF h.req \in InReqs THEN "data" ELSE "status"
  /\ \E i \in 1 .. Len(s) : Request(s, h, i)
  /\ x.ep0.todo = <<>> /\ x.wait # "data" /\ Kept(x, h)
  /\ h.seq = (x.seq + 1) % SeqCount

\* It was handled.
Handled(x, s, h) == h.stage # "idle" /\ NoSetup(s) /\ x.seq = h.seq

\* The stage the host waits for is queued.
Working(x, s, h) ==
  /\ Handled(x, s, h)
  /\ x.ep0.todo = <<Td(h.stage, h.seq)>>
  /\ x.wait \in {h.stage, "normal"} /\ ~ x.stalled /\ KeptOr(x, h)

\* The data stage is done, and the driver not yet told.
Between(x, s, h) ==
  /\ Handled(x, s, h)
  /\ h.stage = "status" /\ x.ep0.todo = <<>> /\ x.wait = "data" /\ ~ x.stalled /\ KeptOr(x, h)
  /\ OneCtrl(s) /\ \A i \in 1 .. Len(s) : IsCtrl(s[i]) => s[i].code = "ok"

\* The request was refused.
Refused(x, s, h) ==
  /\ Handled(x, s, h)
  /\ x.ep0.todo = <<>> /\ x.wait # "data" /\ x.stalled /\ Kept(x, h)

\* Nobody will answer it: its class is not known, or a bulk transfer was queued
\* between its stages.
Unanswered(x, s, h) ==
  /\ Handled(x, s, h)
  /\ x.ep0.todo = <<>> /\ ~ x.stalled
  /\ \/ h.req = "other" /\ x.wait # "data" /\ Kept(x, h)
     \/ x.wait = "normal" /\ KeptOr(x, h)

Dialogue(x, s, h) ==
  \/ Resting(x, s, h) \/ Asking(x, s, h) \/ Working(x, s, h)
  \/ Between(x, s, h) \/ Refused(x, s, h) \/ Unanswered(x, s, h)

\* What the loops have waited for.
Passed(c, h) ==
  /\ c \in {"lun", "gadget"} => "configure" \in h.did
  /\ c = "gadget" => "max_lun" \in h.did

HostInv == host.abandoned = 0 => Dialogue(xotg, events.todo, host) /\ Passed(pc, host)


\* What a sequence of events is without its first.
LEMMA Shorter ==
  ASSUME NEW s \in Seq(Events), s # <<>>
  PROVE  /\ Len(s) \in Nat /\ Len(s) > 0 /\ Head(s) = s[1] /\ Tail(s) \in Seq(Events)
         /\ Len(Tail(s)) = Len(s) - 1
         /\ \A i \in 1 .. Len(s) - 1 : Tail(s)[i] = s[i + 1]
         /\ \A i \in 1 .. Len(s) : i # 1 => i - 1 \in 1 .. Len(s) - 1 /\ Tail(s)[i - 1] = s[i]
<1>1. /\ Len(s) \in Nat /\ Len(s) > 0 /\ Head(s) = s[1] /\ Tail(s) \in Seq(Events)
      /\ Len(Tail(s)) = Len(s) - 1 /\ \A i \in 1 .. Len(s) - 1 : Tail(s)[i] = s[i + 1]
  OBVIOUS
<1>2. ASSUME NEW i \in 1 .. Len(s), i # 1
      PROVE  i - 1 \in 1 .. Len(s) - 1 /\ Tail(s)[i - 1] = s[i]
  <2>1. i - 1 \in 1 .. Len(s) - 1 /\ (i - 1) + 1 = i
    BY <1>1, <1>2
  <2> QED
    BY <1>1, <2>1
<1> QED
  BY <1>1, <1>2

\* And with one more.
LEMMA Longer ==
  ASSUME NEW s \in Seq(Events), NEW ev \in Events
  PROVE  /\ Len(s) \in Nat /\ Len(Append(s, ev)) = Len(s) + 1
         /\ Append(s, ev)[Len(s) + 1] = ev
         /\ \A i \in 1 .. Len(s) : Append(s, ev)[i] = s[i]
OBVIOUS

\* The requests and the events of the control endpoint in t are those in s.
SameControl(s, t, h) ==
  /\ NoSetup(s) => NoSetup(t)
  /\ (\E i \in 1 .. Len(s) : Request(s, h, i)) => (\E i \in 1 .. Len(t) : Request(t, h, i))
  /\ OneCtrl(s) => OneCtrl(t)
  /\ (\A i \in 1 .. Len(s) : IsCtrl(s[i]) => s[i].code = "ok")
       => \A i \in 1 .. Len(t) : IsCtrl(t[i]) => t[i].code = "ok"

\* An event that is of no request and of no control transfer says nothing to the
\* host when it is posted.
LEMMA PostedSame ==
  ASSUME NEW s \in Seq(Events), NEW ev \in Events, ev.type # "setup", ~ IsCtrl(ev), NEW h
  PROVE  SameControl(s, Append(s, ev), h)
<1> DEFINE t == Append(s, ev)
<1>1. /\ Len(s) \in Nat /\ Len(t) = Len(s) + 1 /\ t[Len(s) + 1] = ev
      /\ \A i \in 1 .. Len(s) : t[i] = s[i]
  BY Longer
<1>2. 1 .. Len(t) = 1 .. Len(s) \cup {Len(s) + 1} /\ Len(s) + 1 \notin 1 .. Len(s)
  BY <1>1
<1> HIDE DEF t
<1>3. NoSetup(s) => NoSetup(t)
  BY <1>1, <1>2 DEF NoSetup
<1>4. ASSUME NEW i \in 1 .. Len(s), Request(s, h, i)
      PROVE  i \in 1 .. Len(t) /\ Request(t, h, i)
  BY <1>1, <1>2, <1>4 DEF Request
<1>5. OneCtrl(s) => OneCtrl(t)
  BY <1>1, <1>2 DEF OneCtrl
<1>6. (\A i \in 1 .. Len(s) : IsCtrl(s[i]) => s[i].code = "ok")
        => \A i \in 1 .. Len(t) : IsCtrl(t[i]) => t[i].code = "ok"
  BY <1>1, <1>2
<1>7. SameControl(s, t, h)
  BY <1>3, <1>4, <1>5, <1>6 DEF SameControl
<1> QED
  BY <1>7 DEF t

\* Nor when it is handled.
LEMMA TakenSame ==
  ASSUME NEW s \in Seq(Events), s # <<>>, Head(s).type # "setup", ~ IsCtrl(Head(s)), NEW h
  PROVE  SameControl(s, Tail(s), h)
<1> DEFINE t == Tail(s)
<1>1. /\ Len(s) \in Nat /\ Len(s) > 0 /\ Head(s) = s[1] /\ Len(t) = Len(s) - 1
      /\ \A i \in 1 .. Len(t) : i + 1 \in 1 .. Len(s) /\ t[i] = s[i + 1]
      /\ \A i \in 1 .. Len(s) : i # 1 => i - 1 \in 1 .. Len(t) /\ t[i - 1] = s[i]
  BY Shorter
<1> HIDE DEF t
<1>2. NoSetup(s) => NoSetup(t)
  BY <1>1 DEF NoSetup
<1>3. ASSUME NEW i \in 1 .. Len(s), Request(s, h, i)
      PROVE  i - 1 \in 1 .. Len(t) /\ Request(t, h, i - 1)
  BY <1>1, <1>3 DEF Request
<1>4. OneCtrl(s) => OneCtrl(t)
  <2> SUFFICES ASSUME NEW i \in 1 .. Len(s), IsCtrl(s[i]),
                      \A j \in 1 .. Len(s) : IsCtrl(s[j]) => j = i
               PROVE  OneCtrl(t)
    BY DEF OneCtrl
  <2>1. i - 1 \in 1 .. Len(t) /\ IsCtrl(t[i - 1])
    BY <1>1
  <2>2. \A j \in 1 .. Len(t) : IsCtrl(t[j]) => j = i - 1
    BY <1>1
  <2> QED
    BY <2>1, <2>2 DEF OneCtrl
<1>5. (\A i \in 1 .. Len(s) : IsCtrl(s[i]) => s[i].code = "ok")
        => \A i \in 1 .. Len(t) : IsCtrl(t[i]) => t[i].code = "ok"
  BY <1>1
<1>6. SameControl(s, t, h)
  BY <1>2, <1>3, <1>4, <1>5 DEF SameControl
<1> QED
  BY <1>6 DEF t

\* The dialogue is where it was if nothing of it changed.
LEMMA SameDialogue ==
  ASSUME NEW x, NEW y, NEW s, NEW t, NEW h, NEW g, Dialogue(x, s, h), SameControl(s, t, h),
         y.ep0.todo = x.ep0.todo, y.wait = x.wait, y.seq = x.seq, y.state = x.state,
         y.stalled = x.stalled,
         g.stage = h.stage, g.req = h.req, g.seq = h.seq, g.did = h.did
  PROVE  Dialogue(y, t, g)
<1>1. Kept(y, g) <=> Kept(x, h)
  BY DEF Kept
<1>2. KeptOr(y, g) <=> KeptOr(x, h)
  BY DEF KeptOr
<1>3. Handled(x, s, h) => Handled(y, t, g)
  BY DEF Handled, SameControl
<1>4. \A i : Request(t, h, i) => Request(t, g, i)
  BY DEF Request
<1>5. Resting(x, s, h) => Resting(y, t, g)
  BY <1>1 DEF Resting, SameControl
<1>6. Asking(x, s, h) => Asking(y, t, g)
  BY <1>1, <1>4 DEF Asking, SameControl
<1>7. Working(x, s, h) => Working(y, t, g)
  BY <1>2, <1>3 DEF Working
<1>8. Between(x, s, h) => Between(y, t, g)
  BY <1>2, <1>3 DEF Between, SameControl
<1>9. Refused(x, s, h) => Refused(y, t, g)
  BY <1>1, <1>3 DEF Refused
<1>10. Unanswered(x, s, h) => Unanswered(y, t, g)
  BY <1>1, <1>2, <1>3 DEF Unanswered
<1> QED
  BY <1>5, <1>6, <1>7, <1>8, <1>9, <1>10 DEF Dialogue

\* A status brings the device to the state that was waited for, which says no more.
LEMMA PromiseAfter ==
  ASSUME NEW x
  PROVE  /\ Promise(StateAfter(x)) = Promise(x.state)
         /\ StateAfter(x) \notin {"configured_wait", "lun_wait"}
         /\ StateAfter(x) \in LunStates => x.state \in LunStates
BY DEF Promise, StateAfter, LunStates

\* The state of the device that is reached was announced.
LEMMA ReachedWasSaid ==
  ASSUME NEW x, NEW s, NEW h, Dialogue(x, s, h), x.state \in {"configured", "lun_configured"}
  PROVE  Promise(x.state) \subseteq h.did
BY DEF Dialogue, Resting, Asking, Working, Between, Refused, Unanswered, Kept, KeptOr

\* Queued on an empty ring, a stage is the only one.
LEMMA OnlyStage ==
  ASSUME NEW x \in XotgType, x.ep0.todo = <<>>, NEW td
  PROVE  Queued(x.ep0, td).todo = <<td>>
<1>1. Queued(x.ep0, td).todo = Append(x.ep0.todo, td)
  BY Ep0Type DEF Queued, RingType
<1> QED
  BY <1>1

\* The request ev was answered with its first stage.
Answered(x0, y, ev) ==
  LET stage == IF ev.req \in InReqs THEN "data" ELSE "status"
  IN /\ y.ep0.todo = <<Td(stage, ev.seq)>> /\ y.wait = stage /\ ~ y.stalled
     /\ Promise(y.state) \subseteq
          Promise(x0.state) \cup (IF y.state \in {"configured_wait", "lun_wait"}
                                  THEN {ev.req} ELSE {})

\* A status stage follows at once.
LEMMA StatusAnswered ==
  ASSUME NEW x0 \in XotgType, NEW ev, NEW x \in XotgType,
         x.ep0.todo = <<>>, Quiet(x), x.seq = ev.seq, ~ x.stalled, ev.req \notin InReqs,
         Promise(x.state) \subseteq Promise(x0.state),
         x.state \in {"configured_wait", "lun_wait"} => x.state = x0.state,
         NEW y, y = StatusIn(x)
  PROVE  Answered(x0, y, ev) /\ y.seq = ev.seq
<1>1. y = [x EXCEPT !.ep0 = Queued(x.ep0, Td("status", x.seq)), !.wait = "status"]
  BY DEF StatusIn, StatusOut
<1>2. y.ep0.todo = <<Td("status", ev.seq)>>
  <2>1. y.ep0 = Queued(x.ep0, Td("status", ev.seq))
    BY <1>1 DEF XotgType
  <2> QED
    BY <2>1, OnlyStage
<1>3. y.wait = "status" /\ ~ y.stalled /\ y.state = x.state /\ y.seq = x.seq
  BY <1>1 DEF XotgType
<1> QED
  BY <1>2, <1>3 DEF Answered

\* So does a data stage.
LEMMA DataAnswered ==
  ASSUME NEW x0 \in XotgType, NEW ev, NEW x \in XotgType,
         x.ep0.todo = <<>>, Quiet(x), x.seq = ev.seq, ~ x.stalled, ev.req \in InReqs,
         Promise(x.state) \subseteq
           Promise(x0.state) \cup (IF x.state \in {"configured_wait", "lun_wait"}
                                   THEN {ev.req} ELSE {}),
         NEW y, y = DataIn(x)
  PROVE  Answered(x0, y, ev) /\ y.seq = ev.seq
<1>1. y = [x EXCEPT !.ep0 = Queued(x.ep0, Td("data", x.seq)), !.wait = "data"]
  BY DEF DataIn
<1>2. y.ep0.todo = <<Td("data", ev.seq)>>
  <2>1. y.ep0 = Queued(x.ep0, Td("data", ev.seq))
    BY <1>1 DEF XotgType
  <2> QED
    BY <2>1, OnlyStage
<1>3. y.wait = "data" /\ ~ y.stalled /\ y.state = x.state /\ y.seq = x.seq
  BY <1>1 DEF XotgType
<1> QED
  BY <1>2, <1>3 DEF Answered

\* What becomes of a request that finds the control endpoint quiet.
LEMMA SetupSays ==
  ASSUME NEW x0 \in XotgType, Quiet(x0), x0.ep0.todo = <<>>,
         NEW ev \in Events, ev.type = "setup", NEW y, y = Setup(x0, ev)
  PROVE  /\ y.seq = ev.seq
         /\ \/ Answered(x0, y, ev)
            \/ /\ y.ep0.todo = <<>> /\ y.wait = x0.wait /\ y.state = x0.state
               /\ y.stalled \/ ev.req = "other"
<1> DEFINE x == [x0 EXCEPT !.seq = ev.seq, !.stalled = FALSE]
<1>1. ev.req \in Requests /\ ev.seq \in SeqNums
  BY DEF Events
<1>2. /\ x \in XotgType /\ x.ep0 = x0.ep0 /\ x.seq = ev.seq /\ ~ x.stalled
      /\ x.state = x0.state /\ x.wait = x0.wait /\ x.lun_set = x0.lun_set
  BY <1>1 DEF XotgType
<1> HIDE DEF x
<1>3. ASSUME NEW z \in XotgType, z.ep0 = x.ep0, z.seq = x.seq, z.stalled = x.stalled,
             z.state = x.state \/ z.state = "default", ev.req \notin InReqs,
             NEW w, w = StatusIn(z)
      PROVE  Answered(x0, w, ev) /\ w.seq = ev.seq
  <2>1. /\ Promise(z.state) \subseteq Promise(x0.state)
        /\ z.state \in {"configured_wait", "lun_wait"} => z.state = x0.state
    BY <1>2, <1>3 DEF Promise
  <2>2. Quiet(z) /\ z.ep0.todo = <<>>
    BY <1>2, <1>3 DEF Quiet
  <2> QED
    BY <1>2, <1>3, <2>1, <2>2, StatusAnswered
<1>4. ASSUME NEW w \in XotgType, NEW state, y = [w EXCEPT !.state = state],
             Promise(state) = {} \/ (state = "configured_wait" /\ ev.req = "configure"),
             state # "lun_wait", Answered(x0, w, ev), w.seq = ev.seq
      PROVE  Answered(x0, y, ev) /\ y.seq = ev.seq
  <2>1. /\ y.ep0 = w.ep0 /\ y.wait = w.wait /\ y.stalled = w.stalled /\ y.state = state
        /\ y.seq = w.seq
    BY <1>4 DEF XotgType
  <2>2. Promise("configured_wait") = {"configure"}
    BY DEF Promise
  <2> QED
    BY <1>4, <2>1, <2>2 DEF Answered
<1>5. CASE ev.req = "address"
  <2>1. y = [StatusIn(x) EXCEPT !.state = "addressed_wait"]
    BY <1>5 DEF Setup, SetAddress, x
  <2>2. StatusIn(x) \in XotgType
    BY <1>2, StatusInAnswers DEF Answers
  <2>3. Answered(x0, StatusIn(x), ev) /\ StatusIn(x).seq = ev.seq
    BY <1>2, <1>3, <1>5 DEF InReqs
  <2>4. Promise("addressed_wait") = {}
    BY DEF Promise
  <2> QED
    BY <1>4, <2>1, <2>2, <2>3, <2>4
<1>6. CASE ev.req = "configure"
  <2> DEFINE z == [Opened(x) EXCEPT !.config = 1]
  <2>1. y = [StatusIn(z) EXCEPT !.state = "configured_wait"]
    BY <1>6 DEF Setup, SetConfiguration, x
  <2>2. /\ Opened(x) \in XotgType /\ Opened(x).ep0 = x.ep0 /\ Opened(x).seq = x.seq
        /\ Opened(x).stalled = x.stalled /\ Opened(x).state = x.state
    BY <1>2, OpenedType DEF Opened, XotgType
  <2>3. /\ z \in XotgType /\ z.ep0 = x.ep0 /\ z.seq = x.seq /\ z.stalled = x.stalled
        /\ z.state = x.state
    BY <2>2 DEF XotgType
  <2> HIDE DEF z
  <2>4. StatusIn(z) \in XotgType
    BY <2>3, StatusInAnswers DEF Answers
  <2>5. Answered(x0, StatusIn(z), ev) /\ StatusIn(z).seq = ev.seq
    BY <1>3, <1>6, <2>3 DEF InReqs
  <2> QED
    BY <1>4, <1>6, <2>1, <2>4, <2>5
<1>7. CASE ev.req = "unconfigure"
  <2>1. y = StatusIn(Disabled(x))
    BY <1>7 DEF Setup, SetConfiguration, x
  <2>2. Disabled(x) \in XotgType /\ Disabled(x).ep0 = x.ep0
    BY <1>2, DisabledType
  <2>3. /\ Disabled(x).seq = x.seq /\ Disabled(x).stalled = x.stalled
        /\ Disabled(x).state = "default"
    BY <1>2 DEF Disabled, XotgType
  <2> QED
    BY <1>3, <1>7, <2>1, <2>2, <2>3 DEF InReqs
<1>8. CASE ev.req \in {"plain", "halt", "clear", "reset"}
  <2>1. PICK z \in {x, [x EXCEPT !.halted = Eps], [x EXCEPT !.halted = {}],
                   [x EXCEPT !.reset_req = TRUE]} : y = StatusIn(z)
    BY <1>8 DEF Setup, BulkReset, x
  <2>2. /\ z \in XotgType /\ z.ep0 = x.ep0 /\ z.seq = x.seq /\ z.stalled = x.stalled
        /\ z.state = x.state
    BY <1>2 DEF XotgType
  <2>3. ev.req \notin InReqs
    BY <1>8 DEF InReqs
  <2> QED
    BY <1>3, <2>1, <2>2, <2>3
<1>9. CASE ev.req = "other"
  <2>1. y = x
    BY <1>9 DEF Setup, x
  <2> QED
    BY <1>2, <1>9, <2>1
<1>10. CASE ev.req = "descriptor"
  <2>1. y = DataIn(x)
    BY <1>10 DEF Setup, GetDescriptor, x
  <2>2. Quiet(x) /\ x.ep0.todo = <<>> /\ Promise(x.state) \subseteq Promise(x0.state)
    BY <1>2 DEF Quiet
  <2> QED
    BY <1>2, <1>10, <2>1, <2>2, DataAnswered DEF InReqs
<1>11. CASE ev.req = "max_lun" /\ x.lun_set
  <2> DEFINE z == [x EXCEPT !.state = "lun_wait"]
  <2>1. y = DataIn(z)
    BY <1>11 DEF Setup, GetMaxLun, x
  <2>2. /\ z \in XotgType /\ z.ep0 = x.ep0 /\ z.seq = x.seq /\ z.stalled = x.stalled
        /\ z.state = "lun_wait"
    BY <1>2 DEF XotgType
  <2>3. Promise("lun_wait") = {"max_lun"} /\ Quiet(z) /\ z.ep0.todo = <<>>
    BY <1>2, <2>2 DEF Promise, Quiet
  <2> HIDE DEF z
  <2> QED
    BY <1>2, <1>11, <2>1, <2>2, <2>3, DataAnswered DEF InReqs
<1>12. CASE ev.req = "unknown" \/ (ev.req = "max_lun" /\ ~ x.lun_set)
  <2>1. y = [x EXCEPT !.stalled = TRUE]
    BY <1>12 DEF Setup, GetMaxLun, Stall, x
  <2> QED
    BY <1>2, <2>1 DEF XotgType
<1> QED
  BY <1>1, <1>5, <1>6, <1>7, <1>8, <1>9, <1>10, <1>11, <1>12, CtrlAssumption

\* Handling a request answers the host, or it is not answered ever.
LEMMA SetupDialogue ==
  ASSUME NEW x \in XotgType, NEW s \in Seq(Events), s # <<>>, CtrlOK(x.ep0, s), NEW h,
         Head(s).type = "setup", Dialogue(x, s, h)
  PROVE  Dialogue(Setup(x, Head(s)), Tail(s), h) /\ NoSetup(Tail(s)) /\ Asking(x, s, h)
<1> DEFINE ev == Head(s)
           t  == Tail(s)
           y  == Setup(x, ev)
<1>1. /\ Len(s) \in Nat /\ Len(s) > 0 /\ ev = s[1] /\ Len(t) = Len(s) - 1
      /\ \A i \in 1 .. Len(t) : i + 1 \in 1 .. Len(s) /\ t[i] = s[i + 1]
  BY Shorter
<1>2. 1 \in 1 .. Len(s) /\ ev \in Events
  BY <1>1
<1>3. ~ NoSetup(s)
  BY <1>1, <1>2 DEF NoSetup
<1>4. Asking(x, s, h)
  BY <1>3 DEF Dialogue, Resting, Handled, Working, Between, Refused, Unanswered
<1>5. PICK i \in 1 .. Len(s) : Request(s, h, i)
  BY <1>4 DEF Asking
<1>6. i = 1
  BY <1>1, <1>2, <1>5 DEF Request
<1>7. ev.req = h.req /\ ev.seq = h.seq
  BY <1>1, <1>5, <1>6 DEF Request
<1>8. NoSetup(t)
  BY <1>1, <1>5, <1>6 DEF Request, NoSetup
<1>9. Quiet(x)
  <2>1. ~ OneCtrl(s)
    BY <1>5, <1>6 DEF Request, OneCtrl
  <2>2. x.ep0.todo = <<>> /\ Len(<<>>) = 0
    BY <1>4 DEF Asking
  <2> QED
    BY <2>1, <2>2 DEF CtrlOK, Quiet
<1> HIDE DEF ev, t
<1>10. /\ y.seq = ev.seq
       /\ \/ Answered(x, y, ev)
          \/ /\ y.ep0.todo = <<>> /\ y.wait = x.wait /\ y.state = x.state
             /\ y.stalled \/ ev.req = "other"
  BY <1>2, <1>4, <1>9, SetupSays DEF Asking, ev
<1> HIDE DEF y
<1>11. Handled(y, t, h)
  BY <1>4, <1>7, <1>8, <1>10 DEF Handled, Asking
<1>12. CASE Answered(x, y, ev)
  <2>1. /\ y.ep0.todo = <<Td(h.stage, h.seq)>> /\ y.wait = h.stage /\ ~ y.stalled
        /\ Promise(y.state) \subseteq
             Promise(x.state) \cup (IF y.state \in {"configured_wait", "lun_wait"}
                                    THEN {h.req} ELSE {})
    BY <1>4, <1>7, <1>12 DEF Answered, Asking
  <2>2. KeptOr(y, h)
    BY <1>4, <2>1 DEF Asking, Kept, KeptOr
  <2>3. Working(y, t, h)
    BY <1>11, <2>1, <2>2 DEF Working
  <2> QED
    BY <1>4, <1>8, <2>3 DEF Dialogue, y, t, ev
<1>13. CASE /\ y.ep0.todo = <<>> /\ y.wait = x.wait /\ y.state = x.state
            /\ y.stalled \/ ev.req = "other"
  <2>1. Kept(y, h) /\ y.wait # "data"
    BY <1>4, <1>13 DEF Asking, Kept
  <2>2. Refused(y, t, h) \/ Unanswered(y, t, h)
    BY <1>7, <1>11, <1>13, <2>1 DEF Refused, Unanswered
  <2> QED
    BY <1>4, <1>8, <2>2 DEF Dialogue, y, t, ev
<1> QED
  BY <1>10, <1>12, <1>13

\* Told that a stage is done, the driver queues the status of a data stage, or
\* reaches the state that was waited for.
LEMMA TransferDialogue ==
  ASSUME NEW x \in XotgType, NEW s \in Seq(Events), s # <<>>, CtrlOK(x.ep0, s), NEW h,
         IsCtrl(Head(s)), Dialogue(x, s, h)
  PROVE  Dialogue(Transfer(x, Head(s)), Tail(s), h)
<1> DEFINE ev == Head(s)
           t  == Tail(s)
           y  == Transfer(x, ev)
           x1 == [x EXCEPT !.ep0 = Retired(x.ep0)]
<1>1. /\ Len(s) \in Nat /\ Len(s) > 0 /\ ev = s[1] /\ Len(t) = Len(s) - 1
      /\ \A i \in 1 .. Len(t) : i + 1 \in 1 .. Len(s) /\ t[i] = s[i + 1]
      /\ \A i \in 1 .. Len(s) : i # 1 => i - 1 \in 1 .. Len(t) /\ t[i - 1] = s[i]
  BY Shorter
<1>2. 1 \in 1 .. Len(s) /\ ev \in Events
  BY <1>1
<1>3. ~ NoCtrl(s)
  BY <1>1, <1>2 DEF NoCtrl
<1>4. x.ep0.todo = <<>> /\ OneCtrl(s)
  BY <1>3 DEF CtrlOK
<1>5. NoSetup(s) => NoSetup(t)
  BY <1>1 DEF NoSetup
<1>6. ASSUME NEW i \in 1 .. Len(s), Request(s, h, i)
      PROVE  i - 1 \in 1 .. Len(t) /\ Request(t, h, i - 1)
  <2>1. i # 1
    BY <1>1, <1>6 DEF Request, IsCtrl
  <2> QED
    BY <1>1, <1>6, <2>1 DEF Request
<1>7. /\ x1.ep0.todo = x.ep0.todo /\ x1.wait = x.wait /\ x1.seq = x.seq
      /\ x1.state = x.state /\ x1.stalled = x.stalled /\ x1 \in XotgType
  <2>1. x.ep0 \in RingType(Stages) /\ Retired(x.ep0) \in RingType({"data", "status"})
    BY Ep0Type, RetiredType DEF Stages
  <2>2. Retired(x.ep0).todo = x.ep0.todo
    BY <2>1 DEF Retired, RingType
  <2> QED
    BY <2>1, <2>2 DEF XotgType
<1>8. y = CASE ev.code = "ok" /\ x1.wait = "data"   -> StatusOut(x1)
            [] ev.code = "ok" /\ x1.wait = "status" -> [x1 EXCEPT !.state = StateAfter(x1)]
            [] OTHER -> x1
  BY DEF Transfer, IsCtrl
<1> HIDE DEF ev, t, y, x1
<1>9. CASE ev.code = "ok" /\ x1.wait = "data"
  <2>1. Between(x, s, h)
    BY <1>4, <1>7, <1>9 DEF Dialogue, Resting, Asking, Working, Between, Refused, Unanswered
  <2>2. y = [x1 EXCEPT !.ep0 = Queued(x1.ep0, Td("status", x1.seq)), !.wait = "status"]
    BY <1>8, <1>9 DEF StatusOut
  <2>3. /\ y.ep0 = Queued(x1.ep0, Td("status", x1.seq)) /\ y.wait = "status"
        /\ y.seq = x.seq /\ y.state = x.state /\ y.stalled = x.stalled
    BY <1>7, <2>2 DEF XotgType
  <2>4. y.ep0.todo = <<Td("status", x.seq)>>
    BY <1>4, <1>7, <2>3, OnlyStage
  <2>5. Handled(y, t, h) /\ h.stage = "status" /\ KeptOr(y, h)
    BY <1>5, <2>1, <2>3 DEF Between, Handled, KeptOr
  <2>6. Working(y, t, h)
    BY <2>1, <2>3, <2>4, <2>5 DEF Working, Between, Handled
  <2> QED
    BY <2>6 DEF Dialogue, y, t, ev
<1>10. CASE ~ (ev.code = "ok" /\ x1.wait = "data")
  <2>1. /\ y.ep0.todo = <<>> /\ y.wait = x.wait /\ y.seq = x.seq /\ y.stalled = x.stalled
        /\ y.state = x.state \/ (x.wait = "status" /\ y.state = StateAfter(x1))
    BY <1>4, <1>7, <1>8, <1>10 DEF XotgType
  <2>2. Promise(y.state) = Promise(x.state)
    BY <1>7, <2>1, PromiseAfter
  <2>3. Kept(x, h) => Kept(y, h)
    BY <2>2 DEF Kept
  <2>4. x.wait # "status" /\ KeptOr(x, h) => KeptOr(y, h)
    BY <2>1 DEF KeptOr
  <2>5. Handled(x, s, h) => Handled(y, t, h)
    BY <1>5, <2>1 DEF Handled
  <2>6. ~ Working(x, s, h)
    <3>1. Len(<<Td(h.stage, h.seq)>>) # Len(<<>>)
      OBVIOUS
    <3> QED
      BY <1>4, <3>1 DEF Working
  <2>7. ~ Between(x, s, h)
    BY <1>1, <1>2, <1>7, <1>10 DEF Between, ev
  <2>8. Resting(x, s, h) => Resting(y, t, h)
    BY <1>5, <2>1, <2>3 DEF Resting
  <2>9. Asking(x, s, h) => Asking(y, t, h)
    BY <1>6, <2>1, <2>3 DEF Asking
  <2>10. Refused(x, s, h) => Refused(y, t, h)
    BY <2>1, <2>3, <2>5 DEF Refused
  <2>11. Unanswered(x, s, h) => Unanswered(y, t, h)
    BY <2>1, <2>3, <2>4, <2>5 DEF Unanswered
  <2>12. Dialogue(y, t, h)
    BY <2>6, <2>7, <2>8, <2>9, <2>10, <2>11 DEF Dialogue
  <2> QED
    BY <2>12 DEF y, t, ev
<1> QED
  BY <1>9, <1>10

\* What handling an event is: the oldest one goes, and its handler runs.
LEMMA EventHandled ==
  ASSUME CtrlInv, OpEvent
  PROVE  /\ events.todo \in Seq(Events) /\ events.todo # <<>>
         /\ Head(events.todo) \in Events /\ events'.todo = Tail(events.todo)
         /\ xotg' = CASE Head(events.todo).type = "transfer" ->
                           Transfer(xotg, Head(events.todo))
                      [] Head(events.todo).type = "setup" -> Setup(xotg, Head(events.todo))
                      [] Head(events.todo).type = "port" /\ "CSC" \in Acknowledged(port.flags)
                           -> [xotg EXCEPT !.speed = port.speed]
                      [] OTHER -> xotg
         /\ port' = IF Head(events.todo).type = "port"
                    THEN [port EXCEPT !.flags = @ \ Acknowledged(@)] ELSE port
         /\ UNCHANGED <<pc, host>>
<1> DEFINE q == Taken(events)
<1>1. /\ events \in EventRingType /\ EventsOK(events) /\ events.todo # <<>>
  BY DEF CtrlInv, TypeOK, OpEvent
<1>2. events.todo \in Seq(Events) /\ events.trb[events.deq].event = Head(events.todo)
  BY <1>1, NewIsPosted DEF EventsInOrder, EventRingType
<1>3. Head(events.todo) \in Events
  BY <1>1, <1>2
<1>4. q.todo = Tail(events.todo) /\ q \in EventRingType
  BY <1>1, TakenKeeps, TakenType
<1> HIDE DEF q
<1>5. events' = [q EXCEPT !.erdp = q.deq] \/ events' = q
  BY DEF OpEvent, q
<1>6. events'.todo = Tail(events.todo)
  BY <1>4, <1>5 DEF EventRingType
<1> QED
  BY <1>1, <1>2, <1>3, <1>6 DEF OpEvent

\* The types the steps of the dialogue need.
LEMMA HostParts ==
  ASSUME CtrlInv
  PROVE  /\ xotg \in XotgType /\ xotg.ep0 \in RingType(Stages)
         /\ events.todo \in Seq(Events) /\ CtrlOK(xotg.ep0, events.todo)
         /\ host \in HostType /\ port \in [speed : Speeds \cup {"none"}, flags : SUBSET PortFlags]
BY Ep0Type DEF CtrlInv, TypeOK, HostType, EventRingType

\* A posted event is the last of those to be handled.
LEMMA PostAppends ==
  ASSUME CtrlInv, NEW ev, Post(ev)
  PROVE  events'.todo = Append(events.todo, ev)
BY DEF Post, Posted, CtrlInv, TypeOK, EventRingType

\* The number of the host's next control transfer.
LEMMA SeqNext ==
  ASSUME CtrlInv
  PROVE  (host.seq + 1) % SeqCount \in SeqNums
<1>1. host.seq + 1 \in Int /\ SeqCount \in Nat \ {0}
  BY HostParts, CtrlAssumption DEF HostType, SeqNums
<1> QED
  BY <1>1 DEF SeqNums

\* An event is handled.
LEMMA OpEventHost ==
  ASSUME CtrlInv, HostInv, OpEvent
  PROVE  HostInv'
<1> DEFINE s == events.todo
           ev == Head(s)
<1>1. /\ s \in Seq(Events) /\ s # <<>> /\ ev \in Events /\ events'.todo = Tail(s)
      /\ xotg' = CASE ev.type = "transfer" -> Transfer(xotg, ev)
                   [] ev.type = "setup" -> Setup(xotg, ev)
                   [] ev.type = "port" /\ "CSC" \in Acknowledged(port.flags) ->
                        [xotg EXCEPT !.speed = port.speed]
                   [] OTHER -> xotg
      /\ UNCHANGED <<pc, host>>
  BY EventHandled
<1>2. xotg \in XotgType /\ CtrlOK(xotg.ep0, s)
  BY HostParts
<1> HIDE DEF s, ev
<1> SUFFICES ASSUME host.abandoned = 0
             PROVE  Dialogue(xotg', Tail(s), host)
  BY <1>1 DEF HostInv
<1>3. Dialogue(xotg, s, host)
  BY DEF HostInv, s
<1>4. CASE ev.type = "setup"
  BY <1>1, <1>2, <1>3, <1>4, SetupDialogue DEF ev
<1>5. CASE IsCtrl(ev)
  <2>1. xotg' = Transfer(xotg, ev)
    BY <1>1, <1>5 DEF IsCtrl
  <2> QED
    BY <1>1, <1>2, <1>3, <1>5, <2>1, TransferDialogue DEF ev
<1>6. CASE ev.type # "setup" /\ ~ IsCtrl(ev)
  <2>1. SameControl(s, Tail(s), host)
    BY <1>1, <1>6, TakenSame DEF ev
  <2>2. /\ xotg'.ep0.todo = xotg.ep0.todo /\ xotg'.wait = xotg.wait /\ xotg'.seq = xotg.seq
        /\ xotg'.state = xotg.state /\ xotg'.stalled = xotg.stalled
    <3>1. CASE ev.type = "transfer"
      <4>1. xotg' = Transfer(xotg, ev) /\ ev.ep # "ctrl"
        BY <1>1, <1>6, <3>1 DEF IsCtrl
      <4>2. xotg' = [xotg EXCEPT !.bulk[ev.ep] = Retired(@)]
        BY <4>1 DEF Transfer
      <4> QED
        BY <1>2, <4>2 DEF XotgType
    <3>2. CASE ev.type # "transfer"
      <4>1. xotg' = [xotg EXCEPT !.speed = port.speed] \/ xotg' = xotg
        BY <1>1, <1>6, <3>2
      <4> QED
        BY <1>2, <4>1 DEF XotgType
    <3> QED
      BY <3>1, <3>2
  <2> QED
    BY <1>3, <2>1, <2>2, SameDialogue
<1> QED
  BY <1>4, <1>5, <1>6

\* A step that takes nothing from the dialogue, and lets no loop pass.
LEMMA SameHost ==
  ASSUME CtrlInv, HostInv, pc' = pc,
         SameControl(events.todo, events'.todo, host),
         xotg'.ep0.todo = xotg.ep0.todo, xotg'.wait = xotg.wait, xotg'.seq = xotg.seq,
         xotg'.state = xotg.state, xotg'.stalled = xotg.stalled, host' = host
  PROVE  HostInv'
BY SameDialogue DEF HostInv, Passed

\* Without events there is nothing new to say.
LEMMA SameEvents ==
  ASSUME NEW s, NEW h
  PROVE  SameControl(s, s, h)
BY DEF SameControl

\* The loops wait for the state that tells them that the host was told.
LEMMA LoopsHost ==
  ASSUME CtrlInv, HostInv, EnumNext \/ LunNext \/ GadgetNext
  PROVE  HostInv'
<1>1. xotg \in XotgType /\ events' = events /\ host' = host
  BY HostParts DEF EnumNext, LunNext, GadgetNext
<1> SUFFICES ASSUME host.abandoned = 0
             PROVE  Dialogue(xotg', events.todo, host) /\ Passed(pc', host)
  BY <1>1 DEF HostInv
<1>2. Dialogue(xotg, events.todo, host) /\ Passed(pc, host)
  BY DEF HostInv
<1>3. SameControl(events.todo, events.todo, host)
  BY SameEvents
<1>4. CASE EnumNext
  <2>1. /\ xotg' = xotg \/ xotg' = [xotg EXCEPT !.lun_set = TRUE]
        /\ pc' # "gadget" /\ (pc' = "lun" => xotg.state = "configured")
    BY <1>4 DEF EnumNext
  <2>2. pc' = "lun" => "configure" \in host.did
    BY <1>2, <2>1, ReachedWasSaid DEF Promise
  <2>3. /\ xotg'.ep0.todo = xotg.ep0.todo /\ xotg'.wait = xotg.wait /\ xotg'.seq = xotg.seq
        /\ xotg'.state = xotg.state /\ xotg'.stalled = xotg.stalled
    BY <1>1, <2>1 DEF XotgType
  <2> QED
    BY <1>2, <1>3, <2>1, <2>2, <2>3, SameDialogue DEF Passed
<1>5. CASE LunNext /\ xotg' = xotg
  <2>1. pc' = pc \/ xotg.state = "lun_configured"
    BY <1>5 DEF LunNext
  <2>2. CASE pc' = pc
    BY <1>2, <1>5, <2>2
  <2>3. CASE xotg.state = "lun_configured"
    <3>1. "max_lun" \in host.did /\ "configure" \in host.did
      BY <1>2, <1>5, <2>3, ReachedWasSaid DEF Promise, Passed, LunNext
    <3> QED
      BY <1>2, <1>5, <3>1 DEF Passed
  <2> QED
    BY <2>1, <2>2, <2>3
<1>6. CASE /\ pc = "lun" /\ xotg.state = "lun_configured" /\ pc' = "gadget"
           /\ xotg' = [xotg EXCEPT !.state = "configured"]
  <2>1. "max_lun" \in host.did /\ "configure" \in host.did
    BY <1>2, <1>6, ReachedWasSaid DEF Promise, Passed
  <2>2. /\ xotg'.ep0 = xotg.ep0 /\ xotg'.wait = xotg.wait /\ xotg'.seq = xotg.seq
        /\ xotg'.state = "configured" /\ xotg'.stalled = xotg.stalled
    BY <1>1, <1>6 DEF XotgType
  <2>3. Kept(xotg', host) /\ KeptOr(xotg', host)
    BY <2>1, <2>2 DEF Kept, KeptOr, Promise
  <2>4. Dialogue(xotg', events.todo, host)
    BY <1>2, <2>2, <2>3 DEF Dialogue, Resting, Asking, Handled, Working, Between, Refused,
       Unanswered
  <2> QED
    BY <2>1, <2>4 DEF Passed
<1>7. CASE GadgetNext
  <2>1. xotg' = [xotg EXCEPT !.reset_req = FALSE] /\ pc' = pc
    BY <1>7 DEF GadgetNext
  <2>2. /\ xotg'.ep0.todo = xotg.ep0.todo /\ xotg'.wait = xotg.wait /\ xotg'.seq = xotg.seq
        /\ xotg'.state = xotg.state /\ xotg'.stalled = xotg.stalled
    BY <1>1, <2>1 DEF XotgType
  <2> QED
    BY <1>2, <1>3, <2>1, <2>2, SameDialogue
<1> QED
  BY <1>4, <1>5, <1>6, <1>7 DEF LunNext

\* At first the host rests.
LEMMA NewHostRests ==
  Dialogue(NewXotg, <<>>, NewHost) /\ \A c \in {"enum", "off"} : Passed(c, NewHost)
<1>1. NewXotg.ep0 = EmptyRing /\ EmptyRing.todo = <<>>
  BY DEF NewXotg, EmptyRing
<1>2. NoSetup(<<>>)
  BY DEF NoSetup
<1>3. Kept(NewXotg, NewHost)
  BY DEF Kept, Promise, NewXotg, NewHost
<1>4. Resting(NewXotg, <<>>, NewHost)
  BY <1>1, <1>2, <1>3 DEF Resting, NewXotg, NewHost
<1> QED
  BY <1>4 DEF Dialogue, Passed

\* A bulk transfer queued between the stages of a request leaves it unanswered.
LEMMA GadgetQueuesHost ==
  ASSUME CtrlInv, HostInv, GadgetQueues
  PROVE  HostInv'
<1>1. /\ xotg \in XotgType /\ events' = events /\ host' = host /\ pc' = pc
      /\ \E d \in Eps, b \in Bufs :
           xotg' = [xotg EXCEPT !.bulk[d] = Queued(@, Td(b, 0)), !.wait = "normal"]
  BY HostParts DEF GadgetQueues
<1>2. /\ xotg'.ep0 = xotg.ep0 /\ xotg'.wait = "normal" /\ xotg'.seq = xotg.seq
      /\ xotg'.state = xotg.state /\ xotg'.stalled = xotg.stalled
  BY <1>1 DEF XotgType
<1>3. (Kept(xotg', host) <=> Kept(xotg, host)) /\ (KeptOr(xotg', host) <=> KeptOr(xotg, host))
  BY <1>2 DEF Kept, KeptOr
<1> SUFFICES ASSUME host.abandoned = 0
             PROVE  Dialogue(xotg', events.todo, host)
  BY <1>1 DEF HostInv
<1>4. Dialogue(xotg, events.todo, host)
  BY DEF HostInv
<1> QED
  BY <1>2, <1>3, <1>4 DEF Dialogue, Resting, Asking, Handled, Working, Between, Refused,
     Unanswered

\* A host that is not in the middle of a request rests.
LEMMA IdleRests ==
  ASSUME NEW x, NEW s, NEW h, Dialogue(x, s, h), h.stage = "idle"
  PROVE  Resting(x, s, h)
BY DEF Dialogue, Asking, Handled, Working, Between, Refused, Unanswered

\* A cable that is plugged in while the host rests changes nothing of it.
LEMMA ConnectHost ==
  ASSUME CtrlInv, HostInv, Connect
  PROVE  HostInv'
<1>1. host \in HostType /\ events.todo \in Seq(Events) /\ pc' = pc /\ xotg' = xotg
  BY HostParts DEF Connect
<1>2. host' = [host EXCEPT !.conn = @ + 1, !.stage = "idle", !.req = "none",
                           !.abandoned = IF Busy THEN @ + 1 ELSE @]
  BY DEF Connect
<1>3. /\ host'.stage = "idle" /\ host'.seq = host.seq /\ host'.did = host.did
      /\ host'.abandoned = IF Busy THEN host.abandoned + 1 ELSE host.abandoned
  BY <1>1, <1>2 DEF HostType
<1> SUFFICES ASSUME host'.abandoned = 0
             PROVE  Dialogue(xotg, events'.todo, host') /\ Passed(pc, host')
  BY <1>1 DEF HostInv
<1>4. ~ Busy /\ host.abandoned = 0
  BY <1>1, <1>3 DEF HostType
<1>5. Resting(xotg, events.todo, host) /\ Passed(pc, host)
  BY <1>4, IdleRests DEF HostInv, Busy
<1>6. SameControl(events.todo, events'.todo, host)
  <2>1. PICK flags \in SUBSET PortFlags :
          IF port.flags = {} THEN Post([type |-> "port"]) ELSE UNCHANGED <<events, ip>>
    BY DEF Connect
  <2> DEFINE ev == [type |-> "port"]
  <2>2. CASE events' = Posted(events, ev)
    <3>1. ev \in Events /\ ev.type # "setup" /\ ~ IsCtrl(ev)
      BY DEF Events, IsCtrl
    <3>2. events'.todo = Append(events.todo, ev)
      BY <2>2 DEF Posted, CtrlInv, TypeOK, EventRingType
    <3> QED
      BY <1>1, <3>1, <3>2, PostedSame
  <2>3. CASE events' = events
    BY <2>3, SameEvents
  <2> QED
    BY <2>1, <2>2, <2>3 DEF Post
<1>7. NoSetup(events'.todo)
  BY <1>5, <1>6 DEF SameControl, Resting
<1>8. Kept(xotg, host') /\ Passed(pc, host')
  BY <1>3, <1>5 DEF Resting, Kept, Passed
<1> QED
  BY <1>3, <1>5, <1>7, <1>8 DEF Resting, Dialogue

\* The number of a request differs from that of the one before.
LEMMA SeqMoves ==
  ASSUME NEW n \in SeqNums
  PROVE  (n + 1) % SeqCount # n
<1>1. SeqCount \in Nat /\ SeqCount >= 2 /\ n \in 0 .. SeqCount - 1
  BY CtrlAssumption DEF SeqNums
<1>2. CASE n + 1 < SeqCount
  BY <1>1, <1>2
<1>3. CASE n + 1 = SeqCount
  BY <1>1, <1>3
<1> QED
  BY <1>1, <1>2, <1>3

\* The host makes a request only while it rests, or gives one up.
LEMMA HostSetupHost ==
  ASSUME CtrlInv, HostInv, HostSetup
  PROVE  HostInv'
<1> DEFINE seq == (host.seq + 1) % SeqCount
           s   == events.todo
<1>1. PICK r \in Requests :
        /\ Post([type |-> "setup", req |-> r, seq |-> seq, conn |-> host.conn])
        /\ host' = [host EXCEPT
             !.stage = IF r \in InReqs THEN "data" ELSE "status", !.req = r,
             !.seq = seq, !.abandoned = IF Busy THEN host.abandoned + 1 ELSE host.abandoned]
  BY DEF HostSetup
<1> DEFINE ev == [type |-> "setup", req |-> r, seq |-> seq, conn |-> host.conn]
<1>2. host \in HostType /\ s \in Seq(Events) /\ pc' = pc /\ xotg' = xotg
  BY HostParts DEF HostSetup
<1>3. /\ host'.stage = (IF host'.req \in InReqs THEN "data" ELSE "status") /\ host'.req = r
      /\ host'.seq = seq /\ host'.did = host.did
      /\ host'.abandoned = IF Busy THEN host.abandoned + 1 ELSE host.abandoned
  BY <1>1, <1>2 DEF HostType
<1> SUFFICES ASSUME host'.abandoned = 0
             PROVE  Dialogue(xotg, events'.todo, host') /\ Passed(pc, host')
  BY <1>2 DEF HostInv
<1>4. ~ Busy /\ host.abandoned = 0
  BY <1>2, <1>3 DEF HostType
<1>5. Resting(xotg, s, host) /\ Passed(pc, host)
  BY <1>4, IdleRests DEF HostInv, Busy
<1>6. seq \in SeqNums
  BY SeqNext
<1>7. ev \in Events
  BY <1>2, <1>6 DEF Events, HostType
<1>8. events'.todo = Append(s, ev)
  BY <1>1, PostAppends
<1>9. /\ Len(s) \in Nat /\ Len(Append(s, ev)) = Len(s) + 1 /\ Append(s, ev)[Len(s) + 1] = ev
      /\ \A i \in 1 .. Len(s) : Append(s, ev)[i] = s[i]
  BY <1>2, <1>7, Longer
<1>10. /\ ev.type = "setup" /\ ev.req = host'.req /\ ev.seq = host'.seq /\ ~ IsCtrl(ev)
  BY <1>3 DEF IsCtrl
<1>11. host'.seq = (xotg.seq + 1) % SeqCount
  BY <1>3, <1>5 DEF Resting
<1> HIDE DEF ev, seq, s
<1>12. Request(Append(s, ev), host', Len(s) + 1)
  <2>1. NoSetup(s)
    BY <1>5 DEF Resting
  <2> QED
    BY <1>9, <1>10, <2>1 DEF Request, NoSetup
<1>13. \E i \in 1 .. Len(events'.todo) : Request(events'.todo, host', i)
  BY <1>8, <1>9, <1>12
<1>14. Kept(xotg, host') /\ Passed(pc, host')
  BY <1>3, <1>5 DEF Resting, Kept, Passed
<1>15. Asking(xotg, events'.todo, host')
  BY <1>3, <1>5, <1>11, <1>13, <1>14 DEF Asking, Resting
<1> QED
  BY <1>14, <1>15 DEF Dialogue

\* The stage the controller does is the one the host waits for.
LEMMA ControlDoneHost ==
  ASSUME CtrlInv, HostInv, ControlDone
  PROVE  HostInv'
<1> DEFINE td == xotg.ep0.trb[Place(xotg.ep0, 0)].td
           s  == events.todo
<1>1. /\ xotg \in XotgType /\ xotg.ep0 \in RingType(Stages) /\ s \in Seq(Events)
      /\ host \in HostType /\ RingOK(xotg.ep0) /\ pc' = pc
      /\ CtrlOK(xotg.ep0, s) /\ CtrlOK(xotg.ep0, s)'
  BY HostParts, ControlDoneKeeps DEF ControlDone, CtrlInv
<1>2. xotg.ep0.todo # <<>> /\ td = Head(xotg.ep0.todo)
  BY <1>1, DueIsQueued DEF ControlDone
<1>3. PICK code \in {"ok", "seq_num"} :
        /\ Post([type |-> "transfer", ep |-> "ctrl", code |-> code])
        /\ \/ td.seq # host.seq /\ code = "seq_num" /\ host' = host
           \/ /\ td.seq = host.seq /\ td.what = host.stage /\ code = "ok"
              /\ host' = IF td.what = "data" THEN [host EXCEPT !.stage = "status"]
                         ELSE [host EXCEPT !.stage = "idle", !.req = "none",
                                           !.did = @ \cup ({host.req} \cap Told)]
  BY DEF ControlDone
<1> DEFINE ev == [type |-> "transfer", ep |-> "ctrl", code |-> code]
           t  == Append(s, ev)
<1>4. ev \in Events /\ IsCtrl(ev) /\ ev.type # "setup" /\ ev.code = code
  BY DEF Events, IsCtrl
<1>5. events'.todo = t
  BY <1>3, PostAppends
<1>6. /\ Len(s) \in Nat /\ Len(t) = Len(s) + 1 /\ t[Len(s) + 1] = ev
      /\ \A i \in 1 .. Len(s) : t[i] = s[i]
  BY <1>1, <1>4, Longer
<1>7. host'.abandoned = host.abandoned
  BY <1>1, <1>3 DEF HostType
<1>8. xotg' = [xotg EXCEPT !.ep0 = Fetched(xotg.ep0)]
  BY DEF ControlDone
<1>9. /\ xotg'.ep0 = Fetched(xotg.ep0) /\ xotg'.wait = xotg.wait /\ xotg'.seq = xotg.seq
      /\ xotg'.state = xotg.state /\ xotg'.stalled = xotg.stalled
  BY <1>1, <1>8 DEF XotgType
<1> HIDE DEF td, s, ev, t
<1> SUFFICES ASSUME host.abandoned = 0
             PROVE  Dialogue(xotg', t, host') /\ Passed(pc, host')
  BY <1>1, <1>5, <1>7 DEF HostInv
<1>10. Working(xotg, s, host) /\ Passed(pc, host)
  BY <1>2 DEF HostInv, Dialogue, Resting, Asking, Between, Refused, Unanswered, s
<1>11. td = Td(host.stage, host.seq) /\ xotg'.ep0.todo = <<>>
  <2>1. xotg.ep0.todo = <<Td(host.stage, host.seq)>>
    BY <1>10 DEF Working
  <2>2. Fetched(xotg.ep0).todo = Tail(xotg.ep0.todo)
    BY <1>1, <1>2, FetchedKeeps
  <2> QED
    BY <1>2, <1>9, <2>1, <2>2
<1>12. code = "ok" /\ td.what = host.stage
  BY <1>3, <1>11 DEF Td
<1>13. NoSetup(t) /\ host.stage \in Stages /\ xotg.seq = host.seq /\ ~ xotg.stalled
       /\ xotg.wait \in {host.stage, "normal"} /\ KeptOr(xotg, host)
  <2>1. NoSetup(s)
    BY <1>10 DEF Working, Handled
  <2>2. NoSetup(t)
    BY <1>4, <1>6, <2>1 DEF NoSetup
  <2> QED
    BY <1>1, <1>10, <2>2 DEF Working, Handled, HostType, Stages
<1>14. CASE host.stage = "data"
  <2>1. /\ host'.stage = "status" /\ host'.req = host.req /\ host'.seq = host.seq
        /\ host'.did = host.did
    BY <1>1, <1>3, <1>11, <1>12, <1>14 DEF HostType, Td
  <2>2. KeptOr(xotg', host') /\ Passed(pc, host')
    BY <1>9, <1>10, <1>13, <2>1 DEF KeptOr, Passed
  <2>3. Handled(xotg', t, host')
    BY <1>9, <1>13, <2>1 DEF Handled
  <2>4. NoCtrl(s)
    <3>1. Len(xotg.ep0.todo) = 1 /\ xotg.ep0.todo # <<>>
      BY <1>2, <1>10 DEF Working
    <3> QED
      BY <1>1, <3>1 DEF CtrlOK
  <2>5. OneCtrl(t)
    BY <1>1, <1>4, <2>4, PostedCtrl DEF t
  <2>6. \A i \in 1 .. Len(t) : IsCtrl(t[i]) => t[i].code = "ok"
    BY <1>4, <1>6, <1>12, <2>4 DEF NoCtrl
  <2>7. Between(xotg', t, host') \/ Unanswered(xotg', t, host')
    BY <1>9, <1>11, <1>13, <1>14, <2>1, <2>2, <2>3, <2>5, <2>6 DEF Between, Unanswered
  <2> QED
    BY <2>2, <2>7 DEF Dialogue
<1>15. CASE host.stage = "status"
  <2>1. /\ host'.stage = "idle" /\ host'.seq = host.seq
        /\ host'.did = host.did \cup ({host.req} \cap Told)
    BY <1>1, <1>3, <1>11, <1>12, <1>15 DEF HostType, Td
  <2>2. Passed(pc, host')
    BY <1>10, <2>1 DEF Passed
  <2>3. Kept(xotg', host')
    <3>1. Promise(xotg.state) \subseteq Told
      BY DEF Promise, Told
    <3> QED
      BY <1>9, <1>13, <2>1, <3>1 DEF Kept, KeptOr
  <2>4. Resting(xotg', t, host')
    BY <1>9, <1>11, <1>13, <1>15, <2>1, <2>3 DEF Resting
  <2> QED
    BY <2>2, <2>4 DEF Dialogue
<1> QED
  BY <1>13, <1>14, <1>15 DEF Stages

\* A refusal that the host sees is of its present request.
LEMMA HostStalledHost ==
  ASSUME CtrlInv, HostInv, HostStalled
  PROVE  HostInv'
<1> DEFINE s == events.todo
<1>1. /\ xotg.stalled /\ xotg.seq = host.seq /\ Busy /\ UNCHANGED <<pc, xotg, events>>
      /\ host' = [host EXCEPT !.stage = "idle", !.req = "none"]
      /\ xotg \in XotgType /\ host \in HostType
  BY HostParts DEF HostStalled
<1>2. /\ host'.stage = "idle" /\ host'.seq = host.seq /\ host'.did = host.did
      /\ host'.abandoned = host.abandoned
  BY <1>1 DEF HostType
<1> SUFFICES ASSUME host.abandoned = 0
             PROVE  Dialogue(xotg, s, host') /\ Passed(pc, host')
  BY <1>1, <1>2 DEF HostInv
<1>3. Dialogue(xotg, s, host) /\ Passed(pc, host)
  BY DEF HostInv
<1>4. xotg.seq \in SeqNums
  BY <1>1 DEF XotgType
<1>5. Refused(xotg, s, host)
  BY <1>1, <1>3, <1>4, SeqMoves DEF Dialogue, Resting, Asking, Working, Between, Unanswered,
     Busy
<1>6. Kept(xotg, host') /\ Passed(pc, host')
  BY <1>2, <1>3, <1>5 DEF Refused, Kept, Passed
<1>7. Resting(xotg, s, host')
  BY <1>2, <1>5, <1>6 DEF Refused, Handled, Resting
<1> QED
  BY <1>6, <1>7 DEF Dialogue

\* Bulk transfers are nothing to the host's requests.
LEMMA BulkDoneHost ==
  ASSUME CtrlInv, HostInv, BulkDone
  PROVE  HostInv'
<1>1. PICK d \in Eps :
        /\ Post([type |-> "transfer", ep |-> d, code |-> "ok"])
        /\ xotg' = [xotg EXCEPT !.bulk[d] = Fetched(xotg.bulk[d])]
  BY DEF BulkDone
<1> DEFINE ev == [type |-> "transfer", ep |-> d, code |-> "ok"]
<1>2. ev \in Events /\ ev.type # "setup" /\ ~ IsCtrl(ev)
  BY CtrlAssumption DEF Events, IsCtrl
<1>3. events'.todo = Append(events.todo, ev)
  BY <1>1, PostAppends
<1> HIDE DEF ev
<1>4. SameControl(events.todo, events'.todo, host)
  BY <1>2, <1>3, HostParts, PostedSame
<1>5. /\ xotg'.ep0.todo = xotg.ep0.todo /\ xotg'.wait = xotg.wait /\ xotg'.seq = xotg.seq
      /\ xotg'.state = xotg.state /\ xotg'.stalled = xotg.stalled
  BY <1>1, HostParts DEF XotgType
<1> QED
  BY <1>4, <1>5, SameHost DEF BulkDone

\* Every step keeps the dialogue.
LEMMA HostStep ==
  ASSUME CtrlInv, HostInv, [Next]_vars
  PROVE  HostInv'
<1>1. CASE UNCHANGED vars
  BY <1>1 DEF HostInv, vars
<1>2. CASE OpInterrupt \/ OpTimeout \/ OpLook
  BY <1>2 DEF HostInv, OpInterrupt, OpTimeout, OpLook
<1>3. CASE End
  <2>1. pc' = "off" /\ xotg' = NewXotg /\ events' = EmptyEvents /\ host' = NewHost
    BY <1>3 DEF End
  <2>2. EmptyEvents.todo = <<>>
    BY EmptyEventsOK
  <2> QED
    BY <2>1, <2>2, NewHostRests DEF HostInv
<1>4. CASE Restart
  <2>1. UNCHANGED <<xotg, events, host>> /\ pc' = "enum"
    BY <1>4 DEF Restart
  <2> QED
    BY <2>1 DEF HostInv, Passed
<1>5. CASE Hardware
  BY <1>5, ConnectHost, HostSetupHost, ControlDoneHost, HostStalledHost, BulkDoneHost
     DEF Hardware
<1> QED
  BY <1>1, <1>2, <1>3, <1>4, <1>5, OpEventHost, LoopsHost, GadgetQueuesHost DEF Next, Thread

\* So it holds always.
LEMMA DialogueAlways == Spec => [](CtrlInv /\ HostInv)
<1>1. Init => CtrlInv /\ HostInv
  <2>1. Init => xotg = NewXotg /\ events.todo = <<>> /\ host = NewHost /\ pc = "enum"
    BY EmptyEventsOK DEF Init
  <2> QED
    BY <2>1, InitInv, NewHostRests DEF HostInv
<1>2. CtrlInv /\ HostInv /\ [Next]_vars => (CtrlInv /\ HostInv)'
  BY StepKeeps, HostStep
<1> QED
  BY <1>1, <1>2, PTL DEF Spec

\* A host that gave no request up was told that SET_CONFIGURATION succeeded before
\* the driver waits for GET_MAX_LUN, and how many units there are before the gadget
\* runs (xusb_device_enumerate, xusb_device_class_send_max_lun): the state waited for
\* is reached with the event of the status stage, and no other event brings it.
THEOREM HostIsTold == Spec => []ToldFirst
<1>1. CtrlInv /\ HostInv => ToldFirst
  BY DEF HostInv, Passed, ToldFirst
<1> QED
  BY <1>1, DialogueAlways, PTL

\* A host that waits for an answer and gave nothing up waits for something that is
\* under way, unless its request is of the class _xusbd_handle_ep0_control_transfer
\* leaves unanswered or a bulk transfer was queued between its stages.
THEOREM AnswerUnderWay == Spec => []NobodyForgotten
<1>1. CtrlInv /\ HostInv => NobodyForgotten
  <2> SUFFICES ASSUME CtrlInv, HostInv, Busy, host.abandoned = 0, host.req # "other",
                      xotg.wait # "normal"
               PROVE  \/ xotg.ep0.todo # <<>> \/ events.todo # <<>>
                      \/ xotg.stalled /\ xotg.seq = host.seq
    BY DEF NobodyForgotten
  <2>1. Dialogue(xotg, events.todo, host)
    BY DEF HostInv
  <2>2. Asking(xotg, events.todo, host) \/ Between(xotg, events.todo, host)
          => \E i \in 1 .. Len(events.todo) : TRUE
    BY DEF Asking, Between, OneCtrl
  <2>3. (\E i \in 1 .. Len(events.todo) : TRUE) => events.todo # <<>>
    <3>1. 1 .. Len(<<>>) = {}
      OBVIOUS
    <3> QED
      BY <3>1
  <2>4. Working(xotg, events.todo, host) => xotg.ep0.todo # <<>>
    BY DEF Working
  <2> QED
    BY <2>1, <2>2, <2>3, <2>4 DEF Dialogue, Resting, Refused, Handled, Unanswered, Busy
<1> QED
  BY <1>1, DialogueAlways, PTL

-----------------------------------------------------------------------------
(* The rings of the bulk endpoints.                                        *)
(*                                                                         *)
(* SET_CONFIGURATION sets their places back and leaves what they hold, so  *)
(* the order of the transfers rests on its being handled only while they   *)
(* are as xusb_device_init cleared them: the host configures the device    *)
(* before it asks for the number of units, and does not do so again.       *)

\* Nothing was ever queued on the ring r.
Fresh(r) == r.trb = EmptyRing.trb /\ r.link = EmptyRing.link

\* None of the events s is a SET_CONFIGURATION.
NoConfigure(s) == \A i \in 1 .. Len(s) : s[i].type = "setup" => s[i].req # "configure"

BulkInv ==
  host.abandoned = 0 =>
  /\ pc \in {"enum", "off"} => ~ xotg.lun_set /\ xotg.state \notin LunStates
  /\ pc # "gadget" => \A d \in Eps : Fresh(xotg.bulk[d])
  /\ pc = "gadget" \/ xotg.state \in LunStates => NoConfigure(events.todo)
  /\ \A d \in Eps : RingOK(xotg.bulk[d])

\* A ring that was never used is in order with its places set back.
LEMMA FreshReloaded ==
  ASSUME NEW W, NEW r \in RingType(W), Fresh(r)
  PROVE  RingOK(Reloaded(r)) /\ Fresh(Reloaded(r))
<1> DEFINE q == Reloaded(r)
<1>1. /\ q.at = EmptyRing.at /\ q.ccs = EmptyRing.ccs /\ q.todo = EmptyRing.todo
      /\ q.enq = EmptyRing.enq /\ q.cycle = EmptyRing.cycle
  BY DEF RingType, Reloaded, EmptyRing
<1>2. q.trb = EmptyRing.trb /\ q.link = EmptyRing.link
  BY DEF RingType, Reloaded, Fresh
<1> HIDE DEF q
<1>3. RingOK(EmptyRing)
  BY EmptyType
<1>4. RingOK(q) /\ Fresh(q)
  BY <1>1, <1>2, <1>3 DEF RingOK, Place, CycleAt, Fresh
<1> QED
  BY <1>4 DEF q

\* Neither the controller nor an event makes a ring that was never used a used one.
LEMMA FreshKept ==
  ASSUME NEW W, NEW r \in RingType(W), Fresh(r)
  PROVE  Fresh(Retired(r)) /\ Fresh(Fetched(r))
<1>1. Place(r, 0) \in 0 .. Link - 1
  BY PlaceType
<1>2. r.trb[Place(r, 0)].td = NoTd
  BY <1>1 DEF Fresh, EmptyRing
<1>3. r.trb \in [0 .. Link - 1 -> [cycle : {0, 1}, td : Tds(W)]]
  BY DEF RingType
<1>4. [r.trb EXCEPT ![Place(r, 0)].td = NoTd] = r.trb
  <2> DEFINE i == Place(r, 0)
             g == [r.trb EXCEPT ![i].td = NoTd]
  <2>1. r.trb[i] \in [cycle : {0, 1}, td : Tds(W)]
    BY <1>1, <1>3
  <2>2. [r.trb[i] EXCEPT !.td = NoTd] = r.trb[i]
    BY <1>2, <2>1
  <2> QED
    BY <1>1, <1>3, <2>2
<1>5. Fetched(r).trb = r.trb /\ Fetched(r).link = r.link
  BY <1>4 DEF Fetched, RingType
<1>6. Retired(r).trb = r.trb /\ Retired(r).link = r.link
  BY DEF Retired, RingType
<1> QED
  BY <1>5, <1>6 DEF Fresh

\* The dequeue place of the driver is not one the order depends on.
LEMMA RetiredOK ==
  ASSUME NEW W, NEW r \in RingType(W), RingOK(r)
  PROVE  RingOK(Retired(r))
<1> DEFINE q == Retired(r)
<1>1. /\ q.at = r.at /\ q.ccs = r.ccs /\ q.todo = r.todo /\ q.enq = r.enq
      /\ q.cycle = r.cycle /\ q.link = r.link /\ q.trb = r.trb
  BY DEF Retired, RingType
<1> HIDE DEF q
<1>2. RingOK(q)
  BY <1>1 DEF RingOK, Place, CycleAt
<1> QED
  BY <1>2 DEF q

\* A stage of a control transfer is nothing to the bulk endpoints.
LEMMA StagesLeaveBulk ==
  ASSUME NEW x \in XotgType
  PROVE  \A y \in {StatusIn(x), DataIn(x), StatusOut(x)} :
           /\ y.bulk = x.bulk /\ y.lun_set = x.lun_set /\ y.state = x.state
           /\ y.speed = x.speed
BY DEF StatusIn, DataIn, StatusOut, XotgType

\* What a request does to the rings of the bulk endpoints, and what makes the device
\* wait for GET_MAX_LUN.  The speed is nothing to any of them.
LEMMA SetupBulk ==
  ASSUME NEW x0 \in XotgType, NEW ev \in Events, ev.type = "setup", NEW y, y = Setup(x0, ev)
  PROVE  /\ y.speed = x0.speed
         /\ \/ y.bulk = x0.bulk
            \/ /\ ev.req = "configure" /\ y.state = "configured_wait"
               /\ y.bulk = [d \in Eps |-> Reloaded(x0.bulk[d])]
         /\ y.lun_set => x0.lun_set
         /\ y.state \in LunStates =>
              x0.state \in LunStates \/ (ev.req = "max_lun" /\ x0.lun_set)
<1> DEFINE x == [x0 EXCEPT !.seq = ev.seq, !.stalled = FALSE]
<1>1. ev.req \in Requests /\ ev.seq \in SeqNums
  BY DEF Events
<1>2. /\ x \in XotgType /\ x.bulk = x0.bulk /\ x.state = x0.state /\ x.lun_set = x0.lun_set
      /\ x.speed = x0.speed
  BY <1>1 DEF XotgType
<1> HIDE DEF x
<1>3. CASE ev.req = "address"
  <2>1. y = [StatusIn(x) EXCEPT !.state = "addressed_wait"] /\ StatusIn(x) \in XotgType
    BY <1>2, <1>3, StatusInAnswers DEF Setup, SetAddress, Answers, x
  <2>2. y.bulk = StatusIn(x).bulk /\ y.lun_set = StatusIn(x).lun_set
        /\ y.state = "addressed_wait" /\ y.speed = StatusIn(x).speed
    BY <2>1 DEF XotgType
  <2> QED
    BY <1>2, <2>2, StagesLeaveBulk DEF LunStates
<1>4. CASE ev.req = "configure"
  <2> DEFINE z == [Opened(x) EXCEPT !.config = 1]
  <2>1. y = [StatusIn(z) EXCEPT !.state = "configured_wait"]
    BY <1>4 DEF Setup, SetConfiguration, x
  <2>2. Opened(x) \in XotgType
    BY <1>2, OpenedType
  <2>3. /\ Opened(x).bulk = [d \in Eps |-> Reloaded(x.bulk[d])]
        /\ Opened(x).lun_set = x.lun_set /\ Opened(x).speed = x.speed
    BY <1>2 DEF Opened, XotgType
  <2>4. /\ z \in XotgType /\ z.bulk = Opened(x).bulk /\ z.lun_set = Opened(x).lun_set
        /\ z.speed = Opened(x).speed
    BY <2>2 DEF XotgType
  <2> HIDE DEF z
  <2>5. StatusIn(z) \in XotgType
    BY <2>4, StatusInAnswers DEF Answers
  <2>6. y.bulk = StatusIn(z).bulk /\ y.lun_set = StatusIn(z).lun_set
        /\ y.state = "configured_wait" /\ y.speed = StatusIn(z).speed
    BY <2>1, <2>5 DEF XotgType
  <2> QED
    BY <1>2, <1>4, <2>3, <2>4, <2>6, StagesLeaveBulk DEF LunStates
<1>5. CASE ev.req = "unconfigure"
  <2>1. y = StatusIn(Disabled(x)) /\ Disabled(x) \in XotgType
    BY <1>2, <1>5, DisabledType DEF Setup, SetConfiguration, x
  <2>2. /\ Disabled(x).bulk = x.bulk /\ ~ Disabled(x).lun_set
        /\ Disabled(x).state = "default" /\ Disabled(x).speed = x.speed
    BY <1>2 DEF Disabled, XotgType
  <2> QED
    BY <1>2, <2>1, <2>2, StagesLeaveBulk DEF LunStates
<1>6. CASE ev.req \in {"plain", "halt", "clear", "reset"}
  <2>1. PICK z \in {x, [x EXCEPT !.halted = Eps], [x EXCEPT !.halted = {}],
                   [x EXCEPT !.reset_req = TRUE]} : y = StatusIn(z)
    BY <1>6 DEF Setup, BulkReset, x
  <2>2. /\ z \in XotgType /\ z.bulk = x.bulk /\ z.state = x.state /\ z.lun_set = x.lun_set
        /\ z.speed = x.speed
    BY <1>2 DEF XotgType
  <2> QED
    BY <1>2, <2>1, <2>2, StagesLeaveBulk
<1>7. CASE ev.req = "other"
  BY <1>2, <1>7 DEF Setup, x
<1>8. CASE ev.req = "descriptor"
  <2>1. y = DataIn(x)
    BY <1>8 DEF Setup, GetDescriptor, x
  <2> QED
    BY <1>2, <2>1, StagesLeaveBulk
<1>9. CASE ev.req = "max_lun" /\ x.lun_set
  <2> DEFINE z == [x EXCEPT !.state = "lun_wait"]
  <2>1. y = DataIn(z)
    BY <1>9 DEF Setup, GetMaxLun, x
  <2>2. /\ z \in XotgType /\ z.bulk = x.bulk /\ z.lun_set = x.lun_set
        /\ z.speed = x.speed
    BY <1>2 DEF XotgType
  <2> HIDE DEF z
  <2> QED
    BY <1>2, <1>9, <2>1, <2>2, StagesLeaveBulk
<1>10. CASE ev.req = "unknown" \/ (ev.req = "max_lun" /\ ~ x.lun_set)
  <2>1. y = [x EXCEPT !.stalled = TRUE]
    BY <1>10 DEF Setup, GetMaxLun, Stall, x
  <2> QED
    BY <1>2, <2>1 DEF XotgType
<1> QED
  BY <1>1, <1>3, <1>4, <1>5, <1>6, <1>7, <1>8, <1>9, <1>10, CtrlAssumption

\* What the steps need of the types.
LEMMA BulkParts ==
  ASSUME CtrlInv
  PROVE  /\ xotg \in XotgType /\ xotg.bulk \in [Eps -> RingType(Bufs)]
         /\ events.todo \in Seq(Events)
         /\ \A d \in Eps : xotg.bulk[d] \in RingType(Bufs)
<1>1. xotg \in XotgType /\ events.todo \in Seq(Events)
  BY HostParts
<1>2. xotg.bulk \in [Eps -> RingType(Bufs)]
  BY <1>1 DEF XotgType
<1> QED
  BY <1>1, <1>2

\* An event that is not of a SET_CONFIGURATION is no other one when it is posted.
LEMMA PostedNoConfigure ==
  ASSUME NEW s \in Seq(Events), NEW ev \in Events, NoConfigure(s),
         ev.type = "setup" => ev.req # "configure"
  PROVE  NoConfigure(Append(s, ev))
<1>1. /\ Len(s) \in Nat /\ Len(Append(s, ev)) = Len(s) + 1
      /\ Append(s, ev)[Len(s) + 1] = ev
      /\ \A i \in 1 .. Len(s) : Append(s, ev)[i] = s[i]
  BY Longer
<1> QED
  BY <1>1 DEF NoConfigure

\* And when one was handled, there are not more of them.
LEMMA TakenNoConfigure ==
  ASSUME NEW s \in Seq(Events), s # <<>>
  PROVE  /\ NoConfigure(s) => NoConfigure(Tail(s))
         /\ NoSetup(s) => NoConfigure(s)
         /\ NoConfigure(s) /\ Head(s).type = "setup" => Head(s).req # "configure"
<1>1. /\ Len(s) \in Nat /\ Len(s) > 0 /\ Head(s) = s[1] /\ Len(Tail(s)) = Len(s) - 1
      /\ \A i \in 1 .. Len(s) - 1 : Tail(s)[i] = s[i + 1]
  BY Shorter
<1> QED
  BY <1>1 DEF NoConfigure, NoSetup

\* A step that leaves the rings and the loop alone, and adds no SET_CONFIGURATION.
LEMMA SameBulk ==
  ASSUME BulkInv, host'.abandoned = 0 => host.abandoned = 0, pc' = pc,
         xotg'.bulk = xotg.bulk, xotg'.lun_set => xotg.lun_set,
         xotg'.state \in LunStates => xotg.state \in LunStates,
         host'.abandoned = 0 /\ NoConfigure(events.todo)
           /\ (pc = "gadget" \/ xotg.state \in LunStates) => NoConfigure(events'.todo)
  PROVE  BulkInv'
BY DEF BulkInv

\* An event is handled: SET_CONFIGURATION before the gadget runs, and GET_MAX_LUN as
\* the only request there is.
LEMMA OpEventBulk ==
  ASSUME CtrlInv, HostInv, BulkInv, OpEvent
  PROVE  BulkInv'
<1> DEFINE s == events.todo
           ev == Head(s)
<1>1. /\ s \in Seq(Events) /\ s # <<>> /\ ev \in Events /\ events'.todo = Tail(s)
      /\ xotg' = CASE ev.type = "transfer" -> Transfer(xotg, ev)
                   [] ev.type = "setup" -> Setup(xotg, ev)
                   [] ev.type = "port" /\ "CSC" \in Acknowledged(port.flags) ->
                        [xotg EXCEPT !.speed = port.speed]
                   [] OTHER -> xotg
      /\ UNCHANGED <<pc, host>>
  BY EventHandled
<1>2. /\ xotg \in XotgType /\ xotg.bulk \in [Eps -> RingType(Bufs)] /\ CtrlOK(xotg.ep0, s)
      /\ \A d \in Eps : xotg.bulk[d] \in RingType(Bufs)
  BY BulkParts, HostParts
<1>3. NoConfigure(s) => NoConfigure(Tail(s))
  BY <1>1, TakenNoConfigure
<1>4. CASE ev.type = "setup"
  <2> SUFFICES ASSUME host.abandoned = 0
               PROVE  BulkInv'
    BY <1>1 DEF BulkInv
  <2>1. xotg' = Setup(xotg, ev)
    BY <1>1, <1>4
  <2>2. /\ \/ xotg'.bulk = xotg.bulk
           \/ /\ ev.req = "configure" /\ xotg'.state = "configured_wait"
              /\ xotg'.bulk = [d \in Eps |-> Reloaded(xotg.bulk[d])]
        /\ xotg'.lun_set => xotg.lun_set
        /\ xotg'.state \in LunStates =>
             xotg.state \in LunStates \/ (ev.req = "max_lun" /\ xotg.lun_set)
    BY <1>1, <1>2, <1>4, <2>1, SetupBulk
  <2>3. NoConfigure(Tail(s))
    <3>1. NoSetup(Tail(s))
      BY <1>1, <1>2, <1>4, SetupDialogue DEF HostInv
    <3> QED
      BY <3>1 DEF NoSetup, NoConfigure
  <2> HIDE DEF s, ev
  <2>4. pc \in {"enum", "off"} => ~ xotg'.lun_set /\ xotg'.state \notin LunStates
    BY <2>2 DEF BulkInv
  <2>5. CASE xotg'.bulk = xotg.bulk
    BY <1>1, <2>3, <2>4, <2>5 DEF BulkInv
  <2>6. CASE /\ ev.req = "configure"
             /\ xotg'.bulk = [d \in Eps |-> Reloaded(xotg.bulk[d])]
    <3>1. pc # "gadget"
      BY <1>1, <1>4, <2>6, TakenNoConfigure DEF BulkInv, s, ev
    <3>2. \A d \in Eps : RingOK(xotg'.bulk[d]) /\ Fresh(xotg'.bulk[d])
      BY <1>2, <2>6, <3>1, FreshReloaded DEF BulkInv
    <3> QED
      BY <1>1, <2>3, <2>4, <3>2 DEF BulkInv
  <2> QED
    BY <2>2, <2>5, <2>6
<1>5. CASE IsCtrl(ev)
  <2> DEFINE x == [xotg EXCEPT !.ep0 = Retired(xotg.ep0)]
  <2>1. xotg' = Transfer(xotg, ev)
    BY <1>1, <1>5 DEF IsCtrl
  <2>2. /\ x.bulk = xotg.bulk /\ x.lun_set = xotg.lun_set /\ x.state = xotg.state
    BY <1>2 DEF XotgType
  <2>3. x \in XotgType
    <3>1. Retired(xotg.ep0) \in RingType({"data", "status"})
      BY HostParts, RetiredType DEF Stages
    <3> QED
      BY <1>2, <3>1 DEF XotgType
  <2>4. xotg' = StatusOut(x) \/ xotg' = [x EXCEPT !.state = StateAfter(x)] \/ xotg' = x
    BY <1>5, <2>1 DEF Transfer, IsCtrl
  <2> HIDE DEF x
  <2>5. /\ xotg'.bulk = xotg.bulk /\ xotg'.lun_set = xotg.lun_set
        /\ xotg'.state \in {xotg.state, StateAfter(x)}
    <3>1. CASE xotg' = StatusOut(x)
      BY <2>2, <2>3, <3>1, StagesLeaveBulk
    <3>2. CASE xotg' = [x EXCEPT !.state = StateAfter(x)] \/ xotg' = x
      BY <2>2, <2>3, <3>2 DEF XotgType
    <3> QED
      BY <2>4, <3>1, <3>2
  <2>6. xotg'.state \in LunStates => xotg.state \in LunStates
    BY <2>2, <2>5, PromiseAfter
  <2> QED
    BY <1>1, <1>3, <2>5, <2>6, SameBulk
<1>6. CASE ev.type = "transfer" /\ ~ IsCtrl(ev)
  <2>1. xotg' = [xotg EXCEPT !.bulk[ev.ep] = Retired(@)] /\ ev.ep \in Eps
    <3>1. ev.ep \in Eps /\ ev.ep # "ctrl"
      BY <1>1, <1>6 DEF Events, IsCtrl
    <3>2. xotg' = Transfer(xotg, ev)
      BY <1>1, <1>6
    <3> QED
      BY <3>1, <3>2 DEF Transfer
  <2>2. /\ xotg'.lun_set = xotg.lun_set /\ xotg'.state = xotg.state
        /\ xotg'.bulk = [xotg.bulk EXCEPT ![ev.ep] = Retired(xotg.bulk[ev.ep])]
    BY <1>2, <2>1 DEF XotgType
  <2>3. \A d \in Eps : /\ RingOK(xotg.bulk[d]) => RingOK(xotg'.bulk[d])
                       /\ Fresh(xotg.bulk[d]) => Fresh(xotg'.bulk[d])
    BY <1>2, <2>1, <2>2, RetiredOK, FreshKept
  <2> QED
    BY <1>1, <1>3, <2>2, <2>3 DEF BulkInv
<1>7. CASE ev.type \notin {"setup", "transfer"}
  <2>1. xotg' = xotg \/ xotg' = [xotg EXCEPT !.speed = port.speed]
    BY <1>1, <1>7
  <2>2. xotg'.bulk = xotg.bulk /\ xotg'.lun_set = xotg.lun_set /\ xotg'.state = xotg.state
    BY <1>2, <2>1 DEF XotgType
  <2> QED
    BY <1>1, <1>3, <2>2, SameBulk
<1> QED
  BY <1>4, <1>5, <1>6, <1>7 DEF IsCtrl

\* The host sends no SET_CONFIGURATION after the enumeration.
NoReconf == MaxReconf = 0

\* The loops: the gadget runs once GET_MAX_LUN was answered.
LEMMA LoopsBulk ==
  ASSUME CtrlInv, BulkInv, EnumNext \/ LunNext \/ GadgetNext
  PROVE  BulkInv'
<1>1. xotg \in XotgType /\ events' = events /\ host' = host
  BY BulkParts DEF EnumNext, LunNext, GadgetNext
<1>2. CASE EnumNext
  <2>1. /\ xotg' = xotg \/ xotg' = [xotg EXCEPT !.lun_set = TRUE]
        /\ pc = "enum" /\ pc' \in {"enum", "lun"} /\ (pc' = "enum" => xotg' = xotg)
    BY <1>2 DEF EnumNext
  <2>2. xotg'.bulk = xotg.bulk /\ xotg'.state = xotg.state
    BY <1>1, <2>1 DEF XotgType
  <2> QED
    BY <1>1, <2>1, <2>2 DEF BulkInv
<1>3. CASE LunNext /\ xotg' = xotg /\ pc' = pc
  BY <1>1, <1>3 DEF BulkInv
<1>4. CASE /\ pc = "lun" /\ xotg.state = "lun_configured" /\ pc' = "gadget"
           /\ xotg' = [xotg EXCEPT !.state = "configured"]
  <2>1. xotg'.bulk = xotg.bulk
    BY <1>1, <1>4 DEF XotgType
  <2> QED
    BY <1>1, <1>4, <2>1 DEF BulkInv, LunStates
<1>5. CASE GadgetNext
  <2>1. xotg' = [xotg EXCEPT !.reset_req = FALSE] /\ pc' = pc
    BY <1>5 DEF GadgetNext
  <2>2. xotg'.bulk = xotg.bulk /\ xotg'.state = xotg.state /\ xotg'.lun_set = xotg.lun_set
    BY <1>1, <2>1 DEF XotgType
  <2> QED
    BY <1>1, <2>1, <2>2 DEF BulkInv
<1> QED
  BY <1>2, <1>3, <1>4, <1>5 DEF LunNext

\* The gadget queues a transfer where there is room.
LEMMA GadgetQueuesBulk ==
  ASSUME CtrlInv, BulkInv, GadgetQueues
  PROVE  BulkInv'
<1>1. PICK d \in Eps, b \in Bufs :
        /\ Len(xotg.bulk[d].todo) < Link
        /\ xotg' = [xotg EXCEPT !.bulk[d] = Queued(@, Td(b, 0)), !.wait = "normal"]
  BY DEF GadgetQueues
<1>2. /\ xotg \in XotgType /\ xotg.bulk \in [Eps -> RingType(Bufs)]
      /\ xotg.bulk[d] \in RingType(Bufs)
  BY BulkParts
<1>3. /\ xotg'.bulk = [xotg.bulk EXCEPT ![d] = Queued(xotg.bulk[d], Td(b, 0))]
      /\ xotg'.state = xotg.state
  BY <1>1, <1>2 DEF XotgType
<1>4. Td(b, 0) \in Tds(Bufs)
  BY CtrlAssumption DEF Td, Tds, SeqNums
<1>5. RingOK(xotg.bulk[d]) => RingOK(Queued(xotg.bulk[d], Td(b, 0)))
  BY <1>1, <1>2, <1>4, QueuedKeeps
<1>6. \A e \in Eps : RingOK(xotg.bulk[e]) => RingOK(xotg'.bulk[e])
  BY <1>2, <1>3, <1>5
<1> QED
  BY <1>3, <1>6 DEF BulkInv, GadgetQueues

\* The controller takes a transfer off a ring.
LEMMA BulkDoneBulk ==
  ASSUME CtrlInv, BulkInv, BulkDone
  PROVE  BulkInv'
<1>1. PICK d \in Eps :
        /\ Due(xotg.bulk[d], 0)
        /\ Post([type |-> "transfer", ep |-> d, code |-> "ok"])
        /\ xotg' = [xotg EXCEPT !.bulk[d] = Fetched(xotg.bulk[d])]
  BY DEF BulkDone
<1> DEFINE ev == [type |-> "transfer", ep |-> d, code |-> "ok"]
<1>2. ev \in Events /\ ev.type # "setup"
  BY DEF Events
<1>3. events'.todo = Append(events.todo, ev)
  BY <1>1, PostAppends
<1> HIDE DEF ev
<1>4. NoConfigure(events.todo) => NoConfigure(events'.todo)
  BY <1>2, <1>3, BulkParts, PostedNoConfigure
<1>5. /\ xotg \in XotgType /\ xotg.bulk \in [Eps -> RingType(Bufs)]
      /\ xotg.bulk[d] \in RingType(Bufs)
  BY BulkParts
<1>6. /\ xotg'.bulk = [xotg.bulk EXCEPT ![d] = Fetched(xotg.bulk[d])]
      /\ xotg'.state = xotg.state /\ xotg'.lun_set = xotg.lun_set
  BY <1>1, <1>5 DEF XotgType
<1>7. /\ RingOK(xotg.bulk[d]) => RingOK(Fetched(xotg.bulk[d]))
      /\ Fresh(xotg.bulk[d]) => Fresh(Fetched(xotg.bulk[d]))
  BY <1>1, <1>5, DueIsQueued, FetchedKeeps, FreshKept
<1>8. \A e \in Eps : /\ RingOK(xotg.bulk[e]) => RingOK(xotg'.bulk[e])
                     /\ Fresh(xotg.bulk[e]) => Fresh(xotg'.bulk[e])
  BY <1>5, <1>6, <1>7
<1> QED
  BY <1>4, <1>6, <1>8 DEF BulkInv, BulkDone

\* A request is made: SET_CONFIGURATION only during the enumeration.
LEMMA HostSetupBulk ==
  ASSUME NoReconf, CtrlInv, BulkInv, HostSetup
  PROVE  BulkInv'
<1> DEFINE seq == (host.seq + 1) % SeqCount
<1>1. PICK r \in Requests :
        /\ r = "configure" /\ pc # "enum" => MaxReconf > 0
        /\ Post([type |-> "setup", req |-> r, seq |-> seq, conn |-> host.conn])
        /\ host'.abandoned = 0 => host.abandoned = 0
  <2>1. PICK r \in Requests :
          /\ r = "configure" /\ pc # "enum" => MaxReconf > 0
          /\ Post([type |-> "setup", req |-> r, seq |-> seq, conn |-> host.conn])
          /\ host' = [host EXCEPT
               !.stage = IF r \in InReqs THEN "data" ELSE "status", !.req = r,
               !.seq = seq, !.abandoned = IF Busy THEN host.abandoned + 1 ELSE host.abandoned]
    BY DEF HostSetup
  <2>2. host'.abandoned = 0 => host.abandoned = 0
    BY <2>1, HostParts DEF HostType
  <2> QED
    BY <2>1, <2>2
<1> DEFINE ev == [type |-> "setup", req |-> r, seq |-> seq, conn |-> host.conn]
<1>2. seq \in SeqNums
  BY SeqNext
<1>3. ev \in Events /\ ev.req = r
  BY <1>2, HostParts DEF Events, HostType
<1>4. events'.todo = Append(events.todo, ev)
  BY <1>1, PostAppends
<1>5. r = "configure" => pc = "enum"
  BY <1>1 DEF NoReconf
<1> HIDE DEF ev
<1>6. r # "configure" /\ NoConfigure(events.todo) => NoConfigure(events'.todo)
  BY <1>3, <1>4, BulkParts, PostedNoConfigure
<1> QED
  BY <1>1, <1>5, <1>6, SameBulk DEF HostSetup, BulkInv

\* A cable is plugged in.
LEMMA ConnectBulk ==
  ASSUME CtrlInv, BulkInv, Connect
  PROVE  BulkInv'
<1>1. PICK flags \in SUBSET PortFlags :
        IF port.flags = {} THEN Post([type |-> "port"]) ELSE UNCHANGED <<events, ip>>
  BY DEF Connect
<1>2. host'.abandoned = 0 => host.abandoned = 0
  <2>1. host' = [host EXCEPT !.conn = @ + 1, !.stage = "idle", !.req = "none",
                             !.abandoned = IF Busy THEN @ + 1 ELSE @]
    BY DEF Connect
  <2> QED
    BY <2>1, HostParts DEF HostType
<1> DEFINE ev == [type |-> "port"]
<1>3. ev \in Events /\ ev.type # "setup"
  BY DEF Events
<1>4. events'.todo = events.todo \/ events'.todo = Append(events.todo, ev)
  BY <1>1, PostAppends
<1> HIDE DEF ev
<1>5. NoConfigure(events.todo) => NoConfigure(events'.todo)
  BY <1>3, <1>4, BulkParts, PostedNoConfigure
<1> QED
  BY <1>2, <1>5, SameBulk DEF Connect

\* The rings that xusb_device_init cleared.
LEMMA NewBulk ==
  /\ ~ NewXotg.lun_set /\ NewXotg.state \notin LunStates
  /\ \A d \in Eps : Fresh(NewXotg.bulk[d]) /\ RingOK(NewXotg.bulk[d])
  /\ NoConfigure(EmptyEvents.todo)
<1>1. \A d \in Eps : NewXotg.bulk[d] = EmptyRing
  BY DEF NewXotg
<1>2. RingOK(EmptyRing) /\ Fresh(EmptyRing)
  BY EmptyType DEF Fresh
<1>3. NoConfigure(<<>>)
  BY DEF NoConfigure
<1> QED
  BY <1>1, <1>2, <1>3, EmptyEventsOK DEF NewXotg, LunStates

\* Every step keeps the rings of the bulk endpoints.
LEMMA BulkStep ==
  ASSUME NoReconf, CtrlInv, HostInv, BulkInv, [Next]_vars
  PROVE  BulkInv'
<1>1. CASE UNCHANGED vars
  BY <1>1 DEF BulkInv, vars
<1>2. CASE OpInterrupt \/ OpTimeout \/ OpLook
  BY <1>2 DEF BulkInv, OpInterrupt, OpTimeout, OpLook
<1>3. CASE End
  <2>1. pc' = "off" /\ xotg' = NewXotg /\ events' = EmptyEvents
    BY <1>3 DEF End
  <2> QED
    BY <2>1, NewBulk DEF BulkInv
<1>4. CASE Restart
  <2>1. UNCHANGED <<xotg, events, host>> /\ pc = "off" /\ pc' = "enum"
    BY <1>4 DEF Restart
  <2> QED
    BY <2>1 DEF BulkInv
<1>5. CASE ControlDone
  <2>1. xotg' = [xotg EXCEPT !.ep0 = Fetched(@)] /\ pc' = pc
    BY <1>5 DEF ControlDone
  <2>2. xotg'.bulk = xotg.bulk /\ xotg'.state = xotg.state /\ xotg'.lun_set = xotg.lun_set
    BY <2>1, BulkParts DEF XotgType
  <2>3. host'.abandoned = host.abandoned
    <3>1. \/ host' = host
          \/ host' = [host EXCEPT !.stage = "status"]
          \/ host' = [host EXCEPT !.stage = "idle", !.req = "none",
                                  !.did = host.did \cup ({host.req} \cap Told)]
      BY <1>5 DEF ControlDone
    <3> QED
      BY <3>1, HostParts DEF HostType
  <2>4. PICK code \in {"ok", "seq_num"} :
          Post([type |-> "transfer", ep |-> "ctrl", code |-> code])
    BY <1>5 DEF ControlDone
  <2> DEFINE ev == [type |-> "transfer", ep |-> "ctrl", code |-> code]
  <2>5. ev \in Events /\ ev.type # "setup"
    BY DEF Events
  <2>6. events'.todo = Append(events.todo, ev)
    BY <2>4, PostAppends
  <2> HIDE DEF ev
  <2>7. NoConfigure(events.todo) => NoConfigure(events'.todo)
    BY <2>5, <2>6, BulkParts, PostedNoConfigure
  <2> QED
    BY <2>1, <2>2, <2>3, <2>7, SameBulk
<1>6. CASE HostStalled
  <2>1. UNCHANGED <<pc, xotg, events>> /\ host'.abandoned = host.abandoned
    BY <1>6, HostParts DEF HostStalled, HostType
  <2> QED
    BY <2>1 DEF BulkInv
<1> QED
  BY <1>1, <1>2, <1>3, <1>4, <1>5, <1>6, OpEventBulk, LoopsBulk, GadgetQueuesBulk,
     BulkDoneBulk, HostSetupBulk, ConnectBulk DEF Next, Thread, Hardware

\* If the host configures the device during the enumeration only, and gave no request
\* up, the controller does the bulk transfers that were queued, each once and in
\* order (_xusb_queue_trb, _xusb_ep_init_context): the rings are set back only while
\* they were never used.
THEOREM BulkIsInOrder == NoReconf => (Spec => [](host.abandoned = 0 => BulkInOrder))
<1> SUFFICES ASSUME NoReconf
             PROVE  Spec => [](host.abandoned = 0 => BulkInOrder)
  OBVIOUS
<1>1. Init => BulkInv
  <2>1. Init => xotg = NewXotg /\ pc = "enum" /\ events = EmptyEvents
    BY DEF Init
  <2> QED
    BY <2>1, NewBulk DEF BulkInv
<1>2. CtrlInv /\ HostInv /\ BulkInv /\ [Next]_vars => BulkInv'
  BY BulkStep
<1>3. CtrlInv /\ BulkInv => (host.abandoned = 0 => BulkInOrder)
  BY BulkParts, RingInOrder DEF BulkInv, BulkInOrder
<1> QED
  BY <1>1, <1>2, <1>3, DialogueAlways, PTL DEF Spec

-----------------------------------------------------------------------------
(* The speed of the port.                                                  *)

\* The changes of the port are all acknowledged when one of them is handled, or a
\* cable is plugged in only once: else a change that stays keeps the next one from
\* being reported, and the speed is that of the connection before.
OneReport ==
  MaxConnects <= 1 \/ \A flags \in SUBSET PortFlags : Acknowledged(flags) = flags

\* None of the events s is a change of the port.
NoPortEvent(s) == \A i \in 1 .. Len(s) : s[i].type # "port"

\* The i-th of the events s is the change of the port, the only one, and before
\* every request of connection c.
PortFirst(s, c, i) ==
  /\ s[i].type = "port"
  /\ \A j \in 1 .. Len(s) : /\ s[j].type = "port" => j = i
                            /\ s[j].type = "setup" /\ s[j].conn = c => i < j

\* No request is of a connection to come.
NoneToCome(s, c) == \A i \in 1 .. Len(s) : s[i].type = "setup" => s[i].conn <= c

SpeedInv ==
  /\ "CSC" \notin port.flags => xotg.speed = port.speed /\ NoPortEvent(events.todo)
  /\ "CSC" \in port.flags =>
       \E i \in 1 .. Len(events.todo) : PortFirst(events.todo, host.conn, i)
  /\ NoneToCome(events.todo, host.conn)
  /\ host.conn = 0 => port.flags = {}
  /\ "CSC" \in port.flags \/ port.flags = {} \/ host.conn >= MaxConnects

\* An event that is posted, if it is no change of the port.
LEMMA PostedPort ==
  ASSUME NEW s \in Seq(Events), NEW ev \in Events, ev.type # "port", NEW c \in Nat,
         ev.type = "setup" => ev.conn = c
  PROVE  /\ NoPortEvent(s) => NoPortEvent(Append(s, ev))
         /\ \A i \in 1 .. Len(s) : PortFirst(s, c, i) =>
              i \in 1 .. Len(Append(s, ev)) /\ PortFirst(Append(s, ev), c, i)
         /\ NoneToCome(s, c) => NoneToCome(Append(s, ev), c)
<1> DEFINE t == Append(s, ev)
<1>1. /\ Len(s) \in Nat /\ Len(t) = Len(s) + 1 /\ t[Len(s) + 1] = ev
      /\ \A i \in 1 .. Len(s) : t[i] = s[i]
  BY Longer
<1>2. 1 .. Len(t) = 1 .. Len(s) \cup {Len(s) + 1} /\ \A i \in 1 .. Len(s) : i < Len(s) + 1
  BY <1>1
<1> HIDE DEF t
<1>3. NoPortEvent(s) => NoPortEvent(t)
  BY <1>1, <1>2 DEF NoPortEvent
<1>4. \A i \in 1 .. Len(s) : PortFirst(s, c, i) => i \in 1 .. Len(t) /\ PortFirst(t, c, i)
  BY <1>1, <1>2 DEF PortFirst
<1>5. NoneToCome(s, c) => NoneToCome(t, c)
  BY <1>1, <1>2 DEF NoneToCome
<1> QED
  BY <1>3, <1>4, <1>5 DEF t

\* An event that is handled, if it is no change of the port.
LEMMA TakenPort ==
  ASSUME NEW s \in Seq(Events), s # <<>>, NEW c \in Nat
  PROVE  /\ NoPortEvent(s) => NoPortEvent(Tail(s))
         /\ Head(s).type # "port" => \A i \in 1 .. Len(s) : PortFirst(s, c, i) =>
              i - 1 \in 1 .. Len(Tail(s)) /\ PortFirst(Tail(s), c, i - 1)
         /\ Head(s).type = "port" => \A i \in 1 .. Len(s) : PortFirst(s, c, i) =>
              NoPortEvent(Tail(s))
         /\ NoneToCome(s, c) => NoneToCome(Tail(s), c)
<1> DEFINE t == Tail(s)
<1>1. /\ Len(s) \in Nat /\ Len(s) > 0 /\ Head(s) = s[1] /\ Len(t) = Len(s) - 1
      /\ \A i \in 1 .. Len(t) : i + 1 \in 1 .. Len(s) /\ t[i] = s[i + 1]
      /\ \A i \in 1 .. Len(s) : i # 1 => i - 1 \in 1 .. Len(t) /\ t[i - 1] = s[i]
  BY Shorter
<1> HIDE DEF t
<1>2. NoPortEvent(s) => NoPortEvent(t)
  BY <1>1 DEF NoPortEvent
<1>3. ASSUME NEW i \in 1 .. Len(s), PortFirst(s, c, i), Head(s).type # "port"
      PROVE  i - 1 \in 1 .. Len(t) /\ PortFirst(t, c, i - 1)
  <2>1. i # 1
    BY <1>1, <1>3 DEF PortFirst
  <2>2. i - 1 \in 1 .. Len(t) /\ t[i - 1].type = "port"
    BY <1>1, <1>3, <2>1 DEF PortFirst
  <2>3. ASSUME NEW j \in 1 .. Len(t)
        PROVE  /\ t[j].type = "port" => j = i - 1
               /\ t[j].type = "setup" /\ t[j].conn = c => i - 1 < j
    <3>1. j + 1 \in 1 .. Len(s) /\ t[j] = s[j + 1]
      BY <1>1
    <3> QED
      BY <1>3, <3>1 DEF PortFirst
  <2> QED
    BY <2>2, <2>3 DEF PortFirst
<1>4. ASSUME NEW i \in 1 .. Len(s), PortFirst(s, c, i), Head(s).type = "port"
      PROVE  NoPortEvent(t)
  <2>1. i = 1
    BY <1>1, <1>4 DEF PortFirst
  <2>2. ASSUME NEW j \in 1 .. Len(t)
        PROVE  t[j].type # "port"
    <3>1. j + 1 \in 1 .. Len(s) /\ t[j] = s[j + 1] /\ j + 1 # 1
      BY <1>1
    <3> QED
      BY <1>4, <2>1, <3>1 DEF PortFirst
  <2> QED
    BY <2>2 DEF NoPortEvent
<1>5. NoneToCome(s, c) => NoneToCome(t, c)
  BY <1>1 DEF NoneToCome
<1> QED
  BY <1>2, <1>3, <1>4, <1>5 DEF t

\* A step that posts no change of the port, and leaves speed and port alone.
LEMMA SamePort ==
  ASSUME CtrlInv, SpeedInv, port' = port, xotg'.speed = xotg.speed, host'.conn = host.conn,
         \/ events'.todo = events.todo
         \/ \E ev \in Events : /\ ev.type # "port" /\ (ev.type = "setup" => ev.conn = host.conn)
                               /\ events'.todo = Append(events.todo, ev)
         \/ /\ events.todo # <<>> /\ Head(events.todo).type # "port"
            /\ events'.todo = Tail(events.todo)
  PROVE  SpeedInv'
<1> DEFINE s == events.todo
           t == events'.todo
<1>1. s \in Seq(Events) /\ host.conn \in Nat
  BY HostParts DEF HostType
<1>2. /\ NoPortEvent(s) => NoPortEvent(t)
      /\ (\E i \in 1 .. Len(s) : PortFirst(s, host.conn, i))
           => (\E i \in 1 .. Len(t) : PortFirst(t, host.conn, i))
      /\ NoneToCome(s, host.conn) => NoneToCome(t, host.conn)
  <2>1. CASE t = s
    BY <2>1
  <2>2. CASE \E ev \in Events : /\ ev.type # "port" /\ (ev.type = "setup" => ev.conn = host.conn)
                                /\ t = Append(s, ev)
    BY <1>1, <2>2, PostedPort
  <2>3. CASE s # <<>> /\ Head(s).type # "port" /\ t = Tail(s)
    BY <1>1, <2>3, TakenPort
  <2> QED
    BY <2>1, <2>2, <2>3
<1> HIDE DEF s, t
<1>3. /\ "CSC" \notin port.flags => xotg.speed = port.speed /\ NoPortEvent(s)
      /\ "CSC" \in port.flags => \E i \in 1 .. Len(s) : PortFirst(s, host.conn, i)
      /\ NoneToCome(s, host.conn)
  BY DEF SpeedInv, s
<1>4. /\ "CSC" \notin port'.flags => xotg'.speed = port'.speed /\ NoPortEvent(t)
      /\ "CSC" \in port'.flags => \E i \in 1 .. Len(t) : PortFirst(t, host'.conn, i)
      /\ NoneToCome(t, host'.conn)
  BY <1>2, <1>3
<1> QED
  BY <1>4 DEF SpeedInv, t

\* A handled change of the port brings its speed to the driver.
LEMMA OpEventPort ==
  ASSUME OneReport, CtrlInv, SpeedInv, OpEvent
  PROVE  SpeedInv'
<1> DEFINE s == events.todo
           ev == Head(s)
<1>1. /\ s \in Seq(Events) /\ s # <<>> /\ ev \in Events /\ events'.todo = Tail(s)
      /\ xotg' = CASE ev.type = "transfer" -> Transfer(xotg, ev)
                   [] ev.type = "setup" -> Setup(xotg, ev)
                   [] ev.type = "port" /\ "CSC" \in Acknowledged(port.flags) ->
                        [xotg EXCEPT !.speed = port.speed]
                   [] OTHER -> xotg
      /\ port' = IF ev.type = "port"
                 THEN [port EXCEPT !.flags = @ \ Acknowledged(@)] ELSE port
      /\ UNCHANGED <<pc, host>>
  BY EventHandled
<1>2. /\ xotg \in XotgType /\ host.conn \in Nat
      /\ port \in [speed : Speeds \cup {"none"}, flags : SUBSET PortFlags]
  BY HostParts DEF HostType
<1> HIDE DEF s, ev
<1>3. CASE ev.type # "port"
  <2>1. xotg'.speed = xotg.speed
    <3>1. CASE ev.type = "setup"
      <4>1. xotg' = Setup(xotg, ev) /\ ev \in Events /\ xotg \in XotgType
        BY <1>1, <1>2, <3>1
      <4>2. Setup(xotg, ev).speed = xotg.speed
        BY <3>1, <4>1, SetupBulk
      <4> QED
        BY <4>1, <4>2
    <3>2. CASE ev.type = "transfer"
      <4>1. xotg' = Transfer(xotg, ev)
        BY <1>1, <3>2
      <4> QED
        BY <1>2, <4>1 DEF Transfer, StatusOut, XotgType
    <3>3. CASE ev.type \notin {"setup", "transfer"}
      BY <1>1, <1>3, <3>3
    <3> QED
      BY <3>1, <3>2, <3>3
  <2> QED
    BY <1>1, <1>3, <2>1, SamePort DEF s, ev
<1>4. CASE ev.type = "port"
  <2>1. ~ NoPortEvent(s)
    <3>1. Len(s) > 0 /\ Len(s) \in Nat /\ ev = s[1]
      BY <1>1, Shorter DEF ev
    <3> QED
      BY <1>4, <3>1 DEF NoPortEvent
  <2>2. "CSC" \in port.flags
    BY <2>1 DEF SpeedInv, s
  <2>3. "CSC" \in Acknowledged(port.flags)
    BY <2>2 DEF Acknowledged
  <2>4. xotg'.speed = port.speed /\ port'.speed = port.speed
        /\ port'.flags = port.flags \ Acknowledged(port.flags)
    BY <1>1, <1>2, <1>4, <2>3 DEF XotgType
  <2>5. NoPortEvent(events'.todo) /\ NoneToCome(events'.todo, host.conn)
    BY <1>1, <1>2, <1>4, <2>2, TakenPort DEF SpeedInv, s, ev
  <2>6. host.conn # 0
    BY <2>2 DEF SpeedInv
  <2>7. port'.flags = {} \/ host.conn >= MaxConnects
    <3>1. CASE MaxConnects <= 1
      BY <1>2, <2>6, <3>1, CtrlAssumption
    <3>2. CASE \A flags \in SUBSET PortFlags : Acknowledged(flags) = flags
      BY <1>2, <2>4, <3>2
    <3> QED
      BY <3>1, <3>2 DEF OneReport
  <2> QED
    BY <1>1, <2>3, <2>4, <2>5, <2>6, <2>7 DEF SpeedInv
<1> QED
  BY <1>3, <1>4

\* A cable that is plugged in is reported, or its report is still to be handled.
LEMMA ConnectPort ==
  ASSUME CtrlInv, SpeedInv, Connect
  PROVE  SpeedInv'
<1> DEFINE s  == events.todo
           t  == events'.todo
           ev == [type |-> "port"]
<1>1. PICK sp \in Speeds, flags \in SUBSET PortFlags :
        /\ "CSC" \in flags
        /\ port' = [speed |-> sp, flags |-> port.flags \cup flags]
        /\ IF port.flags = {} THEN Post(ev) ELSE UNCHANGED <<events, ip>>
  BY DEF Connect
<1>2. /\ host \in HostType /\ s \in Seq(Events) /\ host.conn < MaxConnects
      /\ host' = [host EXCEPT !.conn = @ + 1, !.stage = "idle", !.req = "none",
                              !.abandoned = IF Busy THEN @ + 1 ELSE @]
  BY HostParts DEF Connect
<1>3. host'.conn = host.conn + 1 /\ host.conn \in Nat
  BY <1>2 DEF HostType
<1>4. "CSC" \in port'.flags
  BY <1>1
<1>5. ev \in Events /\ ev.type = "port"
  BY DEF Events
<1> HIDE DEF ev
<1>6. NoneToCome(s, host.conn)
  BY DEF SpeedInv
<1>7. \A i \in 1 .. Len(s) : s[i].type = "setup" => s[i].conn \in Nat
  <2>1. \A e \in Events : e.type = "setup" => e.conn \in Nat
    BY DEF Events
  <2> QED
    BY <1>2, <2>1
<1>8. CASE port.flags = {}
  <2>1. t = Append(s, ev)
    BY <1>1, <1>8, PostAppends
  <2>2. NoPortEvent(s)
    BY <1>8 DEF SpeedInv
  <2>3. /\ Len(s) \in Nat /\ Len(t) = Len(s) + 1 /\ t[Len(s) + 1] = ev
        /\ \A i \in 1 .. Len(s) : t[i] = s[i]
    BY <1>2, <1>5, <2>1, Longer
  <2> HIDE DEF s, t
  <2>4. PortFirst(t, host'.conn, Len(s) + 1)
    <3>1. ASSUME NEW j \in 1 .. Len(t)
          PROVE  /\ t[j].type = "port" => j = Len(s) + 1
                 /\ t[j].type = "setup" /\ t[j].conn = host'.conn => Len(s) + 1 < j
      <4>1. CASE j = Len(s) + 1
        BY <1>5, <2>3, <4>1
      <4>2. CASE j # Len(s) + 1
        <5>1. j \in 1 .. Len(s) /\ t[j] = s[j]
          BY <2>3, <4>2
        <5> QED
          BY <1>3, <1>6, <1>7, <2>2, <5>1 DEF NoPortEvent, NoneToCome
      <4> QED
        BY <4>1, <4>2
    <3> QED
      BY <1>5, <2>3, <3>1 DEF PortFirst
  <2>5. NoneToCome(t, host'.conn)
    <3>1. ASSUME NEW j \in 1 .. Len(t), t[j].type = "setup"
          PROVE  t[j].conn <= host'.conn
      <4>1. j # Len(s) + 1
        BY <1>5, <2>3, <3>1
      <4>2. j \in 1 .. Len(s) /\ t[j] = s[j]
        BY <2>3, <4>1
      <4> QED
        BY <1>3, <1>6, <1>7, <3>1, <4>2 DEF NoneToCome
    <3> QED
      BY <3>1 DEF NoneToCome
  <2> QED
    BY <1>3, <1>4, <2>3, <2>4, <2>5 DEF SpeedInv, t
<1>9. CASE port.flags # {}
  <2>1. t = s
    BY <1>1, <1>9
  <2>2. "CSC" \in port.flags
    BY <1>2, <1>3, <1>9, CtrlAssumption DEF SpeedInv
  <2>3. PICK i \in 1 .. Len(s) : PortFirst(s, host.conn, i)
    BY <2>2 DEF SpeedInv
  <2>4. PortFirst(s, host'.conn, i)
    BY <1>3, <1>6, <1>7, <2>3 DEF PortFirst, NoneToCome
  <2>5. NoneToCome(s, host'.conn)
    BY <1>3, <1>6, <1>7 DEF NoneToCome
  <2> QED
    BY <1>3, <1>4, <2>1, <2>4, <2>5 DEF SpeedInv
<1> QED
  BY <1>8, <1>9

\* Every step keeps the speed.
LEMMA PortStep ==
  ASSUME OneReport, CtrlInv, SpeedInv, [Next]_vars
  PROVE  SpeedInv'
<1>1. CASE UNCHANGED vars
  BY <1>1 DEF SpeedInv, vars
<1>2. CASE OpInterrupt \/ OpTimeout \/ OpLook \/ Restart \/ HostStalled
  <2>1. port' = port /\ xotg' = xotg /\ events' = events /\ host'.conn = host.conn
    BY <1>2, HostParts DEF OpInterrupt, OpTimeout, OpLook, Restart, HostStalled, HostType
  <2> QED
    BY <2>1, SamePort
<1>3. CASE EnumNext \/ LunNext \/ GadgetNext \/ GadgetQueues
  <2>1. port' = port /\ events' = events /\ host' = host
    BY <1>3 DEF EnumNext, LunNext, GadgetNext, GadgetQueues
  <2>2. xotg'.speed = xotg.speed
    BY <1>3, HostParts DEF EnumNext, LunNext, GadgetNext, GadgetQueues, XotgType
  <2> QED
    BY <2>1, <2>2, SamePort
<1>4. CASE End
  <2>1. /\ xotg'.speed = "none" /\ events' = EmptyEvents /\ port'.speed = "none"
        /\ port'.flags = {} /\ host'.conn = 0
    BY <1>4 DEF End, NewXotg, NoPort, NewHost
  <2>2. NoPortEvent(<<>>) /\ NoneToCome(<<>>, 0)
    BY DEF NoPortEvent, NoneToCome
  <2> QED
    BY <2>1, <2>2, EmptyEventsOK DEF SpeedInv
<1>5. CASE HostSetup
  <2> DEFINE seq == (host.seq + 1) % SeqCount
  <2>1. PICK r \in Requests :
          /\ Post([type |-> "setup", req |-> r, seq |-> seq, conn |-> host.conn])
          /\ host' = [host EXCEPT
               !.stage = IF r \in InReqs THEN "data" ELSE "status", !.req = r,
               !.seq = seq, !.abandoned = IF Busy THEN host.abandoned + 1 ELSE host.abandoned]
    BY <1>5 DEF HostSetup
  <2> DEFINE ev == [type |-> "setup", req |-> r, seq |-> seq, conn |-> host.conn]
  <2>2. seq \in SeqNums
    BY SeqNext
  <2>3. ev \in Events /\ ev.type # "port" /\ ev.conn = host.conn
    BY <2>2, HostParts DEF Events, HostType
  <2>4. events'.todo = Append(events.todo, ev)
    BY <2>1, PostAppends
  <2>5. host'.conn = host.conn
    BY <2>1, HostParts DEF HostType
  <2> HIDE DEF ev
  <2> QED
    BY <1>5, <2>3, <2>4, <2>5, SamePort DEF HostSetup
<1>6. CASE ControlDone \/ BulkDone
  <2>1. PICK ep, code :
          /\ [type |-> "transfer", ep |-> ep, code |-> code] \in Events
          /\ Post([type |-> "transfer", ep |-> ep, code |-> code])
    BY <1>6 DEF ControlDone, BulkDone, Events
  <2> DEFINE ev == [type |-> "transfer", ep |-> ep, code |-> code]
  <2>2. ev \in Events /\ ev.type \notin {"port", "setup"}
    BY <2>1
  <2>3. events'.todo = Append(events.todo, ev)
    BY <2>1, PostAppends
  <2>4. host'.conn = host.conn
    <3>1. \/ host' = host
          \/ host' = [host EXCEPT !.stage = "status"]
          \/ host' = [host EXCEPT !.stage = "idle", !.req = "none",
                                  !.did = host.did \cup ({host.req} \cap Told)]
      BY <1>6 DEF ControlDone, BulkDone
    <3> QED
      BY <3>1, HostParts DEF HostType
  <2>5. xotg'.speed = xotg.speed /\ port' = port
    BY <1>6, HostParts DEF ControlDone, BulkDone, XotgType
  <2> HIDE DEF ev
  <2> QED
    BY <2>2, <2>3, <2>4, <2>5, SamePort
<1> QED
  BY <1>1, <1>2, <1>3, <1>4, <1>5, <1>6, OpEventPort, ConnectPort DEF Next, Thread, Hardware

\* A request of the present connection is handled after the change of the port that
\* brought its speed (_xusb_handle_port_change), for every host and every order of the
\* changes, as long as no change of the port is left that nobody is told of.
THEOREM SpeedIsKnown == OneReport => (Spec => []SpeedKnown)
<1> SUFFICES ASSUME OneReport
             PROVE  Spec => []SpeedKnown
  OBVIOUS
<1>1. Init => SpeedInv
  <2>1. Init => /\ xotg.speed = "none" /\ events = EmptyEvents /\ port.speed = "none"
                /\ port.flags = {} /\ host.conn = 0
    BY DEF Init, NewXotg, NoPort, NewHost
  <2>2. NoPortEvent(<<>>) /\ NoneToCome(<<>>, 0)
    BY DEF NoPortEvent, NoneToCome
  <2> QED
    BY <2>1, <2>2, EmptyEventsOK DEF SpeedInv
<1>2. CtrlInv /\ SpeedInv /\ [Next]_vars => SpeedInv'
  BY PortStep
<1>3. CtrlInv /\ SpeedInv => SpeedKnown
  <2> SUFFICES ASSUME CtrlInv, SpeedInv, events.todo # <<>>,
                      Head(events.todo).type = "setup", Head(events.todo).conn = host.conn
               PROVE  xotg.speed = port.speed
    BY DEF SpeedKnown
  <2>1. /\ Len(events.todo) \in Nat /\ Len(events.todo) > 0
        /\ Head(events.todo) = events.todo[1]
    BY HostParts, Shorter
  <2>2. \A i \in 1 .. Len(events.todo) : ~ PortFirst(events.todo, host.conn, i)
    BY <2>1 DEF PortFirst
  <2> QED
    BY <2>2 DEF SpeedInv
<1> QED
  BY <1>1, <1>2, <1>3, Inductive, PTL DEF Spec
=============================================================================
