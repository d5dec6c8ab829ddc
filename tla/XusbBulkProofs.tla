--------------------------- MODULE XusbBulkProofs ---------------------------
(***************************************************************************)
(* The endpoint keeps its type: lemmas on the requests of the gadget, and  *)
(* on the steps of the controller, the host and _xusb_ep_operation.        *)
(***************************************************************************)
EXTENDS UmsProperties, SequenceTheorems, TLAPS

-----------------------------------------------------------------------------
(* Requests of the gadget.                                                 *)

\* Overwriting a buffer changes only what the transfers that send it carry.
LEMMA OverwrittenType ==
  ASSUME NEW e \in EpType, NEW buf \in Bufs
  PROVE  /\ Overwritten(e, buf) \in EpType
         /\ Overwritten(e, buf).out = e.out
         /\ Overwritten(e, buf).events = e.events
         /\ Len(Overwritten(e, buf).in) = Len(e.in)
<1> DEFINE s == [i \in DOMAIN e.in |-> IF e.in[i].buf = buf THEN [e.in[i] EXCEPT !.kind = "junk"] ELSE e.in[i]]
<1>1. e.in \in Seq(InTrb)
  BY DEF EpType
<1>2. DOMAIN e.in = 1 .. Len(e.in) /\ Len(e.in) \in Nat
  BY <1>1
<1>3. ASSUME NEW i \in 1 .. Len(e.in) PROVE s[i] \in InTrb
  <2>1. e.in[i] \in InTrb
    BY <1>1, ElementOfSeq
  <2>2. [e.in[i] EXCEPT !.kind = "junk"] \in InTrb
    BY <2>1 DEF InTrb
  <2> QED
    BY <1>2, <2>1, <2>2
<1>4. s \in Seq(InTrb) /\ Len(s) = Len(e.in)
  <2> HIDE DEF s
  <2>1. s = [i \in 1 .. Len(e.in) |-> s[i]]
    BY <1>2 DEF s
  <2> QED
  BY <1>2, <1>3, <2>1, SeqDef, LenProperties
<1>5. Overwritten(e, buf) = [e EXCEPT !.in = s]
  BY DEF Overwritten
<1> HIDE DEF s
<1> QED
  BY <1>4, <1>5 DEF EpType

\* One more transfer in the IN ring.
LEMMA InWriteType ==
  ASSUME TypeCommand, NEW e \in EpType, NEW buf \in Bufs, NEW len \in 0 .. EpMax,
         NEW kind \in {"data", "csw"}
  PROVE  InWrite(e, buf, len, kind) \in EpType
<1> DEFINE t == [buf |-> buf, len |-> len, kind |-> kind, tag |-> tag]
<1>1. t \in InTrb
  BY DEF InTrb, TypeCommand
<1>2. Append(e.in, t) \in Seq(InTrb)
  BY <1>1, AppendProperties DEF EpType
<1>3. InWrite(e, buf, len, kind) = [e EXCEPT !.in = Append(e.in, t), !.in_count = 1, !.res = "ok"]
  BY DEF InWrite
<1>4. "ok" \in Results /\ 1 \in 0 .. 2
  BY DEF Results
<1> DEFINE q == Append(e.in, t)
<1> HIDE DEF q
<1>5. q \in Seq(InTrb) /\ InWrite(e, buf, len, kind) = [e EXCEPT !.in = q, !.in_count = 1, !.res = "ok"]
  BY <1>2, <1>3 DEF q
<1> QED
  BY <1>4, <1>5 DEF EpType

\* A transfer, and the empty one that follows a lone full packet.
LEMMA InStartType ==
  ASSUME TypeCommand, NEW e \in EpType, NEW buf \in Bufs, NEW len \in 0 .. EpMax
  PROVE  InStart(e, buf, len) \in EpType
<1> DEFINE e1 == InWrite(e, buf, len, "data")
           e2 == InWrite(e1, buf, 0, "data")
<1>1. e1 \in EpType
  BY InWriteType
<1>2. 0 \in 0 .. EpMax
  BY SizesAssumption
<1> HIDE DEF e1
<1>3. e2 \in EpType
  BY <1>1, <1>2, InWriteType
<1> HIDE DEF e2
<1>4. e1 \in EpType /\ (InStart(e, buf, len) = e1 \/ InStart(e, buf, len) = [e2 EXCEPT !.in_count = 2])
  BY <1>1 DEF InStart, e1, e2
<1>5. 2 \in 0 .. 2
  OBVIOUS
<1>6. [e2 EXCEPT !.in_count = 2] \in EpType
  BY <1>3, <1>5 DEF EpType
<1> QED
  BY <1>4, <1>6

\* One more request in the OUT ring.
LEMMA OutReadType ==
  ASSUME NEW e \in EpType, NEW len \in 1 .. EpMax
  PROVE  OutRead(e, len) \in EpType
<1> DEFINE q == Append(e.out, [len |-> len])
<1>1. [len |-> len] \in OutTrb
  BY DEF OutTrb
<1>2. q \in Seq(OutTrb)
  BY <1>1, AppendProperties DEF EpType
<1>3. len \in 0 .. U32 - 1 /\ "ok" \in Results /\ 1 \in 0 .. 1
  BY SizesAssumption DEF Results
<1>4. OutRead(e, len) = [e EXCEPT !.out = q, !.out_count = 1, !.out_bytes = len, !.res = "ok"]
  BY DEF OutRead
<1> HIDE DEF q
<1> QED
  BY <1>2, <1>3, <1>4 DEF EpType

\* Waiting again changes only the result of the operation.
LEMMA FinishType ==
  ASSUME NEW e \in EpType
  PROVE  Finish(e) \in EpType
BY DEF Finish, EpType, Results

\* An initialisation of a storage overwrites the IN buffer at most.
LEMMA ScratchedType ==
  ASSUME NEW e \in EpType, NEW how
  PROVE  Scratched(e, how) \in EpType
BY OverwrittenType DEF Scratched, Bufs

-----------------------------------------------------------------------------
(* Events.                                                                 *)

\* The first request of the OUT ring is one the gadget made.
LEMMA OutHead ==
  ASSUME TypeEndpoint, ep.out # <<>>
  PROVE  Head(ep.out).len \in 1 .. EpMax
<1>1. Head(ep.out) \in OutTrb
  BY HeadTailProperties DEF TypeEndpoint, EpType
<1> QED
  BY <1>1 DEF OutTrb

\* The first transfer of the IN ring is one the gadget made.
LEMMA InHead ==
  ASSUME TypeEndpoint, ep.in # <<>>
  PROVE  Head(ep.in) \in InTrb
BY HeadTailProperties DEF TypeEndpoint, EpType

\* A request completes.
LEMMA OutDoneType ==
  ASSUME TypeEndpoint, ep.out # <<>>, NEW resid \in Nat, NEW pkt \in Pkt, OutDone(resid, pkt)
  PROVE  TypeEndpoint'
<1> DEFINE o == Overwritten(ep, "out")
           v == [ep |-> "out", res |-> "ok", resid |-> resid, pkt |-> pkt]
<1>1. o \in EpType /\ o.out = ep.out
  BY OverwrittenType DEF TypeEndpoint, Bufs
<1>2. v \in EpEvt
  BY DEF EpEvt, Results
<1>3. Append(o.events, v) \in Seq(EpEvt)
  BY <1>1, <1>2, AppendProperties DEF EpType
<1>4. Tail(o.out) \in Seq(OutTrb)
  BY <1>1, HeadTailProperties DEF EpType
<1>5. ep' = [o EXCEPT !.out = Tail(o.out), !.events = Append(o.events, v)]
  BY DEF OutDone
<1> HIDE DEF o, v
<1> QED
  BY <1>1, <1>3, <1>4, <1>5 DEF EpType, TypeEndpoint

\* A request fails.
LEMMA OutFailedType ==
  ASSUME TypeEndpoint, ep.out # <<>>, OutFailed
  PROVE  TypeEndpoint'
<1> DEFINE v == [ep |-> "out", res |-> "error", resid |-> 0, pkt |-> NoPkt]
<1>1. v \in EpEvt
  BY DEF EpEvt, Results, Pkt
<1>2. Append(ep.events, v) \in Seq(EpEvt)
  BY <1>1, AppendProperties DEF TypeEndpoint, EpType
<1>3. Tail(ep.out) \in Seq(OutTrb)
  BY HeadTailProperties DEF TypeEndpoint, EpType
<1>4. ep' = [ep EXCEPT !.out = Tail(ep.out), !.events = Append(ep.events, v)]
  BY DEF OutFailed
<1> HIDE DEF v
<1> QED
  BY <1>2, <1>3, <1>4 DEF EpType, TypeEndpoint

\* A transfer to the host is over.
LEMMA InDoneType ==
  ASSUME TypeEndpoint, ep.in # <<>>, NEW result \in Results, InDone(result)
  PROVE  TypeEndpoint'
<1> DEFINE v == [ep |-> "in", res |-> result, resid |-> 0, pkt |-> NoPkt]
<1>1. v \in EpEvt
  BY DEF EpEvt, Pkt
<1>2. Append(ep.events, v) \in Seq(EpEvt)
  BY <1>1, AppendProperties DEF TypeEndpoint, EpType
<1>3. Tail(ep.in) \in Seq(InTrb)
  BY HeadTailProperties DEF TypeEndpoint, EpType
<1>4. ep' = [ep EXCEPT !.in = Tail(ep.in), !.events = Append(ep.events, v)]
  BY DEF InDone
<1> HIDE DEF v
<1> QED
  BY <1>2, <1>3, <1>4 DEF EpType, TypeEndpoint

-----------------------------------------------------------------------------
(* Steps.                                                                  *)

\* The controller and the host leave everything of the thread alone.
LEMMA HardwareFrame ==
  ASSUME Hardware
  PROVE  hwUnchanged
BY DEF Hardware, OutCbw, OutJunk, OutData, OutShort, OutError, InTake, InError,
       HostReset, HostStart

\* The controller completes one request, or the host speaks on the control
\* endpoint or starts over.
LEMMA HardwareDone ==
  ASSUME TypeOK, Hardware
  PROVE  \/ ep.out # <<>> /\ \E resid \in Nat, pkt \in Pkt : OutDone(resid, pkt)
         \/ ep.out # <<>> /\ OutFailed
         \/ ep.in # <<>> /\ \E r \in {"ok", "error"} : InDone(r)
         \/ HostReset
         \/ \E c \in Cbws : HostStart(c)
<1> USE DEF TypeOK
<1>1. CASE OutCbw
  <2> DEFINE len == Head(ep.out).len
             p   == [kind |-> "cbw", cbw |-> host.cbw, tag |-> host.tag]
  <2>1. len \in 1 .. EpMax /\ ep.out # <<>>
    BY <1>1, OutHead DEF OutCbw
  <2>2. p \in Pkt
    BY DEF Pkt, TypeHost
  <2>3. CASE OutFailed
    BY <2>1, <2>3
  <2>4. CASE len >= CbwLen /\ OutDone(len - CbwLen, p)
    <3>1. CbwLen \in Nat /\ EpMax \in Nat
      BY SizesAssumption
    <3> HIDE DEF p, len
    <3>2. len - CbwLen \in Nat
      BY <2>1, <2>4, <3>1
    <3> QED
      BY <2>1, <2>2, <2>4, <3>2
  <2>5. len < CbwLen \/ len >= CbwLen
    BY <2>1, SizesAssumption
  <2> QED
    BY <1>1, <2>3, <2>4, <2>5 DEF OutCbw
<1>2. CASE OutJunk
  <2>1. JunkPkt \in Pkt /\ 0 \in Nat
    BY DEF Pkt
  <2> QED
    BY <1>2, <2>1 DEF OutJunk
<1>3. CASE OutData
  <2> DEFINE len == Head(ep.out).len
             n   == MinOf(len, host.left)
  <2>1. len \in 1 .. EpMax /\ ep.out # <<>>
    BY <1>3, OutHead DEF OutData
  <2>2. len - n \in Nat
    BY <2>1, SizesAssumption DEF TypeHost, MinOf
  <2>3. DataPkt \in Pkt
    BY DEF Pkt
  <2>4. CASE OutFailed
    BY <2>1, <2>4
  <2>5. CASE OutDone(len - n, DataPkt)
    <3> HIDE DEF len, n
    <3> QED
      BY <2>1, <2>2, <2>3, <2>5
  <2> QED
    BY <1>3, <2>4, <2>5 DEF OutData
<1>4. CASE OutShort
  <2> DEFINE len == Head(ep.out).len
  <2>1. len \in 1 .. EpMax /\ ep.out # <<>>
    BY <1>4, OutHead DEF OutShort
  <2>2. PICK n \in 0 .. MinOf(len, host.left) - 1 : OutDone(len - n, DataPkt)
    BY <1>4 DEF OutShort
  <2>3. len - n \in Nat
    <3>1. host.left \in Nat /\ len \in Nat
      BY <2>1, SizesAssumption DEF TypeHost
    <3> HIDE DEF len
    <3>2. MinOf(len, host.left) \in Nat /\ MinOf(len, host.left) <= len
      BY <3>1 DEF MinOf
    <3>3. n \in 0 .. MinOf(len, host.left) - 1
      BY <2>2
    <3> QED
      BY <3>1, <3>2, <3>3
  <2>4. DataPkt \in Pkt
    BY DEF Pkt
  <2> HIDE DEF len
  <2> QED
    BY <2>1, <2>2, <2>3, <2>4
<1>5. CASE OutError
  BY <1>5 DEF OutError
<1>6. CASE InTake
  BY <1>6 DEF InTake
<1>7. CASE InError
  BY <1>7 DEF InError
<1> QED
  BY <1>1, <1>2, <1>3, <1>4, <1>5, <1>6, <1>7 DEF Hardware

\* What the controller and the host do keeps the type of the endpoint.
LEMMA HardwareEndpoint ==
  ASSUME TypeOK, Hardware
  PROVE  TypeEndpoint'
<1> USE DEF TypeOK
<1>1. CASE ep.out # <<>> /\ \E resid \in Nat, pkt \in Pkt : OutDone(resid, pkt)
  BY <1>1, OutDoneType
<1>2. CASE ep.out # <<>> /\ OutFailed
  BY <1>2, OutFailedType
<1>3. CASE ep.in # <<>> /\ \E r \in {"ok", "error"} : InDone(r)
  BY <1>3, InDoneType DEF Results
<1>4. CASE HostReset
  <2> DEFINE v == [ep |-> "reset", res |-> "ok", resid |-> 0, pkt |-> NoPkt]
  <2>1. v \in EpEvt
    BY DEF EpEvt, Pkt, Results
  <2>2. Append(ep.events, v) \in Seq(EpEvt)
    BY <2>1, AppendProperties DEF TypeEndpoint, EpType
  <2>3. ep' = [ep EXCEPT !.events = Append(ep.events, v)]
    BY <1>4 DEF HostReset
  <2> HIDE DEF v
  <2> QED
    BY <2>2, <2>3 DEF TypeEndpoint, EpType
<1>5. CASE \E c \in Cbws : HostStart(c)
  BY <1>5 DEF HostStart, TypeEndpoint, EpType
<1> QED
  BY <1>1, <1>2, <1>3, <1>4, <1>5, HardwareDone

\* What the host does keeps the type of its own state.
LEMMA HardwareHost ==
  ASSUME TypeOK, Hardware
  PROVE  TypeHost'
<1> USE DEF TypeOK, TypeHost
<1>1. CASE OutCbw
  BY <1>1 DEF OutCbw
<1>2. CASE OutJunk
  BY <1>2 DEF OutJunk
<1>3. CASE OutData
  <2>1. Head(ep.out).len \in 1 .. EpMax
    BY <1>3, OutHead DEF OutData
  <2>2. host.left - MinOf(Head(ep.out).len, host.left) \in Nat
    BY <2>1, SizesAssumption DEF MinOf
  <2> QED
    BY <1>3, <2>2 DEF OutData
<1>4. CASE OutShort
  BY <1>4 DEF OutShort
<1>5. CASE OutError
  BY <1>5 DEF OutError
<1>6. CASE InTake
  <2> DEFINE t == Head(ep.in)
  <2>1. t \in InTrb
    BY <1>6, InHead DEF InTake
  <2>2. host.ph = "data" /\ Accepts(t) => host.left - t.len \in Nat
    BY <2>1, SizesAssumption DEF Accepts, InTrb
  <2>3. (host.err \/ ~ Accepts(t) \/ t.kind = "junk" \/ t.tag # host.tag) \in BOOLEAN
    OBVIOUS
  <2> QED
    BY <1>6, <2>2, <2>3 DEF InTake
<1>7. CASE InError
  BY <1>7 DEF InError
<1>8. CASE HostReset
  BY <1>8 DEF HostReset
<1>9. ASSUME NEW c \in Cbws, HostStart(c) PROVE TypeHost'
  <2>1. c.size \in Nat
    BY HostAssumption DEF CbwType
  <2>2. 1 - host.tag \in {0, 1}
    OBVIOUS
  <2> QED
    BY <1>9, <2>1, <2>2 DEF HostStart
<1> QED
  BY <1>1, <1>2, <1>3, <1>4, <1>5, <1>6, <1>7, <1>8, <1>9 DEF Hardware

\* An event of a transfer keeps the counters in their ranges.
LEMMA TransferredType ==
  ASSUME NEW e \in EpType, NEW ev \in EpEvt
  PROVE  /\ Transferred(e, ev) \in EpType
         /\ Transferred(e, ev).events = e.events /\ Transferred(e, ev).in_op = e.in_op
<1> DEFINE ok(dir) == ev.ep = dir /\ ev.res = "ok"
           bytes == IF ok("out") THEN (e.out_bytes - ev.resid) % U32 ELSE e.out_bytes
           ins == IF ok("in") /\ e.in_count > 0 THEN e.in_count - 1 ELSE e.in_count
           outs == IF ok("out") /\ e.out_count > 0 THEN e.out_count - 1 ELSE e.out_count
           pkt == IF ok("out") THEN ev.pkt ELSE e.rx
<1>1. bytes \in 0 .. U32 - 1
  <2>1. e.out_bytes \in 0 .. U32 - 1 /\ ev.resid \in Nat /\ U32 \in Nat \ {0}
    BY SizesAssumption DEF EpEvt, EpType
  <2>2. (e.out_bytes - ev.resid) % U32 \in 0 .. U32 - 1
    BY <2>1
  <2> QED
    BY <2>1, <2>2
<1>2. ins \in 0 .. 2 /\ outs \in 0 .. 1
  BY DEF EpType
<1>3. pkt \in Pkt /\ ev.res \in Results
  BY DEF EpEvt, EpType
<1>4. Transferred(e, ev) = [e EXCEPT !.res = ev.res, !.in_count = ins, !.out_count = outs,
                                     !.out_bytes = bytes, !.rx = pkt]
  BY DEF Transferred
<1> HIDE DEF bytes, ins, outs, pkt
<1> QED
  BY <1>1, <1>2, <1>3, <1>4 DEF EpType

\* An operation of the endpoint that handles an event, or ends without one.
LEMMA OperationEndpoint ==
  ASSUME TypeOK, EpEvent \/ EpTimeout \/ EpDisabled
  PROVE  TypeEndpoint'
<1> USE DEF TypeOK, TypeEndpoint
<1>1. CASE EpEvent
  <2> DEFINE ev == Head(ep.events)
             t  == Transferred(ep, ev)
             ops == IF ep.in_op > 0 THEN ep.in_op - 1 ELSE Len(ep.events) - 1
  <2>1. ep.events \in Seq(EpEvt) /\ ep.events # <<>>
    BY <1>1 DEF EpEvent, EpType
  <2>2. ev \in EpEvt /\ Tail(ep.events) \in Seq(EpEvt) /\ Len(ep.events) >= 1
    BY <2>1, HeadTailProperties, EmptySeq, LenProperties
  <2>3. ops \in Nat
    BY <2>1, <2>2, LenProperties DEF EpType
  <2>4. t \in EpType /\ t.events = ep.events /\ t.in_op = ep.in_op
    BY <2>2, TransferredType
  <2>5. ep' = [t EXCEPT !.events = Tail(@), !.in_op = IF @ > 0 THEN @ - 1 ELSE Len(ep.events) - 1]
    BY <1>1 DEF EpEvent
  <2> HIDE DEF t
  <2>6. ep' = [t EXCEPT !.events = Tail(ep.events), !.in_op = ops]
    BY <2>4, <2>5
  <2> HIDE DEF ops
  <2> QED
    BY <2>2, <2>3, <2>4, <2>6 DEF EpType
<1>2. CASE EpTimeout
  BY <1>2 DEF EpTimeout, EpType, Results
<1>3. CASE EpDisabled
  BY <1>3 DEF EpDisabled, EpType, Results
<1> QED
  BY <1>1, <1>2, <1>3

\* An operation only hears of a reset, the host only of its acknowledgement.
LEMMA OperationRest ==
  ASSUME TypeOK, EpEvent \/ EpTimeout \/ EpDisabled
  PROVE  /\ UNCHANGED <<pc, state, cmdVars, luns, ejectVars, acctVars, cbwVars, bulk,
                        io, storageVars, ghostVars>>
         /\ bulk_reset_req' \in BOOLEAN /\ faults' \in Nat /\ TypeHost'
<1> USE DEF TypeOK, TypeHost, TypeControl
<1>1. CASE EpEvent
  BY <1>1 DEF EpEvent
<1>2. CASE EpTimeout
  BY <1>2 DEF EpTimeout, Failed, NoFault, excVars
<1>3. CASE EpDisabled
  BY <1>3 DEF EpDisabled, Failed, excVars
<1> QED
  BY <1>1, <1>2, <1>3
=============================================================================
