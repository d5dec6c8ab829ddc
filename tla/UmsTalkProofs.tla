---------------------------- MODULE UmsTalkProofs ----------------------------
(***************************************************************************)
(* The gadget and its host talk in step when nothing goes wrong: one       *)
(* request at a time, no buffer filled while it is sent, and for each      *)
(* command one data phase of the size announced and one status.            *)
(***************************************************************************)
EXTENDS UmsGadgetProofs

-----------------------------------------------------------------------------
(* The endpoint.                                                           *)

\* What is queued at the endpoint e, and told and not yet handled.
Line(e, in, out, events) ==
  e.in = in /\ e.out = out /\ e.events = events /\ e.in_op = 0

Settled == Line(ep, <<>>, <<>>, <<>>)

Told(dir, pkt) == [ep |-> dir, res |-> "ok", resid |-> 0, pkt |-> pkt]

\* A request of n units is queued, answered, or over.
Asked(n)     == Line(ep, <<>>, <<[len |-> n]>>, <<>>) /\ ep.out_count = 1 /\ ep.out_bytes = n
Came(n, pkt) == Line(ep, <<>>, <<>>, <<Told("out", pkt)>>) /\ ep.out_count = 1 /\ ep.out_bytes = n
Got(n, pkt)  == Settled /\ ep.out_count = 0 /\ ep.out_bytes = n /\ ep.rx = pkt

\* A transfer is queued, taken, or over.
Sending(t) == Line(ep, <<t>>, <<>>, <<>>) /\ ep.in_count = 1
Sent       == Line(ep, <<>>, <<>>, <<Told("in", NoPkt)>>) /\ ep.in_count = 1
Over       == Settled /\ ep.in_count = 0

\* The host has n units of its data phase left.
Owes(n) == host.left = n /\ host.ph = IF n = 0 THEN "csw" ELSE "data"

\* The host is in no command, or about to send its wrapper.
Free == host.ph = "idle" \/ (host.ph = "cbw" /\ host.left = host.cbw.size)

\* The wrapper of the host's command.
Wrapper == [kind |-> "cbw", cbw |-> host.cbw, tag |-> host.tag]

\* Data of the host fill the request; rest units follow.
Receiving(rest) ==
  /\ bulk.out_length > 0
  /\ rest = 0 \/ bulk.out_length % MaxPacket = 0
  /\ \/ Asked(bulk.out_length) /\ Owes(rest + bulk.out_length)
     \/ Came(bulk.out_length, DataPkt) /\ Owes(rest)
     \/ Got(bulk.out_length, DataPkt) /\ Owes(rest)

\* len units in buf are sent to the host; rest units follow.
Transmitting(buf, len, rest) ==
  /\ len > 0
  /\ rest = 0 \/ len % MaxPacket = 0
  /\ \/ Sending([buf |-> buf, len |-> len, kind |-> "data", tag |-> tag]) /\ Owes(rest + len)
     \/ Sent /\ Owes(rest)
     \/ Over /\ Owes(rest)

-----------------------------------------------------------------------------
(* The phases of the conversation.                                         *)

\* Between commands: a request for a wrapper is queued once, and kept.
Listening ==
  /\ state = "NORMAL" \/ (state = "EXIT" /\ pc = "top")
  /\ ep.res \in {"ok", "timeout"}
  /\ \/ ~ cbw_req_queued /\ pc = "top" /\ Settled /\ Free
     \/ ~ cbw_req_queued /\ state = "EXIT" /\ Settled
     \/ cbw_req_queued /\ Asked(CbwLen) /\ Free
     \/ cbw_req_queued /\ Came(CbwLen, Wrapper) /\ Owes(host.cbw.size)
     \/ /\ cbw_req_queued /\ pc = "cbw" /\ ep.res = "ok"
        /\ Got(CbwLen, Wrapper) /\ Owes(host.cbw.size)

\* The command the gadget carries out is the host's.
Agreeing == cmd = host.cbw /\ tag = host.tag /\ lun_idx = cmd.lun /\ ep.res = "ok"

OtherBuf(buf) == IF buf = "in" THEN "out" ELSE "in"

AtParse == pc = "parse" => Settled /\ Owes(cmd.size)

\* The reply is made up, and nothing of it is sent.
AtReply ==
  pc \in {"parsed", "reply"} =>
    /\ Settled
    /\ DataDir = "none" => Owes(0)
    /\ DataDir = "in" => bulk.in_length + residue > 0 /\ Owes(bulk.in_length + residue)
    /\ DataDir = "out" => /\ Owes(usb_amount_left) /\ usb_amount_left <= residue
                          /\ usb_amount_left <= EpMax /\ ~ short_packet_received

\* What was read before is sent from the other buffer.
AtRead ==
  pc \in ReadPcs =>
    /\ DataDir = "in" /\ io.left > 0 /\ io.lba + io.left <= Num
    /\ pc # "rd" => io.n \in {0, io.left} \/ io.n > 1
    /\ pc = "read_done" \/ (pc = "rd" /\ io.first) => Settled /\ Owes(residue)
    /\ pc = "read_wait" \/ (pc = "rd" /\ ~ io.first) =>
         \E len \in 1 .. EpMax : Transmitting(OtherBuf(io.cur), len, residue)

AtWrite ==
  pc \in WritePcs =>
    /\ DataDir = "out" /\ ~ short_packet_received /\ usb_amount_left <= EpMax
    /\ io.req = 0 \/ io.req = usb_amount_left \/ io.req % MaxPacket = 0
    /\ pc = "wr" => Settled /\ Owes(usb_amount_left) /\ usb_amount_left <= residue
    /\ pc = "write_wait" => /\ Receiving(usb_amount_left)
                            /\ usb_amount_left + bulk.out_length <= residue

AtVerify ==
  pc = "vf" => Settled /\ Owes(cmd.size) /\ usb_amount_left = cmd.size /\ ~ short_packet_received

AtAnswer ==
  /\ pc = "send_wait" => Transmitting(bulk.in_buf, bulk.in_length, 0)
  /\ pc = "pad"       => Settled /\ Owes(usb_amount_left)
  /\ pc = "pad_wait"  => Transmitting(bulk.in_buf, bulk.in_length, usb_amount_left)
  /\ pc \in {"send_wait", "pad", "pad_wait"} => DataDir = "in"
  /\ pc = "throw_wait" => Receiving(0) /\ DataDir = "out"
  /\ pc = "status"     => Settled /\ Owes(0)

AtStatus ==
  pc = "csw_wait" =>
    /\ ep.res = "ok"
    /\ \/ \E t \in InTrb : /\ t.kind = "csw" /\ t.tag = host.tag
                           /\ Sending(t) /\ Owes(0)
       \/ (Sent \/ Over) /\ Free

Serving == Pcs \ {"top", "cbw", "exit", "csw_wait"}

Phases ==
  /\ pc \in {"top", "cbw"} => Listening
  /\ pc \in Serving => Agreeing
  /\ pc \in Serving \cup {"csw_wait"} => state = "NORMAL" /\ ~ cbw_req_queued
  /\ pc = "exit" => ep.in = <<>> /\ Len(ep.out) <= 1
  /\ AtParse /\ AtReply /\ AtRead /\ AtWrite /\ AtVerify /\ AtAnswer /\ AtStatus

Undisturbed ==
  /\ ~ bulk_reset_req /\ ~ bulk.out_ignore /\ ~ host.err
  /\ pc # "exit" => xusb

TalkInv == IInv /\ Talking /\ Undisturbed /\ Phases

-----------------------------------------------------------------------------
(* The endpoint's queues.                                                  *)

\* A queue of one element.
LEMMA Singles ==
  ASSUME NEW x
  PROVE  /\ Append(<<>>, x) = <<x>> /\ <<x>> # <<>> /\ Len(<<x>>) = 1
         /\ Head(<<x>>) = x /\ Tail(<<x>>) = <<>>
         /\ DOMAIN <<x>> = {1} /\ <<x>>[1] = x
OBVIOUS

\* A buffer that nothing queued is sent from may be overwritten.
LEMMA OverwrittenFree ==
  ASSUME NEW e \in EpType, NEW buf, \A i \in DOMAIN e.in : e.in[i].buf # buf
  PROVE  Overwritten(e, buf) = e
<1> DEFINE s == [i \in DOMAIN e.in |->
                   IF e.in[i].buf = buf THEN [e.in[i] EXCEPT !.kind = "junk"] ELSE e.in[i]]
<1>1. e.in \in Seq(InTrb)
  BY DEF EpType
<1>2. e.in = [i \in DOMAIN e.in |-> e.in[i]]
  BY <1>1
<1>3. s = e.in
  BY <1>2
<1>4. Overwritten(e, buf) = [e EXCEPT !.in = s]
  BY DEF Overwritten
<1> HIDE DEF s
<1> QED
  BY <1>3, <1>4 DEF EpType

\* While nothing is queued to be sent, no buffer is sent from.
LEMMA OverwrittenSettled ==
  ASSUME ep \in EpType, ep.in = <<>>, NEW buf
  PROVE  Overwritten(ep, buf) = ep
BY OverwrittenFree

\* A request is queued at an endpoint where nothing is under way.
LEMMA OutReadLine ==
  ASSUME NEW e \in EpType, Line(e, <<>>, <<>>, <<>>), NEW n
  PROVE  /\ Line(OutRead(e, n), <<>>, <<[len |-> n]>>, <<>>)
         /\ OutRead(e, n).out_count = 1 /\ OutRead(e, n).out_bytes = n
         /\ OutRead(e, n).res = "ok"
<1>1. Append(e.out, [len |-> n]) = <<[len |-> n]>>
  BY Singles DEF Line
<1> QED
  BY <1>1 DEF OutRead, Line, EpType

\* A transfer is queued at an endpoint where nothing is under way.
LEMMA InWriteLine ==
  ASSUME NEW e \in EpType, Line(e, <<>>, <<>>, <<>>), NEW buf, NEW n, NEW kind
  PROVE  /\ Line(InWrite(e, buf, n, kind),
                 <<[buf |-> buf, len |-> n, kind |-> kind, tag |-> tag]>>, <<>>, <<>>)
         /\ InWrite(e, buf, n, kind).in_count = 1 /\ InWrite(e, buf, n, kind).res = "ok"
<1> DEFINE t == [buf |-> buf, len |-> n, kind |-> kind, tag |-> tag]
<1>1. Append(e.in, t) = <<t>>
  BY Singles DEF Line
<1>2. InWrite(e, buf, n, kind) = [e EXCEPT !.in = Append(e.in, t), !.in_count = 1, !.res = "ok"]
  BY DEF InWrite
<1> HIDE DEF t
<1>3. InWrite(e, buf, n, kind) = [e EXCEPT !.in = <<t>>, !.in_count = 1, !.res = "ok"]
  BY <1>1, <1>2
<1>4. /\ Line(InWrite(e, buf, n, kind), <<t>>, <<>>, <<>>)
      /\ InWrite(e, buf, n, kind).in_count = 1 /\ InWrite(e, buf, n, kind).res = "ok"
  BY <1>3 DEF Line, EpType
<1> QED
  BY <1>4 DEF t

-----------------------------------------------------------------------------
(* The controller and the host.                                            *)

\* With an orderly host the only moves are those of a command.
LEMMA OrderlyHardware ==
  ASSUME Talking, Hardware
  PROVE  OutCbw \/ OutData \/ InTake \/ \E c \in Cbws : HostStart(c)
BY DEF Talking, Orderly, Hardware, OutJunk, OutShort, OutError, InError, HostReset, MayFail

\* Nothing moves while the host is in a command and nothing is queued.
LEMMA HardwareWaits ==
  ASSUME Talking, ep.in = <<>>, ep.out = <<>>, host.ph \in {"data", "csw"}
  PROVE  ~ Hardware
BY OrderlyHardware DEF OutCbw, OutData, InTake, HostStart

\* A host that waits for nothing may start a command, and nothing else moves.
LEMMA HardwareIdle ==
  ASSUME TalkInv, Hardware, ep.in = <<>>, ep.out = <<>>
  PROVE  /\ ep' = ep /\ Free' /\ host'.err = host.err
<1>1. PICK c \in Cbws : HostStart(c)
  BY OrderlyHardware DEF TalkInv, OutCbw, OutData, InTake
<1> QED
  BY <1>1 DEF HostStart, Free, TalkInv, IInv, TypeOK, TypeHost

\* The wrapper comes for the request that waits for it.
LEMMA HardwareAsked ==
  ASSUME TalkInv, Hardware, Asked(CbwLen), Free
  PROVE  /\ \/ Asked(CbwLen)' /\ Free'
            \/ Came(CbwLen, Wrapper)' /\ Owes(host.cbw.size)'
         /\ ep'.res = ep.res /\ host'.err = host.err
<1> USE DEF TalkInv, IInv, TypeOK
<1>1. (host.ph = "cbw" /\ OutCbw) \/ \E c \in Cbws : HostStart(c)
  BY OrderlyHardware DEF OutData, InTake, HostTakes, Asked, Line, Free, OutCbw
<1>2. CASE \E c \in Cbws : HostStart(c)
  BY <1>2 DEF HostStart, Asked, Line, Free, TypeHost
<1>3. CASE OutCbw
  <2>1. Head(ep.out) = [len |-> CbwLen] /\ Tail(ep.out) = <<>> /\ CbwLen \in Nat
    BY Singles, SizesAssumption DEF Asked, Line
  <2>2. /\ OutDone(0, [kind |-> "cbw", cbw |-> host.cbw, tag |-> host.tag])
        /\ host' = [host EXCEPT !.ph = IF host.cbw.size = 0 THEN "csw" ELSE "data"]
    BY <1>3, <2>1 DEF OutCbw
  <2>3. Overwritten(ep, "out") = ep
    BY OverwrittenSettled DEF TypeEndpoint, Asked, Line
  <2>4. ep' = [ep EXCEPT !.out = <<>>, !.events = Append(<<>>, Told("out", Wrapper))]
    BY <2>1, <2>2, <2>3 DEF OutDone, Told, Wrapper, Asked, Line
  <2>5. ep' = [ep EXCEPT !.out = <<>>, !.events = <<Told("out", Wrapper)>>]
    BY <2>4, Singles
  <2>6. Wrapper' = Wrapper /\ host'.cbw = host.cbw
    BY <2>2 DEF Wrapper, TypeHost
  <2>7. Came(CbwLen, Wrapper)'
    BY <2>5, <2>6 DEF Came, Told, Line, Asked, TypeEndpoint, EpType
  <2>8. host.left = host.cbw.size
    BY <1>3 DEF Free, OutCbw
  <2> QED
    BY <2>2, <2>5, <2>7, <2>8 DEF Owes, TypeHost, TypeEndpoint, EpType
<1> QED
  BY <1>1, <1>2, <1>3

\* Data of the host fill the request that waits for them, without overflow.
LEMMA HardwareReceives ==
  ASSUME TalkInv, Hardware, NEW rest \in Nat, Receiving(rest), host.cbw.dir = "out"
  PROVE  /\ Came(bulk.out_length, DataPkt)' /\ host'.left = rest
         /\ host'.ph = (IF rest = 0 THEN "csw" ELSE "data")
         /\ ep'.res = ep.res /\ host'.err = host.err
         /\ host'.cbw = host.cbw /\ host'.tag = host.tag
<1> USE DEF TalkInv, IInv, TypeOK
<1> DEFINE len == bulk.out_length
<1>1. Asked(len) /\ host.left = rest + len /\ host.ph = "data"
  <2>1. len \in Nat
    BY SizesAssumption DEF TypeAmounts
  <2> QED
    BY <2>1, HardwareWaits DEF Receiving, Came, Got, Settled, Line, Owes
<1>2. OutData
  BY <1>1, OrderlyHardware DEF OutCbw, InTake, Asked, Line, HostStart
<1>3. Head(ep.out) = [len |-> len] /\ Tail(ep.out) = <<>> /\ len \in Nat
  BY <1>1, Singles, SizesAssumption DEF Asked, Line, TypeAmounts
<1>4. MinOf(len, host.left) = len /\ (len < host.left => len % MaxPacket = 0)
  BY <1>1, <1>3 DEF MinOf, Receiving
<1>5. /\ OutDone(0, DataPkt)
      /\ host' = [host EXCEPT !.left = @ - len, !.ph = IF host.left = len THEN "csw" ELSE "data"]
  <2>1. Head(ep.out).len = len /\ len - len = 0
    BY <1>3
  <2>2. ~ (len < host.left /\ len % MaxPacket # 0)
    BY <1>4
  <2> HIDE DEF len
  <2>3. /\ OutDone(len - len, DataPkt)
        /\ host' = [host EXCEPT !.left = @ - len, !.ph = IF host.left = len THEN "csw" ELSE "data"]
    BY <1>2, <1>4, <2>1, <2>2 DEF OutData
  <2> QED
    BY <2>1, <2>3
<1>6. Overwritten(ep, "out") = ep
  BY <1>1, OverwrittenSettled DEF TypeEndpoint, Asked, Line
<1>7. ep' = [ep EXCEPT !.out = <<>>, !.events = Append(<<>>, Told("out", DataPkt))]
  BY <1>1, <1>3, <1>5, <1>6 DEF OutDone, Told, Asked, Line
<1>8. ep' = [ep EXCEPT !.out = <<>>, !.events = <<Told("out", DataPkt)>>]
  BY <1>7, Singles
<1>9. bulk' = bulk
  BY <1>2 DEF OutData, hwUnchanged
<1> QED
  BY <1>1, <1>3, <1>5, <1>8, <1>9 DEF Came, Line, Asked, TypeEndpoint, EpType, TypeHost

\* The first transfer queued for the host is taken, and told.
LEMMA InTakeTold ==
  ASSUME TalkInv, Hardware, NEW t, Sending(t), host.ph \in {"data", "csw"}
  PROVE  InTake /\ Sent' /\ ep'.res = ep.res /\ Head(ep.in) = t
<1> USE DEF TalkInv, IInv, TypeOK
<1>1. InTake
  BY OrderlyHardware DEF OutCbw, OutData, Sending, Line, HostStart
<1>2. Head(ep.in) = t /\ Tail(ep.in) = <<>>
  BY Singles DEF Sending, Line
<1>3. ep' = [ep EXCEPT !.in = <<>>, !.events = Append(<<>>, Told("in", NoPkt))]
  BY <1>1, <1>2 DEF InTake, InDone, Told, Sending, Line
<1>4. ep' = [ep EXCEPT !.in = <<>>, !.events = <<Told("in", NoPkt)>>]
  BY <1>3, Singles
<1> QED
  BY <1>1, <1>2, <1>4 DEF Sent, Sending, Line, TypeEndpoint, EpType

\* The host takes the data it announced, and goes on to the status after the last.
LEMMA HardwareTransmits ==
  ASSUME TalkInv, Hardware, NEW buf, NEW len \in Nat, NEW rest \in Nat,
         Transmitting(buf, len, rest), host.cbw.dir = "in", tag = host.tag
  PROVE  /\ Sent' /\ host'.left = rest
         /\ host'.ph = (IF rest = 0 THEN "csw" ELSE "data")
         /\ ep'.res = ep.res /\ host'.err = host.err
         /\ host'.cbw = host.cbw /\ host'.tag = host.tag
<1> DEFINE t == [buf |-> buf, len |-> len, kind |-> "data", tag |-> tag]
<1>1. Sending(t) /\ host.left = rest + len /\ host.ph = "data"
  BY HardwareWaits DEF TalkInv, Transmitting, Sent, Over, Settled, Line, Owes
<1>2. InTake /\ Sent' /\ ep'.res = ep.res /\ Head(ep.in) = t
  BY <1>1, InTakeTold
<1>3. t.len = len /\ t.kind = "data" /\ t.tag = host.tag
  OBVIOUS
<1> HIDE DEF t
<1>4. Accepts(t)
  BY <1>1, <1>3 DEF Accepts
<1>5. /\ rest = 0 => t.len % MaxPacket # 0 \/ t.len \in {0, host.left}
      /\ rest # 0 => ~ (t.len % MaxPacket # 0 \/ t.len \in {0, host.left})
  BY <1>1, <1>3 DEF Transmitting
<1>6. host' = [host EXCEPT !.ph = IF rest = 0 THEN "csw" ELSE "data",
                           !.left = host.left - len, !.err = host.err]
  <2>1. host.err \in BOOLEAN
    BY DEF TalkInv, IInv, TypeOK, TypeHost
  <2>2. (host.err \/ ~ Accepts(t) \/ t.kind = "junk" \/ t.tag # host.tag) = host.err
    BY <1>3, <1>4, <2>1
  <2> QED
    BY <1>1, <1>2, <1>3, <1>4, <1>5, <2>2 DEF InTake
<1> QED
  BY <1>1, <1>2, <1>6 DEF TalkInv, IInv, TypeOK, TypeHost

\* The host takes the status of its command, and is done with it.
LEMMA HardwareAnswers ==
  ASSUME TalkInv, Hardware, pc = "csw_wait"
  PROVE  AtStatus' /\ host'.err = host.err
<1> USE DEF TalkInv, IInv, TypeOK
<1>1. pc' = pc
  BY HardwareFrame DEF hwUnchanged
<1>2. CASE \E t \in InTrb : t.kind = "csw" /\ t.tag = host.tag /\ Sending(t) /\ Owes(0)
  <2>1. PICK t \in InTrb : t.kind = "csw" /\ t.tag = host.tag /\ Sending(t) /\ Owes(0)
    BY <1>2
  <2>2. host.ph = "csw"
    BY <2>1 DEF Owes
  <2>3. InTake /\ Sent' /\ ep'.res = ep.res /\ Head(ep.in) = t
    BY <2>1, <2>2, InTakeTold
  <2>4. Accepts(t) /\ t.kind # "junk"
    BY <2>1, <2>2 DEF Accepts
  <2>5. host'.ph = "idle" /\ host'.err = host.err
    BY <2>1, <2>2, <2>3, <2>4 DEF InTake, TypeHost
  <2> QED
    BY <1>1, <2>3, <2>5, HardwareFrame DEF AtStatus, Free, Phases
<1>3. CASE (Sent \/ Over) /\ Free
  <2>1. ep' = ep /\ Free' /\ host'.err = host.err
    BY <1>3, HardwareIdle DEF Sent, Over, Settled, Line
  <2> QED
    BY <1>1, <1>3, <2>1 DEF AtStatus, Sent, Over, Settled, Line, Phases
<1> QED
  BY <1>2, <1>3 DEF Phases, AtStatus

-----------------------------------------------------------------------------
(* The operations of the endpoint.                                         *)

Operation == EpEvent \/ EpTimeout \/ EpDisabled

\* An operation hears of the one transfer that is told.
LEMMA EventHeard ==
  ASSUME TalkInv, EpEvent, NEW dir \in {"in", "out"}, NEW pkt,
         ep.events = <<Told(dir, pkt)>>, ep.in_op = 0
  PROVE  /\ ep' = [Transferred(ep, Told(dir, pkt)) EXCEPT !.events = <<>>, !.in_op = 0]
         /\ host' = host /\ bulk_reset_req' = bulk_reset_req
<1> DEFINE ev == Told(dir, pkt)
<1> USE DEF TalkInv, IInv, TypeOK
<1>1. Head(ep.events) = ev /\ Tail(ep.events) = <<>> /\ Len(ep.events) = 1
  BY Singles
<1>2. ev.ep # "reset"
  BY DEF Told
<1> HIDE DEF ev
<1>3. /\ Transferred(ep, ev).events = ep.events /\ Transferred(ep, ev).in_op = ep.in_op
      /\ DOMAIN Transferred(ep, ev) = DOMAIN ep
  BY DEF Transferred, TypeEndpoint, EpType
<1>4. ep' = [Transferred(ep, ev) EXCEPT !.events = Tail(@),
                                        !.in_op = IF @ > 0 THEN @ - 1 ELSE Len(ep.events) - 1]
  BY <1>1 DEF EpEvent
<1>5. ep' = [Transferred(ep, ev) EXCEPT !.events = <<>>, !.in_op = 0]
  BY <1>1, <1>3, <1>4
<1>6. host' = host /\ bulk_reset_req' = bulk_reset_req
  <2>1. bulk_reset_req \in BOOLEAN
    BY DEF TypeControl
  <2>2. host' = host /\ bulk_reset_req' = (bulk_reset_req \/ ev.ep = "reset")
    BY <1>1, <1>2 DEF EpEvent
  <2> QED
    BY <1>2, <2>1, <2>2
<1> QED
  BY <1>5, <1>6 DEF ev

\* A request that was answered is over.
LEMMA RequestHeard ==
  ASSUME TalkInv, EpEvent, NEW n \in 1 .. EpMax, NEW pkt, Came(n, pkt)
  PROVE  /\ Line(ep', <<>>, <<>>, <<>>) /\ ep'.out_count = 0 /\ ep'.out_bytes = n
         /\ ep'.rx = pkt /\ ep'.res = "ok"
         /\ host' = host /\ bulk_reset_req' = bulk_reset_req
<1> DEFINE ev == Told("out", pkt)
<1> USE DEF TalkInv, IInv, TypeOK, TypeEndpoint
<1>1. /\ ep' = [Transferred(ep, ev) EXCEPT !.events = <<>>, !.in_op = 0]
      /\ host' = host /\ bulk_reset_req' = bulk_reset_req
  BY EventHeard DEF Came, Line
<1>2. (n - 0) % U32 = n
  BY SizesAssumption
<1>3. Transferred(ep, ev) = [ep EXCEPT !.res = "ok", !.in_count = ep.in_count, !.out_count = 0,
                                       !.out_bytes = n, !.rx = pkt]
  <2>1. ev.ep = "out" /\ ev.res = "ok" /\ ev.resid = 0 /\ ev.pkt = pkt
    BY DEF Told
  <2> HIDE DEF ev
  <2>2. (ep.out_bytes - ev.resid) % U32 = n /\ ep.out_count > 0 /\ ep.out_count - 1 = 0
    BY <1>2, <2>1 DEF Came
  <2> QED
    BY <2>1, <2>2 DEF Transferred
<1> HIDE DEF ev
<1> QED
  BY <1>1, <1>3 DEF Came, Line, EpType

\* A transfer that was taken is over.
LEMMA TransferHeard ==
  ASSUME TalkInv, EpEvent, Sent
  PROVE  /\ Over' /\ ep'.res = "ok"
         /\ host' = host /\ bulk_reset_req' = bulk_reset_req
<1> DEFINE ev == Told("in", NoPkt)
<1> USE DEF TalkInv, IInv, TypeOK, TypeEndpoint
<1>1. /\ ep' = [Transferred(ep, ev) EXCEPT !.events = <<>>, !.in_op = 0]
      /\ host' = host /\ bulk_reset_req' = bulk_reset_req
  BY EventHeard DEF Sent, Line
<1>2. Transferred(ep, ev) = [ep EXCEPT !.res = "ok", !.in_count = 0, !.out_count = ep.out_count,
                                       !.out_bytes = ep.out_bytes, !.rx = ep.rx]
  BY DEF Transferred, Told, Sent, Line, EpType
<1> QED
  BY <1>1, <1>2 DEF Sent, Over, Settled, Line, EpType

\* A request for data does not time out: the host has data to send.
LEMMA ReceivingStep ==
  ASSUME TalkInv, NEW rest \in Nat, Receiving(rest), pc \in {"write_wait", "throw_wait"},
         host.cbw.dir = "out", ep.res = "ok", Operation \/ Hardware
  PROVE  /\ Came(bulk.out_length, DataPkt)' \/ Got(bulk.out_length, DataPkt)'
         /\ host'.left = rest /\ host'.ph = (IF rest = 0 THEN "csw" ELSE "data")
         /\ ep'.res = "ok" /\ host'.err = host.err
         /\ host'.cbw = host.cbw /\ host'.tag = host.tag /\ bulk_reset_req' = bulk_reset_req
<1> USE DEF TalkInv, IInv, TypeOK
<1>1. CASE Hardware
  BY <1>1, HardwareReceives, HardwareFrame DEF hwUnchanged, excVars
<1>2. CASE Asked(bulk.out_length) /\ Owes(rest + bulk.out_length) /\ Operation
  <2>1. bulk.out_length \in Nat \ {0}
    BY SizesAssumption DEF TypeAmounts, Receiving
  <2>2. HostSends /\ ep.out # <<>> /\ ep.events = <<>> /\ pc \notin {"cbw"} \cup InWaits
    BY <1>2, <2>1, Singles DEF Asked, Line, Owes, HostSends, InWaits
  <2> QED
    BY <1>2, <2>2 DEF Operation, EpEvent, EpTimeout, EpDisabled, MayFail, Talking, Orderly
<1>3. CASE Came(bulk.out_length, DataPkt) /\ Owes(rest) /\ Operation
  <2>1. bulk.out_length \in 1 .. EpMax
    BY SizesAssumption DEF TypeAmounts, Receiving
  <2>2. EpEvent
    BY <1>3, Singles DEF Operation, EpTimeout, EpDisabled, Came, Line
  <2>3. bulk' = bulk
    BY <2>2 DEF EpEvent
  <2> QED
    BY <1>3, <2>1, <2>2, <2>3, RequestHeard DEF Got, Settled, Owes
<1>4. CASE Got(bulk.out_length, DataPkt) /\ Operation
  BY <1>4 DEF Got, Settled, Line, Operation, EpEvent, EpTimeout, EpDisabled, Waiting, Count,
     OutWaits
<1> QED
  BY <1>1, <1>2, <1>3, <1>4 DEF Receiving

\* Data for the host does not time out: the host takes it.
LEMMA TransmittingStep ==
  ASSUME TalkInv, NEW buf, NEW len \in Nat, NEW rest \in Nat, Transmitting(buf, len, rest),
         pc \in InWaits \cup {"rd"}, host.cbw.dir = "in", tag = host.tag, ep.res = "ok",
         Operation \/ Hardware
  PROVE  /\ Sent' \/ Over'
         /\ host'.left = rest /\ host'.ph = (IF rest = 0 THEN "csw" ELSE "data")
         /\ ep'.res = "ok" /\ host'.err = host.err
         /\ host'.cbw = host.cbw /\ host'.tag = host.tag /\ bulk_reset_req' = bulk_reset_req
<1> USE DEF TalkInv, IInv, TypeOK
<1> DEFINE t == [buf |-> buf, len |-> len, kind |-> "data", tag |-> tag]
<1>1. CASE Hardware
  BY <1>1, HardwareTransmits, HardwareFrame DEF hwUnchanged, excVars
<1>2. CASE Sending(t) /\ Owes(rest + len) /\ Operation
  <2>1. HostTakes /\ ep.in # <<>> /\ ep.events = <<>> /\ ep.in_op = 0 /\ pc \notin OutWaits
    BY <1>2, Singles DEF Sending, Line, Owes, HostTakes, OutWaits, InWaits, Transmitting
  <2> QED
    BY <1>2, <2>1 DEF Operation, EpEvent, EpTimeout, EpDisabled, MayFail, Talking, Orderly, OutWaits
<1>3. CASE Sent /\ Owes(rest) /\ Operation
  <2>1. EpEvent
    BY <1>3, Singles DEF Operation, EpTimeout, EpDisabled, Sent, Line
  <2> QED
    BY <1>3, <2>1, TransferHeard DEF Owes
<1>4. CASE Over /\ Operation
  BY <1>4 DEF Over, Settled, Line, Operation, EpEvent, EpTimeout, EpDisabled, Waiting, Count,
     OutWaits, InWaits
<1> QED
  BY <1>1, <1>2, <1>3, <1>4 DEF Transmitting

-----------------------------------------------------------------------------
(* The endpoint, the controller and the host keep the phases.              *)

\* They leave the thread where it is.
LEMMA EndpointFrame ==
  ASSUME TalkInv, Operation \/ Hardware
  PROVE  UNCHANGED <<pc, state, cmdVars, acctVars, cbwVars, bulk, io, luns>>
BY HardwareFrame, OperationRest DEF TalkInv, IInv, Operation, hwUnchanged, excVars

\* While the thread works and nothing is queued, nothing moves.
LEMMA NothingMoves ==
  ASSUME TalkInv, Settled, host.ph \in {"data", "csw"}, pc \notin OutWaits \cup InWaits
  PROVE  ~ (Operation \/ Hardware)
BY HardwareWaits DEF TalkInv, Settled, Line, Operation, EpEvent, EpTimeout, EpDisabled, Waiting

\* Between commands the wrapper comes for the one request, or the wait goes on.
LEMMA ListeningStep ==
  ASSUME TalkInv, pc \in {"top", "cbw"}, Operation \/ Hardware
  PROVE  Listening' /\ ~ bulk_reset_req' /\ ~ host'.err
<1> USE DEF TalkInv
<1>1. Listening /\ ~ bulk_reset_req /\ ~ host.err
  BY DEF Phases, Undisturbed
<1>2. UNCHANGED <<pc, state, cbwVars>>
  BY EndpointFrame
<1>3. CASE Hardware
  <2>1. bulk_reset_req' = bulk_reset_req
    BY <1>3, HardwareFrame DEF hwUnchanged, excVars
  <2>2. CASE ~ cbw_req_queued /\ Settled
    <3>1. ep' = ep /\ Free' /\ host'.err = host.err
      BY <1>3, <2>2, HardwareIdle DEF Settled, Line
    <3> QED
      BY <1>1, <1>2, <2>1, <2>2, <3>1 DEF Listening, Settled, Line, cbwVars, Asked, Came, Got
  <2>3. CASE cbw_req_queued /\ Asked(CbwLen) /\ Free
    <3>1. /\ (Asked(CbwLen)' /\ Free') \/ (Came(CbwLen, Wrapper)' /\ Owes(host.cbw.size)')
          /\ ep'.res = ep.res /\ host'.err = host.err
      BY <1>3, <2>3, HardwareAsked
    <3> QED
      BY <1>1, <1>2, <2>1, <2>3, <3>1 DEF Listening, cbwVars
  <2>4. CASE cbw_req_queued /\ Owes(host.cbw.size) /\ ep.in = <<>> /\ ep.out = <<>>
    BY <1>3, <2>4, HardwareWaits DEF Owes
  <2> QED
    BY <1>1, <2>2, <2>3, <2>4 DEF Listening, Came, Got, Settled, Line
<1>4. CASE Operation /\ pc = "top"
  BY <1>1, <1>4 DEF Operation, EpEvent, EpTimeout, EpDisabled, Waiting, OutWaits, InWaits,
     Listening, Asked, Came, Got, Settled, Line
<1>5. CASE Operation /\ pc = "cbw"
  <2>1. CASE cbw_req_queued /\ Asked(CbwLen) /\ Free
    <3>1. ep' = [ep EXCEPT !.res = "timeout"] /\ host' = host /\ bulk_reset_req' = bulk_reset_req
      BY <1>5, <2>1 DEF Operation, EpEvent, EpTimeout, EpDisabled, Asked, Line, MayFail,
         Talking, Orderly, excVars
    <3> QED
      BY <1>1, <1>2, <2>1, <3>1 DEF Listening, Asked, Line, Free, cbwVars, IInv, TypeOK,
         TypeEndpoint, EpType
  <2>2. CASE cbw_req_queued /\ Came(CbwLen, Wrapper) /\ Owes(host.cbw.size)
    <3>1. EpEvent
      BY <1>5, <2>2, Singles DEF Operation, EpTimeout, EpDisabled, Came, Line
    <3>2. CbwLen \in 1 .. EpMax
      BY SizesAssumption
    <3>3. /\ Line(ep', <<>>, <<>>, <<>>) /\ ep'.out_count = 0 /\ ep'.out_bytes = CbwLen
          /\ ep'.rx = Wrapper /\ ep'.res = "ok"
          /\ host' = host /\ bulk_reset_req' = bulk_reset_req
      BY <2>2, <3>1, <3>2, RequestHeard
    <3>4. Got(CbwLen, Wrapper)' /\ Owes(host.cbw.size)'
      BY <2>2, <3>3 DEF Got, Settled, Wrapper, Owes
    <3> QED
      BY <1>1, <1>2, <1>5, <2>2, <3>3, <3>4 DEF Listening, cbwVars
  <2>3. CASE Got(CbwLen, Wrapper)
    BY <1>5, <2>3 DEF Operation, EpEvent, EpTimeout, EpDisabled, Waiting, Count, OutWaits,
       Got, Settled, Line
  <2> QED
    BY <1>1, <1>5, <2>1, <2>2, <2>3 DEF Listening
<1> QED
  BY <1>3, <1>4, <1>5

\* In the status phase the host takes the status, which is heard of.
LEMMA StatusStep ==
  ASSUME TalkInv, pc = "csw_wait", Operation \/ Hardware
  PROVE  AtStatus' /\ ~ bulk_reset_req' /\ ~ host'.err
<1> USE DEF TalkInv
<1>1. /\ AtStatus /\ ~ bulk_reset_req /\ ~ host.err /\ ep.res = "ok"
      /\ host.err \in BOOLEAN
  BY DEF Phases, Undisturbed, AtStatus, IInv, TypeOK, TypeHost
<1>2. pc' = pc
  BY EndpointFrame
<1>3. CASE Hardware
  BY <1>1, <1>3, HardwareAnswers, HardwareFrame DEF hwUnchanged, excVars
<1>4. ASSUME Operation, NEW t \in InTrb, Sending(t), Owes(0) PROVE FALSE
  <2>1. HostTakes /\ ep.in # <<>> /\ ep.events = <<>> /\ ep.in_op = 0
    BY <1>4, Singles DEF Sending, Line, Owes, HostTakes
  <2> QED
    BY <1>4, <2>1 DEF Operation, EpEvent, EpTimeout, EpDisabled, MayFail, Talking, Orderly, InWaits
<1>5. CASE Operation /\ Sent /\ Free
  <2>1. EpEvent
    BY <1>5, Singles DEF Operation, EpTimeout, EpDisabled, Sent, Line
  <2>2. Over' /\ ep'.res = "ok" /\ host' = host /\ bulk_reset_req' = bulk_reset_req
    BY <1>5, <2>1, TransferHeard
  <2> QED
    BY <1>1, <1>2, <1>5, <2>2 DEF AtStatus, Free
<1>6. CASE Operation /\ Over
  BY <1>6 DEF Over, Settled, Line, Operation, EpEvent, EpTimeout, EpDisabled, Waiting, Count,
     OutWaits
<1> QED
  BY <1>1, <1>3, <1>4, <1>5, <1>6 DEF AtStatus

\* A phase in which the thread works has nothing to wait for.
Quiet == Settled /\ host.ph \in {"data", "csw"}

\* Where the thread works, the endpoint is settled and the host in its command.
LEMMA WorkIsQuiet ==
  ASSUME TalkInv,
         pc \in {"parse", "parsed", "reply", "read_done", "wr", "vf", "pad", "status"}
           \/ (pc = "rd" /\ io.first)
  PROVE  Quiet
<1> USE DEF TalkInv, Phases, Quiet, Owes
<1>1. CASE pc \in {"parsed", "reply"}
  <2>1. DataDir \in {"none", "in", "out"}
    BY HostAssumption DEF IInv, TypeOK, TypeCommand, CbwType, DataDir
  <2> QED
    BY <1>1, <2>1 DEF AtReply
<1>2. CASE pc \in {"parse", "wr", "vf", "pad", "status"}
  BY <1>2 DEF AtParse, AtWrite, AtVerify, AtAnswer, WritePcs
<1>3. CASE pc = "read_done" \/ (pc = "rd" /\ io.first)
  BY <1>3 DEF AtRead, ReadPcs
<1> QED
  BY <1>1, <1>2, <1>3

\* The directions of the command carried out are those of the host's.
LEMMA SameDir ==
  ASSUME Agreeing
  PROVE  /\ DataDir = "in" => host.cbw.dir = "in"
         /\ DataDir = "out" => host.cbw.dir = "out"
         /\ tag = host.tag /\ ep.res = "ok"
BY DEF Agreeing, DataDir

\* The endpoint, the controller and the host keep the phases of the conversation.
LEMMA EndpointTalk ==
  ASSUME TalkInv, pc # "exit", Operation \/ Hardware
  PROVE  Undisturbed' /\ Phases'
<1> USE DEF TalkInv
<1>1. UNCHANGED <<pc, state, cmdVars, acctVars, cbwVars, bulk, io, luns>>
  BY EndpointFrame
<1>2. bulk.out_ignore = FALSE /\ xusb /\ pc \in Pcs
  BY DEF Undisturbed, IInv, TypeOK, TypeControl, TypeAmounts
<1>3. CASE pc \in {"top", "cbw"}
  <2>1. Listening' /\ ~ bulk_reset_req' /\ ~ host'.err
    BY <1>3, ListeningStep
  <2> QED
    BY <1>1, <1>2, <1>3, <2>1 DEF Undisturbed, Phases, Serving, AtParse, AtReply, AtRead, AtWrite,
       AtVerify, AtAnswer, AtStatus, ReadPcs, WritePcs, cbwVars
<1>4. CASE pc = "csw_wait"
  <2>1. AtStatus' /\ ~ bulk_reset_req' /\ ~ host'.err
    BY <1>4, StatusStep
  <2> QED
    BY <1>1, <1>2, <1>4, <2>1 DEF Undisturbed, Phases, Serving, AtParse, AtReply, AtRead, AtWrite,
       AtVerify, AtAnswer, ReadPcs, WritePcs, cbwVars
<1>5. CASE pc \in {"parse", "parsed", "reply", "read_done", "wr", "vf", "pad", "status"}
             \/ (pc = "rd" /\ io.first)
  <2>1. Quiet
    BY <1>5, WorkIsQuiet
  <2> QED
    BY <1>5, <2>1, NothingMoves DEF Quiet, OutWaits, InWaits
<1>6. ASSUME pc \in {"rd", "read_wait", "write_wait", "throw_wait", "send_wait", "pad_wait"},
             ep'.res = "ok", host'.err = host.err, host'.cbw = host.cbw, host'.tag = host.tag,
             bulk_reset_req' = bulk_reset_req, AtRead', AtWrite', AtAnswer'
      PROVE  Undisturbed' /\ Phases'
  <2>1. Agreeing'
    BY <1>1, <1>6 DEF Phases, Serving, Agreeing, Pcs, cmdVars, InWaits, OutWaits
  <2>2. state' = "NORMAL" /\ ~ cbw_req_queued' /\ pc' = pc
    BY <1>1, <1>6 DEF Phases, Serving, Pcs, cbwVars, InWaits, OutWaits
  <2>3. Undisturbed'
    BY <1>1, <1>2, <1>6 DEF Undisturbed, cbwVars
  <2> QED
    BY <1>6, <2>1, <2>2, <2>3 DEF Phases, Serving, AtParse, AtReply, AtVerify, AtStatus
<1>7. residue \in Nat /\ usb_amount_left \in Nat /\ 0 \in Nat /\ bulk.in_length \in Nat
  BY SizesAssumption DEF IInv, TypeOK, TypeAmounts
<1>8. CASE pc = "read_wait" \/ (pc = "rd" /\ ~ io.first)
  <2>1. /\ DataDir = "in" /\ io.left > 0 /\ io.lba + io.left <= Num /\ Agreeing
        /\ pc # "rd" => io.n \in {0, io.left} \/ io.n > 1
    BY <1>8 DEF Phases, AtRead, ReadPcs, Serving, Pcs, InWaits
  <2>2. PICK len \in 1 .. EpMax : Transmitting(OtherBuf(io.cur), len, residue)
    BY <1>8 DEF Phases, AtRead, ReadPcs
  <2>3. len \in Nat /\ pc \in InWaits \cup {"rd"}
    BY <1>8, SizesAssumption DEF InWaits
  <2>4. /\ Sent' \/ Over'
        /\ host'.left = residue /\ host'.ph = (IF residue = 0 THEN "csw" ELSE "data")
        /\ ep'.res = "ok" /\ host'.err = host.err
        /\ host'.cbw = host.cbw /\ host'.tag = host.tag /\ bulk_reset_req' = bulk_reset_req
    BY <1>7, <2>1, <2>2, <2>3, TransmittingStep, SameDir
  <2>5. \E l \in 1 .. EpMax : Transmitting(OtherBuf(io.cur), l, residue)'
    BY <1>1, <2>2, <2>4 DEF Transmitting, Owes, acctVars
  <2>6. AtRead'
    BY <1>1, <1>8, <2>1, <2>5 DEF AtRead, DataDir, Num, cmdVars
  <2> QED
    BY <1>1, <1>6, <1>8, <2>4, <2>6 DEF AtWrite, AtAnswer, WritePcs
<1>9. CASE pc = "write_wait"
  <2>1. AtWrite /\ DataDir = "out" /\ Receiving(usb_amount_left) /\ Agreeing
    BY <1>9 DEF Phases, AtWrite, WritePcs, Serving, Pcs, OutWaits
  <2>2. /\ Came(bulk.out_length, DataPkt)' \/ Got(bulk.out_length, DataPkt)'
        /\ host'.left = usb_amount_left
        /\ host'.ph = (IF usb_amount_left = 0 THEN "csw" ELSE "data")
        /\ ep'.res = "ok" /\ host'.err = host.err
        /\ host'.cbw = host.cbw /\ host'.tag = host.tag /\ bulk_reset_req' = bulk_reset_req
    BY <1>7, <1>9, <2>1, ReceivingStep, SameDir
  <2>3. Receiving(usb_amount_left)'
    BY <1>1, <2>1, <2>2 DEF Receiving, Owes, acctVars
  <2>4. AtWrite'
    BY <1>1, <1>9, <2>1, <2>3 DEF AtWrite, DataDir, WritePcs, cmdVars, acctVars
  <2> QED
    BY <1>1, <1>6, <1>9, <2>2, <2>4 DEF AtRead, AtAnswer, ReadPcs
<1>10. CASE pc = "throw_wait"
  <2>1. DataDir = "out" /\ Receiving(0) /\ Agreeing
    BY <1>10 DEF Phases, AtAnswer, Serving, Pcs, OutWaits
  <2>2. /\ Came(bulk.out_length, DataPkt)' \/ Got(bulk.out_length, DataPkt)'
        /\ host'.left = 0 /\ host'.ph = (IF 0 = 0 THEN "csw" ELSE "data")
        /\ ep'.res = "ok" /\ host'.err = host.err
        /\ host'.cbw = host.cbw /\ host'.tag = host.tag /\ bulk_reset_req' = bulk_reset_req
    BY <1>7, <1>10, <2>1, ReceivingStep, SameDir
  <2>3. Receiving(0)'
    BY <1>1, <2>1, <2>2 DEF Receiving, Owes
  <2>4. AtAnswer'
    BY <1>1, <1>10, <2>1, <2>3 DEF AtAnswer, DataDir, cmdVars
  <2> QED
    BY <1>1, <1>6, <1>10, <2>2, <2>4 DEF AtRead, AtWrite, ReadPcs, WritePcs
<1>11. ASSUME pc \in {"send_wait", "pad_wait"}, NEW rest \in Nat,
              Transmitting(bulk.in_buf, bulk.in_length, rest), DataDir = "in"
       PROVE  /\ Transmitting(bulk.in_buf, bulk.in_length, rest)'
              /\ ep'.res = "ok" /\ host'.err = host.err /\ host'.cbw = host.cbw
              /\ host'.tag = host.tag /\ bulk_reset_req' = bulk_reset_req
  <2>1. Agreeing /\ pc \in InWaits \cup {"rd"}
    BY <1>11 DEF Phases, Serving, Pcs, InWaits
  <2>2. /\ Sent' \/ Over'
        /\ host'.left = rest /\ host'.ph = (IF rest = 0 THEN "csw" ELSE "data")
        /\ ep'.res = "ok" /\ host'.err = host.err
        /\ host'.cbw = host.cbw /\ host'.tag = host.tag /\ bulk_reset_req' = bulk_reset_req
    BY <1>7, <1>11, <2>1, TransmittingStep, SameDir
  <2> QED
    BY <1>1, <1>11, <2>2 DEF Transmitting, Owes
<1>12. CASE pc \in {"send_wait", "pad_wait"}
  <2>1. DataDir = "in" /\ DataDir' = "in"
    BY <1>1, <1>12 DEF Phases, AtAnswer, DataDir, cmdVars
  <2> DEFINE rest == IF pc = "send_wait" THEN 0 ELSE usb_amount_left
  <2>2. rest \in Nat /\ Transmitting(bulk.in_buf, bulk.in_length, rest)
    BY <1>7, <1>12 DEF Phases, AtAnswer
  <2>3. rest' = rest
    BY <1>1 DEF acctVars
  <2> HIDE DEF rest
  <2>4. /\ Transmitting(bulk.in_buf, bulk.in_length, rest)'
        /\ ep'.res = "ok" /\ host'.err = host.err /\ host'.cbw = host.cbw
        /\ host'.tag = host.tag /\ bulk_reset_req' = bulk_reset_req
    <3>1. PICK r \in Nat : r = rest
      BY <2>2
    <3>2. Transmitting(bulk.in_buf, bulk.in_length, r)
      BY <2>2, <3>1
    <3> HIDE <3>1
    <3>3. /\ Transmitting(bulk.in_buf, bulk.in_length, r)'
          /\ ep'.res = "ok" /\ host'.err = host.err /\ host'.cbw = host.cbw
          /\ host'.tag = host.tag /\ bulk_reset_req' = bulk_reset_req
      BY <1>11, <1>12, <2>1, <3>2
    <3> QED
      BY <2>3, <3>1, <3>3
  <2>5. AtAnswer'
    BY <1>1, <1>12, <2>1, <2>4 DEF AtAnswer, rest
  <2> QED
    BY <1>1, <1>6, <1>12, <2>4, <2>5 DEF AtRead, AtWrite, ReadPcs, WritePcs
<1> QED
  BY <1>2, <1>3, <1>4, <1>5, <1>8, <1>9, <1>10, <1>12 DEF Pcs, OutWaits, InWaits

-----------------------------------------------------------------------------
(* The reception of commands.                                              *)

\* A phase in which the thread carries out a command or answers it.
LEMMA EnterServing ==
  ASSUME pc' \in Serving, state' = "NORMAL", ~ cbw_req_queued', Agreeing',
         AtParse', AtReply', AtRead', AtWrite', AtVerify', AtAnswer'
  PROVE  Phases'
BY DEF Phases, Serving, AtStatus

\* Between commands nothing is asked of the phases of one.
LEMMA EnterListening ==
  ASSUME pc' \in {"top", "cbw"}, Listening'
  PROVE  Phases'
BY DEF Phases, Serving, AtParse, AtReply, AtRead, AtWrite, AtVerify, AtAnswer, AtStatus,
       ReadPcs, WritePcs

\* A request is queued if none is, the one queued is kept otherwise.
LEMMA GetCommandTalk ==
  ASSUME TalkInv, GetCommand
  PROVE  Undisturbed' /\ Phases'
<1> USE DEF TalkInv, IInv, TypeOK, TypeEndpoint
<1>1. Listening /\ Undisturbed /\ bulk_reset_req \in BOOLEAN /\ bulk.out_ignore \in BOOLEAN
  BY DEF GetCommand, Phases, TypeControl, TypeAmounts
<1>2. state' = state /\ bulk_reset_req' = bulk_reset_req /\ host' = host
  BY <1>1 DEF GetCommand, HandleEp0, Undisturbed
<1>3. Undisturbed'
  BY <1>1, <1>2 DEF Undisturbed, GetCommand, TypeAmounts
<1>4. cbw_req_queued' /\ pc' = "cbw"
  BY <1>1 DEF GetCommand, Undisturbed
<1>5. CASE cbw_req_queued
  <2>1. ep' = [ep EXCEPT !.res = "ok"]
    BY <1>5 DEF GetCommand, RequestCommand, Finish
  <2>2. /\ ep'.res = "ok" /\ ep'.in = ep.in /\ ep'.out = ep.out /\ ep'.events = ep.events
        /\ ep'.in_op = ep.in_op /\ ep'.out_count = ep.out_count /\ ep'.out_bytes = ep.out_bytes
    BY <2>1 DEF EpType
  <2>3. (Asked(CbwLen) /\ Free) \/ (Came(CbwLen, Wrapper) /\ Owes(host.cbw.size))
    BY <1>1, <1>5 DEF Listening, GetCommand
  <2>4. (Asked(CbwLen) /\ Free)' \/ (Came(CbwLen, Wrapper) /\ Owes(host.cbw.size))'
    BY <1>2, <2>2, <2>3 DEF Asked, Came, Line, Free, Owes, Wrapper
  <2> QED
    BY <1>1, <1>2, <1>3, <1>4, <2>2, <2>4, EnterListening DEF Listening, GetCommand
<1>6. CASE ~ cbw_req_queued
  <2>1. Settled /\ Free /\ ep' = OutRead(ep, CbwLen)
    BY <1>1, <1>6 DEF Listening, GetCommand, RequestCommand
  <2>2. Asked(CbwLen)' /\ ep'.res = "ok"
    BY <2>1, OutReadLine DEF Settled, Asked
  <2>3. Free'
    BY <1>2, <2>1 DEF Free
  <2> QED
    BY <1>1, <1>2, <1>3, <1>4, <2>2, <2>3, EnterListening DEF Listening, GetCommand
<1> QED
  BY <1>5, <1>6 DEF TypeControl

\* A packet that is not to be ignored is the wrapper of the host's command.
LEMMA WrapperGot ==
  ASSUME TalkInv, pc = "cbw", WaitEnded, ~ Dropped
  PROVE  /\ IsCbw /\ ep.rx.cbw = host.cbw /\ ep.rx.tag = host.tag /\ host.cbw.lun \in Luns
         /\ Settled /\ Owes(host.cbw.size) /\ ep.res = "ok"
<1> USE DEF TalkInv
<1>1. Listening
  BY DEF Phases
<1>2. ep.res = "ok" /\ ep.out_count = 0
  BY <1>1 DEF Dropped, WaitEnded, Count, OutWaits
<1>3. Got(CbwLen, Wrapper) /\ Owes(host.cbw.size)
  BY <1>1, <1>2 DEF Listening, Asked, Came
<1>4. host.cbw \in Cbws
  BY DEF IInv, TypeOK, TypeHost
<1> QED
  BY <1>2, <1>3, <1>4 DEF Got, IsCbw, Wrapper, Talking, Answerable

\* A wait that timed out leaves its request queued.
LEMMA ReceiveTalk ==
  ASSUME TalkInv, ReceiveCommand
  PROVE  Undisturbed' /\ Phases'
<1> USE DEF TalkInv, IInv, TypeOK
<1>1. /\ pc = "cbw" /\ WaitEnded /\ Listening /\ Undisturbed /\ state = "NORMAL"
      /\ UNCHANGED <<bulk_reset_req, xusb, ep, host>>
  BY DEF ReceiveCommand, CbwDropped, CbwInvalid, CbwForeign, CbwAccept, Received, Phases,
     Listening
<1>2. state' \in {"NORMAL", "EXIT"}
  BY <1>1, RaiseType DEF ReceiveCommand, CbwDropped, CbwInvalid, CbwForeign, CbwAccept, Received,
     TypeControl, States
<1>3. CASE CbwDropped
  <2>1. ep.res # "ok" /\ bulk' = bulk /\ cbw_req_queued' = cbw_req_queued /\ pc' = "top"
    BY <1>1, <1>3 DEF CbwDropped, Dropped, Undisturbed
  <2>2. (Asked(CbwLen) /\ Free) \/ (Came(CbwLen, Wrapper) /\ Owes(host.cbw.size))
    BY <1>1, <2>1 DEF Listening
  <2>3. (Asked(CbwLen) /\ Free)' \/ (Came(CbwLen, Wrapper) /\ Owes(host.cbw.size))'
    BY <1>1, <2>2 DEF Asked, Came, Line, Free, Owes, Wrapper
  <2>4. Listening'
    BY <1>1, <1>2, <2>1, <2>3 DEF Listening
  <2>5. Undisturbed'
    BY <1>1, <2>1 DEF Undisturbed
  <2> QED
    BY <2>1, <2>4, <2>5, EnterListening
<1>4. CASE CbwInvalid \/ CbwForeign
  BY <1>1, <1>4, WrapperGot DEF CbwInvalid, CbwForeign
<1>5. CASE CbwAccept
  <2>1. /\ ep.rx.cbw = host.cbw /\ ep.rx.tag = host.tag
        /\ Settled /\ Owes(host.cbw.size) /\ ep.res = "ok"
    BY <1>1, <1>5, WrapperGot DEF CbwAccept
  <2>2. /\ cmd' = host.cbw /\ tag' = host.tag /\ lun_idx' = cmd'.lun /\ ~ cbw_req_queued' /\ bulk' = bulk
        /\ pc' = IF state' = "NORMAL" THEN "parse" ELSE "top"
    BY <2>1, <1>5 DEF CbwAccept, Continue
  <2>3. Undisturbed'
    BY <1>1, <2>2 DEF Undisturbed
  <2>4. CASE state' = "EXIT"
    <3>1. Listening' /\ pc' = "top"
      BY <1>1, <2>1, <2>2, <2>4 DEF Listening, Settled, Line
    <3> QED
      BY <2>3, <3>1, EnterListening
  <2>5. CASE state' = "NORMAL"
    <3>1. AtParse' /\ Agreeing'
      BY <1>1, <2>1, <2>2 DEF AtParse, Agreeing, Settled, Line, Owes
    <3>2. pc' = "parse"
      BY <2>2, <2>5
    <3> QED
      BY <2>2, <2>3, <2>5, <3>1, <3>2, EnterServing DEF Serving, Pcs, AtReply, AtRead, AtWrite,
         AtVerify, AtAnswer, ReadPcs, WritePcs
  <2> QED
    BY <1>2, <2>4, <2>5
<1> QED
  BY <1>3, <1>4, <1>5 DEF ReceiveCommand

\* The loop ends between commands, and no other exception is raised.
LEMMA ExceptionTalk ==
  ASSUME TalkInv, HandleException \/ ComboExit
  PROVE  Undisturbed' /\ Phases'
<1> USE DEF TalkInv
<1>1. /\ Listening /\ Undisturbed
      /\ UNCHANGED <<bulk_reset_req, ep, host>>
  BY DEF HandleException, HandleAbort, HandleReset, HandleExit, ComboExit, excUnchanged, Phases
<1>2. HandleExit \/ ComboExit
  BY <1>1 DEF HandleException, HandleAbort, HandleReset, Listening
<1>3. pc' = "exit" /\ bulk' = bulk
  BY <1>2 DEF HandleExit, ComboExit
<1>4. ep.in = <<>> /\ Len(ep.out) <= 1
  <2> DEFINE n == Len(ep.out)
  <2>1. ep.in = <<>> /\ (ep.out = <<>> \/ ep.out = <<[len |-> CbwLen]>>)
    BY <1>1 DEF Listening, Settled, Asked, Came, Got, Line
  <2>2. Len(<<>>) = 0 /\ Len(<<[len |-> CbwLen]>>) = 1
    OBVIOUS
  <2>3. n = 0 \/ n = 1
    BY <2>1, <2>2, Zenon
  <2> HIDE DEF n
  <2>4. n <= 1
    BY <2>3
  <2> QED
    BY <2>1, <2>4 DEF n
<1>5. Undisturbed'
  BY <1>1, <1>3 DEF Undisturbed
<1> QED
  BY <1>1, <1>3, <1>4, <1>5 DEF Phases, Serving, AtParse, AtReply, AtRead, AtWrite, AtVerify,
     AtAnswer, AtStatus, ReadPcs, WritePcs

-----------------------------------------------------------------------------
(* The commands.                                                           *)

\* The command carried out is one the gadget can answer.
LEMMA CommandAnswerable ==
  ASSUME TalkInv
  PROVE  /\ cmd \in CbwType /\ cmd.size \in Nat /\ Answerable(cmd)
         /\ Clamped(cmd) \in Nat /\ Clamped(cmd) <= cmd.size
         /\ DataDir \in {"none", "in", "out"} /\ (DataDir = "none" => cmd.size = 0)
         /\ DataDir = "in" => cmd.dir = "in" /\ cmd.size > 0
         /\ DataDir = "out" => cmd.dir = "out" /\ cmd.size <= EpMax
<1>1. /\ cmd \in CbwType /\ cmd.size \in Nat /\ Answerable(cmd)
      /\ Clamped(cmd) \in Nat /\ Clamped(cmd) <= cmd.size
  BY ClampedType DEF TalkInv, Talking, IInv, TypeOK, TypeCommand, CbwType
<1>2. /\ DataDir \in {"none", "in", "out"} /\ (DataDir = "none" => cmd.size = 0)
      /\ DataDir = "in" => cmd.dir = "in" /\ cmd.size > 0
      /\ DataDir = "out" => cmd.dir = "out" /\ cmd.size <= EpMax
  BY <1>1 DEF DataDir, CbwType, Answerable
<1> QED
  BY <1>1, <1>2

\* A reply of n units is left for _finish_reply: what it leaves out is to be
\* padded, or thrown away.
LEMMA RepliedTalk ==
  ASSUME TalkInv, Agreeing, Settled, Owes(cmd.size),
         pc' = "parsed", state' = "NORMAL", ~ cbw_req_queued', ~ bulk_reset_req',
         xusb', UNCHANGED <<cmdVars, host, ep>>,
         usb_amount_left' = cmd.size, ~ short_packet_received', NEW n \in Nat, Reply(n)
  PROVE  Undisturbed' /\ Phases'
<1>1. cmd.size \in Nat /\ Answerable(cmd) /\ Clamped(cmd) \in Nat /\ Clamped(cmd) <= cmd.size
  BY CommandAnswerable
<1>2. /\ Undisturbed /\ cmd' = cmd /\ tag' = tag /\ lun_idx' = lun_idx /\ DataDir' = DataDir
  BY DEF TalkInv, cmdVars, DataDir
<1> DEFINE m == MinOf(n, Clamped(cmd))
<1>3. m \in Nat /\ m <= cmd.size
  <2> DEFINE c == Clamped(cmd)
  <2>1. MinOf(n, c) \in Nat /\ MinOf(n, c) <= c /\ c \in Nat /\ c <= cmd.size
    BY <1>1, MinOfNat
  <2> HIDE DEF c
  <2>2. MinOf(n, c) \in Nat /\ MinOf(n, c) <= cmd.size
    BY <1>1, <2>1
  <2> QED
    BY <2>2 DEF c
<1>4. /\ bulk'.out_ignore = bulk.out_ignore
      /\ DataDir = "in" => bulk'.in_length = m /\ residue' = cmd.size - m
      /\ DataDir # "in" => residue' = cmd.size
  BY DEF Reply, TalkInv, IInv, TypeOK, TypeAmounts
<1> HIDE DEF m
<1>5. Undisturbed'
  <2>1. bulk.out_ignore = FALSE
    BY <1>2 DEF Undisturbed, TalkInv, IInv, TypeOK, TypeAmounts
  <2>2. bulk'.out_ignore = FALSE
    BY <1>4, <2>1, Zenon
  <2> QED
    BY <1>2, <2>2 DEF Undisturbed
<1>6. Agreeing' /\ Settled' /\ Owes(cmd.size)'
  BY <1>2 DEF Agreeing, Settled, Line, Owes
<1>7. DataDir = "in" => bulk'.in_length + residue' = cmd.size /\ cmd.size > 0
  BY <1>1, <1>3, <1>4 DEF DataDir
<1>8. DataDir = "out" => /\ usb_amount_left' <= residue' /\ usb_amount_left' <= EpMax
                         /\ cmd.size <= EpMax
  BY <1>1, <1>4 DEF DataDir, Answerable
<1>9. AtReply'
  <2>1. CASE DataDir = "none"
    <3>1. cmd.size = 0
      BY <2>1, CommandAnswerable DEF DataDir, CbwType
    <3> QED
      BY <1>2, <1>6, <2>1, <3>1 DEF AtReply, Owes
  <2>2. CASE DataDir = "in"
    BY <1>2, <1>6, <1>7, <2>2 DEF AtReply, Owes
  <2>3. CASE DataDir = "out"
    BY <1>2, <1>6, <1>8, <2>3 DEF AtReply, Owes
  <2>4. DataDir \in {"none", "in", "out"}
    BY <1>1, CommandAnswerable DEF DataDir, CbwType
  <2> QED
    BY <2>1, <2>2, <2>3, <2>4
<1> QED
  BY <1>5, <1>6, <1>9, EnterServing DEF Serving, Pcs, AtParse, AtRead, AtWrite, AtVerify, AtAnswer,
     ReadPcs, WritePcs

\* What every command finds, and sets before its handler runs.
LEMMA ParseFrame ==
  ASSUME TalkInv, ParseStart
  PROVE  /\ Agreeing /\ Settled /\ Owes(cmd.size) /\ lun_idx \in Luns
         /\ state' = "NORMAL" /\ ~ cbw_req_queued' /\ ~ bulk_reset_req'
         /\ xusb' /\ UNCHANGED <<cmdVars, host>>
         /\ usb_amount_left' = cmd.size /\ ~ short_packet_received'
         /\ Overwritten(ep, bulk.in_buf) = ep
<1> USE DEF TalkInv
<1>1. Agreeing /\ AtParse /\ state = "NORMAL" /\ ~ cbw_req_queued /\ Undisturbed
  BY DEF ParseStart, Phases, Serving, Pcs
<1>2. Settled /\ Owes(cmd.size)
  BY <1>1 DEF AtParse, ParseStart
<1>3. Overwritten(ep, bulk.in_buf) = ep
  BY <1>2, OverwrittenSettled DEF Settled, Line, IInv, TypeOK, TypeEndpoint
<1>4. state' = "NORMAL" /\ ~ bulk_reset_req' /\ xusb'
  BY <1>1 DEF ParseStart, HandleEp0, Undisturbed, cbwVars
<1> QED
  BY <1>1, <1>2, <1>3, <1>4, ParseStartType DEF ParseStart, cbwVars

\* Commands that move no sectors leave their reply at once.
LEMMA ParseReplyTalk ==
  ASSUME TalkInv, ParseRefuse \/ ParseReply \/ ParseControl
  PROVE  Undisturbed' /\ Phases'
<1>1. ParseStart /\ pc' = "parsed" /\ (Reply(0) \/ Reply(ReplyLen))
  BY DEF ParseRefuse, ParseReply, ParseControl
<1>2. ep' = ep
  BY <1>1, ParseFrame DEF ParseRefuse, ParseReply, ParseControl
<1>3. 0 \in Nat /\ ReplyLen \in Nat
  BY SizesAssumption
<1> QED
  BY <1>1, <1>2, <1>3, ParseFrame, RepliedTalk

\* What is a multiple of the larger is one of the smaller.
LEMMA MultipleOfPackets ==
  ASSUME PacketsFit, NEW k \in Nat
  PROVE  k * BlkLen \in Nat /\ (k * BlkLen) % MaxPacket = 0
<1>1. BlkLen \in Nat \ {0} /\ MaxPacket \in Nat \ {0} /\ BlkLen % MaxPacket = 0
  BY SizesAssumption DEF PacketsFit
<1>2. PICK q \in Nat : BlkLen = q * MaxPacket
  BY <1>1, SMT
<1>3. (k * q) * MaxPacket = k * BlkLen /\ k * q \in Nat
  BY <1>1, <1>2, SMT
<1>4. \A j \in Nat : (j * MaxPacket) % MaxPacket = 0
  BY <1>1, SMT
<1>5. ((k * q) * MaxPacket) % MaxPacket = 0
  BY <1>3, <1>4
<1> DEFINE n == k * BlkLen
<1>6. (k * q) * MaxPacket = n
  BY <1>3
<1> HIDE DEF n
<1>7. n % MaxPacket = 0
  BY <1>5, <1>6, Zenon
<1>8. k * BlkLen \in Nat
  BY <1>1
<1> QED
  BY <1>7, <1>8 DEF n

\* A number is so many times another, and a rest.
LEMMA QuotientRest ==
  ASSUME NEW a \in Nat, NEW b \in Nat \ {0}
  PROVE  /\ \E d \in Nat : a = d * b + (a % b)
         /\ a % b = 0 => \E d \in Nat : a = d * b
<1>1. a \div b \in Nat /\ a = (a \div b) * b + (a % b) /\ (a \div b) * b \in Nat
  BY SMT
<1>2. a % b = 0 => a = (a \div b) * b
  BY <1>1
<1> QED
  BY <1>1, <1>2

\* The size of a transfer is the one announced, or of whole packets.
LEMMA ClampedPackets ==
  ASSUME TalkInv, cmd.op \in {"READ", "WRITE"}
  PROVE  Clamped(cmd) = cmd.size \/ Clamped(cmd) % MaxPacket = 0
<1> DEFINE n == cmd.len * BlkLen
           s == n % U32
<1>1. cmd.len \in Nat /\ cmd.size \in Nat
  BY CommandAnswerable DEF CbwType
<1>2. BlkLen \in Nat \ {0} /\ U32 \in Nat \ {0} /\ U32 % BlkLen = 0
  BY SizesAssumption DEF TalkInv, Talking, PacketsFit
<1>3. n \in Nat
  BY <1>1, <1>2
<1>4. PICK d \in Nat : n = d * U32 + s
  BY <1>2, <1>3, QuotientRest
<1>5. PICK q \in Nat : U32 = q * BlkLen
  BY <1>2, QuotientRest
<1>6. s \in Nat
  BY <1>2, <1>3
<1> HIDE DEF s
<1>7. s = (cmd.len - d * q) * BlkLen
  <2>1. d * U32 = (d * q) * BlkLen /\ d * q \in Nat /\ (d * q) * BlkLen \in Nat
    BY <1>2, <1>5, SMT
  <2> DEFINE k == d * q
             kb == k * BlkLen
             lb == cmd.len * BlkLen
  <2>2. s = lb - kb /\ kb \in Nat /\ lb \in Nat
    <3> HIDE DEF k
    <3>1. lb = kb + s /\ kb \in Nat /\ lb \in Nat
      BY <1>1, <1>2, <1>4, <2>1 DEF k
    <3> HIDE DEF kb, lb
    <3> QED
      BY <1>6, <3>1
  <2>3. (cmd.len - k) * BlkLen = lb - kb
    <3> HIDE DEF k
    <3>1. k \in Nat
      BY <2>1 DEF k
    <3> QED
      BY <1>1, <1>2, <3>1, SMT
  <2> QED
    BY <2>2, <2>3
<1>8. cmd.len - d * q \in Nat
  <2> DEFINE k == cmd.len - d * q
  <2>1. k \in Int /\ s = k * BlkLen
    BY <1>1, <1>7
  <2> HIDE DEF k
  <2>2. k >= 0
    BY <1>2, <1>6, <2>1, SMT
  <2> QED
    BY <2>1, <2>2 DEF k
<1>9. s % MaxPacket = 0
  BY <1>7, <1>8, MultipleOfPackets DEF TalkInv, Talking
<1>10. Clamped(cmd) \in {s, cmd.size}
  BY DEF Clamped, SizeFromCmnd, MinOf, s
<1> QED
  BY <1>9, <1>10

\* A transfer that goes ahead is in the direction of its command, and has
\* something to move; nothing is sent or received yet.
LEMMA ParseTransferTalk ==
  ASSUME TalkInv, ParseTransfer
  PROVE  Undisturbed' /\ Phases'
<1> DEFINE size == Clamped(cmd)
           left == CASE cmd.op = "READ"   -> size \div BlkLen
                     [] cmd.op = "WRITE"  -> size
                     [] cmd.op = "VERIFY" -> cmd.len
           next == CASE cmd.op = "READ" -> "rd" [] cmd.op = "WRITE" -> "wr"
                     [] cmd.op = "VERIFY" -> "vf"
<1>1. ParseStart /\ Passes /\ cmd.op \in {"READ", "WRITE", "VERIFY"}
  BY DEF ParseTransfer
<1>2. /\ residue' = cmd.size /\ UNCHANGED <<bulk, ep>>
      /\ io' = IF left = 0 THEN NoIo
               ELSE [NoIo EXCEPT !.lba = cmd.lba, !.usb_lba = cmd.lba, !.left = left, !.req = size]
      /\ pc' = IF left = 0 THEN "parsed" ELSE next
  BY DEF ParseTransfer
<1>3. /\ cmd \in CbwType /\ cmd.size \in Nat /\ cmd.len \in Nat /\ Answerable(cmd)
      /\ size \in Nat /\ size <= cmd.size
  BY CommandAnswerable DEF CbwType
<1>4. /\ Agreeing /\ Settled /\ Owes(cmd.size)
      /\ state' = "NORMAL" /\ ~ cbw_req_queued' /\ ~ bulk_reset_req'
      /\ xusb' /\ UNCHANGED <<cmdVars, host>>
      /\ usb_amount_left' = cmd.size /\ ~ short_packet_received'
  BY <1>1, ParseFrame
<1>5. /\ Agreeing' /\ Settled' /\ Owes(cmd.size)' /\ Undisturbed' /\ DataDir' = DataDir
      /\ Num' = Num /\ cmd' = cmd
  BY <1>2, <1>4 DEF Agreeing, Settled, Line, Owes, TalkInv, Undisturbed, DataDir, Num, cmdVars
<1>6. BlkLen \in Nat \ {0}
  BY SizesAssumption
<1>7. size > 0 => cmd.op \in (IF cmd.dir = "in" THEN ToHost ELSE FromHost) /\ cmd.size > 0
  BY <1>1, <1>3 DEF Passes, Malformed, BadDir
<1>8. cmd.op = "READ" => cmd.lba < Num /\ cmd.lba \in Nat /\ Num \in Nat
  <2>1. HandlerSense(cmd, Lun) = "NO_SENSE"
    BY <1>1 DEF Passes, Refusal
  <2>2. cmd.op = "READ" => ~ PastEnd(cmd)
    BY <2>1 DEF HandlerSense
  <2>3. cmd.lba \in Nat /\ Num \in Nat
    BY <1>1, <1>3, ParseStartType, LunsAssumption DEF TalkInv, CbwType, Num
  <2> QED
    BY <2>2, <2>3 DEF PastEnd
<1>9. CASE left = 0
  <2>1. cmd.dir = "in" /\ cmd.size > 0 => FALSE
    BY <1>1, <1>3, <1>6, <1>9, SMT DEF Answerable
  <2>2. /\ DataDir \in {"none", "out"} /\ (DataDir = "none" => cmd.size = 0)
        /\ DataDir = "out" => cmd.size <= EpMax
    BY <1>3, <2>1, CommandAnswerable
  <2>3. AtReply'
    <3> HIDE DEF size, left, next
    <3> QED
      BY <1>2, <1>3, <1>4, <1>5, <2>2 DEF AtReply, Owes
  <2>4. pc' = "parsed"
    BY <1>2, <1>9
  <2> QED
    BY <1>4, <1>5, <2>3, <2>4, EnterServing DEF Serving, Pcs, AtParse, AtRead, AtWrite, AtVerify,
       AtAnswer, ReadPcs, WritePcs
<1>10. CASE left # 0 /\ cmd.op = "READ"
  <2>1. left = size \div BlkLen /\ pc' = "rd"
    BY <1>2, <1>10
  <2>2. left \in Nat /\ left > 0 /\ size > 0
    BY <1>3, <1>6, <1>10, <2>1, SMT
  <2>3. io'.left = left /\ io'.lba = cmd.lba /\ io'.first
    BY <1>2, <1>10 DEF NoIo
  <2>4. DataDir = "in"
    BY <1>3, <1>7, <1>10, <2>2 DEF DataDir, ToHost, FromHost
  <2>5. cmd.lba + left <= Num
    BY <1>3, <1>4, <1>8, <1>10, <2>1 DEF Answerable, Agreeing, Num
  <2>6. AtRead'
    BY <1>2, <1>5, <2>1, <2>2, <2>3, <2>4, <2>5 DEF AtRead, Owes
  <2> QED
    BY <1>4, <1>5, <2>1, <2>6, EnterServing DEF Serving, Pcs, AtParse, AtReply, AtWrite, AtVerify,
       AtAnswer, WritePcs, InWaits, OutWaits
<1>11. CASE left # 0 /\ cmd.op = "WRITE"
  <2>1. size > 0 /\ pc' = "wr" /\ io'.req = size
    BY <1>2, <1>3, <1>11 DEF NoIo
  <2>2. DataDir = "out" /\ cmd.size <= EpMax
    <3>1. DataDir = "out"
      BY <1>3, <1>7, <1>11, <2>1 DEF DataDir, ToHost, FromHost, CbwType
    <3> QED
      BY <3>1, CommandAnswerable
  <2>3. size = cmd.size \/ size % MaxPacket = 0
    BY <1>11, ClampedPackets
  <2>4. AtWrite'
    <3> HIDE DEF size, left, next
    <3> QED
      BY <1>2, <1>3, <1>4, <1>5, <2>1, <2>2, <2>3 DEF AtWrite, Owes
  <2> QED
    BY <1>4, <1>5, <2>1, <2>4, EnterServing DEF Serving, Pcs, AtParse, AtReply, AtRead, AtVerify,
       AtAnswer, ReadPcs, InWaits, OutWaits
<1>12. CASE left # 0 /\ cmd.op = "VERIFY"
  <2>1. pc' = "vf"
    BY <1>2, <1>12
  <2>2. AtVerify'
    BY <1>4, <1>5, <2>1 DEF AtVerify, Owes
  <2> QED
    BY <1>4, <1>5, <2>1, <2>2, EnterServing DEF Serving, Pcs, AtParse, AtReply, AtRead, AtWrite,
       AtAnswer, ReadPcs, WritePcs, InWaits, OutWaits
<1> QED
  BY <1>1, <1>9, <1>10, <1>11, <1>12

-----------------------------------------------------------------------------
(* The transfer loops.                                                     *)

\* What a step of a loop finds, and leaves alone.
LEMMA LoopFrame ==
  ASSUME TalkInv, scsiUnchanged, pc \in LoopPcs
  PROVE  /\ Agreeing /\ ep.res = "ok" /\ state' = "NORMAL" /\ ~ cbw_req_queued'
         /\ ~ bulk_reset_req' /\ xusb' /\ bulk.out_ignore = FALSE
         /\ UNCHANGED <<host, cmd, tag, lun_idx>> /\ DataDir' = DataDir /\ Num' = Num
         /\ ep'.res = "ok" => Agreeing'
         /\ bulk'.out_ignore = FALSE => Undisturbed'
<1> USE DEF TalkInv, LoopPcs, ReadPcs, WritePcs
<1>1. /\ Agreeing /\ Undisturbed /\ state = "NORMAL" /\ ~ cbw_req_queued
      /\ pc \in Serving /\ pc # "exit"
  BY DEF Phases, Serving, Pcs, OutWaits, InWaits
<1>2. /\ UNCHANGED <<host, cmd, tag, lun_idx, state, bulk_reset_req, cbw_req_queued, xusb>>
      /\ DataDir' = DataDir /\ Num' = Num
  BY DEF scsiUnchanged, excVars, cmdVars, cbwVars, DataDir, Num
<1>3. bulk.out_ignore = FALSE
  BY <1>1 DEF Undisturbed, IInv, TypeOK, TypeAmounts
<1> QED
  BY <1>1, <1>2, <1>3 DEF Agreeing, Undisturbed

\* With an orderly host the cards answer, and are not initialised anew.
LEMMA AccessOrderly ==
  ASSUME TalkInv, NEW how \in Outcomes, NEW op, NEW n, StorageAccess(op, n, how)
  PROVE  how \in {"ok", "refused"} /\ \A e : Scratched(e, how) = e
BY DEF TalkInv, Talking, Orderly, Outcomes, StorageAccess, MayFail, Scratched

\* Nothing is sent from the buffer that is read into.
LEMMA OtherIntact ==
  ASSUME TalkInv, NEW buf \in Bufs, NEW len, NEW rest, Transmitting(OtherBuf(buf), len, rest)
  PROVE  Overwritten(ep, buf) = ep
<1> DEFINE t == [buf |-> OtherBuf(buf), len |-> len, kind |-> "data", tag |-> tag]
<1>1. ep \in EpType
  BY DEF TalkInv, IInv, TypeOK, TypeEndpoint
<1>2. t.buf # buf
  BY DEF OtherBuf, Bufs
<1>3. CASE ep.in = <<t>>
  <2> HIDE DEF t
  <2>1. DOMAIN ep.in = {1} /\ ep.in[1] = t
    BY <1>3, Singles
  <2> QED
    BY <1>1, <1>2, <2>1, OverwrittenFree
<1>4. CASE ep.in = <<>>
  BY <1>1, <1>4, OverwrittenSettled
<1> QED
  BY <1>3, <1>4 DEF Transmitting, Sending, Sent, Over, Settled, Line

\* The next sectors are read while the last are sent.
LEMMA ReadChunkTalk ==
  ASSUME TalkInv, ReadChunk
  PROVE  Undisturbed' /\ Phases'
<1> USE DEF TalkInv
<1>1. /\ scsiUnchanged /\ pc = "rd" /\ ReadAmount > 0 /\ UNCHANGED <<residue, bulk>>
      /\ pc' = IF io.first THEN "read_done" ELSE "read_wait"
  BY DEF ReadChunk
<1>2. PICK how \in Outcomes :
        /\ StorageAccess("read", ReadAmount, how)
        /\ io' = [io EXCEPT !.n = IF how \in Lost THEN 0 ELSE ReadAmount]
        /\ ep' = LET e == Scratched(Overwritten(ep, io.cur), how)
                 IN IF io.first THEN e ELSE Finish(e)
  BY DEF ReadChunk
<1>3. /\ Agreeing /\ ep.res = "ok" /\ state' = "NORMAL" /\ ~ cbw_req_queued'
      /\ bulk.out_ignore = FALSE
      /\ UNCHANGED <<host, cmd, tag, lun_idx>> /\ DataDir' = DataDir /\ Num' = Num
      /\ ep'.res = "ok" => Agreeing'
      /\ bulk'.out_ignore = FALSE => Undisturbed'
  BY <1>1, LoopFrame DEF LoopPcs, ReadPcs
<1>4. /\ DataDir = "in" /\ io.left > 0 /\ io.lba + io.left <= Num
      /\ io.first => Settled /\ Owes(residue)
      /\ ~ io.first => \E len \in 1 .. EpMax : Transmitting(OtherBuf(io.cur), len, residue)
  BY <1>1 DEF Phases, AtRead, ReadPcs
<1>5. ep \in EpType /\ io \in IoType /\ io.cur \in Bufs /\ io.first \in BOOLEAN
  BY DEF IInv, TypeOK, TypeEndpoint, TypeAmounts, IoType
<1>6. Overwritten(ep, io.cur) = ep
  BY <1>4, <1>5, OtherIntact, OverwrittenSettled DEF Settled, Line
<1>7. ep' = ep
  <2>1. Finish(ep) = ep
    BY <1>3, <1>5 DEF Finish, EpType
  <2>2. \A e : Scratched(e, how) = e
    BY <1>2, AccessOrderly
  <2> QED
    BY <1>2, <1>6, <2>1, <2>2
<1>8. /\ io'.n \in {0, ReadAmount} /\ io'.left = io.left /\ io'.lba = io.lba
      /\ io'.cur = io.cur /\ io'.first = io.first
  BY <1>2, <1>5 DEF IoType
<1>9. io'.n \in {0, io.left} \/ io'.n > 1
  <2>1. /\ io.left \in Nat /\ io.lba \in Nat /\ Num \in Nat
    BY <1>1, LoopStart DEF LoopPcs, ReadPcs
  <2>2. MaxIo \in Nat /\ MaxIo > 1
    BY SizesAssumption DEF MaxIo, Talking, PacketsFit
  <2>3. ReadAmount \in {io.left, MaxIo}
    <3> DEFINE max == MaxIo
               num == Num
    <3>1. ReadAmount = MinOf(MinOf(io.left, max), num - io.lba)
      BY DEF ReadAmount
    <3>2. max \in Nat /\ num \in Nat /\ io.lba + io.left <= num
      BY <1>4, <2>1, <2>2
    <3> HIDE DEF max, num
    <3>3. MinOf(MinOf(io.left, max), num - io.lba) \in {io.left, max}
      BY <2>1, <3>2 DEF MinOf
    <3> QED
      BY <3>1, <3>3 DEF max
  <2> QED
    BY <1>8, <2>2, <2>3
<1>10. AtRead'
  <2>1. CASE io.first
    BY <1>1, <1>3, <1>4, <1>7, <1>8, <1>9, <2>1 DEF AtRead, Settled, Line, Owes
  <2>2. CASE ~ io.first
    <3>1. PICK len \in 1 .. EpMax : Transmitting(OtherBuf(io.cur), len, residue)
      BY <1>4, <2>2
    <3>2. Transmitting(OtherBuf(io.cur), len, residue)'
      BY <1>1, <1>3, <1>7, <1>8, <3>1 DEF Transmitting, Sending, Sent, Over, Settled, Line, Owes
    <3> QED
      BY <1>1, <1>3, <1>4, <1>8, <1>9, <2>2, <3>2 DEF AtRead
  <2> QED
    BY <2>1, <2>2
<1> QED
  BY <1>1, <1>3, <1>7, <1>10, EnterServing DEF Serving, Pcs, AtParse, AtReply, AtWrite, AtVerify,
     AtAnswer, WritePcs, InWaits, OutWaits

\* A transfer that was waited for is over.
LEMMA TransmitOver ==
  ASSUME NEW buf, NEW len, NEW rest, Transmitting(buf, len, rest), pc \in InWaits,
         WaitEnded, ep.res = "ok"
  PROVE  Settled /\ Owes(rest)
BY DEF Transmitting, Sending, Sent, Over, WaitEnded, Count, InWaits, OutWaits

\* A request that was waited for was answered in full.
LEMMA ReceiveOver ==
  ASSUME NEW rest, Receiving(rest), pc \in OutWaits, WaitEnded, ep.res = "ok"
  PROVE  Settled /\ Owes(rest) /\ ep.out_bytes = bulk.out_length
BY DEF Receiving, Asked, Came, Got, WaitEnded, Count, InWaits, OutWaits

\* What was read is sent, or left for _finish_reply.
LEMMA ReadAccountTalk ==
  ASSUME TalkInv, ReadAccount
  PROVE  Undisturbed' /\ Phases'
<1> DEFINE len  == io.n * BlkLen
           more == io.n > 0 /\ io.left > io.n
<1> USE DEF TalkInv
<1>1. /\ scsiUnchanged /\ pc \in {"read_done", "read_wait"} /\ residue' = residue - len
      /\ bulk' = [bulk EXCEPT !.in_length = len, !.in_buf = io.cur]
      /\ IF more
         THEN /\ ep' = InStart(ep, io.cur, len)
              /\ io' = [io EXCEPT !.lba = @ + io.n, !.left = @ - io.n, !.first = FALSE,
                                  !.cur = IF @ = "in" THEN "out" ELSE "in"]
              /\ pc' = "rd"
         ELSE Return /\ UNCHANGED ep
  BY DEF ReadAccount, Account
<1>2. /\ Agreeing /\ ep.res = "ok" /\ state' = "NORMAL" /\ ~ cbw_req_queued'
      /\ bulk.out_ignore = FALSE
      /\ UNCHANGED <<host, cmd, tag, lun_idx>> /\ DataDir' = DataDir /\ Num' = Num
      /\ ep'.res = "ok" => Agreeing'
      /\ bulk'.out_ignore = FALSE => Undisturbed'
  BY <1>1, LoopFrame DEF LoopPcs, ReadPcs
<1>3. /\ DataDir = "in" /\ io.left > 0 /\ io.lba + io.left <= Num
      /\ io.n \in {0, io.left} \/ io.n > 1
  BY <1>1 DEF Phases, AtRead, ReadPcs
<1>4. Settled /\ Owes(residue)
  <2>1. CASE pc = "read_done"
    BY <2>1 DEF Phases, AtRead, ReadPcs
  <2>2. CASE pc = "read_wait" /\ WaitEnded
    <3>1. PICK n \in 1 .. EpMax : Transmitting(OtherBuf(io.cur), n, residue)
      BY <2>2 DEF Phases, AtRead, ReadPcs
    <3> QED
      BY <1>2, <2>2, <3>1, TransmitOver DEF InWaits
  <2> QED
    BY <2>1, <2>2 DEF ReadAccount
<1>5. /\ len \in 0 .. EpMax /\ residue' \in Nat /\ io.left - io.n \in Nat
  BY ReadAmounts
<1>6. /\ io.n \in Nat /\ io.left \in Nat /\ io.lba \in Nat /\ Num \in Nat /\ residue \in Nat
      /\ io \in IoType /\ io.cur \in Bufs
  BY <1>1, LoopStart DEF LoopPcs, ReadPcs, IInv, TypeOK, TypeAmounts, IoType
<1>7. EpMax \in Nat /\ BlkLen \in Nat \ {0} /\ MaxPacket \in Nat \ {0} /\ BlkLen % MaxPacket = 0
  BY SizesAssumption DEF Talking, PacketsFit
<1>8. bulk'.out_ignore = FALSE /\ bulk'.in_length = len /\ bulk'.in_buf = io.cur
  BY <1>1, <1>2 DEF IInv, TypeOK, TypeAmounts
<1>9. len % MaxPacket = 0
  BY <1>6, MultipleOfPackets DEF Talking
<1>10. CASE more
  <2>1. len > MaxPacket
    <3>1. BlkLen >= MaxPacket
      BY <1>7, SMT
    <3>2. io.n >= 2
      BY <1>3, <1>6, <1>10
    <3>3. 2 * BlkLen <= io.n * BlkLen
      BY <1>6, <1>7, <3>2, TimesMonotone
    <3>4. 2 * BlkLen > MaxPacket
      BY <1>7, <3>1
    <3> HIDE DEF len
    <3>5. len \in Nat /\ 2 * BlkLen <= len
      BY <1>5, <1>7, <3>3 DEF len
    <3> QED
      BY <1>7, <3>4, <3>5
  <2> HIDE DEF len
  <2>2. ep' = InWrite(ep, io.cur, len, "data")
    BY <1>1, <1>7, <1>10, <2>1 DEF InStart
  <2>3. ep \in EpType
    BY DEF IInv, TypeOK, TypeEndpoint
  <2>4. /\ Line(ep', <<[buf |-> io.cur, len |-> len, kind |-> "data", tag |-> tag]>>, <<>>, <<>>)
        /\ ep'.in_count = 1 /\ ep'.res = "ok"
    BY <1>4, <2>2, <2>3, InWriteLine DEF Settled
  <2>5. /\ io'.lba = io.lba + io.n /\ io'.left = io.left - io.n /\ ~ io'.first
        /\ OtherBuf(io'.cur) = io.cur /\ pc' = "rd"
    BY <1>1, <1>6, <1>10 DEF IoType, OtherBuf, Bufs
  <2>6. PICK n \in 1 .. EpMax : n = len
    BY <1>5, <1>7, <2>1
  <2>7. Transmitting(OtherBuf(io.cur), n, residue)'
    <3>1. Sending([buf |-> OtherBuf(io.cur), len |-> n, kind |-> "data", tag |-> tag])'
      BY <1>2, <2>4, <2>5, <2>6 DEF Sending
    <3>2. residue' + n = residue
      BY <1>1, <1>5, <1>6, <1>7, <2>6
    <3>3. Owes(residue + n)'
      BY <1>2, <1>4, <3>2 DEF Owes
    <3> QED
      BY <1>7, <1>9, <2>6, <3>1, <3>3 DEF Transmitting
  <2>8. AtRead'
    BY <1>2, <1>3, <1>6, <1>10, <2>5, <2>7 DEF AtRead
  <2> QED
    BY <1>2, <1>8, <2>4, <2>5, <2>8, EnterServing DEF Serving, Pcs, AtParse, AtReply, AtWrite,
       AtVerify, AtAnswer, WritePcs, InWaits, OutWaits
<1>11. CASE ~ more
  <2>1. pc' = "parsed" /\ ep' = ep
    BY <1>1, <1>11 DEF Return
  <2>2. residue > 0
    <3> DEFINE a == io.left * BlkLen
    <3>1. a \in Nat /\ a > 0
      BY <1>3, <1>6, <1>7, SMT
    <3>2. a <= residue
      BY <1>1 DEF IInv, Loops, InvRead, ReadPcs
    <3> HIDE DEF a
    <3> QED
      BY <1>6, <3>1, <3>2
  <2> HIDE DEF len
  <2>3. bulk'.in_length + residue' = residue
    BY <1>1, <1>5, <1>6, <1>8
  <2>4. AtReply'
    BY <1>2, <1>3, <1>4, <2>1, <2>2, <2>3 DEF AtReply, Settled, Line, Owes
  <2> QED
    BY <1>2, <1>8, <2>1, <2>4, EnterServing DEF Serving, Pcs, AtParse, AtRead, AtWrite,
       AtVerify, AtAnswer, ReadPcs, WritePcs
<1> QED
  BY <1>10, <1>11

\* A read does not run into the end of the medium.
LEMMA ReadInside ==
  ASSUME TalkInv, pc = "rd", scsiUnchanged
  PROVE  ReadAmount > 0
<1> DEFINE max == MaxIo
           num == Num
<1>1. /\ io.left \in Nat /\ io.lba \in Nat /\ num \in Nat /\ io.left > 0
      /\ io.lba + io.left <= num
  BY LoopStart DEF TalkInv, LoopPcs, ReadPcs, Phases, AtRead
<1>2. max \in Nat /\ max > 0
  BY SizesAssumption DEF MaxIo
<1>3. ReadAmount = MinOf(MinOf(io.left, max), num - io.lba)
  BY DEF ReadAmount
<1> HIDE DEF max, num
<1> QED
  BY <1>1, <1>2, <1>3 DEF MinOf

\* Data of the host that was not asked for is left to be thrown away.
LEMMA WriteReturnTalk ==
  ASSUME TalkInv, scsiUnchanged, pc \in WritePcs, Settled, Owes(usb_amount_left),
         usb_amount_left <= residue', Return, UNCHANGED <<usb_amount_left, ep>>,
         short_packet_received' = FALSE, UNCHANGED bulk
  PROVE  Undisturbed' /\ Phases'
<1>1. /\ Agreeing /\ ep.res = "ok" /\ state' = "NORMAL" /\ ~ cbw_req_queued'
      /\ bulk.out_ignore = FALSE
      /\ UNCHANGED <<host, cmd, tag, lun_idx>> /\ DataDir' = DataDir
      /\ Agreeing' /\ Undisturbed'
  BY LoopFrame DEF LoopPcs
<1>2. DataDir = "out" /\ usb_amount_left <= EpMax /\ pc' = "parsed"
  BY DEF TalkInv, Phases, AtWrite, Return
<1>3. AtReply'
  BY <1>1, <1>2 DEF AtReply, Settled, Line, Owes
<1> QED
  BY <1>1, <1>2, <1>3, EnterServing DEF Serving, Pcs, AtParse, AtRead, AtWrite,
     AtVerify, AtAnswer, ReadPcs, WritePcs

\* The loop ends where nothing is under way.
LEMMA WriteEndTalk ==
  ASSUME TalkInv, WritePastEnd \/ WriteEnd
  PROVE  Undisturbed' /\ Phases'
<1>1. /\ scsiUnchanged /\ pc = "wr" /\ pc \in WritePcs /\ Return
      /\ UNCHANGED <<usb_amount_left, ep, residue, short_packet_received, bulk>>
  BY DEF WritePastEnd, WriteEnd, WritePcs
<1>2. /\ Settled /\ Owes(usb_amount_left) /\ usb_amount_left <= residue
      /\ short_packet_received = FALSE
  BY <1>1 DEF TalkInv, Phases, AtWrite, IInv, TypeOK, TypeCommand
<1> QED
  BY <1>1, <1>2, WriteReturnTalk

\* Whole packets are asked for, or all there is.
LEMMA WriteRequestTalk ==
  ASSUME TalkInv, WriteRequest
  PROVE  Undisturbed' /\ Phases'
<1> DEFINE len == MinOf(io.req, EpMax)
<1> USE DEF TalkInv
<1>1. /\ scsiUnchanged /\ pc = "wr" /\ pc \in WritePcs /\ io.req > 0
      /\ io' = [io EXCEPT !.usb_lba = @ + len \div BlkLen, !.req = @ - len]
      /\ usb_amount_left' = usb_amount_left - len
      /\ bulk' = [bulk EXCEPT !.out_length = len]
      /\ ep' = OutRead(ep, len)
      /\ pc' = "write_wait"
      /\ UNCHANGED <<residue, short_packet_received>>
  BY DEF WriteRequest, WritePcs
<1>2. /\ Agreeing /\ ep.res = "ok" /\ state' = "NORMAL" /\ ~ cbw_req_queued'
      /\ bulk.out_ignore = FALSE
      /\ UNCHANGED <<host, cmd, tag, lun_idx>> /\ DataDir' = DataDir
      /\ ep'.res = "ok" => Agreeing'
      /\ bulk'.out_ignore = FALSE => Undisturbed'
  BY <1>1, LoopFrame DEF LoopPcs
<1>3. /\ Settled /\ Owes(usb_amount_left) /\ usb_amount_left <= residue
      /\ DataDir = "out" /\ ~ short_packet_received /\ usb_amount_left <= EpMax
      /\ io.req = 0 \/ io.req = usb_amount_left \/ io.req % MaxPacket = 0
  BY <1>1 DEF Phases, AtWrite, WritePcs
<1>4. io.req \in Nat /\ usb_amount_left \in Nat /\ io.req <= usb_amount_left /\ EpMax \in Nat
  BY <1>1, LoopStart, WriteStart, SizesAssumption DEF LoopPcs
<1>5. len = io.req
  BY <1>3, <1>4 DEF MinOf
<1> HIDE DEF len
<1>6. /\ io'.req = 0 /\ usb_amount_left' = usb_amount_left - io.req
      /\ bulk'.out_length = io.req /\ bulk'.out_ignore = FALSE
  BY <1>1, <1>2, <1>4, <1>5 DEF IInv, TypeOK, TypeAmounts, IoType
<1>7. /\ Line(ep', <<>>, <<[len |-> io.req]>>, <<>>)
      /\ ep'.out_count = 1 /\ ep'.out_bytes = io.req /\ ep'.res = "ok"
  BY <1>1, <1>3, <1>5, OutReadLine DEF Settled, IInv, TypeOK, TypeEndpoint
<1>8. /\ usb_amount_left' + bulk'.out_length = usb_amount_left
      /\ usb_amount_left' <= EpMax
      /\ usb_amount_left' = 0 \/ bulk'.out_length % MaxPacket = 0
  BY <1>1, <1>3, <1>4, <1>6
<1>9. Asked(bulk.out_length)' /\ Owes(usb_amount_left + bulk.out_length)'
  BY <1>2, <1>3, <1>6, <1>7, <1>8 DEF Asked, Owes
<1>10. Receiving(usb_amount_left)'
  BY <1>1, <1>6, <1>8, <1>9 DEF Receiving
<1>11. AtWrite'
  BY <1>1, <1>2, <1>3, <1>6, <1>8, <1>10 DEF AtWrite
<1> QED
  BY <1>1, <1>2, <1>6, <1>7, <1>11, EnterServing DEF Serving, Pcs, AtParse, AtReply, AtRead,
     AtVerify, AtAnswer, ReadPcs, InWaits, OutWaits

\* What was asked for has come in full.
LEMMA WriteWaited ==
  ASSUME TalkInv, pc = "write_wait", WaitEnded, scsiUnchanged
  PROVE  /\ Settled /\ Owes(usb_amount_left) /\ ~ EndedShort /\ ep.res = "ok"
         /\ usb_amount_left + bulk.out_length <= residue
         /\ usb_amount_left \in Nat /\ bulk.out_length \in Nat /\ residue \in Nat
         /\ short_packet_received = FALSE
<1> USE DEF TalkInv
<1>1. /\ Receiving(usb_amount_left) /\ usb_amount_left + bulk.out_length <= residue
      /\ ~ short_packet_received
  BY DEF Phases, AtWrite, WritePcs
<1>2. ep.res = "ok"
  BY LoopFrame DEF LoopPcs, WritePcs
<1>3. Settled /\ Owes(usb_amount_left) /\ ep.out_bytes = bulk.out_length
  BY <1>1, <1>2, ReceiveOver DEF OutWaits
<1>4. bulk.out_length \in Nat /\ usb_amount_left \in Nat /\ residue \in Nat
      /\ short_packet_received \in BOOLEAN
  BY SizesAssumption DEF IInv, TypeOK, TypeAmounts, TypeCommand
<1> QED
  BY <1>1, <1>2, <1>3, <1>4 DEF EndedShort

\* The loop goes on with what is left to ask for.
LEMMA WriteNextTalk ==
  ASSUME TalkInv, pc = "write_wait", WaitEnded, scsiUnchanged, NEW next, WriteNext(next),
         next.req = io.req, usb_amount_left <= residue', UNCHANGED <<usb_amount_left, bulk, ep>>
  PROVE  Undisturbed' /\ Phases'
<1>1. /\ Settled /\ Owes(usb_amount_left) /\ ~ EndedShort /\ short_packet_received = FALSE
  BY WriteWaited
<1>2. short_packet_received' = FALSE /\ pc' = "wr" /\ io' = next
  BY <1>1 DEF WriteNext
<1>3. /\ Agreeing /\ ep.res = "ok" /\ state' = "NORMAL" /\ ~ cbw_req_queued'
      /\ bulk.out_ignore = FALSE
      /\ UNCHANGED <<host, cmd, tag, lun_idx>> /\ DataDir' = DataDir
      /\ Agreeing' /\ Undisturbed'
  BY LoopFrame DEF LoopPcs, WritePcs
<1>4. /\ DataDir = "out" /\ usb_amount_left <= EpMax
      /\ io.req = 0 \/ io.req = usb_amount_left \/ io.req % MaxPacket = 0
  BY DEF TalkInv, Phases, AtWrite, WritePcs
<1>5. AtWrite'
  BY <1>1, <1>2, <1>3, <1>4 DEF AtWrite, Settled, Line, Owes
<1> QED
  BY <1>2, <1>3, <1>5, EnterServing DEF Serving, Pcs, AtParse, AtReply, AtRead,
     AtVerify, AtAnswer, ReadPcs, InWaits, OutWaits

\* What came is written, and the loop goes on.
LEMMA WriteStepTalk ==
  ASSUME TalkInv, WriteNothing \/ WriteChunk
  PROVE  Undisturbed' /\ Phases'
<1>1. /\ pc = "write_wait" /\ WaitEnded /\ scsiUnchanged /\ pc \in WritePcs
      /\ UNCHANGED <<usb_amount_left, bulk>>
  BY DEF WriteNothing, WriteChunk, WritePcs
<1>2. /\ Settled /\ Owes(usb_amount_left) /\ usb_amount_left + bulk.out_length <= residue
      /\ usb_amount_left \in Nat /\ bulk.out_length \in Nat /\ residue \in Nat
      /\ short_packet_received = FALSE /\ usb_amount_left <= residue
  BY <1>1, WriteWaited
<1>3. CASE WriteNothing
  BY <1>1, <1>2, <1>3, WriteNextTalk DEF WriteNothing
<1>4. CASE WriteChunk
  <2>1. PICK how \in Outcomes :
          /\ StorageAccess("write", WriteAmount, how)
          /\ ep' = Scratched(ep, how)
          /\ IF how \in Lost
             THEN Return /\ UNCHANGED <<residue, short_packet_received>>
             ELSE /\ WriteNext([io EXCEPT !.lba = @ + WriteAmount,
                                          !.left = @ - WriteAmount * BlkLen])
                  /\ residue' = residue - WriteAmount * BlkLen
    BY <1>4 DEF WriteChunk, Account
  <2>2. ep' = ep
    BY <2>1, AccessOrderly
  <2>3. CASE how \in Lost
    BY <1>1, <1>2, <2>1, <2>2, <2>3, WriteReturnTalk
  <2>4. CASE how \notin Lost
    <3> DEFINE len  == WriteAmount * BlkLen
               next == [io EXCEPT !.lba = @ + WriteAmount, !.left = @ - len]
    <3>1. len \in Nat /\ len <= bulk.out_length
      BY <1>1, WriteAmountType DEF TalkInv
    <3>2. residue' = residue - len /\ WriteNext(next)
      BY <2>1, <2>4
    <3>3. next.req = io.req
      BY DEF TalkInv, IInv, TypeOK, TypeAmounts, IoType
    <3> HIDE DEF len, next
    <3>4. usb_amount_left <= residue'
      BY <1>2, <3>1, <3>2
    <3> QED
      BY <1>1, <2>2, <3>2, <3>3, <3>4, WriteNextTalk
  <2> QED
    BY <2>3, <2>4
<1> QED
  BY <1>3, <1>4

\* The result of a verification is a reply of no data.
LEMMA VerifyTalk ==
  ASSUME TalkInv, VerifyChunk \/ VerifyPastEnd
  PROVE  Undisturbed' /\ Phases'
<1>1. scsiUnchanged /\ pc = "vf" /\ UNCHANGED <<usb_amount_left, short_packet_received>>
  BY DEF VerifyChunk, VerifyPastEnd
<1>2. /\ Agreeing /\ ep.res = "ok" /\ state' = "NORMAL" /\ ~ cbw_req_queued'
      /\ ~ bulk_reset_req' /\ xusb' /\ bulk.out_ignore = FALSE
      /\ UNCHANGED <<host, cmd, tag, lun_idx>>
      /\ ep'.res = "ok" => Agreeing'
      /\ bulk'.out_ignore = FALSE => Undisturbed'
  BY <1>1, LoopFrame DEF LoopPcs
<1>3. Settled /\ Owes(cmd.size) /\ usb_amount_left = cmd.size /\ ~ short_packet_received
  BY <1>1 DEF TalkInv, Phases, AtVerify
<1>4. ep' = ep
  <2>1. Overwritten(ep, bulk.in_buf) = ep
    BY <1>3, OverwrittenSettled DEF Settled, Line, TalkInv, IInv, TypeOK, TypeEndpoint
  <2>2. CASE VerifyChunk
    <3>1. PICK how \in Outcomes :
            /\ StorageAccess("verify", VerifyAmount, how)
            /\ ep' = Scratched(Overwritten(ep, bulk.in_buf), how)
      BY <2>2 DEF VerifyChunk
    <3> QED
      BY <2>1, <3>1, AccessOrderly
  <2> QED
    BY <2>2 DEF VerifyPastEnd
<1>5. CASE VerifyReturn
  <2>1. pc' = "parsed" /\ Reply(0) /\ 0 \in Nat
    BY <1>5 DEF VerifyReturn, Return
  <2> QED
    BY <1>1, <1>2, <1>3, <1>4, <2>1, RepliedTalk DEF cmdVars
<1>6. CASE pc' = pc /\ bulk' = bulk
  <2>1. AtVerify'
    BY <1>1, <1>2, <1>3, <1>4 DEF AtVerify, Settled, Line, Owes
  <2> QED
    BY <1>1, <1>2, <1>4, <1>6, <2>1, EnterServing DEF Serving, Pcs, AtParse, AtReply, AtRead,
       AtWrite, AtAnswer, ReadPcs, WritePcs
<1> QED
  BY <1>5, <1>6 DEF VerifyChunk, VerifyPastEnd

\* The loops keep to the phases.
LEMMA TransferTalk ==
  ASSUME TalkInv, Transfer
  PROVE  Undisturbed' /\ Phases'
<1>1. ~ ReadPastEnd
  BY ReadInside, ReadAmountType DEF ReadPastEnd, TalkInv
<1>2. ~ WriteCommFailure
  BY WriteWaited DEF WriteCommFailure
<1> QED
  BY <1>1, <1>2, ReadChunkTalk, ReadAccountTalk, WriteRequestTalk, WriteEndTalk, WriteStepTalk,
     VerifyTalk DEF Transfer

-----------------------------------------------------------------------------
(* The rest of the data phase, and the status.                             *)

\* What a step that answers a command finds, and leaves alone.
LEMMA ReplyFrameTalk ==
  ASSUME TalkInv, replyUnchanged, UNCHANGED bulk_reset_req, bulk'.out_ignore = bulk.out_ignore,
         pc \in Serving
  PROVE  /\ Agreeing /\ ep.res = "ok" /\ state = "NORMAL" /\ ~ cbw_req_queued'
         /\ UNCHANGED <<host, cmd, tag, lun_idx, residue, short_packet_received>>
         /\ DataDir' = DataDir
         /\ ep'.res = "ok" => Agreeing'
         /\ Undisturbed'
<1>1. /\ Agreeing /\ Undisturbed /\ state = "NORMAL" /\ ~ cbw_req_queued /\ pc # "exit"
  BY DEF TalkInv, Phases, Serving
<1>2. /\ UNCHANGED <<host, cmd, tag, lun_idx, residue, short_packet_received, cbw_req_queued, xusb>>
      /\ DataDir' = DataDir
  BY DEF replyUnchanged, cmdVars, cbwVars, DataDir
<1>3. Undisturbed'
  <2>1. bulk.out_ignore = FALSE
    BY <1>1 DEF TalkInv, Undisturbed, IInv, TypeOK, TypeAmounts
  <2>2. bulk'.out_ignore = FALSE
    BY <2>1
  <2> QED
    BY <1>1, <1>2, <2>2 DEF Undisturbed
<1> QED
  BY <1>1, <1>2, <1>3 DEF Agreeing

\* The steps of a reply that queue nothing.
LEMMA ParsedTalk ==
  ASSUME TalkInv, Parsed
  PROVE  Undisturbed' /\ Phases'
<1>1. pc = "parsed" /\ pc \in Serving /\ replyUnchanged /\ UNCHANGED <<usb_amount_left, bulk, io, ep>>
  BY DEF Parsed, Serving, Pcs, OutWaits, InWaits
<1>2. state = "NORMAL" /\ ~ bulk_reset_req
  BY <1>1 DEF TalkInv, Undisturbed, Phases, Serving
<1>3. state' = "NORMAL" /\ UNCHANGED bulk_reset_req /\ pc' = "reply"
  BY <1>2 DEF Parsed, HandleEp0, TalkInv, IInv, TypeOK, TypeControl
<1>4. /\ Agreeing /\ ep.res = "ok" /\ ~ cbw_req_queued'
      /\ UNCHANGED <<host, cmd, tag, lun_idx, residue, short_packet_received>>
      /\ DataDir' = DataDir /\ Agreeing' /\ Undisturbed'
  BY <1>1, <1>3, ReplyFrameTalk
<1>5. AtReply'
  BY <1>1, <1>3, <1>4 DEF TalkInv, Phases, AtReply, Settled, Line, Owes
<1> QED
  BY <1>3, <1>4, <1>5, EnterServing DEF Serving, Pcs, AtParse, AtRead, AtWrite, AtVerify, AtAnswer,
     ReadPcs, WritePcs

\* The data phase is over: to the status.
LEMMA StatusNextTalk ==
  ASSUME TalkInv, replyUnchanged, UNCHANGED excVars, Continue("status"), UNCHANGED ep,
         bulk'.out_ignore = bulk.out_ignore, pc \in Serving, Settled, Owes(0)
  PROVE  Undisturbed' /\ Phases'
<1>1. UNCHANGED <<state, bulk_reset_req>>
  BY DEF excVars
<1>2. /\ Agreeing /\ ep.res = "ok" /\ state = "NORMAL" /\ ~ cbw_req_queued'
      /\ UNCHANGED host /\ Agreeing' /\ Undisturbed'
  BY <1>1, ReplyFrameTalk
<1>3. pc' = "status" /\ state' = "NORMAL"
  BY <1>1, <1>2 DEF Continue
<1>4. AtAnswer'
  BY <1>2, <1>3 DEF AtAnswer, Settled, Line, Owes
<1> QED
  BY <1>2, <1>3, <1>4, EnterServing DEF Serving, Pcs, AtParse, AtReply, AtRead, AtWrite, AtVerify,
     ReadPcs, WritePcs, InWaits, OutWaits

\* Nothing to send, or nothing left to be sent.
LEMMA ReplyDoneTalk ==
  ASSUME TalkInv, ReplyNone \/ ReplySent \/ ThrownAway
  PROVE  Undisturbed' /\ Phases'
<1> USE DEF TalkInv
<1>1. /\ replyUnchanged /\ UNCHANGED excVars /\ Continue("status") /\ UNCHANGED ep
      /\ pc \in {"reply", "send_wait", "pad", "throw_wait"} /\ pc \in Serving
  BY DEF ReplyNone, ReplySent, ThrownAway, Serving, Pcs, OutWaits, InWaits
<1>2. bulk'.out_ignore = bulk.out_ignore
  BY DEF ReplyNone, ReplySent, ThrownAway, IInv, TypeOK, TypeAmounts
<1>3. ep.res = "ok"
  BY <1>1 DEF Phases, Agreeing
<1>4. CASE ReplyNone
  <2>1. DataDir = "none" => Settled /\ Owes(0)
    BY <1>4 DEF ReplyNone, Phases, AtReply
  <2>2. DataDir = "out" => Settled /\ Owes(0)
    <3>1. usb_amount_left \in Nat /\ residue \in Nat
      BY DEF IInv, TypeOK, TypeAmounts
    <3>2. DataDir = "out" => /\ Settled /\ Owes(usb_amount_left) /\ usb_amount_left <= residue
                             /\ residue = 0 \/ usb_amount_left = 0
      BY <1>4 DEF ReplyNone, Drained, Phases, AtReply
    <3> QED
      BY <3>1, <3>2
  <2> QED
    BY <1>1, <1>2, <1>4, <2>1, <2>2, StatusNextTalk DEF ReplyNone
<1>5. CASE ReplySent
  <2>1. CASE pc = "pad" /\ usb_amount_left = 0
    BY <1>1, <1>2, <2>1, StatusNextTalk DEF Phases, AtAnswer
  <2>2. CASE pc = "send_wait" /\ WaitEnded
    <3>1. Settled /\ Owes(0)
      BY <1>3, <2>2, TransmitOver DEF Phases, AtAnswer, InWaits
    <3> QED
      BY <1>1, <1>2, <3>1, StatusNextTalk
  <2> QED
    BY <1>5, <2>1, <2>2 DEF ReplySent
<1>6. CASE ThrownAway
  <2>1. Settled /\ Owes(0)
    BY <1>3, <1>6, ReceiveOver DEF ThrownAway, Phases, AtAnswer, OutWaits
  <2> QED
    BY <1>1, <1>2, <2>1, StatusNextTalk
<1> QED
  BY <1>4, <1>5, <1>6

\* The last buffer is sent, or the first to be padded is left to _pad_with_zeros.
LEMMA ReplyInTalk ==
  ASSUME TalkInv, ReplyLast \/ ReplyPad
  PROVE  Undisturbed' /\ Phases'
<1> USE DEF TalkInv
<1>1. /\ replyUnchanged /\ UNCHANGED <<excVars, bulk>> /\ pc = "reply" /\ pc \in Serving
      /\ DataDir = "in"
  BY DEF ReplyLast, ReplyPad, Serving, Pcs, OutWaits, InWaits
<1>2. UNCHANGED <<state, bulk_reset_req>>
  BY <1>1 DEF excVars
<1>3. /\ Agreeing /\ ep.res = "ok" /\ state = "NORMAL" /\ ~ cbw_req_queued'
      /\ UNCHANGED <<host, cmd, tag, lun_idx, residue>> /\ DataDir' = DataDir
      /\ ep'.res = "ok" => Agreeing'
      /\ Undisturbed'
  BY <1>1, <1>2, ReplyFrameTalk
<1>4. /\ Settled /\ bulk.in_length + residue > 0 /\ Owes(bulk.in_length + residue)
  BY <1>1 DEF Phases, AtReply
<1>5. bulk.in_length \in Nat /\ residue \in Nat /\ ep \in EpType
  BY SizesAssumption DEF IInv, TypeOK, TypeAmounts, TypeEndpoint
<1>6. CASE ReplyLast
  <2>1. residue = 0 /\ ep' = InWrite(ep, bulk.in_buf, bulk.in_length, "data") /\ pc' = "send_wait"
    BY <1>6 DEF ReplyLast
  <2>2. /\ Line(ep', <<[buf |-> bulk.in_buf, len |-> bulk.in_length, kind |-> "data",
                        tag |-> tag]>>, <<>>, <<>>)
        /\ ep'.in_count = 1 /\ ep'.res = "ok"
    BY <1>4, <1>5, <2>1, InWriteLine DEF Settled
  <2>3. Sending([buf |-> bulk.in_buf, len |-> bulk.in_length, kind |-> "data", tag |-> tag])'
    BY <1>1, <1>3, <2>2 DEF Sending
  <2>4. 0 + bulk.in_length = bulk.in_length + residue /\ bulk.in_length > 0
    BY <1>4, <1>5, <2>1
  <2>5. Owes(0 + bulk.in_length)'
    BY <1>1, <1>3, <1>4, <2>4 DEF Owes
  <2>6. Transmitting(bulk.in_buf, bulk.in_length, 0)'
    BY <1>1, <2>3, <2>4, <2>5 DEF Transmitting
  <2>7. AtAnswer'
    BY <1>1, <1>3, <2>1, <2>6 DEF AtAnswer
  <2> QED
    BY <1>2, <1>3, <2>1, <2>2, <2>7, EnterServing DEF Serving, Pcs, AtParse, AtReply, AtRead,
       AtWrite, AtVerify, ReadPcs, WritePcs, InWaits, OutWaits
<1>7. CASE ReplyPad
  <2>1. usb_amount_left' = bulk.in_length + residue /\ pc' = "pad" /\ ep' = ep
    BY <1>7 DEF ReplyPad, PadTotal
  <2>2. AtAnswer'
    BY <1>1, <1>3, <1>4, <2>1 DEF AtAnswer, Settled, Line, Owes
  <2> QED
    BY <1>2, <1>3, <2>1, <2>2, EnterServing DEF Serving, Pcs, AtParse, AtReply, AtRead,
       AtWrite, AtVerify, ReadPcs, WritePcs, InWaits, OutWaits
<1> QED
  BY <1>6, <1>7

\* The endpoint takes whole packets at most.
LEMMA EpMaxPackets ==
  ASSUME PacketsFit
  PROVE  EpMax % MaxPacket = 0
<1>1. EpMax \in Nat /\ BlkLen \in Nat \ {0} /\ EpMax % BlkLen = 0
  BY SizesAssumption
<1>2. PICK k \in Nat : EpMax = k * BlkLen
  BY <1>1, QuotientRest
<1> QED
  BY <1>2, MultipleOfPackets

\* A piece of the padding is as long as the endpoint allows, or the last.
LEMMA PadSendTalk ==
  ASSUME TalkInv, PadSend
  PROVE  Undisturbed' /\ Phases'
<1> USE DEF TalkInv
<1> DEFINE len == PadLen
<1>1. /\ replyUnchanged /\ UNCHANGED excVars /\ pc = "pad" /\ pc \in Serving
      /\ bulk' = [bulk EXCEPT !.in_length = len] /\ usb_amount_left' = usb_amount_left - len
      /\ usb_amount_left > 0 /\ pc' = "pad_wait"
  BY DEF PadSend, Serving, Pcs, OutWaits, InWaits
<1>2. UNCHANGED <<state, bulk_reset_req>>
  BY <1>1 DEF excVars
<1>3. /\ bulk'.out_ignore = bulk.out_ignore /\ bulk'.in_length = len /\ bulk'.in_buf = bulk.in_buf
  BY <1>1 DEF IInv, TypeOK, TypeAmounts
<1>4. /\ Agreeing /\ ep.res = "ok" /\ state = "NORMAL" /\ ~ cbw_req_queued'
      /\ UNCHANGED <<host, cmd, tag, lun_idx>> /\ DataDir' = DataDir
      /\ ep'.res = "ok" => Agreeing'
      /\ Undisturbed'
  BY <1>1, <1>2, <1>3, ReplyFrameTalk
<1>5. Settled /\ Owes(usb_amount_left) /\ DataDir = "in"
  BY <1>1 DEF Phases, AtAnswer
<1>6. ep \in EpType /\ usb_amount_left \in Nat /\ EpMax \in Nat \ {0}
  BY SizesAssumption DEF IInv, TypeOK, TypeAmounts, TypeEndpoint
<1>7. len \in Nat /\ len > 0 /\ usb_amount_left - len \in Nat
      /\ (usb_amount_left - len = 0 \/ len = EpMax)
  BY <1>1, <1>6 DEF PadLen, MinOf
<1> HIDE DEF len
<1>8. ep' = InWrite(ep, bulk.in_buf, len, "data")
  <2>1. Overwritten(ep, bulk.in_buf) = ep
    BY <1>5, <1>6, OverwrittenSettled DEF Settled, Line
  <2> QED
    BY <2>1 DEF PadSend, len
<1>9. /\ Line(ep', <<[buf |-> bulk.in_buf, len |-> len, kind |-> "data", tag |-> tag]>>, <<>>, <<>>)
      /\ ep'.in_count = 1 /\ ep'.res = "ok"
  BY <1>5, <1>6, <1>8, InWriteLine DEF Settled
<1>10. Sending([buf |-> bulk.in_buf, len |-> bulk.in_length, kind |-> "data", tag |-> tag])'
  BY <1>3, <1>4, <1>9 DEF Sending
<1>11. usb_amount_left' + bulk'.in_length = usb_amount_left
  BY <1>1, <1>3, <1>6, <1>7
<1>12. Owes(usb_amount_left + bulk.in_length)'
  BY <1>4, <1>5, <1>11 DEF Owes
<1>13. usb_amount_left' = 0 \/ bulk'.in_length % MaxPacket = 0
  BY <1>1, <1>3, <1>7, EpMaxPackets DEF Talking
<1>14. Transmitting(bulk.in_buf, bulk.in_length, usb_amount_left)'
  BY <1>3, <1>7, <1>10, <1>12, <1>13 DEF Transmitting
<1>15. AtAnswer'
  BY <1>1, <1>4, <1>5, <1>14 DEF AtAnswer
<1> QED
  BY <1>1, <1>2, <1>4, <1>9, <1>15, EnterServing DEF Serving, Pcs, AtParse, AtReply, AtRead,
     AtWrite, AtVerify, ReadPcs, WritePcs, InWaits, OutWaits

\* The next piece follows when the last is gone.
LEMMA PadNextTalk ==
  ASSUME TalkInv, PadNext
  PROVE  Undisturbed' /\ Phases'
<1> USE DEF TalkInv
<1>1. /\ replyUnchanged /\ UNCHANGED <<excVars, usb_amount_left, bulk, ep>>
      /\ pc = "pad_wait" /\ WaitEnded /\ pc \in Serving /\ pc' = "pad"
  BY DEF PadNext, Serving, Pcs, OutWaits, InWaits
<1>2. UNCHANGED <<state, bulk_reset_req>>
  BY <1>1 DEF excVars
<1>3. /\ Agreeing /\ ep.res = "ok" /\ state = "NORMAL" /\ ~ cbw_req_queued'
      /\ UNCHANGED <<host, cmd, tag, lun_idx>> /\ DataDir' = DataDir
      /\ Agreeing' /\ Undisturbed'
  BY <1>1, <1>2, ReplyFrameTalk
<1>4. DataDir = "in" /\ Transmitting(bulk.in_buf, bulk.in_length, usb_amount_left)
  BY <1>1 DEF Phases, AtAnswer
<1>5. Settled /\ Owes(usb_amount_left)
  BY <1>1, <1>3, <1>4, TransmitOver DEF InWaits
<1>6. AtAnswer'
  BY <1>1, <1>3, <1>4, <1>5 DEF AtAnswer, Settled, Line, Owes
<1> QED
  BY <1>1, <1>2, <1>3, <1>6, EnterServing DEF Serving, Pcs, AtParse, AtReply, AtRead,
     AtWrite, AtVerify, ReadPcs, WritePcs, InWaits, OutWaits

\* The host never ends its data early.
LEMMA NotShort == TalkInv => ~ ReplyShort
BY DEF TalkInv, ReplyShort, Phases, AtReply

\* What the host still sends fits one request.
LEMMA ThrowAwayTalk ==
  ASSUME TalkInv, ThrowAway
  PROVE  Undisturbed' /\ Phases'
<1> USE DEF TalkInv
<1> DEFINE len == MinOf(usb_amount_left, EpMax)
<1>1. /\ replyUnchanged /\ UNCHANGED excVars /\ pc = "reply" /\ pc \in Serving
      /\ bulk' = [bulk EXCEPT !.out_length = len] /\ usb_amount_left' = usb_amount_left - len
      /\ ep' = OutRead(ep, len) /\ DataDir = "out"
      /\ usb_amount_left > 0 /\ pc' = "throw_wait"
  BY DEF ThrowAway, Serving, Pcs, OutWaits, InWaits
<1>2. UNCHANGED <<state, bulk_reset_req>>
  BY <1>1 DEF excVars
<1>3. /\ Settled /\ Owes(usb_amount_left) /\ usb_amount_left <= EpMax
  BY <1>1 DEF Phases, AtReply
<1>4. ep \in EpType /\ usb_amount_left \in Nat /\ EpMax \in Nat \ {0}
  BY SizesAssumption DEF IInv, TypeOK, TypeAmounts, TypeEndpoint
<1>5. len = usb_amount_left
  BY <1>3, <1>4 DEF MinOf
<1> HIDE DEF len
<1>6. /\ bulk'.out_ignore = bulk.out_ignore /\ bulk'.out_length = usb_amount_left
  BY <1>1, <1>5 DEF IInv, TypeOK, TypeAmounts
<1>7. /\ Agreeing /\ ep.res = "ok" /\ state = "NORMAL" /\ ~ cbw_req_queued'
      /\ UNCHANGED <<host, cmd, tag, lun_idx>> /\ DataDir' = DataDir
      /\ ep'.res = "ok" => Agreeing'
      /\ Undisturbed'
  BY <1>1, <1>2, <1>6, ReplyFrameTalk
<1>8. /\ Line(ep', <<>>, <<[len |-> usb_amount_left]>>, <<>>)
      /\ ep'.out_count = 1 /\ ep'.out_bytes = usb_amount_left /\ ep'.res = "ok"
  BY <1>1, <1>3, <1>4, <1>5, OutReadLine DEF Settled
<1>9. Asked(bulk.out_length)' /\ Owes(0 + bulk.out_length)'
  <2>1. 0 + bulk'.out_length = usb_amount_left
    BY <1>4, <1>6
  <2> QED
    BY <1>3, <1>6, <1>7, <1>8, <2>1 DEF Asked, Owes
<1>10. Receiving(0)'
  BY <1>1, <1>6, <1>9 DEF Receiving
<1>11. AtAnswer'
  BY <1>1, <1>7, <1>10 DEF AtAnswer
<1> QED
  BY <1>1, <1>2, <1>7, <1>8, <1>11, EnterServing DEF Serving, Pcs, AtParse, AtReply, AtRead,
     AtWrite, AtVerify, ReadPcs, WritePcs, InWaits, OutWaits

\* The status follows the whole data phase, and the next command the status.
LEMMA StatusTalk ==
  ASSUME TalkInv, SendStatus \/ StatusSent
  PROVE  Undisturbed' /\ Phases'
<1> USE DEF TalkInv
<1>1. /\ UNCHANGED <<state, bulk_reset_req, cbw_req_queued, xusb, host, tag>>
      /\ pc \in {"status", "csw_wait"} /\ bulk'.out_ignore = bulk.out_ignore
  BY DEF SendStatus, StatusSent, replyUnchanged, excVars, cbwVars, cmdVars, IInv, TypeOK, TypeAmounts
<1>2. state = "NORMAL" /\ ~ cbw_req_queued /\ Undisturbed
  BY <1>1 DEF Phases, Serving, Pcs
<1>3. Undisturbed'
  <2>1. bulk.out_ignore = FALSE
    BY <1>2 DEF Undisturbed, IInv, TypeOK, TypeAmounts
  <2>2. bulk'.out_ignore = FALSE
    BY <1>1, <2>1
  <2> QED
    BY <1>1, <1>2, <2>2 DEF Undisturbed
<1>4. CASE SendStatus
  <2>1. /\ Settled /\ Owes(0) /\ tag = host.tag /\ pc = "status" /\ pc' = "csw_wait"
    BY <1>4 DEF SendStatus, Phases, AtAnswer, Serving, Pcs, Agreeing
  <2>2. ep \in EpType /\ bulk.in_buf \in Bufs /\ CswLen \in 0 .. EpMax /\ tag \in {0, 1}
    BY SizesAssumption DEF IInv, TypeOK, TypeEndpoint, TypeAmounts, TypeCommand
  <2>3. ep' = InWrite(ep, bulk.in_buf, CswLen, "csw")
    BY <1>4, <2>1, <2>2, OverwrittenSettled DEF SendStatus, Settled, Line
  <2> DEFINE t == [buf |-> bulk.in_buf, len |-> CswLen, kind |-> "csw", tag |-> tag]
  <2>4. /\ Line(ep', <<t>>, <<>>, <<>>) /\ ep'.in_count = 1 /\ ep'.res = "ok"
    BY <2>1, <2>2, <2>3, InWriteLine DEF Settled
  <2>5. PICK s \in InTrb : s = t
    BY <2>2 DEF InTrb
  <2>6. s.kind = "csw" /\ s.tag = host.tag
    BY <2>1, <2>5
  <2> HIDE DEF t
  <2>7. Sending(s)'
    BY <2>4, <2>5 DEF Sending
  <2>8. Owes(0)'
    BY <1>1, <2>1 DEF Owes
  <2>9. AtStatus'
    BY <1>1, <2>4, <2>6, <2>7, <2>8 DEF AtStatus
  <2> QED
    BY <1>1, <1>2, <1>3, <2>1, <2>9 DEF Phases, Serving, AtParse, AtReply, AtRead, AtWrite, AtVerify,
       AtAnswer, ReadPcs, WritePcs
<1>5. CASE StatusSent
  <2>1. pc = "csw_wait" /\ WaitEnded /\ pc' = "top" /\ ep' = ep
    BY <1>5 DEF StatusSent
  <2>2. ep.res = "ok" /\ Over /\ Free
    <3>1. ep.res = "ok" /\ AtStatus
      BY <2>1 DEF Phases, AtStatus
    <3>2. ep.in_count = 0
      BY <2>1, <3>1 DEF WaitEnded, Count, OutWaits
    <3>3. (Sent \/ Over) /\ Free
      <4>1. \A t : ~ Sending(t)
        BY <3>2 DEF Sending
      <4> QED
        BY <2>1, <3>1, <4>1 DEF AtStatus
    <3> QED
      BY <3>1, <3>2, <3>3 DEF Sent
  <2>3. Listening'
    BY <1>1, <1>2, <2>1, <2>2 DEF Listening, Over, Settled, Line, Free
  <2> QED
    BY <1>3, <2>1, <2>3, EnterListening
<1> QED
  BY <1>4, <1>5

-----------------------------------------------------------------------------
(* The conversation as a whole.                                            *)

\* It starts between commands, with nothing queued.
LEMMA TalkInit == Talking /\ Init => TalkInv
<1> SUFFICES ASSUME Talking, Init PROVE Undisturbed /\ Phases
  BY InitInv DEF TalkInv
<1>1. Settled /\ Free /\ ep.res = "ok" /\ pc = "top" /\ state = "NORMAL" /\ ~ cbw_req_queued
  BY DEF Init, Settled, Line, Free
<1>2. Undisturbed
  BY DEF Init, Undisturbed
<1> QED
  BY <1>1, <1>2 DEF Phases, Listening, Serving, AtParse, AtReply, AtRead, AtWrite, AtVerify,
     AtAnswer, AtStatus, ReadPcs, WritePcs

\* A step that changes nothing keeps the phases.
LEMMA StutterTalk ==
  ASSUME TalkInv, UNCHANGED vars
  PROVE  Undisturbed' /\ Phases'
BY DEF TalkInv, vars, excVars, cmdVars, acctVars, cbwVars, Undisturbed, Phases, Listening,
   Agreeing, AtParse, AtReply, AtRead, AtWrite, AtVerify, AtAnswer, AtStatus, Receiving,
   Transmitting, Asked, Came, Got, Sending, Sent, Over, Settled, Line, Owes, Free, Wrapper,
   DataDir, Num

\* Every step keeps them.
LEMMA TalkStep == TalkInv /\ [Next]_vars => TalkInv'
<1> SUFFICES ASSUME TalkInv, [Next]_vars PROVE Undisturbed' /\ Phases'
  BY StepInv DEF TalkInv, Talking, Orderly, PacketsFit, Answerable
<1>1. CASE pc # "exit" /\ (EpEvent \/ EpTimeout \/ EpDisabled \/ Hardware)
  BY <1>1, EndpointTalk DEF Operation
<1>2. CASE GetCommand \/ ReceiveCommand
  BY <1>2, GetCommandTalk, ReceiveTalk
<1>3. CASE Parse
  BY <1>3, ParseReplyTalk, ParseTransferTalk DEF Parse
<1>4. CASE Transfer
  BY <1>4, TransferTalk
<1>5. CASE FinishReply \/ SendStatus \/ StatusSent
  BY <1>5, ParsedTalk, ReplyDoneTalk, ReplyInTalk, PadSendTalk, PadNextTalk, NotShort,
     ThrowAwayTalk, StatusTalk DEF FinishReply
<1>6. CASE HandleException \/ ComboExit
  BY <1>6, ExceptionTalk
<1>7. CASE WriteSpin \/ Done \/ UNCHANGED vars
  BY <1>7, StutterTalk DEF WriteSpin, Done
<1> QED
  BY <1>1, <1>2, <1>3, <1>4, <1>5, <1>6, <1>7 DEF Next, Thread

\* A queue that is empty or holds one element is at most one long.
LEMMA AtMostOne ==
  ASSUME NEW x, NEW s, s = <<>> \/ s = <<x>>
  PROVE  Len(s) <= 1
<1> DEFINE n == Len(s)
<1>1. Len(<<>>) = 0 /\ Len(<<x>>) = 1
  OBVIOUS
<1>2. n = 0 \/ n = 1
  BY <1>1, Zenon
<1> HIDE DEF n
<1>3. n <= 1
  BY <1>2
<1> QED
  BY <1>3 DEF n

\* One transfer or one request is queued at a time.
LEMMA Queues ==
  ASSUME TalkInv
  PROVE  \/ ep.in = <<>> /\ Len(ep.out) <= 1 /\ (pc = "read_done" => ep.out = <<>>)
         \/ ep.out = <<>> /\ \E t \in InTrb : ep.in = <<t>> /\ t.kind # "junk"
<1> USE DEF TalkInv
<1>1. Len(<<>>) = 0
  OBVIOUS
<1>2. CASE pc \in {"top", "cbw"}
  <2>1. ep.in = <<>> /\ (ep.out = <<>> \/ ep.out = <<[len |-> CbwLen]>>)
    BY <1>2 DEF Phases, Listening, Settled, Asked, Came, Got, Line
  <2>2. Len(ep.out) <= 1
    BY <2>1, AtMostOne
  <2> QED
    BY <1>2, <2>1, <2>2
<1>3. CASE pc \in {"parse", "parsed", "reply", "read_done", "wr", "vf", "pad", "status"}
             \/ (pc = "rd" /\ io.first)
  BY <1>1, <1>3, WorkIsQuiet DEF Quiet, Settled, Line
<1>4. ASSUME NEW buf, NEW len, NEW rest, Transmitting(buf, len, rest), pc # "read_done"
      PROVE  \/ ep.in = <<>> /\ Len(ep.out) <= 1 /\ (pc = "read_done" => ep.out = <<>>)
             \/ ep.out = <<>> /\ \E t \in InTrb : ep.in = <<t>> /\ t.kind # "junk"
  <2> DEFINE t == [buf |-> buf, len |-> len, kind |-> "data", tag |-> tag]
  <2>1. CASE Sending(t)
    <3>1. ep.in = <<t>> /\ ep.out = <<>> /\ t.kind # "junk"
      BY <2>1 DEF Sending, Line
    <3> HIDE DEF t
    <3>2. ep.in \in Seq(InTrb)
      BY DEF IInv, TypeOK, TypeEndpoint, EpType
    <3>3. 1 \in DOMAIN ep.in /\ ep.in[1] = t
      BY <3>1, Singles
    <3>4. t \in InTrb
      BY <3>2, <3>3
    <3> QED
      BY <3>1, <3>4
  <2>2. CASE ep.in = <<>> /\ ep.out = <<>>
    BY <1>1, <2>2
  <2> QED
    BY <1>4, <2>1, <2>2 DEF Transmitting, Sent, Over, Settled, Line
<1>5. CASE pc = "read_wait" \/ (pc = "rd" /\ ~ io.first)
  <2>1. PICK len \in 1 .. EpMax : Transmitting(OtherBuf(io.cur), len, residue)
    BY <1>5 DEF Phases, AtRead, ReadPcs
  <2> QED
    BY <1>4, <1>5, <2>1
<1>6. CASE pc \in {"send_wait", "pad_wait"}
  <2>1. \E rest : Transmitting(bulk.in_buf, bulk.in_length, rest)
    BY <1>6 DEF Phases, AtAnswer
  <2> QED
    BY <1>4, <1>6, <2>1
<1>7. CASE pc \in {"write_wait", "throw_wait"}
  <2>1. \E rest : Receiving(rest)
    BY <1>7 DEF Phases, AtWrite, AtAnswer, WritePcs
  <2>2. ep.in = <<>> /\ (ep.out = <<>> \/ ep.out = <<[len |-> bulk.out_length]>>)
    BY <2>1 DEF Receiving, Asked, Came, Got, Settled, Line
  <2>3. Len(ep.out) <= 1
    BY <2>2, AtMostOne
  <2> QED
    BY <1>7, <2>2, <2>3
<1>8. CASE pc = "csw_wait"
  <2>1. CASE \E t \in InTrb : t.kind = "csw" /\ Sending(t)
    BY <2>1 DEF Sending, Line
  <2>2. CASE Sent \/ Over
    BY <1>1, <1>8, <2>2 DEF Sent, Over, Settled, Line
  <2> QED
    BY <1>8, <2>1, <2>2 DEF Phases, AtStatus
<1>9. CASE pc = "exit"
  BY <1>9 DEF Phases
<1> QED
  BY <1>2, <1>3, <1>5, <1>6, <1>7, <1>8, <1>9 DEF IInv, TypeOK, TypeControl, Pcs, OutWaits, InWaits

-----------------------------------------------------------------------------
(* The theorems: of a conversation in which nothing goes wrong.            *)

\* The phases follow each other, step by step, whatever commands the host sends.
THEOREM Conversation == Talking => (Spec => []TalkInv)
<1> SUFFICES ASSUME Talking PROVE Spec => []TalkInv
  OBVIOUS
<1>1. Init => TalkInv
  BY TalkInit
<1> QED
  BY <1>1, TalkStep, PTL DEF Spec

\* A request for a command wrapper or for data is queued only when none is: the
\* wait that timed out is taken up again, not repeated (_get_next_command).
THEOREM RequestsSingle == Talking => (Spec => []OneRequest)
<1> SUFFICES ASSUME Talking PROVE Spec => []OneRequest
  OBVIOUS
<1>1. TalkInv => OneRequest
  <2> SUFFICES ASSUME TalkInv PROVE OneRequest
    OBVIOUS
  <2>1. Len(<<>>) <= 1
    OBVIOUS
  <2> QED
    BY <2>1, Queues DEF OneRequest
<1> QED
  BY <1>1, Conversation, PTL

\* The buffers of _scsi_read are refilled only when what they held was sent, and
\* the reply and the status are written to a buffer that nothing is sent from.
THEOREM BuffersIntact == Talking => (Spec => []InFlightIntact)
<1> SUFFICES ASSUME Talking PROVE Spec => []InFlightIntact
  OBVIOUS
<1>1. TalkInv => InFlightIntact
  <2> SUFFICES ASSUME TalkInv, NEW i \in DOMAIN ep.in PROVE ep.in[i].kind # "junk"
    BY DEF InFlightIntact
  <2>1. CASE ep.in = <<>>
    BY <2>1
  <2>2. CASE \E t \in InTrb : ep.in = <<t>> /\ t.kind # "junk"
    <3>1. PICK t \in InTrb : ep.in = <<t>> /\ t.kind # "junk"
      BY <2>2
    <3>2. DOMAIN ep.in = {1} /\ ep.in[1] = t
      BY <3>1, Singles
    <3> QED
      BY <3>1, <3>2
  <2> QED
    BY <2>1, <2>2, Queues
<1> QED
  BY <1>1, Conversation, PTL

\* _scsi_read borrows the OUT buffer only while no packet of the host may come.
THEOREM BorrowingSafe == Talking => (Spec => []BorrowedBufferFree)
<1> SUFFICES ASSUME Talking PROVE Spec => []BorrowedBufferFree
  OBVIOUS
<1>1. TalkInv => BorrowedBufferFree
  <2> SUFFICES ASSUME TalkInv PROVE BorrowedBufferFree
    OBVIOUS
  <2>1. CASE ep.out = <<>>
    BY <2>1 DEF BorrowedBufferFree
  <2>2. CASE ep.in = <<>> /\ pc # "read_done"
    BY <2>2 DEF BorrowedBufferFree
  <2> QED
    BY <2>1, <2>2, Queues
<1> QED
  BY <1>1, Conversation, PTL

\* The host is given the data of its command and then its status, and nothing
\* else, whatever the sizes that wrapper and command announce.
THEOREM InSync == Talking => (Spec => []HostInSync)
<1> SUFFICES ASSUME Talking PROVE Spec => []HostInSync
  OBVIOUS
<1>1. TalkInv => HostInSync
  BY DEF TalkInv, Undisturbed, HostInSync
<1> QED
  BY <1>1, Conversation, PTL

\* The status is not queued before the host has moved all the data it announced:
\* a short reply was padded, unwanted data thrown away.
THEOREM StatusAfterData == Talking => (Spec => []DataPhaseOver)
<1> SUFFICES ASSUME Talking PROVE Spec => []DataPhaseOver
  OBVIOUS
<1>1. TalkInv => DataPhaseOver
  <2> SUFFICES ASSUME TalkInv, pc = "csw_wait" PROVE host.ph # "data"
    BY DEF DataPhaseOver
  <2>1. Owes(0) \/ Free
    BY DEF TalkInv, Phases, AtStatus
  <2> QED
    BY <2>1 DEF Owes, Free
<1> QED
  BY <1>1, Conversation, PTL

=============================================================================
