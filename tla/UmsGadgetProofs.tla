--------------------------- MODULE UmsGadgetProofs ---------------------------
(***************************************************************************)
(* The gadget keeps its types, stays inside the media it is allowed to     *)
(* touch and tells the truth in its status: the inductive invariant of the *)
(* main loop, its preservation action by action, and the theorems.         *)
(***************************************************************************)
EXTENDS XusbBulkProofs

-----------------------------------------------------------------------------
(* The inductive invariant.                                                *)

\* A command is being carried out or answered, or its answer is still owed
\* while the exception that cut it short is pending.
InCommand == pc \in Pcs \ {"top", "cbw", "exit"} \/ state = "ABORT_BULK_OUT"
Answered  == pc \in Pcs \ {"top", "cbw", "exit", "parse"} \/ state = "ABORT_BULK_OUT"
ReadPcs   == {"rd", "read_done", "read_wait"}
WritePcs  == {"wr", "write_wait"}
ReplyPcs  == {"parsed", "reply", "send_wait", "pad", "pad_wait", "throw_wait", "status",
              "csw_wait"}

InvUnit ==
  /\ InCommand => lun_idx \in Luns
  /\ state = "ABORT_BULK_OUT" => pc \in {"top", "exit"}

\* A transfer loop runs for a unit that is there, inside its sectors.
InvMedium ==
  pc \in ReadPcs \cup WritePcs \cup {"vf"} =>
    io.lba <= Num /\ ~ Lun.unmounted /\ ~ Lun.unit_attention_data

\* What _scsi_read still has to read it may still send.
InvRead ==
  /\ pc \in ReadPcs => cmd.op = "READ" /\ io.left * BlkLen <= residue
  /\ pc \in {"read_done", "read_wait"} =>
       /\ io.n <= io.left /\ io.lba + io.n <= Num
       /\ io.n * BlkLen <= EpMax

\* What _scsi_write has asked for covers what it still has to write.
InvWrite ==
  /\ pc \in WritePcs => /\ cmd.op = "WRITE" /\ ~ Ro[lun_idx]
                        /\ io.left <= residue /\ io.req <= usb_amount_left
  /\ pc = "wr" => io.req <= io.left
  /\ pc = "write_wait" => io.req + bulk.out_length <= io.left

Accounted == cmd.op \in {"READ", "WRITE"} => residue + moved = cmd.size

InvAccount ==
  /\ pc = "parse" => moved = 0
  /\ pc = "vf" => cmd.op = "VERIFY"
  /\ Answered => Accounted

\* The units of the whole sectors both sides agreed on.
Agreed == (data_size_from_cmnd \div BlkLen) * BlkLen

\* A transfer is over early only for a reason its status or its answer gives.
Finished ==
  cmd.op \in {"READ", "WRITE"} =>
    moved >= Agreed \/ short_packet_received \/ phase_error \/ Lun.sense_data # "NO_SENSE"

InvDone ==
  /\ pc \in ReadPcs => moved + io.left * BlkLen = Agreed
  /\ pc \in WritePcs => moved + io.left = data_size_from_cmnd
  /\ Answered /\ pc \notin ReadPcs \cup WritePcs => Finished

Loops == InvUnit /\ InvMedium /\ InvRead /\ InvWrite /\ InvAccount /\ InvDone

IInv == TypeOK /\ Loops /\ AccessAllowed /\ AllUnmountedExact

-----------------------------------------------------------------------------
(* Helpers of the actions.                                                 *)

\* The unit taken before the first command is none of the menu's.
LEMMA NoLunOutside == NoLun \notin Luns
BY SizesAssumption DEF NoLun, Luns

\* The smaller of two numbers.
LEMMA MinOfNat ==
  ASSUME NEW a \in Nat, NEW b \in Nat
  PROVE  MinOf(a, b) \in Nat /\ MinOf(a, b) <= a /\ MinOf(a, b) <= b
BY DEF MinOf

\* Multiplication by a natural number keeps the order.
LEMMA TimesMonotone ==
  ASSUME NEW a \in Nat, NEW b \in Nat, NEW c \in Nat, a <= b
  PROVE  a * c \in Nat /\ b * c \in Nat /\ a * c <= b * c
BY SMT

\* Whole sectors of an amount.
LEMMA WholeSectors ==
  ASSUME NEW a \in Nat
  PROVE  a \div BlkLen \in Nat /\ (a \div BlkLen) * BlkLen \in 0 .. a
<1>1. BlkLen \in Nat \ {0}
  BY SizesAssumption
<1>2. a \div BlkLen \in Nat /\ (a \div BlkLen) * BlkLen <= a
  BY <1>1, SMT
<1> QED
  BY <1>1, <1>2

\* An exception replaces a less important one only, and only a short packet
\* raises ABORT_BULK_OUT.
LEMMA RaiseType ==
  ASSUME state \in States, NEW new \in States
  PROVE  Raise(new) \in States /\ Raise(new) \in {state, new}
BY DEF Raise

\* A reset noted by the endpoint raises PROTOCOL_RESET, nothing else.
LEMMA HandleEp0Type ==
  ASSUME state \in States, bulk_reset_req \in BOOLEAN, HandleEp0
  PROVE  /\ state' \in States /\ bulk_reset_req' \in BOOLEAN
         /\ state' = "ABORT_BULK_OUT" => state = "ABORT_BULK_OUT"
<1>1. "PROTOCOL_RESET" \in States
  BY DEF States
<1>2. /\ Raise("PROTOCOL_RESET") \in States
      /\ Raise("PROTOCOL_RESET") \in {state, "PROTOCOL_RESET"}
  BY <1>1, RaiseType
<1> QED
  BY <1>2 DEF HandleEp0

\* The sense data of the unit in use is all SetSense changes.
LEMMA SetSenseType ==
  ASSUME TypeCommand, lun_idx \in Luns, NEW s \in Sense, NEW i \in Int, SetSense(s, i)
  PROVE  /\ luns' \in [Luns -> LunState]
         /\ luns'[lun_idx].sense_data = s
         /\ \A l \in Luns : /\ luns'[l].unmounted = luns[l].unmounted
                            /\ luns'[l].unit_attention_data = luns[l].unit_attention_data
BY DEF TypeCommand, SetSense, WithSense, LunState

\* Every unit is as ejected as before.
LEMMA SameEjected ==
  ASSUME AllUnmountedExact, UNCHANGED all_luns_unmounted,
         \A l \in Luns : luns'[l].unmounted = luns[l].unmounted
  PROVE  AllUnmountedExact'
BY DEF AllUnmountedExact

\* The locals of the transfer loops outside of them.
LEMMA NoIoType == NoIo \in IoType
BY DEF NoIo, IoType, Bufs

-----------------------------------------------------------------------------
(* Reception of commands and exceptions: no command is under way.          *)

\* Between commands Loops asks for nothing, unless an answer is still owed.
LEMMA IdleLoops ==
  ASSUME pc' \in {"top", "cbw", "exit"}, state' # "ABORT_BULK_OUT"
  PROVE  Loops'
BY DEF Loops, InvUnit, InvMedium, InvRead, InvWrite, InvAccount, InvDone, InCommand,
       Answered, ReadPcs, WritePcs

\* _get_next_command queues a request for a wrapper.
LEMMA GetCommandInv ==
  ASSUME IInv, GetCommand
  PROVE  IInv'
<1> USE DEF IInv, TypeOK
<1>1. /\ state' \in States /\ bulk_reset_req' \in BOOLEAN
      /\ state' # "ABORT_BULK_OUT"
  BY HandleEp0Type DEF GetCommand, TypeControl
<1>2. Loops'
  BY <1>1, IdleLoops DEF GetCommand
<1>3. TypeControl'
  BY <1>1 DEF TypeControl, GetCommand, Pcs, OutWaits, ejectVars, storageVars
<1>4. TypeCommand' /\ TypeHost'
  BY DEF TypeCommand, TypeHost, GetCommand, cmdVars, acctVars
<1>5. CbwLen \in 0 .. EpMax
  BY SizesAssumption
<1>6. TypeAmounts'
  BY <1>5 DEF TypeAmounts, GetCommand, acctVars, ghostVars
<1>7. TypeEndpoint'
  BY SizesAssumption, FinishType, OutReadType DEF TypeEndpoint, GetCommand, RequestCommand
<1>8. AccessAllowed' /\ AllUnmountedExact'
  BY DEF AccessAllowed, AllUnmountedExact, GetCommand, ghostVars, ejectVars
<1> QED
  BY <1>2, <1>3, <1>4, <1>6, <1>7, <1>8

\* The heuristics for a host that is gone.
LEMMA ReceivedType ==
  ASSUME TypeOK, state # "ABORT_BULK_OUT", Received
  PROVE  /\ state' \in States /\ state' # "ABORT_BULK_OUT"
         /\ timeouts' \in Nat
<1> USE DEF TypeOK, TypeControl
<1>1. "EXIT" \in States
  BY DEF States
<1>2. Raise("EXIT") \in States /\ Raise("EXIT") # "ABORT_BULK_OUT"
  BY <1>1, RaiseType
<1>3. \A asleep \in BOOLEAN : Penalty(asleep) \in Nat
  BY DEF Penalty
<1>4. CASE UNCHANGED <<timeouts, state>>
  BY <1>4
<1>5. CASE \E asleep \in Asleep :
            /\ timeouts' = timeouts + Penalty(asleep)
            /\ state' = IF timeouts' > 20 THEN Raise("EXIT") ELSE state
  <2>1. PICK asleep \in BOOLEAN : timeouts' = timeouts + Penalty(asleep)
    BY <1>5 DEF Asleep
  <2>2. timeouts' \in Nat
    BY <1>3, <2>1
  <2>3. state' \in {Raise("EXIT"), state}
    BY <1>5
  <2> QED
    BY <1>2, <2>2, <2>3
<1>6. state \in States /\ timeouts \in Nat
  OBVIOUS
<1> QED
  BY <1>4, <1>5, <1>6 DEF Received

\* A packet that is no meaningful command, or none at all.
LEMMA RejectInv ==
  ASSUME IInv, CbwDropped \/ CbwInvalid \/ CbwForeign
  PROVE  IInv'
<1> USE DEF IInv, TypeOK, CbwDropped, CbwInvalid, CbwForeign
<1>1. Received /\ pc' = "top" /\ state # "ABORT_BULK_OUT"
  BY DEF Received, Loops, InvUnit
<1>2. state' \in States /\ state' # "ABORT_BULK_OUT" /\ timeouts' \in Nat
  BY <1>1, ReceivedType
<1>3. Loops'
  BY <1>1, <1>2, IdleLoops
<1>4. TypeControl'
  BY <1>1, <1>2 DEF TypeControl, Received, Pcs, ejectVars, storageVars
<1>5. TypeCommand' /\ TypeHost' /\ TypeEndpoint'
  BY <1>1 DEF TypeCommand, TypeHost, TypeEndpoint, Received, cmdVars, acctVars
<1>6. TypeAmounts'
  BY <1>1 DEF TypeAmounts, Received, acctVars
<1>7. AccessAllowed' /\ AllUnmountedExact'
  BY <1>1 DEF AccessAllowed, AllUnmountedExact, Received, ejectVars
<1> QED
  BY <1>3, <1>4, <1>5, <1>6, <1>7

\* A meaningful wrapper starts a command of a unit of the menu.
LEMMA CbwAcceptInv ==
  ASSUME IInv, CbwAccept
  PROVE  IInv'
<1> USE DEF IInv, TypeOK
<1>1. state' \in States /\ state' # "ABORT_BULK_OUT" /\ timeouts' \in Nat
  <2>1. state \in States /\ state # "ABORT_BULK_OUT" /\ timeouts \in Nat
    BY DEF TypeControl, Loops, InvUnit, CbwAccept
  <2>2. "EXIT" \in States
    BY DEF States
  <2>3. Raise("EXIT") \in States /\ Raise("EXIT") # "ABORT_BULK_OUT"
    BY <2>1, <2>2, RaiseType
  <2> QED
    BY <2>1, <2>3 DEF CbwAccept
<1>2. pc' \in {"parse", "top"} /\ (pc' = "parse" => lun_idx' \in Luns /\ moved' = 0)
  BY DEF CbwAccept, Continue
<1>3. Loops'
  BY <1>1, <1>2 DEF Loops, InvUnit, InvMedium, InvRead, InvWrite, InvAccount, InvDone,
                    InCommand, Answered, ReadPcs, WritePcs
<1>4. emmc_part' \in 0 .. 2
  BY LunsAssumption DEF CbwAccept, SelectPartition, TypeControl
<1>5. TypeControl'
  BY <1>1, <1>2, <1>4 DEF TypeControl, CbwAccept, Pcs, ejectVars
<1>6. ep.rx.cbw \in Cbws /\ ep.rx.tag \in {0, 1}
  BY DEF CbwAccept, IsCbw, TypeEndpoint, EpType, Pkt, NoPkt, JunkPkt, DataPkt
<1>7. TypeCommand'
  BY <1>6 DEF TypeCommand, CbwAccept, acctVars
<1>8. TypeAmounts'
  BY DEF TypeAmounts, CbwAccept, acctVars, Access
<1>9. TypeEndpoint' /\ TypeHost' /\ AccessAllowed' /\ AllUnmountedExact'
  BY DEF TypeEndpoint, TypeHost, AccessAllowed, AllUnmountedExact, CbwAccept, ejectVars
<1> QED
  BY <1>3, <1>5, <1>7, <1>8, <1>9

\* The answer of a command whose data ended early is sent all the same.
LEMMA HandleAbortInv ==
  ASSUME IInv, HandleAbort
  PROVE  IInv'
<1> USE DEF IInv, TypeOK, HandleAbort, excUnchanged
<1>1. TypeControl'
  BY DEF TypeControl, Pcs, States, storageVars
<1>2. TypeCommand' /\ TypeAmounts'
  BY DEF TypeCommand, TypeAmounts, cmdVars, acctVars, ghostVars
<1>3. TypeEndpoint' /\ TypeHost' /\ AccessAllowed' /\ AllUnmountedExact'
  BY DEF TypeEndpoint, TypeHost, AccessAllowed, AllUnmountedExact, ghostVars
<1>4. InvUnit' /\ InvMedium' /\ InvRead' /\ InvWrite'
  BY DEF Loops, InvUnit, InvMedium, InvRead, InvWrite, InCommand, ReadPcs, WritePcs, cmdVars
<1>5. InvAccount' /\ InvDone'
  BY DEF Loops, InvAccount, InvDone, Accounted, Finished, Answered, Agreed, ReadPcs,
         WritePcs, Lun, cmdVars, acctVars,
         ghostVars
<1> QED
  BY <1>1, <1>2, <1>3, <1>4, <1>5 DEF Loops

\* A unit whose state is forgotten stays as ejected as it was.
LEMMA ForgottenType ==
  ASSUME TypeCommand, lun_idx # NoLun, NEW ua \in BOOLEAN,
         luns' = [luns EXCEPT ![lun_idx] = Forgotten(@, ua)]
  PROVE  /\ luns' \in [Luns -> LunState]
         /\ \A l \in Luns : luns'[l].unmounted = luns[l].unmounted
<1>1. lun_idx \in Luns /\ "NO_SENSE" \in Sense /\ NoInfo \in Int
  BY DEF TypeCommand, Sense, NoInfo
<1> QED
  BY <1>1 DEF TypeCommand, Forgotten, WithSense, LunState

\* A reset, and the exit, forget the state of the unit in use.
LEMMA HandleResetInv ==
  ASSUME IInv, HandleReset \/ HandleExit
  PROVE  IInv'
<1> USE DEF IInv, TypeOK, HandleReset, HandleExit, excUnchanged
<1>1. pc' \in {"top", "exit"} /\ state' \in {"NORMAL", "TERMINATED"}
  OBVIOUS
<1>2. Loops'
  BY <1>1, IdleLoops
<1>3. /\ exit_msg' = exit_msg \/ exit_msg' = "unsafe" \/ exit_msg' = "ejected"
      /\ timeouts' = timeouts \/ timeouts' = 0
      /\ xusb' = xusb \/ xusb' = FALSE
  BY DEF ExitMsg
<1>4. TypeControl'
  <2>1. UNCHANGED <<bulk_reset_req, all_luns_unmounted, cbw_req_queued, emmc_part, dead, faults>>
    BY DEF storageVars
  <2>2. exit_msg \in {"none", "ejected", "unsafe"} /\ timeouts \in Nat /\ xusb \in BOOLEAN
    BY DEF TypeControl
  <2>3. pc' \in Pcs /\ state' \in States
    BY <1>1 DEF Pcs, States
  <2>4. TypeControl
    OBVIOUS
  <2> HIDE DEF HandleReset, HandleExit, IInv, TypeOK, excUnchanged
  <2>5. exit_msg' \in {"none", "ejected", "unsafe"} /\ timeouts' \in Nat
    BY <1>3, <2>2
  <2>6. xusb' \in BOOLEAN
    BY <1>3, <2>2
  <2> QED
    BY <2>1, <2>3, <2>4, <2>5, <2>6 DEF TypeControl
<1>5. luns' \in [Luns -> LunState] /\ \A l \in Luns : luns'[l].unmounted = luns[l].unmounted
  BY ForgottenType DEF TypeCommand
<1>6. TypeCommand' /\ AllUnmountedExact'
  BY <1>5, SameEjected DEF TypeCommand, cmdVars, acctVars
<1>7. TypeAmounts'
  BY DEF TypeAmounts, acctVars, ghostVars
<1>8. TypeEndpoint' /\ TypeHost' /\ AccessAllowed'
  BY DEF TypeEndpoint, TypeHost, AccessAllowed, ghostVars
<1> QED
  BY <1>2, <1>4, <1>6, <1>7, <1>8

\* The volume buttons end the loop between commands.
LEMMA ComboExitInv ==
  ASSUME IInv, ComboExit
  PROVE  IInv'
<1> USE DEF IInv, TypeOK, ComboExit, excUnchanged
<1>1. exit_msg' \in {"unsafe", "ejected"}
  BY DEF ExitMsg
<1>2. TypeControl'
  BY <1>1 DEF TypeControl, Pcs, storageVars
<1>3. TypeCommand' /\ TypeAmounts'
  BY DEF TypeCommand, TypeAmounts, cmdVars, acctVars, ghostVars
<1>4. TypeEndpoint' /\ TypeHost' /\ AccessAllowed' /\ AllUnmountedExact'
  BY DEF TypeEndpoint, TypeHost, AccessAllowed, AllUnmountedExact, ghostVars
<1>5. InvUnit' /\ InvMedium' /\ InvRead' /\ InvWrite'
  BY DEF Loops, InvUnit, InvMedium, InvRead, InvWrite, InCommand, ReadPcs, WritePcs, cmdVars
<1>6. InvAccount' /\ InvDone'
  BY DEF Loops, InvAccount, InvDone, Accounted, Finished, Answered, Agreed, ReadPcs,
         WritePcs, Lun, cmdVars, acctVars,
         ghostVars
<1> QED
  BY <1>2, <1>3, <1>4, <1>5, <1>6 DEF Loops

-----------------------------------------------------------------------------
(* The answer: _finish_reply and _send_status.                             *)

\* What the answer leaves alone keeps the account of the command.
LEMMA ReplyLoops ==
  ASSUME IInv, replyUnchanged, pc \in ReplyPcs, pc' \in ReplyPcs \cup {"top"},
         state' = "ABORT_BULK_OUT" => pc' = "top"
  PROVE  Loops' /\ AccessAllowed' /\ AllUnmountedExact'
<1> USE DEF IInv, Loops, replyUnchanged, cmdVars, ghostVars, ReplyPcs, ReadPcs, WritePcs
<1>1. lun_idx \in Luns /\ Answered
  BY DEF InvUnit, InCommand, Answered, Pcs, OutWaits, InWaits
<1>2. InvUnit' /\ InvMedium' /\ InvRead' /\ InvWrite'
  BY <1>1 DEF InvUnit, InvMedium, InvRead, InvWrite
<1>3. InvAccount' /\ InvDone'
  BY <1>1 DEF InvAccount, InvDone, Accounted, Finished, Agreed, Lun
<1>4. AccessAllowed' /\ AllUnmountedExact'
  BY DEF AccessAllowed, AllUnmountedExact, ejectVars
<1> QED
  BY <1>2, <1>3, <1>4

\* And its types, those of the amounts and of the endpoint excepted.
LEMMA ReplyTypes ==
  ASSUME TypeOK, replyUnchanged, pc' \in ReplyPcs \cup {"top"},
         state' \in States, bulk_reset_req' \in BOOLEAN
  PROVE  TypeControl' /\ TypeCommand' /\ TypeHost'
<1> USE DEF TypeOK, replyUnchanged
<1>1. TypeControl'
  BY DEF TypeControl, ReplyPcs, Pcs, OutWaits, InWaits, ejectVars, cbwVars, storageVars
<1>2. TypeCommand' /\ TypeHost'
  BY DEF TypeCommand, TypeHost, cmdVars
<1> QED
  BY <1>1, <1>2

\* The steps of the answer that set up no transfer.
LEMMA ReplyStepInv ==
  ASSUME IInv, Parsed \/ ReplyNone \/ PadNext \/ ReplyShort \/ ThrownAway \/ StatusSent
  PROVE  IInv'
<1> USE DEF Parsed, ReplyNone, PadNext, ReplyShort, ThrownAway, StatusSent
<1>1. /\ replyUnchanged /\ pc \in ReplyPcs
      /\ UNCHANGED <<usb_amount_left, bulk, io, ep>>
  BY DEF ReplyPcs
<1>2. state \in States /\ bulk_reset_req \in BOOLEAN /\ state # "ABORT_BULK_OUT"
  BY <1>1 DEF IInv, TypeOK, TypeControl, Loops, InvUnit, ReplyPcs
<1>3. "ABORT_BULK_OUT" \in States
  BY DEF States
<1>4. state' \in States /\ bulk_reset_req' \in BOOLEAN
  BY <1>2, <1>3, HandleEp0Type, RaiseType DEF excVars
<1>5. pc' \in ReplyPcs \cup {"top"} /\ (state' = "ABORT_BULK_OUT" => pc' = "top")
  BY <1>2, HandleEp0Type DEF excVars, ReplyPcs, Continue
<1>6. TypeAmounts' /\ TypeEndpoint'
  BY <1>1 DEF IInv, TypeOK, TypeAmounts, TypeEndpoint, replyUnchanged, ghostVars
<1> HIDE DEF Parsed, ReplyNone, PadNext, ReplyShort, ThrownAway, StatusSent
<1> QED
  BY <1>1, <1>4, <1>5, <1>6, ReplyLoops, ReplyTypes DEF IInv, TypeOK

\* The steps that send or ask for data, or come back from it, while no
\* exception is raised.
LEMMA ReplyTransferFrame ==
  ASSUME IInv, ReplyLast \/ ReplyPad \/ PadSend \/ ReplySent \/ ThrowAway \/ SendStatus
  PROVE  /\ Loops' /\ AccessAllowed' /\ AllUnmountedExact'
         /\ TypeControl' /\ TypeCommand' /\ TypeHost'
<1> USE DEF ReplyLast, ReplyPad, PadSend, ReplySent, ThrowAway, SendStatus
<1>1. replyUnchanged /\ pc \in ReplyPcs
  BY DEF ReplyPcs
<1>2. state \in States /\ bulk_reset_req \in BOOLEAN /\ state # "ABORT_BULK_OUT"
  BY <1>1 DEF IInv, TypeOK, TypeControl, Loops, InvUnit, ReplyPcs
<1>3. UNCHANGED <<state, bulk_reset_req>> /\ pc' \in ReplyPcs \cup {"top"}
  BY DEF excVars, ReplyPcs, Continue
<1> HIDE DEF ReplyLast, ReplyPad, PadSend, ReplySent, ThrowAway, SendStatus
<1> QED
  BY <1>1, <1>2, <1>3, ReplyLoops, ReplyTypes DEF IInv

\* The last buffer of a reply is sent.
LEMMA ReplyLastInv ==
  ASSUME IInv, ReplyLast
  PROVE  IInv'
<1> USE DEF IInv, TypeOK
<1>1. TypeAmounts'
  BY DEF TypeAmounts, ReplyLast, replyUnchanged, ghostVars
<1>2. TypeEndpoint'
  BY InWriteType DEF TypeEndpoint, TypeAmounts, ReplyLast
<1> QED
  BY <1>1, <1>2, ReplyTransferFrame

\* Padding starts.
LEMMA ReplyPadInv ==
  ASSUME IInv, ReplyPad
  PROVE  IInv'
<1> USE DEF IInv, TypeOK, ReplyPad
<1>1. bulk.in_length \in Nat /\ PadTotal \in Nat
  BY SizesAssumption DEF TypeAmounts, PadTotal
<1>2. io' \in IoType
  BY <1>1 DEF TypeAmounts, IoType
<1>3. TypeAmounts'
  BY <1>1, <1>2 DEF TypeAmounts, replyUnchanged, ghostVars
<1>4. TypeEndpoint'
  BY DEF TypeEndpoint
<1> QED
  BY <1>3, <1>4, ReplyTransferFrame

\* A piece of padding is sent.
LEMMA PadSendInv ==
  ASSUME IInv, PadSend
  PROVE  IInv'
<1> USE DEF IInv, TypeOK, PadSend
<1>1. PadLen \in 0 .. EpMax /\ PadLen \in Nat /\ usb_amount_left - PadLen \in Nat
  BY SizesAssumption, MinOfNat DEF TypeAmounts, PadLen
<1>2. io' \in IoType
  BY DEF TypeAmounts, IoType
<1>3. TypeAmounts'
  BY <1>1, <1>2 DEF TypeAmounts, replyUnchanged, ghostVars
<1>4. Overwritten(ep, bulk.in_buf) \in EpType /\ ep \in EpType
  BY OverwrittenType DEF TypeEndpoint, TypeAmounts
<1>5. TypeEndpoint'
  BY <1>1, <1>4, InWriteType DEF TypeEndpoint, TypeAmounts
<1> QED
  BY <1>3, <1>5, ReplyTransferFrame

\* A reply is over.
LEMMA ReplySentInv ==
  ASSUME IInv, ReplySent
  PROVE  IInv'
<1> USE DEF IInv, TypeOK, ReplySent
<1>1. TypeAmounts'
  BY NoIoType DEF TypeAmounts, Bufs, replyUnchanged, ghostVars
<1>2. TypeEndpoint'
  BY DEF TypeEndpoint
<1> QED
  BY <1>1, <1>2, ReplyTransferFrame

\* A piece of the host's excess data is asked for.
LEMMA ThrowAwayInv ==
  ASSUME IInv, ThrowAway
  PROVE  IInv'
<1> USE DEF IInv, TypeOK, ThrowAway
<1> DEFINE len == MinOf(usb_amount_left, EpMax)
<1>1. len \in 1 .. EpMax /\ usb_amount_left - len \in Nat
  BY SizesAssumption DEF TypeAmounts, MinOf
<1>2. bulk' = [bulk EXCEPT !.out_length = len] /\ ep' = OutRead(ep, len)
      /\ usb_amount_left' = usb_amount_left - len
  OBVIOUS
<1> HIDE DEF len
<1>3. TypeAmounts'
  BY <1>1, <1>2 DEF TypeAmounts, replyUnchanged, ghostVars
<1>4. TypeEndpoint'
  BY <1>1, <1>2, OutReadType DEF TypeEndpoint
<1> QED
  BY <1>3, <1>4, ReplyTransferFrame

\* The status is sent.
LEMMA SendStatusInv ==
  ASSUME IInv, SendStatus
  PROVE  IInv'
<1> USE DEF IInv, TypeOK, SendStatus
<1>1. CswLen \in 0 .. EpMax
  BY SizesAssumption
<1>2. TypeAmounts'
  BY <1>1 DEF TypeAmounts, replyUnchanged, ghostVars
<1>3. Overwritten(ep, bulk.in_buf) \in EpType
  BY OverwrittenType DEF TypeEndpoint, TypeAmounts
<1>4. TypeEndpoint'
  BY <1>1, <1>3, InWriteType DEF TypeEndpoint, TypeAmounts
<1> QED
  BY <1>2, <1>4, ReplyTransferFrame

-----------------------------------------------------------------------------
(* _parse_scsi_cmd.                                                        *)

\* A command that has been dealt with leaves no loop behind.
LEMMA ParsedLoops ==
  ASSUME pc' = "parsed", state' # "ABORT_BULK_OUT", lun_idx' \in Luns, Accounted', Finished'
  PROVE  Loops'
BY DEF Loops, InvUnit, InvMedium, InvRead, InvWrite, InvAccount, InvDone, ReadPcs, WritePcs

\* The size of a command is what both sides agree to at most.
LEMMA ClampedType ==
  ASSUME TypeCommand
  PROVE  cmd \in CbwType /\ Clamped(cmd) \in Nat /\ Clamped(cmd) <= cmd.size
<1>1. cmd \in CbwType
  BY HostAssumption DEF TypeCommand
<1>2. cmd.size \in Nat /\ cmd.len \in Nat
  BY <1>1 DEF CbwType
<1>3. (cmd.len * BlkLen) % U32 \in Nat
  <2>1. BlkLen \in Nat /\ U32 \in Nat \ {0}
    BY SizesAssumption
  <2>2. cmd.len * BlkLen \in Nat
    BY <1>2, <2>1
  <2> QED
    BY <2>1, <2>2
<1>4. SizeFromCmnd(cmd) \in Nat
  BY <1>2, <1>3, SizesAssumption DEF SizeFromCmnd
<1> QED
  BY <1>1, <1>2, <1>4, MinOfNat DEF Clamped

\* A reply of n units: its size is in the residue.
LEMMA ReplyType ==
  ASSUME TypeCommand, TypeAmounts, NEW n \in 0 .. EpMax, Reply(n)
  PROVE  /\ bulk' \in [in_length : 0 .. EpMax, in_buf : Bufs, out_length : 0 .. EpMax,
                       out_ignore : BOOLEAN]
         /\ residue' \in Nat /\ (n = 0 => residue' = cmd.size)
<1>1. /\ cmd.size \in Nat /\ Clamped(cmd) \in Nat /\ Clamped(cmd) <= cmd.size
      /\ n \in Nat
  BY ClampedType, SizesAssumption DEF CbwType
<1>2. /\ MinOf(n, Clamped(cmd)) \in 0 .. EpMax /\ MinOf(n, Clamped(cmd)) <= cmd.size
      /\ n = 0 => MinOf(n, Clamped(cmd)) = 0
  BY <1>1, SizesAssumption DEF MinOf
<1> DEFINE m == MinOf(n, Clamped(cmd))
<1>3. \/ bulk' = [bulk EXCEPT !.in_length = m] /\ residue' = cmd.size - m
      \/ bulk' = bulk /\ residue' = cmd.size
  BY DEF Reply
<1>4. m \in 0 .. EpMax /\ m <= cmd.size /\ (n = 0 => m = 0)
  BY <1>2
<1> HIDE DEF m
<1> QED
  BY <1>1, <1>3, <1>4, SizesAssumption DEF TypeAmounts

\* What every command does before its handler runs.
LEMMA ParseStartType ==
  ASSUME IInv, ParseStart
  PROVE  /\ lun_idx \in Luns /\ moved = 0
         /\ state' \in States /\ bulk_reset_req' \in BOOLEAN /\ state' # "ABORT_BULK_OUT"
         /\ pc' \in Pcs /\ all_luns_unmounted' \in BOOLEAN => TypeControl'
         /\ luns' \in [Luns -> LunState] => TypeCommand'
         /\ data_size_from_cmnd' = Clamped(cmd)
         /\ data_size_from_cmnd' \in Nat /\ usb_amount_left' \in Nat
         /\ TypeHost' /\ AccessAllowed'
         /\ UNCHANGED <<cmd, lun_idx, moved, disk>>
<1> USE DEF IInv, TypeOK
<1>1. lun_idx \in Luns /\ moved = 0 /\ state # "ABORT_BULK_OUT"
  BY DEF ParseStart, Loops, InvUnit, InCommand, Pcs, InvAccount
<1>2. state' \in States /\ bulk_reset_req' \in BOOLEAN /\ state' # "ABORT_BULK_OUT"
  BY <1>1, HandleEp0Type DEF ParseStart, TypeControl
<1>3. pc' \in Pcs /\ all_luns_unmounted' \in BOOLEAN => TypeControl'
  BY <1>2 DEF ParseStart, TypeControl, cbwVars, storageVars
<1>4. luns' \in [Luns -> LunState] => TypeCommand'
  BY DEF ParseStart, TypeCommand, cmdVars
<1>5. /\ data_size_from_cmnd' = Clamped(cmd) /\ data_size_from_cmnd' \in Nat
      /\ usb_amount_left' \in Nat
  BY ClampedType DEF ParseStart, CbwType
<1>6. /\ TypeHost' /\ AccessAllowed'
      /\ UNCHANGED <<cmd, lun_idx, moved, disk>>
  BY DEF ParseStart, TypeHost, AccessAllowed, cmdVars, ghostVars
<1> QED
  BY <1>1, <1>2, <1>3, <1>4, <1>5, <1>6

\* The senses a command is refused with are senses.
LEMMA RefusalType == Refusal(cmd, Lun) \in Sense
BY DEF Refusal, CheckSense, HandlerSense, Sense

\* A refused command has a status that says so.
LEMMA ParseRefuseInv ==
  ASSUME IInv, ParseRefuse
  PROVE  IInv'
<1> DEFINE sense == Refusal(cmd, Lun)
           info  == Cleared(cmd, Lun).sense_data_info
           ua    == Lun.unit_attention_data /\ sense # "RESET_OCCURRED"
<1> USE DEF IInv, TypeOK
<1>1. ParseStart /\ lun_idx \in Luns /\ pc' = "parsed"
  BY ParseStartType DEF ParseRefuse
<1>2. Lun \in LunState /\ sense \in Sense
  BY <1>1, RefusalType DEF Lun, TypeCommand
<1>3. info \in Int /\ ua \in BOOLEAN
  BY <1>2 DEF Cleared, WithSense, NoInfo, LunState
<1> DEFINE new == [WithSense(Lun, sense, info) EXCEPT !.unit_attention_data = ua]
<1>4. \/ Malformed(cmd) /\ luns' = luns
      \/ sense # "NO_SENSE" /\ luns' = [luns EXCEPT ![lun_idx] = new]
  BY DEF ParseRefuse, Lun
<1>5. /\ luns' \in [Luns -> LunState]
      /\ \A l \in Luns : luns'[l].unmounted = luns[l].unmounted
      /\ Malformed(cmd) \/ luns'[lun_idx].sense_data # "NO_SENSE"
  <2> HIDE DEF sense, info, ua
  <2>1. new \in LunState /\ new.unmounted = Lun.unmounted /\ new.sense_data = sense
    BY <1>2, <1>3 DEF WithSense, LunState
  <2> HIDE DEF new
  <2> QED
    BY <1>1, <1>4, <2>1 DEF TypeCommand, Lun
<1>6. TypeControl' /\ TypeCommand' /\ TypeHost' /\ AccessAllowed'
  BY <1>1, <1>5, ParseStartType DEF ParseRefuse, Pcs, TypeControl
<1>7. Reply(0) /\ 0 \in 0 .. EpMax /\ io' = io
  BY SizesAssumption DEF ParseRefuse
<1>8. TypeAmounts' /\ TypeEndpoint'
  <2>1. TypeAmounts'
    BY <1>1, <1>7, ReplyType, ParseStartType DEF TypeAmounts
  <2>2. ep' = ep \/ ep' = Overwritten(ep, bulk.in_buf)
    BY DEF ParseRefuse
  <2>3. TypeEndpoint'
    BY <2>2, OverwrittenType DEF TypeAmounts, TypeEndpoint
  <2> QED
    BY <2>1, <2>3
<1>9. Accounted' /\ Finished'
  <2>1. residue' = cmd.size /\ cmd' = cmd /\ moved' = 0 /\ cmd.size \in Nat
    BY <1>1, <1>7, ReplyType, ParseStartType, ClampedType DEF CbwType
  <2>2. phase_error' \/ Lun'.sense_data # "NO_SENSE"
    BY <1>1, <1>5, ParseStartType DEF ParseStart, Lun
  <2> QED
    BY <2>1, <2>2 DEF Accounted, Finished
<1>10. AllUnmountedExact' /\ Loops'
  BY <1>1, <1>5, <1>9, SameEjected, ParsedLoops, ParseStartType DEF ParseRefuse
<1> QED
  BY <1>6, <1>8, <1>10

\* A command answered from the state of the unit.
LEMMA ParseReplyInv ==
  ASSUME IInv, ParseReply
  PROVE  IInv'
<1> USE DEF IInv, TypeOK
<1>1. ParseStart /\ lun_idx \in Luns /\ pc' = "parsed"
  BY ParseStartType DEF ParseReply
<1>2. /\ luns' \in [Luns -> LunState]
      /\ \A l \in Luns : luns'[l].unmounted = luns[l].unmounted
  <2>1. "NO_SENSE" \in Sense /\ NoInfo \in Int
    BY DEF Sense, NoInfo
  <2> QED
    BY <1>1, <2>1 DEF ParseReply, TypeCommand, WithSense, Cleared, LunState
<1>3. TypeControl' /\ TypeCommand' /\ TypeHost' /\ AccessAllowed'
  BY <1>1, <1>2, ParseStartType DEF ParseReply, Pcs, TypeControl
<1>4. Reply(ReplyLen) /\ ReplyLen \in 0 .. EpMax
  BY SizesAssumption DEF ParseReply
<1>5. TypeAmounts'
  BY <1>1, <1>4, ReplyType, ParseStartType DEF ParseReply, TypeAmounts
<1>6. TypeEndpoint'
  BY OverwrittenType DEF ParseReply, TypeAmounts, TypeEndpoint
<1>7. Accounted' /\ Finished'
  BY <1>1, ParseStartType DEF ParseReply, ToHost, Accounted, Finished
<1>8. AllUnmountedExact' /\ Loops'
  BY <1>1, <1>2, <1>7, SameEjected, ParsedLoops, ParseStartType DEF ParseReply
<1> QED
  BY <1>3, <1>5, <1>6, <1>8

\* A command without data; an ejection recomputes all_luns_unmounted.
LEMMA ParseControlInv ==
  ASSUME IInv, ParseControl
  PROVE  IInv'
<1> USE DEF IInv, TypeOK
<1>1. ParseStart /\ lun_idx \in Luns /\ pc' = "parsed"
  BY ParseStartType DEF ParseControl
<1>2. /\ Controlled(Lun) \in LunState
      /\ cmd.op # "EJECT" => Controlled(Lun).unmounted = Lun.unmounted
  <2>1. "NO_SENSE" \in Sense /\ NoInfo \in Int /\ Lun \in LunState
    BY <1>1 DEF Sense, NoInfo, Lun, TypeCommand
  <2> QED
    BY <2>1 DEF Controlled, WithSense, Cleared, LunState
<1>3. luns' = [luns EXCEPT ![lun_idx] = Controlled(Lun)]
  BY DEF ParseControl, Lun
<1>4. /\ luns' \in [Luns -> LunState]
      /\ cmd.op # "EJECT" => \A l \in Luns : luns'[l].unmounted = luns[l].unmounted
  BY <1>1, <1>2, <1>3 DEF TypeCommand, Lun
<1>5. all_luns_unmounted' \in BOOLEAN /\ AllUnmountedExact'
  <2>1. CASE cmd.op = "EJECT"
    BY <2>1 DEF ParseControl, AllEjected, AllUnmountedExact
  <2>2. CASE cmd.op # "EJECT"
    BY <1>4, <2>2, SameEjected DEF ParseControl, TypeControl
  <2> QED
    BY <2>1, <2>2
<1>6. TypeControl' /\ TypeCommand' /\ TypeHost' /\ AccessAllowed'
  BY <1>1, <1>4, <1>5, ParseStartType DEF Pcs
<1>7. Reply(0) /\ 0 \in 0 .. EpMax
  BY SizesAssumption DEF ParseControl
<1>8. TypeAmounts' /\ TypeEndpoint'
  BY <1>1, <1>7, ReplyType, ParseStartType DEF ParseControl, TypeAmounts, TypeEndpoint
<1>9. Accounted' /\ Finished'
  BY <1>1, ParseStartType DEF ParseControl, Accounted, Finished
<1> QED
  BY <1>1, <1>5, <1>6, <1>8, <1>9, ParsedLoops, ParseStartType

\* A command that moves sectors is let through for a unit that is ready, from
\* a sector it has.
LEMMA PassesReady ==
  ASSUME IInv, Passes, cmd.op \in {"READ", "WRITE", "VERIFY"}, lun_idx \in Luns
  PROVE  /\ ~ Lun.unmounted /\ ~ Lun.unit_attention_data
         /\ cmd.lba \in Nat /\ Num \in Nat /\ cmd.lba <= Num
         /\ cmd.op = "WRITE" => ~ Ro[lun_idx]
<1>1. CheckSense(cmd, Lun) = "NO_SENSE" /\ HandlerSense(cmd, Lun) = "NO_SENSE"
  BY DEF Passes, Refusal
<1>2. ~ Lun.unmounted /\ ~ Lun.unit_attention_data
  BY <1>1 DEF CheckSense, NeedsMedium
<1>3. ~ PastEnd(cmd) /\ (cmd.op = "WRITE" => ~ Ro[lun_idx])
  BY <1>1 DEF HandlerSense, NoFieldCheck
<1>4. cmd.lba \in Nat /\ Num \in Nat
  BY ClampedType, LunsAssumption DEF IInv, TypeOK, CbwType, Num
<1> QED
  BY <1>2, <1>3, <1>4 DEF PastEnd

\* A loop starts with the sizes both sides agreed on.
LEMMA ParseTransferInv ==
  ASSUME IInv, ParseTransfer
  PROVE  IInv'
<1> DEFINE size == Clamped(cmd)
           left == CASE cmd.op = "READ"   -> size \div BlkLen
                     [] cmd.op = "WRITE"  -> size
                     [] cmd.op = "VERIFY" -> cmd.len
           next == CASE cmd.op = "READ" -> "rd" [] cmd.op = "WRITE" -> "wr"
                     [] cmd.op = "VERIFY" -> "vf"
<1> USE DEF IInv, TypeOK
<1>1. ParseStart /\ lun_idx \in Luns /\ Passes /\ cmd.op \in {"READ", "WRITE", "VERIFY"}
  BY ParseStartType DEF ParseTransfer
<1>2. /\ SetSense("NO_SENSE", NoInfo) /\ residue' = cmd.size /\ UNCHANGED <<bulk, ep>>
      /\ all_luns_unmounted' = all_luns_unmounted
      /\ io' = IF left = 0 THEN NoIo
               ELSE [NoIo EXCEPT !.lba = cmd.lba, !.usb_lba = cmd.lba, !.left = left, !.req = size]
      /\ pc' = IF left = 0 THEN "parsed" ELSE next
  BY DEF ParseTransfer
<1>3. "NO_SENSE" \in Sense /\ NoInfo \in Int
  BY DEF Sense, NoInfo
<1>4. /\ luns' \in [Luns -> LunState]
      /\ \A l \in Luns : /\ luns'[l].unmounted = luns[l].unmounted
                         /\ luns'[l].unit_attention_data = luns[l].unit_attention_data
  BY <1>1, <1>2, <1>3, SetSenseType
<1>5. /\ size \in Nat /\ size <= cmd.size /\ cmd.size \in Nat /\ cmd.len \in Nat
      /\ size \div BlkLen \in Nat /\ (size \div BlkLen) * BlkLen <= size
  BY ClampedType, WholeSectors DEF CbwType
<1>6. left \in Nat /\ next \in Pcs
  BY <1>1, <1>5 DEF Pcs, WaitEnded
<1>7. /\ UNCHANGED <<cmd, lun_idx, moved>> /\ moved = 0 /\ state' # "ABORT_BULK_OUT"
      /\ data_size_from_cmnd' = size /\ data_size_from_cmnd' \in Nat
      /\ usb_amount_left' = cmd.size
  BY <1>1, ParseStartType DEF ParseStart
<1>8. /\ ~ Lun'.unmounted /\ ~ Lun'.unit_attention_data
      /\ cmd.lba \in Nat /\ Num \in Nat /\ Num' = Num /\ cmd.lba <= Num
      /\ cmd.op = "WRITE" => ~ Ro[lun_idx]
  BY <1>1, <1>4, <1>7, PassesReady DEF Lun, Num
<1>9. TypeControl' /\ TypeCommand' /\ TypeHost' /\ AccessAllowed' /\ AllUnmountedExact'
  <2>1. pc' \in Pcs /\ all_luns_unmounted' \in BOOLEAN
    BY <1>2, <1>6 DEF TypeControl, Pcs
  <2>2. AllUnmountedExact'
    BY <1>2, <1>4, SameEjected
  <2> QED
    BY <1>1, <1>4, <2>1, <2>2, ParseStartType
<1> HIDE DEF size, left, next
<1>10. io' \in IoType
  BY <1>2, <1>5, <1>6, <1>8, NoIoType DEF NoIo, IoType
<1>11. TypeAmounts' /\ TypeEndpoint'
  BY <1>2, <1>5, <1>7, <1>10, <1>1, ParseStartType DEF TypeAmounts, TypeEndpoint
<1>12. Accounted'
  BY <1>2, <1>5, <1>7 DEF Accounted
<1>13. Loops'
  <2>1. CASE left = 0
    <3>1. cmd.op \in {"READ", "WRITE"} => Agreed' = 0
      BY <1>1, <1>7, <2>1, SizesAssumption DEF Agreed, left, size
    <3>2. Finished'
      BY <1>7, <3>1 DEF Finished
    <3> QED
      BY <1>1, <1>2, <1>7, <1>12, <2>1, <3>2, ParsedLoops
  <2>2. CASE left # 0 /\ cmd.op = "READ"
    <3>1. pc' = "rd" /\ left = size \div BlkLen
      BY <1>2, <2>2 DEF left, next
    <3>2. io'.left = left /\ io'.lba = cmd.lba
      BY <1>2, <2>2 DEF NoIo
    <3>3. left * BlkLen = Agreed' /\ left * BlkLen <= residue'
      BY <1>2, <1>5, <1>7, <3>1, SizesAssumption DEF Agreed
    <3> HIDE DEF Agreed
    <3>4. 0 + left * BlkLen = left * BlkLen
      BY <1>6, SizesAssumption
    <3> QED
      BY <1>1, <1>7, <1>8, <1>12, <2>2, <3>1, <3>2, <3>3, <3>4
         DEF Loops, InvUnit, InvMedium, InvRead, InvWrite, InvAccount, InvDone, ReadPcs, WritePcs
  <2>3. CASE left # 0 /\ cmd.op = "WRITE"
    <3>1. pc' = "wr" /\ left = size
      BY <1>2, <2>3 DEF left, next
    <3>2. io'.left = size /\ io'.req = size /\ io'.lba = cmd.lba
      BY <1>2, <2>3, <3>1 DEF NoIo
    <3> QED
      BY <1>1, <1>2, <1>5, <1>7, <1>8, <1>12, <2>3, <3>1, <3>2
         DEF Loops, InvUnit, InvMedium, InvRead, InvWrite, InvAccount, InvDone, ReadPcs, WritePcs
  <2>4. CASE left # 0 /\ cmd.op = "VERIFY"
    <3>1. pc' = "vf" /\ io'.lba = cmd.lba
      BY <1>2, <2>4 DEF left, next, NoIo
    <3> QED
      BY <1>1, <1>7, <1>8, <1>12, <2>4, <3>1
         DEF Loops, InvUnit, InvMedium, InvRead, InvWrite, InvAccount, InvDone, Finished,
             ReadPcs, WritePcs
  <2> QED
    BY <1>1, <2>1, <2>2, <2>3, <2>4
<1> QED
  BY <1>9, <1>11, <1>13

-----------------------------------------------------------------------------
(* The transfer loops.                                                     *)

LoopPcs == ReadPcs \cup WritePcs \cup {"vf"}

\* What holds in a loop, whichever it is.
LEMMA LoopStart ==
  ASSUME IInv, scsiUnchanged, pc \in LoopPcs
  PROVE  /\ lun_idx \in Luns /\ state # "ABORT_BULK_OUT" /\ Answered
         /\ UNCHANGED <<state, cmd, lun_idx, data_size_from_cmnd, phase_error,
                        all_luns_unmounted>>
         /\ Num \in Nat /\ Num' = Num /\ Agreed' = Agreed /\ Agreed \in Nat
         /\ io.lba \in Nat /\ io.left \in Nat /\ io.n \in Nat /\ io.req \in Nat
         /\ io.usb_lba \in Nat /\ residue \in Nat /\ moved \in Nat /\ cmd.size \in Nat
         /\ io.lba <= Num /\ ~ Lun.unmounted /\ ~ Lun.unit_attention_data
<1> USE DEF LoopPcs, ReadPcs, WritePcs
<1>1. /\ lun_idx \in Luns /\ state # "ABORT_BULK_OUT" /\ Answered
      /\ io.lba <= Num /\ ~ Lun.unmounted /\ ~ Lun.unit_attention_data
  BY DEF IInv, Loops, InvUnit, InvMedium, InCommand, Answered, Pcs, OutWaits, InWaits
<1>2. UNCHANGED <<state, cmd, lun_idx, data_size_from_cmnd, phase_error, all_luns_unmounted>>
  BY DEF scsiUnchanged, excVars, cmdVars, ejectVars
<1>3. Num \in Nat /\ Num' = Num
  BY <1>1, <1>2, LunsAssumption DEF Num
<1>4. Agreed' = Agreed /\ Agreed \in Nat
  BY <1>2, WholeSectors DEF IInv, TypeOK, TypeAmounts, Agreed
<1>5. /\ io.lba \in Nat /\ io.left \in Nat /\ io.n \in Nat /\ io.req \in Nat
      /\ io.usb_lba \in Nat /\ residue \in Nat /\ moved \in Nat /\ cmd.size \in Nat
  BY ClampedType DEF IInv, TypeOK, TypeAmounts, IoType, CbwType
<1> QED
  BY <1>1, <1>2, <1>3, <1>4, <1>5

\* The types a step of a loop leaves alone, and those it keeps if what it does
\* change is of its type.
LEMMA LoopTypes ==
  ASSUME TypeOK, scsiUnchanged, pc' \in Pcs, luns' \in [Luns -> LunState],
         short_packet_received' \in BOOLEAN,
         emmc_part' \in 0 .. 2, dead' \subseteq {"SD", "EMMC"}, faults' \in Nat
  PROVE  TypeControl' /\ TypeCommand' /\ TypeHost'
<1> USE DEF TypeOK, scsiUnchanged
<1>1. TypeControl'
  BY DEF TypeControl, excVars, ejectVars, cbwVars
<1>2. TypeCommand' /\ TypeHost'
  BY DEF TypeCommand, TypeHost, cmdVars
<1> QED
  BY <1>1, <1>2

\* A storage access inside the medium.
LEMMA StorageType ==
  ASSUME TypeOK, lun_idx \in Luns, NEW op \in {"read", "write", "verify"},
         NEW n \in Nat \ {0}, NEW how, StorageAccess(op, n, how), AccessAllowed,
         io.lba + n <= Num, op = "write" => ~ Ro[lun_idx]
  PROVE  /\ emmc_part' \in 0 .. 2 /\ dead' \subseteq {"SD", "EMMC"} /\ faults' \in Nat
         /\ disk' \in Access /\ AccessAllowed'
<1> USE DEF TypeOK, StorageAccess
<1>1. emmc_part' \in 0 .. 2 /\ faults' \in Nat
  BY DEF TypeControl, Failed, NoFault
<1>2. dead' \subseteq {"SD", "EMMC"}
  BY LunsAssumption DEF TypeControl
<1>3. CASE UNCHANGED disk
  BY <1>1, <1>2, <1>3 DEF AccessAllowed, TypeAmounts
<1>4. CASE disk' = [op |-> op, lun |-> lun_idx, lba |-> io.lba, n |-> n, part |-> emmc_part']
  <2>1. disk' \in Access
    BY <1>1, <1>4 DEF Access, TypeAmounts, IoType
  <2>2. AccessAllowed'
    BY <1>4 DEF AccessAllowed, Num
  <2> QED
    BY <1>1, <1>2, <2>1, <2>2
<1> QED
  BY <1>3, <1>4

\* Out of a loop with sense data: the status will fail the command.
LEMMA FailedReturn ==
  ASSUME IInv, scsiUnchanged, pc \in LoopPcs, Return, UNCHANGED <<residue, moved>>,
         NEW s \in Sense \ {"NO_SENSE"}, NEW i \in Int, SetSense(s, i)
  PROVE  Loops' /\ AllUnmountedExact' /\ luns' \in [Luns -> LunState] /\ pc' \in Pcs
<1>1. /\ lun_idx \in Luns /\ state # "ABORT_BULK_OUT" /\ Answered
      /\ UNCHANGED <<state, cmd, lun_idx, all_luns_unmounted>>
  BY LoopStart
<1>2. /\ luns' \in [Luns -> LunState] /\ luns'[lun_idx].sense_data = s
      /\ \A l \in Luns : luns'[l].unmounted = luns[l].unmounted
  BY <1>1, SetSenseType DEF IInv, TypeOK
<1>3. Accounted' /\ Finished'
  BY <1>1, <1>2 DEF IInv, Loops, InvAccount, Accounted, Finished, Lun
<1>4. pc' = "parsed"
  BY DEF Return
<1> QED
  BY <1>1, <1>2, <1>3, <1>4, ParsedLoops, SameEjected DEF IInv, Pcs

\* The senses of the loops.
LEMMA LoopSense ==
  {"LOGICAL_BLOCK_ADDRESS_OUT_OF_RANGE", "UNRECOVERED_READ_ERROR", "WRITE_ERROR",
   "COMMUNICATION_FAILURE"} \subseteq Sense \ {"NO_SENSE"}
BY DEF Sense

-----------------------------------------------------------------------------
(* _scsi_read.                                                             *)

\* What is read at once fits the request, the medium and a buffer.
LEMMA ReadAmountType ==
  ASSUME IInv, scsiUnchanged, pc = "rd"
  PROVE  /\ ReadAmount \in Nat /\ ReadAmount <= io.left /\ io.lba + ReadAmount <= Num
         /\ ReadAmount * BlkLen <= EpMax
<1>1. /\ io.left \in Nat /\ io.lba \in Nat /\ Num \in Nat /\ io.lba <= Num
  BY LoopStart DEF LoopPcs, ReadPcs
<1>2. MaxIo \in Nat /\ MaxIo <= IoBig /\ IoBig \in Nat /\ BlkLen \in Nat
      /\ IoBig * BlkLen <= EpMax /\ EpMax \in Nat
  BY SizesAssumption DEF MaxIo
<1>3. /\ MinOf(io.left, MaxIo) \in Nat /\ MinOf(io.left, MaxIo) <= io.left
      /\ MinOf(io.left, MaxIo) <= MaxIo
  BY <1>1, <1>2, MinOfNat
<1>4. Num - io.lba \in Nat
  BY <1>1
<1>5. /\ ReadAmount \in Nat /\ ReadAmount <= MinOf(io.left, MaxIo)
      /\ ReadAmount <= Num - io.lba
  BY <1>3, <1>4, MinOfNat DEF ReadAmount
<1>6. ReadAmount <= IoBig
  BY <1>2, <1>3, <1>5
<1>7. ReadAmount * BlkLen \in Nat /\ IoBig * BlkLen \in Nat
      /\ ReadAmount * BlkLen <= IoBig * BlkLen
  BY <1>2, <1>5, <1>6, TimesMonotone
<1>8. ReadAmount * BlkLen <= EpMax
  <2> DEFINE a == ReadAmount * BlkLen
             b == IoBig * BlkLen
  <2>1. a \in Nat /\ b \in Nat /\ a <= b /\ b <= EpMax
    BY <1>2, <1>7
  <2> HIDE DEF a, b
  <2>2. a <= EpMax
    BY <1>2, <2>1
  <2> QED
    BY <2>2 DEF a
<1> QED
  BY <1>1, <1>3, <1>4, <1>5, <1>8

\* Sectors are read into the buffer that is free.
LEMMA ReadChunkInv ==
  ASSUME IInv, ReadChunk
  PROVE  IInv'
<1> USE DEF IInv, TypeOK
<1>1. scsiUnchanged /\ pc = "rd" /\ pc \in LoopPcs
  BY DEF ReadChunk, LoopPcs, ReadPcs
<1>2. /\ lun_idx \in Luns /\ state # "ABORT_BULK_OUT" /\ Answered
      /\ UNCHANGED <<state, cmd, lun_idx, data_size_from_cmnd, phase_error,
                     all_luns_unmounted>>
      /\ Num \in Nat /\ Num' = Num /\ Agreed' = Agreed /\ io.left \in Nat /\ io.lba \in Nat
      /\ io.lba <= Num /\ ~ Lun.unmounted /\ ~ Lun.unit_attention_data
  BY <1>1, LoopStart
<1>3. /\ ReadAmount \in Nat \ {0} /\ ReadAmount <= io.left /\ io.lba + ReadAmount <= Num
      /\ ReadAmount * BlkLen <= EpMax
  BY <1>1, ReadAmountType DEF ReadChunk
<1>4. PICK how \in Outcomes :
        /\ StorageAccess("read", ReadAmount, how)
        /\ io' = [io EXCEPT !.n = IF how \in Lost THEN 0 ELSE ReadAmount]
        /\ ep' = LET e == Scratched(Overwritten(ep, io.cur), how)
                 IN IF io.first THEN e ELSE Finish(e)
  BY DEF ReadChunk
<1>5. /\ emmc_part' \in 0 .. 2 /\ dead' \subseteq {"SD", "EMMC"} /\ faults' \in Nat
      /\ disk' \in Access /\ AccessAllowed'
  BY <1>2, <1>3, <1>4, StorageType
<1>6. UNCHANGED <<luns, residue, usb_amount_left, short_packet_received, bulk, moved>>
      /\ pc' \in {"read_done", "read_wait"}
  BY DEF ReadChunk
<1>7. TypeControl' /\ TypeCommand' /\ TypeHost'
  BY <1>1, <1>5, <1>6, LoopTypes DEF TypeCommand, Pcs, InWaits
<1>8. io' \in IoType /\ io'.n \in {0, ReadAmount} /\ io'.left = io.left /\ io'.lba = io.lba
  BY <1>3, <1>4 DEF TypeAmounts, IoType
<1>9. TypeAmounts'
  BY <1>2, <1>5, <1>6, <1>8 DEF TypeAmounts
<1>10. TypeEndpoint'
  <2>1. io.cur \in Bufs /\ ep \in EpType
    BY DEF TypeAmounts, IoType, TypeEndpoint
  <2> QED
    BY <1>4, <2>1, OverwrittenType, ScratchedType, FinishType DEF TypeEndpoint
<1>11. AllUnmountedExact'
  BY <1>2, <1>6, SameEjected
<1>12. InvRead'
  <2>1. cmd.op = "READ" /\ io.left * BlkLen <= residue
    BY <1>1 DEF Loops, InvRead, ReadPcs
  <2>2. io'.n <= io'.left /\ io'.lba + io'.n <= Num /\ io'.n * BlkLen <= EpMax
    BY <1>2, <1>3, <1>8, SizesAssumption
  <2> QED
    BY <1>2, <1>6, <1>8, <2>1, <2>2 DEF InvRead, ReadPcs
<1>13. Loops'
  BY <1>1, <1>2, <1>6, <1>8, <1>12 DEF Loops, InvUnit, InvMedium, InvWrite, InvAccount, InvDone,
       Accounted, Finished, Lun, ReadPcs, WritePcs
<1> QED
  BY <1>5, <1>7, <1>9, <1>10, <1>11, <1>13

\* The medium ends before the request does.
LEMMA ReadPastEndInv ==
  ASSUME IInv, ReadPastEnd
  PROVE  IInv'
<1> USE DEF IInv, TypeOK
<1>1. scsiUnchanged /\ pc = "rd" /\ pc \in LoopPcs /\ Return
  BY DEF ReadPastEnd, LoopPcs, ReadPcs
<1>2. /\ UNCHANGED <<residue, usb_amount_left, short_packet_received, ep, emmc_part, dead,
                     moved, disk, faults>>
      /\ bulk' = [bulk EXCEPT !.in_length = 0]
  BY DEF ReadPastEnd, storageVars, ghostVars
<1>3. SetSense("LOGICAL_BLOCK_ADDRESS_OUT_OF_RANGE", io.lba) /\ io.lba \in Int
  BY <1>1, LoopStart DEF ReadPastEnd
<1>4. Loops' /\ AllUnmountedExact' /\ luns' \in [Luns -> LunState] /\ pc' \in Pcs
  BY <1>1, <1>2, <1>3, FailedReturn, LoopSense
<1>5. TypeControl' /\ TypeCommand' /\ TypeHost'
  BY <1>1, <1>2, <1>4, LoopTypes DEF TypeControl, TypeCommand
<1>6. 0 \in 0 .. EpMax
  BY SizesAssumption
<1>7. TypeAmounts' /\ TypeEndpoint' /\ AccessAllowed'
  BY <1>1, <1>2, <1>6, NoIoType, LoopStart DEF TypeAmounts, TypeEndpoint, AccessAllowed, Return
<1> QED
  BY <1>4, <1>5, <1>7

\* Multiplication distributes over a difference.
LEMMA TimesMinus ==
  ASSUME NEW a \in Nat, NEW b \in Nat, NEW c \in Nat, b <= a
  PROVE  a * c \in Nat /\ b * c \in Nat /\ b * c <= a * c /\ (a - b) * c = a * c - b * c
<1>1. a * c \in Nat /\ b * c \in Nat /\ b * c <= a * c
  BY TimesMonotone
<1>2. (a - b) * c = a * c - b * c
  BY SMT
<1> QED
  BY <1>1, <1>2

\* The account of what was read, and what of the request is left.
LEMMA ReadAmounts ==
  ASSUME IInv, ReadAccount
  PROVE  /\ io.n * BlkLen \in 0 .. EpMax
         /\ residue' \in Nat /\ moved' \in Nat /\ residue' + moved' = cmd.size
         /\ io.left - io.n \in Nat /\ io.lba + io.n <= Num
         /\ (io.left - io.n) * BlkLen <= residue'
         /\ moved' + (io.left - io.n) * BlkLen = Agreed
<1> USE DEF IInv, TypeOK
<1>1. /\ pc \in {"read_done", "read_wait"} /\ pc \in ReadPcs /\ pc \in LoopPcs /\ scsiUnchanged
  BY DEF ReadAccount, LoopPcs, ReadPcs
<1>2. /\ io.n \in Nat /\ io.left \in Nat /\ residue \in Nat /\ moved \in Nat /\ Agreed \in Nat
      /\ io.lba \in Nat /\ cmd.size \in Nat /\ BlkLen \in Nat /\ EpMax \in Nat /\ Answered
  BY <1>1, LoopStart, SizesAssumption
<1>3. /\ io.n <= io.left /\ io.lba + io.n <= Num /\ io.n * BlkLen <= EpMax
      /\ cmd.op = "READ" /\ io.left * BlkLen <= residue
  BY <1>1 DEF Loops, InvRead
<1>4. moved + io.left * BlkLen = Agreed /\ residue + moved = cmd.size
  BY <1>1, <1>2, <1>3 DEF Loops, InvDone, InvAccount, Accounted
<1> DEFINE a == io.left * BlkLen
           b == io.n * BlkLen
<1>5. a \in Nat /\ b \in Nat /\ b <= a /\ (io.left - io.n) * BlkLen = a - b
  BY <1>2, <1>3, TimesMinus
<1>6. residue' = residue - b /\ moved' = moved + b /\ a <= residue /\ b <= EpMax
      /\ moved + a = Agreed
  BY <1>3, <1>4 DEF ReadAccount, Account
<1>7. io.left - io.n \in Nat
  BY <1>2, <1>3
<1> HIDE DEF a, b
<1>8. /\ b \in 0 .. EpMax /\ residue' \in Nat /\ moved' \in Nat /\ residue' + moved' = cmd.size
      /\ a - b <= residue' /\ moved' + (a - b) = Agreed
  BY <1>2, <1>4, <1>5, <1>6
<1> QED
  BY <1>3, <1>5, <1>7, <1>8 DEF b

\* What was read is accounted for, and the loop goes on or returns.
LEMMA ReadAccountInv ==
  ASSUME IInv, ReadAccount
  PROVE  IInv'
<1> USE DEF IInv, TypeOK
<1> DEFINE len  == io.n * BlkLen
           more == io.n > 0 /\ io.left > io.n
<1>1. scsiUnchanged /\ pc \in LoopPcs
  BY DEF ReadAccount, LoopPcs, ReadPcs
<1>2. /\ lun_idx \in Luns /\ state # "ABORT_BULK_OUT" /\ Answered
      /\ UNCHANGED <<state, cmd, lun_idx, data_size_from_cmnd, phase_error,
                     all_luns_unmounted>>
      /\ Num' = Num /\ Agreed' = Agreed /\ Agreed \in Nat
      /\ io.lba \in Nat /\ io.left \in Nat /\ io.n \in Nat
      /\ ~ Lun.unmounted /\ ~ Lun.unit_attention_data
  BY <1>1, LoopStart
<1>3. cmd.op = "READ"
  BY DEF ReadAccount, Loops, InvRead, ReadPcs
<1>4. /\ len \in 0 .. EpMax
      /\ residue' \in Nat /\ moved' \in Nat /\ residue' + moved' = cmd.size
      /\ io.left - io.n \in Nat /\ io.lba + io.n <= Num
      /\ (io.left - io.n) * BlkLen <= residue'
      /\ moved' + (io.left - io.n) * BlkLen = Agreed
  BY ReadAmounts
<1>5. /\ bulk' = [bulk EXCEPT !.in_length = len, !.in_buf = io.cur]
      /\ UNCHANGED <<usb_amount_left, short_packet_received, emmc_part, dead, disk, faults>>
  BY DEF ReadAccount, storageVars
<1>6. IF io.n = 0 THEN SetSense("UNRECOVERED_READ_ERROR", io.lba) ELSE UNCHANGED luns
  BY DEF ReadAccount
<1>7. IF more
      THEN /\ ep' = InStart(ep, io.cur, len)
           /\ io' = [io EXCEPT !.lba = @ + io.n, !.left = @ - io.n, !.first = FALSE,
                               !.cur = IF @ = "in" THEN "out" ELSE "in"]
           /\ pc' = "rd"
      ELSE Return /\ UNCHANGED ep
  BY DEF ReadAccount
<1> HIDE DEF len
<1>8. /\ luns' \in [Luns -> LunState]
      /\ \A l \in Luns : luns'[l].unmounted = luns[l].unmounted
      /\ io.n = 0 => luns'[lun_idx].sense_data # "NO_SENSE"
  <2>1. CASE io.n = 0
    BY <1>2, <1>6, <2>1, SetSenseType, LoopSense
  <2>2. CASE io.n # 0
    BY <1>6, <2>2 DEF TypeCommand
  <2> QED
    BY <2>1, <2>2
<1>9. io.cur \in Bufs /\ io.lba + io.n \in Nat
  BY <1>2 DEF TypeAmounts, IoType
<1>10. io' \in IoType /\ pc' \in Pcs
  <2>1. CASE more
    BY <1>4, <1>7, <1>9, <2>1 DEF TypeAmounts, IoType, Bufs, Pcs
  <2>2. CASE ~ more
    BY <1>7, <2>2, NoIoType DEF Return, Pcs
  <2> QED
    BY <2>1, <2>2
<1>11. TypeControl' /\ TypeCommand' /\ TypeHost'
  BY <1>1, <1>5, <1>8, <1>10, LoopTypes DEF TypeControl, TypeCommand
<1>12. TypeAmounts'
  BY <1>2, <1>4, <1>5, <1>9, <1>10 DEF TypeAmounts
<1>13. TypeEndpoint'
  BY <1>4, <1>7, <1>9, InStartType DEF TypeEndpoint
<1>14. AccessAllowed' /\ AllUnmountedExact'
  BY <1>2, <1>5, <1>8, SameEjected DEF AccessAllowed
<1>15. Loops'
  <2>1. CASE more
    <3>1. io'.lba = io.lba + io.n /\ io'.left = io.left - io.n /\ pc' = "rd" /\ luns' = luns
      <4>1. /\ pc' = "rd"
            /\ io' = [io EXCEPT !.lba = @ + io.n, !.left = @ - io.n, !.first = FALSE,
                                !.cur = IF @ = "in" THEN "out" ELSE "in"]
        BY <1>7, <2>1
      <4>2. io'.lba = io.lba + io.n /\ io'.left = io.left - io.n
        BY <4>1 DEF TypeAmounts, IoType
      <4>3. luns' = luns
        BY <1>2, <1>6, <2>1
      <4> QED
        BY <4>1, <4>2, <4>3
    <3> HIDE DEF more
    <3> QED
      BY <1>2, <1>3, <1>4, <3>1
         DEF Loops, InvUnit, InvMedium, InvRead, InvWrite, InvAccount, InvDone, Accounted, Lun,
             ReadPcs, WritePcs
  <2>2. CASE ~ more
    <3>1. pc' = "parsed"
      BY <1>7, <2>2 DEF Return
    <3>2. CASE io.n = 0
      BY <1>2, <1>4, <1>8, <3>1, <3>2, ParsedLoops DEF Accounted, Finished, Lun
    <3>3. CASE io.n # 0
      <4>1. io.left - io.n = 0
        BY <1>2, <1>4, <2>2, <3>3
      <4>2. moved' >= Agreed
        BY <1>2, <1>4, <4>1, SizesAssumption
      <4> QED
        BY <1>2, <1>4, <3>1, <4>2, ParsedLoops DEF Accounted, Finished
    <3> QED
      BY <3>2, <3>3
  <2> QED
    BY <2>1, <2>2
<1> QED
  BY <1>11, <1>12, <1>13, <1>14, <1>15

-----------------------------------------------------------------------------
(* _scsi_write.                                                            *)

\* Division by a positive number keeps the order and undoes a product.
LEMMA DivMonotone ==
  ASSUME NEW a \in Nat, NEW b \in Nat, NEW c \in Nat \ {0}, a <= b
  PROVE  a \div c \in Nat /\ a \div c <= b \div c
BY SMT

\* A product is divided without a rest.
LEMMA DivProduct ==
  ASSUME NEW a \in Nat, NEW c \in Nat \ {0}
  PROVE  a * c \in Nat /\ (a * c) \div c = a
BY SMT

\* What holds in the loop of _scsi_write.
LEMMA WriteStart ==
  ASSUME IInv, scsiUnchanged, pc \in WritePcs
  PROVE  /\ cmd.op = "WRITE" /\ ~ Ro[lun_idx]
         /\ io.left <= residue /\ io.req <= usb_amount_left
         /\ usb_amount_left \in Nat /\ data_size_from_cmnd \in Nat
         /\ moved + io.left = data_size_from_cmnd
         /\ residue + moved = cmd.size
<1>1. pc \in LoopPcs
  BY DEF LoopPcs
<1>2. Answered
  BY <1>1, LoopStart
<1> QED
  BY <1>2 DEF IInv, TypeOK, TypeAmounts, Loops, InvWrite, InvAccount, Accounted, InvDone

\* Data is asked for, no more than the loop still needs.
LEMMA WriteRequestInv ==
  ASSUME IInv, WriteRequest
  PROVE  IInv'
<1> USE DEF IInv, TypeOK
<1> DEFINE len == MinOf(io.req, EpMax)
<1>1. scsiUnchanged /\ pc = "wr" /\ pc \in WritePcs /\ pc \in LoopPcs
  BY DEF WriteRequest, LoopPcs, WritePcs
<1>2. /\ lun_idx \in Luns /\ state # "ABORT_BULK_OUT" /\ Answered
      /\ UNCHANGED <<state, cmd, lun_idx, data_size_from_cmnd, phase_error,
                     all_luns_unmounted>>
      /\ Num' = Num /\ io.lba \in Nat /\ io.left \in Nat /\ io.req \in Nat /\ io.usb_lba \in Nat
      /\ io.lba <= Num /\ ~ Lun.unmounted /\ ~ Lun.unit_attention_data
  BY <1>1, LoopStart
<1>3. /\ io.req <= io.left /\ io.req > 0
      /\ io.req <= usb_amount_left /\ usb_amount_left \in Nat
      /\ io.left <= residue /\ cmd.op = "WRITE" /\ ~ Ro[lun_idx]
      /\ moved + io.left = data_size_from_cmnd /\ residue + moved = cmd.size
  BY <1>1, WriteStart DEF WriteRequest, Loops, InvWrite
<1>4. len \in 1 .. EpMax /\ len <= io.req /\ len \in Nat
  BY <1>2, <1>3, SizesAssumption DEF MinOf
<1>5. /\ io' = [io EXCEPT !.usb_lba = @ + len \div BlkLen, !.req = @ - len]
      /\ usb_amount_left' = usb_amount_left - len
      /\ bulk' = [bulk EXCEPT !.out_length = len]
      /\ ep' = OutRead(ep, len)
      /\ pc' = "write_wait"
      /\ UNCHANGED <<luns, residue, short_packet_received, emmc_part, dead, moved, disk, faults>>
  BY DEF WriteRequest, storageVars, ghostVars
<1> HIDE DEF len
<1>6. io.usb_lba + len \div BlkLen \in Nat /\ io.req - len \in Nat
      /\ usb_amount_left - len \in Nat
  BY <1>2, <1>3, <1>4, WholeSectors
<1>7. /\ io' \in IoType /\ io'.lba = io.lba /\ io'.left = io.left /\ io'.req = io.req - len
      /\ bulk'.out_length = len
  BY <1>5, <1>6 DEF TypeAmounts, IoType
<1>8. TypeControl' /\ TypeCommand' /\ TypeHost'
  BY <1>1, <1>5, LoopTypes DEF TypeControl, TypeCommand, Pcs, OutWaits
<1>9. TypeAmounts'
  BY <1>2, <1>4, <1>5, <1>6, <1>7 DEF TypeAmounts
<1>10. TypeEndpoint'
  BY <1>4, <1>5, OutReadType DEF TypeEndpoint
<1>11. AccessAllowed' /\ AllUnmountedExact'
  BY <1>2, <1>5, SameEjected DEF AccessAllowed
<1>12. InvWrite'
  BY <1>2, <1>3, <1>4, <1>5, <1>7 DEF InvWrite, WritePcs
<1>13. Loops'
  BY <1>2, <1>3, <1>5, <1>7, <1>12
     DEF Loops, InvUnit, InvMedium, InvRead, InvAccount, InvDone, Accounted, Lun,
         ReadPcs, WritePcs
<1> QED
  BY <1>8, <1>9, <1>10, <1>11, <1>13

\* The loop gives up: the medium ended, or the host does not send.
LEMMA WriteFailedInv ==
  ASSUME IInv, WritePastEnd \/ WriteCommFailure
  PROVE  IInv'
<1> USE DEF IInv, TypeOK, WritePastEnd, WriteCommFailure
<1>1. scsiUnchanged /\ pc \in LoopPcs /\ Return
  BY DEF LoopPcs, WritePcs
<1>2. UNCHANGED <<residue, usb_amount_left, short_packet_received, bulk, ep, emmc_part, dead,
                  moved, disk, faults>>
  BY DEF storageVars, ghostVars
<1>3. io.lba \in Int /\ io.usb_lba \in Int
  BY <1>1, LoopStart
<1>4. PICK s \in Sense \ {"NO_SENSE"}, i \in Int : SetSense(s, i)
  BY <1>3, LoopSense
<1>5. Loops' /\ AllUnmountedExact' /\ luns' \in [Luns -> LunState] /\ pc' \in Pcs
  BY <1>1, <1>2, <1>4, FailedReturn
<1>6. TypeControl' /\ TypeCommand' /\ TypeHost'
  BY <1>1, <1>2, <1>5, LoopTypes DEF TypeControl, TypeCommand
<1>7. TypeAmounts' /\ TypeEndpoint' /\ AccessAllowed'
  BY <1>1, <1>2, NoIoType, LoopStart DEF TypeAmounts, TypeEndpoint, AccessAllowed, Return
<1> QED
  BY <1>5, <1>6, <1>7

\* All that was agreed on was written.
LEMMA WriteEndInv ==
  ASSUME IInv, WriteEnd
  PROVE  IInv'
<1> USE DEF IInv, TypeOK
<1>1. scsiUnchanged /\ pc \in LoopPcs /\ pc \in WritePcs /\ Return /\ io.left = 0
  BY DEF WriteEnd, LoopPcs, WritePcs
<1>2. UNCHANGED <<luns, residue, usb_amount_left, short_packet_received, bulk, ep, emmc_part,
                  dead, moved, disk, faults>>
  BY DEF WriteEnd, storageVars, ghostVars
<1>3. /\ lun_idx \in Luns /\ state # "ABORT_BULK_OUT" /\ Agreed' = Agreed /\ Agreed \in Nat
      /\ UNCHANGED <<state, cmd, lun_idx, all_luns_unmounted>> /\ moved \in Nat
  BY <1>1, LoopStart
<1>4. moved >= Agreed
  <2>1. moved + 0 = data_size_from_cmnd /\ data_size_from_cmnd \in Nat
    BY <1>1, WriteStart
  <2>2. Agreed <= data_size_from_cmnd
    BY <2>1, WholeSectors DEF Agreed
  <2> QED
    BY <1>3, <2>1, <2>2
<1>5. Accounted' /\ Finished'
  BY <1>1, <1>2, <1>3, <1>4, WriteStart DEF Accounted, Finished
<1>6. Loops' /\ pc' \in Pcs
  BY <1>1, <1>3, <1>5, ParsedLoops DEF Return, Pcs
<1>7. TypeControl' /\ TypeCommand' /\ TypeHost'
  BY <1>1, <1>2, <1>6, LoopTypes DEF TypeControl, TypeCommand
<1>8. TypeAmounts' /\ TypeEndpoint'
  BY <1>1, <1>2, <1>3, NoIoType, LoopStart DEF TypeAmounts, TypeEndpoint, Return
<1>9. AccessAllowed' /\ AllUnmountedExact'
  BY <1>2, <1>3, SameEjected DEF AccessAllowed
<1> QED
  BY <1>6, <1>7, <1>8, <1>9

\* What is written at once was asked for, and lies inside the medium.
LEMMA WriteAmountType ==
  ASSUME IInv, scsiUnchanged, pc = "write_wait"
  PROVE  /\ WriteAmount \in Nat /\ io.lba + WriteAmount <= Num
         /\ WriteAmount * BlkLen \in Nat /\ WriteAmount * BlkLen <= bulk.out_length
         /\ bulk.out_length \in Nat
<1> DEFINE room  == Num - io.lba
           bytes == ep.out_bytes
           got   == IF room < bytes \div BlkLen THEN room * BlkLen ELSE bytes
           asked == bulk.out_length
<1>1. /\ room \in Nat /\ io.lba \in Nat /\ Num \in Nat
  BY LoopStart DEF LoopPcs, WritePcs
<1>2. bytes \in Nat /\ asked \in Nat /\ BlkLen \in Nat \ {0}
  BY SizesAssumption DEF IInv, TypeOK, TypeEndpoint, EpType, TypeAmounts
<1>3. WriteAmount = MinOf(got, asked) \div BlkLen
  BY DEF WriteAmount
<1> HIDE DEF room, bytes, asked
<1>4. got \in Nat /\ got \div BlkLen <= room
  <2>1. CASE room < bytes \div BlkLen
    BY <1>1, <1>2, <2>1, DivProduct
  <2>2. CASE ~ (room < bytes \div BlkLen)
    BY <1>1, <1>2, <2>2, WholeSectors
  <2> QED
    BY <2>1, <2>2
<1> HIDE DEF got
<1>5. MinOf(got, asked) \in Nat /\ MinOf(got, asked) <= got /\ MinOf(got, asked) <= asked
  BY <1>2, <1>4, MinOfNat
<1> DEFINE m == MinOf(got, asked)
<1>6. WriteAmount = m \div BlkLen /\ m \in Nat /\ m <= got /\ m <= asked
  BY <1>3, <1>5
<1> HIDE DEF m
<1>7. WriteAmount \in Nat /\ WriteAmount <= got \div BlkLen
  BY <1>2, <1>4, <1>6, DivMonotone
<1>8. WriteAmount * BlkLen \in Nat /\ WriteAmount * BlkLen <= m
  BY <1>2, <1>6, WholeSectors
<1>9. WriteAmount <= room /\ got \div BlkLen \in Nat
  BY <1>1, <1>2, <1>4, <1>7, WholeSectors
<1>10. io.lba + WriteAmount <= Num
  BY <1>1, <1>7, <1>9 DEF room
<1>11. WriteAmount * BlkLen <= asked
  <2> DEFINE w == WriteAmount * BlkLen
  <2>1. w \in Nat /\ w <= m /\ m <= asked
    BY <1>6, <1>8
  <2> HIDE DEF w
  <2>2. w <= asked
    BY <1>2, <1>6, <2>1
  <2> QED
    BY <2>2 DEF w
<1> QED
  BY <1>2, <1>7, <1>8, <1>10, <1>11 DEF asked

\* The loop goes on, or the host stopped early.
LEMMA WriteNextLoops ==
  ASSUME IInv, scsiUnchanged, pc = "write_wait", UNCHANGED <<luns, bulk, usb_amount_left>>,
         NEW len \in Nat, len <= bulk.out_length, Account(len),
         NEW next \in IoType, next.lba \in Nat, next.lba <= Num,
         next.left = io.left - len, next.req = io.req, WriteNext(next)
  PROVE  /\ Loops' /\ AllUnmountedExact' /\ pc' \in Pcs /\ io' \in IoType
         /\ short_packet_received' \in BOOLEAN /\ residue' \in Nat /\ moved' \in Nat
<1> USE DEF IInv, TypeOK
<1>1. pc \in WritePcs /\ pc \in LoopPcs
  BY DEF LoopPcs, WritePcs
<1>2. /\ lun_idx \in Luns /\ state # "ABORT_BULK_OUT" /\ Answered
      /\ UNCHANGED <<state, cmd, lun_idx, data_size_from_cmnd, phase_error,
                     all_luns_unmounted>>
      /\ Num' = Num /\ Num \in Nat /\ residue \in Nat /\ moved \in Nat /\ cmd.size \in Nat
      /\ io.left \in Nat /\ io.req \in Nat /\ ~ Lun.unmounted /\ ~ Lun.unit_attention_data
  BY <1>1, LoopStart
<1>3. /\ cmd.op = "WRITE" /\ ~ Ro[lun_idx]
      /\ io.left <= residue /\ io.req <= usb_amount_left /\ usb_amount_left \in Nat
      /\ moved + io.left = data_size_from_cmnd /\ data_size_from_cmnd \in Nat
      /\ residue + moved = cmd.size
  BY <1>1, WriteStart
<1>4. io.req + bulk.out_length <= io.left /\ bulk.out_length \in Nat
  BY SizesAssumption DEF Loops, InvWrite, TypeAmounts
<1>5. residue' = residue - len /\ moved' = moved + len
  BY DEF Account
<1>6. /\ residue' \in Nat /\ moved' \in Nat /\ residue' + moved' = cmd.size
      /\ next.left \in Nat /\ next.left <= residue' /\ next.req <= next.left
      /\ moved' + next.left = data_size_from_cmnd
  BY <1>2, <1>3, <1>4, <1>5
<1>7. /\ short_packet_received' = (short_packet_received \/ EndedShort)
      /\ pc' = IF EndedShort THEN "parsed" ELSE "wr"
      /\ io' = IF EndedShort THEN NoIo ELSE next
  BY DEF WriteNext
<1>8. pc' \in Pcs /\ io' \in IoType /\ short_packet_received' \in BOOLEAN
  BY <1>7, NoIoType DEF Pcs, TypeCommand
<1>9. AllUnmountedExact'
  BY <1>2, SameEjected
<1>10. Loops'
  <2>1. CASE EndedShort
    BY <1>2, <1>6, <1>7, <2>1, ParsedLoops DEF Accounted, Finished
  <2>2. CASE ~ EndedShort
    <3>1. pc' = "wr" /\ io' = next
      BY <1>7, <2>2
    <3> QED
      BY <1>2, <1>3, <1>6, <3>1
         DEF Loops, InvUnit, InvMedium, InvRead, InvWrite, InvAccount, InvDone, Accounted, Lun,
             ReadPcs, WritePcs
  <2> QED
    BY <2>1, <2>2
<1> QED
  BY <1>6, <1>8, <1>9, <1>10

\* Less than a sector came.
LEMMA WriteNothingInv ==
  ASSUME IInv, WriteNothing
  PROVE  IInv'
<1> USE DEF IInv, TypeOK
<1>1. scsiUnchanged /\ pc = "write_wait" /\ pc \in LoopPcs /\ WriteNext(io)
  BY DEF WriteNothing, LoopPcs, WritePcs
<1>2. UNCHANGED <<luns, residue, usb_amount_left, bulk, ep, emmc_part, dead, moved, disk, faults>>
  BY DEF WriteNothing, storageVars, ghostVars
<1>3. /\ io \in IoType /\ io.lba \in Nat /\ io.lba <= Num /\ io.left = io.left - 0
      /\ residue = residue - 0 /\ moved = moved + 0 /\ 0 <= bulk.out_length
  BY <1>1, LoopStart, WriteAmountType DEF TypeAmounts
<1>4. /\ Loops' /\ AllUnmountedExact' /\ pc' \in Pcs /\ io' \in IoType
      /\ short_packet_received' \in BOOLEAN /\ residue' \in Nat /\ moved' \in Nat
  <2>1. Account(0)
    BY <1>2, <1>3 DEF Account
  <2> QED
    BY <1>1, <1>2, <1>3, <2>1, WriteNextLoops
<1>5. TypeControl' /\ TypeCommand' /\ TypeHost'
  BY <1>1, <1>2, <1>4, LoopTypes DEF TypeControl, TypeCommand
<1>6. data_size_from_cmnd' = data_size_from_cmnd
  BY <1>1, LoopStart
<1>7. TypeAmounts' /\ TypeEndpoint' /\ AccessAllowed'
  BY <1>2, <1>4, <1>6 DEF TypeAmounts, TypeEndpoint, AccessAllowed
<1> QED
  BY <1>4, <1>5, <1>7

\* Sectors are written, or lost with sense data.
LEMMA WriteChunkInv ==
  ASSUME IInv, WriteChunk
  PROVE  IInv'
<1> USE DEF IInv, TypeOK
<1> DEFINE len  == WriteAmount * BlkLen
           next == [io EXCEPT !.lba = @ + WriteAmount, !.left = @ - len]
<1>1. scsiUnchanged /\ pc = "write_wait" /\ pc \in LoopPcs /\ pc \in WritePcs
  BY DEF WriteChunk, LoopPcs, WritePcs
<1>2. PICK how \in Outcomes :
        /\ StorageAccess("write", WriteAmount, how)
        /\ ep' = Scratched(ep, how)
        /\ IF how \in Lost
           THEN /\ SetSense("WRITE_ERROR", io.lba)
                /\ Return
                /\ UNCHANGED <<residue, moved, short_packet_received>>
           ELSE WriteNext(next) /\ Account(len) /\ UNCHANGED luns
  BY DEF WriteChunk
<1>3. UNCHANGED <<usb_amount_left, bulk>>
  BY DEF WriteChunk
<1>4. /\ lun_idx \in Luns /\ data_size_from_cmnd' = data_size_from_cmnd
      /\ io.lba \in Nat /\ io.left \in Nat /\ io.req \in Nat /\ Num \in Nat
  BY <1>1, LoopStart
<1>5. /\ WriteAmount \in Nat \ {0} /\ io.lba + WriteAmount <= Num
      /\ len \in Nat /\ len <= bulk.out_length /\ bulk.out_length \in Nat
  BY <1>1, WriteAmountType DEF WriteChunk
<1>6. /\ emmc_part' \in 0 .. 2 /\ dead' \subseteq {"SD", "EMMC"} /\ faults' \in Nat
      /\ disk' \in Access /\ AccessAllowed'
  BY <1>1, <1>2, <1>4, <1>5, StorageType, WriteStart
<1> HIDE DEF len
<1>7. /\ Loops' /\ AllUnmountedExact' /\ pc' \in Pcs /\ io' \in IoType
      /\ short_packet_received' \in BOOLEAN /\ residue' \in Nat /\ moved' \in Nat
      /\ luns' \in [Luns -> LunState]
  <2>1. CASE how \in Lost
    <3>1. /\ SetSense("WRITE_ERROR", io.lba) /\ Return
          /\ UNCHANGED <<residue, moved, short_packet_received>>
      BY <1>2, <2>1
    <3>2. Loops' /\ AllUnmountedExact' /\ luns' \in [Luns -> LunState] /\ pc' \in Pcs
      BY <1>1, <1>4, <3>1, FailedReturn, LoopSense
    <3> QED
      BY <3>1, <3>2, NoIoType DEF Return, TypeAmounts, TypeCommand
  <2>2. CASE how \notin Lost
    <3>1. WriteNext(next) /\ Account(len) /\ UNCHANGED luns
      BY <1>2, <2>2
    <3>2. io.req + bulk.out_length <= io.left
      BY <1>1 DEF Loops, InvWrite
    <3>3. io.left - len \in Nat /\ io.lba + WriteAmount \in Nat
      BY <1>4, <1>5, <3>2
    <3>4. /\ next \in IoType /\ next.lba = io.lba + WriteAmount
          /\ next.left = io.left - len /\ next.req = io.req
      BY <3>3 DEF TypeAmounts, IoType
    <3> HIDE DEF next
    <3> QED
      BY <1>1, <1>3, <1>5, <3>1, <3>3, <3>4, WriteNextLoops DEF TypeCommand
  <2> QED
    BY <2>1, <2>2
<1>8. TypeControl' /\ TypeCommand' /\ TypeHost'
  BY <1>1, <1>6, <1>7, LoopTypes
<1>9. TypeAmounts'
  BY <1>3, <1>4, <1>6, <1>7 DEF TypeAmounts
<1>10. TypeEndpoint'
  BY <1>2, ScratchedType DEF TypeEndpoint
<1> QED
  BY <1>6, <1>7, <1>8, <1>9, <1>10

-----------------------------------------------------------------------------
(* _scsi_verify.                                                           *)

\* What is verified at once lies inside the medium.
LEMMA VerifyAmountType ==
  ASSUME IInv, scsiUnchanged, pc = "vf"
  PROVE  /\ VerifyAmount \in Nat /\ VerifyAmount <= io.left /\ io.lba + VerifyAmount <= Num
<1>1. /\ io.left \in Nat /\ io.lba \in Nat /\ Num \in Nat /\ io.lba <= Num
  BY LoopStart DEF LoopPcs
<1>2. EpMax \div BlkLen \in Nat
  BY SizesAssumption, WholeSectors
<1>3. MinOf(io.left, EpMax \div BlkLen) \in Nat /\ MinOf(io.left, EpMax \div BlkLen) <= io.left
  BY <1>1, <1>2, MinOfNat
<1>4. Num - io.lba \in Nat
  BY <1>1
<1>5. /\ VerifyAmount \in Nat /\ VerifyAmount <= MinOf(io.left, EpMax \div BlkLen)
      /\ VerifyAmount <= Num - io.lba
  BY <1>3, <1>4, MinOfNat DEF VerifyAmount
<1> QED
  BY <1>1, <1>3, <1>5

\* Out of the loop, with the reply of no data that VERIFY makes.
LEMMA VerifyReturnType ==
  ASSUME IInv, scsiUnchanged, pc = "vf", VerifyReturn
  PROVE  /\ Loops' /\ pc' \in Pcs /\ io' \in IoType /\ residue' \in Nat
         /\ bulk' \in [in_length : 0 .. EpMax, in_buf : Bufs, out_length : 0 .. EpMax,
                       out_ignore : BOOLEAN]
<1>1. /\ lun_idx \in Luns /\ state # "ABORT_BULK_OUT" /\ UNCHANGED <<state, cmd, lun_idx>>
  BY LoopStart DEF LoopPcs
<1>2. cmd.op = "VERIFY"
  BY DEF IInv, Loops, InvAccount
<1>3. Accounted' /\ Finished'
  BY <1>1, <1>2 DEF Accounted, Finished
<1>4. Reply(0) /\ 0 \in 0 .. EpMax /\ pc' = "parsed" /\ io' = NoIo
  BY SizesAssumption DEF VerifyReturn, Return
<1> QED
  BY <1>1, <1>3, <1>4, ParsedLoops, ReplyType, NoIoType DEF IInv, TypeOK, Pcs

\* The medium ends before the request does.
LEMMA VerifyPastEndInv ==
  ASSUME IInv, VerifyPastEnd
  PROVE  IInv'
<1> USE DEF IInv, TypeOK
<1>1. scsiUnchanged /\ pc = "vf" /\ pc \in LoopPcs /\ VerifyReturn
  BY DEF VerifyPastEnd, LoopPcs
<1>2. UNCHANGED <<usb_amount_left, short_packet_received, ep, emmc_part, dead, moved, disk,
                  faults>>
  BY DEF VerifyPastEnd, storageVars, ghostVars
<1>3. /\ lun_idx \in Luns /\ io.lba \in Int
      /\ UNCHANGED <<all_luns_unmounted, data_size_from_cmnd>>
  BY <1>1, LoopStart
<1>4. SetSense("LOGICAL_BLOCK_ADDRESS_OUT_OF_RANGE", io.lba)
  BY DEF VerifyPastEnd
<1>5. luns' \in [Luns -> LunState] /\ AllUnmountedExact'
  BY <1>3, <1>4, SetSenseType, SameEjected, LoopSense
<1>6. TypeControl' /\ TypeCommand' /\ TypeHost'
  BY <1>1, <1>2, <1>5, VerifyReturnType, LoopTypes DEF TypeControl, TypeCommand
<1>7. TypeAmounts' /\ TypeEndpoint' /\ AccessAllowed'
  BY <1>1, <1>2, <1>3, VerifyReturnType DEF TypeAmounts, TypeEndpoint, AccessAllowed
<1> QED
  BY <1>1, <1>5, <1>6, <1>7, VerifyReturnType

\* Sectors are read and forgotten.
LEMMA VerifyChunkInv ==
  ASSUME IInv, VerifyChunk
  PROVE  IInv'
<1> USE DEF IInv, TypeOK
<1>1. scsiUnchanged /\ pc = "vf" /\ pc \in LoopPcs
  BY DEF VerifyChunk, LoopPcs
<1>2. PICK how \in Outcomes :
        /\ StorageAccess("verify", VerifyAmount, how)
        /\ ep' = Scratched(Overwritten(ep, bulk.in_buf), how)
        /\ IF how \in Lost
           THEN SetSense("UNRECOVERED_READ_ERROR", io.lba) /\ VerifyReturn
           ELSE /\ UNCHANGED luns
                /\ IF io.left = VerifyAmount THEN VerifyReturn
                   ELSE /\ io' = [io EXCEPT !.lba = @ + VerifyAmount, !.left = @ - VerifyAmount]
                        /\ UNCHANGED <<pc, bulk, residue>>
        /\ moved' = moved + (IF how \in Lost THEN 0 ELSE VerifyAmount * BlkLen)
  BY DEF VerifyChunk
<1>3. UNCHANGED <<usb_amount_left, short_packet_received>>
  BY DEF VerifyChunk
<1>4. /\ lun_idx \in Luns /\ io.lba \in Nat /\ io.left \in Nat /\ Num \in Nat /\ Num' = Num
      /\ state # "ABORT_BULK_OUT" /\ ~ Lun.unmounted /\ ~ Lun.unit_attention_data
      /\ UNCHANGED <<state, cmd, lun_idx, all_luns_unmounted, data_size_from_cmnd>>
  BY <1>1, LoopStart
<1>5. /\ VerifyAmount \in Nat \ {0} /\ VerifyAmount <= io.left /\ io.lba + VerifyAmount <= Num
  BY <1>1, VerifyAmountType DEF VerifyChunk
<1>12. moved' \in Nat
  <2>1. VerifyAmount * BlkLen \in Nat
    BY <1>5, SizesAssumption, SMT
  <2> QED
    BY <1>2, <2>1 DEF TypeAmounts
<1>6. /\ emmc_part' \in 0 .. 2 /\ dead' \subseteq {"SD", "EMMC"} /\ faults' \in Nat
      /\ disk' \in Access /\ AccessAllowed'
  BY <1>2, <1>4, <1>5, StorageType
<1>7. luns' \in [Luns -> LunState] /\ AllUnmountedExact'
  <2>1. CASE how \in Lost
    <3>1. SetSense("UNRECOVERED_READ_ERROR", io.lba) /\ io.lba \in Int
      BY <1>2, <1>4, <2>1
    <3> QED
      BY <1>4, <3>1, SetSenseType, SameEjected, LoopSense
  <2>2. CASE how \notin Lost
    BY <1>2, <1>4, <2>2, SameEjected DEF TypeCommand
  <2> QED
    BY <2>1, <2>2
<1>8. /\ Loops' /\ pc' \in Pcs /\ io' \in IoType /\ residue' \in Nat
      /\ bulk' \in [in_length : 0 .. EpMax, in_buf : Bufs, out_length : 0 .. EpMax,
                    out_ignore : BOOLEAN]
  <2>1. CASE VerifyReturn
    BY <1>1, <2>1, VerifyReturnType
  <2>2. CASE ~ VerifyReturn
    <3>1. /\ UNCHANGED <<luns, pc, bulk, residue>>
          /\ io' = [io EXCEPT !.lba = @ + VerifyAmount, !.left = @ - VerifyAmount]
      BY <1>2, <2>2
    <3>2. io.lba + VerifyAmount \in Nat /\ io.left - VerifyAmount \in Nat
      BY <1>4, <1>5
    <3>3. io' \in IoType /\ io'.lba = io.lba + VerifyAmount
      BY <3>1, <3>2 DEF TypeAmounts, IoType
    <3>4. cmd.op = "VERIFY"
      BY <1>1 DEF Loops, InvAccount
    <3>5. Loops'
      BY <1>1, <1>4, <1>5, <3>1, <3>3, <3>4
         DEF Loops, InvUnit, InvMedium, InvRead, InvWrite, InvAccount, InvDone, Accounted,
             Finished, Lun, ReadPcs, WritePcs
    <3> QED
      BY <3>1, <3>3, <3>5 DEF TypeControl, TypeAmounts
  <2> QED
    BY <2>1, <2>2
<1>9. TypeControl' /\ TypeCommand' /\ TypeHost'
  BY <1>1, <1>3, <1>6, <1>7, <1>8, LoopTypes DEF TypeCommand
<1>10. TypeAmounts'
  BY <1>3, <1>4, <1>6, <1>8, <1>12 DEF TypeAmounts
<1>11. TypeEndpoint'
  BY <1>2, ScratchedType, OverwrittenType DEF TypeEndpoint, TypeAmounts
<1> QED
  BY <1>6, <1>7, <1>8, <1>9, <1>10, <1>11

-----------------------------------------------------------------------------
(* The invariant.                                                          *)

\* The controller, the host and the operations of the endpoint disturb
\* nothing a command relies on.
LEMMA EndpointInv ==
  ASSUME IInv, EpEvent \/ EpTimeout \/ EpDisabled \/ Hardware
  PROVE  IInv'
<1> USE DEF IInv
<1>1. /\ UNCHANGED <<pc, state, cmdVars, luns, ejectVars, acctVars, cbwVars, bulk, io,
                     storageVars, ghostVars>>
      /\ bulk_reset_req' \in BOOLEAN /\ faults' \in Nat /\ TypeHost' /\ TypeEndpoint'
  <2>1. CASE Hardware
    <3>1. hwUnchanged /\ TypeHost' /\ TypeEndpoint'
      BY <2>1, HardwareFrame, HardwareHost, HardwareEndpoint
    <3>2. Failed \/ NoFault
      BY <2>1 DEF Hardware, OutCbw, OutJunk, OutData, OutShort, OutError, InTake, InError,
                  HostReset, HostStart
    <3>3. faults' \in Nat
      BY <3>2 DEF Failed, NoFault, TypeOK, TypeControl
    <3> QED
      BY <3>1, <3>3 DEF hwUnchanged, excVars, TypeOK, TypeControl
  <2>2. CASE EpEvent \/ EpTimeout \/ EpDisabled
    BY <2>2, OperationRest, OperationEndpoint
  <2> QED
    BY <2>1, <2>2
<1> USE DEF cmdVars, acctVars, ejectVars, storageVars, ghostVars, cbwVars
<1>2. TypeOK'
  BY <1>1 DEF TypeOK, TypeControl, TypeCommand, TypeAmounts
<1>3. Loops'
  BY <1>1 DEF Loops, InvUnit, InvMedium, InvRead, InvWrite, InvAccount, InvDone, InCommand,
              Answered, Accounted, Finished, Agreed, Lun, Num
<1>4. AccessAllowed' /\ AllUnmountedExact'
  BY <1>1 DEF AccessAllowed, AllUnmountedExact
<1> QED
  BY <1>2, <1>3, <1>4

\* A step in which nothing happens.
LEMMA StutterInv ==
  ASSUME IInv, UNCHANGED vars
  PROVE  IInv'
<1> USE DEF IInv, vars, excVars, cmdVars, acctVars, ejectVars, storageVars, ghostVars, cbwVars
<1>1. TypeOK'
  BY DEF TypeOK, TypeControl, TypeCommand, TypeAmounts, TypeEndpoint, TypeHost
<1>2. Loops'
  BY DEF Loops, InvUnit, InvMedium, InvRead, InvWrite, InvAccount, InvDone, InCommand,
         Answered, Accounted, Finished, Agreed, Lun, Num
<1>3. AccessAllowed' /\ AllUnmountedExact'
  BY DEF AccessAllowed, AllUnmountedExact
<1> QED
  BY <1>1, <1>2, <1>3

\* The gadget starts in the invariant.
LEMMA InitInv == Init => IInv
<1> SUFFICES ASSUME Init PROVE IInv
  OBVIOUS
<1> USE DEF Init
<1>1. PICK c \in Cbws : cmd = c /\ host.cbw = c
  BY HostAssumption
<1>2. TypeControl
  <2>1. pc \in Pcs /\ state \in States /\ exit_msg \in {"none", "ejected", "unsafe"}
    BY DEF Pcs, States
  <2>2. /\ bulk_reset_req \in BOOLEAN /\ all_luns_unmounted \in BOOLEAN
        /\ cbw_req_queued \in BOOLEAN /\ xusb \in BOOLEAN
    OBVIOUS
  <2>3. timeouts \in Nat /\ emmc_part \in 0 .. 2 /\ dead \subseteq {"SD", "EMMC"} /\ faults \in Nat
    OBVIOUS
  <2> QED
    BY <2>1, <2>2, <2>3 DEF TypeControl
<1> DEFINE unit == [prevent_medium_removal |-> FALSE, unmounted |-> FALSE,
                    sense_data |-> "NO_SENSE", sense_data_info |-> NoInfo,
                    unit_attention_data |-> TRUE]
<1>3. luns = [l \in Luns |-> unit] /\ unit \in LunState /\ unit.unmounted = FALSE
  BY DEF LunState, Sense, NoInfo
<1> HIDE DEF unit
<1>4. TypeCommand
  <2>1. luns \in [Luns -> LunState] /\ lun_idx \in Luns \cup {NoLun} /\ tag \in {0, 1}
    BY <1>3
  <2>2. phase_error \in BOOLEAN /\ short_packet_received \in BOOLEAN
    OBVIOUS
  <2> QED
    BY <1>1, <2>1, <2>2 DEF TypeCommand
<1>5. TypeAmounts
  BY SizesAssumption, NoIoType DEF TypeAmounts, Bufs, Access
<1>6. TypeEndpoint
  <2>1. 0 \in 0 .. U32 - 1
    BY SizesAssumption
  <2>2. <<>> \in Seq(InTrb) /\ <<>> \in Seq(OutTrb) /\ <<>> \in Seq(EpEvt)
    BY EmptySeq
  <2> QED
    BY <2>1, <2>2 DEF TypeEndpoint, EpType, Results, Pkt
<1>7. TypeHost
  BY <1>1 DEF TypeHost
<1>8. Loops
  BY DEF Loops, InvUnit, InvMedium, InvRead, InvWrite, InvAccount, InvDone, InCommand,
         Answered, ReadPcs, WritePcs
<1>9. AccessAllowed
  BY DEF AccessAllowed
<1>10. AllUnmountedExact
  <2>1. 0 \in Luns
    BY SizesAssumption DEF Luns
  <2>2. luns[0].unmounted = FALSE /\ all_luns_unmounted = FALSE
    BY <1>3, <2>1
  <2> QED
    BY <2>1, <2>2 DEF AllUnmountedExact
<1> QED
  BY <1>2, <1>4, <1>5, <1>6, <1>7, <1>8, <1>9, <1>10 DEF IInv, TypeOK

\* Every step keeps the invariant.
LEMMA StepInv == IInv /\ [Next]_vars => IInv'
<1> SUFFICES ASSUME IInv, [Next]_vars PROVE IInv'
  OBVIOUS
<1>1. CASE EpEvent \/ EpTimeout \/ EpDisabled \/ Hardware
  BY <1>1, EndpointInv
<1>2. CASE GetCommand \/ ReceiveCommand
  BY <1>2, GetCommandInv, RejectInv, CbwAcceptInv DEF ReceiveCommand
<1>3. CASE Parse
  BY <1>3, ParseRefuseInv, ParseReplyInv, ParseControlInv, ParseTransferInv DEF Parse
<1>4. CASE Transfer
  BY <1>4, ReadChunkInv, ReadPastEndInv, ReadAccountInv, WriteRequestInv, WriteFailedInv,
     WriteEndInv, WriteNothingInv, WriteChunkInv, VerifyChunkInv, VerifyPastEndInv DEF Transfer
<1>5. CASE FinishReply \/ SendStatus \/ StatusSent
  BY <1>5, ReplyStepInv, ReplyLastInv, ReplyPadInv, PadSendInv, ReplySentInv, ThrowAwayInv,
     SendStatusInv DEF FinishReply
<1>6. CASE HandleException \/ ComboExit
  BY <1>6, HandleAbortInv, HandleResetInv, ComboExitInv DEF HandleException
<1>7. CASE WriteSpin \/ Done \/ UNCHANGED vars
  BY <1>7, StutterInv DEF WriteSpin, Done
<1> QED
  BY <1>1, <1>2, <1>3, <1>4, <1>5, <1>6, <1>7 DEF Next, Thread

-----------------------------------------------------------------------------
(* Ejection: why the loop waits for a locked unit.                         *)

\* No result of an operation tells of a disabled endpoint.
Present(e) ==
  e.res # "disabled" /\ \A i \in DOMAIN e.events : e.events[i].res # "disabled"

LockedIn == \E l \in Luns : luns[l].prevent_medium_removal /\ ~ luns[l].unmounted

\* The count that ends the loop stands still while a unit is locked, and starts
\* from zero with the command that locks one.
InvCount ==
  /\ LockedIn => timeouts = 0
  /\ InCommand => timeouts = 0 \/ all_luns_unmounted
  /\ state = "EXIT" => ~ LockedIn /\ pc \in {"top", "exit"}

LockInv == IInv /\ Connected /\ Present(ep) /\ InvCount

\* The thread handles no event itself; its requests start with the result "ok".
LEMMA ThreadEvents ==
  ASSUME IInv, Thread \/ ComboExit
  PROVE  ep'.events = ep.events /\ ep'.in_op = ep.in_op /\ ep'.res \in {ep.res, "ok"}
<1> DEFINE Same(e) == e.events = ep.events /\ e.in_op = ep.in_op /\ e.res \in {ep.res, "ok"}
<1>1. ep \in EpType
  BY DEF IInv, TypeOK, TypeEndpoint
<1>2. Same(ep)
  OBVIOUS
<1>3. ASSUME NEW e, Same(e), DOMAIN e = DOMAIN ep, NEW buf, NEW how
      PROVE  /\ Same(Overwritten(e, buf)) /\ DOMAIN Overwritten(e, buf) = DOMAIN ep
             /\ Same(Scratched(e, how)) /\ DOMAIN Scratched(e, how) = DOMAIN ep
             /\ Same(Finish(e))
  BY <1>1, <1>3 DEF Overwritten, Scratched, Finish, EpType
<1>4. ASSUME NEW e, Same(e), DOMAIN e = DOMAIN ep, NEW buf, NEW len, NEW kind
      PROVE  Same(InWrite(e, buf, len, kind)) /\ Same(InStart(e, buf, len)) /\ Same(OutRead(e, len))
  BY <1>1, <1>4 DEF InWrite, InStart, OutRead, EpType
<1> HIDE DEF Same
<1>5. CASE GetCommand
  BY <1>2, <1>3, <1>4, <1>5 DEF GetCommand, RequestCommand, Same
<1>6. CASE ReceiveCommand \/ Parse
  <2>1. ep' = ep \/ ep' = Overwritten(ep, bulk.in_buf)
    BY <1>6 DEF ReceiveCommand, CbwDropped, CbwInvalid, CbwForeign, CbwAccept, Received, Parse,
       ParseRefuse, ParseReply, ParseControl, ParseTransfer
  <2> QED
    BY <1>2, <1>3, <2>1 DEF Same
<1>7. CASE ReadChunk
  <2>1. PICK how : \/ ep' = Scratched(Overwritten(ep, io.cur), how)
                   \/ ep' = Finish(Scratched(Overwritten(ep, io.cur), how))
    BY <1>7 DEF ReadChunk
  <2> DEFINE e1 == Overwritten(ep, io.cur)
             e2 == Scratched(e1, how)
  <2>2. Same(e1) /\ DOMAIN e1 = DOMAIN ep
    BY <1>2, <1>3
  <2> HIDE DEF e1
  <2>3. Same(e2) /\ DOMAIN e2 = DOMAIN ep
    BY <1>3, <2>2
  <2> HIDE DEF e2
  <2>4. Same(e2) /\ Same(Finish(e2))
    BY <1>3, <2>3
  <2>5. Same(ep')
    BY <2>1, <2>4 DEF e1, e2
  <2> QED
    BY <2>5 DEF Same
<1>8. CASE WriteChunk \/ VerifyChunk
  <2>1. PICK how : ep' = Scratched(ep, how) \/ ep' = Scratched(Overwritten(ep, bulk.in_buf), how)
    BY <1>8 DEF WriteChunk, VerifyChunk
  <2> QED
    BY <1>2, <1>3, <2>1 DEF Same
<1>9. CASE ReadAccount \/ WriteRequest
  <2>1. \/ ep' = ep \/ ep' = InStart(ep, io.cur, io.n * BlkLen)
        \/ ep' = OutRead(ep, MinOf(io.req, EpMax))
    BY <1>9 DEF ReadAccount, WriteRequest
  <2> QED
    BY <1>2, <1>4, <2>1 DEF Same
<1>10. CASE ReadPastEnd \/ WritePastEnd \/ WriteEnd \/ WriteCommFailure \/ WriteNothing
            \/ VerifyPastEnd
  BY <1>10 DEF ReadPastEnd, WritePastEnd, WriteEnd, WriteCommFailure, WriteNothing, VerifyPastEnd
<1>11. CASE FinishReply
  <2>1. \/ ep' = ep \/ ep' = InWrite(ep, bulk.in_buf, bulk.in_length, "data")
        \/ ep' = InWrite(Overwritten(ep, bulk.in_buf), bulk.in_buf, PadLen, "data")
        \/ ep' = InWrite(ep, bulk.in_buf, PadLen, "data")
        \/ ep' = OutRead(ep, MinOf(usb_amount_left, EpMax))
    BY <1>11 DEF FinishReply, Parsed, ReplyNone, ReplyLast, ReplyPad, PadSend, PadNext, ReplySent,
       ReplyShort, ThrowAway, ThrownAway
  <2> QED
    BY <1>2, <1>3, <1>4, <2>1 DEF Same
<1>12. CASE SendStatus \/ StatusSent \/ HandleException \/ ComboExit
  <2>1. \/ ep' = ep
        \/ ep' = InWrite(Overwritten(ep, bulk.in_buf), bulk.in_buf, CswLen, "csw")
    BY <1>12 DEF SendStatus, StatusSent, HandleException, HandleAbort, HandleReset, HandleExit,
       ComboExit, excUnchanged
  <2> QED
    BY <1>2, <1>3, <1>4, <2>1 DEF Same
<1> QED
  BY <1>5, <1>6, <1>7, <1>8, <1>9, <1>10, <1>11, <1>12 DEF Thread, Transfer

\* Without that fault no operation and no event brings the result.
LEMMA EndpointPresent ==
  ASSUME IInv, Connected, Present(ep), EpEvent \/ EpTimeout \/ EpDisabled \/ Hardware
  PROVE  Present(ep')
<1>1. ep \in EpType /\ ep.events \in Seq(EpEvt)
  BY DEF IInv, TypeOK, TypeEndpoint, EpType
<1>2. ~ EpDisabled
  BY DEF EpDisabled, MayFail, Connected
<1>3. CASE EpTimeout
  BY <1>1, <1>3 DEF EpTimeout, Present, EpType
<1>4. CASE EpEvent
  <2> DEFINE ev == Head(ep.events)
  <2>1. ep'.res = ev.res /\ ep'.events = Tail(ep.events) /\ ep.events # <<>>
    BY <1>1, <1>4 DEF EpEvent, Transferred, EpType
  <2>2. \A i \in 1 .. Len(ep.events) : ep.events[i].res # "disabled"
    BY <1>1 DEF Present
  <2>3. ev = ep.events[1] /\ Len(ep.events) \in Nat \ {0}
    BY <1>1, <2>1, HeadTailProperties, EmptySeq
  <2>4. Tail(ep.events) \in Seq(EpEvt) /\ Len(Tail(ep.events)) = Len(ep.events) - 1
        /\ \A i \in 1 .. Len(Tail(ep.events)) : Tail(ep.events)[i] = ep.events[i + 1]
    BY <1>1, <2>1, HeadTailProperties
  <2> QED
    BY <2>1, <2>2, <2>3, <2>4 DEF Present
<1>5. CASE Hardware
  <2>1. \/ UNCHANGED ep
        \/ \E v \in EpEvt : v.res \in {"ok", "error"} /\ ep'.events = Append(ep.events, v)
                            /\ ep'.res = ep.res
    <3>1. CASE \E resid \in Nat, pkt \in Pkt : OutDone(resid, pkt)
      <4>1. PICK resid \in Nat, pkt \in Pkt : OutDone(resid, pkt)
        BY <3>1
      <4> DEFINE v == [ep |-> "out", res |-> "ok", resid |-> resid, pkt |-> pkt]
      <4>2. v \in EpEvt /\ v.res = "ok"
        BY DEF EpEvt, Results
      <4>3. ep'.events = Append(ep.events, v) /\ ep'.res = ep.res
        BY <1>1, <4>1 DEF OutDone, Overwritten, EpType
      <4> QED
        BY <4>2, <4>3
    <3>2. CASE OutFailed
      <4> DEFINE v == [ep |-> "out", res |-> "error", resid |-> 0, pkt |-> NoPkt]
      <4>1. v \in EpEvt /\ v.res = "error"
        BY DEF EpEvt, Results, Pkt
      <4>2. ep'.events = Append(ep.events, v) /\ ep'.res = ep.res
        BY <1>1, <3>2 DEF OutFailed, EpType
      <4> QED
        BY <4>1, <4>2
    <3>3. CASE \E r \in {"ok", "error"} : InDone(r)
      <4>1. PICK r \in {"ok", "error"} : InDone(r)
        BY <3>3
      <4> DEFINE v == [ep |-> "in", res |-> r, resid |-> 0, pkt |-> NoPkt]
      <4>2. v \in EpEvt /\ v.res = r
        BY DEF EpEvt, Results, Pkt
      <4>3. ep'.events = Append(ep.events, v) /\ ep'.res = ep.res
        BY <1>1, <4>1 DEF InDone, EpType
      <4> QED
        BY <4>2, <4>3
    <3>4. CASE HostReset
      <4> DEFINE v == [ep |-> "reset", res |-> "ok", resid |-> 0, pkt |-> NoPkt]
      <4>1. v \in EpEvt /\ v.res = "ok"
        BY DEF EpEvt, Results, Pkt
      <4>2. ep'.events = Append(ep.events, v) /\ ep'.res = ep.res
        BY <1>1, <3>4 DEF HostReset, EpType
      <4> QED
        BY <4>1, <4>2
    <3>5. CASE \E c \in Cbws : HostStart(c)
      BY <3>5 DEF HostStart
    <3> QED
      BY <1>5, <3>1, <3>2, <3>3, <3>4, <3>5, HardwareDone DEF IInv
  <2>2. ASSUME NEW v \in EpEvt, v.res \in {"ok", "error"}, ep'.events = Append(ep.events, v),
               ep'.res = ep.res
        PROVE  Present(ep')
    <3>1. DOMAIN ep'.events = 1 .. Len(ep.events) + 1 /\ DOMAIN ep.events = 1 .. Len(ep.events)
          /\ \A i \in 1 .. Len(ep.events) : ep'.events[i] = ep.events[i]
          /\ ep'.events[Len(ep.events) + 1] = v
      BY <1>1, <2>2, AppendProperties
    <3> QED
      BY <1>1, <2>2, <3>1 DEF Present
  <2> QED
    BY <2>1, <2>2
<1> QED
  BY <1>2, <1>3, <1>4, <1>5

\* A step that locks nothing and starts no command keeps the count in order.
LEMMA CountKept ==
  ASSUME InvCount, LockedIn' => LockedIn, timeouts' \in {timeouts, 0}, InCommand' => InCommand,
         UNCHANGED all_luns_unmounted, state' = "EXIT" => state = "EXIT" /\ pc' \in {"top", "exit"}
  PROVE  InvCount'
BY DEF InvCount

\* Sense data and a reset lock nothing.
LEMMA SameLocks ==
  ASSUME TypeCommand,
         \/ UNCHANGED luns
         \/ lun_idx \in Luns /\ \E s \in Sense, i \in Int : SetSense(s, i)
         \/ lun_idx \in Luns /\ \E ua \in BOOLEAN : luns' = [luns EXCEPT ![lun_idx] = Forgotten(@, ua)]
  PROVE  LockedIn' => LockedIn
<1>1. CASE UNCHANGED luns
  BY <1>1 DEF LockedIn
<1>2. CASE lun_idx \in Luns /\ \E s \in Sense, i \in Int : SetSense(s, i)
  BY <1>2 DEF LockedIn, SetSense, WithSense, TypeCommand, LunState
<1>3. CASE lun_idx \in Luns /\ \E ua \in BOOLEAN : luns' = [luns EXCEPT ![lun_idx] = Forgotten(@, ua)]
  BY <1>3 DEF LockedIn, Forgotten, WithSense, TypeCommand, LunState
<1> QED
  BY <1>1, <1>2, <1>3

\* Whatever is received, a locked unit keeps the count at zero.
LEMMA ReceptionCount ==
  ASSUME LockInv, GetCommand \/ ReceiveCommand
  PROVE  InvCount'
<1> USE DEF LockInv, IInv
<1>1. state \in States /\ bulk_reset_req \in BOOLEAN /\ timeouts \in Nat /\ "EXIT" \in States
  BY DEF TypeOK, TypeControl, States
<1>2. state \notin {"ABORT_BULK_OUT", "EXIT"} /\ LockedIn' = LockedIn
      /\ UNCHANGED all_luns_unmounted
  BY DEF Loops, InvUnit, InvCount, GetCommand, ReceiveCommand, CbwDropped, CbwInvalid,
         CbwForeign, CbwAccept, Received, LockedIn, ejectVars
<1>3. CASE GetCommand
  <2>1. pc' = "cbw" /\ timeouts' = timeouts /\ state' \in {"NORMAL", "PROTOCOL_RESET"}
    BY <1>1, <1>3 DEF GetCommand, HandleEp0, Raise, States
  <2> QED
    BY <1>2, <2>1, CountKept DEF InCommand
<1>4. LockedIn => ~ all_luns_unmounted /\ AnyPrevent
  BY DEF LockedIn, AllUnmountedExact, AnyPrevent
<1>5. CASE CbwDropped \/ CbwInvalid \/ CbwForeign
  <2>1. Received /\ pc' = "top"
    BY <1>5 DEF CbwDropped, CbwInvalid, CbwForeign
  <2>2. Raise("EXIT") # "ABORT_BULK_OUT"
    BY <1>1, <1>2, RaiseType
  <2>3. CASE UNCHANGED <<timeouts, state>>
    BY <1>2, <2>1, <2>3, CountKept DEF InCommand
  <2>4. CASE ~ UNCHANGED <<timeouts, state>>
    <3>1. PICK asleep : timeouts' = timeouts + Penalty(asleep)
                        /\ state' = IF timeouts' > 20 THEN Raise("EXIT") ELSE state
      BY <2>1, <2>4 DEF Received
    <3>2. LockedIn => Penalty(asleep) = 0
      BY <1>4 DEF Penalty, Present
    <3>3. LockedIn => timeouts' = 0
      BY <3>1, <3>2 DEF InvCount
    <3>4. state' = "EXIT" => ~ LockedIn
      BY <1>2, <3>1, <3>3
    <3>5. state' # "ABORT_BULK_OUT"
      BY <1>2, <2>2, <3>1
    <3> QED
      BY <1>2, <2>1, <3>3, <3>4, <3>5 DEF InvCount, InCommand
  <2> QED
    BY <2>3, <2>4
<1>6. CASE CbwAccept
  BY <1>2, <1>4, <1>6 DEF CbwAccept, InvCount, Continue
<1> QED
  BY <1>3, <1>5, <1>6 DEF ReceiveCommand

\* A command locks a unit only while the count is zero.
LEMMA ParseCount ==
  ASSUME LockInv, IInv', Parse
  PROVE  InvCount'
<1> USE DEF LockInv
<1>1. ParseStart /\ pc = "parse"
  BY DEF Parse, ParseRefuse, ParseReply, ParseControl, ParseTransfer, ParseStart
<1>2. lun_idx \in Luns
  BY <1>1, ParseStartType
<1>3. timeouts' = timeouts /\ (timeouts = 0 \/ all_luns_unmounted)
  BY <1>1 DEF ParseStart, cbwVars, InvCount, InCommand, Pcs
<1>4. state' # "EXIT"
  <2>1. state # "EXIT" /\ state \in States /\ "PROTOCOL_RESET" \in States
    BY <1>1 DEF InvCount, IInv, TypeOK, TypeControl, States
  <2> QED
    BY <1>1, <2>1, RaiseType DEF ParseStart, HandleEp0
<1>5. all_luns_unmounted => all_luns_unmounted' /\ ~ LockedIn'
  <2>1. \A l \in Luns : luns[l].unmounted => luns'[l].unmounted
    <3>1. luns \in [Luns -> LunState]
      BY DEF IInv, TypeOK, TypeCommand
    <3>2. CASE ParseRefuse \/ ParseReply
      <4>1. \/ UNCHANGED luns
            \/ \E s, i, ua : luns' = [luns EXCEPT ![lun_idx] =
                                  [WithSense(@, s, i) EXCEPT !.unit_attention_data = ua]]
            \/ \E s, i : luns' = [luns EXCEPT ![lun_idx] = WithSense(@, s, i)]
        BY <3>2 DEF ParseRefuse, ParseReply, Cleared
      <4>2. CASE UNCHANGED luns
        BY <4>2
      <4>3. CASE \E s, i, ua : luns' = [luns EXCEPT ![lun_idx] =
                                  [WithSense(@, s, i) EXCEPT !.unit_attention_data = ua]]
        BY <1>2, <3>1, <4>3 DEF WithSense, LunState
      <4>4. CASE \E s, i : luns' = [luns EXCEPT ![lun_idx] = WithSense(@, s, i)]
        BY <1>2, <3>1, <4>4 DEF WithSense, LunState
      <4> QED
        BY <4>1, <4>2, <4>3, <4>4
    <3>3. CASE ParseControl
      <4>1. luns' = [luns EXCEPT ![lun_idx] = Controlled(@)]
        BY <3>3 DEF ParseControl
      <4>2. luns[lun_idx].unmounted => Controlled(luns[lun_idx]).unmounted
        BY <1>2, <3>1 DEF Controlled, Cleared, WithSense, LunState
      <4> QED
        BY <1>2, <3>1, <4>1, <4>2
    <3>4. CASE ParseTransfer
      BY <1>2, <3>1, <3>4 DEF ParseTransfer, SetSense, WithSense, LunState
    <3> QED
      BY <3>2, <3>3, <3>4 DEF Parse
  <2> QED
    BY <2>1 DEF IInv, AllUnmountedExact, LockedIn
<1> QED
  BY <1>3, <1>4, <1>5 DEF InvCount

\* The loops and the answer lock nothing.
LEMMA TransferCount ==
  ASSUME LockInv, Transfer
  PROVE  InvCount'
<1> USE DEF LockInv
<1>1. scsiUnchanged /\ pc \in LoopPcs
  BY DEF Transfer, ReadChunk, ReadPastEnd, ReadAccount, WriteRequest, WritePastEnd, WriteEnd,
         WriteCommFailure, WriteNothing, WriteChunk, VerifyChunk, VerifyPastEnd, LoopPcs,
         ReadPcs, WritePcs
<1>2. lun_idx \in Luns /\ Answered /\ state' = state /\ timeouts' = timeouts
      /\ UNCHANGED all_luns_unmounted /\ io.lba \in Int /\ io.usb_lba \in Int
  BY <1>1, LoopStart DEF scsiUnchanged, cbwVars
<1>3. UNCHANGED luns \/ \E s \in Sense, i \in Int : SetSense(s, i)
  BY <1>2, LoopSense DEF Transfer, ReadChunk, ReadPastEnd, ReadAccount, WriteRequest, WritePastEnd,
     WriteEnd, WriteCommFailure, WriteNothing, WriteChunk, VerifyChunk, VerifyPastEnd
<1>4. InCommand /\ state # "EXIT"
  BY <1>1, <1>2 DEF Answered, InCommand, InvCount, LoopPcs, ReadPcs, WritePcs
<1> QED
  BY <1>2, <1>3, <1>4, SameLocks, CountKept DEF IInv, TypeOK

\* Nor do the answer and the exceptions.
LEMMA ReplyCount ==
  ASSUME LockInv, FinishReply \/ SendStatus \/ StatusSent \/ HandleException \/ ComboExit
  PROVE  InvCount'
<1> USE DEF LockInv
<1>1. state \in States /\ "ABORT_BULK_OUT" \in States /\ "PROTOCOL_RESET" \in States
  BY DEF IInv, TypeOK, TypeControl, States
<1>2. CASE FinishReply \/ SendStatus \/ StatusSent
  <2>1. replyUnchanged /\ pc \in ReplyPcs /\ InCommand
    BY <1>2 DEF FinishReply, Parsed, ReplyNone, ReplyLast, ReplyPad, PadSend, PadNext, ReplySent,
       ReplyShort, ThrowAway, ThrownAway, SendStatus, StatusSent, ReplyPcs, InCommand, Pcs,
       OutWaits, InWaits
  <2>2. state # "EXIT"
    BY <2>1 DEF InvCount, ReplyPcs
  <2>3. state' # "EXIT"
    BY <1>1, <1>2, <2>2, RaiseType DEF FinishReply, Parsed, HandleEp0, ReplyNone, ReplyLast,
       ReplyPad, PadSend, PadNext, ReplySent, ReplyShort, ThrowAway, ThrownAway, SendStatus,
       StatusSent, excVars
  <2> QED
    BY <2>1, <2>3, CountKept DEF replyUnchanged, LockedIn, ejectVars, cbwVars
<1>3. CASE HandleAbort \/ ComboExit
  BY <1>3, CountKept DEF HandleAbort, ComboExit, excUnchanged, LockedIn, InCommand
<1>4. CASE HandleReset \/ HandleExit
  <2>1. LockedIn' => LockedIn
    <3>1. lun_idx \in Luns \cup {NoLun} /\ TypeCommand
      BY DEF IInv, TypeOK, TypeCommand
    <3> QED
      BY <1>4, <3>1, SameLocks DEF HandleReset, HandleExit
  <2> QED
    BY <1>4, <2>1, CountKept DEF HandleReset, HandleExit, excUnchanged, InCommand
<1> QED
  BY <1>2, <1>3, <1>4 DEF HandleException

\* Every step keeps the count in order.
LEMMA LockStep == LockInv /\ [Next]_vars => LockInv'
<1> SUFFICES ASSUME LockInv, [Next]_vars PROVE LockInv'
  OBVIOUS
<1>1. IInv'
  BY StepInv DEF LockInv
<1>2. CASE EpEvent \/ EpTimeout \/ EpDisabled \/ Hardware
  <2>1. UNCHANGED <<pc, state, luns, ejectVars, cbwVars>>
    BY <1>2, HardwareFrame, OperationRest DEF LockInv, IInv, hwUnchanged, excVars
  <2>2. InvCount'
    BY <2>1, CountKept DEF LockInv, LockedIn, InCommand, InvCount, ejectVars, cbwVars
  <2> QED
    BY <1>1, <1>2, <2>2, EndpointPresent DEF LockInv
<1>3. CASE Thread \/ ComboExit
  <2>1. Present(ep')
    BY <1>3, ThreadEvents DEF LockInv, Present
  <2>2. InvCount'
    BY <1>1, <1>3, ReceptionCount, ParseCount, TransferCount, ReplyCount DEF Thread
  <2> QED
    BY <1>1, <2>1, <2>2 DEF LockInv
<1>4. CASE WriteSpin \/ Done \/ UNCHANGED vars
  BY <1>1, <1>4 DEF WriteSpin, Done, vars, excVars, ejectVars, cbwVars, LockInv, Present, InvCount,
     LockedIn, InCommand
<1> QED
  BY <1>2, <1>3, <1>4 DEF Next

-----------------------------------------------------------------------------
(* The partition of the unit in use.                                       *)

\* The partition of the unit in use is selected.
InvSelected ==
  /\ dead = {}
  /\ lun_idx \in Luns /\ LunType[lun_idx] = "EMMC" => emmc_part = LunPart[lun_idx]

PartInv == IInv /\ CardsHold /\ InvSelected /\ PartitionRight

\* Only an access to the medium and the selection of a unit matter.
LEMMA SamePart ==
  ASSUME PartInv, UNCHANGED <<lun_idx, storageVars>>, disk' \in {disk, NoAccess}
  PROVE  InvSelected' /\ PartitionRight'
BY DEF PartInv, InvSelected, PartitionRight, storageVars

\* An access finds the partition of its unit selected.
LEMMA AccessPart ==
  ASSUME PartInv, ReadChunk \/ WriteChunk \/ VerifyChunk
  PROVE  InvSelected' /\ PartitionRight'
<1> USE DEF PartInv
<1>1. scsiUnchanged /\ lun_idx \in Luns
  BY LoopStart DEF ReadChunk, WriteChunk, VerifyChunk, LoopPcs, ReadPcs, WritePcs
<1>2. PICK how \in Outcomes : \E op, n : StorageAccess(op, n, how)
  BY DEF ReadChunk, WriteChunk, VerifyChunk
<1>3. PICK op, n : StorageAccess(op, n, how)
  BY <1>2
<1>4. how = "ok"
  BY <1>2, <1>3 DEF Outcomes, Dead, InvSelected, StorageAccess, MayFail, CardsHold
<1>5. /\ emmc_part' = emmc_part /\ dead' = dead /\ lun_idx' = lun_idx
      /\ disk' = [op |-> op, lun |-> lun_idx, lba |-> io.lba, n |-> n, part |-> emmc_part]
  BY <1>1, <1>3, <1>4 DEF StorageAccess, scsiUnchanged, cmdVars
<1>6. disk'.lun = lun_idx /\ disk'.part = emmc_part
  BY <1>5
<1> QED
  BY <1>1, <1>5, <1>6 DEF InvSelected, PartitionRight

\* Every step keeps the partition of the unit in use selected.
LEMMA PartStep == PartInv /\ [Next]_vars => PartInv'
<1> SUFFICES ASSUME PartInv, [Next]_vars PROVE InvSelected' /\ PartitionRight'
  BY StepInv DEF PartInv
<1>1. CASE EpEvent \/ EpTimeout \/ EpDisabled \/ Hardware
  BY <1>1, HardwareFrame, OperationRest, SamePart DEF PartInv, IInv, hwUnchanged, cmdVars, ghostVars
<1>2. CASE GetCommand \/ CbwDropped \/ CbwInvalid \/ CbwForeign
  BY <1>2, SamePart DEF GetCommand, CbwDropped, CbwInvalid, CbwForeign, cmdVars, ghostVars
<1>3. CASE CbwAccept
  <2>1. /\ lun_idx' \in Luns /\ SelectPartition(lun_idx') /\ dead' = dead /\ disk' = NoAccess
        /\ lun_idx' = ep.rx.cbw.lun
    BY <1>3 DEF CbwAccept
  <2>2. "EMMC" \notin dead /\ "partition" \notin Faults /\ dead = {}
    BY DEF PartInv, InvSelected, CardsHold
  <2>3. LunType[lun_idx'] = "EMMC" => emmc_part' = LunPart[lun_idx']
    BY <2>1, <2>2 DEF SelectPartition, PartInv, InvSelected
  <2> QED
    BY <2>1, <2>2, <2>3 DEF InvSelected, PartitionRight
<1>4. CASE Parse
  BY <1>4, SamePart DEF Parse, ParseRefuse, ParseReply, ParseControl, ParseTransfer, ParseStart,
     cmdVars, ghostVars
<1>5. CASE ReadPastEnd \/ ReadAccount \/ WriteRequest \/ WritePastEnd \/ WriteEnd
           \/ WriteCommFailure \/ WriteNothing \/ VerifyPastEnd
  BY <1>5, SamePart DEF ReadPastEnd, ReadAccount, WriteRequest, WritePastEnd, WriteEnd,
     WriteCommFailure, WriteNothing, VerifyPastEnd, scsiUnchanged, cmdVars, ghostVars
<1>6. CASE FinishReply \/ SendStatus \/ StatusSent
  BY <1>6, SamePart DEF FinishReply, Parsed, ReplyNone, ReplyLast, ReplyPad, PadSend, PadNext,
     ReplySent, ReplyShort, ThrowAway, ThrownAway, SendStatus, StatusSent, replyUnchanged,
     cmdVars, ghostVars
<1>7. CASE HandleException \/ ComboExit
  BY <1>7, SamePart DEF HandleException, HandleAbort, HandleReset, HandleExit, ComboExit,
     excUnchanged, cmdVars, ghostVars
<1>8. CASE WriteSpin \/ Done \/ UNCHANGED vars
  BY <1>8, SamePart DEF WriteSpin, Done, vars, cmdVars, ghostVars
<1> QED
  BY <1>1, <1>2, <1>3, <1>4, <1>5, <1>6, <1>7, <1>8, AccessPart DEF Next, Thread, ReceiveCommand,
     Transfer

-----------------------------------------------------------------------------
(* The theorems.                                                           *)

\* The main loop keeps the invariant, whatever the host and the media do.
THEOREM Invariance == Spec => []IInv
BY InitInv, StepInv, PTL DEF Spec

\* No length, counter or address of the gadget leaves its range: no amount
\* wraps around below zero and no transfer exceeds the endpoint's buffer.
THEOREM TypeCorrect == Spec => []TypeOK
<1>1. IInv => TypeOK
  BY DEF IInv
<1> QED
  BY <1>1, Invariance, PTL

\* No access leaves the sectors of its volume, none writes to a volume mounted
\* read-only: the bounds checks of _scsi_read, _scsi_write and _scsi_verify.
THEOREM MediaSafe == Spec => []AccessAllowed
<1>1. IInv => AccessAllowed
  BY DEF IInv
<1> QED
  BY <1>1, Invariance, PTL

\* all_luns_unmounted is exact: EJECT of _scsi_start_stop is the only code that
\* computes it, and no other command ejects a unit or brings one back.
THEOREM EjectedExact == Spec => []AllUnmountedExact
<1>1. IInv => AllUnmountedExact
  BY DEF IInv
<1> QED
  BY <1>1, Invariance, PTL

\* The residue of the status (_send_status) is what was not moved.
THEOREM ResidueExact == Spec => []ResidueTruthful
<1>1. IInv => ResidueTruthful
  <2> SUFFICES ASSUME IInv, pc = "csw_wait", cmd.op \in {"READ", "WRITE"}
               PROVE  residue = cmd.size - moved
    BY DEF ResidueTruthful
  <2>1. residue + moved = cmd.size
    BY DEF IInv, Loops, InvAccount, Accounted, Answered, Pcs, InWaits
  <2>2. residue \in Nat /\ moved \in Nat
    BY DEF IInv, TypeOK, TypeAmounts
  <2> QED
    BY <2>1, <2>2
<1> QED
  BY <1>1, Invariance, PTL

\* A command passes only if all its sectors were moved or the host ended early.
THEOREM PassExact == Spec => []PassMeansDone
<1>1. IInv => PassMeansDone
  <2> SUFFICES ASSUME IInv, pc = "csw_wait", cmd.op \in {"READ", "WRITE"}, Status = "PASS"
               PROVE  moved >= Agreed \/ short_packet_received
    BY DEF PassMeansDone, Agreed
  <2>1. Finished
    BY DEF IInv, Loops, InvDone, Answered, ReadPcs, WritePcs, Pcs, InWaits
  <2>2. ~ phase_error /\ Lun.sense_data = "NO_SENSE"
    BY DEF Status
  <2> QED
    BY <2>1, <2>2 DEF Finished
<1> QED
  BY <1>1, Invariance, PTL

\* The medium is touched only for a unit that is there and whose reset the host
\* has been told of, whatever other commands did while the loop ran.
THEOREM MediumIsReady == Spec => MediumReady
<1> DEFINE Touched == disk' \notin {disk, NoAccess}
           Ready   == ~ luns[disk'.lun].unmounted /\ ~ luns[disk'.lun].unit_attention_data
<1>1. ASSUME IInv, Next, Touched PROVE ReadChunk \/ WriteChunk \/ VerifyChunk
  <2>1. CASE EpEvent \/ EpTimeout \/ EpDisabled \/ Hardware
    BY <1>1, <2>1, HardwareFrame, OperationRest DEF IInv, hwUnchanged, ghostVars
  <2>2. CASE GetCommand \/ ReceiveCommand
    BY <1>1, <2>2 DEF GetCommand, ReceiveCommand, CbwDropped, CbwInvalid, CbwForeign, CbwAccept,
                      ghostVars
  <2>3. CASE Parse
    BY <1>1, <2>3 DEF Parse, ParseRefuse, ParseReply, ParseControl, ParseTransfer, ParseStart,
                      ghostVars
  <2>4. CASE Transfer
    BY <1>1, <2>4 DEF Transfer, ReadPastEnd, ReadAccount, WriteRequest, WritePastEnd, WriteEnd,
                      WriteCommFailure, WriteNothing, VerifyPastEnd, ghostVars
  <2>5. CASE FinishReply \/ SendStatus \/ StatusSent
    BY <1>1, <2>5 DEF FinishReply, Parsed, ReplyNone, ReplyLast, ReplyPad, PadSend, PadNext,
                      ReplySent, ReplyShort, ThrowAway, ThrownAway, SendStatus, StatusSent,
                      replyUnchanged, ghostVars
  <2>6. CASE HandleException \/ ComboExit
    BY <1>1, <2>6 DEF HandleException, HandleAbort, HandleReset, HandleExit, ComboExit,
                      excUnchanged, ghostVars
  <2>7. CASE WriteSpin \/ Done
    BY <1>1, <2>7 DEF WriteSpin, Done, vars, ghostVars
  <2> QED
    BY <1>1, <2>1, <2>2, <2>3, <2>4, <2>5, <2>6, <2>7 DEF Next, Thread
<1>2. ASSUME IInv, Next, Touched PROVE Ready
  <2>1. ReadChunk \/ WriteChunk \/ VerifyChunk
    BY <1>1, <1>2
  <2>2. pc \in LoopPcs /\ scsiUnchanged
    BY <2>1 DEF ReadChunk, WriteChunk, VerifyChunk, LoopPcs, ReadPcs, WritePcs
  <2>3. disk'.lun = lun_idx
    BY <1>2, <2>1 DEF ReadChunk, WriteChunk, VerifyChunk, StorageAccess
  <2> QED
    BY <1>2, <2>2, <2>3, LoopStart DEF Lun
<1>3. IInv /\ [Next]_vars => [Touched => Ready]_vars
  BY <1>2
<1> QED
  BY <1>3, Invariance, PTL DEF Spec, MediumReady

\* Unless the endpoint is found disabled, which ends the loop whatever is locked
\* (_received_cbw), the loop gives up a unit only if it is not locked or was
\* ejected: neither the heuristics for a host that is gone, whose count goes on
\* over many commands, nor the buttons end it sooner.
THEOREM ExitIsSafe == Connected => (Spec => NoUnsafeExit)
<1> SUFFICES ASSUME Connected PROVE Spec => NoUnsafeExit
  OBVIOUS
<1> DEFINE Leaves == pc # "exit" /\ pc' = "exit"
           Safe   == \A l \in Luns : luns[l].prevent_medium_removal => luns[l].unmounted
<1>1. Init => LockInv
  BY InitInv DEF Init, LockInv, Present, InvCount, LockedIn, InCommand
<1>2. ASSUME LockInv, Next, Leaves PROVE Safe
  <2>1. HandleExit \/ ComboExit
    <3>1. CASE EpEvent \/ EpTimeout \/ EpDisabled \/ Hardware
      BY <1>2, <3>1, HardwareFrame, OperationRest DEF LockInv, IInv, hwUnchanged
    <3>2. CASE GetCommand \/ ReceiveCommand \/ Parse \/ Transfer
      BY <1>2, <3>2 DEF GetCommand, ReceiveCommand, CbwDropped, CbwInvalid, CbwForeign, CbwAccept,
         Continue, Parse, ParseRefuse, ParseReply, ParseControl, ParseTransfer, Transfer, ReadChunk,
         ReadPastEnd, ReadAccount, WriteRequest, WritePastEnd, WriteEnd, WriteCommFailure,
         WriteNothing, WriteChunk, WriteNext, VerifyChunk, VerifyPastEnd, VerifyReturn, Return
    <3>3. CASE FinishReply \/ SendStatus \/ StatusSent
      BY <1>2, <3>3 DEF FinishReply, Parsed, ReplyNone, ReplyLast, ReplyPad, PadSend, PadNext,
         ReplySent, ReplyShort, ThrowAway, ThrownAway, SendStatus, StatusSent, Continue
    <3>4. CASE HandleAbort \/ HandleReset \/ WriteSpin \/ Done
      BY <1>2, <3>4 DEF HandleAbort, HandleReset, WriteSpin, Done, vars
    <3> QED
      BY <1>2, <3>1, <3>2, <3>3, <3>4 DEF Next, Thread, HandleException
  <2>2. CASE HandleExit
    BY <1>2, <2>2 DEF HandleExit, LockInv, InvCount, LockedIn
  <2>3. CASE ComboExit
    BY <2>3 DEF ComboExit, AnyPrevent
  <2> QED
    BY <2>1, <2>2, <2>3
<1>3. LockInv /\ [Next]_vars => [Leaves => Safe]_vars
  BY <1>2
<1> QED
  BY <1>1, <1>3, LockStep, PTL DEF Spec, NoUnsafeExit

\* As long as the eMMC is not initialised anew and its switches of partitions
\* succeed, units that share it never read or write each other's partition,
\* however the host changes between them (_received_cbw selects one only when
\* the unit changes).
THEOREM PartitionSelected == CardsHold => (Spec => []PartitionRight)
<1> SUFFICES ASSUME CardsHold PROVE Spec => []PartitionRight
  OBVIOUS
<1>1. Init => PartInv
  BY InitInv, NoLunOutside DEF Init, PartInv, InvSelected, PartitionRight
<1>2. PartInv => PartitionRight
  BY DEF PartInv
<1> QED
  BY <1>1, <1>2, PartStep, PTL DEF Spec

=============================================================================
