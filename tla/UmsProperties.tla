--------------------------- MODULE UmsProperties ---------------------------
(***************************************************************************)
(* What the mass storage gadget owes its host and the media behind it.     *)
(***************************************************************************)
EXTENDS UmsGadget

Pcs == {"top", "parse", "parsed", "reply", "rd", "read_done", "wr", "vf", "pad",
        "status", "exit"} \cup OutWaits \cup InWaits

IoType  == [lba : Nat, left : Nat, req : Nat, usb_lba : Nat, n : Nat, cur : Bufs,
            first : BOOLEAN]
InTrb   == [buf : Bufs, len : 0 .. EpMax, kind : {"data", "csw", "junk"}, tag : {0, 1}]
OutTrb  == [len : 1 .. EpMax]
Pkt     == {NoPkt, JunkPkt, DataPkt} \cup [kind : {"cbw"}, cbw : Cbws, tag : {0, 1}]
EpEvt   == [ep : {"in", "out", "reset"}, res : Results, resid : Nat, pkt : Pkt]
EpType  == [in : Seq(InTrb), in_count : 0 .. 2, out : Seq(OutTrb), out_count : 0 .. 1,
            out_bytes : 0 .. U32 - 1, events : Seq(EpEvt), in_op : Nat, res : Results,
            rx : Pkt]
Access  == {NoAccess} \cup [op : {"read", "write", "verify"}, lun : Luns, lba : Nat,
                            n : Nat, part : 0 .. 2]

TypeControl ==
  /\ pc \in Pcs /\ state \in States /\ bulk_reset_req \in BOOLEAN
  /\ all_luns_unmounted \in BOOLEAN /\ exit_msg \in {"none", "ejected", "unsafe"}
  /\ cbw_req_queued \in BOOLEAN /\ timeouts \in Nat /\ xusb \in BOOLEAN
  /\ emmc_part \in 0 .. 2 /\ dead \subseteq {"SD", "EMMC"} /\ faults \in Nat

TypeCommand ==
  /\ cmd \in Cbws /\ tag \in {0, 1} /\ lun_idx \in Luns \cup {NoLun}
  /\ luns \in [Luns -> LunState]
  /\ phase_error \in BOOLEAN /\ short_packet_received \in BOOLEAN

\* No amount wraps around below zero, and no transfer exceeds the endpoint's.
TypeAmounts ==
  /\ data_size_from_cmnd \in Nat /\ residue \in Nat /\ usb_amount_left \in Nat
  /\ bulk \in [in_length : 0 .. EpMax, in_buf : Bufs, out_length : 0 .. EpMax,
               out_ignore : BOOLEAN]
  /\ io \in IoType
  /\ moved \in Nat /\ disk \in Access

TypeEndpoint == ep \in EpType

TypeHost ==
  host \in [ph : {"idle", "cbw", "data", "csw", "stuck", "resetting"}, cbw : Cbws,
            tag : {0, 1}, left : Nat, err : BOOLEAN]

\* Every variable has its type.
TypeOK == TypeControl /\ TypeCommand /\ TypeAmounts /\ TypeEndpoint /\ TypeHost

-----------------------------------------------------------------------------
(* The media.                                                              *)

\* No access leaves the sectors of its volume, and none writes to a volume
\* mounted read-only: whatever the host asks for, the bounds checks of
\* _scsi_read, _scsi_write and _scsi_verify hold for every chunk they move.
AccessAllowed ==
  disk # NoAccess =>
    /\ disk.n > 0
    /\ disk.lba + disk.n <= NumSectors[disk.lun]
    /\ disk.op = "write" => ~ Ro[disk.lun]

\* The medium is not touched for a unit that was ejected or whose reset the
\* host has not been told of (_check_scsi_cmd), though both may change while
\* other commands run.
MediumReady ==
  [][disk' \notin {disk, NoAccess} =>
       ~ luns[disk'.lun].unmounted /\ ~ luns[disk'.lun].unit_attention_data]_vars

\* Each access to an eMMC volume is to the partition of that volume: units
\* sharing the eMMC select theirs when the host changes over to them
\* (_received_cbw).
PartitionRight ==
  disk # NoAccess /\ LunType[disk.lun] = "EMMC" => disk.part = LunPart[disk.lun]

-----------------------------------------------------------------------------
(* The buffers.                                                            *)

\* The memory of a transfer stays as it was until the host has taken it: the
\* two buffers of _scsi_read are refilled only after _transfer_finish.
InFlightIntact == \A i \in DOMAIN ep.in : ep.in[i].kind # "junk"

\* The OUT buffer, which _scsi_read borrows, is never sent from while a packet
\* of the host may land in it.
BorrowedBufferFree ==
  (\E i \in DOMAIN ep.in : ep.in[i].buf = "out") \/ pc = "read_done" => ep.out = <<>>

\* At most one request waits for a command wrapper or for data, the rule of
\* the comment in _get_next_command.
OneRequest == Len(ep.out) <= 1

-----------------------------------------------------------------------------
(* The conversation.                                                       *)

\* All the host is sent in the data phase of a command is data of that
\* command, all it is sent in its status phase is the status of it.
HostInSync == ~ host.err

\* The status is sent after the whole data phase: the host has got or has got
\* rid of all the data it announced.
DataPhaseOver == pc = "csw_wait" => host.ph # "data"

\* The residue of the status is what was not read or not written.
ResidueTruthful ==
  pc = "csw_wait" /\ cmd.op \in {"READ", "WRITE"} => residue = cmd.size - moved

\* A command passes only if every sector both sides agreed on was moved, the
\* host ending early excepted.
PassMeansDone ==
  pc = "csw_wait" /\ cmd.op \in {"READ", "WRITE"} /\ Status = "PASS" =>
     \/ moved >= (data_size_from_cmnd \div BlkLen) * BlkLen
     \/ short_packet_received

\* Sense data that has an address names the first sector that was not moved; a
\* WRITE cut at the end of the medium names one beyond the end (_scsi_write
\* counts what it asked for), and then all sectors up to the end were written.
\* Only a command whose wrapper and CDB disagree leaves the sense data of an
\* earlier one in place (the first returns of _check_scsi_cmd).
SenseInfoExact ==
  pc = "csw_wait" /\ cmd.op \in {"READ", "WRITE"} /\ ~ Malformed(cmd)
                  /\ Lun.sense_data_info # NoInfo =>
     LET next == cmd.lba + moved \div BlkLen
     IN \/ Lun.sense_data_info = next
        \/ Lun.sense_data_info > Num /\ next = Num

-----------------------------------------------------------------------------
(* The promise of the whole.                                               *)

\* A command is under way, or its answer is owed after its data ended early.
Busy == pc \notin {"top", "cbw", "exit"} \/ (pc = "top" /\ state = "ABORT_BULK_OUT")

\* Sectors of a READ count from the moment they are in the buffer.
InBuffer == IF pc \in {"read_done", "read_wait"} THEN io.n * BlkLen ELSE 0

DevMode == IF pc = "exit" THEN "over"
           ELSE IF state \in {"NORMAL", "ABORT_BULK_OUT"} THEN "calm" ELSE "disturbed"
DevJob    == IF Busy THEN cmd ELSE [op |-> "NONE"]
DevDone   == IF Busy THEN moved + InBuffer ELSE 0
DevAccess == IF ~ Busy \/ disk = NoAccess THEN [op |-> "none"]
             ELSE [op |-> disk.op, lun |-> disk.lun, lba |-> disk.lba, n |-> disk.n]
DevAnswer == IF pc = "csw_wait" THEN [status |-> Status, residue |-> residue]
             ELSE [status |-> "NONE"]

Device == INSTANCE BlockDevice WITH
  Commands <- Cbws, mode <- DevMode, job <- DevJob, done <- DevDone, access <- DevAccess,
  answer <- DevAnswer

\* The gadget is such a device: whatever the host, the cable and the cards do,
\* the accesses of a command follow each other without gap or overlap from its
\* first sector on, and one answer tells exactly how far they came.
IsBlockDevice == Device!DeviceSpec

-----------------------------------------------------------------------------
(* Ejection.                                                               *)

\* The loop gives up a unit only if it is not locked or was ejected.
NoUnsafeExit ==
  [][pc # "exit" /\ pc' = "exit" =>
       \A l \in Luns : luns[l].prevent_medium_removal => luns[l].unmounted]_vars

\* all_luns_unmounted, on which the heuristics of _received_cbw count, says
\* what its name says.
AllUnmountedExact == all_luns_unmounted = (\A l \in Luns : luns[l].unmounted)

-----------------------------------------------------------------------------
(* Progress.  The thread runs on, timers run out, the controller moves the *)
(* packets of a host that goes on with its command.                        *)

Fairness ==
  /\ WF_vars(Thread) /\ WF_vars(EpEvent) /\ WF_vars(EpTimeout)
  /\ WF_vars(OutCbw) /\ WF_vars(OutData) /\ WF_vars(InTake)

FairSpec == Spec /\ Fairness

\* The user is always heard again: the thread comes back, time and again, to
\* the loop of usb_device_gadget_ums that looks at the volume buttons.
StopHeard == []<>(pc \in {"top", "exit"})

\* Every command the host sends is answered with its status.
HostServed == host.ph = "cbw" ~> host.ph = "idle"

\* Once everything is ejected the gadget ends.
EjectEnds == all_luns_unmounted ~> pc = "exit"

-----------------------------------------------------------------------------
(* Environments under which some of the properties hold; what happens in   *)
(* another is said with the theorems and findings.                         *)

\* The endpoint is never found disabled.
Connected == "disabled" \notin Faults

\* The cards are never initialised anew, and a switch of partitions succeeds.
CardsHold == {"partition", "sdmmc", "reinit"} \cap Faults = {}

\* Nothing goes wrong: the cable, the cards and the host do their part.
Orderly == Faults \subseteq {"combo", "sleep", "partition"}

\* A wrapper that the gadget can answer as the Bulk-Only specification asks: it is
\* for one of its units, announces no more data of the host than the one piece
\* _throw_away_data takes, does not read across the end of the unit, and leaves no
\* transfer of less than a sector to be padded with what a reply before it left.
Answerable(c) ==
  /\ c.lun \in Luns
  /\ c.dir = "out" => c.size <= EpMax
  /\ c.op = "READ" /\ c.lba < NumSectors[c.lun] =>
       c.lba + Clamped(c) \div BlkLen <= NumSectors[c.lun]
  /\ c.dir = "in" /\ c.size > 0 /\ c.op = "VERIFY" => c.len > 0
  /\ c.dir = "in" /\ c.size > 0 /\ c.op \in {"READ", "WRITE"} => Clamped(c) >= BlkLen

\* A sector is a whole number of packets, a u32 of bytes one of sectors, and an
\* SDMMC read that is not cut short is more than the one packet after which
\* xusb_device_ep1_in_write queues an empty one.
PacketsFit == BlkLen % MaxPacket = 0 /\ U32 % BlkLen = 0 /\ IoSmall > 1

\* A conversation in which nothing goes wrong, whatever the sizes of the units.
Talking == Orderly /\ PacketsFit /\ \A c \in Cbws : Answerable(c)
=============================================================================
