------------------------------ MODULE UmsState ------------------------------
(***************************************************************************)
(* State of the USB mass storage gadget (usbd_gadget_ums_t, bulk_ctxt_t    *)
(* and the part of xusbd_controller_t its bulk endpoint uses), of the USB  *)
(* host at the other end of the cable, and the values they range over.     *)
(*                                                                         *)
(* Lengths are counted in units of which a sector has BlkLen, so that a    *)
(* transfer may end inside a sector.                                       *)
(***************************************************************************)
EXTENDS Integers, Sequences, FiniteSets

CONSTANTS
  LunCnt,       \* volumes handed over by the menu (usb_ctxt_t.volumes_cnt)
  NumSectors,   \* [Luns -> sectors of the logical unit]
  Ro,           \* [Luns -> BOOLEAN], read-only mount
  LunType,      \* [Luns -> {"SD", "EMMC"}]
  LunPart,      \* [Luns -> eMMC partition to select], luns[].partition - 1
  Cbws,         \* the command wrappers the host sends
  BlkLen,       \* units of a sector (512 bytes)
  CbwLen,       \* units of a command wrapper (31 bytes)
  CswLen,       \* units of a status wrapper (13 bytes)
  ReplyLen,     \* units of a fixed-size reply (INQUIRY, sense data, ...)
  EpMax,        \* units of the largest endpoint transfer (64K)
  MaxPacket,    \* units of a full packet at the negotiated speed (512 bytes)
  U32,          \* modulus of a u32 counted in units
  IoSmall,      \* sectors of one SDMMC read of a short request (32K)
  IoBig,        \* sectors of one SDMMC read of a long request (64K)
  IoBigFrom,    \* sectors from which a request is long (512K)
  MaxQueued,    \* bound: requests in the OUT ring when another command is awaited
  Faults,       \* what may go wrong or happen out of turn in this run
  MaxFaults     \* bound: how many of them happen in one behaviour

Luns == 0 .. LunCnt - 1

\* lun_idx before the first command; luns[] has 16 entries.
NoLun == 16

NoInfo == -1

\* The commands _parse_scsi_cmd tells apart; START, STOP and EJECT are the
\* three meanings of START STOP UNIT, PREVENT and ALLOW the two of its command.
Ops == {"READ", "WRITE", "VERIFY", "INQUIRY", "MODE_SENSE", "LOG_SENSE",
        "READ_CAPACITY", "READ_FORMAT_CAPACITIES", "REQUEST_SENSE", "MODE_SELECT",
        "TEST_UNIT_READY", "SYNCHRONIZE_CACHE", "START", "STOP", "EJECT",
        "PREVENT", "ALLOW", "OTHER"}

\* A command wrapper: the unit, the data the host will move (dir, size), and
\* the command: its transfer length (sectors for READ, WRITE and VERIFY, units
\* for an allocation length), first sector, and whether it sets only bits of
\* the mask of _check_scsi_cmd, passes the field checks of its handler and is
\* as long as the handler needs.
CbwType == [lun : Nat, op : Ops, dir : {"in", "out"}, size : Nat, len : Nat,
            lba : Nat, mask : BOOLEAN, field : BOOLEAN, fits : BOOLEAN]

FaultKinds == {"junk", "reset", "early_reset", "short", "sdmmc", "reinit",
               "in_timeout", "out_timeout", "in_error", "out_error",
               "cbw_error", "sleep", "disabled", "combo",
               "partition"}

ASSUME SizesAssumption ==
  /\ LunCnt \in 1 .. 16
  /\ {BlkLen, CbwLen, CswLen, ReplyLen, EpMax} \subseteq Nat \ {0}
  /\ CbwLen < BlkLen
  /\ EpMax % BlkLen = 0
  /\ MaxPacket \in Nat \ {0}
  /\ U32 \in Nat /\ U32 > EpMax
  /\ {CswLen, CbwLen, ReplyLen} \subseteq 1 .. EpMax
  /\ {IoSmall, IoBig, IoBigFrom} \subseteq Nat \ {0}
  /\ IoSmall <= IoBig
  /\ IoBig * BlkLen <= EpMax

ASSUME LunsAssumption ==
  /\ NumSectors \in [Luns -> Nat \ {0}]
  /\ Ro \in [Luns -> BOOLEAN]
  /\ LunType \in [Luns -> {"SD", "EMMC"}]
  /\ LunPart \in [Luns -> 0 .. 2]

ASSUME HostAssumption ==
  /\ Cbws \subseteq CbwType
  /\ Cbws # {}
  /\ Faults \subseteq FaultKinds
  /\ MaxFaults \in Nat /\ MaxQueued \in Nat \ {0}

-----------------------------------------------------------------------------

States == {"NORMAL", "ABORT_BULK_OUT", "PROTOCOL_RESET", "EXIT", "TERMINATED"}

Sense == {"NO_SENSE", "COMMUNICATION_FAILURE", "INVALID_COMMAND",
          "INVALID_FIELD_IN_CDB", "LOGICAL_BLOCK_ADDRESS_OUT_OF_RANGE",
          "MEDIUM_NOT_PRESENT", "MEDIUM_REMOVAL_PREVENTED", "RESET_OCCURRED",
          "UNRECOVERED_READ_ERROR", "WRITE_ERROR", "WRITE_PROTECTED"}

LunState == [prevent_medium_removal : BOOLEAN, unmounted : BOOLEAN,
             sense_data : Sense, sense_data_info : Int,
             unit_attention_data : BOOLEAN]

Bufs == {"in", "out"}        \* USB_EP_BULK_IN_BUF_ADDR, USB_EP_BULK_OUT_BUF_ADDR

Results == {"ok", "timeout", "disabled", "error"}     \* usb_error_t

NoAccess == [op |-> "none"]

\* The locals of the transfer loops, outside of them.
NoIo == [lba |-> 0, left |-> 0, req |-> 0, usb_lba |-> 0, n |-> 0, cur |-> "in",
         first |-> TRUE]

NoPkt == [kind |-> "none"]
JunkPkt == [kind |-> "junk"]
DataPkt == [kind |-> "data"]

VARIABLES
  pc,                    \* what the gadget's only thread does next
  state,                 \* ums->state, the pending exception
  bulk_reset_req,        \* usbd_xotg->bulk_reset_req
  cmd,                   \* the accepted command: ums->cmnd, data_size, data_dir
  tag,                   \* ums->tag
  lun_idx,               \* ums->lun_idx
  luns,                  \* ums->luns[]
  all_luns_unmounted,
  data_size_from_cmnd, residue, usb_amount_left,
  phase_error, short_packet_received,
  cbw_req_queued, timeouts, xusb,
  bulk,                  \* ums->bulk_ctxt
  io,                    \* locals of _scsi_read, _scsi_write, _scsi_verify
  ep,                    \* rings, counters and events of the bulk endpoint
  emmc_part,             \* emmc_storage.partition
  dead,                  \* the storages that are not initialized any more
  exit_msg,              \* the last text of usb_device_gadget_ums
  host,                  \* the USB host
  moved,                 \* history: units moved or verified for this command
  disk,                  \* history: the last access to the medium
  faults                 \* history: number of faults so far

cmdVars   == <<cmd, tag, lun_idx>>
acctVars  == <<data_size_from_cmnd, residue, usb_amount_left, phase_error,
               short_packet_received>>
cbwVars   == <<cbw_req_queued, timeouts, xusb>>
excVars   == <<state, bulk_reset_req>>
ejectVars == <<all_luns_unmounted, exit_msg>>
storageVars == <<emmc_part, dead>>
ghostVars == <<moved, disk>>

vars == <<pc, excVars, cmdVars, luns, ejectVars, acctVars, cbwVars, bulk, io,
          ep, storageVars, host, ghostVars, faults>>

-----------------------------------------------------------------------------

MinOf(a, b) == IF a <= b THEN a ELSE b

\* Seeded bug: only the first unit is looked at.
BugFirstPrevent == luns[0].prevent_medium_removal

AnyPrevent == \E l \in Luns : luns[l].prevent_medium_removal

DataDir == IF cmd.size = 0 THEN "none" ELSE cmd.dir

\* A fault of this kind may still happen.
MayFail(kind) == kind \in Faults /\ faults < MaxFaults
Failed == faults' = faults + 1
NoFault == faults' = faults
=============================================================================
