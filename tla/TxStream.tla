---------------------------- MODULE TxStream ----------------------------
(***************************************************************************)
(* The transmit path from the host to the frame FIFO, on the USB clock.     *)
(* In each (micro)frame the host sends one packet: a report and then any    *)
(* number of frame records.  TxUSBOutToFIFOAdapter cuts it by counting      *)
(* bytes from the start of frame: the report first, then record after       *)
(* record into the page the FIFO is writing, advancing at the last byte.    *)
(* It keeps no other boundary and sees no end of packet, so what it does    *)
(* with a truncated packet, or with a start of frame that was not heard,    *)
(* is decided by the counting alone.                                       *)
(*                                                                         *)
(* The FIFO is the queue it was shown to implement (PageQueue), plus the    *)
(* page being written.  The contents of the report are not kept: nothing    *)
(* in the gateware reads tx_usb_report.                                    *)
(***************************************************************************)
EXTENDS Naturals, Sequences

CONSTANTS
  Capacity,      \* committed pages the FIFO holds (31 in the design)
  RecordSize,    \* bytes of a frame record (196)
  ReportSize,    \* bytes of a USB report (4)
  MaxFrames,     \* records the host puts in a packet, at most (2)
  FrameMod,      \* the host numbers its frames modulo this
  CountMod,      \* fifo_tx_overflow_count counts modulo this (2^16)
  Report,        \* marks the bytes of a USB report
  Blank,         \* what memory holds before it is written
  LostSOFs       \* TRUE: the device may fail to hear a start of frame

ASSUME SizesAssumption ==
  /\ Capacity \in Nat /\ Capacity >= 1
  /\ RecordSize \in Nat /\ RecordSize >= 1
  /\ ReportSize \in Nat /\ ReportSize >= 1
  /\ CountMod \in Nat /\ CountMod >= 2
  /\ MaxFrames \in Nat /\ FrameMod \in Nat /\ FrameMod >= 1
ASSUME MarksAssumption == Report \notin Nat /\ Blank \notin Nat
ASSUME LostSOFsAssumption == LostSOFs \in BOOLEAN

VARIABLES
  queue,           \* committed records; the framer side reads the head
  visible,         \* how many of them the framer side has been shown
  page,            \* the page being written
  fsm,             \* adapter: REPORT, FRAME
  address,         \* adapter: next byte of the report or record
  overflow_count,  \* fifo_tx_overflow_count
  bus,             \* host: the next byte of its packet, NoByte when there is none
  records_left,    \* host: records of the packet after that byte's
  next_frame,      \* host: number of its next frame
  synced           \* the last start of frame was heard

fifo_vars == <<queue, visible>>
adapter_vars == <<page, fsm, address, overflow_count>>
host_vars == <<bus, records_left, next_frame, synced>>
vars == <<fifo_vars, adapter_vars, host_vars>>

Larger(a, b) == IF a >= b THEN a ELSE b
Addresses == 0 .. Larger(RecordSize, ReportSize) - 1
RecordAddresses == 0 .. RecordSize - 1
Frames == 0 .. FrameMod - 1
Following(frame) == IF frame = FrameMod - 1 THEN 0 ELSE frame + 1

FrameByte(frame, addr) == <<frame, addr>>
ReportByte(addr) == <<Report, addr>>
BlankByte == <<Blank, 0>>
NoByte == BlankByte
BusBytes == (Frames \X RecordAddresses) \union {ReportByte(addr) : addr \in 0 .. ReportSize - 1}
Pages == [RecordAddresses -> BusBytes \union {BlankByte}]

FIFO == INSTANCE PageQueue WITH Records <- Pages

Init ==
  /\ FIFO!Init
  /\ page = [addr \in RecordAddresses |-> BlankByte]
  /\ fsm = "REPORT" /\ address = 0 /\ overflow_count = 0
  /\ bus = NoByte /\ records_left = 0 /\ next_frame = 0 /\ synced = TRUE

-----------------------------------------------------------------------------
(* The host: one packet at most in a (micro)frame, its report first.        *)
NewPacket ==
  /\ bus = NoByte
  /\ bus' \in {NoByte, ReportByte(0)}
  /\ records_left' \in 0 .. MaxFrames
  /\ UNCHANGED next_frame

SendNext ==
  IF bus[1] = Report /\ bus[2] < ReportSize - 1
  THEN bus' = ReportByte(bus[2] + 1) /\ UNCHANGED <<records_left, next_frame>>
  ELSE IF bus[1] # Report /\ bus[2] < RecordSize - 1
  THEN bus' = FrameByte(bus[1], bus[2] + 1) /\ UNCHANGED <<records_left, next_frame>>
  ELSE IF records_left > 0
  THEN /\ bus' = FrameByte(next_frame, 0)
       /\ records_left' = records_left - 1
       /\ next_frame' = Following(next_frame)
  ELSE bus' = NoByte /\ UNCHANGED <<records_left, next_frame>>

-----------------------------------------------------------------------------
report_address_last_strobe == fsm = "REPORT" /\ address = ReportSize - 1
frame_address_last_early == fsm = "FRAME" /\ address = RecordSize - 2   \* fault: off by one
frame_address_last_strobe == fsm = "FRAME" /\ address = RecordSize - 1

(* Fault: the address is not reset. *)
StartOfFrame_keeps_address ==
  /\ NewPacket /\ synced' = TRUE
  /\ fsm' = "REPORT"
  /\ UNCHANGED <<fifo_vars, page, address, overflow_count>>

(* The adapter hears the start of a (micro)frame: whatever it was doing, it  *)
(* waits for a report, and the page it was filling is not committed.        *)
StartOfFrame ==
  /\ NewPacket /\ synced' = TRUE
  /\ fsm' = "REPORT" /\ address' = 0
  /\ UNCHANGED <<fifo_vars, page, overflow_count>>

(* The device misses the start of frame, as a damaged token is. *)
LostStartOfFrame ==
  /\ LostSOFs
  /\ NewPacket /\ synced' = FALSE
  /\ UNCHANGED <<fifo_vars, adapter_vars>>

(* A byte arrives.  At the last byte of a record the page is committed with  *)
(* that byte in it, or, when the FIFO is full, left to be written over.  The *)
(* level the writer looks at may be late, so it may refuse a page it has.   *)
ByteAdvance ==
  /\ bus # NoByte /\ SendNext /\ UNCHANGED synced
  /\ fsm' = IF report_address_last_strobe THEN "FRAME" ELSE fsm
  /\ address' = IF report_address_last_strobe \/ frame_address_last_strobe
                THEN 0 ELSE address + 1
  /\ page' = IF fsm = "FRAME" THEN [page EXCEPT ![address] = bus] ELSE page
  /\ IF frame_address_last_strobe
     THEN \E w_full \in BOOLEAN :
            /\ Len(queue) = Capacity => w_full
            /\ IF w_full
               THEN /\ overflow_count' = (overflow_count + 1) % CountMod
                    /\ UNCHANGED fifo_vars
               ELSE /\ FIFO!Step(<<page'>>, FALSE) /\ visible' = visible
                    /\ UNCHANGED overflow_count
     ELSE UNCHANGED <<fifo_vars, overflow_count>>

(* The rest of the packet is lost: a receive error, or a host that stops.   *)
(* The adapter is not told.                                                 *)
Truncate ==
  /\ bus # NoByte /\ bus' = NoByte
  /\ records_left' = 0 /\ UNCHANGED <<next_frame, synced>>
  /\ UNCHANGED <<fifo_vars, adapter_vars>>

-----------------------------------------------------------------------------
(* The framer side: frame_strobe moves on to the next record if there is     *)
(* one, and stays on the record it has if not.                              *)
FrameStrobe ==
  /\ visible >= 2
  /\ FIFO!Step(<< >>, TRUE) /\ visible' = visible - 1
  /\ UNCHANGED <<adapter_vars, host_vars>>

CounterArrives ==
  /\ FIFO!Step(<< >>, FALSE) /\ visible' # visible
  /\ UNCHANGED <<adapter_vars, host_vars>>

Next ==
  \/ StartOfFrame \/ LostStartOfFrame \/ ByteAdvance \/ Truncate
  \/ FrameStrobe \/ CounterArrives

Spec == Init /\ [][Next]_vars

-----------------------------------------------------------------------------
TypeOK ==
  /\ queue \in Seq(Pages) /\ Len(queue) <= Capacity
  /\ visible \in 0 .. Len(queue)
  /\ page \in Pages
  /\ fsm \in {"REPORT", "FRAME"} /\ address \in Addresses
  /\ overflow_count \in 0 .. CountMod - 1
  /\ bus \in BusBytes \union {NoByte}
  /\ records_left \in 0 .. MaxFrames /\ next_frame \in Frames
  /\ synced \in BOOLEAN

(* A record as the host sent it. *)
Whole(record) ==
  \E frame \in Frames : record = [addr \in RecordAddresses |-> FrameByte(frame, addr)]

(* Every record the framer side can be given is one the host sent, complete: *)
(* truncated packets and full FIFOs cost records, they never mix them.      *)
RecordsWhole == \A i \in 1 .. Len(queue) : Whole(queue[i])

(* A start of frame that is not heard makes the adapter take a report for    *)
(* the beginning of a record, and commit what it makes of it; the next one   *)
(* that is heard ends that.                                                 *)
SyncedCommitsWhole ==
  [][synced /\ Len(queue') > Len(queue) => Whole(queue'[Len(queue')])]_vars

(* No record is lost unseen: once its last byte is taken a record is either  *)
(* committed, unchanged, or counted in fifo_tx_overflow_count.              *)
Committed(frame) ==
  queue' = Append(queue, [addr \in RecordAddresses |-> FrameByte(frame, addr)])
WholeRecordsAccounted ==
  [][synced /\ ByteAdvance /\ bus[1] \in Frames /\ bus[2] = RecordSize - 1
       => Committed(bus[1]) \/ overflow_count' # overflow_count]_vars
=============================================================================
