---------------------------- MODULE TxFramer ----------------------------
(***************************************************************************)
(* The transmit side of the framers: at frame_strobe TxFIFOToFramerAdapter  *)
(* moves to the next page of the FIFO, copies its report, and then, in the  *)
(* last bit time of each timeslot, fetches the channels' bytes of that      *)
(* timeslot; TxBlock shifts them out.  All of it runs on the sync clock     *)
(* beside SystemTiming.                                                    *)
(*                                                                         *)
(* What can go wrong is timing: the read port answers a clock late, on the  *)
(* page of the clock before; the fetch must end before the shifters load;   *)
(* and the line frame starts 8 bits after the system's.  A byte is known by *)
(* its record and its address there, a bit by its byte and its place.       *)
(***************************************************************************)
EXTENDS SystemTiming, Sequences

CONSTANTS
  Channels,       \* 8 in the design
  report_length,  \* bytes of a frame report (4)
  RecordMod,      \* records are told apart modulo this
  NoByte          \* a byte of no record

(* Assumed by Framers, which gives this module its constants. *)
TxFramerAssumption ==
  /\ Channels \in Nat /\ Channels >= 1
  /\ report_length \in Nat /\ report_length >= 1
  /\ RecordMod \in Nat /\ RecordMod >= 2
(* What the adapter needs of the clocks: a timeslot is fetched within a bit, *)
(* and the report before the first timeslot.                               *)
TxClocksAssumption ==
  /\ Channels + 2 <= MinClocks
  /\ report_length + 3 <= 8 * MinClocks

VARIABLES
  fifo_r_ptr,         \* record on the reader's page, delayed by a clock
  r_data,             \* the FIFO's read port
  fsm, count, address,   \* the adapter
  report,             \* tx_frame_report, byte by byte
  timeslot_data,      \* timeslot.data of each channel
  ser_shifter,        \* the shifters: eight bits of each channel, oldest first
  started,            \* a frame has been started since reset
  line_record         \* the record being sent on the line, NoByte before the first

tx_vars == <<fifo_r_ptr, r_data, fsm, count, address, report,
             timeslot_data, ser_shifter, started, line_record>>
vars == <<timing_vars, tx_vars>>

RecordIds == 0 .. RecordMod - 1
Following(record) == IF record = RecordMod - 1 THEN 0 ELSE record + 1
timeslots_length_over == Channels + 1   \* fault: off by one
timeslots_length == Channels
record_size == report_length + timeslots_per_frame * Channels
Addresses == 0 .. record_size - 1
ChannelIds == 0 .. Channels - 1
RecordByte(record, addr) == <<record, addr>>
TimeslotAddress(timeslot, channel) == report_length + timeslot * Channels + channel

F == <<"f", 0>>     \* the bit timeslot.f gives, which nothing drives
NoBit == <<"none", 0>>

Init ==
  /\ TimingInit
  /\ fifo_r_ptr = 0 /\ r_data = NoByte
  /\ fsm = "WAIT" /\ count = 0 /\ address = 0
  /\ report = [i \in 0 .. report_length - 1 |-> NoByte]
  /\ timeslot_data = [channel \in ChannelIds |-> NoByte]
  /\ ser_shifter = [i \in 1 .. 8 |-> [channel \in ChannelIds |-> NoBit]]
  /\ started = FALSE /\ line_record = NoByte

-----------------------------------------------------------------------------
address_next ==
  IF fsm = "WAIT" /\ frame_strobe THEN 0
  ELSE IF \/ fsm = "REPORT" /\ count # report_length
          \/ fsm = "TIMESLOT" /\ count # timeslots_length
  THEN address + 1
  ELSE address

(* The read port: r_addr = address_next, on the page of the clock before.    *)
(* At frame_strobe the FIFO moves on to the next record if it has one       *)
(* (r_empty: see PagedFIFO).                                                *)
Read(r_empty) ==
  /\ r_data' = IF address_next \in Addresses THEN RecordByte(fifo_r_ptr, address_next)
               ELSE NoByte
  /\ fifo_r_ptr' = IF frame_strobe /\ ~r_empty THEN Following(fifo_r_ptr) ELSE fifo_r_ptr

Adapter ==
  /\ address' = address_next
  /\ started' = (started \/ frame_strobe)
  /\ \/ /\ fsm = "WAIT" /\ frame_strobe
        /\ count' = 0 /\ fsm' = "REPORT"
        /\ UNCHANGED <<report, timeslot_data>>
     \/ /\ fsm = "WAIT" /\ ~frame_strobe /\ timeslot_ls_bit /\ bit_start_strobe
        /\ count' = 0 /\ fsm' = "TIMESLOT"
        /\ UNCHANGED <<report, timeslot_data>>
     \/ /\ fsm = "WAIT" /\ ~frame_strobe /\ ~(timeslot_ls_bit /\ bit_start_strobe)
        /\ UNCHANGED <<fsm, count, report, timeslot_data>>
     \/ /\ fsm = "REPORT" /\ count = report_length
        /\ fsm' = "WAIT"
        /\ UNCHANGED <<count, report, timeslot_data>>
     \/ /\ fsm = "REPORT" /\ count # report_length
        /\ report' = [report EXCEPT ![count] = r_data]
        /\ count' = count + 1
        /\ UNCHANGED <<fsm, timeslot_data>>
     \/ /\ fsm = "TIMESLOT" /\ count = timeslots_length
        /\ fsm' = "WAIT"
        /\ UNCHANGED <<count, report, timeslot_data>>
     \/ /\ fsm = "TIMESLOT" /\ count # timeslots_length
        /\ timeslot_data' = [timeslot_data EXCEPT ![count] = r_data]
        /\ count' = count + 1
        /\ UNCHANGED <<fsm, report>>

tx_f_bit_early == 0   \* fault: the line frame starts with the system's
(* TxBlock: every channel's shifter loads its byte at the end of a timeslot, *)
(* and shifts the F bit in behind it.                                       *)
tx_f_bit_in_system_frame == 8
tx_sync == bit_count = tx_f_bit_in_system_frame
ser_shifter_out == Head(ser_shifter)

TxBlock(bit_end_strobe) ==
  ser_shifter' =
    IF timeslot_end_strobe(bit_end_strobe)
    THEN [i \in 1 .. 8 |-> [channel \in ChannelIds |-> <<timeslot_data[channel], i>>]]
    ELSE IF bit_end_strobe
    THEN Append(Tail(ser_shifter), [channel \in ChannelIds |-> F])
    ELSE ser_shifter

(* A line frame starts, from the record on the reader's page. *)
LineFrame(bit_end_strobe) ==
  line_record' = IF bit_end_strobe /\ started /\ bit_count_next = tx_f_bit_in_system_frame
                 THEN fifo_r_ptr ELSE line_record

Clk(bit_end_strobe) ==
  /\ TimingClk(bit_end_strobe)
  /\ \E r_empty \in BOOLEAN : Read(r_empty)
  /\ Adapter /\ TxBlock(bit_end_strobe) /\ LineFrame(bit_end_strobe)

Next == \E bit_end_strobe \in BOOLEAN : Clk(bit_end_strobe)

Spec == Init /\ [][Next]_vars

-----------------------------------------------------------------------------
TypeOK ==
  /\ TimingTypeOK
  /\ fifo_r_ptr \in RecordIds
  /\ r_data \in (RecordIds \X Addresses) \union {NoByte}
  /\ fsm \in {"WAIT", "REPORT", "TIMESLOT"}
  /\ count \in 0 .. Channels + report_length
  /\ address \in 0 .. record_size
  /\ report \in [0 .. report_length - 1 -> (RecordIds \X Addresses) \union {NoByte}]
  /\ timeslot_data \in [ChannelIds -> (RecordIds \X Addresses) \union {NoByte}]
  /\ Len(ser_shifter) = 8 /\ \A i \in 1 .. 8 : DOMAIN ser_shifter[i] = ChannelIds
  /\ line_record \in RecordIds \union {NoByte}

(* The position in the line frame, which starts 8 bits after the system's.   *)
line_bit == IF bit_count >= 8 THEN bit_count - 8 ELSE bit_count + (bits_per_frame - 8)

BitOut(channel, record) ==
  IF line_bit = 0 THEN F
  ELSE <<RecordByte(record, TimeslotAddress((line_bit - 1) \div 8, channel)),
         ((line_bit - 1) % 8) + 1>>

(* A line frame is one record of the FIFO: the F bit in the bit time of the   *)
(* sync pulse, behind it timeslot by timeslot, most significant bit first,   *)
(* every channel's own bytes, though the reader's page changes while the     *)
(* last timeslot is still being shifted out.                                *)
LineFrameIsRecord ==
  line_record # NoByte =>
    \A channel \in ChannelIds : ser_shifter_out[channel] = BitOut(channel, line_record)

(* The adapter is in WAIT whenever a frame starts or a timeslot is due. *)
NoStrobeMissed ==
  frame_strobe \/ (timeslot_ls_bit /\ bit_start_strobe) => fsm = "WAIT"
=============================================================================
