---------------------------- MODULE RxFramer ----------------------------
(***************************************************************************)
(* The receive side of the framers: RxBlock turns the serial bits of each   *)
(* channel into timeslot bytes, RxFramerToFIFOAdapter interleaves the       *)
(* channels' bytes into one record for each frame and appends the frame     *)
(* report.  All of it runs on the sync clock beside SystemTiming.           *)
(*                                                                         *)
(* The framers are external.  Each gives one bit in a bit time, and the F   *)
(* bit of its next frame in the bit time in which RxSYNC is high.  All      *)
(* channels get the same RxSYNC, so one stream of bits stands for all of    *)
(* them.  A bit is known by the line frame it belongs to and its position   *)
(* there (0 is the F bit); a byte by the frame, timeslot and channel.       *)
(***************************************************************************)
EXTENDS SystemTiming, Sequences

CONSTANTS
  Channels,       \* 8 in the design
  report_length,  \* bytes of a frame report (5)
  FrameMod,       \* line frames are told apart modulo this
  Torn            \* a byte that is no timeslot's

ASSUME RxFramerAssumption ==
  /\ Channels \in Nat /\ Channels >= 1
  /\ report_length \in Nat /\ report_length >= 1
  /\ FrameMod \in Nat /\ FrameMod >= 2
(* What the adapter needs of the clocks: the channels' bytes and the report *)
(* are written before the next timeslot starts, 8 bits later.              *)
ASSUME RxClocksAssumption == Channels + report_length + 2 <= 8 * MinClocks

VARIABLES
  ser,             \* the bit on the line in this bit time
  ser_shifter,     \* the last eight bits, oldest first
  timeslot_data,   \* timeslot.data of every channel
  timeslot_f,      \* the bit timeslot.f and timeslot.mf were taken from
  frame_count, mf_bits,            \* rx_frame_report
  fsm, count, address,             \* the adapter
  page,            \* the FIFO page being written
  warm             \* a frame has been started since reset

rx_vars == <<ser, ser_shifter, timeslot_data, timeslot_f, frame_count, mf_bits,
             fsm, count, address, page, warm>>
vars == <<timing_vars, rx_vars>>

Frames == 0 .. FrameMod - 1
Following(frame) == IF frame = FrameMod - 1 THEN 0 ELSE frame + 1
LineBits == Frames \X (0 .. bit_count_last)
timeslots_length == Channels
record_size == timeslots_per_frame * Channels + report_length
Addresses == 0 .. record_size - 1

(* The byte eight bits make, oldest first. *)
TimeslotBits(frame, timeslot) ==
  [i \in 1 .. 8 |-> <<frame, 8 * timeslot + i>>]
ByteOf(bits) ==
  LET here == {<<bits[1][1], timeslot>> : timeslot \in 0 .. timeslots_per_frame - 1}
  IN  IF \E byte \in here : bits = TimeslotBits(byte[1], byte[2])
      THEN CHOOSE byte \in here : bits = TimeslotBits(byte[1], byte[2])
      ELSE Torn

Init ==
  /\ TimingInit
  /\ ser \in {<<0, position>> : position \in 0 .. bit_count_last}
  /\ ser_shifter = [i \in 1 .. 8 |-> <<0, 0>>]
  /\ timeslot_data = Torn /\ timeslot_f = <<0, 0>>
  /\ frame_count = 0 /\ mf_bits = <<0, 0>>
  /\ fsm = "WAIT" /\ count = 0 /\ address = 0
  /\ page = [addr \in Addresses |-> Torn]
  /\ warm = FALSE

-----------------------------------------------------------------------------
rx_f_bit_late == bits_per_frame - 7   \* fault: off by one
(* The framer: the bit of the bit time that begins. *)
rx_f_bit_in_system_frame == bits_per_frame - 8
NextLineBit ==
  IF bit_count_next = rx_f_bit_in_system_frame
  THEN <<Following(ser[1]), 0>>
  ELSE <<ser[1], IF ser[2] = bit_count_last THEN 0 ELSE ser[2] + 1>>

ser_shifter_shifted == Append(Tail(ser_shifter), ser)
timeslot_capture == f_bit \/ (timeslot_ls_bit # frame_last_bit)
f_capture == frame_last_bit

RxBlock(bit_end_strobe) ==
  /\ ser' = IF bit_end_strobe THEN NextLineBit ELSE ser
  /\ ser_shifter' = IF bit_end_strobe THEN ser_shifter_shifted ELSE ser_shifter
  /\ timeslot_data' = IF bit_end_strobe /\ timeslot_capture
                      THEN ByteOf(ser_shifter_shifted) ELSE timeslot_data
  /\ timeslot_f' = IF bit_end_strobe /\ f_capture
                   THEN Head(ser_shifter_shifted) ELSE timeslot_f

(* The frame report takes the new frame's mf bits as the frame starts. *)
FrameReport ==
  /\ frame_count' = IF frame_strobe THEN Following(frame_count) ELSE frame_count
  /\ mf_bits' = IF frame_strobe THEN timeslot_f ELSE mf_bits
  /\ warm' = (warm \/ frame_strobe)

-----------------------------------------------------------------------------
TimeslotByte(channel, byte) == <<"timeslot", channel, byte>>
ReportByte(index, frame, mf) == <<"report", index, frame, mf>>

(* A write past the end of the record is not one to this page. *)
Write(byte) == page' = IF address \in Addresses THEN [page EXCEPT ![address] = byte] ELSE page

Adapter ==
  \/ /\ fsm = "WAIT" /\ timeslot_start_strobe
     /\ address' = IF timeslot_first THEN 0 ELSE address
     /\ count' = 0 /\ fsm' = "TIMESLOT"
     /\ UNCHANGED page
  \/ /\ fsm = "TIMESLOT" /\ count = timeslots_length
     /\ IF timeslot_last
        THEN count' = 0 /\ fsm' = "REPORT"
        ELSE count' = count /\ fsm' = "WAIT"
     /\ UNCHANGED <<address, page>>
  \/ /\ fsm = "TIMESLOT" /\ count # timeslots_length
     /\ Write(TimeslotByte(count, timeslot_data))
     /\ count' = count + 1 /\ address' = address + 1
     /\ UNCHANGED fsm
  \/ /\ fsm = "REPORT" /\ count = report_length
     /\ fsm' = "WAIT"
     /\ UNCHANGED <<count, address, page>>
  \/ /\ fsm = "REPORT" /\ count # report_length
     /\ Write(ReportByte(count, frame_count, mf_bits))
     /\ count' = count + 1 /\ address' = address + 1
     /\ UNCHANGED fsm
  \/ /\ fsm = "WAIT" /\ ~timeslot_start_strobe
     /\ UNCHANGED <<fsm, count, address, page>>

(* One sync clock.  The FIFO takes the page at frame_strobe: see PagedFIFO. *)
Clk(bit_end_strobe) ==
  TimingClk(bit_end_strobe) /\ RxBlock(bit_end_strobe) /\ FrameReport /\ Adapter

w_advance == frame_strobe

Next == \E bit_end_strobe \in BOOLEAN : Clk(bit_end_strobe)

Spec == Init /\ [][Next]_vars

-----------------------------------------------------------------------------
TypeOK ==
  /\ TimingTypeOK
  /\ ser \in LineBits /\ timeslot_f \in LineBits /\ mf_bits \in LineBits
  /\ Len(ser_shifter) = 8 /\ \A i \in 1 .. 8 : ser_shifter[i] \in LineBits
  /\ timeslot_data \in (Frames \X (0 .. timeslots_per_frame - 1)) \union {Torn}
  /\ frame_count \in Frames
  /\ fsm \in {"WAIT", "TIMESLOT", "REPORT"}
  /\ count \in 0 .. Channels + report_length
  /\ address \in 0 .. record_size
  /\ DOMAIN page = Addresses

(* The record of a line frame: its bytes timeslot by timeslot, the channels  *)
(* of a timeslot in order, and its own report.                              *)
RecordOf(frame) ==
  [addr \in Addresses |->
     IF addr < timeslots_per_frame * Channels
     THEN TimeslotByte(addr % Channels, <<frame, addr \div Channels>>)
     ELSE ReportByte(addr - (timeslots_per_frame * Channels), frame_count, <<frame, 0>>)]

(* Every record given to the FIFO is that of one line frame, the one before  *)
(* the frame on the line: the bits are cut where the framer's sync pulse put *)
(* them, no timeslot of another frame is among them, the multiframe bits are *)
(* this frame's, and no frame is left out.  The first frame after reset is   *)
(* excepted.                                                                *)
RecordAligned ==
  w_advance /\ warm =>
    \E frame \in Frames : Following(frame) = ser[1] /\ page = RecordOf(frame)

(* The adapter is back in WAIT whenever a timeslot starts: no strobe is      *)
(* missed, however the bits of the serial clock are spaced.                 *)
NoStrobeMissed == timeslot_start_strobe => fsm = "WAIT"
=============================================================================
