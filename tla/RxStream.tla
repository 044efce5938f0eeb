---------------------------- MODULE RxStream ----------------------------
(***************************************************************************)
(* The receive path from the frame FIFO to the host, on the USB clock:     *)
(* RxFIFOToUSBInAdapter reads pages of the FIFO and feeds the bytes to     *)
(* USBIsochronousInEndpointTedium, which sends one packet in answer to the *)
(* host's IN token.  A packet is zero, one or two frame records followed   *)
(* by a USB report.  How many is decided twice, from the same FIFO level,  *)
(* at the start of each (micro)frame: by the endpoint as a byte count, and *)
(* by the adapter as the state its FSM starts in.                          *)
(*                                                                         *)
(* The FIFO is the queue it was shown to implement (PageQueue).  Its read  *)
(* port is kept: data is one clock behind the address, and the page is the *)
(* one the pointer had before the clock (fifo_r_ptr).                      *)
(***************************************************************************)
EXTENDS Naturals, Sequences

CONSTANTS
  Capacity,      \* committed pages the FIFO holds (7 in the design)
  RecordSize,    \* bytes of a frame record (197)
  ReportSize,    \* bytes of a USB report (11)
  FrameMod,      \* frames are told apart modulo this
  Report,        \* marks the bytes of a USB report
  Pad,           \* marks a byte that belongs to nothing
  MissedPolls    \* TRUE: the host may let a (micro)frame pass without polling

ASSUME SizesAssumption ==
  /\ Capacity \in Nat /\ Capacity >= 3
  /\ RecordSize \in Nat /\ RecordSize >= 2
  /\ ReportSize \in Nat /\ ReportSize >= 1
  /\ FrameMod \in Nat /\ FrameMod > Capacity
ASSUME MarksAssumption == {Report, Pad} \cap Nat = {} /\ Report # Pad
ASSUME HostAssumption == MissedPolls \in BOOLEAN

VARIABLES
  queue,                \* committed frame records; the head is the page being read
  visible,              \* r_level: how many of them the USB side has been shown
  frame_count,          \* number of the record the framer side will commit next
  fsm,                  \* adapter: WAIT_SOF, FRAME_2, FRAME_1, REPORT
  address,              \* adapter: next byte of the page or report
  r_data,               \* FIFO read port
  underflow_count,      \* fifo_rx_underflow_count
  ep_state,             \* endpoint: IDLE, SEND_DATA, SEND_ZLP
  bytes_left_in_frame,  \* endpoint: bytes still to send in this (micro)frame
  ready,                \* a byte was taken on the last clock
  packet,               \* bytes the host got in this (micro)frame
  last,                 \* the last frame byte the host got: its address, and the
                        \* frame of the last byte that was not a byte 0
  polled,               \* the host has sent its IN token in this (micro)frame
  was_polled            \* ... and had done so in the one before

fifo_vars == <<queue, visible, frame_count>>
usb_vars  == <<fsm, address, r_data, underflow_count, ep_state,
               bytes_left_in_frame, ready, packet, last,
               polled, was_polled>>
vars == <<fifo_vars, usb_vars>>

Frames == 0 .. FrameMod - 1
Following(frame) == IF frame = FrameMod - 1 THEN 0 ELSE frame + 1
FIFO == INSTANCE PageQueue WITH Records <- Frames

CountMod == 65536   \* fifo_rx_underflow_count has 16 bits

(* The longest packet; max_packet_size is 512, so one packet always does. *)
MaxBytes == 2 * RecordSize + ReportSize
Larger(a, b) == IF a >= b THEN a ELSE b
Addresses == 0 .. Larger(RecordSize, ReportSize) - 1

r_level2_untrimmed == visible   \* fault: the page being read is counted
(* Fault: the level is a bit too narrow. *)
r_level2_narrow == IF visible <= 1 THEN 0 ELSE (visible - 1) % (Capacity - 1)
r_level2 == IF visible <= 1 THEN 0 ELSE visible - 1
pages_in_frame == IF r_level2 >= 2 THEN 2 ELSE r_level2
bytes_unclamped == r_level2 * RecordSize + ReportSize   \* fault: not clamped to 2 pages
bytes_in_usb_frame == pages_in_frame * RecordSize + ReportSize

FrameByte(frame, addr) == <<frame, addr>>
ReportByte(addr) == <<Report, addr>>
NoByte == <<Pad, 0>>
FrameBytes == Frames \X Addresses
OtherBytes == {ReportByte(addr) : addr \in Addresses} \union {NoByte}

Init ==
  /\ FIFO!Init
  /\ frame_count = 0
  /\ fsm = "WAIT_SOF" /\ address = 0 /\ r_data = NoByte /\ underflow_count = 0
  /\ ep_state = "IDLE" /\ bytes_left_in_frame = 0 /\ ready = FALSE
  /\ packet = << >> /\ last = FrameByte(FrameMod - 1, RecordSize - 1)
  /\ polled = TRUE /\ was_polled = TRUE

-----------------------------------------------------------------------------
(* The framer side: at frame_strobe a record is committed.  A record the     *)
(* FIFO refuses leaves no trace: records are numbered as they are committed. *)
FrameStrobe ==
  /\ Len(queue) < Capacity
  /\ FIFO!Step(<<frame_count>>, FALSE) /\ visible' = visible
  /\ frame_count' = Following(frame_count)
  /\ UNCHANGED usb_vars

(* The write counter reaches the USB clock domain. *)
CounterArrives ==
  /\ FIFO!Step(<< >>, FALSE) /\ visible' # visible
  /\ UNCHANGED frame_count /\ UNCHANGED usb_vars

-----------------------------------------------------------------------------
(* The byte the adapter presents. *)
value ==
  IF fsm \in {"FRAME_2", "FRAME_1"} THEN r_data
  ELSE IF fsm = "REPORT" THEN ReportByte(address)
  ELSE NoByte

(* Fault: off by one. *)
frame_address_last_early(byte_advance) ==
  fsm \in {"FRAME_2", "FRAME_1"} /\ address = RecordSize - 2 /\ byte_advance

frame_address_last_strobe(byte_advance) ==
  fsm \in {"FRAME_2", "FRAME_1"} /\ address = RecordSize - 1 /\ byte_advance

report_address_last_strobe(byte_advance) ==
  fsm = "REPORT" /\ address = ReportSize - 1 /\ byte_advance

address_next(byte_advance) ==
  IF \/ fsm = "WAIT_SOF"
     \/ frame_address_last_strobe(byte_advance)
     \/ report_address_last_strobe(byte_advance)
  THEN 0
  ELSE IF byte_advance THEN address + 1 ELSE address

fsm_next(start_of_frame, byte_advance) ==
  IF fsm = "WAIT_SOF" /\ start_of_frame
  THEN <<"REPORT", "FRAME_1", "FRAME_2">>[pages_in_frame + 1]
  ELSE IF frame_address_last_strobe(byte_advance)
  THEN IF fsm = "FRAME_2" THEN "FRAME_1" ELSE "REPORT"
  ELSE IF report_address_last_strobe(byte_advance) THEN "WAIT_SOF"
  ELSE fsm

ReadPort_late(byte_advance) ==   \* fault: the registered address, not the next one
  IF queue = << >> THEN NoByte ELSE FrameByte(Head(queue), address)

(* The read port: the address presented in this clock, on the page the      *)
(* pointer showed before it.  Outside the frame states the address is 0.    *)
ReadPort(byte_advance) ==
  IF queue = << >>
  THEN NoByte
  ELSE FrameByte(Head(queue),
                 IF fsm \in {"FRAME_2", "FRAME_1"} THEN address_next(byte_advance) ELSE 0)

Adapter(start_of_frame, byte_advance) ==
  LET r_advance == frame_address_last_strobe(byte_advance)
      r_empty   == visible <= 1
  IN  /\ fsm' = fsm_next(start_of_frame, byte_advance)
      /\ address' = address_next(byte_advance)
      /\ r_data' = ReadPort(byte_advance)
      /\ underflow_count' = IF r_advance /\ r_empty THEN (underflow_count + 1) % CountMod ELSE underflow_count
      /\ IF r_advance /\ ~r_empty
         THEN FIFO!Step(<< >>, TRUE) /\ visible' = visible - 1
         ELSE UNCHANGED <<queue, visible>>
      /\ UNCHANGED frame_count

Endpoint(start_of_frame, data_requested, byte_advance) ==
  /\ bytes_left_in_frame' =
       IF start_of_frame THEN bytes_in_usb_frame
       ELSE IF byte_advance THEN bytes_left_in_frame - 1
       ELSE bytes_left_in_frame
  /\ ep_state' =
       IF ep_state = "IDLE" /\ data_requested
       THEN IF bytes_left_in_frame > 0 THEN "SEND_DATA" ELSE "SEND_ZLP"
       ELSE IF \/ ep_state = "SEND_DATA" /\ byte_advance /\ bytes_left_in_frame <= 1
               \/ ep_state = "SEND_ZLP"
       THEN "IDLE"
       ELSE ep_state

(* The start of a (micro)frame.  No packet is under way: the host fits every *)
(* transaction into the (micro)frame it starts.                             *)
StartOfFrame ==
  /\ ep_state = "IDLE"
  /\ polled \/ MissedPolls
  /\ Adapter(TRUE, FALSE) /\ Endpoint(TRUE, FALSE, FALSE)
  /\ packet' = << >> /\ polled' = FALSE /\ was_polled' = polled /\ ready' = FALSE
  /\ UNCHANGED last

(* The host's IN token: the first of a (micro)frame gets the packet, any    *)
(* further one a packet of length zero.                                     *)
DataRequested ==
  /\ ep_state = "IDLE"
  /\ Adapter(FALSE, FALSE) /\ Endpoint(FALSE, TRUE, FALSE)
  /\ polled' = TRUE /\ ready' = FALSE
  /\ UNCHANGED <<packet, last, was_polled>>

(* The bus takes a byte.  At high speed it takes one on nearly every clock, *)
(* with a pause now and then: bytes may follow each other or not.           *)
ByteAdvance ==
  /\ ep_state = "SEND_DATA"
  /\ Adapter(FALSE, TRUE) /\ Endpoint(FALSE, FALSE, TRUE)
  /\ packet' = Append(packet, value) /\ ready' = TRUE
  /\ last' = IF value[1] \in Frames
             THEN FrameByte(IF value[2] = 0 THEN last[1] ELSE value[1], value[2])
             ELSE last
  /\ UNCHANGED <<polled, was_polled>>

(* A clock in which the bus does nothing. *)
IdleClock ==
  /\ Adapter(FALSE, FALSE) /\ Endpoint(FALSE, FALSE, FALSE)
  /\ ready' = FALSE
  /\ UNCHANGED <<packet, last, polled, was_polled>>

UsbClk == StartOfFrame \/ DataRequested \/ ByteAdvance \/ IdleClock

Next == FrameStrobe \/ CounterArrives \/ UsbClk

Spec == Init /\ [][Next]_vars

(* The bus starts (micro)frames and takes the bytes of a packet it asked    *)
(* for; counters cross the clock domains.                                   *)
FairSpec ==
  /\ Spec
  /\ SF_vars(StartOfFrame) /\ SF_vars(DataRequested /\ ~polled)
  /\ SF_vars(ByteAdvance) /\ WF_vars(IdleClock) /\ WF_vars(CounterArrives)

-----------------------------------------------------------------------------
TypeOK ==
  /\ queue \in Seq(Frames) /\ Len(queue) <= Capacity
  /\ visible \in 0 .. Len(queue) /\ frame_count \in Frames
  /\ fsm \in {"WAIT_SOF", "FRAME_2", "FRAME_1", "REPORT"}
  /\ address \in Addresses
  /\ r_data \in FrameBytes \union {NoByte}
  /\ underflow_count \in 0 .. CountMod - 1
  /\ ep_state \in {"IDLE", "SEND_DATA", "SEND_ZLP"}
  /\ bytes_left_in_frame \in 0 .. MaxBytes
  /\ packet \in Seq(FrameBytes \union OtherBytes)
  /\ last \in FrameBytes
  /\ ready \in BOOLEAN /\ polled \in BOOLEAN /\ was_polled \in BOOLEAN

(* The adapter never asks for a page the FIFO has not shown it, however      *)
(* late it gets to the pages it chose: fifo_rx_underflow_count, which the    *)
(* host prints as an error count, stays 0.                                   *)
NoUnderflow == underflow_count = 0

(* What the host must find in a packet: n whole frames, in order, and the   *)
(* report behind them (RxPacket::frames and usb_report cut it that way).    *)
(* Which frame a byte 0 is of is left open: see NextValueAtNextClock.       *)
WellFormed(p) ==
  \E n \in 0 .. 2, first \in Frames :
    /\ Len(p) = n * RecordSize + ReportSize
    /\ \A i \in 1 .. n * RecordSize :
         /\ p[i][1] \in Frames /\ p[i][2] = (i - 1) % RecordSize
         /\ p[i][2] # 0 => p[i][1] = (first + ((i - 1) \div RecordSize)) % FrameMod
    /\ \A i \in 1 .. ReportSize : p[n * RecordSize + i] = ReportByte(i - 1)

Sent == ep_state # "SEND_DATA" /\ packet # << >>

(* Adapter and endpoint agree on how a packet is cut when the host polled in *)
(* the (micro)frame before: its report "Will be sent at the end of the USB   *)
(* packet", as the adapter's docstring has it.  A missed poll costs at most  *)
(* one packet: the level cannot fall while the adapter waits, so the next    *)
(* packet is long enough to bring the adapter back to WAIT_SOF.             *)
ResyncsAfterOnePacket == Sent /\ was_polled => WellFormed(packet)

(* What the adapter presents comes from the page it is on, whatever clocks   *)
(* the bus takes bytes at and whatever polls it misses.  Byte 0 is the       *)
(* exception: see NextValueAtNextClock.                                      *)
ReadsOwnPage ==
  fsm \in {"FRAME_2", "FRAME_1"} /\ address # 0
    => queue # << >> /\ r_data = FrameByte(Head(queue), address)

(* The frame byte the adapter presents is the one after the last it gave. *)
NextAddress == value[2] = IF last[2] = RecordSize - 1 THEN 0 ELSE last[2] + 1
NextFrame == value[1] = IF value[2] <= 1 THEN Following(last[1]) ELSE last[1]

(* Frame bytes reach the host in order, none skipped and none repeated,      *)
(* whatever packets they are cut into, at any pace of the bus: except that a *)
(* byte 0 taken on the clock after another byte may be of another frame.     *)
BytesInOrder ==
  [][Len(packet') > Len(packet) /\ value[1] \in Frames
       => NextAddress /\ (NextFrame \/ (value[2] = 0 /\ ready))]_vars

(* The endpoint's contract with its user (tests/hdl/rx_fifo_to_usb.py): it   *)
(* "has accepted current value and will expect next value to be presented   *)
(* at the next clock".                                                      *)
NextValueAtNextClock ==
  [][ready /\ Len(packet') > Len(packet) /\ value[1] \in Frames
       => NextAddress /\ NextFrame]_vars

(* A full FIFO does not stay full while the host keeps polling. *)
Drains == Len(queue) = Capacity ~> Len(queue) < Capacity
=============================================================================
