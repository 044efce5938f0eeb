------------------------- MODULE RxStream_proofs -------------------------
(***************************************************************************)
(* Safety of the receive path, for every FIFO capacity of three pages and   *)
(* more, every record and report size, and every behaviour of the bus.      *)
(*                                                                         *)
(* The argument: when the adapter leaves WAIT_SOF for n pages the FIFO has  *)
(* shown it n + 1, and the level it is shown falls only when it advances    *)
(* itself.  So it owns its pages however long the host lets it wait, never  *)
(* advances on an empty FIFO, and the page under the read port changes only *)
(* when the adapter has taken its last byte.                               *)
(***************************************************************************)
EXTENDS RxStream, SequenceTheorems, TLAPS

InFrame == fsm \in {"FRAME_2", "FRAME_1"}

(* The pages the adapter still has to read, its successor included. *)
PagesOwned ==
  /\ fsm = "FRAME_2" => visible >= 3
  /\ fsm = "FRAME_1" => visible >= 2

AddressInRange ==
  /\ fsm = "WAIT_SOF" => address = 0
  /\ InFrame => address < RecordSize
  /\ fsm = "REPORT" => address < ReportSize

SendsSomething == ep_state = "SEND_DATA" => bytes_left_in_frame >= 1

IInv == TypeOK /\ PagesOwned /\ AddressInRange /\ SendsSomething

-----------------------------------------------------------------------------
(* What TypeOK says of the part the bus clock changes. *)
USE SizesAssumption, MarksAssumption, HostAssumption

LEMMA InitIInv == Init => IInv
<1> SUFFICES ASSUME Init PROVE IInv
  OBVIOUS
<1> USE DEF Init, FIFO!Init
<1>1. 0 \in Frames /\ FrameMod - 1 \in Frames /\ RecordSize - 1 \in Addresses /\ 0 \in Addresses
  BY DEF Frames, Addresses, Larger
<1>2. last \in FrameBytes /\ r_data \in FrameBytes \union {NoByte}
  BY <1>1 DEF FrameBytes, FrameByte
<1>3. packet \in Seq(FrameBytes \union OtherBytes) /\ queue \in Seq(Frames)
  OBVIOUS
<1>4. bytes_left_in_frame \in 0 .. MaxBytes
  BY DEF MaxBytes
<1>5. underflow_count \in 0 .. CountMod - 1
  BY DEF CountMod
<1>6. /\ Len(queue) <= Capacity /\ visible \in 0 .. Len(queue)
      /\ frame_count \in Frames /\ address \in Addresses
  BY <1>1
<1>7. ready \in BOOLEAN /\ polled \in BOOLEAN /\ was_polled \in BOOLEAN
  OBVIOUS
<1>8. TypeOK
  BY <1>2, <1>3, <1>4, <1>5, <1>6, <1>7 DEF TypeOK
<1> QED BY <1>8 DEF IInv, PagesOwned, AddressInRange, SendsSomething, InFrame

(* A step of the framer side, or a counter arriving, only adds pages. *)
LEMMA FifoStepIInv ==
  ASSUME IInv, FrameStrobe \/ CounterArrives
  PROVE  /\ IInv'
         /\ queue # << >> => queue' # << >> /\ Head(queue') = Head(queue)
<1> USE DEF IInv, TypeOK, FIFO!Step, usb_vars
<1>1. CASE FrameStrobe
  <2>1. queue' = queue \o <<frame_count>> /\ visible' = visible
    BY <1>1 DEF FrameStrobe
  <2>2. queue' \in Seq(Frames) /\ Len(queue') = Len(queue) + 1
    BY <2>1
  <2>3. queue # << >> => queue' # << >> /\ Head(queue') = Head(queue)
    BY <2>1
  <2>4. Len(queue') <= Capacity /\ visible' \in 0 .. Len(queue')
    BY <1>1, <2>1, <2>2 DEF FrameStrobe
  <2>5. frame_count' \in Frames
    BY <1>1 DEF FrameStrobe, Following, Frames
  <2> QED
    BY <1>1, <2>1, <2>2, <2>3, <2>4, <2>5
    DEF FrameStrobe, PagesOwned, AddressInRange, SendsSomething, InFrame
<1>2. CASE CounterArrives
  <2>1. queue' = queue /\ visible' \in visible .. Len(queue)
    BY <1>2 DEF CounterArrives
  <2> QED
    BY <1>2, <2>1
    DEF CounterArrives, PagesOwned, AddressInRange, SendsSomething, InFrame
<1> QED BY <1>1, <1>2

-----------------------------------------------------------------------------
(* A clock of the adapter.  It advances only at the last byte of a page it   *)
(* owns, so the FIFO always has the next one.                               *)
LEMMA AdvanceOwned ==
  ASSUME IInv, NEW byte_advance \in BOOLEAN, frame_address_last_strobe(byte_advance)
  PROVE  InFrame /\ byte_advance = TRUE /\ visible >= 2 /\ Len(queue) >= 2
BY DEF IInv, TypeOK, PagesOwned, frame_address_last_strobe, InFrame

LEMMA AdapterQueue ==
  ASSUME IInv, NEW start_of_frame \in BOOLEAN, NEW byte_advance \in BOOLEAN,
         Adapter(start_of_frame, byte_advance)
  PROVE  /\ underflow_count' = underflow_count
         /\ IF frame_address_last_strobe(byte_advance)
            THEN queue' = Tail(queue) /\ visible' = visible - 1
            ELSE queue' = queue /\ visible' = visible
<1>1. CASE frame_address_last_strobe(byte_advance)
  <2>0. visible >= 2
    BY <1>1, AdvanceOwned
  <2>1. visible \in Nat /\ queue \in Seq(Frames)
    BY DEF IInv, TypeOK
  <2>2. queue' = Tail(queue) \o << >> /\ visible' = visible - 1
    BY <1>1, <2>0, <2>1 DEF Adapter, FIFO!Step, frame_address_last_strobe
  <2>4. queue' = Tail(queue)
    BY <2>0, <2>1, <2>2 DEF IInv, TypeOK
  <2> QED BY <1>1, <2>0, <2>1, <2>2, <2>4 DEF Adapter, frame_address_last_strobe
<1>2. CASE ~frame_address_last_strobe(byte_advance)
  BY <1>2 DEF Adapter
<1> QED BY <1>1, <1>2

LEMMA AddressNextType ==
  ASSUME IInv, NEW byte_advance \in BOOLEAN
  PROVE  /\ address_next(byte_advance) \in Addresses
         /\ InFrame => address_next(byte_advance) < RecordSize
         /\ fsm = "REPORT" => address_next(byte_advance) < ReportSize
         /\ fsm = "WAIT_SOF" => address_next(byte_advance) = 0
BY DEF IInv, TypeOK, AddressInRange, InFrame, address_next, frame_address_last_strobe,
       report_address_last_strobe, Addresses, Larger

LEMMA AdapterIInv ==
  ASSUME IInv, NEW start_of_frame \in BOOLEAN, NEW byte_advance \in BOOLEAN,
         Adapter(start_of_frame, byte_advance)
  PROVE  /\ queue' \in Seq(Frames) /\ Len(queue') <= Capacity
         /\ visible' \in 0 .. Len(queue') /\ frame_count' \in Frames
         /\ fsm' \in {"WAIT_SOF", "FRAME_2", "FRAME_1", "REPORT"}
         /\ address' \in Addresses
         /\ r_data' \in FrameBytes \union {NoByte}
         /\ underflow_count' = underflow_count
         /\ PagesOwned' /\ AddressInRange'
<1>1. queue \in Seq(Frames) /\ Len(queue) <= Capacity /\ Len(queue) \in Nat
      /\ visible \in 0 .. Len(queue) /\ frame_count \in Frames
  BY DEF IInv, TypeOK
<1>2. /\ queue' \in Seq(Frames) /\ Len(queue') <= Capacity
      /\ visible' \in 0 .. Len(queue')
      /\ visible' = IF frame_address_last_strobe(byte_advance) THEN visible - 1 ELSE visible
  <2>1. CASE frame_address_last_strobe(byte_advance)
    <3>0. Len(queue) >= 2 /\ visible >= 2
      BY <2>1, AdvanceOwned
    <3>1. Len(queue) >= 2 /\ visible >= 2 /\ queue # << >>
      BY <3>0, <1>1
    <3>2. queue' = Tail(queue) /\ visible' = visible - 1
      BY <2>1, AdapterQueue
    <3>3. Tail(queue) \in Seq(Frames) /\ Len(Tail(queue)) = Len(queue) - 1
      BY <1>1, <3>1
    <3> QED BY <1>1, <2>1, <3>1, <3>2, <3>3
  <2>2. CASE ~frame_address_last_strobe(byte_advance)
    BY <2>2, <1>1, AdapterQueue
  <2> QED BY <2>1, <2>2
<1>3. frame_count' \in Frames
  BY <1>1 DEF Adapter
<1>4. fsm \in {"WAIT_SOF", "FRAME_2", "FRAME_1", "REPORT"}
  BY DEF IInv, TypeOK
<1>5. fsm' = fsm_next(start_of_frame, byte_advance) /\ address' = address_next(byte_advance)
  BY DEF Adapter
<1>6. /\ fsm' \in {"WAIT_SOF", "FRAME_2", "FRAME_1", "REPORT"}
      /\ PagesOwned'
  <2>1. CASE fsm = "WAIT_SOF"
    <3>1. visible' = visible
      BY <1>2, <2>1 DEF frame_address_last_strobe
    <3>2. CASE start_of_frame
      <4>1. fsm' = <<"REPORT", "FRAME_1", "FRAME_2">>[pages_in_frame + 1]
        BY <1>5, <2>1, <3>2 DEF fsm_next
      <4>2. /\ pages_in_frame = 0 \/ pages_in_frame = 1 \/ pages_in_frame = 2
            /\ pages_in_frame = 2 => visible >= 3
            /\ pages_in_frame = 1 => visible >= 2
        BY <1>1 DEF pages_in_frame, r_level2
      <4>3. fsm' = IF pages_in_frame = 0 THEN "REPORT"
                   ELSE IF pages_in_frame = 1 THEN "FRAME_1" ELSE "FRAME_2"
        BY <4>1, <4>2
      <4> QED BY <1>1, <3>1, <4>2, <4>3 DEF PagesOwned
    <3>3. CASE ~start_of_frame
      BY <1>5, <2>1, <3>1, <3>3
      DEF fsm_next, PagesOwned, frame_address_last_strobe, report_address_last_strobe
    <3> QED BY <3>2, <3>3
  <2>2. CASE fsm # "WAIT_SOF"
    BY <1>1, <1>2, <1>4, <1>5, <2>2
    DEF IInv, fsm_next, PagesOwned, frame_address_last_strobe, report_address_last_strobe
  <2> QED BY <2>1, <2>2
<1>7. AddressInRange'
  BY <1>4, <1>5, AddressNextType
  DEF fsm_next, AddressInRange, InFrame, address_next, frame_address_last_strobe,
      report_address_last_strobe
<1>8. address' \in Addresses
  BY <1>5, AddressNextType
<1>9. r_data' \in FrameBytes \union {NoByte}
  <2>1. r_data' = ReadPort(byte_advance)
    BY DEF Adapter
  <2>2. CASE queue = << >>
    BY <2>1, <2>2 DEF ReadPort
  <2>3. CASE queue # << >>
    <3>1. Head(queue) \in Frames
      BY <1>1, <2>3
    <3>2. PICK addr \in Addresses : r_data' = FrameByte(Head(queue), addr)
      BY <2>1, <2>3, AddressNextType DEF ReadPort, Addresses, Larger
    <3> QED BY <3>1, <3>2 DEF FrameByte, FrameBytes
  <2> QED BY <2>2, <2>3
<1> QED BY <1>2, <1>3, <1>6, <1>7, <1>8, <1>9, AdapterQueue

-----------------------------------------------------------------------------
(* A clock of the endpoint. *)
LEMMA EndpointIInv ==
  ASSUME IInv, NEW start_of_frame \in BOOLEAN, NEW data_requested \in BOOLEAN,
         NEW byte_advance \in BOOLEAN,
         Endpoint(start_of_frame, data_requested, byte_advance),
         byte_advance => ep_state = "SEND_DATA",
         start_of_frame => ep_state = "IDLE" /\ ~data_requested
  PROVE  /\ ep_state' \in {"IDLE", "SEND_DATA", "SEND_ZLP"}
         /\ bytes_left_in_frame' \in 0 .. MaxBytes
         /\ SendsSomething'
<1>1. /\ visible \in Nat /\ bytes_left_in_frame \in 0 .. MaxBytes
      /\ ep_state \in {"IDLE", "SEND_DATA", "SEND_ZLP"}
  BY DEF IInv, TypeOK
<1>2. bytes_in_usb_frame \in 0 .. MaxBytes
  <2>1. pages_in_frame \in 0 .. 2
    BY <1>1 DEF pages_in_frame, r_level2
  <2>2. \/ bytes_in_usb_frame = ReportSize
        \/ bytes_in_usb_frame = RecordSize + ReportSize
        \/ bytes_in_usb_frame = 2 * RecordSize + ReportSize
    BY <2>1 DEF bytes_in_usb_frame
  <2> QED BY <2>2 DEF MaxBytes
<1>3. MaxBytes \in Nat
  BY DEF MaxBytes
<1> QED
  BY <1>1, <1>2, <1>3 DEF Endpoint, IInv, SendsSomething

(* Whatever the bus offers is one of the bytes of the packet's alphabet. *)
LEMMA ValueType ==
  ASSUME IInv PROVE value \in FrameBytes \union OtherBytes
BY DEF IInv, TypeOK, value, OtherBytes

LEMMA UsbClkIInv ==
  ASSUME IInv, UsbClk PROVE IInv'
<1>1. packet \in Seq(FrameBytes \union OtherBytes) /\ last \in FrameBytes
      /\ polled \in BOOLEAN /\ was_polled \in BOOLEAN
      /\ underflow_count \in 0 .. CountMod - 1
  BY DEF IInv, TypeOK
<1>2. CASE StartOfFrame
  <2>1. Adapter(TRUE, FALSE) /\ Endpoint(TRUE, FALSE, FALSE) /\ ep_state = "IDLE"
    BY <1>2 DEF StartOfFrame
  <2>2. /\ packet' \in Seq(FrameBytes \union OtherBytes) /\ last' \in FrameBytes
        /\ polled' \in BOOLEAN /\ was_polled' \in BOOLEAN /\ ready' \in BOOLEAN
    <3>1. packet' = << >> /\ last' = last
      BY <1>2 DEF StartOfFrame
    <3>2. polled' = FALSE /\ was_polled' = polled /\ ready' = FALSE
      BY <1>2 DEF StartOfFrame
    <3>3. packet' \in Seq(FrameBytes \union OtherBytes)
      BY <3>1
    <3> QED BY <1>1, <3>1, <3>2, <3>3, Zenon
  <2>3. /\ ep_state' \in {"IDLE", "SEND_DATA", "SEND_ZLP"}
        /\ bytes_left_in_frame' \in 0 .. MaxBytes
        /\ SendsSomething'
    BY <2>1, EndpointIInv
  <2> QED BY <1>1, <2>1, <2>2, <2>3, AdapterIInv DEF IInv, TypeOK
<1>3. CASE DataRequested
  <2>1. Adapter(FALSE, FALSE) /\ Endpoint(FALSE, TRUE, FALSE)
    BY <1>3 DEF DataRequested
  <2>2. /\ packet' \in Seq(FrameBytes \union OtherBytes) /\ last' \in FrameBytes
        /\ polled' \in BOOLEAN /\ was_polled' \in BOOLEAN /\ ready' \in BOOLEAN
    BY <1>1, <1>3 DEF DataRequested
  <2>3. /\ ep_state' \in {"IDLE", "SEND_DATA", "SEND_ZLP"}
        /\ bytes_left_in_frame' \in 0 .. MaxBytes
        /\ SendsSomething'
    BY <2>1, EndpointIInv
  <2> QED BY <1>1, <2>1, <2>2, <2>3, AdapterIInv DEF IInv, TypeOK
<1>4. CASE ByteAdvance
  <2>1. Adapter(FALSE, TRUE) /\ Endpoint(FALSE, FALSE, TRUE) /\ ep_state = "SEND_DATA"
    BY <1>4 DEF ByteAdvance
  <2>2. packet' \in Seq(FrameBytes \union OtherBytes)
    BY <1>1, <1>4, ValueType DEF ByteAdvance
  <2>3. last' \in FrameBytes
    <3>1. ASSUME value[1] \in Frames PROVE value \in FrameBytes
      BY <3>1, ValueType, MarksAssumption
      DEF OtherBytes, ReportByte, NoByte, Frames
    <3>2. last' = IF value[1] \in Frames
                  THEN FrameByte(IF value[2] = 0 THEN last[1] ELSE value[1], value[2])
                  ELSE last
      BY <1>4 DEF ByteAdvance
    <3> QED BY <1>1, <3>1, <3>2 DEF FrameBytes, FrameByte
  <2>4. polled' \in BOOLEAN /\ was_polled' \in BOOLEAN /\ ready' \in BOOLEAN
    BY <1>1, <1>4 DEF ByteAdvance
  <2>5. /\ ep_state' \in {"IDLE", "SEND_DATA", "SEND_ZLP"}
        /\ bytes_left_in_frame' \in 0 .. MaxBytes
        /\ SendsSomething'
    BY <2>1, EndpointIInv
  <2> QED BY <1>1, <2>1, <2>2, <2>3, <2>4, <2>5, AdapterIInv DEF IInv, TypeOK
<1>5. CASE IdleClock
  <2>1. Adapter(FALSE, FALSE) /\ Endpoint(FALSE, FALSE, FALSE)
    BY <1>5 DEF IdleClock
  <2>2. /\ packet' \in Seq(FrameBytes \union OtherBytes) /\ last' \in FrameBytes
        /\ polled' \in BOOLEAN /\ was_polled' \in BOOLEAN /\ ready' \in BOOLEAN
    BY <1>1, <1>5 DEF IdleClock
  <2>3. /\ ep_state' \in {"IDLE", "SEND_DATA", "SEND_ZLP"}
        /\ bytes_left_in_frame' \in 0 .. MaxBytes
        /\ SendsSomething'
    BY <2>1, EndpointIInv
  <2> QED BY <1>1, <2>1, <2>2, <2>3, AdapterIInv DEF IInv, TypeOK
<1> QED BY <1>2, <1>3, <1>4, <1>5 DEF UsbClk

LEMMA StutterIInv ==
  ASSUME IInv, UNCHANGED vars PROVE IInv'
BY DEF vars, fifo_vars, usb_vars, IInv, TypeOK, PagesOwned, AddressInRange,
       SendsSomething, InFrame

LEMMA StepIInv ==
  ASSUME IInv, [Next]_vars PROVE IInv'
BY FifoStepIInv, UsbClkIInv, StutterIInv DEF Next

LEMMA AlwaysIInv == Spec => []IInv
BY InitIInv, StepIInv, PTL DEF Spec

(* Type correctness, for every capacity of three pages and more. *)
THEOREM TypeCorrect == Spec => []TypeOK
BY AlwaysIInv, PTL DEF IInv

(* The adapter never advances a FIFO that has nothing more for it, however   *)
(* late the host polls: fifo_rx_underflow_count stays 0.                     *)
THEOREM NoUnderflowHolds == Spec => []NoUnderflow
<1>1. Init => NoUnderflow
  BY DEF Init, NoUnderflow
<1>2. IInv /\ NoUnderflow /\ [Next]_vars => NoUnderflow'
  <2> SUFFICES ASSUME IInv, NoUnderflow, [Next]_vars PROVE underflow_count' = 0
    BY DEF NoUnderflow
  <2> USE DEF NoUnderflow
  <2>1. CASE FrameStrobe \/ CounterArrives
    BY <2>1 DEF FrameStrobe, CounterArrives, usb_vars
  <2>2. CASE StartOfFrame
    BY <2>2, AdapterQueue DEF StartOfFrame
  <2>3. CASE DataRequested
    BY <2>3, AdapterQueue DEF DataRequested
  <2>4. CASE ByteAdvance
    BY <2>4, AdapterQueue DEF ByteAdvance
  <2>5. CASE IdleClock
    BY <2>5, AdapterQueue DEF IdleClock
  <2>6. CASE UNCHANGED vars
    BY <2>6 DEF vars, usb_vars
  <2> QED BY <2>1, <2>2, <2>3, <2>4, <2>5, <2>6 DEF Next, UsbClk
<1> QED BY <1>1, <1>2, AlwaysIInv, PTL DEF Spec

-----------------------------------------------------------------------------
(* What the read port shows.  After a clock in which the adapter stays on    *)
(* its page, the port holds the byte of that page the adapter is at.        *)
LEMMA PortFollows ==
  ASSUME IInv, NEW start_of_frame \in BOOLEAN, NEW byte_advance \in BOOLEAN,
         Adapter(start_of_frame, byte_advance), InFrame',
         ~frame_address_last_strobe(byte_advance)
  PROVE  queue' # << >> /\ r_data' = FrameByte(Head(queue'), address')
<1>1. queue' = queue /\ visible' = visible
  BY AdapterQueue
<1>2. visible' \in 0 .. Len(queue') /\ PagesOwned'
  BY AdapterIInv
<1>3. queue # << >>
  BY <1>1, <1>2 DEF PagesOwned, InFrame, IInv, TypeOK
<1>4. fsm = "WAIT_SOF" \/ InFrame
  BY DEF Adapter, fsm_next, InFrame, IInv, TypeOK, report_address_last_strobe,
         frame_address_last_strobe
<1>5. r_data' = ReadPort(byte_advance) /\ address' = address_next(byte_advance)
  BY DEF Adapter
<1>6. r_data' = FrameByte(Head(queue), address')
  BY <1>3, <1>4, <1>5 DEF ReadPort, InFrame, address_next
<1> QED BY <1>1, <1>3, <1>6

(* Past its first byte, a page is read from where it lies, at every pace the *)
(* bus takes bytes and after any missed poll.                               *)
THEOREM ReadsOwnPageHolds == Spec => []ReadsOwnPage
<1>1. Init => ReadsOwnPage
  BY DEF Init, ReadsOwnPage
<1>2. ASSUME IInv, ReadsOwnPage, [Next]_vars PROVE ReadsOwnPage'
  <2>1. CASE FrameStrobe \/ CounterArrives
    <3>1. fsm' = fsm /\ address' = address /\ r_data' = r_data
      BY <2>1 DEF FrameStrobe, CounterArrives, usb_vars
    <3> QED BY <1>2, <2>1, <3>1, FifoStepIInv DEF ReadsOwnPage
  <2>2. ASSUME NEW start_of_frame \in BOOLEAN, NEW byte_advance \in BOOLEAN,
               Adapter(start_of_frame, byte_advance)
        PROVE  ReadsOwnPage'
    <3>1. CASE frame_address_last_strobe(byte_advance)
      <4>1. address' = 0
        BY <2>2, <3>1 DEF Adapter, address_next
      <4> QED BY <4>1 DEF ReadsOwnPage
    <3>2. CASE ~frame_address_last_strobe(byte_advance)
      BY <1>2, <2>2, <3>2, PortFollows DEF ReadsOwnPage, InFrame
    <3> QED BY <3>1, <3>2
  <2>3. CASE UsbClk
    BY <2>2, <2>3 DEF UsbClk, StartOfFrame, DataRequested, ByteAdvance, IdleClock
  <2>4. CASE UNCHANGED vars
    BY <1>2, <2>4 DEF vars, fifo_vars, usb_vars, ReadsOwnPage
  <2> QED BY <1>2, <2>1, <2>3, <2>4 DEF Next
<1> QED BY <1>1, <1>2, AlwaysIInv, PTL DEF Spec

-----------------------------------------------------------------------------
(* The order of frame bytes. *)

(* Records are numbered as they are committed. *)
Numbered ==
  /\ \A i \in 1 .. Len(queue) - 1 : queue[i + 1] = Following(queue[i])
  /\ queue # << >> => frame_count = Following(queue[Len(queue)])

PageFrame == IF queue = << >> THEN frame_count ELSE Head(queue)

(* What the host got last is the byte before the one the adapter is at. *)
LastByte ==
  IF InFrame /\ address # 0
  THEN /\ last[2] = address - 1
       /\ Head(queue) = IF address = 1 THEN Following(last[1]) ELSE last[1]
  ELSE last[2] = RecordSize - 1 /\ PageFrame = Following(last[1])

(* The port shows the byte the adapter is at, but for byte 0 on the clock    *)
(* after the last byte of a page: that is byte 0 of the page left.          *)
PortReady ==
  InFrame => /\ queue # << >> /\ r_data[1] \in Frames /\ r_data[2] = address
             /\ r_data[1] = Head(queue) \/ (address = 0 /\ ready = TRUE)

OrderInv == Numbered /\ LastByte /\ PortReady

LEMMA InitOrder == Init => OrderInv
BY DEF Init, FIFO!Init, OrderInv, Numbered, LastByte, PageFrame, PortReady, InFrame,
       FrameByte, Following

LEMMA NumberedFrameStrobe ==
  ASSUME IInv, Numbered, FrameStrobe PROVE Numbered' /\ PageFrame' = PageFrame
<1>1. queue \in Seq(Frames) /\ Len(queue) \in Nat /\ frame_count \in Frames
  BY DEF IInv, TypeOK
<1>2. queue' = queue \o <<frame_count>> /\ frame_count' = Following(frame_count)
  BY DEF FrameStrobe, FIFO!Step
<1>3. /\ Len(queue') = Len(queue) + 1 /\ queue' # << >>
      /\ queue'[Len(queue) + 1] = frame_count
      /\ \A i \in 1 .. Len(queue) : queue'[i] = queue[i]
  BY <1>1, <1>2
<1>4. PageFrame' = PageFrame
  BY <1>1, <1>2, <1>3 DEF PageFrame
<1>5. frame_count' = Following(queue'[Len(queue')])
  BY <1>2, <1>3
<1>6. ASSUME NEW i \in 1 .. Len(queue') - 1 PROVE queue'[i + 1] = Following(queue'[i])
  <2>1. CASE i = Len(queue)
    <3>1. i \in 1 .. Len(queue) /\ queue # << >>
      BY <1>1, <1>3, <2>1
    <3> QED BY <1>1, <1>3, <2>1, <3>1 DEF Numbered
  <2>2. CASE i # Len(queue)
    <3>1. i \in 1 .. Len(queue) - 1 /\ i \in 1 .. Len(queue) /\ i + 1 \in 1 .. Len(queue)
      BY <1>1, <1>3, <2>2
    <3> QED BY <1>3, <3>1 DEF Numbered
  <2> QED BY <2>1, <2>2
<1> QED BY <1>4, <1>5, <1>6 DEF Numbered

LEMMA NumberedAdvance ==
  ASSUME IInv, Numbered, Len(queue) >= 2, queue' = Tail(queue), frame_count' = frame_count
  PROVE  /\ Numbered' /\ PageFrame' = Following(Head(queue))
<1>1. queue \in Seq(Frames) /\ Len(queue) \in Nat
  BY DEF IInv, TypeOK
<1>2. /\ Len(queue') = Len(queue) - 1 /\ queue' # << >>
      /\ \A i \in 1 .. Len(queue) - 1 : queue'[i] = queue[i + 1]
  <2>1. queue # << >>
    BY <1>1
  <2>2. /\ Len(Tail(queue)) = Len(queue) - 1
        /\ \A i \in 1 .. Len(Tail(queue)) : Tail(queue)[i] = queue[i + 1]
    BY <1>1, <2>1, HeadTailProperties, Zenon
  <2>3. Len(queue') = Len(queue) - 1 /\ queue' # << >>
    <3>1. Len(queue') = Len(queue) - 1
      BY <2>2, Zenon
    <3>2. Len(queue') # 0
      BY <1>1, <3>1
    <3>3. Len(<< >>) = 0
      OBVIOUS
    <3> QED BY <3>1, <3>2, <3>3, Zenon
  <2>4. \A i \in 1 .. Len(queue) - 1 : queue'[i] = queue[i + 1]
    BY <2>2, Zenon
  <2> QED BY <2>3, <2>4
<1>3. Head(queue') = queue[2] /\ Head(queue) = queue[1]
  <2>1. 1 \in 1 .. Len(queue) - 1 /\ queue # << >>
    BY <1>1
  <2>2. queue'[1] = queue[1 + 1]
    BY <1>2, <2>1
  <2> QED BY <1>1, <1>2, <2>1, <2>2
<1>4. queue[2] = Following(queue[1])
  <2>1. 1 \in 1 .. Len(queue) - 1
    BY <1>1
  <2>2. queue[1 + 1] = Following(queue[1])
    BY <2>1 DEF Numbered
  <2> QED BY <2>2
<1>5. PageFrame' = Following(Head(queue))
  BY <1>2, <1>3, <1>4 DEF PageFrame
<1>6. queue'[Len(queue')] = queue[Len(queue)] /\ queue # << >>
  BY <1>1, <1>2
<1>7. ASSUME NEW i \in 1 .. Len(queue') - 1 PROVE queue'[i + 1] = Following(queue'[i])
  <2>1. /\ i \in 1 .. Len(queue) - 1 /\ i + 1 \in 1 .. Len(queue) - 1
    BY <1>1, <1>2
  <2>2. queue'[i] = queue[i + 1] /\ queue'[i + 1] = queue[(i + 1) + 1]
    BY <1>2, <2>1
  <2>3. queue[(i + 1) + 1] = Following(queue[i + 1])
    BY <2>1 DEF Numbered
  <2> QED BY <2>2, <2>3
<1>8. frame_count' = Following(queue'[Len(queue')])
  BY <1>6 DEF Numbered
<1> QED BY <1>5, <1>7, <1>8 DEF Numbered

(* After any clock of the adapter. *)
LEMMA PortAfter ==
  ASSUME IInv, OrderInv, NEW start_of_frame \in BOOLEAN, NEW byte_advance \in BOOLEAN,
         Adapter(start_of_frame, byte_advance), ready' = byte_advance
  PROVE  PortReady'
<1> SUFFICES ASSUME InFrame'
             PROVE  /\ queue' # << >> /\ r_data'[1] \in Frames /\ r_data'[2] = address'
                    /\ r_data'[1] = Head(queue') \/ (address' = 0 /\ ready' = TRUE)
  BY DEF PortReady, InFrame
<1>1. /\ queue' \in Seq(Frames) /\ visible' \in 0 .. Len(queue') /\ PagesOwned'
  BY AdapterIInv
<1>2. CASE frame_address_last_strobe(byte_advance)
  <2>1. address' = 0 /\ ready' = TRUE /\ Len(queue) >= 2
    BY <1>2, AdvanceOwned DEF Adapter, address_next
  <2>2. queue' # << >>
    BY <1>1 DEF PagesOwned, InFrame
  <2>3. queue \in Seq(Frames) /\ queue # << >>
    BY <2>1 DEF IInv, TypeOK
  <2>4. r_data' = FrameByte(Head(queue), 0)
    BY <1>2, <2>3, <2>1 DEF Adapter, ReadPort, address_next
  <2> QED BY <2>1, <2>2, <2>3, <2>4 DEF FrameByte
<1>3. CASE ~frame_address_last_strobe(byte_advance)
  <2>1. queue' # << >> /\ r_data' = FrameByte(Head(queue'), address')
    BY <1>3, PortFollows
  <2> QED BY <1>1, <2>1 DEF FrameByte
<1> QED BY <1>2, <1>3

(* The bus clock while the adapter does not finish a page. *)
LEMMA OrderStay ==
  ASSUME IInv, OrderInv, NEW start_of_frame \in BOOLEAN,
         Adapter(start_of_frame, FALSE), last' = last, ready' = FALSE
  PROVE  OrderInv'
<1>1. ~frame_address_last_strobe(FALSE)
  BY DEF frame_address_last_strobe
<1>2. queue' = queue /\ frame_count' = frame_count
  BY <1>1, AdapterQueue DEF Adapter
<1>3. PortReady'
  BY <1>1, PortAfter
<1>4. address' = address
  BY DEF Adapter, address_next, frame_address_last_strobe, report_address_last_strobe,
         IInv, AddressInRange
<1>5. InFrame /\ address # 0 => InFrame'
  BY DEF Adapter, fsm_next, InFrame, frame_address_last_strobe, report_address_last_strobe
<1>6. InFrame' /\ address' # 0 => InFrame
  BY <1>4 DEF Adapter, fsm_next, InFrame, frame_address_last_strobe,
              report_address_last_strobe, IInv, TypeOK, AddressInRange
<1>7. LastByte'
  BY <1>2, <1>4, <1>5, <1>6 DEF OrderInv, LastByte, PageFrame
<1> QED BY <1>2, <1>3, <1>7 DEF OrderInv, Numbered

(* The byte the bus takes is the one that follows the last one. *)
LEMMA TakenByte ==
  ASSUME IInv, OrderInv, InFrame
  PROVE  /\ value[1] \in Frames /\ value[2] = address
         /\ address # 0 => value[1] = Head(queue)
         /\ NextAddress /\ (NextFrame \/ (value[2] = 0 /\ ready))
<1>1. /\ value = r_data /\ value[1] \in Frames /\ value[2] = address /\ queue # << >>
      /\ value[1] = Head(queue) \/ (address = 0 /\ ready = TRUE)
  BY DEF OrderInv, PortReady, value, InFrame
<1>2. /\ address \in Nat /\ address < RecordSize
      /\ last[2] \in Nat /\ last[1] \in Frames
  BY DEF IInv, TypeOK, AddressInRange, Addresses, FrameBytes
<1>3. NextAddress
  BY <1>1, <1>2 DEF OrderInv, LastByte, NextAddress
<1>4. CASE address # 0
  BY <1>1, <1>2, <1>3, <1>4 DEF OrderInv, LastByte, NextFrame
<1>5. CASE address = 0
  BY <1>1, <1>2, <1>3, <1>5 DEF OrderInv, LastByte, NextFrame, PageFrame
<1> QED BY <1>1, <1>3, <1>4, <1>5

LEMMA OrderByteAdvance ==
  ASSUME IInv, OrderInv, ByteAdvance
  PROVE  /\ OrderInv'
         /\ value[1] \in Frames => NextAddress /\ (NextFrame \/ (value[2] = 0 /\ ready))
<1>1. Adapter(FALSE, TRUE) /\ ready' = TRUE /\ frame_count' = frame_count
  BY DEF ByteAdvance, Adapter
<1>2. PortReady'
  BY <1>1, PortAfter
<1>3. CASE InFrame
  <2>1. /\ value[1] \in Frames /\ value[2] = address
        /\ address # 0 => value[1] = Head(queue)
        /\ NextAddress /\ (NextFrame \/ (value[2] = 0 /\ ready))
    BY <1>3, TakenByte
  <2>2. /\ address \in Nat /\ address < RecordSize /\ fsm # "REPORT" /\ fsm # "WAIT_SOF"
        /\ queue # << >> /\ last[1] \in Frames
    BY <1>3 DEF IInv, TypeOK, AddressInRange, Addresses, InFrame, FrameBytes, OrderInv, PortReady
  <2>3. last'[2] = address /\ last'[1] = IF address = 0 THEN last[1] ELSE Head(queue)
    BY <2>1, <2>2 DEF ByteAdvance, FrameByte
  <2>4. address = 0 => Head(queue) = Following(last[1])
    BY <1>3, <2>2 DEF OrderInv, LastByte, PageFrame
  <2>5. CASE address = RecordSize - 1
    <3>1. frame_address_last_strobe(TRUE)
      BY <1>3, <2>5 DEF frame_address_last_strobe, InFrame
    <3>2. queue' = Tail(queue) /\ address' = 0
      BY <1>1, <3>1, AdapterQueue DEF Adapter, address_next
    <3>3. Len(queue) >= 2
      BY <3>1, AdvanceOwned
    <3>4. Numbered' /\ PageFrame' = Following(Head(queue))
      BY <1>1, <3>2, <3>3, NumberedAdvance DEF OrderInv
    <3>5. LastByte'
      BY <2>2, <2>3, <2>5, <3>2, <3>4 DEF LastByte
    <3> QED BY <1>2, <2>1, <3>4, <3>5 DEF OrderInv
  <2>6. CASE address # RecordSize - 1
    <3>1. ~frame_address_last_strobe(TRUE) /\ ~report_address_last_strobe(TRUE)
      BY <2>2, <2>6 DEF frame_address_last_strobe, report_address_last_strobe
    <3>2. queue' = queue /\ address' = address + 1 /\ fsm' = fsm
      BY <1>1, <2>2, <3>1, AdapterQueue DEF Adapter, address_next, fsm_next
    <3>3. LastByte'
      BY <1>3, <2>2, <2>3, <2>4, <3>2 DEF LastByte, InFrame
    <3>4. Numbered'
      BY <1>1, <3>2 DEF OrderInv, Numbered
    <3> QED BY <1>2, <2>1, <3>3, <3>4 DEF OrderInv
  <2> QED BY <2>5, <2>6
<1>4. CASE ~InFrame
  <2>1. value[1] \notin Frames
    BY <1>4, MarksAssumption DEF value, InFrame, ReportByte, NoByte, Frames
  <2>2. last' = last
    BY <2>1 DEF ByteAdvance
  <2>3. ~frame_address_last_strobe(TRUE)
    BY <1>4 DEF frame_address_last_strobe, InFrame
  <2>4. queue' = queue /\ ~InFrame'
    BY <1>1, <1>4, <2>3, AdapterQueue
    DEF Adapter, fsm_next, InFrame, IInv, TypeOK, report_address_last_strobe
  <2>5. LastByte' /\ Numbered'
    BY <1>1, <1>4, <2>2, <2>4 DEF OrderInv, LastByte, PageFrame, Numbered
  <2> QED BY <1>2, <2>1, <2>5 DEF OrderInv
<1> QED BY <1>3, <1>4

LEMMA StepOrder ==
  ASSUME IInv, OrderInv, [Next]_vars
  PROVE  /\ OrderInv'
         /\ Len(packet') > Len(packet) /\ value[1] \in Frames
              => NextAddress /\ (NextFrame \/ (value[2] = 0 /\ ready))
<1>0. Len(packet) \in Nat
  BY DEF IInv, TypeOK
<1>1. CASE FrameStrobe
  <2>1. PageFrame' = PageFrame /\ Numbered'
    BY <1>1, NumberedFrameStrobe DEF OrderInv
  <2>2. /\ fsm' = fsm /\ address' = address /\ last' = last /\ r_data' = r_data
        /\ ready' = ready /\ packet' = packet
    BY <1>1 DEF FrameStrobe, usb_vars
  <2>3. InFrame => queue # << >>
    BY DEF IInv, PagesOwned, InFrame, TypeOK
  <2>4. queue # << >> => queue' # << >> /\ Head(queue') = Head(queue)
    BY <1>1, FifoStepIInv
  <2>5. LastByte' /\ PortReady'
    BY <2>1, <2>2, <2>3, <2>4 DEF OrderInv, LastByte, PortReady, InFrame
  <2> QED BY <1>0, <2>1, <2>2, <2>5 DEF OrderInv
<1>2. CASE CounterArrives
  <2>1. queue' = queue
    BY <1>2 DEF CounterArrives, FIFO!Step, IInv, TypeOK
  <2>2. /\ fsm' = fsm /\ address' = address /\ last' = last /\ r_data' = r_data
        /\ ready' = ready /\ packet' = packet /\ frame_count' = frame_count
    BY <1>2 DEF CounterArrives, usb_vars
  <2> QED
    BY <1>0, <2>1, <2>2
    DEF OrderInv, LastByte, PortReady, InFrame, Numbered, PageFrame
<1>3. CASE StartOfFrame
  <2>1. /\ Adapter(TRUE, FALSE) /\ last' = last /\ ready' = FALSE
        /\ packet' = << >>
    BY <1>3 DEF StartOfFrame
  <2>2. OrderInv'
    BY <2>1, OrderStay
  <2> QED BY <1>0, <2>1, <2>2
<1>4. CASE DataRequested
  <2>1. /\ Adapter(FALSE, FALSE) /\ last' = last /\ ready' = FALSE
        /\ packet' = packet
    BY <1>4 DEF DataRequested
  <2>2. OrderInv'
    BY <2>1, OrderStay
  <2> QED BY <1>0, <2>1, <2>2
<1>5. CASE ByteAdvance
  BY <1>5, OrderByteAdvance
<1>6. CASE IdleClock
  <2>1. /\ Adapter(FALSE, FALSE) /\ last' = last /\ ready' = FALSE
        /\ packet' = packet
    BY <1>6 DEF IdleClock
  <2>2. OrderInv'
    BY <2>1, OrderStay
  <2> QED BY <1>0, <2>1, <2>2
<1>7. CASE UNCHANGED vars
  BY <1>0, <1>7
  DEF vars, fifo_vars, usb_vars, OrderInv, LastByte, PortReady, InFrame, Numbered, PageFrame
<1> QED BY <1>1, <1>2, <1>3, <1>4, <1>5, <1>6, <1>7 DEF Next, UsbClk

(* Frame bytes reach the host in order, none skipped and none repeated, over *)
(* any number of packets and missed polls and at any pace of the bus.       *)
THEOREM BytesInOrderHolds == Spec => BytesInOrder
<1>1. IInv /\ OrderInv /\ [Next]_vars => OrderInv'
  BY StepOrder
<1>2. IInv /\ OrderInv /\ [Next]_vars
        => [Len(packet') > Len(packet) /\ value[1] \in Frames
              => NextAddress /\ (NextFrame \/ (value[2] = 0 /\ ready))]_vars
  BY StepOrder
<1> QED BY <1>1, <1>2, AlwaysIInv, InitOrder, PTL DEF Spec, BytesInOrder

-----------------------------------------------------------------------------
(* How a packet is cut.  The endpoint has at least the bytes left that the   *)
(* adapter has until WAIT_SOF, so that a packet that is sent brings it       *)
(* there; and from there both go by the same level.                         *)

Span(n) == IF n = 0 THEN 0 ELSE IF n = 1 THEN RecordSize ELSE 2 * RecordSize

BytesToWait ==
  CASE fsm = "FRAME_2"  -> 2 * RecordSize + ReportSize - address
    [] fsm = "FRAME_1"  -> RecordSize + ReportSize - address
    [] fsm = "REPORT"   -> ReportSize - address
    [] fsm = "WAIT_SOF" -> 0

(* The byte v is byte i of the frames of a packet. *)
FrameEntry(v, i, first) ==
  /\ v[1] \in Frames
  /\ v[2] = IF i <= RecordSize THEN i - 1 ELSE i - 1 - RecordSize
  /\ v[2] # 0 => v[1] = IF i <= RecordSize THEN first ELSE Following(first)

(* p is the beginning of a packet of n frames. *)
Beginning(p, n, first) ==
  \A i \in 1 .. Len(p) :
    IF i <= Span(n) THEN FrameEntry(p[i], i, first) ELSE p[i] = ReportByte(i - 1 - Span(n))

(* The adapter is at the byte that follows the first k of such a packet. *)
AdapterAt(k, n, first) ==
  \/ fsm = "FRAME_2" /\ n = 2 /\ k = address /\ Head(queue) = first
  \/ /\ fsm = "FRAME_1" /\ n # 0 /\ k = Span(n - 1) + address
     /\ Head(queue) = IF n = 1 THEN first ELSE Following(first)
  \/ fsm = "REPORT" /\ k = Span(n) + address
  \/ fsm = "WAIT_SOF" /\ k = Span(n) + ReportSize

InStepWith(n, first) ==
  /\ Beginning(packet, n, first)
  /\ AdapterAt(Len(packet), n, first)
  /\ Len(packet) + bytes_left_in_frame = Span(n) + ReportSize

AtStart == packet = << >> /\ fsm = "WAIT_SOF" /\ bytes_left_in_frame = 0
InStep == \E n \in 0 .. 2, first \in Frames : InStepWith(n, first)

CutInv ==
  /\ BytesToWait <= bytes_left_in_frame
  /\ polled /\ ep_state # "SEND_DATA" => bytes_left_in_frame = 0
  /\ ep_state = "SEND_DATA" => polled
  /\ packet # << >> => polled
  /\ was_polled => AtStart \/ InStep

LEMMA InitCut == Init => CutInv
BY DEF Init, CutInv, BytesToWait, AtStart

(* A clock in which the bus takes no byte and no (micro)frame starts. *)
LEMMA CutQuiet ==
  ASSUME IInv, CutInv, Adapter(FALSE, FALSE), packet' = packet, was_polled' = was_polled,
         \/ DataRequested
         \/ IdleClock
  PROVE  CutInv'
<1>1. ~frame_address_last_strobe(FALSE) /\ ~report_address_last_strobe(FALSE)
  BY DEF frame_address_last_strobe, report_address_last_strobe
<1>2. queue' = queue
  BY <1>1, AdapterQueue
<1>3. fsm' = fsm /\ address' = address
  BY <1>1 DEF Adapter, fsm_next, address_next, IInv, AddressInRange
<1>4. bytes_left_in_frame' = bytes_left_in_frame
  BY DEF DataRequested, IdleClock, Endpoint
<1>5. /\ polled' /\ ep_state' # "SEND_DATA" => bytes_left_in_frame' = 0
      /\ ep_state' = "SEND_DATA" => polled'
      /\ packet' # << >> => polled'
  <2>0. bytes_left_in_frame \in Nat
    BY DEF IInv, TypeOK, MaxBytes
  <2>1. CASE DataRequested
    <3>1. polled' = TRUE /\ ep_state = "IDLE"
      BY <2>1 DEF DataRequested
    <3>2. ep_state' = IF bytes_left_in_frame > 0 THEN "SEND_DATA" ELSE "SEND_ZLP"
      BY <2>1, <3>1 DEF DataRequested, Endpoint
    <3> QED BY <1>4, <2>0, <3>1, <3>2
  <2>2. CASE IdleClock
    <3>1. polled' = polled
      BY <2>2 DEF IdleClock
    <3>2. ep_state' = IF ep_state = "SEND_ZLP" THEN "IDLE" ELSE ep_state
      BY <2>2 DEF IdleClock, Endpoint
    <3> QED BY <1>4, <3>1, <3>2 DEF CutInv
  <2> QED BY <2>1, <2>2
<1>6. BytesToWait' <= bytes_left_in_frame'
  BY <1>3, <1>4 DEF CutInv, BytesToWait
<1>7. (AtStart \/ InStep) => (AtStart \/ InStep)'
  BY <1>2, <1>3, <1>4 DEF AtStart, InStep, InStepWith, AdapterAt
<1> QED BY <1>5, <1>6, <1>7 DEF CutInv

LEMMA CutStartOfFrame ==
  ASSUME IInv, CutInv, StartOfFrame
  PROVE  CutInv'
<1>1. /\ Adapter(TRUE, FALSE) /\ packet' = << >> /\ polled' = FALSE /\ was_polled' = polled
      /\ ep_state = "IDLE" /\ ep_state' = "IDLE" /\ bytes_left_in_frame' = bytes_in_usb_frame
  BY DEF StartOfFrame, Endpoint
<1>2. ~frame_address_last_strobe(FALSE) /\ ~report_address_last_strobe(FALSE)
  BY DEF frame_address_last_strobe, report_address_last_strobe
<1>3. queue' = queue /\ queue \in Seq(Frames) /\ visible \in 0 .. Len(queue)
  BY <1>1, <1>2, AdapterQueue DEF IInv, TypeOK
<1>4. address' = address /\ address \in Nat /\ (fsm = "WAIT_SOF" => address = 0)
      /\ fsm \in {"WAIT_SOF", "FRAME_2", "FRAME_1", "REPORT"}
  <2>1. address \in Nat /\ fsm \in {"WAIT_SOF", "FRAME_2", "FRAME_1", "REPORT"}
    BY DEF IInv, TypeOK, Addresses
  <2>2. fsm = "WAIT_SOF" => address = 0
    BY DEF IInv, AddressInRange
  <2>3. address' = address
    BY <1>1, <1>2, <2>2 DEF Adapter, address_next
  <2> QED BY <2>1, <2>2, <2>3
<1>5. /\ pages_in_frame \in 0 .. 2
      /\ visible >= 3 => pages_in_frame = 2
      /\ visible >= 2 => pages_in_frame >= 1
      /\ pages_in_frame >= 1 => visible >= 2
  BY <1>3 DEF pages_in_frame, r_level2
<1>6. bytes_in_usb_frame = Span(pages_in_frame) + ReportSize
  BY <1>5 DEF bytes_in_usb_frame, Span
<1>7. CASE fsm = "WAIT_SOF"
  <2>1. fsm' = IF pages_in_frame = 0 THEN "REPORT"
               ELSE IF pages_in_frame = 1 THEN "FRAME_1" ELSE "FRAME_2"
    <3>1. fsm' = <<"REPORT", "FRAME_1", "FRAME_2">>[pages_in_frame + 1]
      BY <1>1, <1>7 DEF Adapter, fsm_next
    <3>2. pages_in_frame = 0 \/ pages_in_frame = 1 \/ pages_in_frame = 2
      BY <1>5
    <3> QED BY <3>1, <3>2
  <2>2. BytesToWait' = bytes_left_in_frame'
    BY <1>1, <1>4, <1>5, <1>6, <1>7, <2>1 DEF BytesToWait, Span
  <2>3. bytes_left_in_frame' \in Nat
    BY <1>1, <1>5, <1>6 DEF Span
  <2>4. InStep'
    <3>1. PICK first \in Frames : pages_in_frame >= 1 => first = Head(queue)
      <4>1. CASE pages_in_frame >= 1
        <5>1. Head(queue) \in Frames
          BY <1>3, <1>5, <4>1
        <5> QED BY <5>1
      <4>2. CASE ~(pages_in_frame >= 1)
        <5>1. 0 \in Frames
          BY DEF Frames
        <5> QED BY <4>2, <5>1
      <4> QED BY <4>1, <4>2
    <3>2. AdapterAt(Len(packet), pages_in_frame, first)'
            <=> \/ fsm' = "FRAME_2" /\ pages_in_frame' = 2 /\ 0 = address' /\ Head(queue') = first
                \/ /\ fsm' = "FRAME_1" /\ pages_in_frame' # 0
                   /\ 0 = Span(pages_in_frame' - 1) + address'
                   /\ Head(queue') = IF pages_in_frame' = 1 THEN first ELSE Following(first)
                \/ fsm' = "REPORT" /\ 0 = Span(pages_in_frame') + address'
                \/ fsm' = "WAIT_SOF" /\ 0 = Span(pages_in_frame') + ReportSize
      BY <1>1 DEF AdapterAt, Span
    <3>3. visible' = visible
      BY <1>1, <1>2, AdapterQueue
    <3>4. pages_in_frame' = pages_in_frame
      BY <3>3 DEF pages_in_frame, r_level2
    <3>5. AdapterAt(Len(packet), pages_in_frame, first)'
      BY <1>3, <1>4, <1>5, <1>7, <2>1, <3>1, <3>2, <3>4 DEF Span
    <3>6. InStepWith(pages_in_frame, first)'
      BY <1>1, <1>5, <1>6, <3>4, <3>5 DEF InStepWith, Beginning, Span
    <3> QED BY <1>5, <3>4, <3>6 DEF InStep
  <2> QED BY <1>1, <2>2, <2>3, <2>4 DEF CutInv
<1>8. CASE fsm # "WAIT_SOF"
  <2>1. fsm' = fsm
    BY <1>1, <1>2, <1>8 DEF Adapter, fsm_next
  <2>2. BytesToWait' <= bytes_left_in_frame'
    BY <1>1, <1>4, <1>5, <1>6, <1>8, <2>1 DEF BytesToWait, Span, IInv, PagesOwned
  <2>3. ~polled
    <3>1. BytesToWait \in Nat /\ BytesToWait > 0
      BY <1>4, <1>8 DEF BytesToWait, IInv, AddressInRange, InFrame
    <3> QED BY <1>1, <3>1 DEF CutInv
  <2> QED BY <1>1, <2>2, <2>3 DEF CutInv
<1> QED BY <1>7, <1>8

(* The bus takes the byte that is next of the packet. *)
LEMMA CutByteAdvance ==
  ASSUME IInv, OrderInv, CutInv, ByteAdvance
  PROVE  CutInv'
<1>1. /\ Adapter(FALSE, TRUE) /\ ep_state = "SEND_DATA" /\ polled' = polled
      /\ was_polled' = was_polled /\ packet' = Append(packet, value)
      /\ bytes_left_in_frame' = bytes_left_in_frame - 1
      /\ ep_state' = IF bytes_left_in_frame <= 1 THEN "IDLE" ELSE "SEND_DATA"
  BY DEF ByteAdvance, Endpoint
<1>2. bytes_left_in_frame \in Nat /\ bytes_left_in_frame >= 1 /\ polled
  BY <1>1 DEF IInv, TypeOK, SendsSomething, CutInv, MaxBytes
<1>3. /\ address \in Nat /\ fsm \in {"WAIT_SOF", "FRAME_2", "FRAME_1", "REPORT"}
      /\ fsm \in {"FRAME_2", "FRAME_1"} => address < RecordSize
      /\ fsm = "REPORT" => address < ReportSize
  BY DEF IInv, TypeOK, Addresses, AddressInRange, InFrame
<1>4. fsm' = fsm_next(FALSE, TRUE) /\ address' = address_next(TRUE)
  BY <1>1 DEF Adapter
<1>. DEFINE lastOfPage == fsm \in {"FRAME_2", "FRAME_1"} /\ address = RecordSize - 1
<1>5. /\ frame_address_last_strobe(TRUE) <=> lastOfPage
      /\ report_address_last_strobe(TRUE) <=> fsm = "REPORT" /\ address = ReportSize - 1
  BY DEF frame_address_last_strobe, report_address_last_strobe
<1>6. BytesToWait' <= bytes_left_in_frame'
  <2>0. BytesToWait <= bytes_left_in_frame
    BY DEF CutInv
  <2>1. CASE fsm = "WAIT_SOF"
    <3>1. fsm' = "WAIT_SOF"
      BY <1>4, <1>5, <2>1 DEF fsm_next
    <3>. QED BY <1>1, <1>2, <3>1 DEF BytesToWait
  <2>2. CASE fsm = "REPORT"
    <3>1. IF address = ReportSize - 1
          THEN fsm' = "WAIT_SOF" ELSE fsm' = "REPORT" /\ address' = address + 1
      BY <1>4, <1>5, <2>2 DEF fsm_next, address_next
    <3>2. BytesToWait = ReportSize - address
      BY <2>2 DEF BytesToWait
    <3>. QED BY <1>1, <1>2, <1>3, <2>0, <3>1, <3>2 DEF BytesToWait
  <2>3. CASE lastOfPage
    <3>1. /\ address' = 0
          /\ fsm' = IF fsm = "FRAME_2" THEN "FRAME_1" ELSE "REPORT"
      BY <1>4, <1>5, <2>3 DEF fsm_next, address_next
    <3>2. BytesToWait' = BytesToWait - 1 /\ BytesToWait \in Nat
      BY <2>3, <3>1 DEF BytesToWait
    <3>. QED BY <1>1, <1>2, <2>0, <3>2
  <2>4. CASE fsm \in {"FRAME_2", "FRAME_1"} /\ ~lastOfPage
    <3>1. address' = address + 1 /\ fsm' = fsm
      BY <1>4, <1>5, <2>4 DEF fsm_next, address_next
    <3>2. BytesToWait' = BytesToWait - 1 /\ BytesToWait \in Nat
      BY <1>3, <2>4, <3>1 DEF BytesToWait
    <3>. QED BY <1>1, <1>2, <2>0, <3>2
  <2> QED BY <1>3, <2>1, <2>2, <2>3, <2>4
<1>7. /\ polled' /\ ep_state' # "SEND_DATA" => bytes_left_in_frame' = 0
      /\ ep_state' = "SEND_DATA" => polled'
      /\ packet' # << >> => polled'
  BY <1>1, <1>2
<1>8. ASSUME was_polled PROVE InStep'
  <2>1. PICK n \in 0 .. 2, first \in Frames : InStepWith(n, first)
    BY <1>2, <1>8 DEF CutInv, AtStart, InStep
  <2>2. packet \in Seq(FrameBytes \union OtherBytes) /\ Len(packet) \in Nat
    BY DEF IInv, TypeOK
  <2>3. /\ Len(packet') = Len(packet) + 1 /\ packet'[Len(packet) + 1] = value
        /\ \A i \in 1 .. Len(packet) : packet'[i] = packet[i]
    BY <1>1, <2>2
  <2>4. /\ Span(0) = 0 /\ Span(1) = RecordSize /\ Span(2) = 2 * RecordSize
        /\ n = 0 \/ n = 1 \/ n = 2
    BY DEF Span
  <2>5. Len(packet') + bytes_left_in_frame' = Span(n) + ReportSize
    BY <1>1, <1>2, <2>1, <2>2, <2>3, <2>4 DEF InStepWith
  <2>6. /\ IF Len(packet) + 1 <= Span(n)
           THEN FrameEntry(value, Len(packet) + 1, first)
           ELSE value = ReportByte(Len(packet) - Span(n))
        /\ AdapterAt(Len(packet), n, first)'
    <3>1. CASE fsm = "FRAME_2"
      <4>1. /\ n = 2 /\ Len(packet) = address /\ Head(queue) = first
        BY <2>1, <3>1 DEF InStepWith, AdapterAt
      <4>2. value[1] \in Frames /\ value[2] = address /\ (address # 0 => value[1] = first)
        BY <3>1, <4>1, TakenByte DEF InFrame
      <4>3. FrameEntry(value, Len(packet) + 1, first) /\ Len(packet) + 1 <= Span(n)
        BY <1>3, <2>4, <3>1, <4>1, <4>2 DEF FrameEntry
      <4>4. CASE lastOfPage
        <5>1. fsm' = "FRAME_1" /\ address' = 0 /\ queue' = Tail(queue) /\ Len(queue) >= 2
          BY <1>1, <1>4, <1>5, <3>1, <4>4, AdapterQueue, AdvanceOwned DEF fsm_next, address_next
        <5>2. Head(queue') = Following(Head(queue))
          BY <5>1 DEF OrderInv, Numbered, IInv, TypeOK
        <5>. QED BY <1>3, <2>3, <2>4, <4>1, <4>3, <4>4, <5>1, <5>2 DEF AdapterAt
      <4>5. CASE ~lastOfPage
        <5>1. fsm' = "FRAME_2" /\ address' = address + 1 /\ queue' = queue
          BY <1>1, <1>4, <1>5, <3>1, <4>5, AdapterQueue DEF fsm_next, address_next
        <5>. QED BY <2>3, <4>1, <4>3, <5>1 DEF AdapterAt
      <4>. QED BY <4>4, <4>5
    <3>2. CASE fsm = "FRAME_1"
      <4>. DEFINE frame == IF n = 1 THEN first ELSE Following(first)
      <4>1. /\ n # 0 /\ Len(packet) = Span(n - 1) + address /\ Head(queue) = frame
        BY <2>1, <3>2 DEF InStepWith, AdapterAt
      <4>2. value[1] \in Frames /\ value[2] = address /\ (address # 0 => value[1] = frame)
        BY <3>2, <4>1, TakenByte DEF InFrame
      <4>3. FrameEntry(value, Len(packet) + 1, first) /\ Len(packet) + 1 <= Span(n)
        BY <1>3, <2>4, <3>2, <4>1, <4>2 DEF FrameEntry
      <4>4. CASE lastOfPage
        <5>1. fsm' = "REPORT" /\ address' = 0
          BY <1>4, <1>5, <3>2, <4>4 DEF fsm_next, address_next
        <5>. QED BY <1>3, <2>3, <2>4, <4>1, <4>3, <4>4, <5>1 DEF AdapterAt
      <4>5. CASE ~lastOfPage
        <5>1. fsm' = "FRAME_1" /\ address' = address + 1 /\ queue' = queue
          BY <1>1, <1>4, <1>5, <3>2, <4>5, AdapterQueue DEF fsm_next, address_next
        <5>. QED BY <1>3, <2>3, <2>4, <4>1, <4>3, <5>1 DEF AdapterAt
      <4>. QED BY <4>4, <4>5
    <3>3. CASE fsm = "REPORT"
      <4>1. Len(packet) = Span(n) + address
        BY <2>1, <3>3 DEF InStepWith, AdapterAt
      <4>2. value = ReportByte(address)
        BY <3>3 DEF value
      <4>3. value = ReportByte(Len(packet) - Span(n)) /\ ~(Len(packet) + 1 <= Span(n))
        BY <1>3, <2>4, <4>1, <4>2
      <4>4. CASE address = ReportSize - 1
        <5>1. fsm' = "WAIT_SOF"
          BY <1>4, <1>5, <3>3, <4>4 DEF fsm_next
        <5>. QED BY <1>3, <2>3, <2>4, <4>1, <4>3, <4>4, <5>1 DEF AdapterAt
      <4>5. CASE address # ReportSize - 1
        <5>1. fsm' = "REPORT" /\ address' = address + 1
          BY <1>4, <1>5, <3>3, <4>5 DEF fsm_next, address_next
        <5>. QED BY <1>3, <2>3, <2>4, <4>1, <4>3, <5>1 DEF AdapterAt
      <4>. QED BY <4>4, <4>5
    <3>4. CASE fsm = "WAIT_SOF"
      BY <1>2, <2>1, <2>2, <2>4, <3>4 DEF InStepWith, AdapterAt
    <3>. QED BY <1>3, <3>1, <3>2, <3>3, <3>4
  <2>7. Beginning(packet, n, first)'
    <3>1. SUFFICES ASSUME NEW i \in 1 .. Len(packet) + 1
                   PROVE  IF i <= Span(n) THEN FrameEntry(packet'[i], i, first)
                          ELSE packet'[i] = ReportByte(i - 1 - Span(n))
      BY <2>3 DEF Beginning
    <3>2. CASE i \in 1 .. Len(packet)
      BY <2>1, <2>3, <3>2 DEF InStepWith, Beginning
    <3>3. CASE i = Len(packet) + 1
      BY <2>2, <2>3, <2>4, <2>6, <3>3
    <3>. QED BY <2>2, <3>2, <3>3
  <2>. QED BY <2>5, <2>6, <2>7 DEF InStep, InStepWith
<1> QED BY <1>1, <1>6, <1>7, <1>8 DEF CutInv

LEMMA StepCut ==
  ASSUME IInv, OrderInv, CutInv, [Next]_vars
  PROVE  CutInv'
<1>1. CASE FrameStrobe \/ CounterArrives
  <2>1. UNCHANGED usb_vars
    BY <1>1 DEF FrameStrobe, CounterArrives
  <2>2. InFrame => queue # << >> /\ Head(queue') = Head(queue)
    BY <1>1, FifoStepIInv DEF IInv, TypeOK, PagesOwned, InFrame
  <2>. QED
    BY <2>1, <2>2 DEF usb_vars, CutInv, BytesToWait, AtStart, InStep, InStepWith, AdapterAt, InFrame
<1>2. CASE StartOfFrame
  BY <1>2, CutStartOfFrame
<1>3. CASE DataRequested
  BY <1>3, CutQuiet DEF DataRequested
<1>4. CASE ByteAdvance
  BY <1>4, CutByteAdvance
<1>5. CASE IdleClock
  BY <1>5, CutQuiet DEF IdleClock
<1>6. CASE UNCHANGED vars
  BY <1>6 DEF vars, fifo_vars, usb_vars, CutInv, BytesToWait, AtStart, InStep, InStepWith, AdapterAt
<1> QED BY <1>1, <1>2, <1>3, <1>4, <1>5, <1>6 DEF Next, UsbClk

(* A packet that is complete is whole frames and the report. *)
LEMMA CutIsWellFormed ==
  ASSUME IInv, CutInv PROVE ResyncsAfterOnePacket
<1> SUFFICES ASSUME Sent, was_polled PROVE WellFormed(packet)
  BY DEF ResyncsAfterOnePacket
<1>1. bytes_left_in_frame = 0 /\ packet # << >>
  BY DEF Sent, CutInv
<1>2. PICK n \in 0 .. 2, first \in Frames : InStepWith(n, first)
  BY <1>1 DEF CutInv, AtStart, InStep
<1>3. Span(n) = n * RecordSize /\ Span(n) \in Nat /\ Span(n) <= 2 * RecordSize
  BY DEF Span
<1>4. Len(packet) = Span(n) + ReportSize /\ Beginning(packet, n, first)
  BY <1>1, <1>2, <1>3 DEF InStepWith, IInv, TypeOK
<1>5. ASSUME NEW i \in 1 .. Span(n)
      PROVE  /\ packet[i][1] \in Frames /\ packet[i][2] = (i - 1) % RecordSize
             /\ packet[i][2] # 0
                  => packet[i][1] = (first + ((i - 1) \div RecordSize)) % FrameMod
  <2>1. FrameEntry(packet[i], i, first)
    BY <1>3, <1>4 DEF Beginning
  <2>2. CASE i <= RecordSize
    <3>1. (i - 1) % RecordSize = i - 1 /\ (i - 1) \div RecordSize = 0
      BY <1>3, <2>2
    <3>2. (first + 0) % FrameMod = first
      BY DEF Frames
    <3>. QED BY <2>1, <2>2, <3>1, <3>2 DEF FrameEntry
  <2>3. CASE i > RecordSize
    <3>1. (i - 1) % RecordSize = i - 1 - RecordSize /\ (i - 1) \div RecordSize = 1
      BY <1>3, <2>3
    <3>2. (first + 1) % FrameMod = Following(first)
      BY DEF Frames, Following
    <3>. QED BY <2>1, <2>3, <3>1, <3>2 DEF FrameEntry
  <2>. QED BY <1>3, <2>2, <2>3
<1>6. ASSUME NEW i \in 1 .. ReportSize
      PROVE  packet[Span(n) + i] = ReportByte(i - 1)
  <2>1. Span(n) + i \in 1 .. Len(packet) /\ ~(Span(n) + i <= Span(n))
        /\ (Span(n) + i) - 1 - Span(n) = i - 1
    BY <1>3, <1>4
  <2>. QED BY <1>4, <2>1 DEF Beginning
<1>. QED BY <1>3, <1>4, <1>5, <1>6 DEF WellFormed

(* When the host polled in the (micro)frame before, a packet is whole frames *)
(* in order with the report at their end, whatever it missed before that.    *)
THEOREM ResyncsAfterOnePacketHolds == Spec => []ResyncsAfterOnePacket
<1>1. IInv /\ OrderInv /\ CutInv /\ [Next]_vars => OrderInv' /\ CutInv'
  BY StepOrder, StepCut
<1>2. IInv /\ CutInv => ResyncsAfterOnePacket
  BY CutIsWellFormed
<1> QED BY <1>1, <1>2, AlwaysIInv, InitOrder, InitCut, PTL DEF Spec
=============================================================================
