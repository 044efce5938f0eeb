------------------------- MODULE TxStream_proofs -------------------------
(***************************************************************************)
(* Safety of the transmit path, for every capacity, record size and packet  *)
(* length.  The argument: from a start of frame that is heard until the     *)
(* next one, the adapter's count and the host's run in step, so the page    *)
(* being written holds exactly the bytes of the record on the bus, up to    *)
(* the byte that comes next.                                               *)
(***************************************************************************)
EXTENDS TxStream, SequenceTheorems, TLAPS

USE SizesAssumption, MarksAssumption, LostSOFsAssumption

(* Adapter and host count in step. *)
Lockstep ==
  synced /\ bus # NoByte =>
    /\ address = bus[2]
    /\ fsm = IF bus[1] = Report THEN "REPORT" ELSE "FRAME"
    /\ bus[1] # Report => \A i \in RecordAddresses : i < address => page[i] = FrameByte(bus[1], i)

AddressInRange ==
  /\ fsm = "REPORT" => address < ReportSize
  /\ fsm = "FRAME" => address < RecordSize

IInv == TypeOK /\ AddressInRange /\ Lockstep

(* Between packets nothing is on the bus, and NoByte is none of its bytes. *)
LEMMA BusCases ==
  ASSUME TypeOK, bus # NoByte
  PROVE  \/ /\ bus[1] = Report /\ bus[1] \notin Frames
            /\ bus[2] \in 0 .. ReportSize - 1 /\ bus = ReportByte(bus[2])
         \/ /\ bus[1] # Report /\ bus[1] \in Frames
            /\ bus[2] \in RecordAddresses /\ bus = FrameByte(bus[1], bus[2])
BY DEF TypeOK, BusBytes, Frames, RecordAddresses, FrameByte, ReportByte

LEMMA ByteKinds ==
  /\ \A frame \in Frames, addr \in RecordAddresses :
       /\ FrameByte(frame, addr) \in BusBytes
       /\ FrameByte(frame, addr)[1] = frame /\ FrameByte(frame, addr)[2] = addr
       /\ frame # Report
  /\ \A addr \in 0 .. ReportSize - 1 :
       ReportByte(addr) \in BusBytes /\ ReportByte(addr)[1] = Report /\ ReportByte(addr)[2] = addr
BY DEF BusBytes, FrameByte, ReportByte, Frames

LEMMA InitIInv == Init => IInv
<1> SUFFICES ASSUME Init PROVE IInv
  OBVIOUS
<1>1. page \in Pages /\ queue \in Seq(Pages) /\ Len(queue) = 0
  BY DEF Init, FIFO!Init, Pages
<1>2. 0 \in Addresses /\ 0 \in Frames
  BY DEF Addresses, Larger, Frames
<1> QED BY <1>1, <1>2 DEF Init, FIFO!Init, IInv, TypeOK, AddressInRange, Lockstep

-----------------------------------------------------------------------------
(* The host's side of a byte. *)
LEMMA SendNextType ==
  ASSUME TypeOK, bus # NoByte, SendNext
  PROVE  /\ bus' \in BusBytes \union {NoByte}
         /\ records_left' \in 0 .. MaxFrames /\ next_frame' \in Frames
<1>1. 0 \in RecordAddresses /\ next_frame \in Frames /\ records_left \in 0 .. MaxFrames
      /\ Following(next_frame) \in Frames
  BY DEF RecordAddresses, TypeOK, Following, Frames
<1>2. CASE bus[1] = Report /\ bus[2] < ReportSize - 1
  <2>1. bus[2] + 1 \in 0 .. ReportSize - 1
    BY <1>2, BusCases
  <2> QED BY <1>1, <1>2, <2>1, ByteKinds DEF SendNext
<1>3. CASE bus[1] # Report /\ bus[2] < RecordSize - 1
  <2>1. bus[1] \in Frames /\ bus[2] + 1 \in RecordAddresses
    BY <1>3, BusCases DEF RecordAddresses
  <2> QED BY <1>1, <1>3, <2>1, ByteKinds DEF SendNext
<1>4. CASE ~(bus[1] = Report /\ bus[2] < ReportSize - 1)
           /\ ~(bus[1] # Report /\ bus[2] < RecordSize - 1)
  <2>1. FrameByte(next_frame, 0) \in BusBytes
    BY <1>1, ByteKinds
  <2> QED BY <1>1, <1>4, <2>1 DEF SendNext
<1> QED BY <1>2, <1>3, <1>4

(* The adapter's side of a byte. *)
LEMMA AddressType ==
  ASSUME TypeOK, AddressInRange, ByteAdvance
  PROVE  /\ address' \in Addresses /\ fsm' \in {"REPORT", "FRAME"} /\ page' \in Pages
         /\ AddressInRange'
<1>1. bus \in BusBytes /\ address \in Addresses /\ fsm \in {"REPORT", "FRAME"} /\ page \in Pages
  BY DEF TypeOK, ByteAdvance
<1>2. page' \in Pages
  BY <1>1 DEF ByteAdvance, Pages
<1>3. CASE report_address_last_strobe \/ frame_address_last_strobe
  BY <1>1, <1>2, <1>3 DEF ByteAdvance, Addresses, Larger, AddressInRange
<1>4. CASE ~(report_address_last_strobe \/ frame_address_last_strobe)
  BY <1>1, <1>2, <1>4
  DEF ByteAdvance, Addresses, Larger, report_address_last_strobe, frame_address_last_strobe,
      AddressInRange
<1> QED BY <1>3, <1>4

LEMMA CommitType ==
  ASSUME TypeOK, AddressInRange, ByteAdvance
  PROVE  /\ queue' \in Seq(Pages) /\ Len(queue') <= Capacity
         /\ visible' \in 0 .. Len(queue') /\ overflow_count' \in 0 .. CountMod - 1
         /\ \/ queue' = queue
            \/ queue' = Append(queue, page') /\ frame_address_last_strobe
<1>1. /\ queue \in Seq(Pages) /\ Len(queue) <= Capacity /\ Len(queue) \in Nat
      /\ visible \in 0 .. Len(queue) /\ overflow_count \in 0 .. CountMod - 1
  BY DEF TypeOK
<1>2. page' \in Pages
  BY AddressType
<1>3. CASE UNCHANGED <<fifo_vars, overflow_count>>
  BY <1>1, <1>3 DEF fifo_vars
<1>4. CASE overflow_count' = (overflow_count + 1) % CountMod /\ UNCHANGED fifo_vars
  BY <1>1, <1>4 DEF fifo_vars
<1>5. CASE /\ frame_address_last_strobe /\ FIFO!Step(<<page'>>, FALSE)
           /\ visible' = visible /\ UNCHANGED overflow_count /\ Len(queue) # Capacity
  <2>1. queue' = queue \o <<page'>>
    BY <1>5 DEF FIFO!Step
  <2>2. queue' = Append(queue, page')
    BY <1>1, <1>2, <2>1
  <2>3. queue' \in Seq(Pages) /\ Len(queue') = Len(queue) + 1
    BY <1>1, <1>2, <2>2
  <2> QED BY <1>1, <1>5, <2>2, <2>3
<1> QED BY <1>3, <1>4, <1>5 DEF ByteAdvance

(* A byte in step leaves the page holding the record up to the next byte. *)
LEMMA ByteLockstep ==
  ASSUME IInv, ByteAdvance
  PROVE  Lockstep'
<1> SUFFICES ASSUME synced, bus' # NoByte
             PROVE  /\ address' = bus'[2]
                    /\ fsm' = IF bus'[1] = Report THEN "REPORT" ELSE "FRAME"
                    /\ bus'[1] # Report =>
                         \A i \in RecordAddresses :
                           i < address' => page'[i] = FrameByte(bus'[1], i)
  BY DEF Lockstep, ByteAdvance
<1> USE DEF IInv
<1>1. /\ bus # NoByte /\ SendNext
      /\ address = bus[2]
      /\ fsm = IF bus[1] = Report THEN "REPORT" ELSE "FRAME"
      /\ bus[1] # Report => \A i \in RecordAddresses : i < address => page[i] = FrameByte(bus[1], i)
  BY DEF Lockstep, ByteAdvance
<1>2. CASE bus[1] = Report /\ bus[2] < ReportSize - 1
  <2>1. bus' = ReportByte(bus[2] + 1) /\ bus[2] + 1 \in 0 .. ReportSize - 1
    BY <1>1, <1>2, BusCases DEF SendNext
  <2>2. bus'[1] = Report /\ bus'[2] = bus[2] + 1
    BY <2>1, ByteKinds
  <2>3. fsm' = "REPORT" /\ address' = address + 1
    BY <1>1, <1>2, <2>1
    DEF ByteAdvance, report_address_last_strobe, frame_address_last_strobe
  <2> QED BY <1>1, <2>2, <2>3
<1>3. CASE bus[1] # Report /\ bus[2] < RecordSize - 1
  <2>1. /\ bus' = FrameByte(bus[1], bus[2] + 1) /\ bus[2] + 1 \in RecordAddresses
        /\ bus[1] \in Frames /\ bus[2] \in RecordAddresses /\ bus = FrameByte(bus[1], bus[2])
    BY <1>1, <1>3, BusCases DEF SendNext, RecordAddresses
  <2>2. bus'[1] = bus[1] /\ bus'[2] = bus[2] + 1
    BY <2>1, ByteKinds
  <2>3. fsm' = "FRAME" /\ address' = address + 1 /\ page' = [page EXCEPT ![address] = bus]
    BY <1>1, <1>3, <2>1
    DEF ByteAdvance, report_address_last_strobe, frame_address_last_strobe, RecordAddresses
  <2>4. ASSUME NEW i \in RecordAddresses, i < address + 1
        PROVE  page'[i] = FrameByte(bus[1], i)
    BY <1>1, <1>3, <2>1, <2>3, <2>4 DEF TypeOK, Pages, RecordAddresses
  <2> QED BY <1>1, <1>3, <2>2, <2>3, <2>4
<1>4. CASE ~(bus[1] = Report /\ bus[2] < ReportSize - 1)
           /\ ~(bus[1] # Report /\ bus[2] < RecordSize - 1)
  <2>1. bus' = FrameByte(next_frame, 0) /\ next_frame \in Frames /\ 0 \in RecordAddresses
    BY <1>1, <1>4 DEF SendNext, TypeOK, RecordAddresses
  <2>2. bus'[1] # Report /\ bus'[2] = 0
    BY <2>1, ByteKinds
  <2>3. address' = 0 /\ fsm' = "FRAME"
    BY <1>1, <1>4, BusCases
    DEF ByteAdvance, report_address_last_strobe, frame_address_last_strobe, RecordAddresses
  <2> QED BY <2>2, <2>3 DEF RecordAddresses
<1> QED BY <1>2, <1>3, <1>4

(* The record committed by a byte in step is the one on the bus. *)
LEMMA CommittedRecord ==
  ASSUME IInv, ByteAdvance, synced, frame_address_last_strobe
  PROVE  /\ bus[1] \in Frames /\ bus[2] = RecordSize - 1
         /\ page' = [addr \in RecordAddresses |-> FrameByte(bus[1], addr)]
<1> USE DEF IInv
<1>1. /\ bus # NoByte /\ fsm = "FRAME" /\ address = RecordSize - 1
      /\ address = bus[2]
      /\ fsm = IF bus[1] = Report THEN "REPORT" ELSE "FRAME"
      /\ bus[1] # Report => \A i \in RecordAddresses : i < address => page[i] = FrameByte(bus[1], i)
  BY DEF Lockstep, ByteAdvance, frame_address_last_strobe
<1>2. bus[1] \in Frames /\ bus = FrameByte(bus[1], bus[2]) /\ bus[1] # Report
  BY <1>1, BusCases
<1>3. page' = [page EXCEPT ![address] = bus] /\ page \in Pages
  BY <1>1 DEF ByteAdvance, TypeOK
<1>4. page' = [addr \in RecordAddresses |-> FrameByte(bus[1], addr)]
  <2>1. ASSUME NEW addr \in RecordAddresses
        PROVE  page'[addr] = FrameByte(bus[1], addr)
    BY <1>1, <1>2, <1>3 DEF Pages, RecordAddresses
  <2> QED BY <1>3, <2>1 DEF Pages
<1> QED BY <1>1, <1>2, <1>4

-----------------------------------------------------------------------------
LEMMA NewPacketType ==
  ASSUME TypeOK, NewPacket
  PROVE  /\ bus' \in BusBytes \union {NoByte} /\ records_left' \in 0 .. MaxFrames
         /\ next_frame' \in Frames
         /\ bus' # NoByte => bus' = ReportByte(0) /\ bus'[1] = Report /\ bus'[2] = 0
<1>1. 0 \in 0 .. ReportSize - 1
  OBVIOUS
<1> QED BY <1>1, ByteKinds DEF NewPacket, TypeOK

LEMMA StepIInv ==
  ASSUME IInv, [Next]_vars PROVE IInv'
<1> USE DEF IInv
<1>1. CASE StartOfFrame
  <2>1. queue' = queue /\ visible' = visible /\ page' = page /\ overflow_count' = overflow_count
    BY <1>1 DEF StartOfFrame, fifo_vars
  <2>2. NewPacket /\ synced' = TRUE /\ fsm' = "REPORT" /\ address' = 0
    BY <1>1 DEF StartOfFrame
  <2>3. 0 \in Addresses
    BY DEF Addresses, Larger
  <2>4. TypeOK'
    BY <2>1, <2>2, <2>3, NewPacketType DEF TypeOK
  <2>5. AddressInRange' /\ Lockstep'
    BY <2>2, NewPacketType DEF AddressInRange, Lockstep
  <2> QED BY <2>4, <2>5
<1>2. CASE LostStartOfFrame
  <2>1. /\ queue' = queue /\ visible' = visible /\ page' = page
        /\ overflow_count' = overflow_count /\ fsm' = fsm /\ address' = address
    BY <1>2 DEF LostStartOfFrame, fifo_vars, adapter_vars
  <2>2. NewPacket /\ synced' = FALSE
    BY <1>2 DEF LostStartOfFrame
  <2>3. TypeOK'
    BY <2>1, <2>2, NewPacketType DEF TypeOK
  <2> QED BY <2>1, <2>2, <2>3 DEF AddressInRange, Lockstep
<1>3. CASE ByteAdvance
  <2>1. bus # NoByte /\ SendNext /\ synced' = synced
    BY <1>3 DEF ByteAdvance
  <2>2. TypeOK'
    BY <1>3, <2>1, SendNextType, AddressType, CommitType DEF TypeOK
  <2> QED BY <1>3, <2>2, AddressType, ByteLockstep
<1>4. CASE Truncate
  <2>1. /\ queue' = queue /\ visible' = visible /\ page' = page
        /\ overflow_count' = overflow_count /\ fsm' = fsm /\ address' = address
        /\ bus' = NoByte /\ records_left' = 0 /\ next_frame' = next_frame /\ synced' = synced
    BY <1>4 DEF Truncate, fifo_vars, adapter_vars
  <2>2. TypeOK'
    BY <2>1 DEF TypeOK
  <2> QED BY <2>1, <2>2 DEF AddressInRange, Lockstep
<1>5. CASE FrameStrobe \/ CounterArrives
  <2>1. /\ page' = page /\ overflow_count' = overflow_count /\ fsm' = fsm
        /\ address' = address /\ bus' = bus /\ records_left' = records_left
        /\ next_frame' = next_frame /\ synced' = synced
    BY <1>5 DEF FrameStrobe, CounterArrives, adapter_vars, host_vars
  <2>2. /\ queue \in Seq(Pages) /\ Len(queue) \in Nat /\ Len(queue) <= Capacity
        /\ visible \in 0 .. Len(queue)
    BY DEF TypeOK
  <2>3. CASE FrameStrobe
    <3>1. queue' = Tail(queue) \o << >> /\ visible' = visible - 1 /\ visible >= 2
      BY <2>3 DEF FrameStrobe, FIFO!Step
    <3>2. queue # << >> /\ Tail(queue) \in Seq(Pages) /\ Len(Tail(queue)) = Len(queue) - 1
      BY <2>2, <3>1
    <3>3. queue' = Tail(queue)
      BY <3>1, <3>2
    <3> QED BY <2>1, <2>2, <3>1, <3>2, <3>3 DEF TypeOK, AddressInRange, Lockstep
  <2>4. CASE CounterArrives
    <3>1. queue' = queue \o << >> /\ visible' \in visible .. Len(queue')
      BY <2>4 DEF CounterArrives, FIFO!Step
    <3>2. queue' = queue
      BY <2>2, <3>1
    <3> QED BY <2>1, <2>2, <3>1, <3>2 DEF TypeOK, AddressInRange, Lockstep
  <2> QED BY <1>5, <2>3, <2>4
<1>6. CASE UNCHANGED vars
  BY <1>6 DEF vars, fifo_vars, adapter_vars, host_vars, TypeOK, AddressInRange, Lockstep
<1> QED BY <1>1, <1>2, <1>3, <1>4, <1>5, <1>6 DEF Next

LEMMA AlwaysIInv == Spec => []IInv
BY InitIInv, StepIInv, PTL DEF Spec

(* Type correctness, for every value of the constants. *)
THEOREM TypeCorrect == Spec => []TypeOK
BY AlwaysIInv, PTL DEF IInv

-----------------------------------------------------------------------------
(* The queue grows only by the page that a byte completes. *)
LEMMA QueueStep ==
  ASSUME IInv, [Next]_vars
  PROVE  \/ queue' = queue
         \/ ByteAdvance /\ queue' = Append(queue, page') /\ frame_address_last_strobe
         \/ FrameStrobe /\ queue' = Tail(queue) /\ queue # << >>
<1> USE DEF IInv
<1>1. queue \in Seq(Pages) /\ Len(queue) \in Nat /\ visible \in 0 .. Len(queue)
  BY DEF TypeOK
<1>2. CASE ByteAdvance
  BY <1>2, CommitType
<1>3. CASE FrameStrobe
  <2>1. queue' = Tail(queue) \o << >> /\ visible >= 2
    BY <1>3 DEF FrameStrobe, FIFO!Step
  <2>2. queue # << >> /\ Tail(queue) \in Seq(Pages)
    BY <1>1, <2>1
  <2> QED BY <1>3, <2>1, <2>2
<1>4. CASE CounterArrives
  <2>1. queue' = queue \o << >>
    BY <1>4 DEF CounterArrives, FIFO!Step
  <2> QED BY <1>1, <2>1
<1>5. CASE StartOfFrame \/ LostStartOfFrame \/ Truncate \/ UNCHANGED vars
  BY <1>5 DEF StartOfFrame, LostStartOfFrame, Truncate, fifo_vars, vars
<1> QED BY <1>2, <1>3, <1>4, <1>5 DEF Next

LEMMA SyncedStep ==
  ASSUME IInv, [Next]_vars, synced, Len(queue') > Len(queue)
  PROVE  Whole(queue'[Len(queue')])
<1>1. queue \in Seq(Pages) /\ Len(queue) \in Nat
  BY DEF IInv, TypeOK
<1>2. queue # << >> => Len(Tail(queue)) = Len(queue) - 1
  BY <1>1
<1>3. /\ ByteAdvance /\ queue' = Append(queue, page') /\ frame_address_last_strobe
  BY <1>1, <1>2, QueueStep
<1>4. bus[1] \in Frames /\ page' = [addr \in RecordAddresses |-> FrameByte(bus[1], addr)]
  BY <1>3, CommittedRecord
<1>5. queue'[Len(queue')] = page'
  BY <1>1, <1>3
<1> QED BY <1>4, <1>5 DEF Whole

(* After a start of frame that was heard only whole records are committed,   *)
(* whatever was lost before it.                                             *)
THEOREM SyncedCommitsWholeHolds == Spec => SyncedCommitsWhole
<1>1. IInv /\ [Next]_vars
        => [synced /\ Len(queue') > Len(queue) => Whole(queue'[Len(queue')])]_vars
  BY SyncedStep
<1> QED BY <1>1, AlwaysIInv, PTL DEF Spec, SyncedCommitsWhole

LEMMA AccountedStep ==
  ASSUME IInv, synced, ByteAdvance, bus[1] \in Frames, bus[2] = RecordSize - 1
  PROVE  Committed(bus[1]) \/ overflow_count' # overflow_count
<1> USE DEF IInv
<1>1. bus # NoByte /\ bus[1] # Report
  BY BusCases DEF ByteAdvance, Frames
<1>2. frame_address_last_strobe
  BY <1>1 DEF Lockstep, frame_address_last_strobe
<1>3. page' = [addr \in RecordAddresses |-> FrameByte(bus[1], addr)]
  BY <1>2, CommittedRecord
<1>4. CASE overflow_count' = (overflow_count + 1) % CountMod
  <2>1. overflow_count \in 0 .. CountMod - 1
    BY DEF TypeOK
  <2>2. (overflow_count + 1) % CountMod # overflow_count
    <3>1. CASE overflow_count = CountMod - 1
      BY <2>1, <3>1
    <3>2. CASE overflow_count < CountMod - 1
      BY <2>1, <3>2
    <3> QED BY <2>1, <3>1, <3>2
  <2> QED BY <1>4, <2>2
<1>5. CASE FIFO!Step(<<page'>>, FALSE)
  <2>1. queue' = queue \o <<page'>> /\ queue \in Seq(Pages) /\ page' \in Pages
    BY <1>5, AddressType DEF FIFO!Step, TypeOK
  <2>2. queue' = Append(queue, page')
    BY <2>1
  <2> QED BY <1>3, <2>2 DEF Committed
<1> QED BY <1>2, <1>4, <1>5 DEF ByteAdvance

(* No record is lost unseen. *)
THEOREM WholeRecordsAccountedHolds == Spec => WholeRecordsAccounted
<1>1. IInv /\ [Next]_vars
        => [synced /\ ByteAdvance /\ bus[1] \in Frames /\ bus[2] = RecordSize - 1
              => Committed(bus[1]) \/ overflow_count' # overflow_count]_vars
  BY AccountedStep
<1> QED BY <1>1, AlwaysIInv, PTL DEF Spec, WholeRecordsAccounted

-----------------------------------------------------------------------------
(* On a device that hears every start of frame all records are whole: those  *)
(* cut short are not committed, and those refused leave no trace.           *)
THEOREM RecordsWholeHolds ==
  ASSUME LostSOFs = FALSE
  PROVE  Spec => []RecordsWhole
<1> DEFINE SyncedInv == synced /\ RecordsWhole
<1>1. Init => SyncedInv
  BY DEF Init, FIFO!Init, RecordsWhole
<1>2. IInv /\ SyncedInv /\ [Next]_vars => SyncedInv'
  <2> SUFFICES ASSUME IInv, synced, RecordsWhole, [Next]_vars
               PROVE  synced' /\ RecordsWhole'
    OBVIOUS
  <2>1. synced'
    <3>1. CASE StartOfFrame
      BY <3>1 DEF StartOfFrame
    <3>2. CASE LostStartOfFrame
      BY <3>2, Zenon DEF LostStartOfFrame
    <3>3. synced' = synced => synced'
      OBVIOUS
    <3>4. CASE ByteAdvance \/ Truncate
      BY <3>3, <3>4 DEF ByteAdvance, Truncate
    <3>5. CASE FrameStrobe \/ CounterArrives \/ UNCHANGED vars
      BY <3>3, <3>5 DEF FrameStrobe, CounterArrives, vars, host_vars
    <3> QED BY <3>1, <3>2, <3>4, <3>5 DEF Next
  <2>2. queue \in Seq(Pages) /\ Len(queue) \in Nat
    BY DEF IInv, TypeOK
  <2>3. CASE queue' = queue
    BY <2>1, <2>3 DEF RecordsWhole, Whole
  <2>4. CASE queue' = Append(queue, page') /\ ByteAdvance /\ frame_address_last_strobe
    <3>1. Len(queue') = Len(queue) + 1
      BY <2>2, <2>4
    <3>2. Whole(queue'[Len(queue')])
      BY <2>2, <3>1, SyncedStep
    <3>3. ASSUME NEW i \in 1 .. Len(queue') PROVE Whole(queue'[i])
      <4>1. CASE i = Len(queue')
        BY <3>2, <4>1, Zenon
      <4>2. CASE i # Len(queue')
        <5>1. i \in 1 .. Len(queue) /\ queue'[i] = queue[i]
          BY <2>2, <2>4, <3>1, <4>2
        <5> QED BY <5>1 DEF RecordsWhole
      <4> QED BY <4>1, <4>2
    <3> QED BY <2>1, <3>3, Zenon DEF RecordsWhole, Whole
  <2>5. CASE queue' = Tail(queue) /\ queue # << >>
    <3>1. /\ Len(Tail(queue)) = Len(queue) - 1
          /\ \A i \in 1 .. Len(Tail(queue)) : Tail(queue)[i] = queue[i + 1]
      BY <2>2, <2>5, HeadTailProperties, Zenon
    <3>2. ASSUME NEW i \in 1 .. Len(queue') PROVE Whole(queue'[i])
      <4>1. i \in 1 .. Len(Tail(queue))
        BY <2>5
      <4>2. queue'[i] = queue[i + 1]
        BY <2>5, <3>1, <4>1, Zenon
      <4>3. i + 1 \in 1 .. Len(queue)
        BY <2>2, <3>1, <4>1
      <4> QED BY <4>2, <4>3, Zenon DEF RecordsWhole
    <3> QED BY <2>1, <3>2, Zenon DEF RecordsWhole, Whole
  <2> QED BY <2>1, <2>3, <2>4, <2>5, QueueStep
<1> QED BY <1>1, <1>2, AlwaysIInv, PTL DEF Spec
=============================================================================
