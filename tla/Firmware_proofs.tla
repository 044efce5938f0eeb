-------------------------- MODULE Firmware_proofs --------------------------
(***************************************************************************)
(* What the firmware's main loop promises, for any number of channels,      *)
(* blocks and registers, whatever the framer does between two reads and     *)
(* whenever the host polls: no cause of an interrupt is lost, every report  *)
(* decodes, the host's signaling bits catch up with the framer's, and a     *)
(* register reads as it was last written.                                   *)
(*                                                                         *)
(* What has to be known beside NoneLost is whose report the interrupt       *)
(* endpoint holds: nothing when a channel's status is read, that channel's  *)
(* report, not yet given to the bus, while it is read, and otherwise only   *)
(* one that is primed.  So a status is cleared only with the causes in it   *)
(* appended to the report of its own channel.                               *)
(***************************************************************************)
EXTENDS Firmware, SequenceTheorems, TLAPS

(* The values of the fields are of many kinds; that they are in sequence is  *)
(* all that is needed.                                                      *)
IsSequence(s) == \E S : s \in Seq(S)

StatusType ==
  /\ status \in [ChannelIds -> [AllStatusRegisters -> SUBSET {"SIG", "OTHER", "RxEOT"}]]
  /\ unreported \in [ChannelIds -> SUBSET (AllStatusRegisters \X {"SIG", "OTHER", "RxEOT"})]
  /\ channel_index \in ChannelIds

Reports(channel) ==
  usb_in_int.fifo # <<>> /\ usb_in_int.fifo[1][1] = <<"header", channel>>

EndpointInv ==
  /\ \E fifo, primed : /\ IsSequence(fifo) /\ primed \in BOOLEAN
                       /\ usb_in_int = [fifo |-> fifo, primed |-> primed]
  /\ usb_in_int.fifo # <<>> => \E channel \in ChannelIds : Reports(channel)
  /\ usb_in_int.primed => usb_in_int.fifo # <<>> /\ pc \in {"command", "idle"}
  /\ ~usb_in_int.primed /\ pc # "report" => usb_in_int.fifo = <<>>
  /\ pc = "report" => Reports(channel_index)
  /\ pc \in {"command", "idle", "bisr", "report", "transmit"}

IInv == StatusType /\ EndpointInv /\ NoneLost

-----------------------------------------------------------------------------
(* A status register is none of those whose value is not their causes. *)
LEMMA StatusNames ==
  ASSUME NEW register \in AllStatusRegisters
  PROVE  register[1] \notin {"rdlbcr", "lapdbcr", "rsar"}
<1>1. PICK block \in Blocks : register \in StatusRegisters(block)
  BY DEF AllStatusRegisters
<1>2. register[1] # "rdlbcr" /\ register \in {Registers[block][i] : i \in DOMAIN Registers[block]}
  BY <1>1 DEF StatusRegisters, ToSet
<1>3. PICK i \in DOMAIN Registers[block] : register = Registers[block][i]
  BY <1>2
<1>4. block \in AllBlocks
  BY SizesAssumption
<1>5. CASE block = "LBCODE"
  BY <1>3, <1>5 DEF Registers
<1>6. CASE block = "HDLC"
  BY <1>2, <1>3, <1>6, SizesAssumption DEF Registers, HdlcNames
<1>7. CASE block = "SLIP"
  BY <1>3, <1>7 DEF Registers
<1>8. CASE block = "ALARM"
  BY <1>3, <1>8 DEF Registers
<1>9. CASE block = "T1FRAME"
  BY <1>3, <1>9 DEF Registers
<1> QED BY <1>4, <1>5, <1>6, <1>7, <1>8, <1>9 DEF AllBlocks

LEMMA InvInit == Init => IInv
<1> SUFFICES ASSUME Init PROVE IInv
  OBVIOUS
<1>1. StatusType
  BY SizesAssumption DEF Init, StatusType, ChannelIds
<1>2. EndpointInv
  <2>1. usb_in_int = [fifo |-> <<>>, primed |-> FALSE] /\ pc = "command"
    BY DEF Init, Idle
  <2>2. IsSequence(<<>>)
    <3>1. <<>> \in Seq({})
      OBVIOUS
    <3> QED BY <3>1 DEF IsSequence
  <2> QED BY <2>1, <2>2 DEF EndpointInv
<1>3. NoneLost
  BY DEF Init, NoneLost
<1> QED BY <1>1, <1>2, <1>3 DEF IInv

(* A field is put behind those of a packet. *)
LEMMA Appending ==
  ASSUME NEW s, NEW v, IsSequence(s)
  PROVE  /\ IsSequence(Append(s, v)) /\ Append(s, v) # <<>>
         /\ s = <<>> => Append(s, v)[1] = v
         /\ s # <<>> => Append(s, v)[1] = s[1]
         /\ \A x : Tells(s, x) \/ (v[1] = x[1] /\ x[2] \in v[2]) => Tells(Append(s, v), x)
<1>1. PICK S : s \in Seq(S)
  BY DEF IsSequence
<1>2. PICK T : T = S \union {v}
  OBVIOUS
<1>3. /\ s \in Seq(T) /\ v \in T
      /\ Append(s, v) \in Seq(T) /\ Append(s, v) # <<>>
  <2>1. /\ s = [i \in 1 .. Len(s) |-> s[i]] /\ Len(s) \in Nat
        /\ \A i \in 1 .. Len(s) : s[i] \in T
    BY <1>1, <1>2
  <2>2. s \in Seq(T) /\ v \in T
    BY <1>2, <2>1
  <2> QED BY <2>2, AppendProperties
<1>4. /\ Len(s) \in Nat /\ DOMAIN s = 1 .. Len(s)
      /\ DOMAIN Append(s, v) = 1 .. Len(s) + 1
      /\ Append(s, v)[Len(s) + 1] = v
      /\ \A i \in 1 .. Len(s) : Append(s, v)[i] = s[i]
  BY <1>3
<1>5. (s = <<>> => Len(s) = 0) /\ (s # <<>> => Len(s) >= 1)
  BY <1>1
<1>6. ASSUME NEW x, Tells(s, x) \/ (v[1] = x[1] /\ x[2] \in v[2])
      PROVE  Tells(Append(s, v), x)
  <2>1. CASE Tells(s, x)
    <3>1. PICK i \in DOMAIN s : s[i][1] = x[1] /\ x[2] \in s[i][2]
      BY <2>1 DEF Tells
    <3>2. i \in DOMAIN Append(s, v) /\ Append(s, v)[i] = s[i]
      BY <1>4, <3>1
    <3> QED BY <3>1, <3>2 DEF Tells
  <2>2. CASE v[1] = x[1] /\ x[2] \in v[2]
    BY <1>4, <2>2 DEF Tells
  <2> QED BY <1>6, <2>1, <2>2
<1> QED BY <1>3, <1>4, <1>5, <1>6 DEF IsSequence

-----------------------------------------------------------------------------
LEMMA ReadBisrKeeps ==
  ASSUME IInv, ReadBisr
  PROVE  IInv'
<1>1. /\ pc = "bisr" /\ UNCHANGED <<channel_index, status, unreported>>
  BY DEF ReadBisr, framer_vars
<1>2. usb_in_int.fifo = <<>> /\ ~usb_in_int.primed
  BY <1>1 DEF IInv, EndpointInv
<1>3. StatusType'
  BY <1>1 DEF IInv, StatusType
<1>4. \A channel \in ChannelIds : \A x \in unreported[channel] : x[2] \in status[channel][x[1]]
  BY <1>2 DEF IInv, NoneLost
<1>5. NoneLost'
  BY <1>1, <1>4 DEF NoneLost
<1>6. CASE pc' = "transmit" /\ UNCHANGED usb_in_int
  BY <1>2, <1>3, <1>5, <1>6 DEF IInv, EndpointInv
<1>7. CASE pc' = "report" /\ \E blocks :
             usb_in_int' = write_fifo(usb_in_int, <<<<"header", channel_index>>, blocks>>)
  <2>1. PICK blocks :
          usb_in_int' = write_fifo(usb_in_int, <<<<"header", channel_index>>, blocks>>)
    BY <1>7
  <2>. DEFINE v == <<<<"header", channel_index>>, blocks>>
  <2>2. PICK fifo, primed : /\ IsSequence(fifo) /\ primed \in BOOLEAN
                            /\ usb_in_int = [fifo |-> fifo, primed |-> primed]
    BY DEF IInv, EndpointInv
  <2>3. fifo = <<>> /\ primed = FALSE
    BY <1>2, <2>2
  <2>4. usb_in_int' = [fifo |-> Append(fifo, v), primed |-> FALSE]
    BY <2>1, <2>2, <2>3 DEF write_fifo
  <2>5. IsSequence(Append(fifo, v)) /\ Append(fifo, v) # <<>> /\ Append(fifo, v)[1] = v
    BY <2>2, <2>3, Appending
  <2>6. Reports(channel_index)'
    BY <1>1, <2>4, <2>5 DEF Reports
  <2>7. channel_index' \in ChannelIds
    BY <1>3 DEF StatusType
  <2>. HIDE DEF v
  <2>8. EndpointInv'
    BY <1>7, <2>4, <2>5, <2>6, <2>7 DEF EndpointInv
  <2> QED BY <1>3, <1>5, <2>8 DEF IInv
<1>. QED
  <2>1. \/ pc' = "transmit" /\ UNCHANGED usb_in_int
        \/ /\ pc' = "report"
           /\ usb_in_int' = write_fifo(usb_in_int,
                                       <<<<"header", channel_index>>, bisr(channel_index)>>)
    BY DEF ReadBisr
  <2>. QED BY <1>6, <1>7, <2>1

(* What a read clears is in the report of its channel. *)
LEMMA ReadRegisterKeeps ==
  ASSUME IInv, ReadRegister
  PROVE  IInv'
<1>. DEFINE register == Head(todo)
            value == RegisterValue(register)
            v == <<register, value>>
            c == channel_index
<1>1. /\ pc = "report" /\ pc' = "report" /\ UNCHANGED <<channel_index, unreported>>
      /\ usb_in_int' = write_fifo(usb_in_int, v)
      /\ status' = IF register \in AllStatusRegisters
                   THEN [status EXCEPT ![c][register] = {}] ELSE status
  BY DEF ReadRegister
<1>2. PICK fifo, primed : /\ IsSequence(fifo) /\ primed \in BOOLEAN
                          /\ usb_in_int = [fifo |-> fifo, primed |-> primed]
  BY DEF IInv, EndpointInv
<1>3. primed = FALSE /\ fifo # <<>> /\ fifo[1][1] = <<"header", c>>
  BY <1>1, <1>2 DEF IInv, EndpointInv, Reports
<1>4. /\ IsSequence(Append(fifo, v)) /\ Append(fifo, v) # <<>>
      /\ Append(fifo, v)[1] = fifo[1]
      /\ \A x : Tells(fifo, x) \/ (v[1] = x[1] /\ x[2] \in v[2]) => Tells(Append(fifo, v), x)
  BY <1>2, <1>3, Appending
<1>5. usb_in_int' = [fifo |-> Append(fifo, v), primed |-> FALSE]
  BY <1>1, <1>2, <1>3 DEF write_fifo
<1>6. c \in ChannelIds /\ Reports(channel_index)'
  <2>0. usb_in_int'.fifo = Append(fifo, v)
    BY <1>5
  <2>1. /\ usb_in_int'.fifo[1] = fifo[1] /\ usb_in_int'.fifo # <<>>
        /\ fifo[1][1] = <<"header", channel_index'>>
    BY <1>1, <1>3, <1>4, <2>0
  <2>2. Reports(channel_index)'
    BY <1>4, <2>1 DEF Reports
  <2> QED BY <2>2 DEF IInv, StatusType
<1>7. register \in AllStatusRegisters => v = <<register, status[c][register]>>
  BY StatusNames DEF RegisterValue
<1>. HIDE DEF v, value
<1>8. StatusType'
  BY <1>1, <1>6 DEF IInv, StatusType
<1>9. EndpointInv'
  <2>1. \E some, is : /\ IsSequence(some) /\ is \in BOOLEAN
                      /\ usb_in_int' = [fifo |-> some, primed |-> is]
    BY <1>4, <1>5
  <2>2. ~usb_in_int'.primed /\ usb_in_int'.fifo # <<>>
    BY <1>4, <1>5
  <2>3. c \in ChannelIds /\ Reports(c)'
    BY <1>1, <1>6
  <2> QED BY <1>1, <1>6, <2>1, <2>2, <2>3 DEF EndpointInv
<1>10. ASSUME NEW channel \in ChannelIds, NEW x \in unreported[channel]
       PROVE  \/ x[2] \in status'[channel][x[1]]
              \/ /\ usb_in_int'.fifo # <<>> /\ usb_in_int'.fifo[1][1] = <<"header", channel>>
                 /\ Tells(usb_in_int'.fifo, x)
  <2>1. \/ x[2] \in status[channel][x[1]]
        \/ fifo[1][1] = <<"header", channel>> /\ Tells(fifo, x)
    BY <1>2 DEF IInv, NoneLost
  <2>2. CASE fifo[1][1] = <<"header", channel>> /\ Tells(fifo, x)
    BY <1>4, <1>5, <2>2
  <2>3. CASE x[2] \in status[channel][x[1]]
    <3>0. x[1] \in AllStatusRegisters
      BY DEF IInv, StatusType
    <3>1. CASE channel = c /\ x[1] = register /\ register \in AllStatusRegisters
      <4>1. v[1] = x[1] /\ x[2] \in v[2]
        BY <1>7, <2>3, <3>1
      <4> QED BY <1>3, <1>4, <1>5, <3>1, <4>1
    <3>2. CASE ~(channel = c /\ x[1] = register /\ register \in AllStatusRegisters)
      <4>1. status'[channel][x[1]] = status[channel][x[1]]
        BY <1>1, <1>6, <3>0, <3>2 DEF IInv, StatusType
      <4> QED BY <2>3, <4>1
    <3> QED BY <3>1, <3>2
  <2> QED BY <2>1, <2>2, <2>3
<1>11. NoneLost'
  BY <1>1, <1>10 DEF NoneLost
<1> QED BY <1>8, <1>9, <1>11 DEF IInv

(* The rest of the loop: the report is primed once, and whole. *)
LEMMA LoopKeeps ==
  ASSUME IInv, CheckCommand \/ CheckIdle \/ Transmit
  PROVE  IInv'
<1>1. UNCHANGED <<status, unreported>>
  BY DEF CheckCommand, CheckIdle, Transmit, framer_vars, report_vars
<1>2. CASE CheckCommand
  <2>1. UNCHANGED <<channel_index, usb_in_int>> /\ pc = "command" /\ pc' = "idle"
    BY <1>2 DEF CheckCommand, report_vars
  <2>. QED BY <1>1, <2>1 DEF IInv, StatusType, EndpointInv, NoneLost, Reports
<1>3. CASE CheckIdle
  <2>1. /\ UNCHANGED <<channel_index, usb_in_int>> /\ pc = "idle"
        /\ pc' = IF usb_in_int.primed THEN "command" ELSE "bisr"
    BY <1>3 DEF CheckIdle, report_vars
  <2>. QED BY <1>1, <2>1 DEF IInv, StatusType, EndpointInv, NoneLost, Reports
<1>4. CASE Transmit
  <2>1. /\ pc = "transmit" \/ pc = "report"
        /\ pc' = "command"
        /\ usb_in_int' = IF usb_in_int.fifo # <<>> THEN transmit(usb_in_int) ELSE usb_in_int
        /\ channel_index' = next_channel
    BY <1>4 DEF Transmit
  <2>2. pc' = "command"
    BY <1>4 DEF Transmit
  <2>3. channel_index' \in ChannelIds
    BY <2>1, SizesAssumption DEF next_channel, ChannelIds, IInv, StatusType
  <2>4. PICK fifo, primed : /\ IsSequence(fifo) /\ primed \in BOOLEAN
                            /\ usb_in_int = [fifo |-> fifo, primed |-> primed]
    BY DEF IInv, EndpointInv
  <2>5. usb_in_int' = [fifo |-> fifo, primed |-> primed \/ fifo # <<>>]
    <3>1. CASE fifo # <<>>
      BY <2>1, <2>4, <3>1 DEF transmit
    <3>2. CASE fifo = <<>>
      BY <2>1, <2>4, <3>2
    <3> QED BY <3>1, <3>2
  <2>6. primed => fifo # <<>>
    BY <2>4 DEF IInv, EndpointInv
  <2>7. usb_in_int'.fifo = usb_in_int.fifo /\ usb_in_int.fifo = fifo
    BY <2>4, <2>5
  <2>8. EndpointInv'
    <3>1. usb_in_int'.fifo # <<>> => \E channel \in ChannelIds : Reports(channel)'
      BY <2>7 DEF IInv, EndpointInv, Reports
    <3>2. usb_in_int'.primed <=> fifo # <<>>
      BY <2>5, <2>6
    <3>3. (primed \/ fifo # <<>>) \in BOOLEAN
      OBVIOUS
    <3> QED BY <2>2, <2>4, <2>5, <2>7, <3>1, <3>2, <3>3 DEF EndpointInv
  <2>9. NoneLost'
    BY <1>1, <2>7 DEF IInv, NoneLost
  <2>. QED BY <1>1, <2>3, <2>8, <2>9 DEF IInv, StatusType
<1> QED BY <1>2, <1>3, <1>4

-----------------------------------------------------------------------------
(* The framer latches a cause. *)
LEMMA LatchKeeps ==
  ASSUME IInv, NEW channel \in ChannelIds, NEW register \in AllStatusRegisters,
         NEW cause \in {"SIG", "OTHER", "RxEOT"}, Latch(channel, register, cause),
         UNCHANGED <<pc, channel_index, usb_in_int>>
  PROVE  IInv'
<1>1. /\ status' = [status EXCEPT ![channel][register] = @ \union {cause}]
      /\ unreported' = [unreported EXCEPT ![channel] = @ \union {<<register, cause>>}]
  BY DEF Latch
<1>2. StatusType'
  BY <1>1 DEF IInv, StatusType
<1>3. EndpointInv'
  BY DEF IInv, EndpointInv, Reports
<1>4. ASSUME NEW other \in ChannelIds, NEW x \in unreported'[other]
      PROVE  \/ x[2] \in status'[other][x[1]]
             \/ /\ usb_in_int'.fifo # <<>> /\ usb_in_int'.fifo[1][1] = <<"header", other>>
                /\ Tells(usb_in_int'.fifo, x)
  <2>1. CASE x \in unreported[other]
    <3>1. x[1] \in AllStatusRegisters
      BY <2>1 DEF IInv, StatusType
    <3>2. status[other][x[1]] \subseteq status'[other][x[1]]
      BY <1>1, <3>1 DEF IInv, StatusType
    <3> QED BY <2>1, <3>2 DEF IInv, NoneLost
  <2>2. CASE x \notin unreported[other]
    <3>1. other = channel /\ x = <<register, cause>>
      BY <1>1, <2>2 DEF IInv, StatusType
    <3> QED BY <1>1, <3>1 DEF IInv, StatusType
  <2> QED BY <2>1, <2>2
<1>5. NoneLost'
  BY <1>4 DEF NoneLost
<1> QED BY <1>2, <1>3, <1>5 DEF IInv

(* The host fetches a report: what it is not told of is latched. *)
LEMMA PollKeeps ==
  ASSUME IInv, PollInterrupt
  PROVE  IInv'
<1>. DEFINE packet == usb_in_int.fifo
            told == packet[1][1][2]
<1>1. /\ usb_in_int.primed /\ usb_in_int' = Idle
      /\ UNCHANGED <<status, pc, channel_index>>
      /\ unreported' = [unreported EXCEPT ![told] =
                          {x \in @ : x[2] \in status[told][x[1]] \/ ~Tells(packet, x)}]
  BY DEF PollInterrupt, framer_vars, firmware_vars
<1>2. packet # <<>> /\ pc \in {"command", "idle"}
  BY <1>1 DEF IInv, EndpointInv
<1>3. PICK owner \in ChannelIds : packet[1][1] = <<"header", owner>>
  BY <1>2 DEF IInv, EndpointInv, Reports
<1>4. told = owner
  BY <1>3
<1>. HIDE DEF told
<1>5. StatusType'
  BY <1>1, <1>4 DEF IInv, StatusType
<1>6. EndpointInv'
  <2>1. IsSequence(<<>>)
    <3>1. <<>> \in Seq({})
      OBVIOUS
    <3> QED BY <3>1 DEF IsSequence
  <2> QED BY <1>1, <1>2, <2>1 DEF Idle, EndpointInv
<1>7. ASSUME NEW channel \in ChannelIds, NEW x \in unreported'[channel]
      PROVE  x[2] \in status[channel][x[1]]
  <2>1. x \in unreported[channel]
    BY <1>1 DEF IInv, StatusType
  <2>2. \/ x[2] \in status[channel][x[1]]
        \/ packet[1][1] = <<"header", channel>> /\ Tells(packet, x)
    BY <2>1 DEF IInv, NoneLost
  <2>3. CASE packet[1][1] = <<"header", channel>> /\ Tells(packet, x)
    <3>1. channel = told
      BY <2>3 DEF told
    <3> QED BY <1>1, <2>3, <3>1 DEF IInv, StatusType
  <2> QED BY <2>2, <2>3
<1>8. NoneLost'
  BY <1>1, <1>7 DEF NoneLost
<1> QED BY <1>5, <1>6, <1>8 DEF IInv

LEMMA InvNext == IInv /\ [Next]_vars => IInv'
<1> SUFFICES ASSUME IInv, [Next]_vars PROVE IInv'
  OBVIOUS
<1>1. CASE FirmwareStep
  BY <1>1, ReadBisrKeeps, ReadRegisterKeeps, LoopKeeps DEF FirmwareStep
<1>2. ASSUME NEW channel \in ChannelIds, NEW register \in AllStatusRegisters,
             Interrupt(channel, register)
      PROVE  IInv'
  <2>1. Latch(channel, register, "OTHER") /\ UNCHANGED <<pc, channel_index, usb_in_int>>
    BY <1>2 DEF Interrupt, firmware_vars
  <2> QED BY <2>1, LatchKeeps
<1>3. ASSUME NEW channel \in ChannelIds, NEW slot \in TimeslotIds, SignalingChange(channel, slot)
      PROVE  IInv'
  <2>1. /\ Fisr \in AllStatusRegisters /\ Latch(channel, Fisr, "SIG")
        /\ UNCHANGED <<pc, channel_index, usb_in_int>>
    BY <1>3 DEF SignalingChange, firmware_vars
  <2> QED BY <2>1, LatchKeeps
<1>4. ASSUME NEW channel \in ChannelIds, NEW i \in ControllerIds, MessageReceived(channel, i)
      PROVE  IInv'
  <2>1. /\ <<"dlsr", i>> \in AllStatusRegisters /\ Latch(channel, <<"dlsr", i>>, "RxEOT")
        /\ UNCHANGED <<pc, channel_index, usb_in_int>>
    BY <1>4 DEF MessageReceived, firmware_vars
  <2> QED BY <2>1, LatchKeeps
<1>5. CASE SendCommand \/ ReceiveResponse \/ GiveUp \/ UNCHANGED vars
  <2>1. UNCHANGED <<status, unreported, usb_in_int, pc, channel_index>>
    BY <1>5 DEF SendCommand, ReceiveResponse, GiveUp, vars, framer_vars, report_vars, firmware_vars
  <2> QED BY <2>1 DEF IInv, StatusType, EndpointInv, NoneLost, Reports
<1>6. CASE PollInterrupt
  BY <1>6, PollKeeps
<1> QED BY <1>1, <1>2, <1>3, <1>4, <1>5, <1>6 DEF Next

(* A cause the framer has latched is latched still, or in the report that is *)
(* being made or waits for the host, until the host is told of it.          *)
THEOREM NoneLostHolds == Spec => []NoneLost
<1>1. IInv => NoneLost
  BY DEF IInv
<1> QED BY <1>1, InvInit, InvNext, PTL DEF Spec

-----------------------------------------------------------------------------
(* Every report decodes. *)

(* The host and the firmware agree on the registers of each block, in order, *)
(* and on what follows a value.                                             *)
LEMMA SameHdlc == HDLCStatus = Registers["HDLC"]
<1>1. ASSUME NEW i \in 1 .. 3 * Controllers
      PROVE  HDLCControllerStatus((i - 1) \div 3)[((i - 1) % 3) + 1]
             = <<HdlcNames[((i - 1) % 3) + 1], (i - 1) \div 3>>
  <2>. DEFINE k == (i - 1) % 3
              c == (i - 1) \div 3
  <2>1. k = 0 \/ k = 1 \/ k = 2
    BY SizesAssumption
  <2>. HIDE DEF k, c
  <2>2. HDLCControllerStatus(c)[k + 1] = <<HdlcNames[k + 1], c>>
    BY <2>1 DEF HDLCControllerStatus, HdlcNames
  <2> QED BY <2>2 DEF k, c
<1> QED BY <1>1 DEF HDLCStatus, Registers

LEMMA SameLayout ==
  ASSUME NEW blocks
  PROVE  FramerInterruptStatus(blocks) = Layout(blocks)
<1>1. /\ Registers["LBCODE"] = LoopbackCodeStatus /\ Registers["SLIP"] = SlipStatus
      /\ Registers["ALARM"] = AlarmStatus /\ Registers["T1FRAME"] = T1FrameStatus
  BY DEF Registers, LoopbackCodeStatus, SlipStatus, AlarmStatus, T1FrameStatus
<1> QED BY <1>1, SameHdlc, Zenon DEF FramerInterruptStatus, Layout, Part

LEMMA SameFollows ==
  ASSUME NEW register, NEW value, NEW rest
  PROVE  from_read(<<register, value>>, rest) = Calls(register, value) \o rest
<1>1. <<register, value>>[1] = register /\ <<register, value>>[2] = value
  OBVIOUS
<1> QED BY <1>1, Zenon DEF from_read, Calls, ReceiveSignalingStatus

(* A decoder of the packet: where it is after each field. *)
IsDecoding(packet, decoding) ==
  decoding = [i \in 1 .. Len(packet) |->
                IF i = 1 THEN [todo |-> FramerInterruptStatus(packet[1][2]), ok |-> TRUE]
                ELSE DecodeStep(from_read, decoding[i - 1], packet[i])]

(* The decoder has taken every field so far, and expects these next. *)
DecodesTo(packet, next) ==
  /\ \E decoding : IsDecoding(packet, decoding)
  /\ \A decoding : IsDecoding(packet, decoding) =>
       decoding[Len(packet)] = [todo |-> next, ok |-> TRUE]

(* What the decoder expects is what the firmware has yet to read. *)
DecodingInv ==
  usb_in_int.fifo # <<>> =>
    DecodesTo(usb_in_int.fifo, IF pc = "report" THEN todo ELSE <<>>)

(* A packet that has taken the decoder to its end decodes. *)
LEMMA DecodesWhole ==
  ASSUME NEW packet, DecodesTo(packet, <<>>)
  PROVE  Decodes(packet, from_read)
<1>. DEFINE decoder == CHOOSE decoding :
       decoding = [i \in 1 .. Len(packet) |->
                IF i = 1 THEN [todo |-> FramerInterruptStatus(packet[1][2]), ok |-> TRUE]
                ELSE DecodeStep(from_read, decoding[i - 1], packet[i])]
<1>1. IsDecoding(packet, decoder)
  BY DEF DecodesTo, IsDecoding
<1>2. decoder[Len(packet)] = [todo |-> <<>>, ok |-> TRUE]
  BY <1>1 DEF DecodesTo
<1>3. decoder[Len(packet)].ok /\ decoder[Len(packet)].todo = <<>>
  BY <1>2
<1> QED BY <1>3 DEF Decodes

(* A header starts the decoder. *)
LEMMA DecodesHeader ==
  ASSUME NEW header
  PROVE  DecodesTo(<<header>>, FramerInterruptStatus(header[2]))
<1>. DEFINE packet == <<header>>
<1>1. Len(packet) = 1 /\ packet[1] = header
  OBVIOUS
<1>. HIDE DEF packet
<1>2. IsDecoding(packet, [i \in 1 .. 1 |-> [todo |-> FramerInterruptStatus(header[2]), ok |-> TRUE]])
  BY <1>1 DEF IsDecoding
<1>3. ASSUME NEW decoding, IsDecoding(packet, decoding)
      PROVE  decoding[1] = [todo |-> FramerInterruptStatus(header[2]), ok |-> TRUE]
  BY <1>1, <1>3 DEF IsDecoding
<1>4. DecodesTo(packet, FramerInterruptStatus(header[2]))
  BY <1>1, <1>2, <1>3 DEF DecodesTo
<1> QED BY <1>4 DEF packet

(* The decoder takes the field that was read as the firmware goes on to the  *)
(* next.                                                                    *)
LEMMA DecodesField ==
  ASSUME NEW packet, NEW next, NEW value, IsSequence(packet), packet # <<>>, next # <<>>,
         DecodesTo(packet, next)
  PROVE  DecodesTo(Append(packet, <<Head(next), value>>),
                   Calls(Head(next), value) \o Tail(next))
<1>. DEFINE field == <<Head(next), value>>
            n == Len(packet)
            longer == Append(packet, field)
            after == [todo |-> Calls(Head(next), value) \o Tail(next), ok |-> TRUE]
<1>1. /\ n \in Nat /\ n >= 1 /\ Len(longer) = n + 1 /\ longer[n + 1] = field
      /\ \A i \in 1 .. n : longer[i] = packet[i]
  <2>1. PICK S : packet \in Seq(S)
    BY DEF IsSequence
  <2> QED BY <2>1
<1>2. DecodeStep(from_read, [todo |-> next, ok |-> TRUE], field) = after
  BY SameFollows DEF DecodeStep
<1>3. \E decoding : IsDecoding(longer, decoding)
  <2>1. PICK decoding : IsDecoding(packet, decoding)
    BY DEF DecodesTo
  <2>2. decoding[n] = [todo |-> next, ok |-> TRUE]
    BY <2>1 DEF DecodesTo
  <2>. DEFINE longer_decoding == [i \in 1 .. n + 1 |-> IF i = n + 1 THEN after ELSE decoding[i]]
  <2>. HIDE DEF longer, after, field
  <2>3. ASSUME NEW i \in 1 .. n + 1
        PROVE  longer_decoding[i] = IF i = 1 THEN [todo |-> FramerInterruptStatus(longer[1][2]), ok |-> TRUE]
                                    ELSE DecodeStep(from_read, longer_decoding[i - 1], longer[i])
    <3>1. CASE i = 1
      <4>1. longer_decoding[1] = decoding[1] /\ longer[1] = packet[1]
        BY <1>1
      <4>2. decoding[1] = [todo |-> FramerInterruptStatus(packet[1][2]), ok |-> TRUE]
        BY <1>1, <2>1 DEF IsDecoding
      <4> QED BY <3>1, <4>1, <4>2
    <3>2. CASE i # 1 /\ i # n + 1
      <4>1. /\ longer_decoding[i] = decoding[i] /\ longer[i] = packet[i]
            /\ longer_decoding[i - 1] = decoding[i - 1]
        BY <1>1, <3>2
      <4>2. decoding[i] = DecodeStep(from_read, decoding[i - 1], packet[i])
        <5>1. i \in 1 .. n
          BY <1>1, <3>2
        <5> QED BY <2>1, <3>2, <5>1 DEF IsDecoding
      <4> QED BY <3>2, <4>1, <4>2
    <3>3. CASE i = n + 1
      <4>1. longer_decoding[i] = after /\ longer_decoding[i - 1] = decoding[n] /\ longer[i] = field
        BY <1>1, <3>3
      <4> QED BY <1>1, <1>2, <2>2, <3>3, <4>1
    <3> QED BY <3>1, <3>2, <3>3
  <2>4. IsDecoding(longer, longer_decoding)
    <3>1. longer_decoding = [i \in 1 .. n + 1 |-> longer_decoding[i]]
      OBVIOUS
    <3>. HIDE DEF longer_decoding
    <3> QED BY <1>1, <2>3, <3>1 DEF IsDecoding
  <2> QED BY <2>4
<1>4. ASSUME NEW decoding, IsDecoding(longer, decoding)
      PROVE  decoding[n + 1] = after
  <2>. DEFINE shorter == [i \in 1 .. n |-> decoding[i]]
  <2>. HIDE DEF longer, after, field
  <2>1. ASSUME NEW i \in 1 .. n
        PROVE  shorter[i] = IF i = 1 THEN [todo |-> FramerInterruptStatus(packet[1][2]), ok |-> TRUE]
                            ELSE DecodeStep(from_read, shorter[i - 1], packet[i])
    <3>1. decoding[i] = IF i = 1 THEN [todo |-> FramerInterruptStatus(longer[1][2]), ok |-> TRUE]
                        ELSE DecodeStep(from_read, decoding[i - 1], longer[i])
      <4>1. i \in 1 .. Len(longer)
        BY <1>1
      <4> QED BY <1>4, <4>1 DEF IsDecoding
    <3>2. longer[i] = packet[i] /\ longer[1] = packet[1] /\ shorter[i] = decoding[i]
      BY <1>1
    <3>3. i # 1 => shorter[i - 1] = decoding[i - 1]
      BY <1>1
    <3> QED BY <3>1, <3>2, <3>3
  <2>2. IsDecoding(packet, shorter)
    <3>1. shorter = [i \in 1 .. n |-> shorter[i]]
      OBVIOUS
    <3>. HIDE DEF shorter
    <3> QED BY <2>1, <3>1 DEF IsDecoding
  <2>3. shorter[n] = [todo |-> next, ok |-> TRUE] /\ shorter[n] = decoding[n]
    <3>1. shorter[n] = decoding[n]
      BY <1>1
    <3>. HIDE DEF shorter
    <3> QED BY <2>2, <3>1 DEF DecodesTo
  <2>4. decoding[n + 1] = DecodeStep(from_read, decoding[n], longer[n + 1])
    <3>1. n + 1 \in 1 .. Len(longer) /\ n + 1 # 1 /\ (n + 1) - 1 = n
      BY <1>1
    <3> QED BY <1>4, <3>1 DEF IsDecoding
  <2> QED BY <1>1, <1>2, <2>3, <2>4
<1> QED BY <1>1, <1>3, <1>4 DEF DecodesTo

(* The decoder stays with the firmware: what it expects is what is to be read. *)
LEMMA DecodingNext == IInv /\ DecodingInv /\ [Next]_vars => DecodingInv'
<1> SUFFICES ASSUME IInv, DecodingInv, [Next]_vars PROVE DecodingInv'
  OBVIOUS
<1>1. CASE ReadBisr
  <2>1. usb_in_int.fifo = <<>> /\ ~usb_in_int.primed
    BY <1>1 DEF ReadBisr, IInv, EndpointInv
  <2>2. PICK fifo, primed : usb_in_int = [fifo |-> fifo, primed |-> primed]
    BY DEF IInv, EndpointInv
  <2>3. CASE UNCHANGED usb_in_int
    BY <2>1, <2>3 DEF DecodingInv
  <2>4. CASE /\ pc' = "report" /\ todo' = Layout(bisr(channel_index))
             /\ usb_in_int' = write_fifo(usb_in_int,
                                         <<<<"header", channel_index>>, bisr(channel_index)>>)
    <3>. DEFINE header == <<<<"header", channel_index>>, bisr(channel_index)>>
    <3>1. usb_in_int'.fifo = <<header>>
      BY <2>1, <2>2, <2>4 DEF write_fifo
    <3>2. header[2] = bisr(channel_index)
      OBVIOUS
    <3>. HIDE DEF header
    <3>3. DecodesTo(<<header>>, Layout(header[2]))
      BY DecodesHeader, SameLayout
    <3> QED BY <2>4, <3>1, <3>2, <3>3 DEF DecodingInv
  <2> QED BY <1>1, <2>3, <2>4 DEF ReadBisr
<1>2. CASE ReadRegister
  <2>. DEFINE value == RegisterValue(Head(todo))
  <2>1. /\ pc = "report" /\ pc' = "report" /\ todo # <<>>
        /\ usb_in_int' = write_fifo(usb_in_int, <<Head(todo), value>>)
        /\ todo' = Calls(Head(todo), value) \o Tail(todo)
    BY <1>2 DEF ReadRegister
  <2>. HIDE DEF value
  <2>2. PICK fifo, primed : /\ IsSequence(fifo)
                            /\ usb_in_int = [fifo |-> fifo, primed |-> primed]
    BY DEF IInv, EndpointInv
  <2>3. fifo # <<>>
    BY <2>1, <2>2 DEF IInv, EndpointInv, Reports
  <2>4. usb_in_int'.fifo = Append(fifo, <<Head(todo), value>>)
    BY <2>1, <2>2 DEF write_fifo
  <2>5. DecodesTo(fifo, todo)
    BY <2>1, <2>2, <2>3 DEF DecodingInv
  <2>6. DecodesTo(Append(fifo, <<Head(todo), value>>), todo')
    BY <2>1, <2>2, <2>3, <2>5, DecodesField
  <2> QED BY <2>1, <2>4, <2>6 DEF DecodingInv
<1>3. CASE Transmit
  <2>1. /\ pc' = "command"
        /\ pc = "transmit" \/ (pc = "report" /\ todo = <<>>)
        /\ usb_in_int' = IF usb_in_int.fifo # <<>> THEN transmit(usb_in_int) ELSE usb_in_int
    BY <1>3 DEF Transmit
  <2>2. usb_in_int'.fifo = usb_in_int.fifo
    <3>1. PICK fifo, primed : usb_in_int = [fifo |-> fifo, primed |-> primed]
      BY DEF IInv, EndpointInv
    <3> QED BY <2>1, <3>1 DEF transmit
  <2>3. pc = "transmit" => usb_in_int.fifo = <<>>
    BY DEF IInv, EndpointInv
  <2> QED BY <1>3, <2>1, <2>2, <2>3 DEF DecodingInv, Transmit
<1>4. CASE PollInterrupt
  <2>1. usb_in_int'.fifo = <<>>
    BY <1>4 DEF PollInterrupt, Idle
  <2> QED BY <2>1 DEF DecodingInv
<1>5. CASE CheckCommand \/ CheckIdle
  <2>1. UNCHANGED usb_in_int /\ pc # "report" /\ pc' # "report"
    BY <1>5 DEF CheckCommand, CheckIdle, report_vars
  <2> QED BY <2>1 DEF DecodingInv
<1>6. CASE UNCHANGED <<usb_in_int, pc, todo>>
  BY <1>6 DEF DecodingInv
<1>7. ASSUME NEW channel \in ChannelIds,
             \/ \E register \in AllStatusRegisters : Interrupt(channel, register)
             \/ \E slot \in TimeslotIds : SignalingChange(channel, slot)
             \/ \E i \in ControllerIds : MessageReceived(channel, i)
      PROVE  UNCHANGED <<usb_in_int, pc, todo>>
  BY <1>7 DEF Interrupt, SignalingChange, MessageReceived, firmware_vars
<1>8. SendCommand \/ ReceiveResponse \/ GiveUp \/ UNCHANGED vars => UNCHANGED <<usb_in_int, pc, todo>>
  BY DEF SendCommand, ReceiveResponse, GiveUp, firmware_vars, report_vars, vars
<1> QED BY <1>1, <1>2, <1>3, <1>4, <1>5, <1>6, <1>7, <1>8 DEF Next, FirmwareStep

(* The host finds every register where the firmware wrote it, and no byte is  *)
(* left over, whatever the values read were and called for.                 *)
THEOREM PacketDecodesHolds == Spec => []PacketDecodes
<1>1. Init => DecodingInv
  BY DEF Init, Idle, DecodingInv
<1>2. IInv /\ DecodingInv => PacketDecodes
  <2> SUFFICES ASSUME IInv, DecodingInv, usb_in_int.primed
               PROVE  Decodes(usb_in_int.fifo, from_read)
    BY DEF PacketDecodes
  <2>1. usb_in_int.fifo # <<>> /\ pc # "report"
    BY DEF IInv, EndpointInv
  <2> QED BY <2>1, DecodesWhole DEF DecodingInv
<1> QED BY <1>1, <1>2, InvInit, InvNext, DecodingNext, PTL DEF Spec

-----------------------------------------------------------------------------
(* The signaling bits the host knows. *)

(* The registers the firmware reads for a report. *)
ReadableRegisters ==
  {register \in {"rlcisr", "dlsr", "rdlbcr", "lapdbcr", "ss7sr", "sbisr", "aeisr", "exzsr",
                 "ciasr", "fisr", "rsar"} \X Nat :
     /\ register[1] = "rdlbcr" => register[2] \in ControllerIds
     /\ register[1] = "fisr" => register[2] = 0}
NoneNamed(s, name) == \A register \in ToSet(s) : register[1] # name

(* The frame interrupt status is read last, but for what it calls for, and   *)
(* before any of the signaling registers.                                   *)
TodoInv ==
  /\ todo \in Seq(ReadableRegisters)
  /\ message \in [ChannelIds -> [ControllerIds -> 0 .. MaxMessage]]
  /\ pc = "report" =>
       /\ \A i \in DOMAIN todo : todo[i][1] = "fisr" => i = Len(todo)
       /\ Fisr \in ToSet(todo) => /\ NoneNamed(todo, "rsar")
                                  /\ \A field \in ToSet(usb_in_int.fifo) : field[1][1] # "rsar"

(* The bits are bits, and the host knows some of each timeslot. *)
SignalingType ==
  /\ signaling \in [ChannelIds -> [TimeslotIds -> 0 .. 1]]
  /\ view = [channel \in ChannelIds |-> [slot \in TimeslotIds |-> view[channel][slot]]]

(* The fields of a report that say the signaling bits of a timeslot. *)
SignalsOf(fields, slot) == {field \in ToSet(fields) : field[1][1] = "rsar" /\ field[1][2] = slot}

(* What a report says of a timeslot is as the framer has it, and if it says   *)
(* nothing yet it will, or the host knows.                                  *)
SlotInv(channel, slot) ==
  /\ \A field \in SignalsOf(usb_in_int.fifo, slot) : field[2] = signaling[channel][slot]
  /\ \/ SignalsOf(usb_in_int.fifo, slot) # {}
     \/ pc = "report" /\ <<"rsar", slot>> \in ToSet(todo)
     \/ view[channel][slot] = signaling[channel][slot]

(* Unless a change is latched, and will be reported after this report. *)
ViewInv ==
  \A channel \in ChannelIds :
    \/ Fisr \notin AllStatusRegisters
    \/ "SIG" \in status[channel][Fisr]
    \/ IF Reports(channel) THEN \A slot \in TimeslotIds : SlotInv(channel, slot)
       ELSE view[channel] = signaling[channel]

ReportInv == TodoInv /\ SignalingType /\ ViewInv

(* The fields of a packet with one more. *)
LEMMA FieldAppended ==
  ASSUME NEW s, NEW v, IsSequence(s)
  PROVE  ToSet(Append(s, v)) = ToSet(s) \union {v}
<1>1. PICK S : s \in Seq(S)
  BY DEF IsSequence
<1>2. /\ Len(s) \in Nat /\ DOMAIN s = 1 .. Len(s)
      /\ DOMAIN Append(s, v) = 1 .. Len(s) + 1
      /\ Append(s, v)[Len(s) + 1] = v
      /\ \A i \in 1 .. Len(s) : Append(s, v)[i] = s[i]
  BY <1>1
<1>3. ASSUME NEW x \in ToSet(Append(s, v)) PROVE x \in ToSet(s) \union {v}
  <2>1. PICK i \in 1 .. Len(s) + 1 : x = Append(s, v)[i]
    BY <1>2, <1>3 DEF ToSet
  <2>2. i \in 1 .. Len(s) \/ i = Len(s) + 1
    BY <1>2
  <2> QED BY <1>2, <2>1, <2>2 DEF ToSet
<1>4. ASSUME NEW x \in ToSet(s) PROVE x \in ToSet(Append(s, v))
  <2>1. PICK i \in 1 .. Len(s) : x = s[i]
    BY <1>2, <1>4 DEF ToSet
  <2>2. i \in DOMAIN Append(s, v)
    BY <1>2
  <2> QED BY <1>2, <2>1, <2>2 DEF ToSet
<1>5. v \in ToSet(Append(s, v))
  <2>1. Len(s) + 1 \in DOMAIN Append(s, v)
    BY <1>2
  <2> QED BY <1>2, <2>1 DEF ToSet
<1> QED BY <1>3, <1>4, <1>5

(* The members of two sequences in a row. *)
LEMMA MembersOfConcat ==
  ASSUME NEW S, NEW s \in Seq(S), NEW t \in Seq(S)
  PROVE  s \o t \in Seq(S) /\ ToSet(s \o t) = ToSet(s) \union ToSet(t)
<1>1. /\ s \o t \in Seq(S) /\ DOMAIN (s \o t) = 1 .. Len(s) + Len(t)
      /\ DOMAIN s = 1 .. Len(s) /\ DOMAIN t = 1 .. Len(t) /\ Len(s) \in Nat /\ Len(t) \in Nat
      /\ \A i \in 1 .. Len(s) + Len(t) :
           (s \o t)[i] = IF i <= Len(s) THEN s[i] ELSE t[i - Len(s)]
  BY ConcatProperties
<1>2. ASSUME NEW x \in ToSet(s \o t) PROVE x \in ToSet(s) \union ToSet(t)
  <2>1. PICK i \in 1 .. Len(s) + Len(t) : x = (s \o t)[i]
    BY <1>1, <1>2 DEF ToSet
  <2>2. i <= Len(s) => i \in DOMAIN s
    BY <1>1
  <2>3. ~(i <= Len(s)) => i - Len(s) \in DOMAIN t
    BY <1>1
  <2> QED BY <1>1, <2>1, <2>2, <2>3 DEF ToSet
<1>3. ASSUME NEW x \in ToSet(s) PROVE x \in ToSet(s \o t)
  <2>1. PICK i \in 1 .. Len(s) : x = s[i]
    BY <1>1, <1>3 DEF ToSet
  <2>2. i \in DOMAIN (s \o t) /\ i <= Len(s) /\ (s \o t)[i] = s[i]
    BY <1>1
  <2> QED BY <2>1, <2>2 DEF ToSet
<1>4. ASSUME NEW x \in ToSet(t) PROVE x \in ToSet(s \o t)
  <2>1. PICK i \in 1 .. Len(t) : x = t[i]
    BY <1>1, <1>4 DEF ToSet
  <2>2. /\ i + Len(s) \in 1 .. Len(s) + Len(t) /\ ~(i + Len(s) <= Len(s))
        /\ (i + Len(s)) - Len(s) = i
    BY <1>1
  <2>3. (s \o t)[i + Len(s)] = t[i]
    BY <1>1, <2>2
  <2> QED BY <1>1, <2>1, <2>2, <2>3 DEF ToSet
<1> QED BY <1>1, <1>2, <1>3, <1>4

(* The members of a sequence are its first and those of the rest. *)
LEMMA MembersOfTail ==
  ASSUME NEW S, NEW s \in Seq(S), s # <<>>
  PROVE  /\ Tail(s) \in Seq(S) /\ Len(Tail(s)) = Len(s) - 1
         /\ \A i \in DOMAIN Tail(s) : i + 1 \in DOMAIN s /\ Tail(s)[i] = s[i + 1]
         /\ Head(s) = s[1] /\ 1 \in DOMAIN s /\ Head(s) \in S
         /\ ToSet(s) = {Head(s)} \union ToSet(Tail(s))
<1>1. /\ Tail(s) \in Seq(S) /\ Len(Tail(s)) = Len(s) - 1 /\ Len(s) \in Nat /\ Len(s) >= 1
      /\ DOMAIN s = 1 .. Len(s) /\ DOMAIN Tail(s) = 1 .. Len(s) - 1
      /\ Head(s) = s[1] /\ Head(s) \in S
      /\ \A i \in 1 .. Len(s) - 1 : Tail(s)[i] = s[i + 1]
  BY HeadTailProperties
<1>2. 1 \in DOMAIN s /\ \A i \in DOMAIN Tail(s) : i + 1 \in DOMAIN s /\ Tail(s)[i] = s[i + 1]
  BY <1>1
<1>3. ASSUME NEW x \in ToSet(s) PROVE x \in {Head(s)} \union ToSet(Tail(s))
  <2>1. PICK i \in 1 .. Len(s) : x = s[i]
    BY <1>1, <1>3 DEF ToSet
  <2>2. i # 1 => i - 1 \in 1 .. Len(s) - 1 /\ (i - 1) + 1 = i
    BY <1>1
  <2>3. i # 1 => x = Tail(s)[i - 1] /\ i - 1 \in DOMAIN Tail(s)
    BY <1>1, <2>1, <2>2
  <2> QED BY <1>1, <2>1, <2>3 DEF ToSet
<1>4. Head(s) \in ToSet(s) /\ ToSet(Tail(s)) \subseteq ToSet(s)
  BY <1>1, <1>2 DEF ToSet
<1> QED BY <1>1, <1>2, <1>3, <1>4

-----------------------------------------------------------------------------
(* What a block's registers are. *)
LEMMA BlockRegisters ==
  ASSUME NEW block \in AllBlocks
  PROVE  /\ Registers[block] \in Seq(ReadableRegisters)
         /\ NoneNamed(Registers[block], "rsar")
         /\ block # "T1FRAME" => NoneNamed(Registers[block], "fisr")
<1>1. CASE block = "LBCODE"
  <2>1. Registers[block] = [i \in 1 .. 8 |-> <<"rlcisr", i - 1>>]
    BY <1>1 DEF Registers
  <2>2. \A i \in 1 .. 8 : <<"rlcisr", i - 1>> \in ReadableRegisters
    BY DEF ReadableRegisters
  <2> QED BY <1>1, <2>1, <2>2 DEF NoneNamed, ToSet
<1>2. CASE block = "HDLC"
  <2>. DEFINE name(i) == HdlcNames[((i - 1) % 3) + 1]
  <2>1. Registers[block] = [i \in 1 .. 3 * Controllers |-> <<name(i), (i - 1) \div 3>>]
    BY <1>2 DEF Registers
  <2>2. ASSUME NEW i \in 1 .. 3 * Controllers
        PROVE  /\ name(i) \in {"dlsr", "rdlbcr", "ss7sr"}
               /\ (i - 1) \div 3 \in ControllerIds
    <3>1. (i - 1) % 3 \in 0 .. 2
      BY SizesAssumption
    <3>2. name(i) \in {"dlsr", "rdlbcr", "ss7sr"}
      BY <3>1 DEF HdlcNames
    <3>3. (i - 1) \div 3 \in 0 .. Controllers - 1
      BY SizesAssumption
    <3> QED BY <3>2, <3>3 DEF ControllerIds
  <2>. HIDE DEF name
  <2>3. \A i \in 1 .. 3 * Controllers : <<name(i), (i - 1) \div 3>> \in ReadableRegisters
    BY <2>2 DEF ReadableRegisters, ControllerIds
  <2>4. 3 * Controllers \in Nat
    BY SizesAssumption
  <2>5. Registers[block] \in Seq(ReadableRegisters)
    BY <2>1, <2>3, <2>4
  <2> QED BY <2>1, <2>2, <2>5 DEF NoneNamed, ToSet
<1>3. CASE block = "SLIP"
  <2>1. Registers[block] = <<<<"sbisr", 0>>>>
    BY <1>3 DEF Registers
  <2>2. <<"sbisr", 0>> \in ReadableRegisters
    BY DEF ReadableRegisters
  <2> QED BY <1>3, <2>1, <2>2 DEF NoneNamed, ToSet
<1>4. CASE block = "ALARM"
  <2>1. Registers[block] = <<<<"aeisr", 0>>, <<"exzsr", 0>>, <<"ciasr", 0>>>>
    BY <1>4 DEF Registers
  <2>2. /\ <<"aeisr", 0>> \in ReadableRegisters /\ <<"exzsr", 0>> \in ReadableRegisters
        /\ <<"ciasr", 0>> \in ReadableRegisters
    BY DEF ReadableRegisters
  <2> QED BY <1>4, <2>1, <2>2 DEF NoneNamed, ToSet
<1>5. CASE block = "T1FRAME"
  <2>1. Registers[block] = <<<<"fisr", 0>>>>
    BY <1>5 DEF Registers
  <2>2. <<"fisr", 0>> \in ReadableRegisters
    BY DEF ReadableRegisters
  <2> QED BY <1>5, <2>1, <2>2 DEF NoneNamed, ToSet
<1> QED BY <1>1, <1>2, <1>3, <1>4, <1>5 DEF AllBlocks

(* The same of a block that is or is not read. *)
LEMMA PartRegisters ==
  ASSUME NEW blocks, NEW block \in AllBlocks
  PROVE  /\ Part(blocks, block) \in Seq(ReadableRegisters)
         /\ NoneNamed(Part(blocks, block), "rsar")
         /\ block # "T1FRAME" => NoneNamed(Part(blocks, block), "fisr")
<1>1. /\ <<>> \in Seq(ReadableRegisters) /\ NoneNamed(<<>>, "rsar") /\ NoneNamed(<<>>, "fisr")
  BY DEF NoneNamed, ToSet
<1> QED BY <1>1, BlockRegisters DEF Part

(* A report reads no signaling register but those called for, and the frame  *)
(* interrupt status last.                                                   *)
LEMMA LayoutRegisters ==
  ASSUME NEW blocks
  PROVE  /\ Layout(blocks) \in Seq(ReadableRegisters)
         /\ NoneNamed(Layout(blocks), "rsar")
         /\ \A i \in DOMAIN Layout(blocks) :
              Layout(blocks)[i][1] = "fisr" => i = Len(Layout(blocks))
<1>. DEFINE R == ReadableRegisters
            a == Part(blocks, "LBCODE")
            b == Part(blocks, "HDLC")
            c == Part(blocks, "SLIP")
            d == Part(blocks, "ALARM")
            e == Part(blocks, "T1FRAME")
            ab == a \o b
            abc == ab \o c
            front == abc \o d
<1>1. /\ a \in Seq(R) /\ b \in Seq(R) /\ c \in Seq(R) /\ d \in Seq(R) /\ e \in Seq(R)
      /\ \A s \in {a, b, c, d, e} : NoneNamed(s, "rsar")
      /\ \A s \in {a, b, c, d} : NoneNamed(s, "fisr")
  BY PartRegisters DEF AllBlocks
<1>2. e = <<>> \/ Len(e) = 1
  BY DEF Part, Registers
<1>. HIDE DEF R, a, b, c, d, e
<1>3. ab \in Seq(R) /\ ToSet(ab) = ToSet(a) \union ToSet(b)
  BY <1>1, MembersOfConcat
<1>. HIDE DEF ab
<1>4. abc \in Seq(R) /\ ToSet(abc) = ToSet(ab) \union ToSet(c)
  BY <1>1, <1>3, MembersOfConcat
<1>. HIDE DEF abc
<1>5. front \in Seq(R) /\ ToSet(front) = ToSet(abc) \union ToSet(d)
  BY <1>1, <1>4, MembersOfConcat
<1>6. NoneNamed(front, "fisr") /\ NoneNamed(front, "rsar")
  BY <1>1, <1>3, <1>4, <1>5 DEF NoneNamed
<1>7. Layout(blocks) = front \o e
  BY DEF Layout, ab, abc, a, b, c, d, e
<1>. HIDE DEF front
<1>8. front \o e \in Seq(R) /\ ToSet(front \o e) = ToSet(front) \union ToSet(e)
  BY <1>1, <1>5, MembersOfConcat
<1>9. ASSUME NEW i \in DOMAIN (front \o e), (front \o e)[i][1] = "fisr"
      PROVE  i = Len(front \o e)
  <2>1. /\ DOMAIN (front \o e) = 1 .. Len(front) + Len(e) /\ Len(front) \in Nat /\ Len(e) \in Nat
        /\ Len(front \o e) = Len(front) + Len(e) /\ DOMAIN front = 1 .. Len(front)
        /\ (front \o e)[i] = IF i <= Len(front) THEN front[i] ELSE e[i - Len(front)]
    BY <1>1, <1>5, ConcatProperties
  <2>2. ~(i <= Len(front))
    <3>1. SUFFICES ASSUME i <= Len(front) PROVE FALSE
      OBVIOUS
    <3>2. i \in DOMAIN front /\ front[i][1] = "fisr"
      BY <1>9, <2>1, <3>1
    <3>3. front[i] \in ToSet(front)
      BY <3>2 DEF ToSet
    <3> QED BY <1>6, <3>2, <3>3 DEF NoneNamed
  <2>3. Len(e) = 1 \/ Len(e) = 0
    BY <1>2
  <2>4. i \in 1 .. Len(front) + Len(e)
    BY <2>1
  <2>5. i = Len(front) + Len(e)
    <3>1. Len(front) \in Nat /\ Len(e) \in {0, 1}
      BY <2>1, <2>3
    <3>2. ASSUME NEW m \in Nat, NEW n \in {0, 1}, NEW j \in 1 .. m + n, ~(j <= m)
          PROVE  j = m + n
      BY <3>2
    <3> QED BY <2>2, <2>4, <3>1, <3>2
  <2> QED BY <2>1, <2>5
<1>10. NoneNamed(front \o e, "rsar")
  BY <1>1, <1>6, <1>8 DEF NoneNamed
<1>11. Layout(blocks) \in Seq(ReadableRegisters)
  BY <1>7, <1>8 DEF R
<1> QED BY <1>7, <1>9, <1>10, <1>11

(* What a value read calls for. *)
LEMMA CalledRegisters ==
  ASSUME NEW register \in ReadableRegisters, NEW value,
         register[1] = "rdlbcr" => value \in Nat
  PROVE  /\ Calls(register, value) \in Seq(ReadableRegisters)
         /\ NoneNamed(Calls(register, value), "fisr")
         /\ register[1] # "fisr" \/ "SIG" \notin value => NoneNamed(Calls(register, value), "rsar")
         /\ register[1] = "fisr" /\ "SIG" \in value =>
              \A slot \in TimeslotIds : <<"rsar", slot>> \in ToSet(Calls(register, value))
<1>1. CASE register[1] = "rdlbcr"
  <2>1. Calls(register, value) = [k \in 1 .. value |-> <<"lapdbcr", register[2]>>]
    BY <1>1 DEF Calls
  <2>2. <<"lapdbcr", register[2]>> \in ReadableRegisters
    BY DEF ReadableRegisters
  <2>3. Calls(register, value) \in Seq(ReadableRegisters)
    <3>. DEFINE called == <<"lapdbcr", register[2]>>
    <3>. HIDE DEF called
    <3>1. value \in Nat /\ called \in ReadableRegisters
      BY <1>1, <2>2 DEF called
    <3>2. [k \in 1 .. value |-> called] \in Seq(ReadableRegisters)
      BY <3>1
    <3> QED BY <2>1, <3>2 DEF called
  <2> QED BY <1>1, <2>1, <2>3 DEF NoneNamed, ToSet
<1>2. CASE register[1] = "fisr" /\ "SIG" \in value
  <2>1. Calls(register, value) = [k \in 1 .. Timeslots |-> <<"rsar", k - 1>>]
    BY <1>2 DEF Calls
  <2>2. \A k \in 1 .. Timeslots : <<"rsar", k - 1>> \in ReadableRegisters
    BY SizesAssumption DEF ReadableRegisters
  <2>3. Calls(register, value) \in Seq(ReadableRegisters)
    BY <2>1, <2>2, SizesAssumption
  <2>4. ASSUME NEW slot \in TimeslotIds
        PROVE  <<"rsar", slot>> \in ToSet(Calls(register, value))
    <3>1. slot + 1 \in 1 .. Timeslots /\ (slot + 1) - 1 = slot
      BY SizesAssumption DEF TimeslotIds
    <3>2. slot + 1 \in DOMAIN Calls(register, value) /\ Calls(register, value)[slot + 1] = <<"rsar", slot>>
      BY <2>1, <3>1
    <3> QED BY <3>2 DEF ToSet
  <2> QED BY <1>2, <2>1, <2>3, <2>4 DEF NoneNamed, ToSet
<1>3. CASE register[1] # "rdlbcr" /\ ~(register[1] = "fisr" /\ "SIG" \in value)
  <2>1. Calls(register, value) = <<>>
    BY <1>3 DEF Calls
  <2> QED BY <1>3, <2>1 DEF NoneNamed, ToSet
<1> QED BY <1>1, <1>2, <1>3

-----------------------------------------------------------------------------
(* A report is begun: it says nothing of the signaling bits yet. *)
LEMMA ReportReadBisrKeeps ==
  ASSUME IInv, ReportInv, ReadBisr
  PROVE  ReportInv'
<1>. DEFINE c == channel_index
            header == <<<<"header", c>>, bisr(c)>>
<1>1. /\ pc = "bisr" /\ UNCHANGED <<status, message, signaling, view>>
      /\ \/ pc' = "transmit" /\ todo' = <<>> /\ UNCHANGED usb_in_int
         \/ /\ pc' = "report" /\ todo' = Layout(bisr(c))
            /\ usb_in_int' = write_fifo(usb_in_int, header)
  BY DEF ReadBisr, framer_vars
<1>2. PICK fifo, primed : usb_in_int = [fifo |-> fifo, primed |-> primed]
  BY DEF IInv, EndpointInv
<1>3. fifo = <<>>
  BY <1>1, <1>2 DEF IInv, EndpointInv
<1>4. c \in ChannelIds
  BY DEF IInv, StatusType
<1>5. SignalingType'
  BY <1>1 DEF ReportInv, SignalingType
<1>6. \A channel \in ChannelIds :
        Fisr \notin AllStatusRegisters \/ "SIG" \in status[channel][Fisr]
        \/ view[channel] = signaling[channel]
  BY <1>2, <1>3 DEF ReportInv, ViewInv, Reports
<1>7. CASE pc' = "transmit" /\ todo' = <<>> /\ UNCHANGED usb_in_int
  <2>1. TodoInv'
    BY <1>1, <1>7 DEF ReportInv, TodoInv
  <2>3. ViewInv'
    BY <1>1, <1>2, <1>3, <1>6, <1>7 DEF ViewInv, Reports
  <2> QED BY <1>5, <2>1, <2>3 DEF ReportInv
<1>8. CASE /\ pc' = "report" /\ todo' = Layout(bisr(c))
           /\ usb_in_int' = write_fifo(usb_in_int, header)
  <2>1. usb_in_int'.fifo = <<header>>
    BY <1>2, <1>3, <1>8 DEF write_fifo
  <2>2. ToSet(usb_in_int'.fifo) = {header}
    BY <2>1 DEF ToSet
  <2>3. header[1] = <<"header", c>> /\ header[1][1] = "header"
    OBVIOUS
  <2>. HIDE DEF header
  <2>4. TodoInv'
    BY <1>1, <1>8, <2>2, <2>3, LayoutRegisters DEF ReportInv, TodoInv
  <2>5. \A slot : SignalsOf(usb_in_int'.fifo, slot) = {}
    BY <2>2, <2>3 DEF SignalsOf
  <2>6. ASSUME NEW channel \in ChannelIds, view[channel] = signaling[channel]
        PROVE  IF Reports(channel)' THEN \A slot \in TimeslotIds : SlotInv(channel, slot)'
               ELSE (view[channel] = signaling[channel])'
    BY <1>1, <2>5, <2>6 DEF SlotInv
  <2>7. ViewInv'
    BY <1>1, <1>6, <2>6 DEF ViewInv
  <2> QED BY <1>5, <2>4, <2>7 DEF ReportInv
<1> QED BY <1>1, <1>7, <1>8

(* A register is read: if it is the frame interrupt status with a change in   *)
(* it, every signaling register will be read after it.                      *)
LEMMA ReportReadRegisterKeeps ==
  ASSUME IInv, ReportInv, ReadRegister
  PROVE  ReportInv'
<1>. DEFINE register == Head(todo)
            value == RegisterValue(register)
            c == channel_index
            field == <<register, value>>
            calls == Calls(register, value)
<1>1. /\ pc = "report" /\ pc' = "report" /\ todo # <<>>
      /\ UNCHANGED <<channel_index, signaling, view>>
      /\ usb_in_int' = write_fifo(usb_in_int, field)
      /\ todo' = calls \o Tail(todo)
      /\ status' = IF register \in AllStatusRegisters
                   THEN [status EXCEPT ![c][register] = {}] ELSE status
      /\ message' = IF register[1] = "rdlbcr"
                    THEN [message EXCEPT ![c][register[2]] = 0] ELSE message
  BY DEF ReadRegister
<1>2. PICK fifo, primed : /\ IsSequence(fifo)
                          /\ usb_in_int = [fifo |-> fifo, primed |-> primed]
  BY DEF IInv, EndpointInv
<1>3. fifo # <<>> /\ fifo[1][1] = <<"header", c>> /\ c \in ChannelIds
  BY <1>1, <1>2 DEF IInv, EndpointInv, Reports, StatusType
<1>4. /\ usb_in_int'.fifo = Append(fifo, field)
      /\ ToSet(usb_in_int'.fifo) = ToSet(fifo) \union {field}
      /\ Append(fifo, field) # <<>> /\ Append(fifo, field)[1] = fifo[1]
  BY <1>1, <1>2, <1>3, FieldAppended, Appending DEF write_fifo
<1>5. /\ todo \in Seq(ReadableRegisters) /\ register \in ReadableRegisters
      /\ Tail(todo) \in Seq(ReadableRegisters) /\ register \in ToSet(todo)
      /\ ToSet(todo) = {register} \union ToSet(Tail(todo))
      /\ register = todo[1] /\ 1 \in DOMAIN todo /\ Len(Tail(todo)) = Len(todo) - 1
      /\ \A i \in DOMAIN Tail(todo) : i + 1 \in DOMAIN todo /\ Tail(todo)[i] = todo[i + 1]
  BY <1>1, MembersOfTail DEF ReportInv, TodoInv
<1>6. field[1] = register /\ field[2] = value
  OBVIOUS
<1>7. register[1] = "rdlbcr" => value \in 0 .. MaxMessage
  BY <1>3, <1>5 DEF RegisterValue, ReportInv, TodoInv, ReadableRegisters
<1>8. register[1] = "rsar" => value = signaling[c][register[2]]
  BY DEF RegisterValue
<1>9. register = Fisr /\ Fisr \in AllStatusRegisters => value = status[c][Fisr]
  BY DEF RegisterValue, Fisr
<1>10. register[1] = "fisr" <=> register = Fisr
  BY <1>5 DEF ReadableRegisters, Fisr
<1>. HIDE DEF field, value, register
<1>11. /\ calls \in Seq(ReadableRegisters) /\ NoneNamed(calls, "fisr")
       /\ register # Fisr \/ "SIG" \notin value => NoneNamed(calls, "rsar")
       /\ register = Fisr /\ "SIG" \in value =>
            \A slot \in TimeslotIds : <<"rsar", slot>> \in ToSet(calls)
  <2>1. register[1] = "rdlbcr" => value \in Nat
    BY <1>7, SizesAssumption
  <2> QED BY <1>5, <1>10, <2>1, CalledRegisters
<1>. HIDE DEF calls
<1>12. todo' \in Seq(ReadableRegisters) /\ ToSet(todo') = ToSet(calls) \union ToSet(Tail(todo))
  <2>. DEFINE rest == Tail(todo)
  <2>1. calls \in Seq(ReadableRegisters)
    BY <1>11
  <2>2. rest \in Seq(ReadableRegisters)
    BY <1>5
  <2>3. todo' = calls \o rest
    BY <1>1
  <2>. HIDE DEF rest
  <2>4. /\ calls \o rest \in Seq(ReadableRegisters)
        /\ ToSet(calls \o rest) = ToSet(calls) \union ToSet(rest)
    BY <2>1, <2>2, MembersOfConcat, Zenon
  <2>5. todo' \in Seq(ReadableRegisters) /\ ToSet(todo') = ToSet(calls) \union ToSet(rest)
    BY <2>3, <2>4, Zenon
  <2>. QED BY <2>5 DEF rest
<1>13. SignalingType'
  BY <1>1 DEF ReportInv, SignalingType
<1>14. register = Fisr => Tail(todo) = <<>>
  <2>1. register = Fisr => 1 = Len(todo)
    BY <1>1, <1>5, <1>10 DEF ReportInv, TodoInv
  <2>2. register = Fisr => Len(Tail(todo)) = 0
    <3>1. Len(Tail(todo)) = Len(todo) - 1
      BY <1>5
    <3> QED BY <2>1, <3>1
  <2>3. Tail(todo) \in Seq(ReadableRegisters)
    BY <1>5
  <2> QED BY <2>2, <2>3, EmptySeq
<1>15. TodoInv'
  <2>1. message' \in [ChannelIds -> [ControllerIds -> 0 .. MaxMessage]]
    <3>1. /\ message \in [ChannelIds -> [ControllerIds -> 0 .. MaxMessage]]
          /\ 0 \in 0 .. MaxMessage
      BY SizesAssumption DEF ReportInv, TodoInv
    <3>2. [message EXCEPT ![c][register[2]] = 0] \in [ChannelIds -> [ControllerIds -> 0 .. MaxMessage]]
      BY <3>1
    <3> QED BY <1>1, <3>1, <3>2
  <2>2. ASSUME NEW i \in DOMAIN todo', todo'[i][1] = "fisr"
        PROVE  i = Len(todo')
    <3>1. /\ DOMAIN todo' = 1 .. Len(calls) + Len(Tail(todo)) /\ Len(calls) \in Nat
          /\ Len(Tail(todo)) \in Nat /\ Len(todo') = Len(calls) + Len(Tail(todo))
          /\ DOMAIN calls = 1 .. Len(calls) /\ DOMAIN Tail(todo) = 1 .. Len(Tail(todo))
          /\ todo'[i] = IF i <= Len(calls) THEN calls[i] ELSE Tail(todo)[i - Len(calls)]
      BY <1>1, <1>5, <1>11, <2>2, ConcatProperties
    <3>2. ~(i <= Len(calls))
      <4>1. SUFFICES ASSUME i <= Len(calls) PROVE FALSE
        OBVIOUS
      <4>2. i \in DOMAIN calls /\ calls[i][1] = "fisr"
        BY <2>2, <3>1, <4>1
      <4>3. calls[i] \in ToSet(calls)
        BY <4>2 DEF ToSet
      <4> QED BY <1>11, <4>2, <4>3 DEF NoneNamed
    <3>3. i - Len(calls) \in DOMAIN Tail(todo) /\ Tail(todo)[i - Len(calls)][1] = "fisr"
      BY <2>2, <3>1, <3>2
    <3>4. (i - Len(calls)) + 1 = Len(todo)
      BY <1>1, <1>5, <3>3 DEF ReportInv, TodoInv
    <3> QED BY <1>5, <3>1, <3>4
  <2>3. ASSUME Fisr \in ToSet(todo')
        PROVE  /\ NoneNamed(todo', "rsar")
               /\ \A other \in ToSet(usb_in_int'.fifo) : other[1][1] # "rsar"
    <3>1. Fisr \notin ToSet(calls)
      BY <1>11 DEF NoneNamed, Fisr
    <3>2. Fisr \in ToSet(Tail(todo)) /\ Fisr \in ToSet(todo)
      BY <1>5, <1>12, <2>3, <3>1
    <3>3. register # Fisr
      BY <1>14, <3>2 DEF ToSet
    <3>4. /\ NoneNamed(todo, "rsar")
          /\ \A other \in ToSet(fifo) : other[1][1] # "rsar"
      BY <1>1, <1>2, <3>2 DEF ReportInv, TodoInv
    <3>5. register[1] # "rsar"
      BY <1>5, <3>4 DEF NoneNamed
    <3> QED BY <1>4, <1>5, <1>6, <1>11, <1>12, <3>3, <3>4, <3>5 DEF NoneNamed
  <2> QED BY <1>12, <2>1, <2>2, <2>3 DEF TodoInv
<1>16. ASSUME NEW channel \in ChannelIds, Fisr \in AllStatusRegisters,
              "SIG" \notin status'[channel][Fisr]
       PROVE  IF Reports(channel)' THEN \A slot \in TimeslotIds : SlotInv(channel, slot)'
              ELSE view[channel] = signaling[channel]
  <2>1. Reports(channel)' <=> channel = c
    BY <1>1, <1>3, <1>4 DEF Reports
  <2>2. Reports(channel) <=> channel = c
    BY <1>2, <1>3 DEF Reports
  <2>3. CASE channel # c
    <3>1. status'[channel][Fisr] = status[channel][Fisr]
      BY <1>1, <1>3, <2>3 DEF IInv, StatusType
    <3> QED BY <1>16, <2>1, <2>2, <2>3, <3>1 DEF ReportInv, ViewInv
  <2>4. CASE channel = c
    <3>1. SUFFICES ASSUME NEW slot \in TimeslotIds PROVE SlotInv(channel, slot)'
      BY <1>16, <2>1, <2>4
    <3>2. CASE register = Fisr /\ "SIG" \in value
      <4>1. \A other \in ToSet(fifo) : other[1][1] # "rsar"
        BY <1>1, <1>2, <1>5, <3>2 DEF ReportInv, TodoInv
      <4>2. SignalsOf(usb_in_int'.fifo, slot) = {}
        BY <1>4, <1>6, <3>2, <4>1 DEF SignalsOf, Fisr
      <4>3. <<"rsar", slot>> \in ToSet(todo')
        BY <1>11, <1>12, <3>2
      <4> QED BY <1>1, <4>2, <4>3 DEF SlotInv
    <3>3. CASE ~(register = Fisr /\ "SIG" \in value)
      <4>1. "SIG" \notin status[c][Fisr]
        <5>1. register # Fisr => status'[c][Fisr] = status[c][Fisr]
          BY <1>1, <1>3, <1>16 DEF IInv, StatusType
        <5> QED BY <1>9, <1>16, <2>4, <3>3, <5>1
      <4>2. SlotInv(channel, slot)
        BY <1>16, <2>2, <2>4, <4>1 DEF ReportInv, ViewInv
      <4>3. CASE register[1] = "rsar" /\ register[2] = slot
        <5>1. SignalsOf(usb_in_int'.fifo, slot) = SignalsOf(fifo, slot) \union {field}
          BY <1>4, <1>6, <4>3 DEF SignalsOf
        <5> QED BY <1>1, <1>2, <1>6, <1>8, <2>4, <4>2, <4>3, <5>1 DEF SlotInv
      <4>4. CASE ~(register[1] = "rsar" /\ register[2] = slot)
        <5>1. SignalsOf(usb_in_int'.fifo, slot) = SignalsOf(fifo, slot)
          BY <1>4, <1>6, <4>4 DEF SignalsOf
        <5>2. <<"rsar", slot>> \in ToSet(todo) => <<"rsar", slot>> \in ToSet(todo')
          BY <1>5, <1>12, <4>4
        <5> QED BY <1>1, <1>2, <4>2, <5>1, <5>2 DEF SlotInv
      <4> QED BY <4>3, <4>4
    <3> QED BY <3>2, <3>3
  <2> QED BY <2>3, <2>4
<1>17. ViewInv'
  BY <1>1, <1>16 DEF ViewInv
<1> QED BY <1>13, <1>15, <1>17 DEF ReportInv

(* The rest of the loop reads nothing that says how the signaling bits are. *)
LEMMA ReportLoopKeeps ==
  ASSUME IInv, ReportInv, CheckCommand \/ CheckIdle \/ Transmit
  PROVE  ReportInv'
<1>1. UNCHANGED <<status, message, signaling, view, todo>> /\ pc' # "report"
  BY DEF CheckCommand, CheckIdle, Transmit, framer_vars, report_vars
<1>2. TodoInv' /\ SignalingType'
  BY <1>1 DEF ReportInv, TodoInv, SignalingType
<1>3. PICK fifo, primed : usb_in_int = [fifo |-> fifo, primed |-> primed]
  BY DEF IInv, EndpointInv
<1>4. usb_in_int'.fifo = usb_in_int.fifo
  BY <1>3 DEF CheckCommand, CheckIdle, Transmit, report_vars, transmit
<1>5. pc # "report" \/ todo = <<>>
  BY DEF CheckCommand, CheckIdle, Transmit
<1>6. \A channel \in ChannelIds : \A slot \in TimeslotIds :
        SlotInv(channel, slot) => SlotInv(channel, slot)'
  BY <1>1, <1>4, <1>5 DEF SlotInv, ToSet
<1>7. \A channel \in ChannelIds : Reports(channel)' <=> Reports(channel)
  BY <1>4 DEF Reports
<1>8. ViewInv'
  BY <1>1, <1>6, <1>7 DEF ReportInv, ViewInv
<1> QED BY <1>2, <1>8 DEF ReportInv

(* The framer latches a cause, with or without a change of its bits. *)
LEMMA ReportLatchKeeps ==
  ASSUME IInv, ReportInv, NEW channel \in ChannelIds, NEW register \in AllStatusRegisters,
         NEW cause, Latch(channel, register, cause),
         UNCHANGED <<pc, todo, usb_in_int, view>>,
         message' \in [ChannelIds -> [ControllerIds -> 0 .. MaxMessage]],
         \/ UNCHANGED signaling
         \/ /\ register = Fisr /\ cause = "SIG"
            /\ \E slot \in TimeslotIds : signaling' = [signaling EXCEPT ![channel][slot] = 1 - @]
  PROVE  ReportInv'
<1>1. TodoInv'
  BY DEF ReportInv, TodoInv
<1>2. SignalingType'
  <2>1. \A bit \in 0 .. 1 : 1 - bit \in 0 .. 1
    OBVIOUS
  <2>2. signaling' \in [ChannelIds -> [TimeslotIds -> 0 .. 1]]
    <3>1. CASE UNCHANGED signaling
      BY <3>1 DEF ReportInv, SignalingType
    <3>2. CASE \E slot \in TimeslotIds : signaling' = [signaling EXCEPT ![channel][slot] = 1 - @]
      <4>1. PICK slot \in TimeslotIds : signaling' = [signaling EXCEPT ![channel][slot] = 1 - @]
        BY <3>2
      <4>2. signaling \in [ChannelIds -> [TimeslotIds -> 0 .. 1]]
        BY DEF ReportInv, SignalingType
      <4>3. 1 - signaling[channel][slot] \in 0 .. 1
        BY <2>1, <4>2
      <4> QED BY <4>1, <4>2, <4>3
    <3> QED BY <3>1, <3>2
  <2> QED BY <2>2 DEF ReportInv, SignalingType
<1>3. status' = [status EXCEPT ![channel][register] = @ \union {cause}]
  BY DEF Latch
<1>4. ASSUME NEW other \in ChannelIds, Fisr \in AllStatusRegisters, "SIG" \notin status'[other][Fisr]
      PROVE  /\ "SIG" \notin status[other][Fisr] /\ signaling'[other] = signaling[other]
             /\ \A slot \in TimeslotIds : SlotInv(other, slot) => SlotInv(other, slot)'
  <2>1. "SIG" \notin status[other][Fisr]
    BY <1>3, <1>4 DEF IInv, StatusType
  <2>2. signaling'[other] = signaling[other]
    <3>1. other = channel => ~(register = Fisr /\ cause = "SIG")
      BY <1>3, <1>4 DEF IInv, StatusType
    <3> QED BY <3>1 DEF ReportInv, SignalingType
  <2> QED BY <2>1, <2>2 DEF SlotInv, ToSet
<1>5. ViewInv'
  BY <1>4 DEF ReportInv, ViewInv, Reports
<1> QED BY <1>1, <1>2, <1>5 DEF ReportInv

(* The host takes the bits from the report. *)
LEMMA ReportPollKeeps ==
  ASSUME IInv, ReportInv, PollInterrupt
  PROVE  ReportInv'
<1>. DEFINE packet == usb_in_int.fifo
            told == packet[1][1][2]
            signals == {field \in ToSet(packet) : field[1][1] = "rsar"}
            said(slot) == \E field \in signals : field[1][2] = slot
            saying(slot) == CHOOSE field \in signals : field[1][2] = slot
<1>1. /\ usb_in_int.primed /\ usb_in_int' = Idle
      /\ UNCHANGED <<status, message, signaling, pc, todo>>
      /\ view' = [view EXCEPT ![told] =
                    [slot \in TimeslotIds |-> IF said(slot) THEN saying(slot)[2] ELSE @[slot]]]
  BY DEF PollInterrupt, framer_vars, firmware_vars
<1>2. packet # <<>> /\ pc \in {"command", "idle"}
  BY <1>1 DEF IInv, EndpointInv
<1>3. PICK owner \in ChannelIds : packet[1][1] = <<"header", owner>>
  BY <1>2 DEF IInv, EndpointInv, Reports
<1>4. told = owner
  BY <1>3
<1>5. \A slot : said(slot) => saying(slot) \in SignalsOf(packet, slot)
  BY DEF SignalsOf
<1>6. \A slot : SignalsOf(packet, slot) # {} => said(slot)
  BY DEF SignalsOf
<1>7. \A channel \in ChannelIds : Reports(channel) <=> channel = owner
  BY <1>2, <1>3 DEF Reports
<1>. HIDE DEF told, said, saying, packet
<1>8. /\ \A channel \in ChannelIds : channel # owner => view'[channel] = view[channel]
      /\ view'[owner] = [slot \in TimeslotIds |->
                           IF said(slot) THEN saying(slot)[2] ELSE view[owner][slot]]
      /\ view' = [channel \in ChannelIds |-> [slot \in TimeslotIds |-> view'[channel][slot]]]
  BY <1>1, <1>4 DEF ReportInv, SignalingType
<1>9. TodoInv' /\ SignalingType'
  BY <1>1, <1>2, <1>8 DEF ReportInv, TodoInv, SignalingType
<1>10. ASSUME NEW channel \in ChannelIds, Fisr \in AllStatusRegisters,
              "SIG" \notin status[channel][Fisr]
       PROVE  view'[channel] = signaling[channel]
  <2>1. CASE channel # owner
    BY <1>7, <1>8, <1>10, <2>1 DEF ReportInv, ViewInv
  <2>2. CASE channel = owner
    <3>1. ASSUME NEW slot \in TimeslotIds
          PROVE  view'[owner][slot] = signaling[owner][slot]
      <4>1. SlotInv(channel, slot)
        BY <1>7, <1>10, <2>2 DEF ReportInv, ViewInv
      <4>2. /\ \A field \in SignalsOf(packet, slot) : field[2] = signaling[owner][slot]
            /\ SignalsOf(packet, slot) # {} \/ view[owner][slot] = signaling[owner][slot]
        BY <1>2, <2>2, <4>1 DEF SlotInv, packet
      <4> QED BY <1>5, <1>6, <1>8, <4>2
    <3>2. signaling[owner] = [slot \in TimeslotIds |-> signaling[owner][slot]]
      BY DEF ReportInv, SignalingType
    <3>3. view'[owner] = [slot \in TimeslotIds |-> view'[owner][slot]]
      BY <1>8
    <3> QED BY <2>2, <3>1, <3>2, <3>3
  <2> QED BY <2>1, <2>2
<1>11. \A channel : ~Reports(channel)'
  BY <1>1 DEF Reports, Idle
<1>12. ViewInv'
  BY <1>1, <1>10, <1>11 DEF ViewInv
<1> QED BY <1>9, <1>12 DEF ReportInv

(* At the start the host knows the bits. *)
LEMMA ReportInit == Init => ReportInv
<1> SUFFICES ASSUME Init PROVE ReportInv
  OBVIOUS
<1>1. TodoInv
  <2>1. 0 \in 0 .. MaxMessage
    BY SizesAssumption
  <2> QED BY <2>1 DEF Init, TodoInv
<1>2. SignalingType /\ view = signaling
  BY DEF Init, SignalingType, NoSignaling
<1>3. usb_in_int.fifo = <<>>
  BY DEF Init, Idle
<1> QED BY <1>1, <1>2, <1>3 DEF ReportInv, ViewInv, Reports

(* No step breaks it. *)
LEMMA ReportNext == IInv /\ ReportInv /\ [Next]_vars => ReportInv'
<1> SUFFICES ASSUME IInv, ReportInv, [Next]_vars PROVE ReportInv'
  OBVIOUS
<1>1. CASE FirmwareStep
  BY <1>1, ReportReadBisrKeeps, ReportReadRegisterKeeps, ReportLoopKeeps DEF FirmwareStep
<1>2. ASSUME NEW channel \in ChannelIds, NEW register \in AllStatusRegisters,
             Interrupt(channel, register)
      PROVE  ReportInv'
  <2>1. /\ Latch(channel, register, "OTHER")
        /\ UNCHANGED <<pc, todo, usb_in_int, view, message, signaling>>
    BY <1>2 DEF Interrupt, firmware_vars
  <2> QED BY <2>1, ReportLatchKeeps DEF ReportInv, TodoInv
<1>3. ASSUME NEW channel \in ChannelIds, NEW slot \in TimeslotIds, SignalingChange(channel, slot)
      PROVE  ReportInv'
  <2>1. /\ Fisr \in AllStatusRegisters /\ Latch(channel, Fisr, "SIG")
        /\ UNCHANGED <<pc, todo, usb_in_int, view, message>>
        /\ signaling' = [signaling EXCEPT ![channel][slot] = 1 - @]
    BY <1>3 DEF SignalingChange, firmware_vars
  <2>2. message' \in [ChannelIds -> [ControllerIds -> 0 .. MaxMessage]]
    BY <2>1 DEF ReportInv, TodoInv
  <2> QED BY <2>1, <2>2, ReportLatchKeeps
<1>4. ASSUME NEW channel \in ChannelIds, NEW i \in ControllerIds, MessageReceived(channel, i)
      PROVE  ReportInv'
  <2>1. /\ <<"dlsr", i>> \in AllStatusRegisters /\ Latch(channel, <<"dlsr", i>>, "RxEOT")
        /\ UNCHANGED <<pc, todo, usb_in_int, view, signaling>>
    BY <1>4 DEF MessageReceived, firmware_vars
  <2>2. message' \in [ChannelIds -> [ControllerIds -> 0 .. MaxMessage]]
    <3>1. PICK length \in 1 .. MaxMessage : message' = [message EXCEPT ![channel][i] = length]
      BY <1>4 DEF MessageReceived
    <3>2. length \in 0 .. MaxMessage
      BY SizesAssumption
    <3> QED BY <3>1, <3>2 DEF ReportInv, TodoInv
  <2> QED BY <2>1, <2>2, ReportLatchKeeps
<1>5. CASE SendCommand \/ ReceiveResponse \/ GiveUp \/ UNCHANGED vars
  <2>1. UNCHANGED <<status, message, signaling, view, usb_in_int, pc, todo>>
    BY <1>5 DEF SendCommand, ReceiveResponse, GiveUp, vars, framer_vars, report_vars, firmware_vars
  <2>2. TodoInv' /\ SignalingType'
    BY <2>1 DEF ReportInv, TodoInv, SignalingType
  <2>3. ViewInv'
    BY <2>1 DEF ReportInv, ViewInv, SlotInv, Reports
  <2> QED BY <2>2, <2>3 DEF ReportInv
<1>6. CASE PollInterrupt
  BY <1>6, ReportPollKeeps
<1> QED BY <1>1, <1>2, <1>3, <1>4, <1>5, <1>6 DEF Next

(* The host's signaling bits are the framer's whenever no change is latched   *)
(* and no report is on its way, however the bits change between two reads.   *)
THEOREM ViewCatchesUpHolds == Spec => []ViewCatchesUp
<1>1. ReportInv => ViewCatchesUp
  BY DEF ReportInv, ViewInv, ViewCatchesUp, Reports
<1> QED BY <1>1, InvInit, InvNext, ReportInit, ReportNext, PTL DEF Spec

-----------------------------------------------------------------------------
(* Commands and their answers. *)

(* The host has sent a packet: it is in the OUT FIFO as it was sent, or the  *)
(* firmware has done what it says and its answer waits, or it is no command  *)
(* and nothing is left of it.                                               *)
Waiting(packet) ==
  /\ request = <<packet>> /\ got = <<>>
  /\ \/ /\ usb_out = [fifo |-> packet, enable |-> FALSE] /\ usb_in = Idle
        /\ registers = written
     \/ /\ usb_out = [fifo |-> <<>>, enable |-> TRUE]
        /\ \/ /\ packet \notin Commands
              /\ usb_in = Idle /\ registers = written
           \/ /\ packet \in Commands /\ packet[1] = 0
              /\ usb_in = [fifo |-> <<registers[address_of(packet)]>>, primed |-> TRUE]
              /\ registers = written
           \/ /\ packet \in Commands /\ packet[1] = 1
              /\ usb_in = [fifo |-> <<>>, primed |-> TRUE]
              /\ registers = [written EXCEPT ![address_of(packet)] = packet[4]]

(* The host waits for nothing. *)
AtRest ==
  /\ request = <<>>
  /\ usb_out = [fifo |-> <<>>, enable |-> TRUE] /\ usb_in = Idle
  /\ registers = written

(* One packet at a time is under way, and a value read is the one written. *)
CommandInv ==
  /\ AtRest \/ \E packet \in Commands \union Malformed : Waiting(packet)
  /\ got = <<>> \/ got[2] = <<written[got[1]]>>

(* The two bytes of an address make the address. *)
LEMMA AddressBytes ==
  ASSUME NEW address \in Nat
  PROVE  ((address \div 256) * 256) + (address % 256) = address
OBVIOUS

(* A command is parsed as what it is, to its last byte. *)
LEMMA ParsesCommand ==
  ASSUME NEW packet \in Commands
  PROVE  /\ packet \in Seq(Nat) /\ packet # <<>> /\ address_of(packet) \in Addresses
         /\ \/ /\ packet[1] = 0
               /\ parse_host_request(packet) =
                    [command |-> "RegisterRead", address |-> address_of(packet), rest |-> <<>>]
            \/ /\ packet[1] = 1
               /\ parse_host_request(packet) =
                    [command |-> "RegisterWrite", address |-> address_of(packet),
                     value |-> packet[4], rest |-> <<>>]
<1>1. CASE \E address \in Addresses : packet = ReadCommand(address)
  <2>1. PICK address \in Addresses : packet = <<0, address % 256, address \div 256>>
    BY <1>1 DEF ReadCommand
  <2>2. address \in Nat /\ address % 256 \in Nat /\ address \div 256 \in Nat
    BY CommandsAssumption
  <2>. DEFINE low == address % 256
              high == address \div 256
  <2>3. high * 256 + low = address
    BY <2>2, AddressBytes
  <2>. HIDE DEF low, high
  <2>4. packet = <<0, low, high>> /\ low \in Nat /\ high \in Nat
    BY <2>1, <2>2 DEF low, high
  <2>5. /\ packet[1] = 0 /\ packet[2] = low /\ packet[3] = high /\ Len(packet) = 3
        /\ packet \in Seq(Nat) /\ packet # <<>>
    BY <2>4
  <2>6. SubSeq(packet, 4, 3) = <<>>
    BY <2>5, SubSeqProperties, EmptySeq
  <2>7. address_of(packet) = address
    BY <2>3, <2>5 DEF address_of
  <2> QED BY <2>5, <2>6, <2>7 DEF parse_host_request
<1>2. CASE \E address \in Addresses, value \in Values : packet = WriteCommand(address, value)
  <2>1. PICK address \in Addresses, value \in Values :
          packet = <<1, address % 256, address \div 256, value>>
    BY <1>2 DEF WriteCommand
  <2>2. address \in Nat /\ address % 256 \in Nat /\ address \div 256 \in Nat /\ value \in Nat
    BY CommandsAssumption
  <2>. DEFINE low == address % 256
              high == address \div 256
  <2>3. high * 256 + low = address
    BY <2>2, AddressBytes
  <2>. HIDE DEF low, high
  <2>4. packet = <<1, low, high, value>> /\ low \in Nat /\ high \in Nat
    BY <2>1, <2>2 DEF low, high
  <2>5. /\ packet[1] = 1 /\ packet[2] = low /\ packet[3] = high /\ packet[4] = value
        /\ Len(packet) = 4 /\ packet \in Seq(Nat) /\ packet # <<>>
    BY <2>2, <2>4
  <2>6. SubSeq(packet, 5, 4) = <<>>
    BY <2>5, SubSeqProperties, EmptySeq
  <2>7. address_of(packet) = address
    BY <2>3, <2>5 DEF address_of
  <2> QED BY <2>5, <2>6, <2>7 DEF parse_host_request
<1> QED BY <1>1, <1>2 DEF Commands

(* The answer to a read is one byte, primed. *)
LEMMA AnswerPrimed ==
  ASSUME NEW endpoint, NEW v, endpoint = [fifo |-> <<>>, primed |-> FALSE]
  PROVE  transmit(write_fifo(endpoint, v)) = [fifo |-> <<v>>, primed |-> TRUE]
<1>1. Append(<<>>, v) = <<v>>
  OBVIOUS
<1>2. PICK fifo, primed : endpoint = [fifo |-> fifo, primed |-> primed] /\ fifo = <<>>
  OBVIOUS
<1>3. PICK filled : filled = write_fifo(endpoint, v)
  OBVIOUS
<1>4. filled = [fifo |-> Append(fifo, v), primed |-> primed]
  BY <1>2, <1>3 DEF write_fifo
<1>5. PICK sent : sent = transmit(filled)
  OBVIOUS
<1>6. sent = [fifo |-> Append(fifo, v), primed |-> TRUE]
  BY <1>4, <1>5 DEF transmit
<1> QED BY <1>1, <1>2, <1>3, <1>5, <1>6

(* The firmware answers what it has been sent. *)
LEMMA CheckCommandKeeps ==
  ASSUME LeavesNoResidue, CommandInv, CheckCommand
  PROVE  CommandInv'
<1>1. UNCHANGED <<request, written, got>>
  BY DEF CheckCommand
<1>2. CASE usb_out.enable
  <2>1. UNCHANGED <<usb_out, usb_in, registers>>
    BY <1>2 DEF CheckCommand
  <2> QED BY <1>1, <2>1 DEF CommandInv, AtRest, Waiting
<1>3. CASE ~usb_out.enable
  <2>1. ~AtRest
    BY <1>3 DEF AtRest
  <2>2. PICK packet \in Commands \union Malformed : Waiting(packet)
    BY <2>1 DEF CommandInv
  <2>3. /\ request = <<packet>> /\ got = <<>> /\ usb_out.fifo = packet
        /\ usb_in = [fifo |-> <<>>, primed |-> FALSE] /\ registers = written
    BY <1>3, <2>2 DEF Waiting, Idle
  <2>4. IF packet = <<>>
        THEN usb_out' = Rearmed(<<>>) /\ UNCHANGED <<usb_in, registers>>
        ELSE /\ Answer(parse_host_request(packet))
             /\ usb_out' = Rearmed(parse_host_request(packet).rest)
    BY <1>3, <2>3 DEF CheckCommand
  <2>5. CASE packet \in Commands
    <3>1. /\ packet # <<>> /\ address_of(packet) \in Addresses
          /\ Answer(parse_host_request(packet))
          /\ usb_out' = Rearmed(parse_host_request(packet).rest)
      BY <2>4, <2>5, ParsesCommand
    <3>2. CASE /\ packet[1] = 0
               /\ parse_host_request(packet) =
                    [command |-> "RegisterRead", address |-> address_of(packet), rest |-> <<>>]
      <4>1. /\ usb_in' = transmit(write_fifo(usb_in, registers[address_of(packet)]))
            /\ UNCHANGED registers
        <5>. DEFINE parsed == parse_host_request(packet)
        <5>1. parsed.command = "RegisterRead" /\ parsed.address = address_of(packet)
          BY <3>2
        <5>. HIDE DEF parsed
        <5>2. Answer(parsed)
          BY <3>1 DEF parsed
        <5>3. /\ \E value \in IF parsed.address \in Addresses
                           THEN {registers[parsed.address]} ELSE Values :
                   usb_in' = transmit(write_fifo(usb_in, value))
              /\ UNCHANGED registers
          BY <5>1, <5>2 DEF Answer
        <5>4. parsed.address \in Addresses
          BY <3>1, <5>1
        <5>5. PICK value \in {registers[parsed.address]} :
                usb_in' = transmit(write_fifo(usb_in, value))
          BY <5>3, <5>4
        <5> QED BY <5>1, <5>3, <5>5
      <4>2. usb_in' = [fifo |-> <<registers[address_of(packet)]>>, primed |-> TRUE]
        BY <2>3, <4>1, AnswerPrimed
      <4>3. usb_out' = [fifo |-> <<>>, enable |-> TRUE]
        BY <3>1, <3>2 DEF Rearmed
      <4>4. Waiting(packet)'
        BY <1>1, <2>3, <2>5, <3>2, <4>1, <4>2, <4>3 DEF Waiting
      <4> QED BY <1>1, <2>3, <4>4 DEF CommandInv
    <3>3. CASE /\ packet[1] = 1
               /\ parse_host_request(packet) =
                    [command |-> "RegisterWrite", address |-> address_of(packet),
                     value |-> packet[4], rest |-> <<>>]
      <4>1. /\ usb_in' = transmit(usb_in)
            /\ registers' = [registers EXCEPT ![address_of(packet)] = packet[4]]
        BY <3>1, <3>3 DEF Answer
      <4>2. usb_in' = [fifo |-> <<>>, primed |-> TRUE]
        BY <2>3, <4>1 DEF transmit
      <4>3. usb_out' = [fifo |-> <<>>, enable |-> TRUE]
        BY <3>1, <3>3 DEF Rearmed
      <4>4. Waiting(packet)'
        BY <1>1, <2>3, <2>5, <3>3, <4>1, <4>2, <4>3 DEF Waiting
      <4> QED BY <1>1, <2>3, <4>4 DEF CommandInv
    <3> QED BY <2>5, <3>2, <3>3, ParsesCommand
  <2>6. CASE packet \notin Commands
    <3>1. usb_out' = [fifo |-> <<>>, enable |-> TRUE] /\ UNCHANGED <<usb_in, registers>>
      <4>1. CASE packet = <<>>
        BY <2>4, <4>1 DEF Rearmed
      <4>2. CASE packet # <<>>
        <5>1. /\ parse_host_request(packet).command \in {"ShortPacket", "InvalidCommand"}
              /\ parse_host_request(packet).rest = <<>>
          BY <2>6, <4>2 DEF LeavesNoResidue
        <5> QED BY <2>4, <4>2, <5>1 DEF Answer, Rearmed
      <4> QED BY <4>1, <4>2
    <3>2. Waiting(packet)'
      BY <1>1, <2>3, <2>6, <3>1 DEF Waiting, Idle
    <3> QED BY <1>1, <2>3, <3>2 DEF CommandInv
  <2> QED BY <2>5, <2>6
<1> QED BY <1>2, <1>3

(* The host sends, hears the answer or gives up. *)
LEMMA HostKeeps ==
  ASSUME CommandInv, SendCommand \/ ReceiveResponse \/ GiveUp
  PROVE  CommandInv'
<1>1. CASE SendCommand
  <2>1. PICK packet \in Commands \union Malformed :
          /\ request' = <<packet>>
          /\ usb_out' = [fifo |-> usb_out.fifo \o packet, enable |-> FALSE]
    BY <1>1 DEF SendCommand
  <2>2. request = <<>> /\ got' = <<>> /\ UNCHANGED <<registers, usb_in, written>>
    BY <1>1 DEF SendCommand
  <2>3. AtRest
    BY <2>2 DEF CommandInv, Waiting
  <2>4. packet \in Seq(Nat)
    BY CommandsAssumption, ParsesCommand
  <2>5. usb_out.fifo \o packet = packet
    <3>1. <<>> \o packet = packet
      BY <2>4, ConcatEmptySeq
    <3> QED BY <2>3, <3>1 DEF AtRest
  <2>6. Waiting(packet)'
    BY <2>1, <2>2, <2>3, <2>5 DEF AtRest, Waiting, Idle
  <2> QED BY <2>2, <2>6 DEF CommandInv
<1>2. CASE ReceiveResponse
  <2>1. request # <<>> /\ usb_in.primed
    BY <1>2 DEF ReceiveResponse
  <2>2. PICK packet \in Commands \union Malformed : Waiting(packet)
    BY <2>1 DEF CommandInv, AtRest
  <2>3. /\ request = <<packet>> /\ usb_out = [fifo |-> <<>>, enable |-> TRUE]
        /\ packet \in Commands
    BY <2>1, <2>2 DEF Waiting, Idle
  <2>4. /\ request' = <<>> /\ usb_in' = Idle /\ UNCHANGED <<registers, usb_out>>
        /\ got' = IF packet[1] = 0 THEN <<address_of(packet), usb_in.fifo>> ELSE <<>>
        /\ written' = IF packet[1] = 1 THEN [written EXCEPT ![address_of(packet)] = packet[4]]
                      ELSE written
    BY <1>2, <2>3 DEF ReceiveResponse, address_of
  <2>5. CASE packet[1] = 0
    <3>1. usb_in.fifo = <<registers[address_of(packet)]>> /\ registers = written
      BY <2>1, <2>2, <2>3, <2>5 DEF Waiting, Idle
    <3>2. AtRest'
      BY <2>3, <2>4, <2>5, <3>1 DEF AtRest
    <3>3. got'[2] = <<written'[got'[1]]>>
      BY <2>4, <2>5, <3>1
    <3> QED BY <3>2, <3>3 DEF CommandInv
  <2>6. CASE packet[1] # 0
    <3>1. packet[1] = 1 /\ registers = [written EXCEPT ![address_of(packet)] = packet[4]]
      BY <2>1, <2>2, <2>3, <2>6 DEF Waiting, Idle
    <3>2. AtRest'
      BY <2>3, <2>4, <3>1 DEF AtRest
    <3> QED BY <2>4, <2>6, <3>2 DEF CommandInv
  <2> QED BY <2>5, <2>6
<1>3. CASE GiveUp
  <2>1. /\ request # <<>> /\ usb_out.enable /\ ~usb_in.primed /\ request' = <<>>
        /\ UNCHANGED <<registers, usb_out, usb_in, written, got>>
    BY <1>3 DEF GiveUp
  <2>2. PICK packet \in Commands \union Malformed : Waiting(packet)
    BY <2>1 DEF CommandInv, AtRest
  <2>3. AtRest' /\ got' = <<>>
    BY <2>1, <2>2 DEF Waiting, AtRest
  <2> QED BY <2>3 DEF CommandInv
<1> QED BY <1>1, <1>2, <1>3

(* Nothing but the loop and the host touches the command endpoint. *)
LEMMA CommandNext ==
  ASSUME LeavesNoResidue
  PROVE  CommandInv /\ [Next]_vars => CommandInv'
<1> SUFFICES ASSUME CommandInv, [Next]_vars PROVE CommandInv'
  OBVIOUS
<1>1. CASE CheckCommand
  BY <1>1, CheckCommandKeeps
<1>2. CASE SendCommand \/ ReceiveResponse \/ GiveUp
  BY <1>2, HostKeeps
<1>3. CASE UNCHANGED command_vars
  BY <1>3 DEF command_vars, CommandInv, AtRest, Waiting
<1>4. CheckIdle \/ ReadBisr \/ ReadRegister \/ Transmit => UNCHANGED command_vars
  BY DEF CheckIdle, ReadBisr, ReadRegister, Transmit
<1>5. ASSUME NEW channel \in ChannelIds,
             \/ \E register \in AllStatusRegisters : Interrupt(channel, register)
             \/ \E slot \in TimeslotIds : SignalingChange(channel, slot)
             \/ \E i \in ControllerIds : MessageReceived(channel, i)
      PROVE  UNCHANGED command_vars
  BY <1>5 DEF Interrupt, SignalingChange, MessageReceived
<1>6. PollInterrupt \/ UNCHANGED vars => UNCHANGED command_vars
  BY DEF PollInterrupt, vars
<1> QED BY <1>1, <1>2, <1>3, <1>4, <1>5, <1>6 DEF Next, FirmwareStep

(* A register reads as the host last wrote it, as long as the packets it     *)
(* sends that are no command leave nothing in the OUT FIFO.                 *)
THEOREM ReadsOwnWritesHolds ==
  ASSUME LeavesNoResidue
  PROVE  Spec => []ReadsOwnWrites
<1>1. Init => CommandInv
  BY DEF Init, CommandInv, AtRest
<1>2. CommandInv /\ [Next]_vars => CommandInv'
  BY CommandNext
<1>3. CommandInv => ReadsOwnWrites
  BY DEF CommandInv, ReadsOwnWrites
<1> QED BY <1>1, <1>2, <1>3, PTL DEF Spec
-----------------------------------------------------------------------------
(* The types, in three parts: the causes of the framer, the commands, and   *)
(* the signaling bits on their way to the host.                             *)
CausesType ==
  \A channel \in ChannelIds : \A register \in AllStatusRegisters :
    status[channel][register] \subseteq Causes(register)

CommandType ==
  /\ registers \in [Addresses -> Nat] /\ written \in [Addresses -> Nat]
  /\ \E fifo \in Seq(Nat), enable \in BOOLEAN : usb_out = [fifo |-> fifo, enable |-> enable]
  /\ \E fifo, primed : primed \in BOOLEAN /\ usb_in = [fifo |-> fifo, primed |-> primed]
  /\ request = <<>> \/ \E packet \in Commands \union Malformed : request = <<packet>>

(* Only signaling registers that there are will be read, and what a report   *)
(* has of them are bits.                                                    *)
BitsType ==
  /\ view \in [ChannelIds -> [TimeslotIds -> 0 .. 1]]
  /\ \A register \in ToSet(todo) : register[1] = "rsar" => register[2] \in TimeslotIds
  /\ \A field \in ToSet(usb_in_int.fifo) : field[1][1] = "rsar" => field[2] \in 0 .. 1

(* What a packet is parsed as, and what it leaves. *)
LEMMA ParsedTypes ==
  ASSUME NEW fifo \in Seq(Nat), fifo # <<>>
  PROVE  /\ parse_host_request(fifo).rest \in Seq(Nat)
         /\ parse_host_request(fifo).command = "RegisterWrite" =>
              parse_host_request(fifo).value \in Nat
<1>1. Len(fifo) \in Nat /\ Len(fifo) >= 1 /\ \A i \in 1 .. Len(fifo) : fifo[i] \in Nat
  BY EmptySeq
<1>2. \A n \in 0 .. Len(fifo) : SubSeq(fifo, n + 1, Len(fifo)) \in Seq(Nat)
  <2>1. SUFFICES ASSUME NEW n \in 0 .. Len(fifo)
                 PROVE  SubSeq(fifo, n + 1, Len(fifo)) \in Seq(Nat)
    OBVIOUS
  <2>2. n + 1 \in 1 .. Len(fifo) + 1 /\ Len(fifo) \in (n + 1) - 1 .. Len(fifo)
    BY <1>1
  <2> QED BY <2>2, SubSeqProperties
<1>3. SubSeq(fifo, 2, Len(fifo)) \in Seq(Nat)
  <2>1. 1 \in 0 .. Len(fifo) /\ 1 + 1 = 2
    BY <1>1
  <2> QED BY <1>2, <2>1
<1>4. CASE fifo[1] = 0 /\ Len(fifo) >= 3
  <2>1. SubSeq(fifo, 4, Len(fifo)) \in Seq(Nat)
    <3>1. 3 \in 0 .. Len(fifo) /\ 3 + 1 = 4
      BY <1>1, <1>4
    <3> QED BY <1>2, <3>1
  <2>2. parse_host_request(fifo) =
          [command |-> "RegisterRead", address |-> address_of(fifo),
           rest |-> SubSeq(fifo, 4, Len(fifo))]
    BY <1>4 DEF parse_host_request
  <2> QED BY <2>1, <2>2
<1>5. CASE fifo[1] = 1 /\ Len(fifo) >= 4
  <2>1. SubSeq(fifo, 5, Len(fifo)) \in Seq(Nat)
    <3>1. 4 \in 0 .. Len(fifo) /\ 4 + 1 = 5
      BY <1>1, <1>5
    <3> QED BY <1>2, <3>1
  <2>2. parse_host_request(fifo) =
          [command |-> "RegisterWrite", address |-> address_of(fifo), value |-> fifo[4],
           rest |-> SubSeq(fifo, 5, Len(fifo))]
    BY <1>5 DEF parse_host_request
  <2>3. fifo[4] \in Nat
    BY <1>1, <1>5
  <2> QED BY <2>1, <2>2, <2>3
<1>6. CASE ~(fifo[1] = 0 /\ Len(fifo) >= 3) /\ ~(fifo[1] = 1 /\ Len(fifo) >= 4)
  <2>1. CASE fifo[1] \in {0, 1}
    <3>1. parse_host_request(fifo) = [command |-> "ShortPacket", rest |-> <<>>]
      BY <1>6, <2>1 DEF parse_host_request
    <3> QED BY <3>1
  <2>2. CASE fifo[1] \notin {0, 1}
    <3>1. parse_host_request(fifo) =
            [command |-> "InvalidCommand", rest |-> SubSeq(fifo, 2, Len(fifo))]
      BY <1>6, <2>2 DEF parse_host_request
    <3> QED BY <1>3, <3>1
  <2> QED BY <2>1, <2>2
<1> QED BY <1>4, <1>5, <1>6

LEMMA CommandTypeInit == Init => CommandType
<1> SUFFICES ASSUME Init PROVE CommandType
  OBVIOUS
<1>1. registers \in [Addresses -> Nat] /\ written = registers
  BY CommandsAssumption DEF Init
<1>2. <<>> \in Seq(Nat)
  OBVIOUS
<1> QED BY <1>1, <1>2 DEF Init, CommandType, Idle

(* An endpoint that has its answer is primed. *)
LEMMA PrimedEndpoint ==
  ASSUME NEW endpoint, NEW v,
         \E fifo, primed : primed \in BOOLEAN /\ endpoint = [fifo |-> fifo, primed |-> primed]
  PROVE  /\ \E fifo, primed : /\ primed \in BOOLEAN
                              /\ transmit(endpoint) = [fifo |-> fifo, primed |-> primed]
         /\ \E fifo, primed : /\ primed \in BOOLEAN
                              /\ transmit(write_fifo(endpoint, v)) = [fifo |-> fifo, primed |-> primed]
<1>1. PICK fifo, primed : primed \in BOOLEAN /\ endpoint = [fifo |-> fifo, primed |-> primed]
  OBVIOUS
<1>2. PICK sent : sent = transmit(endpoint)
  OBVIOUS
<1>3. sent = [fifo |-> fifo, primed |-> TRUE]
  BY <1>1, <1>2 DEF transmit
<1>4. PICK filled : filled = write_fifo(endpoint, v)
  OBVIOUS
<1>5. filled = [fifo |-> Append(fifo, v), primed |-> primed]
  BY <1>1, <1>4 DEF write_fifo
<1>6. PICK full : full = transmit(filled)
  OBVIOUS
<1>7. full = [fifo |-> Append(fifo, v), primed |-> TRUE]
  BY <1>5, <1>6 DEF transmit
<1> QED BY <1>2, <1>3, <1>4, <1>6, <1>7

LEMMA CheckCommandTypes ==
  ASSUME CommandType, CheckCommand
  PROVE  CommandType'
<1>1. UNCHANGED <<request, written>>
  BY DEF CheckCommand
<1>2. CASE usb_out.enable
  BY <1>1, <1>2 DEF CheckCommand, CommandType
<1>3. CASE ~usb_out.enable /\ usb_out.fifo = <<>>
  <2>1. usb_out' = [fifo |-> <<>>, enable |-> TRUE] /\ UNCHANGED <<usb_in, registers>>
    BY <1>3 DEF CheckCommand, Rearmed
  <2>2. <<>> \in Seq(Nat)
    OBVIOUS
  <2> QED BY <1>1, <2>1, <2>2 DEF CommandType
<1>4. CASE ~usb_out.enable /\ usb_out.fifo # <<>>
  <2>. DEFINE parsed == parse_host_request(usb_out.fifo)
  <2>1. Answer(parsed) /\ usb_out' = [fifo |-> parsed.rest, enable |-> TRUE]
    BY <1>4 DEF CheckCommand, Rearmed
  <2>2. usb_out.fifo \in Seq(Nat)
    BY DEF CommandType
  <2>3. /\ parsed.rest \in Seq(Nat)
        /\ parsed.command = "RegisterWrite" => parsed.value \in Nat
    BY <1>4, <2>2, ParsedTypes
  <2>. HIDE DEF parsed
  <2>4. registers \in [Addresses -> Nat]
    BY DEF CommandType
  <2>5. registers' \in [Addresses -> Nat]
    <3>1. CASE UNCHANGED registers
      BY <2>4, <3>1
    <3>2. CASE ~UNCHANGED registers
      <4>1. /\ parsed.command = "RegisterWrite"
            /\ registers' = [registers EXCEPT ![parsed.address] = parsed.value]
        BY <2>1, <3>2 DEF Answer
      <4> QED BY <2>3, <2>4, <4>1
    <3> QED BY <3>1, <3>2
  <2>6. \E fifo, primed : primed \in BOOLEAN /\ usb_in' = [fifo |-> fifo, primed |-> primed]
    <3>1. \E fifo, primed : primed \in BOOLEAN /\ usb_in = [fifo |-> fifo, primed |-> primed]
      BY DEF CommandType
    <3>2. \/ usb_in' = usb_in \/ usb_in' = transmit(usb_in)
          \/ \E value : usb_in' = transmit(write_fifo(usb_in, value))
      BY <2>1 DEF Answer
    <3> QED BY <3>1, <3>2, PrimedEndpoint
  <2> QED BY <1>1, <2>1, <2>3, <2>5, <2>6 DEF CommandType
<1> QED BY <1>2, <1>3, <1>4

LEMMA HostTypes ==
  ASSUME CommandType, SendCommand \/ ReceiveResponse \/ GiveUp
  PROVE  CommandType'
<1>1. ASSUME NEW packet \in Commands \union Malformed PROVE packet \in Seq(Nat)
  BY ParsesCommand, CommandsAssumption
<1>2. CASE SendCommand
  <2>1. PICK packet \in Commands \union Malformed :
          /\ request' = <<packet>>
          /\ usb_out' = [fifo |-> usb_out.fifo \o packet, enable |-> FALSE]
    BY <1>2 DEF SendCommand
  <2>2. UNCHANGED <<registers, usb_in, written>>
    BY <1>2 DEF SendCommand
  <2>3. usb_out.fifo \o packet \in Seq(Nat)
    <3>1. usb_out.fifo \in Seq(Nat)
      BY DEF CommandType
    <3> QED BY <1>1, <3>1
  <2> QED BY <2>1, <2>2, <2>3 DEF CommandType
<1>3. CASE ReceiveResponse
  <2>. DEFINE packet == request[1]
              address == (packet[3] * 256) + packet[2]
  <2>1. /\ request # <<>> /\ request' = <<>> /\ usb_in' = Idle
        /\ UNCHANGED <<registers, usb_out>>
        /\ written' = IF packet \in Commands /\ packet[1] = 1
                      THEN [written EXCEPT ![address] = packet[4]] ELSE written
    BY <1>3 DEF ReceiveResponse
  <2>2. packet \in Commands /\ packet[1] = 1 => packet[4] \in Nat
    <3>1. SUFFICES ASSUME packet \in Commands, packet[1] = 1 PROVE packet[4] \in Nat
      OBVIOUS
    <3>. HIDE DEF packet
    <3>2. PICK a \in Addresses, value \in Values : packet = WriteCommand(a, value)
      BY <3>1 DEF Commands, ReadCommand
    <3> QED BY <3>2, CommandsAssumption DEF WriteCommand
  <2>. HIDE DEF packet, address
  <2>3. written' \in [Addresses -> Nat]
    BY <2>1, <2>2 DEF CommandType
  <2> QED BY <2>1, <2>3 DEF CommandType, Idle
<1>4. CASE GiveUp
  BY <1>4 DEF GiveUp, CommandType
<1> QED BY <1>2, <1>3, <1>4

LEMMA CommandTypeNext == CommandType /\ [Next]_vars => CommandType'
<1> SUFFICES ASSUME CommandType, [Next]_vars PROVE CommandType'
  OBVIOUS
<1>1. CASE CheckCommand \/ SendCommand \/ ReceiveResponse \/ GiveUp
  BY <1>1, CheckCommandTypes, HostTypes
<1>2. CASE UNCHANGED command_vars
  BY <1>2 DEF command_vars, CommandType
<1>3. CheckIdle \/ ReadBisr \/ ReadRegister \/ Transmit \/ PollInterrupt \/ UNCHANGED vars
        => UNCHANGED command_vars
  BY DEF CheckIdle, ReadBisr, ReadRegister, Transmit, PollInterrupt, vars
<1>4. ASSUME NEW channel \in ChannelIds,
             \/ \E register \in AllStatusRegisters : Interrupt(channel, register)
             \/ \E slot \in TimeslotIds : SignalingChange(channel, slot)
             \/ \E i \in ControllerIds : MessageReceived(channel, i)
      PROVE  UNCHANGED command_vars
  BY <1>4 DEF Interrupt, SignalingChange, MessageReceived
<1> QED BY <1>1, <1>2, <1>3, <1>4 DEF Next, FirmwareStep

(* A cause is latched where it belongs, and a register read has none. *)
LEMMA CausesTypeNext == IInv /\ CausesType /\ [Next]_vars => CausesType'
<1> SUFFICES ASSUME IInv, CausesType, [Next]_vars PROVE CausesType'
  OBVIOUS
<1>. DEFINE S == SUBSET {"SIG", "OTHER", "RxEOT"}
<1>1. status \in [ChannelIds -> [AllStatusRegisters -> S]] /\ channel_index \in ChannelIds
  BY DEF IInv, StatusType
<1>. HIDE DEF S
<1>2. ASSUME NEW channel \in ChannelIds, NEW register \in AllStatusRegisters,
             NEW cause \in Causes(register), Latch(channel, register, cause)
      PROVE  CausesType'
  <2>1. status' = [status EXCEPT ![channel][register] = @ \union {cause}]
    BY <1>2 DEF Latch
  <2> QED BY <1>1, <1>2, <2>1 DEF CausesType
<1>3. ASSUME NEW channel \in ChannelIds, NEW register \in AllStatusRegisters,
             Interrupt(channel, register)
      PROVE  CausesType'
  <2>1. Latch(channel, register, "OTHER") /\ "OTHER" \in Causes(register)
    BY <1>3 DEF Interrupt, Causes
  <2> QED BY <1>2, <2>1
<1>4. ASSUME NEW channel \in ChannelIds, NEW slot \in TimeslotIds, SignalingChange(channel, slot)
      PROVE  CausesType'
  <2>1. Fisr \in AllStatusRegisters /\ Latch(channel, Fisr, "SIG") /\ "SIG" \in Causes(Fisr)
    BY <1>4 DEF SignalingChange, Causes, Fisr
  <2> QED BY <1>2, <2>1
<1>5. ASSUME NEW channel \in ChannelIds, NEW i \in ControllerIds, MessageReceived(channel, i)
      PROVE  CausesType'
  <2>1. /\ <<"dlsr", i>> \in AllStatusRegisters /\ Latch(channel, <<"dlsr", i>>, "RxEOT")
        /\ "RxEOT" \in Causes(<<"dlsr", i>>)
    BY <1>5 DEF MessageReceived, Causes
  <2> QED BY <1>2, <2>1
<1>6. CASE ReadRegister
  <2>. DEFINE register == Head(todo)
  <2>1. status' = IF register \in AllStatusRegisters
                  THEN [status EXCEPT ![channel_index][register] = {}] ELSE status
    BY <1>6 DEF ReadRegister
  <2>. HIDE DEF register
  <2> QED BY <1>1, <2>1 DEF CausesType
<1>7. CASE UNCHANGED status
  BY <1>7 DEF CausesType
<1>8. CheckCommand \/ CheckIdle \/ ReadBisr \/ Transmit \/ SendCommand \/ ReceiveResponse
        \/ GiveUp \/ PollInterrupt \/ UNCHANGED vars => UNCHANGED status
  BY DEF CheckCommand, CheckIdle, ReadBisr, Transmit, SendCommand, ReceiveResponse, GiveUp,
         PollInterrupt, vars, framer_vars
<1> QED BY <1>3, <1>4, <1>5, <1>6, <1>7, <1>8 DEF Next, FirmwareStep

(* The signaling registers called for are there. *)
LEMMA CallsBits ==
  ASSUME NEW register, NEW value, NEW called \in ToSet(Calls(register, value)),
         called[1] = "rsar"
  PROVE  called[2] \in TimeslotIds
<1>1. CASE register[1] = "rdlbcr"
  <2>1. Calls(register, value) = [k \in 1 .. value |-> <<"lapdbcr", register[2]>>]
    BY <1>1 DEF Calls
  <2> QED BY <2>1 DEF ToSet
<1>2. CASE register[1] # "rdlbcr" /\ register[1] = "fisr" /\ "SIG" \in value
  <2>1. Calls(register, value) = [k \in 1 .. Timeslots |-> <<"rsar", k - 1>>]
    BY <1>2 DEF Calls
  <2>2. PICK k \in 1 .. Timeslots : called = <<"rsar", k - 1>>
    BY <2>1 DEF ToSet
  <2> QED BY <2>2, SizesAssumption DEF TimeslotIds
<1>3. CASE register[1] # "rdlbcr" /\ ~(register[1] = "fisr" /\ "SIG" \in value)
  <2>1. Calls(register, value) = <<>>
    BY <1>3 DEF Calls
  <2> QED BY <2>1 DEF ToSet
<1> QED BY <1>1, <1>2, <1>3

LEMMA BitsReadRegisterKeeps ==
  ASSUME IInv, ReportInv, BitsType, ReadRegister
  PROVE  BitsType'
<1>. DEFINE register == Head(todo)
            value == RegisterValue(register)
            field == <<register, value>>
            calls == Calls(register, value)
<1>1. /\ pc = "report" /\ todo # <<>> /\ UNCHANGED view
      /\ usb_in_int' = write_fifo(usb_in_int, field)
      /\ todo' = calls \o Tail(todo)
  BY DEF ReadRegister
<1>2. PICK fifo, primed : /\ IsSequence(fifo)
                          /\ usb_in_int = [fifo |-> fifo, primed |-> primed]
  BY DEF IInv, EndpointInv
<1>3. ToSet(usb_in_int'.fifo) = ToSet(fifo) \union {field}
  BY <1>1, <1>2, FieldAppended DEF write_fifo
<1>4. /\ register \in ReadableRegisters /\ register \in ToSet(todo)
      /\ Tail(todo) \in Seq(ReadableRegisters) /\ ToSet(Tail(todo)) \subseteq ToSet(todo)
  BY <1>1, MembersOfTail DEF ReportInv, TodoInv
<1>5. register[1] = "rdlbcr" => value \in Nat
  <2>1. register[1] = "rdlbcr" => value \in 0 .. MaxMessage
    BY <1>4 DEF RegisterValue, ReportInv, TodoInv, ReadableRegisters, IInv, StatusType
  <2> QED BY <2>1, SizesAssumption
<1>6. register[1] = "rsar" => value \in 0 .. 1
  <2>1. register[1] = "rsar" => register[2] \in TimeslotIds
    BY <1>4 DEF BitsType
  <2>2. register[1] = "rsar" => value = signaling[channel_index][register[2]]
    BY DEF RegisterValue
  <2> QED BY <2>1, <2>2 DEF ReportInv, SignalingType, IInv, StatusType
<1>7. field[1] = register /\ field[2] = value
  OBVIOUS
<1>. HIDE DEF register, value, field
<1>8. /\ calls \in Seq(ReadableRegisters)
      /\ \A called \in ToSet(calls) : called[1] = "rsar" => called[2] \in TimeslotIds
  BY <1>4, <1>5, CalledRegisters, CallsBits
<1>. HIDE DEF calls
<1>9. ToSet(todo') = ToSet(calls) \union ToSet(Tail(todo))
  <2>. DEFINE rest == Tail(todo)
  <2>1. calls \in Seq(ReadableRegisters) /\ rest \in Seq(ReadableRegisters)
    BY <1>4, <1>8
  <2>2. todo' = calls \o rest
    BY <1>1
  <2>. HIDE DEF rest
  <2>3. ToSet(calls \o rest) = ToSet(calls) \union ToSet(rest)
    BY <2>1, MembersOfConcat, Zenon
  <2>4. ToSet(todo') = ToSet(calls) \union ToSet(rest)
    BY <2>2, <2>3, Zenon
  <2>. QED BY <2>4 DEF rest
<1>10. \A other \in ToSet(todo') : other[1] = "rsar" => other[2] \in TimeslotIds
  BY <1>4, <1>8, <1>9 DEF BitsType
<1>11. \A other \in ToSet(usb_in_int'.fifo) : other[1][1] = "rsar" => other[2] \in 0 .. 1
  BY <1>2, <1>3, <1>6, <1>7 DEF BitsType
<1> QED BY <1>1, <1>10, <1>11 DEF BitsType

LEMMA BitsReadBisrKeeps ==
  ASSUME IInv, BitsType, ReadBisr
  PROVE  BitsType'
<1>. DEFINE c == channel_index
            header == <<<<"header", c>>, bisr(c)>>
<1>1. /\ pc = "bisr" /\ UNCHANGED view
      /\ \/ todo' = <<>> /\ UNCHANGED usb_in_int
         \/ todo' = Layout(bisr(c)) /\ usb_in_int' = write_fifo(usb_in_int, header)
  BY DEF ReadBisr
<1>2. PICK fifo, primed : /\ IsSequence(fifo)
                          /\ usb_in_int = [fifo |-> fifo, primed |-> primed]
  BY DEF IInv, EndpointInv
<1>3. CASE todo' = <<>> /\ UNCHANGED usb_in_int
  BY <1>1, <1>3 DEF BitsType, ToSet
<1>4. CASE todo' = Layout(bisr(c)) /\ usb_in_int' = write_fifo(usb_in_int, header)
  <2>1. ToSet(usb_in_int'.fifo) = ToSet(fifo) \union {header}
    BY <1>2, <1>4, FieldAppended DEF write_fifo
  <2>2. header[1][1] = "header"
    OBVIOUS
  <2>. HIDE DEF header
  <2>3. \A other \in ToSet(usb_in_int'.fifo) : other[1][1] = "rsar" => other[2] \in 0 .. 1
    BY <1>2, <2>1, <2>2 DEF BitsType
  <2>4. \A other \in ToSet(todo') : other[1] # "rsar"
    BY <1>4, LayoutRegisters DEF NoneNamed
  <2> QED BY <1>1, <2>3, <2>4 DEF BitsType
<1> QED BY <1>1, <1>3, <1>4

(* The host takes bits from the report, or keeps those it has. *)
LEMMA BitsPollKeeps ==
  ASSUME IInv, BitsType, PollInterrupt
  PROVE  BitsType'
<1>. DEFINE packet == usb_in_int.fifo
            told == packet[1][1][2]
            signals == {field \in ToSet(packet) : field[1][1] = "rsar"}
            said(slot) == \E field \in signals : field[1][2] = slot
            saying(slot) == CHOOSE field \in signals : field[1][2] = slot
<1>1. /\ usb_in_int' = Idle /\ UNCHANGED todo
      /\ view' = [view EXCEPT ![told] =
                    [slot \in TimeslotIds |-> IF said(slot) THEN saying(slot)[2] ELSE @[slot]]]
  BY DEF PollInterrupt, firmware_vars
<1>2. ASSUME NEW slot, said(slot) PROVE saying(slot)[2] \in 0 .. 1
  <2>1. saying(slot) \in signals
    BY <1>2
  <2>2. saying(slot) \in ToSet(packet) /\ saying(slot)[1][1] = "rsar"
    BY <2>1
  <2> QED BY <2>2 DEF BitsType
<1>3. ToSet(usb_in_int'.fifo) = {}
  BY <1>1 DEF Idle, ToSet
<1>. HIDE DEF packet, told, said, saying, signals
<1>4. view' \in [ChannelIds -> [TimeslotIds -> 0 .. 1]]
  <2>1. view \in [ChannelIds -> [TimeslotIds -> 0 .. 1]]
    BY DEF BitsType
  <2>. DEFINE seen == [slot \in TimeslotIds |->
                         IF said(slot) THEN saying(slot)[2] ELSE view[told][slot]]
  <2>2. told \in ChannelIds => seen \in [TimeslotIds -> 0 .. 1]
    BY <1>2, <2>1
  <2>3. view' = [view EXCEPT ![told] = seen]
    BY <1>1
  <2>. HIDE DEF seen
  <2> QED BY <2>1, <2>2, <2>3
<1> QED BY <1>1, <1>3, <1>4 DEF BitsType

LEMMA BitsTypeNext == IInv /\ ReportInv /\ BitsType /\ [Next]_vars => BitsType'
<1> SUFFICES ASSUME IInv, ReportInv, BitsType, [Next]_vars PROVE BitsType'
  OBVIOUS
<1>1. CASE ReadRegister \/ ReadBisr \/ PollInterrupt
  BY <1>1, BitsReadRegisterKeeps, BitsReadBisrKeeps, BitsPollKeeps
<1>2. CASE Transmit
  <2>1. PICK fifo, primed : usb_in_int = [fifo |-> fifo, primed |-> primed]
    BY DEF IInv, EndpointInv
  <2>2. usb_in_int'.fifo = usb_in_int.fifo /\ UNCHANGED <<todo, view>>
    BY <1>2, <2>1 DEF Transmit, transmit
  <2> QED BY <2>2 DEF BitsType
<1>3. CASE UNCHANGED <<todo, view, usb_in_int>>
  BY <1>3 DEF BitsType
<1>4. CheckCommand \/ CheckIdle \/ SendCommand \/ ReceiveResponse \/ GiveUp \/ UNCHANGED vars
        => UNCHANGED <<todo, view, usb_in_int>>
  BY DEF CheckCommand, CheckIdle, SendCommand, ReceiveResponse, GiveUp, vars, firmware_vars,
         report_vars
<1>5. ASSUME NEW channel \in ChannelIds,
             \/ \E register \in AllStatusRegisters : Interrupt(channel, register)
             \/ \E slot \in TimeslotIds : SignalingChange(channel, slot)
             \/ \E i \in ControllerIds : MessageReceived(channel, i)
      PROVE  UNCHANGED <<todo, view, usb_in_int>>
  BY <1>5 DEF Interrupt, SignalingChange, MessageReceived, firmware_vars
<1> QED BY <1>1, <1>2, <1>3, <1>4, <1>5 DEF Next, FirmwareStep

(* The values of all variables are those they should be: a status register   *)
(* has the causes it can have, what the host writes to a register is a      *)
(* number, also of a packet that is no command of its own, and what it takes *)
(* for signaling bits are bits.                                             *)
THEOREM TypeCorrect == Spec => []TypeOK
<1>1. Init => CausesType /\ BitsType
  BY DEF Init, CausesType, BitsType, NoSignaling, Idle, ToSet
<1>2. IInv /\ ReportInv /\ CausesType /\ CommandType /\ BitsType => TypeOK
  <2> SUFFICES ASSUME IInv, ReportInv, CausesType, CommandType, BitsType PROVE TypeOK
    OBVIOUS
  <2>1. \A channel \in ChannelIds :
          /\ \A register \in AllStatusRegisters :
               status[channel][register] \subseteq Causes(register)
          /\ unreported[channel] \subseteq AllStatusRegisters \X {"SIG", "OTHER", "RxEOT"}
    BY DEF CausesType, IInv, StatusType
  <2>2. /\ message \in [ChannelIds -> [ControllerIds -> 0 .. MaxMessage]]
        /\ signaling \in [ChannelIds -> [TimeslotIds -> 0 .. 1]]
        /\ view \in [ChannelIds -> [TimeslotIds -> 0 .. 1]]
    BY DEF ReportInv, TodoInv, SignalingType, BitsType
  <2>3. pc \in {"command", "idle", "bisr", "report", "transmit"} /\ channel_index \in ChannelIds
    BY DEF IInv, EndpointInv, StatusType
  <2>4. usb_in_int.primed \in BOOLEAN
    BY DEF IInv, EndpointInv
  <2>5. usb_in.primed \in BOOLEAN /\ usb_out.enable \in BOOLEAN
    BY DEF CommandType
  <2>6. registers \in [Addresses -> Nat] /\ written \in [Addresses -> Nat]
    BY DEF CommandType
  <2> QED BY <2>1, <2>2, <2>3, <2>4, <2>5, <2>6 DEF TypeOK
<1> QED BY <1>1, <1>2, InvInit, InvNext, ReportInit, ReportNext, CausesTypeNext,
           CommandTypeInit, CommandTypeNext, BitsTypeNext, PTL DEF Spec
=============================================================================
