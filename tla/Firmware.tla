----------------------------- MODULE Firmware -----------------------------
(***************************************************************************)
(* The main loop of the microcontroller (tedium-soc), the three endpoint    *)
(* FIFOs it drives, the framer's registers and the host at the other end.   *)
(*                                                                         *)
(* The loop goes round the channels.  Before each it waits until the        *)
(* interrupt endpoint is idle, and answers register commands of the host    *)
(* while it waits.  Then it reads the channel's interrupt status, which the *)
(* framer clears as it is read, and sends it as one packet.                 *)
(*                                                                         *)
(* The framer (XRT86VX38) and LUNA's endpoint FIFOs are external: a status  *)
(* register holds the causes latched since it was last read; an endpoint is *)
(* idle until transmit primes it, and sends everything in its FIFO as one   *)
(* packet when the host next polls it.  The firmware is one thread, the     *)
(* framer and the host act between any two of its register accesses.        *)
(***************************************************************************)
EXTENDS Naturals, Sequences, SequencesExt

CONSTANTS
  Channels,          \* number of channels: 8
  Controllers,       \* HDLC controllers of a channel: 3
  Timeslots,         \* signaling registers read of a channel: 24
  MaxMessage,        \* longest HDLC message: 96
  Blocks,            \* blocks whose interrupts happen
  Addresses, Values, \* registers the host reads and writes, and their values
  Malformed,         \* packets sent that are no command
  OutBytes           \* size of the OUT endpoint's FIFO

AllBlocks == {"LBCODE", "HDLC", "SLIP", "ALARM", "T1FRAME"}
ASSUME SizesAssumption ==
  /\ Channels \in Nat /\ Channels >= 1
  /\ Controllers \in Nat /\ Timeslots \in Nat /\ MaxMessage \in Nat
  /\ Blocks \subseteq AllBlocks
ASSUME CommandsAssumption ==
  /\ Addresses \subseteq Nat /\ Values \subseteq Nat
  /\ OutBytes \in Nat /\ OutBytes >= 4
  /\ \A packet \in Malformed : packet \in Seq(Nat)

VARIABLES
  status,        \* framer: causes latched in each status register
  message,       \* framer: length of the message an HDLC controller holds
  signaling,     \* framer: signaling bits of each timeslot
  registers,     \* framer: the registers commands read and write
  pc, channel_index, todo,                \* firmware
  usb_in_int, usb_out, usb_in,            \* endpoints
  request,       \* host: <<the packet it sent>> until answered, else <<>>
  written, got,  \* host: values it wrote; address and data of its last read
  unreported,    \* causes the host has not been told of
  view           \* host: signaling bits as last reported

framer_vars == <<status, message, signaling>>
command_vars == <<registers, usb_out, usb_in, request, written, got>>
report_vars == <<usb_in_int, unreported, view>>
firmware_vars == <<pc, channel_index, todo>>
vars == <<framer_vars, command_vars, report_vars, firmware_vars>>

ChannelIds == 0 .. Channels - 1
ControllerIds == 0 .. Controllers - 1
TimeslotIds == 0 .. Timeslots - 1

(* A register is <<name, index>>, a field of a packet <<register, value>>. *)
(* Fault: the message is read after the SS7 status.                          *)
HdlcNames_swapped == <<"dlsr", "ss7sr", "rdlbcr">>
HdlcNames == <<"dlsr", "rdlbcr", "ss7sr">>
Registers ==
  [LBCODE  |-> [i \in 1 .. 8 |-> <<"rlcisr", i - 1>>],
   HDLC    |-> [i \in 1 .. 3 * Controllers |->
                  <<HdlcNames[((i - 1) % 3) + 1], (i - 1) \div 3>>],
   SLIP    |-> <<<<"sbisr", 0>>>>,
   ALARM   |-> <<<<"aeisr", 0>>, <<"exzsr", 0>>, <<"ciasr", 0>>>>,
   T1FRAME |-> <<<<"fisr", 0>>>>]
StatusRegisters(block) ==
  {register \in ToSet(Registers[block]) : register[1] # "rdlbcr"}
AllStatusRegisters == UNION {StatusRegisters(block) : block \in Blocks}
Fisr == <<"fisr", 0>>
Causes(register) == IF register[1] = "fisr" THEN {"SIG", "OTHER"}
                    ELSE IF register[1] = "dlsr" THEN {"RxEOT"} ELSE {"OTHER"}
NoSignaling == [slot \in TimeslotIds |-> 0]
Idle == [fifo |-> <<>>, primed |-> FALSE]

Init ==
  /\ status = [channel \in ChannelIds |-> [register \in AllStatusRegisters |-> {}]]
  /\ message = [channel \in ChannelIds |-> [i \in ControllerIds |-> 0]]
  /\ signaling = [channel \in ChannelIds |-> NoSignaling]
  /\ registers \in [Addresses -> Values]
  /\ pc = "command" /\ channel_index = 0 /\ todo = <<>>
  /\ usb_in_int = Idle /\ usb_in = Idle
  /\ usb_out = [fifo |-> <<>>, enable |-> TRUE]
  /\ request = <<>> /\ written = registers /\ got = <<>>
  /\ unreported = [channel \in ChannelIds |-> {}]
  /\ view = signaling

-----------------------------------------------------------------------------
(* Commands *)
ReadCommand(address) == <<0, address % 256, address \div 256>>
WriteCommand(address, value) == <<1, address % 256, address \div 256, value>>
Commands == {ReadCommand(address) : address \in Addresses}
            \union {WriteCommand(address, value) : address \in Addresses, value \in Values}

(* Fault: the address bytes swapped. *)
address_swapped(fifo) == (fifo[2] * 256) + fifo[3]
address_of(fifo) == (fifo[3] * 256) + fifo[2]

(* What parse_host_request makes of the OUT FIFO, and the bytes it leaves. *)
parse_host_request(fifo) ==
  LET Left(n) == SubSeq(fifo, n + 1, Len(fifo))
  IN  IF fifo[1] = 0 /\ Len(fifo) >= 3
      THEN [command |-> "RegisterRead", address |-> address_of(fifo), rest |-> Left(3)]
      ELSE IF fifo[1] = 1 /\ Len(fifo) >= 4
      THEN [command |-> "RegisterWrite", address |-> address_of(fifo), value |-> fifo[4],
            rest |-> Left(4)]
      ELSE IF fifo[1] \in {0, 1} THEN [command |-> "ShortPacket", rest |-> <<>>]
      ELSE [command |-> "InvalidCommand", rest |-> Left(1)]

transmit(endpoint) == [endpoint EXCEPT !.primed = TRUE]
write_fifo(endpoint, v) == [endpoint EXCEPT !.fifo = Append(@, v)]

(* A register the host has no business with reads as anything. *)
Answer(parsed) ==
  \/ /\ parsed.command = "RegisterRead"
     /\ \E value \in IF parsed.address \in Addresses
                     THEN {registers[parsed.address]} ELSE Values :
          usb_in' = transmit(write_fifo(usb_in, value))
     /\ UNCHANGED registers
  \/ /\ parsed.command = "RegisterWrite"
     /\ registers' = IF parsed.address \in Addresses
                     THEN [registers EXCEPT ![parsed.address] = parsed.value] ELSE registers
     /\ usb_in' = transmit(usb_in)
  \/ /\ parsed.command \in {"ShortPacket", "InvalidCommand"}
     /\ UNCHANGED <<registers, usb_in>>

(* Fault: the endpoint is armed again only if it had bytes. *)
Rearmed_if_bytes(rest) == [fifo |-> rest, enable |-> usb_out.fifo # <<>>]
Rearmed(rest) == [fifo |-> rest, enable |-> TRUE]

(* First half of the inner loop: a packet has come in. *)
CheckCommand ==
  /\ pc = "command"
  /\ pc' = "idle"
  /\ IF usb_out.enable THEN UNCHANGED <<usb_out, usb_in, registers>>
     ELSE IF usb_out.fifo = <<>>
     THEN usb_out' = Rearmed(<<>>) /\ UNCHANGED <<usb_in, registers>>
     ELSE LET parsed == parse_host_request(usb_out.fifo)
          IN  Answer(parsed) /\ usb_out' = Rearmed(parsed.rest)
  /\ UNCHANGED <<channel_index, todo, request, written, got, framer_vars, report_vars>>

(* Faults: no wait for the interrupt endpoint; a wait that answers no command. *)
CheckIdle_no_wait ==
  /\ pc = "idle" /\ pc' = "bisr"
  /\ UNCHANGED <<channel_index, todo, framer_vars, command_vars, report_vars>>
CheckIdle_stays ==
  /\ pc = "idle" /\ ~usb_in_int.primed /\ pc' = "bisr"
  /\ UNCHANGED <<channel_index, todo, framer_vars, command_vars, report_vars>>
(* Second half: on with the channel once the interrupt endpoint is idle. *)
CheckIdle ==
  /\ pc = "idle"
  /\ pc' = IF usb_in_int.primed THEN "command" ELSE "bisr"
  /\ UNCHANGED <<channel_index, todo, framer_vars, command_vars, report_vars>>

-----------------------------------------------------------------------------
(* Interrupt reports *)
Raised(channel, block) ==
  \E register \in StatusRegisters(block) : status[channel][register] # {}
bisr(channel) == {block \in Blocks : Raised(channel, block)}

(* The registers read for a BISR value, and those a value read calls for.    *)
Part(blocks, block) == IF block \in blocks THEN Registers[block] ELSE <<>>
Layout(blocks) == Part(blocks, "LBCODE") \o Part(blocks, "HDLC") \o Part(blocks, "SLIP")
                  \o Part(blocks, "ALARM") \o Part(blocks, "T1FRAME")
(* Fault: the last signaling register is not read. *)
Calls_short(register, value) ==
  IF register[1] = "fisr" /\ "SIG" \in value
  THEN [k \in 1 .. Timeslots - 1 |-> <<"rsar", k - 1>>]
  ELSE <<>>
Calls(register, value) ==
  IF register[1] = "rdlbcr" THEN [k \in 1 .. value |-> <<"lapdbcr", register[2]>>]
  ELSE IF register[1] = "fisr" /\ "SIG" \in value
  THEN [k \in 1 .. Timeslots |-> <<"rsar", k - 1>>]
  ELSE <<>>

ReadBisr ==
  /\ pc = "bisr"
  /\ LET blocks == bisr(channel_index)
     IN  IF blocks = {}
         THEN pc' = "transmit" /\ todo' = <<>> /\ UNCHANGED usb_in_int
         ELSE /\ pc' = "report" /\ todo' = Layout(blocks)
              /\ usb_in_int' = write_fifo(usb_in_int, <<<<"header", channel_index>>, blocks>>)
  /\ UNCHANGED <<channel_index, framer_vars, command_vars, unreported, view>>

RegisterValue(register) ==
  IF register[1] = "rdlbcr" THEN message[channel_index][register[2]]
  ELSE IF register[1] = "lapdbcr" THEN 0
  ELSE IF register[1] = "rsar" THEN signaling[channel_index][register[2]]
  ELSE status[channel_index][register]

(* One register is read, which clears it, and written to the FIFO. *)
ReadRegister ==
  /\ pc = "report" /\ todo # <<>>
  /\ LET register == Head(todo)
         value == RegisterValue(register)
     IN  /\ usb_in_int' = write_fifo(usb_in_int, <<register, value>>)
         /\ todo' = Calls(register, value) \o Tail(todo)
         /\ status' = IF register \in AllStatusRegisters
                      THEN [status EXCEPT ![channel_index][register] = {}] ELSE status
         /\ message' = IF register[1] = "rdlbcr"
                       THEN [message EXCEPT ![channel_index][register[2]] = 0] ELSE message
  /\ UNCHANGED <<pc, channel_index, signaling, command_vars, unreported, view>>

(* Fault: a busy channel is served again at once. *)
next_channel_busy ==
  IF bisr(channel_index) # {} THEN channel_index ELSE (channel_index + 1) % Channels
next_channel == (channel_index + 1) % Channels

Transmit ==
  /\ pc = "transmit" \/ (pc = "report" /\ todo = <<>>)
  /\ usb_in_int' = IF usb_in_int.fifo # <<>> THEN transmit(usb_in_int) ELSE usb_in_int
  /\ channel_index' = next_channel
  /\ pc' = "command"
  /\ UNCHANGED <<todo, framer_vars, command_vars, unreported, view>>

FirmwareStep == CheckCommand \/ CheckIdle \/ ReadBisr \/ ReadRegister \/ Transmit

-----------------------------------------------------------------------------
(* The framer *)
Latch(channel, register, cause) ==
  /\ status' = [status EXCEPT ![channel][register] = @ \union {cause}]
  /\ unreported' = [unreported EXCEPT ![channel] = @ \union {<<register, cause>>}]

Interrupt(channel, register) ==
  /\ register[1] # "dlsr"
  /\ Latch(channel, register, "OTHER")
  /\ UNCHANGED <<message, signaling, command_vars, firmware_vars, usb_in_int, view>>

SignalingChange(channel, slot) ==
  /\ Fisr \in AllStatusRegisters
  /\ signaling' = [signaling EXCEPT ![channel][slot] = 1 - @]
  /\ Latch(channel, Fisr, "SIG")
  /\ UNCHANGED <<message, command_vars, firmware_vars, usb_in_int, view>>

MessageReceived(channel, i) ==
  /\ <<"dlsr", i>> \in AllStatusRegisters /\ message[channel][i] = 0
  /\ \E length \in 1 .. MaxMessage : message' = [message EXCEPT ![channel][i] = length]
  /\ Latch(channel, <<"dlsr", i>>, "RxEOT")
  /\ UNCHANGED <<signaling, command_vars, firmware_vars, usb_in_int, view>>

-----------------------------------------------------------------------------
(* The host: one command at a time, its answer waited for. *)
SendCommand ==
  /\ request = <<>> /\ usb_out.enable
  /\ \E packet \in Commands \union Malformed :
       /\ Len(usb_out.fifo) + Len(packet) <= OutBytes
       /\ request' = <<packet>>
       /\ usb_out' = [fifo |-> usb_out.fifo \o packet, enable |-> FALSE]
  /\ got' = <<>>
  /\ UNCHANGED <<registers, usb_in, written, framer_vars, firmware_vars, report_vars>>

ReceiveResponse ==
  /\ request # <<>> /\ usb_in.primed
  /\ usb_in' = Idle
  /\ LET packet == request[1]
         address == (packet[3] * 256) + packet[2]
     IN  /\ got' = IF packet \in Commands /\ packet[1] = 0
                   THEN <<address, usb_in.fifo>> ELSE <<>>
         /\ written' = IF packet \in Commands /\ packet[1] = 1
                       THEN [written EXCEPT ![address] = packet[4]] ELSE written
  /\ request' = <<>>
  /\ UNCHANGED <<registers, usb_out, framer_vars, firmware_vars, report_vars>>

(* The host's timeout, a second, is longer than the firmware takes: it gives *)
(* up on what gets no answer, a packet that is no command.                  *)
GiveUp ==
  /\ Malformed # {} /\ request # <<>> /\ usb_out.enable /\ ~usb_in.primed
  /\ request' = <<>>
  /\ UNCHANGED <<registers, usb_out, usb_in, written, got, framer_vars, firmware_vars,
                 report_vars>>

Tells(packet, x) == \E i \in DOMAIN packet :
                      packet[i][1] = x[1] /\ x[2] \in packet[i][2]
PollInterrupt ==
  /\ usb_in_int.primed
  /\ usb_in_int' = Idle
  /\ LET packet == usb_in_int.fifo
         channel == packet[1][1][2]
         signals == {field \in ToSet(packet) : field[1][1] = "rsar"}
     IN  /\ unreported' =
              [unreported EXCEPT ![channel] =
                 {x \in @ : x[2] \in status[channel][x[1]] \/ ~Tells(packet, x)}]
         /\ view' = [view EXCEPT ![channel] =
                       [slot \in TimeslotIds |->
                          IF \E field \in signals : field[1][2] = slot
                          THEN (CHOOSE field \in signals : field[1][2] = slot)[2]
                          ELSE @[slot]]]
  /\ UNCHANGED <<framer_vars, command_vars, firmware_vars>>

Next ==
  \/ FirmwareStep
  \/ \E channel \in ChannelIds :
       \/ \E register \in AllStatusRegisters : Interrupt(channel, register)
       \/ \E slot \in TimeslotIds : SignalingChange(channel, slot)
       \/ \E i \in ControllerIds : MessageReceived(channel, i)
  \/ SendCommand \/ ReceiveResponse \/ GiveUp \/ PollInterrupt

Spec == Init /\ [][Next]_vars
(* The firmware runs on; the host reads the answers, the polled endpoint or  *)
(* both.                                                                    *)
CommandSpec == Spec /\ WF_vars(FirmwareStep) /\ WF_vars(ReceiveResponse)
ReportSpec == Spec /\ WF_vars(FirmwareStep) /\ WF_vars(PollInterrupt)

-----------------------------------------------------------------------------
TypeOK ==
  /\ \A channel \in ChannelIds :
       /\ \A register \in AllStatusRegisters :
            status[channel][register] \subseteq Causes(register)
       /\ unreported[channel] \subseteq AllStatusRegisters \X {"SIG", "OTHER", "RxEOT"}
  /\ message \in [ChannelIds -> [ControllerIds -> 0 .. MaxMessage]]
  /\ signaling \in [ChannelIds -> [TimeslotIds -> 0 .. 1]]
  /\ view \in [ChannelIds -> [TimeslotIds -> 0 .. 1]]
  /\ pc \in {"command", "idle", "bisr", "report", "transmit"}
  /\ channel_index \in ChannelIds
  /\ registers \in [Addresses -> Nat] /\ written \in [Addresses -> Nat]
  /\ usb_in_int.primed \in BOOLEAN /\ usb_in.primed \in BOOLEAN /\ usb_out.enable \in BOOLEAN

(* Reading a status clears it in the framer, so what was read must get to   *)
(* the host: a cause is latched, or in the packet being built or waiting,    *)
(* until the host is told of it.                                            *)
NoneLost ==
  \A channel \in ChannelIds : \A x \in unreported[channel] :
    \/ x[2] \in status[channel][x[1]]
    \/ /\ usb_in_int.fifo # <<>> /\ usb_in_int.fifo[1][1] = <<"header", channel>>
       /\ Tells(usb_in_int.fifo, x)

(* The host's signaling bits are the framer's once no change is latched and  *)
(* no report of the channel is on its way, though the bits may change while  *)
(* the firmware reads them.                                                 *)
ViewCatchesUp ==
  \A channel \in ChannelIds :
    \/ Fisr \notin AllStatusRegisters
    \/ "SIG" \in status[channel][Fisr]
    \/ usb_in_int.fifo # <<>> /\ usb_in_int.fifo[1][1] = <<"header", channel>>
    \/ view[channel] = signaling[channel]

(* The host's side of a report: interrupt.rs has only values, and takes them  *)
(* for the registers it expects, block by block.                            *)
LoopbackCodeStatus == [i \in 1 .. 8 |-> <<"rlcisr", i - 1>>]
HDLCControllerStatus(i) == <<<<"dlsr", i>>, <<"rdlbcr", i>>, <<"ss7sr", i>>>>
HDLCStatus == [i \in 1 .. 3 * Controllers |->
                 HDLCControllerStatus((i - 1) \div 3)[((i - 1) % 3) + 1]]
SlipStatus == <<<<"sbisr", 0>>>>
AlarmStatus == <<<<"aeisr", 0>>, <<"exzsr", 0>>, <<"ciasr", 0>>>>
T1FrameStatus == <<<<"fisr", 0>>>>
ReceiveSignalingStatus == [i \in 1 .. Timeslots |-> <<"rsar", i - 1>>]

FramerInterruptStatus(blocks) ==
  LET Some(block, expected) == IF block \in blocks THEN expected ELSE <<>>
  IN  Some("LBCODE", LoopbackCodeStatus) \o Some("HDLC", HDLCStatus) \o Some("SLIP", SlipStatus)
      \o Some("ALARM", AlarmStatus) \o Some("T1FRAME", T1FrameStatus)

(* A length is followed by that many bytes, a frame status by the signaling   *)
(* bits if it shows that they changed.                                      *)
from_read(field, todo_) ==
  LET name  == field[1][1]
      value == field[2]
  IN  (IF name = "rdlbcr" THEN [i \in 1 .. value |-> <<"lapdbcr", field[1][2]>>]
       ELSE IF name = "fisr" /\ "SIG" \in value THEN ReceiveSignalingStatus
       ELSE <<>>) \o todo_

DecodeStep(Next_(_, _), decoding, field) ==
  IF ~decoding.ok \/ decoding.todo = <<>> \/ Head(decoding.todo) # field[1]
  THEN [todo |-> <<>>, ok |-> FALSE]
  ELSE [todo |-> Next_(field, Tail(decoding.todo)), ok |-> TRUE]
Decodes(packet, Next_(_, _)) ==
  LET decoding[i \in 1 .. Len(packet)] ==
        IF i = 1 THEN [todo |-> FramerInterruptStatus(packet[1][2]), ok |-> TRUE]
        ELSE DecodeStep(Next_, decoding[i - 1], packet[i])
      end == decoding[Len(packet)]
  IN  end.ok /\ end.todo = <<>>

(* interrupt.rs and the firmware agree, for whatever blocks and values a     *)
(* report has: each value is taken for the register it was read from, and    *)
(* the assertion that no byte is left over holds: a packet is one report,    *)
(* never two run together.                                                  *)
PacketDecodes == usb_in_int.primed => Decodes(usb_in_int.fifo, from_read)

(* The test tool reads no length and no message of an HDLC controller whose   *)
(* DLSR is zero, but it reads its SS7 status: it takes the length for it, and *)
(* every byte from there on for the one before.                             *)
test_tool_read(field, todo_) ==
  IF field[1][1] = "dlsr" /\ field[2] = {} THEN SubSeq(todo_, 2, Len(todo_))
  ELSE from_read(field, todo_)
TestToolDecodes == usb_in_int.primed => Decodes(usb_in_int.fifo, test_tool_read)

(* No byte of a packet that is no command stays in the OUT FIFO, where it    *)
(* would be taken for the start of the next command.                        *)
LeavesNoResidue ==
  \A packet \in Malformed \ {<<>>} :
    LET parsed == parse_host_request(packet)
    IN  parsed.command \in {"ShortPacket", "InvalidCommand"} /\ parsed.rest = <<>>

(* A register reads as the host last wrote it: answers go with their         *)
(* commands, and reports leave the command endpoint alone.                  *)
ReadsOwnWrites == got # <<>> => got[2] = <<written[got[1]]>>

(* Every command is answered, even if the host never polls the interrupt    *)
(* endpoint: "Checking USB OUT needs to come first in this loop, otherwise   *)
(* it gets starved by the very frequent USB INs".                           *)
CommandAnswered ==
  (request # <<>> /\ request[1] \in Commands) ~> (request = <<>> \/ request[1] \notin Commands)

(* Whatever the host sends, the OUT endpoint is armed again. *)
CommandsAccepted == []<>(usb_out.enable)

(* With the host polling, every latched status is read, however busy the    *)
(* other channels and the command endpoint are.                             *)
EveryChannelServed ==
  \A channel \in ChannelIds : \A register \in AllStatusRegisters :
    status[channel][register] # {} ~> status[channel][register] = {}
=============================================================================
