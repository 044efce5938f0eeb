---------------------------- MODULE HostPump ----------------------------
(***************************************************************************)
(* The audio pump of the host: pump_loopback keeps Transfers isochronous    *)
(* transfers of Packets packets under way in each direction.  One thread    *)
(* runs their callbacks.  handle_in takes the frames out of a transfer,     *)
(* processes them and puts them in a ring; handle_out fills a transfer from *)
(* that ring, at most two frames a packet, and drops a frame when the       *)
(* device reports a full transmit FIFO.                                     *)
(*                                                                         *)
(* It is a loop: the frames come from the device, and go back to it at the  *)
(* rate they came, so whatever is in the FIFO too much stays there but for  *)
(* the dropping.  The device is external here (RxStream, TxStream): FIFO    *)
(* levels and one packet in a microframe each way.  Frames are counted, not *)
(* told apart.                                                             *)
(***************************************************************************)
EXTENDS Naturals, Sequences

CONSTANTS
  Packets,     \* PACKETS_PER_TRANSFER: 8
  Transfers,   \* TRANSFERS_COUNT: 8
  Ring,        \* AUDIO_RINGBUFFER_FRAMES: 40
  DrawDown,    \* the level handle_out draws the FIFO down to: 12
  RxFrames,    \* the most fifo_rx_level shows: 6
  TxFrames,    \* the most fifo_tx_level shows: 30
  Slips,       \* whether the frames' clock slips against the bus's
  MaxDisturbances   \* bound: microframes that do not go as they should

ASSUME PumpAssumption ==
  /\ Packets \in Nat /\ Packets >= 1 /\ Transfers \in Nat /\ Transfers >= 1
  /\ Ring \in Nat /\ Slips \in BOOLEAN
  /\ DrawDown \in Nat /\ RxFrames \in Nat /\ TxFrames \in Nat
  /\ MaxDisturbances \in Nat

VARIABLES
  fifo_rx_level, fifo_tx_level,   \* device: frames waiting in its FIFOs
  transfers_in,  \* IN transfers submitted
  packet_in,     \* the one under way: its packets done, frames and least level
  transfers_out, \* OUT transfers submitted: frames of each packet
  packet_out,    \* the one under way: its packets done
  completed,     \* transfers whose callback has not run
  processed_frames,     \* frames in the ring
  tx_fifo_level_min,    \* of the last IN transfer, NoLevel if it had no packet
  panicked,      \* the callback has panicked
  disturbances,  \* microframes so far that were disturbed
  starved,       \* in the last microframe the framer side found no frame
  ran_dry        \* history: at some time no OUT transfer was submitted

device_vars == <<fifo_rx_level, fifo_tx_level, starved>>
bus_vars == <<transfers_in, packet_in, transfers_out, packet_out>>
host_vars == <<processed_frames, tx_fifo_level_min, panicked>>
pump_vars == <<device_vars, bus_vars, completed, host_vars, disturbances, ran_dry>>

PacketIds == 1 .. Packets
NoLevel == 255   \* u8::MAX
AtMost(n, limit) == IF n > limit THEN limit ELSE n
Less(n, m) == IF n > m THEN n - m ELSE 0
NoPackets == [done |-> 0, frames |-> 0, level |-> NoLevel]
Unfilled == [packet \in PacketIds |-> 2]   \* 512 bytes: two frames and a rest

(* Either stream may start in the middle of a transfer of the other. *)
PumpInit ==
  /\ fifo_rx_level = 0 /\ fifo_tx_level = 0 /\ starved = FALSE
  /\ transfers_in = Transfers /\ packet_in = NoPackets
  /\ transfers_out = [i \in 1 .. Transfers |-> Unfilled] /\ packet_out \in 0 .. Packets - 1
  /\ completed = << >>
  /\ processed_frames = 0 /\ tx_fifo_level_min = NoLevel /\ panicked = FALSE
  /\ disturbances = 0 /\ ran_dry = FALSE

-----------------------------------------------------------------------------
(* A microframe: the framers bring a frame and take one (or none, or two:    *)
(* the clocks are apart by up to a frame), and the bus moves a packet of the *)
(* transfers under way.                                                     *)
RxPacket == IF transfers_in > 0 THEN AtMost(fifo_rx_level, 2) ELSE 0
TxPacket == IF transfers_out # << >> THEN transfers_out[1][packet_out + 1] ELSE 0

Frames(frames) ==
  /\ fifo_rx_level' = AtMost(Less(fifo_rx_level, RxPacket) + frames, RxFrames)
  /\ \/ /\ fifo_tx_level' = Less(AtMost(fifo_tx_level + TxPacket, TxFrames), frames)
        /\ starved' = (fifo_tx_level + TxPacket < frames)
     \/ /\ fifo_tx_level' = AtMost(Less(fifo_tx_level, frames) + TxPacket, TxFrames)
        /\ starved' = (fifo_tx_level < frames)

(* The IN packet, unless it is lost: its report tells the level of the FIFO. *)
PacketIn(packet_lost) ==
  [done   |-> packet_in.done + 1,
   frames |-> packet_in.frames + (IF packet_lost THEN 0 ELSE RxPacket),
   level  |-> IF packet_lost THEN packet_in.level ELSE AtMost(packet_in.level, fifo_tx_level)]

InCompletes  == transfers_in > 0 /\ packet_in.done + 1 = Packets
OutCompletes == transfers_out # << >> /\ packet_out + 1 = Packets

(* A callback that has not run since the last microframe, a lost packet, a   *)
(* slip of the frames' clock against the bus's.                             *)
Disturbed(frames, packet_lost) == completed # << >> \/ packet_lost \/ frames # 1

Microframe(frames, packet_lost) ==
  /\ disturbances' = disturbances + (IF Disturbed(frames, packet_lost) THEN 1 ELSE 0)
  /\ disturbances' <= MaxDisturbances
  /\ frames # 1 => Slips
  /\ Frames(frames)
  /\ transfers_in' = IF InCompletes THEN transfers_in - 1 ELSE transfers_in
  /\ packet_in' = IF transfers_in = 0 \/ InCompletes THEN NoPackets ELSE PacketIn(packet_lost)
  /\ transfers_out' = IF OutCompletes THEN Tail(transfers_out) ELSE transfers_out
  /\ packet_out' = IF transfers_out = << >> \/ OutCompletes THEN 0 ELSE packet_out + 1
  /\ LET in  == IF InCompletes THEN <<[handler |-> "in", packets |-> PacketIn(packet_lost)]>>
                ELSE << >>
         out == IF OutCompletes THEN <<[handler |-> "out", packets |-> NoPackets]>> ELSE << >>
     IN  completed' \in {completed \o in \o out, completed \o out \o in}
  /\ ran_dry' = (ran_dry \/ transfers_out' = << >>)
  /\ UNCHANGED host_vars

-----------------------------------------------------------------------------
(* The callbacks, in the order the transfers were completed.  An IN transfer *)
(* is submitted again before its frames are moved; a push into a full ring   *)
(* panics, and the poisoned lock ends every callback after it.               *)
handle_in ==
  /\ transfers_in' = transfers_in + 1
  /\ tx_fifo_level_min' = Head(completed).packets.level
  /\ processed_frames' = AtMost(processed_frames + Head(completed).packets.frames, Ring)
  /\ panicked' = (processed_frames + Head(completed).packets.frames > Ring)
  /\ UNCHANGED <<packet_in, transfers_out, packet_out>>

(* Faults: the FIFO is never drawn down; it is whatever its level.           *)
draws_down_never == FALSE
draws_down_always == tx_fifo_level_min # NoLevel
draws_down == tx_fifo_level_min # NoLevel /\ tx_fifo_level_min > DrawDown

(* Each packet takes two frames from the ring, as long as there are any.     *)
filled(available) == [packet \in PacketIds |-> AtMost(Less(available, 2 * (packet - 1)), 2)]
left_peeked(available) == available   \* fault: the frames are read and not taken
left(available) == Less(available, 2 * Packets)

handle_out ==
  LET available == IF draws_down THEN Less(processed_frames, 1) ELSE processed_frames
  IN  /\ transfers_out' = Append(transfers_out, filled(available))
      /\ processed_frames' = left(available)
      /\ UNCHANGED <<tx_fifo_level_min, panicked, transfers_in, packet_in, packet_out>>

Callback ==
  /\ completed # << >> /\ ~panicked
  /\ IF Head(completed).handler = "out" THEN handle_out ELSE handle_in
  /\ completed' = Tail(completed)
  /\ UNCHANGED <<device_vars, disturbances, ran_dry>>

PumpNext == Callback \/ \E frames \in 0 .. 2, packet_lost \in BOOLEAN : Microframe(frames, packet_lost)

PumpSpec == PumpInit /\ [][PumpNext]_pump_vars

(* The callback thread has real-time priority and waits only for its lock;   *)
(* the microframes are a clock's.                                           *)
PumpFairSpec ==
  /\ PumpSpec
  /\ WF_pump_vars(Callback)
  /\ WF_pump_vars(\E frames \in 0 .. 2, packet_lost \in BOOLEAN : Microframe(frames, packet_lost))

-----------------------------------------------------------------------------
(* Each variable has its type: no transfer is under way twice, the ring       *)
(* never holds less than nothing.                                           *)
PumpTypeOK ==
  /\ fifo_rx_level \in 0 .. RxFrames /\ fifo_tx_level \in 0 .. TxFrames
  /\ starved \in BOOLEAN /\ panicked \in BOOLEAN /\ ran_dry \in BOOLEAN
  /\ disturbances \in 0 .. MaxDisturbances
  /\ transfers_in \in 0 .. Transfers /\ packet_out \in 0 .. Packets - 1
  /\ packet_in \in [done : 0 .. Packets - 1, frames : 0 .. 2 * Packets,
                    level : 0 .. TxFrames \cup {NoLevel}]
  /\ transfers_out \in Seq([PacketIds -> 0 .. 2]) /\ Len(transfers_out) <= Transfers
  /\ transfers_in + Len(transfers_out) + Len(completed) <= 2 * Transfers
  /\ processed_frames \in 0 .. Ring
  /\ tx_fifo_level_min \in 0 .. TxFrames \cup {NoLevel}

(* handle_in unwraps its push into the ring of processed frames, so it        *)
(* asserts that the ring is never full.                                     *)
NeverPanics == ~panicked

(* It is full only after the bus has run out of OUT transfers: until then a   *)
(* ring of two transfers of two frames a packet (32 of                       *)
(* AUDIO_RINGBUFFER_FRAMES, 40) takes whatever comes, however late the        *)
(* callbacks run, in whichever order two transfers of one microframe are      *)
(* completed, and whether or not the bus runs out of IN transfers.            *)
PanicsOnlyWhenDry == Ring >= 4 * Packets /\ panicked => ran_dry

(* The transfers submitted at the start fill the FIFO, and a slip of the      *)
(* clocks or a late callback leaves frames behind in the loop; once these     *)
(* disturbances end, handle_out has drawn the FIFO down.  It compares the      *)
(* least level of an IN transfer.  From there the FIFO still rises: by half a *)
(* transfer, whose frames are in its first packets, and by a whole one when   *)
(* two transfers' frames are in an OUT transfer and none in the next, which   *)
(* is what the order of two completions in one microframe may come to.        *)
LevelSwing == Packets + Packets \div 2
DrawsDown == <>[](fifo_tx_level <= DrawDown + LevelSwing)

(* It does not overshoot: it drops a frame in each OUT transfer by a level    *)
(* measured before the transfers still under way were filled, and yet the     *)
(* framers end up finding a frame whenever they want one.                   *)
KeepsPace == <>[]~starved
=============================================================================
