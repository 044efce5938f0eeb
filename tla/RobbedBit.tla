---------------------------- MODULE RobbedBit ----------------------------
(***************************************************************************)
(* Robbed-bit signaling on the host.  The line sends one value of Bits bits *)
(* in a superframe, a bit in the last frame of every FramesPerBit.  The     *)
(* signaling thread puts the bits together from the frames it is given      *)
(* (RobbedBitFrame), debounces the values (RobbedBitDebouncer) and sends    *)
(* changes to the monitor, which keeps the state of the line.               *)
(*                                                                         *)
(* Frames are lost on the way: a packet with an error, a full FIFO or ring. *)
(* A frame that arrives has its number and the framer's mark of the start   *)
(* of a superframe (mf), so what was lost must be told from these.  The     *)
(* timeslots are handled alike and apart: one stands for all.  The framer   *)
(* is in multiframe synchronization.                                       *)
(***************************************************************************)
EXTENDS Naturals, Sequences

CONSTANTS
  Bits,          \* bits of a value: 4
  FramesPerBit,  \* 6
  CountMod,      \* frame_count wraps at this: 2^32
  InitialValue,  \* 0b0101
  MaxEvents      \* bound: events the monitor is behind

SuperframeLength == Bits * FramesPerBit
SignalingValues == [1 .. Bits -> {0, 1}]
ASSUME SuperframeAssumption ==
  /\ Bits \in Nat /\ Bits >= 1
  /\ FramesPerBit \in Nat /\ FramesPerBit >= 2
  /\ CountMod \in Nat /\ CountMod >= 3 * SuperframeLength
  /\ InitialValue \in SignalingValues
  /\ MaxEvents \in Nat /\ MaxEvents >= 1

VARIABLES
  frame_count,   \* number of the frame on the line
  position,      \* its place in the superframe
  sent,          \* the value the line sends in this superframe
  state,         \* debouncer: the value last told
  accumulator,   \* debouncer: the superframe being put together
  history,       \* debouncer: the last one that was complete
  events,        \* to the monitor: <<frame_count, value>>
  line_state,    \* monitor: the value, LineStateRobbedBitState::abcd
  lost           \* no frame was heard since the last one lost

line_vars == <<frame_count, position, sent>>
debouncer_vars == <<state, accumulator, history>>
vars == <<line_vars, debouncer_vars, events, line_state, lost>>

Counts == 0 .. CountMod - 1
Plus(count, n) == (count + n) % CountMod
wrapping_sub(a, b) == IF a >= b THEN a - b ELSE (a + CountMod) - b

(* A RobbedBitFrame: the bits shifted in, the number of the superframe's     *)
(* first frame, and which of the bits were collected.                       *)
from_timestamp(count) ==
  [timeslot |-> << >>, superframe_frame_count |-> count, bits_collected |-> {}]
Default ==
  [timeslot |-> InitialValue, superframe_frame_count |-> 0, bits_collected |-> {}]

(* The host is started at any time, but not in the superframe in which       *)
(* frame_count wraps: Default takes that for one it heard the start of.     *)
Init ==
  /\ frame_count \in SuperframeLength .. CountMod - SuperframeLength
  /\ position \in 0 .. SuperframeLength - 1
  /\ sent \in SignalingValues
  /\ state = InitialValue /\ accumulator = Default /\ history = Default
  /\ events = << >> /\ line_state = InitialValue
  /\ lost = FALSE

-----------------------------------------------------------------------------
(* The line goes on to the next frame. *)
Advance ==
  /\ frame_count' = Plus(frame_count, 1)
  /\ IF position = SuperframeLength - 1
     THEN position' = 0 /\ sent' \in SignalingValues
     ELSE position' = position + 1 /\ sent' = sent

mf == position = 0
(* The low bit of the timeslot: a robbed one, or one of a voice sample. *)
LowBits == IF position % FramesPerBit = FramesPerBit - 1
           THEN {sent[(position \div FramesPerBit) + 1]} ELSE {0, 1}

-----------------------------------------------------------------------------
new_frame == IF mf THEN from_timestamp(frame_count) ELSE accumulator

(* Fault: the bits seen are not looked at. *)
valid_at_last(frame) ==
  wrapping_sub(frame_count, frame.superframe_frame_count) = SuperframeLength - 1

(* This frame carries a bit of the superframe being put together. *)
collects(frame) ==
  LET frame_in_superframe == wrapping_sub(frame_count, frame.superframe_frame_count)
  IN  /\ frame_in_superframe < SuperframeLength
      /\ frame_in_superframe % FramesPerBit = FramesPerBit - 1

collected(frame, bit) ==
  IF collects(frame)
  THEN [frame EXCEPT
          !.bits_collected = @ \union {wrapping_sub(frame_count, frame.superframe_frame_count)
                                         \div FramesPerBit},
          !.timeslot = Append(@, bit)]
  ELSE frame

(* The superframe ends with this frame, and all its bits were seen. *)
valid(frame) ==
  /\ wrapping_sub(frame_count, frame.superframe_frame_count) = SuperframeLength - 1
  /\ frame.bits_collected = 0 .. Bits - 1

changes_once(frame) == valid(frame) /\ frame.timeslot # state   \* fault: no debouncing
changes(frame) ==
  valid(frame) /\ frame.timeslot = history.timeslot /\ frame.timeslot # state

next_history(frame) == IF valid(frame) THEN frame ELSE history

(* A frame arrives. *)
Hear ==
  /\ Len(events) < MaxEvents
  /\ \E bit \in LowBits :
       LET frame == collected(new_frame, bit)
       IN  /\ accumulator' = frame
           /\ history' = next_history(frame)
           /\ IF changes(frame)
              THEN /\ state' = frame.timeslot
                   /\ events' = Append(events, <<history.superframe_frame_count, frame.timeslot>>)
              ELSE UNCHANGED <<state, events>>
  /\ lost' = FALSE
  /\ Advance /\ UNCHANGED line_state

(* A frame does not.  Bound: not the start of every superframe for as long   *)
(* as frame_count takes to wrap, six days.                                  *)
Lose ==
  /\ mf => wrapping_sub(frame_count, accumulator.superframe_frame_count) + SuperframeLength
             < CountMod
  /\ lost' = TRUE
  /\ Advance /\ UNCHANGED <<debouncer_vars, events, line_state>>

(* The monitor takes an event. *)
set_state_inverted(event) ==   \* fault: the comparison is the wrong way round
  IF event[2] = line_state THEN event[2] ELSE line_state
set_state(event) ==
  IF event[2] # line_state THEN event[2] ELSE line_state

Monitor ==
  /\ events # << >>
  /\ line_state' = set_state(Head(events)) /\ events' = Tail(events)
  /\ UNCHANGED <<line_vars, debouncer_vars, lost>>

Next == Hear \/ Lose \/ Monitor

Spec == Init /\ [][Next]_vars
(* The line goes on, frames that are not lost arrive, the monitor runs. *)
FairSpec == Spec /\ WF_vars(Hear \/ Lose) /\ WF_vars(Monitor)

-----------------------------------------------------------------------------
TypeOK ==
  /\ frame_count \in Counts /\ position \in 0 .. SuperframeLength - 1
  /\ sent \in SignalingValues /\ state \in SignalingValues
  /\ \A frame \in {accumulator, history} :
       /\ frame.superframe_frame_count \in Counts
       /\ frame.bits_collected \subseteq 0 .. Bits - 1
  /\ history.timeslot \in SignalingValues
  /\ events \in Seq(Counts \X SignalingValues)
  /\ line_state \in SignalingValues
  /\ lost \in BOOLEAN

(* Whichever frames are lost, the start of a superframe among them, a value  *)
(* that is accepted is the one the line sent in one superframe: never bits   *)
(* of two, and with the number of that superframe's first frame.            *)
AcceptedIsSent ==
  [][history' # history
       => /\ history'.timeslot = sent
          /\ Plus(history'.superframe_frame_count, position) = frame_count]_vars

(* A change is told only of a value the line sends in the superframe that     *)
(* ends with this frame and sent in the last one that was complete before,   *)
(* whose first frame's number the event has; and never of what was told.    *)
ChangesHeardTwice ==
  [][Len(events') > Len(events)
       => /\ sent # state /\ sent = history.timeslot
          /\ events'[Len(events')] = <<history.superframe_frame_count, sent>>]_vars

(* When the line stays at a value and frames are no longer lost, the monitor *)
(* comes to show that value, whatever was lost or half collected before.    *)
MonitorSettles ==
  \A v \in SignalingValues :
    <>[](sent = v /\ ~lost) => <>[](line_state = v)
=============================================================================
