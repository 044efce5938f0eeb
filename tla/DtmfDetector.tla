---------------------------- MODULE DtmfDetector ----------------------------
(***************************************************************************)
(* The host's detector of keyed digits (detector/dtmf.rs).  Three groups of *)
(* filters listen to the samples of a timeslot, each for a window at a      *)
(* time: two to the low tones, half a window apart, one to the high tones,  *)
(* in windows half as long.  At the end of each high window its column and  *)
(* the row of the low group that ends with it make a key, or none, and a    *)
(* state machine tells from these what was pressed.                         *)
(*                                                                         *)
(* The filters (goertzel.rs) are taken by what they are made for: a window  *)
(* with one key in it, at a level and twist in range, gives its tone, a     *)
(* window of silence none, and one that a key begins or ends in any tone of *)
(* the signals in it, or none.                                              *)
(***************************************************************************)
EXTENDS Naturals

CONSTANTS
  HalfWindow,   \* samples of a high window: 106
  Rows, Columns \* of the keypad: tones, numbered from 1

ASSUME HalfWindowAssumption == HalfWindow \in Nat /\ HalfWindow >= 1
ASSUME KeypadAssumption == Rows \subseteq Nat \ {0} /\ Columns \subseteq Nat \ {0}

Keys == Rows \X Columns
None == << >>              \* no key: what is detected, and what is on the line
Signals == Keys \cup {None}

(* Bound: a key is held, and a pause lasts, for three half windows at least *)
(* (39.75 ms of 8000 samples a second); samples that are lost do not count. *)
ShortestSignal == 3 * HalfWindow
(* A key held for so long is long: at the end of it all windows are full.   *)
LongPress == 5 * HalfWindow

VARIABLES
  iteration,       \* of each group: samples in its window so far
  heard,           \* of each group: the signals of these samples
  detection_state, \* the state machine
  last_detection,
  signal, before,  \* on the line: what is keyed, and what was before it
  length,          \* samples of signal so far, LongPress at most
  digit,           \* the digit reported at this sample, or None
  told             \* times that signal, and before, were reported

dtmf_vars == <<iteration, heard, detection_state, last_detection,
               signal, before, length, digit, told>>

Low == {"low_0", "low_1"}
Groups == Low \cup {"high"}
n(group) == IF group = "high" THEN HalfWindow ELSE 2 * HalfWindow

(* The second low group begins in the middle of a window, with filters that *)
(* have heard nothing.                                                      *)
initial_iteration_aligned(group) == 0     \* fault: the two groups end together
initial_iteration(group) == IF group = "low_1" THEN HalfWindow ELSE 0

DtmfInit ==
  /\ iteration = [group \in Groups |-> initial_iteration(group)]
  /\ heard = [group \in Groups |-> IF initial_iteration(group) > 0 THEN {None} ELSE {}]
  /\ detection_state = "S0" /\ last_detection = None
  /\ signal \in Signals /\ before = None
  /\ length = 0
  /\ digit = None /\ told = [signal |-> 0, before |-> 0]

-----------------------------------------------------------------------------
(* The window ends with this sample. *)
Ends(group) == iteration[group] + 1 = n(group)

(* The strongest tone that a window of these signals may have, by its index *)
(* in a key; 0 when none stands out.                                        *)
tones(signals, index) ==
  {key[index] : key \in signals \ {None}}
    \cup (IF \E key \in Keys : signals = {key} THEN {} ELSE {0})

detect(row, column) == IF row = 0 \/ column = 0 THEN None ELSE <<row, column>>

valid_detection(detection) == detection # None /\ last_detection # None
same(detection) == valid_detection(detection) /\ detection = last_detection
pause(detection) == detection = None /\ last_detection = None

(* DetectionStateMachine::feed: the state after a detection.  (S1 is there, *)
(* but what leads to it, same and not valid, is never so.)                  *)
next_state(detection) ==
  CASE detection_state = "S0" -> IF ~same(detection) THEN "S0"
                                 ELSE IF valid_detection(detection) THEN "S2" ELSE "S1"
    [] detection_state = "S1" -> IF same(detection) THEN "S3" ELSE "S0"
    [] OTHER -> IF pause(detection) THEN "S0" ELSE "S3"

(* A tone is told when it is the same for the third time. *)
new_tone_early(detection) == detection_state = "S0" /\ same(detection)   \* fault: the second
new_tone_always(detection) == same(detection)         \* fault: as long as it is there
new_tone(detection) == detection_state \in {"S1", "S2"} /\ same(detection)

(* The line: this sample goes on with the signal or begins another. *)
Begins(now) ==
  IF now = signal
  THEN /\ length' = IF length < LongPress THEN length + 1 ELSE length
       /\ UNCHANGED <<signal, before>>
  ELSE /\ length >= ShortestSignal
       /\ signal' = now /\ before' = signal /\ length' = 1

Reports(event) ==
  LET counted == IF signal' = signal THEN told ELSE [signal |-> 0, before |-> told.signal]
  IN  /\ digit' = event
      /\ told' = IF event = None THEN counted
                 ELSE IF event = signal'
                 THEN [counted EXCEPT !.signal = IF @ < 2 THEN @ + 1 ELSE @]
                 ELSE [counted EXCEPT !.before = IF @ < 2 THEN @ + 1 ELSE @]

feed(detection) ==
  /\ detection_state' = next_state(detection)
  /\ last_detection' = detection
  /\ Reports(IF new_tone(detection) THEN detection ELSE None)

(* Detector::advance, for one sample. *)
advance ==
  \E now \in Signals :
    LET window == [group \in Groups |-> heard[group] \cup {now}]
    IN  /\ Begins(now)
        /\ iteration' = [group \in Groups |-> IF Ends(group) THEN 0 ELSE iteration[group] + 1]
        /\ heard' = [group \in Groups |-> IF Ends(group) THEN {} ELSE window[group]]
        /\ \/ /\ Ends("high")
              /\ \E low \in {group \in Low : Ends(group)} :
                 \E row \in tones(window[low], 1), column \in tones(window["high"], 2) :
                   feed(detect(row, column))
           \/ /\ ~Ends("high")
              /\ Reports(None)
              /\ UNCHANGED <<detection_state, last_detection>>

DtmfSpec == DtmfInit /\ [][advance]_dtmf_vars

-----------------------------------------------------------------------------
DtmfTypeOK ==
  /\ iteration \in [Groups -> Nat]
  /\ heard \in [Groups -> SUBSET Signals]
  /\ detection_state \in {"S0", "S1", "S2", "S3"} /\ last_detection \in Signals
  /\ signal \in Signals /\ before \in Signals
  /\ length \in 0 .. LongPress
  /\ digit \in Signals
  /\ told \in [signal : 0 .. 2, before : 0 .. 2]

(* The assertions of dtmf.rs (28, 208, and the unreachable at 220) hold at  *)
(* the next sample: no group is past its window, the two low groups never   *)
(* end together, and one of them ends whenever the high group does.         *)
NeverAsserts ==
  /\ \A group \in Groups : iteration[group] < n(group)
  /\ ~(Ends("low_0") /\ Ends("low_1"))
  /\ Ends("high") => \E group \in Low : Ends(group)

(* A digit that is reported was keyed, now or just before: never the row of *)
(* one key with the column of the next, which the windows in which the key  *)
(* changes may well show (dtmf.rs 199-221), nor one that is long over.      *)
ReportedWasKeyed == digit \in {None, signal, before}

(* A press is reported once at most, however its begin and end fall on the  *)
(* windows, and a long one after a pause has been reported: what came       *)
(* before it does not leave the state machine where it does not listen      *)
(* (dtmf.rs 80-106: S3 is left by a pause only).                            *)
PressReportedOnce ==
  /\ told.signal <= 1 /\ told.before <= 1
  /\ signal # None /\ before = None /\ length >= LongPress => told.signal = 1
=============================================================================
