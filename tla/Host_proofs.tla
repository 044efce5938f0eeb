-------------------------- MODULE Host_proofs --------------------------
(***************************************************************************)
(* Proofs about the host: the signaling thread and the audio pump.          *)
(*                                                                         *)
(* Digits: the detector's assertions and what it reports, for windows of    *)
(* any length and any keypad.  The invariant says how the three windows lie *)
(* to each other, what a window has heard of a signal that is not over, and *)
(* what the last detection can have been: only those made in the two half   *)
(* windows after a change of the signal may mix two keys, and the one       *)
(* before them, or the one after, is of one key.  That a press is told once  *)
(* takes the state machine's place in the press as well: how many of its     *)
(* detections are past, what they can have been after a pause, and that     *)
(* what was told leaves a state in which nothing is.                        *)
(*                                                                         *)
(* Bits: for every number of bits, every length of a superframe and every   *)
(* width of the frame counter, what is accepted is one superframe of the    *)
(* line, whichever frames are lost.  The bits of two could be mixed in one  *)
(* way only: by taking a frame for one of the superframe being put together *)
(* when it is of a later one.  What excludes it is the age of the           *)
(* accumulator, the frames since the start it heard: it is either the       *)
(* position in the superframe, or so large that nothing is collected, until *)
(* the next start is heard.                                                 *)
(*                                                                         *)
(* Pump: every transfer is submitted or waits for its callback, and the ring *)
(* of processed frames has room until the bus runs out of OUT transfers.  The *)
(* invariant follows the callbacks that wait, in their order: the level of   *)
(* the ring after each, in transfers of two frames a packet, is never above  *)
(* two, because the OUT transfer under way takes a packet in every microframe *)
(* and an IN transfer at most one.                                          *)
(***************************************************************************)
EXTENDS SignalingProcessor, HostPump, Integers, TLAPS

h == iteration["high"]

(* The windows of the low groups lie half a window apart, and end with      *)
(* those of the high group.                                                 *)
WindowsInv ==
  /\ iteration \in [Groups -> Nat]
  /\ h < HalfWindow
  /\ \/ iteration["low_0"] = h /\ iteration["low_1"] = h + HalfWindow
     \/ iteration["low_0"] = h + HalfWindow /\ iteration["low_1"] = h

HeardInv ==
  /\ signal \in Signals /\ before \in Signals /\ length \in Nat
  /\ \A group \in Groups :
       /\ heard[group] \subseteq {signal, before}
       /\ iteration[group] = 0 => heard[group] = {}
       /\ length >= iteration[group] => heard[group] \subseteq {signal}

(* At the last detection the signal was length - h samples old. *)
DetectionInv ==
  /\ detection_state # "S1"
  /\ length >= 2 * HalfWindow + h => last_detection = signal
  /\ length <= h => last_detection = before
  /\ length <= HalfWindow + h /\ detection_state = "S2" => last_detection = before

DigitsInv == WindowsInv /\ HeardInv /\ DetectionInv /\ ReportedWasKeyed

-----------------------------------------------------------------------------
LEMMA DigitsInvInit == DtmfInit => DigitsInv
<1> SUFFICES ASSUME DtmfInit PROVE DigitsInv
  OBVIOUS
<1> USE HalfWindowAssumption DEF DtmfInit, initial_iteration, Groups, Low
<1>1. WindowsInv
  BY DEF WindowsInv, h
<1>2. HeardInv
  BY DEF HeardInv, Signals
<1>3. DetectionInv
  BY DEF DetectionInv, h
<1>4. ReportedWasKeyed
  BY DEF ReportedWasKeyed
<1> QED
  BY <1>1, <1>2, <1>3, <1>4 DEF DigitsInv

LEMMA WindowsNext ==
  ASSUME WindowsInv, advance
  PROVE  WindowsInv' /\ h' = IF h + 1 = HalfWindow THEN 0 ELSE h + 1
<1>1. iteration' = [group \in Groups |-> IF Ends(group) THEN 0 ELSE iteration[group] + 1]
  BY DEF advance
<1> QED
  BY <1>1, HalfWindowAssumption DEF WindowsInv, h, Ends, n, Groups, Low

LEMMA LineNext ==
  ASSUME HeardInv, NEW now \in Signals, Begins(now)
  PROVE  /\ signal' = now /\ signal' \in Signals /\ before' \in Signals /\ length' \in Nat
         /\ \/ /\ signal' = signal /\ before' = before
               /\ length' = length + 1 \/ (length' = length /\ length >= LongPress)
            \/ /\ signal' # signal /\ before' = signal /\ length' = 1 /\ length >= ShortestSignal
BY HalfWindowAssumption DEF HeardInv, Begins, LongPress

LEMMA HeardNext ==
  ASSUME WindowsInv, HeardInv, NEW now \in Signals, Begins(now),
         NEW group \in Groups
  PROVE  /\ heard[group] \cup {now} \subseteq {signal', before'}
         /\ length' >= iteration[group] + 1 => heard[group] \cup {now} = {now}
<1>1. iteration[group] \in Nat /\ iteration[group] < 2 * HalfWindow
  BY HalfWindowAssumption DEF WindowsInv, Groups, Low, h
<1>2. CASE /\ signal' = signal /\ before' = before
           /\ length' = length + 1 \/ (length' = length /\ length >= LongPress)
  <2>1. length' >= iteration[group] + 1 => length >= iteration[group]
    BY <1>1, <1>2, HalfWindowAssumption DEF LongPress, HeardInv
  <2> QED
    BY <1>2, <2>1, LineNext DEF HeardInv
<1>3. CASE before' = signal /\ length' = 1 /\ length >= ShortestSignal
  <2>1. length >= iteration[group]
    BY <1>1, <1>3, HalfWindowAssumption DEF ShortestSignal, HeardInv
  <2>2. heard[group] \subseteq {signal}
    BY <2>1 DEF HeardInv
  <2>3. length' >= iteration[group] + 1 => iteration[group] = 0
    BY <1>1, <1>3
  <2> QED
    BY <1>3, <2>2, <2>3, LineNext DEF HeardInv
<1> QED
  BY <1>2, <1>3, LineNext

LEMMA WindowsHeardNext ==
  ASSUME WindowsInv, HeardInv, advance
  PROVE  HeardInv'
<1>1. PICK now \in Signals :
        /\ Begins(now)
        /\ heard' = [group \in Groups |-> IF Ends(group) THEN {} ELSE heard[group] \cup {now}]
        /\ iteration' = [group \in Groups |-> IF Ends(group) THEN 0 ELSE iteration[group] + 1]
  BY Zenon DEF advance
<1>2. signal' = now /\ signal' \in Signals /\ before' \in Signals /\ length' \in Nat
  BY <1>1, LineNext
<1>3. ASSUME NEW group \in Groups
      PROVE  /\ heard'[group] \subseteq {signal', before'}
             /\ iteration'[group] = 0 => heard'[group] = {}
             /\ length' >= iteration'[group] => heard'[group] \subseteq {signal'}
  <2>1. CASE Ends(group)
    BY <1>1, <2>1
  <2>2. CASE ~Ends(group)
    <3>1. heard'[group] = heard[group] \cup {now} /\ iteration'[group] = iteration[group] + 1
      BY <1>1, <2>2
    <3>2. iteration[group] \in Nat
      BY DEF WindowsInv
    <3> QED
      BY <1>1, <1>2, <3>1, <3>2, HeardNext
  <2> QED
    BY <2>1, <2>2
<1> QED
  BY <1>2, <1>3 DEF HeardInv

-----------------------------------------------------------------------------
LEMMA KeyType ==
  ASSUME NEW key \in Keys
  PROVE  key # None /\ key = <<key[1], key[2]>> /\ key[1] # 0 /\ key[2] # 0
<1>1. key = <<key[1], key[2]>> /\ key[1] \in Rows /\ key[2] \in Columns
  BY DEF Keys
<1>2. key # None
  BY <1>1, SMT DEF None
<1> QED
  BY <1>1, <1>2, KeypadAssumption

(* A window of one signal shows it. *)
LEMMA PureWindow ==
  ASSUME NEW s \in Signals, NEW row \in tones({s}, 1), NEW column \in tones({s}, 2)
  PROVE  detect(row, column) = s
<1>1. CASE s \in Keys
  <2>1. s # None
    BY <1>1, KeyType
  <2>2. tones({s}, 1) = {s[1]} /\ tones({s}, 2) = {s[2]}
    BY <1>1, <2>1 DEF tones
  <2> QED
    BY <1>1, <2>2, KeyType DEF detect
<1>2. CASE s = None
  <2>1. \A key \in Keys : {s} # {key}
    BY <1>2, KeyType
  <2>2. tones({s}, 1) = {0} /\ tones({s}, 2) = {0}
    BY <1>2, <2>1 DEF tones
  <2> QED
    BY <1>2, <2>2 DEF detect
<1> QED
  BY <1>1, <1>2 DEF Signals

(* A window that has heard one key, and silence, shows it or nothing; one    *)
(* that has heard only silence shows nothing in its tone.                   *)
LEMMA MixedWithSilence ==
  ASSUME NEW s \in Signals, NEW low_heard, NEW high_heard,
         low_heard \subseteq {s, None}, high_heard \subseteq {s, None},
         NEW row \in tones(low_heard, 1), NEW column \in tones(high_heard, 2)
  PROVE  detect(row, column) \in {None, s}
<1>1. CASE s \in Keys
  <2>1. row \in {s[1], 0} /\ column \in {s[2], 0}
    BY DEF tones
  <2> QED
    BY <1>1, <2>1, KeyType DEF detect
<1>2. CASE s = None
  <2>1. row = 0
    BY <1>2 DEF tones
  <2> QED
    BY <2>1 DEF detect
<1> QED
  BY <1>1, <1>2 DEF Signals

LEMMA SilentWindow ==
  ASSUME NEW row, NEW column \in tones({None}, 2)
  PROVE  detect(row, column) = None
<1>1. column = 0
  BY DEF tones
<1> QED
  BY <1>1 DEF detect

(* The detection at the end of a high window: that of a signal which fills  *)
(* the low window, nothing when silence fills the high one, and never a key *)
(* that is only begun with another than itself.                             *)
LEMMA DetectionNext ==
  ASSUME DigitsInv, advance, Ends("high")
  PROVE  \E detection :
           /\ feed(detection)
           /\ length' >= 2 * HalfWindow => detection = signal'
           /\ signal' = None /\ length' >= HalfWindow => detection = None
           /\ before' = None => detection \in {None, signal'}
<1>1. PICK now \in Signals, low \in {group \in Low : Ends(group)} :
        /\ Begins(now)
        /\ \E row \in tones(heard[low] \cup {now}, 1), column \in tones(heard["high"] \cup {now}, 2) :
             feed(detect(row, column))
  BY DEF advance, Groups, Low
<1>2. PICK row \in tones(heard[low] \cup {now}, 1), column \in tones(heard["high"] \cup {now}, 2) :
        feed(detect(row, column))
  BY <1>1
<1>3. low \in Groups /\ "high" \in Groups /\ signal' = now
  BY <1>1, LineNext DEF DigitsInv, Groups
<1>4. ASSUME length' >= 2 * HalfWindow
      PROVE  detect(row, column) = signal'
  <2>1. length' >= iteration[low] + 1 /\ length' >= iteration["high"] + 1
    BY <1>1, <1>4, LineNext, HalfWindowAssumption DEF DigitsInv, WindowsInv, Ends, n, Groups, Low, h
  <2>2. heard[low] \cup {now} = {now} /\ heard["high"] \cup {now} = {now}
    BY <1>1, <1>3, <2>1, HeardNext DEF DigitsInv
  <2> QED
    BY <1>2, <1>3, <2>2, PureWindow
<1>5. ASSUME signal' = None, length' >= HalfWindow
      PROVE  detect(row, column) = None
  <2>1. length' >= iteration["high"] + 1
    BY <1>5, HalfWindowAssumption DEF DigitsInv, WindowsInv, Ends, n, h
  <2>2. heard["high"] \cup {now} = {None}
    BY <1>1, <1>3, <1>5, <2>1, HeardNext DEF DigitsInv
  <2> QED
    BY <1>2, <2>2, SilentWindow
<1>6. ASSUME before' = None
      PROVE  detect(row, column) \in {None, signal'}
  <2>1. /\ heard[low] \cup {now} \subseteq {signal', None}
        /\ heard["high"] \cup {now} \subseteq {signal', None}
    BY <1>1, <1>3, <1>6, HeardNext DEF DigitsInv
  <2> QED
    BY <1>2, <1>3, <2>1, MixedWithSilence
<1> QED
  BY <1>2, <1>4, <1>5, <1>6

LEMMA DetectionInvNext ==
  ASSUME DigitsInv, advance
  PROVE  DetectionInv' /\ ReportedWasKeyed'
<1>1. PICK now \in Signals : Begins(now)
  BY DEF advance
<1>2. /\ signal' = now
      /\ \/ /\ signal' = signal /\ before' = before
            /\ length' = length + 1 \/ (length' = length /\ length >= 5 * HalfWindow)
         \/ /\ before' = signal /\ length' = 1 /\ length >= 3 * HalfWindow
  BY <1>1, LineNext DEF DigitsInv, LongPress, ShortestSignal
<1>3. h \in Nat /\ h < HalfWindow /\ length \in Nat /\ HalfWindow \in Nat /\ HalfWindow >= 1
  BY HalfWindowAssumption DEF DigitsInv, WindowsInv, HeardInv, h, Groups
<1>4. CASE ~Ends("high")
  <2>1. /\ h' = h + 1 /\ digit' = None
        /\ detection_state' = detection_state /\ last_detection' = last_detection
    BY <1>4, WindowsNext DEF DigitsInv, advance, Ends, n, h, Reports
  <2>2. DetectionInv'
    BY <1>2, <1>3, <2>1 DEF DigitsInv, DetectionInv
  <2> QED
    BY <2>1, <2>2 DEF ReportedWasKeyed
<1>5. CASE Ends("high")
  <2>1. h' = 0 /\ h = HalfWindow - 1
    BY <1>3, <1>5, WindowsNext DEF DigitsInv, Ends, n, h
  <2>2. PICK detection :
          /\ feed(detection)
          /\ length' >= 2 * HalfWindow => detection = signal'
    BY <1>5, DetectionNext
  <2>3. /\ detection_state' = next_state(detection) /\ last_detection' = detection
        /\ digit' = IF new_tone(detection) THEN detection ELSE None
    BY <2>2 DEF feed, Reports
  <2>4. /\ detection_state' # "S1"
        /\ detection_state' = "S2" => detection = last_detection
        /\ digit' # None => /\ digit' = detection /\ detection = last_detection
                            /\ detection_state = "S2"
    <3>1. same(detection) => valid_detection(detection) /\ detection = last_detection
      BY DEF same
    <3>2. /\ next_state(detection) # "S1"
          /\ next_state(detection) = "S2" => same(detection)
      <4>1. CASE detection_state = "S0"
        BY <3>1, <4>1, Zenon DEF next_state
      <4>2. CASE detection_state # "S0"
        BY <4>2, Zenon DEF next_state, DigitsInv, DetectionInv
      <4> QED
        BY <4>1, <4>2
    <3>3. new_tone(detection) => same(detection) /\ detection_state = "S2"
      BY DEF new_tone, DigitsInv, DetectionInv
    <3> QED
      BY <2>3, <3>1, <3>2, <3>3
  <2>5. DetectionInv'
    BY <1>2, <1>3, <2>1, <2>2, <2>3, <2>4 DEF DigitsInv, DetectionInv
  <2>6. ReportedWasKeyed'
    BY <1>2, <1>3, <2>1, <2>2, <2>4 DEF DigitsInv, DetectionInv, ReportedWasKeyed
  <2> QED
    BY <2>5, <2>6
<1> QED
  BY <1>4, <1>5

LEMMA DigitsInvNext == DigitsInv /\ [advance]_dtmf_vars => DigitsInv'
<1> SUFFICES ASSUME DigitsInv, [advance]_dtmf_vars PROVE DigitsInv'
  OBVIOUS
<1>1. CASE advance
  BY <1>1, WindowsNext, WindowsHeardNext, DetectionInvNext DEF DigitsInv
<1>2. CASE UNCHANGED dtmf_vars
  BY <1>2 DEF dtmf_vars, DigitsInv, WindowsInv, HeardInv, DetectionInv, ReportedWasKeyed, h
<1> QED
  BY <1>1, <1>2

THEOREM DigitsInvCorrect == DtmfSpec => []DigitsInv
  BY DigitsInvInit, DigitsInvNext, PTL DEF DtmfSpec

-----------------------------------------------------------------------------
(* Once: a press that has been reported leaves the state machine where it    *)
(* does not listen, until two detections after another are of silence, which *)
(* none is before the press is over and heard no more.                      *)
ToldInv ==
  /\ told \in [signal : 0 .. 1, before : 0 .. 1]
  /\ detection_state \in {"S0", "S2", "S3"}
  /\ signal = before => signal = None
  /\ signal = None => told.signal = 0
  /\ before = None => told.before = 0
  /\ told.signal = 1 => /\ detection_state = "S3" /\ last_detection = signal
                        /\ length > 2 * HalfWindow + h
  /\ told.before = 1 /\ length <= HalfWindow + h => detection_state = "S3"

(* A pause makes the state machine listen. *)
SilenceInv ==
  signal = None =>
    /\ length >= HalfWindow + h => last_detection = None
    /\ length >= 2 * HalfWindow + h => detection_state = "S0"

(* After a pause the detections of a press are of nothing, at most two, and  *)
(* of it from then on: the third of these, the fifth at the latest, tells.   *)
LongInv ==
  signal # None /\ before = None =>
    /\ length <= h => detection_state = "S0" /\ last_detection = None
    /\ length <= HalfWindow + h => detection_state = "S0" /\ last_detection \in {None, signal}
    /\ length <= 2 * HalfWindow + h =>
         \/ detection_state = "S0" /\ last_detection \in {None, signal}
         \/ detection_state = "S2" /\ last_detection = signal
    /\ length > 2 * HalfWindow + h => detection_state \in {"S0", "S2"} \/ told.signal = 1
    /\ length > 3 * HalfWindow + h => detection_state = "S2" \/ told.signal = 1
    /\ length > 4 * HalfWindow + h => told.signal = 1

PressInv == ToldInv /\ SilenceInv /\ LongInv

(* At the start nothing has been told. *)
LEMMA PressInvInit == DtmfInit => PressInv
<1> SUFFICES ASSUME DtmfInit PROVE PressInv
  OBVIOUS
<1>1. /\ h = 0 /\ length = 0 /\ detection_state = "S0" /\ last_detection = None /\ before = None
      /\ told = [signal |-> 0, before |-> 0]
  BY HalfWindowAssumption DEF DtmfInit, initial_iteration, Groups, Low, h
<1> QED
  BY <1>1, HalfWindowAssumption DEF PressInv, ToldInv, SilenceInv, LongInv

(* What is told when an event, or none, is reported. *)
LEMMA ReportsNext ==
  ASSUME ToldInv, NEW event, Reports(event)
  PROVE  LET s == IF signal' = signal THEN told.signal ELSE 0
             b == IF signal' = signal THEN told.before ELSE told.signal
         IN  /\ event = None => told' = [signal |-> s, before |-> b]
             /\ event # None /\ event = signal' => told' = [signal |-> s + 1, before |-> b]
             /\ event # None /\ event # signal' => told' = [signal |-> s, before |-> b + 1]
<1>. DEFINE s == IF signal' = signal THEN told.signal ELSE 0
            b == IF signal' = signal THEN told.before ELSE told.signal
            counted == IF signal' = signal THEN told ELSE [signal |-> 0, before |-> told.signal]
<1>1. s \in 0 .. 1 /\ b \in 0 .. 1 /\ counted = [signal |-> s, before |-> b]
  <2>1. told \in [signal : 0 .. 1, before : 0 .. 1]
    BY DEF ToldInv
  <2>2. /\ told.signal \in 0 .. 1 /\ told.before \in 0 .. 1
        /\ told = [signal |-> told.signal, before |-> told.before]
    BY <2>1
  <2> QED
    BY <2>2
<1>2. told' = IF event = None THEN counted
              ELSE IF event = signal'
              THEN [counted EXCEPT !.signal = IF @ < 2 THEN @ + 1 ELSE @]
              ELSE [counted EXCEPT !.before = IF @ < 2 THEN @ + 1 ELSE @]
  BY DEF Reports
<1>. HIDE DEF s, b, counted
<1>3. event = None => told' = [signal |-> s, before |-> b]
  <2>. SUFFICES ASSUME event = None PROVE told' = [signal |-> s, before |-> b]
    OBVIOUS
  <2>1. told' = counted
    BY <1>2
  <2> QED
    BY <1>1, <2>1
<1>4. event # None /\ event = signal' => told' = [signal |-> s + 1, before |-> b]
  <2>. SUFFICES ASSUME event # None, event = signal' PROVE told' = [signal |-> s + 1, before |-> b]
    OBVIOUS
  <2>1. told' = [counted EXCEPT !.signal = IF @ < 2 THEN @ + 1 ELSE @]
    BY <1>2
  <2>2. counted.signal = s /\ s < 2
    BY <1>1
  <2>3. told' = [counted EXCEPT !.signal = s + 1]
    BY <2>1, <2>2
  <2> QED
    BY <1>1, <2>3
<1>5. event # None /\ event # signal' => told' = [signal |-> s, before |-> b + 1]
  <2>. SUFFICES ASSUME event # None, event # signal' PROVE told' = [signal |-> s, before |-> b + 1]
    OBVIOUS
  <2>1. told' = [counted EXCEPT !.before = IF @ < 2 THEN @ + 1 ELSE @]
    BY <1>2
  <2>2. counted.before = b /\ b < 2
    BY <1>1
  <2>3. told' = [counted EXCEPT !.before = b + 1]
    BY <2>1, <2>2
  <2> QED
    BY <1>1, <2>3
<1> QED
  BY <1>3, <1>4, <1>5 DEF s, b

(* Between two detections only the signal grows older, or another begins. *)
LEMMA PressBetween ==
  ASSUME DigitsInv, PressInv, advance, ~Ends("high")
  PROVE  PressInv'
<1>1. PICK now \in Signals : Begins(now)
  BY DEF advance
<1>2. /\ signal' = now
      /\ \/ /\ signal' = signal /\ before' = before
            /\ length' = length + 1 \/ (length' = length /\ length >= 5 * HalfWindow)
         \/ /\ before' = signal /\ length' = 1 /\ length >= 3 * HalfWindow
            /\ signal' # signal
  BY <1>1, LineNext DEF DigitsInv, LongPress, ShortestSignal
<1>3. h \in Nat /\ h < HalfWindow /\ length \in Nat /\ HalfWindow \in Nat /\ HalfWindow >= 1
  BY HalfWindowAssumption DEF DigitsInv, WindowsInv, HeardInv, h, Groups
<1>4. /\ h' = h + 1 /\ Reports(None)
      /\ detection_state' = detection_state /\ last_detection' = last_detection
  BY WindowsNext DEF DigitsInv, advance, Ends, n, h
<1>5. h' < HalfWindow
  BY <1>3, <1>4 DEF Ends, n, h
<1>6. told.signal \in 0 .. 1 /\ told.before \in 0 .. 1
  BY DEF PressInv, ToldInv
<1>7. CASE signal' = signal
  <2>1. told'.signal = told.signal /\ told'.before = told.before
        /\ told' \in [signal : 0 .. 1, before : 0 .. 1]
    BY <1>4, <1>6, <1>7, ReportsNext DEF PressInv
  <2>2. /\ before' = before
        /\ length' = length + 1 \/ (length' = length /\ length >= 5 * HalfWindow)
    BY <1>2, <1>7
  <2>6. /\ length' <= h' <=> length <= h
        /\ length' <= HalfWindow + h' <=> length <= HalfWindow + h
        /\ length' <= 2 * HalfWindow + h' <=> length <= 2 * HalfWindow + h
        /\ length' >= HalfWindow + h' <=> length >= HalfWindow + h
        /\ length' >= 2 * HalfWindow + h' <=> length >= 2 * HalfWindow + h
        /\ length' > 2 * HalfWindow + h' <=> length > 2 * HalfWindow + h
        /\ length' > 3 * HalfWindow + h' <=> length > 3 * HalfWindow + h
        /\ length' > 4 * HalfWindow + h' <=> length > 4 * HalfWindow + h
    <3>1. CASE length' = length + 1
      BY <1>3, <1>4, <3>1
    <3>2. CASE length' = length /\ length >= 5 * HalfWindow
      BY <1>3, <1>4, <1>5, <3>2
    <3> QED
      BY <2>2, <3>1, <3>2
  <2>3. ToldInv'
    <3>1. (signal = before => signal = None)'
      BY <1>7, <2>2 DEF PressInv, ToldInv
    <3>2. (signal = None => told.signal = 0)'
      BY <1>7, <2>1 DEF PressInv, ToldInv
    <3>3. (told.signal = 1 => /\ detection_state = "S3" /\ last_detection = signal
                              /\ length > 2 * HalfWindow + h)'
      BY <1>4, <1>7, <2>1, <2>6 DEF PressInv, ToldInv
    <3>4. (told.before = 1 /\ length <= HalfWindow + h => detection_state = "S3")'
      BY <1>4, <2>1, <2>6 DEF PressInv, ToldInv
    <3>5. (before = None => told.before = 0)' /\ detection_state' \in {"S0", "S2", "S3"}
      BY <1>4, <2>1, <2>2 DEF PressInv, ToldInv
    <3> QED
      BY <2>1, <3>1, <3>2, <3>3, <3>4, <3>5 DEF ToldInv
  <2>4. SilenceInv'
    BY <1>4, <1>7, <2>1, <2>2, <2>6 DEF PressInv, SilenceInv
  <2>5. LongInv'
    BY <1>4, <1>7, <2>1, <2>2, <2>6 DEF PressInv, LongInv
  <2> QED
    BY <2>3, <2>4, <2>5 DEF PressInv
<1>8. CASE signal' # signal
  <2>1. told'.signal = 0 /\ told'.before = told.signal
        /\ told' \in [signal : 0 .. 1, before : 0 .. 1]
    BY <1>4, <1>6, <1>8, ReportsNext DEF PressInv
  <2>2. before' = signal /\ length' = 1 /\ length >= 3 * HalfWindow
    BY <1>2, <1>8
  <2>3. ToldInv'
    BY <1>3, <1>4, <1>5, <1>8, <2>1, <2>2 DEF PressInv, ToldInv
  <2>4. SilenceInv'
    BY <1>3, <1>4, <1>5, <1>8, <2>1, <2>2 DEF SilenceInv
  <2>5. LongInv'
    BY <1>3, <1>4, <1>5, <1>8, <2>1, <2>2 DEF PressInv, SilenceInv, LongInv
  <2> QED
    BY <2>3, <2>4, <2>5 DEF PressInv
<1> QED
  BY <1>7, <1>8

(* At a detection the state machine goes on. *)
LEMMA PressDetection ==
  ASSUME DigitsInv, PressInv, advance, Ends("high")
  PROVE  PressInv'
<1>1. PICK now \in Signals : Begins(now)
  BY DEF advance
<1>2. /\ signal' = now
      /\ \/ /\ signal' = signal /\ before' = before
            /\ length' = length + 1 \/ (length' = length /\ length >= 5 * HalfWindow)
         \/ /\ before' = signal /\ length' = 1 /\ length >= 3 * HalfWindow
            /\ signal' # signal
  BY <1>1, LineNext DEF DigitsInv, LongPress, ShortestSignal
<1>3. h \in Nat /\ length \in Nat /\ HalfWindow \in Nat /\ HalfWindow >= 1
  BY HalfWindowAssumption DEF DigitsInv, WindowsInv, HeardInv, h, Groups
<1>4. h' = 0 /\ h = HalfWindow - 1
  BY <1>3, WindowsNext DEF DigitsInv, WindowsInv, Ends, n, h
<1>5. PICK detection :
        /\ feed(detection)
        /\ length' >= 2 * HalfWindow => detection = signal'
        /\ signal' = None /\ length' >= HalfWindow => detection = None
        /\ before' = None => detection \in {None, signal'}
  BY DetectionNext
<1>. DEFINE reports == detection_state = "S2" /\ detection = last_detection /\ detection # None
            quiet == detection = None /\ last_detection = None
            event == IF reports THEN detection ELSE None
<1>6. /\ last_detection' = detection /\ Reports(event)
      /\ detection_state \in {"S0", "S2", "S3"} => 
           detection_state' =
             IF detection_state = "S0"
             THEN IF detection = last_detection /\ detection # None THEN "S2" ELSE "S0"
             ELSE IF quiet THEN "S0" ELSE "S3"
  <2>1. same(detection) <=> detection = last_detection /\ detection # None
    BY DEF same, valid_detection
  <2>2. detection_state # "S1"
    BY DEF DigitsInv, DetectionInv
  <2>3. new_tone(detection) <=> reports
    BY <2>1, <2>2 DEF new_tone
  <2>4. event = IF new_tone(detection) THEN detection ELSE None
    BY <2>3
  <2>5. last_detection' = detection /\ Reports(event) /\ detection_state' = next_state(detection)
    BY <1>5, <2>4 DEF feed
  <2>6. CASE detection_state = "S0"
    <3>1. next_state(detection) = IF ~same(detection) THEN "S0"
                                  ELSE IF valid_detection(detection) THEN "S2" ELSE "S1"
      BY <2>6 DEF next_state
    <3>2. same(detection) => valid_detection(detection)
      BY DEF same
    <3> QED
      BY <2>1, <2>5, <2>6, <3>1, <3>2
  <2>7. CASE detection_state \in {"S2", "S3"}
    <3>1. next_state(detection) = IF pause(detection) THEN "S0" ELSE "S3"
      BY <2>7, Zenon DEF next_state
    <3> QED
      BY <2>5, <2>7, <3>1 DEF pause
  <2> QED
    BY <2>5, <2>6, <2>7
<1>. HIDE DEF reports, quiet
<1>7. told.signal \in 0 .. 1 /\ told.before \in 0 .. 1
  BY DEF PressInv, ToldInv
<1>8. detection_state \in {"S0", "S2", "S3"}
  BY DEF PressInv, ToldInv
<1>9. /\ signal = before => signal = None
      /\ signal = None => told.signal = 0
      /\ before = None => told.before = 0
      /\ told.signal = 1 => /\ detection_state = "S3" /\ last_detection = signal
                            /\ length > 2 * HalfWindow + h
      /\ told.before = 1 /\ length <= HalfWindow + h => detection_state = "S3"
  BY DEF PressInv, ToldInv
<1>10. /\ length >= 2 * HalfWindow + h => last_detection = signal
       /\ length <= h => last_detection = before
       /\ length <= HalfWindow + h /\ detection_state = "S2" => last_detection = before
  BY DEF DigitsInv, DetectionInv
<1>11. reports => detection_state' = "S3"
  BY <1>6 DEF reports, quiet
<1>12. detection_state' \in {"S0", "S2", "S3"}
  BY <1>6, <1>8
<1>13. CASE signal' = signal
  <2>1. /\ before' = before
        /\ length' = length + 1 \/ (length' = length /\ length >= 5 * HalfWindow)
    BY <1>2, <1>13
  <2>2. /\ length' <= HalfWindow => length <= h
        /\ length' <= 2 * HalfWindow => length <= HalfWindow + h
        /\ length' <= 3 * HalfWindow => length <= 2 * HalfWindow + h
        /\ length' > 2 * HalfWindow => length > HalfWindow + h
        /\ length' > 3 * HalfWindow => length > 2 * HalfWindow + h
        /\ length' > 4 * HalfWindow => length > 3 * HalfWindow + h
        /\ length' >= 2 * HalfWindow => length >= HalfWindow + h
    <3>1. CASE length' = length + 1
      BY <1>3, <1>4, <3>1
    <3>2. CASE length' = length /\ length >= 5 * HalfWindow
      BY <1>3, <1>4, <3>2
    <3> QED
      BY <2>1, <3>1, <3>2
  <2>3. length' > 0
    BY <1>3, <2>1
  <2>4. reports /\ detection = signal' => length' > 2 * HalfWindow /\ told.signal = 0
    <3>1. SUFFICES ASSUME reports, detection = signal'
                   PROVE  length' > 2 * HalfWindow /\ told.signal = 0
      OBVIOUS
    <3>2. detection_state = "S2" /\ last_detection = signal /\ signal # None
      BY <1>13, <3>1 DEF reports
    <3>3. ~(length <= HalfWindow + h)
      BY <1>9, <1>10, <3>2
    <3> QED
      BY <1>3, <1>7, <1>9, <2>1, <2>2, <3>2, <3>3
  <2>5. reports /\ detection # signal' => length' < 2 * HalfWindow /\ told.before = 0
    <3>1. SUFFICES ASSUME reports, detection # signal'
                   PROVE  length' < 2 * HalfWindow /\ told.before = 0
      OBVIOUS
    <3>2. detection_state = "S2"
      BY <3>1 DEF reports
    <3>3. length' < 2 * HalfWindow
      BY <1>3, <1>5, <2>1, <3>1
    <3>4. length <= HalfWindow + h
      BY <1>3, <2>1, <2>2, <3>3
    <3> QED
      BY <1>7, <1>9, <3>2, <3>3, <3>4
  <2>6. /\ ~reports => told'.signal = told.signal /\ told'.before = told.before
        /\ reports /\ detection = signal' => told'.signal = 1 /\ told'.before = told.before
        /\ reports /\ detection # signal' => told'.signal = told.signal /\ told'.before = 1
        /\ told' \in [signal : 0 .. 1, before : 0 .. 1]
    <3>1. CASE ~reports
      <4>1. told' = [signal |-> told.signal, before |-> told.before]
        BY <1>6, <1>13, <3>1, ReportsNext DEF PressInv
      <4> QED
        BY <1>7, <3>1, <4>1
    <3>2. CASE reports /\ detection = signal'
      <4>1. told' = [signal |-> told.signal + 1, before |-> told.before]
        BY <1>6, <1>13, <3>2, ReportsNext DEF PressInv, reports
      <4> QED
        BY <1>7, <2>4, <3>2, <4>1
    <3>3. CASE reports /\ detection # signal'
      <4>1. told' = [signal |-> told.signal, before |-> told.before + 1]
        BY <1>6, <1>13, <3>3, ReportsNext DEF PressInv, reports
      <4> QED
        BY <1>7, <2>5, <3>3, <4>1
    <3> QED
      BY <3>1, <3>2, <3>3
  <2>7. ToldInv'
    <3>1. (signal = before => signal = None)'
      BY <1>9, <1>13, <2>1
    <3>2. (signal = None => told.signal = 0)'
      <4>1. reports => detection # None
        BY DEF reports
      <4> QED
        BY <1>9, <1>13, <2>6, <4>1
    <3>3. ASSUME told'.signal = 1
          PROVE  detection_state' = "S3" /\ last_detection' = signal' /\ length' > 2 * HalfWindow + h'
      <4>1. CASE reports /\ detection = signal'
        BY <1>3, <1>4, <1>6, <1>11, <2>1, <2>4, <4>1
      <4>2. CASE ~(reports /\ detection = signal')
        <5>1. told.signal = 1
          BY <2>6, <3>3, <4>2
        <5>2. detection_state = "S3" /\ last_detection = signal /\ length > 2 * HalfWindow + h
          BY <1>9, <5>1
        <5>3. length' > 2 * HalfWindow /\ detection = signal'
          BY <1>3, <1>4, <1>5, <2>1, <5>2
        <5>4. ~quiet
          BY <1>9, <1>13, <5>1, <5>3 DEF quiet
        <5> QED
          BY <1>3, <1>4, <1>6, <5>2, <5>3, <5>4
      <4> QED
        BY <4>1, <4>2
    <3>4. ASSUME told'.before = 1, length' <= HalfWindow + h'
          PROVE  detection_state' = "S3"
      <4>1. length <= h
        BY <1>3, <1>4, <2>1, <2>2, <3>4
      <4>2. CASE reports
        BY <1>11, <4>2
      <4>3. CASE ~reports
        <5>1. detection_state = "S3"
          BY <1>3, <1>9, <2>6, <3>4, <4>1, <4>3
        <5>2. last_detection = before /\ before # None
          <6>1. told.before = 1
            BY <2>6, <3>4, <4>3
          <6> QED
            BY <1>9, <1>10, <4>1, <6>1
        <5> QED
          BY <1>6, <5>1, <5>2 DEF quiet
      <4> QED
        BY <4>2, <4>3
    <3>5. (before = None => told.before = 0)'
      <4>1. reports /\ detection # signal' => before # None
        <5>1. SUFFICES ASSUME reports, detection # signal' PROVE before # None
          OBVIOUS
        <5>2. length <= HalfWindow + h
          BY <1>3, <2>1, <2>2, <2>5, <5>1
        <5> QED
          BY <1>10, <5>1, <5>2 DEF reports
      <4> QED
        BY <1>9, <2>1, <2>6, <4>1
    <3> QED
      BY <1>12, <2>6, <3>1, <3>2, <3>3, <3>4, <3>5 DEF ToldInv
  <2>8. SilenceInv'
    <3>1. SUFFICES ASSUME signal' = None
                   PROVE  /\ length' >= HalfWindow + h' => last_detection' = None
                          /\ length' >= 2 * HalfWindow + h' => detection_state' = "S0"
      BY DEF SilenceInv
    <3>2. length' >= HalfWindow + h' => detection = None
      BY <1>3, <1>4, <1>5, <2>1, <3>1
    <3>3. ASSUME length' >= 2 * HalfWindow + h'
          PROVE  detection_state' = "S0"
      <4>1. length >= HalfWindow + h
        BY <1>3, <1>4, <2>1, <2>2, <3>3
      <4>2. last_detection = None
        BY <1>13, <3>1, <4>1 DEF PressInv, SilenceInv
      <4>3. detection = None
        BY <1>3, <1>4, <2>1, <3>2, <3>3
      <4> QED
        BY <1>6, <1>8, <4>2, <4>3 DEF quiet
    <3> QED
      BY <1>6, <3>2, <3>3
  <2>9. LongInv'
    <3>1. SUFFICES ASSUME signal' # None, before' = None PROVE LongInv'
      BY DEF LongInv
    <3>2. signal # None /\ before = None /\ detection \in {None, signal}
      BY <1>5, <1>13, <2>1, <3>1
    <3>3. /\ length <= h => detection_state = "S0" /\ last_detection = None
          /\ length <= HalfWindow + h => detection_state = "S0" /\ last_detection \in {None, signal}
          /\ length <= 2 * HalfWindow + h =>
               \/ detection_state = "S0" /\ last_detection \in {None, signal}
               \/ detection_state = "S2" /\ last_detection = signal
          /\ length > 2 * HalfWindow + h => detection_state \in {"S0", "S2"} \/ told.signal = 1
          /\ length > 3 * HalfWindow + h => detection_state = "S2" \/ told.signal = 1
      BY <3>2 DEF PressInv, LongInv
    <3>4. ASSUME length' <= HalfWindow
          PROVE  detection_state' = "S0" /\ last_detection' \in {None, signal}
      <4>1. detection_state = "S0" /\ last_detection = None
        BY <2>2, <3>3, <3>4
      <4> QED
        BY <1>6, <3>2, <4>1
    <3>5. ASSUME length' <= 2 * HalfWindow
          PROVE  \/ detection_state' = "S0" /\ last_detection' \in {None, signal}
                 \/ detection_state' = "S2" /\ last_detection' = signal
      <4>1. detection_state = "S0" /\ last_detection \in {None, signal}
        BY <2>2, <3>3, <3>5
      <4> QED
        BY <1>6, <3>2, <4>1
    <3>6. ASSUME length' > 2 * HalfWindow
          PROVE  /\ detection = signal
                 /\ detection_state = "S2" => reports
                 /\ detection_state = "S0" => detection_state' \in {"S0", "S2"}
                 /\ reports \/ told.signal = 1 => told'.signal = 1
                 /\ detection_state \in {"S0", "S2"} \/ told.signal = 1
      <4>1. detection = signal
        BY <1>3, <1>5, <1>13, <2>1, <3>6
      <4>2. detection_state = "S2" => last_detection = signal
        <5>1. CASE length <= 2 * HalfWindow + h
          BY <3>3, <5>1
        <5>2. CASE ~(length <= 2 * HalfWindow + h)
          <6>1. length >= 2 * HalfWindow + h
            BY <1>3, <5>2
          <6> QED
            BY <1>10, <6>1
        <5> QED
          BY <5>1, <5>2
      <4>3. detection_state \in {"S0", "S2"} \/ told.signal = 1
        BY <1>3, <3>3
      <4>4. reports \/ told.signal = 1 => told'.signal = 1
        BY <1>13, <2>6, <4>1
      <4> QED
        BY <1>6, <3>2, <4>1, <4>2, <4>3, <4>4 DEF reports
    <3>7. length' > 2 * HalfWindow => detection_state' \in {"S0", "S2"} \/ told'.signal = 1
      BY <3>6
    <3>8. ASSUME length' > 3 * HalfWindow
          PROVE  detection_state' = "S2" \/ told'.signal = 1
      <4>1. length' > 2 * HalfWindow /\ length > 2 * HalfWindow + h
        BY <1>3, <2>1, <2>2, <3>8
      <4>2. last_detection = signal
        BY <1>3, <1>10, <4>1
      <4>3. detection_state = "S0" => detection_state' = "S2"
        BY <1>6, <3>2, <3>6, <4>1, <4>2
      <4> QED
        BY <3>6, <4>1, <4>3
    <3>9. ASSUME length' > 4 * HalfWindow
          PROVE  told'.signal = 1
      <4>1. length' > 2 * HalfWindow /\ length > 3 * HalfWindow + h
        BY <1>3, <2>1, <2>2, <3>9
      <4> QED
        BY <3>3, <3>6, <4>1
    <3>10. ~(length' <= 0)
      BY <1>3, <2>1, <2>3
    <3>11. /\ HalfWindow + h' = HalfWindow /\ 2 * HalfWindow + h' = 2 * HalfWindow
           /\ 3 * HalfWindow + h' = 3 * HalfWindow /\ 4 * HalfWindow + h' = 4 * HalfWindow
           /\ h' = 0
      BY <1>3, <1>4
    <3> QED
      BY <1>13, <3>4, <3>5, <3>7, <3>8, <3>9, <3>10, <3>11 DEF LongInv
  <2> QED
    BY <2>7, <2>8, <2>9 DEF PressInv
<1>14. CASE signal' # signal
  <2>1. before' = signal /\ length' = 1 /\ length >= 3 * HalfWindow
    BY <1>2, <1>14
  <2>2. last_detection = signal /\ length > 2 * HalfWindow + h
    BY <1>3, <1>4, <1>10, <2>1
  <2>3. reports => told.signal = 0 /\ detection = signal /\ signal # None
    BY <1>7, <1>9, <2>2 DEF reports
  <2>4. /\ ~reports => told'.signal = 0 /\ told'.before = told.signal
        /\ reports => told'.signal = 0 /\ told'.before = 1
        /\ told' \in [signal : 0 .. 1, before : 0 .. 1]
    <3>1. CASE ~reports
      <4>1. told' = [signal |-> 0, before |-> told.signal]
        BY <1>6, <1>14, <3>1, ReportsNext DEF PressInv
      <4> QED
        BY <1>7, <3>1, <4>1
    <3>2. CASE reports
      <4>1. told' = [signal |-> 0, before |-> told.signal + 1]
        BY <1>6, <1>14, <2>3, <3>2, ReportsNext DEF PressInv
      <4> QED
        BY <1>7, <2>3, <3>2, <4>1
    <3> QED
      BY <3>1, <3>2
  <2>5. ToldInv'
    <3>1. told'.before = 1 => detection_state' = "S3" /\ before' # None
      <4>1. CASE reports
        BY <1>11, <2>1, <2>3, <4>1
      <4>2. CASE ~reports /\ told.signal = 1
        <5>1. detection_state = "S3" /\ last_detection # None /\ signal # None
          BY <1>9, <4>2
        <5> QED
          BY <1>6, <2>1, <5>1 DEF quiet
      <4> QED
        BY <2>4, <4>1, <4>2
    <3>2. told'.before \in 0 .. 1
      BY <2>4
    <3> QED
      BY <1>12, <1>14, <2>1, <2>4, <3>1, <3>2 DEF ToldInv
  <2>6. SilenceInv'
    <3>1. signal' = None /\ length' >= HalfWindow + h' => last_detection' = None
      BY <1>3, <1>4, <1>5, <1>6, <2>1
    <3>2. ~(length' >= 2 * HalfWindow + h')
      BY <1>3, <1>4, <2>1
    <3> QED
      BY <3>1, <3>2 DEF SilenceInv
  <2>7. LongInv'
    <3>1. SUFFICES ASSUME signal' # None, before' = None PROVE LongInv'
      BY DEF LongInv
    <3>2. detection_state = "S0" /\ last_detection = None
      BY <1>3, <2>1, <2>2, <3>1 DEF PressInv, SilenceInv
    <3>3. detection_state' = "S0" /\ last_detection' \in {None, signal'}
      BY <1>5, <1>6, <3>1, <3>2
    <3>4. /\ ~(length' <= h') /\ ~(length' > 2 * HalfWindow + h')
          /\ ~(length' > 3 * HalfWindow + h') /\ ~(length' > 4 * HalfWindow + h')
      BY <1>3, <1>4, <2>1
    <3> QED
      BY <3>3, <3>4 DEF LongInv
  <2> QED
    BY <2>5, <2>6, <2>7 DEF PressInv
<1> QED
  BY <1>13, <1>14

(* No sample breaks it. *)
LEMMA PressInvNext == DigitsInv /\ PressInv /\ [advance]_dtmf_vars => PressInv'
<1> SUFFICES ASSUME DigitsInv, PressInv, [advance]_dtmf_vars PROVE PressInv'
  OBVIOUS
<1>1. CASE advance
  BY <1>1, PressBetween, PressDetection
<1>2. CASE UNCHANGED dtmf_vars
  BY <1>2 DEF dtmf_vars, PressInv, ToldInv, SilenceInv, LongInv, h
<1> QED
  BY <1>1, <1>2

(* A press is reported once at most, and a long one after a pause has been,  *)
(* for every length of the windows and every keypad, however the press and   *)
(* the one before it fall on the windows.                                   *)
THEOREM PressesReportedOnce == DtmfSpec => []PressReportedOnce
<1>1. DigitsInv /\ PressInv => PressReportedOnce
  <2> SUFFICES ASSUME DigitsInv, PressInv PROVE PressReportedOnce
    OBVIOUS
  <2>1. told.signal \in 0 .. 1 /\ told.before \in 0 .. 1
    BY DEF PressInv, ToldInv
  <2>2. length >= LongPress => length > 4 * HalfWindow + h
    BY HalfWindowAssumption DEF DigitsInv, WindowsInv, HeardInv, LongPress, h, Groups
  <2> QED
    BY <2>1, <2>2 DEF PressInv, LongInv, PressReportedOnce
<1> QED
  BY <1>1, DigitsInvCorrect, PressInvInit, PressInvNext, PTL DEF DtmfSpec

(* A digit that is reported was keyed, now or just before, for every length *)
(* of the windows and every keypad: none is put together from two.          *)
THEOREM ReportsKeyed == DtmfSpec => []ReportedWasKeyed
  BY DigitsInvCorrect, PTL DEF DigitsInv

(* No assertion of the detector fails, for every length of the windows.     *)
THEOREM AssertionsHold == DtmfSpec => []NeverAsserts
<1>1. DigitsInv => NeverAsserts
  BY HalfWindowAssumption DEF DigitsInv, WindowsInv, NeverAsserts, Ends, n, h, Groups, Low
<1> QED
  BY <1>1, DigitsInvCorrect, PTL

(* The tones of a window are tones of the keypad, and two of them a key. *)
LEMMA DetectsSignals ==
  ASSUME NEW low \in SUBSET Signals, NEW high \in SUBSET Signals,
         NEW row \in tones(low, 1), NEW column \in tones(high, 2)
  PROVE  detect(row, column) \in Signals
<1>1. \A key \in Signals \ {None} : key \in Keys /\ key[1] \in Rows /\ key[2] \in Columns
  BY DEF Signals, Keys
<1>2. row \in Rows \cup {0}
  BY <1>1 DEF tones
<1>3. column \in Columns \cup {0}
  BY <1>1 DEF tones
<1> QED BY <1>2, <1>3 DEF detect, Signals, Keys

LEMMA DtmfTypeInit == DtmfInit => DtmfTypeOK
<1> SUFFICES ASSUME DtmfInit PROVE DtmfTypeOK
  OBVIOUS
<1>1. iteration \in [Groups -> Nat]
  BY HalfWindowAssumption DEF DtmfInit, initial_iteration
<1>2. heard \in [Groups -> SUBSET Signals]
  BY DEF DtmfInit, Signals
<1>3. 0 \in 0 .. LongPress
  BY HalfWindowAssumption DEF LongPress
<1> QED BY <1>1, <1>2, <1>3 DEF DtmfInit, DtmfTypeOK, Signals

LEMMA DtmfTypeNext == DtmfTypeOK /\ [advance]_dtmf_vars => DtmfTypeOK'
<1> SUFFICES ASSUME DtmfTypeOK, advance PROVE DtmfTypeOK'
  BY DEF dtmf_vars, DtmfTypeOK, Groups, Low
<1>1. PICK now \in Signals :
        LET window == [group \in Groups |-> heard[group] \cup {now}]
        IN  /\ Begins(now)
            /\ iteration' = [group \in Groups |-> IF Ends(group) THEN 0 ELSE iteration[group] + 1]
            /\ heard' = [group \in Groups |-> IF Ends(group) THEN {} ELSE window[group]]
            /\ \/ /\ Ends("high")
                  /\ \E low \in {group \in Low : Ends(group)} :
                     \E row \in tones(window[low], 1), column \in tones(window["high"], 2) :
                       feed(detect(row, column))
               \/ /\ ~Ends("high")
                  /\ Reports(None)
                  /\ UNCHANGED <<detection_state, last_detection>>
  BY DEF advance
<1>. DEFINE window == [group \in Groups |-> heard[group] \cup {now}]
<1>2. window \in [Groups -> SUBSET Signals]
  BY DEF DtmfTypeOK
<1>. HIDE DEF window
<1>3. iteration' \in [Groups -> Nat]
  BY <1>1 DEF DtmfTypeOK
<1>4. heard' \in [Groups -> SUBSET Signals]
  <2>1. heard' = [group \in Groups |-> IF Ends(group) THEN {} ELSE window[group]]
    BY <1>1 DEF window
  <2> QED BY <1>2, <2>1
<1>5. signal' \in Signals /\ before' \in Signals /\ length' \in 0 .. LongPress
  BY <1>1, HalfWindowAssumption DEF Begins, DtmfTypeOK, LongPress
<1>6. \E event \in Signals : /\ Reports(event)
                             /\ last_detection' \in Signals
                             /\ detection_state' \in {"S0", "S1", "S2", "S3"}
  <2>1. CASE /\ ~Ends("high") /\ Reports(None)
             /\ UNCHANGED <<detection_state, last_detection>>
    BY <2>1 DEF DtmfTypeOK, Signals
  <2>2. CASE \E low \in {group \in Low : Ends(group)} :
               \E row \in tones(window[low], 1), column \in tones(window["high"], 2) :
                 feed(detect(row, column))
    <3>1. PICK low \in Low : \E row \in tones(window[low], 1), column \in tones(window["high"], 2) :
                               feed(detect(row, column))
      BY <2>2
    <3>2. PICK row \in tones(window[low], 1), column \in tones(window["high"], 2) :
                 feed(detect(row, column))
      BY <3>1
    <3>3. window[low] \in SUBSET Signals /\ window["high"] \in SUBSET Signals
      BY <1>2 DEF Groups, Low
    <3>. DEFINE detection == detect(row, column)
    <3>4. detection \in Signals
      BY <3>3, DetectsSignals
    <3>. HIDE DEF detection
    <3>5. feed(detection)
      BY <3>2 DEF detection
    <3>6. next_state(detection) \in {"S0", "S1", "S2", "S3"}
      BY DEF next_state
    <3>7. IF new_tone(detection) THEN Reports(detection) ELSE Reports(None)
      BY <3>5, Zenon DEF feed
    <3> QED BY <3>4, <3>5, <3>6, <3>7 DEF feed, Signals
  <2> QED BY <1>1, <2>1, <2>2 DEF window
<1>7. PICK event \in Signals : Reports(event)
  BY <1>6
<1>8. digit' \in Signals
  BY <1>7 DEF Reports
<1>9. told' \in [signal : 0 .. 2, before : 0 .. 2]
  <2>. DEFINE counted == IF signal' = signal THEN told ELSE [signal |-> 0, before |-> told.signal]
  <2>1. counted \in [signal : 0 .. 2, before : 0 .. 2]
    BY DEF DtmfTypeOK
  <2>2. told' = IF event = None THEN counted
                ELSE IF event = signal'
                THEN [counted EXCEPT !.signal = IF @ < 2 THEN @ + 1 ELSE @]
                ELSE [counted EXCEPT !.before = IF @ < 2 THEN @ + 1 ELSE @]
    BY <1>7 DEF Reports
  <2>. HIDE DEF counted
  <2>3. PICK s \in 0 .. 2, b \in 0 .. 2 : counted = [signal |-> s, before |-> b]
    BY <2>1
  <2>4. told' \in {counted, [signal |-> IF s < 2 THEN s + 1 ELSE s, before |-> b],
                   [signal |-> s, before |-> IF b < 2 THEN b + 1 ELSE b]}
    BY <2>2, <2>3
  <2> QED BY <2>1, <2>4
<1> QED BY <1>3, <1>4, <1>5, <1>6, <1>8, <1>9 DEF DtmfTypeOK, Groups, Low, Signals, Keys, LongPress

(* What the detector hears, detects and reports are keys of the keypad or    *)
(* none, for every keypad and length of the windows.                        *)
THEOREM DtmfTypeCorrect == DtmfSpec => []DtmfTypeOK
  BY DtmfTypeInit, DtmfTypeNext, PTL DEF DtmfSpec

-----------------------------------------------------------------------------
(***************************************************************************)
(* Positions and bits: the quotient of the position and FramesPerBit.       *)
(***************************************************************************)
LEMMA QuotientIs ==
  ASSUME NEW p \in Nat, NEW f \in Nat \ {0}
  PROVE  p \div f \in Nat /\ p % f \in 0 .. f - 1 /\ p = f * (p \div f) + (p % f)
OBVIOUS

LEMMA TimesGrows ==
  ASSUME NEW f \in Nat \ {0}, NEW a \in Nat, NEW b \in Nat, a < b
  PROVE  f * a + f <= f * b
<1>1. b - a - 1 \in Nat OBVIOUS
<1>2. f * b = f * (a + 1 + (b - a - 1)) OBVIOUS
<1>3. f * (a + 1 + (b - a - 1)) = f * a + f + f * (b - a - 1) BY <1>1
<1>4. f * (b - a - 1) >= 0 BY <1>1
<1>. QED BY <1>2, <1>3, <1>4

LEMMA QuotientUnique ==
  ASSUME NEW f \in Nat \ {0}, NEW a \in Nat, NEW b \in Nat,
         NEW r \in 0 .. f - 1, NEW s \in 0 .. f - 1, f * a + r = f * b + s
  PROVE  a = b /\ r = s
<1>0. f * a \in Nat /\ f * b \in Nat OBVIOUS
<1>1. ~ (a < b)
  <2>. SUFFICES ASSUME a < b PROVE FALSE OBVIOUS
  <2>. QED BY <1>0, TimesGrows
<1>2. ~ (b < a)
  <2>. SUFFICES ASSUME b < a PROVE FALSE OBVIOUS
  <2>1. f * b + f <= f * a BY TimesGrows
  <2>. QED BY <1>0, <2>1
<1>3. a = b BY <1>1, <1>2
<1>4. f * a = f * b BY <1>3
<1>. QED BY <1>0, <1>3, <1>4

(* The next frame is of the same bit, or this one was its last. *)
LEMMA QuotientOfNext ==
  ASSUME NEW p \in Nat, NEW f \in Nat \ {0}
  PROVE  (p + 1) \div f = IF p % f = f - 1 THEN (p \div f) + 1 ELSE p \div f
<1>1. /\ p \div f \in Nat /\ p % f \in 0 .. f - 1 /\ p = f * (p \div f) + (p % f)
  BY QuotientIs
<1>2. /\ (p + 1) \div f \in Nat /\ (p + 1) % f \in 0 .. f - 1
      /\ p + 1 = f * ((p + 1) \div f) + ((p + 1) % f)
  <2>1. p + 1 \in Nat OBVIOUS
  <2>. QED BY <2>1, QuotientIs
<1>3. CASE p % f = f - 1
  <2>1. f * ((p \div f) + 1) = f * (p \div f) + f BY <1>1
  <2>2. f * (p \div f) \in Nat BY <1>1
  <2>3. p + 1 = f * ((p \div f) + 1) + 0 BY <1>1, <1>3, <2>1, <2>2
  <2>4. f * ((p \div f) + 1) + 0 = f * ((p + 1) \div f) + ((p + 1) % f) BY <1>2, <2>3
  <2>5. 0 \in 0 .. f - 1 /\ (p \div f) + 1 \in Nat BY <1>1
  <2>6. (p \div f) + 1 = (p + 1) \div f BY <1>2, <2>4, <2>5, QuotientUnique
  <2>. QED BY <1>3, <2>6
<1>4. CASE p % f # f - 1
  <2>1. f * (p \div f) \in Nat BY <1>1
  <2>2. (p % f) + 1 \in 0 .. f - 1 BY <1>1, <1>4
  <2>3. f * (p \div f) + ((p % f) + 1) = f * ((p + 1) \div f) + ((p + 1) % f)
    BY <1>1, <1>2, <2>1
  <2>4. p \div f = (p + 1) \div f BY <1>1, <1>2, <2>2, <2>3, QuotientUnique
  <2>. QED BY <1>4, <2>4
<1>. QED BY <1>3, <1>4

LEMMA QuotientOfProduct ==
  ASSUME NEW b \in Nat, NEW f \in Nat \ {0}
  PROVE  (b * f) \div f = b
<1>1. b * f = f * b + 0 /\ b * f \in Nat OBVIOUS
<1>2. /\ (b * f) \div f \in Nat /\ (b * f) % f \in 0 .. f - 1
      /\ b * f = f * ((b * f) \div f) + ((b * f) % f)
  BY <1>1, QuotientIs
<1>3. f * b + 0 = f * ((b * f) \div f) + ((b * f) % f) BY <1>1, <1>2
<1>4. 0 \in 0 .. f - 1 OBVIOUS
<1>. QED BY <1>2, <1>3, <1>4, QuotientUnique

(* A superframe has at least two frames and fits three times into the range *)
(* of the counter; its frames carry the bits 0 to Bits - 1.                 *)
LEMMA Superframe ==
  /\ SuperframeLength \in Nat /\ SuperframeLength >= 2
  /\ CountMod \in Nat /\ CountMod >= 3 * SuperframeLength
  /\ FramesPerBit \in Nat \ {0} /\ Bits \in Nat /\ Bits >= 1
  /\ SuperframeLength \div FramesPerBit = Bits
<1>1. FramesPerBit * 0 + FramesPerBit <= FramesPerBit * Bits
  BY SuperframeAssumption, TimesGrows
<1>2. FramesPerBit * Bits = SuperframeLength BY SuperframeAssumption DEF SuperframeLength
<1>3. SuperframeLength \in Nat BY SuperframeAssumption DEF SuperframeLength
<1>4. SuperframeLength \div FramesPerBit = Bits
  BY SuperframeAssumption, QuotientOfProduct DEF SuperframeLength
<1>. QED BY <1>1, <1>2, <1>3, <1>4, SuperframeAssumption

(* The frames of a superframe carry one of its bits. *)
LEMMA BitOfPosition ==
  ASSUME NEW p \in 0 .. SuperframeLength - 1
  PROVE  p \div FramesPerBit \in 0 .. Bits - 1
<1>. DEFINE q == p \div FramesPerBit
<1>1. q \in Nat /\ p % FramesPerBit \in 0 .. FramesPerBit - 1
      /\ p = FramesPerBit * q + (p % FramesPerBit)
  <2>1. p \in Nat /\ FramesPerBit \in Nat \ {0} BY Superframe
  <2>. QED BY <2>1, QuotientIs
<1>2. ASSUME Bits <= q PROVE FALSE
  <2>1. FramesPerBit * Bits <= FramesPerBit * q
    <3>1. CASE Bits = q BY <3>1, Superframe, <1>1
    <3>2. CASE Bits < q
      <4>1. FramesPerBit * Bits + FramesPerBit <= FramesPerBit * q
        BY <1>1, <3>2, Superframe, TimesGrows
      <4>2. FramesPerBit * Bits \in Nat /\ FramesPerBit * q \in Nat BY <1>1, Superframe
      <4>. QED BY <4>1, <4>2, Superframe
    <3>. QED BY <1>1, <1>2, <3>1, <3>2, Superframe
  <2>2. FramesPerBit * Bits = SuperframeLength BY SuperframeAssumption DEF SuperframeLength
  <2>3. FramesPerBit * q \in Nat BY <1>1, Superframe
  <2>. QED BY <1>1, <2>1, <2>2, <2>3, Superframe
<1>. QED BY <1>1, <1>2, Superframe

(***************************************************************************)
(* Counts: the difference of two wrapping counts.                           *)
(***************************************************************************)
LEMMA AgeIs ==
  ASSUME NEW a \in Counts, NEW c \in Counts
  PROVE  /\ wrapping_sub(a, c) \in Counts
         /\ Plus(c, wrapping_sub(a, c)) = a
         /\ Plus(a, 1) \in Counts
         /\ wrapping_sub(a, c) + 1 < CountMod
              => wrapping_sub(Plus(a, 1), c) = wrapping_sub(a, c) + 1
<1>1. CountMod \in Nat /\ CountMod >= 1 BY Superframe
<1>2. Plus(a, 1) = IF a = CountMod - 1 THEN 0 ELSE a + 1 BY <1>1 DEF Plus, Counts
<1>3. wrapping_sub(a, c) \in Counts BY <1>1 DEF wrapping_sub, Counts
<1>4. Plus(c, wrapping_sub(a, c)) = a
  <2>1. CASE a >= c
    <3>1. c + wrapping_sub(a, c) = a BY <2>1, <1>1 DEF wrapping_sub, Counts
    <3>. QED BY <3>1, <1>1 DEF Plus, Counts
  <2>2. CASE a < c
    <3>1. c + wrapping_sub(a, c) = a + CountMod BY <2>2, <1>1 DEF wrapping_sub, Counts
    <3>2. (a + CountMod) % CountMod = a BY <1>1 DEF Counts
    <3>. QED BY <3>1, <3>2 DEF Plus
  <2>. QED BY <2>1, <2>2, <1>1 DEF Counts
<1>. QED BY <1>1, <1>2, <1>3, <1>4 DEF wrapping_sub, Counts

(***************************************************************************)
(* The inductive invariant.                                                *)
(***************************************************************************)
RobbedBitFrames ==
  [timeslot : Seq({0, 1}), superframe_frame_count : Counts,
   bits_collected : SUBSET (0 .. Bits - 1)]
age(frame) == wrapping_sub(frame_count, frame.superframe_frame_count)

(* What is collected of the first upto frames of the superframe on the line: *)
(* if all their bits were, they are those sent.                             *)
PartOf(frame, upto) ==
  LET bits == upto \div FramesPerBit
  IN  /\ frame.bits_collected \subseteq 0 .. bits - 1
      /\ frame.bits_collected = 0 .. bits - 1
           => /\ Len(frame.timeslot) = bits
              /\ \A i \in 1 .. bits : frame.timeslot[i] = sent[i]

(* Of an earlier superframe, and still so when this one ends. *)
Old(frame) ==
  /\ age(frame) >= SuperframeLength
  /\ position > 0 => age(frame) + SuperframeLength - position < CountMod
Current(frame) == age(frame) = position /\ PartOf(frame, position)

BitsInv ==
  /\ TypeOK
  /\ accumulator \in RobbedBitFrames /\ history \in RobbedBitFrames
  /\ Old(accumulator) \/ (Current(accumulator) /\ position > 0)

-----------------------------------------------------------------------------
LEMMA BitsInvInit == Init => BitsInv
<1> SUFFICES ASSUME Init PROVE BitsInv
  OBVIOUS
<1>. USE Superframe
<1>1. InitialValue \in SignalingValues /\ InitialValue \in Seq({0, 1})
  BY SuperframeAssumption DEF SignalingValues
<1>2. Default \in RobbedBitFrames
  BY <1>1 DEF Default, RobbedBitFrames, Counts
<1>3. frame_count \in Counts /\ wrapping_sub(frame_count, 0) = frame_count
  BY DEF Init, Counts, wrapping_sub
<1>4. Old(accumulator)
  BY <1>3 DEF Init, Old, age, Default
<1>5. TypeOK
  <2>1. frame_count \in Counts /\ position \in 0 .. SuperframeLength - 1 /\ sent \in SignalingValues
    BY <1>3 DEF Init
  <2>2. state \in SignalingValues /\ line_state \in SignalingValues /\ lost \in BOOLEAN
    BY <1>1 DEF Init
  <2>3. events \in Seq(Counts \X SignalingValues)
    BY DEF Init
  <2>4. \A frame \in {accumulator, history} :
          /\ frame.superframe_frame_count \in Counts
          /\ frame.bits_collected \subseteq 0 .. Bits - 1
    BY <1>2 DEF Init, RobbedBitFrames
  <2>5. history.timeslot \in SignalingValues
    BY <1>1 DEF Init, Default
  <2>. QED BY <2>1, <2>2, <2>3, <2>4, <2>5 DEF TypeOK
<1> QED
  BY <1>2, <1>4, <1>5 DEF Init, BitsInv

(* The frame that a frame is collected into. *)
LEMMA NewFrame ==
  ASSUME BitsInv
  PROVE  /\ new_frame \in RobbedBitFrames
         /\ (position > 0 /\ Old(new_frame)) \/ Current(new_frame)
<1>. USE Superframe DEF BitsInv
<1>1. CASE mf
  <2>1. new_frame = from_timestamp(frame_count) /\ position = 0
    BY <1>1 DEF new_frame, mf
  <2>2. frame_count \in Counts /\ new_frame \in RobbedBitFrames
    BY <2>1 DEF TypeOK, from_timestamp, RobbedBitFrames
  <2>3. age(new_frame) = 0
    BY <2>1, <2>2 DEF age, from_timestamp, wrapping_sub, Counts
  <2>4. 0 \div FramesPerBit = 0
    BY QuotientOfProduct
  <2>5. PartOf(new_frame, 0)
    BY <2>1, <2>4 DEF PartOf, from_timestamp
  <2>. QED BY <2>1, <2>2, <2>3, <2>5 DEF Current
<1>2. CASE ~ mf
  BY <1>2 DEF new_frame, mf, TypeOK
<1>. QED BY <1>1, <1>2

(* What it is with the bit of this frame: nothing is collected into an old   *)
(* one, and into a current one the bit that is sent.                        *)
LEMMA Collecting ==
  ASSUME BitsInv, NEW frame \in RobbedBitFrames, NEW bit \in LowBits, Current(frame)
  PROVE  /\ collected(frame, bit) \in RobbedBitFrames
         /\ PartOf(collected(frame, bit), position + 1)
<1>. DEFINE k == position \div FramesPerBit
            after == collected(frame, bit)
<1>. USE Superframe
<1>1. position \in 0 .. SuperframeLength - 1 /\ position \in Nat /\ sent \in SignalingValues
  BY DEF BitsInv, TypeOK
<1>2. k \in 0 .. Bits - 1
  BY <1>1, BitOfPosition
<1>3. (position + 1) \div FramesPerBit
        = IF position % FramesPerBit = FramesPerBit - 1 THEN k + 1 ELSE k
  BY <1>1, QuotientOfNext
<1>4. wrapping_sub(frame_count, frame.superframe_frame_count) = position
  BY DEF Current, age
<1>5. CASE position % FramesPerBit = FramesPerBit - 1
  <2>1. bit = sent[k + 1] /\ bit \in {0, 1}
    BY <1>1, <1>2, <1>5 DEF LowBits, SignalingValues
  <2>2. after = [frame EXCEPT !.bits_collected = @ \union {k},
                              !.timeslot = Append(@, bit)]
    BY <1>1, <1>4, <1>5 DEF collected, collects
  <2>3. /\ after.bits_collected = frame.bits_collected \union {k}
        /\ after.timeslot = Append(frame.timeslot, bit)
        /\ after \in RobbedBitFrames
    <3>1. /\ frame.timeslot \in Seq({0, 1}) /\ frame.bits_collected \subseteq 0 .. Bits - 1
          /\ frame.superframe_frame_count \in Counts
      BY DEF RobbedBitFrames
    <3>2. after = [timeslot |-> Append(frame.timeslot, bit),
                   superframe_frame_count |-> frame.superframe_frame_count,
                   bits_collected |-> frame.bits_collected \union {k}]
      BY <2>2 DEF RobbedBitFrames
    <3>3. Append(frame.timeslot, bit) \in Seq({0, 1})
      BY <2>1, <3>1
    <3>4. frame.bits_collected \union {k} \in SUBSET (0 .. Bits - 1)
      BY <1>2, <3>1
    <3>. QED BY <3>1, <3>2, <3>3, <3>4 DEF RobbedBitFrames
  <2>4. frame.bits_collected \subseteq 0 .. k - 1
    BY DEF Current, PartOf
  <2>5. ASSUME after.bits_collected = 0 .. (k + 1) - 1
        PROVE  /\ Len(after.timeslot) = k + 1
               /\ \A i \in 1 .. k + 1 : after.timeslot[i] = sent[i]
    <3>1. frame.bits_collected = 0 .. k - 1
      <4>1. ASSUME NEW i \in 0 .. k - 1 PROVE i \in frame.bits_collected
        <5>1. i \in after.bits_collected /\ i # k
          BY <1>2, <2>5
        <5>. QED BY <2>3, <5>1
      <4>. QED BY <2>4, <4>1
    <3>2. Len(frame.timeslot) = k /\ \A i \in 1 .. k : frame.timeslot[i] = sent[i]
      BY <3>1 DEF Current, PartOf
    <3>3. frame.timeslot \in Seq({0, 1})
      BY DEF RobbedBitFrames
    <3>. QED BY <1>2, <2>1, <2>3, <3>2, <3>3
  <2>6. after.bits_collected \subseteq 0 .. (k + 1) - 1
    BY <1>2, <2>3, <2>4
  <2>. QED BY <1>3, <1>5, <2>3, <2>5, <2>6 DEF PartOf
<1>6. CASE position % FramesPerBit # FramesPerBit - 1
  <2>1. after = frame
    BY <1>4, <1>6 DEF collected, collects
  <2>. QED BY <1>3, <1>6, <2>1 DEF Current, PartOf
<1>. QED BY <1>5, <1>6

(* A frame that is lost leaves a gap that does not close. *)
LEMMA Missing ==
  ASSUME BitsInv, NEW frame \in RobbedBitFrames, Current(frame)
  PROVE  PartOf(frame, position + 1)
<1>. DEFINE k == position \div FramesPerBit
<1>. USE Superframe
<1>1. position \in 0 .. SuperframeLength - 1 /\ position \in Nat
  BY DEF BitsInv, TypeOK
<1>2. k \in 0 .. Bits - 1
  BY <1>1, BitOfPosition
<1>3. (position + 1) \div FramesPerBit
        = IF position % FramesPerBit = FramesPerBit - 1 THEN k + 1 ELSE k
  BY <1>1, QuotientOfNext
<1>4. frame.bits_collected \subseteq 0 .. k - 1
  BY DEF Current, PartOf
<1>5. k \notin frame.bits_collected
  BY <1>2, <1>4
<1>6. CASE position % FramesPerBit = FramesPerBit - 1
  <2>1. frame.bits_collected # 0 .. (k + 1) - 1
    BY <1>2, <1>5
  <2>2. frame.bits_collected \subseteq 0 .. (k + 1) - 1
    BY <1>2, <1>4
  <2>. QED BY <1>3, <1>6, <2>1, <2>2 DEF PartOf
<1>7. CASE position % FramesPerBit # FramesPerBit - 1
  BY <1>3, <1>7 DEF Current, PartOf
<1>. QED BY <1>6, <1>7

(* The line goes on: an accumulator with this frame becomes one that is old  *)
(* when the superframe ends, and stays of it until then.                    *)
LEMMA AdvanceKeeps ==
  ASSUME BitsInv, Advance, NEW frame \in RobbedBitFrames, accumulator' = frame,
         \/ age(frame) = position /\ PartOf(frame, position + 1)
         \/ Old(frame) /\ position > 0
         \/ Old(frame) /\ age(frame) + SuperframeLength < CountMod
  PROVE  /\ frame_count' \in Counts /\ position' \in 0 .. SuperframeLength - 1
         /\ sent' \in SignalingValues
         /\ (Old(accumulator) \/ (Current(accumulator) /\ position > 0))'
<1>. USE Superframe
<1>1. /\ frame_count \in Counts /\ frame.superframe_frame_count \in Counts
      /\ position \in 0 .. SuperframeLength - 1 /\ sent \in SignalingValues
  BY DEF BitsInv, TypeOK, RobbedBitFrames
<1>2. age(frame) \in Counts /\ Plus(frame_count, 1) \in Counts
  BY <1>1, AgeIs DEF age
<1>3. age(frame) + 1 < CountMod
  BY <1>1, <1>2 DEF Old, Counts
<1>4. wrapping_sub(frame_count', frame.superframe_frame_count) = age(frame) + 1
  BY <1>1, <1>3, AgeIs DEF Advance, age
<1>5. age(accumulator)' = age(frame) + 1
  BY <1>4 DEF age
<1>6. /\ frame_count' \in Counts /\ position' \in 0 .. SuperframeLength - 1
      /\ sent' \in SignalingValues
  BY <1>1, <1>2 DEF Advance
<1>7. CASE position = SuperframeLength - 1
  <2>1. position' = 0
    BY <1>7 DEF Advance
  <2>2. age(frame) + 1 >= SuperframeLength
    BY <1>2, <1>7 DEF Old, Counts
  <2>3. Old(accumulator)'
    BY <1>5, <2>1, <2>2 DEF Old
  <2>. QED BY <1>6, <2>3
<1>8. CASE position # SuperframeLength - 1
  <2>1. position' = position + 1 /\ sent' = sent
    BY <1>8 DEF Advance
  <2>2. CASE age(frame) = position /\ PartOf(frame, position + 1)
    <3>1. age(accumulator)' = position' /\ position' > 0
      BY <1>1, <1>5, <2>1, <2>2
    <3>2. PartOf(accumulator, position)'
      BY <2>1, <2>2 DEF PartOf
    <3>. QED BY <1>6, <3>1, <3>2 DEF Current
  <2>3. CASE Old(frame) /\ (position > 0 \/ age(frame) + SuperframeLength < CountMod)
    <3>1. /\ age(frame) + 1 >= SuperframeLength
          /\ (age(frame) + 1) + SuperframeLength - (position + 1) < CountMod
      BY <1>1, <1>2, <2>3 DEF Old, Counts
    <3>2. Old(accumulator)'
      BY <1>5, <2>1, <3>1 DEF Old
    <3>. QED BY <1>6, <3>2
  <2>. QED BY <2>2, <2>3
<1>. QED BY <1>7, <1>8

(* What is accepted is what the line sent in the superframe that ends. *)
LEMMA ValidIsSent ==
  ASSUME BitsInv, NEW frame \in RobbedBitFrames, valid(frame),
         \/ age(frame) = position /\ PartOf(frame, position + 1)
         \/ age(frame) >= SuperframeLength
  PROVE  /\ frame.timeslot = sent
         /\ Plus(frame.superframe_frame_count, position) = frame_count
<1>. USE Superframe
<1>1. /\ frame_count \in Counts /\ frame.superframe_frame_count \in Counts
      /\ sent \in SignalingValues /\ frame.timeslot \in Seq({0, 1})
  BY DEF BitsInv, TypeOK, RobbedBitFrames
<1>2. age(frame) = SuperframeLength - 1
  BY DEF valid, age
<1>3. position = SuperframeLength - 1 /\ PartOf(frame, SuperframeLength)
  BY <1>2
<1>4. Len(frame.timeslot) = Bits /\ \A i \in 1 .. Bits : frame.timeslot[i] = sent[i]
  BY <1>3 DEF PartOf, valid
<1>5. frame.timeslot = sent
  BY <1>1, <1>4 DEF SignalingValues
<1>. QED BY <1>1, <1>2, <1>3, <1>5, AgeIs DEF age

-----------------------------------------------------------------------------
(* What Hear makes of its frame, with the bit it carries. *)
LEMMA HeardFrame ==
  ASSUME BitsInv, NEW bit \in LowBits
  PROVE  LET frame == collected(new_frame, bit)
         IN  /\ frame \in RobbedBitFrames
             /\ \/ age(frame) = position /\ PartOf(frame, position + 1)
                \/ Old(frame) /\ position > 0
             /\ valid(frame) => /\ frame.timeslot = sent
                                /\ Plus(frame.superframe_frame_count, position) = frame_count
<1>. DEFINE frame == collected(new_frame, bit)
<1>1. new_frame \in RobbedBitFrames
  BY NewFrame
<1>2. frame.superframe_frame_count = new_frame.superframe_frame_count
  BY <1>1 DEF collected, RobbedBitFrames
<1>3. age(frame) = age(new_frame)
  BY <1>2 DEF age
<1>4. CASE Current(new_frame)
  <2>1. frame \in RobbedBitFrames /\ PartOf(frame, position + 1)
    BY <1>1, <1>4, Collecting
  <2>2. age(frame) = position
    BY <1>3, <1>4 DEF Current
  <2>. QED BY <2>1, <2>2, ValidIsSent
<1>5. CASE position > 0 /\ Old(new_frame)
  <2>1. age(new_frame) \in Counts
    BY <1>1, AgeIs DEF age, RobbedBitFrames, BitsInv, TypeOK
  <2>2. ~ collects(new_frame)
    BY <1>5, <2>1, Superframe DEF collects, Old, age, Counts
  <2>3. frame = new_frame
    BY <2>2 DEF collected
  <2>4. ~ valid(frame)
    BY <1>5, <2>1, <2>3, Superframe DEF valid, Old, age, Counts
  <2>. QED BY <1>1, <1>5, <2>3, <2>4
<1>. QED BY <1>4, <1>5, NewFrame

LEMMA HearKeeps ==
  ASSUME BitsInv, Hear
  PROVE  BitsInv'
<1>1. PICK bit \in LowBits :
        LET frame == collected(new_frame, bit)
        IN  /\ accumulator' = frame
            /\ history' = next_history(frame)
            /\ IF changes(frame)
               THEN /\ state' = frame.timeslot
                    /\ events' = Append(events, <<history.superframe_frame_count, frame.timeslot>>)
               ELSE UNCHANGED <<state, events>>
  BY DEF Hear
<1>. DEFINE frame == collected(new_frame, bit)
<1>2. /\ frame \in RobbedBitFrames
      /\ \/ age(frame) = position /\ PartOf(frame, position + 1)
         \/ Old(frame) /\ position > 0
      /\ valid(frame) => frame.timeslot = sent
  BY HeardFrame
<1>. HIDE DEF frame
<1>3. accumulator' = frame /\ history' = next_history(frame)
  BY <1>1 DEF frame
<1>4. Advance
  BY DEF Hear
<1>5. /\ frame_count' \in Counts /\ position' \in 0 .. SuperframeLength - 1
      /\ sent' \in SignalingValues
      /\ (Old(accumulator) \/ (Current(accumulator) /\ position > 0))'
  BY <1>2, <1>3, <1>4, AdvanceKeeps
<1>6. accumulator' \in RobbedBitFrames /\ history' \in RobbedBitFrames /\ history'.timeslot \in SignalingValues
  BY <1>2, <1>3 DEF next_history, BitsInv, TypeOK
<1>7. state' \in SignalingValues /\ events' \in Seq(Counts \X SignalingValues)
  <2>1. CASE changes(frame)
    <3>1. /\ frame.timeslot \in SignalingValues
          /\ history.superframe_frame_count \in Counts
          /\ events \in Seq(Counts \X SignalingValues)
      BY <1>2, <2>1 DEF changes, BitsInv, TypeOK
    <3>2. /\ state' = frame.timeslot
          /\ events' = Append(events, <<history.superframe_frame_count, frame.timeslot>>)
      BY <1>1, <2>1 DEF frame
    <3>. QED BY <3>1, <3>2
  <2>2. CASE ~ changes(frame)
    BY <1>1, <2>2 DEF frame, BitsInv, TypeOK
  <2>. QED BY <2>1, <2>2
<1>8. line_state' \in SignalingValues /\ lost' \in BOOLEAN
  BY DEF Hear, BitsInv, TypeOK
<1>9. \A one \in {accumulator', history'} :
        /\ one.superframe_frame_count \in Counts
        /\ one.bits_collected \subseteq 0 .. Bits - 1
  BY <1>6 DEF RobbedBitFrames
<1>10. TypeOK'
  BY <1>5, <1>6, <1>7, <1>8, <1>9 DEF TypeOK
<1>. QED BY <1>5, <1>6, <1>10 DEF BitsInv

LEMMA LoseKeeps ==
  ASSUME BitsInv, Lose
  PROVE  BitsInv'
<1>1. /\ accumulator \in RobbedBitFrames /\ accumulator' = accumulator /\ Advance
      /\ UNCHANGED <<state, history, events, line_state>> /\ lost' = TRUE
  BY DEF Lose, BitsInv, debouncer_vars
<1>2. position \in 0 .. SuperframeLength - 1
  BY DEF BitsInv, TypeOK
<1>3. \/ age(accumulator) = position /\ PartOf(accumulator, position + 1)
      \/ Old(accumulator) /\ position > 0
      \/ Old(accumulator) /\ age(accumulator) + SuperframeLength < CountMod
  <2>1. CASE Current(accumulator)
    BY <1>1, <2>1, Missing DEF Current
  <2>2. CASE Old(accumulator) /\ position > 0
    BY <2>2
  <2>3. CASE Old(accumulator) /\ position = 0
    BY <2>3 DEF Lose, mf, age
  <2>. QED BY <1>2, <2>1, <2>2, <2>3, Superframe DEF BitsInv
<1>4. /\ frame_count' \in Counts /\ position' \in 0 .. SuperframeLength - 1
      /\ sent' \in SignalingValues
      /\ (Old(accumulator) \/ (Current(accumulator) /\ position > 0))'
  BY <1>1, <1>3, AdvanceKeeps
<1>5. TypeOK'
  BY <1>1, <1>4 DEF BitsInv, TypeOK
<1>. QED BY <1>1, <1>4, <1>5 DEF BitsInv

LEMMA MonitorKeeps ==
  ASSUME BitsInv, Monitor
  PROVE  BitsInv'
<1>1. UNCHANGED <<frame_count, position, sent, state, accumulator, history, lost>>
  BY DEF Monitor, line_vars, debouncer_vars
<1>2. /\ events \in Seq(Counts \X SignalingValues) /\ events # << >>
      /\ events' = Tail(events) /\ line_state' = set_state(Head(events))
  BY DEF Monitor, BitsInv, TypeOK
<1>3. events' \in Seq(Counts \X SignalingValues) /\ Head(events) \in Counts \X SignalingValues
  BY <1>2
<1>4. line_state' \in SignalingValues
  BY <1>2, <1>3 DEF set_state, BitsInv, TypeOK
<1>5. TypeOK'
  BY <1>1, <1>3, <1>4 DEF BitsInv, TypeOK
<1>6. (Old(accumulator) \/ (Current(accumulator) /\ position > 0))'
  BY <1>1 DEF BitsInv, Old, Current, PartOf, age
<1>. QED BY <1>1, <1>5, <1>6 DEF BitsInv

LEMMA BitsInvNext == BitsInv /\ [Next]_vars => BitsInv'
<1> SUFFICES ASSUME BitsInv, [Next]_vars PROVE BitsInv'
  OBVIOUS
<1>1. CASE Hear
  BY <1>1, HearKeeps
<1>2. CASE Lose
  BY <1>2, LoseKeeps
<1>3. CASE Monitor
  BY <1>3, MonitorKeeps
<1>4. CASE UNCHANGED vars
  BY <1>4 DEF vars, line_vars, debouncer_vars, BitsInv, TypeOK, Old, Current, PartOf, age
<1> QED
  BY <1>1, <1>2, <1>3, <1>4 DEF Next

(* The types, the frames that are put together and what they hold, of the    *)
(* whole of a behaviour.                                                    *)
THEOREM BitsInvCorrect == Spec => []BitsInv
<1> QED
  BY BitsInvInit, BitsInvNext, PTL DEF Spec

(* The same with what RobbedBit states of the types, whichever frames are    *)
(* lost: an accepted value has all its bits.                                *)
THEOREM BitsTypeCorrect == Spec => []TypeOK
<1>1. BitsInv => TypeOK
  BY DEF BitsInv
<1> QED BY <1>1, BitsInvCorrect, PTL

-----------------------------------------------------------------------------
(* Whichever frames are lost, an accepted value is that of one superframe,   *)
(* and has the number of its first frame.                                   *)
THEOREM AcceptedIsSentHolds == Spec => AcceptedIsSent
<1>1. BitsInv /\ [Next]_vars
        => [history' # history
              => /\ history'.timeslot = sent
                 /\ Plus(history'.superframe_frame_count, position) = frame_count]_vars
  <2> SUFFICES ASSUME BitsInv, Next, history' # history
               PROVE  /\ history'.timeslot = sent
                      /\ Plus(history'.superframe_frame_count, position) = frame_count
    OBVIOUS
  <2>1. Hear
    BY DEF Next, Lose, Monitor, debouncer_vars
  <2>2. PICK bit \in LowBits : history' = next_history(collected(new_frame, bit))
    BY <2>1 DEF Hear
  <2>3. valid(collected(new_frame, bit)) /\ history' = collected(new_frame, bit)
    BY <2>2 DEF next_history
  <2> QED
    BY <2>3, HeardFrame
<1> QED
  BY <1>1, BitsInvCorrect, PTL DEF Spec, AcceptedIsSent

(* A change is told only of a value that two superframes in turn, of those    *)
(* that were complete, have sent.                                           *)
THEOREM ChangesHeardTwiceHolds == Spec => ChangesHeardTwice
<1>1. BitsInv /\ [Next]_vars
        => [Len(events') > Len(events)
              => /\ sent # state /\ sent = history.timeslot
                 /\ events'[Len(events')] = <<history.superframe_frame_count, sent>>]_vars
  <2> SUFFICES ASSUME BitsInv, Next, Len(events') > Len(events)
               PROVE  /\ sent # state /\ sent = history.timeslot
                      /\ events'[Len(events')] = <<history.superframe_frame_count, sent>>
    OBVIOUS
  <2>1. events \in Seq(Counts \X SignalingValues)
    BY DEF BitsInv, TypeOK
  <2>2. Hear
    <3>1. ~ Monitor
      BY <2>1 DEF Monitor
    <3>2. ~ Lose
      BY <2>1 DEF Lose
    <3> QED
      BY <3>1, <3>2 DEF Next
  <2>3. PICK bit \in LowBits :
          LET frame == collected(new_frame, bit)
          IN  IF changes(frame)
              THEN events' = Append(events, <<history.superframe_frame_count, frame.timeslot>>)
              ELSE events' = events
    BY <2>2 DEF Hear
  <2> DEFINE frame == collected(new_frame, bit)
  <2>4. changes(frame)
        /\ events' = Append(events, <<history.superframe_frame_count, frame.timeslot>>)
    BY <2>1, <2>3
  <2>5. frame.timeslot = sent
    BY <2>4, HeardFrame DEF changes
  <2>6. history.superframe_frame_count \in Counts /\ sent \in SignalingValues
    BY DEF BitsInv, TypeOK
  <2> HIDE DEF frame
  <2> QED
    BY <2>1, <2>4, <2>5, <2>6 DEF changes
<1> QED
  BY <1>1, BitsInvCorrect, PTL DEF Spec, ChangesHeardTwice

-----------------------------------------------------------------------------
(* The thread does a step of the half that is followed: each half's theorems *)
(* are the thread's.                                                        *)
LEMMA HalvesFollowed == SignalingSpec => Spec /\ DtmfSpec
<1>1. SignalingInit => Init /\ DtmfInit
  BY DEF SignalingInit
<1>2. [SignalingNext]_signaling_vars => [Next]_vars
  BY DEF SignalingNext, signaling_vars
<1>3. [SignalingNext]_signaling_vars => [advance]_dtmf_vars
  BY DEF SignalingNext, signaling_vars
<1> QED
  BY <1>1, <1>2, <1>3, PTL DEF SignalingSpec, Spec, DtmfSpec

(* What the thread reports and accepts, of digits and of bits, was on the    *)
(* line, and none of its assertions fails.                                  *)
THEOREM SignalingIsHeard ==
  SignalingSpec => /\ []NeverAsserts /\ []ReportedWasKeyed /\ []PressReportedOnce
                   /\ AcceptedIsSent /\ ChangesHeardTwice
<1> QED
  BY HalvesFollowed, AssertionsHold, ReportsKeyed, PressesReportedOnce, AcceptedIsSentHolds,
     ChangesHeardTwiceHolds, PTL

-----------------------------------------------------------------------------
(* The pump.  A completed transfer that waits for its callback. *)
FifoLevels == 0 .. TxFrames \cup {NoLevel}
Completions ==
  [handler : {"in", "out"}, packets : [done : 0 .. Packets, frames : 0 .. 2 * Packets, level : FifoLevels]]

(* The transfers submitted after each of the callbacks that wait: once all   *)
(* have run, every transfer is submitted again.                             *)
Returned(queue, submitted_in, submitted_out) ==
  \E ins, outs \in [0 .. Len(queue) -> Int] :
    /\ ins[0] = submitted_in /\ outs[0] = submitted_out
    /\ ins[Len(queue)] = Transfers /\ outs[Len(queue)] = Transfers
    /\ \A i \in 1 .. Len(queue) :
         IF queue[i].handler = "in" THEN ins[i] = ins[i - 1] + 1 /\ outs[i] = outs[i - 1]
                                    ELSE outs[i] = outs[i - 1] + 1 /\ ins[i] = ins[i - 1]
    /\ \A i \in 0 .. Len(queue) :
         ins[i] <= Transfers /\ outs[i] <= Transfers
         /\ ins[i] + outs[i] + (Len(queue) - i) = 2 * Transfers

TransfersInv == Returned(completed, transfers_in, Len(transfers_out))

PumpTypes ==
  /\ fifo_rx_level \in 0 .. RxFrames /\ fifo_tx_level \in 0 .. TxFrames
  /\ disturbances \in 0 .. MaxDisturbances
  /\ transfers_in \in Nat /\ packet_out \in 0 .. Packets - 1
  /\ packet_in \in [done : 0 .. Packets - 1, frames : 0 .. 2 * Packets, level : FifoLevels]
  /\ packet_in.frames <= 2 * packet_in.done
  /\ transfers_out \in Seq([PacketIds -> 0 .. 2])
  /\ completed \in Seq(Completions)
  /\ processed_frames \in 0 .. Ring
  /\ tx_fifo_level_min \in FifoLevels
PumpSwitches == starved \in BOOLEAN /\ panicked \in BOOLEAN /\ ran_dry \in BOOLEAN

PumpInv == PumpTypes /\ PumpSwitches /\ TransfersInv

(* The level of the ring, in transfers of two frames a packet, after each of *)
(* the callbacks that wait, and last after all of them.                     *)
Fits(queue, frames, last) ==
  \E level \in [0 .. Len(queue) -> 0 .. 2] :
    /\ frames <= 2 * Packets * level[0] /\ level[Len(queue)] = last
    /\ \A i \in 1 .. Len(queue) :
         level[i] = IF queue[i].handler = "in" THEN level[i - 1] + 1 ELSE Less(level[i - 1], 1)

(* An IN transfer is not further into its packets than an OUT transfer, but  *)
(* for the one that the ring has room for.                                  *)
RingInv ==
  \E last \in 0 .. 2 :
    /\ Fits(completed, processed_frames, last)
    /\ Packets * last + packet_in.done <= Packets + packet_out

-----------------------------------------------------------------------------
LEMMA ReturnedAtStart == Returned(<< >>, Transfers, Transfers)
<1> DEFINE all == [i \in 0 .. Len(<< >>) |-> Transfers]
<1>1. /\ all \in [0 .. Len(<< >>) -> Int]
      /\ all[0] = Transfers /\ all[Len(<< >>)] = Transfers
  BY PumpAssumption
<1>2. /\ \A i \in 0 .. Len(<< >>) :
           all[i] <= Transfers /\ all[i] + all[i] + (Len(<< >>) - i) = 2 * Transfers
      /\ 1 .. Len(<< >>) = {}
  BY PumpAssumption
<1> HIDE DEF all
<1> QED
  BY <1>1, <1>2, Zenon DEF Returned

LEMMA ReturnedAppend ==
  ASSUME NEW S, NEW queue \in Seq(S), NEW a \in Int, NEW b \in Int, Returned(queue, a, b), NEW e
  PROVE  IF e.handler = "in" THEN Returned(Append(queue, e), a - 1, b)
                             ELSE Returned(Append(queue, e), a, b - 1)
<1> DEFINE size == Len(queue)
           q == Append(queue, e)
           in == IF e.handler = "in" THEN 1 ELSE 0
           out == 1 - in
<1>1. PICK ins \in [0 .. size -> Int], outs \in [0 .. size -> Int] :
        /\ ins[0] = a /\ outs[0] = b /\ ins[size] = Transfers /\ outs[size] = Transfers
        /\ \A i \in 1 .. size :
             IF queue[i].handler = "in" THEN ins[i] = ins[i - 1] + 1 /\ outs[i] = outs[i - 1]
                                        ELSE outs[i] = outs[i - 1] + 1 /\ ins[i] = ins[i - 1]
        /\ \A i \in 0 .. size :
             ins[i] <= Transfers /\ outs[i] <= Transfers
             /\ ins[i] + outs[i] + (size - i) = 2 * Transfers
  BY DEF Returned
<1> DEFINE ins2 == [i \in 0 .. size + 1 |-> IF i <= size THEN ins[i] - in ELSE Transfers]
           outs2 == [i \in 0 .. size + 1 |-> IF i <= size THEN outs[i] - out ELSE Transfers]
<1>2. /\ size \in Nat /\ Len(q) = size + 1 /\ q[size + 1] = e
      /\ \A i \in 1 .. size : q[i] = queue[i]
  OBVIOUS
<1>3. /\ ins2 \in [0 .. size + 1 -> Int] /\ outs2 \in [0 .. size + 1 -> Int]
      /\ ins2[0] = a - in /\ outs2[0] = b - out
      /\ ins2[size + 1] = Transfers /\ outs2[size + 1] = Transfers
  BY <1>1, <1>2, PumpAssumption
<1>4. ASSUME NEW i \in 1 .. size + 1
      PROVE  IF q[i].handler = "in" THEN ins2[i] = ins2[i - 1] + 1 /\ outs2[i] = outs2[i - 1]
                                    ELSE outs2[i] = outs2[i - 1] + 1 /\ ins2[i] = ins2[i - 1]
  <2>1. CASE i = size + 1
    BY <2>1, <1>1, <1>2, PumpAssumption
  <2>2. CASE i # size + 1
    <3>1. i \in 1 .. size /\ i - 1 \in 0 .. size /\ q[i] = queue[i]
      BY <2>2, <1>2
    <3>2. ins2[i] = ins[i] - in /\ ins2[i - 1] = ins[i - 1] - in
          /\ outs2[i] = outs[i] - out /\ outs2[i - 1] = outs[i - 1] - out
      BY <3>1, <1>2
    <3>3. ins[i] \in Int /\ ins[i - 1] \in Int /\ outs[i] \in Int /\ outs[i - 1] \in Int
          /\ in \in Int /\ out \in Int
      BY <3>1, <1>1
    <3>4. IF q[i].handler = "in" THEN ins[i] = ins[i - 1] + 1 /\ outs[i] = outs[i - 1]
                                 ELSE outs[i] = outs[i - 1] + 1 /\ ins[i] = ins[i - 1]
      BY <3>1, <1>1
    <3> HIDE DEF ins2, outs2, in, out, q, size
    <3>5. CASE q[i].handler = "in"
      <4>1. ins[i] = ins[i - 1] + 1 /\ outs[i] = outs[i - 1]
        BY <3>4, <3>5
      <4> QED
        BY <3>2, <3>3, <3>5, <4>1
    <3>6. CASE q[i].handler # "in"
      <4>1. outs[i] = outs[i - 1] + 1 /\ ins[i] = ins[i - 1]
        BY <3>4, <3>6
      <4> QED
        BY <3>2, <3>3, <3>6, <4>1
    <3> QED
      BY <3>5, <3>6
  <2> QED
    BY <2>1, <2>2
<1>5. ASSUME NEW i \in 0 .. size
      PROVE  ins2[i] <= Transfers /\ outs2[i] <= Transfers
             /\ ins2[i] + outs2[i] + (size + 1 - i) = 2 * Transfers
  <2>1. ins2[i] = ins[i] - in /\ outs2[i] = outs[i] - out
    BY <1>2
  <2>2. in \in 0 .. 1 /\ out \in 0 .. 1 /\ in + out = 1 /\ size \in Nat /\ Transfers \in Nat
    BY <1>2, PumpAssumption
  <2>3. /\ ins[i] \in Int /\ outs[i] \in Int /\ ins[i] <= Transfers /\ outs[i] <= Transfers
        /\ ins[i] + outs[i] + (size - i) = 2 * Transfers
    BY <1>1
  <2>4. ASSUME NEW x \in Int, NEW y \in Int, x <= Transfers, y <= Transfers,
               x + y + (size - i) = 2 * Transfers
        PROVE  (x - in) <= Transfers /\ (y - out) <= Transfers
               /\ (x - in) + (y - out) + (size + 1 - i) = 2 * Transfers
    <3> HIDE DEF in, out, size
    <3> QED
      BY <2>2, <2>4
  <2> HIDE DEF ins2, outs2, in, out, q, size
  <2>5. (ins[i] - in) <= Transfers /\ (outs[i] - out) <= Transfers
        /\ (ins[i] - in) + (outs[i] - out) + (size + 1 - i) = 2 * Transfers
    BY <2>3, <2>4, Zenon
  <2> QED
    BY <2>1, <2>5, Zenon
<1>6. ASSUME NEW i \in 0 .. Len(q)
      PROVE  ins2[i] <= Transfers /\ outs2[i] <= Transfers
             /\ ins2[i] + outs2[i] + (Len(q) - i) = 2 * Transfers
  <2>1. i \in 0 .. size \/ i = size + 1
    BY <1>2
  <2>2. CASE i = size + 1
    BY <2>2, <1>2, <1>3, PumpAssumption
  <2>3. CASE i \in 0 .. size
    <3>1. Len(q) - i = size + 1 - i
      BY <1>2
    <3> HIDE DEF ins2, outs2, q, size
    <3>2. ins2[i] <= Transfers /\ outs2[i] <= Transfers
          /\ ins2[i] + outs2[i] + (size + 1 - i) = 2 * Transfers
      BY <2>3, <1>5, Zenon
    <3> QED
      BY <3>1, <3>2, Zenon
  <2> QED
    BY <2>1, <2>2, <2>3
<1> HIDE DEF ins2, outs2, q, size
<1>7. /\ ins2 \in [0 .. Len(q) -> Int] /\ outs2 \in [0 .. Len(q) -> Int]
      /\ ins2[0] = a - in /\ outs2[0] = b - out
      /\ ins2[Len(q)] = Transfers /\ outs2[Len(q)] = Transfers
      /\ 1 .. Len(q) = 1 .. size + 1
  BY <1>2, <1>3
<1> HIDE DEF in, out
<1>8. Returned(q, a - in, b - out)
  BY <1>4, <1>6, <1>7, Zenon DEF Returned
<1> QED
  BY <1>8 DEF q, in, out

LEMMA ReturnedTail ==
  ASSUME NEW S, NEW queue \in Seq(S), queue # << >>, NEW a \in Int, NEW b \in Int,
         Returned(queue, a, b)
  PROVE  IF Head(queue).handler = "in" THEN Returned(Tail(queue), a + 1, b)
                                       ELSE Returned(Tail(queue), a, b + 1)
<1> DEFINE size == Len(queue)
           q == Tail(queue)
           in == IF Head(queue).handler = "in" THEN 1 ELSE 0
<1>1. PICK ins \in [0 .. size -> Int], outs \in [0 .. size -> Int] :
        /\ ins[0] = a /\ outs[0] = b /\ ins[size] = Transfers /\ outs[size] = Transfers
        /\ \A i \in 1 .. size :
             IF queue[i].handler = "in" THEN ins[i] = ins[i - 1] + 1 /\ outs[i] = outs[i - 1]
                                        ELSE outs[i] = outs[i - 1] + 1 /\ ins[i] = ins[i - 1]
        /\ \A i \in 0 .. size :
             ins[i] <= Transfers /\ outs[i] <= Transfers
             /\ ins[i] + outs[i] + (size - i) = 2 * Transfers
  BY DEF Returned
<1>2. /\ size \in Nat /\ size >= 1 /\ Len(q) = size - 1 /\ Head(queue) = queue[1]
      /\ \A i \in 1 .. size - 1 : q[i] = queue[i + 1]
  OBVIOUS
<1> DEFINE ins2 == [i \in 0 .. size - 1 |-> ins[i + 1]]
           outs2 == [i \in 0 .. size - 1 |-> outs[i + 1]]
<1>3. /\ ins2 \in [0 .. size - 1 -> Int] /\ outs2 \in [0 .. size - 1 -> Int]
      /\ ins2[size - 1] = Transfers /\ outs2[size - 1] = Transfers
  BY <1>1, <1>2
<1>4. ins2[0] = a + in /\ outs2[0] = b + (1 - in)
  BY <1>1, <1>2
<1>5. ASSUME NEW i \in 1 .. size - 1
      PROVE  IF q[i].handler = "in" THEN ins2[i] = ins2[i - 1] + 1 /\ outs2[i] = outs2[i - 1]
                                    ELSE outs2[i] = outs2[i - 1] + 1 /\ ins2[i] = ins2[i - 1]
  <2>1. i + 1 \in 1 .. size /\ i - 1 \in 0 .. size - 1 /\ i \in 0 .. size - 1
        /\ q[i] = queue[i + 1] /\ (i + 1) - 1 = i /\ (i - 1) + 1 = i
    BY <1>2
  <2>2. ins2[i] = ins[i + 1] /\ ins2[i - 1] = ins[i] /\ outs2[i] = outs[i + 1] /\ outs2[i - 1] = outs[i]
    BY <2>1
  <2> HIDE DEF ins2, outs2, q, size
  <2> QED
    BY <1>1, <2>1, <2>2
<1>6. ASSUME NEW i \in 0 .. size - 1
      PROVE  ins2[i] <= Transfers /\ outs2[i] <= Transfers
             /\ ins2[i] + outs2[i] + (size - 1 - i) = 2 * Transfers
  <2>1. i + 1 \in 0 .. size /\ size - (i + 1) = size - 1 - i
        /\ ins2[i] = ins[i + 1] /\ outs2[i] = outs[i + 1]
    BY <1>2
  <2> HIDE DEF ins2, outs2, q, size
  <2> QED
    BY <1>1, <2>1
<1> HIDE DEF ins2, outs2, q, size
<1>7. /\ ins2 \in [0 .. Len(q) -> Int] /\ outs2 \in [0 .. Len(q) -> Int]
      /\ ins2[Len(q)] = Transfers /\ outs2[Len(q)] = Transfers
      /\ 1 .. Len(q) = 1 .. size - 1
  BY <1>2, <1>3
<1>9. ASSUME NEW i \in 0 .. Len(q)
      PROVE  ins2[i] <= Transfers /\ outs2[i] <= Transfers
             /\ ins2[i] + outs2[i] + (Len(q) - i) = 2 * Transfers
  <2>1. Len(q) = size - 1
    BY <1>2
  <2> HIDE DEF ins2, outs2, q, size
  <2> QED
    BY <2>1, <1>6, Zenon
<1> HIDE DEF in
<1>8. Returned(q, a + in, b + (1 - in))
  BY <1>4, <1>5, <1>7, <1>9, Zenon DEF Returned
<1> QED
  BY <1>8 DEF q, in

LEMMA ReturnedBounds ==
  ASSUME NEW S, NEW queue \in Seq(S), NEW a, NEW b, Returned(queue, a, b)
  PROVE  /\ a \in Int /\ b \in Int /\ a <= Transfers /\ b <= Transfers
         /\ a + b + Len(queue) = 2 * Transfers
<1>1. 0 \in 0 .. Len(queue) /\ Len(queue) \in Nat /\ Len(queue) - 0 = Len(queue)
  OBVIOUS
<1> QED
  BY <1>1 DEF Returned

-----------------------------------------------------------------------------
LEMMA FitsAtStart == Fits(<< >>, 0, 0)
<1> DEFINE q == << >>
           none == [i \in 0 .. Len(q) |-> 0]
<1>1. /\ none \in [0 .. Len(q) -> 0 .. 2]
      /\ 0 <= 2 * Packets * none[0] /\ none[Len(q)] = 0
      /\ 1 .. Len(q) = {}
  BY PumpAssumption
<1> HIDE DEF none, q
<1>2. Fits(q, 0, 0)
  BY <1>1, Zenon DEF Fits
<1> QED
  BY <1>2 DEF q

LEMMA FitsAppend ==
  ASSUME NEW S, NEW queue \in Seq(S), NEW frames, NEW last \in 0 .. 2,
         Fits(queue, frames, last), NEW e, e.handler = "in" => last <= 1
  PROVE  IF e.handler = "in" THEN Fits(Append(queue, e), frames, last + 1)
                             ELSE Fits(Append(queue, e), frames, Less(last, 1))
<1> DEFINE size == Len(queue)
           q == Append(queue, e)
           then == IF e.handler = "in" THEN last + 1 ELSE Less(last, 1)
<1>1. PICK level \in [0 .. size -> 0 .. 2] :
        /\ frames <= 2 * Packets * level[0] /\ level[size] = last
        /\ \A i \in 1 .. size :
             level[i] = IF queue[i].handler = "in" THEN level[i - 1] + 1 ELSE Less(level[i - 1], 1)
  BY DEF Fits
<1> DEFINE level2 == [i \in 0 .. size + 1 |-> IF i <= size THEN level[i] ELSE then]
<1>2. /\ size \in Nat /\ Len(q) = size + 1 /\ q[size + 1] = e
      /\ \A i \in 1 .. size : q[i] = queue[i]
  OBVIOUS
<1>3. then \in 0 .. 2
  BY DEF Less
<1>4. level2 \in [0 .. size + 1 -> 0 .. 2] /\ level2[0] = level[0] /\ level2[size + 1] = then
  BY <1>1, <1>2, <1>3
<1>5. ASSUME NEW i \in 1 .. size + 1
      PROVE  level2[i] = IF q[i].handler = "in" THEN level2[i - 1] + 1 ELSE Less(level2[i - 1], 1)
  <2>1. CASE i = size + 1
    <3>1. i - 1 = size /\ level2[i - 1] = last /\ q[i] = e /\ level2[i] = then
      BY <2>1, <1>1, <1>2, <1>4
    <3> QED
      BY <3>1
  <2>2. CASE i # size + 1
    <3>1. i \in 1 .. size /\ q[i] = queue[i] /\ level2[i] = level[i] /\ level2[i - 1] = level[i - 1]
      BY <2>2, <1>2
    <3> HIDE DEF level2, q, size
    <3> QED
      BY <3>1, <1>1
  <2> QED
    BY <2>1, <2>2
<1> HIDE DEF level2, q, size, then
<1>6. Fits(q, frames, then)
  BY <1>1, <1>2, <1>4, <1>5 DEF Fits
<1> QED
  BY <1>6 DEF q, then

(* The next callback finds room for two frames of each packet, or takes them.*)
LEMMA FitsTail ==
  ASSUME NEW S, NEW queue \in Seq(S), queue # << >>, NEW frames \in Nat, NEW last,
         Fits(queue, frames, last), NEW next \in Nat,
         next <= IF Head(queue).handler = "in" THEN frames + 2 * Packets ELSE left(frames)
  PROVE  Fits(Tail(queue), next, last) /\ next <= 4 * Packets
<1> DEFINE size == Len(queue)
           q == Tail(queue)
<1>1. PICK level \in [0 .. size -> 0 .. 2] :
        /\ frames <= 2 * Packets * level[0] /\ level[size] = last
        /\ \A i \in 1 .. size :
             level[i] = IF queue[i].handler = "in" THEN level[i - 1] + 1 ELSE Less(level[i - 1], 1)
  BY DEF Fits
<1>2. /\ size \in Nat /\ size >= 1 /\ Len(q) = size - 1 /\ Head(queue) = queue[1]
      /\ \A i \in 1 .. size - 1 : q[i] = queue[i + 1]
  OBVIOUS
<1> DEFINE level2 == [i \in 0 .. size - 1 |-> level[i + 1]]
<1>3. /\ level2 \in [0 .. size - 1 -> 0 .. 2] /\ level2[0] = level[1] /\ level2[size - 1] = last
  BY <1>1, <1>2
<1>4. /\ level[0] \in 0 .. 2 /\ level[1] \in 0 .. 2
      /\ level[1] = IF Head(queue).handler = "in" THEN level[0] + 1 ELSE Less(level[0], 1)
  BY <1>1, <1>2
<1>5. next <= 2 * Packets * level[1] /\ next <= 4 * Packets
  <2>1. level[0] = 0 \/ level[0] = 1 \/ level[0] = 2
    BY <1>4
  <2>2. level[1] = 0 \/ level[1] = 1 \/ level[1] = 2
    BY <1>4
  <2>3. Packets \in Nat /\ Packets >= 1
    BY PumpAssumption
  <2> QED
    BY <1>1, <1>4, <2>1, <2>2, <2>3 DEF Less, left
<1>6. ASSUME NEW i \in 1 .. size - 1
      PROVE  level2[i] = IF q[i].handler = "in" THEN level2[i - 1] + 1 ELSE Less(level2[i - 1], 1)
  <2>1. i + 1 \in 1 .. size /\ q[i] = queue[i + 1] /\ (i + 1) - 1 = i
        /\ level2[i] = level[i + 1] /\ level2[i - 1] = level[i]
    BY <1>2
  <2> HIDE DEF level2, q, size
  <2> QED
    BY <1>1, <2>1
<1> HIDE DEF level2, q, size
<1>7. Fits(q, next, last)
  BY <1>2, <1>3, <1>5, <1>6 DEF Fits
<1> QED
  BY <1>5, <1>7 DEF q

-----------------------------------------------------------------------------
LEMMA PumpInvInit == PumpInit => PumpInv
<1> SUFFICES ASSUME PumpInit PROVE PumpInv
  OBVIOUS
<1> USE PumpAssumption DEF PumpInit
<1>1. /\ transfers_out \in Seq([PacketIds -> 0 .. 2]) /\ Len(transfers_out) = Transfers
      /\ completed = << >> /\ completed \in Seq(Completions)
  BY DEF Unfilled, PacketIds
<1>2. PumpTypes
  BY <1>1 DEF PumpTypes, NoPackets, FifoLevels, NoLevel
<1>3. PumpSwitches
  BY DEF PumpSwitches
<1>4. TransfersInv
  BY <1>1, ReturnedAtStart DEF TransfersInv
<1> QED
  BY <1>2, <1>3, <1>4 DEF PumpInv

(* What the bus makes of the transfer under way. *)
LEMMA PacketInType ==
  ASSUME PumpTypes, NEW packet_lost \in BOOLEAN
  PROVE  /\ PacketIn(packet_lost) \in [done : 0 .. Packets, frames : 0 .. 2 * Packets, level : FifoLevels]
         /\ PacketIn(packet_lost).done = packet_in.done + 1
         /\ PacketIn(packet_lost).frames <= 2 * (packet_in.done + 1)
<1>1. /\ packet_in.done \in 0 .. Packets - 1 /\ packet_in.frames \in Nat
      /\ packet_in.level \in FifoLevels /\ fifo_tx_level \in FifoLevels
      /\ packet_in.frames <= 2 * packet_in.done
  BY DEF PumpTypes, FifoLevels
<1>2. AtMost(packet_in.level, fifo_tx_level) \in FifoLevels
  BY <1>1, Zenon DEF AtMost
<1>3. RxPacket \in 0 .. 2
  BY DEF RxPacket, AtMost, PumpTypes
<1> DEFINE taken == packet_in.frames + (IF packet_lost THEN 0 ELSE RxPacket)
           lowest == IF packet_lost THEN packet_in.level ELSE AtMost(packet_in.level, fifo_tx_level)
<1>4. taken \in 0 .. 2 * Packets /\ taken <= 2 * (packet_in.done + 1)
  BY <1>1, <1>3, PumpAssumption
<1>5. lowest \in FifoLevels
  BY <1>1, <1>2, Zenon
<1>6. PacketIn(packet_lost) = [done |-> packet_in.done + 1, frames |-> taken, level |-> lowest]
  BY DEF PacketIn
<1>7. packet_in.done + 1 \in 0 .. Packets
  BY <1>1, PumpAssumption
<1> HIDE DEF taken, lowest
<1> QED
  BY <1>4, <1>5, <1>6, <1>7

Happened(of_in, of_out) ==
  \/ ~InCompletes /\ ~OutCompletes /\ completed' = completed
  \/ InCompletes /\ ~OutCompletes /\ completed' = Append(completed, of_in)
  \/ ~InCompletes /\ OutCompletes /\ completed' = Append(completed, of_out)
  \/ InCompletes /\ OutCompletes /\ completed' = Append(Append(completed, of_in), of_out)
  \/ InCompletes /\ OutCompletes /\ completed' = Append(Append(completed, of_out), of_in)

LEMMA MicroframeCompletes ==
  ASSUME PumpTypes, NEW frames \in 0 .. 2, NEW packet_lost \in BOOLEAN, Microframe(frames, packet_lost)
  PROVE  \E of_in, of_out \in Completions :
           of_in.handler = "in" /\ of_out.handler = "out" /\ Happened(of_in, of_out)
<1> DEFINE of_in == [handler |-> "in", packets |-> PacketIn(packet_lost)]
           of_out == [handler |-> "out", packets |-> NoPackets]
           in == IF InCompletes THEN <<of_in>> ELSE << >>
           out == IF OutCompletes THEN <<of_out>> ELSE << >>
<1>1. completed' = completed \o in \o out \/ completed' = completed \o out \o in
  BY DEF Microframe
<1>2. NoPackets \in [done : 0 .. Packets, frames : 0 .. 2 * Packets, level : FifoLevels]
  BY PumpAssumption DEF NoPackets, FifoLevels
<1>3. of_in \in Completions /\ of_out \in Completions
  BY <1>2, PacketInType DEF Completions
<1>4. of_in.handler = "in" /\ of_out.handler = "out"
  OBVIOUS
<1>5. Happened(of_in, of_out)
  <2>1. completed \in Seq(Completions)
    BY DEF PumpTypes
  <2> HIDE DEF of_in, of_out
  <2>2. /\ completed \o << >> = completed /\ completed \o <<of_in>> = Append(completed, of_in)
        /\ completed \o <<of_out>> = Append(completed, of_out)
        /\ Append(completed, of_in) \o << >> = Append(completed, of_in)
        /\ Append(completed, of_out) \o << >> = Append(completed, of_out)
        /\ Append(completed, of_in) \o <<of_out>> = Append(Append(completed, of_in), of_out)
        /\ Append(completed, of_out) \o <<of_in>> = Append(Append(completed, of_out), of_in)
    BY <1>3, <2>1
  <2> QED
    BY <1>1, <2>2, Zenon DEF Happened
<1> HIDE DEF of_in, of_out
<1> QED
  BY <1>3, <1>4, <1>5

LEMMA MicroframeTypes ==
  ASSUME PumpTypes, TransfersInv,
         NEW frames \in 0 .. 2, NEW packet_lost \in BOOLEAN, Microframe(frames, packet_lost)
  PROVE  PumpTypes' /\ TransfersInv'
<1>1. PICK of_in \in Completions, of_out \in Completions :
        of_in.handler = "in" /\ of_out.handler = "out" /\ Happened(of_in, of_out)
  BY MicroframeCompletes
<1>2. completed \in Seq(Completions) /\ transfers_in \in Nat /\ Len(transfers_out) \in Int
      /\ transfers_out \in Seq([PacketIds -> 0 .. 2]) /\ transfers_in \in Int
  BY DEF PumpTypes
<1>3. Append(completed, of_in) \in Seq(Completions) /\ Append(completed, of_out) \in Seq(Completions)
  BY <1>1, <1>2
<1>4. /\ Returned(completed, transfers_in, Len(transfers_out))
      /\ Returned(Append(completed, of_in), transfers_in - 1, Len(transfers_out))
      /\ Returned(Append(completed, of_out), transfers_in, Len(transfers_out) - 1)
  BY <1>1, <1>2, ReturnedAppend DEF TransfersInv
<1>5. /\ Returned(Append(Append(completed, of_in), of_out), transfers_in - 1, Len(transfers_out) - 1)
      /\ Returned(Append(Append(completed, of_out), of_in), transfers_in - 1, Len(transfers_out) - 1)
  <2>1. transfers_in - 1 \in Int /\ Len(transfers_out) - 1 \in Int
    BY <1>2
  <2>2. Returned(Append(Append(completed, of_in), of_out), transfers_in - 1, Len(transfers_out) - 1)
    BY <1>1, <1>2, <1>3, <1>4, <2>1, ReturnedAppend
  <2>3. Returned(Append(Append(completed, of_out), of_in), transfers_in - 1, Len(transfers_out) - 1)
    BY <1>1, <1>2, <1>3, <1>4, <2>1, ReturnedAppend
  <2> QED
    BY <2>2, <2>3
<1>6. /\ transfers_in' = IF InCompletes THEN transfers_in - 1 ELSE transfers_in
      /\ transfers_out' = IF OutCompletes THEN Tail(transfers_out) ELSE transfers_out
      /\ (InCompletes => transfers_in > 0) /\ (OutCompletes => transfers_out # << >>)
  BY DEF Microframe, InCompletes, OutCompletes
<1>7. /\ transfers_out' \in Seq([PacketIds -> 0 .. 2])
      /\ Len(transfers_out') = IF OutCompletes THEN Len(transfers_out) - 1 ELSE Len(transfers_out)
  BY <1>2, <1>6
<1>8. completed' \in Seq(Completions) /\ TransfersInv'
  <2>1. CASE ~InCompletes /\ ~OutCompletes /\ completed' = completed
    BY <2>1, <1>2, <1>4, <1>6, <1>7, Zenon DEF TransfersInv
  <2>2. CASE InCompletes /\ ~OutCompletes /\ completed' = Append(completed, of_in)
    BY <2>2, <1>3, <1>4, <1>6, <1>7, Zenon DEF TransfersInv
  <2>3. CASE ~InCompletes /\ OutCompletes /\ completed' = Append(completed, of_out)
    BY <2>3, <1>3, <1>4, <1>6, <1>7, Zenon DEF TransfersInv
  <2>4. /\ Append(Append(completed, of_in), of_out) \in Seq(Completions)
        /\ Append(Append(completed, of_out), of_in) \in Seq(Completions)
    BY <1>3
  <2>5. CASE InCompletes /\ OutCompletes /\ completed' = Append(Append(completed, of_in), of_out)
    BY <2>4, <2>5, <1>5, <1>6, <1>7, Zenon DEF TransfersInv
  <2>6. CASE InCompletes /\ OutCompletes /\ completed' = Append(Append(completed, of_out), of_in)
    BY <2>4, <2>6, <1>5, <1>6, <1>7, Zenon DEF TransfersInv
  <2> QED
    BY <1>1, <2>1, <2>2, <2>3, <2>5, <2>6, Zenon DEF Happened
<1>9. packet_in' \in [done : 0 .. Packets - 1, frames : 0 .. 2 * Packets, level : FifoLevels]
      /\ packet_in'.frames <= 2 * packet_in'.done
  <2>1. CASE transfers_in = 0 \/ InCompletes
    <3>1. packet_in' = NoPackets
      BY <2>1 DEF Microframe
    <3> QED
      BY <3>1, PumpAssumption DEF NoPackets, FifoLevels
  <2>2. CASE ~(transfers_in = 0 \/ InCompletes)
    <3>1. packet_in' = PacketIn(packet_lost)
      BY <2>2 DEF Microframe
    <3>2. packet_in.done + 1 \in 0 .. Packets - 1
      BY <2>2, PumpAssumption DEF InCompletes, PumpTypes
    <3> QED
      BY <3>1, <3>2, PacketInType
  <2> QED
    BY <2>1, <2>2
<1>10. packet_out' \in 0 .. Packets - 1
  BY PumpAssumption DEF Microframe, OutCompletes, PumpTypes
<1>11. fifo_rx_level' \in 0 .. RxFrames /\ fifo_tx_level' \in 0 .. TxFrames
  <2>1. RxPacket \in 0 .. 2 /\ TxPacket \in 0 .. 2
    BY PumpAssumption DEF RxPacket, TxPacket, AtMost, PumpTypes, PacketIds
  <2>2. Frames(frames)
    BY DEF Microframe
  <2> QED
    <3>1. fifo_rx_level \in 0 .. RxFrames /\ fifo_tx_level \in 0 .. TxFrames
      BY DEF PumpTypes
    <3>2. fifo_rx_level' \in 0 .. RxFrames
      BY <2>1, <2>2, <3>1, PumpAssumption DEF Frames, AtMost, Less
    <3>3. fifo_tx_level' \in 0 .. TxFrames
      <4>1. CASE fifo_tx_level' = Less(AtMost(fifo_tx_level + TxPacket, TxFrames), frames)
        BY <2>1, <3>1, <4>1, PumpAssumption DEF AtMost, Less
      <4>2. CASE fifo_tx_level' = AtMost(Less(fifo_tx_level, frames) + TxPacket, TxFrames)
        BY <2>1, <3>1, <4>2, PumpAssumption DEF AtMost, Less
      <4> QED
        BY <2>2, <4>1, <4>2, Zenon DEF Frames
    <3> QED
      BY <3>2, <3>3
<1>12. disturbances' \in 0 .. MaxDisturbances /\ transfers_in' \in Nat
       /\ processed_frames' \in 0 .. Ring /\ tx_fifo_level_min' \in FifoLevels
  <2>1. disturbances' \in 0 .. MaxDisturbances
    BY PumpAssumption DEF Microframe, PumpTypes
  <2>2. transfers_in' \in Nat
    BY <1>2, <1>6
  <2>3. processed_frames' = processed_frames /\ tx_fifo_level_min' = tx_fifo_level_min
    BY DEF Microframe, host_vars
  <2> QED
    BY <2>1, <2>2, <2>3 DEF PumpTypes
<1> QED
  BY <1>7, <1>8, <1>9, <1>10, <1>11, <1>12 DEF PumpTypes

LEMMA CallbackTypes ==
  ASSUME PumpTypes, TransfersInv, Callback
  PROVE  PumpTypes' /\ TransfersInv'
<1>1. /\ completed \in Seq(Completions) /\ completed # << >> /\ completed' = Tail(completed)
      /\ transfers_in \in Nat /\ transfers_out \in Seq([PacketIds -> 0 .. 2])
  BY DEF Callback, PumpTypes
<1>2. /\ Head(completed) \in Completions /\ completed' \in Seq(Completions)
      /\ Len(transfers_out) \in Int /\ transfers_in \in Int
  BY <1>1
<1>3. Returned(completed, transfers_in, Len(transfers_out))
  BY DEF TransfersInv
<1>4. IF Head(completed).handler = "in" THEN Returned(completed', transfers_in + 1, Len(transfers_out))
                                        ELSE Returned(completed', transfers_in, Len(transfers_out) + 1)
  BY <1>1, <1>2, <1>3, ReturnedTail
<1>5. CASE Head(completed).handler = "in"
  <2>1. handle_in
    BY <1>5 DEF Callback
  <2>2. transfers_in' = transfers_in + 1 /\ transfers_out' = transfers_out
        /\ packet_in' = packet_in /\ packet_out' = packet_out
    BY <2>1 DEF handle_in
  <2>3. TransfersInv'
    BY <1>4, <1>5, <2>2 DEF TransfersInv
  <2>4. processed_frames' \in 0 .. Ring /\ tx_fifo_level_min' \in FifoLevels
    <3>1. /\ Head(completed).packets.frames \in Nat /\ Head(completed).packets.level \in FifoLevels
          /\ processed_frames \in Nat /\ Ring \in Nat
      BY <1>2, PumpAssumption DEF Completions, PumpTypes
    <3>2. processed_frames' = AtMost(processed_frames + Head(completed).packets.frames, Ring)
          /\ tx_fifo_level_min' = Head(completed).packets.level
      BY <2>1 DEF handle_in
    <3> QED
      BY <3>1, <3>2 DEF AtMost
  <2> QED
    BY <1>1, <1>2, <2>2, <2>3, <2>4 DEF PumpTypes, Callback, device_vars
<1>6. CASE Head(completed).handler # "in"
  <2>1. handle_out
    BY <1>2, <1>6 DEF Callback, Completions
  <2> DEFINE available == IF draws_down THEN Less(processed_frames, 1) ELSE processed_frames
  <2>2. /\ transfers_in' = transfers_in /\ transfers_out' = Append(transfers_out, filled(available))
        /\ packet_in' = packet_in /\ packet_out' = packet_out
        /\ tx_fifo_level_min' = tx_fifo_level_min /\ processed_frames' = left(available)
    BY <2>1 DEF handle_out
  <2>3. available \in 0 .. Ring
    BY PumpAssumption DEF Less, PumpTypes
  <2> HIDE DEF available
  <2>4. filled(available) \in [PacketIds -> 0 .. 2]
    BY <2>3, PumpAssumption DEF filled, AtMost, Less, PacketIds
  <2>5. left(available) \in 0 .. Ring
    BY <2>3, PumpAssumption DEF left, Less
  <2>6. /\ transfers_out' \in Seq([PacketIds -> 0 .. 2])
        /\ Len(transfers_out') = Len(transfers_out) + 1
    BY <1>1, <2>2, <2>4
  <2>7. TransfersInv'
    BY <1>4, <1>6, <2>2, <2>6 DEF TransfersInv
  <2> QED
    BY <1>1, <1>2, <2>2, <2>5, <2>6, <2>7 DEF PumpTypes, Callback, device_vars
<1> QED
  BY <1>5, <1>6

LEMMA SwitchesNext ==
  ASSUME PumpSwitches, PumpNext
  PROVE  PumpSwitches'
<1>1. CASE Callback
  <2>1. starved' = starved /\ ran_dry' = ran_dry
    BY <1>1 DEF Callback, device_vars
  <2>2. CASE handle_in
    <3> DEFINE full == processed_frames + Head(completed).packets.frames > Ring
    <3>1. panicked' = full /\ full \in BOOLEAN
      BY <2>2 DEF handle_in
    <3> HIDE DEF full
    <3> QED
      BY <2>1, <3>1, Zenon DEF PumpSwitches
  <2>3. CASE handle_out
    BY <2>1, <2>3, Zenon DEF PumpSwitches, handle_out
  <2> QED
    BY <1>1, <2>2, <2>3 DEF Callback
<1>2. ASSUME NEW frames \in 0 .. 2, NEW packet_lost \in BOOLEAN, Microframe(frames, packet_lost)
      PROVE  PumpSwitches'
  <2>1. panicked' = panicked
    BY <1>2 DEF Microframe, host_vars
  <2>2. Frames(frames)
    BY <1>2 DEF Microframe
  <2> DEFINE if_given_first == fifo_tx_level + TxPacket < frames
             if_taken_first == fifo_tx_level < frames
  <2>3. if_given_first \in BOOLEAN /\ if_taken_first \in BOOLEAN
    OBVIOUS
  <2>4. starved' = if_given_first \/ starved' = if_taken_first
    BY <2>2 DEF Frames
  <2> HIDE DEF if_given_first, if_taken_first
  <2>5. starved' \in BOOLEAN
    BY <2>3, <2>4, Zenon
  <2> DEFINE dry == transfers_out' = << >>
  <2>6. ran_dry' = (ran_dry \/ dry)
    BY <1>2 DEF Microframe
  <2> HIDE DEF dry
  <2>7. ran_dry' \in BOOLEAN
    BY <2>6, Zenon
  <2> QED
    BY <2>1, <2>5, <2>7, Zenon DEF PumpSwitches
<1> QED
  BY <1>1, <1>2 DEF PumpNext

LEMMA PumpInvNext == PumpInv /\ [PumpNext]_pump_vars => PumpInv'
<1> SUFFICES ASSUME PumpInv, [PumpNext]_pump_vars PROVE PumpInv'
  OBVIOUS
<1>1. CASE PumpNext
  <2>1. PumpTypes' /\ TransfersInv'
    BY <1>1, MicroframeTypes, CallbackTypes DEF PumpInv, PumpNext
  <2> QED
    BY <1>1, <2>1, SwitchesNext DEF PumpInv
<1>2. CASE UNCHANGED pump_vars
  <2> USE <1>2 DEF pump_vars, device_vars, bus_vars, host_vars
  <2>1. PumpTypes'
    BY DEF PumpInv, PumpTypes
  <2>2. PumpSwitches'
    BY Zenon DEF PumpInv, PumpSwitches
  <2>3. TransfersInv'
    BY Zenon DEF PumpInv, TransfersInv
  <2> QED
    BY <2>1, <2>2, <2>3 DEF PumpInv
<1> QED
  BY <1>1, <1>2

(* Each variable has its type, whatever the bus loses and however late the   *)
(* callbacks run: a transfer is submitted at most once (PumpTypeOK).         *)
THEOREM PumpTypeCorrect == PumpSpec => []PumpTypeOK
<1>1. PumpInv => PumpTypeOK
  <2> SUFFICES ASSUME PumpInv PROVE PumpTypeOK
    OBVIOUS
  <2>1. /\ transfers_in <= Transfers /\ Len(transfers_out) <= Transfers
        /\ transfers_in + Len(transfers_out) + Len(completed) = 2 * Transfers
    BY ReturnedBounds DEF PumpInv, PumpTypes, TransfersInv
  <2>2. starved \in BOOLEAN /\ panicked \in BOOLEAN /\ ran_dry \in BOOLEAN
    BY Zenon DEF PumpInv, PumpSwitches
  <2>3. transfers_in \in 0 .. Transfers
    BY <2>1, PumpAssumption DEF PumpInv, PumpTypes
  <2>4. transfers_in + Len(transfers_out) + Len(completed) <= 2 * Transfers
    BY <2>1, PumpAssumption
  <2> QED
    BY <2>1, <2>2, <2>3, <2>4, Zenon DEF PumpInv, PumpTypes, PumpTypeOK, FifoLevels
<1> QED
  BY <1>1, PumpInvInit, PumpInvNext, PTL DEF PumpSpec

-----------------------------------------------------------------------------
LEMMA RingInvInit == PumpInit => RingInv /\ NeverPanics
<1> SUFFICES ASSUME PumpInit PROVE RingInv /\ NeverPanics
  OBVIOUS
<1>1. RingInv
  BY FitsAtStart, PumpAssumption DEF PumpInit, RingInv, NoPackets
<1> QED
  BY <1>1, Zenon DEF PumpInit, NeverPanics

(* An OUT transfer that is under way takes a packet in every microframe, so  *)
(* it is completed with the IN transfer the ring has room for, or before it.  *)
LEMMA RingMicroframe ==
  ASSUME PumpTypes, RingInv, transfers_out # << >>,
         NEW frames \in 0 .. 2, NEW packet_lost \in BOOLEAN, Microframe(frames, packet_lost)
  PROVE  RingInv'
<1>1. PICK of_in \in Completions, of_out \in Completions :
        of_in.handler = "in" /\ of_out.handler = "out" /\ Happened(of_in, of_out)
  BY MicroframeCompletes
<1>2. PICK last \in 0 .. 2 :
        /\ Fits(completed, processed_frames, last)
        /\ Packets * last + packet_in.done <= Packets + packet_out
  BY DEF RingInv
<1>3. /\ completed \in Seq(Completions) /\ packet_out \in 0 .. Packets - 1
      /\ packet_in.done \in 0 .. Packets - 1 /\ Packets \in Nat
      /\ Append(completed, of_in) \in Seq(Completions)
      /\ Append(completed, of_out) \in Seq(Completions)
  BY PumpAssumption DEF PumpTypes
<1>4. processed_frames' = processed_frames
  BY DEF Microframe, host_vars
<1>5. packet_out' = IF OutCompletes THEN 0 ELSE packet_out + 1
  BY DEF Microframe
<1>6. packet_in'.done = IF transfers_in = 0 \/ InCompletes THEN 0 ELSE packet_in.done + 1
  BY PacketInType DEF Microframe, NoPackets
<1>7. OutCompletes <=> packet_out + 1 = Packets
  BY DEF OutCompletes
<1>8. InCompletes <=> transfers_in > 0 /\ packet_in.done + 1 = Packets
  BY DEF InCompletes
<1>9. last = 0 \/ last = 1 \/ last = 2
  OBVIOUS
<1>10. InCompletes \/ OutCompletes => last <= 1 /\ (OutCompletes \/ last = 0)
  <2>1. CASE last = 2
    <3>1. Packets * 2 + packet_in.done <= Packets + packet_out
      BY <1>2, <2>1
    <3> QED
      BY <1>3, <3>1
  <2>2. CASE last = 1
    <3>1. Packets * 1 + packet_in.done <= Packets + packet_out
      BY <1>2, <2>2
    <3> QED
      BY <1>3, <1>7, <1>8, <2>2, <3>1
  <2> QED
    BY <1>9, <2>1, <2>2
<1>11. ASSUME NEW then \in 0 .. 2, Fits(completed', processed_frames, then),
              Packets * then + packet_in'.done <= Packets + packet_out'
       PROVE  RingInv'
  BY <1>4, <1>11 DEF RingInv
<1>12. CASE ~InCompletes /\ ~OutCompletes /\ completed' = completed
  <2>1. Packets * last + packet_in'.done <= Packets + packet_out'
    BY <1>12, <1>2, <1>3, <1>5, <1>6, <1>9
  <2> QED
    BY <1>2, <1>11, <1>12, <2>1
<1>13. CASE InCompletes /\ ~OutCompletes /\ completed' = Append(completed, of_in)
  <2>1. last = 0
    BY <1>10, <1>13
  <2>2. Fits(completed', processed_frames, 1)
    BY <1>1, <1>2, <1>3, <1>13, <2>1, FitsAppend
  <2>3. Packets * 1 + packet_in'.done <= Packets + packet_out'
    BY <1>3, <1>5, <1>6, <1>13
  <2> QED
    BY <1>11, <2>2, <2>3
<1>14. CASE ~InCompletes /\ OutCompletes /\ completed' = Append(completed, of_out)
  <2>1. last <= 1 /\ Less(last, 1) = 0
    BY <1>10, <1>14 DEF Less
  <2>2. Fits(completed', processed_frames, 0)
    BY <1>1, <1>2, <1>3, <1>14, <2>1, FitsAppend
  <2>3. Packets * 0 + packet_in'.done <= Packets + packet_out'
    BY <1>3, <1>5, <1>6, <1>14
  <2> QED
    BY <1>11, <2>2, <2>3
<1>15. CASE InCompletes /\ OutCompletes /\ completed' = Append(Append(completed, of_in), of_out)
  <2>1. last <= 1 /\ last + 1 \in 0 .. 2 /\ Less(last + 1, 1) = last
    BY <1>10, <1>15 DEF Less
  <2>2. Fits(Append(completed, of_in), processed_frames, last + 1)
    BY <1>1, <1>2, <1>3, <2>1, FitsAppend
  <2>3. Fits(completed', processed_frames, last)
    BY <1>1, <1>3, <1>15, <2>1, <2>2, FitsAppend
  <2>4. Packets * last + packet_in'.done <= Packets + packet_out'
    BY <1>3, <1>5, <1>6, <1>9, <1>15, <2>1
  <2> QED
    BY <1>11, <2>3, <2>4
<1>16. CASE InCompletes /\ OutCompletes /\ completed' = Append(Append(completed, of_out), of_in)
  <2>1. last <= 1 /\ Less(last, 1) = 0
    BY <1>10, <1>16 DEF Less
  <2>2. Fits(Append(completed, of_out), processed_frames, 0)
    BY <1>1, <1>2, <1>3, <2>1, FitsAppend
  <2>3. Fits(completed', processed_frames, 1)
    <3> DEFINE q == Append(completed, of_out)
    <3>1. q \in Seq(Completions) /\ Fits(q, processed_frames, 0)
          /\ completed' = Append(q, of_in)
      BY <1>3, <1>16, <2>2
    <3> HIDE DEF q
    <3>2. Fits(Append(q, of_in), processed_frames, 0 + 1)
      BY <1>1, <3>1, FitsAppend
    <3> QED
      BY <3>1, <3>2
  <2>4. Packets * 1 + packet_in'.done <= Packets + packet_out'
    BY <1>3, <1>5, <1>6, <1>16
  <2> QED
    BY <1>11, <2>3, <2>4
<1> QED
  BY <1>1, <1>12, <1>13, <1>14, <1>15, <1>16, Zenon DEF Happened

LEMMA RingCallback ==
  ASSUME Ring >= 4 * Packets, PumpTypes, RingInv, NeverPanics, Callback
  PROVE  RingInv' /\ NeverPanics'
<1>1. /\ completed \in Seq(Completions) /\ completed # << >> /\ completed' = Tail(completed)
      /\ processed_frames \in Nat /\ Packets \in Nat /\ Ring \in Nat
  BY PumpAssumption DEF Callback, PumpTypes
<1>2. Head(completed) \in Completions
  BY <1>1
<1>3. PICK last \in 0 .. 2 :
        /\ Fits(completed, processed_frames, last)
        /\ Packets * last + packet_in.done <= Packets + packet_out
  BY DEF RingInv
<1>4. packet_in' = packet_in /\ packet_out' = packet_out
  BY DEF Callback, handle_in, handle_out
<1>5. CASE Head(completed).handler = "in"
  <2>1. handle_in
    BY <1>5 DEF Callback
  <2> DEFINE more == processed_frames + Head(completed).packets.frames
  <2>2. more \in Nat /\ more <= processed_frames + 2 * Packets
    BY <1>1, <1>2 DEF Completions
  <2>3. Fits(Tail(completed), more, last) /\ more <= 4 * Packets
    BY <1>1, <1>3, <1>5, <2>2, FitsTail
  <2>4. processed_frames' = AtMost(more, Ring) /\ panicked' = (more > Ring)
    BY <2>1 DEF handle_in
  <2>5. ~(more > Ring)
    BY <1>1, <2>2, <2>3
  <2> HIDE DEF more
  <2>6. processed_frames' = more /\ ~panicked'
    BY <2>4, <2>5, Zenon DEF AtMost
  <2>7. RingInv'
    BY <1>1, <1>3, <1>4, <2>3, <2>6, Zenon DEF RingInv
  <2> QED
    BY <2>6, <2>7, Zenon DEF NeverPanics
<1>6. CASE Head(completed).handler # "in"
  <2>1. handle_out
    BY <1>2, <1>6 DEF Callback, Completions
  <2> DEFINE available == IF draws_down THEN Less(processed_frames, 1) ELSE processed_frames
  <2>2. processed_frames' = left(available) /\ panicked' = panicked
    BY <2>1 DEF handle_out
  <2>3. available \in Nat /\ available <= processed_frames
    BY <1>1 DEF Less
  <2> HIDE DEF available
  <2>4. left(available) \in Nat /\ left(available) <= left(processed_frames)
    BY <1>1, <2>3 DEF left, Less
  <2>5. Fits(Tail(completed), left(available), last)
    BY <1>1, <1>3, <1>6, <2>4, FitsTail
  <2>6. RingInv'
    BY <1>1, <1>3, <1>4, <2>2, <2>5, Zenon DEF RingInv
  <2> QED
    BY <2>2, <2>6, Zenon DEF NeverPanics
<1> QED
  BY <1>5, <1>6

(* Until the bus runs out of OUT transfers, one is submitted. *)
UntilDry == ran_dry \/ (transfers_out # << >> /\ RingInv /\ NeverPanics)

LEMMA UntilDryInit == PumpInit => UntilDry
<1> SUFFICES ASSUME PumpInit PROVE UntilDry
  OBVIOUS
<1>1. Len(transfers_out) = Transfers /\ Transfers >= 1
  BY PumpAssumption DEF PumpInit
<1>2. transfers_out # << >>
  BY <1>1, PumpAssumption
<1> QED
  BY <1>2, RingInvInit, Zenon DEF UntilDry

LEMMA UntilDryNext ==
  ASSUME Ring >= 4 * Packets, PumpInv, UntilDry, [PumpNext]_pump_vars
  PROVE  UntilDry'
<1>1. PumpTypes
  BY DEF PumpInv
<1>2. CASE Callback
  <2>1. ran_dry' = ran_dry
    BY <1>2 DEF Callback
  <2>2. CASE ran_dry
    BY <2>1, <2>2, Zenon DEF UntilDry
  <2>3. CASE ~ran_dry
    <3>1. transfers_out # << >> /\ RingInv /\ NeverPanics
      BY <2>3, Zenon DEF UntilDry
    <3>2. RingInv' /\ NeverPanics'
      BY <1>1, <1>2, <3>1, RingCallback
    <3>3. transfers_out' = transfers_out
          \/ \E available \in Nat : transfers_out' = Append(transfers_out, filled(available))
      <4>1. processed_frames \in Nat /\ Less(processed_frames, 1) \in Nat
        BY <1>1, PumpAssumption DEF PumpTypes, Less
      <4> QED
        BY <1>2, <4>1 DEF Callback, handle_in, handle_out
    <3>4. transfers_out' # << >>
      BY <1>1, <3>1, <3>3 DEF PumpTypes
    <3> QED
      BY <3>2, <3>4, Zenon DEF UntilDry
  <2> QED
    BY <2>2, <2>3
<1>3. ASSUME NEW frames \in 0 .. 2, NEW packet_lost \in BOOLEAN, Microframe(frames, packet_lost)
      PROVE  UntilDry'
  <2> DEFINE dry == transfers_out' = << >>
  <2>1. ran_dry' = (ran_dry \/ dry) /\ panicked' = panicked
    BY <1>3 DEF Microframe, host_vars
  <2>2. CASE ran_dry \/ dry
    BY <2>1, <2>2, Zenon DEF UntilDry
  <2>3. CASE ~ran_dry /\ transfers_out' # << >>
    <3>1. transfers_out # << >> /\ RingInv /\ NeverPanics
      BY <2>3, Zenon DEF UntilDry
    <3>2. RingInv'
      BY <1>1, <1>3, <3>1, RingMicroframe
    <3> QED
      BY <2>1, <2>3, <3>1, <3>2, Zenon DEF UntilDry, NeverPanics
  <2> QED
    BY <2>2, <2>3
<1>4. CASE UNCHANGED pump_vars
  BY <1>4, Zenon DEF pump_vars, device_vars, bus_vars, host_vars, UntilDry, RingInv, NeverPanics
<1> QED
  BY <1>2, <1>3, <1>4 DEF PumpNext

(* The ring of processed frames is not full before the bus has run out of OUT *)
(* transfers, whatever its size from four frames a packet of a transfer on,   *)
(* whatever is lost and however late the callbacks run (PanicsOnlyWhenDry).   *)
THEOREM PanicsOnlyWhenDryHolds == PumpSpec => []PanicsOnlyWhenDry
<1>1. CASE Ring >= 4 * Packets
  <2>1. PumpInv /\ UntilDry /\ [PumpNext]_pump_vars => UntilDry'
    BY <1>1, UntilDryNext
  <2>2. UntilDry => PanicsOnlyWhenDry
    BY Zenon DEF UntilDry, NeverPanics, PanicsOnlyWhenDry
  <2> QED
    BY <2>1, <2>2, UntilDryInit, PumpInvInit, PumpInvNext, PTL DEF PumpSpec
<1>2. CASE ~(Ring >= 4 * Packets)
  <2>1. PanicsOnlyWhenDry
    BY <1>2 DEF PanicsOnlyWhenDry
  <2> QED
    BY <2>1, PTL
<1> QED
  BY <1>1, <1>2
=============================================================================
