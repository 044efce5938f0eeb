--------------------------- MODULE Framers_proofs ---------------------------
(***************************************************************************)
(* The flags of SystemTiming, computed a bit ahead, agree with the bit      *)
(* count for every number of timeslots in a frame and every length of the   *)
(* bits; and both adapters are back in WAIT for every strobe they must act  *)
(* on, for every number of channels and size of the reports that the clocks *)
(* of a bit leave time for.                                                *)
(*                                                                         *)
(* For the second, an adapter's state and count say how many clocks ago it  *)
(* left WAIT, and the position in the timeslot, or in the frame, how many   *)
(* at least have gone by since the strobe it left WAIT for: neither lags    *)
(* behind the other, so the clocks of eight bits, or of one, see it through.*)
(*                                                                         *)
(* On that rest the two about the data: every record given to the receive   *)
(* FIFO is that of one line frame, and every line frame sent is one record  *)
(* of the transmit FIFO.  The last part is the types of both sides.         *)
(***************************************************************************)
EXTENDS Framers, SequenceTheorems, TLAPS

LEMMA LastBit ==
  /\ bit_count_last = 8 * timeslots_per_frame
  /\ bit_count_last \in Nat /\ bit_count_last >= 8
  BY TimeslotsAssumption DEF bit_count_last, bits_per_frame

(* A division and a remainder by 8, in the terms SMT is quick with.          *)
LEMMA DivMod ==
  ASSUME NEW n \in Nat
  PROVE  /\ n \div 8 \in Nat /\ n % 8 \in 0 .. 7
         /\ n = 8 * (n \div 8) + (n % 8)
  OBVIOUS

TimingInv == TimingTypeOK /\ FlagsFollowCount

LEMMA TimingInvInit == TimingInit => TimingInv
  <1> SUFFICES ASSUME TimingInit PROVE TimingInv
    OBVIOUS
  <1>1. TimingTypeOK
    <2>1. /\ bit_count \in 0 .. bit_count_last /\ bit_in_timeslot \in 0 .. 7
          /\ timeslot_in_frame \in 0 .. timeslots_per_frame - 1 /\ clock_count \in 0 .. MinClocks
      BY LastBit, TimeslotsAssumption, ClocksAssumption DEF TimingInit
    <2> QED BY <2>1, Zenon DEF TimingInit, TimingTypeOK
  <1>2. FlagsFollowCount
    <2>1. bit_count = 0 /\ bit_count_last # 0 /\ bit_count % 8 # 1
      BY LastBit DEF TimingInit
    <2>2. ~f_bit /\ ~timeslot_ms_bit /\ ~timeslot_ls_bit /\ ~frame_last_bit
      BY DEF TimingInit
    <2> QED BY <2>1, <2>2 DEF FlagsFollowCount
  <1> QED BY <1>1, <1>2 DEF TimingInv

(* The end of a bit: every flag computed from the old count describes the    *)
(* new one.                                                                *)
LEMMA NextBitFlags ==
  ASSUME TimingInv, NextBit
  PROVE  FlagsFollowCount' /\ bit_count' \in 0 .. bit_count_last
         /\ bit_in_timeslot' \in 0 .. 7 /\ timeslot_in_frame' \in 0 .. timeslots_per_frame - 1
  <1> USE LastBit, TimeslotsAssumption
  <1> DEFINE q == bit_count \div 8
             m == bit_count % 8
  <1>1. /\ bit_count \in 0 .. bit_count_last /\ bit_count \in Nat
        /\ frame_last_bit <=> bit_count = bit_count_last
        /\ bit_count # 0 => /\ timeslot_first <=> timeslot_in_frame = 0
                            /\ timeslot_last <=> timeslot_in_frame = timeslots_per_frame - 1
                            /\ bit_count = 8 * timeslot_in_frame + (8 - bit_in_timeslot)
        /\ bit_in_timeslot \in 0 .. 7
        /\ timeslot_in_frame \in 0 .. timeslots_per_frame - 1
    BY DEF TimingInv, TimingTypeOK, FlagsFollowCount
  <1>2. q \in Nat /\ m \in 0 .. 7 /\ bit_count = 8 * q + m
    BY <1>1, DivMod
  <1> HIDE DEF q, m
  <1>3. CASE bit_count = bit_count_last
    <2>1. bit_count_next = 0 /\ q = timeslots_per_frame /\ m = 0
      BY <1>1, <1>2, <1>3 DEF bit_count_next
    <2>2. bit_count' = 0 /\ bit_in_timeslot' = 0 /\ timeslot_in_frame' = 0
      BY <1>1, <1>3, <2>1 DEF NextBit, bit_in_timeslot_next, timeslot_in_frame_next
    <2>3. ~timeslot_ms_bit' /\ ~timeslot_ls_bit' /\ ~frame_last_bit'
      <3>1. ~timeslot_ms_bit_next
        BY <2>1 DEF timeslot_ms_bit_next, f_bit_next
      <3>2. ~timeslot_ls_bit_next
        BY <2>1 DEF timeslot_ls_bit_next, m
      <3>3. ~frame_last_bit_next
        BY <1>3 DEF frame_last_bit_next
      <3> QED BY <3>1, <3>2, <3>3, Zenon DEF NextBit
    <2>4. bit_count' % 8 # 1 /\ bit_count' # bit_count_last
      BY <2>2
    <2> QED BY <2>2, <2>3, <2>4 DEF FlagsFollowCount
  <1>4. CASE bit_count # bit_count_last
    <2>1. bit_count' = bit_count + 1 /\ bit_count_next = bit_count + 1 /\ bit_count' \in 1 .. bit_count_last
      BY <1>1, <1>4 DEF NextBit, bit_count_next
    <2>2. q \in 0 .. timeslots_per_frame - 1
      BY <1>1, <1>2, <1>4
    <2>3. timeslot_in_frame' = q /\ bit_in_timeslot' = 7 - m
      BY <1>1, <1>4 DEF NextBit, bit_in_timeslot_next, timeslot_in_frame_next, q, m
    <2>4. ~f_bit' /\ ~f_bit_next
      <3>1. ~f_bit_next
        BY <2>1, <1>1 DEF f_bit_next
      <3> QED BY <3>1, Zenon DEF NextBit
    <2>5. timeslot_ms_bit' <=> bit_count' % 8 = 1
      <3>1. m = 0 <=> (bit_count + 1) % 8 = 1
        BY <1>2, <1>1 DEF m
      <3>2. timeslot_ms_bit_next <=> m = 0
        BY <2>4, Zenon DEF timeslot_ms_bit_next, m
      <3>3. timeslot_ms_bit' <=> timeslot_ms_bit_next
        BY Zenon DEF NextBit
      <3> QED BY <3>1, <3>2, <3>3, <2>1, Zenon
    <2>6. timeslot_ls_bit' <=> bit_count' # 0 /\ bit_count' % 8 = 0
      <3>1. m = 7 <=> bit_count + 1 # 0 /\ (bit_count + 1) % 8 = 0
        BY <1>2, <1>1 DEF m
      <3>2. timeslot_ls_bit_next <=> m = 7
        BY Zenon DEF timeslot_ls_bit_next, m
      <3>3. timeslot_ls_bit' <=> timeslot_ls_bit_next
        BY Zenon DEF NextBit
      <3> QED BY <3>1, <3>2, <3>3, <2>1, Zenon
    <2>7. frame_last_bit' <=> bit_count' = bit_count_last
      <3>1. frame_last_bit_next <=> bit_count + 1 = bit_count_last
        BY <1>1 DEF frame_last_bit_next
      <3>2. frame_last_bit' <=> frame_last_bit_next
        BY Zenon DEF NextBit
      <3> QED BY <3>1, <3>2, <2>1, Zenon
    <2>8. bit_count' = 8 * timeslot_in_frame' + (8 - bit_in_timeslot')
      BY <2>1, <2>3, <1>2
    <2>9. /\ timeslot_first' <=> timeslot_in_frame' = 0
          /\ timeslot_last' <=> timeslot_in_frame' = timeslots_per_frame - 1
      <3>1. timeslot_in_frame_next = q
        BY <1>1, <1>4 DEF timeslot_in_frame_next, q
      <3>2. CASE m = 0
        <4>1. timeslot_ms_bit_next
          BY <2>4, <3>2, Zenon DEF timeslot_ms_bit_next, m
        <4> QED BY <4>1, <3>1, <2>3, Zenon DEF NextBit
      <3>3. CASE m # 0
        <4>1. ~timeslot_ms_bit_next
          BY <3>3, Zenon DEF timeslot_ms_bit_next, m
        <4>2. (timeslot_first' <=> timeslot_first) /\ (timeslot_last' <=> timeslot_last)
          BY <4>1, <2>4, Zenon DEF NextBit
        <4>3. bit_count # 0 /\ timeslot_in_frame = q
          BY <1>1, <1>2, <3>3
        <4> QED BY <4>2, <4>3, <1>1, <2>3, Zenon
      <3> QED BY <3>2, <3>3
    <2>10. bit_count' # 0 /\ bit_in_timeslot' \in 0 .. 7
           /\ timeslot_in_frame' \in 0 .. timeslots_per_frame - 1
      BY <2>1, <2>2, <2>3, <1>2
    <2>11. FlagsFollowCount'
      BY <2>4, <2>5, <2>6, <2>7, <2>8, <2>9, Zenon DEF FlagsFollowCount
    <2> QED BY <2>1, <2>10, <2>11
  <1> QED BY <1>3, <1>4

LEMMA ClkInv ==
  ASSUME TimingInv, NEW bit_end_strobe \in BOOLEAN, TimingClk(bit_end_strobe)
  PROVE  TimingInv'
  <1>1. /\ timeslot_start_strobe' \in BOOLEAN /\ frame_strobe' \in BOOLEAN
        /\ bit_start_strobe' \in BOOLEAN
    BY Zenon DEF TimingClk, timeslot_ms_bit_next, f_bit_next
  <1>2. clock_count' \in 0 .. MinClocks
    BY ClocksAssumption DEF TimingClk, TimingInv, TimingTypeOK
  <1>3. CASE bit_end_strobe
    <2>1. NextBit
      BY <1>3 DEF TimingClk
    <2>2. /\ f_bit' \in BOOLEAN /\ timeslot_ms_bit' \in BOOLEAN
          /\ timeslot_ls_bit' \in BOOLEAN /\ frame_last_bit' \in BOOLEAN
      BY <2>1, Zenon DEF NextBit, f_bit_next, timeslot_ms_bit_next, timeslot_ls_bit_next,
                         frame_last_bit_next
    <2>3. timeslot_first' \in BOOLEAN /\ timeslot_last' \in BOOLEAN
      BY <2>1, Zenon DEF NextBit, TimingInv, TimingTypeOK
    <2> QED BY <1>1, <1>2, <2>1, <2>2, <2>3, NextBitFlags, Zenon DEF TimingInv, TimingTypeOK
  <1>4. CASE ~bit_end_strobe
    <2>1. UNCHANGED <<bit_count, bit_in_timeslot, f_bit, timeslot_ms_bit,
                      timeslot_ls_bit, frame_last_bit, timeslot_in_frame,
                      timeslot_first, timeslot_last>>
      BY <1>4 DEF TimingClk
    <2>2. FlagsFollowCount'
      BY <2>1 DEF TimingInv, FlagsFollowCount
    <2> QED BY <1>1, <1>2, <2>1, <2>2 DEF TimingInv, TimingTypeOK
  <1> QED BY <1>3, <1>4

(* Whatever the length of the bits, the flags registered ahead of a bit say   *)
(* where that bit is: SystemTiming.elaborate, for every timeslots_per_frame. *)
THEOREM FlagsFollowCountHolds == TimingSpec => []FlagsFollowCount
  <1>1. TimingInit => TimingInv
    BY TimingInvInit
  <1>2. ASSUME TimingInv, [\E bit_end_strobe \in BOOLEAN : TimingClk(bit_end_strobe)]_timing_vars
        PROVE  TimingInv'
    <2>1. CASE \E bit_end_strobe \in BOOLEAN : TimingClk(bit_end_strobe)
      BY <1>2, <2>1, ClkInv
    <2>2. CASE UNCHANGED timing_vars
      BY <1>2, <2>2 DEF timing_vars, TimingInv, TimingTypeOK, FlagsFollowCount, bit_count_last, bits_per_frame
    <2> QED BY <1>2, <2>1, <2>2
  <1>3. TimingInv => FlagsFollowCount
    BY DEF TimingInv
  <1> QED BY <1>1, <1>2, <1>3, PTL DEF TimingSpec

-----------------------------------------------------------------------------
(***************************************************************************)
(* The adapters and the strobes.                                           *)
(***************************************************************************)
(* Whole bits since the last timeslot started; the F bit follows eight. *)
since == IF bit_count = 0 THEN 8 ELSE 7 - bit_in_timeslot

StrobesInv ==
  /\ timeslot_start_strobe => clock_count = 0 /\ bit_count # 0 /\ since = 0
  /\ frame_strobe => clock_count = 0 /\ bit_count = 0
  /\ bit_start_strobe => clock_count = 0

(* The receive adapter left WAIT for the timeslot that is on, or for the     *)
(* last one and its report.                                                 *)
RxBusy ==
  /\ fsm \in {"WAIT", "TIMESLOT", "REPORT"}
  /\ fsm = "TIMESLOT" => /\ count \in 0 .. Channels /\ bit_count # 0
                         /\ since * MinClocks + clock_count <= count + 1
  /\ fsm = "REPORT" => /\ count \in 0 .. report_length
                       /\ bit_count = 0 \/ timeslot_last
                       /\ since * MinClocks + clock_count <= Channels + 2 + count

(* The transmit adapter left WAIT for the frame, not eight bits ago, or for  *)
(* the last bit of a timeslot, which is on.                                 *)
TxBusy ==
  /\ tx_fsm \in {"WAIT", "TIMESLOT", "REPORT"}
  /\ tx_fsm = "REPORT" => /\ tx_count \in 0 .. tx_report_length /\ bit_count < 8
                          /\ bit_count * MinClocks + clock_count <= tx_count + 1
  /\ tx_fsm = "TIMESLOT" => /\ tx_count \in 0 .. Channels /\ timeslot_ls_bit
                            /\ clock_count <= tx_count + 1

FramersInv ==
  TimingInv /\ StrobesInv /\ RxBusy /\ TxBusy /\ NoStrobeMissedByEither

LEMMA FramersConstants ==
  /\ MinClocks \in Nat /\ MinClocks >= 1
  /\ Channels \in Nat /\ Channels >= 1
  /\ report_length \in Nat /\ report_length >= 1
  /\ Channels + report_length + 2 <= 8 * MinClocks
  /\ tx_report_length \in Nat /\ tx_report_length >= 1
  /\ Channels + 2 <= MinClocks
  /\ tx_report_length + 3 <= 8 * MinClocks
  BY ClocksAssumption, RxFramerAssumption, RxClocksAssumption, TransmitAssumption
  DEF Tx!TxFramerAssumption, Tx!TxClocksAssumption

LEMMA FramersInvInit == FramersInit => FramersInv
  <1> SUFFICES ASSUME FramersInit PROVE FramersInv
    OBVIOUS
  <1>1. TimingInit /\ fsm = "WAIT" /\ tx_fsm = "WAIT"
    BY DEF FramersInit, Init, Tx!Init
  <1>2. ~timeslot_start_strobe /\ ~frame_strobe /\ ~bit_start_strobe
    BY <1>1 DEF TimingInit
  <1> QED
    BY <1>1, <1>2, TimingInvInit
    DEF FramersInv, StrobesInv, RxBusy, TxBusy, NoStrobeMissedByEither, NoStrobeMissed,
        Tx!NoStrobeMissed

(* Where the end of a bit leads: a timeslot starts after the eighth bit, and *)
(* the F bit is between the last timeslot and the first.                    *)
LEMMA SinceNext ==
  ASSUME TimingInv, NextBit
  PROVE  /\ since \in 0 .. 8 /\ bit_count \in Nat /\ (bit_count = 0 => since = 8)
         /\ timeslot_ms_bit_next
              => /\ since' = 0 /\ bit_count' # 0
                 /\ bit_count = 0 \/ (since = 7 /\ ~timeslot_last)
         /\ ~timeslot_ms_bit_next
              => /\ since' = since + 1 /\ bit_count # 0
                 /\ bit_count' = 0 => since = 7
                 /\ bit_count' # 0 => since < 7 /\ (timeslot_last' <=> timeslot_last)
  <1> USE LastBit, TimeslotsAssumption
  <1> DEFINE q == bit_count \div 8
             m == bit_count % 8
  <1>1. /\ bit_count \in 0 .. bit_count_last /\ bit_count \in Nat
        /\ frame_last_bit <=> bit_count = bit_count_last
        /\ bit_count # 0 => /\ timeslot_last <=> timeslot_in_frame = timeslots_per_frame - 1
                            /\ bit_count = 8 * timeslot_in_frame + (8 - bit_in_timeslot)
        /\ bit_in_timeslot \in 0 .. 7
        /\ timeslot_in_frame \in 0 .. timeslots_per_frame - 1
    BY DEF TimingInv, TimingTypeOK, FlagsFollowCount
  <1>2. q \in Nat /\ m \in 0 .. 7 /\ bit_count = 8 * q + m
    BY <1>1, DivMod
  <1>3. (timeslot_ms_bit_next <=> m = 0 /\ ~f_bit_next) /\ (f_bit_next <=> bit_count = bit_count_last)
    <2>1. f_bit_next <=> bit_count = bit_count_last
      BY <1>1 DEF f_bit_next, bit_count_next
    <2> QED BY <2>1, Zenon DEF timeslot_ms_bit_next
  <1>4. /\ bit_count' = IF bit_count = bit_count_last THEN 0 ELSE bit_count + 1
        /\ bit_in_timeslot' = IF bit_count = bit_count_last THEN 0 ELSE 7 - m
    BY <1>1 DEF NextBit, bit_count_next, bit_in_timeslot_next
  <1>5. ~timeslot_ms_bit_next /\ ~f_bit_next => (timeslot_last' <=> timeslot_last)
    BY Zenon DEF NextBit
  <1> HIDE DEF q, m
  <1>6. since \in 0 .. 8 /\ (bit_count = 0 => since = 8)
    BY <1>1 DEF since
  <1>7. bit_count # 0 => since = IF m = 0 THEN 7 ELSE m - 1
    BY <1>1, <1>2 DEF since
  <1>8. since' = IF bit_count = bit_count_last THEN 8 ELSE m
    BY <1>1, <1>2, <1>4 DEF since
  <1>9. CASE timeslot_ms_bit_next
    <2>1. m = 0 /\ bit_count # bit_count_last
      BY <1>3, <1>9
    <2>2. since' = 0 /\ bit_count' # 0
      BY <1>1, <1>4, <1>8, <2>1
    <2>3. bit_count # 0 => since = 7 /\ ~timeslot_last
      BY <1>1, <1>2, <1>7, <2>1
    <2> QED BY <1>1, <1>6, <1>9, <2>2, <2>3
  <1>10. CASE ~timeslot_ms_bit_next
    <2>1. CASE bit_count = bit_count_last
      <3>1. m = 0 /\ bit_count # 0
        BY <1>2, <2>1
      <3>2. since = 7 /\ since' = 8 /\ bit_count' = 0
        BY <1>4, <1>7, <1>8, <2>1, <3>1
      <3> QED BY <1>1, <1>6, <1>10, <3>1, <3>2
    <2>2. CASE bit_count # bit_count_last
      <3>1. m # 0 /\ ~f_bit_next
        BY <1>3, <1>10, <2>2
      <3>2. bit_count # 0 /\ bit_count' # 0
        BY <1>1, <1>2, <1>4, <2>2, <3>1
      <3>3. since = m - 1 /\ since' = m
        BY <1>7, <1>8, <2>2, <3>1, <3>2
      <3> QED BY <1>1, <1>2, <1>5, <1>6, <1>10, <3>1, <3>2, <3>3
    <2> QED BY <2>1, <2>2
  <1> QED BY <1>9, <1>10

LEMMA StrobesNext ==
  ASSUME TimingInv, NEW bit_end_strobe \in BOOLEAN, TimingClk(bit_end_strobe)
  PROVE  StrobesInv'
  <1>1. CASE bit_end_strobe
    <2>1. NextBit /\ clock_count' = 0
      BY <1>1 DEF TimingClk
    <2>2. (timeslot_start_strobe' => timeslot_ms_bit_next) /\ (frame_strobe' => f_bit_next)
      BY Zenon DEF TimingClk
    <2>3. f_bit_next => bit_count' = 0
      BY <2>1 DEF f_bit_next, NextBit
    <2> QED BY <2>1, <2>2, <2>3, SinceNext DEF StrobesInv
  <1>2. CASE ~bit_end_strobe
    <2>1. ~timeslot_start_strobe' /\ ~frame_strobe' /\ ~bit_start_strobe'
      BY <1>2, Zenon DEF TimingClk
    <2> QED BY <2>1 DEF StrobesInv
  <1> QED BY <1>1, <1>2

LEMMA AddedClock ==
  ASSUME NEW bits \in Nat, NEW clocks \in Nat, NEW next \in Nat, next <= clocks + 1
  PROVE  bits + next <= bits + clocks + 1 /\ bits + next \in Nat
  OBVIOUS

(* What a clock does to the time since a timeslot started. *)
LEMMA ElapsedNext ==
  ASSUME TimingInv, NEW bit_end_strobe \in BOOLEAN, TimingClk(bit_end_strobe)
  PROVE  /\ clock_count \in Nat /\ since \in 0 .. 8 /\ since * MinClocks \in Nat
         /\ ~(bit_end_strobe /\ timeslot_ms_bit_next)
              => /\ since' * MinClocks + clock_count' <= since * MinClocks + clock_count + 1
                 /\ since' * MinClocks + clock_count' \in Nat
         /\ bit_end_strobe => clock_count + 1 >= MinClocks /\ clock_count' = 0
         /\ ~bit_end_strobe => since' = since
  <1>. USE FramersConstants
  <1>1. clock_count \in 0 .. MinClocks /\ bit_in_timeslot \in 0 .. 7
    BY DEF TimingInv, TimingTypeOK
  <1>2. since \in 0 .. 8
    BY <1>1 DEF since
  <1>3. since * MinClocks \in Nat /\ (since + 1) * MinClocks = since * MinClocks + MinClocks
    BY <1>2
  <1>4. CASE bit_end_strobe
    <2>1. NextBit /\ clock_count + 1 >= MinClocks /\ clock_count' = 0
      BY <1>4 DEF TimingClk
    <2>2. ~timeslot_ms_bit_next => since' = since + 1
      BY <2>1, SinceNext
    <2> QED BY <1>1, <1>2, <1>3, <1>4, <2>1, <2>2
  <1>5. CASE ~bit_end_strobe
    <2>1. bit_count' = bit_count /\ bit_in_timeslot' = bit_in_timeslot
      BY <1>5 DEF TimingClk
    <2>2. since' = since
      BY <2>1 DEF since
    <2>3. clock_count' <= clock_count + 1 /\ clock_count' \in Nat
      BY <1>1, <1>5 DEF TimingClk
    <2>4. since' * MinClocks = since * MinClocks
      BY <2>2
    <2>5. PICK s \in Nat : s = since * MinClocks /\ s = since' * MinClocks
      BY <1>3, <2>4
    <2>6. s + clock_count' <= s + clock_count + 1 /\ s + clock_count' \in Nat
      <3>1. clock_count \in Nat
        BY <1>1
      <3> QED BY <2>3, <3>1, AddedClock
    <2>7. /\ since' * MinClocks + clock_count' <= since * MinClocks + clock_count + 1
          /\ since' * MinClocks + clock_count' \in Nat
      BY <2>5, <2>6, Zenon
    <2>8. clock_count \in Nat /\ since * MinClocks \in Nat
      BY <1>1, <1>3
    <2> QED BY <1>2, <1>5, <2>2, <2>7, <2>8, Zenon
  <1> QED BY <1>4, <1>5

(* The receive adapter at the start of a timeslot: eight bits are enough for *)
(* the channels' bytes, nine for the report of a frame too.                 *)
LEMMA RxInTime ==
  ASSUME FramersInv, NEW bit_end_strobe \in BOOLEAN, Clk(bit_end_strobe),
         bit_end_strobe, timeslot_ms_bit_next
  PROVE  fsm' = "WAIT"
  <1>. USE FramersConstants
  <1>1. TimingInv /\ TimingClk(bit_end_strobe) /\ NextBit /\ Adapter
    BY DEF FramersInv, Clk, TimingClk
  <1>2. /\ clock_count \in Nat /\ clock_count + 1 >= MinClocks
        /\ since \in 0 .. 8 /\ (bit_count = 0 => since = 8)
        /\ bit_count = 0 \/ (since = 7 /\ ~timeslot_last)
    BY <1>1, ElapsedNext, SinceNext
  <1>3. /\ since = 7 => since * MinClocks = 7 * MinClocks
        /\ since = 8 => since * MinClocks = 8 * MinClocks
    OBVIOUS
  <1>4. CASE fsm = "WAIT"
    <2>1. ~timeslot_start_strobe
      BY <1>2 DEF FramersInv, StrobesInv
    <2> QED BY <1>1, <1>4, <2>1 DEF Adapter
  <1>5. CASE fsm = "TIMESLOT"
    <2>1. count \in 0 .. Channels /\ since * MinClocks + clock_count <= count + 1
      BY <1>5 DEF FramersInv, RxBusy
    <2> QED BY <1>2, <1>3, <2>1
  <1>6. CASE fsm = "REPORT"
    <2>1. /\ count \in 0 .. report_length
          /\ bit_count = 0 \/ timeslot_last
          /\ since * MinClocks + clock_count <= Channels + 2 + count
      BY <1>6 DEF FramersInv, RxBusy
    <2>2. count \in 0 .. report_length /\ since = 8
      BY <1>2, <1>6 DEF FramersInv, RxBusy
    <2>3. count = report_length
      BY <1>2, <1>3, <2>1, <2>2
    <2> QED BY <1>1, <1>6, <2>3 DEF Adapter
  <1> QED BY <1>4, <1>5, <1>6 DEF FramersInv, RxBusy

LEMMA RxBusyNext ==
  ASSUME FramersInv, NEW bit_end_strobe \in BOOLEAN, Clk(bit_end_strobe)
  PROVE  RxBusy'
  <1>. USE FramersConstants
  <1>1. TimingInv /\ TimingClk(bit_end_strobe) /\ Adapter
    BY DEF FramersInv, Clk
  <1>2. CASE bit_end_strobe /\ timeslot_ms_bit_next
    BY <1>2, RxInTime DEF RxBusy
  <1>3. CASE ~(bit_end_strobe /\ timeslot_ms_bit_next)
    <2>. DEFINE elapsed == since * MinClocks + clock_count
    <2>1. /\ elapsed \in Nat /\ elapsed' <= elapsed + 1 /\ elapsed' \in Nat
          /\ clock_count \in Nat /\ since \in 0 .. 8
      BY <1>1, <1>3, ElapsedNext
    <2>2. bit_count' # 0 /\ fsm # "WAIT" =>
            /\ bit_count # 0 /\ (timeslot_last' <=> timeslot_last)
      <3>1. CASE bit_end_strobe
        BY <1>1, <1>3, <3>1, SinceNext DEF TimingClk
      <3>2. CASE ~bit_end_strobe
        BY <1>1, <3>2 DEF TimingClk
      <3> QED BY <3>1, <3>2
    <2>3. fsm = "TIMESLOT" => bit_count' # 0
      <3>1. SUFFICES ASSUME fsm = "TIMESLOT", bit_count' = 0 PROVE FALSE
        OBVIOUS
      <3>2. /\ bit_count # 0 /\ count \in 0 .. Channels /\ elapsed <= count + 1
        BY <3>1 DEF FramersInv, RxBusy
      <3>3. bit_end_strobe
        BY <1>1, <3>1, <3>2 DEF TimingClk
      <3>4. since = 7 /\ clock_count + 1 >= MinClocks
        BY <1>1, <1>3, <3>1, <3>3, SinceNext, ElapsedNext DEF TimingClk
      <3> QED BY <2>1, <3>2, <3>4
    <2>4. CASE fsm = "WAIT" /\ timeslot_start_strobe
      <3>1. fsm' = "TIMESLOT" /\ count' = 0
        BY <1>1, <2>4 DEF Adapter
      <3>2. since = 0 /\ clock_count = 0 /\ bit_count # 0
        BY <2>4 DEF FramersInv, StrobesInv
      <3>3. elapsed = 0
        BY <3>2
      <3>4. bit_count' # 0
        <4>1. CASE bit_end_strobe
          BY <1>1, <1>3, <3>2, <4>1, SinceNext DEF TimingClk
        <4>2. CASE ~bit_end_strobe
          BY <1>1, <3>2, <4>2 DEF TimingClk
        <4> QED BY <4>1, <4>2
      <3> QED BY <2>1, <3>1, <3>3, <3>4 DEF RxBusy
    <2>5. CASE fsm = "WAIT" /\ ~timeslot_start_strobe
      BY <1>1, <2>5 DEF Adapter, RxBusy
    <2>6. CASE fsm = "TIMESLOT"
      <3>1. count \in 0 .. Channels /\ elapsed <= count + 1 /\ bit_count # 0
        BY <2>6 DEF FramersInv, RxBusy
      <3>2. \/ fsm' = "WAIT"
            \/ fsm' = "REPORT" /\ count = Channels /\ count' = 0 /\ timeslot_last
            \/ fsm' = "TIMESLOT" /\ count # Channels /\ count' = count + 1
        BY <1>1, <2>6 DEF Adapter, timeslots_length
      <3>. HIDE DEF elapsed
      <3>3. CASE fsm' = "WAIT"
        BY <3>3 DEF RxBusy
      <3>4. CASE fsm' = "REPORT" /\ count = Channels /\ count' = 0 /\ timeslot_last
        <4>1. elapsed' <= Channels + 2 + count'
          BY <2>1, <3>1, <3>4
        <4>2. timeslot_last'
          BY <2>2, <2>3, <2>6, <3>4
        <4> QED BY <3>4, <4>1, <4>2 DEF RxBusy, elapsed
      <3>5. CASE fsm' = "TIMESLOT" /\ count # Channels /\ count' = count + 1
        <4>1. elapsed' <= count' + 1 /\ count' \in 0 .. Channels
          BY <2>1, <3>1, <3>5
        <4> QED BY <2>3, <2>6, <3>5, <4>1 DEF RxBusy, elapsed
      <3> QED BY <3>2, <3>3, <3>4, <3>5
    <2>7. CASE fsm = "REPORT"
      <3>1. /\ count \in 0 .. report_length /\ elapsed <= Channels + 2 + count
            /\ bit_count = 0 \/ timeslot_last
        BY <2>7 DEF FramersInv, RxBusy
      <3>1a. count \in 0 .. report_length /\ elapsed <= Channels + 2 + count
        BY <2>7 DEF FramersInv, RxBusy
      <3>2. \/ fsm' = "WAIT"
            \/ fsm' = "REPORT" /\ count # report_length /\ count' = count + 1
        BY <1>1, <2>7 DEF Adapter
      <3>. HIDE DEF elapsed
      <3>3. CASE fsm' = "WAIT"
        BY <3>3 DEF RxBusy
      <3>4. CASE fsm' = "REPORT" /\ count # report_length /\ count' = count + 1
        <4>1. elapsed' <= Channels + 2 + count' /\ count' \in 0 .. report_length
          BY <2>1, <3>1a, <3>4
        <4>2. bit_count' = 0 \/ timeslot_last'
          BY <2>2, <2>7, <3>1
        <4> QED BY <3>4, <4>1, <4>2 DEF RxBusy, elapsed
      <3> QED BY <3>2, <3>3, <3>4
    <2> QED BY <2>4, <2>5, <2>6, <2>7 DEF FramersInv, RxBusy
  <1> QED BY <1>2, <1>3

(* The transmit adapter, for a clock that ends a bit too: a report is read    *)
(* before eight bits are over, a timeslot fetched before its last one is.   *)
LEMMA TxBusyNext ==
  ASSUME FramersInv, NEW bit_end_strobe \in BOOLEAN, TimingClk(bit_end_strobe), Tx!Adapter
  PROVE  /\ TxBusy'
         /\ bit_end_strobe => tx_fsm' # "TIMESLOT" /\ (tx_fsm' = "REPORT" => bit_count' # 0)
  <1>. USE FramersConstants
  <1>1. /\ clock_count \in Nat /\ clock_count' \in Nat /\ clock_count' <= clock_count + 1
        /\ bit_count \in 0 .. bit_count_last /\ bit_count_last \in Nat /\ bit_count_last >= 8
        /\ bit_end_strobe => clock_count + 1 >= MinClocks /\ clock_count' = 0
        /\ ~bit_end_strobe => bit_count' = bit_count /\ (timeslot_ls_bit' <=> timeslot_ls_bit)
    BY LastBit DEF FramersInv, TimingInv, TimingTypeOK, TimingClk
  <1>2. bit_end_strobe /\ bit_count < 8 => bit_count' = bit_count + 1
    BY <1>1 DEF TimingClk, NextBit, bit_count_next
  <1>3. CASE tx_fsm = "WAIT" /\ frame_strobe
    <2>1. tx_fsm' = "REPORT" /\ tx_count' = 0
      BY <1>3 DEF Tx!Adapter
    <2>2. clock_count = 0 /\ bit_count = 0
      BY <1>3 DEF FramersInv, StrobesInv
    <2>3. ~bit_end_strobe /\ bit_count' = 0 /\ clock_count' <= 1
      BY <1>1, <2>2
    <2>4. bit_count' * MinClocks + clock_count' <= 1
      <3>1. bit_count' * MinClocks = 0
        BY <2>3
      <3>2. clock_count' \in Nat /\ clock_count' <= 1
        BY <1>1, <2>3
      <3> QED BY <3>1, <3>2
    <2>5. bit_count' * MinClocks + clock_count' <= tx_count' + 1
      BY <2>1, <2>4
    <2>6. tx_count' \in 0 .. tx_report_length /\ bit_count' < 8
      BY <2>1, <2>3
    <2> QED BY <2>1, <2>3, <2>5, <2>6 DEF TxBusy
  <1>4. CASE tx_fsm = "WAIT" /\ ~frame_strobe /\ timeslot_ls_bit /\ bit_start_strobe
    <2>1. tx_fsm' = "TIMESLOT" /\ tx_count' = 0
      BY <1>4 DEF Tx!Adapter
    <2>2. clock_count = 0
      BY <1>4 DEF FramersInv, StrobesInv
    <2>3. ~bit_end_strobe /\ timeslot_ls_bit' /\ clock_count' <= 1
      BY <1>1, <1>4, <2>2
    <2> QED BY <1>1, <2>1, <2>3 DEF TxBusy
  <1>5. CASE tx_fsm = "WAIT" /\ ~frame_strobe /\ ~(timeslot_ls_bit /\ bit_start_strobe)
    <2>1. tx_fsm' = "WAIT"
      BY <1>5 DEF Tx!Adapter
    <2> QED BY <2>1 DEF TxBusy
  <1>6. CASE tx_fsm = "REPORT"
    <2>. DEFINE elapsed == bit_count * MinClocks + clock_count
    <2>1. tx_count \in 0 .. tx_report_length /\ bit_count < 8 /\ elapsed <= tx_count + 1
      BY <1>6 DEF FramersInv, TxBusy
    <2>2. elapsed' <= elapsed + 1 /\ elapsed \in Nat /\ elapsed' \in Nat
      <3>1. /\ bit_count * MinClocks \in Nat
            /\ (bit_count + 1) * MinClocks = bit_count * MinClocks + MinClocks
        BY <1>1
      <3>2. CASE bit_end_strobe
        <4>1. bit_count' = bit_count + 1
          BY <1>2, <2>1, <3>2
        <4> QED BY <1>1, <3>1, <3>2, <4>1
      <3>3. CASE ~bit_end_strobe
        <4>1. bit_count' * MinClocks = bit_count * MinClocks
          BY <1>1, <3>3
        <4> QED BY <1>1, <3>1, <4>1
      <3> QED BY <3>2, <3>3
    <2>3. bit_end_strobe /\ bit_count = 7 => elapsed' = 8 * MinClocks
      BY <1>1, <1>2
    <2>4. bit_end_strobe => bit_count' # 0
      BY <1>1, <1>2, <2>1
    <2>5. \/ tx_fsm' = "WAIT"
          \/ tx_fsm' = "REPORT" /\ tx_count # tx_report_length /\ tx_count' = tx_count + 1
      BY <1>6 DEF Tx!Adapter
    <2>. HIDE DEF elapsed
    <2>6. CASE tx_fsm' = "WAIT"
      BY <2>6 DEF TxBusy
    <2>7. CASE tx_fsm' = "REPORT" /\ tx_count # tx_report_length /\ tx_count' = tx_count + 1
      <3>1. elapsed' <= tx_count' + 1 /\ tx_count' \in 0 .. tx_report_length
        BY <2>1, <2>2, <2>7
      <3>2. ~(bit_end_strobe /\ bit_count = 7)
        BY <2>3, <3>1
      <3>3. bit_count' < 8
        BY <1>1, <1>2, <2>1, <3>2
      <3> QED BY <2>4, <2>7, <3>1, <3>3 DEF TxBusy, elapsed
    <2> QED BY <2>5, <2>6, <2>7
  <1>7. CASE tx_fsm = "TIMESLOT"
    <2>1. tx_count \in 0 .. Channels /\ timeslot_ls_bit /\ clock_count <= tx_count + 1
      BY <1>7 DEF FramersInv, TxBusy
    <2>2. \/ tx_fsm' = "WAIT" /\ tx_count = Channels
          \/ tx_fsm' = "TIMESLOT" /\ tx_count # Channels /\ tx_count' = tx_count + 1
      BY <1>7 DEF Tx!Adapter, Tx!timeslots_length
    <2>3. CASE tx_fsm' = "WAIT" /\ tx_count = Channels
      BY <2>3 DEF TxBusy
    <2>4. CASE tx_fsm' = "TIMESLOT" /\ tx_count # Channels /\ tx_count' = tx_count + 1
      <3>1. ~bit_end_strobe
        BY <1>1, <2>1, <2>4
      <3>2. tx_count' \in 0 .. Channels /\ timeslot_ls_bit' /\ clock_count' <= tx_count' + 1
        BY <1>1, <2>1, <2>4, <3>1
      <3> QED BY <2>4, <3>1, <3>2 DEF TxBusy
    <2> QED BY <2>2, <2>3, <2>4
  <1> QED BY <1>3, <1>4, <1>5, <1>6, <1>7 DEF FramersInv, TxBusy

LEMMA FramersInvNext == FramersInv /\ [FramersNext]_framers_vars => FramersInv'
  <1> SUFFICES ASSUME FramersInv, [FramersNext]_framers_vars PROVE FramersInv'
    OBVIOUS
  <1>1. ASSUME NEW bit_end_strobe \in BOOLEAN, Clk(bit_end_strobe), Tx!Clk(bit_end_strobe)
        PROVE  FramersInv'
    <2>1. TimingInv /\ TimingClk(bit_end_strobe) /\ Tx!Adapter
      BY <1>1 DEF FramersInv, Clk, Tx!Clk
    <2>2. TimingInv' /\ StrobesInv'
      BY <2>1, ClkInv, StrobesNext
    <2>3. RxBusy'
      BY <1>1, RxBusyNext
    <2>4. /\ TxBusy'
          /\ bit_end_strobe => tx_fsm' # "TIMESLOT" /\ (tx_fsm' = "REPORT" => bit_count' # 0)
      BY <2>1, TxBusyNext
    <2>5. ~bit_end_strobe => ~timeslot_start_strobe' /\ ~frame_strobe' /\ ~bit_start_strobe'
      BY <2>1, Zenon DEF TimingClk
    <2>6. NoStrobeMissed'
      <3>1. timeslot_start_strobe' => bit_end_strobe /\ timeslot_ms_bit_next
        BY <2>1, Zenon DEF TimingClk
      <3> QED BY <1>1, <3>1, RxInTime DEF NoStrobeMissed
    <2>7. Tx!NoStrobeMissed'
      <3>1. SUFFICES ASSUME frame_strobe' \/ (timeslot_ls_bit' /\ bit_start_strobe')
                     PROVE  tx_fsm' = "WAIT"
        BY DEF Tx!NoStrobeMissed
      <3>2. bit_end_strobe
        BY <2>5, <3>1
      <3>3. CASE tx_fsm' = "REPORT"
        <4>1. bit_count' < 8 /\ bit_count' # 0 /\ bit_count' \in Nat
          BY <2>2, <2>4, <3>2, <3>3, LastBit DEF TxBusy, TimingInv, TimingTypeOK
        <4>2. ~frame_strobe'
          BY <2>2, <4>1 DEF StrobesInv
        <4>3. ~timeslot_ls_bit'
          BY <2>2, <4>1 DEF TimingInv, FlagsFollowCount
        <4> QED BY <3>1, <4>2, <4>3
      <3> QED BY <2>4, <3>2, <3>3 DEF TxBusy
    <2> QED BY <2>2, <2>3, <2>4, <2>6, <2>7 DEF FramersInv, NoStrobeMissedByEither
  <1>2. CASE UNCHANGED framers_vars
    <2>1. UNCHANGED <<timing_vars, fsm, count, tx_fsm, tx_count>>
      BY <1>2 DEF framers_vars, rx_vars, Tx!tx_vars
    <2>2. TimingInv'
      BY <2>1 DEF FramersInv, timing_vars, TimingInv, TimingTypeOK, FlagsFollowCount,
                  bit_count_last, bits_per_frame
    <2>3. StrobesInv' /\ RxBusy' /\ TxBusy' /\ NoStrobeMissedByEither'
      BY <2>1 DEF FramersInv, timing_vars, StrobesInv, RxBusy, TxBusy, since,
                  NoStrobeMissedByEither, NoStrobeMissed, Tx!NoStrobeMissed
    <2> QED BY <2>2, <2>3 DEF FramersInv
  <1> QED BY <1>1, <1>2 DEF FramersNext

(* Both adapters are back in WAIT for every strobe they must act on, for      *)
(* every number of channels and timeslots, size of the reports and spacing  *)
(* of the bits that RxClocksAssumption and TransmitAssumption allow:         *)
(* RxFramerToFIFOAdapter and TxFIFOToFramerAdapter look at the strobes in    *)
(* WAIT only.                                                              *)
THEOREM NoStrobeMissedByEitherHolds == FramersSpec => []NoStrobeMissedByEither
  <1>1. FramersInit => FramersInv
    BY FramersInvInit
  <1>2. FramersInv /\ [FramersNext]_framers_vars => FramersInv'
    BY FramersInvNext
  <1>3. FramersInv => NoStrobeMissedByEither
    BY DEF FramersInv
  <1> QED BY <1>1, <1>2, <1>3, PTL DEF FramersSpec

-----------------------------------------------------------------------------
(* A shift register of eight places. *)
LEMMA FunctionIsSeq ==
  ASSUME NEW S, NEW n \in Nat, NEW s \in [1 .. n -> S]
  PROVE  s \in Seq(S) /\ Len(s) = n
  <1>1. s \in Seq(S)
    OBVIOUS
  <1>. QED BY <1>1, LenProperties

LEMMA EightIsSome ==
  ASSUME NEW S, NEW s \in Seq(S), Len(s) = 8
  PROVE  s # << >> /\ Head(s) = s[1]
  OBVIOUS

EightOf(S) == [1 .. 8 -> S]
PushedOut(s, x) == [i \in 1 .. 8 |-> IF i = 8 THEN x ELSE s[i + 1]]

LEMMA FirstOfEight ==
  ASSUME NEW S, NEW s \in EightOf(S)
  PROVE  Head(s) = s[1]
  <1>1. s \in Seq(S) /\ Len(s) = 8
    BY 8 \in Nat, FunctionIsSeq DEF EightOf
  <1>. QED BY <1>1, EightIsSome

LEMMA ShiftRegister ==
  ASSUME NEW S, NEW s \in EightOf(S), NEW x \in S
  PROVE  Append(Tail(s), x) = PushedOut(s, x)
  <1>. DEFINE tail == Tail(s)
              shifted == Append(tail, x)
  <1>1. s \in Seq(S) /\ Len(s) = 8
    BY 8 \in Nat, FunctionIsSeq DEF EightOf
  <1>2. s # << >>
    BY <1>1, EightIsSome
  <1>3. tail \in Seq(S) /\ Len(tail) = Len(s) - 1 /\ \A i \in 1 .. Len(tail) : tail[i] = s[i + 1]
    BY <1>1, <1>2, HeadTailProperties, Zenon
  <1>. HIDE DEF tail
  <1>4. Len(tail) = 7 /\ \A i \in 1 .. 7 : tail[i] = s[i + 1]
    BY <1>1, <1>3
  <1>5. shifted \in Seq(S) /\ Len(shifted) = Len(tail) + 1
    BY <1>3, AppendProperties
  <1>6. shifted[Len(tail) + 1] = x
    BY <1>3
  <1>7. \A i \in 1 .. Len(tail) : shifted[i] = tail[i]
    BY <1>3
  <1>. HIDE DEF shifted
  <1>8. Len(shifted) = 8 /\ shifted[8] = x /\ \A i \in 1 .. 7 : shifted[i] = s[i + 1]
    BY <1>4, <1>5, <1>6, <1>7
  <1>9. shifted \in EightOf(S)
    BY <1>5, <1>8, LenProperties DEF EightOf
  <1>10. shifted = PushedOut(s, x)
    BY <1>8, <1>9 DEF EightOf, PushedOut
  <1>. QED BY <1>10 DEF shifted, tail

(* The bytes of a timeslot, one of each channel, in a record. *)
LEMMA RowOfCells ==
  ASSUME NEW width \in Nat, width >= 1, NEW row \in Nat, NEW column \in 0 .. width - 1
  PROVE  /\ (row * width + column) % width = column
         /\ (row * width + column) \div width = row
  OBVIOUS

LEMMA SumOfRows ==
  ASSUME NEW width \in Nat, NEW row \in Nat, NEW left \in Nat
  PROVE  /\ (row + 1 + left) * width = (row + 1) * width + left * width
         /\ (row + 1) * width = row * width + width
         /\ left * width \in Nat /\ row * width \in Nat
  OBVIOUS

LEMMA Rows ==
  ASSUME NEW timeslot \in 0 .. timeslots_per_frame - 1
  PROVE  /\ timeslot * Channels \in Nat /\ timeslots_per_frame * Channels \in Nat
         /\ (timeslot + 1) * Channels = timeslot * Channels + Channels
         /\ timeslot * Channels + Channels <= timeslots_per_frame * Channels
  <1>. USE FramersConstants, TimeslotsAssumption
  <1>. DEFINE left == timeslots_per_frame - (timeslot + 1)
  <1>1. left \in Nat /\ timeslots_per_frame = timeslot + 1 + left
    OBVIOUS
  <1>. HIDE DEF left
  <1>2. PICK rest \in Nat : /\ timeslots_per_frame * Channels = (timeslot + 1) * Channels + rest
                            /\ (timeslot + 1) * Channels = timeslot * Channels + Channels
                            /\ timeslot * Channels \in Nat
    BY <1>1, SumOfRows
  <1>. QED BY <1>2

LEMMA Cell ==
  ASSUME NEW timeslot \in 0 .. timeslots_per_frame - 1, NEW channel \in 0 .. Channels - 1
  PROVE  /\ (timeslot * Channels + channel) % Channels = channel
         /\ (timeslot * Channels + channel) \div Channels = timeslot
  BY FramersConstants, TimeslotsAssumption, RowOfCells

LEMMA ByteOfBits ==
  ASSUME NEW frame, NEW timeslot \in 0 .. timeslots_per_frame - 1
  PROVE  ByteOf(TimeslotBits(frame, timeslot)) = <<frame, timeslot>>
  <1>. USE TimeslotsAssumption
  <1>. DEFINE bits == TimeslotBits(frame, timeslot)
              here == {<<bits[1][1], other>> : other \in 0 .. timeslots_per_frame - 1}
  <1>1. bits[1] = <<frame, 8 * timeslot + 1>>
    BY DEF TimeslotBits
  <1>2. <<frame, timeslot>> \in here /\ bits = TimeslotBits(<<frame, timeslot>>[1], <<frame, timeslot>>[2])
    BY <1>1
  <1>3. ASSUME NEW byte \in here, bits = TimeslotBits(byte[1], byte[2])
        PROVE  byte = <<frame, timeslot>>
    <2>1. PICK other \in 0 .. timeslots_per_frame - 1 : byte = <<frame, other>>
      BY <1>1
    <2>2. bits[1] = <<frame, 8 * other + 1>>
      BY <1>3, <2>1 DEF TimeslotBits
    <2>. QED BY <1>1, <2>1, <2>2
  <1>. HIDE DEF bits
  <1>4. (CHOOSE byte \in here : bits = TimeslotBits(byte[1], byte[2])) = <<frame, timeslot>>
    BY <1>2, <1>3
  <1>5. ByteOf(bits) = <<frame, timeslot>>
    BY <1>2, <1>4, Zenon DEF ByteOf
  <1>. QED BY <1>5 DEF bits

-----------------------------------------------------------------------------
(***************************************************************************)
(* The receive side: the framer's bits, the bytes cut from them and the     *)
(* page as far as it is written, all of the line frame on record.           *)
(***************************************************************************)
RxTypes ==
  /\ ser \in LineBits /\ ser_shifter \in [1 .. 8 -> LineBits]
  /\ page = [addr \in Addresses |-> page[addr]]
(* The first sync pulse since reset has come, eight bits before the frame. *)
synced == warm \/ frame_strobe \/ bit_count >= rx_f_bit_in_system_frame
(* From then on the line is eight bits ahead, and the shifter has the bits of *)
(* its frame that are behind it.                                            *)
LineInv ==
  /\ synced => ser[2] = IF bit_count >= rx_f_bit_in_system_frame
                        THEN bit_count - rx_f_bit_in_system_frame ELSE bit_count + 8
  /\ synced => \A i \in 1 .. 8 :
       ser[2] >= 9 - i => ser_shifter[i] = <<ser[1], (ser[2] + i) - 9>>
  /\ frame_strobe => timeslot_f = <<ser[1], 0>>
  /\ (warm \/ frame_strobe) /\ bit_count = 0 => f_bit
(* The line frame the record is of: the line goes on to the next one eight    *)
(* bits before this one's record is given away.                             *)
Recorded(frame) ==
  IF frame_strobe \/ bit_count >= rx_f_bit_in_system_frame
  THEN Following(frame) = ser[1] ELSE frame = ser[1]
(* The addresses below this one have been written for that frame. *)
written == IF timeslot_start_strobe /\ timeslot_first THEN 0 ELSE address
(* The adapter writes the record's bytes in order: where it is follows from   *)
(* the timeslot on the line and what it has done of it.                     *)
AddressInv ==
  /\ bit_count # 0 =>
       /\ fsm = "TIMESLOT" => address = timeslot_in_frame * Channels + count
       /\ fsm = "REPORT" => address = timeslots_per_frame * Channels + count
       /\ fsm = "WAIT" =>
            IF timeslot_start_strobe
            THEN timeslot_first \/ address = timeslot_in_frame * Channels
            ELSE address = (timeslot_in_frame + 1) * Channels
                             + (IF timeslot_last THEN report_length ELSE 0)
  /\ frame_strobe => address = record_size
RecordInv(frame) ==
  /\ Recorded(frame) /\ mf_bits = <<frame, 0>>
  /\ bit_count # 0 => timeslot_data = <<frame, timeslot_in_frame>>
  /\ bit_count # 0 \/ frame_strobe =>
       \A addr \in Addresses : addr < written => page[addr] = RecordOf(frame)[addr]
RxInv == RxTypes /\ LineInv
     /\ (warm => AddressInv /\ \E frame \in Frames : RecordInv(frame))

(* Where a bit is in its timeslot, in the terms the flags are used in. *)
LEMMA Position ==
  ASSUME TimingInv
  PROVE  /\ bit_count \in 0 .. 8 * timeslots_per_frame /\ bit_in_timeslot \in 0 .. 7
         /\ timeslot_in_frame \in 0 .. timeslots_per_frame - 1
         /\ bit_count # 0 => bit_count = 8 * timeslot_in_frame + (8 - bit_in_timeslot)
         /\ timeslot_ls_bit <=> bit_count # 0 /\ bit_in_timeslot = 0
         /\ frame_last_bit <=> bit_count = 8 * timeslots_per_frame
         /\ f_bit => bit_count = 0
         /\ bit_count # 0 => /\ timeslot_first <=> timeslot_in_frame = 0
                             /\ timeslot_last <=> timeslot_in_frame = timeslots_per_frame - 1
  <1>. USE LastBit, TimeslotsAssumption
  <1>1. /\ bit_count \in 0 .. 8 * timeslots_per_frame /\ bit_in_timeslot \in 0 .. 7
        /\ timeslot_in_frame \in 0 .. timeslots_per_frame - 1
        /\ f_bit => bit_count = 0
        /\ frame_last_bit <=> bit_count = 8 * timeslots_per_frame
        /\ bit_count # 0 => /\ bit_count = 8 * timeslot_in_frame + (8 - bit_in_timeslot)
                            /\ timeslot_first <=> timeslot_in_frame = 0
                            /\ timeslot_last <=> timeslot_in_frame = timeslots_per_frame - 1
    BY DEF TimingInv, TimingTypeOK, FlagsFollowCount
  <1>2. timeslot_ls_bit <=> bit_count # 0 /\ bit_count % 8 = 0
    BY DEF TimingInv, FlagsFollowCount
  <1>3. bit_count # 0 => (bit_count % 8 = 0 <=> bit_in_timeslot = 0)
    BY <1>1
  <1>. QED BY <1>1, <1>2, <1>3

(* A bit of the frame and its place in a timeslot, as the flags have it. *)
IsPlace(count8, timeslot, bit) ==
  /\ count8 \in Nat /\ timeslot \in Nat /\ bit \in 0 .. 7
  /\ count8 # 0 => count8 = 8 * timeslot + (8 - bit)

LEMMA Places ==
  ASSUME NEW here, NEW timeslot, NEW bit, IsPlace(here, timeslot, bit),
         NEW there, NEW next, NEW nextbit, IsPlace(there, next, nextbit),
         there = 0 \/ there = here + 1
  PROVE  /\ here = 0 /\ there # 0 => next = 0 /\ nextbit = 7
         /\ here # 0 /\ there # 0 /\ bit # 0 => next = timeslot /\ nextbit = bit - 1
         /\ here # 0 /\ there # 0 /\ bit = 0 => next = timeslot + 1 /\ nextbit = 7
  BY DEF IsPlace

(* How a bit's end moves it on: within a timeslot, to the next one, from the  *)
(* F bit to the first, and from the last to the F bit.                      *)
LEMMA PositionNext ==
  ASSUME TimingInv, TimingInv', NextBit
  PROVE  /\ bit_count' = bit_count_next
         /\ bit_count_next = IF bit_count = 8 * timeslots_per_frame THEN 0 ELSE bit_count + 1
         /\ bit_count = 0 =>
              bit_count' # 0 /\ timeslot_in_frame' = 0 /\ bit_in_timeslot' = 7
         /\ bit_count # 0 /\ bit_in_timeslot # 0 =>
              /\ bit_count' # 0 /\ timeslot_in_frame' = timeslot_in_frame
              /\ bit_in_timeslot' = bit_in_timeslot - 1
         /\ bit_count # 0 /\ bit_in_timeslot = 0 /\ bit_count' # 0 =>
              timeslot_in_frame' = timeslot_in_frame + 1 /\ bit_in_timeslot' = 7
         /\ bit_count' = 0 =>
              /\ bit_in_timeslot = 0 /\ timeslot_in_frame = timeslots_per_frame - 1
              /\ bit_count = 8 * timeslots_per_frame
         /\ timeslot_ms_bit_next <=> bit_count' # 0 /\ bit_in_timeslot' = 7
  <1>. USE LastBit, TimeslotsAssumption
  <1>1. bit_count' = bit_count_next /\ (f_bit_next <=> bit_count' = 0)
    BY Zenon DEF NextBit, f_bit_next
  <1>2. bit_count_next = IF bit_count = 8 * timeslots_per_frame THEN 0 ELSE bit_count + 1
    BY DEF bit_count_next
  <1>3. /\ bit_count \in 0 .. 8 * timeslots_per_frame /\ bit_in_timeslot \in 0 .. 7
        /\ timeslot_in_frame \in 0 .. timeslots_per_frame - 1
        /\ bit_count # 0 => bit_count = 8 * timeslot_in_frame + (8 - bit_in_timeslot)
    BY Position
  <1>4. /\ bit_count' \in 0 .. 8 * timeslots_per_frame /\ bit_in_timeslot' \in 0 .. 7
        /\ timeslot_in_frame' \in 0 .. timeslots_per_frame - 1
        /\ bit_count' # 0 => bit_count' = 8 * timeslot_in_frame' + (8 - bit_in_timeslot')
    <2>1. /\ bit_count' \in 0 .. bit_count_last /\ bit_in_timeslot' \in 0 .. 7
          /\ timeslot_in_frame' \in 0 .. timeslots_per_frame - 1
          /\ bit_count' # 0 => bit_count' = 8 * timeslot_in_frame' + (8 - bit_in_timeslot')
      BY DEF TimingInv, TimingTypeOK, FlagsFollowCount, bit_count_last, bits_per_frame
    <2>. QED BY <2>1
  <1>5. timeslot_ms_bit_next <=> bit_count % 8 = 0 /\ bit_count' # 0
    BY <1>1, Zenon DEF timeslot_ms_bit_next
  <1>6. /\ bit_count = 0 => bit_count' # 0
        /\ bit_count # 0 /\ bit_in_timeslot # 0 => bit_count' # 0
        /\ bit_count' = 0 \/ bit_count' = bit_count + 1
        /\ bit_count \in Nat /\ bit_count' \in Nat
    BY <1>1, <1>2, <1>3
  <1>7. /\ IsPlace(bit_count, timeslot_in_frame, bit_in_timeslot)
        /\ IsPlace(bit_count', timeslot_in_frame', bit_in_timeslot')
    <2>1. timeslot_in_frame \in Nat /\ timeslot_in_frame' \in Nat
      BY <1>3, <1>4
    <2>. QED BY <1>3, <1>4, <1>6, <2>1 DEF IsPlace
  <1>8. /\ bit_count = 0 => bit_count' # 0 /\ timeslot_in_frame' = 0 /\ bit_in_timeslot' = 7
        /\ bit_count # 0 /\ bit_in_timeslot # 0 =>
             /\ bit_count' # 0 /\ timeslot_in_frame' = timeslot_in_frame
             /\ bit_in_timeslot' = bit_in_timeslot - 1
        /\ bit_count # 0 /\ bit_in_timeslot = 0 /\ bit_count' # 0 =>
             timeslot_in_frame' = timeslot_in_frame + 1 /\ bit_in_timeslot' = 7
    <2>1. /\ bit_count = 0 /\ bit_count' # 0 => timeslot_in_frame' = 0 /\ bit_in_timeslot' = 7
          /\ bit_count # 0 /\ bit_count' # 0 /\ bit_in_timeslot # 0 =>
               timeslot_in_frame' = timeslot_in_frame /\ bit_in_timeslot' = bit_in_timeslot - 1
          /\ bit_count # 0 /\ bit_count' # 0 /\ bit_in_timeslot = 0 =>
               timeslot_in_frame' = timeslot_in_frame + 1 /\ bit_in_timeslot' = 7
      BY <1>6, <1>7, Places
    <2>. QED BY <1>6, <2>1, Zenon
  <1>9. bit_count' = 0 =>
          /\ bit_in_timeslot = 0 /\ timeslot_in_frame = timeslots_per_frame - 1
          /\ bit_count = 8 * timeslots_per_frame
    BY <1>1, <1>2, <1>3
  <1>10. timeslot_ms_bit_next <=> bit_count' # 0 /\ bit_in_timeslot' = 7
    <2>1. bit_count % 8 = 0 <=> bit_count = 0 \/ bit_in_timeslot = 0
      BY <1>3
    <2>. QED BY <1>3, <1>5, <1>6, <1>8, <2>1
  <1>. QED BY <1>1, <1>2, <1>8, <1>9, <1>10, Zenon

(* The strobes last a clock, and a bit more than two. *)
LEMMA NoStrobeAtEnd ==
  ASSUME FramersInv, NEW bit_end_strobe \in BOOLEAN, TimingClk(bit_end_strobe)
  PROVE  /\ bit_end_strobe => /\ ~frame_strobe /\ ~timeslot_start_strobe /\ ~bit_start_strobe
                             /\ NextBit
         /\ ~bit_end_strobe =>
              /\ ~frame_strobe' /\ ~timeslot_start_strobe' /\ ~bit_start_strobe'
              /\ UNCHANGED <<bit_count, bit_in_timeslot, f_bit, timeslot_ls_bit, frame_last_bit,
                            timeslot_in_frame, timeslot_first, timeslot_last>>
  <1>1. bit_end_strobe => clock_count # 0
    BY FramersConstants DEF TimingClk
  <1>2. bit_end_strobe => ~frame_strobe /\ ~timeslot_start_strobe /\ ~bit_start_strobe
    BY <1>1 DEF FramersInv, StrobesInv
  <1>3. ~bit_end_strobe => ~frame_strobe' /\ ~timeslot_start_strobe' /\ ~bit_start_strobe'
    BY Zenon DEF TimingClk
  <1>. QED BY <1>2, <1>3 DEF TimingClk

LEMMA FollowingFrame ==
  ASSUME NEW frame \in Frames
  PROVE  Following(frame) \in Frames
  BY RxFramerAssumption DEF Frames, Following

LEMMA RxSync ==
  /\ rx_f_bit_in_system_frame = 8 * timeslots_per_frame - 7
  /\ rx_f_bit_in_system_frame \in 1 .. bit_count_last
  BY LastBit, TimeslotsAssumption DEF rx_f_bit_in_system_frame, bits_per_frame

LEMMA LineBitType ==
  ASSUME ser \in LineBits
  PROVE  NextLineBit \in LineBits /\ ser = <<ser[1], ser[2]>> /\ ser[1] \in Frames
         /\ ser[2] \in 0 .. bit_count_last
  BY LastBit, FollowingFrame DEF LineBits, NextLineBit

LEMMA BitsShifted ==
  ASSUME RxTypes
  PROVE  /\ ser_shifter_shifted[8] = ser
         /\ \A i \in 1 .. 7 : ser_shifter_shifted[i] = ser_shifter[i + 1]
         /\ Head(ser_shifter_shifted) = ser_shifter[2]
         /\ ser_shifter_shifted \in [1 .. 8 -> LineBits]
  <1>1. ser \in LineBits /\ ser_shifter \in EightOf(LineBits)
    BY DEF RxTypes, EightOf
  <1>2. ser_shifter_shifted = PushedOut(ser_shifter, ser)
    BY <1>1, ShiftRegister DEF ser_shifter_shifted
  <1>3. ser_shifter_shifted \in EightOf(LineBits)
    BY <1>1, <1>2 DEF PushedOut, EightOf
  <1>4. Head(ser_shifter_shifted) = ser_shifter_shifted[1]
    BY <1>3, FirstOfEight
  <1>5. /\ ser_shifter_shifted[8] = ser
        /\ \A i \in 1 .. 7 : ser_shifter_shifted[i] = ser_shifter[i + 1]
    BY <1>2 DEF PushedOut
  <1>. QED BY <1>3, <1>4, <1>5 DEF EightOf

LEMMA RxTypesNext ==
  ASSUME RxTypes, NEW bit_end_strobe \in BOOLEAN, RxBlock(bit_end_strobe), Adapter
  PROVE  RxTypes'
  <1>1. ser' \in LineBits
    BY LineBitType DEF RxTypes, RxBlock
  <1>2. ser_shifter' \in [1 .. 8 -> LineBits]
    BY BitsShifted DEF RxTypes, RxBlock
  <1>3. page' = [addr \in Addresses |-> page'[addr]]
    BY DEF RxTypes, Adapter, Write
  <1>4. LineBits' = LineBits /\ Addresses' = Addresses
    BY DEF LineBits, Frames, Addresses, record_size, bit_count_last, bits_per_frame
  <1>. QED BY <1>1, <1>2, <1>3, <1>4 DEF RxTypes

(* The end of a bit, of the line: the framer is in step from its first sync   *)
(* pulse on, and the shifter holds what the line gave since the F bit.       *)
LEMMA LineNext ==
  ASSUME FramersInv, FramersInv', RxTypes, RxTypes', LineInv,
         NEW bit_end_strobe \in BOOLEAN, Clk(bit_end_strobe), bit_end_strobe
  PROVE  LineInv'
  <1>. USE RxSync, TimeslotsAssumption, LastBit
  <1>1. TimingInv /\ TimingInv' /\ NextBit /\ ~frame_strobe
    BY NoStrobeAtEnd DEF FramersInv, Clk
  <1>2. /\ bit_count \in 0 .. 8 * timeslots_per_frame
        /\ bit_count' = bit_count_next
        /\ bit_count_next = IF bit_count = 8 * timeslots_per_frame THEN 0 ELSE bit_count + 1
        /\ frame_last_bit <=> bit_count = 8 * timeslots_per_frame
    BY <1>1, Position, PositionNext
  <1>3. /\ ser' = NextLineBit /\ ser_shifter' = ser_shifter_shifted
        /\ f_capture => timeslot_f' = Head(ser_shifter_shifted)
        /\ warm' <=> warm
    BY <1>1 DEF Clk, RxBlock, FrameReport
  <1>4. /\ ser = <<ser[1], ser[2]>> /\ ser[2] \in 0 .. 8 * timeslots_per_frame
        /\ ser \in LineBits /\ ser_shifter \in [1 .. 8 -> LineBits]
    BY LineBitType DEF RxTypes
  <1>5. /\ ser_shifter'[8] = ser /\ \A i \in 1 .. 7 : ser_shifter'[i] = ser_shifter[i + 1]
        /\ Head(ser_shifter_shifted) = ser_shifter[2]
    BY <1>3, BitsShifted
  <1>6. /\ f_bit' <=> bit_count' = 0
        /\ frame_strobe' <=> bit_count' = 0
    BY <1>1, <1>2, Zenon DEF Clk, TimingClk, NextBit, f_bit_next
  <1>7. CASE bit_count' = rx_f_bit_in_system_frame
    <2>1. ser'[2] = 0
      BY <1>2, <1>3, <1>7 DEF NextLineBit
    <2>2. ~frame_strobe'
      BY <1>6, <1>7
    <2>3. \A i \in 1 .. 8 : ~(ser'[2] >= 9 - i)
      BY <2>1
    <2>. QED BY <1>6, <1>7, <2>1, <2>2, <2>3 DEF LineInv, rx_f_bit_in_system_frame, bits_per_frame
  <1>8. CASE bit_count' # rx_f_bit_in_system_frame
    <2>1. synced' => synced
      BY <1>2, <1>3, <1>6, <1>8 DEF synced, rx_f_bit_in_system_frame, bits_per_frame
    <2>2. CASE synced
      <3>1. ser[2] = IF bit_count >= rx_f_bit_in_system_frame
                     THEN bit_count - rx_f_bit_in_system_frame ELSE bit_count + 8
        BY <2>2 DEF LineInv
      <3>2. ser' = <<ser[1], ser[2] + 1>>
        <4>1. ser[2] # bit_count_last
          BY <1>2, <1>8, <3>1
        <4>. QED BY <1>2, <1>3, <1>8, <4>1 DEF NextLineBit
      <3>3. ser'[1] = ser[1] /\ ser'[2] = ser[2] + 1
        BY <3>2
      <3>4. ser'[2] = IF bit_count' >= rx_f_bit_in_system_frame
                      THEN bit_count' - rx_f_bit_in_system_frame ELSE bit_count' + 8
        BY <1>2, <1>8, <3>1, <3>3
      <3>5. ASSUME NEW i \in 1 .. 8, ser'[2] >= 9 - i
            PROVE  ser_shifter'[i] = <<ser'[1], (ser'[2] + i) - 9>>
        <4>1. CASE i = 8
          BY <1>4, <1>5, <3>3, <4>1
        <4>2. CASE i # 8
          <5>1. i + 1 \in 1 .. 8 /\ i \in 1 .. 7 /\ ser[2] >= 9 - (i + 1)
            BY <1>4, <3>3, <3>5, <4>2
          <5>2. ser_shifter[i + 1] = <<ser[1], (ser[2] + (i + 1)) - 9>>
            BY <2>2, <5>1 DEF LineInv
          <5>3. (ser[2] + (i + 1)) - 9 = (ser'[2] + i) - 9
            BY <1>4, <3>3
          <5>. QED BY <1>5, <3>3, <5>1, <5>2, <5>3
        <4>. QED BY <4>1, <4>2
      <3>6. frame_strobe' => timeslot_f' = <<ser'[1], 0>>
        <4>1. SUFFICES ASSUME frame_strobe' PROVE timeslot_f' = <<ser'[1], 0>>
          OBVIOUS
        <4>2. bit_count = 8 * timeslots_per_frame /\ f_capture
          BY <1>2, <1>6, <4>1 DEF f_capture
        <4>3. ser[2] = 7
          BY <3>1, <4>2
        <4>4. ser_shifter[2] = <<ser[1], (ser[2] + 2) - 9>>
          BY <2>2, <4>3 DEF LineInv
        <4>. QED BY <1>3, <1>5, <3>3, <4>2, <4>3, <4>4
      <3>. QED BY <1>6, <3>4, <3>5, <3>6 DEF LineInv, rx_f_bit_in_system_frame, bits_per_frame
    <2>3. CASE ~synced
      <3>1. ~synced' /\ ~warm' /\ ~frame_strobe'
        BY <2>1, <2>3 DEF synced
      <3>. QED BY <3>1 DEF LineInv
    <2>. QED BY <2>2, <2>3
  <1>. QED BY <1>7, <1>8

LEMMA LineKept ==
  ASSUME FramersInv, LineInv,
         NEW bit_end_strobe \in BOOLEAN, Clk(bit_end_strobe), ~bit_end_strobe
  PROVE  LineInv'
  <1>1. /\ UNCHANGED <<bit_count, f_bit, ser, ser_shifter>> /\ ~frame_strobe'
        /\ warm' <=> warm \/ frame_strobe
    BY NoStrobeAtEnd DEF FramersInv, Clk, RxBlock, FrameReport
  <1>2. synced' => synced
    BY <1>1 DEF synced, rx_f_bit_in_system_frame, bits_per_frame
  <1>. QED BY <1>1, <1>2 DEF LineInv, rx_f_bit_in_system_frame, bits_per_frame

LEMMA TimeslotBytes ==
  ASSUME NEW frame, NEW timeslot \in 0 .. timeslots_per_frame - 1, NEW channel \in 0 .. Channels - 1
  PROVE  /\ timeslot * Channels + channel \in Addresses
         /\ RecordOf(frame)[timeslot * Channels + channel]
              = TimeslotByte(channel, <<frame, timeslot>>)
  <1>. USE FramersConstants, TimeslotsAssumption
  <1>. DEFINE addr == timeslot * Channels + channel
              end == timeslots_per_frame * Channels
  <1>1. addr \in Nat /\ end \in Nat /\ addr < end
    <2>1. PICK row \in Nat : row = timeslot * Channels /\ row + Channels <= end /\ end \in Nat
      BY Rows
    <2>. QED BY <2>1
  <1>2. addr % Channels = channel /\ addr \div Channels = timeslot
    BY Cell
  <1>. HIDE DEF addr
  <1>3. addr \in Addresses
    <2>1. record_size = end + report_length
      BY DEF record_size
    <2>. HIDE DEF end
    <2>. QED BY <1>1, <2>1 DEF Addresses
  <1>4. RecordOf(frame)[addr] = TimeslotByte(addr % Channels, <<frame, addr \div Channels>>)
    BY <1>1, <1>3 DEF RecordOf
  <1>5. RecordOf(frame)[addr] = TimeslotByte(channel, <<frame, timeslot>>)
    BY <1>2, <1>4
  <1>. QED BY <1>3, <1>5 DEF addr

LEMMA ReportBytes ==
  ASSUME NEW frame, NEW index \in 0 .. report_length - 1
  PROVE  /\ timeslots_per_frame * Channels + index \in Addresses
         /\ RecordOf(frame)[timeslots_per_frame * Channels + index]
              = ReportByte(index, frame_count, <<frame, 0>>)
  <1>. USE FramersConstants, TimeslotsAssumption
  <1>. DEFINE end == timeslots_per_frame * Channels
  <1>1. end \in Nat
    OBVIOUS
  <1>2. record_size = end + report_length
    BY DEF record_size
  <1>3. RecordOf(frame) = [addr \in Addresses |->
           IF addr < end
           THEN TimeslotByte(addr % Channels, <<frame, addr \div Channels>>)
           ELSE ReportByte(addr - end, frame_count, <<frame, 0>>)]
    BY DEF RecordOf
  <1>. HIDE DEF end
  <1>4. end + index \in Addresses /\ ~(end + index < end) /\ (end + index) - end = index
    BY <1>1, <1>2 DEF Addresses
  <1>. QED BY <1>3, <1>4 DEF end

LEMMA ByteWritten ==
  ASSUME RxTypes, NEW record, NEW byte, Write(byte), byte = record[address],
         address \in Addresses, address' = address + 1,
         \A addr \in Addresses : addr < address => page[addr] = record[addr]
  PROVE  \A addr \in Addresses : addr < address' => page'[addr] = record[addr]
  <1>1. page' = [page EXCEPT ![address] = byte] /\ page = [addr \in Addresses |-> page[addr]]
    BY DEF Write, RxTypes
  <1>2. Addresses \subseteq Int
    BY DEF Addresses
  <1>. SUFFICES ASSUME NEW addr \in Addresses, addr < address' PROVE page'[addr] = record[addr]
    OBVIOUS
  <1>3. CASE addr = address
    BY <1>1, <1>3
  <1>4. CASE addr # address
    <2>1. addr < address
      BY <1>2, <1>4
    <2>. QED BY <1>1, <1>4, <2>1
  <1>. QED BY <1>3, <1>4

(* A step of the adapter while a timeslot is on the line: the byte it writes  *)
(* is the record's next.                                                    *)
LEMMA AdapterStep ==
  ASSUME FramersInv, RxTypes, AddressInv, NEW frame \in Frames, RecordInv(frame),
         bit_count # 0, Adapter
  PROVE  /\ fsm' = "TIMESLOT" => address' = timeslot_in_frame * Channels + count'
         /\ fsm' = "REPORT" => address' = timeslots_per_frame * Channels + count'
         /\ fsm' = "WAIT" => address' = (timeslot_in_frame + 1) * Channels
                                          + (IF timeslot_last THEN report_length ELSE 0)
         /\ \A addr \in Addresses : addr < address' => page'[addr] = RecordOf(frame)[addr]
  <1>. USE FramersConstants, TimeslotsAssumption
  <1>. DEFINE row == timeslot_in_frame * Channels
              end == timeslots_per_frame * Channels
              record == RecordOf(frame)
  <1>1. /\ timeslot_in_frame \in 0 .. timeslots_per_frame - 1
        /\ timeslot_first <=> timeslot_in_frame = 0
        /\ timeslot_last <=> timeslot_in_frame = timeslots_per_frame - 1
    BY Position DEF FramersInv
  <1>2. /\ row \in Nat /\ end \in Nat /\ (timeslot_in_frame + 1) * Channels = row + Channels
        /\ timeslot_in_frame = timeslots_per_frame - 1 => end = row + Channels
        /\ timeslot_in_frame = 0 => row = 0
    BY <1>1, Rows
  <1>3. /\ timeslot_data = <<frame, timeslot_in_frame>> /\ mf_bits = <<frame, 0>>
        /\ \A addr \in Addresses : addr < written => page[addr] = record[addr]
    BY DEF RecordInv
  <1>4. \A channel \in 0 .. Channels - 1 :
          row + channel \in Addresses
          /\ record[row + channel] = TimeslotByte(channel, timeslot_data)
    BY <1>1, <1>3, TimeslotBytes
  <1>5. \A index \in 0 .. report_length - 1 :
          end + index \in Addresses
          /\ record[end + index] = ReportByte(index, frame_count, mf_bits)
    BY <1>3, ReportBytes
  <1>6. Addresses \subseteq Nat
    BY DEF Addresses
  <1>7. /\ fsm = "TIMESLOT" => address = row + count
        /\ fsm = "REPORT" => address = end + count
        /\ fsm = "WAIT" /\ timeslot_start_strobe => timeslot_first \/ address = row
        /\ fsm = "WAIT" /\ ~timeslot_start_strobe =>
             address = (timeslot_in_frame + 1) * Channels
                         + (IF timeslot_last THEN report_length ELSE 0)
    BY DEF AddressInv
  <1>8. /\ fsm \in {"WAIT", "TIMESLOT", "REPORT"}
        /\ fsm = "TIMESLOT" => count \in 0 .. Channels
        /\ fsm = "REPORT" => count \in 0 .. report_length /\ timeslot_last
        /\ fsm # "WAIT" => ~timeslot_start_strobe
    BY DEF FramersInv, RxBusy, NoStrobeMissedByEither, NoStrobeMissed
  <1>. HIDE DEF row, end, record
  <1>9. CASE fsm = "WAIT" /\ timeslot_start_strobe
    <2>1. /\ address' = IF timeslot_first THEN 0 ELSE address
          /\ count' = 0 /\ fsm' = "TIMESLOT" /\ page' = page
      BY <1>9 DEF Adapter
    <2>2. address' = row /\ address' = row + count' /\ address' = written
      BY <1>1, <1>2, <1>7, <1>9, <2>1 DEF written
    <2>. QED BY <1>3, <2>1, <2>2 DEF row, record
  <1>10. CASE fsm = "WAIT" /\ ~timeslot_start_strobe
    <2>1. UNCHANGED <<fsm, address, page>>
      BY <1>10 DEF Adapter
    <2>. QED BY <1>3, <1>7, <1>10, <2>1 DEF written, record
  <1>11. CASE fsm = "TIMESLOT" /\ count = Channels
    <2>1. /\ UNCHANGED <<address, page>>
          /\ IF timeslot_last THEN count' = 0 /\ fsm' = "REPORT" ELSE fsm' = "WAIT"
      BY <1>11 DEF Adapter, timeslots_length
    <2>2. \A addr \in Addresses : addr < address' => page'[addr] = record[addr]
      BY <1>3, <1>8, <1>11, <2>1 DEF written
    <2>3. CASE timeslot_last
      <3>1. fsm' = "REPORT" /\ address' = end + count'
        BY <1>1, <1>2, <1>7, <1>11, <2>1, <2>3
      <3>. QED BY <2>2, <3>1 DEF end, record
    <2>4. CASE ~timeslot_last
      <3>1. fsm' = "WAIT" /\ address' = (timeslot_in_frame + 1) * Channels + 0
        BY <1>2, <1>7, <1>11, <2>1, <2>4
      <3>. QED BY <2>2, <2>4, <3>1 DEF record
    <2>. QED BY <2>3, <2>4
  <1>12. CASE fsm = "TIMESLOT" /\ count # Channels
    <2>1. /\ Write(TimeslotByte(count, timeslot_data)) /\ address' = address + 1
          /\ count' = count + 1 /\ fsm' = "TIMESLOT"
      BY <1>12 DEF Adapter, timeslots_length
    <2>2. count \in 0 .. Channels - 1 /\ address = row + count /\ written = address
      BY <1>7, <1>8, <1>12 DEF written
    <2>3. address \in Addresses /\ record[address] = TimeslotByte(count, timeslot_data)
      BY <1>4, <2>2
    <2>4. \A addr \in Addresses : addr < address' => page'[addr] = record[addr]
      BY <1>3, <2>1, <2>2, <2>3, ByteWritten
    <2>5. address' = row + count'
      BY <1>2, <2>1, <2>2
    <2>. QED BY <2>1, <2>4, <2>5 DEF row, record
  <1>13. CASE fsm = "REPORT" /\ count = report_length
    <2>1. fsm' = "WAIT" /\ UNCHANGED <<address, page>>
      BY <1>13 DEF Adapter
    <2>2. address' = (timeslot_in_frame + 1) * Channels + report_length /\ timeslot_last
      BY <1>1, <1>2, <1>7, <1>8, <1>13, <2>1
    <2>3. \A addr \in Addresses : addr < address' => page'[addr] = record[addr]
      BY <1>3, <1>8, <1>13, <2>1 DEF written
    <2>. QED BY <2>1, <2>2, <2>3 DEF record
  <1>14. CASE fsm = "REPORT" /\ count # report_length
    <2>1. /\ Write(ReportByte(count, frame_count, mf_bits)) /\ address' = address + 1
          /\ count' = count + 1 /\ fsm' = "REPORT"
      BY <1>14 DEF Adapter
    <2>2. count \in 0 .. report_length - 1 /\ address = end + count /\ written = address
      BY <1>7, <1>8, <1>14 DEF written
    <2>3. address \in Addresses /\ record[address] = ReportByte(count, frame_count, mf_bits)
      BY <1>5, <2>2
    <2>4. \A addr \in Addresses : addr < address' => page'[addr] = record[addr]
      BY <1>3, <2>1, <2>2, <2>3, ByteWritten
    <2>5. address' = end + count'
      BY <1>2, <2>1, <2>2
    <2>. QED BY <2>1, <2>4, <2>5 DEF end, record
  <1>. QED BY <1>8, <1>9, <1>10, <1>11, <1>12, <1>13, <1>14

(* The byte captured is that of the timeslot that starts.                    *)
LEMMA CaptureWhen ==
  ASSUME TimingInv
  PROVE  timeslot_capture <=> f_bit \/ (timeslot_ls_bit /\ ~frame_last_bit)
                                  \/ (~timeslot_ls_bit /\ frame_last_bit)
  <1>1. timeslot_ls_bit \in BOOLEAN /\ frame_last_bit \in BOOLEAN /\ f_bit \in BOOLEAN
    BY DEF TimingInv, TimingTypeOK
  <1>. QED BY <1>1, Zenon DEF timeslot_capture

LEMMA CaptureNext ==
  ASSUME FramersInv, FramersInv', RxTypes, LineInv, NEW frame \in Frames, RecordInv(frame),
         warm, NEW bit_end_strobe \in BOOLEAN, Clk(bit_end_strobe), bit_end_strobe,
         bit_count' # 0
  PROVE  timeslot_data' = <<frame, timeslot_in_frame'>>
  <1>. USE RxSync, TimeslotsAssumption, LastBit
  <1>1. TimingInv /\ TimingInv' /\ NextBit /\ ~frame_strobe
    BY NoStrobeAtEnd DEF FramersInv, Clk
  <1>2. /\ bit_count \in 0 .. 8 * timeslots_per_frame /\ bit_in_timeslot \in 0 .. 7
        /\ timeslot_in_frame \in 0 .. timeslots_per_frame - 1
        /\ bit_count # 0 => bit_count = 8 * timeslot_in_frame + (8 - bit_in_timeslot)
        /\ timeslot_ls_bit <=> bit_count # 0 /\ bit_in_timeslot = 0
        /\ frame_last_bit <=> bit_count = 8 * timeslots_per_frame
        /\ f_bit => bit_count = 0
    BY <1>1, Position
  <1>3. /\ bit_count = 0 => timeslot_in_frame' = 0
        /\ bit_count # 0 /\ bit_in_timeslot # 0 => timeslot_in_frame' = timeslot_in_frame
        /\ bit_count # 0 /\ bit_in_timeslot = 0 => timeslot_in_frame' = timeslot_in_frame + 1
        /\ bit_count # 8 * timeslots_per_frame
        /\ timeslot_in_frame' \in 0 .. timeslots_per_frame - 1
    <2>1. timeslot_in_frame' \in 0 .. timeslots_per_frame - 1
      BY <1>1 DEF TimingInv, TimingTypeOK
    <2>. QED BY <1>1, <2>1, PositionNext
  <1>4. timeslot_data' = IF timeslot_capture THEN ByteOf(ser_shifter_shifted) ELSE timeslot_data
    BY DEF Clk, RxBlock
  <1>5. CASE bit_count # 0 /\ bit_in_timeslot # 0
    <2>1. ~timeslot_capture
      BY <1>1, <1>2, <1>3, <1>5, CaptureWhen
    <2>. QED BY <1>3, <1>4, <1>5, <2>1 DEF RecordInv
  <1>6. CASE bit_count = 0 \/ bit_in_timeslot = 0
    <2>1. timeslot_capture
      <3>1. bit_count = 0 => f_bit
        BY DEF LineInv
      <3>2. bit_count # 0 => timeslot_ls_bit /\ ~frame_last_bit
        BY <1>2, <1>3, <1>6
      <3>. QED BY <1>1, <3>1, <3>2, CaptureWhen, Zenon
    <2>0. PICK next \in 0 .. timeslots_per_frame - 1 : next = timeslot_in_frame'
      BY <1>3
    <2>2. bit_count + 8 = 8 * next + 8 /\ bit_count < rx_f_bit_in_system_frame
      <3>1. bit_count = 8 * next
        <4>1. CASE bit_count = 0
          BY <1>3, <2>0, <4>1
        <4>2. CASE bit_count # 0
          <5>1. bit_count = 8 * timeslot_in_frame + 8 /\ next = timeslot_in_frame + 1
            BY <1>2, <1>3, <1>6, <2>0, <4>2
          <5>. QED BY <1>2, <5>1
        <4>. QED BY <4>1, <4>2
      <3>. QED BY <3>1
    <2>3. frame = ser[1] /\ ser[2] = 8 * next + 8
      <3>1. bit_count \in Nat /\ rx_f_bit_in_system_frame \in Nat
        BY <1>2
      <3>2. ~(bit_count >= rx_f_bit_in_system_frame)
        BY <2>2, <3>1
      <3>. QED BY <1>1, <2>2, <3>2 DEF RecordInv, Recorded, LineInv, synced
    <2>4. \A i \in 1 .. 8 : ser_shifter_shifted[i] = <<frame, 8 * next + i>>
      <3>1. ASSUME NEW i \in 1 .. 8
            PROVE  ser_shifter_shifted[i] = <<frame, 8 * next + i>>
        <4>1. CASE i = 8
          <5>1. ser_shifter_shifted[8] = ser /\ ser = <<ser[1], ser[2]>>
            BY BitsShifted, LineBitType DEF RxTypes
          <5>. QED BY <2>3, <4>1, <5>1
        <4>2. CASE i # 8
          <5>1. i + 1 \in 1 .. 8 /\ i \in 1 .. 7 /\ ser[2] >= 9 - (i + 1)
                /\ (ser[2] + (i + 1)) - 9 = 8 * next + i
            BY <2>3, <4>2
          <5>2. ser_shifter_shifted[i] = ser_shifter[i + 1]
            BY <5>1, BitsShifted
          <5>3. ser_shifter[i + 1] = <<ser[1], (ser[2] + (i + 1)) - 9>>
            BY <5>1 DEF LineInv, synced
          <5>. QED BY <2>3, <5>1, <5>2, <5>3
        <4>. QED BY <4>1, <4>2
      <3>. QED BY <3>1
    <2>5. ser_shifter_shifted = TimeslotBits(frame, next)
      <3>1. ser_shifter_shifted \in [1 .. 8 -> LineBits]
        BY BitsShifted
      <3>. QED BY <2>4, <3>1 DEF TimeslotBits
    <2>6. ByteOf(TimeslotBits(frame, timeslot_in_frame')) = <<frame, timeslot_in_frame'>>
      BY <1>3, ByteOfBits
    <2>. QED BY <1>4, <2>0, <2>1, <2>5, <2>6
  <1>. QED BY <1>5, <1>6

(* A clock within a bit, the page's record not yet given away. *)
LEMMA RecordKept ==
  ASSUME FramersInv, RxTypes, AddressInv, NEW frame \in Frames, RecordInv(frame),
         ~frame_strobe, NEW bit_end_strobe \in BOOLEAN, Clk(bit_end_strobe), ~bit_end_strobe
  PROVE  AddressInv' /\ RecordInv(frame)'
  <1>1. /\ UNCHANGED <<bit_count, timeslot_in_frame, timeslot_first, timeslot_last>>
        /\ ~frame_strobe' /\ ~timeslot_start_strobe'
    BY NoStrobeAtEnd DEF FramersInv, Clk
  <1>2. UNCHANGED <<ser, timeslot_data, frame_count, mf_bits>>
    BY DEF Clk, RxBlock, FrameReport
  <1>3. Recorded(frame)' /\ RecordOf(frame)' = RecordOf(frame) /\ Addresses' = Addresses
    <2>1. RecordOf(frame)' = RecordOf(frame) /\ Addresses' = Addresses
      BY <1>2 DEF RecordOf, Addresses, record_size
    <2>2. Recorded(frame)'
      BY <1>1, <1>2 DEF RecordInv, Recorded, rx_f_bit_in_system_frame, bits_per_frame
    <2>. QED BY <2>1, <2>2
  <1>4. CASE bit_count = 0
    BY <1>1, <1>2, <1>3, <1>4 DEF AddressInv, RecordInv
  <1>5. CASE bit_count # 0
    <2>1. /\ fsm' = "TIMESLOT" => address' = timeslot_in_frame * Channels + count'
          /\ fsm' = "REPORT" => address' = timeslots_per_frame * Channels + count'
          /\ fsm' = "WAIT" => address' = (timeslot_in_frame + 1) * Channels
                                           + (IF timeslot_last THEN report_length ELSE 0)
          /\ \A addr \in Addresses : addr < address' => page'[addr] = RecordOf(frame)[addr]
      BY <1>5, AdapterStep DEF Clk
    <2>2. AddressInv'
      BY <1>1, <2>1 DEF AddressInv
    <2>3. written' = address'
      BY <1>1 DEF written
    <2>4. RecordInv(frame)'
      BY <1>1, <1>2, <1>3, <1>5, <2>1, <2>3 DEF RecordInv
    <2>. QED BY <2>2, <2>4
  <1>. QED BY <1>4, <1>5

LEMMA ReportOver ==
  ASSUME NEW index \in 0 .. report_length, NEW bits, bits = 8, NEW clocks, clocks = 0,
         bits * MinClocks + clocks <= Channels + 2 + index
  PROVE  index = report_length
  <1>1. 8 * MinClocks \in Nat /\ 8 * MinClocks + 0 = 8 * MinClocks
    BY FramersConstants
  <1>2. 8 * MinClocks <= Channels + 2 + index
    BY <1>1
  <1>. QED BY <1>1, <1>2, FramersConstants

(* The end of a bit: the next timeslot starts behind this one's bytes, and the *)
(* frame ends with the record complete.                                      *)
LEMMA RecordNext ==
  ASSUME FramersInv, FramersInv', RxTypes, LineInv, AddressInv,
         NEW frame \in Frames, RecordInv(frame), warm,
         NEW bit_end_strobe \in BOOLEAN, Clk(bit_end_strobe), bit_end_strobe
  PROVE  AddressInv' /\ RecordInv(frame)'
  <1>. USE TimeslotsAssumption
  <1>1. /\ TimingInv /\ TimingInv' /\ NextBit /\ ~frame_strobe /\ ~timeslot_start_strobe
        /\ Adapter
    BY NoStrobeAtEnd DEF FramersInv, Clk
  <1>2. /\ UNCHANGED <<frame_count, mf_bits>> /\ ser' = NextLineBit
        /\ frame_strobe' <=> bit_count' = 0
        /\ timeslot_start_strobe' <=> timeslot_ms_bit_next
    <2>1. UNCHANGED <<frame_count, mf_bits>> /\ ser' = NextLineBit
      BY <1>1 DEF Clk, RxBlock, FrameReport
    <2>2. /\ frame_strobe' <=> bit_count' = 0
          /\ timeslot_start_strobe' <=> timeslot_ms_bit_next
      BY <1>1, PositionNext, Zenon DEF Clk, TimingClk, f_bit_next
    <2>. QED BY <2>1, <2>2
  <1>3. Recorded(frame)'
    <2>1. IF bit_count >= rx_f_bit_in_system_frame THEN Following(frame) = ser[1] ELSE frame = ser[1]
      BY <1>1 DEF RecordInv, Recorded
    <2>2. ser'[1] = IF bit_count' = rx_f_bit_in_system_frame THEN Following(ser[1]) ELSE ser[1]
      BY <1>1, <1>2, PositionNext DEF NextLineBit
    <2>3. /\ bit_count \in 0 .. 8 * timeslots_per_frame
          /\ bit_count' = IF bit_count = 8 * timeslots_per_frame THEN 0 ELSE bit_count + 1
      BY <1>1, Position, PositionNext
    <2>4. CASE bit_count' = rx_f_bit_in_system_frame
      <3>1. ~(bit_count >= rx_f_bit_in_system_frame)
        BY <2>3, <2>4, RxSync
      <3>2. Following(frame) = ser'[1] /\ bit_count' >= rx_f_bit_in_system_frame
        BY <2>1, <2>2, <2>3, <2>4, <3>1, RxSync
      <3>. QED BY <3>2 DEF Recorded, rx_f_bit_in_system_frame, bits_per_frame, Following
    <2>5. CASE bit_count' # rx_f_bit_in_system_frame
      <3>1. bit_count >= rx_f_bit_in_system_frame <=>
              bit_count' = 0 \/ bit_count' >= rx_f_bit_in_system_frame
        BY <2>3, <2>5, RxSync
      <3>. QED BY <1>2, <2>1, <2>2, <2>5, <3>1
               DEF Recorded, rx_f_bit_in_system_frame, bits_per_frame, Following
    <2>. QED BY <2>4, <2>5
  <1>4. RecordOf(frame)' = RecordOf(frame) /\ Addresses' = Addresses
    BY <1>2 DEF RecordOf, Addresses, record_size
  <1>5. bit_count' # 0 => timeslot_data' = <<frame, timeslot_in_frame'>>
    BY CaptureNext
  <1>6. mf_bits' = <<frame, 0>>
    BY <1>2 DEF RecordInv
  <1>7. bit_count # 0 =>
          /\ fsm' = "TIMESLOT" => address' = timeslot_in_frame * Channels + count'
          /\ fsm' = "REPORT" => address' = timeslots_per_frame * Channels + count'
          /\ fsm' = "WAIT" => address' = (timeslot_in_frame + 1) * Channels
                                           + (IF timeslot_last THEN report_length ELSE 0)
          /\ \A addr \in Addresses : addr < address' => page'[addr] = RecordOf(frame)[addr]
    BY <1>1, AdapterStep
  <1>8. /\ bit_in_timeslot \in 0 .. 7 /\ timeslot_in_frame \in 0 .. timeslots_per_frame - 1
        /\ bit_count # 0 => (timeslot_last <=> timeslot_in_frame = timeslots_per_frame - 1)
        /\ bit_count' # 0 => (timeslot_first' <=> timeslot_in_frame' = 0)
        /\ bit_count' # 0 => (timeslot_last' <=> timeslot_in_frame' = timeslots_per_frame - 1)
        /\ timeslot_in_frame' \in 0 .. timeslots_per_frame - 1
    <2>1. /\ bit_count' # 0 => (timeslot_first' <=> timeslot_in_frame' = 0)
          /\ bit_count' # 0 => (timeslot_last' <=> timeslot_in_frame' = timeslots_per_frame - 1)
          /\ timeslot_in_frame' \in 0 .. timeslots_per_frame - 1
      BY <1>1 DEF TimingInv, TimingTypeOK, FlagsFollowCount
    <2>. QED BY <1>1, <2>1, Position
  <1>9. CASE bit_count = 0
    <2>1. /\ bit_count' # 0 /\ timeslot_in_frame' = 0 /\ timeslot_first' /\ timeslot_ms_bit_next
      BY <1>1, <1>8, <1>9, PositionNext
    <2>2. timeslot_start_strobe' /\ fsm' = "WAIT" /\ ~frame_strobe'
      BY <1>2, <2>1, RxInTime
    <2>3. AddressInv'
      BY <2>1, <2>2 DEF AddressInv
    <2>4. written' = 0 /\ \A addr \in Addresses : ~(addr < 0)
      BY <2>1, <2>2 DEF written, Addresses
    <2>. QED BY <1>3, <1>4, <1>5, <1>6, <2>3, <2>4 DEF RecordInv
  <1>10. CASE bit_count # 0 /\ bit_in_timeslot # 0
    <2>1. /\ bit_count' # 0 /\ timeslot_in_frame' = timeslot_in_frame
          /\ ~timeslot_ms_bit_next
      BY <1>1, <1>8, <1>10, PositionNext
    <2>2. ~timeslot_start_strobe' /\ ~frame_strobe' /\ (timeslot_last' <=> timeslot_last)
      BY <1>2, <1>8, <1>10, <2>1
    <2>3. AddressInv'
      BY <1>7, <1>10, <2>1, <2>2 DEF AddressInv
    <2>4. written' = address'
      BY <2>2 DEF written
    <2>. QED BY <1>3, <1>4, <1>5, <1>6, <1>7, <1>10, <2>3, <2>4 DEF RecordInv
  <1>11. CASE bit_count # 0 /\ bit_in_timeslot = 0 /\ bit_count' # 0
    <2>1. timeslot_in_frame' = timeslot_in_frame + 1 /\ timeslot_ms_bit_next
      BY <1>1, <1>11, PositionNext
    <2>2. timeslot_start_strobe' /\ fsm' = "WAIT" /\ ~frame_strobe'
      BY <1>2, <1>11, <2>1, RxInTime
    <2>3. ~timeslot_last /\ ~timeslot_first'
      BY <1>8, <1>11, <2>1
    <2>4. address' = (timeslot_in_frame + 1) * Channels
      <3>1. (timeslot_in_frame + 1) * Channels \in Nat
        BY <1>8, FramersConstants
      <3>. QED BY <1>7, <1>11, <2>2, <2>3, <3>1
    <2>5. AddressInv'
      BY <2>1, <2>2, <2>4 DEF AddressInv
    <2>6. written' = address'
      BY <2>3 DEF written
    <2>. QED BY <1>3, <1>4, <1>5, <1>6, <1>7, <1>11, <2>5, <2>6 DEF RecordInv
  <1>12. CASE bit_count # 0 /\ bit_count' = 0
    <2>1. /\ timeslot_in_frame = timeslots_per_frame - 1 /\ ~timeslot_ms_bit_next
      BY <1>1, <1>12, PositionNext
    <2>2. ~timeslot_start_strobe' /\ frame_strobe' /\ timeslot_last
      BY <1>2, <1>8, <1>12, <2>1
    <2>3. address' = record_size
      <3>1. record_size = timeslots_per_frame * Channels + report_length
        BY DEF record_size
      <3>2. CASE fsm' = "WAIT"
        BY <1>7, <1>8, <1>12, <2>1, <2>2, <3>1, <3>2
      <3>3. CASE fsm' = "REPORT"
        <4>1. /\ count' \in 0 .. report_length
              /\ since' * MinClocks + clock_count' <= Channels + 2 + count'
          BY <3>3 DEF FramersInv, RxBusy
        <4>2. since' = 8 /\ clock_count' = 0
          BY <1>12 DEF Clk, TimingClk, since
        <4>3. count' = report_length
          BY <4>1, <4>2, ReportOver
        <4>. QED BY <1>7, <1>12, <3>1, <3>3, <4>3
      <3>4. fsm' \in {"WAIT", "REPORT"}
        BY <1>12 DEF FramersInv, RxBusy
      <3>. QED BY <3>2, <3>3, <3>4
    <2>4. AddressInv'
      BY <1>12, <2>3 DEF AddressInv, record_size
    <2>5. written' = address'
      BY <2>2 DEF written
    <2>. QED BY <1>3, <1>4, <1>5, <1>6, <1>7, <1>12, <2>4, <2>5 DEF RecordInv
  <1>. QED BY <1>9, <1>10, <1>11, <1>12

LEMMA RxInvInit == FramersInit => RxInv
  <1>. SUFFICES ASSUME FramersInit PROVE RxInv
    OBVIOUS
  <1>1. Init /\ TimingInit
    BY DEF FramersInit, Init
  <1>2. RxTypes
    <2>1. \A position \in 0 .. bit_count_last : <<0, position>> \in LineBits
      BY RxFramerAssumption DEF LineBits, Frames
    <2>2. 0 \in 0 .. bit_count_last
      BY LastBit
    <2>. QED BY <1>1, <2>1, <2>2 DEF RxTypes, Init
  <1>3. ~warm /\ ~frame_strobe /\ ~synced
    BY <1>1, RxSync DEF Init, TimingInit, synced
  <1>. QED BY <1>2, <1>3 DEF RxInv, LineInv

LEMMA RxInvNext ==
  ASSUME FramersInv, FramersInv', RxInv, NEW bit_end_strobe \in BOOLEAN, Clk(bit_end_strobe)
  PROVE  RxInv'
  <1>1. RxTypes' /\ LineInv'
    BY RxTypesNext, LineNext, LineKept DEF RxInv, Clk
  <1>2. warm' <=> warm \/ frame_strobe
    BY DEF Clk, FrameReport
  <1>3. CASE frame_strobe
    <2>1. /\ ~bit_end_strobe /\ bit_count' = bit_count /\ ~frame_strobe' /\ bit_count = 0
      BY <1>3, NoStrobeAtEnd DEF Clk, FramersInv, StrobesInv
    <2>2. ser' = ser /\ mf_bits' = timeslot_f
      BY <1>3, <2>1 DEF Clk, RxBlock, FrameReport
    <2>3. timeslot_f = <<ser[1], 0>> /\ ser[1] \in Frames
      BY <1>3, LineBitType DEF RxInv, LineInv, RxTypes
    <2>4. ~(0 >= rx_f_bit_in_system_frame)
      BY RxSync
    <2>5. AddressInv'
      BY <2>1 DEF AddressInv
    <2>6. \E frame \in Frames : RecordInv(frame)'
      <3>1. PICK frame \in Frames : frame = ser[1]
        BY <2>3
      <3>2. RecordInv(frame)'
        BY <2>1, <2>2, <2>3, <2>4, <3>1 DEF RecordInv, Recorded, rx_f_bit_in_system_frame, bits_per_frame
      <3>. QED BY <3>2
    <2>. QED BY <1>1, <2>5, <2>6 DEF RxInv, Frames
  <1>4. CASE ~frame_strobe /\ warm
    <2>1. PICK frame \in Frames : RecordInv(frame)
      BY <1>4 DEF RxInv
    <2>2. AddressInv' /\ RecordInv(frame)'
      <3>1. CASE bit_end_strobe
        BY <1>4, <2>1, <3>1, RecordNext DEF RxInv
      <3>2. CASE ~bit_end_strobe
        BY <1>4, <2>1, <3>2, RecordKept DEF RxInv
      <3>. QED BY <3>1, <3>2
    <2>. QED BY <1>1, <2>2 DEF RxInv, Frames
  <1>5. CASE ~frame_strobe /\ ~warm
    BY <1>1, <1>2, <1>5 DEF RxInv
  <1>. QED BY <1>3, <1>4, <1>5

LEMMA RxInvKept ==
  ASSUME RxInv, UNCHANGED <<timing_vars, rx_vars>>
  PROVE  RxInv'
  <1>1. /\ UNCHANGED <<bit_count, f_bit, timeslot_in_frame, timeslot_first, timeslot_last,
                      timeslot_start_strobe, frame_strobe>>
        /\ UNCHANGED <<ser, ser_shifter, timeslot_data, timeslot_f, frame_count, mf_bits,
                      fsm, count, address, page, warm>>
    BY DEF timing_vars, rx_vars
  <1>2. RxTypes' /\ LineInv'
    BY <1>1 DEF RxInv, RxTypes, LineInv, synced, LineBits, Frames, bit_count_last, bits_per_frame,
                Addresses, record_size, rx_f_bit_in_system_frame
  <1>3. AddressInv => AddressInv'
    BY <1>1 DEF AddressInv, record_size
  <1>4. ASSUME NEW frame \in Frames, RecordInv(frame) PROVE RecordInv(frame)'
    <2>1. RecordOf(frame)' = RecordOf(frame) /\ Addresses' = Addresses
      BY <1>1 DEF RecordOf, Addresses, record_size
    <2>2. Recorded(frame)' /\ written' = written
      BY <1>1, <1>4 DEF RecordInv, Recorded, written, Following, rx_f_bit_in_system_frame, bits_per_frame
    <2>. QED BY <1>1, <1>4, <2>1, <2>2 DEF RecordInv
  <1>5. warm => AddressInv /\ \E frame \in Frames : RecordInv(frame)
    BY DEF RxInv
  <1>. QED BY <1>1, <1>2, <1>3, <1>4, <1>5 DEF RxInv, Frames

LEMMA RecordComplete == FramersInv /\ RxInv => RecordAligned
  <1>. SUFFICES ASSUME FramersInv, RxInv, frame_strobe, warm
                PROVE  \E frame \in Frames : Following(frame) = ser[1] /\ page = RecordOf(frame)
    BY DEF RecordAligned, w_advance
  <1>1. PICK frame \in Frames : RecordInv(frame)
    BY DEF RxInv
  <1>2. Following(frame) = ser[1]
    BY <1>1 DEF RecordInv, Recorded
  <1>3. ~timeslot_start_strobe /\ written = record_size
    BY DEF RxInv, AddressInv, FramersInv, StrobesInv, written
  <1>4. \A addr \in Addresses : addr < record_size
    <2>1. record_size \in Int
      BY FramersConstants, TimeslotsAssumption DEF record_size
    <2>. QED BY <2>1 DEF Addresses
  <1>5. \A addr \in Addresses : page[addr] = RecordOf(frame)[addr]
    BY <1>1, <1>3, <1>4 DEF RecordInv
  <1>6. page = RecordOf(frame)
    <2>1. page = [addr \in Addresses |-> page[addr]]
      BY DEF RxInv, RxTypes
    <2>2. RecordOf(frame) = [addr \in Addresses |-> RecordOf(frame)[addr]]
      BY DEF RecordOf
    <2>. QED BY <1>5, <2>1, <2>2
  <1>. QED BY <1>2, <1>6

(* For every number of timeslots, channels, bytes of report and spacing of    *)
(* the bits that the clocks leave time for, and wherever in its frame the    *)
(* framer was at reset: every record given to the FIFO but the first is that *)
(* of the line frame just over (rx_block.py, rx_framer_to_fifo.py).          *)
THEOREM RecordAlignedHolds == FramersSpec => []RecordAligned
  <1>1. FramersInit => FramersInv /\ RxInv
    BY FramersInvInit, RxInvInit
  <1>2. FramersInv /\ RxInv /\ [FramersNext]_framers_vars => FramersInv' /\ RxInv'
    <2>. SUFFICES ASSUME FramersInv, RxInv, [FramersNext]_framers_vars PROVE FramersInv' /\ RxInv'
      OBVIOUS
    <2>1. FramersInv'
      BY FramersInvNext
    <2>2. CASE FramersNext
      BY <2>1, <2>2, RxInvNext DEF FramersNext
    <2>3. CASE UNCHANGED framers_vars
      <3>1. UNCHANGED <<timing_vars, rx_vars>>
        BY <2>3 DEF framers_vars
      <3>. QED BY <2>1, <3>1, RxInvKept
    <2>. QED BY <2>1, <2>2, <2>3
  <1>3. FramersInv /\ RxInv => RecordAligned
    BY RecordComplete
  <1>. QED BY <1>1, <1>2, <1>3, PTL DEF FramersSpec

-----------------------------------------------------------------------------
(***************************************************************************)
(* The transmit side: what has been fetched of a timeslot, and what the     *)
(* shifters still hold of the one before.                                  *)
(***************************************************************************)
TxBytes == (Tx!RecordIds \X Tx!Addresses) \union {NoByte}
TxBits == (TxBytes \X (1 .. 8)) \union {Tx!F, Tx!NoBit}
TxTypes ==
  /\ fifo_r_ptr \in Tx!RecordIds /\ r_data \in TxBytes
  /\ tx_timeslot_data \in [Tx!ChannelIds -> TxBytes]
  /\ tx_ser_shifter \in EightOf([Tx!ChannelIds -> TxBits])
  /\ tx_address \in Nat

(* The bytes of a timeslot, as many channels' as have been fetched. *)
Fetched(data, record, timeslot, channels) ==
  \A channel \in Tx!ChannelIds :
    channel < channels =>
      data[channel] = <<record, Tx!TimeslotAddress(timeslot, channel)>>

(* The adapter reads on where it stopped, and the read port has the byte of   *)
(* the address it is at.                                                    *)
FetchInv ==
  /\ tx_fsm = "REPORT" => tx_address = tx_count
  /\ tx_fsm = "TIMESLOT" =>
       /\ tx_address = Tx!TimeslotAddress(timeslot_in_frame, 0) + tx_count
       /\ tx_count # Channels => r_data = <<fifo_r_ptr, tx_address>>
       /\ Fetched(tx_timeslot_data, fifo_r_ptr, timeslot_in_frame, tx_count)
  /\ tx_fsm = "WAIT" /\ timeslot_ls_bit /\ ~bit_start_strobe =>
       /\ tx_address = Tx!TimeslotAddress(timeslot_in_frame, 0) + Channels
       /\ Fetched(tx_timeslot_data, fifo_r_ptr, timeslot_in_frame, Channels)
  /\ tx_fsm = "WAIT" /\ ~(timeslot_ls_bit /\ ~bit_start_strobe) =>
       tx_address = IF bit_count = 0 THEN tx_report_length
                    ELSE Tx!TimeslotAddress(timeslot_in_frame, 0)

(* A shifter holds what is left of a timeslot's byte, sent bits of it gone. *)
Holds(shifter, record, timeslot, sent) ==
  \A i \in 1 .. 8 : i + sent <= 8 =>
    shifter[i] = [channel \in Tx!ChannelIds |->
      <<<<record, Tx!TimeslotAddress(timeslot, channel)>>, i + sent>>]

(* The last timeslot is sent in the first eight bits of the next frame, the   *)
(* others eight bits behind the position they have in it.                   *)
ShiftersInv ==
  /\ line_record # NoByte =>
       /\ started
       /\ bit_count >= 8 => line_record = fifo_r_ptr
       /\ bit_count = 0 => Holds(tx_ser_shifter, line_record, timeslots_per_frame - 1, 0)
       /\ bit_count # 0 /\ timeslot_in_frame = 0 =>
            Holds(tx_ser_shifter, line_record, timeslots_per_frame - 1, 8 - bit_in_timeslot)
       /\ bit_count # 0 /\ timeslot_in_frame # 0 =>
            Holds(tx_ser_shifter, line_record, timeslot_in_frame - 1, 7 - bit_in_timeslot)
  /\ started /\ bit_count # 0 /\ timeslot_in_frame = 0 =>
       \A i \in 1 .. 8 : i > bit_in_timeslot =>
         tx_ser_shifter[i] = [channel \in Tx!ChannelIds |-> Tx!F]

TxInv ==
  /\ TxTypes /\ ShiftersInv
  /\ started /\ ~frame_strobe => FetchInv

TxPushed == Append(Tail(tx_ser_shifter), [channel \in Tx!ChannelIds |-> Tx!F])

LEMMA TxPush ==
  ASSUME TxTypes
  PROVE  /\ TxPushed \in EightOf([Tx!ChannelIds -> TxBits])
         /\ TxPushed[8] = [channel \in Tx!ChannelIds |-> Tx!F]
         /\ \A i \in 1 .. 7 : TxPushed[i] = tx_ser_shifter[i + 1]
         /\ Head(tx_ser_shifter) = tx_ser_shifter[1]
  <1>. DEFINE S == [Tx!ChannelIds -> TxBits]
              x == [channel \in Tx!ChannelIds |-> Tx!F]
  <1>1. tx_ser_shifter \in EightOf(S) /\ x \in S
    BY DEF TxTypes, TxBits
  <1>. HIDE DEF S, x
  <1>2. Append(Tail(tx_ser_shifter), x) = PushedOut(tx_ser_shifter, x)
    BY <1>1, ShiftRegister
  <1>3. TxPushed = PushedOut(tx_ser_shifter, x)
    BY <1>2 DEF TxPushed, x
  <1>4. TxPushed \in EightOf(S)
    BY <1>1, <1>3 DEF PushedOut, EightOf
  <1>5. TxPushed[8] = x /\ \A i \in 1 .. 7 : TxPushed[i] = tx_ser_shifter[i + 1]
    BY <1>3 DEF PushedOut
  <1>6. Head(tx_ser_shifter) = tx_ser_shifter[1]
    BY <1>1, FirstOfEight
  <1>. QED BY <1>4, <1>5, <1>6 DEF S, x

LEMMA TxConstants ==
  /\ Tx!ChannelIds = 0 .. Channels - 1
  /\ Tx!RecordIds = 0 .. RecordMod - 1 /\ RecordMod \in Nat /\ RecordMod >= 2
  /\ Tx!record_size = tx_report_length + timeslots_per_frame * Channels
  /\ Tx!record_size \in Nat /\ Tx!Addresses = 0 .. Tx!record_size - 1
  <1>1. RecordMod \in Nat /\ RecordMod >= 2
    BY TransmitAssumption DEF Tx!TxFramerAssumption
  <1>2. timeslots_per_frame * Channels \in Nat
    BY FramersConstants, TimeslotsAssumption
  <1>3. Tx!record_size \in Nat
    BY <1>2, FramersConstants DEF Tx!record_size
  <1>. QED BY <1>1, <1>3 DEF Tx!ChannelIds, Tx!RecordIds, Tx!record_size, Tx!Addresses

LEMMA TimeslotAddresses ==
  ASSUME NEW timeslot \in 0 .. timeslots_per_frame - 1
  PROVE  /\ Tx!TimeslotAddress(timeslot, 0) \in Nat
         /\ \A channel \in 0 .. Channels - 1 :
              /\ Tx!TimeslotAddress(timeslot, channel) = Tx!TimeslotAddress(timeslot, 0) + channel
              /\ Tx!TimeslotAddress(timeslot, 0) + channel \in Tx!Addresses
         /\ Tx!TimeslotAddress(timeslot + 1, 0) = Tx!TimeslotAddress(timeslot, 0) + Channels
         /\ timeslot = 0 => Tx!TimeslotAddress(timeslot, 0) = tx_report_length
  <1>. USE FramersConstants, TxConstants
  <1>1. PICK row \in Nat, end \in Nat :
          /\ row = timeslot * Channels /\ end = timeslots_per_frame * Channels
          /\ (timeslot + 1) * Channels = row + Channels /\ row + Channels <= end
          /\ timeslot = 0 => row = 0
    <2>1. timeslot = 0 => timeslot * Channels = 0
      OBVIOUS
    <2>. QED BY <2>1, Rows
  <1>2. Tx!TimeslotAddress(timeslot, 0) = tx_report_length + row
    BY <1>1 DEF Tx!TimeslotAddress
  <1>3. Tx!TimeslotAddress(timeslot + 1, 0) = tx_report_length + (row + Channels)
    BY <1>1 DEF Tx!TimeslotAddress
  <1>4. \A channel \in 0 .. Channels - 1 :
          Tx!TimeslotAddress(timeslot, channel) = tx_report_length + row + channel
    BY <1>1 DEF Tx!TimeslotAddress
  <1>5. ASSUME NEW channel \in 0 .. Channels - 1
        PROVE  tx_report_length + row + channel \in Tx!Addresses
    <2>1. Tx!Addresses = 0 .. tx_report_length + end - 1
      BY <1>1
    <2>2. tx_report_length \in Nat /\ Channels \in Nat /\ row + Channels <= end
      BY <1>1
    <2>. HIDE FramersConstants, TxConstants
    <2>. QED BY <2>1, <2>2
  <1>6. tx_report_length + row \in Nat
    BY <1>1
  <1>7. tx_report_length + (row + Channels) = (tx_report_length + row) + Channels
    BY <1>1
  <1>8. timeslot = 0 => tx_report_length + row = tx_report_length
    BY <1>1
  <1>. QED BY <1>2, <1>3, <1>4, <1>5, <1>6, <1>7, <1>8, Zenon

LEMMA TxTypesNext ==
  ASSUME TxTypes, NEW bit_end_strobe \in BOOLEAN, Tx!Clk(bit_end_strobe),
         tx_fsm = "TIMESLOT" => tx_count \in 0 .. Channels
  PROVE  TxTypes'
  <1>. USE TxConstants
  <1>1. PICK r_empty \in BOOLEAN : Tx!Read(r_empty)
    BY DEF Tx!Clk
  <1>2. fifo_r_ptr' \in Tx!RecordIds
    BY <1>1 DEF TxTypes, Tx!Read, Tx!Following
  <1>3. r_data' \in TxBytes
    BY <1>1 DEF TxTypes, TxBytes, Tx!Read, Tx!RecordByte
  <1>4. tx_timeslot_data' \in [Tx!ChannelIds -> TxBytes]
    BY DEF TxTypes, Tx!Clk, Tx!Adapter
  <1>5. tx_ser_shifter' \in EightOf([Tx!ChannelIds -> TxBits])
    <2>1. CASE Tx!timeslot_end_strobe(bit_end_strobe)
      <3>1. tx_ser_shifter' = [i \in 1 .. 8 |-> [channel \in Tx!ChannelIds |-> <<tx_timeslot_data[channel], i>>]]
        BY <2>1 DEF Tx!Clk, Tx!TxBlock
      <3>2. \A i \in 1 .. 8 : \A channel \in Tx!ChannelIds : <<tx_timeslot_data[channel], i>> \in TxBits
        BY DEF TxTypes, TxBits
      <3>. QED BY <3>1, <3>2 DEF EightOf
    <2>2. CASE ~Tx!timeslot_end_strobe(bit_end_strobe)
      <3>1. tx_ser_shifter' = TxPushed \/ tx_ser_shifter' = tx_ser_shifter
        BY <2>2 DEF Tx!Clk, Tx!TxBlock, TxPushed
      <3>. QED BY <3>1, TxPush DEF TxTypes
    <2>. QED BY <2>1, <2>2
  <1>6. tx_address' \in Nat
    BY DEF TxTypes, Tx!Clk, Tx!Adapter, Tx!address_next
  <1>. QED BY <1>2, <1>3, <1>4, <1>5, <1>6
           DEF TxTypes, TxBytes, TxBits, Tx!RecordIds, Tx!Addresses, Tx!record_size,
               Tx!ChannelIds, Tx!F, Tx!NoBit

(* A step of the adapter between two frame strobes, seen from the position    *)
(* it starts in.                                                            *)
LEMMA FetchStep ==
  ASSUME FramersInv, TxTypes, FetchInv, ~frame_strobe, Tx!Adapter,
         NEW r_empty \in BOOLEAN, Tx!Read(r_empty)
  PROVE  /\ fifo_r_ptr' = fifo_r_ptr
         /\ tx_fsm' = "REPORT" => tx_address' = tx_count'
         /\ tx_fsm' = "TIMESLOT" =>
              /\ tx_address' = Tx!TimeslotAddress(timeslot_in_frame, 0) + tx_count'
              /\ tx_count' # Channels => r_data' = <<fifo_r_ptr, tx_address'>>
              /\ Fetched(tx_timeslot_data', fifo_r_ptr, timeslot_in_frame, tx_count')
         /\ tx_fsm' = "WAIT" /\ timeslot_ls_bit =>
              /\ tx_address' = Tx!TimeslotAddress(timeslot_in_frame, 0) + Channels
              /\ Fetched(tx_timeslot_data', fifo_r_ptr, timeslot_in_frame, Channels)
         /\ tx_fsm' = "WAIT" /\ ~timeslot_ls_bit =>
              tx_address' = IF bit_count = 0 THEN tx_report_length
                            ELSE Tx!TimeslotAddress(timeslot_in_frame, 0)
  <1>. USE FramersConstants, TxConstants
  <1>. DEFINE start == Tx!TimeslotAddress(timeslot_in_frame, 0)
  <1>1. /\ timeslot_in_frame \in 0 .. timeslots_per_frame - 1
        /\ bit_count \in Nat /\ bit_in_timeslot \in 0 .. 7
        /\ bit_count # 0 => bit_count = 8 * timeslot_in_frame + (8 - bit_in_timeslot)
        /\ timeslot_ls_bit <=> bit_count # 0 /\ bit_in_timeslot = 0
    BY Position DEF FramersInv
  <1>2. /\ start \in Nat
        /\ \A channel \in 0 .. Channels - 1 :
             /\ Tx!TimeslotAddress(timeslot_in_frame, channel) = start + channel
             /\ start + channel \in Tx!Addresses
        /\ timeslot_in_frame = 0 => start = tx_report_length
    BY <1>1, TimeslotAddresses
  <1>3. /\ fifo_r_ptr' = fifo_r_ptr /\ tx_address' = Tx!address_next
        /\ Tx!address_next \in Tx!Addresses => r_data' = <<fifo_r_ptr, Tx!address_next>>
    BY DEF Tx!Read, Tx!Adapter, Tx!RecordByte
  <1>4. /\ tx_fsm \in {"WAIT", "REPORT", "TIMESLOT"}
        /\ tx_fsm = "REPORT" => tx_count \in 0 .. tx_report_length /\ bit_count < 8
        /\ tx_fsm = "TIMESLOT" => tx_count \in 0 .. Channels /\ timeslot_ls_bit
    BY DEF FramersInv, TxBusy
  <1>. HIDE DEF start
  <1>5. CASE tx_fsm = "WAIT" /\ timeslot_ls_bit /\ bit_start_strobe
    <2>1. tx_fsm' = "TIMESLOT" /\ tx_count' = 0
      BY <1>5 DEF Tx!Adapter
    <2>2. tx_address = start /\ Tx!address_next = tx_address
      BY <1>1, <1>5 DEF FetchInv, start, Tx!address_next
    <2>3. start + 0 \in Tx!Addresses /\ start + 0 = start
      BY <1>2
    <2>4. Fetched(tx_timeslot_data', fifo_r_ptr, timeslot_in_frame, 0)
      BY DEF Fetched
    <2>. QED BY <1>3, <2>1, <2>2, <2>3, <2>4 DEF start
  <1>6. CASE tx_fsm = "WAIT" /\ ~(timeslot_ls_bit /\ bit_start_strobe)
    <2>1. UNCHANGED <<tx_fsm, tx_timeslot_data>> /\ tx_address' = tx_address
      BY <1>3, <1>6 DEF Tx!Adapter, Tx!address_next
    <2>. QED BY <1>3, <1>6, <2>1 DEF FetchInv
  <1>7. CASE tx_fsm = "REPORT"
    <2>1. ~timeslot_ls_bit /\ (bit_count # 0 => timeslot_in_frame = 0)
      BY <1>1, <1>4, <1>7
    <2>2. tx_address = tx_count
      BY <1>7 DEF FetchInv
    <2>3. CASE tx_count = tx_report_length
      <3>1. tx_fsm' = "WAIT" /\ tx_address' = tx_address
        BY <1>3, <1>7, <2>3 DEF Tx!Adapter, Tx!address_next
      <3>2. tx_address' = IF bit_count = 0 THEN tx_report_length ELSE start
        BY <1>2, <2>1, <2>2, <2>3, <3>1
      <3>. QED BY <1>3, <2>1, <3>1, <3>2 DEF start
    <2>4. CASE tx_count # tx_report_length
      <3>1. tx_fsm' = "REPORT" /\ tx_address' = tx_address + 1 /\ tx_count' = tx_count + 1
        BY <1>3, <1>7, <2>4 DEF Tx!Adapter, Tx!address_next
      <3>. QED BY <1>3, <2>2, <3>1
    <2>. QED BY <2>3, <2>4
  <1>8. CASE tx_fsm = "TIMESLOT" /\ tx_count = Channels
    <2>1. tx_fsm' = "WAIT" /\ tx_address' = tx_address /\ tx_timeslot_data' = tx_timeslot_data
      BY <1>3, <1>8 DEF Tx!Adapter, Tx!address_next, Tx!timeslots_length
    <2>2. tx_address = start + Channels /\ Fetched(tx_timeslot_data, fifo_r_ptr, timeslot_in_frame, Channels)
      BY <1>8 DEF FetchInv, start
    <2>. QED BY <1>3, <1>4, <1>8, <2>1, <2>2 DEF start
  <1>9. CASE tx_fsm = "TIMESLOT" /\ tx_count # Channels
    <2>1. /\ tx_fsm' = "TIMESLOT" /\ tx_address' = tx_address + 1 /\ tx_count' = tx_count + 1
          /\ tx_timeslot_data' = [tx_timeslot_data EXCEPT ![tx_count] = r_data]
          /\ Tx!address_next = tx_address + 1
      BY <1>3, <1>9 DEF Tx!Adapter, Tx!address_next, Tx!timeslots_length
    <2>2. /\ tx_address = start + tx_count /\ r_data = <<fifo_r_ptr, tx_address>>
          /\ Fetched(tx_timeslot_data, fifo_r_ptr, timeslot_in_frame, tx_count)
      BY <1>9 DEF FetchInv, start
    <2>3. tx_count \in 0 .. Channels - 1
      BY <1>4, <1>9
    <2>4. tx_address' = start + tx_count'
      BY <1>2, <2>1, <2>2, <2>3
    <2>5. tx_count' # Channels => r_data' = <<fifo_r_ptr, tx_address'>>
      <3>1. tx_count' # Channels => tx_count' \in 0 .. Channels - 1
        BY <2>1, <2>3
      <3>. QED BY <1>2, <1>3, <2>4, <3>1
    <2>6. Fetched(tx_timeslot_data', fifo_r_ptr, timeslot_in_frame, tx_count')
      <3>1. ASSUME NEW channel \in Tx!ChannelIds, channel < tx_count'
            PROVE  tx_timeslot_data'[channel]
                     = <<fifo_r_ptr, Tx!TimeslotAddress(timeslot_in_frame, channel)>>
        <4>1. CASE channel = tx_count
          <5>1. tx_timeslot_data'[channel] = <<fifo_r_ptr, start + tx_count>>
            BY <2>1, <2>2, <4>1 DEF TxTypes
          <5>. QED BY <1>2, <2>3, <4>1, <5>1
        <4>2. CASE channel # tx_count
          <5>1. channel < tx_count
            BY <2>1, <2>3, <3>1, <4>2
          <5>. QED BY <2>1, <2>2, <4>2, <5>1 DEF Fetched, TxTypes
        <4>. QED BY <4>1, <4>2
      <3>. QED BY <3>1 DEF Fetched
    <2>. QED BY <1>3, <2>1, <2>4, <2>5, <2>6 DEF start
  <1>. QED BY <1>4, <1>5, <1>6, <1>7, <1>8, <1>9

LEMMA FetchNext ==
  ASSUME FramersInv, FramersInv', TxTypes, started /\ ~frame_strobe => FetchInv,
         NEW bit_end_strobe \in BOOLEAN, Clk(bit_end_strobe), Tx!Clk(bit_end_strobe)
  PROVE  started' /\ ~frame_strobe' => FetchInv'
  <1>. SUFFICES ASSUME started', ~frame_strobe' PROVE FetchInv'
    OBVIOUS
  <1>1. TimingInv /\ TimingInv' /\ TimingClk(bit_end_strobe) /\ Tx!Adapter
    BY DEF FramersInv, Clk, Tx!Clk
  <1>2. PICK r_empty \in BOOLEAN : Tx!Read(r_empty)
    BY DEF Tx!Clk
  <1>3. CASE frame_strobe
    <2>1. tx_fsm = "WAIT"
      BY <1>3 DEF FramersInv, NoStrobeMissedByEither, Tx!NoStrobeMissed
    <2>2. tx_fsm' = "REPORT" /\ tx_count' = 0 /\ tx_address' = 0
      BY <1>1, <1>3, <2>1 DEF Tx!Adapter, Tx!address_next
    <2>. QED BY <2>2 DEF FetchInv
  <1>4. CASE ~frame_strobe
    <2>1. FetchInv
      BY <1>4 DEF Tx!Clk, Tx!Adapter
    <2>2. /\ fifo_r_ptr' = fifo_r_ptr
          /\ tx_fsm' = "REPORT" => tx_address' = tx_count'
          /\ tx_fsm' = "TIMESLOT" =>
               /\ tx_address' = Tx!TimeslotAddress(timeslot_in_frame, 0) + tx_count'
               /\ tx_count' # Channels => r_data' = <<fifo_r_ptr, tx_address'>>
               /\ Fetched(tx_timeslot_data', fifo_r_ptr, timeslot_in_frame, tx_count')
          /\ tx_fsm' = "WAIT" /\ timeslot_ls_bit =>
               /\ tx_address' = Tx!TimeslotAddress(timeslot_in_frame, 0) + Channels
               /\ Fetched(tx_timeslot_data', fifo_r_ptr, timeslot_in_frame, Channels)
          /\ tx_fsm' = "WAIT" /\ ~timeslot_ls_bit =>
               tx_address' = IF bit_count = 0 THEN tx_report_length
                             ELSE Tx!TimeslotAddress(timeslot_in_frame, 0)
      BY <1>1, <1>2, <1>4, <2>1, FetchStep
    <2>3. CASE ~bit_end_strobe
      <3>1. /\ UNCHANGED <<bit_count, timeslot_ls_bit, timeslot_in_frame>> /\ ~bit_start_strobe'
        BY <1>1, <2>3, NoStrobeAtEnd
      <3>. QED BY <2>2, <3>1 DEF FetchInv, Fetched, Tx!TimeslotAddress, Tx!ChannelIds
    <2>4. CASE bit_end_strobe
      <3>1. NextBit /\ bit_start_strobe' /\ bit_count' # 0 /\ tx_fsm' # "TIMESLOT"
        <4>1. NextBit /\ bit_start_strobe' /\ tx_fsm' # "TIMESLOT"
          BY <1>1, <2>4, NoStrobeAtEnd, TxBusyNext DEF TimingClk
        <4>2. frame_strobe' <=> bit_count' = 0
          BY <1>1, <2>4, <4>1, PositionNext, Zenon DEF TimingClk, f_bit_next
        <4>. QED BY <4>1, <4>2
      <3>2. /\ timeslot_in_frame \in 0 .. timeslots_per_frame - 1
            /\ timeslot_ls_bit <=> bit_count # 0 /\ bit_in_timeslot = 0
            /\ bit_count = 0 => timeslot_in_frame' = 0
            /\ bit_count # 0 /\ bit_in_timeslot # 0 => timeslot_in_frame' = timeslot_in_frame
            /\ bit_count # 0 /\ bit_in_timeslot = 0 => timeslot_in_frame' = timeslot_in_frame + 1
        BY <1>1, <3>1, Position, PositionNext
      <3>3. tx_fsm' = "WAIT" => tx_address' = Tx!TimeslotAddress(timeslot_in_frame', 0)
        <4>. SUFFICES ASSUME tx_fsm' = "WAIT"
                      PROVE  tx_address' = Tx!TimeslotAddress(timeslot_in_frame', 0)
          OBVIOUS
        <4>1. CASE bit_count = 0
          <5>1. timeslot_in_frame' = 0 /\ tx_address' = tx_report_length
            BY <2>2, <3>2, <4>1
          <5>2. Tx!TimeslotAddress(0, 0) = tx_report_length
            BY TimeslotAddresses, TimeslotsAssumption
          <5>. QED BY <5>1, <5>2
        <4>2. CASE bit_count # 0 /\ bit_in_timeslot # 0
          BY <2>2, <3>2, <4>2
        <4>3. CASE bit_count # 0 /\ bit_in_timeslot = 0
          BY <2>2, <3>2, <4>3, TimeslotAddresses
        <4>. QED BY <4>1, <4>2, <4>3
      <3>4. Tx!TimeslotAddress(timeslot_in_frame, 0)' = Tx!TimeslotAddress(timeslot_in_frame', 0)
        BY DEF Tx!TimeslotAddress
      <3>. QED BY <2>2, <3>1, <3>3, <3>4 DEF FetchInv
    <2>. QED BY <2>3, <2>4
  <1>. QED BY <1>3, <1>4

(* What the end of a bit does to a shifter: a bit goes out, or a byte comes in. *)
LEMMA HoldsOneLess ==
  ASSUME TxTypes, NEW record, NEW timeslot, NEW sent \in Nat,
         Holds(tx_ser_shifter, record, timeslot, sent)
  PROVE  Holds(TxPushed, record, timeslot, sent + 1)
  <1>. SUFFICES ASSUME NEW i \in 1 .. 8, i + (sent + 1) <= 8
                PROVE  TxPushed[i] = [channel \in Tx!ChannelIds |->
                         <<<<record, Tx!TimeslotAddress(timeslot, channel)>>, i + (sent + 1)>>]
    BY DEF Holds
  <1>1. i \in 1 .. 7 /\ i + 1 \in 1 .. 8 /\ (i + 1) + sent <= 8 /\ (i + 1) + sent = i + (sent + 1)
    OBVIOUS
  <1>2. TxPushed[i] = tx_ser_shifter[i + 1]
    BY <1>1, TxPush
  <1>3. tx_ser_shifter[i + 1] = [channel \in Tx!ChannelIds |->
          <<<<record, Tx!TimeslotAddress(timeslot, channel)>>, (i + 1) + sent>>]
    BY <1>1 DEF Holds
  <1>. QED BY <1>1, <1>2, <1>3

LEMMA HoldsLoaded ==
  ASSUME NEW data, NEW record, NEW timeslot, Fetched(data, record, timeslot, Channels)
  PROVE  Holds([i \in 1 .. 8 |-> [channel \in Tx!ChannelIds |-> <<data[channel], i>>]],
               record, timeslot, 0)
  <1>1. \A channel \in Tx!ChannelIds :
          data[channel] = <<record, Tx!TimeslotAddress(timeslot, channel)>>
    BY FramersConstants, TxConstants DEF Fetched
  <1>2. \A i \in 1 .. 8 :
          [channel \in Tx!ChannelIds |-> <<data[channel], i>>]
            = [channel \in Tx!ChannelIds |->
                 <<<<record, Tx!TimeslotAddress(timeslot, channel)>>, i + 0>>]
    <2>1. \A i \in 1 .. 8 : i + 0 = i
      OBVIOUS
    <2>. QED BY <1>1, <2>1
  <1>. QED BY <1>2, Zenon DEF Holds

(* The fetch is over when the shifters load. *)
LEMMA FetchedInTime ==
  ASSUME FramersInv, FetchInv, NEW bit_end_strobe \in BOOLEAN, TimingClk(bit_end_strobe),
         bit_end_strobe, timeslot_ls_bit
  PROVE  Fetched(tx_timeslot_data, fifo_r_ptr, timeslot_in_frame, Channels) /\ bit_count >= 8
  <1>. USE FramersConstants
  <1>1. /\ bit_count # 0 /\ bit_in_timeslot = 0
        /\ bit_count = 8 * timeslot_in_frame + (8 - bit_in_timeslot)
        /\ timeslot_in_frame \in 0 .. timeslots_per_frame - 1
    BY Position DEF FramersInv
  <1>2. bit_count >= 8 /\ ~(bit_count < 8)
    BY <1>1, TimeslotsAssumption
  <1>3. tx_fsm \in {"WAIT", "TIMESLOT"}
    BY <1>2 DEF FramersInv, TxBusy
  <1>4. CASE tx_fsm = "WAIT"
    BY <1>2, <1>4, NoStrobeAtEnd DEF FetchInv
  <1>5. CASE tx_fsm = "TIMESLOT"
    <2>1. tx_count \in 0 .. Channels /\ clock_count <= tx_count + 1
      BY <1>5 DEF FramersInv, TxBusy
    <2>2. clock_count \in Nat /\ clock_count + 1 >= MinClocks
      BY DEF TimingClk, FramersInv, TimingInv, TimingTypeOK
    <2>3. tx_count = Channels
      BY <2>1, <2>2
    <2>. QED BY <1>2, <1>5, <2>3 DEF FetchInv
  <1>. QED BY <1>3, <1>4, <1>5

LEMMA ShiftersKept ==
  ASSUME FramersInv, TxInv, NEW bit_end_strobe \in BOOLEAN, Clk(bit_end_strobe),
         Tx!Clk(bit_end_strobe), ~bit_end_strobe
  PROVE  ShiftersInv'
  <1>1. UNCHANGED <<bit_count, bit_in_timeslot, timeslot_in_frame>>
    BY NoStrobeAtEnd DEF Clk
  <1>2. UNCHANGED <<tx_ser_shifter, line_record>> /\ (started' <=> started \/ frame_strobe)
    BY DEF Tx!Clk, Tx!TxBlock, Tx!LineFrame, Tx!Adapter, Tx!timeslot_end_strobe
  <1>3. frame_strobe => bit_count = 0
    BY DEF FramersInv, StrobesInv
  <1>4. bit_count >= 8 => fifo_r_ptr' = fifo_r_ptr
    <2>1. bit_count >= 8 => bit_count # 0
      OBVIOUS
    <2>. QED BY <1>3, <2>1 DEF Tx!Clk, Tx!Read
  <1>. QED BY <1>1, <1>2, <1>3, <1>4
           DEF TxInv, ShiftersInv, Holds, Tx!ChannelIds, Tx!F, Tx!TimeslotAddress

LEMMA ShiftersNext ==
  ASSUME FramersInv, FramersInv', TxInv, NEW bit_end_strobe \in BOOLEAN, Clk(bit_end_strobe),
         Tx!Clk(bit_end_strobe), bit_end_strobe
  PROVE  ShiftersInv'
  <1>. USE TimeslotsAssumption
  <1>1. /\ TimingInv /\ TimingInv' /\ NextBit /\ ~frame_strobe
        /\ (started' <=> started) /\ fifo_r_ptr' = fifo_r_ptr
    BY NoStrobeAtEnd DEF FramersInv, Clk, Tx!Clk, Tx!Adapter, Tx!Read
  <1>2. /\ bit_count \in 0 .. 8 * timeslots_per_frame /\ bit_in_timeslot \in 0 .. 7
        /\ timeslot_in_frame \in 0 .. timeslots_per_frame - 1
        /\ bit_count # 0 => bit_count = 8 * timeslot_in_frame + (8 - bit_in_timeslot)
        /\ timeslot_ls_bit <=> bit_count # 0 /\ bit_in_timeslot = 0
    BY <1>1, Position
  <1>3. /\ bit_count' = IF bit_count = 8 * timeslots_per_frame THEN 0 ELSE bit_count + 1
        /\ bit_count = 0 =>
             bit_count' # 0 /\ timeslot_in_frame' = 0 /\ bit_in_timeslot' = 7
        /\ bit_count # 0 /\ bit_in_timeslot # 0 =>
             /\ bit_count' # 0 /\ timeslot_in_frame' = timeslot_in_frame
             /\ bit_in_timeslot' = bit_in_timeslot - 1
        /\ bit_count # 0 /\ bit_in_timeslot = 0 /\ bit_count' # 0 =>
             timeslot_in_frame' = timeslot_in_frame + 1 /\ bit_in_timeslot' = 7
        /\ bit_count' = 0 =>
             /\ bit_in_timeslot = 0 /\ timeslot_in_frame = timeslots_per_frame - 1
             /\ bit_count # 0
    BY <1>1, <1>2, PositionNext
  <1>4. /\ line_record' = IF started /\ bit_count' = 8 THEN fifo_r_ptr ELSE line_record
        /\ timeslot_ls_bit => tx_ser_shifter' =
             [i \in 1 .. 8 |-> [channel \in Tx!ChannelIds |-> <<tx_timeslot_data[channel], i>>]]
        /\ ~timeslot_ls_bit => tx_ser_shifter' = TxPushed
    <2>1. bit_count' = Tx!bit_count_next
      BY <1>1 DEF NextBit, bit_count_next, Tx!bit_count_next, bit_count_last, Tx!bit_count_last,
                  bits_per_frame, Tx!bits_per_frame
    <2>2. line_record' = IF started /\ bit_count' = 8 THEN fifo_r_ptr ELSE line_record
      BY <2>1 DEF Tx!Clk, Tx!LineFrame, Tx!tx_f_bit_in_system_frame
    <2>3. /\ timeslot_ls_bit => tx_ser_shifter' =
               [i \in 1 .. 8 |-> [channel \in Tx!ChannelIds |-> <<tx_timeslot_data[channel], i>>]]
          /\ ~timeslot_ls_bit => tx_ser_shifter' = TxPushed
      BY DEF Tx!Clk, Tx!TxBlock, Tx!timeslot_end_strobe, TxPushed
    <2>. QED BY <2>2, <2>3
  <1>5. started' /\ bit_count' # 0 /\ timeslot_in_frame' = 0 =>
          \A i \in 1 .. 8 : i > bit_in_timeslot' =>
            tx_ser_shifter'[i] = [channel \in Tx!ChannelIds |-> Tx!F]
    <2>. SUFFICES ASSUME started, bit_count' # 0, timeslot_in_frame' = 0,
                         NEW i \in 1 .. 8, i > bit_in_timeslot'
                  PROVE  tx_ser_shifter'[i] = [channel \in Tx!ChannelIds |-> Tx!F]
      BY <1>1
    <2>1. ~timeslot_ls_bit
      BY <1>2, <1>3
    <2>2. CASE i = 8
      BY <1>4, <2>1, <2>2, TxPush DEF TxInv
    <2>3. CASE i # 8
      <3>1. i \in 1 .. 7 /\ i + 1 \in 1 .. 8
        BY <2>3
      <3>2. bit_count # 0 /\ timeslot_in_frame = 0 /\ i + 1 > bit_in_timeslot
        <4>1. bit_count # 0
          BY <1>3, <3>1
        <4>2. bit_in_timeslot # 0
          BY <1>2, <2>1, <4>1
        <4>. QED BY <1>2, <1>3, <3>1, <4>1, <4>2
      <3>3. tx_ser_shifter[i + 1] = [channel \in Tx!ChannelIds |-> Tx!F]
        BY <3>1, <3>2 DEF TxInv, ShiftersInv
      <3>. QED BY <1>4, <2>1, <3>1, <3>3, TxPush DEF TxInv
    <2>. QED BY <2>2, <2>3
  <1>6. ASSUME line_record' # NoByte
        PROVE  /\ started'
               /\ bit_count' >= 8 => line_record' = fifo_r_ptr'
               /\ bit_count' = 0 => Holds(tx_ser_shifter', line_record', timeslots_per_frame - 1, 0)
               /\ bit_count' # 0 /\ timeslot_in_frame' = 0 =>
                    Holds(tx_ser_shifter', line_record', timeslots_per_frame - 1, 8 - bit_in_timeslot')
               /\ bit_count' # 0 /\ timeslot_in_frame' # 0 =>
                    Holds(tx_ser_shifter', line_record', timeslot_in_frame' - 1, 7 - bit_in_timeslot')
    <2>1. started
      <3>1. line_record # NoByte => started
        BY DEF TxInv, ShiftersInv
      <3>. QED BY <1>4, <1>6, <3>1
    <2>2. FetchInv
      BY <1>1, <2>1 DEF TxInv
    <2>3. CASE bit_count' = 8
      <3>1. timeslot_in_frame' = 0 /\ bit_in_timeslot' = 0
        <4>1. bit_count = 7 /\ timeslot_in_frame = 0 /\ bit_in_timeslot = 1
          BY <1>2, <1>3, <2>3
        <4>. QED BY <1>3, <4>1
      <3>2. Holds(tx_ser_shifter', line_record', timeslots_per_frame - 1, 8)
        BY DEF Holds
      <3>. QED BY <1>1, <1>4, <2>1, <2>3, <3>1, <3>2
    <2>4. CASE bit_count' # 8
      <3>1. line_record' = line_record /\ line_record # NoByte
        BY <1>4, <1>6, <2>4
      <3>2. /\ bit_count >= 8 => line_record = fifo_r_ptr
            /\ bit_count = 0 => Holds(tx_ser_shifter, line_record, timeslots_per_frame - 1, 0)
            /\ bit_count # 0 /\ timeslot_in_frame = 0 =>
                 Holds(tx_ser_shifter, line_record, timeslots_per_frame - 1, 8 - bit_in_timeslot)
            /\ bit_count # 0 /\ timeslot_in_frame # 0 =>
                 Holds(tx_ser_shifter, line_record, timeslot_in_frame - 1, 7 - bit_in_timeslot)
        BY <3>1 DEF TxInv, ShiftersInv
      <3>3. bit_count' >= 8 => line_record' = fifo_r_ptr'
        <4>1. bit_count' >= 8 => bit_count >= 8
          BY <1>2, <1>3, <2>4
        <4>. QED BY <1>1, <3>1, <3>2, <4>1
      <3>4. CASE timeslot_ls_bit
        <4>1. Fetched(tx_timeslot_data, fifo_r_ptr, timeslot_in_frame, Channels) /\ bit_count >= 8
          BY <2>2, <3>4, FetchedInTime DEF Clk
        <4>2. Holds(tx_ser_shifter', line_record', timeslot_in_frame, 0)
          BY <1>4, <3>1, <3>2, <3>4, <4>1, HoldsLoaded
        <4>3. bit_count # 0 /\ bit_in_timeslot = 0
          BY <1>2, <3>4
        <4>4. CASE bit_count' = 0
          BY <1>1, <1>3, <2>1, <3>3, <4>2, <4>4
        <4>5. CASE bit_count' # 0
          <5>1. /\ timeslot_in_frame' # 0 /\ timeslot_in_frame' - 1 = timeslot_in_frame
                /\ 7 - bit_in_timeslot' = 0
            BY <1>2, <1>3, <4>3, <4>5
          <5>. QED BY <1>1, <2>1, <3>3, <4>2, <4>5, <5>1
        <4>. QED BY <4>4, <4>5
      <3>5. CASE ~timeslot_ls_bit
        <4>1. bit_count' # 0
          BY <1>2, <1>3, <3>5
        <4>2. CASE bit_count = 0
          <5>1. Holds(tx_ser_shifter', line_record', timeslots_per_frame - 1, 0 + 1)
            BY <1>4, <3>1, <3>2, <3>5, <4>2, HoldsOneLess DEF TxInv
          <5>2. timeslot_in_frame' = 0 /\ 8 - bit_in_timeslot' = 0 + 1
            BY <1>3, <4>2
          <5>. QED BY <1>1, <2>1, <3>3, <4>1, <5>1, <5>2
        <4>3. CASE bit_count # 0 /\ timeslot_in_frame = 0
          <5>1. /\ timeslot_in_frame' = 0 /\ 8 - bit_in_timeslot \in Nat
                /\ 8 - bit_in_timeslot' = (8 - bit_in_timeslot) + 1
            BY <1>2, <1>3, <3>5, <4>3
          <5>2. Holds(tx_ser_shifter', line_record', timeslots_per_frame - 1,
                      (8 - bit_in_timeslot) + 1)
            BY <1>4, <3>1, <3>2, <3>5, <4>3, <5>1, HoldsOneLess DEF TxInv
          <5>. QED BY <1>1, <2>1, <3>3, <4>1, <5>1, <5>2
        <4>4. CASE bit_count # 0 /\ timeslot_in_frame # 0
          <5>1. /\ timeslot_in_frame' = timeslot_in_frame /\ 7 - bit_in_timeslot \in Nat
                /\ 7 - bit_in_timeslot' = (7 - bit_in_timeslot) + 1
            BY <1>2, <1>3, <3>5, <4>4
          <5>2. Holds(tx_ser_shifter', line_record', timeslot_in_frame - 1,
                      (7 - bit_in_timeslot) + 1)
            BY <1>4, <3>1, <3>2, <3>5, <4>4, <5>1, HoldsOneLess DEF TxInv
          <5>. QED BY <1>1, <2>1, <3>3, <4>1, <4>4, <5>1, <5>2
        <4>. QED BY <4>2, <4>3, <4>4
      <3>. QED BY <3>4, <3>5
    <2>. QED BY <2>3, <2>4
  <1>. QED BY <1>5, <1>6 DEF ShiftersInv, Holds, Tx!ChannelIds, Tx!F, Tx!TimeslotAddress

LEMMA TxInvInit == FramersInit => TxInv
  <1>. SUFFICES ASSUME FramersInit PROVE TxInv
    OBVIOUS
  <1>1. /\ fifo_r_ptr = 0 /\ r_data = NoByte /\ tx_address = 0
        /\ tx_timeslot_data = [channel \in Tx!ChannelIds |-> NoByte]
        /\ tx_ser_shifter = [i \in 1 .. 8 |-> [channel \in Tx!ChannelIds |-> Tx!NoBit]]
        /\ ~started /\ line_record = NoByte
    BY DEF FramersInit, Tx!Init
  <1>2. TxTypes
    BY <1>1, TxConstants DEF TxTypes, TxBytes, TxBits, EightOf
  <1>. QED BY <1>1, <1>2 DEF TxInv, ShiftersInv

LEMMA TxInvNext ==
  ASSUME FramersInv, FramersInv', TxInv, NEW bit_end_strobe \in BOOLEAN, Clk(bit_end_strobe),
         Tx!Clk(bit_end_strobe)
  PROVE  TxInv'
  <1>1. TxTypes'
    BY TxTypesNext DEF TxInv, FramersInv, TxBusy
  <1>2. ShiftersInv'
    BY ShiftersKept, ShiftersNext
  <1>3. started' /\ ~frame_strobe' => FetchInv'
    BY FetchNext DEF TxInv
  <1>. QED BY <1>1, <1>2, <1>3 DEF TxInv

LEMMA TxInvKept ==
  ASSUME TxInv, UNCHANGED <<timing_vars, Tx!tx_vars>>
  PROVE  TxInv'
  <1>1. /\ UNCHANGED <<bit_count, bit_in_timeslot, timeslot_in_frame, timeslot_ls_bit,
                      bit_start_strobe, frame_strobe>>
        /\ UNCHANGED <<fifo_r_ptr, r_data, tx_fsm, tx_count, tx_address, tx_timeslot_data,
                      tx_ser_shifter, started, line_record>>
    BY DEF timing_vars, Tx!tx_vars
  <1>2. TxTypes'
    BY <1>1 DEF TxInv, TxTypes, TxBytes, TxBits, EightOf, Tx!RecordIds, Tx!Addresses,
                Tx!record_size, Tx!ChannelIds, Tx!F, Tx!NoBit
  <1>3. ShiftersInv'
    BY <1>1 DEF TxInv, ShiftersInv, Holds, Tx!ChannelIds, Tx!F, Tx!TimeslotAddress
  <1>4. FetchInv => FetchInv'
    BY <1>1 DEF FetchInv, Fetched, Tx!ChannelIds, Tx!TimeslotAddress
  <1>. QED BY <1>1, <1>2, <1>3, <1>4 DEF TxInv

LEMMA BitPlaces ==
  ASSUME NEW timeslot \in Nat, NEW sent \in 0 .. 7
  PROVE  (8 * timeslot + sent) \div 8 = timeslot /\ (8 * timeslot + sent) % 8 = sent
  OBVIOUS

LEMMA ShifterBit ==
  ASSUME FramersInv, TxInv, line_record # NoByte, NEW channel \in Tx!ChannelIds
  PROVE  tx_ser_shifter[1][channel] = Tx!BitOut(channel, line_record)
  <1>. USE TimeslotsAssumption
  <1>1. /\ bit_count \in 0 .. 8 * timeslots_per_frame /\ bit_in_timeslot \in 0 .. 7
        /\ timeslot_in_frame \in 0 .. timeslots_per_frame - 1
        /\ bit_count # 0 => bit_count = 8 * timeslot_in_frame + (8 - bit_in_timeslot)
    BY Position DEF FramersInv
  <1>2. Tx!line_bit = IF bit_count >= 8 THEN bit_count - 8
                      ELSE bit_count + (8 * timeslots_per_frame - 7)
    BY DEF Tx!line_bit, Tx!bits_per_frame
  <1>3. ASSUME NEW timeslot \in Nat, NEW sent \in 0 .. 7,
               Holds(tx_ser_shifter, line_record, timeslot, sent),
               Tx!line_bit = 8 * timeslot + sent + 1
        PROVE  tx_ser_shifter[1][channel] = Tx!BitOut(channel, line_record)
    <2>1. tx_ser_shifter[1][channel]
            = <<<<line_record, Tx!TimeslotAddress(timeslot, channel)>>, 1 + sent>>
      BY <1>3 DEF Holds
    <2>2. /\ Tx!line_bit # 0 /\ Tx!line_bit - 1 = 8 * timeslot + sent
          /\ 1 + sent = sent + 1
      BY <1>3
    <2>3. (Tx!line_bit - 1) \div 8 = timeslot /\ (Tx!line_bit - 1) % 8 = sent
      BY <2>2, BitPlaces
    <2>. QED BY <2>1, <2>2, <2>3 DEF Tx!BitOut, Tx!RecordByte
  <1>4. /\ started
        /\ bit_count = 0 => Holds(tx_ser_shifter, line_record, timeslots_per_frame - 1, 0)
        /\ bit_count # 0 /\ timeslot_in_frame = 0 =>
             Holds(tx_ser_shifter, line_record, timeslots_per_frame - 1, 8 - bit_in_timeslot)
        /\ bit_count # 0 /\ timeslot_in_frame # 0 =>
             Holds(tx_ser_shifter, line_record, timeslot_in_frame - 1, 7 - bit_in_timeslot)
    BY DEF TxInv, ShiftersInv
  <1>5. CASE bit_count = 0
    <2>1. Tx!line_bit = 8 * (timeslots_per_frame - 1) + 0 + 1 /\ timeslots_per_frame - 1 \in Nat
      BY <1>2, <1>5
    <2>. QED BY <1>3, <1>4, <1>5, <2>1
  <1>6. CASE bit_count # 0 /\ timeslot_in_frame = 0 /\ bit_in_timeslot # 0
    <2>1. /\ Tx!line_bit = 8 * (timeslots_per_frame - 1) + (8 - bit_in_timeslot) + 1
          /\ timeslots_per_frame - 1 \in Nat /\ 8 - bit_in_timeslot \in 0 .. 7
      BY <1>1, <1>2, <1>6
    <2>. QED BY <1>3, <1>4, <1>6, <2>1
  <1>7. CASE bit_count # 0 /\ timeslot_in_frame = 0 /\ bit_in_timeslot = 0
    <2>1. Tx!line_bit = 0
      BY <1>1, <1>2, <1>7
    <2>2. tx_ser_shifter[1] = [other \in Tx!ChannelIds |-> Tx!F]
      BY <1>4, <1>7 DEF TxInv, ShiftersInv
    <2>. QED BY <2>1, <2>2 DEF Tx!BitOut
  <1>8. CASE bit_count # 0 /\ timeslot_in_frame # 0
    <2>1. /\ Tx!line_bit = 8 * (timeslot_in_frame - 1) + (7 - bit_in_timeslot) + 1
          /\ timeslot_in_frame - 1 \in Nat /\ 7 - bit_in_timeslot \in 0 .. 7
      BY <1>1, <1>2, <1>8
    <2>. QED BY <1>3, <1>4, <1>8, <2>1
  <1>. QED BY <1>5, <1>6, <1>7, <1>8

(* For every number of timeslots, channels, bytes of report and spacing of    *)
(* the bits that the clocks leave time for, and whatever r_empty does to the *)
(* reader's page: a line frame sent is one record of the transmit FIFO       *)
(* (tx_fifo_to_framer.py, tx_block.py).                                     *)
THEOREM LineFrameIsRecordHolds == FramersSpec => []LineFrameIsRecord
  <1>1. FramersInit => FramersInv /\ TxInv
    BY FramersInvInit, TxInvInit
  <1>2. FramersInv /\ TxInv /\ [FramersNext]_framers_vars => FramersInv' /\ TxInv'
    <2>. SUFFICES ASSUME FramersInv, TxInv, [FramersNext]_framers_vars PROVE FramersInv' /\ TxInv'
      OBVIOUS
    <2>1. FramersInv'
      BY FramersInvNext
    <2>2. CASE FramersNext
      BY <2>1, <2>2, TxInvNext DEF FramersNext
    <2>3. CASE UNCHANGED framers_vars
      <3>1. UNCHANGED <<timing_vars, Tx!tx_vars>>
        BY <2>3 DEF framers_vars
      <3>. QED BY <2>1, <3>1, TxInvKept
    <2>. QED BY <2>1, <2>2, <2>3
  <1>3. FramersInv /\ TxInv => LineFrameIsRecord
    <2>. SUFFICES ASSUME FramersInv, TxInv, line_record # NoByte, NEW channel \in Tx!ChannelIds
                  PROVE  Tx!ser_shifter_out[channel] = Tx!BitOut(channel, line_record)
      BY DEF LineFrameIsRecord, Tx!LineFrameIsRecord
    <2>1. Tx!ser_shifter_out = tx_ser_shifter[1]
      BY TxPush DEF Tx!ser_shifter_out, TxInv
    <2>. QED BY <2>1, ShifterBit
  <1>. QED BY <1>1, <1>2, <1>3, PTL DEF FramersSpec

-----------------------------------------------------------------------------
(***************************************************************************)
(* The types of both sides.  What is not read off the invariants above is   *)
(* that the adapters' addresses stay within a record, from reset on, before *)
(* the first frame has been started too.                                   *)
(***************************************************************************)
(* The receive side. *)
AddressInRow(row) ==
  /\ fsm = "TIMESLOT" => address = row + count
  /\ fsm = "REPORT" => address = timeslots_per_frame * Channels + count
  /\ fsm = "WAIT" => IF timeslot_start_strobe THEN timeslot_first \/ address = row
                     ELSE address = row + Channels + (IF timeslot_last THEN report_length ELSE 0)
RxAddressInv ==
  /\ address \in 0 .. record_size
  /\ bit_count # 0 => AddressInRow(timeslot_in_frame * Channels)
  /\ bit_count = 0 /\ fsm = "REPORT" => address = timeslots_per_frame * Channels + count

LEMMA RecordSize ==
  /\ timeslots_per_frame * Channels \in Nat
  /\ record_size = timeslots_per_frame * Channels + report_length /\ record_size \in Nat
  <1>1. timeslots_per_frame * Channels \in Nat
    BY FramersConstants, TimeslotsAssumption
  <1>. QED BY <1>1, FramersConstants DEF record_size

(* A step of the adapter while a timeslot is on the line: see AdapterStep. *)
LEMMA AddressStep ==
  ASSUME FramersInv, RxAddressInv, bit_count # 0, Adapter
  PROVE  /\ fsm' = "TIMESLOT" => address' = timeslot_in_frame * Channels + count'
         /\ fsm' = "REPORT" => address' = timeslots_per_frame * Channels + count' /\ timeslot_last
         /\ fsm' = "WAIT" => address' = timeslot_in_frame * Channels + Channels
                                          + (IF timeslot_last THEN report_length ELSE 0)
  <1>. USE FramersConstants
  <1>. DEFINE row == timeslot_in_frame * Channels
              end == timeslots_per_frame * Channels
  <1>1. /\ timeslot_in_frame \in 0 .. timeslots_per_frame - 1
        /\ timeslot_first <=> timeslot_in_frame = 0
        /\ timeslot_last <=> timeslot_in_frame = timeslots_per_frame - 1
    BY Position DEF FramersInv
  <1>2. /\ row \in Nat /\ end \in Nat
        /\ timeslot_in_frame = timeslots_per_frame - 1 => end = row + Channels
        /\ timeslot_in_frame = 0 => row = 0
    BY <1>1, Rows, TimeslotsAssumption
  <1>3. AddressInRow(row)
    BY DEF RxAddressInv
  <1>4. /\ fsm \in {"WAIT", "TIMESLOT", "REPORT"}
        /\ fsm = "TIMESLOT" => count \in 0 .. Channels
        /\ fsm = "REPORT" => count \in 0 .. report_length /\ timeslot_last
        /\ fsm # "WAIT" => ~timeslot_start_strobe
    BY DEF FramersInv, RxBusy, NoStrobeMissedByEither, NoStrobeMissed
  <1>. HIDE DEF row, end
  <1>5. CASE fsm = "WAIT" /\ timeslot_start_strobe
    <2>1. address' = (IF timeslot_first THEN 0 ELSE address) /\ count' = 0 /\ fsm' = "TIMESLOT"
      BY <1>5 DEF Adapter
    <2>2. address' = row + count'
      BY <1>1, <1>2, <1>3, <1>5, <2>1 DEF AddressInRow
    <2>. QED BY <2>1, <2>2 DEF row
  <1>6. CASE fsm = "WAIT" /\ ~timeslot_start_strobe
    <2>1. UNCHANGED <<fsm, address>>
      BY <1>6 DEF Adapter
    <2>. QED BY <1>3, <1>6, <2>1 DEF AddressInRow, row
  <1>7. CASE fsm = "TIMESLOT" /\ count = Channels
    <2>1. /\ address' = address
          /\ IF timeslot_last THEN count' = 0 /\ fsm' = "REPORT" ELSE fsm' = "WAIT"
      BY <1>7 DEF Adapter, timeslots_length
    <2>. QED BY <1>1, <1>2, <1>3, <1>7, <2>1 DEF AddressInRow, row, end
  <1>8. CASE fsm = "TIMESLOT" /\ count # Channels
    <2>1. address' = address + 1 /\ count' = count + 1 /\ fsm' = "TIMESLOT"
      BY <1>8 DEF Adapter, timeslots_length
    <2>2. address = row + count /\ count \in Nat /\ row \in Nat
      BY <1>2, <1>3, <1>4, <1>8 DEF AddressInRow
    <2>3. address' = row + count'
      BY <2>1, <2>2
    <2>. QED BY <2>1, <2>3 DEF row
  <1>9. CASE fsm = "REPORT" /\ count = report_length
    <2>1. fsm' = "WAIT" /\ address' = address
      BY <1>9 DEF Adapter
    <2>2. address = end + report_length
      BY <1>3, <1>9 DEF AddressInRow, end
    <2>. QED BY <1>1, <1>2, <1>4, <1>9, <2>1, <2>2 DEF row
  <1>10. CASE fsm = "REPORT" /\ count # report_length
    <2>1. address' = address + 1 /\ count' = count + 1 /\ fsm' = "REPORT"
      BY <1>10 DEF Adapter
    <2>2. address = end + count
      BY <1>3, <1>10 DEF AddressInRow, end
    <2>. QED BY <1>2, <1>4, <1>10, <2>1, <2>2 DEF end
  <1>. QED BY <1>4, <1>5, <1>6, <1>7, <1>8, <1>9, <1>10

LEMMA RxAddressNext ==
  ASSUME FramersInv, FramersInv', RxAddressInv,
         NEW bit_end_strobe \in BOOLEAN, Clk(bit_end_strobe)
  PROVE  RxAddressInv'
  <1>. USE FramersConstants, TimeslotsAssumption, RecordSize
  <1>. DEFINE row == timeslot_in_frame * Channels
              end == timeslots_per_frame * Channels
  <1>1. TimingInv /\ TimingInv' /\ TimingClk(bit_end_strobe) /\ Adapter
    BY DEF FramersInv, Clk
  <1>2. /\ fsm' \in {"WAIT", "TIMESLOT", "REPORT"}
        /\ fsm' = "TIMESLOT" => count' \in 0 .. Channels /\ bit_count' # 0
        /\ fsm' = "REPORT" => count' \in 0 .. report_length
    BY DEF FramersInv, RxBusy
  <1>3. /\ timeslot_in_frame \in 0 .. timeslots_per_frame - 1 /\ row \in Nat /\ end \in Nat
        /\ row + Channels <= end
        /\ timeslot_in_frame = timeslots_per_frame - 1 => end = row + Channels
        /\ bit_count # 0 => (timeslot_last <=> timeslot_in_frame = timeslots_per_frame - 1)
        /\ (timeslot_in_frame + 1) * Channels = row + Channels
    BY <1>1, Position, Rows
  <1>4. bit_count # 0 =>
          /\ fsm' = "TIMESLOT" => address' = row + count'
          /\ fsm' = "REPORT" => address' = end + count' /\ timeslot_last
          /\ fsm' = "WAIT" => address' = row + Channels + (IF timeslot_last THEN report_length ELSE 0)
    BY <1>1, AddressStep
  <1>5. bit_count = 0 => /\ address' \in 0 .. record_size
                         /\ fsm' = "REPORT" => address' = end + count'
    <2>. SUFFICES ASSUME bit_count = 0
                  PROVE  /\ address' \in 0 .. record_size
                         /\ fsm' = "REPORT" => address' = end + count'
      OBVIOUS
    <2>1. fsm \in {"WAIT", "REPORT"} /\ ~timeslot_start_strobe
      BY DEF FramersInv, RxBusy, StrobesInv
    <2>2. CASE fsm = "WAIT"
      <3>1. UNCHANGED <<fsm, address>>
        BY <1>1, <2>1, <2>2 DEF Adapter
      <3>. QED BY <2>2, <3>1 DEF RxAddressInv
    <2>3. CASE fsm = "REPORT"
      <3>1. address = end + count /\ count \in 0 .. report_length
        BY <2>3 DEF RxAddressInv, FramersInv, RxBusy
      <3>2. \/ count = report_length /\ address' = address /\ fsm' = "WAIT"
            \/ count # report_length /\ address' = address + 1 /\ count' = count + 1
        BY <1>1, <2>3 DEF Adapter
      <3>. HIDE DEF end
      <3>. QED BY <1>3, <3>1, <3>2 DEF end
    <2>. QED BY <2>1, <2>2, <2>3
  <1>6. address' \in 0 .. record_size
    <2>. HIDE DEF row, end
    <2>1. CASE bit_count # 0
      BY <1>2, <1>3, <1>4, <2>1 DEF end
    <2>. QED BY <1>5, <2>1
  <1>7. record_size' = record_size
    BY DEF record_size
  <1>. HIDE DEF row, end
  <1>8. CASE ~bit_end_strobe
    <2>1. /\ UNCHANGED <<bit_count, timeslot_in_frame, timeslot_first, timeslot_last>>
          /\ ~timeslot_start_strobe'
      BY <1>1, <1>8, NoStrobeAtEnd
    <2>. QED BY <1>4, <1>5, <1>6, <1>7, <2>1 DEF RxAddressInv, AddressInRow, row, end
  <1>9. CASE bit_end_strobe
    <2>1. NextBit /\ (timeslot_start_strobe' <=> timeslot_ms_bit_next)
      BY <1>1, <1>9, NoStrobeAtEnd, Zenon DEF TimingClk
    <2>2. /\ bit_count' # 0 => (timeslot_first' <=> timeslot_in_frame' = 0)
          /\ bit_count' # 0 => (timeslot_last' <=> timeslot_in_frame' = timeslots_per_frame - 1)
          /\ timeslot_in_frame' \in 0 .. timeslots_per_frame - 1
          /\ bit_in_timeslot \in 0 .. 7
      BY <1>1 DEF TimingInv, TimingTypeOK, FlagsFollowCount
    <2>3. CASE bit_count = 0
      <3>1. bit_count' # 0 /\ timeslot_first' /\ timeslot_ms_bit_next
        BY <1>1, <2>1, <2>2, <2>3, PositionNext
      <3>2. timeslot_start_strobe' /\ fsm' = "WAIT"
        BY <1>9, <2>1, <3>1, RxInTime
      <3>. QED BY <1>6, <1>7, <3>1, <3>2 DEF RxAddressInv, AddressInRow
    <2>4. CASE bit_count # 0 /\ bit_in_timeslot # 0
      <3>1. bit_count' # 0 /\ timeslot_in_frame' = timeslot_in_frame /\ ~timeslot_ms_bit_next
        BY <1>1, <2>1, <2>2, <2>4, PositionNext
      <3>2. ~timeslot_start_strobe' /\ (timeslot_last' <=> timeslot_last)
        BY <1>3, <2>1, <2>2, <2>4, <3>1
      <3>. QED BY <1>4, <1>6, <1>7, <2>4, <3>1, <3>2 DEF RxAddressInv, AddressInRow, row, end
    <2>5. CASE bit_count # 0 /\ bit_in_timeslot = 0 /\ bit_count' # 0
      <3>1. timeslot_in_frame' = timeslot_in_frame + 1 /\ timeslot_ms_bit_next
        BY <1>1, <2>1, <2>5, PositionNext
      <3>2. timeslot_start_strobe' /\ fsm' = "WAIT"
        BY <1>9, <2>1, <3>1, RxInTime
      <3>3. ~timeslot_last
        BY <1>3, <2>2, <2>5, <3>1
      <3>4. address' = row + Channels
        BY <1>3, <1>4, <2>5, <3>2, <3>3
      <3>5. address' = timeslot_in_frame' * Channels
        BY <1>3, <3>1, <3>4
      <3>. QED BY <1>6, <1>7, <2>5, <3>2, <3>5 DEF RxAddressInv, AddressInRow
    <2>6. CASE bit_count # 0 /\ bit_count' = 0
      BY <1>4, <1>6, <1>7, <2>6 DEF RxAddressInv, end
    <2>. QED BY <2>3, <2>4, <2>5, <2>6
  <1>. QED BY <1>8, <1>9

LEMMA RxAddressInit == FramersInit => RxAddressInv
  <1>1. FramersInit => address = 0 /\ bit_count = 0 /\ fsm = "WAIT"
    BY DEF FramersInit, Init, TimingInit
  <1>. QED BY <1>1, RecordSize DEF RxAddressInv

LEMMA RxAddressKept ==
  ASSUME RxAddressInv, UNCHANGED <<timing_vars, rx_vars>>
  PROVE  RxAddressInv'
  BY DEF RxAddressInv, AddressInRow, record_size, timing_vars, rx_vars

(* What the timeslot and the report are made of. *)
TimeslotBytesOf == (Frames \X (0 .. timeslots_per_frame - 1)) \union {Torn}
RxRest ==
  /\ timeslot_f \in LineBits /\ mf_bits \in LineBits /\ frame_count \in Frames
  /\ timeslot_data \in TimeslotBytesOf
  /\ count \in 0 .. Channels + report_length

LEMMA ByteType ==
  ASSUME NEW bits \in [1 .. 8 -> LineBits]
  PROVE  ByteOf(bits) \in TimeslotBytesOf
  <1>. DEFINE here == {<<bits[1][1], timeslot>> : timeslot \in 0 .. timeslots_per_frame - 1}
  <1>1. bits[1] \in LineBits
    BY 1 \in 1 .. 8
  <1>2. here \subseteq TimeslotBytesOf
    BY <1>1 DEF LineBits, TimeslotBytesOf
  <1>. HIDE DEF here
  <1>3. CASE \E byte \in here : bits = TimeslotBits(byte[1], byte[2])
    <2>1. (CHOOSE byte \in here : bits = TimeslotBits(byte[1], byte[2])) \in here
      BY <1>3
    <2>2. ByteOf(bits) = CHOOSE byte \in here : bits = TimeslotBits(byte[1], byte[2])
      BY <1>3, Zenon DEF ByteOf, here
    <2>. QED BY <1>2, <2>1, <2>2
  <1>4. CASE ~ \E byte \in here : bits = TimeslotBits(byte[1], byte[2])
    <2>1. ByteOf(bits) = Torn
      BY <1>4, Zenon DEF ByteOf, here
    <2>. QED BY <2>1 DEF TimeslotBytesOf
  <1>. QED BY <1>3, <1>4

LEMMA RxRestInit == FramersInit => RxRest
  <1>. SUFFICES ASSUME FramersInit PROVE RxRest
    OBVIOUS
  <1>1. /\ timeslot_f = <<0, 0>> /\ mf_bits = <<0, 0>> /\ frame_count = 0
        /\ timeslot_data = Torn /\ count = 0
    BY DEF FramersInit, Init
  <1>2. 0 \in Frames /\ 0 \in 0 .. bit_count_last /\ 0 \in 0 .. Channels + report_length
    BY LastBit, RxFramerAssumption DEF Frames
  <1>. QED BY <1>1, <1>2 DEF RxRest, LineBits, TimeslotBytesOf

LEMMA RxRestNext ==
  ASSUME FramersInv, RxTypes, RxRest, NEW bit_end_strobe \in BOOLEAN, Clk(bit_end_strobe)
  PROVE  RxRest'
  <1>. USE FramersConstants
  <1>1. RxBlock(bit_end_strobe) /\ FrameReport /\ Adapter
    BY DEF Clk
  <1>2. ser_shifter[2] \in LineBits
    BY 2 \in 1 .. 8 DEF RxTypes
  <1>3. timeslot_f' \in LineBits /\ mf_bits' \in LineBits
    BY <1>1, <1>2, BitsShifted DEF RxRest, RxBlock, FrameReport
  <1>4. frame_count' \in Frames
    BY <1>1, FollowingFrame DEF RxRest, FrameReport
  <1>5. timeslot_data' \in TimeslotBytesOf
    BY <1>1, BitsShifted, ByteType DEF RxRest, RxBlock
  <1>6. count' \in 0 .. Channels + report_length
    <2>1. /\ fsm = "TIMESLOT" => count \in 0 .. Channels
          /\ fsm = "REPORT" => count \in 0 .. report_length
      BY DEF FramersInv, RxBusy
    <2>2. \/ count' = 0 \/ count' = count
          \/ count' = count + 1 /\ fsm = "TIMESLOT" /\ count # Channels
          \/ count' = count + 1 /\ fsm = "REPORT" /\ count # report_length
      BY <1>1, Zenon DEF Adapter, timeslots_length
    <2>3. count \in 0 .. Channels + report_length
      BY DEF RxRest
    <2>. QED BY <2>1, <2>2, <2>3
  <1>7. LineBits' = LineBits /\ Frames' = Frames /\ TimeslotBytesOf' = TimeslotBytesOf
    BY DEF LineBits, Frames, TimeslotBytesOf, bit_count_last, bits_per_frame
  <1>. QED BY <1>3, <1>4, <1>5, <1>6, <1>7 DEF RxRest

LEMMA RxRestKept ==
  ASSUME RxRest, UNCHANGED <<timing_vars, rx_vars>>
  PROVE  RxRest'
  BY DEF RxRest, LineBits, Frames, TimeslotBytesOf, bit_count_last, bits_per_frame,
         timing_vars, rx_vars

LEMMA RxTypeOK ==
  ASSUME FramersInv, RxTypes, RxRest, RxAddressInv
  PROVE  TypeOK
  <1>1. Len(ser_shifter) = 8 /\ \A i \in 1 .. 8 : ser_shifter[i] \in LineBits
    BY FunctionIsSeq, 8 \in Nat DEF RxTypes
  <1>2. DOMAIN page = Addresses
    BY DEF RxTypes
  <1>3. TimingTypeOK /\ fsm \in {"WAIT", "TIMESLOT", "REPORT"}
    BY DEF FramersInv, TimingInv, RxBusy
  <1>. QED BY <1>1, <1>2, <1>3 DEF TypeOK, RxTypes, RxRest, RxAddressInv, TimeslotBytesOf

(* The transmit side.  Before the first frame strobe the adapter fetches      *)
(* without having had a report: its addresses start at 0.                   *)
TxRow == timeslot_in_frame * Channels
BeforeStart ==
  /\ tx_fsm # "REPORT"
  /\ tx_fsm = "TIMESLOT" => tx_address = TxRow + tx_count
  /\ tx_fsm = "WAIT" =>
       tx_address = IF bit_count = 0 THEN 0
                    ELSE TxRow + (IF timeslot_ls_bit /\ ~bit_start_strobe THEN Channels ELSE 0)
TxAddressInv ==
  /\ tx_address \in 0 .. Tx!record_size
  /\ ~started /\ ~frame_strobe => BeforeStart

LEMMA BeforeStartStep ==
  ASSUME FramersInv, BeforeStart, ~frame_strobe, Tx!Adapter
  PROVE  /\ tx_fsm' # "REPORT"
         /\ tx_fsm' = "TIMESLOT" => tx_address' = TxRow + tx_count'
         /\ tx_fsm' = "WAIT" =>
              tx_address' = IF bit_count = 0 THEN 0
                            ELSE TxRow + (IF timeslot_ls_bit THEN Channels ELSE 0)
         /\ tx_fsm' = "TIMESLOT" => tx_count' \in 0 .. Channels /\ bit_count # 0
  <1>. USE FramersConstants
  <1>1. /\ TxRow \in Nat /\ (timeslot_ls_bit => bit_count # 0)
    BY Position, Rows DEF FramersInv, TxRow
  <1>2. /\ tx_fsm \in {"WAIT", "TIMESLOT"}
        /\ tx_fsm = "TIMESLOT" => tx_count \in 0 .. Channels /\ timeslot_ls_bit
    BY DEF FramersInv, TxBusy, BeforeStart
  <1>3. tx_address' = Tx!address_next
    BY DEF Tx!Adapter
  <1>. HIDE DEF TxRow
  <1>4. CASE tx_fsm = "WAIT" /\ timeslot_ls_bit /\ bit_start_strobe
    <2>1. tx_fsm' = "TIMESLOT" /\ tx_count' = 0 /\ tx_address' = tx_address
      BY <1>3, <1>4 DEF Tx!Adapter, Tx!address_next
    <2>. QED BY <1>1, <1>4, <2>1 DEF BeforeStart
  <1>5. CASE tx_fsm = "WAIT" /\ ~(timeslot_ls_bit /\ bit_start_strobe)
    <2>1. tx_fsm' = tx_fsm /\ tx_address' = tx_address
      BY <1>3, <1>5 DEF Tx!Adapter, Tx!address_next
    <2>. QED BY <1>1, <1>5, <2>1 DEF BeforeStart
  <1>6. CASE tx_fsm = "TIMESLOT" /\ tx_count = Channels
    <2>1. tx_fsm' = "WAIT" /\ tx_address' = tx_address
      BY <1>3, <1>6 DEF Tx!Adapter, Tx!address_next, Tx!timeslots_length
    <2>. QED BY <1>1, <1>2, <1>6, <2>1 DEF BeforeStart
  <1>7. CASE tx_fsm = "TIMESLOT" /\ tx_count # Channels
    <2>1. tx_fsm' = "TIMESLOT" /\ tx_count' = tx_count + 1 /\ tx_address' = tx_address + 1
      BY <1>3, <1>7 DEF Tx!Adapter, Tx!address_next, Tx!timeslots_length
    <2>. QED BY <1>1, <1>2, <1>7, <2>1 DEF BeforeStart
  <1>. QED BY <1>2, <1>4, <1>5, <1>6, <1>7

LEMMA TxAddressInit == FramersInit => TxAddressInv
  <1>1. FramersInit => tx_address = 0 /\ tx_fsm = "WAIT" /\ bit_count = 0
    BY DEF FramersInit, Init, TimingInit, Tx!Init
  <1>. QED BY <1>1, TxConstants DEF TxAddressInv, BeforeStart

(* Within the record, whichever way the timeslot's addresses are counted. *)
LEMMA TxBound ==
  ASSUME FramersInv, TxTypes, TxInv, TxAddressInv, NEW bit_end_strobe \in BOOLEAN,
         Tx!Clk(bit_end_strobe)
  PROVE  tx_address' \in 0 .. Tx!record_size
  <1>. USE FramersConstants, TxConstants, TimeslotsAssumption
  <1>1. Tx!Adapter /\ \E r_empty \in BOOLEAN : Tx!Read(r_empty)
    BY DEF Tx!Clk
  <1>2. PICK row \in Nat, end \in Nat :
          /\ row = TxRow /\ end = timeslots_per_frame * Channels /\ row + Channels <= end
    BY Position, Rows DEF FramersInv, TxRow
  <1>3. /\ Tx!TimeslotAddress(timeslot_in_frame, 0) = tx_report_length + row
        /\ Tx!record_size = tx_report_length + end
    BY <1>2 DEF Tx!TimeslotAddress, TxRow
  <1>4. /\ tx_fsm' \in {"WAIT", "TIMESLOT", "REPORT"}
        /\ tx_fsm' = "REPORT" => tx_count' \in 0 .. tx_report_length
        /\ tx_fsm' = "TIMESLOT" => tx_count' \in 0 .. Channels
    <2>1. /\ tx_fsm \in {"WAIT", "TIMESLOT", "REPORT"}
          /\ tx_fsm = "REPORT" => tx_count \in 0 .. tx_report_length
          /\ tx_fsm = "TIMESLOT" => tx_count \in 0 .. Channels
      BY DEF FramersInv, TxBusy
    <2>. QED BY <1>1, <2>1 DEF Tx!Adapter, Tx!timeslots_length
  <1>5. CASE frame_strobe
    <2>1. tx_fsm = "WAIT"
      BY <1>5 DEF FramersInv, NoStrobeMissedByEither, Tx!NoStrobeMissed
    <2>2. tx_address' = 0
      BY <1>1, <1>5, <2>1 DEF Tx!Adapter, Tx!address_next
    <2>. QED BY <2>2
  <1>6. CASE ~frame_strobe /\ started
    <2>1. FetchInv
      BY <1>6 DEF TxInv
    <2>2. /\ tx_fsm' = "REPORT" => tx_address' = tx_count'
          /\ tx_fsm' = "TIMESLOT" => tx_address' = tx_report_length + row + tx_count'
          /\ tx_fsm' = "WAIT" => \/ tx_address' = tx_report_length + row + Channels
                                 \/ tx_address' = tx_report_length
                                 \/ tx_address' = tx_report_length + row
      BY <1>1, <1>3, <1>6, <2>1, FetchStep
    <2>. QED BY <1>2, <1>3, <1>4, <2>2
  <1>7. CASE ~frame_strobe /\ ~started
    <2>1. BeforeStart
      BY <1>7 DEF TxAddressInv
    <2>2. /\ tx_fsm' # "REPORT"
          /\ tx_fsm' = "TIMESLOT" => tx_address' = row + tx_count'
          /\ tx_fsm' = "WAIT" => tx_address' = 0 \/ tx_address' = row + Channels
                                                 \/ tx_address' = row
      <3>1. row + 0 = row
        OBVIOUS
      <3>. QED BY <1>1, <1>2, <1>7, <2>1, <3>1, BeforeStartStep
    <2>. QED BY <1>2, <1>3, <1>4, <2>2
  <1>. QED BY <1>5, <1>6, <1>7

LEMMA TxAddressNext ==
  ASSUME FramersInv, FramersInv', TxInv, TxAddressInv, NEW bit_end_strobe \in BOOLEAN,
         Clk(bit_end_strobe), Tx!Clk(bit_end_strobe)
  PROVE  TxAddressInv'
  <1>. USE FramersConstants, TimeslotsAssumption
  <1>1. /\ TimingInv /\ TimingInv' /\ TimingClk(bit_end_strobe) /\ Tx!Adapter
        /\ started' <=> started \/ frame_strobe
    BY DEF FramersInv, Clk, Tx!Clk, Tx!Adapter
  <1>2. tx_address' \in 0 .. Tx!record_size'
    <2>1. tx_address' \in 0 .. Tx!record_size
      BY TxBound DEF TxInv
    <2>. QED BY <2>1 DEF Tx!record_size
  <1>3. ASSUME ~started', ~frame_strobe' PROVE BeforeStart'
    <2>1. ~started /\ ~frame_strobe /\ BeforeStart
      BY <1>1, <1>3 DEF TxAddressInv
    <2>2. /\ tx_fsm' # "REPORT"
          /\ tx_fsm' = "TIMESLOT" => tx_address' = TxRow + tx_count'
          /\ tx_fsm' = "WAIT" =>
               tx_address' = IF bit_count = 0 THEN 0
                             ELSE TxRow + (IF timeslot_ls_bit THEN Channels ELSE 0)
      BY <1>1, <2>1, BeforeStartStep
    <2>3. CASE ~bit_end_strobe
      <3>1. /\ UNCHANGED <<bit_count, timeslot_ls_bit, timeslot_in_frame>> /\ ~bit_start_strobe'
        BY <1>1, <2>3, NoStrobeAtEnd
      <3>2. TxRow' = TxRow
        BY <3>1 DEF TxRow
      <3>. QED BY <2>2, <3>1, <3>2 DEF BeforeStart
    <2>4. CASE bit_end_strobe
      <3>1. NextBit /\ bit_start_strobe' /\ tx_fsm' # "TIMESLOT"
        BY <1>1, <2>4, NoStrobeAtEnd, TxBusyNext DEF TimingClk
      <3>2. bit_count' # 0
        <4>1. frame_strobe' <=> bit_count' = 0
          BY <1>1, <2>4, <3>1, PositionNext, Zenon DEF TimingClk, f_bit_next
        <4>. QED BY <1>3, <4>1
      <3>3. /\ timeslot_in_frame \in 0 .. timeslots_per_frame - 1
            /\ timeslot_ls_bit <=> bit_count # 0 /\ bit_in_timeslot = 0
            /\ bit_count = 0 => timeslot_in_frame' = 0
            /\ bit_count # 0 /\ bit_in_timeslot # 0 => timeslot_in_frame' = timeslot_in_frame
            /\ bit_count # 0 /\ bit_in_timeslot = 0 => timeslot_in_frame' = timeslot_in_frame + 1
        BY <1>1, <3>1, <3>2, Position, PositionNext
      <3>4. /\ TxRow \in Nat /\ (timeslot_in_frame + 1) * Channels = TxRow + Channels
        BY <3>3, Rows DEF TxRow
      <3>5. tx_fsm' = "WAIT" => tx_address' = TxRow'
        <4>. SUFFICES ASSUME tx_fsm' = "WAIT" PROVE tx_address' = TxRow'
          OBVIOUS
        <4>1. CASE bit_count = 0
          <5>1. TxRow' = 0
            BY <3>3, <4>1 DEF TxRow
          <5>. QED BY <2>2, <4>1, <5>1
        <4>2. CASE bit_count # 0 /\ bit_in_timeslot # 0
          <5>1. TxRow' = TxRow
            BY <3>3, <4>2 DEF TxRow
          <5>2. TxRow + 0 = TxRow
            BY <3>4
          <5>. QED BY <2>2, <3>3, <4>2, <5>1, <5>2
        <4>3. CASE bit_count # 0 /\ bit_in_timeslot = 0
          <5>1. TxRow' = TxRow + Channels
            BY <3>3, <3>4, <4>3 DEF TxRow
          <5>. QED BY <2>2, <3>3, <4>3, <5>1
        <4>. QED BY <4>1, <4>2, <4>3
      <3>6. TxRow' \in Nat
        <4>1. timeslot_in_frame' \in 0 .. timeslots_per_frame - 1
          BY <1>1 DEF TimingInv, TimingTypeOK
        <4>2. timeslot_in_frame' * Channels \in Nat
          BY <4>1, Rows
        <4>. QED BY <4>2 DEF TxRow
      <3>. QED BY <2>2, <3>1, <3>2, <3>5, <3>6 DEF BeforeStart
    <2>. QED BY <2>3, <2>4
  <1>. QED BY <1>2, <1>3 DEF TxAddressInv

LEMMA TxAddressKept ==
  ASSUME TxAddressInv, UNCHANGED <<timing_vars, Tx!tx_vars>>
  PROVE  TxAddressInv'
  BY DEF TxAddressInv, BeforeStart, TxRow, Tx!record_size, timing_vars, Tx!tx_vars

TxRest ==
  /\ tx_count \in 0 .. Channels + tx_report_length
  /\ report \in [0 .. tx_report_length - 1 -> TxBytes]
  /\ line_record \in Tx!RecordIds \union {NoByte}

LEMMA TxRestInit == FramersInit => TxRest
  <1>. SUFFICES ASSUME FramersInit PROVE TxRest
    OBVIOUS
  <1>1. /\ tx_count = 0 /\ line_record = NoByte
        /\ report = [i \in 0 .. tx_report_length - 1 |-> NoByte]
    BY DEF FramersInit, Tx!Init
  <1>2. tx_count \in 0 .. Channels + tx_report_length
    BY <1>1, FramersConstants
  <1>3. report \in [0 .. tx_report_length - 1 -> TxBytes]
    BY <1>1 DEF TxBytes
  <1>. QED BY <1>1, <1>2, <1>3 DEF TxRest

LEMMA TxRestNext ==
  ASSUME FramersInv, TxTypes, TxRest, NEW bit_end_strobe \in BOOLEAN, Tx!Clk(bit_end_strobe)
  PROVE  TxRest'
  <1>. USE FramersConstants
  <1>1. Tx!Adapter /\ Tx!LineFrame(bit_end_strobe)
    BY DEF Tx!Clk
  <1>2. /\ tx_fsm = "TIMESLOT" => tx_count \in 0 .. Channels
        /\ tx_fsm = "REPORT" => tx_count \in 0 .. tx_report_length
        /\ tx_count \in 0 .. Channels + tx_report_length
    BY DEF FramersInv, TxBusy, TxRest
  <1>3. \/ tx_count' = 0 \/ tx_count' = tx_count
        \/ tx_count' = tx_count + 1 /\ tx_fsm = "TIMESLOT" /\ tx_count # Channels
        \/ tx_count' = tx_count + 1 /\ tx_fsm = "REPORT" /\ tx_count # tx_report_length
    BY <1>1, Zenon DEF Tx!Adapter, Tx!timeslots_length
  <1>4. tx_count' \in 0 .. Channels + tx_report_length
    BY <1>2, <1>3
  <1>5. report' \in [0 .. tx_report_length - 1 -> TxBytes]
    <2>1. report' = report \/ report' = [report EXCEPT ![tx_count] = r_data]
      BY <1>1, Zenon DEF Tx!Adapter
    <2>. QED BY <2>1 DEF TxRest, TxTypes
  <1>6. line_record' \in Tx!RecordIds \union {NoByte}
    BY <1>1 DEF TxRest, TxTypes, Tx!LineFrame
  <1>7. TxBytes' = TxBytes /\ Tx!RecordIds' = Tx!RecordIds
    BY DEF TxBytes, Tx!RecordIds, Tx!Addresses, Tx!record_size
  <1>. QED BY <1>4, <1>5, <1>6, <1>7 DEF TxRest

LEMMA TxRestKept ==
  ASSUME TxRest, UNCHANGED <<timing_vars, Tx!tx_vars>>
  PROVE  TxRest'
  BY DEF TxRest, TxBytes, Tx!RecordIds, Tx!Addresses, Tx!record_size, Tx!tx_vars

LEMMA TxTypeOK ==
  ASSUME FramersInv, TxTypes, TxRest, TxAddressInv
  PROVE  Tx!TypeOK
  <1>1. Len(tx_ser_shifter) = 8
    BY FunctionIsSeq, 8 \in Nat DEF TxTypes, EightOf
  <1>2. \A i \in 1 .. 8 : DOMAIN tx_ser_shifter[i] = Tx!ChannelIds
    BY DEF TxTypes, EightOf
  <1>3. Tx!TimingTypeOK
    BY DEF FramersInv, TimingInv, TimingTypeOK, Tx!TimingTypeOK, Tx!bit_count_last, bit_count_last,
           Tx!bits_per_frame, bits_per_frame
  <1>4. tx_fsm \in {"WAIT", "REPORT", "TIMESLOT"}
    BY DEF FramersInv, TxBusy
  <1>. QED BY <1>1, <1>2, <1>3, <1>4 DEF Tx!TypeOK, TxTypes, TxRest, TxAddressInv, TxBytes

(* For every value of the constants: both sides' state has its type, and with *)
(* it neither adapter's address ever passes the end of a record, before the  *)
(* first frame strobe included (rx_framer_to_fifo.py, tx_fifo_to_framer.py). *)
THEOREM FramersTypeCorrect == FramersSpec => [](TypeOK /\ Tx!TypeOK)
  <1>. DEFINE RxState == RxInv /\ RxRest /\ RxAddressInv
              TxState == TxInv /\ TxRest /\ TxAddressInv
              All == FramersInv /\ RxState /\ TxState
  <1>1. FramersInit => All
    BY FramersInvInit, RxInvInit, RxRestInit, RxAddressInit, TxInvInit, TxRestInit, TxAddressInit
  <1>2. All /\ [FramersNext]_framers_vars => All'
    <2>. SUFFICES ASSUME All, [FramersNext]_framers_vars PROVE All'
      OBVIOUS
    <2>1. FramersInv'
      BY FramersInvNext
    <2>2. ASSUME NEW bit_end_strobe \in BOOLEAN, Clk(bit_end_strobe), Tx!Clk(bit_end_strobe)
          PROVE  RxState' /\ TxState'
      <3>1. RxTypes /\ TxTypes
        BY DEF RxInv, TxInv
      <3>2. RxState'
        BY <2>1, <2>2, <3>1, RxInvNext, RxRestNext, RxAddressNext
      <3>3. TxState'
        BY <2>1, <2>2, <3>1, TxInvNext, TxRestNext, TxAddressNext
      <3>. QED BY <3>2, <3>3
    <2>3. CASE UNCHANGED framers_vars
      <3>1. UNCHANGED <<timing_vars, rx_vars>> /\ UNCHANGED <<timing_vars, Tx!tx_vars>>
        BY <2>3 DEF framers_vars
      <3>. QED BY <2>1, <3>1, RxInvKept, RxRestKept, RxAddressKept, TxInvKept, TxRestKept, TxAddressKept
    <2>. QED BY <2>1, <2>2, <2>3 DEF FramersNext
  <1>3. All => TypeOK /\ Tx!TypeOK
    <2>. SUFFICES ASSUME All PROVE TypeOK /\ Tx!TypeOK
      OBVIOUS
    <2>1. RxTypes /\ TxTypes
      BY DEF RxInv, TxInv
    <2>. QED BY <2>1, RxTypeOK, TxTypeOK
  <1>. QED BY <1>1, <1>2, <1>3, PTL DEF FramersSpec
=============================================================================
