-------------------------- MODULE SystemTiming --------------------------
(***************************************************************************)
(* SystemTiming: the position in the frame every framer-side block works    *)
(* from.  A frame is an F bit and 8 bits for each timeslot.  The flags of   *)
(* a bit are registered a bit ahead, computed from the count of the bit     *)
(* before; the strobes come one sync clock after the end of a bit.          *)
(*                                                                         *)
(* BitTiming makes bit_end_strobe from the recovered serial clock, so the   *)
(* number of sync clocks in a bit varies: all that is known is a minimum.   *)
(* The operators take the strobe as a parameter, for the modules that run   *)
(* beside this one on the same clock.                                      *)
(***************************************************************************)
EXTENDS Naturals

CONSTANTS
  timeslots_per_frame,   \* 24 in T1
  MinClocks              \* sync clocks in a bit, at least

ASSUME TimeslotsAssumption ==
  timeslots_per_frame \in Nat /\ timeslots_per_frame >= 1
ASSUME ClocksAssumption == MinClocks \in Nat /\ MinClocks >= 1

VARIABLES
  bit_count, bit_in_timeslot,
  f_bit, timeslot_ms_bit, timeslot_ls_bit, frame_last_bit,
  timeslot_in_frame, timeslot_first, timeslot_last,
  timeslot_start_strobe, frame_strobe, bit_start_strobe,
  clock_count            \* clocks since the last bit_end_strobe, up to MinClocks
                         \* (the code's 8-bit counter of them is read by nothing)

timing_vars ==
  <<bit_count, bit_in_timeslot, f_bit, timeslot_ms_bit, timeslot_ls_bit,
    frame_last_bit, timeslot_in_frame, timeslot_first, timeslot_last,
    timeslot_start_strobe, frame_strobe, bit_start_strobe, clock_count>>

bits_in_timeslot == 8
bits_per_frame == 1 + timeslots_per_frame * 8
bit_count_last == bits_per_frame - 1

TimingInit ==
  /\ bit_count = 0 /\ bit_in_timeslot = 0
  /\ f_bit = FALSE /\ timeslot_ms_bit = FALSE /\ timeslot_ls_bit = FALSE
  /\ frame_last_bit = FALSE
  /\ timeslot_in_frame = 0 /\ timeslot_first = FALSE /\ timeslot_last = FALSE
  /\ timeslot_start_strobe = FALSE /\ frame_strobe = FALSE /\ bit_start_strobe = FALSE
  /\ clock_count = 0

bit_count_next == IF bit_count = bit_count_last THEN 0 ELSE bit_count + 1
f_bit_next == bit_count_next = 0
timeslot_ms_bit_next == bit_count % 8 = 0 /\ ~f_bit_next
timeslot_ls_bit_next == bit_count % 8 = 7
frame_last_bit_next == bit_count = bit_count_last - 1
timeslot_in_frame_next == IF frame_last_bit THEN 0 ELSE bit_count \div 8
bit_in_timeslot_next == IF frame_last_bit THEN 0 ELSE 7 - (bit_count % 8)

(* A bit ends: the registers take the values of the next one. *)
NextBit ==
  /\ bit_count' = bit_count_next
  /\ bit_in_timeslot' = bit_in_timeslot_next
  /\ f_bit' = f_bit_next
  /\ timeslot_ms_bit' = timeslot_ms_bit_next
  /\ timeslot_ls_bit' = timeslot_ls_bit_next
  /\ frame_last_bit' = frame_last_bit_next
  /\ timeslot_in_frame' = timeslot_in_frame_next
  /\ timeslot_first' =
       IF timeslot_ms_bit_next THEN timeslot_in_frame_next = 0 ELSE timeslot_first
  /\ timeslot_last' =
       IF timeslot_ms_bit_next \/ f_bit_next
       THEN timeslot_in_frame_next = timeslots_per_frame - 1
       ELSE timeslot_last

(* One sync clock. *)
TimingClk(bit_end_strobe) ==
  /\ bit_end_strobe => clock_count + 1 >= MinClocks
  /\ IF bit_end_strobe
     THEN NextBit
     ELSE UNCHANGED <<bit_count, bit_in_timeslot, f_bit, timeslot_ms_bit,
                      timeslot_ls_bit, frame_last_bit, timeslot_in_frame,
                      timeslot_first, timeslot_last>>
  /\ timeslot_start_strobe' = (timeslot_ms_bit_next /\ bit_end_strobe)
  /\ frame_strobe' = (f_bit_next /\ bit_end_strobe)
  /\ bit_start_strobe' = bit_end_strobe
  /\ clock_count' = IF bit_end_strobe THEN 0
                    ELSE IF clock_count < MinClocks THEN clock_count + 1
                    ELSE clock_count

timeslot_end_strobe(bit_end_strobe) == timeslot_ls_bit /\ bit_end_strobe

TimingSpec ==
  TimingInit /\ [][\E bit_end_strobe \in BOOLEAN : TimingClk(bit_end_strobe)]_timing_vars

-----------------------------------------------------------------------------
TimingTypeOK ==
  /\ bit_count \in 0 .. bit_count_last /\ bit_in_timeslot \in 0 .. 7
  /\ f_bit \in BOOLEAN /\ timeslot_ms_bit \in BOOLEAN /\ timeslot_ls_bit \in BOOLEAN
  /\ frame_last_bit \in BOOLEAN
  /\ timeslot_in_frame \in 0 .. timeslots_per_frame - 1
  /\ timeslot_first \in BOOLEAN /\ timeslot_last \in BOOLEAN
  /\ timeslot_start_strobe \in BOOLEAN /\ frame_strobe \in BOOLEAN
  /\ bit_start_strobe \in BOOLEAN
  /\ clock_count \in 0 .. MinClocks

(* The flags registered ahead of a bit say where that bit is.  Reset is the  *)
(* exception: the first F bit has no f_bit and no frame_strobe.             *)
FlagsFollowCount ==
  /\ f_bit => bit_count = 0
  /\ timeslot_ms_bit <=> bit_count % 8 = 1
  /\ timeslot_ls_bit <=> bit_count # 0 /\ bit_count % 8 = 0
  /\ frame_last_bit <=> bit_count = bit_count_last
  /\ bit_count # 0 => /\ bit_count = 8 * timeslot_in_frame + (8 - bit_in_timeslot)
                      /\ timeslot_first <=> timeslot_in_frame = 0
                      /\ timeslot_last <=> timeslot_in_frame = timeslots_per_frame - 1
=============================================================================
