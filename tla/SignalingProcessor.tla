------------------------- MODULE SignalingProcessor -------------------------
(***************************************************************************)
(* What the signaling thread does with a frame (audio.rs 400-430): the      *)
(* debouncer of the robbed bits has it first, then the detector of digits.  *)
(* Neither sees the other's state, so a behaviour follows one of them, with *)
(* the other at rest.                                                       *)
(***************************************************************************)
EXTENDS RobbedBit, DtmfDetector

VARIABLE follows   \* "bits" or "digits"

signaling_vars == <<vars, dtmf_vars, follows>>

SignalingInit ==
  /\ Init /\ DtmfInit
  /\ \/ follows = "bits" /\ signal = None
     \/ follows = "digits" /\ frame_count = SuperframeLength /\ position = 0 /\ sent = InitialValue

SignalingNext ==
  /\ UNCHANGED follows
  /\ \/ follows = "bits" /\ Next /\ UNCHANGED dtmf_vars
     \/ follows = "digits" /\ advance /\ UNCHANGED vars

SignalingSpec == SignalingInit /\ [][SignalingNext]_signaling_vars

(* The fairness of FairSpec, for a behaviour that follows the bits: the line  *)
(* goes on and the monitor runs.  One that follows the digits may stop.       *)
SignalingFairSpec ==
  /\ SignalingSpec
  /\ WF_vars(follows = "bits" /\ (Hear \/ Lose))
  /\ WF_vars(follows = "bits" /\ Monitor)
=============================================================================
