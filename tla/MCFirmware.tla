---------------------------- MODULE MCFirmware ----------------------------
EXTENDS Firmware
(* A packet of no bytes, one that ends early, one that is no command. *)
MCMalformed == {<<>>, <<0, 1>>, <<7>>}
ASSUME ResidueAssumption == LeavesNoResidue
=============================================================================
