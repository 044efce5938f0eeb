--------------------------- MODULE MCPagedFIFO ---------------------------
(* Instances of PagedFIFO for TLC. *)
EXTENDS PagedFIFO, TLC

IdSymmetry == Permutations(Ids)
=============================================================================
