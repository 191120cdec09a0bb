--------------------------- MODULE MCFixedSlots ---------------------------
(* Instances of FixedSlots for TLC: the experts of the layer are model     *)
(* values, interchangeable because the code orders slots but not experts.  *)
EXTENDS FixedSlots, TLC

ExpertSymmetry == Permutations(Experts)
===========================================================================
