---------------------------- MODULE MCAutoCycle ----------------------------
(* Instances of the live executor's cycle for TLC. *)
EXTENDS AutoCycle, TLC

\* The legs differ only in price, which the model leaves out.
LegSymmetry == Permutations(Legs)
===========================================================================
