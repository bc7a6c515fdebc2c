--------------------------- MODULE MCRoundTracking ---------------------------
(***************************************************************************)
(* A bounded instance of RoundTracking, and the mutants of its run.        *)
(***************************************************************************)
EXTENDS RoundTracking, TLC

Symmetry == Permutations(Replica)
=============================================================================
