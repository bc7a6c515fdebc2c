------------------------------- MODULE MCRunner -------------------------------
(***************************************************************************)
(* A bounded instance of Runner: two nodes send votes to a third one, which*)
(* does not move.                                                          *)
(***************************************************************************)
EXTENDS Runner

\* With both votes the analysis misses a step of node 2.
ReportedEvents ==
  {[kind |-> "vote", from |-> s, to |-> 2, hr |-> <<1, 1>>] : s \in {0, 1}}
=============================================================================
