---------------------------- MODULE MCStepMonitors ----------------------------
(***************************************************************************)
(* A bounded instance of StepMonitors.                                     *)
(***************************************************************************)
EXTENDS StepMonitors, TLC

CONSTANTS r1, s1, s2, s3

Vote(from, hr) == [kind |-> "vote", from |-> from, to |-> r1, hr |-> hr]

\* Votes of three replicas for the next round and for a round of the next
\* height, other messages for that round, and a vote of no round.
ReceivedMessages ==
  {Vote(s, hr) : s \in {s1, s2, s3}, hr \in {<<1, 1>>, <<2, 1>>}}
    \cup {[Vote(s, <<2, 1>>) EXCEPT !.kind = "other"] : s \in {s1, s2, s3}}
    \cup {Vote(s, <<2, -1>>) : s \in {s1, s2, s3}}

\* The senders are interchangeable.
Senders == Permutations({s1, s2, s3})
=============================================================================
