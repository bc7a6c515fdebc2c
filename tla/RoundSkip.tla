------------------------------ MODULE RoundSkip ------------------------------
(***************************************************************************)
(* byzzfuzz/spec/round.go: a monitor of the rule that a replica moves to a *)
(* later round once enough others are in it.  It counts, for each replica, *)
(* who sent it a message of a height and round, and keeps the steps it     *)
(* expects of the replica.                                                 *)
(*                                                                         *)
(* The variables are the families of context variables                     *)
(* BF_rounds_received_<replica>, BF_current_height_round_<replica> (with   *)
(* its default) and BF_expected_steps_<replica>.  nodeSet and              *)
(* expectedSteps are lists without duplicates, so sets here.               *)
(***************************************************************************)
EXTENDS Integers, FiniteSets

CONSTANTS Replica,
          Faults,      \* the context variable "faults"
          MaxHeight, MaxRound

Height   == 1 .. MaxHeight
Round    == 0 .. MaxRound
Position == Height \X Round

VARIABLES received, currentHeightRound, expectedSteps

vars == <<received, currentHeightRound, expectedSteps>>

Init ==
  /\ received = [r \in Replica |-> [p \in Position |-> {}]]
  /\ currentHeightRound = [r \in Replica |-> <<1, 0>>]
  /\ expectedSteps = [r \in Replica |-> {}]

Later(p, q) == p[1] > q[1] \/ (p[1] = q[1] /\ p[2] > q[2])

\* Messages of no round and of the first one are not counted.
Ignored(hr) == hr[2] < 0 \/ hr = <<1, 0>>

\* Mutant of NotInteresting: the position is not compared.
AlwaysInteresting(r, hr) == FALSE

\* "Not interesting, we are already at that or a later round"
NotInteresting(r, hr) ==
  \/ hr[1] <= currentHeightRound[r][1]
  \/ hr[1] = currentHeightRound[r][1] /\ hr[2] <= currentHeightRound[r][2]

\* Mutant of Senders: a sender that is heard again replaces the others.
LastSender(r, hr, from) == {from}

\* roundsReceived.Update
Senders(r, hr, from) == received[r][hr] \cup {from}

\* TrackRoundsReceived on a message that replica r receives.
TrackRoundsReceived(from, r, hr) ==
  /\ UNCHANGED currentHeightRound
  /\ IF Ignored(hr)
     THEN UNCHANGED <<received, expectedSteps>>
     ELSE /\ received' = [received EXCEPT ![r][hr] = Senders(r, hr, from)]
          /\ expectedSteps' =
               IF /\ ~ NotInteresting(r, hr)
                  /\ Cardinality(received'[r][hr]) >= Faults + 1
               THEN [expectedSteps EXCEPT ![r] = @ \cup {hr}]
               ELSE expectedSteps

\* TrackCurrentHeightRound on a newStep event of replica r.
TrackCurrentHeightRound(r, hr) ==
  /\ currentHeightRound' = [currentHeightRound EXCEPT ![r] = hr]
  /\ expectedSteps' = [expectedSteps EXCEPT ![r] = @ \ {hr}]
  /\ UNCHANGED received

TypeOK ==
  /\ received \in [Replica -> [Position -> SUBSET Replica]]
  /\ currentHeightRound \in [Replica -> Position]
  /\ expectedSteps \in [Replica -> SUBSET Position]
=============================================================================
