---------------------------- MODULE RoundTracking ----------------------------
(***************************************************************************)
(* byzzfuzz/roundTracking.go: how the test server counts the rounds a      *)
(* replica goes through, over all heights, from the "newStep" events the   *)
(* replica reports.  The count is the "total round" that the steps of a    *)
(* fault plan refer to.                                                    *)
(*                                                                         *)
(* The variables are the entries of testlib.Context.Vars that the filter   *)
(* trackTotalRounds reads and writes, one function over the replicas for   *)
(* each family of keys (BF_prev_height_<replica>, BF_prev_round_...,       *)
(* BF_total_rounds_..., BF_total_round_<replica>_<height>_<round>).        *)
(***************************************************************************)
EXTENDS Integers

CONSTANTS Replica,     \* the replicas of the cluster
          MaxHeight,   \* bound on the heights a behaviour reaches
          MaxRound     \* bound on the rounds of one height

ASSUME BoundsAssumption == MaxHeight \in Nat \ {0} /\ MaxRound \in Nat

Height   == 1 .. MaxHeight
Round    == 0 .. MaxRound
Position == Height \X Round

Unset == -1            \* Vars.GetInt answers ok = false

VARIABLES prevHeight, prevRound, totalRounds, totalRoundForHeightRound

vars == <<prevHeight, prevRound, totalRounds, totalRoundForHeightRound>>

\* Vars.GetInt followed by the "if !ok" that supplies a default.
OrElse(value, default) == IF value = Unset THEN default ELSE value

PrevHeight(r)  == OrElse(prevHeight[r], 1)
PrevRound(r)   == OrElse(prevRound[r], 0)
TotalRounds(r) == OrElse(totalRounds[r], 0)

\* Mutant of NewTotal: a new height is not counted itself.
UncountedHeight(r, height, round) ==
  IF height > PrevHeight(r)
  THEN TotalRounds(r) + round
  ELSE IF round > PrevRound(r)
       THEN TotalRounds(r) + (round - PrevRound(r))
       ELSE TotalRounds(r)

\* Mutant of NewTotal: skipped rounds are not counted.
UncountedRounds(r, height, round) ==
  IF height > PrevHeight(r)
  THEN TotalRounds(r) + 1 + round
  ELSE IF round > PrevRound(r)
       THEN TotalRounds(r) + 1
       ELSE TotalRounds(r)

\* Mutant of NewTotal: the rounds of a height are subtracted the wrong way.
SwappedRounds(r, height, round) ==
  IF height > PrevHeight(r)
  THEN TotalRounds(r) + 1 + round
  ELSE IF round > PrevRound(r)
       THEN TotalRounds(r) + (PrevRound(r) - round)
       ELSE TotalRounds(r)

\* The total after a newStep event for <<height, round>>, counting the rounds
\* that were skipped.
NewTotal(r, height, round) ==
  IF height > PrevHeight(r)
  THEN TotalRounds(r) + 1 + round
  ELSE IF round > PrevRound(r)
       THEN TotalRounds(r) + (round - PrevRound(r))
       ELSE TotalRounds(r)

\* Mutant of trackTotalRounds: the round is not remembered.
ForgetsRound(r, height, round) ==
  /\ prevHeight'  = [prevHeight EXCEPT ![r] = height]
  /\ prevRound'   = [prevRound EXCEPT ![r] = OrElse(@, 0)]
  /\ totalRounds' = [totalRounds EXCEPT ![r] = NewTotal(r, height, round)]
  /\ totalRoundForHeightRound' =
       [totalRoundForHeightRound EXCEPT
          ![r][<<height, round>>] = NewTotal(r, height, round)]

\* Mutant of trackTotalRounds: the total before the event is stored for the
\* position.
StoresOldTotal(r, height, round) ==
  /\ prevHeight'  = [prevHeight EXCEPT ![r] = height]
  /\ prevRound'   = [prevRound EXCEPT ![r] = round]
  /\ totalRounds' = [totalRounds EXCEPT ![r] = NewTotal(r, height, round)]
  /\ totalRoundForHeightRound' =
       [totalRoundForHeightRound EXCEPT
          ![r][<<height, round>>] = TotalRounds(r)]

trackTotalRounds(r, height, round) ==
  /\ prevHeight'  = [prevHeight EXCEPT ![r] = height]
  /\ prevRound'   = [prevRound EXCEPT ![r] = round]
  /\ totalRounds' = [totalRounds EXCEPT ![r] = NewTotal(r, height, round)]
  /\ totalRoundForHeightRound' =
       [totalRoundForHeightRound EXCEPT
          ![r][<<height, round>>] = NewTotal(r, height, round)]

Init ==
  /\ prevHeight  = [r \in Replica |-> Unset]
  /\ prevRound   = [r \in Replica |-> Unset]
  /\ totalRounds = [r \in Replica |-> Unset]
  /\ totalRoundForHeightRound =
       [r \in Replica |-> [p \in Position |-> Unset]]

\* A replica reports its steps in the order it takes them: it repeats its
\* position (several steps in one round), moves to a higher round of its
\* height, or moves to any later height.
Follows(r, height, round) ==
  \/ height > PrevHeight(r)
  \/ height = PrevHeight(r) /\ round >= PrevRound(r)

NewStep(r, height, round) ==
  /\ Follows(r, height, round)
  /\ trackTotalRounds(r, height, round)

Next == \E r \in Replica, height \in Height, round \in Round :
          NewStep(r, height, round)

Spec == Init /\ [][Next]_vars

-----------------------------------------------------------------------------
\* The conditions that select the messages a fault applies to.

\* isMessageFromTotalRound: the sender is in total round k.
SenderInTotalRound(sender, k) == totalRounds[sender] = k

\* isMessageOfTotalRound: the message's own height and round were total round
\* k of the sender.  No number was ever stored for a position the sender did
\* not report.
MessageOfTotalRound(sender, height, round, k) ==
  /\ <<height, round>> \in Position
  /\ totalRoundForHeightRound[sender][<<height, round>>] = k

-----------------------------------------------------------------------------
(***************************************************************************)
(* Properties.                                                             *)
(***************************************************************************)
Known(r) == {p \in Position : totalRoundForHeightRound[r][p] # Unset}

Before(p, q) == p[1] < q[1] \/ (p[1] = q[1] /\ p[2] < q[2])

\* Every variable holds what the Go code may store in it: a replica's entries
\* are natural numbers in range, or absent.
TypeOK ==
  /\ prevHeight  \in [Replica -> Height \cup {Unset}]
  /\ prevRound   \in [Replica -> Round \cup {Unset}]
  /\ totalRounds \in [Replica -> Nat \cup {Unset}]
  /\ totalRoundForHeightRound \in
       [Replica -> [Position -> Nat \cup {Unset}]]

\* Two positions a replica reported never share a total round, and a later
\* position has a larger one: a fault planned for a step names one round of
\* each sender (roundTracking.go:55-61).
RoundsOrdered ==
  \A r \in Replica : \A p, q \in Known(r) :
    Before(p, q) =>
      totalRoundForHeightRound[r][p] < totalRoundForHeightRound[r][q]

\* p is the last position replica r reported before height h.
LastBefore(r, p, h) ==
  /\ p \in Known(r) /\ p[1] < h
  /\ \A q \in Known(r) : q[1] < h => q = p \/ Before(q, p)

\* The numbers count rounds exactly: within a height they differ by the
\* difference of the rounds, so skipped rounds are counted, and the rounds of
\* the next reported height are numbered on from the last one of the height
\* before it ("We have changed to a new height (+1), and possible skipped over
\* some rounds", roundTracking.go:56).
RoundsCounted ==
  \A r \in Replica : \A q \in Known(r) :
    LET number == totalRoundForHeightRound[r] IN
    /\ \A p \in Known(r) : p[1] = q[1] => number[q] - number[p] = q[2] - p[2]
    /\ \A p \in Known(r) : LastBefore(r, p, q[1]) =>
                             number[q] = number[p] + 1 + q[2]

\* For a message of the round its sender is in, the two conditions agree:
\* a drop (by the sender's round) and a corruption (by the message's round)
\* planned for one step select the same round of that sender.
ConditionsAgree ==
  \A r \in Replica : totalRounds[r] # Unset =>
    \A k \in 0 .. totalRounds[r] + 1 :
      SenderInTotalRound(r, k) <=>
        MessageOfTotalRound(r, prevHeight[r], prevRound[r], k)

\* Repeated newStep events, one for each protocol step of a round, never
\* renumber a round: the number of a reported position is permanent.
NeverRenumbered ==
  [][\A r \in Replica : \A p \in Known(r) :
       totalRoundForHeightRound'[r][p] = totalRoundForHeightRound[r][p]]_vars

\* What makes the properties inductive: the position last reported is known
\* under the current total, no known position is later than it, and a replica
\* that reported nothing has no entry at all.
Current(r) == <<prevHeight[r], prevRound[r]>>

CurrentIsLast ==
  \A r \in Replica :
    \/ /\ prevHeight[r] = Unset /\ prevRound[r] = Unset
       /\ totalRounds[r] = Unset /\ Known(r) = {}
    \/ /\ prevHeight[r] # Unset /\ prevRound[r] # Unset
       /\ totalRounds[r] # Unset
       /\ totalRoundForHeightRound[r][Current(r)] = totalRounds[r]
       /\ \A p \in Known(r) : p = Current(r) \/ Before(p, Current(r))

\* The inductive invariant of the tracker.
IInv == TypeOK /\ CurrentIsLast /\ RoundsOrdered /\ RoundsCounted

\* The tracker implements the numbering of positions of RoundNumbering.
RN == INSTANCE RoundNumbering WITH number <- totalRoundForHeightRound

Numbering == RN!Spec
=============================================================================
