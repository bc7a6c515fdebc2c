------------------------ MODULE RoundTracking_proofs ------------------------
(***************************************************************************)
(* Proofs about RoundTracking, for any set of replicas and any bounds.     *)
(* Everything follows from the inductive invariant IInv.  Its step lemma   *)
(* looks at one newStep event of one replica in three cases: the event     *)
(* repeats the replica's position, raises the round, or raises the height. *)
(***************************************************************************)
EXTENDS RoundTracking, TLAPS

\* Before is the strict lexicographic order on positions.
LEMMA BeforeOrder ==
  /\ \A p \in Position : ~ Before(p, p)
  /\ \A p, q \in Position : p = q \/ Before(p, q) \/ Before(q, p)
  /\ \A p, q \in Position : ~ (Before(p, q) /\ Before(q, p))
  /\ \A p, q, s \in Position : Before(p, q) /\ Before(q, s) => Before(p, s)
BY BoundsAssumption DEF Before, Position, Height, Round

\* The initial state, where no entry is set, satisfies the invariant.
LEMMA InitIInv == Init => IInv
BY BoundsAssumption
   DEF Init, IInv, TypeOK, CurrentIsLast, RoundsOrdered, RoundsCounted, Known,
       Unset, Height, Round, Position

\* What one newStep event does to the numbers of its replica: the numbers of
\* the known positions stay, and the reported position is either the current
\* one, with its number kept, or later than all of them with a larger number.
LEMMA StepEffect ==
  ASSUME IInv, NEW r \in Replica, NEW height \in Height, NEW round \in Round,
         NewStep(r, height, round)
  PROVE  LET new == <<height, round>> IN
         /\ TypeOK'
         /\ Known(r)' = Known(r) \cup {new}
         /\ totalRoundForHeightRound'[r][new] = totalRounds'[r]
         /\ totalRounds'[r] \in Nat
         /\ \A q \in Known(r) :
              /\ totalRoundForHeightRound'[r][q] =
                   totalRoundForHeightRound[r][q]
              /\ \/ q = new
                 \/ /\ Before(q, new)
                    /\ totalRoundForHeightRound[r][q] < totalRounds'[r]
         /\ \A s \in Replica \ {r} :
              totalRoundForHeightRound'[s] = totalRoundForHeightRound[s]
<1> DEFINE new    == <<height, round>>
           number == totalRoundForHeightRound[r]
           total  == NewTotal(r, height, round)
<1>1. new \in Position /\ height \in Nat /\ round \in Nat
  BY BoundsAssumption DEF Position, Height, Round
<1>2. /\ prevHeight[r] \in Height \cup {Unset}
      /\ prevRound[r] \in Round \cup {Unset}
      /\ totalRounds[r] \in Nat \cup {Unset}
      /\ number \in [Position -> Nat \cup {Unset}]
  BY DEF IInv, TypeOK
<1>3. total \in Nat
  BY <1>1, <1>2, BoundsAssumption
     DEF NewTotal, TotalRounds, PrevHeight, PrevRound, OrElse, Unset, Height,
         Round
<1>4. /\ prevHeight' = [prevHeight EXCEPT ![r] = height]
      /\ prevRound' = [prevRound EXCEPT ![r] = round]
      /\ totalRounds' = [totalRounds EXCEPT ![r] = total]
      /\ totalRoundForHeightRound' =
           [totalRoundForHeightRound EXCEPT ![r][new] = total]
  BY DEF NewStep, trackTotalRounds
<1>5. TypeOK'
  BY <1>1, <1>3, <1>4 DEF IInv, TypeOK
<1>6. /\ totalRounds'[r] = total
      /\ totalRoundForHeightRound'[r] = [number EXCEPT ![new] = total]
      /\ \A s \in Replica \ {r} :
           totalRoundForHeightRound'[s] = totalRoundForHeightRound[s]
  BY <1>4 DEF IInv, TypeOK
<1>7. Known(r)' = Known(r) \cup {new}
  BY <1>1, <1>2, <1>3, <1>6 DEF Known, Unset
<1>8. \A q \in Known(r) : \/ q = new /\ number[q] = total
                          \/ Before(q, new) /\ number[q] < total
  <2>1. CASE Known(r) = {}
    BY <2>1
  <2>2. CASE Known(r) # {}
    <3>1. /\ prevHeight[r] \in Height /\ prevRound[r] \in Round
          /\ totalRounds[r] \in Nat
          /\ number[Current(r)] = totalRounds[r]
          /\ \A q \in Known(r) : q = Current(r) \/ Before(q, Current(r))
      BY <1>2, <2>2 DEF IInv, CurrentIsLast
    <3>2. Current(r) \in Known(r)
      BY <3>1 DEF Known, Current, Position, Unset
    <3>3. \A q \in Known(r) : /\ q \in Position /\ number[q] \in Nat
                              /\ q = Current(r) \/ number[q] < totalRounds[r]
      BY <1>2, <3>1, <3>2 DEF IInv, RoundsOrdered, Known
    <3>4. /\ PrevHeight(r) = prevHeight[r] /\ PrevRound(r) = prevRound[r]
          /\ TotalRounds(r) = totalRounds[r]
      BY <3>1, BoundsAssumption
         DEF PrevHeight, PrevRound, TotalRounds, OrElse, Unset, Height, Round
    <3>5. \/ Current(r) = new /\ total = totalRounds[r]
          \/ Before(Current(r), new) /\ total > totalRounds[r]
      BY <1>1, <3>1, <3>4, BoundsAssumption
         DEF NewStep, Follows, NewTotal, Current, Before, Height, Round
    <3>6. Current(r) \in Position
      BY <3>2 DEF Known
    <3>7. ASSUME NEW q \in Known(r)
          PROVE  \/ q = new /\ number[q] = total
                 \/ Before(q, new) /\ number[q] < total
      <4>1. CASE q = Current(r)
        BY <3>1, <3>5, <4>1
      <4>2. CASE q # Current(r)
        <5>1. Before(q, Current(r)) /\ number[q] < totalRounds[r]
              /\ number[q] \in Nat /\ q \in Position
          BY <3>1, <3>3, <4>2
        <5>2. Before(q, new)
          BY <1>1, <3>5, <3>6, <5>1, BeforeOrder
        <5>3. number[q] < total
          BY <1>3, <3>1, <3>5, <5>1
        <5> QED BY <5>2, <5>3
      <4> QED BY <4>1, <4>2
    <3> QED BY <3>7
  <2> QED BY <2>1, <2>2
<1>9. \A q \in Known(r) : totalRoundForHeightRound'[r][q] = number[q]
  <2> SUFFICES ASSUME NEW q \in Known(r)
               PROVE  [number EXCEPT ![new] = total][q] = number[q]
    BY <1>6
  <2>1. q \in Position
    BY DEF Known
  <2>2. q = new => number[q] = total
    <3>1. ~ Before(new, new)
      BY <1>1, BeforeOrder
    <3> QED BY <1>8, <3>1
  <2> HIDE DEF number, total, new
  <2> QED BY <1>2, <2>1, <2>2
<1>10. totalRoundForHeightRound'[r][new] = total
  BY <1>1, <1>2, <1>6
<1> QED
  BY <1>3, <1>5, <1>6, <1>7, <1>8, <1>9, <1>10

\* Every newStep event preserves the inductive invariant.
LEMMA StepIInv ==
  ASSUME IInv, NEW r \in Replica, NEW height \in Height, NEW round \in Round,
         NewStep(r, height, round)
  PROVE  IInv'
<1> DEFINE new    == <<height, round>>
           number == totalRoundForHeightRound[r]
           after  == totalRoundForHeightRound'[r]
<1>1. /\ Known(r)' = Known(r) \cup {new}
      /\ after[new] = totalRounds'[r] /\ totalRounds'[r] \in Nat
      /\ \A q \in Known(r) :
           /\ after[q] = number[q]
           /\ \/ q = new
              \/ Before(q, new) /\ number[q] < totalRounds'[r]
      /\ \A s \in Replica \ {r} :
           totalRoundForHeightRound'[s] = totalRoundForHeightRound[s]
  BY StepEffect
<1>2. TypeOK'
  BY StepEffect
<1>3. \A s \in Replica \ {r} : /\ Known(s)' = Known(s)
                               /\ prevHeight'[s] = prevHeight[s]
                               /\ prevRound'[s] = prevRound[s]
                               /\ totalRounds'[s] = totalRounds[s]
  BY <1>1 DEF Known, NewStep, trackTotalRounds, IInv, TypeOK
<1>4. /\ new \in Position /\ height \in Nat \ {0} /\ round \in Nat
      /\ prevHeight'[r] = height /\ prevRound'[r] = round
  BY BoundsAssumption
     DEF Position, Height, Round, NewStep, trackTotalRounds, IInv, TypeOK
<1>5. Known(r) \subseteq Position /\ \A q \in Known(r) : number[q] \in Nat
  BY DEF IInv, TypeOK, Known
<1>6. CurrentIsLast'
  <2>1. Current(r)' = new
    BY <1>4 DEF Current
  <2>2. \A s \in Replica \ {r} : Current(s)' = Current(s)
    BY <1>3 DEF Current
  <2> QED
    BY <1>1, <1>3, <1>4, <2>1, <2>2 DEF CurrentIsLast, IInv, Unset
<1>7. RoundsOrdered'
  <2>1. ASSUME NEW p \in Known(r)', NEW q \in Known(r)', Before(p, q)
        PROVE  after[p] < after[q]
    <3>1. CASE p = new
      BY <1>1, <1>4, <1>5, <2>1, <3>1, BeforeOrder
    <3>2. CASE p # new /\ q = new
      BY <1>1, <3>2
    <3>3. CASE p # new /\ q # new
      BY <1>1, <2>1, <3>3 DEF IInv, RoundsOrdered
    <3> QED BY <3>1, <3>2, <3>3
  <2> QED
    BY <1>1, <1>3, <2>1 DEF RoundsOrdered, IInv
<1>8. RoundsCounted'
  <2>1. CASE new \in Known(r)
    <3>1. Known(r)' = Known(r) /\ \A q \in Known(r) : after[q] = number[q]
      BY <1>1, <2>1
    <3>2. \A s \in Replica : Known(s)' = Known(s)
      BY <1>3, <3>1
    <3>3. \A s \in Replica : \A q \in Known(s) :
            totalRoundForHeightRound'[s][q] = totalRoundForHeightRound[s][q]
      BY <1>1, <3>1
    <3> HIDE DEF new, number, after
    <3> QED BY <3>2, <3>3 DEF IInv, RoundsCounted, LastBefore
  <2>2. CASE Known(r) = {}
    <3>1. Known(r)' = {new} /\ after[new] \in Nat
      BY <1>1, <2>2
    <3>2. \A q \in Known(r)' : /\ \A p \in Known(r)' : p = q
                               /\ \A p \in Known(r)' : ~ LastBefore(r, p, q[1])'
      BY <1>4, <3>1 DEF LastBefore
    <3>3. \A q \in Known(r)' :
            /\ \A p \in Known(r)' :
                 p[1] = q[1] => after[q] - after[p] = q[2] - p[2]
            /\ \A p \in Known(r)' :
                 LastBefore(r, p, q[1])' => after[q] = after[p] + 1 + q[2]
      BY <1>4, <3>1, <3>2
    <3> QED BY <1>1, <1>3, <3>3 DEF IInv, RoundsCounted, LastBefore
  <2>3. CASE new \notin Known(r) /\ Known(r) # {}
    <3> DEFINE cur == Current(r)
    <3>1. /\ cur \in Known(r)
          /\ \A q \in Known(r) : q = cur \/ Before(q, cur)
          /\ cur[1] \in Nat /\ cur[2] \in Nat /\ number[cur] \in Nat
          /\ \/ /\ height = cur[1] /\ round > cur[2]
                /\ after[new] = number[cur] + (round - cur[2])
             \/ height > cur[1] /\ after[new] = number[cur] + 1 + round
      BY <1>1, <1>4, <2>3, BoundsAssumption
         DEF IInv, TypeOK, CurrentIsLast, Current, Known, Position, Height,
             Round, NewStep, trackTotalRounds, Follows, NewTotal, PrevHeight,
             PrevRound, TotalRounds, OrElse, Unset, Before
    <3>2. /\ \A q \in Known(r) : after[q] = number[q] /\ number[q] \in Nat
          /\ \A q \in Known(r) : q[1] \in Nat /\ q[2] \in Nat
      BY <1>1, <1>5, BoundsAssumption DEF Position, Height, Round
    <3>3. ASSUME NEW p \in Known(r), p[1] = height
          PROVE  after[new] - number[p] = round - p[2]
      <4>1. height = cur[1] /\ after[new] = number[cur] + (round - cur[2])
        BY <1>4, <3>1, <3>2, <3>3 DEF Before
      <4>2. number[cur] - number[p] = cur[2] - p[2]
        BY <3>1, <3>3, <4>1 DEF IInv, RoundsCounted
      <4> HIDE DEF cur, number, after, new
      <4> QED BY <1>4, <3>1, <3>2, <4>1, <4>2
    <3>4. ASSUME NEW p \in Known(r), LastBefore(r, p, height)'
          PROVE  after[new] = number[p] + 1 + round
      <4>1. LastBefore(r, p, height)
        BY <1>1, <3>4 DEF LastBefore
      <4>2. CASE height = cur[1]
        <5>1. number[cur] = number[p] + 1 + cur[2]
          BY <3>1, <4>1, <4>2 DEF IInv, RoundsCounted
        <5> HIDE DEF cur, number, after, new
        <5> QED BY <1>4, <3>1, <3>2, <4>2, <5>1
      <4>3. CASE height > cur[1]
        <5>1. cur = p \/ Before(cur, p)
          BY <3>1, <4>1, <4>3 DEF LastBefore
        <5>2. p = cur \/ Before(p, cur)
          BY <3>1
        <5>3. p = cur
          BY <1>5, <3>1, <5>1, <5>2, BeforeOrder
        <5> HIDE DEF cur, number, after, new
        <5> QED BY <1>4, <3>1, <4>3, <5>3
      <4> QED BY <3>1, <4>2, <4>3
    <3>5. ASSUME NEW q \in Known(r)
          PROVE  ~ LastBefore(r, new, q[1])'
      BY <1>4, <3>1, <3>2 DEF LastBefore, Before
    <3>6. ~ LastBefore(r, new, height)'
      BY <1>4 DEF LastBefore
    <3>7. ASSUME NEW p \in Known(r), NEW q \in Known(r),
                 LastBefore(r, p, q[1])'
          PROVE  number[q] = number[p] + 1 + q[2]
      BY <1>1, <3>7 DEF IInv, RoundsCounted, LastBefore
    <3>8. \A q \in Known(r)' :
            /\ \A p \in Known(r)' :
                 p[1] = q[1] => after[q] - after[p] = q[2] - p[2]
            /\ \A p \in Known(r)' :
                 LastBefore(r, p, q[1])' => after[q] = after[p] + 1 + q[2]
      <4>1. ASSUME NEW p \in Known(r)', NEW q \in Known(r)', p[1] = q[1]
            PROVE  after[q] - after[p] = q[2] - p[2]
        <5>1. \A s \in Known(r) : s[1] = height =>
                 after[new] - number[s] = round - s[2]
          BY <3>3
        <5>2. \A s, t \in Known(r) : s[1] = t[1] =>
                 number[t] - number[s] = t[2] - s[2]
          BY DEF IInv, RoundsCounted
        <5>3. new[1] = height /\ new[2] = round /\ after[new] \in Nat
          BY <1>1
        <5> HIDE DEF number, after, new
        <5> QED BY <1>1, <1>4, <3>2, <4>1, <5>1, <5>2, <5>3
      <4>2. ASSUME NEW p \in Known(r)', NEW q \in Known(r)',
                   LastBefore(r, p, q[1])'
            PROVE  after[q] = after[p] + 1 + q[2]
        <5>1. p \in Known(r)
          BY <1>1, <3>5, <3>6, <4>2
        <5>2. CASE q = new
          BY <3>2, <3>4, <4>2, <5>1, <5>2
        <5>3. CASE q \in Known(r)
          BY <3>2, <3>7, <4>2, <5>1, <5>3
        <5> QED BY <1>1, <5>2, <5>3
      <4> QED BY <4>1, <4>2
    <3> QED BY <1>1, <1>3, <3>8 DEF IInv, RoundsCounted, LastBefore
  <2> QED BY <2>1, <2>2, <2>3
<1> QED
  BY <1>2, <1>6, <1>7, <1>8 DEF IInv

-----------------------------------------------------------------------------
\* The inductive invariant holds in every reachable state of the tracker.
THEOREM Invariance == Spec => []IInv
<1>1. Init => IInv
  BY InitIInv
<1>2. IInv /\ [Next]_vars => IInv'
  <2> SUFFICES ASSUME IInv, [Next]_vars PROVE IInv'
    OBVIOUS
  <2>1. ASSUME NEW r \in Replica, NEW height \in Height, NEW round \in Round,
               NewStep(r, height, round)
        PROVE  IInv'
    BY <2>1, StepIInv
  <2>2. CASE UNCHANGED vars
    <3>1. TypeOK'
      BY <2>2 DEF vars, IInv, TypeOK
    <3>2. CurrentIsLast'
      BY <2>2 DEF vars, IInv, CurrentIsLast, Current, Known
    <3>3. RoundsOrdered'
      BY <2>2 DEF vars, IInv, RoundsOrdered, Known
    <3>4. RoundsCounted'
      BY <2>2 DEF vars, IInv, RoundsCounted, LastBefore, Known
    <3> QED BY <3>1, <3>2, <3>3, <3>4 DEF IInv
  <2> QED BY <2>1, <2>2 DEF Next
<1> QED BY <1>1, <1>2, PTL DEF Spec

\* The tracker's context variables are always well formed.
THEOREM TypeCorrect == Spec => []TypeOK
<1>1. IInv => TypeOK
  BY DEF IInv
<1> QED BY <1>1, Invariance, PTL

\* A total round never stands for two positions of one replica, and total
\* rounds grow along the protocol, however many rounds a replica skips
\* (trackTotalRounds, roundTracking.go:55-61).
THEOREM Ordered == Spec => []RoundsOrdered
<1>1. IInv => RoundsOrdered
  BY DEF IInv
<1> QED BY <1>1, Invariance, PTL

\* The total round of a position is the exact count of the rounds up to it in
\* the heights the replica reported.
THEOREM Counted == Spec => []RoundsCounted
<1>1. IInv => RoundsCounted
  BY DEF IInv
<1> QED BY <1>1, Invariance, PTL

\* isMessageFromTotalRound and isMessageOfTotalRound select the same total
\* rounds for messages of the round the sender is in.
THEOREM Agree == Spec => []ConditionsAgree
<1>1. IInv => ConditionsAgree
  <2> SUFFICES ASSUME IInv, NEW r \in Replica, totalRounds[r] # Unset,
                      NEW k \in 0 .. totalRounds[r] + 1
               PROVE  SenderInTotalRound(r, k) <=>
                        MessageOfTotalRound(r, prevHeight[r], prevRound[r], k)
    BY DEF ConditionsAgree
  <2> QED BY DEF IInv, TypeOK, CurrentIsLast, Current, SenderInTotalRound,
                 MessageOfTotalRound, Position
<1> QED BY <1>1, Invariance, PTL

\* The number of a position, once stored, is never overwritten with another:
\* repeated newStep events of one round leave the count alone.
THEOREM Permanent == Spec => NeverRenumbered
<1>1. IInv /\ [Next]_vars =>
        [\A r \in Replica : \A p \in Known(r) :
           totalRoundForHeightRound'[r][p] = totalRoundForHeightRound[r][p]]_vars
  <2> SUFFICES ASSUME IInv, Next,
                      NEW s \in Replica, NEW p \in Known(s)
               PROVE  totalRoundForHeightRound'[s][p] =
                        totalRoundForHeightRound[s][p]
    OBVIOUS
  <2>1. PICK r \in Replica, height \in Height, round \in Round :
          NewStep(r, height, round)
    BY DEF Next
  <2> QED BY <2>1, StepEffect
<1> QED BY <1>1, Invariance, PTL DEF Spec, NeverRenumbered

\* The tracker implements the abstract numbering: a newStep event numbers a
\* later position with a larger number, or changes no number at all.
THEOREM Refinement == Spec => Numbering
<1>1. Init => RN!Init
  BY DEF Init, RN!Init, RN!Position, RN!Height, RN!Round, RN!Unset, Position,
         Height, Round, Unset
<1>2. IInv /\ [Next]_vars => [RN!Next]_totalRoundForHeightRound
  <2> SUFFICES ASSUME IInv, [Next]_vars
               PROVE  [RN!Next]_totalRoundForHeightRound
    OBVIOUS
  <2>1. ASSUME NEW r \in Replica, NEW height \in Height, NEW round \in Round,
               NewStep(r, height, round)
        PROVE  [RN!Next]_totalRoundForHeightRound
    <3> DEFINE new == <<height, round>>
    <3>1. /\ totalRoundForHeightRound'[r][new] = totalRounds'[r]
          /\ totalRounds'[r] \in Nat
          /\ \A q \in Known(r) :
               /\ totalRoundForHeightRound'[r][q] =
                    totalRoundForHeightRound[r][q]
               /\ \/ q = new
                  \/ /\ Before(q, new)
                     /\ totalRoundForHeightRound[r][q] < totalRounds'[r]
      BY <2>1, StepEffect
    <3>2. /\ new \in Position
          /\ totalRoundForHeightRound' =
               [totalRoundForHeightRound EXCEPT
                  ![r][new] = totalRoundForHeightRound'[r][new]]
      <4>1. totalRoundForHeightRound' =
              [totalRoundForHeightRound EXCEPT
                 ![r][new] = NewTotal(r, height, round)]
        BY <2>1 DEF NewStep, trackTotalRounds
      <4>2. totalRoundForHeightRound'[r][new] = NewTotal(r, height, round)
        BY <4>1 DEF IInv, TypeOK, Position
      <4> QED BY <4>1, <4>2 DEF Position
    <3>3. CASE new \in Known(r)
      <4>1. totalRoundForHeightRound' = totalRoundForHeightRound
        <5> DEFINE t == totalRoundForHeightRound
        <5>1. t \in [Replica -> [Position -> Nat \cup {Unset}]]
          BY DEF IInv, TypeOK
        <5>2. t' = [t EXCEPT ![r][new] = t[r][new]]
          BY <3>1, <3>2, <3>3
        <5> HIDE DEF t, new
        <5>3. [t EXCEPT ![r][new] = t[r][new]] = t
          BY <5>1
        <5> QED BY <5>2, <5>3 DEF t
      <4> QED BY <4>1
    <3>4. CASE new \notin Known(r)
      <4>1. RN!Known(r) = Known(r)
        BY DEF RN!Known, Known, RN!Position, RN!Height, RN!Round, RN!Unset,
               Position, Height, Round, Unset
      <4>2. \A q \in Known(r) : /\ RN!Before(q, new)
                                /\ totalRoundForHeightRound[r][q] <
                                     totalRoundForHeightRound'[r][new]
        BY <3>1, <3>4 DEF Before, RN!Before
      <4>3. RN!Reach(r, new)
        BY <3>1, <3>2, <4>1, <4>2 DEF RN!Reach
      <4> QED BY <3>2, <4>3
              DEF RN!Next, RN!Position, RN!Height, RN!Round, Position, Height,
                  Round
    <3> QED BY <3>3, <3>4
  <2>2. CASE UNCHANGED vars
    BY <2>2 DEF vars
  <2> QED BY <2>1, <2>2 DEF Next
<1> QED BY <1>1, <1>2, Invariance, PTL DEF Spec, Numbering, RN!Spec
=============================================================================
