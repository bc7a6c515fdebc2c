--------------------------- MODULE RoundNumbering ---------------------------
(***************************************************************************)
(* What the round tracker promises, with the arithmetic left out: every    *)
(* replica walks forward through the positions <<height, round>> of the    *)
(* consensus protocol and each position the server hears of gets a number, *)
(* once, larger than the numbers of all the positions before it.  A fault  *)
(* plan may therefore name a round by its number.                          *)
(***************************************************************************)
EXTENDS Integers

CONSTANTS Replica,     \* the replicas of the cluster
          MaxHeight,   \* bound on the heights a behaviour reaches
          MaxRound     \* bound on the rounds of one height

Height   == 1 .. MaxHeight
Round    == 0 .. MaxRound
Position == Height \X Round

\* The lexicographic order in which the protocol visits positions.
Before(p, q) == p[1] < q[1] \/ (p[1] = q[1] /\ p[2] < q[2])

\* The value of a variable of the test context that was never set.
Unset == -1

VARIABLE number        \* number[r][p]: the number of position p at replica r

Known(r) == {p \in Position : number[r][p] # Unset}

Init == number = [r \in Replica |-> [p \in Position |-> Unset]]

\* Replica r reaches a position later than all the known ones, and the
\* position gets some number larger than all of theirs.
Reach(r, p) ==
  /\ number'[r][p] \in Nat
  /\ \A q \in Known(r) : Before(q, p) /\ number[r][q] < number'[r][p]
  /\ number' = [number EXCEPT ![r][p] = number'[r][p]]

Next == \E r \in Replica, p \in Position : Reach(r, p)

Spec == Init /\ [][Next]_number
=============================================================================
