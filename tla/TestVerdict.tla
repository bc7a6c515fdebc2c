----------------------------- MODULE TestVerdict -----------------------------
(***************************************************************************)
(* What a ByzzFuzz test case promises about its verdict, whatever it does  *)
(* to the messages: replicas report commits and the steps they are in, the *)
(* network heals at some moment, and the label of the state machine is     *)
(* settled by whichever comes first: a commit that disagrees with another  *)
(* one, a commit after the network healed, or a step of a height that ends *)
(* the test.  ByzzFuzzInst implements it.                                  *)
(***************************************************************************)
CONSTANTS Replica, Height, Block,
          Targets       \* the heights that end the test

VARIABLES committed,   \* the <<replica, height, block>> commits reported
          reported,    \* the height of the step being reported, 0 if none is
          healed, label

vars == <<committed, reported, healed, label>>

Commits == Replica \X Height \X Block

\* Two blocks were committed at one height, by one replica or by two.
Disagreement(commits) == \E c, d \in commits : c[2] = d[2] /\ c[3] # d[3]

Init == committed = {} /\ reported = 0 /\ healed = FALSE /\ label = "init"

Heal == ~ healed /\ healed' = TRUE /\ UNCHANGED <<committed, reported, label>>

Settled(commits) == IF Disagreement(commits) THEN "diff-commits"
                    ELSE IF healed THEN "success"
                    ELSE "init"

Commit(c) ==
  /\ committed' = committed \cup {c}
  /\ label' = IF label = "init" THEN Settled(committed') ELSE label
  /\ reported' = 0
  /\ UNCHANGED healed

Report(height) ==
  /\ reported' = height
  /\ label' = IF label = "init" /\ height \in Targets THEN "success" ELSE label
  /\ UNCHANGED <<committed, healed>>

\* The report is over, or something else is.
Quiet == reported' = 0 /\ UNCHANGED <<committed, healed, label>>

Next == \/ \E c \in Commits : Commit(c)
        \/ \E height \in Height : Report(height)
        \/ Heal
        \/ Quiet

Spec == Init /\ [][Next]_vars
=============================================================================
