------------------------------ MODULE FuzzConfig ------------------------------
(***************************************************************************)
(* Where plans of faults come from: ByzzFuzzRandom (byzzfuzz/byzzfuzz.go), *)
(* which draws them for "fuzz"; random_config of orchestrate.py, which     *)
(* draws them for "run-instance" in one of two scopes; and the predefined  *)
(* ones (byzzfuzz/bugs.go).  A plan is drawn one fault at a time; random   *)
(* numbers are choices.  The nodes are 0 .. 3.                             *)
(***************************************************************************)
EXTENDS Integers, Sequences, FiniteSets, Functions

CONSTANTS Steps,        \* values of the parameter steps (MAX_STEPS)
          MaxFaults,    \* bound on nDrops + nCorruptions
          Block, NilBlock

Node == 0 .. 3

F == INSTANCE Faults WITH Replica <- Node

VARIABLES source,        \* who makes the plan
          steps, nDrops, nCorruptions,
          byzantineNode, drops, corruptions,
          pc             \* "drops", "node", "corruptions", "done", "panicked"

vars == <<source, steps, nDrops, nCorruptions, byzantineNode, drops,
          corruptions, pc>>

-----------------------------------------------------------------------------
\* allPartitions, and ALL_PARTITIONS of data.py
allPartitions ==
  {{{0, 1}, {2, 3}}, {{0, 2}, {1, 3}}, {{0, 3}, {1, 2}},
   {{0}, {1, 2, 3}}, {{1}, {0, 2, 3}}, {{2}, {0, 1, 3}}, {{3}, {0, 1, 2}},
   {{0}, {1}, {2, 3}}, {{0}, {2}, {1, 3}}, {{0}, {3}, {1, 2}},
   {{1}, {2}, {0, 3}}, {{1}, {3}, {0, 2}}, {{2}, {3}, {0, 1}},
   {{0}, {1}, {2}, {3}}}

RandomPartition == allPartitions

\* ProposalCorruptionTypes and ALL_PROPOSAL_CORRUPTION_TYPES(_ANY_SCOPE)
ProposalCorruptionTypes ==
  IF source = "any" THEN {"ChangeBlockIdAnyScope", "Omit"}
  ELSE {"ChangeProposalToNil", "Omit"}

\* VoteCorruptionTypes and ALL_VOTE_CORRUPTION_TYPES(_ANY_SCOPE)
VoteCorruptionTypes ==
  IF source = "any" THEN {"ChangeVoteRoundAnyScope", "Omit"}
  ELSE {"ChangeVoteToNil", "ChangeVoteRound", "Omit"}

\* Mutant of randomCorruption: rounds are taken to begin with prevotes.
CorruptionOffByOne(step) ==
  IF (step + 1) % 3 = 0 THEN ProposalCorruptionTypes ELSE VoteCorruptionTypes

randomCorruption(step) ==
  IF step % 3 = 0 THEN ProposalCorruptionTypes ELSE VoteCorruptionTypes

\* Mutant of FreeDrops: steps are drawn independently.
AnyStepDrops == [step : 0 .. steps - 1, partition : RandomPartition]

\* A drop that may come next.  ByzzFuzzRandom takes the steps from a
\* permutation, random.sample only avoids the same drop.
FreeDrops ==
  {d \in [step : 0 .. steps - 1, partition : RandomPartition] :
     IF source = "fuzz" THEN \A e \in Range(drops) : e.step # d.step
     ELSE d \notin Range(drops)}

\* Mutant of Receivers: nodes are numbered from one.
ReceiversFromOne == {to \in SUBSET (1 .. 4) : to # {}}

\* randomNonEmptySubset takes 1 .. n - 1 elements; ALL_SUBSETS has all four,
\* too.
Receivers ==
  {to \in SUBSET Node : to # {} /\ (source = "fuzz" => to # Node)}

-----------------------------------------------------------------------------
\* Plans in the source.
Drop(step, partition) == [step |-> step, partition |-> partition]

\* The seed does not matter here.
Corrupt(step, from, to, corruption) ==
  [step |-> step, from |-> from, to |-> to, corruption |-> corruption,
   seed |-> 0]

\* The drops of ByzzFuzzExpectNewRound, and its corruptions: prevotes and
\* precommits of five rounds.
ExpectNewRoundDrops == [k \in 1 .. 2 |-> Drop(k, {{0}, {1, 2, 3}})]

ExpectNewRoundCorruptions ==
  [k \in 1 .. 10 |->
     Corrupt(3 * ((k - 1) \div 2) + 1 + ((k - 1) % 2), 1, Node,
             "ChangeVoteToNil")]

Plan(name) ==
  CASE name = "Bug001" -> <<Drop(1, {{1}, {3}, {0, 2}}),
                            Drop(6, {{0, 2}, {1, 3}})>>
    [] name = "Bug002" -> <<Drop(6, {{0}, {3}, {1, 2}}),
                            Drop(2, {{0}, {2}, {1, 3}})>>
    [] name = "Bug003" -> <<Drop(8, {{0, 2}, {1, 3}}),
                            Drop(0, {{0}, {1, 2, 3}})>>
    [] name = "Lagging" -> [k \in 1 .. 3 |->
                              Drop(3 * k - 1, {{3}, {0, 1, 2}})]
    [] name = "ExpectNewRound" -> ExpectNewRoundDrops

Predefined == {"Bug001", "Bug002", "Bug003", "Lagging", "ExpectNewRound"}

PlanCorruptions(name) ==
  IF name = "ExpectNewRound" THEN ExpectNewRoundCorruptions ELSE <<>>

Generator == {"fuzz", "small", "any"}

Init ==
  /\ steps \in Steps
  /\ nDrops \in 0 .. MaxFaults /\ nCorruptions \in 0 .. MaxFaults - nDrops
  /\ byzantineNode = 0
  /\ \/ /\ source \in Generator
        /\ drops = <<>> /\ corruptions = <<>> /\ pc = "drops"
     \/ /\ source \in Predefined
        /\ drops = Plan(source) /\ corruptions = PlanCorruptions(source)
        /\ pc = "done"

-----------------------------------------------------------------------------
DrawDrop ==
  /\ pc = "drops" /\ Len(drops) < nDrops
  /\ \E d \in FreeDrops : drops' = Append(drops, d)
  /\ UNCHANGED <<source, steps, nDrops, nCorruptions, byzantineNode,
                 corruptions, pc>>

\* More drops than steps index past the end of the permutation.
OutOfSteps ==
  /\ pc = "drops" /\ Len(drops) < nDrops /\ FreeDrops = {}
  /\ pc' = "panicked"
  /\ UNCHANGED <<source, steps, nDrops, nCorruptions, byzantineNode, drops,
                 corruptions>>

\* The drops put in an order that sorts them by step.
SortsByStep(order) ==
  \A i, j \in DOMAIN drops :
    i < j => drops[order[i]].step <= drops[order[j]].step

\* random_config sorts its drops, those of one step by their partitions, whose
\* order is left open here.
DropsDone ==
  /\ pc = "drops" /\ Len(drops) = nDrops
  /\ \/ source = "fuzz" /\ UNCHANGED drops
     \/ /\ source # "fuzz"
        /\ \E order \in Bijection(DOMAIN drops, DOMAIN drops) :
             /\ SortsByStep(order)
             /\ drops' = [k \in DOMAIN drops |-> drops[order[k]]]
  /\ pc' = "node"
  /\ UNCHANGED <<source, steps, nDrops, nCorruptions, byzantineNode,
                 corruptions>>

\* "Faulty node is fixed throughout execution"
DrawNode ==
  /\ pc = "node" /\ pc' = "corruptions"
  /\ byzantineNode' \in Node
  /\ UNCHANGED <<source, steps, nDrops, nCorruptions, drops, corruptions>>

DrawCorruption ==
  /\ pc = "corruptions" /\ Len(corruptions) < nCorruptions
  /\ \E step \in 0 .. steps - 1 :
       \E to \in Receivers, corruption \in randomCorruption(step) :
         corruptions' = Append(corruptions,
                          Corrupt(step, byzantineNode, to, corruption))
  /\ UNCHANGED <<source, steps, nDrops, nCorruptions, byzantineNode, drops,
                 pc>>

PlanDone ==
  /\ pc = "corruptions" /\ Len(corruptions) = nCorruptions
  /\ pc' = "done"
  /\ UNCHANGED <<source, steps, nDrops, nCorruptions, byzantineNode, drops,
                 corruptions>>

Next == \/ DrawDrop \/ OutOfSteps \/ DropsDone \/ DrawNode \/ DrawCorruption
        \/ PlanDone

Spec == Init /\ [][Next]_vars

-----------------------------------------------------------------------------
(***************************************************************************)
(* Properties.                                                             *)
(***************************************************************************)

\* The plan is one that a test case can run: faults name nodes that exist, and
\* each drop splits the four nodes into parts, at least two, so that it cuts off
\* somebody (partition.go:14), with nobody in two parts or none.
PlanFits ==
  /\ source \in Generator \cup Predefined
  /\ Range(drops) \subseteq F!MessageDrop
  /\ \A d \in Range(drops) :
       /\ \A a \in Node : \E p \in d.partition :
            a \in p /\ \A q \in d.partition \ {p} : a \notin q
       /\ \E a, b \in Node : F!isolates(d.partition, a, b)
  /\ Range(corruptions) \subseteq F!MessageCorruption
  /\ pc \in {"drops", "node", "corruptions", "done", "panicked"}

\* "Use a random permutation to avoid two drops for the same step"
\* (byzzfuzz.go:89): a drawn or predefined plan of the Go code isolates nodes
\* once in a step; and it runs out of steps only when asked for more drops than
\* there are steps.
OneDropPerStep ==
  /\ source \notin {"small", "any"} =>
       \A i, j \in DOMAIN drops : drops[i].step = drops[j].step => i = j
  /\ pc = "panicked" => nDrops > steps

\* A planned corruption changes the messages it is planned for: the type drawn
\* for a step acts on the message type of the step, and its action does not give
\* back what it got.
CorruptionsAct ==
  \A c \in Range(corruptions) : \A b \in Block :
    LET m == [from |-> c.from, to |-> c.from, type |-> F!MessageType(c.step),
              height |-> 1, round |-> F!RoundOf(c.step) + c.seed + 1,
              block |-> b, author |-> c.from, signer |-> c.from]
    IN F!Action(c, <<NilBlock>>, m) # <<m>>

\* The same of the plans that are not of the any-scope generator.
SmallScopeCorruptionsAct == source # "any" => CorruptionsAct
=============================================================================
