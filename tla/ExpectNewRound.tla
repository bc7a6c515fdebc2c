---------------------------- MODULE ExpectNewRound ----------------------------
(***************************************************************************)
(* The reference test case without a plan (byzzfuzz/reference.go): replica *)
(* h is cut off from the votes of round 0 while the faulty one votes nil,  *)
(* so that h should move to round 1.  The handler of an event is one step: *)
(* the state machine tries the transitions of its state in order, then the *)
(* filters run, and nothing runs beside them.  Messages are votes of their *)
(* senders and proposals, at height 1.                                     *)
(***************************************************************************)
EXTENDS Integers, Sequences

CONSTANTS Replica, Block, NilBlock,
          F,           \* sp.F
          Messages,    \* the messages replicas may send, [from, to, type,
                       \* round, block]
          MaxReceived  \* bound on the round-1 messages h receives

h      == 0            \* the parts "h" and "faulty" of
faulty == 1            \* labelNodesExpectNewRound

VARIABLES label,
          round1ToH,   \* the counter
          firstBlock,  \* what DiffCommits remembers
          event, result,
          moved        \* history: h moved to round 1

vars == <<label, round1ToH, firstBlock, event, result, moved>>

NoEvent == [kind |-> "none"]

Init ==
  /\ label = "init" /\ round1ToH = 0 /\ firstBlock = NilBlock
  /\ event = NoEvent /\ result = <<>>
  /\ moved = FALSE

-----------------------------------------------------------------------------
MovesH(e)  == e.kind = "newRound" /\ e.replica = h /\ e.round = 1
Commits(e) == e.kind = "commit"

\* DiffCommits (external) compares with the first block it was asked about.
DiffCommits(e) == Commits(e) /\ firstBlock \notin {NilBlock, e.block}

\* Mutant of NextLabel: newRound is the state before h moved.
NextLabelTooEarly(e) ==
  CASE label = "init" ->
         IF MovesH(e) THEN "success"
         ELSE IF round1ToH >= F + 1 THEN "newRoundMessagesDelivered"
         ELSE IF Commits(e) THEN "fail"
         ELSE label
    [] label = "newRoundMessagesDelivered" ->
         IF MovesH(e) THEN "NewRound"
         ELSE IF Commits(e) THEN "success"
         ELSE label
    [] OTHER -> label

\* The first transition of the state whose condition holds.
NextLabel(e) ==
  CASE label = "init" ->
         IF MovesH(e) THEN "success"
         ELSE IF round1ToH >= F + 1 THEN "newRoundMessagesDelivered"
         ELSE IF Commits(e) THEN "fail"
         ELSE label
    [] label = "newRoundMessagesDelivered" /\ MovesH(e) -> "NewRound"
    [] label = "NewRound" ->
         IF DiffCommits(e) THEN "fail"
         ELSE IF Commits(e) THEN "success"
         ELSE label
    [] OTHER -> label

\* Mutant of Step: DiffCommits is asked in every state.
StepAsksAlways(e) ==
  /\ event' = e
  /\ label' = NextLabel(e)
  /\ firstBlock' = IF Commits(e) /\ firstBlock = NilBlock
                   THEN e.block ELSE firstBlock

\* The state machine on an event.
Step(e) ==
  /\ event' = e
  /\ label' = NextLabel(e)
  /\ firstBlock' = IF label = "NewRound" /\ Commits(e) /\ firstBlock = NilBlock
                   THEN e.block ELSE firstBlock

IsVote(m) == m.type \in {"Prevote", "Precommit"}

IsConsensus(m) == IsVote(m) \/ m.type = "Proposal"

\* Mutant of Dropped: votes of h are those to h.
DroppedToOnly(m) == IsVote(m) /\ m.round = 0 /\ m.to = h

\* The last two filters.
Dropped(m) == IsVote(m) /\ m.round = 0 /\ (m.to = h \/ m.from = h)

Answer(m) ==
  IF IsVote(m) /\ m.from = faulty THEN <<[m EXCEPT !.block = NilBlock]>>
  ELSE IF Dropped(m) THEN <<>>
  ELSE <<m>>

Send(m) ==
  /\ Step([kind |-> "send", message |-> m])
  /\ result' = Answer(m)
  /\ UNCHANGED <<round1ToH, moved>>

Receive(m) ==
  /\ Step([kind |-> "receive", message |-> m])
  /\ round1ToH' = IF m.round = 1 /\ m.to = h /\ IsConsensus(m)
                  THEN round1ToH + 1 ELSE round1ToH
  /\ round1ToH' <= MaxReceived
  /\ result' = <<>>
  /\ UNCHANGED moved

\* A replica reports a new round of height 1.
NewRound(r, round) ==
  /\ Step([kind |-> "newRound", replica |-> r, round |-> round])
  /\ moved' = (moved \/ MovesH(event'))
  /\ result' = <<>>
  /\ UNCHANGED round1ToH

Commit(b) ==
  /\ Step([kind |-> "commit", block |-> b])
  /\ result' = <<>>
  /\ UNCHANGED <<round1ToH, moved>>

Next ==
  \/ \E m \in Messages : Send(m) \/ Receive(m)
  \/ \E r \in Replica, round \in {0, 1} : NewRound(r, round)
  \/ \E b \in Block : Commit(b)

Spec == Init /\ [][Next]_vars

-----------------------------------------------------------------------------
(***************************************************************************)
(* Properties.                                                             *)
(***************************************************************************)

\* "We want replicas in partition h to move to round 1" (reference.go:15): the
\* test succeeds only after that, and it fails only before.  So the transition
\* on DiffCommits, which leads to failure after h moved (reference.go:27), is
\* never taken: whichever replicas commit which blocks, the first commit that
\* is compared already means success.
VerdictIsMove ==
  [][label' # label => /\ label' \in {"NewRound", "success"} => moved'
                       /\ label' = "fail" => ~ moved']_vars

\* In round 0 the faulty replica's nil votes are all that h hears of votes, and
\* no other replica hears one of h: the filter that changes votes comes first
\* and lets those of the faulty replica through.
RoundZeroIsolated ==
  event.kind = "send" /\ IsVote(event.message) /\ event.message.round = 0 =>
    \A k \in DOMAIN result :
      /\ h \in {result[k].from, result[k].to} => result[k].from = faulty
      /\ result[k].from = faulty => result[k].block = NilBlock
=============================================================================
