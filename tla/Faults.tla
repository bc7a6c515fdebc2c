-------------------------------- MODULE Faults --------------------------------
(***************************************************************************)
(* The faults of a test instance and what they do to one message:          *)
(* byzzfuzz/instance.go (MessageDrop, MessageCorruption, the condition     *)
(* helpers), byzzfuzz/partition.go and byzzfuzz/corruption.go.             *)
(*                                                                         *)
(* A replica is its index: labelNodes and replicaIdx both number the       *)
(* replicas in the order of Replicas.Iter(), taken to be the same at every *)
(* call.  A message is a record of the fields the code looks at:           *)
(*   from, to   sender and receiver of this copy of the message            *)
(*   type       Proposal, Prevote, Precommit, Other, or Unparsed for a     *)
(*              message util.GetParsedMessage rejects                      *)
(*   height, round   round is -1 in messages of no round                   *)
(*   block      a block id, or NilBlock                                    *)
(*   author     the validator (or proposer) the message claims to be from; *)
(*              a node relays votes of others, so it may differ from from  *)
(*   signer     the replica whose key made the signature                   *)
(***************************************************************************)
EXTENDS Integers, Sequences

CONSTANTS Replica,     \* indices of the replicas
          Block,       \* block ids
          NilBlock     \* the id of no block

Type == {"Proposal", "Prevote", "Precommit", "Other", "Unparsed"}

\* Every message there can be; TLC runs use a finite subset.
Message == [from : Replica, to : Replica, type : Type, height : Int,
            round : Int, block : Block \cup {NilBlock},
            author : Replica, signer : Replica]

\* CorruptionType
Corruption == {"ChangeProposalToNil", "ChangeVoteToNil", "ChangeVoteRound",
               "Omit", "ChangeVoteRoundAnyScope", "ChangeBlockIdAnyScope"}

\* MessageDrop and MessageCorruption
MessageDrop == [step : Nat, partition : SUBSET SUBSET Replica]

MessageCorruption == [step : Nat, from : Replica, to : SUBSET Replica,
                      corruption : Corruption, seed : Nat]

\* A step is a message type of a total round: MessageType() and Round() of
\* MessageDrop and of MessageCorruption.
MessageType(step) == CASE step % 3 = 0 -> "Proposal"
                       [] step % 3 = 1 -> "Prevote"
                       [] step % 3 = 2 -> "Precommit"

RoundOf(step) == step \div 3

-----------------------------------------------------------------------------
\* partition.go: two nodes are isolated unless some part holds both.
isolates(p, a, b) == \A part \in p : ~ (a \in part /\ b \in part)

FromToIsolated(p, m) == isolates(p, m.from, m.to)

IsMessageToOneOf(to, m) == m.to \in to

-----------------------------------------------------------------------------
(***************************************************************************)
(* corruption.go.  An action answers with the messages to deliver.  All    *)
(* changes of a vote sign it anew with the key of the validator found in   *)
(* the vote, whichever node sent this copy.                                *)
(***************************************************************************)
IsVote(m) == m.type \in {"Prevote", "Precommit"}

\* The guards the vote actions share: anything but a vote is delivered as it is.
\* The validator of a vote is one of the replicas.
ChangeVote(m, changed) ==
  IF IsVote(m) THEN <<[changed EXCEPT !.signer = m.author]>> ELSE <<m>>

changeVoteToNil(m) == ChangeVote(m, [m EXCEPT !.block = NilBlock])

changeVoteRound(m) == ChangeVote(m, [m EXCEPT !.round = @ + 2])

changeVoteRoundAnyScope(seed, m) == ChangeVote(m, [m EXCEPT !.round = seed])

\* No block id was ever logged: the message is left alone.
changeBlockIdAnyScope(seed, blockids, m) ==
  IF blockids = <<>>
  THEN <<m>>
  ELSE ChangeVote(m, [m EXCEPT
                        !.block = blockids[(seed % Len(blockids)) + 1]])

\* Unlike the vote actions, this one loses a message that does not parse, and
\* signs with the key of the sender of this copy.
changeProposalToNil(m) ==
  IF m.type = "Unparsed" THEN <<>>
  ELSE IF m.type = "Proposal"
       THEN <<[m EXCEPT !.block = NilBlock, !.signer = m.from]>>
       ELSE <<m>>

omitMessage(m) == <<>>

\* MessageCorruption.Action
Action(c, blockids, m) ==
  CASE c.corruption = "ChangeProposalToNil"     -> changeProposalToNil(m)
    [] c.corruption = "ChangeVoteToNil"         -> changeVoteToNil(m)
    [] c.corruption = "ChangeVoteRound"         -> changeVoteRound(m)
    [] c.corruption = "Omit"                    -> omitMessage(m)
    [] c.corruption = "ChangeVoteRoundAnyScope" ->
         changeVoteRoundAnyScope(c.seed, m)
    [] c.corruption = "ChangeBlockIdAnyScope"   ->
         changeBlockIdAnyScope(c.seed, blockids, m)
=============================================================================
