------------------------------ MODULE SpecCheck ------------------------------
(***************************************************************************)
(* The offline check of a test: spec.Log (byzzfuzz/spec/log.go) puts the   *)
(* steps and the received votes into a bounded channel, spec.Check         *)
(* (byzzfuzz/spec/check.go) closes the channel after the test and moves    *)
(* its contents into spec.log, and analyse.py looks in that file for steps *)
(* that replicas should have taken and did not.                            *)
(*                                                                         *)
(* phase follows the goroutine that runs the test case: running, stopped   *)
(* when server.Start has returned, draining, checked; dead after a panic.  *)
(* The handler is a goroutine of the server, which is external and is not  *)
(* assumed to have finished its event when server.Start returns.           *)
(***************************************************************************)
EXTENDS Integers, Sequences, FiniteSets, Functions

CONSTANTS Node,        \* NODES of analyse.py, the replicas
          Faulty,      \* FAULTY of analyse.py
          Capacity     \* capacity of the channel

VARIABLES phase,
          pending,     \* the event the handler is sending
          ch, closed,  \* the channel
          file,        \* the lines of spec.log
          specOk,      \* the answer of Check
          handled      \* history: the events whose handler got past Log

vars == <<phase, pending, ch, closed, file, specOk, handled>>

NoEvent == [kind |-> "none"]

Init ==
  /\ phase = "running" /\ pending = NoEvent
  /\ ch = <<>> /\ closed = FALSE /\ file = <<>> /\ specOk = FALSE
  /\ handled = <<>>

-----------------------------------------------------------------------------
\* analyse.py

\* From whom the node received a vote of the position.
HeightRoundReceived(events, node, hr) ==
  {e.from : e \in {f \in Range(events) : /\ f.kind = "vote" /\ f.to = node
                                         /\ f.hr = hr}}

find_expected_steps(events, node) ==
  {hr \in {e.hr : e \in Range(events)} :
     Cardinality(HeightRoundReceived(events, node, hr)) > Faulty + 1}

find_actual_steps(events, node) ==
  {e.hr : e \in {f \in Range(events) : f.kind = "step" /\ f.replica = node}}

MissingSteps(events, node) ==
  find_expected_steps(events, node) \ find_actual_steps(events, node)

runAnalysis(events) == \A node \in Node : MissingSteps(events, node) = {}

-----------------------------------------------------------------------------
\* What spec.Log makes of an event: steps, and votes of some round received.
Logged(e) == e.kind = "step" \/ (e.kind = "vote" /\ e.hr[2] >= 0)

\* The filter is called on an event.
Handle(e) ==
  /\ phase = "running" /\ pending = NoEvent
  /\ pending' = IF Logged(e) THEN e ELSE NoEvent
  /\ UNCHANGED <<phase, ch, closed, file, specOk, handled>>

\* The send waits for room.
Send ==
  /\ pending # NoEvent /\ ~ closed /\ Len(ch) < Capacity
  /\ phase # "dead"
  /\ ch' = Append(ch, pending) /\ handled' = Append(handled, pending)
  /\ pending' = NoEvent
  /\ UNCHANGED <<phase, closed, file, specOk>>

\* A send on a closed channel panics, and with it the program.
SendOnClosed ==
  /\ pending # NoEvent /\ closed
  /\ phase # "dead" /\ phase' = "dead"
  /\ UNCHANGED <<pending, ch, closed, file, specOk, handled>>

\* The test is over, or times out while the handler waits.
Stop ==
  /\ phase = "running" /\ phase' = "stopped"
  /\ UNCHANGED <<pending, ch, closed, file, specOk, handled>>

\* Mutant of Close: spec.log is opened for appending.
CloseAppends ==
  /\ phase = "stopped" /\ phase' = "draining"
  /\ closed' = TRUE
  /\ UNCHANGED <<pending, ch, file, specOk, handled>>

\* Check closes the channel first, and empties spec.log.
Close ==
  /\ phase = "stopped" /\ phase' = "draining"
  /\ closed' = TRUE /\ file' = <<>>
  /\ UNCHANGED <<pending, ch, specOk, handled>>

\* Mutant of Drained: a counter is compared with the shrinking length.
DrainedByCount == Len(file) >= Len(ch)

\* The end of the loop of Check.
Drained == ch = <<>>

Drain ==
  /\ phase = "draining" /\ ~ Drained
  /\ file' = Append(file, Head(ch)) /\ ch' = Tail(ch)
  /\ UNCHANGED <<phase, pending, closed, specOk, handled>>

Analyse ==
  /\ phase = "draining" /\ Drained
  /\ specOk' = runAnalysis(file) /\ phase' = "checked"
  /\ UNCHANGED <<pending, ch, closed, file, handled>>

Next == Send \/ SendOnClosed \/ Stop \/ Close \/ Drain \/ Analyse
=============================================================================
