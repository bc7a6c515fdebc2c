----------------------------- MODULE StepMonitors -----------------------------
(***************************************************************************)
(* The two monitors of the rule "a replica moves to a later round once     *)
(* enough others are in it" on the same events: the online one of          *)
(* RoundSkip and the offline one of SpecCheck.  Both are filters of one    *)
(* test case, called on every event in turn.                               *)
(***************************************************************************)
EXTENDS Integers, Sequences, FiniteSets

CONSTANTS Replica, Faults, MaxHeight, MaxRound, Capacity,
          Messages,    \* the messages replicas may receive
          MaxEvents    \* bound on the events that are logged

VARIABLES received, currentHeightRound, expectedSteps,
          phase, pending, ch, closed, file, specOk, handled

RS == INSTANCE RoundSkip
SC == INSTANCE SpecCheck WITH Node <- Replica, Faulty <- Faults

monitor == <<received, currentHeightRound, expectedSteps>>
check   == <<phase, pending, ch, closed, file, specOk, handled>>

vars == <<monitor, check>>

ASSUME MonitorsAssumption ==
  /\ IsFiniteSet(Replica)
  /\ MaxHeight \in Nat \ {0} /\ MaxRound \in Nat /\ Faults \in Nat
  /\ Capacity \in Nat \ {0} /\ MaxEvents \in Nat
  /\ Messages \subseteq [kind : {"vote", "other"}, from : Replica, to : Replica,
                        hr : RS!Height \X (RS!Round \cup {-1})]

Init == RS!Init /\ SC!Init

\* A "message receive" event: a vote, or another message of consensus.
Receive(m) ==
  /\ Len(handled) < MaxEvents
  /\ SC!Handle(m)
  /\ RS!TrackRoundsReceived(m.from, m.to, m.hr)

\* A newStep event; a replica reports its steps in order.
NewStep(r, hr) ==
  /\ Len(handled) < MaxEvents
  /\ hr = currentHeightRound[r] \/ RS!Later(hr, currentHeightRound[r])
  /\ SC!Handle([kind |-> "step", replica |-> r, hr |-> hr])
  /\ RS!TrackCurrentHeightRound(r, hr)

Next ==
  \/ \E m \in Messages : Receive(m)
  \/ \E r \in {m.to : m \in Messages}, hr \in RS!Position : NewStep(r, hr)
  \/ SC!Next /\ UNCHANGED monitor

Spec == Init /\ [][Next]_vars

-----------------------------------------------------------------------------
(***************************************************************************)
(* Properties.                                                             *)
(***************************************************************************)
Event ==
  [kind : {"vote", "other"}, from : Replica, to : Replica, hr : RS!Position]
    \cup [kind : {"step"}, replica : Replica, hr : RS!Position]

\* Every variable holds what the code may store in it; what is logged has a
\* round.
TypeOK ==
  /\ RS!TypeOK
  /\ phase \in {"running", "stopped", "draining", "checked", "dead"}
  /\ pending \in Event \cup {SC!NoEvent}
  /\ ch \in Seq(Event) /\ Len(ch) <= Capacity
  /\ file \in Seq(Event) /\ handled \in Seq(Event)
  /\ closed \in BOOLEAN /\ specOk \in BOOLEAN

\* The events that went through both monitors.
Seen == IF pending = SC!NoEvent THEN handled ELSE Append(handled, pending)

\* The offline check judges what happened: each event that got into the
\* channel before it was closed reaches spec.log, once and in order, and the
\* answer is that for all of them (check.go:10-40).
NothingLost ==
  /\ file \o ch = handled
  /\ phase = "checked" => file = handled

\* A step stays expected only while the replica has not reported it, however
\* messages of that round keep arriving, and Faults + 1 replicas sent one.
ExpectationsAreOpen ==
  \A r \in Replica : \A hr \in expectedSteps[r] :
    /\ hr \notin SC!find_actual_steps(Seen, r)
    /\ Cardinality(received[r][hr]) >= Faults + 1

\* A position above the height of the replica that the offline analysis would
\* report as missing is expected by the online monitor, which needs one
\* sender less and counts other messages, too.
MonitorsAgree ==
  \A r \in Replica : \A hr \in SC!MissingSteps(Seen, r) :
    hr[1] > currentHeightRound[r][1] => hr \in expectedSteps[r]

\* "Not interesting, we are already at that or a later round" (round.go:117):
\* a round that is later than the replica's is interesting, so with enough
\* senders it is expected.
LaterRoundExpected ==
  \A r \in Replica : \A hr \in RS!Position :
    /\ RS!Later(hr, currentHeightRound[r])
    /\ Cardinality(received[r][hr]) >= Faults + 1
    => hr \in expectedSteps[r]
=============================================================================
