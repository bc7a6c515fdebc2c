------------------------- MODULE StepMonitors_proofs -------------------------
(***************************************************************************)
(* Proofs about StepMonitors, for every set of replicas, every set of      *)
(* messages and every size of the channel: what the offline check reads is *)
(* what happened, and what it and the online monitor say fits together.    *)
(***************************************************************************)
EXTENDS StepMonitors, LogSequences, FiniteSetTheorems, TLAPS

\* The set of events that went through both monitors.
Reported == {Seen[k] : k \in DOMAIN Seen}

\* File and channel hold what was handled.
LogFits ==
  /\ phase \in {"running", "stopped"} => file = <<>> /\ ~ closed
  /\ phase \in {"draining", "checked"} => closed
  /\ phase = "checked" => ch = <<>>
  /\ file \o ch = handled

\* No replica reported a step beyond the position that is stored for it.
StepsAreReached ==
  \A e \in Reported : e.kind = "step" =>
    \/ currentHeightRound[e.replica] = e.hr
    \/ RS!Later(currentHeightRound[e.replica], e.hr)

\* The online monitor counts the votes that are logged, but for the first round.
VotesCounted ==
  \A e \in Reported : e.kind = "vote" /\ e.hr # <<1, 0>> =>
    e.from \in received[e.to][e.hr]

\* Enough senders of a position of a later height make it expected.
EnoughIsExpected ==
  \A r \in Replica : \A hr \in RS!Position :
    /\ hr[1] > currentHeightRound[r][1]
    /\ Cardinality(received[r][hr]) >= Faults + 1
    => hr \in expectedSteps[r]

\* ExpectationsAreOpen, in terms of the events.
OpenSteps ==
  \A r \in Replica : \A hr \in expectedSteps[r] :
    /\ \A e \in Reported : ~ (e.kind = "step" /\ e.replica = r /\ e.hr = hr)
    /\ Cardinality(received[r][hr]) >= Faults + 1

\* The invariant: kept by every step, and enough for the properties.
IInv == /\ TypeOK /\ LogFits
        /\ StepsAreReached /\ VotesCounted /\ EnoughIsExpected /\ OpenSteps

-----------------------------------------------------------------------------
LEMMA NoEventIsNone == SC!NoEvent \notin Event
BY DEF SC!NoEvent, Event

LEMMA SeenType ==
  ASSUME TypeOK
  PROVE  Seen \in Seq(Event) /\ Reported \subseteq Event
<1>1. Seen \in Seq(Event)
  BY AppendProperties DEF Seen, TypeOK
<1> QED
  BY <1>1, ElementOfSeq, LenProperties DEF Reported

\* An event is handled when nothing is pending: it is added to what was seen, if
\* it is logged.
LEMMA HandleEffect ==
  ASSUME TypeOK, NEW e, SC!Handle(e), SC!Logged(e) => e \in Event
  PROVE  /\ Reported' = IF SC!Logged(e) THEN Reported \cup {e} ELSE Reported
         /\ pending' \in Event \cup {SC!NoEvent}
         /\ UNCHANGED <<phase, ch, closed, file, specOk, handled>>
<1>1. Seen = handled /\ handled' = handled
      /\ UNCHANGED <<phase, ch, closed, file, specOk>>
  BY DEF SC!Handle, Seen
<1>2. CASE SC!Logged(e)
  <2>1. pending' = e /\ e \in Event /\ e # SC!NoEvent
    BY <1>2, NoEventIsNone DEF SC!Handle
  <2>2. Seen' = Append(handled, e)
    BY <1>1, <2>1 DEF Seen, SC!NoEvent
  <2>3. handled \in Seq(Event)
    BY DEF TypeOK
  <2>4. /\ DOMAIN Seen' = 1 .. Len(handled) + 1
        /\ DOMAIN Seen = 1 .. Len(handled) /\ Len(handled) \in Nat
        /\ \A k \in 1 .. Len(handled) : Seen'[k] = Seen[k]
        /\ Seen'[Len(handled) + 1] = e
    BY <1>1, <2>1, <2>2, <2>3, AppendProperties, LenProperties
  <2>5. Reported' = Reported \cup {e}
    BY <2>4 DEF Reported
  <2> QED
    BY <1>1, <1>2, <2>1, <2>5
<1>3. CASE ~ SC!Logged(e)
  <2>1. pending' = SC!NoEvent
    BY <1>3 DEF SC!Handle
  <2>2. Seen' = Seen
    BY <1>1, <2>1 DEF Seen, SC!NoEvent
  <2> QED
    BY <1>1, <1>3, <2>1, <2>2 DEF Reported
<1> QED
  BY <1>2, <1>3

\* The check adds nothing to what was seen.
LEMMA CheckEffect ==
  ASSUME TypeOK, LogFits, SC!Next
  PROVE  /\ Seen' = Seen /\ LogFits'
         /\ ch' \in Seq(Event) /\ Len(ch') <= Capacity
         /\ file' \in Seq(Event) /\ handled' \in Seq(Event)
         /\ pending' \in Event \cup {SC!NoEvent}
         /\ phase' \in {"running", "stopped", "draining", "checked", "dead"}
         /\ closed' \in BOOLEAN /\ specOk' \in BOOLEAN
<1> USE DEF SC!NoEvent
<1>0. /\ ch \in Seq(Event) /\ Len(ch) <= Capacity /\ file \in Seq(Event)
      /\ handled \in Seq(Event) /\ pending \in Event \cup {SC!NoEvent}
      /\ phase \in {"running", "stopped", "draining", "checked", "dead"}
      /\ closed \in BOOLEAN /\ specOk \in BOOLEAN
  BY DEF TypeOK
<1>1. CASE SC!Send
  <2>1. pending \in Event /\ ch' = Append(ch, pending)
        /\ handled' = Append(handled, pending) /\ pending' = SC!NoEvent
        /\ UNCHANGED <<phase, closed, file, specOk>> /\ Len(ch) < Capacity
        /\ ~ closed /\ pending # SC!NoEvent
    BY <1>0, <1>1 DEF SC!Send
  <2>2. ch' \in Seq(Event) /\ handled' \in Seq(Event)
        /\ Len(ch') = Len(ch) + 1
    BY <1>0, <2>1, AppendProperties
  <2>3. file' \o ch' = handled'
    BY <1>0, <2>1, SendKeeps DEF LogFits
  <2>4. Len(ch') <= Capacity
    BY <1>0, <2>1, <2>2, LenProperties, MonitorsAssumption
  <2>5. LogFits'
    BY <2>1, <2>3 DEF LogFits
  <2>6. Seen' = Seen
    BY <2>1 DEF Seen
  <2> QED
    BY <1>0, <2>1, <2>2, <2>4, <2>5, <2>6
<1>2. CASE SC!SendOnClosed
  BY <1>0, <1>2 DEF SC!SendOnClosed, Seen, LogFits
<1>3. CASE SC!Stop
  BY <1>0, <1>3 DEF SC!Stop, Seen, LogFits
<1>4. CASE SC!Close
  <2>1. file = <<>> /\ file' = <<>> /\ phase' = "draining" /\ closed'
        /\ UNCHANGED <<pending, ch, specOk, handled>>
    BY <1>4 DEF SC!Close, LogFits
  <2> QED
    BY <1>0, <2>1 DEF Seen, LogFits
<1>5. CASE SC!Drain
  <2>1. ch # <<>> /\ file' = Append(file, Head(ch)) /\ ch' = Tail(ch)
        /\ phase = "draining"
        /\ UNCHANGED <<phase, pending, closed, specOk, handled>>
    BY <1>5 DEF SC!Drain, SC!Drained
  <2>2. file' \o ch' = file \o ch /\ file' \in Seq(Event) /\ ch' \in Seq(Event)
        /\ Len(ch') = Len(ch) - 1
    BY <1>0, <2>1, DrainKeeps
  <2>3. Len(ch') <= Capacity
    BY <1>0, <2>2, LenProperties, MonitorsAssumption
  <2> QED
    BY <1>0, <2>1, <2>2, <2>3 DEF Seen, LogFits
<1>6. CASE SC!Analyse
  <2>1. SC!runAnalysis(file) \in BOOLEAN
    BY DEF SC!runAnalysis
  <2> QED
    BY <1>0, <1>6, <2>1 DEF SC!Analyse, SC!Drained, Seen, LogFits
<1> QED
  BY <1>1, <1>2, <1>3, <1>4, <1>5, <1>6 DEF SC!Next

-----------------------------------------------------------------------------
\* The monitors count with the Cardinality of FiniteSets.
LEMMA SameCardinality ==
  \A S : RS!Cardinality(S) = Cardinality(S) /\ SC!Cardinality(S) = Cardinality(S)
<1> QED
  BY DEF RS!Cardinality, SC!Cardinality, Cardinality, RS!IsFiniteSet,
         SC!IsFiniteSet, IsFiniteSet

LEMMA InitIInv == Init => IInv
<1> SUFFICES ASSUME Init PROVE IInv
  OBVIOUS
<1>1. /\ pending = SC!NoEvent /\ ch = <<>> /\ file = <<>> /\ handled = <<>>
      /\ phase = "running" /\ closed = FALSE /\ specOk = FALSE
      /\ received = [r \in Replica |-> [p \in RS!Position |-> {}]]
      /\ currentHeightRound = [r \in Replica |-> <<1, 0>>]
      /\ expectedSteps = [r \in Replica |-> {}]
  BY DEF Init, SC!Init, RS!Init
<1>2. <<>> \in Seq(Event) /\ Len(<<>>) = 0 /\ <<>> \o <<>> = <<>>
  BY EmptySeq, ConcatEmptySeq
<1>3. <<1, 0>> \in RS!Position
  BY MonitorsAssumption DEF RS!Position, RS!Height, RS!Round
<1>4. TypeOK
  <2>1. RS!TypeOK
    BY <1>1, <1>3 DEF RS!TypeOK
  <2>2. Len(ch) <= Capacity
    BY <1>1, <1>2, MonitorsAssumption
  <2> QED
    BY <1>1, <1>2, <2>1, <2>2 DEF TypeOK
<1>5. LogFits
  BY <1>1, <1>2 DEF LogFits
<1>6. Reported = {}
  BY <1>1, <1>2, LenProperties DEF Reported, Seen
<1>7. EnoughIsExpected
  <2>1. \A r \in Replica, hr \in RS!Position :
          Cardinality(received[r][hr]) = 0
    BY <1>1, FS_EmptySet
  <2> QED
    BY <2>1, MonitorsAssumption DEF EnoughIsExpected
<1>8. OpenSteps
  BY <1>1 DEF OpenSteps
<1> QED
  BY <1>4, <1>5, <1>6, <1>7, <1>8 DEF IInv, StepsAreReached, VotesCounted

\* What a received message changes in the monitor: its position gets a sender,
\* and the position is expected if it is of a later height and has enough.
LEMMA ReceiveEffect ==
  ASSUME IInv, NEW m \in Messages, Receive(m)
  PROVE  /\ RS!TypeOK' /\ currentHeightRound' = currentHeightRound
         /\ \A r \in Replica : \A hr \in RS!Position :
              /\ received[r][hr] \subseteq received'[r][hr]
              /\ received'[r][hr] # received[r][hr]
                   => r = m.to /\ hr = m.hr
         /\ ~ RS!Ignored(m.hr) => m.hr \in RS!Position
                                 /\ m.from \in received'[m.to][m.hr]
         /\ \A r \in Replica : \A hr \in expectedSteps'[r] :
              \/ hr \in expectedSteps[r]
              \/ /\ hr[1] > currentHeightRound[r][1]
                 /\ Cardinality(received'[r][hr]) >= Faults + 1
         /\ EnoughIsExpected'
<1>1. m.to \in Replica /\ m.from \in Replica
      /\ m.hr \in RS!Height \X (RS!Round \cup {-1})
  BY MonitorsAssumption
<1>2. /\ received \in [Replica -> [RS!Position -> SUBSET Replica]]
      /\ currentHeightRound \in [Replica -> RS!Position]
      /\ expectedSteps \in [Replica -> SUBSET RS!Position]
  BY DEF IInv, TypeOK, RS!TypeOK
<1>3. RS!TrackRoundsReceived(m.from, m.to, m.hr)
  BY DEF Receive
<1>4. CASE RS!Ignored(m.hr)
  <2>1. UNCHANGED <<received, currentHeightRound, expectedSteps>>
    BY <1>3, <1>4 DEF RS!TrackRoundsReceived
  <2> QED
    BY <1>2, <1>4, <2>1 DEF RS!TypeOK, IInv, EnoughIsExpected
<1>5. CASE ~ RS!Ignored(m.hr)
  <2>1. m.hr \in RS!Position
    BY <1>1, <1>5, MonitorsAssumption
    DEF RS!Ignored, RS!Position, RS!Height, RS!Round
  <2> DEFINE enough == ~ RS!NotInteresting(m.to, m.hr)
                         /\ Cardinality(received'[m.to][m.hr]) >= Faults + 1
  <2>2. /\ currentHeightRound' = currentHeightRound
        /\ received' = [received EXCEPT ![m.to][m.hr] =
                          received[m.to][m.hr] \cup {m.from}]
        /\ expectedSteps' = IF enough
                            THEN [expectedSteps EXCEPT ![m.to] = @ \cup {m.hr}]
                            ELSE expectedSteps
    <3>1. /\ currentHeightRound' = currentHeightRound
          /\ received' = [received EXCEPT ![m.to][m.hr] =
                            RS!Senders(m.to, m.hr, m.from)]
          /\ expectedSteps' =
               IF enough THEN [expectedSteps EXCEPT ![m.to] = @ \cup {m.hr}]
               ELSE expectedSteps
      <4>1. /\ currentHeightRound' = currentHeightRound
            /\ received' = [received EXCEPT ![m.to][m.hr] =
                              RS!Senders(m.to, m.hr, m.from)]
        BY <1>3, <1>5 DEF RS!TrackRoundsReceived
      <4>2. CASE enough
        BY <1>3, <1>5, <4>1, <4>2, SameCardinality DEF RS!TrackRoundsReceived
      <4>3. CASE ~ enough
        BY <1>3, <1>5, <4>1, <4>3, SameCardinality DEF RS!TrackRoundsReceived
      <4> QED
        BY <4>1, <4>2, <4>3
    <3>2. RS!Senders(m.to, m.hr, m.from) = received[m.to][m.hr] \cup {m.from}
      BY DEF RS!Senders
    <3> HIDE DEF enough
    <3> QED
      BY <1>1, <1>2, <2>1, <3>1, <3>2
  <2>3. \A r \in Replica : \A hr \in RS!Position :
          received'[r][hr] = IF r = m.to /\ hr = m.hr
                             THEN received[r][hr] \cup {m.from}
                             ELSE received[r][hr]
    BY <1>1, <1>2, <2>1, <2>2
  <2>4. received' \in [Replica -> [RS!Position -> SUBSET Replica]]
    BY <1>1, <1>2, <2>1, <2>2
  <2>5. enough <=> /\ m.hr[1] > currentHeightRound[m.to][1]
                   /\ Cardinality(received'[m.to][m.hr]) >= Faults + 1
    <3>1. currentHeightRound[m.to] \in RS!Position
      BY <1>1, <1>2
    <3> QED
      BY <2>1, <3>1, MonitorsAssumption
      DEF RS!NotInteresting, RS!Position, RS!Height, RS!Round
  <2> HIDE DEF enough
  <2>6. expectedSteps' \in [Replica -> SUBSET RS!Position]
    BY <1>1, <1>2, <2>1, <2>2
  <2>7. \A r \in Replica : expectedSteps'[r] =
          IF r = m.to /\ enough THEN expectedSteps[r] \cup {m.hr}
          ELSE expectedSteps[r]
    BY <1>1, <1>2, <2>2
  <2>8. EnoughIsExpected'
    <3> SUFFICES ASSUME NEW r \in Replica, NEW hr \in RS!Position,
                        hr[1] > currentHeightRound[r][1],
                        Cardinality(received'[r][hr]) >= Faults + 1
                 PROVE  hr \in expectedSteps'[r]
      BY <2>2 DEF EnoughIsExpected
    <3>1. CASE r = m.to /\ hr = m.hr
      BY <2>5, <2>7, <3>1
    <3>2. CASE ~ (r = m.to /\ hr = m.hr)
      <4>1. received'[r][hr] = received[r][hr]
        BY <2>3, <3>2
      <4>2. hr \in expectedSteps[r]
        BY <4>1 DEF IInv, EnoughIsExpected
      <4> QED
        BY <2>7, <4>2
    <3> QED
      BY <3>1, <3>2
  <2>9. RS!TypeOK'
    BY <1>2, <2>2, <2>4, <2>6 DEF RS!TypeOK
  <2>10. \A r \in Replica : \A hr \in RS!Position :
           /\ received[r][hr] \subseteq received'[r][hr]
           /\ received'[r][hr] # received[r][hr] => r = m.to /\ hr = m.hr
    BY <2>3
  <2>11. m.from \in received'[m.to][m.hr]
    BY <1>1, <2>1, <2>3
  <2>12. \A r \in Replica : \A hr \in expectedSteps'[r] :
           \/ hr \in expectedSteps[r]
           \/ /\ hr[1] > currentHeightRound[r][1]
              /\ Cardinality(received'[r][hr]) >= Faults + 1
    BY <2>5, <2>7
  <2> QED
    BY <2>1, <2>2, <2>8, <2>9, <2>10, <2>11, <2>12
<1> QED
  BY <1>4, <1>5

\* More senders stay enough senders.
LEMMA MoreSenders ==
  ASSUME NEW S \in SUBSET Replica, NEW T, S \subseteq T, T \subseteq Replica,
         Cardinality(S) >= Faults + 1
  PROVE  Cardinality(T) >= Faults + 1
<1>1. IsFiniteSet(T)
  BY MonitorsAssumption, FS_Subset
<1>2. Cardinality(S) <= Cardinality(T) /\ Cardinality(S) \in Nat
      /\ Cardinality(T) \in Nat
  BY <1>1, FS_Subset, FS_CardinalityType
<1> QED
  BY <1>2, MonitorsAssumption

LEMMA ReceiveStep ==
  ASSUME IInv, NEW m \in Messages, Receive(m)
  PROVE  IInv'
<1>2. SC!Logged(m) => m \in Event
  <2> SUFFICES ASSUME SC!Logged(m) PROVE m \in Event
    OBVIOUS
  <2>1. m \in [kind : {"vote", "other"}, from : Replica, to : Replica,
               hr : RS!Height \X (RS!Round \cup {-1})]
    BY MonitorsAssumption
  <2>2. m.hr \in RS!Position
    BY <2>1, MonitorsAssumption
    DEF SC!Logged, RS!Position, RS!Height, RS!Round
  <2> QED
    BY <2>1, <2>2 DEF Event
<1>3. SC!Handle(m)
  BY DEF Receive
<1>4. /\ Reported' = IF SC!Logged(m) THEN Reported \cup {m} ELSE Reported
      /\ pending' \in Event \cup {SC!NoEvent}
      /\ UNCHANGED <<phase, ch, closed, file, specOk, handled>>
  BY <1>2, <1>3, HandleEffect DEF IInv
<1>5. Reported \subseteq Event
  BY SeenType DEF IInv
<1>6. m.kind # "step" /\ m.to \in Replica
  BY MonitorsAssumption
<1>7. TypeOK'
  BY <1>4, ReceiveEffect DEF IInv, TypeOK
<1>8. LogFits'
  BY <1>4 DEF IInv, LogFits
<1>9. StepsAreReached'
  BY <1>4, <1>6, ReceiveEffect DEF IInv, StepsAreReached
<1>10. VotesCounted'
  <2> SUFFICES ASSUME NEW e \in Reported', e.kind = "vote", e.hr # <<1, 0>>
               PROVE  e.from \in received'[e.to][e.hr]
    BY DEF VotesCounted
  <2>1. CASE e \in Reported
    <3>1. e.to \in Replica /\ e.hr \in RS!Position
      BY <1>5, <2>1 DEF Event
    <3> QED
      BY <2>1, <3>1, ReceiveEffect DEF IInv, VotesCounted
  <2>2. CASE e = m /\ SC!Logged(m)
    <3>1. ~ RS!Ignored(m.hr)
      BY <1>2, <2>2, MonitorsAssumption
      DEF RS!Ignored, Event, RS!Position, RS!Height, RS!Round
    <3> QED
      BY <2>2, <3>1, ReceiveEffect
  <2> QED
    BY <1>4, <2>1, <2>2
<1>11. OpenSteps'
  <2> SUFFICES ASSUME NEW r \in Replica, NEW hr \in expectedSteps'[r]
               PROVE  /\ \A e \in Reported' :
                           ~ (e.kind = "step" /\ e.replica = r /\ e.hr = hr)
                      /\ Cardinality(received'[r][hr]) >= Faults + 1
    BY DEF OpenSteps
  <2>0. hr \in RS!Position /\ currentHeightRound[r] \in RS!Position
        /\ received[r][hr] \in SUBSET Replica /\ received'[r][hr] \subseteq Replica
        /\ received[r][hr] \subseteq received'[r][hr]
    BY ReceiveEffect DEF IInv, TypeOK, RS!TypeOK
  <2>1. CASE hr \in expectedSteps[r]
    <3>1. Cardinality(received'[r][hr]) >= Faults + 1
      BY <2>0, <2>1, MoreSenders DEF IInv, OpenSteps
    <3> QED
      BY <1>4, <1>6, <2>1, <3>1 DEF IInv, OpenSteps
  <2>2. CASE /\ hr[1] > currentHeightRound[r][1]
             /\ Cardinality(received'[r][hr]) >= Faults + 1
    <3>1. \A e \in Reported : ~ (e.kind = "step" /\ e.replica = r /\ e.hr = hr)
      BY <2>0, <2>2, MonitorsAssumption
      DEF IInv, StepsAreReached, RS!Later, RS!Position, RS!Height, RS!Round
    <3> QED
      BY <1>4, <1>6, <2>2, <3>1
  <2> QED
    BY <2>1, <2>2, ReceiveEffect
<1> QED
  BY <1>7, <1>8, <1>9, <1>10, <1>11, ReceiveEffect DEF IInv

LEMMA NewStepStep ==
  ASSUME IInv, NEW r \in Replica, NEW hr \in RS!Position, NewStep(r, hr)
  PROVE  IInv'
<1> DEFINE step == [kind |-> "step", replica |-> r, hr |-> hr]
<1>1. step \in Event /\ step.kind = "step" /\ step.replica = r /\ step.hr = hr
      /\ SC!Logged(step)
  BY DEF Event, SC!Logged
<1>2. SC!Handle(step) /\ RS!TrackCurrentHeightRound(r, hr)
      /\ (hr = currentHeightRound[r] \/ RS!Later(hr, currentHeightRound[r]))
  BY DEF NewStep
<1> HIDE DEF step
<1>3. /\ Reported' = Reported \cup {step}
      /\ pending' \in Event \cup {SC!NoEvent}
      /\ UNCHANGED <<phase, ch, closed, file, specOk, handled>>
  BY <1>1, <1>2, HandleEffect DEF IInv
<1>4. /\ received \in [Replica -> [RS!Position -> SUBSET Replica]]
      /\ currentHeightRound \in [Replica -> RS!Position]
      /\ expectedSteps \in [Replica -> SUBSET RS!Position]
  BY DEF IInv, TypeOK, RS!TypeOK
<1>5. /\ received' = received
      /\ currentHeightRound' = [currentHeightRound EXCEPT ![r] = hr]
      /\ expectedSteps' = [expectedSteps EXCEPT ![r] = @ \ {hr}]
  BY <1>2 DEF RS!TrackCurrentHeightRound
<1>6. \A s \in Replica :
        /\ currentHeightRound'[s] =
             IF s = r THEN hr ELSE currentHeightRound[s]
        /\ expectedSteps'[s] =
             IF s = r THEN expectedSteps[s] \ {hr} ELSE expectedSteps[s]
  BY <1>4, <1>5
<1>7. Reported \subseteq Event
  BY SeenType DEF IInv
<1>8. TypeOK'
  <2>1. RS!TypeOK'
    BY <1>4, <1>5 DEF RS!TypeOK
  <2> QED
    BY <1>3, <2>1 DEF IInv, TypeOK
<1>9. LogFits'
  BY <1>3 DEF IInv, LogFits
<1>10. \A s \in Replica : \/ currentHeightRound'[s] = currentHeightRound[s]
                         \/ RS!Later(currentHeightRound'[s],
                                     currentHeightRound[s])
  BY <1>2, <1>6
<1>11. \A p, q, u \in RS!Position :
         RS!Later(p, q) /\ RS!Later(q, u) => RS!Later(p, u)
  BY MonitorsAssumption DEF RS!Later, RS!Position, RS!Height, RS!Round
<1>12. StepsAreReached'
  <2> SUFFICES ASSUME NEW e \in Reported', e.kind = "step"
               PROVE  \/ currentHeightRound'[e.replica] = e.hr
                      \/ RS!Later(currentHeightRound'[e.replica], e.hr)
    BY DEF StepsAreReached, RS!Later
  <2>1. CASE e = step
    BY <1>1, <1>6, <2>1
  <2>2. CASE e \in Reported
    <3>1. e.replica \in Replica /\ e.hr \in RS!Position
      BY <1>7, <2>2 DEF Event
    <3>2. /\ currentHeightRound[e.replica] \in RS!Position
          /\ currentHeightRound'[e.replica] \in RS!Position
      BY <1>4, <1>6, <3>1
    <3>3. \/ currentHeightRound[e.replica] = e.hr
          \/ RS!Later(currentHeightRound[e.replica], e.hr)
      BY <2>2 DEF IInv, StepsAreReached
    <3> QED
      BY <1>10, <1>11, <3>1, <3>2, <3>3
  <2> QED
    BY <1>3, <2>1, <2>2
<1>13. VotesCounted'
  BY <1>1, <1>3, <1>5 DEF IInv, VotesCounted
<1>14. EnoughIsExpected'
  <2> SUFFICES ASSUME NEW s \in Replica, NEW p \in RS!Position,
                      p[1] > currentHeightRound'[s][1],
                      Cardinality(received'[s][p]) >= Faults + 1
               PROVE  p \in expectedSteps'[s]
    BY DEF EnoughIsExpected
  <2>1. p[1] > currentHeightRound[s][1] /\ (s = r => p # hr)
    <3>1. currentHeightRound[s] \in RS!Position
          /\ currentHeightRound'[s] \in RS!Position
      BY <1>4, <1>6
    <3>2. currentHeightRound'[s][1] >= currentHeightRound[s][1]
      BY <1>10, <3>1, MonitorsAssumption
      DEF RS!Later, RS!Position, RS!Height, RS!Round
    <3>3. p[1] > currentHeightRound[s][1]
      BY <3>1, <3>2, MonitorsAssumption DEF RS!Position, RS!Height, RS!Round
    <3>4. ASSUME s = r PROVE p # hr
      <4>1. p[1] > hr[1]
        BY <1>6, <3>4
      <4> QED
        BY <4>1, MonitorsAssumption DEF RS!Position, RS!Height, RS!Round
    <3> QED
      BY <3>3, <3>4
  <2>2. p \in expectedSteps[s]
    BY <1>5, <2>1 DEF IInv, EnoughIsExpected
  <2> QED
    BY <1>6, <2>1, <2>2
<1>15. OpenSteps'
  <2> SUFFICES ASSUME NEW s \in Replica, NEW p \in expectedSteps'[s]
               PROVE  /\ \A e \in Reported' :
                           ~ (e.kind = "step" /\ e.replica = s /\ e.hr = p)
                      /\ Cardinality(received'[s][p]) >= Faults + 1
    BY DEF OpenSteps
  <2>1. p \in expectedSteps[s] /\ (s = r => p # hr)
    BY <1>6
  <2> QED
    BY <1>1, <1>3, <1>5, <2>1 DEF IInv, OpenSteps
<1> QED
  BY <1>8, <1>9, <1>12, <1>13, <1>14, <1>15 DEF IInv

\* A step that neither reports an event nor touches the online monitor.
LEMMA SameReports ==
  ASSUME IInv, UNCHANGED monitor, Reported' = Reported, TypeOK', LogFits'
  PROVE  IInv'
<1> QED
  BY DEF IInv, monitor, StepsAreReached, VotesCounted, EnoughIsExpected,
         OpenSteps, RS!Later

\* A step that only the check takes.
LEMMA CheckStep ==
  ASSUME IInv, SC!Next, UNCHANGED monitor
  PROVE  IInv'
<1>1. Reported' = Reported /\ LogFits' /\ UNCHANGED monitor
  BY CheckEffect DEF IInv, Reported
<1>2. TypeOK'
  BY CheckEffect DEF IInv, TypeOK, RS!TypeOK, monitor
<1> QED
  BY <1>1, <1>2, SameReports

LEMMA StepIInv == IInv /\ [Next]_vars => IInv'
<1> SUFFICES ASSUME IInv, [Next]_vars PROVE IInv'
  OBVIOUS
<1>1. ASSUME NEW m \in Messages, Receive(m) PROVE IInv'
  BY <1>1, ReceiveStep
<1>2. ASSUME NEW r \in {m.to : m \in Messages}, NEW hr \in RS!Position,
             NewStep(r, hr)
      PROVE  IInv'
  <2>1. r \in Replica
    BY MonitorsAssumption
  <2> QED
    BY <1>2, <2>1, NewStepStep
<1>3. CASE SC!Next /\ UNCHANGED monitor
  BY <1>3, CheckStep
<1>4. CASE UNCHANGED vars
  <2>1. UNCHANGED monitor /\ Reported' = Reported
    BY <1>4 DEF vars, check, Reported, Seen
  <2>2. TypeOK' /\ LogFits'
    BY <1>4 DEF vars, monitor, check, IInv, TypeOK, RS!TypeOK, LogFits
  <2> QED
    BY <2>1, <2>2, SameReports
<1> QED
  BY <1>1, <1>2, <1>3, <1>4 DEF Next

\* The invariant of the channel, the file and what the monitor stores.
THEOREM Invariance == Spec => []IInv
<1> QED
  BY InitIInv, StepIInv, PTL DEF Spec

\* Each event that got into the channel reaches spec.log, once and in order
\* (check.go:10-40).
THEOREM Lossless == Spec => []NothingLost
<1>1. IInv => NothingLost
  <2> SUFFICES ASSUME IInv PROVE NothingLost
    OBVIOUS
  <2>1. phase = "checked" => file = handled
    BY ConcatEmptySeq DEF IInv, LogFits, TypeOK
  <2> QED
    BY <2>1 DEF IInv, LogFits, NothingLost
<1> QED
  BY <1>1, Invariance, PTL

\* A step stays expected only while the replica has not reported it, and enough
\* replicas sent a message of it (spec/round.go:86-193).
THEOREM Open == Spec => []ExpectationsAreOpen
<1>1. IInv => ExpectationsAreOpen
  <2> SUFFICES ASSUME IInv PROVE ExpectationsAreOpen
    OBVIOUS
  <2>1. \A r : SC!find_actual_steps(Seen, r)
                = {e.hr : e \in {f \in Reported : f.kind = "step"
                                                 /\ f.replica = r}}
    <3>1. SC!Range(Seen) = Reported
      BY DEF SC!Range, Reported
    <3> QED
      BY <3>1 DEF SC!find_actual_steps
  <2> QED
    BY <2>1 DEF IInv, OpenSteps, ExpectationsAreOpen
<1> QED
  BY <1>1, Invariance, PTL

\* A missing step above the height of the replica is expected by the online
\* monitor (analyse.py:16-30, spec/round.go:110-139).
THEOREM Agree == Spec => []MonitorsAgree
<1>1. IInv => MonitorsAgree
  <2> SUFFICES ASSUME IInv, NEW r \in Replica,
                      NEW hr \in SC!MissingSteps(Seen, r),
                      hr[1] > currentHeightRound[r][1]
               PROVE  hr \in expectedSteps[r]
    BY DEF MonitorsAgree
  <2> DEFINE voters == {e.from : e \in {f \in Reported :
                          /\ f.kind = "vote" /\ f.to = r /\ f.hr = hr}}
  <2>1. hr \in {e.hr : e \in Reported} /\ Cardinality(voters) > Faults + 1
    <3>1. SC!Range(Seen) = Reported
      BY DEF SC!Range, Reported
    <3>2. hr \in SC!find_expected_steps(Seen, r)
      BY DEF SC!MissingSteps
    <3>3. SC!HeightRoundReceived(Seen, r, hr) = voters
      BY <3>1 DEF SC!HeightRoundReceived
    <3> HIDE DEF voters
    <3> QED
      BY <3>1, <3>2, <3>3, SameCardinality DEF SC!find_expected_steps
  <2>2. hr \in RS!Position /\ currentHeightRound[r] \in RS!Position
        /\ received[r][hr] \in SUBSET Replica
    BY <2>1, SeenType DEF IInv, TypeOK, RS!TypeOK, Event
  <2>3. hr # <<1, 0>>
    BY <2>2, MonitorsAssumption DEF RS!Position, RS!Height, RS!Round
  <2>4. voters \subseteq received[r][hr]
    BY <2>3 DEF IInv, VotesCounted
  <2>5. Cardinality(voters) >= Faults + 1
    <3> HIDE DEF voters
    <3>1. Cardinality(voters) \in Nat
      BY <2>2, <2>4, MonitorsAssumption, FS_Subset, FS_CardinalityType
    <3> QED
      BY <2>1, <3>1, MonitorsAssumption
  <2>6. Cardinality(received[r][hr]) >= Faults + 1
    <3> HIDE DEF voters
    <3> QED
      BY <2>2, <2>4, <2>5, MoreSenders
  <2> QED
    BY <2>2, <2>6 DEF IInv, EnoughIsExpected
<1> QED
  BY <1>1, Invariance, PTL
=============================================================================
