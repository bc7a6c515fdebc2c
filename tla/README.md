# Verification of ByzzFuzz for Tendermint

ByzzFuzz tests the consensus protocol of Tendermint by running a cluster of
four nodes in docker under a test server. The server sees every message before
it is delivered and drops or changes a few of them according to a plan. This
directory holds TLA+ models of the server's logic, TLC configurations that check
them on small instances, and proofs that TLAPS checks for all instances.

The subject is the tester, not Tendermint: whether it injects the faults its
plan names and no others, whether its verdicts mean what they say, and whether
what is stored of a test belongs to that test.

## The system

| component | source | state | operations |
|---|---|---|---|
| round tracking | `byzzfuzz/roundTracking.go` | per replica: last height and round, total round, total round of each position | `trackTotalRounds` on a `newStep` event; the conditions `isMessageFromTotalRound`, `isMessageOfTotalRound` |
| fault actions, partitions | `byzzfuzz/corruption.go`, `byzzfuzz/partition.go` | none | six corruptions, isolation of two nodes |
| test case | `byzzfuzz/instance.go` | verdict state machine, known block ids | the filter list run on every event |
| liveness timer | `liveness/liveness.go` | one flag | a goroutine raises it after the timeout |
| agreement monitor | `byzzfuzz/spec/commit.go` | first block committed at each height | `DiffCommits` on a commit event |
| spec log and check | `byzzfuzz/spec/log.go`, `spec/check.go`, `analyse.py` | channel of 10000 events, `spec.log` | log, close and drain, offline analysis |
| round-skip monitor | `byzzfuzz/spec/round.go` | votes received per round, expected steps | unused by the test cases |
| plan generators | `byzzfuzz/byzzfuzz.go`, `orchestrate.py`, `data.py` | random source | `ByzzFuzzRandom`, `random_config` in two scopes |
| predefined instances | `byzzfuzz/bugs.go`, `byzzfuzz/byzzfuzz.go` | none | five fixed plans |
| runner | `cmd/server.go`, `docker/docker.go`, `netrix/unittests.go`, `fuzz.sh` | goroutines, signal channels, nodes, result database | one test case at a time, in five subcommands |
| baseline test case | `byzzfuzz/baseline.go` | as the test case | two filters that drop or garble messages at random |
| reference test case | `byzzfuzz/reference.go` | verdict state machine, a counter | a fixed scenario without a plan |
| orchestration | `orchestrate.py` | result table, event logs | fuzz, deflake, fuzz-deflake, reproduce |
| baseline series | `baseline.py` | totals, event logs | 200 runs, resumed by the logs that exist |
| library unit tests | `netrix/unittests.go` | none | 21 test cases of another repository |
| message logging, diagrams | `byzzfuzz/diagram.go`, `diagram.py` | none | a filter that writes a line for each message |
| result queries | `queries/`, `check_ok.py`, `compare_fails.py`, `find_corruption.py`, `tag_final_results.py` | none | reports |

How they interact: the nodes report events (a new step, a commit, a message sent
or received) and the server handles them one at a time. For each event it steps
the verdict state machine, whose conditions are `DiffCommits`, the target height,
and a commit after the liveness timer fired; then it runs the filters in the
order they were added: end the test on success, `trackTotalRounds`, `spec.Log`,
message logging, `logBlockIds`, one filter per drop, one per corruption. The
first filter that claims the event decides what is delivered; a send event
nobody claims is delivered. The components share the test context's variables:
the tracker writes the totals that the fault conditions read, the timer writes
the flag they read, `logBlockIds` writes the list a corruption picks from.
Around this, the runner prepares a cluster, starts the server, waits for the end
of the test or a signal, stops the nodes, has the spec log checked, and stores
the result; the scripts start the runner again and again.

What is hard about it:

- replicas repeat, skip and outrun rounds, and messages are retransmitted, so
  "the messages of step 4" must be found from two different counts;
- the timer goroutine runs beside the handler, and one event reads its flag once
  for each fault;
- the order of filters and of transitions carries meaning, and a condition with
  a side effect (`DiffCommits`) sits among them;
- the log channel is bounded and not read before the end of the test, and it is
  closed without waiting for the handler that fills it;
- each test starts goroutines that outlive parts of it: nodes are started five
  seconds late, a signal and the end of a test may be ready at once, the handler
  may still send when the log is closed;
- nodes, `spec.log` and database outlive a crashed server, and `fuzz.sh` starts the
  next one beside them;
- the scripts around the server are killed and started again, and find their
  place by what the table and the log directory hold;
- the verdict is about the cluster but is computed from single events.

What makes each modelled component correct is stated as its properties below.

## Modules

**RoundTracking** is `roundTracking.go`. Its variables are the four families of
context variables (`BF_prev_height_...`, `BF_prev_round_...`,
`BF_total_rounds_...`, `BF_total_round_<replica>_<height>_<round>`), one function
over the replicas each; `Unset` is the `ok = false` of a lookup, and the
defaults 1, 0, 0 are supplied by `PrevHeight`, `PrevRound`, `TotalRounds` as in
the code. `NewStep` is the filter on one `newStep` event. Its environment,
`Follows`, is external: a node reports its steps in order, possibly skipping
rounds and heights.

**RoundNumbering** is the abstract specification of the tracker: each replica
walks forward and each position it is heard of gets a number once, larger than
the earlier ones. `Numbering` (RoundTracking) says that the tracker implements
it, with the stored totals as the numbers.

**Faults** holds the plan's vocabulary and the actions on one message. Messages
are records of the fields the code looks at. `author` is the validator a vote
names; a node relays votes of others, so it may differ from the sender `from`;
`signer` is the owner of the key that made the signature. Parsing, marshalling
and signing are reduced to these fields; their error returns lead to the same
"deliver as it is" as the guards that are kept.

**ByzzFuzzInst** composes them into a test case. A handler has three stages, so
that what runs beside it can interleave:

| stage (`phase`) | action | code |
|---|---|---|
| `idle` | `NewStep`, `Commit`, `Send`, `Receive`: state machine, then `endTest` or `trackTotalRounds` | `instance.go:97-105`, `spec/commit.go:12-39` |
| `log` | `LogEvents`: `spec.Log`, which waits for room, and `logBlockIds` | `spec/log.go:38-86`, `corruption.go:282-307` |
| `faults` | `Strike(i)`, `Skip(i)`, `Panic(i)` for fault `i`, `Deliver` after the last | `instance.go:112-132`, `roundTracking.go:79-130` |
| `done` | `Dispatch` | external |

`LivenessTimer` and `TestTimeout` are independent actions. `struck`,
`committed`, `healedBefore` and `heightsAtHeal` are history variables that no
action reads, except that `committed` orders the commits of the environment.

**TestVerdict** is the abstract specification of a verdict: replicas report
commits and the heights of their steps, the network heals once, and the label is
settled by whichever comes first: a commit that disagrees with an earlier one, a
commit after healing, or a step of a height that ends the test (`Targets`). Nothing
of faults, filters or messages is in it. `Verdict` says that ByzzFuzzInst implements
it, with the history of reported commits, the flag of the timer, and the height
that the event at hand reports (`Reported`). The other two test cases have other
transitions and no such claim.

**FuzzConfig** is the source of plans: `DrawDrop`, `DrawNode` and `DrawCorruption`
draw one fault at a time as `ByzzFuzzRandom` (source "fuzz") or `random_config`
("small", "any") would; the plans of `bugs.go` are initial states. A random number
is a choice. `DropsDone` puts a sampled plan into an order sorted by step; which of
two drops of one step comes first, decided by their partitions in the code, is left
open. `OutOfSteps` is the panic of a permutation that is too short.

**BaselineCase** is `baseline.go`. It takes state machine, tracker, timer and
commits from an instance of ByzzFuzzInst with an empty plan, and adds its own
two filters. The chance of a fault is a choice; a garbled message is unreadable or
names another block.

**ExpectNewRound** is the reference test case. A handler is one action here: no
goroutine of the program runs beside it. `NextLabel` tries the transitions of
the state in the order they were added, `Answer` the filters.

**TestCases** puts FuzzConfig, BaselineCase and ExpectNewRound side by side: what
the subcommands `fuzz`, `baseline` and `unittest` do that is not a test case with a
plan. A behaviour is one of one of the three. The MC module only gives
values.

**RoundSkip** is `spec/round.go`: who sent a replica a message of a position, the
replica's own position, and the steps expected of it, one function over the
replicas each. Its actions are the filters `TrackRoundsReceived` and
`TrackCurrentHeightRound`.

**SpecCheck** is the offline check. `Handle` and `Send` are `spec.Log`, split where
the handler waits for room; `Stop` is the return of `server.Start`, which the
library may do while a handler is waiting; `Close`, `Drain` and `Analyse` are
`spec.Check`, with `analyse.py` as operators on a sequence of events. A handler
that sends after `Close` panics (`SendOnClosed`).

**StepMonitors** composes the two on one stream of events, so that their verdicts
can be compared.

**Runner** is the process of the test server. Its `mode` is one of the five
subcommands of `main`, or "reference" (`unittest` with `use-byzzfuzz=false`, another
path through the code), or "netrix" (`RunUnitTests`, which has the same runner and
which no subcommand calls). `pc` follows the main goroutine
through one test:

| `pc` | action | code |
|---|---|---|
| `begin` | `Begin`: channels, server and state of the test are made | `cmd/server.go:269-290`, `335-336` |
| `prep` | `PrepDockerCompose` | `docker/docker.go:8-22` |
| `serve` | `ServerReturns`, once the server is stopped | `cmd/server.go:337-352` |
| `stopNodes` | `StopNodes`, then what the subcommand does next (`AfterTest`) | `cmd/server.go:354-358`, `74-221` |
| `check` | `Close`, `Drain`, `Analyse` of SpecCheck | `spec/check.go` |
| `discard` | `Discard`: run-instance empties the channel | `cmd/server.go:114-119` |
| `insert`, `insertLog` | `InsertResult`, `InsertLog`: two transactions | `cmd/server.go:246-267` |

Beside it run `StartNodes` (the goroutine that sleeps five seconds),
`SelectSignal` and `SelectDone` (the goroutine that stops the server), and the
handler of SpecCheck (`Handle`, `Send`, `SendOnClosed`). `Signal` and `Crash` may
come at any step, `Relaunch` is `fuzz.sh`. What the test case does is reduced to
reporting events (`Handle`) and ending (`TestOver`), external here: it is what the
other modules are about. A Ctrl-C in the first five seconds of a test reaches
`StopNodes` before `Process` is set, and the nil pointer crashes the process.

**Orchestrate** is `orchestrate.py`. The table is a sequence of rows
`[plan, pass, fail]`,
the logs are files known by row and suffix. Of its plan a row keeps the number `plan`
under which reproduce generated it, 0 for one that fuzz drew; `next` is the number
that is generated next. Each action is one effect that outlives the process
(a statement, the opening of a file, the end of writing it) or the wait for the
server, and `Kill` may come between any two.

**BaselineRuns** is `baseline.py` in the same manner.

The modules named `..._proofs` and LogSequences (lemmas on a channel that is moved
to a file) hold the proofs. A definition
whose comment begins "Mutant of" is never used by a specification: it is a
plausible bug in the definition below it, and shows that a property can fail.

Assumed of the libraries (netrix and tendermint-testing, not part of the
repository): events are handled one at a time; the state machine is stepped
before the filters, its transitions in the order of the `On` calls, and only from
the current state; `And` stops at the first false condition; the first filter
that handles an event ends the list; an unhandled send event delivers its
message; `Replicas.Iter()` has one order; `HeightReached` holds when a replica
reports a step of that height or a later one, `IsCommit` on a "Committing
block" event. If the library instead kept only the second of the two
transitions to success, fewer tests would succeed early; the properties below do
not depend on it.

## Runs

| run | question | size |
|---|---|---|
| `tracking` | Are rounds numbered one to one, in order, exactly, permanently, and as RoundNumbering promises? | 131,328 states |
| `small_plan` | Does a plan strike what it names and nothing else, while the timer fires at any moment? | 2.9 million states |
| `verdict` | Is diff-commits reached exactly on disagreement, and the label the one TestVerdict gives? Does every handler come to an end? | 1.7 million states |
| `monitors` | Does the offline check see what happened, and do the two monitors agree? | 780,475 states |
| `test_cases` | Can every plan be run, and does it act? What do the baseline and the reference test case do to messages, and what does the verdict of the latter mean? | 730,718 states |
| `runner` | Do results keep their own logs and tests their own nodes, through signals and crashes, and does every test come to a result? | 214,902 states |
| `workflow` | Do table and logs agree across commands and kills, and does reproduce end? | 233,241 states |
| `baseline_runs` | What does a kill cost the baseline series? | 913 states |
| `lagging_commit`, `anyscope_block_id`, `later_round`, `baseline_server_dies` | Disagreements of code and documentation, see below | violations |

Properties of `tracking`: `RoundsOrdered` (no two positions of a replica share
a total round), `RoundsCounted` (the totals count skipped rounds exactly),
`ConditionsAgree` (drops, which use the sender's round, and corruptions, which use
the message's, select the same round for current messages), `NeverRenumbered`
(repeated events change no number), `Numbering` (refinement).

Properties of `small_plan`: `FaultStrikesOneRound` (over a whole test a fault
strikes a sender in one height and round at most), `HealedNetworkUntouched`
(after healing everything is delivered), `AnswerIsAtomic` (when the timer fires
between two filters of one event the message is either treated as planned or
delivered, never by a fault the plan shadows), `CorrectLinkUntouched` (messages
of correct nodes over links no drop cuts are never harmed).

`verdict` checks `DisagreementCaught`, with replicas that may commit twice at a
height, and the liveness property `HandlerReturns` under weak fairness of the
handler's own steps: the server's event loop keeps running, which is all the
code needs. Nothing is assumed of the nodes, the timer or the timeout. The
property excepts a full log channel, which the run reaches, and a panic, which
only `small_plan` reaches. `Verdict` is the refinement of TestVerdict: whatever
the plan does to messages, and wherever the timer fires, the label follows from
the commits, the end of faults and the steps of the target height alone.

Properties of `monitors`: `NothingLost` (each event that got into the channel is
in `spec.log`, once and in order, when the analysis reads it),
`ExpectationsAreOpen` (a step the online monitor expects has `faults + 1` senders
and was not taken, however late their messages come), `MonitorsAgree` (what the
offline analysis would report above the replica's height, the online monitor
expects).

Properties of `test_cases`: `PlanFits` (the faults of every plan can be run: nodes
that exist, each drop a partition that cuts somebody off), `OneDropPerStep` (a plan of
the Go code has one drop for a step at most, and panics only when asked for more
drops than steps), `SmallScopeCorruptionsAct` (the generator and the actions agree
on what a step modulo three means: no planned corruption is without effect; the
any-scope generator is the exception that `anyscope_block_id` shows);
`HealedNetworkUntouched` and `OnlyNode0Lies` (the two random filters read the flag
of the timer one after the other; what they may do in between);
`VerdictIsMove` and `RoundZeroIsolated` (the order of transitions and filters of
the reference test case lets it succeed only after replica h moved, and fail only
before it did, so that its transition on `DiffCommits` at `reference.go:27`, which
leads from the state after the move to failure, is never taken; of votes, h hears only the nil votes of the
faulty replica in round 0).

Properties of `runner`: `RowsHaveTheirLogs` (a stored log is the whole log of its
test although all tests share one file, and the stored verdict is the one of that
log), `OnlyCrashesLoseLogs` (a result lacks its log only if the process crashed
during that test), `InterruptEndsLoop` (a test that a signal stopped is not
recorded, and no test follows it in its process; when `select` takes the end of
the test instead, the loop goes on, and the models allow it), `FreshCluster` (no
node of an earlier test runs while one is served, whatever crashed), `TestsEnd`
(every test of fuzz comes to a result with its log, unless it is interrupted or
the process crashes). The fairness is weak fairness of the main goroutine, of the
one at the `select`, of the one that starts the nodes, and of the end of a test
case, which has a timeout. Nothing is assumed of nodes, of signals, of the
handler, or that a crashed process is started again; but the library is assumed
to return from `server.Start` after `Stop`, and the nodes to end when they are
told to, so that `dockerCompose.Wait()` returns.

Properties of `workflow`: `KillLosesOneLog` (each verdict counted has a log that
shows it, but for one lost with each kill), `LogsAreCounted` (no log shows a
verdict the table does not count), `DecidedIsFinal` (a plan that passed, or
failed often enough, keeps its row), `DoneIsComplete` (reproduce is done only
with a decision on each of its plans, although a kill may interrupt their
generation; a table that fuzz wrote to is excepted, see the observations below),
`ReproduceEnds`. The fairness is of the process and of the server together: a
test case has a timeout, so its server ends, with a verdict or without; the
property excepts the second, since the process then waits for ever. Neither
the verdicts nor the choice of rows is fair.

Properties of `baseline_runs`: `KillSpoilsOneLog` and `LogsAreKept` (a restart
repeats no finished run, and each kill leaves one unfinished log at most).

**Bounds.** `MaxHeight` and `MaxRound` bound the positions replicas report. Three
heights and three rounds give the tracker every kind of move from every kind of
position, twice in a row. The plan of `small_plan` names two total rounds, and a
replica can have total round 1 in two different positions (round 1 of height 1,
or round 0 of height 2), which is where a fault could strike twice; heights
from 3 on end the test (`TargetHeight`, 3 in the code and in the run). Its messages
are one for each way a fault can apply or not: two positions under one number, a
message that a drop and a corruption both select, a correct sender on a correct
and on a cut link, an unreadable message. `SpecCapacity` is 4, 3 or 2 instead of
10000, so that runs reach both a free and a full channel; it also bounds the
length of behaviours, and 4 `newStep` events suffice to bring a sender past
both positions. `MaxBlockIds` bounds the list of known blocks. The bounds of
`verdict` are two replicas, two blocks and two heights: a disagreement needs two
of each at most; its log channel holds two events, so that both events that fit
and events that wait are answered or not.

In `monitors` one replica receives votes of three others (the offline analysis
wants more than two) for a later round of its height and for one of the next
height, messages that only the online monitor counts, and votes of no round;
`MaxEvents` is 5, three votes and two steps, and the channel holds 4, so that
handlers wait, too. In `workflow` a plan is decided by 2 failures instead of 5 and
reproduce generates 3 plans instead of 1600, so that generation can be cut
after one or two, and `MaxKills` 2 allows a kill in the restarted process. The
four runs of `baseline_runs` stand for 200.

In `test_cases` a behaviour is one of one of the three modules. Plans are drawn for
one step, which runs out at the second drop, and for three, one of each type of
message, with two faults, which can be two drops, two corruptions or one of each.
The baseline test case has a message of node0, one of another node and one that is
not of the consensus; the reference test case has votes of each node in both
rounds, and h receives three of round 1, more than the F + 1 that count. `runner`
chooses among all seven modes; two tests, one crash and one signal suffice
for each test to follow one that ended in any way. Three events and a channel of two let
the handler wait, and let it be at a closed channel.

Deadlock is not checked in runs of ByzzFuzzInst, because a test ends, its server
can panic, and its log channel can be full for good; nor in the others, where the
check ends, and the scripts may wait for ever on a dead server.

## What disagrees

- **lagging_commit.** "A test fails when the cluster does not commit a new
  transaction within 1 minute after ceasing all drops and corruptions"
  (`README.md:35`; `cmd/server.go:53` says "a new commit"). The code accepts any
  commit event after healing (`instance.go:101`), so a replica that catches up
  on an old height makes the test succeed.
- **anyscope_block_id.** The any-scope generator plans the change of block id for
  proposals (`data.py:65-68`), with a seed "used to select a previously seen
  message ID" (`orchestrate.py:69`); the action ignores everything but votes
  (`corruption.go:241`), so this corruption never has an effect.
- **later_round.** "Not interesting, we are already at that or a later round"
  (`spec/round.go:117`). The condition compares `hr.height <= currentHr.height`, so
  later rounds of the replica's height are dismissed, too, and the monitor sees
  only skipped heights; it "appears broken" (`TODO.md:2`).
- **baseline_server_dies.** "This will execute 200 runs" (`README.md:33`). The loop
  over the server's output (`baseline.py:12`, and `orchestrate.py:24`) compares
  bytes with the sentinel `''`, so it does not end with the output, and a server
  that dies before its verdict stops the series.

Three observations have no run, because nothing written down says otherwise. The
vote corruptions sign with the key of the validator the vote names
(`corruption.go:44-62`), so a relayed vote of a correct validator is forged in its
name, and a second validator appears faulty. A log of the baseline series
that a kill cut off counts as processed (`baseline.py:45`); its run is not repeated.
And reproduce knows its plans by their number only (`orchestrate.py:204-219`): a
generation that was interrupted, and that `fuzz` has since filled up to 1600 rows,
passes for the whole. `DoneIsComplete` excepts a table with rows of `fuzz`.

## Proofs

The theorems hold for every set of replicas, every bound, every plan, every set of
messages, and any number of tests, runs, crashes and kills. Assumed are the types
of the constants (`BoundsAssumption`, `PlanAssumption`, `InstAssumption`,
`MonitorsAssumption`, `RunnerAssumption` and those of the scripts' modules; in
TestCases `PlanAssumption`, that the numbers of steps are positive, and
`CaseAssumption`, that messages have the fields the filters look at). Each
component has an inductive invariant, `IInv` unless another name is given below, and
a theorem or lemma that it holds, named `...Invariance`, from which the others follow.
Every invariant, action property and refinement that a passing run checks is
a theorem.

*Tracker.* None of the properties is inductive alone. `RoundTracking!IInv` adds
`CurrentIsLast`: the last reported position is known, carries the current
total, and no known position is later. The lemma `StepEffect` says what one event
does (old numbers stay; the reported position is the current one with its number,
or later than all with a larger one), and `StepIInv` concludes in three cases
(same position, higher round, higher height). From the invariant follow
`Ordered`, `Counted`, `Agree`, `Permanent`, and `Refinement` to RoundNumbering.

*Test case.* `ByzzFuzzInst!IInv` adds `StruckNumbered`: a position that a fault
struck carries, still, the total round of the fault. It is kept because the
tracker never renumbers (`TrackerStep`, from the tracker's lemmas) and because a
fault applies only to a position with its number (`StruckPosition`: for a drop
that is the sender's last position, by `CurrentIsLast`; for a corruption the
message's). As numbers are one to one, `OneRound` follows. `Healed` needs that the
flag is never lowered; `Agreement` needs that the stored blocks are exactly the
first commits of their heights, and that success ends the test.

`Atomic` and `CorrectLink` need the place of the handler among the filters:
filters before it did not apply, and what the event's answer is then. `VerdictKept`
is the refinement of TestVerdict, step by step: a commit is `Commit`, a reported step
is `Report` of its height (`NewStepImplements`), and every other event ends a report
or changes nothing. What it needs is kept in an invariant of its own
(`VerdictIInv`, proved action by action without the rest of `IInv`).

`Tracking` says that the test case implements RoundTracking: `NewStep` is its step, and
no filter, timer or timeout touches its variables. All theorems of the
tracker carry over with it, `NumbersPermanent` among them. `PlansAreAssumed` (in
TestCases_proofs) discharges the assumption on plans: every plan that a
generator draws, or that the source predefines, is one the theorems speak of.

*Monitors.* `StepMonitors!IInv` says that file and channel together are what was
handled (`LogFits`, with the lemmas of LogSequences), that no replica reported a step beyond
its stored position (`StepsAreReached`), that the online monitor counts the votes
that are logged (`VotesCounted`), and that enough senders of a later height make an
expectation (`EnoughIsExpected`). `Agree` follows from the last two: a position that the
offline analysis misses has more senders than the online monitor asks for. `Open`
needs `StepsAreReached`, so that a new expectation is not of a step that was
reported before.

*Runner.* `Runner!IInv` has four parts. `LogFits` says, for each place of the main
goroutine, how far the events of the test have come from channel to file; it holds
only while the process is up. `RowsFit` says that results are of tests begun so far,
the present one last, and that a crash is noted with the test it hits. `InterruptsFit`
says that a test gets its result after the last moment at which a signal could
stop it. `RowsHaveTheirLogs`, `OnlyCrashesLoseLogs` and `InterruptEndsLoop` follow;
`FreshCluster` is inductive with the types, since nodes are started only with the
number of the present test and all others were stopped before it was served.

*Scripts.* `Orchestrate!IInv` adds that the row a run was started for is still open
when its verdict comes (`RowIsOpen`), that a verdict about to be written down is
counted (`RecordedIsCounted`), that reproduce reruns rows only when the table has as
many as it generates (`ReproduceHasAll`), that the n-th row has the n-th plan or one
of fuzz (`PlansInPlace`), and that logs fit their names and opening one destroys no
other verdict (`LogsFit`); with these the set of missing logs grows by one at a
kill and never else. `BaselineRuns!IInv` relates totals (`TotalsFit`) and files
(`FilesFit`) to the place of the loop, and counts unfinished files in the same way.

The last three components are proved about in TestCases_proofs. The lemma `Projection` says
that a behaviour of TestCases is one of each of the three modules, so that each is
proved about alone.

*Plans.* `PlanIInv` says what a fault looks like at any moment of a draw: drops name
one of the fourteen partitions, corruptions a nonempty set of receivers and a type
that the message type of their step allows (any-scope plans excepted); and the drops of
the Go code have different steps. `PlansFit` goes through the fourteen partitions
(`PartitionsSplit`) and through the predefined plans; `DropsDoneStep` shows that sorting
loses and adds nothing. When the generator finds no free step, every step
carries a drop (`AllStepsTaken`, a pigeonhole argument on an injection of the
steps into the drops), so more drops were asked for than there are steps: `OneDrop`.
`CorruptionsActual` combines `PlanIInv` with `FittingActs`, a case for each type.

*Baseline test case.* `BaselineIInv` adds that the flag is still raised if it was raised
when the event came. Both random filters read it after that, so neither claims a
message of a healed network. What
`OnlyNode0Lies` says is inductive with that.

*Reference test case.* `LabelFits` says that h has not moved in the first two states and
has in the third, and that no commit was compared before the verdict, so that
`DiffCommits` is false when it is first asked, and the commit that it is asked about
ends the test. `VerdictFollowsMove` follows. `RoundZeroIsolated` is inductive alone, for
messages that have the fields the filters look at.

*Only model-checked:* the liveness properties `HandlerReturns`, `TestsEnd` and
`ReproduceEnds` (liveness is out of the prover's reach, as is ENABLED). The four
disagreements are counterexamples. No module that is proved about uses a RECURSIVE
operator.

## Not modelled

- The wording of log lines and the diagrams drawn from them (`diagram.go`,
  `diagram.py`): the filter that writes them claims no event, and that is modelled.
- Result queries: they report over finished results.
- What the docker commands do inside: only which tests' nodes run afterwards.
- The 21 library unit tests: they belong to another repository, only the loop that
  runs them is here.
- `quick_tests` of `orchestrate.py`, which keeps nothing.
- What ends a server that `orchestrate.py:36` terminates and does not wait for: it is
  decided by `go run` and the operating system.
- Flags, their defaults and their parsing: they are constants of the modules.
- Tendermint itself: nodes are an environment that reports any events in an order
  that the protocol allows.
