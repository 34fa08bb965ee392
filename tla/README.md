# A verification development for extension-kafka

This directory holds TLA+ models of extension-kafka, configurations that check
them with TLC, and proofs checked with TLAPS. The source it models is this
repository's `extkafka/`, `config/` and `main.go`; `PROJECT.json` maps every
definition that stands for code to the lines it stands for. Paths below are
relative to `src/`, file names without a directory are in `extkafka/`.

## The system

The extension is one Go process that a Steadybit agent drives over HTTP. It
offers *actions* (attacks, checks and load generators against Kafka) and
*discoveries*. The agent calls `Prepare`, `Start`, `Status` (every second or
two) and `Stop` of an execution, one at a time, and keeps the action's state
between the calls; executions of different steps overlap freely. The SDK runs
each discovery again and again in a goroutine of its own.

| part | state | operations | what is hard | what makes it correct |
|---|---|---|---|---|
| record producer (`produce.go`, `produceFixAmount.go`, `producePeriodically.go`) | `ExecutionRunDataMap`: ticker, jobs channel, two atomic counters, cancel function | the four calls; a scheduler goroutine; `MaxConcurrent` workers | check, produce and count are separate steps of many goroutines; a full channel; cancellation of requests in flight; a restart loses the map | bounded overshoot, counters that agree, no goroutine left, an end |
| broker configuration attacks (`alter_*.go`, `common.go` 331-573) | the value saved by `Prepare`; the broker's value, accepted and in effect | `doAlterConfig` polls until a change is readable, `retryOnTransientError` repeats it, `adjustThreadsWithConfig` goes in steps | late application, retries, restarts, overlapping executions | the original value comes back; the broker never refuses a step; every call ends |
| cluster registry (`config/config.go`, startup in `main.go`, `RetryPendingClusters` in `common.go`) | `Config.Clusters`, `pendingClusters`, two mutexes | parsing, connection test, registration by any discovery | copies of the pending list that are stale when used; clusters that come and go; names that collide | no cluster lost, no registration replaced, eventual registration |
| discoveries (`broker_discovery.go`, `topic_discovery.go`, `consumergroup_discovery.go`) | a channel of results for each run | fan out to all clusters, ask each once or twice, collect, report | partial failure, two requests that see different moments, a registry that grows meanwhile | one cluster is enough; nothing invented, nothing missed; a run ends |
| clients (`createNewClientWithConfig` in `common.go`) | none | SASL and transport from a configuration, seed brokers from the state | the configuration is looked up anew in every call | the right cluster, with its own credentials |
| process (`main.go`, `linuxpkg/systemd`) | all of the above that is in memory | start, end, restart | an end between any two calls of an execution | what an execution did is undone all the same |
| checks (`check_*.go`) | kept by the agent: what was seen before, success and deviation flags | `Start` and `Status` poll once each | polls that fail, the end that passes while a poll is under way, changes that come and go, failing early or at the end | the verdict agrees with the history; the first deviation is the one reported |
| deny access (`broker_deny_user.go`) | ACL bindings in the brokers | create, delete | executions that share a binding; errors entry by entry | denied while executions are started and none of the same denial has begun to stop; nothing left after Stop but what a broker refused to delete |
| elect new leader (`partition_attack_elect_new_leader.go`) | none | reassign, elect | metadata that is stale or empty, an answer that is dropped | a permutation with the leader last; a success moves the leadership |
| delete records (`delete_last_records.go`) | none | one delete per partition | partial failure, producers that go on, numbers beyond 32 bits | the newest records stay, the old ones of the chosen partitions go |

The parts meet in the registry, where every action looks its cluster up by name
in every call, and in the brokers. The extension serializes nothing between
executions.

## Modules

| module | models | composes |
|---|---|---|
| `ProduceLoad` | one execution of a produce action with all its goroutines | |
| `LoadPromise` | what such an execution promises, without channels, tickers or goroutines | implemented by `ProduceLoad` |
| `MCProduceLoad` | the symmetry of the workers | extends `ProduceLoad` |
| `BrokerConfigAlter` | the four configuration attacks, several executions against one broker | |
| `ClusterRegistry` | registry, startup and the discoveries' use of it | |
| `RegistryPromise` | what the registry promises: a book in which entries are made once | implemented by `ClusterRegistry` |
| `MCClusterRegistry` | sequences of names | extends `ClusterRegistry` |
| `Discovery` | one of the three discoveries in detail: requests, results, report | |
| `Extension` | the process: registry, targets, executions of an attack, clients, restarts | instantiates `ClusterRegistry` |
| `MCExtension` | names, and settings of which no two are alike | extends `Extension` |
| `PolledCheck` | what the four checks have in common | |
| `CheckBrokers`, `CheckPartitions`, `CheckConsumers` | the check of brokers; of partitions; of a group's state and of its lag | extend `PolledCheck` |
| `Checks` | any one of the four checks | extends the three |
| `DenyAccess`, `DeleteRecords`, `ElectLeader` | the three attacks without a background task | |
| `Attacks` | any one of them | extends the three |
| `MCAttacks` | numbers of records to keep, a negative one among them | extends `Attacks` |
| `ProduceLoadProofs`, `BrokerConfigAlterProofs`, `ClusterRegistryProofs`, `DiscoveryProofs`, `ChecksProofs`, `AttacksProofs` | theorems about the module they are named after | extend it |
| `ExtensionProofs` | theorems about `Extension` | extends it, instantiates `ClusterRegistryProofs` |

Operators marked "seeded fault" are what a plausible bug would make of the
definition that follows them. No specification uses them: they show that the
properties notice such a bug.

### ProduceLoad

The agent's calls are actions on `phase`; `stored` says whether
`ExecutionRunDataMap` has the entry. `stop` is cut at every point where another
goroutine can be seen: the entry is taken and the context cancelled (`Stop`),
the requests are read (`StopReadsRequests`), the successes are read and the
verdict is given (`StopReadsSuccesses`). A worker is cut at the receive, the
check of the counter, the answer of `ProduceSync` and the two increments
(`Receive`, `BeginProduce`, `ProduceSucceeds` or `ProduceErrs`,
`CountSuccess`). The two `select` statements of the scheduler are the states
`waiting` and `sending`. `jobs` is the length of the channel; the jobs are all
alike. Where Go's `select` picks among ready branches, several actions are
enabled. `Delay` is the integer division of the two front ends; `StartPanics`
is the panic of `time.NewTicker` for a delay of zero and of the dereferenced
missing entry, which the HTTP layer answers with an error.

Environment: the brokers accept, reject or do not answer, and change at any
time; `Faults` selects clients that cannot be created (`client`), restarts of
the extension (`crash`) and repeated Stop calls (`retry`). Unreachable brokers
make `ProduceSync` block until the context is cancelled, because the client
retries without limit.

### BrokerConfigAlter

One action for each request a handler makes of the brokers, and `Apply` for the
moment at which a broker puts an accepted change into effect (external: the code
polls because that moment is later). `pc` says which request is next, `attempt`
counts what `retryOnTransientError` has tried. `PollTimesOut` is possible only
when the value really cannot be read back: the broker is slow, or another
execution has overwritten it. `Crash` ends all calls under way; the agent keeps
the executions' states and may call Stop afterwards. `faults` is chosen at the
beginning, either nothing or all of `Faults`, so that one run has both the
behaviours in which a goal must be reached and those in which calls fail half
way. `unsettled` is history: a call has failed while a change was accepted and
not yet applied. It is what `StoppedMeansRestored` and `NeverRefused` must
exclude for the thread attacks, which read the value in effect before they write
(see the disagreements below).

### ClusterRegistry

Clusters are named by the index of their configuration; 0 is the legacy
configuration. `clusters` maps names to indices as `Config.Clusters` does.
`GetPendingClusters` and `GetAllClusterConfigs` return copies: `todo` and
`snapshot`. `RegisterCluster` is one action since it holds both locks, and the
lookup before it (`Resolve`) is another. Every goroutine of a fan-out is a
`Collect`; a request to a cluster is decided by whether the cluster is up when
the collector takes its result.

`RegistryPromise` has neither locks nor copies nor discoveries: clusters are
looked at in order, found (`Find`), missed (`Miss`) or found later (`FindLate`),
and the legacy cluster is entered into an empty book alone (`FallBack`). The
mapping `Promise` takes `clusters` for the book and the pending list for what is
missing. A discovery that works from a stale copy could replace an entry or enter
a cluster that is not missing any more; neither is a step of the promise.

### Discovery

The run of one discovery, with `kind` saying which. `goroutine` holds the next
step of each cluster's goroutine: `List` or `DescribeGroups` is its first
request, `BrokerMetadata` the second that brokers and topics need, `Send` the
result; `Fails` is every error return before it. `Receive` and `Report` are the
collector. What a cluster has changes between any two requests
(`ObjectChanges`, `ControllerChanges`), and other discoveries register clusters
(`RegisterCluster`). Of a target the cluster, the object and the controller flag
are kept. `seen`, `lasting` and `ruled` are history for the properties. The world
changes only during runs: a run begins by looking at whatever the initial state and
the runs before it have left there.

### Extension

The registry of `ClusterRegistry` with all its actions, and next to it what the
agent holds: `targets`, and for each execution how far its calls have come, the
name (`source`) and the seed brokers (`hosts`) that Prepare has put into its
state. `Found` and `Lookup` are `GetClusterConfig`; `Client` combines the saved
seed brokers with the settings looked up anew, as `Start` and `Stop` do, by
`Sasl` and `Transport`. A cluster answers a client that is secured as its own
configuration says (`Answers`, external). Start may do its work and the answer
be lost, and so may Stop. `Crash` ends the process in any state,
`RestartAfterFatal` follows a `log.Fatal`; both begin again from an empty
registry (`Boot`), with whatever clusters are up then.

### The checks

`PollBegins` is the `time.Now()` at the head of a status function, and the
answer of the brokers (`BrokerCheckStatus`, `TopicCheckStatus`,
`ConsumerGroupCheckStatus`, `ConsumerGroupLagCheckStatus`, with the code's names) comes in a later step, so that
`EndPasses` may come between them. `PollFails` is every return before the state
is touched. A deviation's title is abstracted to the set of changes it names.
`Start` calls the status function, so it is the first poll, but hands its answer
on without `Completed`: a Status follows even if the end has passed by then. A
Start that answers with an error, or carries one, is the end of the check. The
phases are `prepared`, `starting` (Start asks the brokers), `waiting`, `asking`
(Status does) and `ended`. `observed`, `reported` and `concluded` are history:
what the brokers answered, whether the agent was ever told of a failure, and
whether a poll that had begun after the end was answered. A lag of `NoLag` is an answer without the topic, of which the
code reads the zero value (`LagOf`). The agent may end a check after a Status
with an error; the model lets it go on, which includes that case for every
property stated.

The verdict properties say what the code judges. For the partitions this differs
from what the parameters of the check are described to do, in two cases that
`PartitionsVerdict` and `PartitionsDeviatedAt` name: without expected changes it
asks that nothing be reported, and all the time it lets a poll without changes
pass (see the disagreements below).

### The other attacks

`DenyAccess` has executions with the same parameters, hence the same entries.
A request is one action, because the brokers answer it as a whole, but it may
succeed for some entries only, and it may fail after the brokers have done their
part. `DeleteACLs` gives an error for each filter and, within the answer to a
filter, one for each entry it matched; `Stop` looks at the former only, so that
`DenyStop` succeeds if every entry was deleted or refused by such an error. The
history variable `undeleted` holds the entries refused in the last Stop.
`DeleteRecords` is cut at each request: `DeleteStart` reads the end
offsets, `DeletePartition` is one round of the loop, with producers in between.
What a broker makes of an offset (`Requested`, `Refused`, `Truncated`) is
Kafka's: -1 stands for the end of the log, an offset outside of it is refused,
the start never goes back. The numbers of the partitions are whatever the user
enters: `DeletePartition` takes their remainder of 32 bits (`Int32`), as the code
does, and fails for what is not a number of 64 bits. `ElectLeader` is cut at its three requests; the
replicas are a sequence, because their order is what the attack changes.
`relegateLeader` has the code's name and three parts, which `Among` selects as the
code's loop does. The answer of `AlterPartitionAssignments` for the partition is
ignored, as in the code: in `ElectAssign` the brokers carry the assignment out,
which they can if it is `Acceptable`, or refuse it for whatever reason, and the
election follows in both cases; the history variable `taken` says which it was.
`StaleMetadata` lets the first request be answered as if the partition did not
exist.

## Runs

| run | instance | shows |
|---|---|---|
| `ProduceFixed` | 2 workers, 2 records, all faults and broker states | the type invariant and three more, `CancelledOnlyDrains`, `ImplementsPromise`, and under fairness `CancelEndsAll` and `FixedAmountCompletes` |
| `ProduceVerdict` | 2 workers, 1 record, healthy brokers | disagreement 1 |
| `AlterDirect` | 2 executions, values 1 to 3, slow, transient and crash | `StoppedMeansRestored`, `CallsEnd` |
| `AlterThreads` | 1 execution, values 1, 2, 3, 5, 8, 13, with no faults or with slow, transient and crash | `NeverRefused`, `StoppedMeansRestored`, `StepsTowardGoal`, without faults `GoalReached` |
| `AlterOverlap` | 2 executions, no faults | disagreement 2 |
| `RegistrySafety` | 3 clusters, two with one name, a legacy configuration, 2 discoveries | `NothingLost`, `ImplementsPromise` |
| `Extension` | 2 clusters with different settings, 1 discovery, 1 execution, 2 crashes, fair | `OwnCluster`, `RegisteredForGood`, `OneClusterSuffices`, `AttackUndone` |
| `Discovery` | 2 clusters, an ordinary and an internal object, 2 changes in a run, fair | `NothingInvented`, `NothingMissed`, `RunsEnd` |
| `RegistryRace` | 2 clusters, 2 discoveries | disagreement 3 |
| `ChecksVerdict` | all parameters, 3 answers about 2 brokers, 2 partitions, 3 group states, lags 0 to 2 and none | one verdict property for each check, `FirstDeviationIsKept` |
| `AttacksSafe` | 2 denials of 3 entries, 2 partitions with up to 3 records, up to 2 numbers entered for them, 3 replicas in any order | `NoDenialRemains`, `DeniedWhileStarted`, `NewestKept`, `DeletedAsAsked`, `LeaderRelegated`, `SuccessMovesLeader` |
| `ElectStale` | the same with stale metadata | disagreement 4 |

Why these bounds are enough:

- Producer: two workers are the smallest number for which check, produce and
  count interleave, and two records the smallest amount for which a surplus
  request can follow a counted one. The channel holds as many jobs as there are
  workers, so two workers fill and empty it in every order. The theorems hold
  for every number of workers and records, and for both front ends; only
  liveness rests on the bound. The periodic action has no run of its own: it
  shares the pool, the scheduler and Stop with the fixed amount, and differs in
  that its counter never ends it, which makes `FixedAmountCompletes` moot and
  leaves the safety properties to the theorems. `MaxRequests` bounds its
  counter for whoever instantiates it.
- Alter: with three values two targets and an original can all differ. The
  values of `AlterThreads` include odd ones, one, neighbours that need no
  second step and pairs that need four. Three failed attempts are the code's
  own number.
- Registry: three names with one shared are the fewest that show a pending
  cluster whose name is taken next to one whose name is free. Two discoveries
  are enough for every stale copy; a third runs the same code.
- Extension: one discovery, because what two of them do to the registry is
  `RegistrySafety`'s question; two clusters are a right one and a wrong one.
  With two crashes (`MaxCrashes`) a process can end between Prepare and Start
  and again between Start and Stop. There is no legacy cluster in the run: which
  configuration is used then is `RegistrySafety`'s question as well.
- Discovery: two clusters are one that fails and one that answers; one object
  that may be reported and one that may not, either of which can be controller;
  two changes (`MaxChanges`) let an object or the controller go and come back
  between two requests.
- Checks: the last answer may come only after the end, so three answers
  (`MaxPolls`) are a first one, a change and a change back (for the brokers
  `Prepare` is the first). A Start after the end leaves room for one Status. Two
  partitions can vanish and come back independently; two of the four kinds of
  partition change stand for all four, which the code treats alike.
- Attacks: two denials share, three entries can be created or deleted in part;
  two partitions are a first and a later one, and logs of up to three records
  (`MaxEnd`) are shorter and longer than what is to be kept. The numbers entered
  for partitions (`Asked`, up to `MaxChosen` of them) are the two of the topic,
  one it does not have and one that wraps to the first, next to a text that is
  none; `Wrap`, 2^32 in the code, is 8, because TLC's own integers have 32 bits,
  and the theorems hold for any. With three replicas there are two candidates for
  the leadership in every order and every set in sync.

Fairness. `ProduceLoad`: the Go scheduler runs every goroutine that can run, and
the agent polls Status and waits for a Stop it has begun. Weak fairness of the
scheduler and of each worker as a whole says no more than that; there is no
fairness among the branches of a `select`, none for calling Stop, and none for
the brokers: `FixedAmountCompletes` assumes in its antecedent that they answer
in the end, that some worker got its client and that the extension does not
restart. `BrokerConfigAlter`: a handler
runs on, and a broker applies what it accepted; faults are never fair.
`ClusterRegistry`: startup runs on, and each discovery is scheduled again and
again by the SDK; clusters need not be up, what they do is in the antecedents.
`Discovery`: goroutines and the collector run on, and a request ends, with an
error if need be. `Extension`: as for the registry, with the fairness of the
environment stated apart. A process that ended is started again, which the
systemd unit says (`linuxpkg/systemd/steadybit-extension-kafka.service` 12,
`Restart=on-failure`) and a Kubernetes Deployment does; the crashes are
bounded, as they have to be for anything to be reached. That the agent repeats
a Stop which fails is an assumption about the agent, in `AttackUndone` alone.

## Proofs

Every invariant and every action property that a passing run checks is also a
theorem, for every value of the constants that the modules' assumptions allow.
The assumptions give types to the constants (names are strings, sizes are
positive, sets that are counted are finite). They leave out numbers that the
handlers do not reject although they make no sense there: negative durations,
numbers of workers and lags, success rates above 100, and configuration values
of zero and below (`ConfigAssumption`). Of these a number of threads below one or
a limit below zero is refused by the brokers, so that such a Start fails on the
way; the limit zero is a value like any other. Four theorems need a hypothesis
besides; it is stated with them below.

Each module of proofs states its inductive invariant, `IInv`, at its head; the
properties follow from it. Except for the type invariants hardly any property is
inductive as it stands, so that `IInv` says what else is always true.

### The producer (`ProduceLoadProofs`)

For every finite nonempty set of workers, every number of records, duration,
rate, broker behaviour and combination of faults: `TypeCorrect`, in particular
that the channel never holds more than `MaxConcurrent` jobs; `Overshoot`,
`Successes` and `NoLeaks`, the three other invariants of the run; `Order`, the
invariant `LifecycleOrder` that they rest on and no run checks; `Drains`: once
cancelled, an execution only uses up the work it has; `Implementation`:
`ProduceLoad` implements `LoadPromise` under the mapping `Promise`, by which
queued jobs, the tick in the scheduler's hand and the jobs taken by workers are
grants, and producing workers are in flight.

`IInv` is the conjunction of `TypeOK` and the four others. Each is inductive
together with `TypeOK`, for which they were strengthened: `OvershootBound`
counts the requests in flight next to the counted ones, since a bound on the
counter alone is not preserved by a request that is counted;
`SuccessesAreRequests` counts the workers between the two increments;
`LifecycleOrder` says what exists before each call, so that `Start` finds room
in the channel. The refinement needs the types alone: a worker begins only as
one of `MaxConcurrent`, hence there is always room for it among the others in
flight. Two facts about cardinalities carry the counting: `WorkersFinite`, and
`MoveCounts`, that a worker which moves from one state to another changes two
numbers by one and no other.

### The configuration attacks (`BrokerConfigAlterProofs`)

For any values and faults and any number of overlapping executions:
`TypeCorrect`, and `StopRestores`: if every execution that was begun had saved
the original value and was stopped with success, the broker has that value,
accepted and in effect. The argument is about debts: as long as the value
accepted is not the original one, some execution `Owes` a write, and as long as
the value in effect is not, some execution is `Open`. A broker applies changes
later than it accepts them, so the two are not the same execution: the one whose
last write was the original value owes nothing any more, yet is open until it has
read the value back. `PendingWriter` says whose the change is that is still to be
applied.

`StepsArePermitted` (`NeverRefused`) and `StepsApproachTheGoal`
(`StepsTowardGoal`) have the hypothesis `OneAtATime`: a thread attack is alone
with its broker. It is necessary: a second execution moves the value between the
read of the first and its write, so that a step computed from the value read may
be more than double or less than half of the value then in effect. The further
invariant, `Alone`, says that accepted and effective value lie between original
value and target, and `NextValueFacts` and `NextValueIsNotBehind` what
`adjustThreadsWithConfig`'s formula computes: a size of at least one, within half
and double of the current one, on the way to the target and nearer to it.

### The registry (`ClusterRegistryProofs`) and the process (`ExtensionProofs`)

For any list of names with any collisions, any legacy configuration and any
number of discoveries: `TypeCorrect`, `NoClusterIsLost`, `RegisteredUnderOwnName`
(which no run checks) and `RegistryImplementsPromise`, the refinement of
`RegistryPromise`. A discovery works from a copy of the pending list that may be
stale. What makes this harmless is in the invariant: copies hold only clusters
that were parsed (`OnlyParsed`), whatever is registered is registered under the
name it was configured with (`OwnName`), and a cluster that was parsed is
registered or pending and never both (`NothingLost`). So a cluster of the copy
whose name is free is still pending, and its registration is a `FindLate` of the
promise; one whose name is taken is left alone. `RemovedFromList` says what the
removal from the pending slice leaves.

The process keeps these invariants across crashes, because a restart is the
registry's initial state again. `ExtensionProofs` instantiates the registry's
proofs and cites them for every step of the registry; the rest is `OwnHosts`,
that an execution carries the seed brokers of the cluster its target came from.
With the registry's `OwnName` this gives `CallsGoToOwnCluster`, for any number of
crashes, executions and discoveries.

### The discoveries (`DiscoveryProofs`)

For any finite set of clusters and any objects: `TypeCorrect`, `ReportsAreTrue`
(`NothingInvented`) and `ReportsAreComplete` (`NothingMissed`). The invariant says
of each goroutine what its result may hold after each of its requests
(`TrueResults`), relative to what was there at some time, or all the time, since
the run began (`Window`), and that no goroutine of the run is left when the
collector has counted as many results as it has started goroutines
(`AllReceivedMeansAll`).

### The checks (`ChecksProofs`)

For any sets of brokers, partitions, states and lags and any number of polls:
`TypeCorrect`, a theorem for the verdict of each check (`BrokersAreJudged`,
`PartitionsAreJudged`, `GroupIsJudged`, `LagIsJudged`) and `FirstIsKept`. The
verdict is not inductive: it says nothing of the flags the verdict is made from.
`Told` says of them what the history says: the success flag is set exactly if some
poll showed what was expected once, there is a title exactly if some poll has
deviated and the check does not fail early, and a failure was reported exactly if
one was due: early, or because a poll after the end was answered (`concluded`).
`Polling` adds that nothing has been told as long as only Start could have, so
that a Status after a Start past the end begins with a clean slate.
`PartitionsAreJudged` is about what the code judges: nothing is reported without
expected changes, and a poll without changes does not deviate. `JudgeTells` proves for all checks at once that a poll adds what
it found to what was told; `BrokersHistory` and `PartitionsHistory` prove that
what a poll finds by the remembered state is what the whole history shows. For
the partitions, which may vanish and come back, that rests on `SeenByPoll`: the
last poll that saw a partition is the new one, if it is in its answer, and else
the one it was before.

### The other attacks (`AttacksProofs`)

For any numbers of entries, executions, partitions, records and replicas
(`MaxEnd` and `MaxChosen` bound the logs and the choice, at any number):
`TypeCorrect`; `StopRemovesDenials` and `StartDenies`; `NewestAreKept` and
`DeletesAsAsked`, whose invariant says that the partitions the loop has passed
have lost what they should and the others nothing; `LeaderIsRelegated` and
`SuccessMeansNewLeader`. They say what the code achieves next to brokers that
refuse. `StopRemovesDenials`: what is left after the Stops are entries a broker
refused to delete one by one in the last of them (`undeleted`), because such
errors are not looked at. `DeletesAsAsked`: a number stands for its remainder of
32 bits. `SuccessMeansNewLeader`: a success moves the leadership, and away from
the leader found if the assignment was carried out (`taken`); if the brokers
refused it, the preferred replica may be that very leader. The last two theorems
have the hypothesis `~StaleMetadata`: what happens otherwise is disagreement 4.
`SuccessMeansNewLeader` also assumes that
there are two replicas (`Several`): a partition with a single one that has lost
its leader gets it back by the election. What `relegateLeader` returns for a list
of any length is proved by induction on its length, through the least number for
which the claim fails (`LeastNumber`): `AmongFacts` gives the selected replicas in
their order, `RelegatedOrder` and `RelegatedOnce` the three parts of the result.

### Model-checked only

Liveness: `CancelEndsAll`, `FixedAmountCompletes`, `CallsEnd`, `GoalReached`,
`RunsEnd`, `RegisteredForGood`, `OneClusterSuffices` and `AttackUndone`. It rests
on fairness and ENABLED, which are beyond the prover; the theorems cover the steps
such behaviours are made of, for instance that each step of a thread attack goes
towards its goal, or that a cancelled execution gains no work. The expected
violations are TLC's too.

## Where documentation and code disagree

Four disagreements have a run whose counterexample shows them; `PROJECT.json`
quotes the lines.

1. A fixed amount execution that produced everything on healthy brokers can
   fail: the end cancels surplus records in flight, and they count as failed
   requests (`produce.go` 158).
2. With overlapping executions the second saves and restores the first one's
   value, not the original (`alter_max_message_bytes.go` 83).
3. `RegisterCluster` writes `ClusterID` of a published configuration while
   another discovery reads it (`config/config.go` 227).
4. If the brokers' answer does not have the partition, the elect new leader
   attack goes on with the zero value, leader 0 and no replicas, and assigns the
   partition to broker 0 alone (`partition_attack_elect_new_leader.go` 119).

The models reproduce these others, for which no run is kept:

- up to `MaxConcurrent - 1` records more than "Total number of records to
  produce" (`produceFixAmount.go` 93) are produced; `OvershootBound` is the
  exact limit;
- `stop` reads the two counters one after the other (`produce.go` 275, 278), so
  the success rate can exceed 100 percent and a rate that is too low can pass;
- after a restart Stop finds no run data, logs "stop was already called" and
  succeeds (`produce.go` 266-271, `StopWithoutData`), whatever the success rate;
- with more records than milliseconds the delay is zero and Start panics
  (`produce.go` 221, `StartPanics`);
- the deadline computed at `produce.go` 52 is read nowhere: the fixed amount
  action ends by its counter alone, however long that takes;
- if the change of Start has been accepted but not applied, Stop of a thread
  attack reads the old value, writes nothing and succeeds; the change then takes
  effect and stays (`common.go` 535);
- the partition check evaluates nothing when no change is expected, although
  its parameter says "If left empty, any partition change triggers the check"
  (`check_partitions.go` 313, line 100), as the check of brokers does;
  `PartitionsVerdict` says what the code does;
- the entries of two denials with the same parameters are shared: the first Stop
  ends both, and removes entries that were there before (`broker_deny_user.go`
  176);
- a Stop of the denial looks at the error of each filter, not at those of the
  entries it matched (`broker_deny_user.go` 181-189), so that it succeeds when a
  broker has refused to delete one and the denial stays; line 64 says that the
  rule "is automatically removed when the duration expires".
  `NoDenialRemains` allows for such entries and for no others;
- the number of a partition is parsed with 64 bits and used with 32
  (`delete_last_records.go` 133-138): 4294967296 empties partition 0 and
  succeeds, although "Only the selected partitions are affected" (line 67).
  `DeletedAsAsked` is stated with the remainder;
- the answer for the partition in `AlterPartitionAssignments` is dropped
  (`partition_attack_elect_new_leader.go` 124): if the brokers refuse the
  assignment and the leader has moved meanwhile, the election leads back to the
  leader that was found and the attack reports success. `SuccessMovesLeader`
  promises another leader only if the assignment was carried out;
- a negative number of records to keep is accepted, and deletes records that
  were written after the attack looked (`delete_last_records.go` 144);
- the id of a broker target is its host and port without the cluster, unlike
  those of topics and groups, so that two clusters whose brokers have the same
  addresses inside their networks give targets with the same id
  (`broker_discovery.go` 290; `topic_discovery.go` 231);
- a consumer group discovery in which every broker fails for its share of the
  groups counts as an answer without groups (`consumergroup_discovery.go` 158);
- the legacy cluster is registered only when no indexed one answers at startup:
  after a restart at which one does, executions on the legacy cluster find no
  configuration any more and cannot be stopped (`config/config.go` 72-78);
- a duplicate cluster name is noticed at startup only if the first of the two
  clusters was up (`config/config.go` 148), otherwise one stays pending;
- the legacy configuration is used whenever no indexed cluster answers, also
  next to configured ones (`config/config.go` 78; `README.md` 42 says it is
  ignored then);
- if no cluster answers at startup the process ends, and nothing is retried
  (`config/config.go` 79; line 155 says "will retry during discovery");
- a broker that joins is reported as "kafka broker with downtime"
  (`check_brokers.go` 263);
- in the mode "all the time" a poll without changes is a deviation for the
  brokers and none for partitions (`check_partitions.go` 320; line 125 says
  "every poll must detect the change");
- a lag equal to the acceptable lag fails (`check_topic_lag_for_consumer.go`
  251; line 97 says "exceeds").

## Not modelled

Record contents, metrics, messages and descriptions (constant data for the
platform); the TLS handshake, certificates and SASL exchanges, which are the
libraries' own (which settings a client gets is in `Extension`); the functions
`createNewClient`, `createNewAdminClient` and `adjustThreads` without a cluster
configuration, which no action calls any more; attributes of discovery targets other than cluster, object and controller; the SDK's cache in
front of the discoveries;
`resolveStatusCodeExpression` in `util.go`, which only its test uses; the Helm
chart and the packages. The float rounding of the success rate (29 of 100
requests are 28.999999999999996 percent) is out of TLC's reach: the model
compares integers. In `ProduceLoad` the number of milliseconds between ticks is
abstracted: a tick may come at any time.

## Plan

Done: the models and runs of all components, and the theorems above for every
invariant and action property the passing runs check. What is left to prove:

1. What bounds the work towards the liveness properties: that each retry, step and
   deletion uses up something that is finite, as invariants or action properties
   of `BrokerConfigAlter`, `Discovery` and `Attacks`.
2. A promise for the discoveries and one for the configuration attacks, as
   `RegistryPromise` is for the registry, and the refinements.
3. What overlapping executions of a thread attack do keep: bounds on the value
   in effect without `OneAtATime`.
