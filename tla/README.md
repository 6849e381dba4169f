# vmshed: a verification project

vmshed runs a suite of tests on virtual machines. It decides which test runs a
suite has, pulls and builds the VM images they need, starts and stops VMs and
networks with external `virter` commands, runs many tests at once within a
budget of VM IDs, and reports results. Sources named below are under `src/`.

This directory holds TLA+ modules that model that program, the TLC
configurations that check them on small suites, and theorems, checked by TLAPS,
that hold for suites of every size.

Contents: [1 the system](#1-the-system), [2 the modules](#2-the-modules),
[3 the runs](#3-the-runs), [4 fairness](#4-fairness),
[5 the proofs](#5-the-proofs), [6 findings](#6-findings),
[7 what is not modelled](#7-what-is-not-modelled), [8 the plan](#8-the-plan).

## 1 The system

### Inventory

| component | state | operations |
|---|---|---|
| scheduler, `cmd/schedule.go` | `suiteState`: networks and their stages, pull stage per base image, provision stage per VM ID, stage and result per test ID, free VM IDs, free subnets, errors; `activeActions`, `softExpired`, the loop's context | `scheduleLoop`, `chooseNextAction`, `runStopping`, and the four actions with `updatePre`, `exec`, `updatePost`; `tearDown` |
| subnet list, `cmd/network_list.go` | current subnet per family, the set of free ones | `ReserveNext`, `Free` |
| networks, `cmd/network.go` | none of its own | `virter network add`, `virter network rm` |
| command runner, `cmd/exec.go` | one process, one handler goroutine, two channels per command | `cmdStderrTerm`, `cmdRunTerm`, `handleTermination` |
| test execution, `cmd/test.go` | `testResult` | `performTest`, `execTest` |
| VMs and images, `cmd/vm.go` | none of its own; the host's VMs and images, a deadline per build | `pullImage`, `provisionImage`, `removeImages`, `startVMs`, `runVM`, `shutdownVMs` |
| test run determination, `cmd/vmshed.go` | `testSuiteRun.testRuns`, `vmSpec.VMs` | `createTestSuiteRun` and what it calls |
| suite run, `cmd/vmshed.go` | the results of the scheduler | `rootCommand`, `provisionAndExec`, `printSummaryTable` |
| results, `cmd/results.go` | `results.json` | `saveResultsJSON` |
| XML, `cmd/xml.go` | the XML file of a test | `XMLLog` |
| test logs, `cmd/log.go` | the standard log, one log per test | `TestLogger`, the hook `Fire`, `dumpStderr` |
| command line, TOML | - | input formats, not modelled |

### How they interact

    rootCommand --> createTestSuiteRun            (once, sequential)
         |
         +--> provisionAndExec --> virter image ls    (alone, makes the key pair)
         |         |
         |         +--> scheduleLoop  ---- go exec(ctx) ----> performTest / pullImage /
         |         |        ^   owns suiteState               provisionImage / addNetwork
         |         |        +------ channel "results" --------+        |
         |         |        +------ soft timer                         v
         |         |                                       cmdStderrTerm --> process
         |         +--> tearDown                            handleTermination --> SIGTERM, SIGKILL
         |         +--> removeImages (deferred)
         +--> saveResultsJSON --> printSummaryTable --> exit code

- One goroutine owns `suiteState`. The goroutines of the actions return their
  result through a channel without a buffer; `updatePost` is called by the owner.
- Cancelling is by context: a signal cancels the context of the whole run, the
  scheduler cancels its own when a failure stops the suite. Every command has a
  handler goroutine that turns the end of the context into SIGTERM and, 30
  seconds later, SIGKILL.
- VM IDs, networks and subnets are shared by the actions. They are taken in
  `updatePre` and given back in `updatePost` (subnets never are).

### What is hard, and what makes each component correct

The list of hazards, each at its line, with the properties that would show it
going wrong, is `hazards` in `PROJECT.json`. In short:

- **Scheduler.** Results, a signal and the soft timer come in any order, between
  any two launches. Correct means: IDs, networks and subnets are exclusive; one
  network is added at a time; a stage that says "in progress" is matched by one
  goroutine; a test has the images, IDs and networks it needs while it runs;
  after the reason to stop no action starts; the loop ends, and not before
  every run that can be executed has been; every run gets the right result.
- **Command runner.** The exit of a process races the signals sent to it. Correct
  means: nothing is left running, nothing is signalled late, a failure is never
  reported as a success, whoever is told to stop does.
- **Test execution.** A timeout, a cancellation and the end of the test race; VMs
  start side by side and may fail one by one. Correct means: the script sees
  fresh VMs, the verdict names the cause, no VM is left unless it should be.
- **VMs and images.** Pulls and builds run side by side under one context, with
  deadlines that race it. Correct means: what is called provisioned was built by
  this run, and a cancelled build says so.
- **Test logs.** Tests log at the same time, through one standard logger, and the
  hook adds the test ID to data that the entry of the test's own logger shares.
  Correct means: each message is in both logs, with the ID in one only.
- **Suite run.** What is left on the host, what is recorded and the exit code
  come from different parts of the state. Correct means: exit code 0 is
  deserved, VMs kept for inspection stay usable, images do not pile up.
- **Test run determination.** Four filters and a product. Correct means: the
  documented product, unique IDs, suitable VMs, no superfluous images.

## 2 The modules

| module | models | composes |
|---|---|---|
| `NetworkList` | `network_list.go`, operators that return the outcomes of a call | - |
| `Scheduler` | `schedule.go`; one action per kind of launch, result and event; `network.go` by the outcomes of its commands | extends `NetworkList`, `TestResult`; refines `WorkPool` |
| `WorkPool` | the abstract specification of the scheduler: work is begun once, when what it needs is done, with resources of its own, and not after a stop | - |
| `Suite` | `provisionAndExec` to the exit code, and what actions do to the host | extends `Scheduler` |
| `TestResult` | the results a test may deliver | shared by `Scheduler` and `TestPromise` |
| `TestExec` | one test run: `performTest`, `execTest`, `startVMs`, `runVM`, `shutdownVMs`, `XMLLog` | uses commands as `CommandPromise` allows; refines `TestPromise` |
| `TestPromise` | the abstract specification of a test: one result, of those the scheduler receives, and soon when told to stop, unless blocked by a child of its script | extends `TestResult` |
| `ImageExec` | `pullImage` and `provisionImage`, several at once | refines `CommandPromise` |
| `Command` | `exec.go`: caller, handler and process of several commands | refines `CommandPromise` |
| `CommandPromise` | the abstract specification of a command: one answer, no failure without a cause, an answer when told to stop | - |
| `TestLog` | `log.go` and the logging of `execTest`, several tests at once | - |
| `TestRunPlan` | `createTestSuiteRun` and everything below it | - |
| `MCScheduler`, `MCSuite`, `MCCommand`, `MCImageExec`, `MCTestLog`, `MCTestRunPlan` | small suites, commands, images, tests and specifications for TLC | extend the above |
| `SchedulerProofs` | theorems about `Scheduler`: types, resources, stages, and that it is a `WorkPool` | extends `Scheduler` |
| `ChoiceProofs` | theorems about what the scheduler chooses, and that it comes to an end | extends `SchedulerProofs` |
| `SuiteProofs` | theorems about results and networks of the scheduler, and about `Suite` | extends `Suite`, `ChoiceProofs` |
| `CommandProofs`, `TestExecProofs`, `ImageProofs`, `TestLogProofs`, `PlanProofs` | theorems about `Command`, `TestExec`, `ImageExec`, `TestLog`, `TestRunPlan` | each extends its module |

The layers meet in the abstract specifications. `Command` shows that commands
keep `CommandPromise`; `TestExec` and `ImageExec` take each command as a step
with the outcomes it allows. They keep promises in turn, `TestPromise` and again
`CommandPromise`, and these are what `Scheduler` assumes of the goroutines it
starts: `FinishTest` receives exactly the results `Deliverable` names, by the
same operator. `WorkPool` is what the scheduler promises to its user.

A definition whose name is that of another with a suffix (`getIDsFromZero`
beside `getIDs`) is a faulty variant of it, in no specification. Replacing the
original by it makes a property fail, which shows that the property can fail
(`mutants` in `PROJECT.json`).

### Scheduler

The variables are the fields of `suiteState` and the locals of `scheduleLoop`.
`pc` says where the goroutine is: `schedule` is the inner loop, `wait` the
`select`, `stopped` after the loop, `panicking` in deferred calls, `returned`
and `crashed` the ends. `outstanding` is the set of actions whose goroutine has
not delivered its result: kind, number of run, image or network, and the IDs and
networks taken for it.

- `StartTest`, `StartPull`, `StartProvision` and `StartAddNetwork` are one
  iteration of the inner loop, with the `updatePre` of the chosen action;
  `PanicAddNetwork` is the panic of `ReserveNext`.
- `AwaitResult` and `LeaveLoop` are the two ways out of the inner loop; the
  errors for skipped runs belong to `LeaveLoop`.
- `FinishTest`, `FinishPull`, `FinishProvision`, `FinishAddNetwork` are a result
  received, the `updatePost`, and the `cancel()` at the end of the iteration. A
  result is any the environment allows: success always, the failures in `Faults`,
  and, once the context is done, failure for whatever reason.
- `SoftTimer`, `Interrupt` are the environment; `TearDown` is `tearDown`.
- `hostNets` is what `addNetwork` and `removeNetwork` have done to the host; a
  command that fails may have had its effect or not.

`chooseNextAction` and its helpers are operators that return a set: the choices
the code may make, empty for nil. Where the code keeps the best of a list by
comparing each with the best so far, `bestRun` states what is kept: the run that
betters all before it and that none after it betters. That agrees with the loop
because `runBetter` orders runs by size, readiness and priority, and ties go to
the first.

`KeepsPool` maps the scheduler to a `WorkPool`. `AllWork` is every test, base
image and VM ID; `WorkPhase` reads the stage of the work, `WorkHolds` the IDs and
networks of its outstanding action, `WorkNeeds` the images a test or a build
needs, and `Stopped` is what `runStopping`, the signal and the soft timer have in
common. Networks have no work of their own there: adding them is a stutter.

Networks, runs and VMs are numbered by position, so that a network's number
stands for its name. Subnets are numbers within a family. Log text, directories
and command lines are left out. The string that identifies an error is abstracted to
who failed and in which way.

### Suite

Adds the phases around the scheduler and three facts about the host: which
provisioned images exist (`images`), which VMs were left in place by a failed
test and with which networks (`kept`), and what was written (`recorded`). A step
of the scheduler updates them according to the actions it begins and ends. An
action that is given an ID removes the VMs of that name, so it ends the life of
kept VMs. `RemoveImages` takes any set of images that could not be removed, and
`SaveResultsFails` leaves the runs encoded so far.

### Command

Each command has three actors. `Start` to `WriteLogs` are the caller,
`Terminate`, `Kill` and `HandlerStops` the handler, whose two cases of a
`select` are both enabled when both channels are ready; `Exit...` and
`PipeCloses` are the process and its children. Contexts end by the suite's
(`SuiteStops`) or a deadline (`Expire`). `Process.Wait` is two steps: the
process is reaped, and stderr has been read to its end.

### TestExec

`pc` is the goroutine of the test, `goroutine[n]` that of VM `n`. A command is
one step. What it may answer is what `CommandPromise` says: success, a failure
of its own where `Faults` allows it, any failure once its context is done. Only
`virter vm exec` has two: it runs a script of the suite, whose children may hold
its stderr. `ScriptExits` is the end of its process, `pipe` says that such a child
is left, `PipeCloses` is the end of the last one, and `RunTest` the return of
`cmdRunTerm`, which waits for it. (The other `virter` commands are taken to start no
such children, as in `Prompt` of `CommandPromise`.) The
end of the command and the look at `testCtx.Err()` are separate steps, because
the timer may fire in between; so are the copy of the artifacts and the look at
`ctx.Err()`. `Judge` is the verdict, `RemoveVM`, `RemoveVMFails` and
`ShutdownDone` the deferred `shutdownVMs`, and `Report` what `performTest` does
after: the log, the XML file (`WriteXML`, which reads `err` as `XMLLog` does) and
the report, each of which may fail and then puts an error in the result.

### ImageExec

`pc` is the goroutine of each pull or build. `StartRemoval` and `RemovalReturns`
are `virter image rm`, `BuildReturns` is `virter image build`, and `LookAtCtx`
and `LookAtProvisionCtx` are the two looks at contexts that follow it, steps of
their own because a deadline or a cancellation may come in between. A removal
or a build that fails may have had its effect. An image of an earlier run may be
there when it starts.

### TestLog

`call[t][what]` follows the call of test `t`'s logger for a message. `Debugf` makes
an entry. logrus, which is external, gives each call an entry and a Data map of its
own, so calls of the goroutines that start the VMs of a test do not share one. The
hook `Fire` is three steps: `AddID` copies the entry and writes the test ID into the
map, which the copy shares (`data`), `LogCopy` writes the copy to the standard log
and `DeleteID` takes the ID away. `WriteEntry` then writes the entry to the test's
log, with what is in `data` at that time. Other goroutines log in between.
`KeepID`, the mutant, leaves the ID in the map. `DumpStderr` writes past the logger
while artifacts are copied and VMs removed. `Proceed` ends a phase of `execTest`, and
copies the log into the result where the code says `return res`.

### TestRunPlan

A step is an iteration of one of the loops: `TakeTest` that over the tests, in any
order (a Go map), `SkipVariant` and `VariantDone` that over the variants,
`CountDone` that over the VM counts, `Determine` that over the repeats, in
which VMs are drawn in any way. `made` is `len(testRuns)` of the call, from which
the counters come. A VM is its position in the specification, so a filtered list is
a set of positions: filters keep the order, and two VMs that say the same stay
two. The test ID is the tuple of the parts that the code formats into a string
with dashes; the string tells the parts apart unless a variant has a dash in its
name.

## 3 The runs

| run | states | the question |
|---|---|---|
| `core` | 143953 | Five runs contend for five IDs; tests, pulls, builds and network adds fail, a signal and the soft timeout come at any time, under `--on-failure continue`. Are resources exclusive, tests equipped and on images that are ready, larger runs first, all runs executed unless there is a reason to stop, does nothing start after that, and does it end? |
| `faults` | 3511 | Every fault at any time under `keep-vms`, both IP versions, IPv4 subnets that run out, a run that can never fit. What cancels? Is each run's result the one its history gives it? Are networks reused, and do they outlive their users? Is the scheduler a `WorkPool`? Does it run out of steps? |
| `commands` | 8214 | A build that may fail and writes a log and metadata, beside a script that does not fail by itself, ignores SIGTERM and has children that hold stderr. Is anything left behind, or signalled late? Is what is reported true? Does `Command` implement `CommandPromise`? |
| `test_run` | 1371 | One test, two VMs, every fault, a script whose children may hold stderr, a timeout and a cancellation at any moment, under `keep-vms`. Does `TestExec` implement `TestPromise`? |
| `canceled_runs` | - | A cancelled run is left out of `results.json`: violated, see [6](#6-findings). |
| `images` | 5932 | A pull and two builds, one of them faulty, with images of an earlier run. |
| `test_logs` | 7921 | Two tests with two VMs each log at the same time. Is each message in both logs, with the ID only in the standard one? |
| `lost_log` | - | The result of a test has its messages: violated. |
| `suite` | 5953 | A whole run with `keep-vms`, every fault but stuck images. What survives on the host, and when is the exit code 0? |
| `suite_soft` | - | A set-up failure before the soft timeout is reported: violated. |
| `plan` | 19056 | Three tests, two variants, three VMs, every combination of filters. Is the plan the documented product, with suitable VMs and no superfluous images? |
| `repeated_count` | - | Test IDs are unique: violated. |

Each property has a mutant: a plausible error in one definition of the model,
with which the same run finds the property violated.

### Bounds, and why they are enough

- *Runs.* The suite of `core` has runs of one, two and four VMs with five IDs: a
  large run must wait for small ones, and small ones may overtake if the
  rule against it fails. The largest fits beside one build, so it may not start
  before the images of all its VMs are built, whichever build comes last. It has two equal extra networks in one run, the same
  kind wanted by another, and a run with an IPv6 access network. Two actions
  compete for whatever is scarce, a third may come between.
- *IDs.* Two or five, from 2 upward: a first ID other than 0 or 1 tells an offset
  from an index. `huge` in `MixedRuns` (`faults`) never fits.
- *Images.* One base image with a derived name, or two base images: pulls are by
  base image, builds by ID, and both can be shared or not.
- *Subnets.* `Plenty` is more than any suite can use. `Scarce` ends IPv4 at the
  third, so `ReserveNext` panics while tests run (`faults`).
- *Faults.* A run lists the kinds that may occur. They occur at any time and any
  number of times. `core` has no failing removal of networks: it happens after
  the loop, where its properties have nothing more to say (`faults` has it).
  Nothing is retried, so no counter has to be capped and all
  state spaces are finite.
- *Commands.* Two share the suite's context, which is what couples them. They
  differ in everything the code looks at but one. The script does not fail by
  itself, so that an error of it has to have another cause (`CommandPromise` allows
  no other). A command detached from the
  context (`Detached`) is left to the theorems, which cover any number of
  commands of any kind.
- *VMs of a test.* Two: one fails while the other is not started, starting or up.
- *Images.* One base image and two builds: one that works beside one that fails.
  A build does not read what another writes, so a third adds nothing.
- *Logs.* Two tests with two VMs: messages of one test and of two may meet.
- *Specifications.* The combinations of the two flags on base images, the lists of
  tests and variants; a test for each of `vms`, `samevms`, `needallplatforms`.

No symmetry is declared: the order of runs, VMs and networks matters to the code.

Deadlock is checked in every run; stuttering actions (`Terminated`, `Exited`,
`Delivered`, `Planned`) mark the states in which the program has come to its
end.

## 4 Fairness

- `Scheduler!FairSpec`: weak fairness of the scheduler's own steps, results
  included. The goroutine runs when it can. That results arrive is an assumption
  on the commands: pulls, network adds and VM starts have no timeout, and a script may
  leave a child behind that holds stderr, so the code does not guarantee it by itself. No fairness for the soft timer and the
  signal: `Termination` must not depend on them.
- `Suite!SuiteFairSpec`: the same, to the exit of vmshed.
- `Command!FairSpec`: goroutines run, deadlines and the 30 seconds pass, a
  process sent SIGKILL dies. Nothing is assumed of a process that was not killed,
  nor of its children. A child that holds stderr open can keep `cmd.Wait` and so
  the caller for ever: `KeepsPromise` promises an answer for the commands
  without such children only (`Prompt`), and everything else for all.
- `TestExec!FairSpec`: the goroutine runs, the test timer fires, the processes of
  commands that have a timeout or whose context is done end. The start of VMs is not
  assumed to end by itself, which is why `TestEnds` speaks of a test that is
  cancelled or has its VMs. Nothing is assumed of the children of the script: one
  that holds stderr for ever keeps `execTest` in `cmd.Wait` for ever, timeout or not.
  `TestEnds` and `KeepsTestPromise` (`blocked` in `TestPromise`) except exactly
  that, as `KeepsPromise` of `Command` does.
- `ImageExec!FairSpec`: deadlines pass, a command that is told to stop ends (as
  `CommandPromise` says), and what follows a command runs. A pull has no deadline:
  it is not assumed to end unless the run is cancelled. `CancelWins` and
  `KeepsPromise` need no more.
- The abstract specifications are fair only in that whoever is told to stop
  answers.

## 5 The proofs

All theorems hold for every value of the constants that satisfies the named
assumptions: every suite, policy, number of VM IDs, address space and set of
faults; any number of commands, of images, of VMs of a test, and of tests that log; every
specification.

- `ConfigAssumption`: the VMs and runs are what the configuration types say; each
  VM of a run is one of the VMs of the suite (`removeUnusedVMs` keeps those:
  `OnlyUsedVMsRemain`); ID ranges are not empty; a result that counts as a
  failure has an error, and is neither `SKIPPED` nor `CANCELED`.
- `LastSubnetAssumption`: both families have a last subnet.
- The assumptions of `Command`, `TestExec` and `ImageExec` say that their sets of
  kinds are sets of commands, faults and images.
- `SpecificationAssumption`: the TOML files and flags say what their types allow.
- `NodesAssumption`: the message that a VM is starting is told apart from the others.
- `LargestFirst` and `FailedImagesReported` assume in addition that test IDs differ
  (`DistinctIDs`), and the latter that each VM is one of a run (`VMsUsed`). These two
  are what the plan of the runs provides: `UniqueIDs` proves the first, from
  `DistinctParts` (no two variants of one name, no VM count twice for a test;
  finding 3 is what happens otherwise), and `ExactlyUsedVMs` the second and the
  clause on VMs in `ConfigAssumption`, from `DistinctVMs` (VMs differ in their IDs,
  by which the code compares them). `PlanIsProduct` needs `DistinctParts` too:
  otherwise two kinds of run are one.
- `NetworksBounded` and `StepsRunOut` have the premise that every run has VMs. The
  access network of a run with none is held by no VM ID, so IDs do not bound
  how many there are.

`Strings` is a constant, the strings in use: the proofs need it only to give
records a type, and TLC needs a finite set.

| module | invariant | theorems |
|---|---|---|
| `SchedulerProofs` | `TypeOK`, `ResourceInv`, `SubnetInv`, `StageInv`, `CauseKnown` | `TypeCorrect`, `ExclusiveResources`, `OneNetworkAdd`, `DisjointSubnets`, `StagesMatch`, `ReadyImages`, `NothingAfterStop`, `FailureCancelsAll`, `OnlyFailuresCancel`, `RunsOnce`, `ImplementsPool` |
| `ChoiceProofs` | `EquipInv`, `AddingKnown`, `BuildInv`, `BoundedNetworks`, `AccessKnown` | `EquippedTests`, `LargestFirst`, `NoneForgotten`, `FewNetworks`, `BoundedSteps`, `WaitsEnd` |
| `SuiteProofs` | `MadeInv`, `ResultInv`, `KeptInv`, `PhaseInv`, `FailedImages`, `ExecutedOnImages`, `ImageInv` | `LiveNetworks`, `CompleteResults`, `KeptConnected`, `KeptSurvive`, `ExitCodeZero`, `FailedImagesReported`, `NoImages` |
| `CommandProofs` | `CommandInv` | `NothingLeft`, `TruthfulReports`, `NoLateSignal`, `ImplementsCommandPromise` |
| `TestExecProofs` | `TestInv` | `FreshVMs`, `CauseNamed`, `ReportsAreConsistent`, `RemovedOrLeft`, `ImplementsTestPromise` |
| `ImageProofs` | `ImageInv` | `FreshImages`, `ImplementsImagePromise` |
| `TestLogProofs` | `LogInv` | `LogsAlwaysAgree` |
| `PlanProofs` | `LoopInv`, `RunsInv`, `UsedInv`, `CountInv` | `SuitableVMs`, `ExactlyUsedVMs`, `UniqueIDs`, `PlanIsProduct` |

Most theorems state a property that a run checks. `RunsOnce` states more than any
run does: an executed run keeps its result. `ImplementsCommandPromise`,
`ImplementsTestPromise` and `ImplementsImagePromise` are the safety parts of
`KeepsPromise`, `KeepsTestPromise` and `ImageExec`'s `KeepsPromise`, whose
fairness stays with TLC. `WorkPool` has no fairness, so `ImplementsPool` is all of
`KeepsPool`.

The arguments:

- **Types.** The step lemma needs to know what `chooseNextAction` may return.
  `Choice` is that set, and `ChosenAction` shows that the choice lies in it: a
  test that is new and has its images, IDs that are free, networks that are
  ready. Every later proof uses `Choice` instead of the algorithm.
- **`ResourceInv`** adds to `ResourcesExclusive` and `SingleNetworkAdd` that each
  outstanding network action stands for a network in stage `Add`. Without that
  nothing would tell that the network of an action being launched is not one
  that another action holds, nor that the guard of `makeAddNetworkAction`, which
  reads stages, excludes a second action.
- **`SubnetInv`** adds that every subnet in use has a number below the current one
  of its family (`HandedOut`), and that nothing is ever freed.
- **`StageInv`** adds that work in progress and outstanding actions are in
  one-to-one correspondence (`WorkMatches`: a map `Work` from actions to the stages
  they hold is a bijection), that `activeActions` is the cardinality of
  `outstanding` (`Counted`), and that failures recorded in `errors` show in the
  stages (`FailureShows`): `runStopping` reads the stages, the properties speak
  of the errors, and `NothingAfterStop` is exactly that the two agree.
  `ReadyImages` needs that stages of images only move forward.
- **`CauseKnown`** is the converse, by which `OnlyFailuresCancel` holds: a stage
  that says error has an entry in `errors`, and the loop's context is cancelled
  for such an entry or a signal.
- **Ranks.** The helpers of `chooseNextAction` take the lowest IDs, or the k-th
  ready network. That there are as many as needed is usually shown by induction
  over a list. Here it is shown by counting (`RankBijective`): the rank of an
  element in a finite set of numbers is an injection into as many ranks, hence a
  bijection, hence every rank occurs. The same lemma gives the least and the
  greatest element, and with them the run that the loop of `chooseNextAction`
  keeps (`BestExists`).
- **`EquipInv`** says what each running test holds (`Equipped`): from `LowestCount`
  the IDs, from `OneOfRank` the networks, which are distinct because two
  positions that ask for the same network have different ranks. Networks never
  change their kind (`KindsStay`), so it lasts.
- **Larger runs.** The chosen run is a largest candidate (`BestIsLargest`), and
  candidates fit in the IDs that no test holds: by `EquipInv` the VMs of the
  executing runs and the IDs of their actions are equally many.
- **No run forgotten.** With nothing outstanding and nothing failed, the choice is
  empty only if no image is left to make and no run to start
  (`NothingLeftToChoose`). `AddingKnown` is needed for "no network is being added".
- **Few networks.** A network is added only when too few are ready. Name each one
  in use by an ID of its user and its rank among those the user has of that
  kind, each ready one by a free ID and its rank, the new one by that ID and the
  last rank: an injection into IDs times demand (`RoomForOne`).
- **The pool.** Because `Work` is a bijection, a launch changes the phase and the
  holdings of one piece of work (`LaunchBegins`), a result ends one
  (`ReceiveFinishes`), and every other step leaves phases and holdings alone
  (`OtherStepsQuiet`) while `Stopped` stays once it is true (`StopStays`).
- **The end.** `ToCome` is what may still happen, each thing once: work begins and
  ends, networks are added and have been added, the timer, the signal, the end of
  the loop and of `tearDown`. Work and networks only go on (`NextGoesOn`, from the
  pool, and `NextNetworksGoOn`), so nothing comes back (`ComesLess`); every step but the
  one into a wait takes something away (`NextMoves`), and whatever wakes the
  scheduler from a wait does too. `ToCome` is finite because networks are: each can be
  named by an ID and a use, the one at its rank among the networks of its kind
  (`NetworksFit`, from `BoundedNetworks`), so there are at most `MostNetworks`.
  `WaitsEnd` adds that the wait is for something: the loop waits only
  while an action is outstanding (`NobodyWaitsInVain`, which no run lists, as a wait in
  vain would break `Termination`). With the fairness of section 4 the two give
  `Termination`, by a step that is not machine-checked: a finite set cannot shrink
  for ever.
- **`MadeInv`** adds to `StageInv` that what is ready or busy is on the host, and
  that nothing is outstanding when `tearDown` comes without a panic.
- **`ResultInv`** adds what each stage says of the result (`ResultsFollow`): done
  with a result and, exactly if that is an error, an entry in `errors`; skipped
  only after the loop.
- **The suite.** Every behaviour of `SuiteSpec` is one of `Spec`
  (`SuiteRunsScheduler`), so the invariants above carry over. `KeptInv` adds that
  kept VMs come with an error: after it the scheduler launches nothing and
  `tearDown` keeps the networks. `FailedImages` and `ExecutedOnImages` say that an
  image that failed stays so, and that an executed run had its images, so some
  run was not executed. `PhaseInv` says where the scheduler is in each
  phase, `ImageInv` which images there can be.
- **`CommandInv`** relates the three actors of a command (`InStep`), what the caller
  knows and how the process ended (`Answers`), and says that whoever was
  signalled had to stop (`StoppedForAReason`).
- **`TestInv`** carries the freshness of VMs up to the shutdown
  (`FreshUntilShutdown`), the reasons for the verdict up to the verdict
  (`Evidence`), and the status with its cause after it (`Justified`).
- **`ImageInv`** of `ImageProofs` says how far the image is when the goroutine is at
  a place: an old image is gone before a build begins.

- **`LogInv`** of `TestLogProofs` follows each call of a logger: the ID is in the
  shared data exactly between `AddID` and `DeleteID` (`IDPresent`), the message is in
  the standard log from `LogCopy` on (`InStd`) and in the test's from `WriteEntry`
  on (`InLog`), and a phase does not end before its calls do (`InPhase`).
- **The plan.** `LoopInv` says where the loops are and that the lists are the
  filtered ones. `RunsInv` says that every run comes from the product. `CountInv` says of
  each kind of run that its counters are 0 to n - 1, each once, where n is what the
  loops have made of it so far (`Done`): everything for the kinds that are
  through, nothing for those to come, `made` for the one in hand. Then the number
  of runs is that of the counters, by the bijection between them, and no
  induction over the list is needed. `UsedInv` adds what `removeUnusedVMs` leaves.

### What is only model-checked

- Liveness, which is out of the prover's reach: `Termination`, `TestEnds`,
  `CancelWins`, the liveness in `KeepsPromise` and `KeepsTestPromise`, and
  `EarlyFailureReported`.
  What is safety in them is proved: `BoundedSteps` and `WaitsEnd` for
  `Termination`, the `Implements...` theorems for the promises.
- That the number of the string a test ID is formatted into determines its parts:
  the model has the tuple.

## 6 Findings

Each is a run that TLC ends with a counterexample, against something the
repository says.

1. `suite_soft`: a network add (or a pull, or a build) fails *before* the soft
   timeout, while a run has not started. The scheduler cancels the tests that run. The soft timer fires while
   they end. Now `if !softExpired` (`cmd/schedule.go:177`) marks no run as
   skipped, no result carries an error, and vmshed exits with 0. The test of a
   failing network add says "vmshed should fail due to skipped test".
2. `canceled_runs`: a run whose VMs are still starting when the suite is cancelled
   gets status `ERROR`, not `CANCELED`, and is therefore in `results.json`, of which
   a comment says "exclude canceled runs".
3. `repeated_count`: a VM count given twice for a test gives two runs with the
   same ID, although the documentation says that the counter makes IDs distinct.
4. `lost_log`: `execTest` copies the log into its result with `return res`
   (`cmd/test.go:183`, `259`). The deferred `shutdownVMs` logs after that, so what it
   says ("FINISH: VMs removed", "Could not stop VM") is missing in the report of
   the test, although the field is for the "log messages of the framework".

Observations for which the repository states no expectation, so there is no run:

- When `virter image ls` fails there are no results, and the exit code, which is
  computed from results, is 0 (`ZeroMeansSuccess` names the exception).
- A network add that fails makes vmshed fail only if it keeps a run from starting.
  When a network becomes free meanwhile, every test may still succeed, and the
  exit code is 0 with an error in the log.
- The last subnet of a family is never handed out: the candidate is returned only
  if a next one exists.
- `Free` of the subnet list has no caller; subnets are not reused within a suite.
- The metadata of a command that never started says exit code 0 (`ReportsTrue`
  names the exception).
- `--variant` has no effect when the specification lists no variants.
- The status line says that all tests succeeded when the soft timeout kept some
  from starting (`cmd/schedule.go:91`).

## 7 What is not modelled

- Formats: TOML, XML, JSON fields, log text, the order of the keys in a line of
  the log, the summary's score, directories and names of files, command lines.
  No property is about them. `TestLog` assumes the level Debug, at which every
  message is written.
- The command line and the specification files: their values are the constants.
- `Free` of the subnet list has no caller. It is an operator of `NetworkList`, and
  no step uses it, so the component is only partly modelled.
- `virter`, libvirt and the VMs: external, seen through the outcomes of commands.
  A failing command may have had its effect or not. Networks that an earlier
  vmshed left on the host are not there at the start; its VMs (`TestExec`) and
  images (`ImageExec`, `Suite`) may be.
- Flag values that are durations: timers fire at any time after they start.
- The contents of artifacts and test variables: the other steps do not look at them.
- The errors of `tearDown` (`cmd/schedule.go:215`), which are appended after errors
  have been printed and are never read.
- The integration tests and the mock of virter: read as statements of intent.

## 8 The plan

The order was: the scheduler with its subnets, as everything depends on it; the
command runner, as it is where the other interleavings are; a test; the suite
around them; the plan of the runs; the proofs about the scheduler from types to
resources, stages, subnets and choices; then the abstract pool and the promises between the
layers, images and logs, and the proofs about all of them: those about the suite, commands,
tests and images first, those about the plan, the logs and the end of the
scheduler after them. All this is done: every property that a run checks and
that is not liveness is a theorem. What is left, in order:

1. The safety part of `TestEnds` and `CancelWins`, as `StepsRunOut` is that of
   `Termination`: a test and a build take a bounded number of steps, for any
   number of VMs and images.
2. `TestExec` and `Scheduler` composed at the level of VM IDs: tests of one suite
   whose VMs are named by the IDs they hold, so that a VM left behind by one test
   meets the next. Today `TestPromise` separates the two.
3. Suites with duplicate test IDs in the scheduler, to show what finding 3 leads to.
   The theorems cover them already; the runs do not have them.
4. The subnet list as a state machine with `Free`, when the scheduler starts to use it.
