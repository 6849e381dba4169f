------------------------------ MODULE Scheduler ------------------------------
(***************************************************************************)
(* The scheduler of a suite run (cmd/schedule.go): scheduleLoop, the       *)
(* suiteState it owns, the actions it hands to goroutines and tearDown.    *)
(*                                                                         *)
(* One goroutine owns the state.  It launches actions (updatePre), lets    *)
(* each run in a goroutine of its own (exec) and applies the result when   *)
(* it receives it (updatePost).  What a goroutine does is seen here only   *)
(* through the result it may deliver; the environment (a signal, the soft  *)
(* timer, failing commands) acts between any two steps.                    *)
(***************************************************************************)
EXTENDS NetworkList, TestResult, Integers, Sequences, FiniteSets

CONSTANTS
  Strings,        \* the strings the configuration and the program use
  VMs,            \* vmSpec.VMs: a sequence of [name, base]
  TestRuns,       \* testRuns, in the order of the list
  StartVM,        \* --startvm
  NrVMs,          \* --nvms
  OnFailure,      \* --on-failure
  Pulling,        \* is there a --pull-template?
  Provisioning,   \* is there a provision_file?
  SoftTimeout,    \* is --timeout-soft positive?
  Faults,         \* the faults the environment may inject
  FailedResults   \* the results a failing test may have

FaultKinds == {"test", "pull", "provision", "network", "remove", "interrupt",
               "init", "save", "image"}

VM == [name : Strings, base : Strings]

\* The key of a provisioned image: the name if there is one.
ID(v) == IF v.name # "" THEN v.name ELSE v.base

VirterNet == [forward : Strings, ipv6 : BOOLEAN, dhcp : BOOLEAN, domain : Strings]

accessNetwork(ipv6) ==
  [forward |-> "nat", ipv6 |-> ipv6, dhcp |-> TRUE, domain |-> "test"]

TestRun == [testID : Strings, vms : Seq(VM), networks : Seq(VirterNet),
            ipv6 : BOOLEAN, priority : Nat]

ASSUME ConfigAssumption ==
  /\ {"", "nat", "test"} \subseteq Strings
  /\ VMs \in Seq(VM)
  /\ TestRuns \in Seq(TestRun)
  /\ \A r \in DOMAIN TestRuns : \A k \in DOMAIN TestRuns[r].vms :
        \E v \in DOMAIN VMs : VMs[v] = TestRuns[r].vms[k]
  /\ StartVM \in Nat \ {0}
  /\ NrVMs \in Nat \ {0}
  /\ OnFailure \in {"continue", "terminate", "keep-vms"}
  /\ Pulling \in BOOLEAN
  /\ Provisioning \in BOOLEAN
  /\ SoftTimeout \in BOOLEAN
  /\ Faults \subseteq FaultKinds
  /\ FailedResults \subseteq Result
  /\ \A res \in FailedResults : res.err /\ res.status \notin {"SKIPPED", "CANCELED"}

VARIABLES
  networks,        \* the networks, in the order of the numbers in their names
  pullStage,       \* by base image
  provisionStage,  \* by VM ID
  runStage,        \* by test ID
  runResults,      \* by test ID
  freeIDs,
  freeNets,
  errors,          \* who failed: {} is the nil slice
  outstanding,     \* the actions whose goroutine has not delivered its result
  activeActions,
  softExpired,
  interrupted,     \* a signal cancelled the context of the whole run
  cancelled,       \* the loop cancelled its own context
  pc,              \* where the scheduler goroutine is
  hostNets         \* the networks that exist on the host

imageVars == <<pullStage, provisionStage>>
runVars   == <<runStage, runResults>>
loopVars  == <<softExpired, interrupted, cancelled, pc>>
netVars   == <<networks, freeNets, hostNets>>
vars == <<networks, pullStage, provisionStage, runStage, runResults, freeIDs,
          freeNets, errors, outstanding, activeActions, softExpired,
          interrupted, cancelled, pc, hostNets>>

IDs         == StartVM .. (StartVM + NrVMs - 1)
BaseImages  == {VMs[v].base : v \in DOMAIN VMs}
VMIDs       == {ID(VMs[v]) : v \in DOMAIN VMs}
TestIDs     == {TestRuns[r].testID : r \in DOMAIN TestRuns}
Size(r)     == Len(TestRuns[r].vms)
StageOf(r)  == runStage[TestRuns[r].testID]

ctxDone == interrupted \/ cancelled

------------------------------------------------------------------------------
(* initializeState                                                         *)

Init ==
  /\ networks = << >>
  /\ pullStage = [b \in BaseImages |-> IF Pulling THEN "None" ELSE "Done"]
  /\ provisionStage = [i \in VMIDs |-> IF Provisioning THEN "None" ELSE "Done"]
  /\ runStage = [t \in TestIDs |-> "New"]
  /\ runResults = [t \in TestIDs |-> NoResult]
  /\ freeIDs = IDs
  /\ freeNets = NewNetworkList
  /\ errors = {}
  /\ outstanding = {}
  /\ activeActions = 0
  /\ softExpired = FALSE
  /\ interrupted = FALSE
  /\ cancelled = FALSE
  /\ pc = "schedule"
  /\ hostNets = {}

------------------------------------------------------------------------------
(* chooseNextAction and its helpers.  Each returns the set of the actions  *)
(* (or networks, or runs) the code may return: {} where it returns nil or  *)
(* "".  An action is its kind, the number of its run, VM or network, and   *)
(* the IDs and networks it occupies while it is outstanding.               *)

First(S) == {x \in S : \A y \in S : x <= y}

\* The elements of S that n elements of S precede.
Ranked(S, n) == {x \in S : Cardinality({y \in S : y < x}) = n}

ReadyNetworks(net, access) ==
  {i \in DOMAIN networks : /\ networks[i].stage = "Ready"
                           /\ networks[i].network = net
                           /\ networks[i].isAccess = access}

findReadyNetworkAnyStage(net, access, excluded) ==
  Ranked({i \in DOMAIN networks : /\ networks[i].stage \in {"Ready", "Busy"}
                                  /\ networks[i].network = net
                                  /\ networks[i].isAccess = access}, excluded)

findReadyNetworkNotExcluding(net, access, excluded) ==
  Ranked(ReadyNetworks(net, access), 0)

\* The first ready network that matches and is not excluded.  The code only
\* excludes matching networks, in order: how many of them is enough.
findReadyNetwork(net, access, excluded) ==
  Ranked(ReadyNetworks(net, access), excluded)

AccessNetworkOf(run) == findReadyNetwork(accessNetwork(run.ipv6), TRUE, 0)

\* findExtraNetworks, for one position: the earlier positions that ask for the
\* same network use as many of the ready ones.
ExtraNetworkOf(run, p) ==
  findReadyNetwork(run.networks[p], FALSE,
    Cardinality({q \in 1 .. (p - 1) : run.networks[q] = run.networks[p]}))

remainingNetworks(run) == {p \in DOMAIN run.networks : ExtraNetworkOf(run, p) = {}}

allNetworksReady(run) == AccessNetworkOf(run) # {} /\ remainingNetworks(run) = {}

ImageReady(v) == pullStage[v.base] = "Done" /\ provisionStage[ID(v)] = "Done"

allImagesReadyOfLast(run) == run.vms # << >> => ImageReady(run.vms[Len(run.vms)])

allImagesReady(run) == \A k \in DOMAIN run.vms : ImageReady(run.vms[k])

getIDsFromZero(n) ==
  {i - StartVM : i \in {j \in freeIDs : Cardinality({k \in freeIDs : k < j}) < n}}

\* The n lowest free IDs.
getIDs(n) == {i \in freeIDs : Cardinality({j \in freeIDs : j < i}) < n}

makeAddNetworkActionConcurrent(net, access) ==
  {[kind |-> "network", nr |-> Len(networks) + 1, ids |-> {}, nets |-> {},
    network |-> net, access |-> access]}

\* Only one network is added at a time, because libvirt might give two
\* networks the same bridge.
makeAddNetworkAction(net, access) ==
  IF \E i \in DOMAIN networks : networks[i].stage = "Add" THEN {}
  ELSE {[kind |-> "network", nr |-> Len(networks) + 1, ids |-> {}, nets |-> {},
         network |-> net, access |-> access]}

nextActionPull(v) == {[kind |-> "pull", nr |-> v, ids |-> {}, nets |-> {}]}

nextActionProvision(v) ==
  LET access == findReadyNetwork(accessNetwork(FALSE), TRUE, 0) IN
  IF access = {} THEN makeAddNetworkAction(accessNetwork(FALSE), TRUE)
  ELSE {[kind |-> "provision", nr |-> v, ids |-> getIDs(1), nets |-> access]}

TestAction(r) ==
  LET run == TestRuns[r] IN
  [kind |-> "test", nr |-> r, ids |-> getIDs(Size(r)),
   nets |-> AccessNetworkOf(run) \cup UNION {ExtraNetworkOf(run, p) : p \in DOMAIN run.networks}]

nextActionRun(r) ==
  LET run == TestRuns[r] IN
  CASE Cardinality(freeIDs) < Size(r) -> {}
    [] ~allImagesReady(run) -> {}
    [] OTHER ->
         IF AccessNetworkOf(run) = {}
         THEN makeAddNetworkAction(accessNetwork(run.ipv6), TRUE)
         ELSE IF remainingNetworks(run) # {}
         THEN UNION {makeAddNetworkAction(run.networks[p], FALSE) :
                       p \in First(remainingNetworks(run))}
         ELSE {TestAction(r)}

\* The IDs that no executing test uses.
nonTestIDs ==
  NrVMs - Cardinality(UNION {{r} \X DOMAIN TestRuns[r].vms :
                               r \in {q \in DOMAIN TestRuns : StageOf(q) = "Exec"}})

Ready(r) == allImagesReady(TestRuns[r]) /\ allNetworksReady(TestRuns[r])

runBetterByPriority(a, b) == TestRuns[b].priority > TestRuns[a].priority

\* Is run b better than run a?  Larger first, then ready first.
runBetter(a, b) ==
  IF Size(b) # Size(a) THEN Size(b) > Size(a)
  ELSE IF Ready(b) # Ready(a) THEN Ready(b)
  ELSE TestRuns[b].priority > TestRuns[a].priority

CandidatesUnfinished == {r \in DOMAIN TestRuns : StageOf(r) # "Done" /\ Size(r) <= nonTestIDs}

Candidates == {r \in DOMAIN TestRuns : StageOf(r) = "New" /\ Size(r) <= nonTestIDs}

\* The code keeps the first run that no later one betters.
bestRun ==
  {r \in Candidates : /\ \A q \in Candidates : q < r => runBetter(q, r)
                      /\ \A q \in Candidates : q > r => ~runBetter(r, q)}

ImageWork ==
  {v \in DOMAIN VMs : \/ pullStage[VMs[v].base] = "None"
                      \/ /\ pullStage[VMs[v].base] = "Done"
                         /\ provisionStage[ID(VMs[v])] = "None"}

nextImageAction(v) ==
  IF pullStage[VMs[v].base] = "None" THEN nextActionPull(v) ELSE nextActionProvision(v)

chooseNextAction ==
  IF freeIDs = {} THEN {}
  ELSE IF ImageWork # {} THEN UNION {nextImageAction(v) : v \in First(ImageWork)}
  ELSE UNION {nextActionRun(r) : r \in bestRun}

------------------------------------------------------------------------------
(* The inner loop of scheduleLoop: launch what can be launched.            *)

runStoppingOnSetUpErrors ==
  \/ \E i \in DOMAIN networks : networks[i].stage = "Error"
  \/ \E v \in DOMAIN VMs : \/ pullStage[VMs[v].base] = "Error"
                           \/ provisionStage[ID(VMs[v])] = "Error"

runStoppingOnAnyError ==
  \/ errors # {}
  \/ \E i \in DOMAIN networks : networks[i].stage = "Error"
  \/ \E v \in DOMAIN VMs : \/ pullStage[VMs[v].base] = "Error"
                           \/ provisionStage[ID(VMs[v])] = "Error"

runStoppingByPolicy == OnFailure # "continue" /\ errors # {}

runStopping ==
  \/ OnFailure # "continue" /\ errors # {}
  \/ \E i \in DOMAIN networks : networks[i].stage = "Error"
  \/ \E v \in DOMAIN VMs : \/ pullStage[VMs[v].base] = "Error"
                           \/ provisionStage[ID(VMs[v])] = "Error"

MayLaunch == ~(softExpired \/ runStopping \/ ctxDone)

NothingToLaunch == ~MayLaunch \/ chooseNextAction = {}

Launch(a) ==
  /\ outstanding' = outstanding \cup {a}
  /\ activeActions' = activeActions + 1

SetStage(nets, stage) ==
  [i \in DOMAIN networks |->
     IF i \in nets THEN [networks[i] EXCEPT !.stage = stage] ELSE networks[i]]

Occupy(a) ==
  /\ freeIDs' = freeIDs \ a.ids
  /\ networks' = SetStage(a.nets, "Busy")

StartTest ==
  /\ pc = "schedule" /\ MayLaunch
  /\ \E a \in chooseNextAction :
       /\ a.kind = "test"
       /\ runStage' = [runStage EXCEPT ![TestRuns[a.nr].testID] = "Exec"]
       /\ Occupy(a)
       /\ Launch(a)
  /\ UNCHANGED <<imageVars, runResults, freeNets, errors, loopVars, hostNets>>

StartPull ==
  /\ pc = "schedule" /\ MayLaunch
  /\ \E a \in chooseNextAction :
       /\ a.kind = "pull"
       /\ pullStage' = [pullStage EXCEPT ![VMs[a.nr].base] = "Pull"]
       /\ Launch(a)
  /\ UNCHANGED <<netVars, provisionStage, runVars, freeIDs, errors, loopVars>>

StartProvision ==
  /\ pc = "schedule" /\ MayLaunch
  /\ \E a \in chooseNextAction :
       /\ a.kind = "provision"
       /\ provisionStage' = [provisionStage EXCEPT ![ID(VMs[a.nr])] = "Exec"]
       /\ Occupy(a)
       /\ Launch(a)
  /\ UNCHANGED <<pullStage, runVars, freeNets, errors, loopVars, hostNets>>

\* The subnets addNetworkAction reserves for a network, {} when that panics.
ReserveFor(net) ==
  IF ~net.dhcp THEN {[subnets |-> {}, list |-> freeNets]}
  ELSE UNION {IF net.ipv6
              THEN {[subnets |-> {v4.subnet, v6.subnet}, list |-> v6.list] :
                       v6 \in ReserveNext(v4.list, TRUE)}
              ELSE {[subnets |-> {v4.subnet}, list |-> v4.list]} :
                v4 \in ReserveNext(freeNets, FALSE)}

NewNetwork(a, subnets) ==
  [network |-> a.network, isAccess |-> a.access, stage |-> "Add", subnets |-> subnets]

StartAddNetwork ==
  /\ pc = "schedule" /\ MayLaunch
  /\ \E a \in chooseNextAction :
       /\ a.kind = "network"
       /\ \E r \in ReserveFor(a.network) :
            /\ networks' = Append(networks, NewNetwork(a, r.subnets))
            /\ freeNets' = r.list
       /\ Launch(a)
  /\ UNCHANGED <<imageVars, runVars, freeIDs, errors, loopVars, hostNets>>

\* updatePre panics in the scheduler goroutine: its deferred calls run, the
\* other goroutines go on until the process dies.
PanicAddNetwork ==
  /\ pc = "schedule" /\ MayLaunch
  /\ \E a \in chooseNextAction :
       /\ a.kind = "network"
       /\ ReserveFor(a.network) = {}
       /\ networks' = Append(networks, NewNetwork(a, {}))
  /\ cancelled' = TRUE
  /\ pc' = "panicking"
  /\ UNCHANGED <<imageVars, runVars, freeIDs, freeNets, errors, outstanding,
                 activeActions, softExpired, interrupted, hostNets>>

------------------------------------------------------------------------------
(* The outer loop: leave it, or wait for a result.                         *)

AwaitResult ==
  /\ pc = "schedule" /\ NothingToLaunch
  /\ activeActions > 0
  /\ pc' = "wait"
  /\ UNCHANGED <<netVars, imageVars, runVars, freeIDs, errors, outstanding,
                 activeActions, softExpired, interrupted, cancelled>>

Unfinished == {t \in TestIDs : runStage[t] # "Done"}

LeaveLoopEarly ==
  /\ pc = "schedule" /\ NothingToLaunch
  /\ softExpired \/ activeActions = 0
  /\ UNCHANGED <<runResults, errors>>
  /\ cancelled' = TRUE
  /\ pc' = "stopped"
  /\ UNCHANGED <<netVars, imageVars, runStage, freeIDs, outstanding,
                 activeActions, softExpired, interrupted>>

LeaveLoopSilently ==
  /\ pc = "schedule" /\ NothingToLaunch
  /\ activeActions = 0
  /\ cancelled' = TRUE
  /\ pc' = "stopped"
  /\ UNCHANGED <<netVars, imageVars, runVars, errors, freeIDs, outstanding,
                 activeActions, softExpired, interrupted>>

\* Unless the soft timeout has expired, what was not run counts as an error.
LeaveLoop ==
  /\ pc = "schedule" /\ NothingToLaunch
  /\ activeActions = 0
  /\ IF softExpired THEN UNCHANGED <<runResults, errors>>
     ELSE /\ runResults' = [t \in TestIDs |->
               IF t \in Unfinished THEN [status |-> "SKIPPED", err |-> TRUE]
               ELSE runResults[t]]
          /\ errors' = errors \cup {<<"skipped", t>> : t \in Unfinished}
  /\ cancelled' = TRUE
  /\ pc' = "stopped"
  /\ UNCHANGED <<netVars, imageVars, runStage, freeIDs, outstanding,
                 activeActions, softExpired, interrupted>>

EndIterationWithoutCancel ==
  /\ pc' = "schedule"
  /\ UNCHANGED cancelled

EndIterationCancellingOnTimeout ==
  /\ pc' = "schedule"
  /\ cancelled' = (cancelled \/ softExpired' \/ runStopping')

\* The end of an iteration of the outer loop, after the select.
EndIteration ==
  /\ pc' = "schedule"
  /\ cancelled' = (cancelled \/ runStopping')

Receive(a) ==
  /\ pc = "wait"
  /\ a \in outstanding
  /\ outstanding' = outstanding \ {a}
  /\ activeActions' = activeActions - 1
  /\ UNCHANGED <<softExpired, interrupted>>

ReleaseIDsOnly(a) ==
  /\ freeIDs' = freeIDs \cup a.ids
  /\ UNCHANGED networks

Release(a) ==
  /\ freeIDs' = freeIDs \cup a.ids
  /\ networks' = SetStage(a.nets, "Ready")

\* See TestPromise.
TestResults == Deliverable(IF "test" \in Faults THEN FailedResults ELSE {}, ctxDone)

\* A command may fail by itself, or because it is terminated.
MayFail(fault) == fault \in Faults \/ ctxDone

FailIf(failed, kind, who) == errors' = IF failed THEN errors \cup {<<kind, who>>} ELSE errors

FinishTestRetrying ==
  /\ \E a \in outstanding, res \in TestResults :
       /\ a.kind = "test"
       /\ Receive(a)
       /\ runStage' = [runStage EXCEPT ![TestRuns[a.nr].testID] = IF res.err THEN "New" ELSE "Done"]
       /\ runResults' = [runResults EXCEPT ![TestRuns[a.nr].testID] = res]
       /\ FailIf(res.err, "test", TestRuns[a.nr].testID)
       /\ Release(a)
  /\ UNCHANGED <<imageVars, freeNets, hostNets>>
  /\ EndIteration

FinishTest ==
  /\ \E a \in outstanding, res \in TestResults :
       /\ a.kind = "test"
       /\ Receive(a)
       /\ runStage' = [runStage EXCEPT ![TestRuns[a.nr].testID] = "Done"]
       /\ runResults' = [runResults EXCEPT ![TestRuns[a.nr].testID] = res]
       /\ FailIf(res.err, "test", TestRuns[a.nr].testID)
       /\ Release(a)
  /\ UNCHANGED <<imageVars, freeNets, hostNets>>
  /\ EndIteration

FinishPull ==
  /\ \E a \in outstanding, failed \in BOOLEAN :
       /\ a.kind = "pull"
       /\ Receive(a)
       /\ failed => MayFail("pull")
       /\ pullStage' = [pullStage EXCEPT ![VMs[a.nr].base] = IF failed THEN "Error" ELSE "Done"]
       /\ FailIf(failed, "pull", VMs[a.nr].base)
  /\ UNCHANGED <<netVars, provisionStage, runVars, freeIDs>>
  /\ EndIteration

FinishProvision ==
  /\ \E a \in outstanding, failed \in BOOLEAN :
       /\ a.kind = "provision"
       /\ Receive(a)
       /\ failed => MayFail("provision")
       /\ provisionStage' = [provisionStage EXCEPT ![ID(VMs[a.nr])] = IF failed THEN "Error" ELSE "Done"]
       /\ FailIf(failed, "provision", ID(VMs[a.nr]))
       /\ Release(a)
  /\ UNCHANGED <<pullStage, runVars, freeNets, hostNets>>
  /\ EndIteration

\* A failing "virter network add" may or may not leave the network behind.
addNetwork(failed, made) == (failed => MayFail("network")) /\ (~failed => made)

FinishAddNetwork ==
  /\ \E a \in outstanding, failed, made \in BOOLEAN :
       /\ a.kind = "network"
       /\ Receive(a)
       /\ addNetwork(failed, made)
       /\ networks' = SetStage({a.nr}, IF failed THEN "Error" ELSE "Ready")
       /\ FailIf(failed, "network", a.nr)
       /\ hostNets' = IF made THEN hostNets \cup {a.nr} ELSE hostNets
  /\ UNCHANGED <<imageVars, runVars, freeIDs, freeNets>>
  /\ EndIteration

SoftTimer ==
  /\ pc = "wait"
  /\ SoftTimeout /\ ~softExpired
  /\ softExpired' = TRUE
  /\ UNCHANGED <<netVars, imageVars, runVars, freeIDs, errors, outstanding,
                 activeActions, interrupted>>
  /\ EndIteration

\* SIGINT or SIGTERM.  Nothing after the loop looks at the context.
Interrupt ==
  /\ "interrupt" \in Faults
  /\ pc \in {"schedule", "wait"} /\ ~interrupted
  /\ interrupted' = TRUE
  /\ UNCHANGED <<netVars, imageVars, runVars, freeIDs, errors, outstanding,
                 activeActions, softExpired, cancelled, pc>>

------------------------------------------------------------------------------
(* tearDown, deferred by runScheduler.                                     *)

KeepNetworksOfSuccess == errors = {} /\ OnFailure = "keep-vms"

KeepNetworks == errors # {} /\ OnFailure = "keep-vms"

\* "virter network rm" has a context of its own; when it fails the network stays.
removeNetwork(i, stays) == stays => "remove" \in Faults

TearDown ==
  /\ pc \in {"stopped", "panicking"}
  /\ IF KeepNetworks THEN UNCHANGED <<hostNets, errors>>
     ELSE \E stuck \in SUBSET DOMAIN networks :
            /\ \A i \in DOMAIN networks : removeNetwork(i, i \in stuck)
            /\ hostNets' = hostNets \ (DOMAIN networks \ stuck)
            /\ errors' = errors \cup {<<"remove", i>> : i \in stuck}
  /\ pc' = IF pc = "stopped" THEN "returned" ELSE "crashed"
  /\ UNCHANGED <<networks, freeNets, imageVars, runVars, freeIDs, outstanding,
                 activeActions, softExpired, interrupted, cancelled>>

Ended == pc \in {"returned", "crashed"}

\* After the end nothing happens: not a deadlock.
Terminated == Ended /\ UNCHANGED vars

SchedulerStep ==
  \/ StartTest \/ StartPull \/ StartProvision \/ StartAddNetwork \/ PanicAddNetwork
  \/ AwaitResult \/ LeaveLoop
  \/ FinishTest \/ FinishPull \/ FinishProvision \/ FinishAddNetwork
  \/ TearDown

Environment == SoftTimer \/ Interrupt

Next == SchedulerStep \/ Environment \/ Terminated

Spec == Init /\ [][Next]_vars

\* The loop runs whenever it can, and every goroutine delivers its result: the
\* commands it runs end.  Nothing is assumed of the timer and the signals.
FairSpec == Spec /\ WF_vars(SchedulerStep)

------------------------------------------------------------------------------
(* Properties.                                                             *)

Action ==
  [kind : {"test"}, nr : DOMAIN TestRuns, ids : SUBSET IDs, nets : SUBSET DOMAIN networks]
  \cup [kind : {"pull"}, nr : DOMAIN VMs, ids : {{}}, nets : {{}}]
  \cup [kind : {"provision"}, nr : DOMAIN VMs, ids : SUBSET IDs, nets : SUBSET DOMAIN networks]
  \cup [kind : {"network"}, nr : DOMAIN networks, ids : {{}}, nets : {{}},
        network : VirterNet, access : BOOLEAN]

NetworkState ==
  [network : VirterNet, isAccess : BOOLEAN,
   stage : {"Add", "Ready", "Busy", "Error"}, subnets : SUBSET Subnet]

\* Every variable has its type.
TypeOK ==
  /\ networks \in Seq(NetworkState)
  /\ pullStage \in [BaseImages -> {"None", "Pull", "Done", "Error"}]
  /\ provisionStage \in [VMIDs -> {"None", "Exec", "Done", "Error"}]
  /\ runStage \in [TestIDs -> {"New", "Exec", "Done"}]
  /\ runResults \in [TestIDs -> Result \cup {NoResult}]
  /\ freeIDs \subseteq IDs
  /\ freeNets \in SubnetList
  /\ outstanding \subseteq Action
  /\ activeActions \in Int
  /\ softExpired \in BOOLEAN
  /\ interrupted \in BOOLEAN
  /\ cancelled \in BOOLEAN
  /\ pc \in {"schedule", "wait", "stopped", "panicking", "returned", "crashed"}
  /\ hostNets \subseteq DOMAIN networks

Busy == {i \in DOMAIN networks : networks[i].stage = "Busy"}

\* No VM ID and no network is ever given to two actions at once; the free IDs
\* are exactly those no action holds, and the busy networks those one holds.
ResourcesExclusive ==
  /\ \A a, b \in outstanding : a # b => a.ids \cap b.ids = {} /\ a.nets \cap b.nets = {}
  /\ freeIDs = IDs \ UNION {a.ids : a \in outstanding}
  /\ Busy = UNION {a.nets : a \in outstanding}

\* Networks are added one at a time (the libvirt bridge name race that
\* makeAddNetworkAction is there to avoid).
SingleNetworkAdd ==
  \A a, b \in outstanding : a.kind = "network" /\ b.kind = "network" => a = b

\* No subnet is given to two networks of a suite run.
SubnetsDisjoint ==
  \A i, j \in DOMAIN networks : i # j => networks[i].subnets \cap networks[j].subnets = {}

\* A stage says that work is in progress exactly while one action does that
\* work: nothing is pulled, built, added or run twice, and no stage sticks.
StagesMatchActions ==
  /\ \A t \in TestIDs :
       LET A == {a \in outstanding : a.kind = "test" /\ TestRuns[a.nr].testID = t}
       IN  Cardinality(A) = IF runStage[t] = "Exec" THEN 1 ELSE 0
  /\ \A b \in BaseImages :
       LET A == {a \in outstanding : a.kind = "pull" /\ VMs[a.nr].base = b}
       IN  Cardinality(A) = IF pullStage[b] = "Pull" THEN 1 ELSE 0
  /\ \A i \in VMIDs :
       LET A == {a \in outstanding : a.kind = "provision" /\ ID(VMs[a.nr]) = i}
       IN  Cardinality(A) = IF provisionStage[i] = "Exec" THEN 1 ELSE 0
  /\ activeActions = Cardinality(outstanding)

\* How many of the networks in nets are of the kind (net, access).
HowMany(nets, net, access) ==
  Cardinality({i \in nets : networks[i].network = net /\ networks[i].isAccess = access})

\* A running test holds one VM ID for each of its VMs, its access network, and
\* for each of its network definitions as many networks as it asks for.
TestsEquipped ==
  \A a \in outstanding :
    a.kind = "test" =>
      LET run == TestRuns[a.nr] IN
      /\ Cardinality(a.ids) = Len(run.vms)
      /\ Cardinality(a.nets) = 1 + Len(run.networks)
      /\ HowMany(a.nets, accessNetwork(run.ipv6), TRUE) = 1
      /\ \A p \in DOMAIN run.networks :
           HowMany(a.nets, run.networks[p], FALSE)
             = Cardinality({q \in DOMAIN run.networks : run.networks[q] = run.networks[p]})

\* The images of a running test are pulled and provisioned, and nobody pulls
\* or rebuilds one of them while it runs.
TestsOnReadyImages ==
  \A a \in outstanding :
    a.kind = "test" =>
      \A k \in DOMAIN TestRuns[a.nr].vms :
        LET v == TestRuns[a.nr].vms[k] IN
        pullStage[v.base] = "Done" /\ provisionStage[ID(v)] = "Done"

\* The networks an action uses exist on the host as long as the scheduler
\* lives; only a panic tears them down under a running action.
NetworksLive ==
  pc \notin {"crashed"} => \A a \in outstanding : a.nets \subseteq hostNets

\* The scheduler waits only for a result that a goroutine is to deliver, and
\* leaves its loop only when no goroutine is left that would wait for it to take
\* one, unless it panics.
NobodyWaitsInVain ==
  /\ pc = "wait" => outstanding # {}
  /\ pc \in {"stopped", "returned"} => outstanding = {}

SetUpFailed == \E e \in errors : e[1] \in {"network", "pull", "provision"}

Failing == SetUpFailed \/ (OnFailure # "continue" /\ errors # {})

\* After a failure that stops the suite, a signal or the soft timeout, no
\* action is launched any more.
StopIsFinal ==
  [][Failing \/ softExpired \/ interrupted => outstanding' \subseteq outstanding]_vars

\* A failure that stops the suite also cancels what is running, at once.
FailureCancels == pc = "schedule" /\ Failing => cancelled

\* Without a failure or a signal running tests are left to finish: the soft
\* timeout alone cancels nothing.
OnlyFailureCancels ==
  [][\A t \in TestIDs :
       runResults[t] # runResults'[t] /\ runResults'[t].status = "CANCELED" =>
         Failing \/ interrupted]_vars

Undisturbed == ~softExpired /\ ~interrupted /\ \A e \in errors : e[1] \in {"test", "skipped", "remove"}

\* When nothing tells the scheduler to stop, it leaves the loop only when every
\* run that fits in the VM IDs has been executed: it never gives up early.
NoRunForgotten ==
  pc = "stopped" /\ Undisturbed /\ (OnFailure = "continue" \/ \A e \in errors : e[1] = "skipped") =>
    \A r \in DOMAIN TestRuns : Size(r) <= NrVMs => StageOf(r) = "Done"

\* At the end every run has a result, unless the soft timeout kept it from
\* starting; SKIPPED is the result of a run that never started, and the errors
\* name exactly the runs whose result is an error.
ResultsComplete ==
  pc \in {"stopped", "returned"} =>
    \A t \in TestIDs :
      /\ runResults[t] = NoResult => softExpired
      /\ runStage[t] = "New" <=> runResults[t].status \in {"none", "SKIPPED"}
      /\ runResults[t].err <=> \E e \in errors : e \in {<<"test", t>>, <<"skipped", t>>}

\* What an action works on.
Key(a) == CASE a.kind = "test"      -> TestRuns[a.nr].testID
            [] a.kind = "pull"      -> VMs[a.nr].base
            [] a.kind = "provision" -> ID(VMs[a.nr])
Work(a) == <<a.kind, Key(a)>>

\* All the work of a suite run, how far it is, and what it holds.
AllWork == ({"test"} \X TestIDs) \cup ({"pull"} \X BaseImages) \cup ({"provision"} \X VMIDs)

WorkPhase(w) ==
  LET stage == CASE w[1] = "test"      -> runStage[w[2]]
                 [] w[1] = "pull"      -> pullStage[w[2]]
                 [] w[1] = "provision" -> provisionStage[w[2]]
  IN  CASE stage \in {"New", "None"}  -> "todo"
        [] stage \in {"Exec", "Pull"} -> "running"
        [] stage = "Done"             -> "done"
        [] stage = "Error"            -> "failed"

Holds(a) == ({"ID"} \X a.ids) \cup ({"network"} \X a.nets)

WorkHolds(w) == UNION {Holds(a) : a \in {b \in outstanding : b.kind = w[1] /\ Key(b) = w[2]}}

Stopped == Failing \/ softExpired \/ interrupted

\* A test needs the images of its VMs, provisioning the base image of a VM that
\* has this ID.
WorkNeeds(w) ==
  CASE w[1] = "test" ->
         {UNION {{<<"pull", TestRuns[r].vms[k].base>>, <<"provision", ID(TestRuns[r].vms[k])>>} :
                   k \in DOMAIN TestRuns[r].vms} :
            r \in {q \in DOMAIN TestRuns : TestRuns[q].testID = w[2]}}
    [] w[1] = "pull" -> {{}}
    [] w[1] = "provision" ->
         {{<<"pull", VMs[v].base>>} : v \in {u \in DOMAIN VMs : ID(VMs[u]) = w[2]}}

Pool == INSTANCE WorkPool WITH
  Jobs    <- AllWork,
  Needs   <- [w \in AllWork |-> WorkNeeds(w)],
  stopped <- Stopped,
  phase   <- [w \in AllWork |-> WorkPhase(w)],
  held    <- [w \in AllWork |-> WorkHolds(w)]

\* The scheduler is a work pool: whatever the order in which results, failures,
\* the timer and a signal arrive, work is done once, on what it needs, with
\* resources of its own, and none is begun after a stop.
KeepsPool == Pool!Spec

NetworksOfKind(net, access) ==
  Cardinality({i \in DOMAIN networks : networks[i].network = net /\ networks[i].isAccess = access})

Demand(run, net) == Cardinality({p \in DOMAIN run.networks : run.networks[p] = net})

\* Networks are reused: when every test has VMs there are never more access
\* networks of a kind than VM IDs, nor more extra networks of a kind than as
\* many tests at once can ask for.
NetworksBounded ==
  (\A r \in DOMAIN TestRuns : Size(r) > 0) =>
    \A i \in DOMAIN networks :
      LET net == networks[i].network IN
      IF networks[i].isAccess THEN NetworksOfKind(net, TRUE) <= NrVMs
      ELSE \E r \in DOMAIN TestRuns :
             NetworksOfKind(net, FALSE) <= NrVMs * Demand(TestRuns[r], net)

TestHeld == UNION {a.ids : a \in {b \in outstanding : b.kind = "test"}}

\* A run is never started while a larger run waits that fits in the IDs no
\* test holds: IDs used for provisioning do not let small runs overtake.
LargerRunsFirst ==
  [][\A r \in DOMAIN TestRuns :
       StageOf(r) = "New" /\ StageOf(r)' = "Exec" =>
         \A q \in DOMAIN TestRuns :
           StageOf(q) = "New" /\ Size(q) > Size(r) => Size(q) > NrVMs - Cardinality(TestHeld)]_vars

\* The scheduler ends, whatever fails and whenever it is interrupted.
Termination == <>Ended

\* What networks are for: access, by IP version, and the requests of the runs.
NetworkUses ==
  ({"access"} \X BOOLEAN)
    \cup ({"extra"} \X UNION {{r} \X DOMAIN TestRuns[r].networks : r \in DOMAIN TestRuns})

MostNetworks == NrVMs * Cardinality(NetworkUses)

\* What may still happen, once each: a finite set.
ToCome ==
  LET happened == [timeout |-> softExpired, signal |-> interrupted,
                   left |-> pc \notin {"schedule", "wait"}, ended |-> Ended]
  IN  ({"begin"} \X {w \in AllWork : WorkPhase(w) = "todo"})
        \cup ({"end"} \X {w \in AllWork : WorkPhase(w) \in {"todo", "running"}})
        \cup ({"add"} \X {i \in 1 .. MostNetworks : i \notin DOMAIN networks})
        \cup ({"added"} \X {i \in 1 .. MostNetworks : i \in DOMAIN networks => networks[i].stage = "Add"})
        \cup ({"event"} \X {e \in DOMAIN happened : ~happened[e]})

\* The safety part of Termination: nothing that has happened is undone or done
\* again, and between two waits something happens; so the scheduler runs out of
\* steps, whatever it chooses, and however often it is woken.
StepsRunOut ==
  [][(\A r \in DOMAIN TestRuns : Size(r) > 0) =>
       /\ ToCome' \subseteq ToCome
       /\ ToCome' # ToCome \/ (pc = "schedule" /\ pc' = "wait")]_vars

==============================================================================
