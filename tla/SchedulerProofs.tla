--------------------------- MODULE SchedulerProofs ---------------------------
(***************************************************************************)
(* Theorems about the scheduler, for every suite, number of VM IDs, policy *)
(* and choice of faults: its types; that its resources are never shared;   *)
(* that stages and outstanding actions tell the same story, from which     *)
(* follow that tests run on finished images and nothing is started twice   *)
(* or after a failure; and that it implements WorkPool.                    *)
(***************************************************************************)
EXTENDS Scheduler, FiniteSetTheorems, TLAPS

ReadyNets == {i \in DOMAIN networks : networks[i].stage = "Ready"}

\* The runs, pulls and provisions that nobody has started and that may start.
StartableRuns == {r \in DOMAIN TestRuns : StageOf(r) = "New" /\ allImagesReady(TestRuns[r])}
UnpulledVMs   == {v \in DOMAIN VMs : pullStage[VMs[v].base] = "None"}
PulledVMs     == {v \in DOMAIN VMs : /\ pullStage[VMs[v].base] = "Done"
                                     /\ provisionStage[ID(VMs[v])] = "None"}
NoneAdded     == \A i \in DOMAIN networks : networks[i].stage # "Add"

\* What chooseNextAction may return: work that nobody has started, with
\* resources that nobody holds.
Choice ==
  [kind : {"test"}, nr : StartableRuns, ids : SUBSET freeIDs, nets : SUBSET ReadyNets]
  \cup [kind : {"pull"}, nr : UnpulledVMs, ids : {{}}, nets : {{}}]
  \cup [kind : {"provision"}, nr : PulledVMs, ids : SUBSET freeIDs, nets : SUBSET ReadyNets]
  \cup {a \in [kind : {"network"}, nr : {Len(networks) + 1}, ids : {{}}, nets : {{}},
               network : VirterNet, access : BOOLEAN] : NoneAdded}

LEMMA RunTypes ==
  ASSUME NEW r \in DOMAIN TestRuns
  PROVE  /\ TestRuns[r] \in TestRun
         /\ TestRuns[r].testID \in TestIDs
         /\ TestRuns[r].vms \in Seq(VM)
         /\ TestRuns[r].networks \in Seq(VirterNet)
         /\ TestRuns[r].ipv6 \in BOOLEAN
<1>1. TestRuns[r] \in TestRun
  <2>1. TestRuns \in Seq(TestRun)
    BY ConfigAssumption
  <2>. QED
    BY <2>1
<1>. QED
  BY <1>1 DEF TestRun, TestIDs

LEMMA VMTypes ==
  ASSUME NEW v \in DOMAIN VMs
  PROVE  /\ VMs[v].base \in BaseImages
         /\ ID(VMs[v]) \in VMIDs
BY DEF BaseImages, VMIDs

LEMMA AccessNetworkType ==
  ASSUME NEW ipv6 \in BOOLEAN
  PROVE  accessNetwork(ipv6) \in VirterNet
BY ConfigAssumption DEF accessNetwork, VirterNet

LEMMA FoundNetworksReady ==
  ASSUME NEW net, NEW access, NEW excluded
  PROVE  findReadyNetwork(net, access, excluded) \subseteq ReadyNets
BY DEF findReadyNetwork, Ranked, ReadyNetworks, ReadyNets

LEMMA AddNetworkChoice ==
  ASSUME NEW net \in VirterNet, NEW access \in BOOLEAN
  PROVE  makeAddNetworkAction(net, access) \subseteq Choice
BY DEF makeAddNetworkAction, Choice, NoneAdded

LEMMA IDsChosenAreFree ==
  ASSUME NEW n
  PROVE  getIDs(n) \subseteq freeIDs
BY DEF getIDs

LEMMA TestActionChoice ==
  ASSUME NEW r \in StartableRuns
  PROVE  TestAction(r) \in Choice
<1>1. AccessNetworkOf(TestRuns[r]) \subseteq ReadyNets
  BY FoundNetworksReady DEF AccessNetworkOf
<1>2. \A p \in DOMAIN TestRuns[r].networks : ExtraNetworkOf(TestRuns[r], p) \subseteq ReadyNets
  BY FoundNetworksReady DEF ExtraNetworkOf
<1>3. getIDs(Size(r)) \subseteq freeIDs
  BY IDsChosenAreFree
<1>. QED
  BY <1>1, <1>2, <1>3 DEF TestAction, Choice

LEMMA RunChoice ==
  ASSUME NEW r \in DOMAIN TestRuns, StageOf(r) = "New"
  PROVE  nextActionRun(r) \subseteq Choice
<1>1. makeAddNetworkAction(accessNetwork(TestRuns[r].ipv6), TRUE) \subseteq Choice
  BY RunTypes, AccessNetworkType, AddNetworkChoice
<1>2. ASSUME NEW p \in DOMAIN TestRuns[r].networks
      PROVE  makeAddNetworkAction(TestRuns[r].networks[p], FALSE) \subseteq Choice
  <2>1. TestRuns[r].networks[p] \in VirterNet
    BY RunTypes
  <2>. QED
    BY <2>1, AddNetworkChoice
<1>3. \A p \in First(remainingNetworks(TestRuns[r])) : p \in DOMAIN TestRuns[r].networks
  BY DEF First, remainingNetworks
<1>4. allImagesReady(TestRuns[r]) => {TestAction(r)} \subseteq Choice
  BY TestActionChoice DEF StartableRuns
<1>. QED
  BY <1>1, <1>2, <1>3, <1>4 DEF nextActionRun

LEMMA ImageChoice ==
  ASSUME NEW v \in ImageWork
  PROVE  nextImageAction(v) \subseteq Choice
<1>1. v \in UnpulledVMs => nextActionPull(v) \subseteq Choice
  BY DEF nextActionPull, Choice
<1>2. makeAddNetworkAction(accessNetwork(FALSE), TRUE) \subseteq Choice
  BY AccessNetworkType, AddNetworkChoice
<1>3. getIDs(1) \subseteq freeIDs
  BY IDsChosenAreFree
<1>4. findReadyNetwork(accessNetwork(FALSE), TRUE, 0) \subseteq ReadyNets
  BY FoundNetworksReady
<1>5. v \in PulledVMs => nextActionProvision(v) \subseteq Choice
  <2> DEFINE access == findReadyNetwork(accessNetwork(FALSE), TRUE, 0)
             a == [kind |-> "provision", nr |-> v, ids |-> getIDs(1), nets |-> access]
  <2>1. v \in PulledVMs => a \in Choice
    BY <1>3, <1>4 DEF Choice
  <2>2. nextActionProvision(v) = IF access = {} THEN makeAddNetworkAction(accessNetwork(FALSE), TRUE)
                                 ELSE {a}
    BY DEF nextActionProvision
  <2>. QED
    BY <1>2, <2>1, <2>2
<1>. QED
  BY <1>1, <1>5 DEF nextImageAction, ImageWork, UnpulledVMs, PulledVMs

\* Whatever chooseNextAction returns, it takes free resources only.
LEMMA ChosenAction == chooseNextAction \subseteq Choice
<1>1. \A v \in First(ImageWork) : v \in ImageWork
  BY DEF First
<1>2. \A r \in bestRun : r \in DOMAIN TestRuns /\ StageOf(r) = "New"
  BY DEF bestRun, Candidates
<1>. QED
  BY <1>1, <1>2, ImageChoice, RunChoice DEF chooseNextAction

------------------------------------------------------------------------------
(* Types.                                                                  *)

Stages == {"Add", "Ready", "Busy", "Error"}

LEMMA SetStageType ==
  ASSUME networks \in Seq(NetworkState), NEW nets, NEW stage \in Stages
  PROVE  /\ SetStage(nets, stage) \in Seq(NetworkState)
         /\ DOMAIN SetStage(nets, stage) = DOMAIN networks
<1>1. ASSUME NEW i \in DOMAIN networks
      PROVE  /\ networks[i] \in NetworkState
             /\ [networks[i] EXCEPT !.stage = stage] \in NetworkState
  <2>1. networks[i] \in NetworkState
    OBVIOUS
  <2>. QED
    BY <2>1 DEF NetworkState, Stages
<1>2. DOMAIN networks = 1 .. Len(networks) /\ Len(networks) \in Nat
  OBVIOUS
<1>3. SetStage(nets, stage) \in [1 .. Len(networks) -> NetworkState]
  BY <1>1, <1>2 DEF SetStage
<1>. QED
  BY <1>2, <1>3

\* Actions stay actions when no network disappears.
LEMMA ActionsGrow ==
  ASSUME DOMAIN networks \subseteq DOMAIN networks'
  PROVE  Action \subseteq Action'
BY DEF Action

LEMMA ChoiceIsAction ==
  ASSUME TypeOK, NEW a \in Choice, a.kind # "network"
  PROVE  a \in Action
BY DEF Action, Choice, TypeOK, StartableRuns, UnpulledVMs, PulledVMs, ReadyNets

LEMMA ActionFields ==
  ASSUME TypeOK, NEW a \in outstanding
  PROVE  /\ a \in Action
         /\ a.ids \subseteq IDs
         /\ a.nets \subseteq DOMAIN networks
         /\ a.kind \in {"test", "pull", "provision", "network"}
         /\ a.kind = "test" => a.nr \in DOMAIN TestRuns
         /\ a.kind \in {"pull", "provision"} => a.nr \in DOMAIN VMs
         /\ a.kind = "network" => a.nr \in DOMAIN networks
         /\ a.kind \in {"pull", "network"} => a.ids = {} /\ a.nets = {}
BY DEF TypeOK, Action

LEMMA InitTypes == Init => TypeOK
<1> SUFFICES ASSUME Init PROVE TypeOK
  OBVIOUS
<1>1. networks \in Seq(NetworkState) /\ DOMAIN networks = {}
  BY DEF Init
<1>2. freeNets \in SubnetList
  BY DEF Init, NewNetworkList, SubnetList
<1>3. runResults \in [TestIDs -> Result \cup {NoResult}]
  BY DEF Init
<1>4. /\ pullStage \in [BaseImages -> {"None", "Pull", "Done", "Error"}]
      /\ provisionStage \in [VMIDs -> {"None", "Exec", "Done", "Error"}]
      /\ runStage \in [TestIDs -> {"New", "Exec", "Done"}]
  BY DEF Init
<1>5. /\ freeIDs \subseteq IDs
      /\ outstanding \subseteq Action
      /\ hostNets \subseteq DOMAIN networks
  BY DEF Init
<1>6. activeActions \in Int
  BY DEF Init
<1>7. /\ softExpired \in BOOLEAN
      /\ interrupted \in BOOLEAN
      /\ cancelled \in BOOLEAN
      /\ pc \in {"schedule", "wait", "stopped", "panicking", "returned", "crashed"}
  BY DEF Init
<1>. QED
  BY <1>1, <1>2, <1>3, <1>4, <1>5, <1>6, <1>7 DEF TypeOK

LEMMA LaunchTypes ==
  ASSUME TypeOK, NEW a \in Action', Launch(a), DOMAIN networks \subseteq DOMAIN networks'
  PROVE  outstanding' \subseteq Action' /\ activeActions' \in Int
<1>1. Action \subseteq Action'
  BY ActionsGrow
<1>. QED
  BY <1>1 DEF Launch, TypeOK

LEMMA OccupyTypes ==
  ASSUME TypeOK, NEW a, Occupy(a)
  PROVE  /\ networks' \in Seq(NetworkState)
         /\ DOMAIN networks' = DOMAIN networks
         /\ freeIDs' \subseteq IDs
BY SetStageType DEF Occupy, TypeOK, Stages

LEMMA ReserveTypes ==
  ASSUME TypeOK, NEW net \in VirterNet, NEW r \in ReserveFor(net)
  PROVE  r.subnets \in SUBSET Subnet /\ r.list \in SubnetList
<1>1. ASSUME NEW list \in SubnetList, NEW ipv6 \in BOOLEAN, NEW o \in ReserveNext(list, ipv6)
      PROVE  o.subnet \in Subnet /\ o.list \in SubnetList
  <2>1. list.current[ipv6] \in Nat /\ list.free \subseteq Subnet
    BY <1>1 DEF SubnetList
  <2>2. CASE FreeSubnets(list, ipv6) # {}
    <3>1. PICK s \in FreeSubnets(list, ipv6) : o = Outcome(s, [list EXCEPT !.free = @ \ {s}])
      BY <1>1, <2>2 DEF ReserveNext
    <3>. QED
      BY <3>1, <2>1 DEF Outcome, FreeSubnets, SubnetList
  <2>3. CASE FreeSubnets(list, ipv6) = {}
    <3>1. o = Outcome([ipv6 |-> ipv6, nr |-> list.current[ipv6]], [list EXCEPT !.current[ipv6] = @ + 1])
      BY <1>1, <2>3 DEF ReserveNext
    <3>. QED
      BY <3>1, <2>1 DEF Outcome, Subnet, SubnetList
  <2>. QED
    BY <2>2, <2>3
<1>2. freeNets \in SubnetList
  BY DEF TypeOK
<1>3. CASE ~net.dhcp
  BY <1>2, <1>3 DEF ReserveFor
<1>4. CASE net.dhcp /\ net.ipv6
  <2>1. PICK v4 \in ReserveNext(freeNets, FALSE) : \E v6 \in ReserveNext(v4.list, TRUE) :
          r = [subnets |-> {v4.subnet, v6.subnet}, list |-> v6.list]
    BY <1>4 DEF ReserveFor
  <2>2. PICK v6 \in ReserveNext(v4.list, TRUE) :
          r = [subnets |-> {v4.subnet, v6.subnet}, list |-> v6.list]
    BY <2>1
  <2>3. v4.subnet \in Subnet /\ v4.list \in SubnetList
    BY <1>1, <1>2
  <2>4. v6.subnet \in Subnet /\ v6.list \in SubnetList
    BY <2>3, <1>1
  <2>. QED
    BY <2>2, <2>3, <2>4
<1>5. CASE net.dhcp /\ ~net.ipv6
  <2>1. PICK v4 \in ReserveNext(freeNets, FALSE) :
          r = [subnets |-> {v4.subnet}, list |-> v4.list]
    BY <1>5 DEF ReserveFor
  <2>. QED
    BY <2>1, <1>1, <1>2
<1>. QED
  BY <1>3, <1>4, <1>5

LEMMA ResultTypes == TestResults \subseteq Result
<1>1. FailedResults \subseteq Result
  BY ConfigAssumption
<1>2. [status |-> "SUCCESS", err |-> FALSE] \in Result
  BY DEF Result, TestStatus
<1>3. \A s \in {"CANCELED", "ERROR"} : [status |-> s, err |-> TRUE] \in Result
  BY DEF Result, TestStatus
<1>. QED
  BY <1>1, <1>2, <1>3 DEF TestResults, Deliverable

\* The part of the types that receiving a result concerns.
ReceiveTypes(a) ==
  /\ outstanding' \subseteq outstanding
  /\ activeActions' \in Int
  /\ softExpired' \in BOOLEAN
  /\ interrupted' \in BOOLEAN

LEMMA ReceivedTypes ==
  ASSUME TypeOK, NEW a, Receive(a)
  PROVE  ReceiveTypes(a)
BY DEF Receive, ReceiveTypes, TypeOK

\* The part of the types that releasing resources concerns.
ReleaseTypes ==
  /\ networks' \in Seq(NetworkState)
  /\ DOMAIN networks' = DOMAIN networks
  /\ freeIDs' \subseteq IDs

LEMMA ReleasedTypes ==
  ASSUME TypeOK, NEW a \in outstanding, Release(a)
  PROVE  ReleaseTypes
BY SetStageType, ActionFields DEF Release, ReleaseTypes, TypeOK, Stages

LEMMA EndIterationTypes ==
  ASSUME TypeOK, EndIteration
  PROVE  cancelled' \in BOOLEAN /\ pc' = "schedule"
BY DEF EndIteration, runStopping, TypeOK

\* Every step keeps the types.
LEMMA NextTypes ==
  ASSUME TypeOK, [Next]_vars
  PROVE  TypeOK'
<1>1. CASE StartTest
  <2>1. PICK a \in chooseNextAction :
          /\ a.kind = "test"
          /\ runStage' = [runStage EXCEPT ![TestRuns[a.nr].testID] = "Exec"]
          /\ Occupy(a)
          /\ Launch(a)
    BY <1>1 DEF StartTest
  <2>2. a \in Action
    BY <2>1, ChosenAction, ChoiceIsAction
  <2>3. /\ networks' \in Seq(NetworkState)
        /\ DOMAIN networks' = DOMAIN networks
        /\ freeIDs' \subseteq IDs
    BY <2>1, OccupyTypes
  <2>4. outstanding' \subseteq Action' /\ activeActions' \in Int
    BY <2>1, <2>2, <2>3, ActionsGrow, LaunchTypes
  <2>. QED
    BY <1>1, <2>1, <2>3, <2>4
    DEF StartTest, TypeOK, imageVars, loopVars
<1>2. CASE StartPull
  <2>1. PICK a \in chooseNextAction :
          /\ a.kind = "pull"
          /\ pullStage' = [pullStage EXCEPT ![VMs[a.nr].base] = "Pull"]
          /\ Launch(a)
    BY <1>2 DEF StartPull
  <2>2. a \in Action
    BY <2>1, ChosenAction, ChoiceIsAction
  <2>3. networks' = networks
    BY <1>2 DEF StartPull, netVars
  <2>4. outstanding' \subseteq Action' /\ activeActions' \in Int
    BY <2>1, <2>2, <2>3, ActionsGrow, LaunchTypes
  <2>. QED
    BY <1>2, <2>1, <2>3, <2>4
    DEF StartPull, TypeOK, netVars, runVars, loopVars
<1>3. CASE StartProvision
  <2>1. PICK a \in chooseNextAction :
          /\ a.kind = "provision"
          /\ provisionStage' = [provisionStage EXCEPT ![ID(VMs[a.nr])] = "Exec"]
          /\ Occupy(a)
          /\ Launch(a)
    BY <1>3 DEF StartProvision
  <2>2. a \in Action
    BY <2>1, ChosenAction, ChoiceIsAction
  <2>3. /\ networks' \in Seq(NetworkState)
        /\ DOMAIN networks' = DOMAIN networks
        /\ freeIDs' \subseteq IDs
    BY <2>1, OccupyTypes
  <2>4. outstanding' \subseteq Action' /\ activeActions' \in Int
    BY <2>1, <2>2, <2>3, ActionsGrow, LaunchTypes
  <2>. QED
    BY <1>3, <2>1, <2>3, <2>4
    DEF StartProvision, TypeOK, runVars, loopVars
<1>4. CASE StartAddNetwork
  <2>1. PICK a \in chooseNextAction :
          /\ a.kind = "network"
          /\ \E r \in ReserveFor(a.network) :
               /\ networks' = Append(networks, NewNetwork(a, r.subnets))
               /\ freeNets' = r.list
          /\ Launch(a)
    BY <1>4 DEF StartAddNetwork
  <2>2. PICK r \in ReserveFor(a.network) :
               /\ networks' = Append(networks, NewNetwork(a, r.subnets))
               /\ freeNets' = r.list
    BY <2>1
  <2>3. /\ a.network \in VirterNet /\ a.access \in BOOLEAN
        /\ a.nr = Len(networks) + 1
        /\ a \in [kind : {"network"}, nr : {Len(networks) + 1}, ids : {{}}, nets : {{}},
                  network : VirterNet, access : BOOLEAN]
    BY <2>1, ChosenAction DEF Choice
  <2>4. r.subnets \in SUBSET Subnet /\ r.list \in SubnetList
    BY <2>3, ReserveTypes
  <2>5. /\ networks' \in Seq(NetworkState)
        /\ DOMAIN networks' = 1 .. Len(networks) + 1
        /\ DOMAIN networks \subseteq DOMAIN networks'
    <3>1. NewNetwork(a, r.subnets) \in NetworkState
      BY <2>3, <2>4 DEF NewNetwork, NetworkState
    <3>2. networks \in Seq(NetworkState)
      BY DEF TypeOK
    <3>. QED
      BY <2>2, <3>1, <3>2
  <2>6. a \in Action'
    <3>1. Len(networks) + 1 \in DOMAIN networks'
      <4>1. Len(networks) \in Nat
        BY DEF TypeOK
      <4>. QED
        BY <2>5, <4>1
    <3>. QED
      BY <2>3, <3>1 DEF Action
  <2>7. outstanding' \subseteq Action' /\ activeActions' \in Int
    BY <2>1, <2>5, <2>6, LaunchTypes
  <2>. QED
    BY <1>4, <2>2, <2>4, <2>5, <2>7
    DEF StartAddNetwork, TypeOK, imageVars, runVars, loopVars
<1>5. CASE PanicAddNetwork
  <2>1. PICK a \in chooseNextAction :
          /\ a.kind = "network"
          /\ networks' = Append(networks, NewNetwork(a, {}))
    BY <1>5 DEF PanicAddNetwork
  <2>2. /\ networks' \in Seq(NetworkState)
        /\ DOMAIN networks \subseteq DOMAIN networks'
    <3>1. a.network \in VirterNet /\ a.access \in BOOLEAN
      BY <2>1, ChosenAction DEF Choice
    <3>2. NewNetwork(a, {}) \in NetworkState
      BY <3>1 DEF NewNetwork, NetworkState
    <3>3. networks \in Seq(NetworkState)
      BY DEF TypeOK
    <3>. QED
      BY <2>1, <3>2, <3>3
  <2>3. outstanding' \subseteq Action'
    BY <1>5, <2>2, ActionsGrow DEF PanicAddNetwork, TypeOK
  <2>. QED
    BY <1>5, <2>2, <2>3 DEF PanicAddNetwork, TypeOK, imageVars, runVars
<1>6. CASE AwaitResult
  <2>1. outstanding' \subseteq Action'
    BY <1>6, ActionsGrow DEF AwaitResult, netVars, TypeOK
  <2>. QED
    BY <1>6, <2>1 DEF AwaitResult, netVars, imageVars, runVars, TypeOK
<1>7. CASE LeaveLoop
  <2>1. outstanding' \subseteq Action'
    BY <1>7, ActionsGrow DEF LeaveLoop, netVars, TypeOK
  <2>2. runResults' \in [TestIDs -> Result \cup {NoResult}]
    <3>1. [status |-> "SKIPPED", err |-> TRUE] \in Result
      BY DEF Result, TestStatus
    <3>2. \A t \in TestIDs : runResults[t] \in Result \cup {NoResult}
      BY DEF TypeOK
    <3>3. CASE softExpired
      BY <1>7, <3>3 DEF LeaveLoop, TypeOK
    <3>4. CASE ~softExpired
      <4>1. runResults' = [t \in TestIDs |-> IF t \in Unfinished THEN [status |-> "SKIPPED", err |-> TRUE]
                                            ELSE runResults[t]]
        BY <1>7, <3>4 DEF LeaveLoop
      <4>. QED
        BY <3>1, <3>2, <4>1
    <3>. QED
      BY <3>3, <3>4
  <2>. QED
    BY <1>7, <2>1, <2>2 DEF LeaveLoop, netVars, imageVars, TypeOK
<1>8. CASE SoftTimer
  <2>1. outstanding' \subseteq Action'
    BY <1>8, ActionsGrow DEF SoftTimer, netVars, TypeOK
  <2>. QED
    BY <1>8, <2>1, EndIterationTypes DEF SoftTimer, netVars, imageVars, runVars, TypeOK
<1>9. CASE Interrupt
  <2>1. outstanding' \subseteq Action'
    BY <1>9, ActionsGrow DEF Interrupt, netVars, TypeOK
  <2>. QED
    BY <1>9, <2>1 DEF Interrupt, netVars, imageVars, runVars, TypeOK
<1>10. CASE TearDown
  <2>1. outstanding' \subseteq Action'
    BY <1>10, ActionsGrow DEF TearDown, TypeOK
  <2>2. hostNets' \subseteq DOMAIN networks'
    BY <1>10 DEF TearDown, TypeOK
  <2>. QED
    BY <1>10, <2>1, <2>2 DEF TearDown, imageVars, runVars, TypeOK
<1>11. CASE FinishTest
  <2>1. PICK a \in outstanding, res \in TestResults :
          /\ a.kind = "test"
          /\ Receive(a)
          /\ runStage' = [runStage EXCEPT ![TestRuns[a.nr].testID] = "Done"]
          /\ runResults' = [runResults EXCEPT ![TestRuns[a.nr].testID] = res]
          /\ Release(a)
    BY <1>11 DEF FinishTest
  <2>2. ReceiveTypes(a)
    BY <2>1, ReceivedTypes
  <2>3. ReleaseTypes
    BY <2>1, ReleasedTypes
  <2>4. res \in Result
    BY ResultTypes
  <2>5. runResults' \in [TestIDs -> Result \cup {NoResult}]
    BY <2>1, <2>4 DEF TypeOK
  <2>. QED
    BY <1>11, <2>1, <2>2, <2>3, <2>5, ActionsGrow, EndIterationTypes
    DEF FinishTest, ReceiveTypes, ReleaseTypes, TypeOK, imageVars
<1>12. CASE FinishPull
  <2>1. PICK a \in outstanding, failed \in BOOLEAN :
          /\ a.kind = "pull"
          /\ Receive(a)
          /\ pullStage' = [pullStage EXCEPT ![VMs[a.nr].base] = IF failed THEN "Error" ELSE "Done"]
    BY <1>12 DEF FinishPull
  <2>2. ReceiveTypes(a)
    BY <2>1, ReceivedTypes
  <2>. QED
    BY <1>12, <2>1, <2>2, ActionsGrow, EndIterationTypes
    DEF FinishPull, ReceiveTypes, TypeOK, netVars, runVars
<1>13. CASE FinishProvision
  <2>1. PICK a \in outstanding, failed \in BOOLEAN :
          /\ a.kind = "provision"
          /\ Receive(a)
          /\ provisionStage' = [provisionStage EXCEPT ![ID(VMs[a.nr])] = IF failed THEN "Error" ELSE "Done"]
          /\ Release(a)
    BY <1>13 DEF FinishProvision
  <2>2. ReceiveTypes(a)
    BY <2>1, ReceivedTypes
  <2>3. ReleaseTypes
    BY <2>1, ReleasedTypes
  <2>. QED
    BY <1>13, <2>1, <2>2, <2>3, ActionsGrow, EndIterationTypes
    DEF FinishProvision, ReceiveTypes, ReleaseTypes, TypeOK, runVars
<1>14. CASE FinishAddNetwork
  <2>1. PICK a \in outstanding, failed \in BOOLEAN, made \in BOOLEAN :
          /\ a.kind = "network"
          /\ Receive(a)
          /\ networks' = SetStage({a.nr}, IF failed THEN "Error" ELSE "Ready")
          /\ hostNets' = IF made THEN hostNets \cup {a.nr} ELSE hostNets
    BY <1>14 DEF FinishAddNetwork
  <2>2. ReceiveTypes(a)
    BY <2>1, ReceivedTypes
  <2>3. networks' \in Seq(NetworkState) /\ DOMAIN networks' = DOMAIN networks
    BY <2>1, SetStageType DEF TypeOK, Stages
  <2>4. hostNets' \subseteq DOMAIN networks'
    BY <2>1, <2>3, ActionFields DEF TypeOK
  <2>. QED
    BY <1>14, <2>2, <2>3, <2>4, ActionsGrow, EndIterationTypes
    DEF FinishAddNetwork, ReceiveTypes, TypeOK, imageVars, runVars
<1>15. CASE Terminated \/ UNCHANGED vars
  <2>1. UNCHANGED vars
    BY <1>15 DEF Terminated
  <2>2. outstanding' \subseteq Action'
    BY <2>1, ActionsGrow DEF vars, TypeOK
  <2>. QED
    BY <2>1, <2>2 DEF vars, TypeOK
<1>. QED
  BY <1>1, <1>2, <1>3, <1>4, <1>5, <1>6, <1>7, <1>8, <1>9, <1>10, <1>11,
     <1>12, <1>13, <1>14, <1>15
  DEF Next, SchedulerStep, Environment

\* The state always has its types: the scheduler never loses or invents a VM ID,
\* and no result, stage or network of an unknown kind appears.
THEOREM TypeCorrect == Spec => []TypeOK
<1>1. Init => TypeOK
  BY InitTypes
<1>2. TypeOK /\ [Next]_vars => TypeOK'
  BY NextTypes
<1>. QED
  BY <1>1, <1>2, PTL DEF Spec

------------------------------------------------------------------------------
(* The resources are never shared.                                         *)

\* The network of an outstanding addNetworkAction is in the stage Add: what
\* makeAddNetworkAction reads in the networks says what is outstanding.
AddingOutstanding ==
  \A a \in outstanding : a.kind = "network" => networks[a.nr].stage = "Add"

\* The inductive invariant.
ResourceInv ==
  /\ TypeOK
  /\ ResourcesExclusive
  /\ SingleNetworkAdd
  /\ AddingOutstanding

Held == UNION {a.ids : a \in outstanding}

HeldNets == UNION {a.nets : a \in outstanding}

LEMMA SetStageStages ==
  ASSUME TypeOK, NEW nets, NEW stage
  PROVE  /\ DOMAIN SetStage(nets, stage) = DOMAIN networks
         /\ \A i \in DOMAIN networks :
              SetStage(nets, stage)[i].stage = IF i \in nets THEN stage ELSE networks[i].stage
<1>1. \A i \in DOMAIN networks : networks[i] \in NetworkState
  BY DEF TypeOK
<1>. QED
  BY <1>1 DEF SetStage, NetworkState

LEMMA InitResources == Init => ResourceInv
<1> SUFFICES ASSUME Init PROVE ResourceInv
  OBVIOUS
<1>1. outstanding = {} /\ freeIDs = IDs /\ DOMAIN networks = {}
  BY DEF Init
<1>2. ResourcesExclusive
  BY <1>1 DEF ResourcesExclusive, Busy
<1>. QED
  BY <1>1, <1>2, InitTypes DEF ResourceInv, SingleNetworkAdd, AddingOutstanding

\* Launching an action that takes free resources keeps them exclusive.
LEMMA LaunchExclusive ==
  ASSUME ResourceInv, NEW a \in Choice, Launch(a), Occupy(a), a.kind # "network"
  PROVE  ResourcesExclusive' /\ SingleNetworkAdd' /\ AddingOutstanding'
<1>1. /\ outstanding' = outstanding \cup {a}
      /\ freeIDs' = freeIDs \ a.ids
      /\ networks' = SetStage(a.nets, "Busy")
  BY DEF Launch, Occupy
<1>2. a.ids \subseteq freeIDs /\ a.nets \subseteq ReadyNets
  BY DEF Choice
<1>3. TypeOK
  BY DEF ResourceInv
<1>4. /\ DOMAIN networks' = DOMAIN networks
      /\ \A i \in DOMAIN networks :
           networks'[i].stage = IF i \in a.nets THEN "Busy" ELSE networks[i].stage
  BY <1>1, <1>3, SetStageStages
<1>5. \A b, c \in outstanding' : b # c => b.ids \cap c.ids = {} /\ b.nets \cap c.nets = {}
  <2>1. \A b \in outstanding : a.ids \cap b.ids = {} /\ a.nets \cap b.nets = {}
    BY <1>2 DEF ResourceInv, ResourcesExclusive, Busy, ReadyNets
  <2>. QED
    BY <1>1, <2>1 DEF ResourceInv, ResourcesExclusive
<1>6. freeIDs' = IDs \ UNION {b.ids : b \in outstanding'}
  BY <1>1 DEF ResourceInv, ResourcesExclusive
<1>7. Busy' = UNION {b.nets : b \in outstanding'}
  <2>1. Busy' = Busy \cup a.nets
    BY <1>2, <1>4 DEF Busy, ReadyNets
  <2>2. Busy = HeldNets
    BY DEF ResourceInv, ResourcesExclusive, HeldNets
  <2>. QED
    BY <1>1, <2>1, <2>2 DEF HeldNets
<1>8. SingleNetworkAdd'
  BY <1>1 DEF ResourceInv, SingleNetworkAdd
<1>9. AddingOutstanding'
  <2>1. ASSUME NEW b \in outstanding', b.kind = "network"
        PROVE  networks'[b.nr].stage = "Add"
    <3>1. b \in outstanding /\ networks[b.nr].stage = "Add"
      BY <1>1, <2>1 DEF ResourceInv, AddingOutstanding
    <3>2. b.nr \in DOMAIN networks
      BY <1>3, <2>1, <3>1, ActionFields
    <3>3. b.nr \notin a.nets
      BY <1>2, <3>1 DEF ReadyNets
    <3>. QED
      BY <1>4, <3>1, <3>2, <3>3
  <2>. QED
    BY <2>1 DEF AddingOutstanding
<1>. QED
  BY <1>5, <1>6, <1>7, <1>8, <1>9 DEF ResourcesExclusive

\* Receiving the result of an action and releasing what it held.
LEMMA ReleaseExclusive ==
  ASSUME ResourceInv, NEW a \in outstanding, Receive(a), Release(a)
  PROVE  ResourcesExclusive' /\ SingleNetworkAdd' /\ AddingOutstanding'
<1>1. /\ outstanding' = outstanding \ {a}
      /\ freeIDs' = freeIDs \cup a.ids
      /\ networks' = SetStage(a.nets, "Ready")
  BY DEF Receive, Release
<1>2. TypeOK
  BY DEF ResourceInv
<1>3. /\ DOMAIN networks' = DOMAIN networks
      /\ \A i \in DOMAIN networks :
           networks'[i].stage = IF i \in a.nets THEN "Ready" ELSE networks[i].stage
  BY <1>1, <1>2, SetStageStages
<1>4. \A b \in outstanding' : a.ids \cap b.ids = {} /\ a.nets \cap b.nets = {}
  BY <1>1 DEF ResourceInv, ResourcesExclusive
<1>5. \A b, c \in outstanding' : b # c => b.ids \cap c.ids = {} /\ b.nets \cap c.nets = {}
  BY <1>1 DEF ResourceInv, ResourcesExclusive
<1>6. freeIDs' = IDs \ UNION {b.ids : b \in outstanding'}
  <2>1. a.ids \subseteq IDs
    BY <1>2, ActionFields
  <2>2. freeIDs = IDs \ UNION {b.ids : b \in outstanding}
    BY DEF ResourceInv, ResourcesExclusive
  <2>. QED
    BY <1>1, <1>4, <2>1, <2>2
<1>7. Busy' = UNION {b.nets : b \in outstanding'}
  <2>1. Busy' = Busy \ a.nets
    BY <1>3 DEF Busy
  <2>2. Busy = UNION {b.nets : b \in outstanding}
    BY DEF ResourceInv, ResourcesExclusive
  <2>. QED
    BY <1>1, <1>4, <2>1, <2>2
<1>8. SingleNetworkAdd'
  BY <1>1 DEF ResourceInv, SingleNetworkAdd
<1>9. AddingOutstanding'
  <2>1. ASSUME NEW b \in outstanding', b.kind = "network"
        PROVE  networks'[b.nr].stage = "Add"
    <3>1. b \in outstanding /\ networks[b.nr].stage = "Add"
      BY <1>1, <2>1 DEF ResourceInv, AddingOutstanding
    <3>2. b.nr \in DOMAIN networks
      BY <1>2, <2>1, <3>1, ActionFields
    <3>3. b.nr \notin a.nets
      BY <3>1 DEF ResourceInv, ResourcesExclusive, Busy
    <3>. QED
      BY <1>3, <3>1, <3>2, <3>3
  <2>. QED
    BY <2>1 DEF AddingOutstanding
<1>. QED
  BY <1>5, <1>6, <1>7, <1>8, <1>9 DEF ResourcesExclusive

\* An action that is launched or received without holding anything.
LEMMA NothingHeld ==
  ASSUME ResourceInv, NEW a, a.ids = {}, a.nets = {}, a.kind # "network",
         UNCHANGED <<networks, freeIDs>>,
         outstanding' = outstanding \cup {a} \/ outstanding' = outstanding \ {a}
  PROVE  ResourcesExclusive' /\ SingleNetworkAdd' /\ AddingOutstanding'
<1>1. UNION {b.ids : b \in outstanding'} = UNION {b.ids : b \in outstanding}
  OBVIOUS
<1>2. UNION {b.nets : b \in outstanding'} = UNION {b.nets : b \in outstanding}
  OBVIOUS
<1>3. Busy' = Busy
  BY DEF Busy
<1>4. \A b, c \in outstanding' : b # c => b.ids \cap c.ids = {} /\ b.nets \cap c.nets = {}
  BY DEF ResourceInv, ResourcesExclusive
<1>5. ResourcesExclusive'
  BY <1>1, <1>2, <1>3, <1>4 DEF ResourceInv, ResourcesExclusive
<1>6. SingleNetworkAdd' /\ AddingOutstanding'
  BY DEF ResourceInv, SingleNetworkAdd, AddingOutstanding
<1>. QED
  BY <1>5, <1>6

\* A step that changes neither the resources nor the outstanding actions.
LEMMA ResourcesUntouched ==
  ASSUME ResourceInv, UNCHANGED <<networks, freeIDs, outstanding>>
  PROVE  ResourcesExclusive' /\ SingleNetworkAdd' /\ AddingOutstanding'
BY DEF ResourceInv, ResourcesExclusive, SingleNetworkAdd, AddingOutstanding, Busy

\* A network is appended, in the stage Add.
LEMMA AppendExclusive ==
  ASSUME ResourceInv, NEW net, net.stage = "Add",
         networks' = Append(networks, net), UNCHANGED freeIDs
  PROVE  /\ Busy' = Busy
         /\ \A b \in outstanding : b.kind = "network" => networks'[b.nr].stage = "Add"
         /\ networks'[Len(networks) + 1].stage = "Add"
<1>1. networks \in Seq(NetworkState) /\ Len(networks) \in Nat
  BY DEF ResourceInv, TypeOK
<1>2. /\ DOMAIN networks' = DOMAIN networks \cup {Len(networks) + 1}
      /\ Len(networks) + 1 \notin DOMAIN networks
      /\ \A i \in DOMAIN networks : networks'[i] = networks[i]
      /\ networks'[Len(networks) + 1] = net
  BY <1>1
<1>3. Busy' = Busy
  BY <1>2 DEF Busy
<1>4. ASSUME NEW b \in outstanding, b.kind = "network"
      PROVE  networks'[b.nr].stage = "Add"
  <2>1. b.nr \in DOMAIN networks
    BY <1>4, ActionFields DEF ResourceInv
  <2>. QED
    BY <1>2, <1>4, <2>1 DEF ResourceInv, AddingOutstanding
<1>. QED
  BY <1>2, <1>3, <1>4

LEMMA NextResources ==
  ASSUME ResourceInv, [Next]_vars
  PROVE  ResourceInv'
<1>1. TypeOK /\ TypeOK'
  BY NextTypes DEF ResourceInv
<1>2. CASE StartTest
  <2>1. PICK a \in chooseNextAction : a.kind = "test" /\ Occupy(a) /\ Launch(a)
    BY <1>2 DEF StartTest
  <2>. QED
    BY <1>1, <2>1, ChosenAction, LaunchExclusive DEF ResourceInv
<1>3. CASE StartProvision
  <2>1. PICK a \in chooseNextAction : a.kind = "provision" /\ Occupy(a) /\ Launch(a)
    BY <1>3 DEF StartProvision
  <2>. QED
    BY <1>1, <2>1, ChosenAction, LaunchExclusive DEF ResourceInv
<1>4. CASE StartPull
  <2>1. PICK a \in chooseNextAction : a.kind = "pull" /\ Launch(a)
    BY <1>4 DEF StartPull
  <2>2. a.ids = {} /\ a.nets = {}
    BY <2>1, ChosenAction DEF Choice
  <2>. QED
    BY <1>1, <1>4, <2>1, <2>2, NothingHeld DEF ResourceInv, StartPull, Launch, netVars
<1>5. CASE StartAddNetwork
  <2>1. PICK a \in chooseNextAction :
          /\ a.kind = "network"
          /\ \E r \in ReserveFor(a.network) : networks' = Append(networks, NewNetwork(a, r.subnets))
          /\ Launch(a)
    BY <1>5 DEF StartAddNetwork
  <2>2. PICK r \in ReserveFor(a.network) : networks' = Append(networks, NewNetwork(a, r.subnets))
    BY <2>1
  <2>3. a.ids = {} /\ a.nets = {} /\ a.nr = Len(networks) + 1 /\ NoneAdded
    BY <2>1, ChosenAction DEF Choice
  <2>4. freeIDs' = freeIDs /\ outstanding' = outstanding \cup {a}
    BY <1>5, <2>1 DEF StartAddNetwork, Launch
  <2>5. NewNetwork(a, r.subnets).stage = "Add"
    BY DEF NewNetwork
  <2>6. /\ Busy' = Busy
        /\ \A b \in outstanding : b.kind = "network" => networks'[b.nr].stage = "Add"
        /\ networks'[Len(networks) + 1].stage = "Add"
    BY <2>2, <2>4, <2>5, AppendExclusive
  <2>7. \A b \in outstanding : b.kind # "network"
    BY <1>1, <2>3, ActionFields DEF ResourceInv, AddingOutstanding, NoneAdded
  <2>8. ResourcesExclusive'
    <3>1. \A b, c \in outstanding' : b # c => b.ids \cap c.ids = {} /\ b.nets \cap c.nets = {}
      BY <2>3, <2>4 DEF ResourceInv, ResourcesExclusive
    <3>2. UNION {b.ids : b \in outstanding'} = UNION {b.ids : b \in outstanding}
      BY <2>3, <2>4
    <3>3. UNION {b.nets : b \in outstanding'} = UNION {b.nets : b \in outstanding}
      BY <2>3, <2>4
    <3>. QED
      BY <2>4, <2>6, <3>1, <3>2, <3>3 DEF ResourceInv, ResourcesExclusive
  <2>9. SingleNetworkAdd' /\ AddingOutstanding'
    BY <2>3, <2>4, <2>6, <2>7 DEF SingleNetworkAdd, AddingOutstanding
  <2>. QED
    BY <1>1, <2>8, <2>9 DEF ResourceInv
<1>6. CASE PanicAddNetwork
  <2>1. PICK a : networks' = Append(networks, NewNetwork(a, {}))
    BY <1>6 DEF PanicAddNetwork
  <2>2. freeIDs' = freeIDs /\ outstanding' = outstanding
    BY <1>6 DEF PanicAddNetwork
  <2>3. NewNetwork(a, {}).stage = "Add"
    BY DEF NewNetwork
  <2>4. /\ Busy' = Busy
        /\ \A b \in outstanding : b.kind = "network" => networks'[b.nr].stage = "Add"
    BY <2>1, <2>2, <2>3, AppendExclusive
  <2>. QED
    BY <1>1, <2>2, <2>4
    DEF ResourceInv, ResourcesExclusive, SingleNetworkAdd, AddingOutstanding
<1>7. CASE FinishTest
  <2>1. PICK a \in outstanding : Receive(a) /\ Release(a)
    BY <1>7 DEF FinishTest
  <2>. QED
    BY <1>1, <2>1, ReleaseExclusive DEF ResourceInv
<1>8. CASE FinishProvision
  <2>1. PICK a \in outstanding : Receive(a) /\ Release(a)
    BY <1>8 DEF FinishProvision
  <2>. QED
    BY <1>1, <2>1, ReleaseExclusive DEF ResourceInv
<1>9. CASE FinishPull
  <2>1. PICK a \in outstanding : a.kind = "pull" /\ Receive(a)
    BY <1>9 DEF FinishPull
  <2>2. a.ids = {} /\ a.nets = {}
    BY <1>1, <2>1, ActionFields
  <2>. QED
    BY <1>1, <1>9, <2>1, <2>2, NothingHeld DEF ResourceInv, FinishPull, Receive, netVars
<1>10. CASE FinishAddNetwork
  <2>1. PICK a \in outstanding, failed \in BOOLEAN :
          /\ a.kind = "network"
          /\ Receive(a)
          /\ networks' = SetStage({a.nr}, IF failed THEN "Error" ELSE "Ready")
    BY <1>10 DEF FinishAddNetwork
  <2>2. a.ids = {} /\ a.nets = {} /\ a.nr \in DOMAIN networks
    BY <1>1, <2>1, ActionFields
  <2>3. /\ DOMAIN networks' = DOMAIN networks
        /\ \A i \in DOMAIN networks :
             networks'[i].stage = IF i = a.nr THEN (IF failed THEN "Error" ELSE "Ready")
                                  ELSE networks[i].stage
    BY <1>1, <2>1, SetStageStages
  <2>4. networks[a.nr].stage = "Add"
    BY <2>1 DEF ResourceInv, AddingOutstanding
  <2>5. Busy' = Busy
    BY <2>3, <2>4 DEF Busy
  <2>6. freeIDs' = freeIDs /\ outstanding' = outstanding \ {a}
    BY <1>10, <2>1 DEF FinishAddNetwork, Receive
  <2>7. \A b \in outstanding' : b.kind # "network"
    BY <2>1, <2>6 DEF ResourceInv, SingleNetworkAdd
  <2>8. ResourcesExclusive'
    <3>1. UNION {b.ids : b \in outstanding'} = UNION {b.ids : b \in outstanding}
      BY <2>2, <2>6
    <3>2. UNION {b.nets : b \in outstanding'} = UNION {b.nets : b \in outstanding}
      BY <2>2, <2>6
    <3>. QED
      BY <2>5, <2>6, <3>1, <3>2 DEF ResourceInv, ResourcesExclusive
  <2>. QED
    BY <1>1, <2>7, <2>8 DEF ResourceInv, SingleNetworkAdd, AddingOutstanding
<1>11. CASE AwaitResult \/ LeaveLoop \/ SoftTimer \/ Interrupt \/ TearDown
  <2>1. UNCHANGED <<networks, freeIDs, outstanding>>
    BY <1>11 DEF AwaitResult, LeaveLoop, SoftTimer, Interrupt, TearDown, netVars
  <2>. QED
    BY <1>1, <2>1, ResourcesUntouched DEF ResourceInv
<1>12. CASE Terminated \/ UNCHANGED vars
  <2>1. UNCHANGED <<networks, freeIDs, outstanding>>
    BY <1>12 DEF Terminated, vars
  <2>. QED
    BY <1>1, <2>1, ResourcesUntouched DEF ResourceInv
<1>. QED
  BY <1>2, <1>3, <1>4, <1>5, <1>6, <1>7, <1>8, <1>9, <1>10, <1>11, <1>12
  DEF Next, SchedulerStep, Environment

LEMMA ResourceInvariance == Spec => []ResourceInv
<1>1. Init => ResourceInv
  BY InitResources
<1>2. ResourceInv /\ [Next]_vars => ResourceInv'
  BY NextResources
<1>. QED
  BY <1>1, <1>2, PTL DEF Spec

\* No VM ID and no network is ever given to two actions at once, and the free
\* IDs and busy networks are exactly those the outstanding actions leave or hold.
THEOREM ExclusiveResources == Spec => []ResourcesExclusive
<1>1. ResourceInv => ResourcesExclusive
  BY DEF ResourceInv
<1>. QED
  BY <1>1, ResourceInvariance, PTL

\* At no time are two networks being added: the libvirt race is avoided.
THEOREM OneNetworkAdd == Spec => []SingleNetworkAdd
<1>1. ResourceInv => SingleNetworkAdd
  BY DEF ResourceInv
<1>. QED
  BY <1>1, ResourceInvariance, PTL

------------------------------------------------------------------------------
(* Subnets: no IP subnet is given to two networks, for any address space.  *)

\* The subnets of the networks were handed out before the next one of their
\* family; none was ever given back.
HandedOut ==
  /\ freeNets.free = {}
  /\ \A i \in DOMAIN networks : \A s \in networks[i].subnets : s.nr < freeNets.current[s.ipv6]

\* The inductive invariant.
SubnetInv == TypeOK /\ HandedOut /\ SubnetsDisjoint

\* Without free subnets the next one of the family is handed out.
LEMMA ReserveNextFresh ==
  ASSUME NEW list \in SubnetList, list.free = {}, NEW ipv6 \in BOOLEAN,
         NEW o \in ReserveNext(list, ipv6)
  PROVE  /\ o.subnet = [ipv6 |-> ipv6, nr |-> list.current[ipv6]]
         /\ o.list \in SubnetList
         /\ o.list.free = {}
         /\ o.list.current = [list.current EXCEPT ![ipv6] = @ + 1]
<1>1. list.current \in [BOOLEAN -> Nat]
  BY DEF SubnetList
<1>2. o = Outcome([ipv6 |-> ipv6, nr |-> list.current[ipv6]], [list EXCEPT !.current[ipv6] = @ + 1])
  BY DEF ReserveNext, FreeSubnets
<1>. QED
  BY <1>1, <1>2 DEF Outcome, SubnetList

\* Subnets taken from between two bounds of their family.
Between(old, new, subnets) ==
  \A s \in subnets : s.ipv6 \in BOOLEAN /\ old[s.ipv6] <= s.nr /\ s.nr < new[s.ipv6]

LEMMA NextBound ==
  ASSUME NEW n \in Nat
  PROVE  n <= n /\ n < n + 1 /\ n <= n + 1
OBVIOUS

\* What a list reserves for a network lies between the old and the new bound.
LEMMA ReserveForFresh ==
  ASSUME TypeOK, HandedOut, NEW net \in VirterNet, NEW r \in ReserveFor(net)
  PROVE  /\ r.list.free = {}
         /\ \A ipv6 \in BOOLEAN : freeNets.current[ipv6] <= r.list.current[ipv6]
         /\ Between(freeNets.current, r.list.current, r.subnets)
<1> DEFINE old == freeNets.current
           new == r.list.current
<1>1. freeNets \in SubnetList /\ freeNets.free = {} /\ old \in [BOOLEAN -> Nat]
  BY DEF TypeOK, HandedOut, SubnetList
<1>2. old[FALSE] \in Nat /\ old[TRUE] \in Nat
  BY <1>1
<1>3. ASSUME old[FALSE] <= new[FALSE], old[TRUE] <= new[TRUE]
      PROVE  \A ipv6 \in BOOLEAN : old[ipv6] <= new[ipv6]
  BY <1>3, Zenon
<1>4. ASSUME NEW s, NEW ipv6 \in BOOLEAN, s = [ipv6 |-> ipv6, nr |-> old[ipv6]], old[ipv6] < new[ipv6],
             old[ipv6] <= old[ipv6]
      PROVE  s.ipv6 \in BOOLEAN /\ old[s.ipv6] <= s.nr /\ s.nr < new[s.ipv6]
  <2>1. s.ipv6 = ipv6 /\ s.nr = old[ipv6]
    BY <1>4
  <2>. QED
    BY <1>4, <2>1, Zenon
<1>5. CASE ~net.dhcp
  <2>1. r = [subnets |-> {}, list |-> freeNets]
    BY <1>5 DEF ReserveFor
  <2>2. r.list.free = {} /\ new = old /\ r.subnets = {}
    BY <1>1, <2>1
  <2>3. old[FALSE] <= new[FALSE] /\ old[TRUE] <= new[TRUE]
    BY <1>2, <2>2, NextBound, Zenon
  <2>. QED
    BY <1>3, <2>2, <2>3 DEF Between
<1>6. CASE net.dhcp /\ ~net.ipv6
  <2>1. PICK v4 \in ReserveNext(freeNets, FALSE) : r = [subnets |-> {v4.subnet}, list |-> v4.list]
    BY <1>6 DEF ReserveFor
  <2>2. /\ v4.subnet = [ipv6 |-> FALSE, nr |-> old[FALSE]]
        /\ v4.list.free = {}
        /\ v4.list.current = [old EXCEPT ![FALSE] = @ + 1]
    BY <1>1, ReserveNextFresh
  <2>3. r.list = v4.list /\ r.subnets = {v4.subnet}
    BY <2>1
  <2>4. new[FALSE] = old[FALSE] + 1 /\ new[TRUE] = old[TRUE]
    BY <1>1, <2>2, <2>3
  <2>5. old[FALSE] < new[FALSE] /\ old[FALSE] <= new[FALSE] /\ old[TRUE] <= new[TRUE]
    BY <1>2, <2>4, NextBound, Zenon
  <2>6. old[FALSE] <= old[FALSE]
    BY <1>2, NextBound, Zenon
  <2>7. Between(old, new, {v4.subnet})
    BY <1>4, <2>2, <2>5, <2>6, Zenon DEF Between
  <2>. QED
    BY <1>3, <2>2, <2>3, <2>5, <2>7
<1>7. CASE net.dhcp /\ net.ipv6
  <2>1. PICK v4 \in ReserveNext(freeNets, FALSE) : \E v6 \in ReserveNext(v4.list, TRUE) :
          r = [subnets |-> {v4.subnet, v6.subnet}, list |-> v6.list]
    BY <1>7 DEF ReserveFor
  <2>2. PICK v6 \in ReserveNext(v4.list, TRUE) :
          r = [subnets |-> {v4.subnet, v6.subnet}, list |-> v6.list]
    BY <2>1
  <2>3. /\ v4.subnet = [ipv6 |-> FALSE, nr |-> old[FALSE]]
        /\ v4.list \in SubnetList
        /\ v4.list.free = {}
        /\ v4.list.current = [old EXCEPT ![FALSE] = @ + 1]
    BY <1>1, ReserveNextFresh
  <2>4. /\ v6.subnet = [ipv6 |-> TRUE, nr |-> v4.list.current[TRUE]]
        /\ v6.list.free = {}
        /\ v6.list.current = [v4.list.current EXCEPT ![TRUE] = @ + 1]
    BY <2>3, ReserveNextFresh
  <2>5. r.list = v6.list /\ r.subnets = {v4.subnet, v6.subnet}
    BY <2>2
  <2>6. /\ v4.list.current[TRUE] = old[TRUE]
        /\ new[TRUE] = old[TRUE] + 1
        /\ new[FALSE] = old[FALSE] + 1
    BY <1>1, <2>3, <2>4, <2>5
  <2>7. /\ old[FALSE] < new[FALSE] /\ old[FALSE] <= new[FALSE]
        /\ old[TRUE] < new[TRUE] /\ old[TRUE] <= new[TRUE]
        /\ old[FALSE] <= old[FALSE] /\ old[TRUE] <= old[TRUE]
    BY <1>2, <2>6, NextBound, Zenon
  <2>8. v6.subnet = [ipv6 |-> TRUE, nr |-> old[TRUE]]
    BY <2>4, <2>6
  <2>9. Between(old, new, {v4.subnet, v6.subnet})
    BY <1>4, <2>3, <2>7, <2>8, Zenon DEF Between
  <2>. QED
    BY <1>3, <2>4, <2>5, <2>7, <2>9
<1>. QED
  BY <1>5, <1>6, <1>7

\* A network appended with subnets that are fresh keeps them disjoint.
LEMMA AppendDisjoint ==
  ASSUME SubnetInv, NEW net, networks' = Append(networks, net),
         freeNets'.free = {},
         \A ipv6 \in BOOLEAN : freeNets.current[ipv6] <= freeNets'.current[ipv6],
         Between(freeNets.current, freeNets'.current, net.subnets),
         freeNets' \in SubnetList, net.subnets \subseteq Subnet
  PROVE  HandedOut' /\ SubnetsDisjoint'
<1>1. networks \in Seq(NetworkState) /\ Len(networks) \in Nat
  BY DEF SubnetInv, TypeOK
<1>2. /\ DOMAIN networks' = DOMAIN networks \cup {Len(networks) + 1}
      /\ \A i \in DOMAIN networks : networks'[i] = networks[i]
      /\ networks'[Len(networks) + 1] = net
  BY <1>1
<1>3. /\ freeNets.current \in [BOOLEAN -> Nat]
      /\ freeNets'.current \in [BOOLEAN -> Nat]
  BY DEF SubnetInv, TypeOK, SubnetList
<1>4. ASSUME NEW i \in DOMAIN networks, NEW s \in networks[i].subnets
      PROVE  /\ s.ipv6 \in BOOLEAN /\ s.nr \in Nat
             /\ s.nr < freeNets.current[s.ipv6]
             /\ s.nr < freeNets'.current[s.ipv6]
             /\ s \notin net.subnets
  <2>1. networks[i] \in NetworkState
    BY <1>1
  <2>2. s.ipv6 \in BOOLEAN /\ s.nr \in Nat
    BY <1>4, <2>1 DEF NetworkState, Subnet
  <2>3. s.nr < freeNets.current[s.ipv6]
    BY <1>4 DEF SubnetInv, HandedOut
  <2>. QED
    BY <1>3, <2>2, <2>3 DEF Between
<1>5. HandedOut'
  <2>1. \A s \in net.subnets : s.nr < freeNets'.current[s.ipv6]
    BY DEF Between
  <2>. QED
    BY <1>2, <1>4, <2>1 DEF HandedOut
<1>6. SubnetsDisjoint'
  <2>1. \A i \in DOMAIN networks : networks[i].subnets \cap net.subnets = {}
    BY <1>4
  <2>. QED
    BY <1>2, <2>1 DEF SubnetInv, SubnetsDisjoint
<1>. QED
  BY <1>5, <1>6

\* Stages change, subnets do not.
LEMMA SetStageDisjoint ==
  ASSUME SubnetInv, NEW nets, NEW stage, networks' = SetStage(nets, stage), freeNets' = freeNets
  PROVE  HandedOut' /\ SubnetsDisjoint'
<1>1. DOMAIN networks' = DOMAIN networks
  BY DEF SetStage
<1>2. \A i \in DOMAIN networks : networks[i] \in NetworkState
  BY DEF SubnetInv, TypeOK
<1>3. \A i \in DOMAIN networks : networks'[i].subnets = networks[i].subnets
  BY <1>2 DEF SetStage, NetworkState
<1>. QED
  BY <1>1, <1>3 DEF SubnetInv, HandedOut, SubnetsDisjoint

LEMMA InitSubnets == Init => SubnetInv
<1> SUFFICES ASSUME Init PROVE SubnetInv
  OBVIOUS
<1>1. freeNets.free = {} /\ DOMAIN networks = {}
  BY DEF Init, NewNetworkList
<1>. QED
  BY <1>1, InitTypes DEF SubnetInv, HandedOut, SubnetsDisjoint

LEMMA NextSubnets ==
  ASSUME SubnetInv, [Next]_vars
  PROVE  SubnetInv'
<1>1. TypeOK /\ TypeOK'
  BY NextTypes DEF SubnetInv
<1>2. CASE StartAddNetwork
  <2>1. PICK a \in chooseNextAction :
          /\ a.kind = "network"
          /\ \E r \in ReserveFor(a.network) :
               networks' = Append(networks, NewNetwork(a, r.subnets)) /\ freeNets' = r.list
    BY <1>2 DEF StartAddNetwork
  <2>2. PICK r \in ReserveFor(a.network) :
          networks' = Append(networks, NewNetwork(a, r.subnets)) /\ freeNets' = r.list
    BY <2>1
  <2>3. a.network \in VirterNet
    BY <2>1, ChosenAction DEF Choice
  <2>4. NewNetwork(a, r.subnets).subnets = r.subnets
    BY DEF NewNetwork
  <2>5. r.subnets \subseteq Subnet /\ r.list \in SubnetList
    BY <1>1, <2>3, ReserveTypes
  <2>6. /\ r.list.free = {}
        /\ \A ipv6 \in BOOLEAN : freeNets.current[ipv6] <= r.list.current[ipv6]
        /\ Between(freeNets.current, r.list.current, r.subnets)
    BY <2>3, ReserveForFresh DEF SubnetInv
  <2>. QED
    BY <1>1, <2>2, <2>4, <2>5, <2>6, AppendDisjoint DEF SubnetInv
<1>3. CASE PanicAddNetwork
  <2>1. PICK a : networks' = Append(networks, NewNetwork(a, {}))
    BY <1>3 DEF PanicAddNetwork
  <2>2. /\ NewNetwork(a, {}).subnets = {}
        /\ Between(freeNets.current, freeNets'.current, NewNetwork(a, {}).subnets)
    BY DEF NewNetwork, Between
  <2>3. freeNets' = freeNets /\ freeNets.free = {} /\ freeNets \in SubnetList
    BY <1>3 DEF PanicAddNetwork, SubnetInv, HandedOut, TypeOK
  <2>4. \A ipv6 \in BOOLEAN : freeNets.current[ipv6] <= freeNets'.current[ipv6]
    BY <2>3 DEF SubnetList
  <2>. QED
    BY <1>1, <2>1, <2>2, <2>3, <2>4, AppendDisjoint DEF SubnetInv
<1>4. CASE StartTest \/ StartProvision
  <2>1. PICK a \in chooseNextAction : networks' = SetStage(a.nets, "Busy")
    BY <1>4 DEF StartTest, StartProvision, Occupy
  <2>2. freeNets' = freeNets
    BY <1>4 DEF StartTest, StartProvision
  <2>. QED
    BY <1>1, <2>1, <2>2, SetStageDisjoint DEF SubnetInv
<1>5. CASE FinishTest \/ FinishProvision
  <2>1. PICK a \in outstanding : networks' = SetStage(a.nets, "Ready")
    BY <1>5 DEF FinishTest, FinishProvision, Release
  <2>2. freeNets' = freeNets
    BY <1>5 DEF FinishTest, FinishProvision
  <2>. QED
    BY <1>1, <2>1, <2>2, SetStageDisjoint DEF SubnetInv
<1>6. CASE FinishAddNetwork
  <2>1. PICK a \in outstanding, failed \in BOOLEAN :
          networks' = SetStage({a.nr}, IF failed THEN "Error" ELSE "Ready")
    BY <1>6 DEF FinishAddNetwork
  <2>2. freeNets' = freeNets
    BY <1>6 DEF FinishAddNetwork
  <2>. QED
    BY <1>1, <2>1, <2>2, SetStageDisjoint DEF SubnetInv
<1>7. CASE \/ StartPull \/ FinishPull \/ AwaitResult \/ LeaveLoop \/ TearDown
           \/ SoftTimer \/ Interrupt \/ Terminated \/ UNCHANGED vars
  <2>1. UNCHANGED <<networks, freeNets>>
    BY <1>7 DEF StartPull, FinishPull, AwaitResult, LeaveLoop, TearDown, SoftTimer,
                Interrupt, Terminated, vars, netVars
  <2>. QED
    BY <1>1, <2>1 DEF SubnetInv, HandedOut, SubnetsDisjoint
<1>. QED
  BY <1>2, <1>3, <1>4, <1>5, <1>6, <1>7 DEF Next, SchedulerStep, Environment

\* No subnet is given to two networks of a suite run.
THEOREM DisjointSubnets == Spec => []SubnetsDisjoint
<1>1. Init => SubnetInv
  BY InitSubnets
<1>2. SubnetInv /\ [Next]_vars => SubnetInv'
  BY NextSubnets
<1>3. SubnetInv => SubnetsDisjoint
  BY DEF SubnetInv
<1>. QED
  BY <1>1, <1>2, <1>3, PTL DEF Spec

------------------------------------------------------------------------------
(* Stages and the actions that are under way.                              *)

\* The outstanding actions whose progress a stage records, and what they work on.
Workers == {a \in outstanding : a.kind # "network"}

\* What the stages say is in progress.
InProgress ==
  ({"test"} \X {t \in TestIDs : runStage[t] = "Exec"})
    \cup ({"pull"} \X {b \in BaseImages : pullStage[b] = "Pull"})
    \cup ({"provision"} \X {i \in VMIDs : provisionStage[i] = "Exec"})

\* One worker for everything that is in progress.
WorkMatches ==
  /\ {Work(a) : a \in Workers} = InProgress
  /\ \A a, b \in Workers : Work(a) = Work(b) => a = b

Counted == IsFiniteSet(outstanding) /\ activeActions = Cardinality(outstanding)

ErrorStage ==
  \/ \E i \in DOMAIN networks : networks[i].stage = "Error"
  \/ \E v \in DOMAIN VMs : \/ pullStage[VMs[v].base] = "Error"
                           \/ provisionStage[ID(VMs[v])] = "Error"

\* A failed set-up shows in a stage, where runStopping looks for it.
FailureShows == SetUpFailed => ErrorStage

\* The inductive invariant.
StageInv ==
  /\ ResourceInv
  /\ WorkMatches
  /\ Counted
  /\ FailureShows
  /\ TestsOnReadyImages

LEMMA InitStages == Init => StageInv
<1> SUFFICES ASSUME Init PROVE StageInv
  OBVIOUS
<1>1. outstanding = {} /\ errors = {} /\ activeActions = 0
  BY DEF Init
<1>2. InProgress = {}
  BY DEF Init, InProgress
<1>3. WorkMatches
  BY <1>1, <1>2 DEF WorkMatches, Workers
<1>4. Counted
  BY <1>1, FS_EmptySet DEF Counted
<1>5. FailureShows /\ TestsOnReadyImages
  BY <1>1 DEF FailureShows, SetUpFailed, TestsOnReadyImages
<1>. QED
  BY <1>3, <1>4, <1>5, InitResources DEF StageInv

------------------------------------------------------------------------------
(* Workers join and leave.                                                 *)

LEMMA WorkerJoins ==
  ASSUME WorkMatches, NEW a, a.kind # "network", outstanding' = outstanding \cup {a},
         Work(a) \notin InProgress, InProgress' = InProgress \cup {Work(a)}
  PROVE  WorkMatches' /\ a \notin outstanding
<1>1. Workers' = Workers \cup {a}
  BY DEF Workers
<1>2. \A b \in Workers : Work(b) \in InProgress
  BY DEF WorkMatches
<1>3. {Work(b) : b \in Workers'} = {Work(b) : b \in Workers} \cup {Work(a)}
  BY <1>1
<1>4. a \notin outstanding
  BY <1>2 DEF Workers
<1>5. \A b, c \in Workers' : Work(b) = Work(c) => b = c
  BY <1>1, <1>2 DEF WorkMatches
<1>. QED
  BY <1>3, <1>4, <1>5 DEF WorkMatches

LEMMA WorkerLeaves ==
  ASSUME WorkMatches, NEW a \in outstanding, a.kind # "network",
         outstanding' = outstanding \ {a}, InProgress' = InProgress \ {Work(a)}
  PROVE  WorkMatches'
<1>1. Workers' = Workers \ {a} /\ a \in Workers
  BY DEF Workers
<1>2. \A b \in Workers' : Work(b) # Work(a)
  BY <1>1 DEF WorkMatches
<1>3. {Work(b) : b \in Workers'} = {Work(b) : b \in Workers} \ {Work(a)}
  BY <1>1, <1>2
<1>. QED
  BY <1>1, <1>3 DEF WorkMatches

LEMMA SameWork ==
  ASSUME WorkMatches, Workers' = Workers, InProgress' = InProgress
  PROVE  WorkMatches'
BY DEF WorkMatches

LEMMA CountUp ==
  ASSUME Counted, NEW a, a \notin outstanding, Launch(a)
  PROVE  Counted'
BY FS_AddElement DEF Counted, Launch

LEMMA CountDown ==
  ASSUME Counted, NEW a \in outstanding, Receive(a)
  PROVE  Counted'
<1>1. IsFiniteSet(outstanding \ {a}) /\ Cardinality(outstanding \ {a}) = Cardinality(outstanding) - 1
  BY FS_RemoveElement DEF Counted
<1>. QED
  BY <1>1 DEF Counted, Receive

\* What an outstanding action works on is in progress.
LEMMA WorkInProgress ==
  ASSUME StageInv, NEW a \in outstanding
  PROVE  /\ a.kind = "test" => runStage[TestRuns[a.nr].testID] = "Exec"
         /\ a.kind = "pull" => pullStage[VMs[a.nr].base] = "Pull"
         /\ a.kind = "provision" => provisionStage[ID(VMs[a.nr])] = "Exec"
<1>1. a.kind # "network" => Work(a) \in InProgress
  BY DEF StageInv, WorkMatches, Workers
<1>. QED
  BY <1>1 DEF Work, Key, InProgress

------------------------------------------------------------------------------
(* What each kind of step does to the work in progress.                    *)

LEMMA StartTestWork ==
  ASSUME StageInv, StartTest
  PROVE  WorkMatches' /\ Counted'
<1>1. PICK a \in chooseNextAction :
        /\ a.kind = "test"
        /\ runStage' = [runStage EXCEPT ![TestRuns[a.nr].testID] = "Exec"]
        /\ Launch(a)
  BY DEF StartTest
<1>2. a.nr \in DOMAIN TestRuns /\ StageOf(a.nr) = "New"
  BY <1>1, ChosenAction DEF Choice, StartableRuns
<1>3. TestRuns[a.nr].testID \in TestIDs
  BY <1>2, RunTypes
<1>4. runStage \in [TestIDs -> {"New", "Exec", "Done"}]
  BY DEF StageInv, ResourceInv, TypeOK
<1>5. Work(a) = <<"test", TestRuns[a.nr].testID>>
  BY <1>1 DEF Work, Key
<1>6. Work(a) \notin InProgress
  BY <1>2, <1>5 DEF InProgress, StageOf
<1>7. {t \in TestIDs : runStage'[t] = "Exec"}
        = {t \in TestIDs : runStage[t] = "Exec"} \cup {TestRuns[a.nr].testID}
  BY <1>1, <1>3, <1>4
<1>8. pullStage' = pullStage /\ provisionStage' = provisionStage
  BY DEF StartTest, imageVars
<1>9. InProgress' = InProgress \cup {Work(a)}
  BY <1>5, <1>7, <1>8 DEF InProgress
<1>10. WorkMatches' /\ a \notin outstanding
  BY <1>1, <1>6, <1>9, WorkerJoins DEF Launch, StageInv
<1>. QED
  BY <1>1, <1>10, CountUp DEF StageInv

LEMMA StartPullWork ==
  ASSUME StageInv, StartPull
  PROVE  WorkMatches' /\ Counted'
<1>1. PICK a \in chooseNextAction :
        /\ a.kind = "pull"
        /\ pullStage' = [pullStage EXCEPT ![VMs[a.nr].base] = "Pull"]
        /\ Launch(a)
  BY DEF StartPull
<1>2. a.nr \in DOMAIN VMs /\ pullStage[VMs[a.nr].base] = "None"
  BY <1>1, ChosenAction DEF Choice, UnpulledVMs
<1>3. VMs[a.nr].base \in BaseImages
  BY <1>2, VMTypes
<1>4. pullStage \in [BaseImages -> {"None", "Pull", "Done", "Error"}]
  BY DEF StageInv, ResourceInv, TypeOK
<1>5. Work(a) = <<"pull", VMs[a.nr].base>>
  BY <1>1 DEF Work, Key
<1>6. Work(a) \notin InProgress
  BY <1>2, <1>5 DEF InProgress
<1>7. {b \in BaseImages : pullStage'[b] = "Pull"}
        = {b \in BaseImages : pullStage[b] = "Pull"} \cup {VMs[a.nr].base}
  BY <1>1, <1>3, <1>4
<1>8. runStage' = runStage /\ provisionStage' = provisionStage
  BY DEF StartPull, runVars
<1>9. InProgress' = InProgress \cup {Work(a)}
  BY <1>5, <1>7, <1>8 DEF InProgress
<1>10. WorkMatches' /\ a \notin outstanding
  BY <1>1, <1>6, <1>9, WorkerJoins DEF Launch, StageInv
<1>. QED
  BY <1>1, <1>10, CountUp DEF StageInv

LEMMA StartProvisionWork ==
  ASSUME StageInv, StartProvision
  PROVE  WorkMatches' /\ Counted'
<1>1. PICK a \in chooseNextAction :
        /\ a.kind = "provision"
        /\ provisionStage' = [provisionStage EXCEPT ![ID(VMs[a.nr])] = "Exec"]
        /\ Launch(a)
  BY DEF StartProvision
<1>2. a.nr \in DOMAIN VMs /\ provisionStage[ID(VMs[a.nr])] = "None"
  BY <1>1, ChosenAction DEF Choice, PulledVMs
<1>3. ID(VMs[a.nr]) \in VMIDs
  BY <1>2, VMTypes
<1>4. provisionStage \in [VMIDs -> {"None", "Exec", "Done", "Error"}]
  BY DEF StageInv, ResourceInv, TypeOK
<1>5. Work(a) = <<"provision", ID(VMs[a.nr])>>
  BY <1>1 DEF Work, Key
<1>6. Work(a) \notin InProgress
  BY <1>2, <1>5 DEF InProgress
<1>7. {i \in VMIDs : provisionStage'[i] = "Exec"}
        = {i \in VMIDs : provisionStage[i] = "Exec"} \cup {ID(VMs[a.nr])}
  BY <1>1, <1>3, <1>4
<1>8. runStage' = runStage /\ pullStage' = pullStage
  BY DEF StartProvision, runVars
<1>9. InProgress' = InProgress \cup {Work(a)}
  BY <1>5, <1>7, <1>8 DEF InProgress
<1>10. WorkMatches' /\ a \notin outstanding
  BY <1>1, <1>6, <1>9, WorkerJoins DEF Launch, StageInv
<1>. QED
  BY <1>1, <1>10, CountUp DEF StageInv

LEMMA FinishTestWork ==
  ASSUME StageInv, FinishTest
  PROVE  WorkMatches' /\ Counted'
<1>1. PICK a \in outstanding :
        /\ a.kind = "test"
        /\ Receive(a)
        /\ runStage' = [runStage EXCEPT ![TestRuns[a.nr].testID] = "Done"]
  BY DEF FinishTest
<1>2. runStage \in [TestIDs -> {"New", "Exec", "Done"}]
  BY DEF StageInv, ResourceInv, TypeOK
<1>3. Work(a) = <<"test", TestRuns[a.nr].testID>>
  BY <1>1 DEF Work, Key
<1>4. {t \in TestIDs : runStage'[t] = "Exec"}
        = {t \in TestIDs : runStage[t] = "Exec"} \ {TestRuns[a.nr].testID}
  BY <1>1, <1>2
<1>5. pullStage' = pullStage /\ provisionStage' = provisionStage
  BY DEF FinishTest, imageVars
<1>6. InProgress' = InProgress \ {Work(a)}
  BY <1>3, <1>4, <1>5 DEF InProgress
<1>7. WorkMatches'
  BY <1>1, <1>6, WorkerLeaves DEF Receive, StageInv
<1>. QED
  BY <1>1, <1>7, CountDown DEF StageInv

LEMMA FinishPullWork ==
  ASSUME StageInv, FinishPull
  PROVE  WorkMatches' /\ Counted'
<1>1. PICK a \in outstanding, failed \in BOOLEAN :
        /\ a.kind = "pull"
        /\ Receive(a)
        /\ pullStage' = [pullStage EXCEPT ![VMs[a.nr].base] = IF failed THEN "Error" ELSE "Done"]
  BY DEF FinishPull
<1>2. pullStage \in [BaseImages -> {"None", "Pull", "Done", "Error"}]
  BY DEF StageInv, ResourceInv, TypeOK
<1>3. Work(a) = <<"pull", VMs[a.nr].base>>
  BY <1>1 DEF Work, Key
<1>4. {b \in BaseImages : pullStage'[b] = "Pull"}
        = {b \in BaseImages : pullStage[b] = "Pull"} \ {VMs[a.nr].base}
  BY <1>1, <1>2
<1>5. runStage' = runStage /\ provisionStage' = provisionStage
  BY DEF FinishPull, runVars
<1>6. InProgress' = InProgress \ {Work(a)}
  BY <1>3, <1>4, <1>5 DEF InProgress
<1>7. WorkMatches'
  BY <1>1, <1>6, WorkerLeaves DEF Receive, StageInv
<1>. QED
  BY <1>1, <1>7, CountDown DEF StageInv

LEMMA FinishProvisionWork ==
  ASSUME StageInv, FinishProvision
  PROVE  WorkMatches' /\ Counted'
<1>1. PICK a \in outstanding, failed \in BOOLEAN :
        /\ a.kind = "provision"
        /\ Receive(a)
        /\ provisionStage' = [provisionStage EXCEPT ![ID(VMs[a.nr])] = IF failed THEN "Error" ELSE "Done"]
  BY DEF FinishProvision
<1>2. provisionStage \in [VMIDs -> {"None", "Exec", "Done", "Error"}]
  BY DEF StageInv, ResourceInv, TypeOK
<1>3. Work(a) = <<"provision", ID(VMs[a.nr])>>
  BY <1>1 DEF Work, Key
<1>4. {i \in VMIDs : provisionStage'[i] = "Exec"}
        = {i \in VMIDs : provisionStage[i] = "Exec"} \ {ID(VMs[a.nr])}
  BY <1>1, <1>2
<1>5. runStage' = runStage /\ pullStage' = pullStage
  BY DEF FinishProvision, runVars
<1>6. InProgress' = InProgress \ {Work(a)}
  BY <1>3, <1>4, <1>5 DEF InProgress
<1>7. WorkMatches'
  BY <1>1, <1>6, WorkerLeaves DEF Receive, StageInv
<1>. QED
  BY <1>1, <1>7, CountDown DEF StageInv

\* A network is added only when none is: the action is a new one.
LEMMA StartAddNetworkWork ==
  ASSUME StageInv, StartAddNetwork
  PROVE  WorkMatches' /\ Counted'
<1>1. PICK a \in chooseNextAction : a.kind = "network" /\ Launch(a)
  BY DEF StartAddNetwork
<1>2. a.nr = Len(networks) + 1
  BY <1>1, ChosenAction DEF Choice
<1>3. TypeOK
  BY DEF StageInv, ResourceInv
<1>4. a.nr \notin DOMAIN networks
  BY <1>2, <1>3 DEF TypeOK
<1>5. a \notin outstanding
  BY <1>1, <1>3, <1>4, ActionFields
<1>6. Workers' = Workers
  BY <1>1 DEF Workers, Launch
<1>7. InProgress' = InProgress
  BY DEF StartAddNetwork, imageVars, runVars, InProgress
<1>. QED
  BY <1>1, <1>5, <1>6, <1>7, SameWork, CountUp DEF StageInv

LEMMA FinishAddNetworkWork ==
  ASSUME StageInv, FinishAddNetwork
  PROVE  WorkMatches' /\ Counted'
<1>1. PICK a \in outstanding : a.kind = "network" /\ Receive(a)
  BY DEF FinishAddNetwork
<1>2. Workers' = Workers
  BY <1>1 DEF Workers, Receive
<1>3. InProgress' = InProgress
  BY DEF FinishAddNetwork, imageVars, runVars, InProgress
<1>. QED
  BY <1>1, <1>2, <1>3, SameWork, CountDown DEF StageInv

\* The steps that neither launch nor receive.
OtherStep ==
  \/ PanicAddNetwork \/ AwaitResult \/ LeaveLoop \/ SoftTimer \/ Interrupt
  \/ TearDown \/ UNCHANGED vars

LEMMA OtherWork ==
  ASSUME StageInv, OtherStep
  PROVE  WorkMatches' /\ Counted' /\ outstanding' = outstanding
<1>1. UNCHANGED <<outstanding, activeActions, pullStage, provisionStage, runStage>>
  BY DEF OtherStep, PanicAddNetwork, AwaitResult, LeaveLoop, SoftTimer, Interrupt,
         TearDown, vars, imageVars, runVars
<1>2. Workers' = Workers /\ InProgress' = InProgress
  BY <1>1 DEF Workers, InProgress
<1>. QED
  BY <1>1, <1>2, SameWork DEF StageInv, Counted

------------------------------------------------------------------------------
(* Stages settle: what is Done or Error stays so.                          *)

ImagesSettle ==
  /\ \A b \in BaseImages : pullStage[b] \in {"Done", "Error"} => pullStage'[b] = pullStage[b]
  /\ \A i \in VMIDs :
       provisionStage[i] \in {"Done", "Error"} => provisionStage'[i] = provisionStage[i]

NetworkErrorsStay ==
  \A i \in DOMAIN networks :
    networks[i].stage = "Error" => i \in DOMAIN networks' /\ networks'[i].stage = "Error"

LEMMA ImagesStay ==
  ASSUME StageInv, [Next]_vars
  PROVE  ImagesSettle
<1>1. /\ pullStage \in [BaseImages -> {"None", "Pull", "Done", "Error"}]
      /\ provisionStage \in [VMIDs -> {"None", "Exec", "Done", "Error"}]
  BY DEF StageInv, ResourceInv, TypeOK
<1>2. CASE StartPull
  <2>1. PICK a \in chooseNextAction :
          a.kind = "pull" /\ pullStage' = [pullStage EXCEPT ![VMs[a.nr].base] = "Pull"]
    BY <1>2 DEF StartPull
  <2>2. pullStage[VMs[a.nr].base] = "None"
    BY <2>1, ChosenAction DEF Choice, UnpulledVMs
  <2>3. provisionStage' = provisionStage
    BY <1>2 DEF StartPull
  <2>. QED
    BY <1>1, <2>1, <2>2, <2>3 DEF ImagesSettle
<1>3. CASE StartProvision
  <2>1. PICK a \in chooseNextAction :
          a.kind = "provision" /\ provisionStage' = [provisionStage EXCEPT ![ID(VMs[a.nr])] = "Exec"]
    BY <1>3 DEF StartProvision
  <2>2. provisionStage[ID(VMs[a.nr])] = "None"
    BY <2>1, ChosenAction DEF Choice, PulledVMs
  <2>3. pullStage' = pullStage
    BY <1>3 DEF StartProvision
  <2>. QED
    BY <1>1, <2>1, <2>2, <2>3 DEF ImagesSettle
<1>4. CASE FinishPull
  <2>1. PICK a \in outstanding, failed \in BOOLEAN :
          /\ a.kind = "pull"
          /\ pullStage' = [pullStage EXCEPT ![VMs[a.nr].base] = IF failed THEN "Error" ELSE "Done"]
    BY <1>4 DEF FinishPull
  <2>2. pullStage[VMs[a.nr].base] = "Pull"
    BY <2>1, WorkInProgress
  <2>3. provisionStage' = provisionStage
    BY <1>4 DEF FinishPull
  <2>. QED
    BY <1>1, <2>1, <2>2, <2>3 DEF ImagesSettle
<1>5. CASE FinishProvision
  <2>1. PICK a \in outstanding, failed \in BOOLEAN :
          /\ a.kind = "provision"
          /\ provisionStage' = [provisionStage EXCEPT ![ID(VMs[a.nr])] = IF failed THEN "Error" ELSE "Done"]
    BY <1>5 DEF FinishProvision
  <2>2. provisionStage[ID(VMs[a.nr])] = "Exec"
    BY <2>1, WorkInProgress
  <2>3. pullStage' = pullStage
    BY <1>5 DEF FinishProvision
  <2>. QED
    BY <1>1, <2>1, <2>2, <2>3 DEF ImagesSettle
<1>6. CASE \/ StartTest \/ StartAddNetwork \/ PanicAddNetwork \/ AwaitResult \/ LeaveLoop
           \/ FinishTest \/ FinishAddNetwork \/ TearDown \/ SoftTimer \/ Interrupt
           \/ Terminated \/ UNCHANGED vars
  <2>1. UNCHANGED <<pullStage, provisionStage>>
    BY <1>6 DEF StartTest, StartAddNetwork, PanicAddNetwork, AwaitResult, LeaveLoop,
                FinishTest, FinishAddNetwork, TearDown, SoftTimer, Interrupt, Terminated,
                vars, imageVars
  <2>. QED
    BY <2>1 DEF ImagesSettle
<1>. QED
  BY <1>2, <1>3, <1>4, <1>5, <1>6 DEF Next, SchedulerStep, Environment

LEMMA AppendKeepsErrors ==
  ASSUME TypeOK, NEW net, networks' = Append(networks, net)
  PROVE  NetworkErrorsStay
<1>1. networks \in Seq(NetworkState) /\ Len(networks) \in Nat
  BY DEF TypeOK
<1>2. \A i \in DOMAIN networks : i \in DOMAIN networks' /\ networks'[i] = networks[i]
  BY <1>1
<1>. QED
  BY <1>2 DEF NetworkErrorsStay

LEMMA SetStageKeepsErrors ==
  ASSUME TypeOK, NEW nets, NEW stage, networks' = SetStage(nets, stage),
         \A i \in nets : networks[i].stage # "Error"
  PROVE  NetworkErrorsStay
BY SetStageStages DEF NetworkErrorsStay

LEMMA NetworksStay ==
  ASSUME StageInv, [Next]_vars
  PROVE  NetworkErrorsStay
<1>1. TypeOK
  BY DEF StageInv, ResourceInv
<1>2. CASE StartTest \/ StartProvision
  <2>1. PICK a \in chooseNextAction : a.kind # "network" /\ networks' = SetStage(a.nets, "Busy")
    BY <1>2 DEF StartTest, StartProvision, Occupy
  <2>2. a.nets \subseteq ReadyNets
    BY <2>1, ChosenAction DEF Choice
  <2>. QED
    BY <1>1, <2>1, <2>2, SetStageKeepsErrors DEF ReadyNets
<1>3. CASE FinishTest \/ FinishProvision
  <2>1. PICK a \in outstanding : networks' = SetStage(a.nets, "Ready")
    BY <1>3 DEF FinishTest, FinishProvision, Release
  <2>2. a.nets \subseteq Busy
    BY DEF StageInv, ResourceInv, ResourcesExclusive
  <2>. QED
    BY <1>1, <2>1, <2>2, SetStageKeepsErrors DEF Busy
<1>4. CASE FinishAddNetwork
  <2>1. PICK a \in outstanding, failed \in BOOLEAN :
          a.kind = "network" /\ networks' = SetStage({a.nr}, IF failed THEN "Error" ELSE "Ready")
    BY <1>4 DEF FinishAddNetwork
  <2>2. networks[a.nr].stage = "Add"
    BY <2>1 DEF StageInv, ResourceInv, AddingOutstanding
  <2>. QED
    BY <1>1, <2>1, <2>2, SetStageKeepsErrors
<1>5. CASE StartAddNetwork
  <2>1. PICK a \in chooseNextAction :
          \E r \in ReserveFor(a.network) : networks' = Append(networks, NewNetwork(a, r.subnets))
    BY <1>5 DEF StartAddNetwork
  <2>. QED
    BY <1>1, <2>1, AppendKeepsErrors
<1>6. CASE PanicAddNetwork
  BY <1>1, <1>6, AppendKeepsErrors DEF PanicAddNetwork
<1>7. CASE \/ StartPull \/ FinishPull \/ AwaitResult \/ LeaveLoop \/ TearDown
           \/ SoftTimer \/ Interrupt \/ Terminated \/ UNCHANGED vars
  <2>1. networks' = networks
    BY <1>7 DEF StartPull, FinishPull, AwaitResult, LeaveLoop, TearDown, SoftTimer,
                Interrupt, Terminated, vars, netVars
  <2>. QED
    BY <2>1 DEF NetworkErrorsStay
<1>. QED
  BY <1>2, <1>3, <1>4, <1>5, <1>6, <1>7 DEF Next, SchedulerStep, Environment

LEMMA ErrorStageStays ==
  ASSUME StageInv, [Next]_vars, ErrorStage
  PROVE  ErrorStage'
<1>1. ImagesSettle /\ NetworkErrorsStay
  BY ImagesStay, NetworksStay
<1>2. CASE \E i \in DOMAIN networks : networks[i].stage = "Error"
  BY <1>1, <1>2 DEF NetworkErrorsStay, ErrorStage
<1>3. CASE \E v \in DOMAIN VMs : pullStage[VMs[v].base] = "Error" \/ provisionStage[ID(VMs[v])] = "Error"
  <2>1. PICK v \in DOMAIN VMs : pullStage[VMs[v].base] = "Error" \/ provisionStage[ID(VMs[v])] = "Error"
    BY <1>3
  <2>2. VMs[v].base \in BaseImages /\ ID(VMs[v]) \in VMIDs
    BY VMTypes
  <2>3. pullStage'[VMs[v].base] = "Error" \/ provisionStage'[ID(VMs[v])] = "Error"
    BY <1>1, <2>1, <2>2 DEF ImagesSettle
  <2>. QED
    BY <2>3 DEF ErrorStage
<1>. QED
  BY <1>2, <1>3 DEF ErrorStage

------------------------------------------------------------------------------
(* A failed set-up shows.                                                  *)

LEMMA PullFailureShows ==
  ASSUME StageInv, FinishPull, SetUpFailed', ~SetUpFailed
  PROVE  ErrorStage'
<1>1. PICK a \in outstanding, failed \in BOOLEAN :
        /\ a.kind = "pull"
        /\ pullStage' = [pullStage EXCEPT ![VMs[a.nr].base] = IF failed THEN "Error" ELSE "Done"]
        /\ FailIf(failed, "pull", VMs[a.nr].base)
  BY DEF FinishPull
<1>2. failed
  BY <1>1 DEF FailIf, SetUpFailed
<1>3. TypeOK
  BY DEF StageInv, ResourceInv
<1>4. a.nr \in DOMAIN VMs /\ VMs[a.nr].base \in BaseImages
  BY <1>1, <1>3, ActionFields, VMTypes
<1>5. pullStage'[VMs[a.nr].base] = "Error"
  BY <1>1, <1>2, <1>3, <1>4 DEF TypeOK
<1>. QED
  BY <1>4, <1>5 DEF ErrorStage

LEMMA ProvisionFailureShows ==
  ASSUME StageInv, FinishProvision, SetUpFailed', ~SetUpFailed
  PROVE  ErrorStage'
<1>1. PICK a \in outstanding, failed \in BOOLEAN :
        /\ a.kind = "provision"
        /\ provisionStage' = [provisionStage EXCEPT ![ID(VMs[a.nr])] = IF failed THEN "Error" ELSE "Done"]
        /\ FailIf(failed, "provision", ID(VMs[a.nr]))
  BY DEF FinishProvision
<1>2. failed
  BY <1>1 DEF FailIf, SetUpFailed
<1>3. TypeOK
  BY DEF StageInv, ResourceInv
<1>4. a.nr \in DOMAIN VMs /\ ID(VMs[a.nr]) \in VMIDs
  BY <1>1, <1>3, ActionFields, VMTypes
<1>5. provisionStage'[ID(VMs[a.nr])] = "Error"
  BY <1>1, <1>2, <1>3, <1>4 DEF TypeOK
<1>. QED
  BY <1>4, <1>5 DEF ErrorStage

LEMMA NetworkFailureShows ==
  ASSUME StageInv, FinishAddNetwork, SetUpFailed', ~SetUpFailed
  PROVE  ErrorStage'
<1>1. PICK a \in outstanding, failed \in BOOLEAN :
        /\ a.kind = "network"
        /\ networks' = SetStage({a.nr}, IF failed THEN "Error" ELSE "Ready")
        /\ FailIf(failed, "network", a.nr)
  BY DEF FinishAddNetwork
<1>2. failed
  BY <1>1 DEF FailIf, SetUpFailed
<1>3. TypeOK
  BY DEF StageInv, ResourceInv
<1>4. a.nr \in DOMAIN networks
  BY <1>1, <1>3, ActionFields
<1>5. a.nr \in DOMAIN networks' /\ networks'[a.nr].stage = "Error"
  BY <1>1, <1>2, <1>3, <1>4, SetStageStages
<1>. QED
  BY <1>5 DEF ErrorStage

\* No other step adds a set-up failure to the errors.
LEMMA OtherFailures ==
  ASSUME [Next]_vars, ~(FinishPull \/ FinishProvision \/ FinishAddNetwork), SetUpFailed'
  PROVE  SetUpFailed
<1>1. CASE FinishTest
  <2>1. PICK a \in outstanding, res \in TestResults : FailIf(res.err, "test", TestRuns[a.nr].testID)
    BY <1>1 DEF FinishTest
  <2>. QED
    BY <2>1 DEF FailIf, SetUpFailed
<1>2. CASE LeaveLoop
  <2>1. \A e \in errors' : e \in errors \/ \E t \in Unfinished : e = <<"skipped", t>>
    BY <1>2 DEF LeaveLoop
  <2>. QED
    BY <2>1 DEF SetUpFailed
<1>3. CASE TearDown
  <2>1. \A e \in errors' : e \in errors \/ \E i \in DOMAIN networks : e = <<"remove", i>>
    <3>1. CASE errors' = errors
      BY <3>1
    <3>2. CASE ~KeepNetworks
      <4>1. \E stuck \in SUBSET DOMAIN networks :
              errors' = errors \cup {<<"remove", i>> : i \in stuck}
        BY <1>3, <3>2 DEF TearDown
      <4>. QED
        BY <4>1
    <3>. QED
      BY <1>3, <3>1, <3>2 DEF TearDown
  <2>. QED
    BY <2>1 DEF SetUpFailed
<1>4. CASE \/ StartTest \/ StartPull \/ StartProvision \/ StartAddNetwork
           \/ PanicAddNetwork \/ AwaitResult \/ SoftTimer \/ Interrupt \/ Terminated
           \/ UNCHANGED vars
  <2>1. errors' = errors
    BY <1>4 DEF StartTest, StartPull, StartProvision, StartAddNetwork, PanicAddNetwork,
                AwaitResult, SoftTimer, Interrupt, Terminated, vars
  <2>. QED
    BY <2>1 DEF SetUpFailed
<1>. QED
  BY <1>1, <1>2, <1>3, <1>4 DEF Next, SchedulerStep, Environment

LEMMA FailuresShow ==
  ASSUME StageInv, [Next]_vars
  PROVE  FailureShows'
<1> SUFFICES ASSUME SetUpFailed' PROVE ErrorStage'
  BY DEF FailureShows
<1>1. CASE SetUpFailed
  BY <1>1, ErrorStageStays DEF StageInv, FailureShows
<1>2. CASE ~SetUpFailed
  BY <1>2, PullFailureShows, ProvisionFailureShows, NetworkFailureShows, OtherFailures
<1>. QED
  BY <1>1, <1>2

------------------------------------------------------------------------------
(* What is launched, and when.                                             *)

\* A step that adds to the outstanding actions launches one that was chosen,
\* and nothing has told the scheduler to stop.
LEMMA LaunchedWasChosen ==
  ASSUME [Next]_vars, ~(outstanding' \subseteq outstanding)
  PROVE  MayLaunch /\ \E a \in Choice : outstanding' = outstanding \cup {a}
<1>1. CASE StartTest \/ StartPull \/ StartProvision \/ StartAddNetwork
  <2>1. MayLaunch /\ \E a \in chooseNextAction : outstanding' = outstanding \cup {a}
    BY <1>1 DEF StartTest, StartPull, StartProvision, StartAddNetwork, Launch
  <2>. QED
    BY <2>1, ChosenAction
<1>2. CASE FinishTest \/ FinishPull \/ FinishProvision \/ FinishAddNetwork
  BY <1>2 DEF FinishTest, FinishPull, FinishProvision, FinishAddNetwork, Receive
<1>3. CASE \/ PanicAddNetwork \/ AwaitResult \/ LeaveLoop \/ TearDown \/ SoftTimer
           \/ Interrupt \/ Terminated \/ UNCHANGED vars
  BY <1>3 DEF PanicAddNetwork, AwaitResult, LeaveLoop, TearDown, SoftTimer, Interrupt,
              Terminated, vars
<1>. QED
  BY <1>1, <1>2, <1>3 DEF Next, SchedulerStep, Environment

LEMMA ImagesStayReady ==
  ASSUME StageInv, [Next]_vars
  PROVE  TestsOnReadyImages'
<1> SUFFICES ASSUME NEW a \in outstanding', a.kind = "test",
                    NEW k \in DOMAIN TestRuns[a.nr].vms
             PROVE  LET v == TestRuns[a.nr].vms[k] IN
                    pullStage'[v.base] = "Done" /\ provisionStage'[ID(v)] = "Done"
  BY DEF TestsOnReadyImages
<1> DEFINE v == TestRuns[a.nr].vms[k]
<1>1. /\ a.nr \in DOMAIN TestRuns
      /\ pullStage[v.base] = "Done" /\ provisionStage[ID(v)] = "Done"
  <2>1. CASE a \in outstanding
    <3>1. a.nr \in DOMAIN TestRuns
      BY <2>1, ActionFields DEF StageInv, ResourceInv
    <3>. QED
      BY <2>1, <3>1 DEF StageInv, TestsOnReadyImages
  <2>2. CASE a \notin outstanding
    <3>1. a \in Choice
      BY <2>2, LaunchedWasChosen
    <3>2. a.nr \in StartableRuns
      BY <3>1 DEF Choice
    <3>. QED
      BY <3>2 DEF StartableRuns, allImagesReady, ImageReady
  <2>. QED
    BY <2>1, <2>2
<1>2. PICK w \in DOMAIN VMs : VMs[w] = v
  BY <1>1, ConfigAssumption
<1>3. v.base \in BaseImages /\ ID(v) \in VMIDs
  BY <1>2, VMTypes
<1>. QED
  BY <1>1, <1>3, ImagesStay DEF ImagesSettle

LEMMA NextStages ==
  ASSUME StageInv, [Next]_vars
  PROVE  StageInv'
<1>1. ResourceInv'
  BY NextResources DEF StageInv
<1>2. WorkMatches' /\ Counted'
  BY StartTestWork, StartPullWork, StartProvisionWork, StartAddNetworkWork,
     FinishTestWork, FinishPullWork, FinishProvisionWork, FinishAddNetworkWork, OtherWork
  DEF Next, SchedulerStep, Environment, Terminated, OtherStep
<1>. QED
  BY <1>1, <1>2, FailuresShow, ImagesStayReady DEF StageInv

LEMMA StageInvariance == Spec => []StageInv
<1>1. Init => StageInv
  BY InitStages
<1>2. StageInv /\ [Next]_vars => StageInv'
  BY NextStages
<1>. QED
  BY <1>1, <1>2, PTL DEF Spec

------------------------------------------------------------------------------
(* The theorems.                                                           *)

\* One worker for what is in progress, none for anything else.
LEMMA OneWorker ==
  ASSUME StageInv, NEW kind \in {"test", "pull", "provision"}, NEW key
  PROVE  Cardinality({a \in outstanding : a.kind = kind /\ Key(a) = key})
           = IF <<kind, key>> \in InProgress THEN 1 ELSE 0
<1> DEFINE A == {a \in outstanding : a.kind = kind /\ Key(a) = key}
<1>1. A = {a \in Workers : Work(a) = <<kind, key>>}
  BY DEF Workers, Work
<1>2. CASE <<kind, key>> \in InProgress
  <2>1. PICK w \in Workers : Work(w) = <<kind, key>>
    BY <1>2 DEF StageInv, WorkMatches
  <2>2. A = {w}
    BY <1>1, <2>1 DEF StageInv, WorkMatches
  <2>. QED
    BY <1>2, <2>2, FS_Singleton
<1>3. CASE <<kind, key>> \notin InProgress
  <2>1. A = {}
    BY <1>1, <1>3 DEF StageInv, WorkMatches
  <2>. QED
    BY <1>3, <2>1, FS_EmptySet
<1>. QED
  BY <1>2, <1>3

LEMMA StagesTellActions == StageInv => StagesMatchActions
<1> SUFFICES ASSUME StageInv PROVE StagesMatchActions
  OBVIOUS
<1>1. ASSUME NEW t \in TestIDs
      PROVE  Cardinality({a \in outstanding : a.kind = "test" /\ TestRuns[a.nr].testID = t})
               = IF runStage[t] = "Exec" THEN 1 ELSE 0
  <2>1. {a \in outstanding : a.kind = "test" /\ TestRuns[a.nr].testID = t}
          = {a \in outstanding : a.kind = "test" /\ Key(a) = t}
    BY DEF Key
  <2>2. <<"test", t>> \in InProgress <=> runStage[t] = "Exec"
    BY DEF InProgress
  <2>. QED
    BY <2>1, <2>2, OneWorker
<1>2. ASSUME NEW b \in BaseImages
      PROVE  Cardinality({a \in outstanding : a.kind = "pull" /\ VMs[a.nr].base = b})
               = IF pullStage[b] = "Pull" THEN 1 ELSE 0
  <2>1. {a \in outstanding : a.kind = "pull" /\ VMs[a.nr].base = b}
          = {a \in outstanding : a.kind = "pull" /\ Key(a) = b}
    BY DEF Key
  <2>2. <<"pull", b>> \in InProgress <=> pullStage[b] = "Pull"
    BY DEF InProgress
  <2>. QED
    BY <2>1, <2>2, OneWorker
<1>3. ASSUME NEW i \in VMIDs
      PROVE  Cardinality({a \in outstanding : a.kind = "provision" /\ ID(VMs[a.nr]) = i})
               = IF provisionStage[i] = "Exec" THEN 1 ELSE 0
  <2>1. {a \in outstanding : a.kind = "provision" /\ ID(VMs[a.nr]) = i}
          = {a \in outstanding : a.kind = "provision" /\ Key(a) = i}
    BY DEF Key
  <2>2. <<"provision", i>> \in InProgress <=> provisionStage[i] = "Exec"
    BY DEF InProgress
  <2>. QED
    BY <2>1, <2>2, OneWorker
<1>4. activeActions = Cardinality(outstanding)
  BY DEF StageInv, Counted
<1>. QED
  BY <1>1, <1>2, <1>3, <1>4 DEF StagesMatchActions

\* A stage says that work is in progress exactly while one action does it:
\* nothing is pulled, built or run twice at a time and no stage sticks.
THEOREM StagesMatch == Spec => []StagesMatchActions
BY StageInvariance, StagesTellActions, PTL

\* Every image of a running test is pulled and provisioned while it runs.
THEOREM ReadyImages == Spec => []TestsOnReadyImages
<1>1. StageInv => TestsOnReadyImages
  BY DEF StageInv
<1>. QED
  BY <1>1, StageInvariance, PTL

\* After a failure that stops the suite, a signal or the soft timeout nothing
\* is launched any more, whatever the goroutines still deliver.
THEOREM NothingAfterStop == Spec => StopIsFinal
<1> DEFINE Step == Failing \/ softExpired \/ interrupted => outstanding' \subseteq outstanding
<1>1. ASSUME StageInv, Failing PROVE runStopping
  BY <1>1 DEF StageInv, FailureShows, ErrorStage, Failing, runStopping
<1>2. StageInv /\ [Next]_vars => [Step]_vars
  BY <1>1, LaunchedWasChosen DEF MayLaunch, ctxDone
<1>. QED
  BY <1>2, StageInvariance, PTL DEF Spec, StopIsFinal

\* What the goroutines of the failing set-up leave to do is cancelled before
\* the scheduler chooses again.
THEOREM FailureCancelsAll == Spec => []FailureCancels
<1>1. ASSUME StageInv, Failing PROVE runStopping
  BY <1>1 DEF StageInv, FailureShows, ErrorStage, Failing, runStopping
<1>2. Init => FailureCancels
  BY DEF Init, FailureCancels, Failing, SetUpFailed
<1>3. ASSUME StageInv', FailureCancels, [Next]_vars
      PROVE  FailureCancels'
  <2>1. Failing' => runStopping'
    BY <1>3 DEF StageInv, FailureShows, ErrorStage, Failing, runStopping
  <2>2. CASE FinishTest \/ FinishPull \/ FinishProvision \/ FinishAddNetwork \/ SoftTimer
    <3>1. cancelled' = (cancelled \/ runStopping')
      BY <2>2 DEF FinishTest, FinishPull, FinishProvision, FinishAddNetwork, SoftTimer, EndIteration
    <3>. QED
      BY <2>1, <3>1 DEF FailureCancels
  <2>3. CASE \/ StartTest \/ StartPull \/ StartProvision \/ StartAddNetwork \/ Interrupt
             \/ Terminated \/ UNCHANGED vars
    <3>1. UNCHANGED <<pc, errors, cancelled>>
      BY <2>3 DEF StartTest, StartPull, StartProvision, StartAddNetwork, Interrupt,
                  Terminated, vars, loopVars
    <3>. QED
      BY <1>3, <3>1 DEF FailureCancels, Failing, SetUpFailed
  <2>4. CASE PanicAddNetwork \/ AwaitResult \/ LeaveLoop \/ TearDown
    <3>1. pc' # "schedule"
      BY <2>4 DEF PanicAddNetwork, AwaitResult, LeaveLoop, TearDown
    <3>. QED
      BY <3>1 DEF FailureCancels
  <2>. QED
    BY <1>3, <2>2, <2>3, <2>4 DEF Next, SchedulerStep, Environment
<1>. QED
  BY <1>2, <1>3, StageInvariance, PTL DEF Spec

\* The errors are never forgotten, and the networks go only in tearDown.
LEMMA ErrorsStay ==
  ASSUME [Next]_vars
  PROVE  /\ errors \subseteq errors'
         /\ hostNets \subseteq hostNets' \/ (TearDown /\ ~KeepNetworks)
<1>1. CASE TearDown
  BY <1>1 DEF TearDown
<1>2. CASE FinishTest \/ FinishPull \/ FinishProvision \/ FinishAddNetwork
  BY <1>2 DEF FinishTest, FinishPull, FinishProvision, FinishAddNetwork, FailIf, netVars
<1>3. CASE LeaveLoop
  BY <1>3 DEF LeaveLoop, netVars
<1>4. CASE \/ StartTest \/ StartPull \/ StartProvision \/ StartAddNetwork \/ PanicAddNetwork
           \/ AwaitResult \/ SoftTimer \/ Interrupt \/ Terminated \/ UNCHANGED vars
  BY <1>4 DEF StartTest, StartPull, StartProvision, StartAddNetwork, PanicAddNetwork, AwaitResult,
              SoftTimer, Interrupt, Terminated, vars, netVars
<1>. QED
  BY <1>1, <1>2, <1>3, <1>4 DEF Next, SchedulerStep, Environment

\* The converse of FailureShows, and the reason for every cancellation.
CauseKnown ==
  /\ ErrorStage => SetUpFailed
  /\ pc \in {"schedule", "wait"} /\ cancelled => Failing

LEMMA FailingStays ==
  ASSUME [Next]_vars
  PROVE  (SetUpFailed => SetUpFailed') /\ (Failing => Failing')
BY ErrorsStay DEF SetUpFailed, Failing

LEMMA NamedFailure ==
  ASSUME NEW kind \in {"pull", "provision", "network"}, NEW who, NEW failed, failed,
         FailIf(failed, kind, who)
  PROVE  SetUpFailed'
<1>1. <<kind, who>> \in errors'
  BY DEF FailIf
<1>2. <<kind, who>>[1] = kind
  OBVIOUS
<1>. QED
  BY <1>1, <1>2 DEF SetUpFailed

\* Whoever sets a stage to Error names the failure.
LEMMA ErrorStageNamed ==
  ASSUME StageInv, [Next]_vars, ErrorStage'
  PROVE  ErrorStage \/ SetUpFailed'
<1>1. /\ TypeOK
      /\ pullStage \in [BaseImages -> {"None", "Pull", "Done", "Error"}]
      /\ provisionStage \in [VMIDs -> {"None", "Exec", "Done", "Error"}]
      /\ networks \in Seq(NetworkState) /\ Len(networks) \in Nat
  BY DEF StageInv, ResourceInv, TypeOK
<1>2. \A v \in DOMAIN VMs : VMs[v].base \in BaseImages /\ ID(VMs[v]) \in VMIDs
  BY VMTypes
<1>3. CASE StartTest \/ StartProvision \/ FinishTest
  <2>1. PICK nets : networks' = SetStage(nets, "Busy") \/ networks' = SetStage(nets, "Ready")
    <3>1. CASE StartTest \/ StartProvision
      <4>1. PICK a : networks' = SetStage(a.nets, "Busy")
        BY <3>1 DEF StartTest, StartProvision, Occupy
      <4>. QED
        BY <4>1, Zenon
    <3>2. CASE FinishTest
      <4>1. PICK a \in outstanding : networks' = SetStage(a.nets, "Ready")
        BY <3>2 DEF FinishTest, Release
      <4>. QED
        BY <4>1, Zenon
    <3>. QED
      BY <1>3, <3>1, <3>2
  <2>2. /\ DOMAIN networks' = DOMAIN networks
        /\ \A i \in DOMAIN networks : networks'[i].stage = "Error" => networks[i].stage = "Error"
    BY <1>1, <2>1, SetStageStages
  <2>3. pullStage' = pullStage
    BY <1>3 DEF StartTest, StartProvision, FinishTest, imageVars
  <2>4. \A i \in VMIDs : provisionStage'[i] = "Error" => provisionStage[i] = "Error"
    BY <1>1, <1>3 DEF StartTest, StartProvision, FinishTest, imageVars
  <2>. QED
    BY <1>2, <2>2, <2>3, <2>4 DEF ErrorStage
<1>4. CASE FinishProvision
  <2>1. PICK a \in outstanding, failed \in BOOLEAN :
          /\ provisionStage' = [provisionStage EXCEPT ![ID(VMs[a.nr])] = IF failed THEN "Error" ELSE "Done"]
          /\ FailIf(failed, "provision", ID(VMs[a.nr]))
          /\ networks' = SetStage(a.nets, "Ready")
    BY <1>4 DEF FinishProvision, Release
  <2>2. CASE failed
    BY <2>1, <2>2, NamedFailure
  <2>3. CASE ~failed
    <3>1. \A i \in VMIDs : provisionStage'[i] = "Error" => provisionStage[i] = "Error"
      BY <1>1, <2>1, <2>3
    <3>2. /\ DOMAIN networks' = DOMAIN networks
          /\ \A i \in DOMAIN networks : networks'[i].stage = "Error" => networks[i].stage = "Error"
      BY <1>1, <2>1, SetStageStages
    <3>3. pullStage' = pullStage
      BY <1>4 DEF FinishProvision
    <3>. QED
      BY <1>2, <3>1, <3>2, <3>3 DEF ErrorStage
  <2>. QED
    BY <2>2, <2>3
<1>5. CASE StartPull \/ FinishPull
  <2>1. networks' = networks /\ provisionStage' = provisionStage
    BY <1>5 DEF StartPull, FinishPull, netVars
  <2>2. CASE \A b \in BaseImages : pullStage'[b] = "Error" => pullStage[b] = "Error"
    BY <1>2, <2>1, <2>2 DEF ErrorStage
  <2>3. CASE ~(\A b \in BaseImages : pullStage'[b] = "Error" => pullStage[b] = "Error")
    <3>1. FinishPull
      BY <1>1, <1>5, <2>3 DEF StartPull
    <3>2. PICK a \in outstanding, failed \in BOOLEAN :
            /\ pullStage' = [pullStage EXCEPT ![VMs[a.nr].base] = IF failed THEN "Error" ELSE "Done"]
            /\ FailIf(failed, "pull", VMs[a.nr].base)
      BY <3>1 DEF FinishPull
    <3>3. failed
      BY <1>1, <2>3, <3>2
    <3>. QED
      BY <3>2, <3>3, NamedFailure
  <2>. QED
    BY <2>2, <2>3
<1>6. CASE FinishAddNetwork
  <2>1. PICK a \in outstanding, failed \in BOOLEAN :
          /\ networks' = SetStage({a.nr}, IF failed THEN "Error" ELSE "Ready")
          /\ FailIf(failed, "network", a.nr)
    BY <1>6 DEF FinishAddNetwork
  <2>2. CASE failed
    BY <2>1, <2>2, NamedFailure
  <2>3. CASE ~failed
    <3>1. /\ DOMAIN networks' = DOMAIN networks
          /\ \A i \in DOMAIN networks : networks'[i].stage = "Error" => networks[i].stage = "Error"
      BY <1>1, <2>1, <2>3, SetStageStages
    <3>2. pullStage' = pullStage /\ provisionStage' = provisionStage
      BY <1>6 DEF FinishAddNetwork, imageVars
    <3>. QED
      BY <3>1, <3>2 DEF ErrorStage
  <2>. QED
    BY <2>2, <2>3
<1>7. CASE StartAddNetwork \/ PanicAddNetwork
  <2>1. PICK net : net.stage = "Add" /\ networks' = Append(networks, net)
    BY <1>7 DEF StartAddNetwork, PanicAddNetwork, NewNetwork
  <2>2. /\ DOMAIN networks' = DOMAIN networks \cup {Len(networks) + 1}
        /\ \A i \in DOMAIN networks : networks'[i] = networks[i]
        /\ networks'[Len(networks) + 1] = net
    BY <1>1, <2>1
  <2>3. pullStage' = pullStage /\ provisionStage' = provisionStage
    BY <1>7 DEF StartAddNetwork, PanicAddNetwork, imageVars
  <2>. QED
    BY <2>1, <2>2, <2>3 DEF ErrorStage
<1>8. CASE \/ AwaitResult \/ LeaveLoop \/ TearDown \/ SoftTimer \/ Interrupt \/ Terminated
           \/ UNCHANGED vars
  <2>1. UNCHANGED <<networks, pullStage, provisionStage>>
    BY <1>8 DEF AwaitResult, LeaveLoop, TearDown, SoftTimer, Interrupt, Terminated, vars, netVars,
                imageVars
  <2>. QED
    BY <2>1 DEF ErrorStage
<1>. QED
  BY <1>3, <1>4, <1>5, <1>6, <1>7, <1>8 DEF Next, SchedulerStep, Environment

LEMMA NextCause ==
  ASSUME StageInv, CauseKnown, [Next]_vars
  PROVE  CauseKnown'
<1>1. ErrorStage' => SetUpFailed'
  BY ErrorStageNamed, FailingStays DEF CauseKnown
<1>2. runStopping' => Failing'
  BY <1>1 DEF runStopping, Failing, ErrorStage
<1>3. CASE FinishTest \/ FinishPull \/ FinishProvision \/ FinishAddNetwork \/ SoftTimer
  <2>1. cancelled' = (cancelled \/ runStopping') /\ pc = "wait"
    BY <1>3 DEF FinishTest, FinishPull, FinishProvision, FinishAddNetwork, SoftTimer, Receive,
                EndIteration
  <2>. QED
    BY <1>1, <1>2, <2>1, FailingStays DEF CauseKnown
<1>4. CASE StartTest \/ StartPull \/ StartProvision \/ StartAddNetwork \/ AwaitResult \/ Interrupt
           \/ Terminated \/ UNCHANGED vars
  <2>1. cancelled' = cancelled /\ (pc' \in {"schedule", "wait"} => pc \in {"schedule", "wait"})
    BY <1>4 DEF StartTest, StartPull, StartProvision, StartAddNetwork, AwaitResult, Interrupt,
                Terminated, vars, loopVars
  <2>. QED
    BY <1>1, <2>1, FailingStays DEF CauseKnown
<1>5. CASE PanicAddNetwork \/ LeaveLoop \/ TearDown
  <2>1. pc' \notin {"schedule", "wait"}
    BY <1>5 DEF PanicAddNetwork, LeaveLoop, TearDown
  <2>. QED
    BY <1>1, <2>1 DEF CauseKnown
<1>. QED
  BY <1>3, <1>4, <1>5 DEF Next, SchedulerStep, Environment

LEMMA InitCause == Init => CauseKnown
<1> SUFFICES ASSUME Init PROVE CauseKnown
  OBVIOUS
<1>1. DOMAIN networks = {}
  BY DEF Init
<1>2. \A v \in DOMAIN VMs : pullStage[VMs[v].base] # "Error" /\ provisionStage[ID(VMs[v])] # "Error"
  BY VMTypes DEF Init
<1>. QED
  BY <1>1, <1>2 DEF Init, CauseKnown, ErrorStage

\* A test is cancelled only by a failure or a signal; the soft timeout alone
\* leaves what is running to finish.
THEOREM OnlyFailuresCancel == Spec => OnlyFailureCancels
<1> DEFINE Step == \A t \in TestIDs :
                     runResults[t] # runResults'[t] /\ runResults'[t].status = "CANCELED" =>
                       Failing \/ interrupted
<1>1. Init => CauseKnown
  BY InitCause
<1>2. ASSUME StageInv, CauseKnown, [Next]_vars, NEW t \in TestIDs,
             runResults[t] # runResults'[t], runResults'[t].status = "CANCELED"
      PROVE  Failing \/ interrupted
  <2>1. runResults \in [TestIDs -> Result \cup {NoResult}]
    BY <1>2 DEF StageInv, ResourceInv, TypeOK
  <2>2. CASE FinishTest
    <3>1. PICK a \in outstanding, res \in TestResults :
            runResults' = [runResults EXCEPT ![TestRuns[a.nr].testID] = res] /\ pc = "wait"
      BY <2>2 DEF FinishTest, Receive
    <3>2. res.status = "CANCELED"
      BY <1>2, <2>1, <3>1
    <3>3. \A f \in FailedResults : f.status # "CANCELED"
      BY ConfigAssumption
    <3>4. ctxDone
      BY <3>2, <3>3 DEF TestResults, Deliverable
    <3>. QED
      BY <1>2, <3>1, <3>4 DEF CauseKnown, ctxDone
  <2>3. CASE LeaveLoop
    <3>1. \A u \in TestIDs : runResults'[u] = runResults[u] \/ runResults'[u].status = "SKIPPED"
      BY <2>3 DEF LeaveLoop
    <3>. QED
      BY <1>2, <3>1
  <2>4. CASE ~(FinishTest \/ LeaveLoop)
    <3>1. runResults' = runResults
      BY <1>2, <2>4 DEF Next, SchedulerStep, Environment, StartTest, StartPull, StartProvision,
                        StartAddNetwork, PanicAddNetwork, AwaitResult, FinishPull, FinishProvision,
                        FinishAddNetwork, TearDown, SoftTimer, Interrupt, Terminated, vars, runVars
    <3>. QED
      BY <1>2, <3>1
  <2>. QED
    BY <2>2, <2>3, <2>4
<1>3. StageInv /\ CauseKnown /\ [Next]_vars => [Step]_vars
  BY <1>2
<1>4. StageInv /\ CauseKnown /\ [Next]_vars => CauseKnown'
  BY NextCause
<1>. QED
  BY <1>1, <1>3, <1>4, StageInvariance, PTL DEF Spec, OnlyFailureCancels

\* An executed run is never executed again and its result never changes.
ExecutedOnce ==
  [][\A t \in TestIDs : runStage[t] = "Done" =>
       runStage'[t] = "Done" /\ runResults'[t] = runResults[t]]_vars

LEMMA DoneStays ==
  ASSUME StageInv, [Next]_vars, NEW t \in TestIDs, runStage[t] = "Done"
  PROVE  runStage'[t] = "Done" /\ runResults'[t] = runResults[t]
<1>1. /\ runStage \in [TestIDs -> {"New", "Exec", "Done"}]
      /\ runResults \in [TestIDs -> Result \cup {NoResult}]
  BY DEF StageInv, ResourceInv, TypeOK
<1>2. CASE StartTest
  <2>1. PICK a \in chooseNextAction :
          /\ a.kind = "test"
          /\ runStage' = [runStage EXCEPT ![TestRuns[a.nr].testID] = "Exec"]
    BY <1>2 DEF StartTest
  <2>2. runStage[TestRuns[a.nr].testID] = "New"
    BY <2>1, ChosenAction DEF Choice, StartableRuns, StageOf
  <2>. QED
    BY <1>1, <1>2, <2>1, <2>2 DEF StartTest
<1>3. CASE FinishTest
  <2>1. PICK a \in outstanding, res \in TestResults :
          /\ a.kind = "test"
          /\ runStage' = [runStage EXCEPT ![TestRuns[a.nr].testID] = "Done"]
          /\ runResults' = [runResults EXCEPT ![TestRuns[a.nr].testID] = res]
    BY <1>3 DEF FinishTest
  <2>2. runStage[TestRuns[a.nr].testID] = "Exec"
    BY <2>1, WorkInProgress
  <2>. QED
    BY <1>1, <2>1, <2>2
<1>4. CASE LeaveLoop
  <2>1. runStage' = runStage /\ t \notin Unfinished
    BY <1>4 DEF LeaveLoop, Unfinished
  <2>. QED
    BY <1>4, <2>1 DEF LeaveLoop
<1>5. CASE \/ StartPull \/ StartProvision \/ StartAddNetwork \/ PanicAddNetwork
           \/ AwaitResult \/ FinishPull \/ FinishProvision \/ FinishAddNetwork
           \/ TearDown \/ SoftTimer \/ Interrupt \/ Terminated \/ UNCHANGED vars
  BY <1>5 DEF StartPull, StartProvision, StartAddNetwork, PanicAddNetwork, AwaitResult,
              FinishPull, FinishProvision, FinishAddNetwork, TearDown, SoftTimer,
              Interrupt, Terminated, vars, runVars
<1>. QED
  BY <1>2, <1>3, <1>4, <1>5 DEF Next, SchedulerStep, Environment

\* What ExecutedOnce says holds: no result is ever lost to a second execution.
THEOREM RunsOnce == Spec => ExecutedOnce
<1>1. StageInv /\ [Next]_vars =>
        [\A t \in TestIDs : runStage[t] = "Done" =>
           runStage'[t] = "Done" /\ runResults'[t] = runResults[t]]_vars
  BY DoneStays
<1>. QED
  BY <1>1, StageInvariance, PTL DEF Spec, ExecutedOnce

------------------------------------------------------------------------------
(* The scheduler implements WorkPool: stages, exclusive resources and the  *)
(* one worker for each piece of work, carried over to the pool's view.     *)

\* What the stages say, piece by piece.
PhasesRight ==
  /\ \A t \in TestIDs :
       /\ runStage[t] = "New"  => WorkPhase(<<"test", t>>) = "todo"
       /\ runStage[t] = "Exec" => WorkPhase(<<"test", t>>) = "running"
       /\ runStage[t] = "Done" => WorkPhase(<<"test", t>>) = "done"
  /\ \A b \in BaseImages :
       /\ pullStage[b] = "None"  => WorkPhase(<<"pull", b>>) = "todo"
       /\ pullStage[b] = "Pull"  => WorkPhase(<<"pull", b>>) = "running"
       /\ pullStage[b] = "Done"  => WorkPhase(<<"pull", b>>) = "done"
       /\ pullStage[b] = "Error" => WorkPhase(<<"pull", b>>) = "failed"
  /\ \A i \in VMIDs :
       /\ provisionStage[i] = "None"  => WorkPhase(<<"provision", i>>) = "todo"
       /\ provisionStage[i] = "Exec"  => WorkPhase(<<"provision", i>>) = "running"
       /\ provisionStage[i] = "Done"  => WorkPhase(<<"provision", i>>) = "done"
       /\ provisionStage[i] = "Error" => WorkPhase(<<"provision", i>>) = "failed"

LEMMA Phases == PhasesRight
<1>1. ASSUME NEW t \in TestIDs
      PROVE  /\ runStage[t] = "New"  => WorkPhase(<<"test", t>>) = "todo"
             /\ runStage[t] = "Exec" => WorkPhase(<<"test", t>>) = "running"
             /\ runStage[t] = "Done" => WorkPhase(<<"test", t>>) = "done"
  BY DEF WorkPhase
<1>2. ASSUME NEW b \in BaseImages
      PROVE  /\ pullStage[b] = "None"  => WorkPhase(<<"pull", b>>) = "todo"
             /\ pullStage[b] = "Pull"  => WorkPhase(<<"pull", b>>) = "running"
             /\ pullStage[b] = "Done"  => WorkPhase(<<"pull", b>>) = "done"
             /\ pullStage[b] = "Error" => WorkPhase(<<"pull", b>>) = "failed"
  BY DEF WorkPhase
<1>3. ASSUME NEW i \in VMIDs
      PROVE  /\ provisionStage[i] = "None"  => WorkPhase(<<"provision", i>>) = "todo"
             /\ provisionStage[i] = "Exec"  => WorkPhase(<<"provision", i>>) = "running"
             /\ provisionStage[i] = "Done"  => WorkPhase(<<"provision", i>>) = "done"
             /\ provisionStage[i] = "Error" => WorkPhase(<<"provision", i>>) = "failed"
  BY DEF WorkPhase
<1>. QED
  BY <1>1, <1>2, <1>3 DEF PhasesRight

\* The phase of a piece of work depends on its stage alone.
LEMMA PhaseOfStage ==
  ASSUME NEW w \in AllWork,
         w[1] = "test"      => runStage'[w[2]] = runStage[w[2]],
         w[1] = "pull"      => pullStage'[w[2]] = pullStage[w[2]],
         w[1] = "provision" => provisionStage'[w[2]] = provisionStage[w[2]]
  PROVE  WorkPhase(w)' = WorkPhase(w)
<1>1. CASE w[1] = "test"
  BY <1>1 DEF WorkPhase
<1>2. CASE w[1] = "pull"
  BY <1>2 DEF WorkPhase
<1>3. CASE w[1] = "provision"
  BY <1>3 DEF WorkPhase
<1>. QED
  BY <1>1, <1>2, <1>3 DEF AllWork

\* An outstanding action, and the work it does.
LEMMA WorkersWork ==
  ASSUME NEW a, a.kind # "network", NEW w \in AllWork
  PROVE  (a.kind = w[1] /\ Key(a) = w[2]) <=> Work(a) = w
<1>1. w = <<w[1], w[2]>>
  BY DEF AllWork
<1>. QED
  BY <1>1 DEF Work

LEMMA HeldByWorkers ==
  ASSUME NEW w \in AllWork
  PROVE  WorkHolds(w) = UNION {Holds(a) : a \in {b \in Workers : Work(b) = w}}
<1>1. w[1] \in {"test", "pull", "provision"}
  BY DEF AllWork
<1>2. {b \in outstanding : b.kind = w[1] /\ Key(b) = w[2]} = {b \in Workers : Work(b) = w}
  BY <1>1, WorkersWork DEF Workers
<1>. QED
  BY <1>2 DEF WorkHolds

HeldRight ==
  \A w \in AllWork : WorkHolds(w) = UNION {Holds(a) : a \in {b \in Workers : Work(b) = w}}

LEMMA HeldNow == HeldRight
BY HeldByWorkers DEF HeldRight

LEMMA HeldNext == HeldRight'
BY HeldNow, PTL

\* The pool's view of a step.
Same(w) == WorkPhase(w)' = WorkPhase(w) /\ WorkHolds(w)' = WorkHolds(w)

\* A step that touches no work and takes back no stop is the pool's Stop or none.
LEMMA QuietStep ==
  ASSUME StageInv, \A w \in AllWork : Same(w), Stopped => Stopped'
  PROVE  [Pool!Next]_(Pool!poolVars)
<1>1. /\ [w \in AllWork |-> WorkPhase(w)]' = [w \in AllWork |-> WorkPhase(w)]
      /\ [w \in AllWork |-> WorkHolds(w)]' = [w \in AllWork |-> WorkHolds(w)]
  BY DEF Same
<1>2. CASE Stopped'
  <2>1. Pool!Stop
    BY <1>1, <1>2 DEF Pool!Stop
  <2>. QED
    BY <2>1 DEF Pool!Next
<1>3. CASE ~Stopped'
  <2>1. ~Stopped
    BY <1>3
  <2>2. Stopped' = Stopped
    BY <1>3, <2>1 DEF Stopped
  <2>. QED
    BY <1>1, <2>2 DEF Pool!poolVars
<1>. QED
  BY <1>2, <1>3

\* Launching work that is to be done, and that what is done makes possible.
LEMMA LaunchBegins ==
  ASSUME StageInv, StageInv', NEW a, a.kind # "network", MayLaunch,
         a \notin outstanding, outstanding' = outstanding \cup {a}, UNCHANGED <<errors, softExpired, interrupted>>,
         Work(a) \in AllWork,
         WorkPhase(Work(a)) = "todo", WorkPhase(Work(a))' = "running",
         \A v \in AllWork \ {Work(a)} : WorkPhase(v)' = WorkPhase(v),
         \E needed \in WorkNeeds(Work(a)) : needed \subseteq AllWork /\ \A n \in needed : WorkPhase(n) = "done"
  PROVE  [Pool!Next]_(Pool!poolVars)
<1> DEFINE w == Work(a)
<1>1. ~Stopped /\ ~Stopped'
  <2>1. Failing => runStopping
    BY DEF StageInv, FailureShows, ErrorStage, Failing, runStopping
  <2>2. ~Failing /\ ~softExpired /\ ~interrupted
    BY <2>1 DEF MayLaunch, ctxDone
  <2>. QED
    BY <2>2 DEF Stopped, Failing, SetUpFailed
<1>2. ASSUME NEW v \in AllWork \ {w}
      PROVE  WorkHolds(v)' = WorkHolds(v) /\ WorkHolds(v) \cap WorkHolds(w)' = {}
  <2>1. Workers' = Workers \cup {a}
    BY DEF Workers
  <2>2. {b \in Workers' : Work(b) = v} = {b \in Workers : Work(b) = v}
    BY <2>1
  <2>3. WorkHolds(v) = UNION {Holds(b) : b \in {c \in Workers : Work(c) = v}}
    BY HeldByWorkers
  <2>4. WorkHolds(v)' = UNION {Holds(b) : b \in {c \in Workers' : Work(c) = v}}
    BY HeldNext DEF HeldRight, Work, Key, Holds
  <2>5. \A b \in Workers' : Work(b) = w => b = a
    BY <2>1 DEF StageInv, WorkMatches, Work, Key
  <2>6. WorkHolds(w)' \subseteq Holds(a)
    <3>1. WorkHolds(w)' = UNION {Holds(b) : b \in {c \in Workers' : Work(c) = w}}
      BY HeldNext DEF HeldRight, Work, Key, Holds
    <3>. QED
      BY <2>5, <3>1
  <2>7. \A b \in Workers : Work(b) = v => Holds(b) \cap Holds(a) = {}
    BY <2>1 DEF StageInv, ResourceInv, ResourcesExclusive, Workers, Holds
  <2>. QED
    BY <2>2, <2>3, <2>4, <2>6, <2>7
<1>3. Pool!Begin(w)
  <2>1. [v \in AllWork |-> WorkPhase(v)]' = [[v \in AllWork |-> WorkPhase(v)] EXCEPT ![w] = "running"]
    OBVIOUS
  <2>2. Pool!Possible(w)
    BY DEF Pool!Possible
  <2>3. Stopped' = Stopped
    BY <1>1 DEF Stopped
  <2>. QED
    BY <1>1, <1>2, <2>1, <2>2, <2>3 DEF Pool!Begin
<1>. QED
  BY <1>3 DEF Pool!Next

\* Receiving the result of a worker.
LEMMA ReceiveFinishes ==
  ASSUME StageInv, NEW a \in outstanding, a.kind # "network", outstanding' = outstanding \ {a},
         Work(a) \in AllWork, Stopped => Stopped',
         WorkPhase(Work(a)) = "running",
         \/ WorkPhase(Work(a))' = "done"
         \/ WorkPhase(Work(a))' = "failed" /\ Stopped',
         \A v \in AllWork \ {Work(a)} : WorkPhase(v)' = WorkPhase(v)
  PROVE  [Pool!Next]_(Pool!poolVars)
<1> DEFINE w == Work(a)
<1>1. Workers' = Workers \ {a} /\ a \in Workers
  BY DEF Workers
<1>2. \A b \in Workers' : Work(b) # w
  BY <1>1 DEF StageInv, WorkMatches
<1>3. ASSUME NEW v \in AllWork
      PROVE  WorkHolds(v)' = IF v = w THEN {} ELSE WorkHolds(v)
  <2>1. WorkHolds(v)' = UNION {Holds(b) : b \in {c \in Workers' : Work(c) = v}}
    BY HeldNext DEF HeldRight, Work, Key, Holds
  <2>2. WorkHolds(v) = UNION {Holds(b) : b \in {c \in Workers : Work(c) = v}}
    BY HeldByWorkers
  <2>3. v # w => {c \in Workers' : Work(c) = v} = {c \in Workers : Work(c) = v}
    BY <1>1
  <2>. QED
    BY <1>2, <2>1, <2>2, <2>3
<1>4. PICK end \in {"done", "failed"} : WorkPhase(w)' = end /\ (end = "failed" => Stopped')
  OBVIOUS
<1>5. [v \in AllWork |-> WorkPhase(v)]' = [[v \in AllWork |-> WorkPhase(v)] EXCEPT ![w] = end]
  BY <1>4
<1>6. [v \in AllWork |-> WorkHolds(v)]' = [[v \in AllWork |-> WorkHolds(v)] EXCEPT ![w] = {}]
  BY <1>3
<1>7. Pool!Finish(w)
  BY <1>4, <1>5, <1>6 DEF Pool!Finish
<1>. QED
  BY <1>7 DEF Pool!Next

------------------------------------------------------------------------------
(* The steps of the scheduler.                                             *)

LEMMA PhasesNext == PhasesRight'
BY Phases, PTL

LEMMA StopStays ==
  ASSUME StageInv, [Next]_vars
  PROVE  Stopped => Stopped'
<1>1. /\ errors \subseteq errors'
      /\ softExpired => softExpired'
      /\ interrupted => interrupted'
  <2>1. CASE StartTest \/ StartPull \/ StartProvision \/ StartAddNetwork
    BY <2>1 DEF StartTest, StartPull, StartProvision, StartAddNetwork, loopVars
  <2>2. CASE FinishTest \/ FinishPull \/ FinishProvision \/ FinishAddNetwork
    <3>1. PICK failed \in BOOLEAN : \E kind, who : FailIf(failed, kind, who) /\ UNCHANGED <<softExpired, interrupted>>
      <4>1. CASE FinishTest
        <5>1. PICK a \in outstanding, res \in TestResults :
                Receive(a) /\ FailIf(res.err, "test", TestRuns[a.nr].testID)
          BY <4>1 DEF FinishTest
        <5>2. res.err \in BOOLEAN
          BY ResultTypes DEF Result
        <5>. QED
          BY <5>1, <5>2 DEF Receive
      <4>2. CASE FinishPull
        BY <4>2 DEF FinishPull, Receive
      <4>3. CASE FinishProvision
        BY <4>3 DEF FinishProvision, Receive
      <4>4. CASE FinishAddNetwork
        BY <4>4 DEF FinishAddNetwork, Receive
      <4>. QED
        BY <2>2, <4>1, <4>2, <4>3, <4>4
    <3>. QED
      BY <3>1 DEF FailIf
  <2>3. CASE LeaveLoop \/ TearDown
    BY <2>3 DEF LeaveLoop, TearDown
  <2>4. CASE PanicAddNetwork \/ AwaitResult \/ SoftTimer \/ Interrupt \/ Terminated \/ UNCHANGED vars
    BY <2>4 DEF PanicAddNetwork, AwaitResult, SoftTimer, Interrupt, Terminated, vars
  <2>. QED
    BY <2>1, <2>2, <2>3, <2>4 DEF Next, SchedulerStep, Environment
<1>. QED
  BY <1>1 DEF Stopped, Failing, SetUpFailed

LEMMA StartTestBegins ==
  ASSUME StageInv, StageInv', StartTest
  PROVE  [Pool!Next]_(Pool!poolVars)
<1>1. PICK a \in chooseNextAction :
        /\ a.kind = "test"
        /\ runStage' = [runStage EXCEPT ![TestRuns[a.nr].testID] = "Exec"]
        /\ Launch(a)
  BY DEF StartTest
<1> DEFINE t == TestRuns[a.nr].testID
           run == TestRuns[a.nr]
           images == UNION {{<<"pull", run.vms[k].base>>, <<"provision", ID(run.vms[k])>>} :
                              k \in DOMAIN run.vms}
<1>2. a.nr \in DOMAIN TestRuns /\ runStage[t] = "New" /\ allImagesReady(run)
  BY <1>1, ChosenAction DEF Choice, StartableRuns, StageOf
<1>3. t \in TestIDs /\ Work(a) = <<"test", t>> /\ Work(a) \in AllWork
  BY <1>1, <1>2, RunTypes DEF Work, Key, AllWork
<1>4. runStage \in [TestIDs -> {"New", "Exec", "Done"}]
  BY DEF StageInv, ResourceInv, TypeOK
<1>5. a \notin outstanding
  BY <1>1, <1>2, WorkInProgress
<1>6. UNCHANGED <<pullStage, provisionStage, errors, softExpired, interrupted>> /\ MayLaunch
  BY DEF StartTest, imageVars, loopVars
<1>7. WorkPhase(Work(a)) = "todo" /\ WorkPhase(Work(a))' = "running"
  BY <1>1, <1>2, <1>3, <1>4, Phases, PhasesNext DEF PhasesRight
<1>8. ASSUME NEW v \in AllWork \ {Work(a)} PROVE WorkPhase(v)' = WorkPhase(v)
  <2>1. v[1] = "test" => v[2] # t
    BY <1>3 DEF AllWork
  <2>. QED
    BY <1>1, <1>3, <1>4, <1>6, <2>1, PhaseOfStage
<1>9. images \in WorkNeeds(Work(a)) /\ images \subseteq AllWork /\ \A n \in images : WorkPhase(n) = "done"
  <2>1. images \in WorkNeeds(Work(a))
    BY <1>2, <1>3 DEF WorkNeeds
  <2>2. ASSUME NEW k \in DOMAIN run.vms
        PROVE  /\ run.vms[k].base \in BaseImages /\ ID(run.vms[k]) \in VMIDs
               /\ pullStage[run.vms[k].base] = "Done"
               /\ provisionStage[ID(run.vms[k])] = "Done"
    <3>1. PICK v \in DOMAIN VMs : VMs[v] = run.vms[k]
      BY <1>2, ConfigAssumption
    <3>. QED
      BY <1>2, <3>1, VMTypes DEF allImagesReady, ImageReady
  <2>3. ASSUME NEW k \in DOMAIN run.vms
        PROVE  /\ {<<"pull", run.vms[k].base>>, <<"provision", ID(run.vms[k])>>} \subseteq AllWork
               /\ WorkPhase(<<"pull", run.vms[k].base>>) = "done"
               /\ WorkPhase(<<"provision", ID(run.vms[k])>>) = "done"
    BY <2>2, Phases DEF PhasesRight, AllWork
  <2>. QED
    BY <2>1, <2>3
<1>. QED
  BY <1>1, <1>3, <1>5, <1>6, <1>7, <1>8, <1>9, LaunchBegins DEF Launch

LEMMA StartPullBegins ==
  ASSUME StageInv, StageInv', StartPull
  PROVE  [Pool!Next]_(Pool!poolVars)
<1>1. PICK a \in chooseNextAction :
        /\ a.kind = "pull"
        /\ pullStage' = [pullStage EXCEPT ![VMs[a.nr].base] = "Pull"]
        /\ Launch(a)
  BY DEF StartPull
<1> DEFINE b == VMs[a.nr].base
<1>2. a.nr \in DOMAIN VMs /\ pullStage[b] = "None"
  BY <1>1, ChosenAction DEF Choice, UnpulledVMs
<1>3. b \in BaseImages /\ Work(a) = <<"pull", b>> /\ Work(a) \in AllWork
  BY <1>1, <1>2, VMTypes DEF Work, Key, AllWork
<1>4. pullStage \in [BaseImages -> {"None", "Pull", "Done", "Error"}]
  BY DEF StageInv, ResourceInv, TypeOK
<1>5. a \notin outstanding
  BY <1>1, <1>2, WorkInProgress
<1>6. UNCHANGED <<runStage, provisionStage, errors, softExpired, interrupted>> /\ MayLaunch
  BY DEF StartPull, runVars, loopVars
<1>7. WorkPhase(Work(a)) = "todo" /\ WorkPhase(Work(a))' = "running"
  BY <1>1, <1>2, <1>3, <1>4, Phases, PhasesNext DEF PhasesRight
<1>8. ASSUME NEW v \in AllWork \ {Work(a)} PROVE WorkPhase(v)' = WorkPhase(v)
  <2>1. v[1] = "pull" => v[2] # b
    BY <1>3 DEF AllWork
  <2>. QED
    BY <1>1, <1>3, <1>4, <1>6, <2>1, PhaseOfStage
<1>9. {} \in WorkNeeds(Work(a))
  BY <1>3 DEF WorkNeeds
<1>. QED
  BY <1>1, <1>3, <1>5, <1>6, <1>7, <1>8, <1>9, LaunchBegins DEF Launch

LEMMA StartProvisionBegins ==
  ASSUME StageInv, StageInv', StartProvision
  PROVE  [Pool!Next]_(Pool!poolVars)
<1>1. PICK a \in chooseNextAction :
        /\ a.kind = "provision"
        /\ provisionStage' = [provisionStage EXCEPT ![ID(VMs[a.nr])] = "Exec"]
        /\ Launch(a)
  BY DEF StartProvision
<1> DEFINE i == ID(VMs[a.nr])
           b == VMs[a.nr].base
<1>2. a.nr \in DOMAIN VMs /\ provisionStage[i] = "None" /\ pullStage[b] = "Done"
  BY <1>1, ChosenAction DEF Choice, PulledVMs
<1>3. i \in VMIDs /\ b \in BaseImages /\ Work(a) = <<"provision", i>> /\ Work(a) \in AllWork
  BY <1>1, <1>2, VMTypes DEF Work, Key, AllWork
<1>4. provisionStage \in [VMIDs -> {"None", "Exec", "Done", "Error"}]
  BY DEF StageInv, ResourceInv, TypeOK
<1>5. a \notin outstanding
  BY <1>1, <1>2, WorkInProgress
<1>6. UNCHANGED <<runStage, pullStage, errors, softExpired, interrupted>> /\ MayLaunch
  BY DEF StartProvision, runVars, loopVars
<1>7. WorkPhase(Work(a)) = "todo" /\ WorkPhase(Work(a))' = "running"
  BY <1>1, <1>2, <1>3, <1>4, Phases, PhasesNext DEF PhasesRight
<1>8. ASSUME NEW v \in AllWork \ {Work(a)} PROVE WorkPhase(v)' = WorkPhase(v)
  <2>1. v[1] = "provision" => v[2] # i
    BY <1>3 DEF AllWork
  <2>. QED
    BY <1>1, <1>3, <1>4, <1>6, <2>1, PhaseOfStage
<1>9. /\ {<<"pull", b>>} \in WorkNeeds(Work(a))
      /\ <<"pull", b>> \in AllWork /\ WorkPhase(<<"pull", b>>) = "done"
  BY <1>2, <1>3, Phases DEF WorkNeeds, PhasesRight, AllWork
<1>. QED
  BY <1>1, <1>3, <1>5, <1>6, <1>7, <1>8, <1>9, LaunchBegins DEF Launch

LEMMA FinishTestFinishes ==
  ASSUME StageInv, FinishTest, Stopped => Stopped'
  PROVE  [Pool!Next]_(Pool!poolVars)
<1>1. PICK a \in outstanding :
        /\ a.kind = "test"
        /\ Receive(a)
        /\ runStage' = [runStage EXCEPT ![TestRuns[a.nr].testID] = "Done"]
  BY DEF FinishTest
<1> DEFINE t == TestRuns[a.nr].testID
<1>2. a.nr \in DOMAIN TestRuns /\ runStage[t] = "Exec"
  BY <1>1, ActionFields, WorkInProgress DEF StageInv, ResourceInv
<1>3. t \in TestIDs /\ Work(a) = <<"test", t>> /\ Work(a) \in AllWork
  BY <1>1, <1>2, RunTypes DEF Work, Key, AllWork
<1>4. runStage \in [TestIDs -> {"New", "Exec", "Done"}]
  BY DEF StageInv, ResourceInv, TypeOK
<1>5. UNCHANGED <<pullStage, provisionStage>>
  BY DEF FinishTest, imageVars
<1>6. WorkPhase(Work(a)) = "running" /\ WorkPhase(Work(a))' = "done"
  BY <1>1, <1>2, <1>3, <1>4, Phases, PhasesNext DEF PhasesRight
<1>7. ASSUME NEW v \in AllWork \ {Work(a)} PROVE WorkPhase(v)' = WorkPhase(v)
  <2>1. v[1] = "test" => v[2] # t
    BY <1>3 DEF AllWork
  <2>. QED
    BY <1>1, <1>3, <1>4, <1>5, <2>1, PhaseOfStage
<1>. QED
  BY <1>1, <1>3, <1>6, <1>7, ReceiveFinishes DEF Receive

LEMMA FinishPullFinishes ==
  ASSUME StageInv, FinishPull, Stopped => Stopped'
  PROVE  [Pool!Next]_(Pool!poolVars)
<1>1. PICK a \in outstanding, failed \in BOOLEAN :
        /\ a.kind = "pull"
        /\ Receive(a)
        /\ pullStage' = [pullStage EXCEPT ![VMs[a.nr].base] = IF failed THEN "Error" ELSE "Done"]
        /\ FailIf(failed, "pull", VMs[a.nr].base)
  BY DEF FinishPull
<1> DEFINE b == VMs[a.nr].base
<1>2. a.nr \in DOMAIN VMs /\ pullStage[b] = "Pull"
  BY <1>1, ActionFields, WorkInProgress DEF StageInv, ResourceInv
<1>3. b \in BaseImages /\ Work(a) = <<"pull", b>> /\ Work(a) \in AllWork
  BY <1>1, <1>2, VMTypes DEF Work, Key, AllWork
<1>4. pullStage \in [BaseImages -> {"None", "Pull", "Done", "Error"}]
  BY DEF StageInv, ResourceInv, TypeOK
<1>5. UNCHANGED <<runStage, provisionStage>>
  BY DEF FinishPull, runVars
<1>6. /\ WorkPhase(Work(a)) = "running"
      /\ \/ WorkPhase(Work(a))' = "done"
         \/ WorkPhase(Work(a))' = "failed" /\ failed
  BY <1>1, <1>2, <1>3, <1>4, Phases, PhasesNext DEF PhasesRight
<1>7. failed => Stopped'
  <2> SUFFICES ASSUME failed PROVE SetUpFailed'
    BY DEF Stopped, Failing
  <2>1. <<"pull", VMs[a.nr].base>> \in errors'
    BY <1>1 DEF FailIf
  <2>. QED
    BY <2>1 DEF SetUpFailed
<1>8. ASSUME NEW v \in AllWork \ {Work(a)} PROVE WorkPhase(v)' = WorkPhase(v)
  <2>1. v[1] = "pull" => v[2] # b
    BY <1>3 DEF AllWork
  <2>. QED
    BY <1>1, <1>3, <1>4, <1>5, <2>1, PhaseOfStage
<1>. QED
  BY <1>1, <1>3, <1>6, <1>7, <1>8, ReceiveFinishes DEF Receive

LEMMA FinishProvisionFinishes ==
  ASSUME StageInv, FinishProvision, Stopped => Stopped'
  PROVE  [Pool!Next]_(Pool!poolVars)
<1>1. PICK a \in outstanding, failed \in BOOLEAN :
        /\ a.kind = "provision"
        /\ Receive(a)
        /\ provisionStage' = [provisionStage EXCEPT ![ID(VMs[a.nr])] = IF failed THEN "Error" ELSE "Done"]
        /\ FailIf(failed, "provision", ID(VMs[a.nr]))
  BY DEF FinishProvision
<1> DEFINE i == ID(VMs[a.nr])
<1>2. a.nr \in DOMAIN VMs /\ provisionStage[i] = "Exec"
  BY <1>1, ActionFields, WorkInProgress DEF StageInv, ResourceInv
<1>3. i \in VMIDs /\ Work(a) = <<"provision", i>> /\ Work(a) \in AllWork
  BY <1>1, <1>2, VMTypes DEF Work, Key, AllWork
<1>4. provisionStage \in [VMIDs -> {"None", "Exec", "Done", "Error"}]
  BY DEF StageInv, ResourceInv, TypeOK
<1>5. UNCHANGED <<runStage, pullStage>>
  BY DEF FinishProvision, runVars
<1>6. /\ WorkPhase(Work(a)) = "running"
      /\ \/ WorkPhase(Work(a))' = "done"
         \/ WorkPhase(Work(a))' = "failed" /\ failed
  BY <1>1, <1>2, <1>3, <1>4, Phases, PhasesNext DEF PhasesRight
<1>7. failed => Stopped'
  <2> SUFFICES ASSUME failed PROVE SetUpFailed'
    BY DEF Stopped, Failing
  <2>1. <<"provision", ID(VMs[a.nr])>> \in errors'
    BY <1>1 DEF FailIf
  <2>. QED
    BY <2>1 DEF SetUpFailed
<1>8. ASSUME NEW v \in AllWork \ {Work(a)} PROVE WorkPhase(v)' = WorkPhase(v)
  <2>1. v[1] = "provision" => v[2] # i
    BY <1>3 DEF AllWork
  <2>. QED
    BY <1>1, <1>3, <1>4, <1>5, <2>1, PhaseOfStage
<1>. QED
  BY <1>1, <1>3, <1>6, <1>7, <1>8, ReceiveFinishes DEF Receive

\* The other steps touch no work: networks come and go, the loop goes round.
LEMMA OtherStepsQuiet ==
  ASSUME StageInv, Stopped => Stopped',
         StartAddNetwork \/ FinishAddNetwork \/ OtherStep
  PROVE  [Pool!Next]_(Pool!poolVars)
<1>1. UNCHANGED <<pullStage, provisionStage, runStage>>
  BY DEF StartAddNetwork, FinishAddNetwork, OtherStep, PanicAddNetwork, AwaitResult, LeaveLoop,
         SoftTimer, Interrupt, TearDown, vars, imageVars, runVars
<1>2. Workers' = Workers
  <2>1. CASE StartAddNetwork
    BY <2>1 DEF StartAddNetwork, Launch, Workers
  <2>2. CASE FinishAddNetwork
    BY <2>2 DEF FinishAddNetwork, Receive, Workers
  <2>3. CASE OtherStep
    BY <2>3, OtherWork DEF Workers
  <2>. QED
    BY <2>1, <2>2, <2>3
<1>3. ASSUME NEW w \in AllWork PROVE Same(w)
  <2>1. WorkPhase(w)' = WorkPhase(w)
    BY <1>1, PhaseOfStage
  <2>2. WorkHolds(w)' = UNION {Holds(b) : b \in {c \in Workers' : Work(c) = w}}
    BY HeldNext DEF HeldRight, Work, Key, Holds
  <2>. QED
    BY <1>2, <2>1, <2>2, HeldByWorkers DEF Same
<1>. QED
  BY <1>3, QuietStep

\* Initially nothing is begun and nothing is held.
LEMMA InitPool == Init => Pool!Init
<1> SUFFICES ASSUME Init PROVE Pool!Init
  OBVIOUS
<1>1. ~Stopped /\ Stopped = FALSE
  BY DEF Init, Stopped, Failing, SetUpFailed
<1>2. ASSUME NEW w \in AllWork PROVE WorkPhase(w) \in {"todo", "done"} /\ WorkHolds(w) = {}
  <2>0. WorkHolds(w) = {}
    BY HeldByWorkers DEF Init, Workers
  <2>1. CASE w \in {"test"} \X TestIDs
    <3>1. PICK x \in TestIDs : w = <<"test", x>>
      BY <2>1
    <3>2. runStage[x] = "New"
      BY <3>1 DEF Init
    <3>. QED
      BY <2>0, <3>1, <3>2, Phases DEF PhasesRight
  <2>2. CASE w \in {"pull"} \X BaseImages
    <3>1. PICK x \in BaseImages : w = <<"pull", x>>
      BY <2>2
    <3>2. pullStage[x] \in {"None", "Done"}
      BY <3>1 DEF Init
    <3>. QED
      BY <2>0, <3>1, <3>2, Phases DEF PhasesRight
  <2>3. CASE w \in {"provision"} \X VMIDs
    <3>1. PICK x \in VMIDs : w = <<"provision", x>>
      BY <2>3
    <3>2. provisionStage[x] \in {"None", "Done"}
      BY <3>1 DEF Init
    <3>. QED
      BY <2>0, <3>1, <3>2, Phases DEF PhasesRight
  <2>. QED
    BY <2>1, <2>2, <2>3 DEF AllWork
<1>. QED
  BY <1>1, <1>2 DEF Pool!Init

LEMMA NextPool ==
  ASSUME StageInv, StageInv', [Next]_vars
  PROVE  [Pool!Next]_(Pool!poolVars)
BY StopStays, StartTestBegins, StartPullBegins, StartProvisionBegins, FinishTestFinishes,
   FinishPullFinishes, FinishProvisionFinishes, OtherStepsQuiet
DEF Next, SchedulerStep, Environment, Terminated, OtherStep

\* Whatever fails, expires or is interrupted, the scheduler keeps the promise of
\* the pool: each piece of work once, on what it needs, with resources of its
\* own, and none after a stop.
THEOREM ImplementsPool == Spec => KeepsPool
<1>1. Init => Pool!Init
  BY InitPool
<1>2. StageInv /\ StageInv' /\ [Next]_vars => [Pool!Next]_(Pool!poolVars)
  BY NextPool
<1>. QED
  BY <1>1, <1>2, StageInvariance, PTL DEF Spec, KeepsPool, Pool!Spec

==============================================================================
