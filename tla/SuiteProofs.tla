----------------------------- MODULE SuiteProofs -----------------------------
(***************************************************************************)
(* From the scheduler to the exit code: networks outlive their users,      *)
(* every run gets a result, and what vmshed leaves behind and reports      *)
(* after the scheduler agrees with what happened.                          *)
(***************************************************************************)
EXTENDS Suite, ChoiceProofs

(* Networks exist as long as somebody may use them.                        *)

\* A network that is ready or busy is on the host until tearDown, and tearDown
\* comes when nothing is outstanding (or in a panic).
NetworksMade ==
  /\ pc \notin {"returned", "crashed"} =>
       \A i \in DOMAIN networks : networks[i].stage \in {"Ready", "Busy"} => i \in hostNets
  /\ pc \in {"stopped", "returned"} => outstanding = {}

MadeInv == StageInv /\ NetworksMade

LEMMA CountedOut ==
  ASSUME Counted, activeActions = 0
  PROVE  outstanding = {}
BY FS_EmptySet DEF Counted

\* A network whose stage becomes Ready or Busy was one of the two before.
LEMMA MadeBySetStage ==
  ASSUME MadeInv, NEW nets, NEW stage, networks' = SetStage(nets, stage),
         \A i \in nets : i \in DOMAIN networks => networks[i].stage \in {"Ready", "Busy"},
         hostNets' = hostNets, pc \notin {"returned", "crashed"}
  PROVE  \A i \in DOMAIN networks' : networks'[i].stage \in {"Ready", "Busy"} => i \in hostNets'
<1>1. TypeOK
  BY DEF MadeInv, StageInv, ResourceInv
<1>2. /\ DOMAIN networks' = DOMAIN networks
      /\ \A i \in DOMAIN networks : networks'[i].stage = IF i \in nets THEN stage ELSE networks[i].stage
  BY <1>1, SetStageStages
<1>. QED
  BY <1>2 DEF MadeInv, NetworksMade

\* A network that is appended is being added.
LEMMA MadeByAppend ==
  ASSUME MadeInv, NEW net, net.stage = "Add", networks' = Append(networks, net),
         hostNets' = hostNets, pc \notin {"returned", "crashed"}
  PROVE  \A i \in DOMAIN networks' : networks'[i].stage \in {"Ready", "Busy"} => i \in hostNets'
<1>1. networks \in Seq(NetworkState) /\ Len(networks) \in Nat
  BY DEF MadeInv, StageInv, ResourceInv, TypeOK
<1>2. /\ DOMAIN networks' = DOMAIN networks \cup {Len(networks) + 1}
      /\ \A i \in DOMAIN networks : networks'[i] = networks[i]
      /\ networks'[Len(networks) + 1] = net
  BY <1>1
<1>. QED
  BY <1>2 DEF MadeInv, NetworksMade

LEMMA NextMade ==
  ASSUME MadeInv, [Next]_vars
  PROVE  NetworksMade'
<1>1. StageInv /\ ResourceInv /\ TypeOK
  BY DEF MadeInv, StageInv, ResourceInv
<1>2. CASE StartTest \/ StartProvision
  <2>1. PICK a \in chooseNextAction : a.kind # "network" /\ networks' = SetStage(a.nets, "Busy")
    BY <1>2 DEF StartTest, StartProvision, Occupy
  <2>2. a.nets \subseteq ReadyNets
    BY <2>1, ChosenAction DEF Choice
  <2>3. hostNets' = hostNets /\ pc = "schedule" /\ pc' = "schedule"
    BY <1>2 DEF StartTest, StartProvision, loopVars
  <2>. QED
    BY <2>1, <2>2, <2>3, MadeBySetStage DEF ReadyNets, NetworksMade
<1>3. CASE FinishTest \/ FinishProvision
  <2>1. PICK a \in outstanding : networks' = SetStage(a.nets, "Ready")
    BY <1>3 DEF FinishTest, FinishProvision, Release
  <2>2. a.nets \subseteq Busy
    BY <1>1 DEF ResourceInv, ResourcesExclusive
  <2>3. hostNets' = hostNets /\ pc = "wait" /\ pc' = "schedule"
    BY <1>3 DEF FinishTest, FinishProvision, Receive, EndIteration
  <2>. QED
    BY <2>1, <2>2, <2>3, MadeBySetStage DEF Busy, NetworksMade
<1>4. CASE FinishAddNetwork
  <2>1. PICK a \in outstanding, failed \in BOOLEAN, made \in BOOLEAN :
          /\ addNetwork(failed, made)
          /\ networks' = SetStage({a.nr}, IF failed THEN "Error" ELSE "Ready")
          /\ hostNets' = IF made THEN hostNets \cup {a.nr} ELSE hostNets
    BY <1>4 DEF FinishAddNetwork
  <2>2. pc = "wait" /\ pc' = "schedule"
    BY <1>4 DEF FinishAddNetwork, Receive, EndIteration
  <2>3. /\ DOMAIN networks' = DOMAIN networks
        /\ \A i \in DOMAIN networks :
             networks'[i].stage = IF i = a.nr THEN IF failed THEN "Error" ELSE "Ready" ELSE networks[i].stage
    BY <1>1, <2>1, SetStageStages
  <2>4. \A i \in DOMAIN networks : networks[i].stage \in {"Ready", "Busy"} => i \in hostNets
    BY <2>2 DEF MadeInv, NetworksMade
  <2>5. ~failed => a.nr \in hostNets'
    BY <2>1 DEF addNetwork
  <2>. QED
    BY <2>1, <2>2, <2>3, <2>4, <2>5 DEF NetworksMade
<1>5. CASE StartAddNetwork
  <2>1. PICK a \in chooseNextAction :
          \E r \in ReserveFor(a.network) : networks' = Append(networks, NewNetwork(a, r.subnets))
    BY <1>5 DEF StartAddNetwork
  <2>2. hostNets' = hostNets /\ pc = "schedule" /\ pc' = "schedule"
    BY <1>5 DEF StartAddNetwork, loopVars
  <2>. QED
    BY <2>1, <2>2, MadeByAppend DEF NewNetwork, NetworksMade
<1>6. CASE PanicAddNetwork
  <2>1. PICK a : networks' = Append(networks, NewNetwork(a, {}))
    BY <1>6 DEF PanicAddNetwork
  <2>2. hostNets' = hostNets /\ pc = "schedule" /\ pc' = "panicking"
    BY <1>6 DEF PanicAddNetwork
  <2>. QED
    BY <2>1, <2>2, MadeByAppend DEF NewNetwork, NetworksMade
<1>7. CASE LeaveLoop
  <2>1. outstanding' = {} /\ UNCHANGED <<networks, hostNets>> /\ pc = "schedule" /\ pc' = "stopped"
    BY <1>1, <1>7, CountedOut DEF LeaveLoop, StageInv, netVars
  <2>. QED
    BY <2>1 DEF MadeInv, NetworksMade
<1>8. CASE TearDown
  BY <1>8 DEF TearDown, MadeInv, NetworksMade
<1>9. CASE StartPull \/ FinishPull \/ AwaitResult \/ SoftTimer \/ Interrupt
  <2>1. /\ UNCHANGED <<networks, hostNets>>
        /\ pc \in {"schedule", "wait"} /\ pc' \in {"schedule", "wait"}
    BY <1>9 DEF StartPull, FinishPull, AwaitResult, SoftTimer, Interrupt, Receive,
                EndIteration, netVars, loopVars
  <2>. QED
    BY <2>1 DEF MadeInv, NetworksMade
<1>10. CASE Terminated \/ UNCHANGED vars
  BY <1>10 DEF Terminated, vars, MadeInv, NetworksMade
<1>. QED
  BY <1>2, <1>3, <1>4, <1>5, <1>6, <1>7, <1>8, <1>9, <1>10 DEF Next, SchedulerStep, Environment

LEMMA MadeInvariance == Spec => []MadeInv
<1>1. Init => MadeInv
  BY InitStages DEF Init, MadeInv, NetworksMade
<1>2. MadeInv /\ [Next]_vars => MadeInv'
  BY NextStages, NextMade DEF MadeInv
<1>. QED
  BY <1>1, <1>2, PTL DEF Spec

LEMMA MadeMeansLive == MadeInv => NetworksLive
<1> SUFFICES ASSUME MadeInv, pc # "crashed", NEW a \in outstanding
             PROVE  a.nets \subseteq hostNets
  BY DEF NetworksLive
<1>1. a.nets \subseteq Busy
  BY DEF MadeInv, StageInv, ResourceInv, ResourcesExclusive
<1>2. pc # "returned"
  BY DEF MadeInv, NetworksMade
<1>. QED
  BY <1>1, <1>2 DEF MadeInv, NetworksMade, Busy

\* The networks of an action that is under way are on the host: tearDown never
\* removes one under it.
THEOREM LiveNetworks == Spec => []NetworksLive
BY MadeInvariance, MadeMeansLive, PTL

------------------------------------------------------------------------------
(* Every run has a result in the end, and the errors name the failed ones. *)

\* The errors name run t.
Named(t) == <<"test", t>> \in errors \/ <<"skipped", t>> \in errors

SKIPPED == [status |-> "SKIPPED", err |-> TRUE]

\* Results come with the stage Done, or when the loop is left.
ResultOf(t) ==
  IF runStage[t] = "Done"
  THEN /\ runResults[t].status \notin {"none", "SKIPPED"}
       /\ runResults[t].err \/ runResults[t].status = "SUCCESS"
  ELSE \/ runResults[t] = NoResult
       \/ runResults[t] = SKIPPED /\ pc \in {"stopped", "returned"}

ResultsFollow ==
  /\ \A t \in TestIDs : ResultOf(t) /\ (runResults[t].err <=> Named(t))
  /\ pc \in {"stopped", "returned"} /\ ~softExpired => \A t \in TestIDs : runResults[t] # NoResult

ResultInv == MadeInv /\ ResultsFollow

LEMMA InitResults == Init => ResultsFollow
BY DEF Init, ResultsFollow, ResultOf, Named, NoResult

\* What a test may deliver: an error, or SUCCESS without one.
LEMMA DeliveredResults ==
  ASSUME NEW res \in TestResults
  PROVE  /\ res.err \in BOOLEAN
         /\ res.status \notin {"none", "SKIPPED"}
         /\ res.err \/ res.status = "SUCCESS"
<1>1. \A f \in FailedResults : f \in Result /\ f.err /\ f.status # "SKIPPED"
  BY ConfigAssumption
<1>2. CASE res = [status |-> "SUCCESS", err |-> FALSE]
  BY <1>2
<1>3. CASE res \in FailedResults
  BY <1>1, <1>3 DEF Result, TestStatus
<1>4. CASE res \in {[status |-> s, err |-> TRUE] : s \in {"CANCELED", "ERROR"}}
  <2>1. PICK s \in {"CANCELED", "ERROR"} : res = [status |-> s, err |-> TRUE]
    BY <1>4
  <2>2. res.status = s /\ res.err = TRUE
    BY <2>1
  <2>. QED
    BY <2>2
<1>. QED
  BY <1>2, <1>3, <1>4 DEF TestResults, Deliverable

LEMMA FinishTestResults ==
  ASSUME ResultInv, FinishTest
  PROVE  ResultsFollow'
<1>1. PICK a \in outstanding, res \in TestResults :
        /\ a.kind = "test"
        /\ Receive(a)
        /\ runStage' = [runStage EXCEPT ![TestRuns[a.nr].testID] = "Done"]
        /\ runResults' = [runResults EXCEPT ![TestRuns[a.nr].testID] = res]
        /\ FailIf(res.err, "test", TestRuns[a.nr].testID)
  BY DEF FinishTest
<1> DEFINE u == TestRuns[a.nr].testID
<1>2. StageInv /\ TypeOK
  BY DEF ResultInv, MadeInv, StageInv, ResourceInv
<1>3. /\ runStage \in [TestIDs -> {"New", "Exec", "Done"}]
      /\ runResults \in [TestIDs -> Result \cup {NoResult}]
  BY <1>2 DEF TypeOK
<1>4. pc = "wait" /\ pc' = "schedule"
  BY <1>1 DEF Receive, FinishTest, EndIteration
<1>5. runStage[u] = "Exec" /\ u \in TestIDs
  BY <1>1, <1>2, WorkInProgress, ActionFields, RunTypes
<1>6. ~Named(u)
  <2>1. runResults[u] = NoResult
    BY <1>4, <1>5 DEF ResultInv, ResultsFollow, ResultOf
  <2>2. ~runResults[u].err
    BY <2>1 DEF NoResult
  <2>. QED
    BY <1>5, <2>2 DEF ResultInv, ResultsFollow
<1>7. errors' = IF res.err THEN errors \cup {<<"test", u>>} ELSE errors
  BY <1>1 DEF FailIf
<1>8. ASSUME NEW t \in TestIDs
      PROVE  ResultOf(t)' /\ (runResults'[t].err <=> Named(t)')
  <2>1. CASE t = u
    <3>1. runStage'[t] = "Done" /\ runResults'[t] = res
      BY <1>1, <1>3, <2>1
    <3>2. Named(t)' <=> res.err
      BY <1>6, <1>7, <2>1, DeliveredResults DEF Named
    <3>. QED
      BY <3>1, <3>2, DeliveredResults DEF ResultOf
  <2>2. CASE t # u
    <3>1. runStage'[t] = runStage[t] /\ runResults'[t] = runResults[t]
      BY <1>1, <1>3, <2>2
    <3>2. Named(t)' <=> Named(t)
      BY <1>7, <2>2 DEF Named
    <3>3. ResultOf(t) /\ (runResults[t].err <=> Named(t))
      BY DEF ResultInv, ResultsFollow
    <3>. QED
      BY <1>4, <3>1, <3>2, <3>3 DEF ResultOf
  <2>. QED
    BY <2>1, <2>2
<1>. QED
  BY <1>4, <1>8 DEF ResultsFollow

LEMMA LeaveLoopResults ==
  ASSUME ResultInv, LeaveLoop
  PROVE  ResultsFollow'
<1>1. pc = "schedule" /\ pc' = "stopped" /\ runStage' = runStage /\ softExpired' = softExpired
  BY DEF LeaveLoop
<1>2. CASE softExpired
  <2>1. runResults' = runResults /\ errors' = errors
    BY <1>2 DEF LeaveLoop
  <2>. QED
    BY <1>1, <1>2, <2>1 DEF ResultInv, ResultsFollow, ResultOf, Named
<1>3. CASE ~softExpired
  <2>1. /\ runResults' = [t \in TestIDs |-> IF t \in Unfinished THEN SKIPPED ELSE runResults[t]]
        /\ errors' = errors \cup {<<"skipped", t>> : t \in Unfinished}
    BY <1>3 DEF LeaveLoop, SKIPPED
  <2>2. ASSUME NEW t \in TestIDs
        PROVE  /\ ResultOf(t)' /\ (runResults'[t].err <=> Named(t)')
               /\ runResults'[t] # NoResult
    <3>1. ResultOf(t) /\ (runResults[t].err <=> Named(t))
      BY DEF ResultInv, ResultsFollow
    <3>2. CASE t \in Unfinished
      <4>1. runResults'[t] = SKIPPED /\ <<"skipped", t>> \in errors'
        BY <2>1, <3>2
      <4>2. runStage'[t] # "Done"
        BY <1>1, <3>2 DEF Unfinished
      <4>. QED
        BY <1>1, <4>1, <4>2 DEF ResultOf, Named, SKIPPED, NoResult
    <3>3. CASE t \notin Unfinished
      <4>1. runResults'[t] = runResults[t] /\ (Named(t)' <=> Named(t))
        BY <2>1, <3>3 DEF Named
      <4>2. runStage[t] = "Done"
        BY <3>3 DEF Unfinished
      <4>. QED
        BY <1>1, <3>1, <4>1, <4>2 DEF ResultOf, NoResult
    <3>. QED
      BY <3>2, <3>3
  <2>. QED
    BY <2>2 DEF ResultsFollow
<1>. QED
  BY <1>2, <1>3

\* A step that leaves the results alone, names no run and moves no run to Done
\* or back.
LEMMA ResultsUntouched ==
  ASSUME ResultInv, runResults' = runResults, softExpired => softExpired',
         \A t \in TestIDs : /\ runStage'[t] = "Done" <=> runStage[t] = "Done"
                            /\ Named(t)' <=> Named(t),
         \/ pc \notin {"stopped", "returned"} /\ pc' \notin {"stopped", "returned"}
         \/ pc = pc'
         \/ pc = "stopped" /\ pc' = "returned"
  PROVE  ResultsFollow'
<1>1. ASSUME NEW t \in TestIDs
      PROVE  ResultOf(t)' /\ (runResults'[t].err <=> Named(t)')
  <2>1. ResultOf(t) /\ (runResults[t].err <=> Named(t))
    BY DEF ResultInv, ResultsFollow
  <2>. QED
    BY <2>1 DEF ResultOf
<1>2. pc' \in {"stopped", "returned"} => pc \in {"stopped", "returned"}
  OBVIOUS
<1>. QED
  BY <1>1, <1>2 DEF ResultInv, ResultsFollow

LEMMA NextResults ==
  ASSUME ResultInv, [Next]_vars
  PROVE  ResultsFollow'
<1>1. StageInv /\ TypeOK
  BY DEF ResultInv, MadeInv, StageInv, ResourceInv
<1>2. runStage \in [TestIDs -> {"New", "Exec", "Done"}]
  BY <1>1 DEF TypeOK
<1>3. CASE StartTest
  <2>1. PICK a \in chooseNextAction :
          a.kind = "test" /\ runStage' = [runStage EXCEPT ![TestRuns[a.nr].testID] = "Exec"]
    BY <1>3 DEF StartTest
  <2>2. StageOf(a.nr) = "New"
    BY <2>1, ChosenAction DEF Choice, StartableRuns
  <2>3. \A t \in TestIDs : runStage'[t] = "Done" <=> runStage[t] = "Done"
    BY <1>2, <2>1, <2>2 DEF StageOf
  <2>4. UNCHANGED <<runResults, errors, softExpired, pc>>
    BY <1>3 DEF StartTest, loopVars
  <2>. QED
    BY <2>3, <2>4, ResultsUntouched DEF Named
<1>4. CASE FinishPull \/ FinishProvision \/ FinishAddNetwork
  <2>1. PICK failed \in BOOLEAN, kind \in {"pull", "provision", "network"} :
          \E who : FailIf(failed, kind, who)
    BY <1>4 DEF FinishPull, FinishProvision, FinishAddNetwork
  <2>2. PICK who : FailIf(failed, kind, who)
    BY <2>1
  <2>3. \A t \in TestIDs : Named(t)' <=> Named(t)
    BY <2>2 DEF FailIf, Named
  <2>4. UNCHANGED <<runResults, runStage, softExpired>> /\ pc = "wait" /\ pc' = "schedule"
    BY <1>4 DEF FinishPull, FinishProvision, FinishAddNetwork, Receive, EndIteration, runVars
  <2>. QED
    BY <2>3, <2>4, ResultsUntouched
<1>5. CASE TearDown
  <2>1. \A e \in errors' : e \in errors \/ e[1] = "remove"
    <3>1. CASE KeepNetworks
      BY <1>5, <3>1 DEF TearDown
    <3>2. CASE ~KeepNetworks
      <4>1. \E stuck \in SUBSET DOMAIN networks : errors' = errors \cup {<<"remove", i>> : i \in stuck}
        BY <1>5, <3>2 DEF TearDown
      <4>. QED
        BY <4>1
    <3>. QED
      BY <3>1, <3>2
  <2>2. errors \subseteq errors'
    BY <1>5 DEF TearDown
  <2>3. \A t \in TestIDs : Named(t)' <=> Named(t)
    BY <2>1, <2>2 DEF Named
  <2>4. /\ UNCHANGED <<runResults, runStage, softExpired>>
        /\ \/ pc = "stopped" /\ pc' = "returned"
           \/ pc = "panicking" /\ pc' = "crashed"
    BY <1>5 DEF TearDown, runVars
  <2>. QED
    BY <2>3, <2>4, ResultsUntouched
<1>6. CASE StartPull \/ StartProvision \/ StartAddNetwork \/ PanicAddNetwork \/ AwaitResult \/ SoftTimer
           \/ Interrupt
  <2>1. /\ UNCHANGED <<runResults, runStage, errors>>
        /\ softExpired => softExpired'
        /\ pc \in {"schedule", "wait"} /\ pc' \in {"schedule", "wait", "panicking"}
    BY <1>6 DEF StartPull, StartProvision, StartAddNetwork, PanicAddNetwork, AwaitResult, SoftTimer,
                Interrupt, EndIteration, runVars, loopVars
  <2>. QED
    BY <2>1, ResultsUntouched DEF Named
<1>7. CASE Terminated \/ UNCHANGED vars
  <2>1. UNCHANGED <<runResults, runStage, errors, softExpired, pc>>
    BY <1>7 DEF Terminated, vars
  <2>. QED
    BY <2>1, ResultsUntouched DEF Named
<1>. QED
  BY <1>3, <1>4, <1>5, <1>6, <1>7, FinishTestResults, LeaveLoopResults
  DEF Next, SchedulerStep, Environment

LEMMA ResultInvariance == Spec => []ResultInv
<1>1. Init => ResultInv
  BY InitStages, InitResults DEF Init, MadeInv, NetworksMade, ResultInv
<1>2. ResultInv /\ [Next]_vars => ResultInv'
  BY NextStages, NextMade, NextResults DEF MadeInv, ResultInv
<1>. QED
  BY <1>1, <1>2, PTL DEF Spec

\* When nothing is outstanding no run is executing.
LEMMA NothingExecuting ==
  ASSUME MadeInv, pc \in {"stopped", "returned"}, NEW t \in TestIDs
  PROVE  runStage[t] # "Exec"
<1>1. Workers = {}
  BY DEF MadeInv, NetworksMade, Workers
<1>2. InProgress = {}
  BY <1>1 DEF MadeInv, StageInv, WorkMatches
<1>3. runStage[t] = "Exec" => <<"test", t>> \in InProgress
  BY DEF InProgress
<1>. QED
  BY <1>2, <1>3

LEMMA FollowMeansComplete == ResultInv => ResultsComplete
<1> SUFFICES ASSUME ResultInv, pc \in {"stopped", "returned"}, NEW t \in TestIDs
             PROVE  /\ runResults[t] = NoResult => softExpired
                    /\ runStage[t] = "New" <=> runResults[t].status \in {"none", "SKIPPED"}
                    /\ runResults[t].err <=> \E e \in errors : e \in {<<"test", t>>, <<"skipped", t>>}
  BY DEF ResultsComplete
<1>1. ResultOf(t) /\ (runResults[t].err <=> Named(t))
  BY DEF ResultInv, ResultsFollow
<1>2. runResults[t] = NoResult => softExpired
  BY DEF ResultInv, ResultsFollow
<1>3. runStage[t] \in {"New", "Exec", "Done"} /\ runStage[t] # "Exec"
  BY NothingExecuting DEF ResultInv, MadeInv, StageInv, ResourceInv, TypeOK
<1>4. runStage[t] = "New" <=> runResults[t].status \in {"none", "SKIPPED"}
  BY <1>1, <1>3 DEF ResultOf, NoResult, SKIPPED
<1>. QED
  BY <1>1, <1>2, <1>4 DEF Named

\* When the loop has been left every run has a result, unless the soft timeout
\* kept it from starting, and the errors name exactly the runs that failed.
THEOREM CompleteResults == Spec => []ResultsComplete
BY ResultInvariance, FollowMeansComplete, PTL

------------------------------------------------------------------------------
(* The whole run: the scheduler's invariants hold in it.                   *)

\* A step of the whole run is a step of the scheduler or leaves it alone.
LEMMA SuiteStep ==
  ASSUME [SuiteNext]_allVars
  PROVE  [Next]_vars
<1>1. CASE RunScheduler
  BY <1>1 DEF RunScheduler, Next
<1>2. CASE ~RunScheduler
  BY <1>2 DEF SuiteNext, InitVirter, InitVirterFails, RemoveImages, SaveResults, SaveResultsFails,
              Report, Exited, allVars
<1>. QED
  BY <1>1, <1>2

LEMMA SuiteRunsScheduler == SuiteSpec => Spec
<1>1. SuiteInit => Init
  BY DEF SuiteInit
<1>2. [SuiteNext]_allVars => [Next]_vars
  BY SuiteStep
<1>. QED
  BY <1>1, <1>2, PTL DEF SuiteSpec, Spec

LEMMA SuiteResultInv == SuiteSpec => []ResultInv
BY SuiteRunsScheduler, ResultInvariance, PTL

\* Only the receipt of a result ends an action, and it ends no other.
LEMMA OneEnds ==
  ASSUME StageInv, [Next]_vars, NEW a \in Ending
  PROVE  /\ pc = "wait" /\ pc' = "schedule" /\ Ending = {a}
         /\ a.kind = "test" => FinishTest
         /\ a.kind = "provision" => FinishProvision
<1>1. PICK b \in outstanding :
        /\ Receive(b) /\ pc' = "schedule"
        /\ \/ b.kind = "test" /\ FinishTest
           \/ b.kind = "pull" /\ FinishPull
           \/ b.kind = "provision" /\ FinishProvision
           \/ b.kind = "network" /\ FinishAddNetwork
  <2>1. CASE StartTest \/ StartPull \/ StartProvision \/ StartAddNetwork
    BY <2>1 DEF StartTest, StartPull, StartProvision, StartAddNetwork, Launch, Ending
  <2>2. CASE OtherStep
    BY <2>2, OtherWork DEF Ending
  <2>3. CASE FinishTest
    BY <2>3 DEF FinishTest, EndIteration
  <2>4. CASE FinishPull
    BY <2>4 DEF FinishPull, EndIteration
  <2>5. CASE FinishProvision
    BY <2>5 DEF FinishProvision, EndIteration
  <2>6. CASE FinishAddNetwork
    BY <2>6 DEF FinishAddNetwork, EndIteration
  <2>. QED
    BY <2>1, <2>2, <2>3, <2>4, <2>5, <2>6 DEF Next, SchedulerStep, Environment, Terminated, OtherStep
<1>2. Ending = {b}
  BY <1>1 DEF Receive, Ending
<1>. QED
  BY <1>1, <1>2 DEF Receive

------------------------------------------------------------------------------
(* VMs that a failed test leaves in place.                                 *)

\* VMs are kept by keep-vms alone, and then there is an error: the scheduler
\* stops and keeps its networks.
KeptInv ==
  /\ KeptVMsConnected
  /\ kept # {} => errors # {} /\ OnFailure = "keep-vms"

\* A test that leaves its VMs has an error, and its networks are there.
LEMMA LeavingTest ==
  ASSUME ResultInv, [Next]_vars, NEW a \in Ending, Leaves(a)
  PROVE  errors' # {} /\ OnFailure = "keep-vms" /\ a.nets \subseteq hostNets'
<1>1. a.kind = "test" /\ FinishTest /\ pc = "wait" /\ Ending = {a}
  BY OneEnds DEF Leaves, ResultInv, MadeInv
<1>2. PICK b \in outstanding, res \in TestResults :
        /\ Receive(b)
        /\ runResults' = [runResults EXCEPT ![TestRuns[b.nr].testID] = res]
        /\ FailIf(res.err, "test", TestRuns[b.nr].testID)
        /\ hostNets' = hostNets
  BY <1>1 DEF FinishTest
<1>3. a = b
  BY <1>2 DEF Receive, Ending
<1>4. /\ runResults \in [TestIDs -> Result \cup {NoResult}]
      /\ TestRuns[a.nr].testID \in TestIDs
  BY <1>1, ActionFields, RunTypes DEF ResultInv, MadeInv, StageInv, ResourceInv, TypeOK, Ending
<1>5. res.status = "FAILED"
  BY <1>2, <1>3, <1>4 DEF Leaves
<1>6. res.err
  BY <1>5, DeliveredResults
<1>7. errors' # {}
  BY <1>2, <1>6 DEF FailIf
<1>8. a.nets \subseteq hostNets
  BY <1>1, MadeMeansLive DEF ResultInv, NetworksLive, Ending
<1>. QED
  BY <1>2, <1>7, <1>8 DEF Leaves

\* While VMs are kept nothing is launched.
LEMMA KeptStop ==
  ASSUME KeptInv, [Next]_vars, kept # {}
  PROVE  Beginning = {}
<1>1. runStopping
  BY DEF KeptInv, runStopping
<1>2. outstanding' \subseteq outstanding
  BY <1>1, LaunchedWasChosen DEF MayLaunch
<1>. QED
  BY <1>2 DEF Beginning

LEMMA NextKept ==
  ASSUME ResultInv, KeptInv, [SuiteNext]_allVars
  PROVE  KeptInv' /\ kept \subseteq kept'
<1>1. [Next]_vars
  BY SuiteStep
<1>2. CASE RunScheduler
  <2>1. kept' = {k \in kept : \A a \in Beginning : a.ids \cap k.ids = {}}
                  \cup {[ids |-> a.ids, nets |-> a.nets] : a \in {b \in Ending : Leaves(b)}}
    BY <1>2 DEF RunScheduler, KeptVMs
  <2>2. kept \subseteq kept'
    BY <1>1, <2>1, KeptStop
  <2>3. ASSUME NEW k \in kept'
        PROVE  k.nets \subseteq hostNets' /\ errors' # {} /\ OnFailure = "keep-vms"
    <3>1. CASE k \in kept
      <4>1. k.nets \subseteq hostNets /\ errors # {} /\ OnFailure = "keep-vms"
        BY <3>1 DEF KeptInv, KeptVMsConnected
      <4>. QED
        BY <1>1, <4>1, ErrorsStay DEF KeepNetworks
    <3>2. CASE k \notin kept
      <4>1. PICK a \in Ending : Leaves(a) /\ k = [ids |-> a.ids, nets |-> a.nets]
        BY <2>1, <3>2
      <4>. QED
        BY <1>1, <4>1, LeavingTest
    <3>. QED
      BY <3>1, <3>2
  <2>. QED
    BY <2>2, <2>3 DEF KeptInv, KeptVMsConnected
<1>3. CASE ~RunScheduler
  <2>1. kept' = kept /\ errors' = errors /\ hostNets' = hostNets
    BY <1>3 DEF SuiteNext, InitVirter, InitVirterFails, RemoveImages, SaveResults, SaveResultsFails,
                Report, Exited, allVars, suiteVars, vars
  <2>. QED
    BY <2>1 DEF KeptInv, KeptVMsConnected
<1>. QED
  BY <1>2, <1>3

LEMMA KeptInvariance == SuiteSpec => [](ResultInv /\ KeptInv)
<1>1. SuiteInit => KeptInv
  BY DEF SuiteInit, KeptInv, KeptVMsConnected
<1>2. ResultInv /\ KeptInv /\ [SuiteNext]_allVars => KeptInv'
  BY NextKept
<1>. QED
  BY <1>1, <1>2, SuiteResultInv, PTL DEF SuiteSpec

\* The VMs of failed tests stay connected: no network of theirs is removed.
THEOREM KeptConnected == SuiteSpec => []KeptVMsConnected
<1>1. KeptInv => KeptVMsConnected
  BY DEF KeptInv
<1>. QED
  BY <1>1, KeptInvariance, PTL

\* They survive: nothing is launched any more that could be given their IDs.
THEOREM KeptSurvive == SuiteSpec => KeptVMsSurvive
<1>1. ResultInv /\ KeptInv /\ [SuiteNext]_allVars => [kept \subseteq kept']_allVars
  BY NextKept
<1>. QED
  BY <1>1, KeptInvariance, PTL DEF SuiteSpec, KeptVMsSurvive

------------------------------------------------------------------------------
(* The exit code.                                                          *)

\* The scheduler has not taken a step.
NotBegun == pc = "schedule" /\ errors = {} /\ \A t \in TestIDs : runResults[t] = NoResult

\* Where the scheduler is in each phase, and what the exit code says.
PhaseInv ==
  /\ phase \in {"init", "run", "cleanup", "save", "report", "exited"}
  /\ phase = "init" => NotBegun
  /\ phase = "cleanup" => Ended
  /\ phase \in {"save", "report"} => pc = "returned" \/ NotBegun
  /\ phase = "exited" =>
       \/ pc = "crashed" /\ exitCode = 2
       \/ pc = "returned" /\ exitCode = exitCodeOfResults
       \/ NotBegun

LEMMA NextPhase ==
  ASSUME PhaseInv, [SuiteNext]_allVars
  PROVE  PhaseInv'
<1>1. CASE RunScheduler
  BY <1>1 DEF RunScheduler, PhaseInv, NotBegun, Ended
<1>2. CASE InitVirter \/ InitVirterFails
  BY <1>2 DEF InitVirter, InitVirterFails, PhaseInv, NotBegun, vars
<1>3. CASE RemoveImages
  BY <1>3 DEF RemoveImages, PhaseInv, NotBegun, Ended, vars
<1>4. CASE SaveResults \/ SaveResultsFails
  BY <1>4 DEF SaveResults, SaveResultsFails, PhaseInv, NotBegun, vars
<1>5. CASE Report
  <2>1. UNCHANGED <<pc, runResults, errors>> /\ phase = "report" /\ phase' = "exited" /\ exitCode' = exitCodeOfResults
    BY <1>5 DEF Report, vars
  <2>2. exitCodeOfResults' = exitCodeOfResults
    BY <2>1 DEF exitCodeOfResults, WithResult
  <2>. QED
    BY <2>1, <2>2 DEF PhaseInv, NotBegun
<1>6. CASE Exited \/ UNCHANGED allVars
  <2>1. UNCHANGED <<pc, runResults, errors, phase, exitCode>>
    BY <1>6 DEF Exited, allVars, vars, suiteVars
  <2>2. exitCodeOfResults' = exitCodeOfResults
    BY <2>1 DEF exitCodeOfResults, WithResult
  <2>. QED
    BY <2>1, <2>2 DEF PhaseInv, NotBegun, Ended
<1>. QED
  BY <1>1, <1>2, <1>3, <1>4, <1>5, <1>6 DEF SuiteNext

LEMMA PhaseInvariance == SuiteSpec => [](ResultInv /\ PhaseInv)
<1>1. SuiteInit => PhaseInv
  BY DEF SuiteInit, Init, PhaseInv, NotBegun
<1>2. PhaseInv /\ [SuiteNext]_allVars => PhaseInv'
  BY NextPhase
<1>. QED
  BY <1>1, <1>2, SuiteResultInv, PTL DEF SuiteSpec

LEMMA ZeroIsSuccess == ResultInv /\ PhaseInv => ZeroMeansSuccess
<1> SUFFICES ASSUME ResultInv, PhaseInv, phase = "exited", exitCode = 0, NEW t \in TestIDs
             PROVE  \/ runResults[t] = [status |-> "SUCCESS", err |-> FALSE]
                    \/ runResults[t] = NoResult /\ (softExpired \/ pc = "schedule")
  BY DEF ZeroMeansSuccess
<1>1. CASE pc = "schedule" /\ runResults[t] = NoResult
  BY <1>1
<1>2. CASE pc = "returned" /\ exitCode = exitCodeOfResults
  <2>1. runResults[t] = NoResult \/ ~runResults[t].err
    BY <1>2 DEF exitCodeOfResults, WithResult
  <2>2. ResultOf(t) /\ (runResults[t] = NoResult => softExpired)
    BY <1>2 DEF ResultInv, ResultsFollow
  <2>3. runResults[t] \in Result \cup {NoResult}
    BY DEF ResultInv, MadeInv, StageInv, ResourceInv, TypeOK
  <2>4. runResults[t] # NoResult => runResults[t] = [status |-> "SUCCESS", err |-> FALSE]
    <3> SUFFICES ASSUME runResults[t] # NoResult PROVE runResults[t] = [status |-> "SUCCESS", err |-> FALSE]
      OBVIOUS
    <3>1. ~runResults[t].err /\ runResults[t].err \in BOOLEAN /\ runResults[t] \in Result
      BY <2>1, <2>3 DEF Result
    <3>2. runResults[t].status = "SUCCESS"
      BY <2>2, <3>1 DEF ResultOf, SKIPPED
    <3>. QED
      BY <3>1, <3>2 DEF Result
  <2>. QED
    BY <2>2, <2>4
<1>. QED
  BY <1>1, <1>2 DEF PhaseInv, NotBegun

\* When vmshed says 0, every test has succeeded or the soft timeout kept it from
\* starting (or virter never started).
THEOREM ExitCodeZero == SuiteSpec => []ZeroMeansSuccess
BY PhaseInvariance, ZeroIsSuccess, PTL

\* Every VM is one of a run (removeUnusedVMs; see OnlyUsedVMsRemain of
\* TestRunPlan).
VMsUsed == \A v \in DOMAIN VMs : \E r \in DOMAIN TestRuns : \E k \in DOMAIN TestRuns[r].vms :
             TestRuns[r].vms[k] = VMs[v]

\* What has failed is not ready, what has been executed was ready.
FailedImages ==
  (\E e \in errors : e[1] \in {"pull", "provision"}) =>
    \E v \in DOMAIN VMs : \/ pullStage[VMs[v].base] = "Error"
                         \/ provisionStage[ID(VMs[v])] = "Error"

ExecutedOnImages == \A r \in DOMAIN TestRuns : StageOf(r) = "Done" => allImagesReady(TestRuns[r])

\* New errors are not those of an image.
Others == \A e \in errors' : e \in errors \/ e[1] \notin {"pull", "provision"}

LEMMA NextFailedImages ==
  ASSUME StageInv, FailedImages, [Next]_vars
  PROVE  FailedImages'
<1>1. TypeOK /\ ImagesSettle
  BY ImagesStay DEF StageInv, ResourceInv
<1>2. ASSUME NEW v \in DOMAIN VMs
      PROVE  /\ pullStage[VMs[v].base] = "Error" => pullStage'[VMs[v].base] = "Error"
             /\ provisionStage[ID(VMs[v])] = "Error" => provisionStage'[ID(VMs[v])] = "Error"
  BY <1>1, VMTypes DEF ImagesSettle
<1>3. CASE FinishPull
  <2>1. PICK a \in outstanding, failed \in BOOLEAN :
          /\ a.kind = "pull"
          /\ pullStage' = [pullStage EXCEPT ![VMs[a.nr].base] = IF failed THEN "Error" ELSE "Done"]
          /\ FailIf(failed, "pull", VMs[a.nr].base)
    BY <1>3 DEF FinishPull
  <2>2. a.nr \in DOMAIN VMs /\ VMs[a.nr].base \in BaseImages
    BY <1>1, <2>1, ActionFields, VMTypes
  <2>3. failed => pullStage'[VMs[a.nr].base] = "Error"
    BY <1>1, <2>1, <2>2 DEF TypeOK
  <2>4. \A e \in errors' : (e \in errors \/ failed)
    BY <2>1 DEF FailIf
  <2>. QED
    BY <1>2, <2>2, <2>3, <2>4 DEF FailedImages
<1>4. CASE FinishProvision
  <2>1. PICK a \in outstanding, failed \in BOOLEAN :
          /\ a.kind = "provision"
          /\ provisionStage' = [provisionStage EXCEPT ![ID(VMs[a.nr])] = IF failed THEN "Error" ELSE "Done"]
          /\ FailIf(failed, "provision", ID(VMs[a.nr]))
    BY <1>4 DEF FinishProvision
  <2>2. a.nr \in DOMAIN VMs /\ ID(VMs[a.nr]) \in VMIDs
    BY <1>1, <2>1, ActionFields, VMTypes
  <2>3. failed => provisionStage'[ID(VMs[a.nr])] = "Error"
    BY <1>1, <2>1, <2>2 DEF TypeOK
  <2>4. \A e \in errors' : (e \in errors \/ failed)
    BY <2>1 DEF FailIf
  <2>. QED
    BY <1>2, <2>2, <2>3, <2>4 DEF FailedImages
<1>5. CASE FinishTest \/ FinishAddNetwork \/ LeaveLoop \/ TearDown
  <2>1. FinishTest => Others
    BY DEF FinishTest, FailIf, Others
  <2>2. FinishAddNetwork => Others
    BY DEF FinishAddNetwork, FailIf, Others
  <2>3. LeaveLoop => Others
    BY DEF LeaveLoop, Others
  <2>4. TearDown => Others
    BY DEF TearDown, Others
  <2>. QED
    BY <1>2, <1>5, <2>1, <2>2, <2>3, <2>4 DEF FailedImages, Others
<1>6. CASE \/ StartTest \/ StartPull \/ StartProvision \/ StartAddNetwork \/ PanicAddNetwork
           \/ AwaitResult \/ SoftTimer \/ Interrupt \/ Terminated \/ UNCHANGED vars
  <2>1. errors' = errors
    BY <1>6 DEF StartTest, StartPull, StartProvision, StartAddNetwork, PanicAddNetwork, AwaitResult,
                SoftTimer, Interrupt, Terminated, vars, loopVars
  <2>. QED
    BY <1>2, <2>1 DEF FailedImages
<1>. QED
  BY <1>3, <1>4, <1>5, <1>6 DEF Next, SchedulerStep, Environment

LEMMA NextExecutedOnImages ==
  ASSUME DistinctIDs, StageInv, ExecutedOnImages, [Next]_vars
  PROVE  ExecutedOnImages'
<1> SUFFICES ASSUME NEW r \in DOMAIN TestRuns, StageOf(r)' = "Done", NEW k \in DOMAIN TestRuns[r].vms
             PROVE  ImageReady(TestRuns[r].vms[k])'
  BY DEF ExecutedOnImages, allImagesReady
<1>1. TypeOK /\ ImagesSettle
  BY ImagesStay DEF StageInv, ResourceInv
<1>2. StageOf(r) = "Done" \/ \E a \in outstanding : a.kind = "test" /\ a.nr = r
  <2>1. CASE FinishTest
    <3>1. PICK a \in outstanding :
            a.kind = "test" /\ runStage' = [runStage EXCEPT ![TestRuns[a.nr].testID] = "Done"]
      BY <2>1 DEF FinishTest
    <3>2. a.nr \in DOMAIN TestRuns
      BY <1>1, <3>1, ActionFields
    <3>3. a.nr # r => StageOf(r)' = StageOf(r)
      BY <1>1, <3>1, <3>2, RunTypes DEF TypeOK, StageOf, DistinctIDs
    <3>. QED
      BY <3>1, <3>3
  <2>2. CASE StartTest
    <3>1. PICK a : runStage' = [runStage EXCEPT ![TestRuns[a.nr].testID] = "Exec"]
      BY <2>2 DEF StartTest
    <3>2. StageOf(r)' # "Done" \/ StageOf(r)' = StageOf(r)
      BY <1>1, <3>1, RunTypes DEF TypeOK, StageOf
    <3>. QED
      BY <3>2
  <2>3. CASE \/ StartPull \/ StartProvision \/ StartAddNetwork \/ PanicAddNetwork \/ AwaitResult
             \/ LeaveLoop \/ FinishPull \/ FinishProvision \/ FinishAddNetwork \/ TearDown
             \/ SoftTimer \/ Interrupt \/ Terminated \/ UNCHANGED vars
    <3>1. runStage' = runStage
      BY <2>3 DEF StartPull, StartProvision, StartAddNetwork, PanicAddNetwork, AwaitResult, LeaveLoop,
                  FinishPull, FinishProvision, FinishAddNetwork, TearDown, SoftTimer, Interrupt,
                  Terminated, vars, runVars
    <3>. QED
      BY <3>1 DEF StageOf
  <2>. QED
    BY <2>1, <2>2, <2>3 DEF Next, SchedulerStep, Environment
<1>3. ImageReady(TestRuns[r].vms[k])
  BY <1>2 DEF ExecutedOnImages, allImagesReady, StageInv, TestsOnReadyImages, ImageReady
<1>4. PICK v \in DOMAIN VMs : VMs[v] = TestRuns[r].vms[k]
  BY ConfigAssumption
<1>. QED
  BY <1>1, <1>3, <1>4, VMTypes DEF ImagesSettle, ImageReady

LEMMA FailedImageFails ==
  ASSUME VMsUsed, ResultInv, PhaseInv, FailedImages, ExecutedOnImages
  PROVE  ImageFailureReported
<1> SUFFICES ASSUME phase = "exited", exitCode = 0, ~softExpired,
                    NEW e \in errors, e[1] \in {"pull", "provision"}
             PROVE  FALSE
  BY DEF ImageFailureReported
<1>1. pc = "returned"
  BY DEF PhaseInv, NotBegun
<1>2. PICK v \in DOMAIN VMs : pullStage[VMs[v].base] = "Error" \/ provisionStage[ID(VMs[v])] = "Error"
  BY DEF FailedImages
<1>3. PICK r \in DOMAIN TestRuns : \E k \in DOMAIN TestRuns[r].vms : TestRuns[r].vms[k] = VMs[v]
  BY <1>2 DEF VMsUsed
<1>4. TestRuns[r].testID \in TestIDs
  BY RunTypes
<1>5. runResults[TestRuns[r].testID] = [status |-> "SUCCESS", err |-> FALSE]
  BY <1>1, <1>4, ZeroIsSuccess DEF ZeroMeansSuccess
<1>6. StageOf(r) = "Done"
  BY <1>4, <1>5 DEF ResultInv, ResultsFollow, ResultOf, NoResult, SKIPPED, StageOf
<1>7. ImageReady(VMs[v])
  BY <1>3, <1>6 DEF ExecutedOnImages, allImagesReady
<1>. QED
  BY <1>2, <1>7 DEF ImageReady

\* A pull or a build that fails makes vmshed fail, unless the soft timeout has
\* expired in the meantime.
THEOREM FailedImagesReported ==
  ASSUME DistinctIDs, VMsUsed
  PROVE  SuiteSpec => []ImageFailureReported
<1> DEFINE Inv == FailedImages /\ ExecutedOnImages
<1>1. SuiteInit => Inv
  <2>1. Init => Inv
    BY RunTypes DEF Init, FailedImages, ExecutedOnImages, StageOf
  <2>. QED
    BY <2>1 DEF SuiteInit
<1>2. Inv /\ ResultInv /\ [SuiteNext]_allVars => Inv'
  BY SuiteStep, NextFailedImages, NextExecutedOnImages DEF ResultInv, MadeInv
<1>3. Inv /\ ResultInv /\ PhaseInv => ImageFailureReported
  BY FailedImageFails
<1>. QED
  BY <1>1, <1>2, <1>3, PhaseInvariance, PTL DEF SuiteSpec

------------------------------------------------------------------------------
(* The images.                                                             *)

\* Images of this suite only, none when there is nothing to provision, and none
\* after the clean-up.
ImageInv ==
  /\ images \subseteq VMIDs
  /\ ~Provisioning => images = {} /\ \A i \in VMIDs : provisionStage[i] = "Done"
  /\ phase \in {"save", "report", "exited"} /\ pc = "returned" /\ "image" \notin Faults => images = {}

LEMMA NextImages ==
  ASSUME ResultInv, PhaseInv, ImageInv, [SuiteNext]_allVars
  PROVE  ImageInv'
<1>1. StageInv /\ TypeOK /\ [Next]_vars
  BY SuiteStep DEF ResultInv, MadeInv, StageInv, ResourceInv
<1>2. ~Provisioning => \A i \in VMIDs : provisionStage'[i] = "Done"
  BY <1>1, ImagesStay DEF ImageInv, ImagesSettle
<1>3. CASE RunScheduler
  <2>1. ASSUME NEW a \in Ending, a.kind = "provision"
        PROVE  Provisioning /\ images' \subseteq VMIDs
    <3>1. a \in outstanding
      BY DEF Ending
    <3>2. ID(VMs[a.nr]) \in VMIDs
      BY <1>1, <2>1, <3>1, ActionFields, VMTypes
    <3>3. provisionStage[ID(VMs[a.nr])] = "Exec"
      BY <1>1, <2>1, <3>1, WorkInProgress
    <3>4. images' = images \cup {ID(VMs[a.nr])} \/ images' = images \ {ID(VMs[a.nr])}
      BY <1>3, <2>1 DEF RunScheduler, Images
    <3>. QED
      BY <3>2, <3>3, <3>4 DEF ImageInv
  <2>2. CASE \A a \in Ending : a.kind # "provision"
    <3>1. images' = images
      BY <1>3, <2>2 DEF RunScheduler, Images
    <3>. QED
      BY <1>2, <1>3, <3>1 DEF ImageInv, RunScheduler
  <2>. QED
    BY <1>2, <1>3, <2>1, <2>2 DEF ImageInv, RunScheduler
<1>4. CASE RemoveImages
  <2>1. PICK stuck \in SUBSET (IF "image" \in Faults THEN VMIDs ELSE {}) : images' = removeImages(stuck)
    BY <1>4 DEF RemoveImages
  <2>2. images' \subseteq images
    BY <2>1 DEF removeImages
  <2>3. "image" \notin Faults => images' = {}
    BY <2>1 DEF removeImages, ImageInv
  <2>. QED
    BY <1>2, <2>2, <2>3 DEF ImageInv
<1>5. CASE InitVirter \/ InitVirterFails
  <2>1. images' = images /\ pc' = "schedule"
    BY <1>5 DEF InitVirter, InitVirterFails, PhaseInv, NotBegun, vars
  <2>. QED
    BY <1>2, <2>1 DEF ImageInv
<1>6. CASE SaveResults \/ SaveResultsFails \/ Report \/ Exited \/ UNCHANGED allVars
  <2>1. /\ UNCHANGED <<images, pc>>
        /\ phase' \in {"save", "report", "exited"} => phase \in {"save", "report", "exited"}
    BY <1>6 DEF SaveResults, SaveResultsFails, Report, Exited, allVars, suiteVars, vars
  <2>. QED
    BY <1>2, <2>1 DEF ImageInv
<1>. QED
  BY <1>3, <1>4, <1>5, <1>6 DEF SuiteNext

\* No image of this suite is left when vmshed returns, if they can be removed.
THEOREM NoImages == SuiteSpec => []NoImageLeft
<1>1. SuiteInit => ImageInv
  BY DEF SuiteInit, Init, ImageInv
<1>2. ResultInv /\ PhaseInv /\ ImageInv /\ [SuiteNext]_allVars => ImageInv'
  BY NextImages
<1>3. ImageInv => NoImageLeft
  BY DEF ImageInv, NoImageLeft
<1>. QED
  BY <1>1, <1>2, <1>3, PhaseInvariance, PTL DEF SuiteSpec

==============================================================================
