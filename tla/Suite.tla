-------------------------------- MODULE Suite --------------------------------
(***************************************************************************)
(* A whole run of vmshed, from the first virter command to the exit code:  *)
(* provisionAndExec, saveResultsJSON and printSummaryTable around the      *)
(* scheduler.  What the scheduler does not look at, but its actions do to  *)
(* the host, is added here: the images they build, the VMs they leave.     *)
(***************************************************************************)
EXTENDS Scheduler

VARIABLES
  phase,      \* "init", "run", "cleanup", "save", "report", "exited"
  images,     \* the VM IDs whose provisioned image is on the host
  kept,       \* the VMs left in place by failed tests: [ids, nets] by test
  recorded,   \* the test IDs in results.json
  exitCode

suiteVars == <<phase, images, kept, recorded, exitCode>>
allVars   == <<vars, suiteVars>>

\* An earlier vmshed may have left its images behind.
SuiteInit ==
  /\ Init
  /\ phase = "init"
  /\ images \in IF Provisioning THEN {{}, VMIDs} ELSE {{}}
  /\ kept = {}
  /\ recorded = {}
  /\ exitCode = 0

\* "virter image ls": alone, because the first virter makes a key pair.
InitVirter ==
  /\ phase = "init"
  /\ phase' = "run"
  /\ UNCHANGED <<vars, images, kept, recorded, exitCode>>

\* No scheduler, no images to remove: an empty map of results.
InitVirterFails ==
  /\ phase = "init" /\ "init" \in Faults
  /\ phase' = "save"
  /\ UNCHANGED <<vars, images, kept, recorded, exitCode>>

------------------------------------------------------------------------------
(* What the actions of the scheduler do to the host.                       *)

Beginning == outstanding' \ outstanding
Ending    == outstanding \ outstanding'

\* A provision action removes the image and builds it again; a build that fails
\* may leave an image behind.
Images ==
  /\ \A a \in Ending : a.kind = "provision" =>
       LET i == ID(VMs[a.nr]) IN
       images' \in IF provisionStage'[i] = "Done" THEN {images \cup {i}}
                   ELSE {images \cup {i}, images \ {i}}
  /\ (\A a \in Ending : a.kind # "provision") => UNCHANGED images

\* shutdownVMs leaves the VMs of a FAILED test; whoever is given their IDs next
\* removes them.
Leaves(a) ==
  a.kind = "test" /\ OnFailure = "keep-vms" /\ runResults'[TestRuns[a.nr].testID].status = "FAILED"

KeptVMs ==
  kept' = {k \in kept : \A a \in Beginning : a.ids \cap k.ids = {}}
            \cup {[ids |-> a.ids, nets |-> a.nets] : a \in {b \in Ending : Leaves(b)}}

RunScheduler ==
  /\ phase = "run"
  /\ SchedulerStep \/ Environment
  /\ Images /\ KeptVMs
  /\ phase' = IF Ended' THEN "cleanup" ELSE "run"
  /\ UNCHANGED <<recorded, exitCode>>

------------------------------------------------------------------------------
(* After the scheduler.                                                    *)

removeImagesOfFinishedStages(stuck) ==
  IF Provisioning
  THEN {i \in images : i \in VMIDs => i \in stuck \/ provisionStage[i] # "Done"}
  ELSE images

removeImages(stuck) == IF Provisioning THEN {i \in images : i \in VMIDs => i \in stuck} ELSE images

\* Deferred, so a panic does it too before the process dies.
RemoveImages ==
  /\ phase = "cleanup"
  /\ \E stuck \in SUBSET (IF "image" \in Faults THEN VMIDs ELSE {}) :
       images' = removeImages(stuck)
  /\ IF pc = "crashed" THEN phase' = "exited" /\ exitCode' = 2
     ELSE phase' = "save" /\ UNCHANGED exitCode
  /\ UNCHANGED <<vars, kept, recorded>>

WithResult == {t \in TestIDs : runResults[t] # NoResult}

Recordable == {t \in WithResult : runResults[t].status \notin {"CANCELED", "SKIPPED"}}

SaveResults ==
  /\ phase = "save"
  /\ recorded' = Recordable
  /\ phase' = "report"
  /\ UNCHANGED <<vars, images, kept, exitCode>>

\* Only a warning; the file holds the runs encoded so far.
SaveResultsFails ==
  /\ phase = "save" /\ "save" \in Faults
  /\ \E n \in 0 .. Len(TestRuns) :
       recorded' = Recordable \cap {TestRuns[r].testID : r \in 1 .. n}
  /\ phase' = "report"
  /\ UNCHANGED <<vars, images, kept, exitCode>>

exitCodeByStatus ==
  IF \E t \in WithResult : runResults[t].status \notin {"SUCCESS", "unset"} THEN 1 ELSE 0

\* printSummaryTable returns 1 if a result has an error.
exitCodeOfResults == IF \E t \in WithResult : runResults[t].err THEN 1 ELSE 0

Report ==
  /\ phase = "report"
  /\ exitCode' = exitCodeOfResults
  /\ phase' = "exited"
  /\ UNCHANGED <<vars, images, kept, recorded>>

Exited == phase = "exited" /\ UNCHANGED allVars

SuiteNext ==
  \/ InitVirter \/ InitVirterFails \/ RunScheduler \/ RemoveImages
  \/ SaveResults \/ SaveResultsFails \/ Report \/ Exited

SuiteSpec == SuiteInit /\ [][SuiteNext]_allVars

\* vmshed goes on until it exits: the commands it runs end.  The timer and the
\* signal come once at most and are not forced to come.
SuiteFairSpec == SuiteSpec /\ WF_allVars(SuiteNext)

------------------------------------------------------------------------------
(* Properties.                                                             *)

\* The VMs of a failed test that --on-failure keep-vms leaves in place stay: no
\* later action is given one of their IDs.
KeptVMsSurvive == [][kept \subseteq kept']_allVars

\* They stay connected: no network of theirs is removed.
KeptVMsConnected == \A k \in kept : k.nets \subseteq hostNets

\* When vmshed says 0, no test it started has failed in any way, and what it
\* did not start was skipped by the soft timeout (or virter never started).
ZeroMeansSuccess ==
  phase = "exited" /\ exitCode = 0 =>
    \A t \in TestIDs : \/ runResults[t] = [status |-> "SUCCESS", err |-> FALSE]
                       \/ runResults[t] = NoResult /\ (softExpired \/ pc = "schedule")

\* A pull or a build that fails makes vmshed fail, whatever succeeds besides, as
\* some run needs the image, unless the soft timeout has expired in the meantime.
\* (A network that cannot be added may turn out not to be needed.)
ImageFailureReported ==
  phase = "exited" /\ exitCode = 0 /\ ~softExpired =>
    \A e \in errors : e[1] \notin {"pull", "provision"}

\* A set-up failure before the soft timeout that keeps a run from starting makes
\* vmshed fail, whatever the timer does while the other actions are being
\* cancelled ("vmshed should fail due to skipped test", TestNetworkAddFail).
EarlyFailureReported ==
  (SetUpFailed /\ ~softExpired /\ \E t \in TestIDs : runStage[t] = "New")
    ~> (phase = "exited" /\ exitCode # 0)

\* No image of this suite is left when vmshed returns, neither one whose build
\* failed or was cancelled nor one of an earlier run, if they can be removed.
NoImageLeft ==
  phase = "exited" /\ pc = "returned" /\ "image" \notin Faults => images = {}

==============================================================================
