------------------------------- MODULE TestExec -------------------------------
(***************************************************************************)
(* One test run as its goroutine carries it out: performTest and execTest  *)
(* (cmd/test.go) with startVMs, runVM and shutdownVMs (cmd/vm.go).         *)
(*                                                                         *)
(* The VMs start side by side, each in a goroutine of its own.  A virter   *)
(* command is one step here, with the outcomes CommandPromise allows it:   *)
(* it fails by itself where Faults says so, and may fail once its context  *)
(* is done.                                                                *)
(***************************************************************************)
EXTENDS TestResult, Naturals

CONSTANTS
  NrNodes,      \* the number of VMs of the run
  OnFailure,    \* --on-failure
  Faults        \* the commands and writes that may fail by themselves

FaultKinds == {"mkdir", "clean", "boot", "script", "remove", "write"}

ASSUME TestExecAssumption ==
  /\ NrNodes \in Nat
  /\ OnFailure \in {"continue", "terminate", "keep-vms"}
  /\ Faults \subseteq FaultKinds

VARIABLES
  pc,         \* where the goroutine of the test is
  goroutine,  \* of each node: where runVM is
  vm,         \* of each node: the VM of that name on the host
  ctxDone,    \* the context of the scheduler is done
  expired,    \* the timer of testCtx has fired
  script,     \* how "virter vm exec" ended: "own" is a failure of its own
  pipe,       \* its process has ended, but a child still holds its stderr
  timeout,    \* execTest: timeout
  status,     \* testResult.status
  err,        \* is testResult.err set?
  xml,        \* what the XML file says: "none", "pass", "failure" or "broken"
  next        \* the node whose VM is removed next

vars == <<pc, goroutine, vm, ctxDone, expired, script, pipe, timeout, status, err, xml, next>>
timers  == <<ctxDone, expired>>
verdict == <<script, pipe, timeout, status, err, xml>>

Nodes == 1 .. NrNodes

\* A run may find a VM that an earlier vmshed left behind.
Init ==
  /\ pc = "prepare"
  /\ goroutine = [n \in Nodes |-> "none"]
  /\ vm \in [Nodes -> {"absent", "stale"}]
  /\ ctxDone = FALSE
  /\ expired = FALSE
  /\ script = "none"
  /\ pipe = FALSE
  /\ timeout = FALSE
  /\ status = "unset"
  /\ err = FALSE
  /\ xml = "none"
  /\ next = 1

------------------------------------------------------------------------------
(* performTest up to startVMs.                                             *)

Prepare ==
  /\ pc = "prepare"
  /\ pc' = "start"
  /\ goroutine' = [n \in Nodes |-> "cleaning"]
  /\ UNCHANGED <<vm, timers, verdict, next>>

\* Without its output directory the test is not executed at all.
PrepareFails ==
  /\ pc = "prepare" /\ "mkdir" \in Faults
  /\ pc' = "delivered"
  /\ err' = TRUE
  /\ UNCHANGED <<goroutine, vm, timers, script, pipe, timeout, status, xml, next>>

MayFail(fault) == fault \in Faults \/ ctxDone

RunVM(n, from, to, result) ==
  /\ goroutine[n] = from
  /\ goroutine' = [goroutine EXCEPT ![n] = to]
  /\ vm' = [vm EXCEPT ![n] = result]
  /\ UNCHANGED <<pc, timers, verdict, next>>

\* "virter vm rm", in case there is a VM of that name.
Clean(n) == RunVM(n, "cleaning", "booting", "absent")

CleanFails(n) ==
  /\ MayFail("clean")
  /\ \E result \in {vm[n], "absent"} : RunVM(n, "cleaning", "failed", result)

\* "virter vm run --wait-ssh"
Boot(n) == vm[n] = "absent" /\ RunVM(n, "booting", "up", "fresh")

\* It may fail before or after it has made the VM.
BootFails(n) ==
  /\ MayFail("boot")
  /\ \E result \in {vm[n], "partial"} : RunVM(n, "booting", "failed", result)

StartedFirst == \E n \in Nodes : goroutine[n] \in {"up", "failed"}

Started == \A n \in Nodes : goroutine[n] \in {"up", "failed"}
Failed  == \E n \in Nodes : goroutine[n] = "failed"

\* The removal of the VMs has been deferred already.
StartFails ==
  /\ pc = "start" /\ Started /\ Failed
  /\ pc' = "shutdown"
  /\ status' = "ERROR" /\ err' = TRUE
  /\ UNCHANGED <<goroutine, vm, timers, script, pipe, timeout, xml, next>>

StartDone ==
  /\ pc = "start" /\ Started /\ ~Failed
  /\ pc' = "script"
  /\ UNCHANGED <<goroutine, vm, timers, verdict, next>>

------------------------------------------------------------------------------
(* The rest of execTest.                                                   *)

testCtxDoneByParent == ctxDone

testCtxDone == ctxDone \/ expired

\* The test timer runs until execTest returns.
TestTimer ==
  /\ pc \in {"script", "stderr", "ended", "copy", "judge"} /\ ~expired
  /\ expired' = TRUE
  /\ UNCHANGED <<pc, goroutine, vm, ctxDone, verdict, next>>

\* "virter vm exec" runs the script of the suite: when its process has ended, a
\* child of the script may still hold its stderr.
ScriptExits ==
  /\ pc = "script"
  /\ script' \in {"nil"} \cup (IF "script" \in Faults THEN {"own"} ELSE {})
                         \cup (IF testCtxDone THEN {"stopped"} ELSE {})
  /\ pipe' \in BOOLEAN
  /\ pc' = "stderr"
  /\ UNCHANGED <<goroutine, vm, timers, timeout, status, err, xml, next>>

PipeCloses ==
  /\ pc = "stderr" /\ pipe
  /\ pipe' = FALSE
  /\ UNCHANGED <<pc, goroutine, vm, timers, script, timeout, status, err, xml, next>>

\* cmdRunTerm returns when all of stderr has been read.
RunTest ==
  /\ pc = "stderr" /\ ~pipe
  /\ err' = (script # "nil")
  /\ pc' = "ended"
  /\ UNCHANGED <<goroutine, vm, timers, script, pipe, timeout, status, xml, next>>

\* timeout := testCtx.Err() != nil, some time after the command has ended
CheckTimeout ==
  /\ pc = "ended"
  /\ timeout' = testCtxDone
  /\ pc' = "copy"
  /\ UNCHANGED <<goroutine, vm, timers, script, pipe, status, err, xml, next>>

\* The artifacts are copied in contexts of their own, and failures ignored.
CopyArtifacts ==
  /\ pc = "copy"
  /\ pc' = "judge"
  /\ UNCHANGED <<goroutine, vm, timers, verdict, next>>

VerdictTimeoutFirst ==
  IF timeout THEN "FAILED(TO)"
  ELSE IF ctxDone THEN "CANCELED"
  ELSE IF err THEN "FAILED" ELSE "SUCCESS"

Verdict ==
  IF ctxDone THEN "CANCELED"
  ELSE IF timeout THEN "FAILED(TO)"
  ELSE IF err THEN "FAILED" ELSE "SUCCESS"

ErrOfScript == err

ErrOfVerdict == ctxDone \/ timeout \/ err

Judge ==
  /\ pc = "judge"
  /\ status' = Verdict
  /\ err' = ErrOfVerdict
  /\ pc' = "shutdown"
  /\ UNCHANGED <<goroutine, vm, timers, script, pipe, timeout, xml, next>>

------------------------------------------------------------------------------
(* shutdownVMs, deferred by execTest, and the rest of performTest.         *)

LeaveVMsOfErrors == status \in {"FAILED", "ERROR"} /\ OnFailure = "keep-vms"

LeaveVMs == status = "FAILED" /\ OnFailure = "keep-vms"

Remove(result) ==
  /\ pc = "shutdown" /\ ~LeaveVMs
  /\ next \in Nodes
  /\ vm' = [vm EXCEPT ![next] = result]
  /\ next' = next + 1
  /\ UNCHANGED <<pc, goroutine, timers, verdict>>

RemoveVM == Remove("absent")

\* The context of the removal is its own: it fails by itself or by timeout.
\* The VM stays, if there is one; the error is only logged.
RemoveVMFails == "remove" \in Faults /\ Remove("stuck")

ShutdownDone ==
  /\ pc = "shutdown"
  /\ LeaveVMs \/ next \notin Nodes
  /\ pc' = "report"
  /\ UNCHANGED <<goroutine, vm, timers, verdict, next>>

\* Three files are written, one after the other.  An error takes the place of
\* the test's, but not of its status.
Write(from, to) ==
  /\ pc = from
  /\ pc' = to
  /\ err' \in {err} \cup (IF "write" \in Faults THEN {TRUE} ELSE {})
  /\ UNCHANGED <<goroutine, vm, timers, script, pipe, timeout, status, next>>

WriteTestLog == Write("report", "xml") /\ UNCHANGED xml

XMLByStatus == IF status = "FAILED" THEN "failure" ELSE "pass"

\* nrFailed
XMLByError == IF err THEN "failure" ELSE "pass"

\* XMLLog reports that it cannot make the file, not that it cannot fill it.
WriteXML ==
  /\ Write("xml", "reportlog")
  /\ \/ err' = err /\ xml' = XMLByError
     \/ err' = err /\ "write" \in Faults /\ xml' = "broken"
     \/ err' /\ "write" \in Faults /\ xml' = "none"

WriteReport == Write("reportlog", "delivered") /\ UNCHANGED xml

Report == WriteTestLog \/ WriteXML \/ WriteReport

\* A signal, or a failure elsewhere in the suite.
Cancel ==
  /\ ~ctxDone /\ pc # "delivered"
  /\ ctxDone' = TRUE
  /\ UNCHANGED <<pc, goroutine, vm, expired, verdict, next>>

Delivered == pc = "delivered" /\ UNCHANGED vars

CleanEnds(n) == Clean(n) \/ CleanFails(n)
BootEnds(n)  == Boot(n) \/ BootFails(n)

Next ==
  \/ Prepare \/ PrepareFails
  \/ \E n \in Nodes : CleanEnds(n) \/ BootEnds(n)
  \/ StartFails \/ StartDone
  \/ TestTimer \/ ScriptExits \/ PipeCloses \/ RunTest \/ CheckTimeout \/ CopyArtifacts \/ Judge
  \/ RemoveVM \/ RemoveVMFails \/ ShutdownDone \/ Report
  \/ Cancel \/ Delivered

Spec == Init /\ [][Next]_vars

\* The steps of the goroutine, and of the commands that have a timeout of their
\* own, happen.  The processes of the others end once their context is done, by
\* SIGKILL if need be.  Nothing is assumed of the children of the script.
FairSpec ==
  /\ Spec
  /\ WF_vars(StartFails \/ StartDone \/ RunTest \/ CheckTimeout \/ CopyArtifacts \/ Judge)
  /\ WF_vars(Prepare \/ RemoveVM \/ RemoveVMFails \/ ShutdownDone \/ Report)
  /\ WF_vars(TestTimer)
  /\ WF_vars(testCtxDone /\ ScriptExits)
  /\ \A n \in Nodes : WF_vars(ctxDone /\ (CleanEnds(n) \/ BootEnds(n)))

\* saveResultsJSON leaves out what was skipped or cancelled.
Recorded == status \notin {"CANCELED", "SKIPPED"}

------------------------------------------------------------------------------
(* Properties.                                                             *)

\* Every variable has its type.
TypeOK ==
  /\ pc \in {"prepare", "start", "script", "stderr", "ended", "copy", "judge",
             "shutdown", "report", "xml", "reportlog", "delivered"}
  /\ goroutine \in [Nodes -> {"none", "cleaning", "booting", "up", "failed"}]
  /\ vm \in [Nodes -> {"absent", "stale", "partial", "fresh", "stuck"}]
  /\ ctxDone \in BOOLEAN
  /\ expired \in BOOLEAN
  /\ script \in {"none", "nil", "own", "stopped"}
  /\ pipe \in BOOLEAN
  /\ timeout \in BOOLEAN
  /\ status \in {"unset", "SUCCESS", "CANCELED", "FAILED(TO)", "FAILED", "ERROR"}
  /\ err \in BOOLEAN
  /\ xml \in {"none", "pass", "failure", "broken"}
  /\ next \in 1 .. (NrNodes + 1)

\* The test script sees only VMs that were started for this run, all of them
\* and up, until it has ended and the artifacts are copied.
ScriptOnFreshVMs ==
  pc \in {"script", "stderr", "ended", "copy", "judge"} => \A n \in Nodes : vm[n] = "fresh"

\* The status names the cause.  A script that fails because the run is
\* cancelled or its time is up is never FAILED, and a cancelled run is never
\* blamed on the timeout; only a script that ended well is a SUCCESS.
VerdictNamesCause ==
  pc = "delivered" =>
    /\ status = "SUCCESS"    => script = "nil"
    /\ status = "FAILED"     => script = "own"
    /\ status = "FAILED(TO)" => expired
    /\ status = "CANCELED"   => ctxDone
    /\ status = "ERROR"      => script = "none"

\* The summary and the exit code go by the error, results.json by the status,
\* CI systems by the XML file.  Whatever is not a success has an error and is no
\* pass in the XML, and what the XML calls a failure is one for the exit code.
ReportsAgree ==
  pc = "delivered" =>
    /\ status # "SUCCESS" => err /\ xml # "pass"
    /\ xml = "failure" => err

\* When a test that was executed delivers its result, each of its VMs has been
\* removed (or that was tried), unless it FAILED under keep-vms: then all are
\* left as the script left them.
VMsRemovedOrLeft ==
  pc = "delivered" /\ status # "unset" =>
    \A n \in Nodes :
      vm[n] \in IF status = "FAILED" /\ OnFailure = "keep-vms" THEN {"fresh"} ELSE {"absent", "stuck"}

\* A run that could not be started only because the suite was cancelled is left
\* out of results.json ("exclude canceled runs", saveResultsJSON).
CanceledRunsExcluded ==
  pc = "delivered" /\ Failed /\ Faults = {} => ~Recorded

\* A test ends once it is cancelled, and once its VMs are up in any case, unless a
\* child of its script holds stderr for ever: nothing bounds that wait.  (Nor the
\* start of the VMs, but a cancellation does.)
TestEnds ==
  \/ <>[]pipe
  \/ (ctxDone \/ pc \notin {"prepare", "start"}) ~> (pc = "delivered")

\* The results a test may have by itself.
OwnStatus ==
  {"FAILED(TO)"} \cup (IF "mkdir" \in Faults THEN {"unset"} ELSE {})
                 \cup (IF "script" \in Faults THEN {"FAILED"} ELSE {})
                 \cup (IF Faults \cap {"clean", "boot"} # {} THEN {"ERROR"} ELSE {})
                 \cup (IF "write" \in Faults THEN {"SUCCESS"} ELSE {})

Promise == INSTANCE TestPromise WITH
  FailedResults <- [status : OwnStatus, err : {TRUE}],
  done          <- ctxDone,
  blocked       <- pipe,
  delivered     <- IF pc = "delivered" THEN [status |-> status, err |-> err] ELSE NoResult

\* A test delivers one result, and only one that the scheduler is prepared for:
\* a failure has an error and a reason, and a cancelled test answers, unless a
\* child of its script keeps it from that.
KeepsTestPromise == Promise!Spec

==============================================================================
