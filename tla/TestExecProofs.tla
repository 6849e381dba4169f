--------------------------- MODULE TestExecProofs -----------------------------
(***************************************************************************)
(* Theorems about one test run, for every number of VMs, policy and choice *)
(* of faults.                                                              *)
(***************************************************************************)
EXTENDS TestExec, TLAPS

Scripting == pc \in {"script", "stderr", "ended", "copy", "judge"}

Judged == pc \in {"shutdown", "report", "xml", "reportlog"}

\* VMs are cleaned and booted only while startVMs waits; what is up is fresh and
\* stays so until shutdownVMs.
FreshUntilShutdown ==
  \A n \in Nodes :
    /\ goroutine[n] \in {"cleaning", "booting"} => pc = "start"
    /\ pc = "start" /\ goroutine[n] = "up" => vm[n] = "fresh"
    /\ Scripting => vm[n] = "fresh"

\* What is known of script, timeout and err before the verdict.
Evidence ==
  /\ pc \in {"prepare", "start", "script"} => script = "none"
  /\ pc \in {"prepare", "start", "script", "stderr"} => ~err /\ ~timeout
  /\ pipe => pc = "stderr"
  /\ pc \in {"prepare", "start"} \/ Scripting => status = "unset"
  /\ pc \in {"stderr", "ended", "copy", "judge"} => script # "none"
  /\ pc \in {"ended", "copy", "judge"} => (err <=> script # "nil")
  /\ script = "own" => "script" \in Faults
  /\ script = "stopped" => ctxDone \/ expired
  /\ pc \in {"copy", "judge"} /\ script = "stopped" => timeout \/ ctxDone
  /\ timeout => ctxDone \/ expired
  /\ Failed => ctxDone \/ Faults \cap {"clean", "boot"} # {}

\* The status has its cause, and whatever is not a success has an error.
Justified ==
  Judged \/ pc = "delivered" =>
    /\ status = "unset"           => pc = "delivered" /\ "mkdir" \in Faults
    /\ status = "SUCCESS"    => script = "nil" /\ (err => "write" \in Faults)
    /\ status = "FAILED"     => script = "own"
    /\ status = "FAILED(TO)" => expired
    /\ status = "CANCELED"   => ctxDone
    /\ status = "ERROR"      => script = "none" /\ (ctxDone \/ Faults \cap {"clean", "boot"} # {})
    /\ status # "SUCCESS"    => err

\* The XML file is written after the verdict.
XMLFollows ==
  /\ xml # "none" => pc \in {"reportlog", "delivered"}
  /\ xml = "pass" => status = "SUCCESS"
  /\ xml = "failure" => err

Kept == status = "FAILED" /\ OnFailure = "keep-vms"

\* How far shutdownVMs has come.
Removal ==
  /\ pc \in {"prepare", "start"} \/ Scripting => next = 1
  /\ pc = "shutdown" =>
       \A n \in Nodes : IF Kept THEN vm[n] = "fresh"
                        ELSE n < next => vm[n] \in {"absent", "stuck"}
  /\ pc \in {"report", "xml", "reportlog", "delivered"} /\ status # "unset" =>
       \A n \in Nodes : vm[n] \in IF Kept THEN {"fresh"} ELSE {"absent", "stuck"}

\* The inductive invariant.
TestInv ==
  /\ TypeOK
  /\ FreshUntilShutdown
  /\ Evidence
  /\ Justified
  /\ XMLFollows
  /\ Removal

LEMMA InitTest == Init => TestInv
<1> SUFFICES ASSUME Init PROVE TestInv
  OBVIOUS
<1>1. TypeOK
  <2>1. 1 \in 1 .. (NrNodes + 1)
    BY TestExecAssumption
  <2>. QED
    BY <2>1 DEF Init, TypeOK
<1>2. FreshUntilShutdown /\ Evidence /\ Justified /\ XMLFollows /\ Removal
  BY DEF Init, FreshUntilShutdown, Evidence, Justified, XMLFollows, Removal, Scripting, Judged, Failed
<1>. QED
  BY <1>1, <1>2 DEF TestInv

\* A step of runVM, with what the two commands may do to the VM.
LEMMA StepVM ==
  ASSUME TestInv, NEW n \in Nodes, NEW from \in {"cleaning", "booting"},
         NEW to \in {"booting", "up", "failed"},
         NEW result \in {"absent", "stale", "partial", "fresh", "stuck"},
         RunVM(n, from, to, result),
         to = "up" => result = "fresh",
         to = "failed" => ctxDone \/ Faults \cap {"clean", "boot"} # {}
  PROVE  TestInv'
<1>1. /\ goroutine[n] = from
      /\ goroutine' = [goroutine EXCEPT ![n] = to]
      /\ vm' = [vm EXCEPT ![n] = result]
      /\ UNCHANGED <<pc, ctxDone, expired, script, pipe, timeout, status, err, xml, next>>
  BY DEF RunVM, timers, verdict
<1>2. pc = "start"
  BY <1>1 DEF TestInv, FreshUntilShutdown
<1>3. goroutine \in [Nodes -> {"none", "cleaning", "booting", "up", "failed"}]
      /\ vm \in [Nodes -> {"absent", "stale", "partial", "fresh", "stuck"}]
  BY DEF TestInv, TypeOK
<1>4. TypeOK'
  BY <1>1, <1>3 DEF TestInv, TypeOK
<1>5. FreshUntilShutdown'
  BY <1>1, <1>2, <1>3 DEF TestInv, FreshUntilShutdown, Scripting
<1>6. Evidence'
  BY <1>1, <1>2, <1>3 DEF TestInv, Evidence, Scripting, Failed
<1>7. Justified' /\ XMLFollows' /\ Removal'
  BY <1>1, <1>2 DEF TestInv, Justified, XMLFollows, Removal, Judged, Scripting
<1>. QED
  BY <1>4, <1>5, <1>6, <1>7 DEF TestInv

LEMMA StepTest == TestInv /\ [Next]_vars => TestInv'
<1> SUFFICES ASSUME TestInv, [Next]_vars PROVE TestInv'
  OBVIOUS
<1> USE DEF TestInv, timers, verdict
<1>1. CASE Prepare
  <2>1. TypeOK'
    BY <1>1 DEF Prepare, TypeOK
  <2>2. FreshUntilShutdown'
    BY <1>1 DEF Prepare, TypeOK, FreshUntilShutdown, Scripting
  <2>3. Evidence'
    BY <1>1 DEF Prepare, TypeOK, Evidence, Scripting, Failed
  <2>4. Justified' /\ XMLFollows'
    BY <1>1 DEF Prepare, TypeOK, Evidence, Justified, XMLFollows, Judged, Scripting
  <2>5. Removal'
    BY <1>1 DEF Prepare, TypeOK, FreshUntilShutdown, Evidence, Justified, Removal, Scripting, Kept, Nodes
  <2>. QED
    BY <2>1, <2>2, <2>3, <2>4, <2>5
<1>2. CASE PrepareFails
  <2>1. TypeOK'
    BY <1>2 DEF PrepareFails, TypeOK
  <2>2. FreshUntilShutdown'
    BY <1>2 DEF PrepareFails, TypeOK, FreshUntilShutdown, Scripting
  <2>3. Evidence'
    BY <1>2 DEF PrepareFails, TypeOK, Evidence, Scripting, Failed
  <2>4. Justified' /\ XMLFollows'
    BY <1>2 DEF PrepareFails, TypeOK, Evidence, Justified, XMLFollows, Judged, Scripting
  <2>5. Removal'
    BY <1>2 DEF PrepareFails, TypeOK, FreshUntilShutdown, Evidence, Justified, Removal, Scripting, Kept, Nodes
  <2>. QED
    BY <2>1, <2>2, <2>3, <2>4, <2>5
<1>3. CASE \E n \in Nodes : CleanEnds(n)
  <2>1. PICK n \in Nodes : CleanEnds(n)
    BY <1>3
  <2>2. vm[n] \in {"absent", "stale", "partial", "fresh", "stuck"}
    BY <2>1 DEF TypeOK
  <2>. QED
    BY <2>1, <2>2, StepVM DEF CleanEnds, Clean, CleanFails, MayFail
<1>4. CASE \E n \in Nodes : BootEnds(n)
  <2>1. PICK n \in Nodes : BootEnds(n)
    BY <1>4
  <2>2. vm[n] \in {"absent", "stale", "partial", "fresh", "stuck"}
    BY <2>1 DEF TypeOK
  <2>. QED
    BY <2>1, <2>2, StepVM DEF BootEnds, Boot, BootFails, MayFail
<1>5. CASE StartFails
  <2>1. TypeOK'
    BY <1>5 DEF StartFails, Started, Failed, TypeOK
  <2>2. FreshUntilShutdown'
    BY <1>5 DEF StartFails, Started, Failed, TypeOK, FreshUntilShutdown, Scripting
  <2>3. Evidence'
    BY <1>5 DEF StartFails, Started, Failed, TypeOK, Evidence, Scripting, Failed
  <2>4. Justified' /\ XMLFollows'
    BY <1>5 DEF StartFails, Started, Failed, TypeOK, Evidence, Justified, XMLFollows, Judged, Scripting
  <2>5. Removal'
    BY <1>5 DEF StartFails, Started, Failed, TypeOK, FreshUntilShutdown, Evidence, Justified, Removal, Scripting, Kept, Nodes
  <2>. QED
    BY <2>1, <2>2, <2>3, <2>4, <2>5
<1>6. CASE StartDone
  <2>1. TypeOK'
    BY <1>6 DEF StartDone, Started, Failed, TypeOK
  <2>2. FreshUntilShutdown'
    BY <1>6 DEF StartDone, Started, Failed, TypeOK, FreshUntilShutdown, Scripting
  <2>3. Evidence'
    BY <1>6 DEF StartDone, Started, Failed, TypeOK, Evidence, Scripting, Failed
  <2>4. Justified' /\ XMLFollows'
    BY <1>6 DEF StartDone, Started, Failed, TypeOK, Evidence, Justified, XMLFollows, Judged, Scripting
  <2>5. Removal'
    BY <1>6 DEF StartDone, Started, Failed, TypeOK, FreshUntilShutdown, Evidence, Justified, Removal, Scripting, Kept, Nodes
  <2>. QED
    BY <2>1, <2>2, <2>3, <2>4, <2>5
<1>7. CASE TestTimer
  <2>1. TypeOK'
    BY <1>7 DEF TestTimer, TypeOK
  <2>2. FreshUntilShutdown'
    BY <1>7 DEF TestTimer, TypeOK, FreshUntilShutdown, Scripting
  <2>3. Evidence'
    BY <1>7 DEF TestTimer, TypeOK, Evidence, Scripting, Failed
  <2>4. Justified' /\ XMLFollows'
    BY <1>7 DEF TestTimer, TypeOK, Evidence, Justified, XMLFollows, Judged, Scripting
  <2>5. Removal'
    BY <1>7 DEF TestTimer, TypeOK, FreshUntilShutdown, Evidence, Justified, Removal, Scripting, Kept, Nodes
  <2>. QED
    BY <2>1, <2>2, <2>3, <2>4, <2>5
<1>8. CASE RunTest
  <2>1. TypeOK'
    BY <1>8 DEF RunTest, TypeOK
  <2>2. FreshUntilShutdown'
    BY <1>8 DEF RunTest, TypeOK, FreshUntilShutdown, Scripting
  <2>3. Evidence'
    BY <1>8 DEF RunTest, TypeOK, Evidence, Scripting, Failed
  <2>4. Justified' /\ XMLFollows'
    BY <1>8 DEF RunTest, TypeOK, Evidence, Justified, XMLFollows, Judged, Scripting
  <2>5. Removal'
    BY <1>8 DEF RunTest, TypeOK, FreshUntilShutdown, Evidence, Justified, Removal, Scripting, Kept, Nodes
  <2>. QED
    BY <2>1, <2>2, <2>3, <2>4, <2>5
<1>9. CASE CheckTimeout
  <2>1. TypeOK'
    BY <1>9 DEF CheckTimeout, testCtxDone, TypeOK
  <2>2. FreshUntilShutdown'
    BY <1>9 DEF CheckTimeout, testCtxDone, TypeOK, FreshUntilShutdown, Scripting
  <2>3. Evidence'
    BY <1>9 DEF CheckTimeout, testCtxDone, TypeOK, Evidence, Scripting, Failed
  <2>4. Justified' /\ XMLFollows'
    BY <1>9 DEF CheckTimeout, testCtxDone, TypeOK, Evidence, Justified, XMLFollows, Judged, Scripting
  <2>5. Removal'
    BY <1>9 DEF CheckTimeout, testCtxDone, TypeOK, FreshUntilShutdown, Evidence, Justified, Removal, Scripting, Kept, Nodes
  <2>. QED
    BY <2>1, <2>2, <2>3, <2>4, <2>5
<1>10. CASE CopyArtifacts
  <2>1. TypeOK'
    BY <1>10 DEF CopyArtifacts, TypeOK
  <2>2. FreshUntilShutdown'
    BY <1>10 DEF CopyArtifacts, TypeOK, FreshUntilShutdown, Scripting
  <2>3. Evidence'
    BY <1>10 DEF CopyArtifacts, TypeOK, Evidence, Scripting, Failed
  <2>4. Justified' /\ XMLFollows'
    BY <1>10 DEF CopyArtifacts, TypeOK, Evidence, Justified, XMLFollows, Judged, Scripting
  <2>5. Removal'
    BY <1>10 DEF CopyArtifacts, TypeOK, FreshUntilShutdown, Evidence, Justified, Removal, Scripting, Kept, Nodes
  <2>. QED
    BY <2>1, <2>2, <2>3, <2>4, <2>5
<1>11. CASE Judge
  <2>1. TypeOK'
    BY <1>11 DEF Judge, Verdict, ErrOfVerdict, TypeOK
  <2>2. FreshUntilShutdown'
    BY <1>11 DEF Judge, Verdict, ErrOfVerdict, TypeOK, FreshUntilShutdown, Scripting
  <2>3. Evidence'
    BY <1>11 DEF Judge, Verdict, ErrOfVerdict, TypeOK, Evidence, Scripting, Failed
  <2>4. Justified' /\ XMLFollows'
    BY <1>11 DEF Judge, Verdict, ErrOfVerdict, TypeOK, Evidence, Justified, XMLFollows, Judged, Scripting
  <2>5. Removal'
    BY <1>11 DEF Judge, Verdict, ErrOfVerdict, TypeOK, FreshUntilShutdown, Evidence, Justified, Removal, Scripting, Kept, Nodes
  <2>. QED
    BY <2>1, <2>2, <2>3, <2>4, <2>5
<1>12. CASE RemoveVM \/ RemoveVMFails
  <2>1. PICK result \in {"absent", "stuck"} : Remove(result)
    BY <1>12 DEF RemoveVM, RemoveVMFails
  <2>2. /\ pc = "shutdown" /\ ~Kept /\ next \in Nodes
        /\ vm' = [vm EXCEPT ![next] = result]
        /\ next' = next + 1
        /\ UNCHANGED <<pc, goroutine, ctxDone, expired, script, pipe, timeout, status, err, xml>>
    BY <2>1 DEF Remove, LeaveVMs, Kept
  <2>3. vm \in [Nodes -> {"absent", "stale", "partial", "fresh", "stuck"}]
    BY DEF TypeOK
  <2>4. next' \in 1 .. (NrNodes + 1)
    BY <2>2, TestExecAssumption DEF Nodes
  <2>5. TypeOK'
    BY <2>2, <2>3, <2>4 DEF TypeOK
  <2>6. FreshUntilShutdown' /\ Evidence' /\ Justified' /\ XMLFollows'
    BY <2>2 DEF FreshUntilShutdown, Evidence, Justified, XMLFollows, Judged, Scripting, Failed
  <2>7. Removal'
    <3>1. \A n \in Nodes : n < next + 1 => n < next \/ n = next
      BY <2>2 DEF Nodes
    <3>. QED
      BY <2>2, <2>3, <3>1 DEF Removal, Scripting, Kept
  <2>. QED
    BY <2>5, <2>6, <2>7
<1>13. CASE ShutdownDone
  <2>1. /\ pc = "shutdown" /\ pc' = "report"
        /\ UNCHANGED <<goroutine, vm, ctxDone, expired, script, pipe, timeout, status, err, xml, next>>
    BY <1>13 DEF ShutdownDone
  <2>2. TypeOK' /\ FreshUntilShutdown' /\ Evidence' /\ Justified' /\ XMLFollows'
    BY <2>1 DEF TypeOK, FreshUntilShutdown, Evidence, Justified, XMLFollows, Judged,
                Scripting, Failed
  <2>3. ~Kept => \A n \in Nodes : n < next
    BY <1>13, TestExecAssumption DEF ShutdownDone, LeaveVMs, Kept, TypeOK, Nodes
  <2>4. Removal'
    BY <2>1, <2>3 DEF Removal, Scripting, Kept
  <2>. QED
    BY <2>2, <2>4
<1>14. CASE Report
  <2>1. PICK from, to : /\ Write(from, to)
                        /\ from \in {"report", "xml", "reportlog"}
                        /\ to \in {"xml", "reportlog", "delivered"}
    BY <1>14 DEF Report, WriteTestLog, WriteXML, WriteReport
  <2>2. /\ pc \in {"report", "xml", "reportlog"} /\ pc' \in {"xml", "reportlog", "delivered"}
        /\ UNCHANGED <<goroutine, vm, ctxDone, expired, script, pipe, timeout, status, next>>
    BY <2>1 DEF Write
  <2>3. err' \in BOOLEAN /\ (err => err') /\ (err' => err \/ "write" \in Faults)
    BY <2>1 DEF Write, TypeOK
  <2>4. \/ UNCHANGED xml /\ pc = "report" /\ pc' = "xml"
        \/ UNCHANGED xml /\ pc = "reportlog" /\ pc' = "delivered"
        \/ /\ pc = "xml" /\ pc' = "reportlog"
           /\ \/ ~err /\ xml' = "pass"
              \/ err /\ xml' = "failure"
              \/ xml' \in {"broken", "none"}
    BY <1>14 DEF Report, WriteTestLog, WriteXML, WriteReport, Write, XMLByError
  <2>5. TypeOK'
    BY <2>2, <2>3, <2>4 DEF TypeOK
  <2>6. FreshUntilShutdown' /\ Evidence' /\ Removal'
    BY <2>2 DEF FreshUntilShutdown, Evidence, Removal, Scripting, Failed, Kept
  <2>7. Justified'
    BY <2>2, <2>3 DEF Justified, Judged
  <2>8. XMLFollows'
    BY <2>2, <2>3, <2>4 DEF XMLFollows, Justified, Judged
  <2>. QED
    BY <2>5, <2>6, <2>7, <2>8
<1>15. CASE Cancel
  <2>1. TypeOK'
    BY <1>15 DEF Cancel, TypeOK
  <2>2. FreshUntilShutdown'
    BY <1>15 DEF Cancel, TypeOK, FreshUntilShutdown, Scripting
  <2>3. Evidence'
    BY <1>15 DEF Cancel, TypeOK, Evidence, Scripting, Failed
  <2>4. Justified' /\ XMLFollows'
    BY <1>15 DEF Cancel, TypeOK, Evidence, Justified, XMLFollows, Judged, Scripting
  <2>5. Removal'
    BY <1>15 DEF Cancel, TypeOK, FreshUntilShutdown, Evidence, Justified, Removal, Scripting, Kept, Nodes
  <2>. QED
    BY <2>1, <2>2, <2>3, <2>4, <2>5
<1>16. CASE UNCHANGED vars
  <2>1. TypeOK'
    BY <1>16 DEF vars, TypeOK
  <2>2. FreshUntilShutdown'
    BY <1>16 DEF vars, TypeOK, FreshUntilShutdown, Scripting
  <2>3. Evidence'
    BY <1>16 DEF vars, TypeOK, Evidence, Scripting, Failed
  <2>4. Justified' /\ XMLFollows'
    BY <1>16 DEF vars, TypeOK, Evidence, Justified, XMLFollows, Judged, Scripting
  <2>5. Removal'
    BY <1>16 DEF vars, TypeOK, FreshUntilShutdown, Evidence, Justified, Removal, Scripting, Kept, Nodes
  <2>. QED
    BY <2>1, <2>2, <2>3, <2>4, <2>5
<1>17. CASE ScriptExits
  <2>1. TypeOK'
    BY <1>17 DEF ScriptExits, testCtxDone, TypeOK
  <2>2. FreshUntilShutdown'
    BY <1>17 DEF ScriptExits, testCtxDone, TypeOK, FreshUntilShutdown, Scripting
  <2>3. Evidence'
    BY <1>17 DEF ScriptExits, testCtxDone, TypeOK, Evidence, Scripting, Failed
  <2>4. Justified' /\ XMLFollows'
    BY <1>17 DEF ScriptExits, testCtxDone, TypeOK, Evidence, Justified, XMLFollows, Judged, Scripting
  <2>5. Removal'
    BY <1>17 DEF ScriptExits, testCtxDone, TypeOK, FreshUntilShutdown, Evidence, Justified, Removal, Scripting, Kept, Nodes
  <2>. QED
    BY <2>1, <2>2, <2>3, <2>4, <2>5
<1>18. CASE PipeCloses
  <2>1. TypeOK'
    BY <1>18 DEF PipeCloses, TypeOK
  <2>2. FreshUntilShutdown'
    BY <1>18 DEF PipeCloses, TypeOK, FreshUntilShutdown, Scripting
  <2>3. Evidence'
    BY <1>18 DEF PipeCloses, TypeOK, Evidence, Scripting, Failed
  <2>4. Justified' /\ XMLFollows'
    BY <1>18 DEF PipeCloses, TypeOK, Evidence, Justified, XMLFollows, Judged, Scripting
  <2>5. Removal'
    BY <1>18 DEF PipeCloses, TypeOK, FreshUntilShutdown, Evidence, Justified, Removal, Scripting, Kept, Nodes
  <2>. QED
    BY <2>1, <2>2, <2>3, <2>4, <2>5
<1>. QED
  BY <1>1, <1>2, <1>3, <1>4, <1>5, <1>6, <1>7, <1>8, <1>9, <1>10, <1>11, <1>12, <1>13, <1>14, <1>15, <1>16, <1>17, <1>18
  DEF Next, Delivered

\* The inductive invariant holds throughout, and with it what it contains.
THEOREM TestInvariant == Spec => []TestInv
BY InitTest, StepTest, PTL DEF Spec

\* The test script sees only VMs that were started for this run, all of them up.
THEOREM FreshVMs == Spec => []ScriptOnFreshVMs
<1>1. TestInv => ScriptOnFreshVMs
  BY DEF TestInv, FreshUntilShutdown, ScriptOnFreshVMs, Scripting
<1>. QED
  BY <1>1, TestInvariant, PTL

\* The status of a delivered result names the cause of what happened.
THEOREM CauseNamed == Spec => []VerdictNamesCause
<1>1. TestInv => VerdictNamesCause
  BY DEF TestInv, Justified, VerdictNamesCause
<1>. QED
  BY <1>1, TestInvariant, PTL

\* Exit code, results.json and XML do not contradict each other.
THEOREM ReportsAreConsistent == Spec => []ReportsAgree
<1>1. TestInv => ReportsAgree
  BY DEF TestInv, Justified, XMLFollows, ReportsAgree
<1>. QED
  BY <1>1, TestInvariant, PTL

\* The VMs of a test have been removed when it delivers, or are all left.
THEOREM RemovedOrLeft == Spec => []VMsRemovedOrLeft
<1>1. TestInv => VMsRemovedOrLeft
  BY DEF TestInv, Removal, VMsRemovedOrLeft, Kept
<1>. QED
  BY <1>1, TestInvariant, PTL

------------------------------------------------------------------------------
(* The test implements TestPromise.                                        *)

DeliveredAllowed ==
  [status |-> status, err |-> err] \in Deliverable([status : OwnStatus, err : {TRUE}], ctxDone)

\* A delivered result is one the scheduler is prepared for.
LEMMA DeliveredResult == TestInv /\ pc = "delivered" => DeliveredAllowed
<1> SUFFICES ASSUME TestInv, pc = "delivered" PROVE DeliveredAllowed
  OBVIOUS
<1> USE DEF DeliveredAllowed
<1>1. status \in {"unset", "SUCCESS", "CANCELED", "FAILED(TO)", "FAILED", "ERROR"} /\ err \in BOOLEAN
  BY DEF TestInv, TypeOK
<1>2. CASE ~err
  <2>1. status = "SUCCESS" /\ err = FALSE
    BY <1>2, <1>1 DEF TestInv, Justified
  <2>. QED
    BY <2>1 DEF Deliverable
<1>3. CASE err /\ status \in OwnStatus
  BY <1>1, <1>3 DEF Deliverable
<1>4. CASE err /\ status \notin OwnStatus
  <2>1. ctxDone /\ status \in {"CANCELED", "ERROR"}
    BY <1>1, <1>4 DEF TestInv, Justified, Evidence, OwnStatus
  <2>. QED
    BY <1>1, <1>4, <2>1 DEF Deliverable
<1>. QED
  BY <1>1, <1>2, <1>3, <1>4

LEMMA SameResults ==
  /\ Promise!NoResult = NoResult
  /\ \A failing, c : Promise!Deliverable(failing, c) = Deliverable(failing, c)
BY DEF NoResult, Promise!NoResult, Deliverable, Promise!Deliverable

LEMMA PromiseStep == TestInv /\ TestInv' /\ [Next]_vars => [Promise!Next]_(Promise!promiseVars)
<1> SUFFICES ASSUME TestInv, TestInv', [Next]_vars
             PROVE  Promise!Next \/ UNCHANGED Promise!promiseVars
  OBVIOUS
<1>1. CASE pc = "delivered"
  <2>1. UNCHANGED vars
    BY <1>1
       DEF TestInv, FreshUntilShutdown, Next, Prepare, PrepareFails, CleanEnds, Clean, CleanFails, BootEnds,
           Boot, BootFails, RunVM, StartFails, StartDone, TestTimer, ScriptExits,
           PipeCloses, RunTest, CheckTimeout,
           CopyArtifacts, Judge, RemoveVM, RemoveVMFails, Remove, ShutdownDone, Report, WriteTestLog,
           WriteXML, WriteReport, Write, Cancel, Delivered
  <2>. QED
    BY <1>1, <2>1 DEF vars, Promise!promiseVars
<1>2. CASE pc # "delivered" /\ pc' = "delivered"
  <2>1. ctxDone' = ctxDone
    BY <1>2
       DEF Next, Prepare, PrepareFails, CleanEnds, Clean, CleanFails, BootEnds,
           Boot, BootFails, RunVM, StartFails, StartDone, TestTimer, ScriptExits,
           PipeCloses, RunTest, CheckTimeout,
           CopyArtifacts, Judge, RemoveVM, RemoveVMFails, Remove, ShutdownDone, Report, WriteTestLog,
           WriteXML, WriteReport, Write, Cancel, Delivered, timers, vars
  <2>2. DeliveredAllowed'
    <3>1. TestInv' /\ (pc = "delivered")'
      BY <1>2
    <3>. QED
      BY <3>1, DeliveredResult, PTL
  <2>. QED
    BY <1>2, <2>1, <2>2, SameResults DEF Promise!Next, Promise!Deliver, DeliveredAllowed
<1>3. CASE pc # "delivered" /\ pc' # "delivered"
  <2>1. ctxDone' = ctxDone \/ ctxDone' = TRUE
    BY DEF Next, Prepare, PrepareFails, CleanEnds, Clean, CleanFails, BootEnds,
           Boot, BootFails, RunVM, StartFails, StartDone, TestTimer, ScriptExits,
           PipeCloses, RunTest, CheckTimeout,
           CopyArtifacts, Judge, RemoveVM, RemoveVMFails, Remove, ShutdownDone, Report, WriteTestLog,
           WriteXML, WriteReport, Write, Cancel, Delivered, timers, vars
  <2>. QED
    BY <1>3, <2>1 DEF Promise!Next, Promise!Stop, Promise!promiseVars
<1>. QED
  BY <1>1, <1>2, <1>3

\* One test run implements the promise the scheduler relies on (its safety part):
\* one result, and only one the scheduler is prepared for.
THEOREM ImplementsTestPromise == Spec => Promise!Safety
<1>1. Init => Promise!Init
  BY SameResults DEF Init, Promise!Init
<1>. QED
  BY <1>1, TestInvariant, PromiseStep, PTL DEF Spec, Promise!Safety

==============================================================================
