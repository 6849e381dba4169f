------------------------------ MODULE TestResult ------------------------------
(* The results of a test run (testResult, cmd/test.go). *)

TestStatus == {"unset", "SKIPPED", "SUCCESS", "CANCELED", "FAILED(TO)", "FAILED", "ERROR"}

\* A result: its status and whether err is set.  The status is "unset" (the empty
\* string) when the output directory could not be made.
Result   == [status : TestStatus, err : BOOLEAN]
NoResult == [status |-> "none", err |-> FALSE]

\* What a test may deliver that may fail by itself in the ways of failing, and
\* once its context is done.
Deliverable(failing, ctxDone) ==
  {[status |-> "SUCCESS", err |-> FALSE]} \cup failing
    \cup (IF ctxDone THEN {[status |-> s, err |-> TRUE] : s \in {"CANCELED", "ERROR"}} ELSE {})

==============================================================================
