----------------------------- MODULE TestPromise ------------------------------
(***************************************************************************)
(* What the scheduler relies on when it has started performTest            *)
(* (cmd/test.go) in a goroutine: one result is delivered; it is a success  *)
(* or names a failure the test may have by itself, unless the context is   *)
(* done; and once the context is done the result does come, unless the     *)
(* test is blocked for ever.  FinishTest of the module Scheduler receives  *)
(* exactly these results.                                                  *)
(***************************************************************************)
EXTENDS TestResult

CONSTANT FailedResults     \* the results of a test that fails by itself

VARIABLES
  done,                    \* the context of the scheduler is done
  blocked,                 \* a child of the test's script keeps it waiting
  delivered                \* the result, or NoResult

\* What blocks a test is not the test's affair: blocked may change at any time.
promiseVars == <<done, delivered>>

Init == done = FALSE /\ delivered = NoResult

Stop == done' = TRUE /\ UNCHANGED delivered

Deliver ==
  /\ delivered = NoResult
  /\ delivered' \in Deliverable(FailedResults, done)
  /\ UNCHANGED done

Next == Stop \/ Deliver

Safety == Init /\ [][Next]_promiseVars

Spec == Safety /\ WF_promiseVars(done /\ ~blocked /\ Deliver)

==============================================================================
