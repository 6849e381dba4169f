------------------------------- MODULE MCSuite -------------------------------
(* Small suites for a whole run of vmshed. *)
EXTENDS Suite, MCScheduler

Ways == {[status |-> s, err |-> TRUE] : s \in {"unset", "FAILED", "FAILED(TO)", "SUCCESS"}}

TwoRuns ==
  << Run("small", <<BaseVM>>, <<Extra>>, FALSE, 1),
     Run("other", <<NamedVM>>, << >>, FALSE, 3) >>

==============================================================================
