------------------------------ MODULE MCTestLog -------------------------------
(* Two tests with two VMs each. *)
EXTENDS TestLog

CONSTANTS test1, test2, vm1, vm2

TwoTests == {test1, test2}
TwoNodes == {vm1, vm2}

==============================================================================
