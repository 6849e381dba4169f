------------------------------ MODULE MCCommand ------------------------------
(***************************************************************************)
(* Two commands as vmshed runs them: "virter image build" (a log, metadata *)
(* and writes that may fail) and "virter vm exec", a test script that      *)
(* ignores SIGTERM and whose children may keep stderr open.  Both have a   *)
(* deadline and share the context of the suite run.  The build may fail by *)
(* itself; the script does not, so an error of it has another cause.       *)
(***************************************************************************)
EXTENDS Command

CONSTANTS build, script

BuildAndScript == {build, script}
OnlyBuild == {build}
OnlyScript == {script}
None == {}

==============================================================================
