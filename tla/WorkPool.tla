------------------------------- MODULE WorkPool -------------------------------
(***************************************************************************)
(* What a suite run promises (cmd/schedule.go, seen from its user): work   *)
(* (a base image to pull, a VM image to provision, a test to run) is begun *)
(* at most once, only when what it needs is done, and with VM IDs and      *)
(* networks that no other work holds; it gives them back when it ends; and *)
(* once the run is stopped, by a failure, a signal or the soft timeout,    *)
(* nothing is begun.                                                       *)
(***************************************************************************)
CONSTANTS
  Jobs,
  Needs        \* for each piece of work the sets of work that make it possible

VARIABLES
  stopped,
  phase,       \* of each piece of work: "todo", "running", "done" or "failed"
  held         \* what each piece of work holds

poolVars == <<stopped, phase, held>>

Init ==
  /\ stopped = FALSE
  /\ phase \in [Jobs -> {"todo", "done"}]
  /\ held = [w \in Jobs |-> {}]

Possible(w) == \E needed \in Needs[w] : \A n \in needed : phase[n] = "done"

\* What w takes is left open, but nobody else holds any of it.
Begin(w) ==
  /\ ~stopped
  /\ phase[w] = "todo" /\ Possible(w)
  /\ phase' = [phase EXCEPT ![w] = "running"]
  /\ \A v \in Jobs \ {w} : held'[v] = held[v] /\ held[v] \cap held'[w] = {}
  /\ UNCHANGED stopped

\* Work that fails stops the run when other work needs it.
Finish(w) ==
  /\ phase[w] = "running"
  /\ \E end \in {"done", "failed"} :
       /\ phase' = [phase EXCEPT ![w] = end]
       /\ end = "failed" => stopped'
  /\ held' = [held EXCEPT ![w] = {}]
  /\ stopped => stopped'

Stop ==
  /\ stopped'
  /\ UNCHANGED <<phase, held>>

Next == Stop \/ \E w \in Jobs : Begin(w) \/ Finish(w)

Spec == Init /\ [][Next]_poolVars

==============================================================================
