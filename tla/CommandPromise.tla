---------------------------- MODULE CommandPromise ----------------------------
(***************************************************************************)
(* What the callers of cmdRunTerm and cmdStderrTerm (cmd/exec.go) rely on: *)
(* a command runs once and its caller gets one answer; a command that was  *)
(* not told to stop fails only by itself; a command that is told to stop   *)
(* answers.                                                                *)
(***************************************************************************)
CONSTANTS
  Commands,
  MayFail,         \* the commands that may fail without being told to stop
  Prompt           \* the commands whose answer does not depend on their children

VARIABLES
  done,            \* the commands whose context is done
  phase,           \* "idle", "running" or "answered"
  outcome          \* what the caller was told: "none", "nil" or "error"

promiseVars == <<done, phase, outcome>>

Init ==
  /\ done = {}
  /\ phase = [c \in Commands |-> "idle"]
  /\ outcome = [c \in Commands |-> "none"]

\* A context ends: a timer, or a signal that stops several commands.
Stop ==
  /\ \E C \in SUBSET Commands : done' = done \cup C
  /\ UNCHANGED <<phase, outcome>>

Begin(c) ==
  /\ phase[c] = "idle"
  /\ phase' = [phase EXCEPT ![c] = "running"]
  /\ UNCHANGED <<done, outcome>>

Answer(c, o) ==
  /\ phase[c] = "running"
  /\ o = "error" => c \in MayFail \cup done
  /\ phase' = [phase EXCEPT ![c] = "answered"]
  /\ outcome' = [outcome EXCEPT ![c] = o]
  /\ UNCHANGED done

\* A command that may fail may never get to run.
Refuse(c) ==
  /\ phase[c] = "idle" /\ c \in MayFail
  /\ phase' = [phase EXCEPT ![c] = "answered"]
  /\ outcome' = [outcome EXCEPT ![c] = "error"]
  /\ UNCHANGED done

AnswerWhenStopped(c) == c \in done /\ \E o \in {"nil", "error"} : Answer(c, o)

Next ==
  \/ Stop
  \/ \E c \in Commands : Begin(c) \/ Refuse(c) \/ \E o \in {"nil", "error"} : Answer(c, o)

Safety == Init /\ [][Next]_promiseVars

Spec ==
  /\ Safety
  /\ \A c \in Prompt : WF_promiseVars(AnswerWhenStopped(c))

==============================================================================
