-------------------------------- MODULE TestLog --------------------------------
(***************************************************************************)
(* The logs of tests that run at the same time (cmd/log.go, used by        *)
(* execTest and its helpers).  Each test has a logger of its own.  It      *)
(* makes an entry of every message and calls the hook before it writes the *)
(* entry to the test's buffer.  The hook logs a copy of the entry to the   *)
(* standard logger, with the test ID among its data.  The copy is shallow: *)
(* it shares its Data map with the entry of the test's logger.             *)
(*                                                                         *)
(* The goroutines that start the VMs of a test share its logger.  logrus,  *)
(* which is external, gives every call an entry with a map of its own.     *)
(***************************************************************************)
CONSTANTS
  Tests,
  Nodes          \* the VMs of a test

\* The message that a VM is starting is told apart from the others.
ASSUME NodesAssumption == Nodes \cap {"run", "copy", "removed", "stderr"} = {}

Messages == Nodes \cup {"run", "copy", "removed"}

VARIABLES
  phase,         \* where execTest is: "start", "script", "copy", "shutdown" or "done"
  call,          \* of each message of a test: where the call of its logger is
  data,          \* ... and the field "id" in the map that entry and copy share
  std,           \* the messages in the standard log
  log,           \* of each test: the messages in res.log
  result         \* of each test: the log in the result that execTest returns

vars == <<phase, call, data, std, log, result>>

NoID == "none"
Written(id, what) == [id |-> id, what |-> what]

\* What is logged in each phase, and in which order the phases come.
Says == [start |-> Nodes, script |-> {"run"}, copy |-> {"copy"}, shutdown |-> {"removed"},
         done |-> {}]
Following == [start |-> {"script", "shutdown"}, script |-> {"copy"}, copy |-> {"shutdown"},
              shutdown |-> {"done"}, done |-> {}]

Init ==
  /\ phase = [t \in Tests |-> "start"]
  /\ call = [t \in Tests |-> [what \in Messages |-> "none"]]
  /\ data = [t \in Tests |-> [what \in Messages |-> NoID]]
  /\ std = {}
  /\ log = [t \in Tests |-> {}]
  /\ result = [t \in Tests |-> {}]

Step(t, what, from, to) ==
  /\ call[t][what] = from
  /\ call' = [call EXCEPT ![t][what] = to]

\* The logger makes an entry, without data.
Debugf(t, what) ==
  /\ what \in Says[phase[t]]
  /\ Step(t, what, "none", "hook")
  /\ UNCHANGED <<phase, data, std, log, result>>

------------------------------------------------------------------------------
(* The hook, Fire, for every level.                                        *)

AddID(t, what) ==
  /\ Step(t, what, "hook", "copied")
  /\ data' = [data EXCEPT ![t][what] = t]
  /\ UNCHANGED <<phase, std, log, result>>

\* logEntry.Log
LogCopy(t, what) ==
  /\ Step(t, what, "copied", "logged")
  /\ std' = std \cup {Written(data[t][what], what)}
  /\ UNCHANGED <<phase, data, log, result>>

KeepID(t, what) ==
  /\ Step(t, what, "logged", "fired")
  /\ UNCHANGED <<phase, data, std, log, result>>

\* "Delete the ID field again, otherwise the other logger will include it."
DeleteID(t, what) ==
  /\ Step(t, what, "logged", "fired")
  /\ data' = [data EXCEPT ![t][what] = NoID]
  /\ UNCHANGED <<phase, std, log, result>>

------------------------------------------------------------------------------

\* The logger writes the entry with what the hook has left in its data.
WriteEntry(t, what) ==
  /\ Step(t, what, "fired", "written")
  /\ log' = [log EXCEPT ![t] = @ \cup {Written(data[t][what], what)}]
  /\ UNCHANGED <<phase, data, std, result>>

\* The output of artifacts that cannot be copied and of VMs that cannot be
\* removed is written past the logger.
DumpStderr(t) ==
  /\ phase[t] \in {"copy", "shutdown"}
  /\ \A what \in Says[phase[t]] : call[t][what] \in {"none", "written"}
  /\ log' = [log EXCEPT ![t] = @ \cup {Written(NoID, "stderr")}]
  /\ UNCHANGED <<phase, call, data, std, result>>

\* The end of a phase.  When the VMs could not be started or the script has ended
\* and the artifacts are copied, execTest returns a copy of its result;
\* shutdownVMs, which it has deferred, runs after that.
Proceed(t) ==
  /\ \A what \in Says[phase[t]] : call[t][what] = "written"
  /\ \E to \in Following[phase[t]] :
       /\ phase' = [phase EXCEPT ![t] = to]
       /\ result' = IF to = "shutdown" THEN [result EXCEPT ![t] = log[t]] ELSE result
  /\ UNCHANGED <<call, data, std, log>>

Terminated == (\A t \in Tests : phase[t] = "done") /\ UNCHANGED vars

Fire(t, what) == AddID(t, what) \/ LogCopy(t, what) \/ DeleteID(t, what)

Next ==
  \/ \E t \in Tests :
       \/ \E what \in Messages : Debugf(t, what) \/ Fire(t, what) \/ WriteEntry(t, what)
       \/ DumpStderr(t) \/ Proceed(t)
  \/ Terminated

Spec == Init /\ [][Next]_vars

------------------------------------------------------------------------------

\* What a test logs is in both logs: in the standard log under the ID of that
\* test, in its own log without an ID, although the hook adds the ID to data that
\* both writers read.  Nothing else is there, but for what dumpStderr writes.
LogsAgree ==
  /\ \A m \in std : m.id \in Tests
  /\ \A t \in Tests :
       LET own  == {m.what : m \in log[t]} \ {"stderr"}
           copy == {m.what : m \in {n \in std : n.id = t}} IN
       /\ \A m \in log[t] : m.id = NoID
       /\ own \subseteq copy
       /\ phase[t] = "done" => own = copy

\* The result of a test has the messages of the framework ("log messages of the
\* framework (starting test, timing information,...)", testResult).
ResultHasMessages == \A t \in Tests : phase[t] = "done" => log[t] \subseteq result[t]

==============================================================================
