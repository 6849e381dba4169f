------------------------------- MODULE Command -------------------------------
(***************************************************************************)
(* How vmshed runs an external command (cmd/exec.go): cmdStderrTerm around *)
(* cmdRunTerm, and the goroutine handleTermination beside it.              *)
(*                                                                         *)
(* Several commands run at once.  They share the context of the suite run; *)
(* some have a deadline of their own.  Each has three actors: the caller,  *)
(* the termination handler and the process.                                *)
(***************************************************************************)
EXTENDS FiniteSets

CONSTANTS
  Commands,
  Timed,        \* the commands run with a deadline (context.WithTimeout)
  Detached,     \* the commands whose context is not that of the suite run
  Logged,       \* the commands run by cmdStderrTerm, not by cmdRunTerm alone
  WithMeta,     \* those of them with a metaPath
  Stubborn,     \* the commands whose process ignores SIGTERM
  HoldsPipe,    \* the commands whose children may keep stderr open
  Faulty,       \* the commands that may fail by themselves
  WriteFails    \* the commands whose log files may fail to be written

ASSUME CommandAssumption ==
  /\ Timed \subseteq Commands /\ Detached \subseteq Timed
  /\ Logged \subseteq Commands /\ Stubborn \subseteq Commands
  /\ HoldsPipe \subseteq Commands /\ Faulty \subseteq Commands
  /\ WriteFails \subseteq Logged /\ WithMeta \subseteq Logged

VARIABLES
  suiteDone,    \* the context of the suite run is done
  expired,      \* the commands whose deadline has passed
  caller,       \* where cmdStderrTerm or cmdRunTerm is
  handler,      \* where handleTermination is
  sent,         \* the signals the handler has sent
  process,      \* the state of the process
  status,       \* how it ended
  pipe,         \* is its stderr still open for writing?
  err,          \* what the caller returns: the error of the command, or of a write
  meta          \* the exit code in the metadata file: "none", "zero", "nonzero"

vars == <<suiteDone, expired, caller, handler, sent, process, status, pipe, err, meta>>
procVars == <<process, status, pipe>>
ctxVars  == <<suiteDone, expired>>

Init ==
  /\ suiteDone = FALSE
  /\ expired = {}
  /\ caller = [c \in Commands |-> "new"]
  /\ handler = [c \in Commands |-> "none"]
  /\ sent = [c \in Commands |-> {}]
  /\ process = [c \in Commands |-> "none"]
  /\ status = [c \in Commands |-> "none"]
  /\ pipe = [c \in Commands |-> FALSE]
  /\ err = [c \in Commands |-> "none"]
  /\ meta = [c \in Commands |-> "none"]

ctxDone(c) == c \in expired \/ (suiteDone /\ c \notin Detached)

\* The channel complete is closed once Wait has returned.
complete(c) == caller[c] \in {"joining", "writing", "returned"}

Alive(c) == process[c] \in {"running", "terminated", "killed"}

------------------------------------------------------------------------------
(* The caller.                                                             *)

\* cmd.Start succeeds; the handler is started beside it.
Start(c) ==
  /\ caller[c] = "new"
  /\ caller' = [caller EXCEPT ![c] = "waiting"]
  /\ handler' = [handler EXCEPT ![c] = "select"]
  /\ process' = [process EXCEPT ![c] = "running"]
  /\ pipe' = [pipe EXCEPT ![c] = TRUE]
  /\ UNCHANGED <<ctxVars, sent, status, err, meta>>

AfterRun(c) == IF c \in Logged THEN "writing" ELSE "returned"

StartFails(c) ==
  /\ caller[c] = "new" /\ c \in Faulty
  /\ caller' = [caller EXCEPT ![c] = AfterRun(c)]
  /\ err' = [err EXCEPT ![c] = "start"]
  /\ UNCHANGED <<ctxVars, handler, sent, procVars, meta>>

\* cmd.Wait reaps the process ...
Reap(c) ==
  /\ caller[c] = "waiting" /\ process[c] = "exited"
  /\ process' = [process EXCEPT ![c] = "reaped"]
  /\ UNCHANGED <<ctxVars, caller, handler, sent, status, pipe, err, meta>>

\* ... and returns when it has read all of stderr.
WaitReturns(c) ==
  /\ caller[c] = "waiting" /\ process[c] = "reaped" /\ ~pipe[c]
  /\ caller' = [caller EXCEPT ![c] = "joining"]
  /\ err' = [err EXCEPT ![c] = IF status[c] = "zero" THEN "nil" ELSE "exit"]
  /\ UNCHANGED <<ctxVars, handler, sent, procVars, meta>>

JoinAtOnce(c) ==
  /\ caller[c] = "joining"
  /\ caller' = [caller EXCEPT ![c] = AfterRun(c)]
  /\ UNCHANGED <<ctxVars, handler, sent, procVars, err, meta>>

\* <-finished
Join(c) ==
  /\ caller[c] = "joining" /\ handler[c] = "finished"
  /\ caller' = [caller EXCEPT ![c] = AfterRun(c)]
  /\ UNCHANGED <<ctxVars, handler, sent, procVars, err, meta>>

MetaOfSuccess(c) == IF c \in WithMeta THEN "zero" ELSE "none"

\* The metadata holds the exit code of an ExitError, and otherwise 0.
MetaOf(c) ==
  IF c \notin WithMeta THEN "none"
  ELSE IF err[c] = "exit" THEN "nonzero" ELSE "zero"

WriteLogs(c) ==
  /\ caller[c] = "writing"
  /\ caller' = [caller EXCEPT ![c] = "returned"]
  /\ meta' = [meta EXCEPT ![c] = MetaOf(c)]
  /\ UNCHANGED <<ctxVars, handler, sent, procVars, err>>

\* An error of MkdirAll or WriteFile takes the place of the command's.
WriteLogsFails(c) ==
  /\ caller[c] = "writing" /\ c \in WriteFails
  /\ caller' = [caller EXCEPT ![c] = "returned"]
  /\ err' = [err EXCEPT ![c] = "write"]
  /\ UNCHANGED <<ctxVars, handler, sent, procVars, meta>>

------------------------------------------------------------------------------
(* The termination handler.  A select whose cases are both ready takes     *)
(* either.                                                                 *)

\* Process.Signal does nothing to a process that has been reaped, and a signal
\* to one that has exited has no effect.
Terminate(c) ==
  /\ handler[c] = "select" /\ ctxDone(c)
  /\ handler' = [handler EXCEPT ![c] = "grace"]
  /\ sent' = [sent EXCEPT ![c] = @ \cup {"TERM"}]
  /\ process' = [process EXCEPT ![c] = IF @ = "running" THEN "terminated" ELSE @]
  /\ UNCHANGED <<ctxVars, caller, status, pipe, err, meta>>

GiveUp(c) ==
  /\ handler[c] = "grace"
  /\ handler' = [handler EXCEPT ![c] = "finished"]
  /\ UNCHANGED <<ctxVars, caller, sent, procVars, err, meta>>

\* The 30 seconds have passed.
Kill(c) ==
  /\ handler[c] = "grace"
  /\ handler' = [handler EXCEPT ![c] = "finished"]
  /\ sent' = [sent EXCEPT ![c] = @ \cup {"KILL"}]
  /\ process' = [process EXCEPT ![c] = IF Alive(c) THEN "killed" ELSE @]
  /\ UNCHANGED <<ctxVars, caller, status, pipe, err, meta>>

HandlerStops(c) ==
  /\ handler[c] \in {"select", "grace"} /\ complete(c)
  /\ handler' = [handler EXCEPT ![c] = "finished"]
  /\ UNCHANGED <<ctxVars, caller, sent, procVars, err, meta>>

------------------------------------------------------------------------------
(* The process and its environment.                                        *)

Exit(c, how) ==
  /\ process' = [process EXCEPT ![c] = "exited"]
  /\ status' = [status EXCEPT ![c] = how]
  /\ \E open \in IF c \in HoldsPipe THEN BOOLEAN ELSE {FALSE} :
       pipe' = [pipe EXCEPT ![c] = open]
  /\ UNCHANGED <<ctxVars, caller, handler, sent, err, meta>>

ExitByItself(c) ==
  /\ Alive(c)
  /\ \E how \in {"zero"} \cup (IF c \in Faulty THEN {"nonzero"} ELSE {}) : Exit(c, how)

\* On SIGTERM virter cleans up and exits; with which code is its affair.
ExitOnTerm(c) ==
  /\ process[c] = "terminated" /\ c \notin Stubborn
  /\ \E how \in {"zero", "nonzero"} : Exit(c, how)

ExitOnKill(c) == process[c] = "killed" /\ Exit(c, "nonzero")

PipeCloses(c) ==
  /\ ~Alive(c) /\ pipe[c]
  /\ pipe' = [pipe EXCEPT ![c] = FALSE]
  /\ UNCHANGED <<ctxVars, caller, handler, sent, process, status, err, meta>>

SuiteStops ==
  /\ ~suiteDone
  /\ suiteDone' = TRUE
  /\ UNCHANGED <<expired, caller, handler, sent, procVars, err, meta>>

\* A deadline passes.  The context is created right before the command starts.
Expire(c) ==
  /\ c \in Timed \ expired /\ caller[c] # "returned"
  /\ expired' = expired \cup {c}
  /\ UNCHANGED <<suiteDone, caller, handler, sent, procVars, err, meta>>

------------------------------------------------------------------------------

Caller(c)  == Start(c) \/ StartFails(c) \/ Reap(c) \/ WaitReturns(c) \/ Join(c)
              \/ WriteLogs(c) \/ WriteLogsFails(c)
Handler(c) == Terminate(c) \/ Kill(c) \/ HandlerStops(c)

Terminated == (\A c \in Commands : caller[c] = "returned") /\ UNCHANGED vars

Next ==
  \/ \E c \in Commands : \/ Caller(c) \/ Handler(c)
                         \/ ExitByItself(c) \/ ExitOnTerm(c) \/ ExitOnKill(c)
                         \/ PipeCloses(c) \/ Expire(c)
  \/ SuiteStops \/ Terminated

Spec == Init /\ [][Next]_vars

\* Goroutines run when they can, timers fire, and a killed process dies.
\* Nothing is assumed of a process that is not killed, nor of its children.
FairSpec ==
  /\ Spec
  /\ \A c \in Commands : WF_vars(Caller(c)) /\ WF_vars(Handler(c)) /\ WF_vars(ExitOnKill(c))
  /\ \A c \in Timed : WF_vars(Expire(c))

------------------------------------------------------------------------------
(* Properties.                                                             *)

\* Every variable has its type.
TypeOK ==
  /\ suiteDone \in BOOLEAN
  /\ expired \subseteq Timed
  /\ caller \in [Commands -> {"new", "waiting", "joining", "writing", "returned"}]
  /\ handler \in [Commands -> {"none", "select", "grace", "finished"}]
  /\ sent \in [Commands -> SUBSET {"TERM", "KILL"}]
  /\ process \in [Commands -> {"none", "running", "terminated", "killed", "exited", "reaped"}]
  /\ status \in [Commands -> {"none", "zero", "nonzero"}]
  /\ pipe \in [Commands -> BOOLEAN]
  /\ err \in [Commands -> {"none", "nil", "exit", "start", "write"}]
  /\ meta \in [Commands -> {"none", "zero", "nonzero"}]

\* When a command returns nothing of it is left: its process has been reaped,
\* its handler has stopped.  What follows (the next command on the same VM, the
\* cancelling of the context) finds nothing in its way.
NothingLeftBehind ==
  \A c \in Commands :
    caller[c] = "returned" => /\ process[c] \in {"none", "reaped"}
                              /\ handler[c] \in {"none", "finished"}

\* No signal is sent for a command that has returned, however late its context
\* ends ("without risk of sending an extra signal").
NoExtraSignal ==
  [][\A c \in Commands : caller[c] = "returned" => sent'[c] = sent[c]]_vars

\* What a command reports is true: a failure is never reported as a success, and
\* the exit code in the metadata is that of the process.  (Not when it never
\* started: the file then says 0.)
ReportsTrue ==
  \A c \in Commands :
    /\ caller[c] = "returned" /\ status[c] # "zero" => err[c] # "nil"
    /\ meta[c] # "none" /\ err[c] # "start" => meta[c] = status[c]

\* The command as its caller sees it.
PhaseOf(c) == CASE caller[c] = "new" -> "idle"
                [] caller[c] = "returned" -> "answered"
                [] OTHER -> "running"
OutcomeOf(c) == IF caller[c] # "returned" THEN "none"
                ELSE IF err[c] = "nil" THEN "nil" ELSE "error"

Promise == INSTANCE CommandPromise WITH
  MayFail <- Faulty \cup WriteFails,
  Prompt  <- Commands \ HoldsPipe,
  done    <- {c \in Commands : ctxDone(c)},
  phase   <- [c \in Commands |-> PhaseOf(c)],
  outcome <- [c \in Commands |-> OutcomeOf(c)]

\* The command runner keeps its promise: only a command that fails or is told to
\* stop reports an error, and a command that is told to stop answers.
KeepsPromise == Promise!Spec

==============================================================================
