---------------------------- MODULE CommandProofs -----------------------------
(***************************************************************************)
(* Theorems about the command runner, for any number of commands of any    *)
(* kind: with and without a deadline, stubborn, faulty, with children that *)
(* hold stderr open.                                                       *)
(***************************************************************************)
EXTENDS Command, TLAPS

\* How far caller, handler and process of a command have come together.
InStep(c) ==
  /\ caller[c] = "new" => /\ handler[c] = "none" /\ process[c] = "none"
                          /\ status[c] = "none" /\ ~pipe[c]
  /\ caller[c] = "waiting" => handler[c] # "none" /\ process[c] # "none"
  /\ caller[c] = "joining" => handler[c] # "none" /\ process[c] = "reaped"
  /\ caller[c] \in {"writing", "returned"} => handler[c] \in {"none", "finished"}
                                              /\ process[c] \in {"none", "reaped"}
  /\ process[c] = "none" <=> handler[c] = "none"
  /\ process[c] \in {"exited", "reaped"} <=> status[c] # "none"

\* What the caller knows of how the process ended.
Answers(c) ==
  /\ caller[c] \in {"new", "waiting"} <=> err[c] = "none"
  /\ caller[c] # "returned" => meta[c] = "none" /\ err[c] # "write"
  /\ err[c] = "nil"   => status[c] = "zero"
  /\ err[c] = "exit"  => status[c] = "nonzero"
  /\ err[c] = "start" => c \in Faulty
  /\ err[c] = "write" => c \in WriteFails /\ meta[c] = "none"
  /\ meta[c] = "zero"    => err[c] # "exit"
  /\ meta[c] = "nonzero" => err[c] = "exit"

\* A process is terminated, and fails without being faulty, only when its
\* context is done.
StoppedForAReason(c) ==
  /\ handler[c] = "grace" => ctxDone(c)
  /\ process[c] \in {"terminated", "killed"} => ctxDone(c)
  /\ status[c] = "nonzero" => c \in Faulty \/ ctxDone(c)

\* The inductive invariant.
CommandInv ==
  /\ TypeOK
  /\ \A c \in Commands : InStep(c) /\ Answers(c) /\ StoppedForAReason(c)

LEMMA InitCommand == Init => CommandInv
<1> SUFFICES ASSUME Init PROVE CommandInv
  OBVIOUS
<1>1. TypeOK
  BY DEF Init, TypeOK
<1>2. \A c \in Commands : InStep(c) /\ Answers(c) /\ StoppedForAReason(c)
  BY DEF Init, InStep, Answers, StoppedForAReason
<1>. QED
  BY <1>1, <1>2 DEF CommandInv

LEMMA ExitTyped ==
  ASSUME TypeOK, NEW c \in Commands, NEW how \in {"zero", "nonzero"}, Exit(c, how)
  PROVE  TypeOK'
<1>1. PICK open \in BOOLEAN : pipe' = [pipe EXCEPT ![c] = open]
  BY DEF Exit
<1>2. pipe' \in [Commands -> BOOLEAN]
  BY <1>1 DEF TypeOK
<1>3. process' = [process EXCEPT ![c] = "exited"] /\ status' = [status EXCEPT ![c] = how]
      /\ UNCHANGED <<ctxVars, caller, handler, sent, err, meta>>
  BY DEF Exit
<1>. QED
  BY <1>2, <1>3 DEF TypeOK, ctxVars

LEMMA StepCommand == CommandInv /\ [Next]_vars => CommandInv'
<1> SUFFICES ASSUME CommandInv, [Next]_vars PROVE CommandInv'
  OBVIOUS
<1> USE DEF CommandInv, ctxVars, procVars
<1>1. ASSUME NEW c \in Commands, Start(c) PROVE CommandInv'
  <2>1. TypeOK'
    BY <1>1, CommandAssumption DEF Start, TypeOK
  <2>2. \A d \in Commands : InStep(d)' /\ Answers(d)' /\ StoppedForAReason(d)'
    BY <1>1, CommandAssumption DEF Start, TypeOK, InStep, Answers, StoppedForAReason, ctxDone
  <2>. QED
    BY <2>1, <2>2
<1>2. ASSUME NEW c \in Commands, StartFails(c) PROVE CommandInv'
  <2>1. TypeOK'
    BY <1>2, CommandAssumption DEF StartFails, AfterRun, TypeOK
  <2>2. \A d \in Commands : InStep(d)' /\ Answers(d)' /\ StoppedForAReason(d)'
    BY <1>2, CommandAssumption DEF StartFails, AfterRun, TypeOK, InStep, Answers, StoppedForAReason, ctxDone
  <2>. QED
    BY <2>1, <2>2
<1>3. ASSUME NEW c \in Commands, Reap(c) PROVE CommandInv'
  <2>1. TypeOK'
    BY <1>3, CommandAssumption DEF Reap, TypeOK
  <2>2. \A d \in Commands : InStep(d)' /\ Answers(d)' /\ StoppedForAReason(d)'
    BY <1>3, CommandAssumption DEF Reap, TypeOK, InStep, Answers, StoppedForAReason, ctxDone
  <2>. QED
    BY <2>1, <2>2
<1>4. ASSUME NEW c \in Commands, WaitReturns(c) PROVE CommandInv'
  <2>1. TypeOK'
    BY <1>4, CommandAssumption DEF WaitReturns, TypeOK
  <2>2. \A d \in Commands : InStep(d)' /\ Answers(d)' /\ StoppedForAReason(d)'
    BY <1>4, CommandAssumption DEF WaitReturns, TypeOK, InStep, Answers, StoppedForAReason, ctxDone
  <2>. QED
    BY <2>1, <2>2
<1>5. ASSUME NEW c \in Commands, Join(c) PROVE CommandInv'
  <2>1. TypeOK'
    BY <1>5, CommandAssumption DEF Join, AfterRun, TypeOK
  <2>2. \A d \in Commands : InStep(d)' /\ Answers(d)' /\ StoppedForAReason(d)'
    BY <1>5, CommandAssumption DEF Join, AfterRun, TypeOK, InStep, Answers, StoppedForAReason, ctxDone
  <2>. QED
    BY <2>1, <2>2
<1>6. ASSUME NEW c \in Commands, WriteLogs(c) PROVE CommandInv'
  <2>1. TypeOK'
    BY <1>6, CommandAssumption DEF WriteLogs, MetaOf, TypeOK
  <2>2. \A d \in Commands : InStep(d)' /\ Answers(d)' /\ StoppedForAReason(d)'
    BY <1>6, CommandAssumption DEF WriteLogs, MetaOf, TypeOK, InStep, Answers, StoppedForAReason, ctxDone
  <2>. QED
    BY <2>1, <2>2
<1>7. ASSUME NEW c \in Commands, WriteLogsFails(c) PROVE CommandInv'
  <2>1. TypeOK'
    BY <1>7, CommandAssumption DEF WriteLogsFails, TypeOK
  <2>2. \A d \in Commands : InStep(d)' /\ Answers(d)' /\ StoppedForAReason(d)'
    BY <1>7, CommandAssumption DEF WriteLogsFails, TypeOK, InStep, Answers, StoppedForAReason, ctxDone
  <2>. QED
    BY <2>1, <2>2
<1>8. ASSUME NEW c \in Commands, Terminate(c) PROVE CommandInv'
  <2>1. TypeOK'
    BY <1>8, CommandAssumption DEF Terminate, TypeOK
  <2>2. \A d \in Commands : InStep(d)' /\ Answers(d)' /\ StoppedForAReason(d)'
    BY <1>8, CommandAssumption DEF Terminate, TypeOK, InStep, Answers, StoppedForAReason, ctxDone
  <2>. QED
    BY <2>1, <2>2
<1>9. ASSUME NEW c \in Commands, Kill(c) PROVE CommandInv'
  <2>1. TypeOK'
    BY <1>9, CommandAssumption DEF Kill, Alive, TypeOK
  <2>2. \A d \in Commands : InStep(d)' /\ Answers(d)' /\ StoppedForAReason(d)'
    BY <1>9, CommandAssumption DEF Kill, Alive, TypeOK, InStep, Answers, StoppedForAReason, ctxDone
  <2>. QED
    BY <2>1, <2>2
<1>10. ASSUME NEW c \in Commands, HandlerStops(c) PROVE CommandInv'
  <2>1. TypeOK'
    BY <1>10, CommandAssumption DEF HandlerStops, complete, TypeOK
  <2>2. \A d \in Commands : InStep(d)' /\ Answers(d)' /\ StoppedForAReason(d)'
    BY <1>10, CommandAssumption DEF HandlerStops, complete, TypeOK, InStep, Answers, StoppedForAReason, ctxDone
  <2>. QED
    BY <2>1, <2>2
<1>11. ASSUME NEW c \in Commands, ExitByItself(c) PROVE CommandInv'
  <2>1. TypeOK'
    BY <1>11, ExitTyped DEF ExitByItself
  <2>2. \A d \in Commands : InStep(d)' /\ Answers(d)' /\ StoppedForAReason(d)'
    BY <1>11, CommandAssumption DEF ExitByItself, Exit, Alive, TypeOK, InStep, Answers, StoppedForAReason, ctxDone
  <2>. QED
    BY <2>1, <2>2
<1>12. ASSUME NEW c \in Commands, ExitOnTerm(c) PROVE CommandInv'
  <2>1. TypeOK'
    BY <1>12, ExitTyped DEF ExitOnTerm
  <2>2. \A d \in Commands : InStep(d)' /\ Answers(d)' /\ StoppedForAReason(d)'
    BY <1>12, CommandAssumption DEF ExitOnTerm, Exit, TypeOK, InStep, Answers, StoppedForAReason, ctxDone
  <2>. QED
    BY <2>1, <2>2
<1>13. ASSUME NEW c \in Commands, ExitOnKill(c) PROVE CommandInv'
  <2>1. TypeOK'
    BY <1>13, CommandAssumption DEF ExitOnKill, Exit, TypeOK
  <2>2. \A d \in Commands : InStep(d)' /\ Answers(d)' /\ StoppedForAReason(d)'
    BY <1>13, CommandAssumption DEF ExitOnKill, Exit, TypeOK, InStep, Answers, StoppedForAReason, ctxDone
  <2>. QED
    BY <2>1, <2>2
<1>14. ASSUME NEW c \in Commands, PipeCloses(c) PROVE CommandInv'
  <2>1. TypeOK'
    BY <1>14, CommandAssumption DEF PipeCloses, Alive, TypeOK
  <2>2. \A d \in Commands : InStep(d)' /\ Answers(d)' /\ StoppedForAReason(d)'
    BY <1>14, CommandAssumption DEF PipeCloses, Alive, TypeOK, InStep, Answers, StoppedForAReason, ctxDone
  <2>. QED
    BY <2>1, <2>2
<1>15. ASSUME NEW c \in Commands, Expire(c) PROVE CommandInv'
  <2>1. TypeOK'
    BY <1>15, CommandAssumption DEF Expire, TypeOK
  <2>2. \A d \in Commands : InStep(d)' /\ Answers(d)' /\ StoppedForAReason(d)'
    BY <1>15, CommandAssumption DEF Expire, TypeOK, InStep, Answers, StoppedForAReason, ctxDone
  <2>. QED
    BY <2>1, <2>2
<1>16. CASE SuiteStops
  BY <1>16 DEF SuiteStops, TypeOK, InStep, Answers, StoppedForAReason, ctxDone
<1>17. CASE UNCHANGED vars
  BY <1>17 DEF vars, TypeOK, InStep, Answers, StoppedForAReason, ctxDone
<1>. QED
  BY <1>1, <1>2, <1>3, <1>4, <1>5, <1>6, <1>7, <1>8, <1>9, <1>10, <1>11, <1>12, <1>13, <1>14, <1>15, <1>16, <1>17 DEF Next, Caller, Handler, Terminated

\* Every variable has its type, and caller, handler and process stay in step.
THEOREM CommandInvariant == Spec => []CommandInv
<1>1. Init => CommandInv
  BY InitCommand
<1>2. CommandInv /\ [Next]_vars => CommandInv'
  BY StepCommand
<1>. QED
  BY <1>1, <1>2, PTL DEF Spec

\* A command that has returned left neither process nor handler behind.
THEOREM NothingLeft == Spec => []NothingLeftBehind
<1>1. CommandInv => NothingLeftBehind
  BY DEF CommandInv, InStep, NothingLeftBehind
<1>. QED
  BY <1>1, CommandInvariant, PTL

\* What a command reports of its process, by error and by metadata, is true.
THEOREM TruthfulReports == Spec => []ReportsTrue
<1>1. CommandInv => ReportsTrue
  <2> SUFFICES ASSUME CommandInv, NEW c \in Commands PROVE
        /\ caller[c] = "returned" /\ status[c] # "zero" => err[c] # "nil"
        /\ meta[c] # "none" /\ err[c] # "start" => meta[c] = status[c]
    BY DEF ReportsTrue
  <2> QED
    BY DEF CommandInv, InStep, Answers, TypeOK
<1>. QED
  BY <1>1, CommandInvariant, PTL

\* The handler of a command that has returned sends it no signal.
THEOREM NoLateSignal == Spec => NoExtraSignal
<1>1. CommandInv /\ [Next]_vars
      => [\A c \in Commands : caller[c] = "returned" => sent'[c] = sent[c]]_vars
  <2> SUFFICES ASSUME CommandInv, Next, NEW d \in Commands, caller[d] = "returned"
               PROVE  sent'[d] = sent[d]
    BY DEF vars
  <2>1. sent \in [Commands -> SUBSET {"TERM", "KILL"}] /\ handler[d] \in {"none", "finished"}
    BY DEF CommandInv, TypeOK, InStep
  <2>2. ASSUME NEW c \in Commands, Terminate(c) \/ Kill(c) PROVE sent'[d] = sent[d]
    BY <2>1, <2>2 DEF Terminate, Kill
  <2>3. ASSUME NEW c \in Commands, \/ Caller(c) \/ HandlerStops(c)
                                  \/ ExitByItself(c) \/ ExitOnTerm(c) \/ ExitOnKill(c)
                                  \/ PipeCloses(c) \/ Expire(c)
        PROVE sent' = sent
    BY <2>3 DEF Caller, Start, StartFails, Reap, WaitReturns, Join, WriteLogs, WriteLogsFails,
                HandlerStops, ExitByItself, ExitOnTerm, ExitOnKill, Exit, PipeCloses, Expire
  <2>4. CASE SuiteStops \/ Terminated
    BY <2>4 DEF SuiteStops, Terminated, vars
  <2>. QED
    BY <2>2, <2>3, <2>4 DEF Next, Handler
<1>. QED
  BY <1>1, CommandInvariant, PTL DEF Spec, NoExtraSignal

------------------------------------------------------------------------------
(* The command runner implements CommandPromise.                           *)

\* The promise's view of a command, place by place.
ViewsRight ==
  \A c \in Commands :
    /\ caller[c] = "new" => PhaseOf(c) = "idle" /\ OutcomeOf(c) = "none"
    /\ caller[c] \in {"waiting", "joining", "writing"} => PhaseOf(c) = "running" /\ OutcomeOf(c) = "none"
    /\ caller[c] = "returned" => /\ PhaseOf(c) = "answered"
                                 /\ OutcomeOf(c) = IF err[c] = "nil" THEN "nil" ELSE "error"

LEMMA Views == ViewsRight
<1> SUFFICES ASSUME NEW c \in Commands PROVE
      /\ caller[c] = "new" => PhaseOf(c) = "idle" /\ OutcomeOf(c) = "none"
      /\ caller[c] \in {"waiting", "joining", "writing"} => PhaseOf(c) = "running" /\ OutcomeOf(c) = "none"
      /\ caller[c] = "returned" => /\ PhaseOf(c) = "answered"
                                   /\ OutcomeOf(c) = IF err[c] = "nil" THEN "nil" ELSE "error"
  BY DEF ViewsRight
<1>1. CASE caller[c] = "new"
  BY <1>1 DEF PhaseOf, OutcomeOf
<1>2. CASE caller[c] = "waiting"
  BY <1>2 DEF PhaseOf, OutcomeOf
<1>3. CASE caller[c] = "joining"
  BY <1>3 DEF PhaseOf, OutcomeOf
<1>4. CASE caller[c] = "writing"
  BY <1>4 DEF PhaseOf, OutcomeOf
<1>5. CASE caller[c] = "returned"
  BY <1>5 DEF PhaseOf, OutcomeOf
<1>. QED
  BY <1>1, <1>2, <1>3, <1>4, <1>5

\* Nothing the promise speaks of changes for the commands other than c.
OthersSame(c) ==
  \A d \in Commands \ {c} : PhaseOf(d)' = PhaseOf(d) /\ OutcomeOf(d)' = OutcomeOf(d)

\* What one caller does is a step of the promise, or none.
LEMMA CallerKeepsPromise ==
  ASSUME NEW c \in Commands, OthersSame(c), \A d \in Commands : ctxDone(d)' <=> ctxDone(d),
         \/ PhaseOf(c)' = PhaseOf(c) /\ OutcomeOf(c)' = OutcomeOf(c)
         \/ PhaseOf(c) = "idle" /\ PhaseOf(c)' = "running" /\ OutcomeOf(c)' = OutcomeOf(c)
         \/ /\ PhaseOf(c) = "idle" /\ PhaseOf(c)' = "answered" /\ OutcomeOf(c)' = "error"
            /\ c \in Faulty \cup WriteFails
         \/ /\ PhaseOf(c) = "running" /\ PhaseOf(c)' = "answered"
            /\ OutcomeOf(c)' \in {"nil", "error"}
            /\ OutcomeOf(c)' = "error" => c \in Faulty \cup WriteFails \/ ctxDone(c)
  PROVE  [Promise!Next]_(Promise!promiseVars)
<1> DEFINE phase == [d \in Commands |-> PhaseOf(d)]
           outcome == [d \in Commands |-> OutcomeOf(d)]
<1>1. UNCHANGED {d \in Commands : ctxDone(d)}
  OBVIOUS
<1>2. CASE PhaseOf(c)' = PhaseOf(c) /\ OutcomeOf(c)' = OutcomeOf(c)
  <2>1. \A d \in Commands : PhaseOf(d)' = PhaseOf(d) /\ OutcomeOf(d)' = OutcomeOf(d)
    BY <1>2 DEF OthersSame
  <2>2. phase' = phase /\ outcome' = outcome
    BY <2>1
  <2>. QED
    BY <1>1, <2>2 DEF Promise!promiseVars
<1>3. CASE PhaseOf(c) = "idle" /\ PhaseOf(c)' = "running" /\ OutcomeOf(c)' = OutcomeOf(c)
  <2>1. phase' = [phase EXCEPT ![c] = "running"] /\ outcome' = outcome
    BY <1>3 DEF OthersSame
  <2>2. Promise!Begin(c)
    BY <1>1, <1>3, <2>1 DEF Promise!Begin
  <2>. QED
    BY <2>2 DEF Promise!Next
<1>4. CASE /\ PhaseOf(c) = "idle" /\ PhaseOf(c)' = "answered" /\ OutcomeOf(c)' = "error"
           /\ c \in Faulty \cup WriteFails
  <2>1. phase' = [phase EXCEPT ![c] = "answered"] /\ outcome' = [outcome EXCEPT ![c] = "error"]
    BY <1>4 DEF OthersSame
  <2>2. Promise!Refuse(c)
    BY <1>1, <1>4, <2>1 DEF Promise!Refuse
  <2>. QED
    BY <2>2 DEF Promise!Next
<1>5. CASE /\ PhaseOf(c) = "running" /\ PhaseOf(c)' = "answered"
           /\ OutcomeOf(c)' \in {"nil", "error"}
           /\ OutcomeOf(c)' = "error" => c \in Faulty \cup WriteFails \/ ctxDone(c)
  <2>1. PICK o \in {"nil", "error"} : o = OutcomeOf(c)'
    BY <1>5
  <2>2. phase' = [phase EXCEPT ![c] = "answered"] /\ outcome' = [outcome EXCEPT ![c] = o]
    BY <1>5, <2>1 DEF OthersSame
  <2>3. Promise!Answer(c, o)
    BY <1>1, <1>5, <2>1, <2>2 DEF Promise!Answer
  <2>. QED
    BY <2>3 DEF Promise!Next
<1>. QED
  BY <1>2, <1>3, <1>4, <1>5

LEMMA StepKeepsPromise ==
  ASSUME CommandInv, [Next]_vars PROVE [Promise!Next]_(Promise!promiseVars)
<1> DEFINE phase == [d \in Commands |-> PhaseOf(d)]
           outcome == [d \in Commands |-> OutcomeOf(d)]
           done == {d \in Commands : ctxDone(d)}
<1> USE DEF ctxVars, procVars
<1>0. caller \in [Commands -> {"new", "waiting", "joining", "writing", "returned"}]
      /\ err \in [Commands -> {"none", "nil", "exit", "start", "write"}]
  BY DEF CommandInv, TypeOK
<1>views. ViewsRight'
  BY Views, PTL
<1>1. ASSUME NEW c \in Commands, Caller(c) PROVE [Promise!Next]_(Promise!promiseVars)
  <2>1. UNCHANGED ctxVars /\ \A d \in Commands \ {c} : caller'[d] = caller[d] /\ err'[d] = err[d]
    BY <1>0, <1>1 DEF Caller, Start, StartFails, Reap, WaitReturns, Join, WriteLogs, WriteLogsFails
  <2>2. OthersSame(c) /\ \A d \in Commands : ctxDone(d)' <=> ctxDone(d)
    BY <2>1 DEF OthersSame, PhaseOf, OutcomeOf, ctxDone
  <2>3. CASE Start(c) \/ Reap(c) \/ WaitReturns(c)
    <3>1. \/ PhaseOf(c)' = PhaseOf(c) /\ OutcomeOf(c)' = OutcomeOf(c)
          \/ PhaseOf(c) = "idle" /\ PhaseOf(c)' = "running" /\ OutcomeOf(c)' = OutcomeOf(c)
      <4>1. CASE Start(c)
        <5>1. caller[c] = "new" /\ caller'[c] = "waiting"
          BY <1>0, <4>1 DEF Start
        <5>. QED
          BY <5>1, <1>views, Views DEF ViewsRight
      <4>2. CASE Reap(c) \/ WaitReturns(c)
        <5>1. caller[c] = "waiting" /\ caller'[c] \in {"waiting", "joining"}
          BY <1>0, <4>2 DEF Reap, WaitReturns
        <5>. QED
          BY <5>1, <1>views, Views DEF ViewsRight
      <4>. QED
        BY <2>3, <4>1, <4>2
    <3>. QED
      BY <2>2, <3>1, CallerKeepsPromise
  <2>4. CASE StartFails(c)
    <3>1. \/ PhaseOf(c) = "idle" /\ PhaseOf(c)' = "running" /\ OutcomeOf(c)' = OutcomeOf(c)
          \/ /\ PhaseOf(c) = "idle" /\ PhaseOf(c)' = "answered" /\ OutcomeOf(c)' = "error"
             /\ c \in Faulty \cup WriteFails
      <4>1. /\ caller[c] = "new" /\ caller'[c] \in {"writing", "returned"}
            /\ c \in Faulty /\ err'[c] = "start"
        BY <1>0, <2>4 DEF StartFails, AfterRun
      <4>. QED
        BY <4>1, <1>views, Views DEF ViewsRight
    <3>. QED
      BY <2>2, <3>1, CallerKeepsPromise
  <2>5. CASE Join(c) \/ WriteLogs(c) \/ WriteLogsFails(c)
    <3>1. \/ PhaseOf(c)' = PhaseOf(c) /\ OutcomeOf(c)' = OutcomeOf(c)
          \/ /\ PhaseOf(c) = "running" /\ PhaseOf(c)' = "answered"
             /\ OutcomeOf(c)' \in {"nil", "error"}
             /\ OutcomeOf(c)' = "error" => err'[c] # "nil"
      BY <1>0, <2>5 DEF Join, AfterRun, WriteLogs, WriteLogsFails, PhaseOf, OutcomeOf
    <3>2. err'[c] # "nil" => c \in Faulty \cup WriteFails \/ ctxDone(c)
      BY <1>0, <2>5 DEF Join, WriteLogs, WriteLogsFails, CommandInv, Answers, StoppedForAReason
    <3>. QED
      BY <2>2, <3>1, <3>2, CallerKeepsPromise
  <2>. QED
    BY <1>1, <2>3, <2>4, <2>5 DEF Caller
<1>2. ASSUME NEW c \in Commands, Handler(c) \/ ExitByItself(c) \/ ExitOnTerm(c) \/ ExitOnKill(c)
                                \/ PipeCloses(c)
      PROVE  [Promise!Next]_(Promise!promiseVars)
  <2>1. UNCHANGED <<ctxVars, caller, err>>
    BY <1>2 DEF Handler, Terminate, Kill, HandlerStops, ExitByItself, ExitOnTerm, ExitOnKill, Exit, PipeCloses
  <2>. QED
    BY <2>1 DEF Promise!promiseVars, PhaseOf, OutcomeOf, ctxDone
<1>3. ASSUME SuiteStops \/ \E c \in Commands : Expire(c)
      PROVE  [Promise!Next]_(Promise!promiseVars)
  <2>1. UNCHANGED <<caller, err>> /\ \A d \in Commands : ctxDone(d) => ctxDone(d)'
    BY <1>3 DEF SuiteStops, Expire, ctxDone
  <2>2. phase' = phase /\ outcome' = outcome
    BY <2>1 DEF PhaseOf, OutcomeOf
  <2>3. done' = done \cup done' /\ done' \in SUBSET Commands
    BY <2>1
  <2>4. Promise!Stop
    BY <2>2, <2>3 DEF Promise!Stop
  <2>. QED
    BY <2>4 DEF Promise!Next
<1>4. CASE UNCHANGED vars
  BY <1>4 DEF vars, Promise!promiseVars, PhaseOf, OutcomeOf, ctxDone
<1>. QED
  BY <1>1, <1>2, <1>3, <1>4 DEF Next, Terminated

\* A command runs once and answers once, and one that was not told to stop and
\* cannot fail by itself does not report an error.
THEOREM ImplementsCommandPromise == Spec => Promise!Safety
<1>1. Init => Promise!Init
  BY DEF Init, Promise!Init, PhaseOf, OutcomeOf, ctxDone
<1>2. CommandInv /\ [Next]_vars => [Promise!Next]_(Promise!promiseVars)
  BY StepKeepsPromise
<1>. QED
  BY <1>1, <1>2, CommandInvariant, PTL DEF Spec, Promise!Safety

==============================================================================
