------------------------------ MODULE ImageExec ------------------------------
(***************************************************************************)
(* The goroutines that get the images ready (cmd/vm.go): pullImage for     *)
(* each base image, provisionImage for each VM image.  They run at the     *)
(* same time, under one context; each build has a deadline of its own.  A  *)
(* command is one step that ends, as CommandPromise says.                  *)
(***************************************************************************)
CONSTANTS
  Bases,       \* the base images to pull
  Images,      \* the images to provision
  Faulty       \* those of them that may fail by themselves

Jobs == Bases \cup Images

ASSUME ImageAssumption == Faulty \subseteq Jobs /\ Bases \cap Images = {}

VARIABLES
  ctxDone,     \* the context of the scheduler is done
  expired,     \* the images whose deadline has passed while they were provisioned
  pc,          \* where each goroutine is
  err,         \* the error of the last command: "none", "nil" or "error"
  answer,      \* what the goroutine returns
  image        \* what virter has under the name of an image

vars == <<ctxDone, expired, pc, err, answer, image>>

\* An earlier run may have left an image of the same name.
Init ==
  /\ ctxDone = FALSE
  /\ expired = {}
  /\ pc = [j \in Jobs |-> "idle"]
  /\ err = [j \in Jobs |-> "none"]
  /\ answer = [j \in Jobs |-> "none"]
  /\ image \in [Images -> {"none", "old"}]

provisionCtxDoneByParent(i) == ctxDone

provisionCtxDone(i) == ctxDone \/ i \in expired

Errors(j, stopped) == {"nil"} \cup (IF j \in Faulty \/ stopped THEN {"error"} ELSE {})

Goto(j, place) ==
  /\ pc' = [pc EXCEPT ![j] = place]
  /\ UNCHANGED <<ctxDone, expired>>

Return(j, what) ==
  /\ Goto(j, "returned")
  /\ answer' = [answer EXCEPT ![j] = what]

------------------------------------------------------------------------------
(* pullImage: "virter image pull", with a name made from the template.     *)

TemplateFails(b) ==
  /\ pc[b] = "idle" /\ b \in Faulty
  /\ Return(b, "error")
  /\ UNCHANGED <<err, image>>

StartPull(b) ==
  /\ pc[b] = "idle"
  /\ Goto(b, "pulling")
  /\ UNCHANGED <<err, answer, image>>

PullReturns(b) ==
  /\ pc[b] = "pulling"
  /\ \E e \in Errors(b, ctxDone) : Return(b, e)
  /\ UNCHANGED <<err, image>>

------------------------------------------------------------------------------
(* provisionImage: "virter image rm", then "virter image build" under a    *)
(* context with the provisioning timeout.                                  *)

StartRemoval(i) ==
  /\ pc[i] = "idle"
  /\ Goto(i, "removing")
  /\ UNCHANGED <<err, answer, image>>

RemovalReturnsIgnored(i) ==
  /\ pc[i] = "removing"
  /\ \E e \in Errors(i, ctxDone) :
       image' \in {[image EXCEPT ![i] = "none"]} \cup (IF e = "nil" THEN {} ELSE {image})
  /\ Goto(i, "building")
  /\ UNCHANGED <<err, answer>>

\* A removal that fails may have done its work.
RemovalReturns(i) ==
  /\ pc[i] = "removing"
  /\ \E e \in Errors(i, ctxDone) :
       IF e = "nil"
       THEN Goto(i, "building") /\ image' = [image EXCEPT ![i] = "none"] /\ UNCHANGED answer
       ELSE Return(i, e) /\ image' \in {image, [image EXCEPT ![i] = "none"]}
  /\ UNCHANGED err

\* A build that fails may have committed the image.
BuildReturns(i) ==
  /\ pc[i] = "building"
  /\ Goto(i, "built")
  /\ \E e \in Errors(i, provisionCtxDone(i)) :
       /\ err' = [err EXCEPT ![i] = e]
       /\ image' \in {[image EXCEPT ![i] = "fresh"]} \cup (IF e = "nil" THEN {} ELSE {image})
  /\ UNCHANGED answer

LookAtProvisionCtxFirst(i) ==
  /\ pc[i] = "built"
  /\ IF provisionCtxDone(i) THEN Return(i, "timeout")
     ELSE Goto(i, "looking") /\ UNCHANGED answer
  /\ UNCHANGED <<err, image>>

\* The first look, at the context of the scheduler.
LookAtCtx(i) ==
  /\ pc[i] = "built"
  /\ IF ctxDone THEN Return(i, "canceled") ELSE Goto(i, "looking") /\ UNCHANGED answer
  /\ UNCHANGED <<err, image>>

\* The second, at that of the build: it may say timeout of an image that is
\* built, and of one whose context was cancelled after the first look.
LookAtProvisionCtx(i) ==
  /\ pc[i] = "looking"
  /\ Return(i, IF provisionCtxDone(i) THEN "timeout" ELSE err[i])
  /\ UNCHANGED <<err, image>>

------------------------------------------------------------------------------

Pull(b) == StartPull(b) \/ TemplateFails(b) \/ PullReturns(b)

Provision(i) ==
  StartRemoval(i) \/ RemovalReturns(i) \/ BuildReturns(i) \/ LookAtCtx(i) \/ LookAtProvisionCtx(i)

\* A failure elsewhere or a signal ends the context of all of them.
Cancel ==
  /\ ~ctxDone
  /\ ctxDone' = TRUE
  /\ UNCHANGED <<expired, pc, err, answer, image>>

Expire(i) ==
  /\ i \notin expired /\ pc[i] \in {"building", "built", "looking"}
  /\ expired' = expired \cup {i}
  /\ UNCHANGED <<ctxDone, pc, err, answer, image>>

Terminated == (\A j \in Jobs : pc[j] = "returned") /\ UNCHANGED vars

Next ==
  \/ \E b \in Bases : Pull(b)
  \/ \E i \in Images : Provision(i) \/ Expire(i)
  \/ Cancel \/ Terminated

Spec == Init /\ [][Next]_vars

\* The deadline passes, commands that are told to stop end, and what follows a
\* command runs.  A command that is not told to stop may run for ever.
FairSpec ==
  /\ Spec
  /\ \A b \in Bases : WF_vars(ctxDone /\ PullReturns(b))
  /\ \A i \in Images :
       /\ WF_vars(Expire(i))
       /\ WF_vars(ctxDone /\ RemovalReturns(i))
       /\ WF_vars(provisionCtxDone(i) /\ BuildReturns(i))
       /\ WF_vars(LookAtCtx(i) \/ LookAtProvisionCtx(i))

------------------------------------------------------------------------------
(* Properties.                                                             *)

\* An image is built only when the one of an earlier run is gone, and who is
\* told that the image is provisioned finds one that this run has built.
ProvisionedFresh ==
  \A i \in Images :
    /\ pc[i] \in {"building", "built", "looking"} => image[i] # "old"
    /\ answer[i] = "nil" => image[i] = "fresh"

\* A build that comes back when the run is cancelled is called cancelled, also
\* when its deadline has passed and when it was successful.
CancelWins == \A i \in Images : pc[i] = "built" /\ ctxDone ~> answer[i] = "canceled"

PhaseOf(j) == CASE pc[j] = "idle" -> "idle"
                [] pc[j] = "returned" -> "answered"
                [] OTHER -> "running"
OutcomeOf(j) == IF answer[j] \in {"none", "nil"} THEN answer[j] ELSE "error"
Done == IF ctxDone THEN Jobs ELSE expired

Promise == INSTANCE CommandPromise WITH
  Commands <- Jobs,
  MayFail  <- Faulty,
  Prompt   <- Jobs,
  done     <- Done,
  phase    <- [j \in Jobs |-> PhaseOf(j)],
  outcome  <- [j \in Jobs |-> OutcomeOf(j)]

\* A pull or a provisioning answers once; it reports an error only when it fails
\* by itself, its deadline has passed or the run is cancelled, and in the two
\* last cases it does answer.
KeepsPromise == Promise!Spec

==============================================================================
