----------------------------- MODULE ImageProofs ------------------------------
(***************************************************************************)
(* Theorems about pulling and provisioning, for any number of images that  *)
(* are pulled and provisioned at the same time.                            *)
(***************************************************************************)
EXTENDS ImageExec, TLAPS

Places == {"idle", "pulling", "removing", "building", "built", "looking", "returned"}
Answered == {"nil", "error", "canceled", "timeout"}

ImageTypes ==
  /\ ctxDone \in BOOLEAN
  /\ expired \subseteq Images
  /\ pc \in [Jobs -> Places]
  /\ err \in [Jobs -> {"none", "nil", "error"}]
  /\ answer \in [Jobs -> {"none"} \cup Answered]
  /\ image \in [Images -> {"none", "old", "fresh"}]

\* The image is as far as the goroutine that makes it.
InStep(i) ==
  /\ pc[i] \in {"building", "built", "looking"} => image[i] # "old"
  /\ pc[i] \in {"built", "looking"} =>
       \/ err[i] = "nil" /\ image[i] = "fresh"
       \/ err[i] = "error" /\ (i \in Faulty \/ provisionCtxDone(i))
  /\ answer[i] = "nil" => image[i] = "fresh"

\* The inductive invariant.
ImageInv ==
  /\ ImageTypes
  /\ \A j \in Jobs : answer[j] = "none" <=> pc[j] # "returned"
  /\ \A i \in Images : InStep(i)

LEMMA InitImages == Init => ImageInv
<1> SUFFICES ASSUME Init PROVE ImageInv
  OBVIOUS
<1>1. ImageTypes
  BY DEF Init, ImageTypes, Places
<1>2. \A j \in Jobs : answer[j] = "none" <=> pc[j] # "returned"
  BY DEF Init
<1>3. \A i \in Images : InStep(i)
  BY DEF Init, InStep, Jobs
<1>. QED
  BY <1>1, <1>2, <1>3 DEF ImageInv

\* A step of one goroutine leaves the images of the others in step.
LEMMA OthersInStep ==
  ASSUME ImageInv, NEW i \in Images,
         pc'[i] = pc[i], err'[i] = err[i], answer'[i] = answer[i], image'[i] = image[i],
         ctxDone => ctxDone', expired \subseteq expired'
  PROVE  InStep(i)'
BY DEF ImageInv, InStep, provisionCtxDone

LEMMA PullStep ==
  ASSUME ImageInv, NEW b \in Bases, Pull(b)
  PROVE  ImageInv'
<1>1. b \in Jobs /\ b \notin Images
  BY ImageAssumption DEF Jobs
<1>2. /\ UNCHANGED <<ctxDone, expired, err, image>>
      /\ \E place \in Places, a \in {"none"} \cup Answered :
           /\ pc' = [pc EXCEPT ![b] = place] /\ answer' = [answer EXCEPT ![b] = a]
           /\ a = "none" <=> place # "returned"
  <2>1. CASE StartPull(b)
    <3>1. answer' = [answer EXCEPT ![b] = "none"]
      BY <1>1, <2>1 DEF StartPull, ImageInv, ImageTypes
    <3>. QED
      BY <2>1, <3>1 DEF StartPull, Goto, Places
  <2>2. CASE TemplateFails(b)
    BY <2>2 DEF TemplateFails, Return, Goto, Places, Answered
  <2>3. CASE PullReturns(b)
    BY <2>3 DEF PullReturns, Errors, Return, Goto, Places, Answered
  <2>. QED
    BY <2>1, <2>2, <2>3 DEF Pull
<1>3. ImageTypes'
  BY <1>2 DEF ImageInv, ImageTypes
<1>4. \A j \in Jobs : answer'[j] = "none" <=> pc'[j] # "returned"
  BY <1>1, <1>2 DEF ImageInv, ImageTypes
<1>5. \A i \in Images : InStep(i)'
  BY <1>1, <1>2, OthersInStep DEF ImageInv, ImageTypes, Jobs
<1>. QED
  BY <1>3, <1>4, <1>5 DEF ImageInv

LEMMA ProvisionStep ==
  ASSUME ImageInv, NEW i \in Images, Provision(i)
  PROVE  ImageInv'
<1>1. i \in Jobs /\ UNCHANGED <<ctxDone, expired>>
  BY DEF Jobs, Provision, StartRemoval, RemovalReturns, BuildReturns, LookAtCtx,
         LookAtProvisionCtx, Return, Goto, Errors
<1>2. PICK place \in Places, a \in {"none"} \cup Answered, e \in {"none", "nil", "error"},
           img \in {"none", "old", "fresh"} :
        /\ pc' = [pc EXCEPT ![i] = place] /\ answer' = [answer EXCEPT ![i] = a]
        /\ err' = [err EXCEPT ![i] = e] /\ image' = [image EXCEPT ![i] = img]
        /\ a = "none" <=> place # "returned"
        /\ place \in {"building", "built", "looking"} => img # "old"
        /\ place \in {"built", "looking"} =>
             \/ e = "nil" /\ img = "fresh"
             \/ e = "error" /\ (i \in Faulty \/ provisionCtxDone(i))
        /\ a = "nil" => img = "fresh"
  <2>0. /\ pc[i] \in Places /\ answer[i] \in {"none"} \cup Answered
        /\ err[i] \in {"none", "nil", "error"} /\ image[i] \in {"none", "old", "fresh"}
        /\ err = [err EXCEPT ![i] = err[i]] /\ answer = [answer EXCEPT ![i] = answer[i]]
        /\ image = [image EXCEPT ![i] = image[i]]
    BY <1>1 DEF ImageInv, ImageTypes
  <2>1. CASE StartRemoval(i)
    BY <1>1, <2>0, <2>1 DEF StartRemoval, Goto, Places, ImageInv, Answered
  <2>2. CASE RemovalReturns(i)
    <3>1. PICK e \in Errors(i, ctxDone) :
            IF e = "nil"
            THEN Goto(i, "building") /\ image' = [image EXCEPT ![i] = "none"] /\ UNCHANGED answer
            ELSE Return(i, e) /\ image' \in {image, [image EXCEPT ![i] = "none"]}
      BY <2>2 DEF RemovalReturns
    <3>2. pc[i] = "removing" /\ UNCHANGED err /\ answer[i] = "none"
      BY <1>1, <2>2 DEF RemovalReturns, ImageInv
    <3>3. CASE e = "nil"
      BY <2>0, <3>1, <3>2, <3>3 DEF Goto, Places, Answered
    <3>4. CASE e # "nil"
      <4>1. e = "error" /\ Return(i, "error")
        BY <3>1, <3>4 DEF Errors
      <4>2. PICK img \in {"none", "old", "fresh"} : image' = [image EXCEPT ![i] = img]
        BY <2>0, <3>1, <3>4
      <4>. QED
        BY <2>0, <3>2, <4>1, <4>2 DEF Return, Goto, Places, Answered
    <3>. QED
      BY <3>3, <3>4
  <2>3. CASE BuildReturns(i)
    <3>1. PICK e \in Errors(i, provisionCtxDone(i)) :
            /\ err' = [err EXCEPT ![i] = e]
            /\ image' \in {[image EXCEPT ![i] = "fresh"]} \cup (IF e = "nil" THEN {} ELSE {image})
      BY <2>3 DEF BuildReturns
    <3>2. /\ pc[i] = "building" /\ UNCHANGED answer /\ answer[i] = "none" /\ image[i] # "old"
          /\ Goto(i, "built")
      BY <1>1, <2>3 DEF BuildReturns, ImageInv, InStep
    <3>3. e \in {"nil", "error"} /\ (e = "error" => i \in Faulty \/ provisionCtxDone(i))
      BY <3>1 DEF Errors
    <3>4. PICK img \in {"none", "fresh"} :
            image' = [image EXCEPT ![i] = img] /\ (e = "nil" => img = "fresh")
      BY <2>0, <3>1, <3>2, <3>3
    <3>. QED
      BY <2>0, <3>1, <3>2, <3>3, <3>4 DEF Goto, Places, Answered
  <2>4. CASE LookAtCtx(i)
    <3>1. pc[i] = "built" /\ answer[i] = "none" /\ UNCHANGED <<err, image>> /\ InStep(i)
      BY <1>1, <2>4 DEF LookAtCtx, ImageInv
    <3>2. CASE ctxDone
      BY <2>0, <2>4, <3>1, <3>2 DEF LookAtCtx, Return, Goto, Places, Answered
    <3>3. CASE ~ctxDone
      BY <2>0, <2>4, <3>1, <3>3 DEF LookAtCtx, Goto, Places, Answered, InStep
    <3>. QED
      BY <3>2, <3>3
  <2>5. CASE LookAtProvisionCtx(i)
    <3>1. pc[i] = "looking" /\ UNCHANGED <<err, image>> /\ InStep(i)
      BY <2>5 DEF LookAtProvisionCtx, ImageInv
    <3>2. PICK a \in {"timeout", "nil", "error"} :
            Return(i, a) /\ (a = "nil" => image[i] = "fresh")
      BY <2>5, <3>1 DEF LookAtProvisionCtx, InStep
    <3>. QED
      BY <2>0, <3>1, <3>2 DEF Return, Goto, Places, Answered
  <2>. QED
    BY <2>1, <2>2, <2>3, <2>4, <2>5 DEF Provision
<1>3. ImageTypes'
  BY <1>1, <1>2 DEF ImageInv, ImageTypes
<1>4. \A j \in Jobs : answer'[j] = "none" <=> pc'[j] # "returned"
  BY <1>1, <1>2 DEF ImageInv, ImageTypes
<1>5. InStep(i)'
  BY <1>1, <1>2 DEF ImageInv, ImageTypes, InStep, provisionCtxDone
<1>6. ASSUME NEW k \in Images, k # i PROVE InStep(k)'
  <2>1. pc'[k] = pc[k] /\ err'[k] = err[k] /\ answer'[k] = answer[k] /\ image'[k] = image[k]
    BY <1>1, <1>2, <1>6 DEF ImageInv, ImageTypes, Jobs
  <2>. QED
    BY <1>1, <2>1, OthersInStep
<1>. QED
  BY <1>3, <1>4, <1>5, <1>6 DEF ImageInv

LEMMA NextImages == ImageInv /\ [Next]_vars => ImageInv'
<1> SUFFICES ASSUME ImageInv, [Next]_vars PROVE ImageInv'
  OBVIOUS
<1>1. CASE Cancel \/ \E i \in Images : Expire(i)
  <2>1. /\ UNCHANGED <<pc, err, answer, image>> /\ ImageTypes'
        /\ ctxDone => ctxDone' /\ expired \subseteq expired'
    BY <1>1 DEF Cancel, Expire, ImageInv, ImageTypes
  <2>2. expired \subseteq expired'
    BY <1>1 DEF Cancel, Expire
  <2>. QED
    BY <2>1, <2>2, OthersInStep DEF ImageInv
<1>2. CASE UNCHANGED vars
  BY <1>2 DEF vars, ImageInv, ImageTypes, InStep, provisionCtxDone
<1>. QED
  BY <1>1, <1>2, PullStep, ProvisionStep DEF Next, Terminated

THEOREM ImageInvariant == Spec => []ImageInv
BY InitImages, NextImages, PTL DEF Spec

\* No image of an earlier run is taken for one of this run, neither by the build
\* nor by who is told that the image is provisioned.
THEOREM FreshImages == Spec => []ProvisionedFresh
<1>1. ImageInv => ProvisionedFresh
  BY DEF ImageInv, InStep, ProvisionedFresh
<1>. QED
  BY <1>1, ImageInvariant, PTL

------------------------------------------------------------------------------
(* Pulling and provisioning implement CommandPromise.                      *)

ViewsRight ==
  \A j \in Jobs :
    /\ pc[j] = "idle" => PhaseOf(j) = "idle"
    /\ pc[j] \in {"pulling", "removing", "building", "built", "looking"} => PhaseOf(j) = "running"
    /\ pc[j] = "returned" => PhaseOf(j) = "answered"
    /\ answer[j] \in {"none", "nil"} => OutcomeOf(j) = answer[j]
    /\ answer[j] \in {"error", "canceled", "timeout"} => OutcomeOf(j) = "error"

LEMMA Views == ViewsRight
<1> SUFFICES ASSUME NEW j \in Jobs PROVE
      /\ pc[j] = "idle" => PhaseOf(j) = "idle"
      /\ pc[j] \in {"pulling", "removing", "building", "built", "looking"} => PhaseOf(j) = "running"
      /\ pc[j] = "returned" => PhaseOf(j) = "answered"
      /\ answer[j] \in {"none", "nil"} => OutcomeOf(j) = answer[j]
      /\ answer[j] \in {"error", "canceled", "timeout"} => OutcomeOf(j) = "error"
  BY DEF ViewsRight
<1>1. /\ answer[j] \in {"none", "nil"} => OutcomeOf(j) = answer[j]
      /\ answer[j] \in {"error", "canceled", "timeout"} => OutcomeOf(j) = "error"
  BY DEF OutcomeOf
<1>2. pc[j] = "idle" => PhaseOf(j) = "idle"
  BY DEF PhaseOf
<1>3. pc[j] \in {"pulling", "removing", "building", "built", "looking"} => PhaseOf(j) = "running"
  BY DEF PhaseOf
<1>4. pc[j] = "returned" => PhaseOf(j) = "answered"
  BY DEF PhaseOf
<1>. QED
  BY <1>1, <1>2, <1>3, <1>4

\* A goroutine goes on, or returns an answer that it may give.
JobStep(j) ==
  \E place \in Places, a \in {"none"} \cup Answered :
    /\ pc' = [pc EXCEPT ![j] = place] /\ answer' = [answer EXCEPT ![j] = a]
    /\ a = "none" <=> place # "returned"
    /\ place # "idle" /\ pc[j] # "returned"
    /\ a \in {"error", "canceled", "timeout"} => j \in Faulty \/ j \in Done
    /\ pc[j] = "idle" => a = "none" \/ (a = "error" /\ j \in Faulty)

LEMMA JobKeepsPromise ==
  ASSUME ImageInv, NEW j \in Jobs, JobStep(j), UNCHANGED <<ctxDone, expired>>
  PROVE  [Promise!Next]_(Promise!promiseVars)
<1> DEFINE phase == [k \in Jobs |-> PhaseOf(k)]
           outcome == [k \in Jobs |-> OutcomeOf(k)]
<1>0. ViewsRight'
  BY Views, PTL
<1>1. PICK place \in Places, a \in {"none"} \cup Answered :
        /\ pc' = [pc EXCEPT ![j] = place] /\ answer' = [answer EXCEPT ![j] = a]
        /\ a = "none" <=> place # "returned"
        /\ place # "idle" /\ pc[j] # "returned"
        /\ a \in {"error", "canceled", "timeout"} => j \in Faulty \/ j \in Done
        /\ pc[j] = "idle" => a = "none" \/ (a = "error" /\ j \in Faulty)
  BY DEF JobStep
<1>2. UNCHANGED Done
  BY DEF Done
<1>3. \A k \in Jobs \ {j} : PhaseOf(k)' = PhaseOf(k) /\ OutcomeOf(k)' = OutcomeOf(k)
  BY <1>1 DEF PhaseOf, OutcomeOf, ImageInv, ImageTypes
<1>4. /\ answer[j] = "none" /\ OutcomeOf(j) = "none"
      /\ PhaseOf(j) = IF pc[j] = "idle" THEN "idle" ELSE "running"
      /\ pc'[j] = place /\ answer'[j] = a
  BY <1>1, Views DEF ViewsRight, ImageInv, ImageTypes, Places
<1>5. CASE a = "none"
  <2>1. PhaseOf(j)' = "running" /\ OutcomeOf(j)' = "none"
    BY <1>0, <1>1, <1>4, <1>5 DEF ViewsRight, Places
  <2>2. phase' = [phase EXCEPT ![j] = "running"] /\ outcome' = outcome
    BY <1>3, <1>4, <2>1
  <2>3. CASE pc[j] = "idle"
    <3>1. Promise!Begin(j)
      BY <1>2, <1>4, <2>2, <2>3 DEF Promise!Begin
    <3>. QED
      BY <3>1 DEF Promise!Next
  <2>4. CASE pc[j] # "idle"
    <3>1. phase' = phase
      BY <1>4, <2>2, <2>4
    <3>. QED
      BY <1>2, <2>2, <3>1 DEF Promise!promiseVars
  <2>. QED
    BY <2>3, <2>4
<1>6. CASE a # "none"
  <2>1. PICK o \in {"nil", "error"} :
          /\ OutcomeOf(j)' = o /\ PhaseOf(j)' = "answered"
          /\ o = "error" <=> a # "nil"
    BY <1>0, <1>1, <1>4, <1>6 DEF ViewsRight, Answered
  <2>2. phase' = [phase EXCEPT ![j] = "answered"] /\ outcome' = [outcome EXCEPT ![j] = o]
    BY <1>3, <2>1
  <2>3. o = "error" => j \in Faulty \cup Done
    BY <1>1, <1>6, <2>1 DEF Answered
  <2>4. CASE pc[j] = "idle"
    <3>1. Promise!Refuse(j)
      BY <1>1, <1>2, <1>4, <1>6, <2>1, <2>2, <2>4 DEF Promise!Refuse
    <3>. QED
      BY <3>1 DEF Promise!Next
  <2>5. CASE pc[j] # "idle"
    <3>1. Promise!Answer(j, o)
      BY <1>2, <1>4, <2>2, <2>3, <2>5 DEF Promise!Answer
    <3>. QED
      BY <3>1 DEF Promise!Next
  <2>. QED
    BY <2>4, <2>5
<1>. QED
  BY <1>5, <1>6

LEMMA PullsAreJobs ==
  ASSUME ImageInv, NEW b \in Bases, Pull(b)
  PROVE  JobStep(b) /\ UNCHANGED <<ctxDone, expired>>
<1>1. b \in Jobs /\ answer = [answer EXCEPT ![b] = answer[b]]
      /\ (answer[b] = "none" <=> pc[b] # "returned")
  BY DEF Jobs, ImageInv, ImageTypes
<1>2. CASE StartPull(b)
  BY <1>1, <1>2 DEF StartPull, Goto, JobStep, Places
<1>3. CASE TemplateFails(b)
  BY <1>3 DEF TemplateFails, Return, Goto, JobStep, Places, Answered
<1>4. CASE PullReturns(b)
  <2>1. PICK e \in {"nil", "error"} : Return(b, e) /\ (e = "error" => b \in Faulty \/ ctxDone)
    BY <1>4 DEF PullReturns, Errors
  <2>. QED
    BY <1>1, <1>4, <2>1 DEF PullReturns, Return, Goto, JobStep, Places, Answered, Done
<1>. QED
  BY <1>2, <1>3, <1>4 DEF Pull

LEMMA ProvisioningsAreJobs ==
  ASSUME ImageInv, NEW i \in Images, Provision(i)
  PROVE  JobStep(i) /\ UNCHANGED <<ctxDone, expired>>
<1>1. i \in Jobs /\ answer = [answer EXCEPT ![i] = answer[i]] /\ InStep(i)
      /\ (answer[i] = "none" <=> pc[i] # "returned")
  BY DEF Jobs, ImageInv, ImageTypes
<1>2. CASE StartRemoval(i)
  BY <1>1, <1>2 DEF StartRemoval, Goto, JobStep, Places
<1>3. CASE RemovalReturns(i)
  <2>1. PICK e \in {"nil", "error"} :
          /\ e = "error" => i \in Faulty \/ ctxDone
          /\ IF e = "nil" THEN Goto(i, "building") /\ UNCHANGED answer ELSE Return(i, e)
    BY <1>3 DEF RemovalReturns, Errors
  <2>2. CASE e = "nil"
    BY <1>1, <1>3, <2>1, <2>2 DEF RemovalReturns, Goto, JobStep, Places
  <2>3. CASE e = "error"
    BY <1>1, <1>3, <2>1, <2>3 DEF RemovalReturns, Return, Goto, JobStep, Places, Answered, Done
  <2>. QED
    BY <2>2, <2>3
<1>4. CASE BuildReturns(i)
  BY <1>1, <1>4 DEF BuildReturns, Goto, JobStep, Places
<1>5. CASE LookAtCtx(i)
  <2>1. CASE ctxDone
    BY <1>1, <1>5, <2>1 DEF LookAtCtx, Return, Goto, JobStep, Places, Answered, Done
  <2>2. CASE ~ctxDone
    BY <1>1, <1>5, <2>2 DEF LookAtCtx, Goto, JobStep, Places
  <2>. QED
    BY <2>1, <2>2
<1>6. CASE LookAtProvisionCtx(i)
  <2>1. PICK a \in {"timeout", "nil", "error"} :
          Return(i, a) /\ (a # "nil" => i \in Faulty \/ provisionCtxDone(i))
    BY <1>1, <1>6 DEF LookAtProvisionCtx, InStep
  <2>. QED
    BY <1>1, <1>6, <2>1 DEF LookAtProvisionCtx, Return, Goto, JobStep, Places, Answered, Done, provisionCtxDone
<1>. QED
  BY <1>2, <1>3, <1>4, <1>5, <1>6 DEF Provision

LEMMA StepKeepsPromise ==
  ASSUME ImageInv, [Next]_vars PROVE [Promise!Next]_(Promise!promiseVars)
<1> DEFINE phase == [k \in Jobs |-> PhaseOf(k)]
           outcome == [k \in Jobs |-> OutcomeOf(k)]
<1>1. ASSUME NEW b \in Bases, Pull(b) PROVE [Promise!Next]_(Promise!promiseVars)
  BY <1>1, PullsAreJobs, JobKeepsPromise DEF Jobs
<1>2. ASSUME NEW i \in Images, Provision(i) PROVE [Promise!Next]_(Promise!promiseVars)
  BY <1>2, ProvisioningsAreJobs, JobKeepsPromise DEF Jobs
<1>3. CASE Cancel \/ \E i \in Images : Expire(i)
  <2>1. UNCHANGED <<pc, answer>> /\ Done \subseteq Done' /\ Done' \subseteq Jobs
    BY <1>3 DEF Cancel, Expire, Done, ImageInv, ImageTypes, Jobs
  <2>2. phase' = phase /\ outcome' = outcome
    BY <2>1 DEF PhaseOf, OutcomeOf
  <2>3. Done' = Done \cup Done' /\ Done' \in SUBSET Jobs
    BY <2>1
  <2>4. Promise!Stop
    BY <2>2, <2>3 DEF Promise!Stop
  <2>. QED
    BY <2>4 DEF Promise!Next
<1>4. CASE UNCHANGED vars
  BY <1>4 DEF vars, Promise!promiseVars, PhaseOf, OutcomeOf, Done
<1>. QED
  BY <1>1, <1>2, <1>3, <1>4 DEF Next, Terminated

\* A pull or a provisioning answers once, and with an error only when it may fail
\* by itself, its deadline has passed or the run is cancelled.
THEOREM ImplementsImagePromise == Spec => Promise!Safety
<1>1. Init => Promise!Init
  BY DEF Init, Promise!Init, PhaseOf, OutcomeOf, Done
<1>2. ImageInv /\ [Next]_vars => [Promise!Next]_(Promise!promiseVars)
  BY StepKeepsPromise
<1>. QED
  BY <1>1, <1>2, ImageInvariant, PTL DEF Promise!Safety, Spec

==============================================================================
