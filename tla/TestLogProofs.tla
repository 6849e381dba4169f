----------------------------- MODULE TestLogProofs -----------------------------
(***************************************************************************)
(* The standard log and the logs of the tests agree, for all sets of tests *)
(* and of VMs.                                                             *)
(***************************************************************************)
EXTENDS TestLog, TLAPS

Places == {"none", "hook", "copied", "logged", "fired", "written"}

LogTypes ==
  /\ phase \in [Tests -> DOMAIN Says]
  /\ call \in [Tests -> [Messages -> Places]]
  /\ data \in [Tests -> [Messages -> Tests \cup {NoID}]]
  /\ DOMAIN log = Tests

\* The ID is in the data exactly while the hook needs it there.
IDPresent(t, what) ==
  data[t][what] = IF call[t][what] \in {"copied", "logged"} THEN t ELSE NoID

\* How far the call of the logger is says which of the logs the message is in.
InStd(t, what) ==
  Written(t, what) \in std <=> call[t][what] \in {"logged", "fired", "written"}

InLog(t, what) == Written(NoID, what) \in log[t] <=> call[t][what] = "written"

\* Calls in progress belong to the phase: no phase ends before they do.
InPhase(t, what) ==
  call[t][what] \notin {"none", "written"} => what \in Says[phase[t]]

\* The logs have nothing but messages, and what dumpStderr writes.
OnlyMessages ==
  /\ \A m \in std : \E t \in Tests, what \in Messages : m = Written(t, what)
  /\ \A t \in Tests : \A m \in log[t] :
       \E what \in Messages \cup {"stderr"} : m = Written(NoID, what)

\* The inductive invariant.
LogInv ==
  /\ LogTypes
  /\ OnlyMessages
  /\ \A t \in Tests : \A what \in Messages :
       IDPresent(t, what) /\ InStd(t, what) /\ InLog(t, what) /\ InPhase(t, what)

LEMMA PhasesFollow == \A from \in DOMAIN Says : Following[from] \subseteq DOMAIN Says
BY DEF Says, Following

LEMMA WhatIsWritten ==
  ASSUME NEW id, NEW what, NEW id2, NEW what2
  PROVE  Written(id, what) = Written(id2, what2) <=> id = id2 /\ what = what2
BY DEF Written

LEMMA NotStderr == "stderr" \notin Messages
BY NodesAssumption DEF Messages

\* A step of one call of a logger, with what it may do to the data and the logs.
LEMMA CallStep ==
  ASSUME LogInv, NEW t \in Tests, NEW what \in Messages,
         Debugf(t, what) \/ Fire(t, what) \/ WriteEntry(t, what)
  PROVE  LogInv'
<1>. USE DEF LogInv, Step
<1>1. UNCHANGED phase
  BY DEF Debugf, Fire, AddID, LogCopy, DeleteID, WriteEntry
<1>2. PICK from \in Places, to \in Places : Step(t, what, from, to)
  BY DEF Debugf, Fire, AddID, LogCopy, DeleteID, WriteEntry, Places
<1>3. what \in Says[phase[t]]
  BY DEF Debugf, Fire, AddID, LogCopy, DeleteID, WriteEntry, InPhase
<1>4. data' \in [Tests -> [Messages -> Tests \cup {NoID}]] /\ DOMAIN log' = Tests
  <2>1. data' = data \/ \E id \in Tests \cup {NoID} : data' = [data EXCEPT ![t][what] = id]
    BY DEF Debugf, Fire, AddID, LogCopy, DeleteID, WriteEntry
  <2>2. log' = log \/ \E m : log' = [log EXCEPT ![t] = @ \cup {m}]
    BY DEF Debugf, Fire, AddID, LogCopy, DeleteID, WriteEntry
  <2>3. data' \in [Tests -> [Messages -> Tests \cup {NoID}]]
    <3>1. data \in [Tests -> [Messages -> Tests \cup {NoID}]]
      BY DEF LogTypes
    <3>2. ASSUME NEW id \in Tests \cup {NoID}
          PROVE  [data EXCEPT ![t][what] = id] \in [Tests -> [Messages -> Tests \cup {NoID}]]
      BY <3>1
    <3>. QED
      BY <2>1, <3>1, <3>2
  <2>4. DOMAIN log' = Tests
    BY <2>2 DEF LogTypes
  <2>. QED
    BY <2>3, <2>4
<1>5. LogTypes'
  BY <1>1, <1>2, <1>4 DEF LogTypes
<1>6. ASSUME NEW u \in Tests, NEW w \in Messages, u # t \/ w # what
      PROVE  call'[u][w] = call[u][w] /\ data'[u][w] = data[u][w]
  <2>1. call'[u][w] = call[u][w]
    BY <1>2, <1>6 DEF LogTypes
  <2>2. data' = data \/ \E id : data' = [data EXCEPT ![t][what] = id]
    BY DEF Debugf, Fire, AddID, LogCopy, DeleteID, WriteEntry
  <2>3. data'[u][w] = data[u][w]
    BY <1>6, <2>2 DEF LogTypes
  <2>. QED
    BY <2>1, <2>3
<1>7. call'[t][what] = to
  BY <1>2 DEF LogTypes
<1>8. IDPresent(t, what)
  OBVIOUS
<1>9. \/ std' = std /\ ~(call[t][what] = "copied")
      \/ call[t][what] = "copied" /\ to = "logged" /\ std' = std \cup {Written(t, what)}
  BY <1>7, <1>8 DEF Debugf, Fire, AddID, LogCopy, DeleteID, WriteEntry, IDPresent, LogTypes
<1>10. \/ log' = log /\ ~(call[t][what] = "fired")
       \/ /\ call[t][what] = "fired" /\ to = "written"
          /\ log' = [log EXCEPT ![t] = @ \cup {Written(NoID, what)}]
  BY <1>7, <1>8 DEF Debugf, Fire, AddID, LogCopy, DeleteID, WriteEntry, IDPresent, LogTypes
<1>11. \/ call[t][what] = "none" /\ to = "hook" /\ data' = data
       \/ call[t][what] = "hook" /\ to = "copied" /\ data'[t][what] = t
       \/ call[t][what] = "copied" /\ to = "logged" /\ data' = data
       \/ call[t][what] = "logged" /\ to = "fired" /\ data'[t][what] = NoID
       \/ call[t][what] = "fired" /\ to = "written" /\ data' = data
  BY <1>7 DEF Debugf, Fire, AddID, LogCopy, DeleteID, WriteEntry, LogTypes
<1>12. OnlyMessages'
  <2>1. \A m \in std' : \E u \in Tests, w \in Messages : m = Written(u, w)
    BY <1>9 DEF OnlyMessages
  <2>2. ASSUME NEW u \in Tests, NEW m \in log'[u]
        PROVE  \E w \in Messages \cup {"stderr"} : m = Written(NoID, w)
    BY <1>10, <2>2 DEF OnlyMessages, LogTypes
  <2>. QED
    BY <2>1, <2>2 DEF OnlyMessages
<1>13. ASSUME NEW u \in Tests, NEW w \in Messages
       PROVE  (IDPresent(u, w) /\ InStd(u, w) /\ InLog(u, w) /\ InPhase(u, w))'
  <2>1. IDPresent(u, w) /\ InStd(u, w) /\ InLog(u, w) /\ InPhase(u, w)
    OBVIOUS
  <2>2. CASE u = t /\ w = what
    <3>1. IDPresent(t, what)'
      BY <1>7, <1>11, <2>1, <2>2 DEF IDPresent
    <3>2. InStd(t, what)'
      BY <1>7, <1>9, <1>11, <2>1, <2>2 DEF InStd
    <3>3. InLog(t, what)'
      BY <1>7, <1>10, <1>11, <2>1, <2>2 DEF InLog, LogTypes
    <3>4. InPhase(t, what)'
      BY <1>1, <1>3 DEF InPhase
    <3>. QED
      BY <2>2, <3>1, <3>2, <3>3, <3>4
  <2>3. CASE u # t \/ w # what
    <3>1. IDPresent(u, w)' /\ InPhase(u, w)'
      BY <1>1, <1>6, <2>1, <2>3 DEF IDPresent, InPhase
    <3>2. Written(u, w) # Written(t, what)
      BY <2>3, WhatIsWritten
    <3>3. InStd(u, w)'
      BY <1>6, <1>9, <2>1, <2>3, <3>2 DEF InStd
    <3>4. u = t => Written(NoID, w) # Written(NoID, what)
      BY <2>3, WhatIsWritten
    <3>5. Written(NoID, w) \in log'[u] <=> Written(NoID, w) \in log[u]
      BY <1>10, <3>4 DEF LogTypes
    <3>6. InLog(u, w)'
      BY <1>6, <2>1, <2>3, <3>5 DEF InLog
    <3>. QED
      BY <3>1, <3>3, <3>6
  <2>. QED
    BY <2>2, <2>3
<1>. QED
  BY <1>5, <1>12, <1>13

LEMMA LogStep == LogInv /\ [Next]_vars => LogInv'
<1>. SUFFICES ASSUME LogInv, [Next]_vars PROVE LogInv'
  OBVIOUS
<1>. USE DEF LogInv
<1>1. ASSUME NEW t \in Tests, DumpStderr(t)
      PROVE  LogInv'
  <2>1. LogTypes' /\ OnlyMessages'
    BY <1>1 DEF DumpStderr, LogTypes, OnlyMessages
  <2>2. ASSUME NEW u \in Tests, NEW w \in Messages
        PROVE  (IDPresent(u, w) /\ InStd(u, w) /\ InLog(u, w) /\ InPhase(u, w))'
    <3>1. Written(NoID, w) # Written(NoID, "stderr")
      BY NotStderr, WhatIsWritten
    <3>. QED
      BY <1>1, <3>1 DEF DumpStderr, LogTypes, IDPresent, InStd, InLog, InPhase
  <2>. QED
    BY <2>1, <2>2
<1>2. ASSUME NEW t \in Tests, Proceed(t)
      PROVE  LogInv'
  <2>1. LogTypes' /\ OnlyMessages'
    BY <1>2, PhasesFollow DEF Proceed, LogTypes, OnlyMessages
  <2>2. ASSUME NEW u \in Tests, NEW w \in Messages
        PROVE  (IDPresent(u, w) /\ InStd(u, w) /\ InLog(u, w))'
    BY <1>2 DEF Proceed, IDPresent, InStd, InLog
  <2>3. ASSUME NEW u \in Tests, NEW w \in Messages
        PROVE  InPhase(u, w)'
    <3>1. InPhase(u, w)
      OBVIOUS
    <3>2. CASE u = t
      BY <1>2, <3>1, <3>2 DEF Proceed, InPhase
    <3>3. CASE u # t
      BY <1>2, <3>1, <3>3 DEF Proceed, InPhase, LogTypes
    <3>. QED
      BY <3>2, <3>3
  <2>. QED
    BY <2>1, <2>2, <2>3
<1>3. CASE UNCHANGED vars
  BY <1>3 DEF vars, LogTypes, OnlyMessages, IDPresent, InStd, InLog, InPhase
<1>. QED
  BY <1>1, <1>2, <1>3, CallStep DEF Next, Terminated

LEMMA LogInvariance == Spec => []LogInv
<1>1. Init => LogInv
  BY DEF Init, LogInv, LogTypes, OnlyMessages, IDPresent, InStd, InLog, InPhase, Says, Places
<1>. QED
  BY <1>1, LogStep, PTL DEF Spec

\* What a test logs is in the standard log under its ID and in its own log without
\* one, although the hook puts the ID into data that both writers read: whatever
\* the tests and the goroutines that start their VMs do at the same time, and
\* wherever in the two writes a call is.
THEOREM LogsAlwaysAgree == Spec => []LogsAgree
<1>1. ASSUME LogInv PROVE LogsAgree
  <2>. USE <1>1 DEF LogInv
  <2>1. \A m \in std : m.id \in Tests
    BY DEF OnlyMessages, Written
  <2>2. ASSUME NEW t \in Tests, NEW m \in log[t]
        PROVE  /\ m.id = NoID
               /\ m.what # "stderr" => Written(t, m.what) \in std
    <3>1. PICK what \in Messages \cup {"stderr"} : m = Written(NoID, what)
      BY DEF OnlyMessages
    <3>2. m.id = NoID /\ m.what = what
      BY <3>1 DEF Written
    <3>3. what # "stderr" => Written(t, what) \in std
      BY <3>1 DEF InLog, InStd
    <3>. QED
      BY <3>2, <3>3
  <2>3. ASSUME NEW t \in Tests, phase[t] = "done", NEW m \in std, m.id = t
        PROVE  \E e \in log[t] : e.what # "stderr" /\ e.what = m.what
    <3>1. PICK u \in Tests, what \in Messages : m = Written(u, what)
      BY DEF OnlyMessages
    <3>2. u = t /\ m.what = what
      BY <2>3, <3>1 DEF Written
    <3>3. call[t][what] = "written"
      BY <2>3, <3>1, <3>2 DEF InStd, InPhase, Says
    <3>4. Written(NoID, what) \in log[t] /\ Written(NoID, what).what = what
      BY <3>3 DEF InLog, Written
    <3>. QED
      BY <3>2, <3>4, NotStderr
  <2>4. \A t, what : Written(t, what).id = t /\ Written(t, what).what = what
    BY DEF Written
  <2>5. ASSUME NEW t \in Tests
        PROVE  /\ {m.what : m \in log[t]} \ {"stderr"} \subseteq {m.what : m \in {n \in std : n.id = t}}
               /\ phase[t] = "done" =>
                    {m.what : m \in {n \in std : n.id = t}} \subseteq {m.what : m \in log[t]} \ {"stderr"}
    <3>1. {m.what : m \in log[t]} \ {"stderr"} \subseteq {m.what : m \in {n \in std : n.id = t}}
      BY <2>2, <2>4
    <3>2. phase[t] = "done" =>
            {m.what : m \in {n \in std : n.id = t}} \subseteq {m.what : m \in log[t]} \ {"stderr"}
      BY <2>3
    <3>. QED
      BY <3>1, <3>2
  <2>. QED
    BY <2>1, <2>2, <2>5 DEF LogsAgree
<1>. QED
  BY <1>1, LogInvariance, PTL

==============================================================================
