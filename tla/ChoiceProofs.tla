---------------------------- MODULE ChoiceProofs -----------------------------
(***************************************************************************)
(* What chooseNextAction chooses: a test gets everything it asks for,      *)
(* larger runs go first, no run is forgotten, and no more networks are     *)
(* added than tests can use at once.  The helpers of the choice look for   *)
(* the k-th or the least element of a finite set of numbers.  That there   *)
(* is one is shown by counting: rank is an injection of the set into as    *)
(* many ranks, hence a bijection.                                          *)
(***************************************************************************)
EXTENDS SchedulerProofs

------------------------------------------------------------------------------
(* Every test gets what it asks for.                                       *)

\* How many elements of S precede x.
RankIn(S, x) == Cardinality({y \in S : y < x})

\* In a finite set of integers every rank occurs once.
LEMMA RankBijective ==
  ASSUME NEW S, IsFiniteSet(S), S \subseteq Int
  PROVE  /\ Cardinality(S) \in Nat
         /\ [x \in S |-> RankIn(S, x)] \in Bijection(S, 0 .. (Cardinality(S) - 1))
<1> DEFINE n == Cardinality(S)
           rank == [x \in S |-> RankIn(S, x)]
<1>1. n \in Nat
  BY FS_CardinalityType
<1>2. ASSUME NEW x \in S
      PROVE  IsFiniteSet({y \in S : y < x}) /\ RankIn(S, x) \in 0 .. (n - 1)
  <2>1. {y \in S : y < x} \in SUBSET S /\ {y \in S : y < x} # S
    BY <1>2
  <2>2. IsFiniteSet({y \in S : y < x}) /\ RankIn(S, x) <= n /\ RankIn(S, x) # n
    BY <2>1, FS_Subset, Zenon DEF RankIn
  <2>3. RankIn(S, x) \in Nat
    BY <2>2, FS_CardinalityType DEF RankIn
  <2>. QED
    BY <1>1, <2>2, <2>3
<1>3. ASSUME NEW x \in S, NEW y \in S, x < y
      PROVE  RankIn(S, x) # RankIn(S, y)
  <2>1. /\ {z \in S : z < x} \in SUBSET {z \in S : z < y}
        /\ {z \in S : z < x} # {z \in S : z < y}
    <3>1. \A z \in S : z < x => z < y
      BY <1>3
    <3>2. x \in {z \in S : z < y} /\ x \notin {z \in S : z < x}
      BY <1>3
    <3>. QED
      BY <3>1, <3>2
  <2>. QED
    BY <1>2, <2>1, FS_Subset, Zenon DEF RankIn
<1>4. rank \in Injection(S, 0 .. (n - 1))
  <2>1. \A x, y \in S : rank[x] = rank[y] => x = y
    BY <1>3
  <2>. QED
    BY <1>2, <2>1 DEF Injection, IsInjective
<1>5. IsFiniteSet(0 .. (n - 1)) /\ Cardinality(0 .. (n - 1)) = n
  BY <1>1, FS_Interval
<1>6. rank \in Surjection(S, 0 .. (n - 1))
  BY <1>4, <1>5, FS_Injection
<1>. QED
  BY <1>1, <1>4, <1>6 DEF Bijection

\* As many elements have a rank below n as n says.
LEMMA LowestCount ==
  ASSUME NEW S, IsFiniteSet(S), S \subseteq Int, NEW n \in Nat, n <= Cardinality(S)
  PROVE  Cardinality({x \in S : RankIn(S, x) < n}) = n
<1> DEFINE rank == [x \in S |-> RankIn(S, x)]
           L == {x \in S : RankIn(S, x) < n}
           f == [x \in L |-> RankIn(S, x)]
<1>1. rank \in Bijection(S, 0 .. (Cardinality(S) - 1)) /\ Cardinality(S) \in Nat
  BY RankBijective
<1>2. \A x \in S : rank[x] \in 0 .. (Cardinality(S) - 1)
  BY <1>1 DEF Bijection, Injection
<1>3. \A x, y \in S : rank[x] = rank[y] => x = y
  BY <1>1 DEF Bijection, Injection, IsInjective
<1>4. \A k \in 0 .. (Cardinality(S) - 1) : \E x \in S : rank[x] = k
  BY <1>1 DEF Bijection, Surjection
<1>5. f \in Bijection(L, 0 .. (n - 1))
  <2>1. f \in [L -> 0 .. (n - 1)]
    <3>1. ASSUME NEW x \in L PROVE RankIn(S, x) \in 0 .. (n - 1)
      <4>1. rank[x] = RankIn(S, x) /\ RankIn(S, x) < n
        OBVIOUS
      <4>. QED
        BY <1>1, <1>2, <4>1
    <3>. QED
      BY <3>1
  <2>2. \A x, y \in L : f[x] = f[y] => x = y
    BY <1>3
  <2>3. \A k \in 0 .. (n - 1) : \E x \in L : f[x] = k
    BY <1>1, <1>4
  <2>. QED
    BY <2>1, <2>2, <2>3 DEF Bijection, Injection, Surjection, IsInjective
<1>6. IsFiniteSet(L)
  BY FS_Subset
<1>7. IsFiniteSet(0 .. (n - 1)) /\ Cardinality(0 .. (n - 1)) = n
  BY FS_Interval
<1>8. ExistsBijection(L, 0 .. (n - 1))
  BY <1>5 DEF ExistsBijection
<1>. QED
  BY <1>6, <1>7, <1>8, FS_Bijection

LEMMA IDsCount ==
  IDs \subseteq Int /\ IsFiniteSet(IDs) /\ Cardinality(IDs) = NrVMs /\ NrVMs \in Nat \ {0}
<1>1. StartVM \in Nat \ {0} /\ NrVMs \in Nat \ {0}
  BY ConfigAssumption, Zenon
<1>2. StartVM \in Int /\ StartVM + NrVMs - 1 \in Int /\ ~(StartVM > StartVM + NrVMs - 1)
  BY <1>1
<1>3. IsFiniteSet(IDs) /\ Cardinality(IDs) = (StartVM + NrVMs - 1) - StartVM + 1
  BY <1>2, FS_Interval DEF IDs
<1>. QED
  BY <1>1, <1>2, <1>3 DEF IDs

LEMMA FreeIDsFinite ==
  ASSUME TypeOK
  PROVE  freeIDs \subseteq Int /\ IsFiniteSet(freeIDs)
BY IDsCount, FS_Subset DEF TypeOK

\* getIDs returns as many IDs as asked for, if there are as many.
LEMMA GetIDsCount ==
  ASSUME TypeOK, NEW n \in Nat, n <= Cardinality(freeIDs)
  PROVE  Cardinality(getIDs(n)) = n
<1>1. getIDs(n) = {x \in freeIDs : RankIn(freeIDs, x) < n}
  BY DEF getIDs, RankIn
<1>. QED
  BY <1>1, FreeIDsFinite, LowestCount

\* A network that is found is the only one of its rank.
LEMMA OneOfRank ==
  ASSUME NEW S, IsFiniteSet(S), S \subseteq Int, NEW k,
         NEW x \in Ranked(S, k)
  PROVE  Ranked(S, k) = {x} /\ x \in S /\ RankIn(S, x) = k
<1>1. [y \in S |-> RankIn(S, y)] \in Bijection(S, 0 .. (Cardinality(S) - 1))
  BY RankBijective
<1>2. \A y, z \in S : RankIn(S, y) = RankIn(S, z) => y = z
  BY <1>1 DEF Bijection, Injection, IsInjective
<1>3. \A y : y \in Ranked(S, k) <=> y \in S /\ RankIn(S, y) = k
  BY DEF Ranked, RankIn
<1>. QED
  BY <1>2, <1>3

LEMMA ReadyFinite ==
  ASSUME TypeOK, NEW net, NEW access
  PROVE  IsFiniteSet(ReadyNetworks(net, access)) /\ ReadyNetworks(net, access) \subseteq Int
<1>1. DOMAIN networks = 1 .. Len(networks) /\ Len(networks) \in Nat
  BY DEF TypeOK
<1>2. IsFiniteSet(DOMAIN networks)
  BY <1>1, FS_Interval
<1>3. ReadyNetworks(net, access) \in SUBSET DOMAIN networks
  BY DEF ReadyNetworks
<1>. QED
  BY <1>1, <1>2, <1>3, FS_Subset

LEMMA InjectiveImage ==
  ASSUME NEW f, NEW Q, IsFiniteSet(Q), \A p, q \in Q : f[p] = f[q] => p = q
  PROVE  IsFiniteSet({f[q] : q \in Q}) /\ Cardinality({f[q] : q \in Q}) = Cardinality(Q)
<1> DEFINE T == {f[q] : q \in Q}
           g == [q \in Q |-> f[q]]
<1>1. g \in Bijection(Q, T)
  BY DEF Bijection, Injection, Surjection, IsInjective
<1>2. ExistsBijection(Q, T)
  BY <1>1 DEF ExistsBijection
<1>. QED
  BY <1>2, FS_Bijection

\* The positions of a run that ask for the network of position p.
SameNetwork(run, p) == {q \in DOMAIN run.networks : run.networks[q] = run.networks[p]}

\* The conditions of TestsEquipped for one action, and that it holds no networks
\* of other kinds.
Equipped(a) ==
  LET run == TestRuns[a.nr] IN
  /\ Cardinality(a.ids) = Len(run.vms)
  /\ Cardinality(a.nets) = 1 + Len(run.networks)
  /\ HowMany(a.nets, accessNetwork(run.ipv6), TRUE) = 1
  /\ \A p \in DOMAIN run.networks :
       HowMany(a.nets, run.networks[p], FALSE) = Cardinality(SameNetwork(run, p))
  /\ \A i \in a.nets :
       IF networks[i].isAccess THEN networks[i].network = accessNetwork(run.ipv6)
       ELSE \E p \in DOMAIN run.networks : networks[i].network = run.networks[p]

\* What is known of a test that chooseNextAction returns.
LEMMA ChosenTest ==
  ASSUME TypeOK, NEW a \in chooseNextAction, a.kind = "test"
  PROVE  \E r \in bestRun :
           /\ r \in DOMAIN TestRuns
           /\ a = TestAction(r)
           /\ Size(r) \in Nat /\ Size(r) <= Cardinality(freeIDs)
           /\ AccessNetworkOf(TestRuns[r]) # {}
           /\ remainingNetworks(TestRuns[r]) = {}
<1>1. ASSUME NEW net, NEW access, NEW b \in makeAddNetworkAction(net, access)
      PROVE  b.kind = "network"
  BY <1>1 DEF makeAddNetworkAction
<1>2. ASSUME NEW v, NEW b \in nextImageAction(v)
      PROVE  b.kind # "test"
  <2>1. \A c \in nextActionPull(v) : c.kind = "pull"
    BY DEF nextActionPull
  <2>2. \A c \in nextActionProvision(v) : c.kind \in {"network", "provision"}
    <3> DEFINE access == findReadyNetwork(accessNetwork(FALSE), TRUE, 0)
               job == [kind |-> "provision", nr |-> v, ids |-> getIDs(1), nets |-> access]
    <3>1. \A c \in nextActionProvision(v) : c = job \/ c \in makeAddNetworkAction(accessNetwork(FALSE), TRUE)
      BY DEF nextActionProvision
    <3>2. job.kind = "provision"
      OBVIOUS
    <3>. QED
      BY <1>1, <3>1, <3>2
  <2>. QED
    BY <1>2, <2>1, <2>2 DEF nextImageAction
<1>3. PICK r \in bestRun : a \in nextActionRun(r)
  BY <1>2 DEF chooseNextAction
<1>4. r \in DOMAIN TestRuns
  BY DEF bestRun, Candidates
<1>5. /\ ~(Cardinality(freeIDs) < Size(r))
      /\ AccessNetworkOf(TestRuns[r]) # {}
      /\ remainingNetworks(TestRuns[r]) = {}
      /\ a = TestAction(r)
  BY <1>1, <1>3 DEF nextActionRun
<1>6. Size(r) \in Nat
  BY <1>4, RunTypes DEF Size
<1>7. Cardinality(freeIDs) \in Nat
  BY FreeIDsFinite, FS_CardinalityType
<1>. QED
  BY <1>4, <1>5, <1>6, <1>7

LEMMA ChosenTestEquipped ==
  ASSUME TypeOK, NEW a \in chooseNextAction, a.kind = "test"
  PROVE  Equipped(a)
<1>1. PICK r \in DOMAIN TestRuns :
           /\ a = TestAction(r)
           /\ Size(r) \in Nat /\ Size(r) <= Cardinality(freeIDs)
           /\ AccessNetworkOf(TestRuns[r]) # {}
           /\ remainingNetworks(TestRuns[r]) = {}
  BY ChosenTest
<1> DEFINE run == TestRuns[r]
           D == DOMAIN run.networks
           earlier(p) == {q \in 1 .. (p - 1) : run.networks[q] = run.networks[p]}
           access == ReadyNetworks(accessNetwork(run.ipv6), TRUE)
           ready(p) == ReadyNetworks(run.networks[p], FALSE)
           e == [p \in D |-> CHOOSE i : i \in ExtraNetworkOf(run, p)]
           E == {e[p] : p \in D}
<1>2. /\ a.nr = r
      /\ a.ids = getIDs(Size(r))
      /\ a.nets = AccessNetworkOf(run) \cup UNION {ExtraNetworkOf(run, p) : p \in D}
  BY <1>1 DEF TestAction
<1>3. D = 1 .. Len(run.networks) /\ Len(run.networks) \in Nat
  BY RunTypes
<1>4. Cardinality(a.ids) = Len(run.vms)
  BY <1>1, <1>2, GetIDsCount DEF Size
<1>5. PICK x : AccessNetworkOf(run) = {x} /\ x \in access
  <2>1. AccessNetworkOf(run) = Ranked(access, 0)
    BY DEF AccessNetworkOf, findReadyNetwork
  <2>2. IsFiniteSet(access) /\ access \subseteq Int
    BY ReadyFinite
  <2> HIDE DEF access
  <2>3. PICK y : y \in Ranked(access, 0)
    BY <1>1, <2>1
  <2>4. Ranked(access, 0) = {y} /\ y \in access
    BY <2>2, <2>3, OneOfRank
  <2>. QED
    BY <2>1, <2>4
<1>6. ASSUME NEW p \in D
      PROVE  /\ ExtraNetworkOf(run, p) = {e[p]}
             /\ e[p] \in ready(p)
             /\ RankIn(ready(p), e[p]) = Cardinality(earlier(p))
  <2>1. ExtraNetworkOf(run, p) = Ranked(ready(p), Cardinality(earlier(p)))
    BY DEF ExtraNetworkOf, findReadyNetwork
  <2>2. ExtraNetworkOf(run, p) # {}
    BY <1>1 DEF remainingNetworks
  <2>3. e[p] \in ExtraNetworkOf(run, p)
    BY <2>2
  <2>4. IsFiniteSet(ready(p)) /\ ready(p) \subseteq Int
    BY ReadyFinite
  <2> HIDE DEF ready, earlier, e
  <2>5. e[p] \in Ranked(ready(p), Cardinality(earlier(p)))
    BY <2>1, <2>3
  <2>6. /\ Ranked(ready(p), Cardinality(earlier(p))) = {e[p]} /\ e[p] \in ready(p)
        /\ RankIn(ready(p), e[p]) = Cardinality(earlier(p))
    BY <2>4, <2>5, OneOfRank, Zenon
  <2>. QED
    BY <2>1, <2>6
<1> HIDE DEF e
<1>8. /\ networks[x].network = accessNetwork(run.ipv6) /\ networks[x].isAccess = TRUE
      /\ \A p \in D : networks[e[p]].network = run.networks[p] /\ networks[e[p]].isAccess = FALSE
  BY <1>5, <1>6 DEF ReadyNetworks
<1>9. ASSUME NEW p \in D, NEW q \in D, p < q, e[p] = e[q]
      PROVE  FALSE
  <2>1. run.networks[p] = run.networks[q]
    BY <1>8, <1>9
  <2>2. Cardinality(earlier(p)) = Cardinality(earlier(q))
    BY <1>6, <1>9, <2>1
  <2>3. earlier(p) \in SUBSET earlier(q)
    BY <1>3, <1>9, <2>1
  <2>4. p \in earlier(q) /\ p \notin earlier(p)
    BY <1>3, <1>9, <2>1
  <2>5. IsFiniteSet(earlier(q))
    <3>1. q - 1 \in Int
      BY <1>3
    <3>2. IsFiniteSet(1 .. (q - 1))
      BY <3>1, FS_Interval
    <3>. QED
      BY <3>2, FS_Subset
  <2>6. earlier(q) = earlier(p)
    BY <2>2, <2>3, <2>5, FS_Subset, Zenon
  <2>. QED
    BY <2>4, <2>6, Zenon
<1>10. \A p, q \in D : e[p] = e[q] => p = q
  <2> SUFFICES ASSUME NEW p \in D, NEW q \in D, e[p] = e[q], p # q
               PROVE  FALSE
    OBVIOUS
  <2>1. p < q \/ q < p
    BY <1>3
  <2>. QED
    BY <1>9, <2>1
<1>11. a.nets = E \cup {x}
  <2>1. UNION {ExtraNetworkOf(run, p) : p \in D} = E
    <3>1. \A i : i \in UNION {ExtraNetworkOf(run, p) : p \in D} <=> \E p \in D : i \in ExtraNetworkOf(run, p)
      OBVIOUS
    <3>2. \A p \in D : ExtraNetworkOf(run, p) = {e[p]}
      BY <1>6
    <3>3. \A i : i \in E <=> \E p \in D : i = e[p]
      OBVIOUS
    <3> HIDE DEF E, D
    <3>4. \A i : i \in UNION {ExtraNetworkOf(run, p) : p \in D} <=> i \in E
      BY <3>1, <3>2, <3>3
    <3>. QED
      BY <3>4, Zenon
  <2>. QED
    BY <1>2, <1>5, <2>1
<1>12. x \notin E
  BY <1>8
<1>13. IsFiniteSet(D) /\ Cardinality(D) = Len(run.networks)
  <2>1. Cardinality(1 .. Len(run.networks)) = Len(run.networks) /\ IsFiniteSet(1 .. Len(run.networks))
    BY <1>3, FS_Interval
  <2>. QED
    BY <1>3, <2>1
<1>14. IsFiniteSet(E) /\ Cardinality(E) = Len(run.networks)
  <2> HIDE DEF D
  <2>1. IsFiniteSet(E) /\ Cardinality(E) = Cardinality(D)
    BY <1>10, <1>13, InjectiveImage
  <2>. QED
    BY <1>13, <2>1
<1>15. Cardinality(a.nets) = 1 + Len(run.networks)
  <2> HIDE DEF E
  <2>1. Cardinality(E \cup {x}) = Cardinality(E) + 1
    BY <1>12, <1>14, FS_AddElement
  <2>. QED
    BY <1>3, <1>11, <1>14, <2>1
<1>16. HowMany(a.nets, accessNetwork(run.ipv6), TRUE) = 1
  <2>1. {i \in a.nets : networks[i].network = accessNetwork(run.ipv6) /\ networks[i].isAccess = TRUE} = {x}
    BY <1>8, <1>11
  <2>. QED
    BY <2>1, FS_Singleton DEF HowMany
<1>17. ASSUME NEW p \in D
       PROVE  HowMany(a.nets, run.networks[p], FALSE) = Cardinality(SameNetwork(run, p))
  <2> DEFINE Q == SameNetwork(run, p)
  <2>1. Q \in SUBSET D /\ \A q \in D : q \in Q <=> run.networks[q] = run.networks[p]
    BY DEF SameNetwork
  <2>2. {i \in a.nets : networks[i].network = run.networks[p] /\ networks[i].isAccess = FALSE}
          = {e[q] : q \in Q}
    BY <1>8, <1>11, <2>1
  <2>3. IsFiniteSet(Q) /\ \A q, s \in Q : e[q] = e[s] => q = s
    BY <1>10, <1>13, <2>1, FS_Subset
  <2>4. Cardinality({e[q] : q \in Q}) = Cardinality(Q)
    <3> HIDE DEF Q
    <3>. QED
      BY <2>3, InjectiveImage
  <2>. QED
    BY <2>2, <2>4 DEF HowMany
<1>18. ASSUME NEW i \in a.nets
       PROVE  IF networks[i].isAccess THEN networks[i].network = accessNetwork(run.ipv6)
              ELSE \E p \in D : networks[i].network = run.networks[p]
  BY <1>8, <1>11
<1>. QED
  BY <1>2, <1>4, <1>15, <1>16, <1>17, <1>18 DEF Equipped

\* A network never changes what it is, only its stage.
KindsStay ==
  \A i \in DOMAIN networks :
    /\ i \in DOMAIN networks'
    /\ networks'[i].network = networks[i].network
    /\ networks'[i].isAccess = networks[i].isAccess

LEMMA SetStageKeepsKinds ==
  ASSUME TypeOK, NEW nets, NEW stage, networks' = SetStage(nets, stage)
  PROVE  KindsStay
<1>1. \A i \in DOMAIN networks : networks[i] \in NetworkState
  BY DEF TypeOK
<1>. QED
  BY <1>1 DEF KindsStay, SetStage, NetworkState

LEMMA AppendKeepsKinds ==
  ASSUME TypeOK, NEW net, networks' = Append(networks, net)
  PROVE  KindsStay
BY DEF TypeOK, KindsStay

LEMMA NextKeepsKinds ==
  ASSUME TypeOK, [Next]_vars
  PROVE  KindsStay
<1>1. CASE \E nets, stage : networks' = SetStage(nets, stage)
  BY <1>1, SetStageKeepsKinds
<1>2. CASE \E net : networks' = Append(networks, net)
  BY <1>2, AppendKeepsKinds
<1>3. CASE UNCHANGED networks
  BY <1>3 DEF KindsStay
<1>4. CASE StartTest \/ StartProvision
  BY <1>1, <1>4 DEF StartTest, StartProvision, Occupy
<1>5. CASE FinishTest \/ FinishProvision \/ FinishAddNetwork
  BY <1>1, <1>5 DEF FinishTest, FinishProvision, FinishAddNetwork, Release
<1>6. CASE StartAddNetwork \/ PanicAddNetwork
  BY <1>2, <1>6 DEF StartAddNetwork, PanicAddNetwork
<1>7. CASE StartPull \/ FinishPull \/ AwaitResult \/ LeaveLoop \/ SoftTimer \/ Interrupt \/ TearDown
  BY <1>3, <1>7 DEF StartPull, FinishPull, AwaitResult, LeaveLoop, SoftTimer, Interrupt, TearDown, netVars
<1>8. CASE Terminated \/ UNCHANGED vars
  BY <1>3, <1>8 DEF Terminated, vars
<1>. QED
  BY <1>4, <1>5, <1>6, <1>7, <1>8 DEF Next, SchedulerStep, Environment

LEMMA StaysEquipped ==
  ASSUME KindsStay, NEW a, a.nets \subseteq DOMAIN networks, Equipped(a)
  PROVE  Equipped(a)'
<1>1. ASSUME NEW net, NEW access
      PROVE  HowMany(a.nets, net, access)' = HowMany(a.nets, net, access)
  <2>1. {i \in a.nets : networks'[i].network = net /\ networks'[i].isAccess = access}
          = {i \in a.nets : networks[i].network = net /\ networks[i].isAccess = access}
    BY DEF KindsStay
  <2>. QED
    BY <2>1 DEF HowMany
<1>2. \A i \in a.nets : /\ networks'[i].network = networks[i].network
                       /\ networks'[i].isAccess = networks[i].isAccess
  BY DEF KindsStay
<1>. QED
  BY <1>1, <1>2 DEF Equipped, SameNetwork

EquipInv == TypeOK /\ \A a \in outstanding : a.kind = "test" => Equipped(a)

LEMMA NextEquipped ==
  ASSUME EquipInv, [Next]_vars
  PROVE  EquipInv'
<1>1. TypeOK /\ TypeOK' /\ KindsStay
  BY NextTypes, NextKeepsKinds DEF EquipInv
<1>2. ASSUME NEW a \in outstanding, a.kind = "test"
      PROVE  Equipped(a)'
  <2>1. a.nets \subseteq DOMAIN networks
    BY <1>1, ActionFields
  <2>. QED
    BY <1>1, <1>2, <2>1, StaysEquipped DEF EquipInv
<1>3. CASE StartTest \/ StartPull \/ StartProvision \/ StartAddNetwork
  <2>1. PICK a \in chooseNextAction : outstanding' = outstanding \cup {a}
    BY <1>3 DEF StartTest, StartPull, StartProvision, StartAddNetwork, Launch
  <2>2. a.kind = "test" => a.nets \subseteq DOMAIN networks
    BY ChosenAction DEF Choice, ReadyNets
  <2>3. a.kind = "test" => Equipped(a)'
    BY <1>1, <2>2, ChosenTestEquipped, StaysEquipped
  <2>. QED
    BY <1>1, <1>2, <2>1, <2>3 DEF EquipInv
<1>4. CASE FinishTest \/ FinishPull \/ FinishProvision \/ FinishAddNetwork
  <2>1. outstanding' \subseteq outstanding
    BY <1>4 DEF FinishTest, FinishPull, FinishProvision, FinishAddNetwork, Receive
  <2>. QED
    BY <1>1, <1>2, <2>1 DEF EquipInv
<1>5. CASE \/ PanicAddNetwork \/ AwaitResult \/ LeaveLoop \/ TearDown \/ SoftTimer
           \/ Interrupt \/ Terminated \/ UNCHANGED vars
  <2>1. outstanding' = outstanding
    BY <1>5 DEF PanicAddNetwork, AwaitResult, LeaveLoop, TearDown, SoftTimer, Interrupt, Terminated, vars
  <2>. QED
    BY <1>1, <1>2, <2>1 DEF EquipInv
<1>. QED
  BY <1>3, <1>4, <1>5 DEF Next, SchedulerStep, Environment

LEMMA EquipInvariance == Spec => []EquipInv
<1>1. Init => EquipInv
  BY InitTypes DEF Init, EquipInv
<1>2. EquipInv /\ [Next]_vars => EquipInv'
  BY NextEquipped
<1>. QED
  BY <1>1, <1>2, PTL DEF Spec

\* A running test holds as many VM IDs as it has VMs, one access network of its
\* IP version, and for each of its network definitions as many networks as it
\* asks for.
THEOREM EquippedTests == Spec => []TestsEquipped
<1>1. EquipInv => TestsEquipped
  BY DEF EquipInv, Equipped, TestsEquipped, SameNetwork
<1>. QED
  BY <1>1, EquipInvariance, PTL

------------------------------------------------------------------------------
(* Larger runs go first.                                                   *)

\* Runs have IDs of their own (see IDsUnique of TestRunPlan).
DistinctIDs ==
  \A q, r \in DOMAIN TestRuns : TestRuns[q].testID = TestRuns[r].testID => q = r

Executing == {r \in DOMAIN TestRuns : StageOf(r) = "Exec"}

\* The VMs of the runs that execute.
RunningVMs == UNION {{r} \X DOMAIN TestRuns[r].vms : r \in Executing}

LEMMA BestIsLargest ==
  ASSUME NEW r \in bestRun, NEW q \in Candidates
  PROVE  Size(q) <= Size(r)
<1>1. Size(q) \in Nat /\ Size(r) \in Nat /\ q \in Int /\ r \in Int
  <2>1. q \in DOMAIN TestRuns /\ r \in DOMAIN TestRuns
    BY DEF Candidates, bestRun
  <2>2. DOMAIN TestRuns = 1 .. Len(TestRuns) /\ Len(TestRuns) \in Nat
    <3>1. TestRuns \in Seq(TestRun)
      BY ConfigAssumption, Zenon
    <3>. QED
      BY <3>1
  <2>. QED
    BY <2>1, <2>2, RunTypes DEF Size
<1>2. CASE q < r
  BY <1>1, <1>2 DEF bestRun, runBetter
<1>3. CASE q > r
  BY <1>1, <1>3 DEF bestRun, runBetter
<1>. QED
  BY <1>1, <1>2, <1>3

\* A run that executes has an action, which is its own as IDs are distinct.
LEMMA ExecutingHasAction ==
  ASSUME DistinctIDs, StageInv, NEW r \in Executing
  PROVE  \E a \in outstanding : a.kind = "test" /\ a.nr = r
<1>1. r \in DOMAIN TestRuns /\ TestRuns[r].testID \in TestIDs
  BY RunTypes DEF Executing
<1>2. <<"test", TestRuns[r].testID>> \in InProgress
  BY <1>1 DEF InProgress, Executing, StageOf
<1>3. PICK a \in Workers : Work(a) = <<"test", TestRuns[r].testID>>
  BY <1>2 DEF StageInv, WorkMatches
<1>4. a \in outstanding /\ a.kind = "test" /\ Key(a) = TestRuns[r].testID
  BY <1>3 DEF Work, Workers
<1>5. a.nr \in DOMAIN TestRuns
  BY <1>4, ActionFields DEF StageInv, ResourceInv
<1>6. TestRuns[a.nr].testID = TestRuns[r].testID
  BY <1>4 DEF Key
<1>. QED
  BY <1>1, <1>4, <1>5, <1>6 DEF DistinctIDs

\* Each of their VMs has an ID that a test holds.
LEMMA RunningVMsHeld ==
  ASSUME DistinctIDs, StageInv, EquipInv
  PROVE  /\ Cardinality(RunningVMs) \in Nat /\ Cardinality(TestHeld) \in Nat
         /\ Cardinality(RunningVMs) <= Cardinality(TestHeld)
<1> DEFINE act == [r \in Executing |-> CHOOSE a \in outstanding : a.kind = "test" /\ a.nr = r]
           vms(r) == DOMAIN TestRuns[r].vms
           ids == [r \in Executing |-> CHOOSE g : g \in Bijection(vms(r), act[r].ids)]
           f == [v \in RunningVMs |-> ids[v[1]][v[2]]]
<1>1. ASSUME NEW r \in Executing
      PROVE  act[r] \in outstanding /\ act[r].kind = "test" /\ act[r].nr = r
  BY ExecutingHasAction
<1> HIDE DEF act
<1>2. IsFiniteSet(IDs)
  BY IDsCount
<1>3. ASSUME NEW r \in Executing
      PROVE  ids[r] \in Bijection(vms(r), act[r].ids)
  <2>1. r \in DOMAIN TestRuns
    BY DEF Executing
  <2>2. vms(r) = 1 .. Len(TestRuns[r].vms) /\ Len(TestRuns[r].vms) \in Nat
    BY <2>1, RunTypes
  <2>3. IsFiniteSet(vms(r)) /\ Cardinality(vms(r)) = Len(TestRuns[r].vms)
    <3>1. /\ IsFiniteSet(1 .. Len(TestRuns[r].vms))
          /\ Cardinality(1 .. Len(TestRuns[r].vms)) = Len(TestRuns[r].vms)
      BY <2>2, FS_Interval
    <3>. QED
      BY <2>2, <3>1
  <2>4. Cardinality(act[r].ids) = Len(TestRuns[r].vms)
    BY <1>1 DEF EquipInv, Equipped
  <2>5. IsFiniteSet(act[r].ids)
    BY <1>1, <1>2, ActionFields, FS_Subset DEF EquipInv
  <2> HIDE DEF vms
  <2>6. ExistsBijection(vms(r), act[r].ids)
    BY <2>3, <2>4, <2>5, FS_SameCardinalityBij
  <2>. QED
    BY <2>6 DEF ExistsBijection
<1> HIDE DEF ids
<1>4. ASSUME NEW v \in RunningVMs
      PROVE  v[1] \in Executing /\ v[2] \in vms(v[1]) /\ v = <<v[1], v[2]>>
  BY DEF RunningVMs
<1>5. ASSUME NEW r \in Executing, NEW k \in vms(r)
      PROVE  ids[r][k] \in act[r].ids
  BY <1>3 DEF Bijection, Injection
<1>6. f \in [RunningVMs -> TestHeld]
  <2>1. ASSUME NEW v \in RunningVMs
        PROVE  f[v] \in TestHeld
    <3>1. f[v] \in act[v[1]].ids /\ act[v[1]] \in outstanding /\ act[v[1]].kind = "test"
      BY <1>1, <1>4, <1>5
    <3>. QED
      BY <3>1 DEF TestHeld
  <2>. QED
    BY <2>1
<1>7. ASSUME NEW v \in RunningVMs, NEW w \in RunningVMs, f[v] = f[w]
      PROVE  v = w
  <2> DEFINE r == v[1]
             q == w[1]
  <2>1. /\ r \in Executing /\ v[2] \in vms(r) /\ q \in Executing /\ w[2] \in vms(q)
        /\ ids[r][v[2]] = ids[q][w[2]]
    BY <1>4, <1>7
  <2>2. act[r].ids \cap act[q].ids # {}
    BY <1>5, <2>1
  <2>3. act[r] = act[q]
    BY <1>1, <2>1, <2>2 DEF StageInv, ResourceInv, ResourcesExclusive
  <2>4. r = q
    BY <1>1, <2>1, <2>3
  <2>5. v[2] = w[2]
    BY <1>3, <2>1, <2>4 DEF Bijection, Injection, IsInjective
  <2>. QED
    BY <1>4, <2>4, <2>5
<1>8. f \in Injection(RunningVMs, TestHeld)
  BY <1>6, <1>7 DEF Injection, IsInjective
<1>9. IsFiniteSet(TestHeld)
  <2>1. TestHeld \in SUBSET IDs
    BY ActionFields DEF EquipInv, TestHeld
  <2>. QED
    BY <1>2, <2>1, FS_Subset
<1>10. IsFiniteSet(RunningVMs) /\ Cardinality(RunningVMs) <= Cardinality(TestHeld)
  BY <1>8, <1>9, FS_Injection
<1>. QED
  BY <1>9, <1>10, FS_CardinalityType

LEMMA StageChange ==
  ASSUME TypeOK, [Next]_vars, NEW r \in DOMAIN TestRuns, StageOf(r) = "New", StageOf(r)' = "Exec"
  PROVE  \E a \in chooseNextAction : a.kind = "test" /\ TestRuns[a.nr].testID = TestRuns[r].testID
<1>1. CASE StartTest
  <2>1. PICK a \in chooseNextAction :
          a.kind = "test" /\ runStage' = [runStage EXCEPT ![TestRuns[a.nr].testID] = "Exec"]
    BY <1>1 DEF StartTest
  <2>. QED
    BY <2>1 DEF StageOf
<1>2. CASE FinishTest
  <2>1. PICK a \in outstanding : runStage' = [runStage EXCEPT ![TestRuns[a.nr].testID] = "Done"]
    BY <1>2 DEF FinishTest
  <2>2. StageOf(r)' \in {"New", "Done"}
    BY <2>1, RunTypes DEF StageOf, TypeOK
  <2>. QED
    BY <2>2
<1>3. CASE \/ StartPull \/ StartProvision \/ StartAddNetwork \/ PanicAddNetwork \/ AwaitResult
           \/ LeaveLoop \/ FinishPull \/ FinishProvision \/ FinishAddNetwork
  BY <1>3 DEF StartPull, StartProvision, StartAddNetwork, PanicAddNetwork, AwaitResult, LeaveLoop,
              FinishPull, FinishProvision, FinishAddNetwork, runVars, StageOf
<1>4. CASE SoftTimer \/ Interrupt \/ TearDown \/ Terminated \/ UNCHANGED vars
  BY <1>4 DEF SoftTimer, Interrupt, TearDown, Terminated, vars, runVars, StageOf
<1>. QED
  BY <1>1, <1>2, <1>3, <1>4 DEF Next, SchedulerStep, Environment

\* A run is never started while a larger one waits that fits beside the tests
\* that execute.
THEOREM LargestFirst ==
  ASSUME DistinctIDs
  PROVE  Spec => LargerRunsFirst
<1> DEFINE Step == \A r \in DOMAIN TestRuns :
                     StageOf(r) = "New" /\ StageOf(r)' = "Exec" =>
                       \A q \in DOMAIN TestRuns :
                         StageOf(q) = "New" /\ Size(q) > Size(r) =>
                           Size(q) > NrVMs - Cardinality(TestHeld)
<1>1. ASSUME StageInv, EquipInv, [Next]_vars
      PROVE  Step
  <2> SUFFICES ASSUME NEW r \in DOMAIN TestRuns, StageOf(r) = "New", StageOf(r)' = "Exec",
                      NEW q \in DOMAIN TestRuns, StageOf(q) = "New", Size(q) > Size(r)
               PROVE  Size(q) > NrVMs - Cardinality(TestHeld)
    OBVIOUS
  <2>1. PICK a \in chooseNextAction : a.kind = "test" /\ TestRuns[a.nr].testID = TestRuns[r].testID
    BY <1>1, StageChange DEF EquipInv
  <2>2. PICK b \in bestRun : b \in DOMAIN TestRuns /\ a = TestAction(b)
    BY <1>1, <2>1, ChosenTest DEF EquipInv
  <2>3. b = r
    BY <2>1, <2>2 DEF TestAction, DistinctIDs
  <2>4. Size(q) \in Nat /\ Size(r) \in Nat /\ NrVMs \in Nat \ {0}
    <3>1. NrVMs \in Nat \ {0}
      BY ConfigAssumption, Zenon
    <3>. QED
      BY <3>1, RunTypes DEF Size
  <2>5. q \notin Candidates
    BY <2>2, <2>3, <2>4, BestIsLargest
  <2>6. ~(Size(q) <= nonTestIDs)
    BY <2>5 DEF Candidates
  <2>7. nonTestIDs = NrVMs - Cardinality(RunningVMs)
    BY DEF nonTestIDs, RunningVMs, Executing
  <2>. QED
    BY <1>1, <2>4, <2>6, <2>7, RunningVMsHeld
<1>2. StageInv /\ EquipInv /\ [Next]_vars => [Step]_vars
  BY <1>1
<1>. QED
  BY <1>2, StageInvariance, EquipInvariance, PTL DEF Spec, LargerRunsFirst

------------------------------------------------------------------------------
(* The choice finds something as long as there is something.               *)

LEMMA RankExists ==
  ASSUME NEW S, IsFiniteSet(S), S \subseteq Int, S # {}, NEW k \in 0 .. (Cardinality(S) - 1)
  PROVE  \E x \in S : RankIn(S, x) = k
<1>1. [y \in S |-> RankIn(S, y)] \in Bijection(S, 0 .. (Cardinality(S) - 1))
  BY RankBijective
<1>. QED
  BY <1>1 DEF Bijection, Surjection

LEMMA RanksOf ==
  ASSUME NEW S, IsFiniteSet(S), S \subseteq Int, S # {}
  PROVE  /\ 0 \in 0 .. (Cardinality(S) - 1)
         /\ Cardinality(S) - 1 \in 0 .. (Cardinality(S) - 1)
         /\ Cardinality(S) \in Nat
<1>1. Cardinality(S) \in Nat /\ Cardinality(S) # 0
  BY FS_CardinalityType, FS_EmptySet
<1>. QED
  BY <1>1

LEMMA LeastExists ==
  ASSUME NEW S, IsFiniteSet(S), S \subseteq Int, S # {}
  PROVE  \E x \in S : \A y \in S : x <= y
<1>1. PICK x \in S : RankIn(S, x) = 0
  BY RanksOf, RankExists
<1>2. {y \in S : y < x} \in SUBSET S
  OBVIOUS
<1>3. {y \in S : y < x} = {}
  BY <1>1, <1>2, FS_Subset, FS_EmptySet DEF RankIn
<1>4. \A y \in S : ~(y < x)
  BY <1>3
<1>. QED
  BY <1>4

LEMMA GreatestExists ==
  ASSUME NEW S, IsFiniteSet(S), S \subseteq Int, S # {}
  PROVE  \E x \in S : \A y \in S : y <= x
<1>1. PICK x \in S : RankIn(S, x) = Cardinality(S) - 1
  BY RanksOf, RankExists
<1> DEFINE L == {y \in S : y < x}
<1>2. L \in SUBSET S /\ x \notin L
  OBVIOUS
<1>3. IsFiniteSet(L)
  BY <1>2, FS_Subset
<1>4. Cardinality(L) = Cardinality(S) - 1
  BY <1>1 DEF RankIn
<1> HIDE DEF L
<1>5. Cardinality(L \cup {x}) = Cardinality(S) /\ L \cup {x} \in SUBSET S
  <2>1. Cardinality(L \cup {x}) = Cardinality(L) + 1
    BY <1>2, <1>3, FS_AddElement
  <2>2. Cardinality(S) \in Nat
    BY FS_CardinalityType
  <2>. QED
    BY <1>2, <1>4, <2>1, <2>2
<1>6. L \cup {x} = S
  BY <1>5, FS_Subset
<1>7. \A y \in L : y < x
  BY DEF L
<1>. QED
  BY <1>6, <1>7

LEMMA GreatestBy ==
  ASSUME NEW S, IsFiniteSet(S), S # {}, NEW f \in [S -> Int]
  PROVE  \E x \in S : \A y \in S : f[y] <= f[x]
<1> DEFINE T == {f[x] : x \in S}
<1>1. f \in Surjection(S, T)
  BY DEF Surjection
<1>2. IsFiniteSet(T)
  BY <1>1, FS_Surjection
<1>3. T \subseteq Int /\ T # {}
  OBVIOUS
<1>4. PICK t \in T : \A u \in T : u <= t
  BY <1>2, <1>3, GreatestExists
<1>. QED
  BY <1>4

LEMMA RunsFinite ==
  ASSUME NEW R, R \subseteq DOMAIN TestRuns
  PROVE  IsFiniteSet(R) /\ R \subseteq Int
<1>1. TestRuns \in Seq(TestRun)
  BY ConfigAssumption, Zenon
<1>2. DOMAIN TestRuns = 1 .. Len(TestRuns) /\ Len(TestRuns) \in Int
  BY <1>1
<1>3. IsFiniteSet(1 .. Len(TestRuns))
  BY <1>2, FS_Interval
<1>. QED
  BY <1>2, <1>3, FS_Subset

\* The loop of chooseNextAction keeps a run if there is a candidate.
LEMMA BestExists ==
  ASSUME Candidates # {}
  PROVE  bestRun # {}
<1>1. Candidates \subseteq DOMAIN TestRuns
  BY DEF Candidates
<1>2. ASSUME NEW r \in DOMAIN TestRuns
      PROVE  Size(r) \in Int /\ TestRuns[r].priority \in Int /\ r \in Int
  <2>1. TestRuns[r] \in TestRun
    BY RunTypes
  <2>. QED
    <3>1. Size(r) \in Int
      BY RunTypes DEF Size
    <3>2. TestRuns[r].priority \in Int
      BY <2>1 DEF TestRun
    <3>3. DOMAIN TestRuns \subseteq Int
      BY RunsFinite
    <3>. QED
      BY <3>1, <3>2, <3>3
<1> DEFINE Largest == {q \in Candidates : \A p \in Candidates : Size(p) <= Size(q)}
           Soonest == {q \in Largest : Ready(q) \/ \A p \in Largest : ~Ready(p)}
           First3  == {q \in Soonest : \A p \in Soonest : TestRuns[p].priority <= TestRuns[q].priority}
<1>3. Largest # {}
  <2>1. [q \in Candidates |-> Size(q)] \in [Candidates -> Int]
    BY <1>1, <1>2
  <2>2. PICK x \in Candidates : \A y \in Candidates :
          [q \in Candidates |-> Size(q)][y] <= [q \in Candidates |-> Size(q)][x]
    BY <1>1, <2>1, RunsFinite, GreatestBy
  <2>. QED
    BY <2>2
<1>4. Soonest # {} /\ Soonest \subseteq Candidates
  BY <1>3
<1>5. First3 # {}
  <2> DEFINE prio == [q \in Soonest |-> TestRuns[q].priority]
  <2>1. prio \in [Soonest -> Int]
    BY <1>1, <1>2, <1>4
  <2>2. IsFiniteSet(Soonest)
    BY <1>1, <1>4, RunsFinite
  <2>3. PICK x \in Soonest : \A y \in Soonest : prio[y] <= prio[x]
    <3> HIDE DEF Soonest, prio
    <3>. QED
      BY <1>4, <2>1, <2>2, GreatestBy
  <2>. QED
    BY <2>3
<1>6. First3 \subseteq Candidates /\ First3 \subseteq DOMAIN TestRuns
  BY <1>1, <1>4
<1>7. PICK r \in First3 : \A q \in First3 : r <= q
  <2> HIDE DEF First3
  <2>. QED
    BY <1>5, <1>6, RunsFinite, LeastExists
<1>8. ASSUME NEW q \in Candidates, q < r
      PROVE  runBetter(q, r)
  <2>1. q \notin First3
    BY <1>1, <1>2, <1>7, <1>8
  <2>2. Size(q) <= Size(r)
    OBVIOUS
  <2>3. CASE Size(q) = Size(r)
    <3>1. q \in Largest
      BY <2>3
    <3>2. CASE Ready(r) # Ready(q)
      BY <2>3, <3>1, <3>2 DEF runBetter, Ready
    <3>3. CASE Ready(r) = Ready(q)
      <4>1. q \in Soonest
        BY <3>1, <3>3
      <4>2. TestRuns[r].priority > TestRuns[q].priority
        BY <1>1, <1>2, <2>1, <4>1
      <4>. QED
        BY <2>3, <3>3, <4>2 DEF runBetter
    <3>. QED
      BY <3>2, <3>3
  <2>. QED
    BY <1>1, <1>2, <2>2, <2>3 DEF runBetter
<1>9. ASSUME NEW q \in Candidates, q > r
      PROVE  ~runBetter(r, q)
  <2>1. Size(q) <= Size(r)
    OBVIOUS
  <2>2. CASE Size(q) = Size(r)
    <3>1. q \in Largest
      BY <2>2
    <3>2. CASE Ready(q) # Ready(r)
      BY <2>2, <3>1, <3>2 DEF runBetter, Ready
    <3>3. CASE Ready(q) = Ready(r)
      <4>1. q \in Soonest
        BY <3>1, <3>3
      <4>2. ~(TestRuns[q].priority > TestRuns[r].priority)
        BY <1>1, <1>2, <4>1
      <4>. QED
        BY <2>2, <3>3, <4>2 DEF runBetter
    <3>. QED
      BY <3>2, <3>3
  <2>. QED
    BY <1>1, <1>2, <2>1, <2>2 DEF runBetter
<1>10. r \in Candidates
  BY <1>6, <1>7
<1> HIDE DEF First3
<1>. QED
  BY <1>8, <1>9, <1>10 DEF bestRun

LEMMA FirstExists ==
  ASSUME NEW S, IsFiniteSet(S), S \subseteq Int, S # {}
  PROVE  First(S) # {}
BY LeastExists DEF First

LEMMA FirstVM ==
  ASSUME ImageWork # {}
  PROVE  First(ImageWork) # {}
<1>1. VMs \in Seq(VM)
  BY ConfigAssumption, Zenon
<1>2. DOMAIN VMs = 1 .. Len(VMs) /\ Len(VMs) \in Int
  BY <1>1
<1>3. IsFiniteSet(1 .. Len(VMs))
  BY <1>2, FS_Interval
<1>4. IsFiniteSet(DOMAIN VMs) /\ DOMAIN VMs \subseteq Int
  BY <1>2, <1>3
<1>5. ImageWork \in SUBSET DOMAIN VMs
  BY DEF ImageWork
<1>6. IsFiniteSet(ImageWork) /\ ImageWork \subseteq Int
  BY <1>4, <1>5, FS_Subset
<1>. QED
  BY <1>6, FirstExists

\* When nothing is under way, nothing has failed and still nothing is chosen,
\* every run that fits has been executed.
LEMMA NothingLeftToChoose ==
  ASSUME StageInv, outstanding = {}, NoneAdded, ~runStopping, chooseNextAction = {},
         NEW r \in DOMAIN TestRuns, Size(r) <= NrVMs
  PROVE  StageOf(r) = "Done"
<1>1. TypeOK
  BY DEF StageInv, ResourceInv
<1>2. freeIDs = IDs
  BY DEF StageInv, ResourceInv, ResourcesExclusive
<1>3. freeIDs # {} /\ Cardinality(freeIDs) = NrVMs /\ NrVMs \in Nat
  <2>1. NrVMs # 0
    BY IDsCount
  <2>. QED
    BY <1>2, <2>1, IDsCount, FS_EmptySet
<1>4. ASSUME NEW net, NEW access
      PROVE  makeAddNetworkAction(net, access) # {}
  BY DEF makeAddNetworkAction, NoneAdded
<1>5. ImageWork = {}
  <2>1. ASSUME NEW v, v \in First(ImageWork)
        PROVE  nextImageAction(v) # {}
    <3>1. nextActionPull(v) # {}
      BY DEF nextActionPull
    <3>2. nextActionProvision(v) # {}
      <4> DEFINE access == findReadyNetwork(accessNetwork(FALSE), TRUE, 0)
                 job == [kind |-> "provision", nr |-> v, ids |-> getIDs(1), nets |-> access]
      <4>1. nextActionProvision(v) = IF access = {} THEN makeAddNetworkAction(accessNetwork(FALSE), TRUE)
                                     ELSE {job}
        BY DEF nextActionProvision
      <4>. QED
        BY <1>4, <4>1
    <3>. QED
      BY <3>1, <3>2 DEF nextImageAction
  <2>2. First(ImageWork) = {}
    <3> SUFFICES ASSUME ImageWork # {}, NEW v \in First(ImageWork) PROVE FALSE
      BY DEF First
    <3>1. chooseNextAction = UNION {nextImageAction(w) : w \in First(ImageWork)}
      BY <1>3 DEF chooseNextAction
    <3>. QED
      BY <2>1, <3>1
  <2>. QED
    BY <2>2, FirstVM
<1>6. InProgress = {}
  BY DEF StageInv, WorkMatches, Workers
<1>7. ASSUME NEW v \in DOMAIN VMs
      PROVE  pullStage[VMs[v].base] = "Done" /\ provisionStage[ID(VMs[v])] = "Done"
  <2>1. VMs[v].base \in BaseImages /\ ID(VMs[v]) \in VMIDs
    BY VMTypes
  <2>2. /\ pullStage[VMs[v].base] \in {"None", "Pull", "Done", "Error"}
        /\ provisionStage[ID(VMs[v])] \in {"None", "Exec", "Done", "Error"}
    BY <1>1, <2>1 DEF TypeOK
  <2>3. pullStage[VMs[v].base] # "Pull" /\ provisionStage[ID(VMs[v])] # "Exec"
    <3>1. pullStage[VMs[v].base] = "Pull" => <<"pull", VMs[v].base>> \in InProgress
      BY <2>1 DEF InProgress
    <3>2. provisionStage[ID(VMs[v])] = "Exec" => <<"provision", ID(VMs[v])>> \in InProgress
      BY <2>1 DEF InProgress
    <3>. QED
      BY <1>6, <3>1, <3>2
  <2>4. pullStage[VMs[v].base] # "Error" /\ provisionStage[ID(VMs[v])] # "Error"
    BY DEF runStopping
  <2>. QED
    BY <1>5, <2>2, <2>3, <2>4 DEF ImageWork
<1>8. ASSUME NEW q \in DOMAIN TestRuns
      PROVE  allImagesReady(TestRuns[q])
  <2> SUFFICES ASSUME NEW k \in DOMAIN TestRuns[q].vms PROVE ImageReady(TestRuns[q].vms[k])
    BY DEF allImagesReady
  <2>1. \E v \in DOMAIN VMs : VMs[v] = TestRuns[q].vms[k]
    BY ConfigAssumption
  <2>. QED
    BY <1>7, <2>1 DEF ImageReady
<1>9. Executing = {}
  <2>1. ASSUME NEW q \in Executing PROVE FALSE
    <3>1. TestRuns[q].testID \in TestIDs
      BY RunTypes DEF Executing
    <3>2. <<"test", TestRuns[q].testID>> \in InProgress
      BY <3>1 DEF InProgress, Executing, StageOf
    <3>. QED
      BY <1>6, <3>2
  <2>. QED
    BY <2>1
<1>10. nonTestIDs = NrVMs
  <2>1. RunningVMs = {}
    BY <1>9 DEF RunningVMs
  <2>2. nonTestIDs = NrVMs - Cardinality(RunningVMs)
    BY DEF nonTestIDs, RunningVMs, Executing
  <2>. QED
    BY <1>3, <2>1, <2>2, FS_EmptySet
<1>11. Candidates = {}
  <2> SUFFICES ASSUME Candidates # {} PROVE FALSE
    OBVIOUS
  <2>1. PICK b : b \in bestRun
    BY BestExists
  <2>2. b \in DOMAIN TestRuns /\ Size(b) <= NrVMs
    BY <1>10, <2>1 DEF bestRun, Candidates
  <2>3. Size(b) \in Nat
    BY <2>2, RunTypes DEF Size
  <2> DEFINE missing == remainingNetworks(TestRuns[b])
  <2>4. missing # {} => First(missing) # {}
    <3>1. TestRuns[b].networks \in Seq(VirterNet)
      BY <2>2, RunTypes
    <3>2. DOMAIN TestRuns[b].networks = 1 .. Len(TestRuns[b].networks) /\ Len(TestRuns[b].networks) \in Int
      BY <3>1
    <3>3. IsFiniteSet(1 .. Len(TestRuns[b].networks))
      BY <3>2, FS_Interval
    <3>4. missing \in SUBSET (1 .. Len(TestRuns[b].networks))
      BY <3>2 DEF remainingNetworks
    <3>5. IsFiniteSet(missing) /\ missing \subseteq Int
      BY <3>3, <3>4, FS_Subset
    <3>. QED
      BY <3>5, FirstExists
  <2>5. nextActionRun(b) # {}
    <3>1. ~(Cardinality(freeIDs) < Size(b)) /\ allImagesReady(TestRuns[b])
      BY <1>3, <1>8, <2>2, <2>3
    <3>2. nextActionRun(b) =
            IF AccessNetworkOf(TestRuns[b]) = {}
            THEN makeAddNetworkAction(accessNetwork(TestRuns[b].ipv6), TRUE)
            ELSE IF missing # {}
            THEN UNION {makeAddNetworkAction(TestRuns[b].networks[p], FALSE) : p \in First(missing)}
            ELSE {TestAction(b)}
      BY <3>1 DEF nextActionRun
    <3>3. CASE AccessNetworkOf(TestRuns[b]) = {}
      BY <1>4, <3>2, <3>3
    <3>4. CASE AccessNetworkOf(TestRuns[b]) # {} /\ missing # {}
      <4>1. PICK p : p \in First(missing)
        BY <2>4, <3>4
      <4>2. makeAddNetworkAction(TestRuns[b].networks[p], FALSE) # {}
        BY <1>4
      <4> HIDE DEF missing
      <4>. QED
        BY <3>2, <3>4, <4>1, <4>2
    <3>5. CASE AccessNetworkOf(TestRuns[b]) # {} /\ missing = {}
      BY <3>2, <3>5
    <3>. QED
      BY <3>3, <3>4, <3>5
  <2>6. chooseNextAction = UNION {nextActionRun(q) : q \in bestRun}
    BY <1>3, <1>5 DEF chooseNextAction
  <2>. QED
    BY <2>1, <2>5, <2>6
<1>12. StageOf(r) \in {"New", "Exec", "Done"}
  BY <1>1, RunTypes DEF TypeOK, StageOf
<1>. QED
  BY <1>9, <1>10, <1>11, <1>12 DEF Candidates, Executing

\* The converse of AddingOutstanding, and where errors of skipped runs come from.
AddingKnown ==
  pc \in {"schedule", "wait"} =>
    /\ \A i \in DOMAIN networks : networks[i].stage = "Add" =>
         \E a \in outstanding : a.kind = "network" /\ a.nr = i
    /\ \A e \in errors : e[1] # "skipped"

LEMMA AddingReleased ==
  ASSUME TypeOK, AddingKnown, pc \in {"schedule", "wait"},
         NEW nets, NEW stage \in {"Ready", "Busy", "Error"}, networks' = SetStage(nets, stage),
         \A a \in outstanding \ outstanding' : a.kind = "network" => a.nr \in nets
  PROVE  \A i \in DOMAIN networks' : networks'[i].stage = "Add" =>
           \E a \in outstanding' : a.kind = "network" /\ a.nr = i
<1>1. /\ DOMAIN networks' = DOMAIN networks
      /\ \A i \in DOMAIN networks : networks[i] \in NetworkState
  BY SetStageType DEF TypeOK, Stages
<1>2. \A i \in DOMAIN networks :
        networks'[i].stage = IF i \in nets THEN stage ELSE networks[i].stage
  BY <1>1 DEF SetStage, NetworkState
<1>. QED
  BY <1>1, <1>2 DEF AddingKnown

LEMMA NextAdding ==
  ASSUME TypeOK, AddingKnown, [Next]_vars
  PROVE  AddingKnown'
<1> DEFINE Adding == \A i \in DOMAIN networks : networks[i].stage = "Add" =>
                       \E a \in outstanding : a.kind = "network" /\ a.nr = i
           NoSkip == \A e \in errors : e[1] # "skipped"
<1>1. CASE StartTest \/ StartProvision
  <2>1. PICK a : networks' = SetStage(a.nets, "Busy") /\ outstanding' = outstanding \cup {a}
    BY <1>1 DEF StartTest, StartProvision, Occupy, Launch
  <2>2. pc = "schedule" /\ errors' = errors
    BY <1>1 DEF StartTest, StartProvision
  <2>3. Adding'
    BY <2>1, <2>2, AddingReleased
  <2>. QED
    BY <2>2, <2>3 DEF AddingKnown
<1>2. CASE StartAddNetwork
  <2>1. PICK a \in chooseNextAction :
          /\ a.kind = "network" /\ outstanding' = outstanding \cup {a}
          /\ \E r \in ReserveFor(a.network) : networks' = Append(networks, NewNetwork(a, r.subnets))
    BY <1>2 DEF StartAddNetwork, Launch
  <2>2. PICK net : networks' = Append(networks, net)
    BY <2>1
  <2>3. a.nr = Len(networks) + 1
    BY <2>1, ChosenAction DEF Choice
  <2>4. /\ DOMAIN networks' = DOMAIN networks \cup {Len(networks) + 1}
        /\ \A i \in DOMAIN networks : networks'[i] = networks[i]
    BY <2>2 DEF TypeOK
  <2>5. pc = "schedule" /\ errors' = errors
    BY <1>2 DEF StartAddNetwork
  <2>6. Adding'
    BY <2>1, <2>3, <2>4, <2>5 DEF AddingKnown
  <2>. QED
    BY <2>5, <2>6 DEF AddingKnown
<1>3. CASE FinishTest \/ FinishProvision
  <2>1. PICK a \in outstanding :
          /\ a.kind # "network" /\ outstanding' = outstanding \ {a}
          /\ networks' = SetStage(a.nets, "Ready")
    BY <1>3 DEF FinishTest, FinishProvision, Receive, Release
  <2>2. pc = "wait"
    BY <1>3 DEF FinishTest, FinishProvision, Receive
  <2>3. Adding'
    BY <2>1, <2>2, AddingReleased
  <2>4. \A e \in errors' : e \in errors \/ e[1] \in {"test", "provision"}
    BY <1>3 DEF FinishTest, FinishProvision, FailIf
  <2>. QED
    BY <2>2, <2>3, <2>4 DEF AddingKnown
<1>4. CASE FinishAddNetwork
  <2>1. PICK a \in outstanding, failed \in BOOLEAN :
          /\ outstanding' = outstanding \ {a}
          /\ networks' = SetStage({a.nr}, IF failed THEN "Error" ELSE "Ready")
          /\ FailIf(failed, "network", a.nr)
    BY <1>4 DEF FinishAddNetwork, Receive
  <2>2. pc = "wait"
    BY <1>4 DEF FinishAddNetwork, Receive
  <2>3. Adding'
    BY <2>1, <2>2, AddingReleased
  <2>4. \A e \in errors' : e \in errors \/ e[1] = "network"
    BY <2>1 DEF FailIf
  <2>. QED
    BY <2>2, <2>3, <2>4 DEF AddingKnown
<1>5. CASE FinishPull
  <2>1. PICK a \in outstanding, failed \in BOOLEAN :
          /\ a.kind = "pull" /\ outstanding' = outstanding \ {a}
          /\ FailIf(failed, "pull", VMs[a.nr].base)
    BY <1>5 DEF FinishPull, Receive
  <2>2. pc = "wait" /\ networks' = networks
    BY <1>5 DEF FinishPull, Receive, netVars
  <2>3. \A e \in errors' : e \in errors \/ e[1] = "pull"
    BY <2>1 DEF FailIf
  <2>. QED
    BY <2>1, <2>2, <2>3 DEF AddingKnown
<1>6. CASE StartPull
  <2>1. pc = "schedule" /\ networks' = networks /\ errors' = errors /\ outstanding \subseteq outstanding'
    BY <1>6 DEF StartPull, Launch, netVars
  <2>. QED
    BY <2>1 DEF AddingKnown
<1>7. CASE PanicAddNetwork \/ LeaveLoop \/ TearDown
  <2>1. pc' \notin {"schedule", "wait"}
    BY <1>7 DEF PanicAddNetwork, LeaveLoop, TearDown
  <2>. QED
    BY <2>1 DEF AddingKnown
<1>8. CASE AwaitResult \/ SoftTimer \/ Interrupt \/ Terminated \/ UNCHANGED vars
  <2>1. /\ UNCHANGED <<networks, errors, outstanding>>
        /\ pc' \in {"schedule", "wait"} => pc \in {"schedule", "wait"}
    BY <1>8 DEF AwaitResult, SoftTimer, Interrupt, Terminated, vars, netVars
  <2>. QED
    BY <2>1 DEF AddingKnown
<1>. QED
  BY <1>1, <1>2, <1>3, <1>4, <1>5, <1>6, <1>7, <1>8 DEF Next, SchedulerStep, Environment

LEMMA NextNoneForgotten ==
  ASSUME StageInv, CauseKnown, AddingKnown, NoRunForgotten, [Next]_vars
  PROVE  NoRunForgotten'
<1> SUFFICES ASSUME (pc = "stopped")', Undisturbed',
                    OnFailure = "continue" \/ \A e \in errors' : e[1] = "skipped",
                    NEW r \in DOMAIN TestRuns, Size(r) <= NrVMs
             PROVE  StageOf(r)' = "Done"
  BY DEF NoRunForgotten
<1>1. CASE LeaveLoop
  <2>1. /\ pc = "schedule" /\ NothingToLaunch /\ activeActions = 0
        /\ errors \subseteq errors' /\ runStage' = runStage
        /\ ~softExpired /\ ~interrupted
    BY <1>1, ErrorsStay DEF LeaveLoop, Undisturbed
  <2>2. outstanding = {}
    BY <2>1, FS_EmptySet DEF StageInv, Counted
  <2>3. NoneAdded
    BY <2>1, <2>2 DEF AddingKnown, NoneAdded
  <2>4. ~SetUpFailed
    BY <2>1 DEF Undisturbed, SetUpFailed
  <2>5. ~Failing
    <3>1. OnFailure # "continue" => errors = {}
      BY <2>1 DEF AddingKnown
    <3>. QED
      BY <2>4, <3>1 DEF Failing
  <2>6. ~runStopping
    BY <2>4, <2>5 DEF CauseKnown, ErrorStage, Failing, runStopping
  <2>7. ~cancelled
    BY <2>1, <2>5 DEF CauseKnown
  <2>8. chooseNextAction = {}
    BY <2>1, <2>6, <2>7 DEF NothingToLaunch, MayLaunch, ctxDone
  <2>9. StageOf(r) = "Done"
    BY <2>2, <2>3, <2>6, <2>8, NothingLeftToChoose
  <2>. QED
    BY <2>1, <2>9 DEF StageOf
<1>2. CASE Terminated \/ UNCHANGED vars
  <2>1. UNCHANGED vars
    BY <1>2 DEF Terminated
  <2>2. NoRunForgotten /\ pc = "stopped" /\ Undisturbed /\ errors' = errors /\ runStage' = runStage
    BY <2>1 DEF vars, Undisturbed
  <2>. QED
    BY <2>2 DEF NoRunForgotten, StageOf
<1>3. CASE FinishTest \/ FinishPull \/ FinishProvision \/ FinishAddNetwork \/ SoftTimer
  BY <1>3 DEF FinishTest, FinishPull, FinishProvision, FinishAddNetwork, SoftTimer, EndIteration
<1>4. CASE \/ StartTest \/ StartPull \/ StartProvision \/ StartAddNetwork \/ PanicAddNetwork
           \/ AwaitResult \/ Interrupt \/ TearDown
  BY <1>4 DEF StartTest, StartPull, StartProvision, StartAddNetwork, PanicAddNetwork, AwaitResult,
              Interrupt, TearDown, loopVars
<1>. QED
  BY <1>1, <1>2, <1>3, <1>4 DEF Next, SchedulerStep, Environment

\* When nothing tells the scheduler to stop, it leaves the loop only when every
\* run that fits in the VM IDs has been executed.
THEOREM NoneForgotten == Spec => []NoRunForgotten
<1> DEFINE Inv == CauseKnown /\ AddingKnown /\ NoRunForgotten
<1>1. Init => Inv
  <2>1. Init => AddingKnown /\ NoRunForgotten
    BY DEF Init, AddingKnown, NoRunForgotten
  <2>. QED
    BY <2>1, InitCause
<1>2. Inv /\ StageInv /\ [Next]_vars => Inv'
  BY NextCause, NextAdding, NextNoneForgotten DEF StageInv, ResourceInv
<1>3. Inv => NoRunForgotten
  OBVIOUS
<1>. QED
  BY <1>1, <1>2, <1>3, StageInvariance, PTL DEF Spec

------------------------------------------------------------------------------
(* Networks are reused.                                                    *)

\* Every test has VMs: the premise of NetworksBounded.
Populated == \A r \in DOMAIN TestRuns : Size(r) > 0

\* A build holds an ID and one access network.
BuildInv ==
  \A a \in outstanding : a.kind = "provision" =>
    /\ a.ids # {}
    /\ \E i \in DOMAIN networks : a.nets = {i} /\ networks[i].isAccess = TRUE

Kind(net, access) ==
  {i \in DOMAIN networks : networks[i].network = net /\ networks[i].isAccess = access}

KindOf(a, net, access) ==
  {i \in a.nets : networks[i].network = net /\ networks[i].isAccess = access}

\* Each network of the kind in use can be named by an ID of the action that
\* holds it and its rank among the D networks of the kind which that action
\* holds at most; each ready one by a free ID and its rank among less than D; and
\* the one that is added by the free ID and D - 1.
LEMMA RoomForOne ==
  ASSUME ResourceInv, NEW net, NEW access, NEW D \in Nat, NEW x \in freeIDs,
         \A i \in Kind(net, access) : networks[i].stage \in {"Ready", "Busy"},
         Cardinality(ReadyNetworks(net, access)) < D,
         \A a \in outstanding : KindOf(a, net, access) # {} =>
           a.ids # {} /\ Cardinality(KindOf(a, net, access)) <= D
  PROVE  /\ IsFiniteSet(Kind(net, access))
         /\ Cardinality(Kind(net, access)) + 1 <= NrVMs * D
<1> DEFINE K == Kind(net, access)
           R == ReadyNetworks(net, access)
           H(a) == KindOf(a, net, access)
           n == Len(networks) + 1
           holder == [i \in K |-> CHOOSE a \in outstanding : i \in a.nets]
           id == [i \in K |-> CHOOSE d : d \in holder[i].ids]
           place == [i \in K \cup {n} |->
                       IF i = n THEN <<x, D - 1>>
                       ELSE IF i \in R THEN <<x, RankIn(R, i)>>
                       ELSE <<id[i], RankIn(H(holder[i]), i)>>]
<1>1. TypeOK /\ freeIDs \subseteq IDs
  BY DEF ResourceInv, TypeOK
<1>2. /\ DOMAIN networks = 1 .. Len(networks) /\ Len(networks) \in Nat
      /\ IsFiniteSet(DOMAIN networks) /\ DOMAIN networks \subseteq Int
  <2>1. DOMAIN networks = 1 .. Len(networks) /\ Len(networks) \in Nat
    BY <1>1 DEF TypeOK
  <2>2. Len(networks) \in Int /\ 1 \in Int
    BY <2>1
  <2>3. IsFiniteSet(1 .. Len(networks))
    BY <2>2, FS_Interval
  <2>. QED
    BY <2>1, <2>3
<1>3. IsFiniteSet(K) /\ K \subseteq Int /\ n \notin K
  <2>1. K \in SUBSET DOMAIN networks
    BY DEF Kind
  <2>2. n \notin DOMAIN networks
    BY <1>2
  <2>. QED
    BY <1>2, <2>1, <2>2, FS_Subset
<1>4. ASSUME NEW S \in SUBSET K, NEW i \in S, Cardinality(S) <= D
      PROVE  RankIn(S, i) \in 0 .. (D - 1) /\ (Cardinality(S) < D => RankIn(S, i) # D - 1)
  <2>1. IsFiniteSet(S) /\ S \subseteq Int
    BY <1>3, FS_Subset
  <2>2. /\ Cardinality(S) \in Nat
        /\ [j \in S |-> RankIn(S, j)] \in Bijection(S, 0 .. (Cardinality(S) - 1))
    BY <2>1, RankBijective
  <2>3. RankIn(S, i) \in 0 .. (Cardinality(S) - 1)
    BY <2>2 DEF Bijection, Injection
  <2>. QED
    BY <1>4, <2>2, <2>3
<1>5. ASSUME NEW S \in SUBSET K, NEW i \in S, NEW j \in S, RankIn(S, i) = RankIn(S, j)
      PROVE  i = j
  <2>1. IsFiniteSet(S) /\ S \subseteq Int
    BY <1>3, FS_Subset
  <2>2. [k \in S |-> RankIn(S, k)] \in Bijection(S, 0 .. (Cardinality(S) - 1))
    BY <2>1, RankBijective
  <2>. QED
    BY <1>5, <2>2 DEF Bijection, Injection, IsInjective
<1>6. R \in SUBSET K /\ Cardinality(R) <= D /\ Cardinality(R) < D
  <2>1. R \in SUBSET K
    BY DEF ReadyNetworks, Kind
  <2>2. Cardinality(R) \in Nat
    BY <1>3, <2>1, FS_Subset, FS_CardinalityType
  <2>. QED
    BY <2>1, <2>2
<1>7. ASSUME NEW i \in K, i \notin R
      PROVE  /\ holder[i] \in outstanding /\ i \in H(holder[i]) /\ H(holder[i]) \in SUBSET K
             /\ id[i] \in holder[i].ids /\ id[i] \in IDs /\ id[i] # x
             /\ Cardinality(H(holder[i])) <= D
  <2>1. i \in DOMAIN networks /\ networks[i].network = net /\ networks[i].isAccess = access
    BY DEF Kind
  <2>2. networks[i].stage = "Busy"
    BY <1>7, <2>1 DEF ReadyNetworks
  <2>3. i \in UNION {a.nets : a \in outstanding}
    BY <2>1, <2>2 DEF ResourceInv, ResourcesExclusive, Busy
  <2>4. \E a \in outstanding : i \in a.nets
    BY <2>3
  <2>5. holder[i] \in outstanding /\ i \in holder[i].nets
    BY <2>4
  <2> HIDE DEF holder
  <2>6. i \in H(holder[i])
    BY <2>1, <2>5 DEF KindOf
  <2>7. holder[i].ids # {} /\ Cardinality(H(holder[i])) <= D
    BY <2>5, <2>6
  <2>8. id[i] \in holder[i].ids
    BY <2>7
  <2>9. holder[i].ids \subseteq IDs /\ holder[i].nets \subseteq DOMAIN networks
    BY <1>1, <2>5, ActionFields
  <2>10. x \notin holder[i].ids
    BY <2>5 DEF ResourceInv, ResourcesExclusive
  <2>11. H(holder[i]) \in SUBSET K
    BY <2>9 DEF KindOf, Kind
  <2>. QED
    BY <2>5, <2>6, <2>7, <2>8, <2>9, <2>10, <2>11
<1> HIDE DEF K, R, H, holder, id, n
<1>8. ASSUME NEW i \in K
      PROVE  /\ i \in R => /\ place[i] = <<x, RankIn(R, i)>>
                           /\ RankIn(R, i) \in 0 .. (D - 1) /\ RankIn(R, i) # D - 1
             /\ i \notin R => /\ place[i] = <<id[i], RankIn(H(holder[i]), i)>>
                              /\ RankIn(H(holder[i]), i) \in 0 .. (D - 1)
  BY <1>3, <1>4, <1>6, <1>7
<1>9. place[n] = <<x, D - 1>> /\ D - 1 \in 0 .. (D - 1) /\ x \in IDs
  <2>1. Cardinality(R) \in Nat
    BY <1>3, <1>6, FS_Subset, FS_CardinalityType
  <2>. QED
    BY <1>1, <1>6, <2>1
<1> HIDE DEF place
<1>10. place \in [K \cup {n} -> IDs \X (0 .. (D - 1))]
  <2> DEFINE Ranks == 0 .. (D - 1)
  <2>1. \A i \in K \cup {n} : \E d \in IDs, k \in Ranks : place[i] = <<d, k>>
    <3>1. \E d \in IDs, k \in Ranks : place[n] = <<d, k>>
      BY <1>9
    <3>2. ASSUME NEW i \in K
          PROVE  \E d \in IDs, k \in Ranks : place[i] = <<d, k>>
      BY <1>7, <1>8, <1>9
    <3>. QED
      BY <3>1, <3>2
  <2> HIDE DEF Ranks
  <2>2. \A i \in K \cup {n} : place[i] \in IDs \X Ranks
    <3>1. ASSUME NEW i \in K \cup {n}
          PROVE  place[i] \in IDs \X Ranks
      <4>1. PICK d \in IDs, k \in Ranks : place[i] = <<d, k>>
        BY <2>1
      <4>2. <<d, k>> \in IDs \X Ranks
        OBVIOUS
      <4>. QED
        BY <4>1, <4>2, Zenon
    <3>. QED
      BY <3>1
  <2>3. place = [i \in K \cup {n} |-> place[i]]
    BY DEF place
  <2>4. place \in [K \cup {n} -> IDs \X Ranks]
    BY <2>2, <2>3
  <2>. QED
    BY <2>4 DEF Ranks
<1>11. ASSUME NEW i \in K, NEW j \in K, place[i] = place[j]
       PROVE  i = j
  <2>1. CASE i \in R /\ j \in R
    BY <1>5, <1>6, <1>8, <1>11, <2>1
  <2>2. CASE i \notin R /\ j \notin R
    <3>1. id[i] = id[j] /\ RankIn(H(holder[i]), i) = RankIn(H(holder[j]), j)
      BY <1>8, <1>11, <2>2
    <3>2. holder[i].ids \cap holder[j].ids # {}
      BY <1>7, <2>2, <3>1
    <3>3. holder[i] = holder[j]
      BY <1>7, <2>2, <3>2 DEF ResourceInv, ResourcesExclusive
    <3>. QED
      BY <1>5, <1>7, <2>2, <3>1, <3>3
  <2>3. CASE (i \in R /\ j \notin R) \/ (i \notin R /\ j \in R)
    BY <1>7, <1>8, <1>11, <2>3
  <2>. QED
    BY <2>1, <2>2, <2>3
<1>12. ASSUME NEW i \in K
       PROVE  place[i] # place[n]
  BY <1>7, <1>8, <1>9
<1>13. place \in Injection(K \cup {n}, IDs \X (0 .. (D - 1)))
  BY <1>10, <1>11, <1>12 DEF Injection, IsInjective
<1>14. /\ IsFiniteSet(IDs \X (0 .. (D - 1)))
       /\ Cardinality(IDs \X (0 .. (D - 1))) = NrVMs * D
  <2>1. IsFiniteSet(0 .. (D - 1)) /\ Cardinality(0 .. (D - 1)) = D
    BY <1>9, FS_Interval
  <2>. QED
    BY <2>1, IDsCount, FS_Product
<1>15. Cardinality(K \cup {n}) <= NrVMs * D
  BY <1>13, <1>14, FS_Injection
<1>16. Cardinality(K \cup {n}) = Cardinality(K) + 1
  BY <1>3, FS_AddElement
<1>. QED
  BY <1>3, <1>15, <1>16 DEF K

\* Networks are added for a build, as access network of a run or as one of its
\* extra networks, when the ready ones do not suffice.
LEMMA ChosenNetwork ==
  ASSUME TypeOK, NEW a \in chooseNextAction, a.kind = "network"
  PROVE  /\ freeIDs # {} /\ NoneAdded
         /\ \/ /\ a.access = TRUE /\ Ranked(ReadyNetworks(a.network, TRUE), 0) = {}
               /\ \E ipv6 \in BOOLEAN : a.network = accessNetwork(ipv6)
            \/ /\ a.access = FALSE
               /\ \E r \in DOMAIN TestRuns : \E p \in DOMAIN TestRuns[r].networks :
                    a.network = TestRuns[r].networks[p] /\ ExtraNetworkOf(TestRuns[r], p) = {}
<1>1. ASSUME NEW net, NEW access, NEW b \in makeAddNetworkAction(net, access)
      PROVE  NoneAdded /\ b.network = net /\ b.access = access
  BY <1>1 DEF makeAddNetworkAction, NoneAdded
<1>2. freeIDs # {}
  BY DEF chooseNextAction
<1>3. CASE \E v : a \in nextImageAction(v)
  <2>1. PICK v : a \in nextImageAction(v)
    BY <1>3
  <2>2. a \in nextActionProvision(v)
    BY <2>1 DEF nextImageAction, nextActionPull
  <2> DEFINE access == findReadyNetwork(accessNetwork(FALSE), TRUE, 0)
             job == [kind |-> "provision", nr |-> v, ids |-> getIDs(1), nets |-> access]
  <2>3. nextActionProvision(v) = IF access = {} THEN makeAddNetworkAction(accessNetwork(FALSE), TRUE)
                                 ELSE {job}
    BY DEF nextActionProvision
  <2>4. job.kind = "provision"
    OBVIOUS
  <2>5. access = {} /\ a \in makeAddNetworkAction(accessNetwork(FALSE), TRUE)
    BY <2>2, <2>3, <2>4
  <2>. QED
    BY <1>1, <1>2, <2>5 DEF findReadyNetwork
<1>4. CASE \E r \in bestRun : a \in nextActionRun(r)
  <2>1. PICK r \in bestRun : a \in nextActionRun(r)
    BY <1>4
  <2>2. r \in DOMAIN TestRuns
    BY DEF bestRun, Candidates
  <2> DEFINE run == TestRuns[r]
             missing == remainingNetworks(run)
  <2>3. \/ AccessNetworkOf(run) = {} /\ a \in makeAddNetworkAction(accessNetwork(run.ipv6), TRUE)
        \/ \E p \in First(missing) : a \in makeAddNetworkAction(run.networks[p], FALSE)
        \/ a = TestAction(r)
    BY <2>1 DEF nextActionRun
  <2>4. a # TestAction(r)
    BY DEF TestAction
  <2>5. CASE AccessNetworkOf(run) = {} /\ a \in makeAddNetworkAction(accessNetwork(run.ipv6), TRUE)
    <3>1. NoneAdded /\ a.network = accessNetwork(run.ipv6) /\ a.access = TRUE
      BY <2>5 DEF makeAddNetworkAction, NoneAdded
    <3>2. Ranked(ReadyNetworks(accessNetwork(run.ipv6), TRUE), 0) = {}
      BY <2>5 DEF AccessNetworkOf, findReadyNetwork
    <3>3. run.ipv6 \in BOOLEAN
      BY <2>2, RunTypes
    <3>. QED
      BY <1>2, <3>1, <3>2, <3>3
  <2>6. CASE \E p \in First(missing) : a \in makeAddNetworkAction(run.networks[p], FALSE)
    <3>1. PICK p \in First(missing) : a \in makeAddNetworkAction(run.networks[p], FALSE)
      BY <2>6
    <3>2. p \in DOMAIN run.networks /\ ExtraNetworkOf(run, p) = {}
      BY DEF First, remainingNetworks
    <3>3. NoneAdded /\ a.network = run.networks[p] /\ a.access = FALSE
      BY <3>1 DEF makeAddNetworkAction, NoneAdded
    <3>. QED
      BY <1>2, <2>2, <3>2, <3>3
  <2>. QED
    BY <2>3, <2>4, <2>5, <2>6
<1>. QED
  BY <1>3, <1>4 DEF chooseNextAction

LEMMA DemandType ==
  ASSUME NEW r \in DOMAIN TestRuns, NEW net
  PROVE  /\ IsFiniteSet({p \in DOMAIN TestRuns[r].networks : TestRuns[r].networks[p] = net})
         /\ Demand(TestRuns[r], net) \in Nat
<1> DEFINE nets == TestRuns[r].networks
           S == {p \in DOMAIN nets : nets[p] = net}
<1>1. DOMAIN nets = 1 .. Len(nets) /\ Len(nets) \in Int /\ 1 \in Int
  BY RunTypes
<1>2. IsFiniteSet(1 .. Len(nets))
  BY <1>1, FS_Interval
<1>3. S \in SUBSET (1 .. Len(nets))
  BY <1>1
<1> HIDE DEF S
<1>4. IsFiniteSet(S) /\ Cardinality(S) \in Nat
  BY <1>2, <1>3, FS_Subset, FS_CardinalityType
<1>. QED
  BY <1>4 DEF S, Demand

\* No network has a rank: there are no more than the rank says.
LEMMA FewReady ==
  ASSUME TypeOK, NEW net, NEW access, NEW k \in Nat,
         Ranked(ReadyNetworks(net, access), k) = {}
  PROVE  Cardinality(ReadyNetworks(net, access)) \in Nat /\ Cardinality(ReadyNetworks(net, access)) <= k
<1> DEFINE S == ReadyNetworks(net, access)
<1>1. IsFiniteSet(S) /\ S \subseteq Int
  BY ReadyFinite
<1> HIDE DEF S
<1>2. Cardinality(S) \in Nat
  BY <1>1, FS_CardinalityType
<1>3. ~(k < Cardinality(S))
  <2> SUFFICES ASSUME k < Cardinality(S) PROVE FALSE
    OBVIOUS
  <2>1. S # {} /\ k \in 0 .. (Cardinality(S) - 1)
    BY <1>2, FS_EmptySet
  <2>2. PICK y \in S : RankIn(S, y) = k
    BY <1>1, <2>1, RankExists
  <2>3. y \in Ranked(S, k)
    BY <2>2 DEF Ranked, RankIn
  <2>. QED
    BY <2>3 DEF S
<1>. QED
  BY <1>2, <1>3 DEF S

\* A position without a network: there are fewer ready than the run asks for.
LEMMA FewExtra ==
  ASSUME TypeOK, NEW r \in DOMAIN TestRuns, NEW p \in DOMAIN TestRuns[r].networks,
         ExtraNetworkOf(TestRuns[r], p) = {}
  PROVE  Cardinality(ReadyNetworks(TestRuns[r].networks[p], FALSE))
           < Demand(TestRuns[r], TestRuns[r].networks[p])
<1> DEFINE nets == TestRuns[r].networks
           S == {q \in DOMAIN nets : nets[q] = nets[p]}
           earlier == {q \in 1 .. (p - 1) : nets[q] = nets[p]}
<1>1. DOMAIN nets = 1 .. Len(nets) /\ Len(nets) \in Int
  BY RunTypes
<1>2. IsFiniteSet(S) /\ Cardinality(S) \in Nat
  BY DemandType DEF Demand
<1>3. earlier \in SUBSET S /\ p \in S /\ p \notin earlier
  BY <1>1
<1> HIDE DEF S, earlier
<1>4. IsFiniteSet(earlier) /\ Cardinality(earlier) <= Cardinality(S) /\ Cardinality(earlier) # Cardinality(S)
  BY <1>2, <1>3, FS_Subset
<1>5. Cardinality(earlier) \in Nat
  BY <1>4, FS_CardinalityType
<1>6. Ranked(ReadyNetworks(nets[p], FALSE), Cardinality(earlier)) = {}
  BY DEF ExtraNetworkOf, findReadyNetwork, earlier
<1>7. /\ Cardinality(ReadyNetworks(nets[p], FALSE)) \in Nat
      /\ Cardinality(ReadyNetworks(nets[p], FALSE)) <= Cardinality(earlier)
  BY <1>5, <1>6, FewReady
<1>8. Demand(TestRuns[r], nets[p]) = Cardinality(S)
  BY DEF Demand, S
<1> DEFINE ready == Cardinality(ReadyNetworks(nets[p], FALSE))
           before == Cardinality(earlier)
           all == Cardinality(S)
<1>9. ready \in Nat /\ before \in Nat /\ all \in Nat /\ ready <= before /\ before <= all /\ before # all
  BY <1>2, <1>4, <1>5, <1>7
<1> HIDE DEF ready, before, all
<1>10. ready < all
  BY <1>9
<1>. QED
  BY <1>8, <1>10 DEF ready, all

\* The most that a run asks for of a kind of network.
LEMMA GreatestDemand ==
  ASSUME NEW net, NEW s \in DOMAIN TestRuns
  PROVE  \E r \in DOMAIN TestRuns :
           /\ Demand(TestRuns[r], net) \in Nat
           /\ \A q \in DOMAIN TestRuns : Demand(TestRuns[q], net) <= Demand(TestRuns[r], net)
<1> DEFINE demand == [r \in DOMAIN TestRuns |-> Demand(TestRuns[r], net)]
<1>1. \A r \in DOMAIN TestRuns : Demand(TestRuns[r], net) \in Nat
  BY DemandType
<1>2. demand \in [DOMAIN TestRuns -> Int]
  BY <1>1
<1>3. IsFiniteSet(DOMAIN TestRuns) /\ DOMAIN TestRuns # {}
  BY RunsFinite
<1>4. \E r \in DOMAIN TestRuns : \A q \in DOMAIN TestRuns : demand[q] <= demand[r]
  <2> HIDE DEF demand
  <2>. QED
    BY <1>2, <1>3, GreatestBy
<1>. QED
  BY <1>1, <1>4

\* What an action holds of a kind is not more than a run asks for.
LEMMA HoldsItsDemand ==
  ASSUME Populated, EquipInv, BuildInv, NEW a \in outstanding, NEW net, NEW access \in BOOLEAN,
         KindOf(a, net, access) # {}
  PROVE  /\ a.ids # {}
         /\ access => Cardinality(KindOf(a, net, access)) = 1
         /\ ~access => \E r \in DOMAIN TestRuns : Cardinality(KindOf(a, net, access)) = Demand(TestRuns[r], net)
<1>1. PICK i \in a.nets : networks[i].network = net /\ networks[i].isAccess = access
  BY DEF KindOf
<1>2. CASE a.kind = "test"
  <2> DEFINE run == TestRuns[a.nr]
  <2>1. Equipped(a) /\ a.nr \in DOMAIN TestRuns
    BY <1>2, ActionFields DEF EquipInv
  <2>2. Cardinality(a.ids) # 0
    BY <2>1 DEF Equipped, Populated, Size
  <2>3. a.ids # {}
    BY <2>2, FS_EmptySet
  <2>4. Cardinality(KindOf(a, net, access)) = HowMany(a.nets, net, access)
    BY DEF KindOf, HowMany
  <2>5. access => net = accessNetwork(run.ipv6)
    BY <1>1, <2>1 DEF Equipped
  <2>6. CASE ~access
    <3>1. PICK p \in DOMAIN run.networks : net = run.networks[p]
      BY <1>1, <2>1, <2>6 DEF Equipped
    <3>2. HowMany(a.nets, net, FALSE) = Demand(run, net)
      BY <2>1, <3>1 DEF Equipped, SameNetwork, Demand
    <3>. QED
      BY <2>1, <2>3, <2>4, <2>6, <3>2
  <2>7. CASE access
    BY <2>1, <2>3, <2>4, <2>5, <2>7 DEF Equipped
  <2>. QED
    BY <2>6, <2>7
<1>3. CASE a.kind = "provision"
  <2>1. a.ids # {} /\ a.nets = {i} /\ networks[i].isAccess = TRUE
    BY <1>1, <1>3 DEF BuildInv
  <2>2. KindOf(a, net, access) = {i}
    BY <1>1, <2>1 DEF KindOf
  <2>. QED
    BY <1>1, <2>1, <2>2, FS_Singleton
<1>4. a.kind \notin {"pull", "network"}
  BY <1>1, ActionFields DEF EquipInv
<1>. QED
  BY <1>2, <1>3, <1>4, ActionFields DEF EquipInv

\* Where the networks of a kind are bounded.
Bounded(net, access) ==
  IF access THEN NetworksOfKind(net, TRUE) <= NrVMs
  ELSE \E r \in DOMAIN TestRuns : NetworksOfKind(net, FALSE) <= NrVMs * Demand(TestRuns[r], net)

LEMMA RoomToAdd ==
  ASSUME Populated, ResourceInv, EquipInv, BuildInv, ~runStopping,
         NEW a \in chooseNextAction, a.kind = "network"
  PROVE  /\ IsFiniteSet(Kind(a.network, a.access))
         /\ a.access \in BOOLEAN
         /\ IF a.access THEN Cardinality(Kind(a.network, TRUE)) + 1 <= NrVMs
            ELSE \E r \in DOMAIN TestRuns :
                   Cardinality(Kind(a.network, FALSE)) + 1 <= NrVMs * Demand(TestRuns[r], a.network)
<1> DEFINE net == a.network
<1>1. TypeOK
  BY DEF ResourceInv
<1>2. PICK x : x \in freeIDs
  BY <1>1, ChosenNetwork
<1>3. \A i \in DOMAIN networks : networks[i].stage \in {"Ready", "Busy"}
  <2>1. \A i \in DOMAIN networks : networks[i] \in NetworkState
    BY <1>1 DEF TypeOK
  <2>2. NoneAdded
    BY <1>1, ChosenNetwork
  <2>. QED
    BY <2>1, <2>2 DEF NetworkState, NoneAdded, runStopping
<1>4. ASSUME NEW access
      PROVE  \A i \in Kind(net, access) : networks[i].stage \in {"Ready", "Busy"}
  BY <1>3 DEF Kind
<1>5. CASE a.access = TRUE
  <2> DEFINE ready == Cardinality(ReadyNetworks(net, TRUE))
  <2>1. Ranked(ReadyNetworks(net, TRUE), 0) = {}
    BY <1>1, <1>5, ChosenNetwork
  <2>2. Cardinality(ReadyNetworks(net, TRUE)) < 1
    <3>1. ready \in Nat /\ ready <= 0
      BY <1>1, <2>1, FewReady
    <3> HIDE DEF ready
    <3>2. ready < 1
      BY <3>1
    <3>. QED
      BY <3>2 DEF ready
  <2>3. ASSUME NEW b \in outstanding, KindOf(b, net, TRUE) # {}
        PROVE  b.ids # {} /\ Cardinality(KindOf(b, net, TRUE)) <= 1
    <3> DEFINE held == Cardinality(KindOf(b, net, TRUE))
    <3>1. b.ids # {} /\ held = 1
      BY <2>3, HoldsItsDemand
    <3> HIDE DEF held
    <3>2. held <= 1
      BY <3>1
    <3>. QED
      BY <3>1, <3>2 DEF held
  <2>4. IsFiniteSet(Kind(net, TRUE)) /\ Cardinality(Kind(net, TRUE)) + 1 <= NrVMs * 1
    BY <1>2, <1>4, <2>2, <2>3, RoomForOne
  <2>5. NrVMs * 1 = NrVMs
    BY IDsCount
  <2>. QED
    BY <1>5, <2>4, <2>5
<1>6. CASE a.access = FALSE
  <2>1. PICK s \in DOMAIN TestRuns : \E p \in DOMAIN TestRuns[s].networks :
          net = TestRuns[s].networks[p] /\ ExtraNetworkOf(TestRuns[s], p) = {}
    BY <1>1, <1>6, ChosenNetwork
  <2>2. PICK p \in DOMAIN TestRuns[s].networks :
          net = TestRuns[s].networks[p] /\ ExtraNetworkOf(TestRuns[s], p) = {}
    BY <2>1
  <2>3. PICK r \in DOMAIN TestRuns :
          /\ Demand(TestRuns[r], net) \in Nat
          /\ \A q \in DOMAIN TestRuns : Demand(TestRuns[q], net) <= Demand(TestRuns[r], net)
    BY GreatestDemand
  <2> DEFINE D == Demand(TestRuns[r], net)
  <2>4. Cardinality(ReadyNetworks(net, FALSE)) < D
    <3> DEFINE ready == Cardinality(ReadyNetworks(net, FALSE))
    <3>1. ready < Demand(TestRuns[s], net)
      BY <1>1, <2>2, FewExtra
    <3>2. ready \in Nat
      BY <1>1, ReadyFinite, FS_CardinalityType
    <3>3. Demand(TestRuns[s], net) \in Nat
      BY DemandType
    <3>4. D \in Nat /\ Demand(TestRuns[s], net) <= D
      BY <2>3
    <3> HIDE DEF D, net, ready
    <3>5. ready < D
      BY <3>1, <3>2, <3>3, <3>4
    <3>. QED
      BY <3>5 DEF ready, net
  <2>5. \A b \in outstanding : KindOf(b, net, FALSE) # {} =>
          b.ids # {} /\ Cardinality(KindOf(b, net, FALSE)) <= D
    BY <2>3, HoldsItsDemand
  <2>6. IsFiniteSet(Kind(net, FALSE)) /\ Cardinality(Kind(net, FALSE)) + 1 <= NrVMs * D
    <3> HIDE DEF D
    <3>1. D \in Nat
      BY <2>3 DEF D
    <3>. QED
      BY <1>2, <1>4, <2>4, <2>5, <3>1, RoomForOne
  <2>. QED
    BY <1>6, <2>6
<1>. QED
  BY <1>1, <1>5, <1>6, ChosenNetwork

LEMMA ChosenBuild ==
  ASSUME TypeOK, NEW a \in chooseNextAction, a.kind = "provision"
  PROVE  /\ a.ids # {}
         /\ \E i \in DOMAIN networks : a.nets = {i} /\ networks[i].isAccess = TRUE
<1>1. ASSUME NEW net, NEW access, NEW b \in makeAddNetworkAction(net, access)
      PROVE  b.kind = "network"
  BY <1>1 DEF makeAddNetworkAction
<1>2. ASSUME NEW r, a \in nextActionRun(r)
      PROVE  FALSE
  <2>1. (\E net, access : a \in makeAddNetworkAction(net, access)) \/ a = TestAction(r)
    BY <1>2 DEF nextActionRun
  <2>2. TestAction(r).kind = "test"
    BY DEF TestAction
  <2>. QED
    BY <1>1, <2>1, <2>2
<1>3. freeIDs # {} /\ \E v : a \in nextImageAction(v)
  BY <1>2 DEF chooseNextAction
<1>4. PICK v : a \in nextActionProvision(v)
  BY <1>3 DEF nextImageAction, nextActionPull
<1> DEFINE S == ReadyNetworks(accessNetwork(FALSE), TRUE)
           access == findReadyNetwork(accessNetwork(FALSE), TRUE, 0)
           job == [kind |-> "provision", nr |-> v, ids |-> getIDs(1), nets |-> access]
<1>5. access # {} /\ a = job
  <2>1. nextActionProvision(v) = IF access = {} THEN makeAddNetworkAction(accessNetwork(FALSE), TRUE)
                                 ELSE {job}
    BY DEF nextActionProvision
  <2>. QED
    BY <1>1, <1>4, <2>1
<1>6. PICK i \in S : access = {i}
  <2>1. IsFiniteSet(S) /\ S \subseteq Int
    BY ReadyFinite
  <2>2. access = Ranked(S, 0)
    BY DEF findReadyNetwork
  <2> HIDE DEF S, access
  <2>3. PICK i : i \in Ranked(S, 0)
    BY <1>5, <2>2
  <2>. QED
    BY <2>1, <2>2, <2>3, OneOfRank
<1>7. getIDs(1) # {}
  <2>1. IsFiniteSet(freeIDs)
    BY FreeIDsFinite
  <2>2. Cardinality(freeIDs) \in Nat /\ Cardinality(freeIDs) # 0
    BY <1>3, <2>1, FS_CardinalityType, FS_EmptySet
  <2>3. Cardinality(getIDs(1)) = 1
    BY <2>2, GetIDsCount
  <2>. QED
    BY <2>3, FS_EmptySet
<1>. QED
  BY <1>5, <1>6, <1>7 DEF ReadyNetworks

LEMMA NextBuilds ==
  ASSUME EquipInv, BuildInv, [Next]_vars
  PROVE  BuildInv'
<1>1. TypeOK /\ KindsStay
  BY NextKeepsKinds DEF EquipInv
<1>2. ASSUME NEW a, NEW i \in DOMAIN networks, a.ids # {}, a.nets = {i}, networks[i].isAccess = TRUE
      PROVE  (a.ids # {} /\ \E j \in DOMAIN networks : a.nets = {j} /\ networks[j].isAccess = TRUE)'
  BY <1>1, <1>2 DEF KindsStay
<1>3. CASE StartTest \/ StartPull \/ StartProvision \/ StartAddNetwork
  <2>1. PICK a \in chooseNextAction : outstanding' = outstanding \cup {a}
    BY <1>3 DEF StartTest, StartPull, StartProvision, StartAddNetwork, Launch
  <2>2. a.kind = "provision" =>
          a.ids # {} /\ \E i \in DOMAIN networks : a.nets = {i} /\ networks[i].isAccess = TRUE
    BY <1>1, ChosenBuild
  <2>. QED
    BY <1>2, <2>1, <2>2 DEF BuildInv
<1>4. CASE FinishTest \/ FinishPull \/ FinishProvision \/ FinishAddNetwork
  <2>1. outstanding' \subseteq outstanding
    BY <1>4 DEF FinishTest, FinishPull, FinishProvision, FinishAddNetwork, Receive
  <2>. QED
    BY <1>2, <2>1 DEF BuildInv
<1>5. CASE \/ PanicAddNetwork \/ AwaitResult \/ LeaveLoop \/ TearDown \/ SoftTimer
           \/ Interrupt \/ Terminated \/ UNCHANGED vars
  <2>1. outstanding' = outstanding
    BY <1>5 DEF PanicAddNetwork, AwaitResult, LeaveLoop, TearDown, SoftTimer, Interrupt, Terminated, vars
  <2>. QED
    BY <1>2, <2>1 DEF BuildInv
<1>. QED
  BY <1>3, <1>4, <1>5 DEF Next, SchedulerStep, Environment

BoundedNetworks == \A i \in DOMAIN networks : Bounded(networks[i].network, networks[i].isAccess)

LEMMA BoundStays ==
  ASSUME BoundedNetworks, KindsStay, DOMAIN networks' = DOMAIN networks
  PROVE  BoundedNetworks'
<1>1. ASSUME NEW net, NEW access
      PROVE  NetworksOfKind(net, access)' = NetworksOfKind(net, access)
  <2>1. {i \in DOMAIN networks' : networks'[i].network = net /\ networks'[i].isAccess = access}
          = {i \in DOMAIN networks : networks[i].network = net /\ networks[i].isAccess = access}
    BY DEF KindsStay
  <2>. QED
    BY <2>1 DEF NetworksOfKind
<1>2. ASSUME NEW i \in DOMAIN networks'
      PROVE  Bounded(networks[i].network, networks[i].isAccess)'
  <2>1. /\ networks'[i].network = networks[i].network
        /\ networks'[i].isAccess = networks[i].isAccess
    BY DEF KindsStay
  <2>2. Bounded(networks[i].network, networks[i].isAccess)
    BY DEF BoundedNetworks
  <2>. QED
    BY <1>1, <2>1, <2>2 DEF Bounded
<1>. QED
  BY <1>2 DEF BoundedNetworks

LEMMA BoundSurvivesAdd ==
  ASSUME Populated, ResourceInv, EquipInv, BuildInv, BoundedNetworks, ~runStopping,
         NEW a \in chooseNextAction, a.kind = "network", NEW subnets,
         networks' = Append(networks, NewNetwork(a, subnets))
  PROVE  BoundedNetworks'
<1> DEFINE n == Len(networks) + 1
<1>1. TypeOK
  BY DEF ResourceInv
<1>2. /\ DOMAIN networks' = DOMAIN networks \cup {n} /\ n \notin DOMAIN networks
      /\ \A i \in DOMAIN networks : networks'[i] = networks[i]
      /\ networks'[n] = NewNetwork(a, subnets)
  BY <1>1 DEF TypeOK
<1>3. networks'[n].network = a.network /\ networks'[n].isAccess = a.access
  BY <1>2 DEF NewNetwork
<1> HIDE DEF n
<1>4. ASSUME NEW net, NEW access
      PROVE  Kind(net, access)' = IF net = a.network /\ access = a.access
                                  THEN Kind(net, access) \cup {n} ELSE Kind(net, access)
  BY <1>2, <1>3 DEF Kind
<1>5. /\ IsFiniteSet(Kind(a.network, a.access)) /\ a.access \in BOOLEAN
      /\ n \notin Kind(a.network, a.access)
  BY <1>2, RoomToAdd DEF Kind
<1>6. Bounded(a.network, a.access)'
  <2>1. Cardinality(Kind(a.network, a.access) \cup {n}) = Cardinality(Kind(a.network, a.access)) + 1
    BY <1>5, FS_AddElement
  <2>2. CASE a.access = TRUE
    <3>1. Cardinality(Kind(a.network, TRUE) \cup {n}) <= NrVMs
      BY <2>1, <2>2, RoomToAdd
    <3>2. NetworksOfKind(a.network, TRUE)' = Cardinality(Kind(a.network, TRUE) \cup {n})
      BY <1>4, <2>2 DEF NetworksOfKind, Kind
    <3>. QED
      BY <2>2, <3>1, <3>2 DEF Bounded
  <2>3. CASE a.access = FALSE
    <3>1. \E r \in DOMAIN TestRuns :
            Cardinality(Kind(a.network, FALSE) \cup {n}) <= NrVMs * Demand(TestRuns[r], a.network)
      BY <2>1, <2>3, RoomToAdd
    <3>2. NetworksOfKind(a.network, FALSE)' = Cardinality(Kind(a.network, FALSE) \cup {n})
      BY <1>4, <2>3 DEF NetworksOfKind, Kind
    <3>. QED
      BY <2>3, <3>1, <3>2 DEF Bounded
  <2>. QED
    BY <1>5, <2>2, <2>3
<1>7. ASSUME NEW i \in DOMAIN networks,
             ~(networks[i].network = a.network /\ networks[i].isAccess = a.access)
      PROVE  Bounded(networks[i].network, networks[i].isAccess)'
  <2> DEFINE net == networks[i].network
             access == networks[i].isAccess
  <2>1. networks[i] \in NetworkState
    BY <1>1 DEF TypeOK
  <2>2. access \in BOOLEAN /\ Bounded(net, access) /\ networks'[i] = networks[i]
    BY <1>2, <2>1 DEF BoundedNetworks, NetworkState
  <2>3. Kind(net, access)' = Kind(net, access)
    BY <1>2, <1>4, <1>7
  <2>4. NetworksOfKind(net, access)' = NetworksOfKind(net, access)
    BY <2>2, <2>3 DEF NetworksOfKind, Kind
  <2>. QED
    BY <2>2, <2>4 DEF Bounded
<1>8. ASSUME NEW i \in DOMAIN networks'
      PROVE  Bounded(networks[i].network, networks[i].isAccess)'
  BY <1>2, <1>3, <1>6, <1>7
<1>. QED
  BY <1>8 DEF BoundedNetworks

LEMMA NextBounded ==
  ASSUME Populated, ResourceInv, EquipInv, BuildInv, BoundedNetworks, [Next]_vars
  PROVE  BoundedNetworks'
<1>1. TypeOK /\ KindsStay
  BY NextKeepsKinds DEF EquipInv
<1>2. CASE StartAddNetwork \/ PanicAddNetwork
  <2>1. ~runStopping
    BY <1>2 DEF StartAddNetwork, PanicAddNetwork, MayLaunch
  <2>2. PICK a \in chooseNextAction : a.kind = "network" /\
          \E subnets : networks' = Append(networks, NewNetwork(a, subnets))
    BY <1>2 DEF StartAddNetwork, PanicAddNetwork
  <2>. QED
    BY <2>1, <2>2, BoundSurvivesAdd
<1>3. CASE StartTest \/ StartProvision \/ FinishTest \/ FinishProvision \/ FinishAddNetwork
  <2>1. \E nets, stage : networks' = SetStage(nets, stage)
    BY <1>3 DEF StartTest, StartProvision, FinishTest, FinishProvision, FinishAddNetwork, Occupy, Release
  <2>2. DOMAIN networks' = DOMAIN networks
    BY <2>1 DEF SetStage
  <2>. QED
    BY <1>1, <2>2, BoundStays
<1>4. CASE \/ StartPull \/ FinishPull \/ AwaitResult \/ LeaveLoop \/ TearDown \/ SoftTimer
           \/ Interrupt \/ Terminated \/ UNCHANGED vars
  <2>1. networks' = networks
    BY <1>4 DEF StartPull, FinishPull, AwaitResult, LeaveLoop, TearDown, SoftTimer, Interrupt,
                Terminated, vars, netVars
  <2>. QED
    BY <1>1, <2>1, BoundStays
<1>. QED
  BY <1>2, <1>3, <1>4 DEF Next, SchedulerStep, Environment

\* When every test has VMs, there are never more access networks of a kind than
\* VM IDs, nor more extra networks of a kind than as many tests at once as there
\* are VM IDs can ask for.
THEOREM FewNetworks == Spec => []NetworksBounded
<1> DEFINE Inv == Populated => BuildInv /\ BoundedNetworks
<1>1. Init => Inv
  BY DEF Init, BuildInv, BoundedNetworks
<1>2. Inv /\ StageInv /\ EquipInv /\ [Next]_vars => Inv'
  BY NextBuilds, NextBounded DEF StageInv, Populated, Size
<1>3. Inv => NetworksBounded
  BY DEF Populated, BoundedNetworks, Bounded, NetworksBounded
<1>. QED
  BY <1>1, <1>2, <1>3, StageInvariance, EquipInvariance, PTL DEF Spec

------------------------------------------------------------------------------
(* The scheduler runs out of steps.                                        *)

LEMMA ImageFinite ==
  ASSUME NEW f, NEW Q, IsFiniteSet(Q)
  PROVE  IsFiniteSet({f[q] : q \in Q})
<1> DEFINE T == {f[q] : q \in Q}
           g == [q \in Q |-> f[q]]
<1>1. g \in Surjection(Q, T)
  BY DEF Surjection
<1>. QED
  BY <1>1, FS_Surjection

LEMMA FiniteWork == IsFiniteSet(AllWork)
<1>1. IsFiniteSet(DOMAIN TestRuns) /\ IsFiniteSet(DOMAIN VMs)
  <2>0. VMs \in Seq(VM)
    BY ConfigAssumption, Zenon
  <2>1. DOMAIN VMs = 1 .. Len(VMs) /\ Len(VMs) \in Int
    BY <2>0
  <2>2. IsFiniteSet(1 .. Len(VMs))
    BY <2>1, FS_Interval
  <2>. QED
    BY <2>1, <2>2, RunsFinite
<1>2. IsFiniteSet(TestIDs)
  <2> DEFINE f == [r \in DOMAIN TestRuns |-> TestRuns[r].testID]
  <2>1. TestIDs = {f[r] : r \in DOMAIN TestRuns}
    BY DEF TestIDs
  <2> HIDE DEF f
  <2>. QED
    BY <1>1, <2>1, ImageFinite
<1>3. IsFiniteSet(BaseImages)
  <2> DEFINE f == [v \in DOMAIN VMs |-> VMs[v].base]
  <2>1. BaseImages = {f[v] : v \in DOMAIN VMs}
    BY DEF BaseImages
  <2> HIDE DEF f
  <2>. QED
    BY <1>1, <2>1, ImageFinite
<1>4. IsFiniteSet(VMIDs)
  <2> DEFINE f == [v \in DOMAIN VMs |-> ID(VMs[v])]
  <2>1. VMIDs = {f[v] : v \in DOMAIN VMs}
    BY DEF VMIDs
  <2> HIDE DEF f
  <2>. QED
    BY <1>1, <2>1, ImageFinite
<1>5. \A kind : IsFiniteSet({kind})
  BY FS_Singleton
<1>. QED
  BY <1>2, <1>3, <1>4, <1>5, FS_Product, FS_Union DEF AllWork

Requests == UNION {{r} \X DOMAIN TestRuns[r].networks : r \in DOMAIN TestRuns}

LEMMA FiniteUses == IsFiniteSet(NetworkUses) /\ Cardinality(NetworkUses) \in Nat
<1> DEFINE f == [r \in DOMAIN TestRuns |-> {r} \X DOMAIN TestRuns[r].networks]
<1>1. IsFiniteSet({f[r] : r \in DOMAIN TestRuns})
  BY RunsFinite, ImageFinite
<1>2. ASSUME NEW r \in DOMAIN TestRuns PROVE IsFiniteSet(f[r])
  <2>1. DOMAIN TestRuns[r].networks = 1 .. Len(TestRuns[r].networks) /\ Len(TestRuns[r].networks) \in Int
    BY RunTypes
  <2>2. IsFiniteSet(1 .. Len(TestRuns[r].networks))
    BY <2>1, FS_Interval
  <2>3. IsFiniteSet({r})
    BY FS_Singleton
  <2>. QED
    BY <2>1, <2>2, <2>3, FS_Product
<1>3. Requests = UNION {f[r] : r \in DOMAIN TestRuns}
  BY DEF Requests
<1> HIDE DEF f
<1>4. IsFiniteSet(Requests)
  BY <1>1, <1>2, <1>3, FS_UNION
<1>5. IsFiniteSet({"access"}) /\ IsFiniteSet({"extra"}) /\ IsFiniteSet(BOOLEAN)
  <2>1. \A x : IsFiniteSet({x})
    BY FS_Singleton
  <2>2. IsFiniteSet({TRUE} \cup {FALSE})
    BY <2>1, FS_Union
  <2>3. BOOLEAN = {TRUE} \cup {FALSE}
    OBVIOUS
  <2>. QED
    BY <2>1, <2>2, <2>3
<1>6. NetworkUses = ({"access"} \X BOOLEAN) \cup ({"extra"} \X Requests)
  BY DEF NetworkUses, Requests
<1>. QED
  BY <1>4, <1>5, <1>6, FS_Product, FS_Union, FS_CardinalityType

LEMMA KindFinite ==
  ASSUME TypeOK, NEW net, NEW access
  PROVE  /\ IsFiniteSet(Kind(net, access)) /\ Kind(net, access) \subseteq Int
         /\ Cardinality(Kind(net, access)) \in Nat
<1>1. DOMAIN networks = 1 .. Len(networks) /\ Len(networks) \in Nat
  BY DEF TypeOK
<1>2. IsFiniteSet(DOMAIN networks)
  BY <1>1, FS_Interval
<1>3. Kind(net, access) \in SUBSET DOMAIN networks
  BY DEF Kind
<1>. QED
  BY <1>1, <1>2, <1>3, FS_Subset, FS_CardinalityType

AccessKnown ==
  \A i \in DOMAIN networks :
    networks[i].isAccess => \E ipv6 \in BOOLEAN : networks[i].network = accessNetwork(ipv6)

LEMMA NextAccess ==
  ASSUME TypeOK, AccessKnown, [Next]_vars
  PROVE  AccessKnown'
<1>1. KindsStay
  BY NextKeepsKinds
<1>2. CASE StartAddNetwork \/ PanicAddNetwork
  <2>1. PICK a \in chooseNextAction : a.kind = "network" /\
          \E subnets : networks' = Append(networks, NewNetwork(a, subnets))
    BY <1>2 DEF StartAddNetwork, PanicAddNetwork
  <2>2. PICK subnets : networks' = Append(networks, NewNetwork(a, subnets))
    BY <2>1
  <2> DEFINE n == Len(networks) + 1
  <2>3. /\ DOMAIN networks' = DOMAIN networks \cup {n}
        /\ \A i \in DOMAIN networks : networks'[i] = networks[i]
        /\ networks'[n] = NewNetwork(a, subnets)
    BY <2>2 DEF TypeOK
  <2>4. networks'[n].network = a.network /\ networks'[n].isAccess = a.access
    BY <2>3 DEF NewNetwork
  <2>5. a.access => \E ipv6 \in BOOLEAN : a.network = accessNetwork(ipv6)
    BY <2>1, ChosenNetwork
  <2> HIDE DEF n
  <2>. QED
    BY <2>3, <2>4, <2>5 DEF AccessKnown, accessNetwork
<1>3. CASE ~(StartAddNetwork \/ PanicAddNetwork)
  <2>1. \/ networks' = networks
        \/ \E nets, stage : networks' = SetStage(nets, stage)
    BY <1>3 DEF Next, SchedulerStep, Environment, StartTest, StartPull, StartProvision, AwaitResult,
                LeaveLoop, FinishTest, FinishPull, FinishProvision, FinishAddNetwork, TearDown,
                SoftTimer, Interrupt, Terminated, Occupy, Release, vars, netVars
  <2>2. DOMAIN networks' = DOMAIN networks
    BY <2>1 DEF SetStage
  <2>. QED
    BY <1>1, <2>2 DEF KindsStay, AccessKnown, accessNetwork
<1>. QED
  BY <1>2, <1>3

\* What the networks of a kind are for.
UsesOf(net, access) ==
  IF access THEN {"access"} \X {ipv6 \in BOOLEAN : net = accessNetwork(ipv6)}
  ELSE LET r == CHOOSE q \in DOMAIN TestRuns :
                  NetworksOfKind(net, FALSE) <= NrVMs * Demand(TestRuns[q], net)
       IN  {"extra"} \X ({r} \X {p \in DOMAIN TestRuns[r].networks : TestRuns[r].networks[p] = net})

\* There is room for the networks of each kind, and none of it is another's.
LEMMA RoomOfKind ==
  ASSUME TypeOK, BoundedNetworks, AccessKnown, NEW i \in DOMAIN networks
  PROVE  LET uses == UsesOf(networks[i].network, networks[i].isAccess) IN
         /\ uses \subseteq NetworkUses
         /\ Cardinality(Kind(networks[i].network, networks[i].isAccess)) <= Cardinality(IDs \X uses)
         /\ IsFiniteSet(IDs \X uses)
<1> DEFINE net == networks[i].network
           access == networks[i].isAccess
           uses == UsesOf(net, access)
<1>1. access \in BOOLEAN
  <2>1. networks[i] \in NetworkState
    BY DEF TypeOK
  <2>. QED
    BY <2>1 DEF NetworkState
<1>2. uses \subseteq NetworkUses /\ Cardinality(Kind(net, access)) <= NrVMs * Cardinality(uses)
  <2>1. CASE access = TRUE
    <3>1. PICK ipv6 \in BOOLEAN : net = accessNetwork(ipv6)
      BY <2>1 DEF AccessKnown
    <3>2. uses = {"access"} \X {v \in BOOLEAN : net = accessNetwork(v)}
      BY <2>1 DEF UsesOf
    <3>3. uses \subseteq NetworkUses /\ <<"access", ipv6>> \in uses
      BY <3>1, <3>2 DEF NetworkUses
    <3>4. Cardinality(uses) \in Nat \ {0}
      BY <3>3, FiniteUses, FS_Subset, FS_CardinalityType, FS_EmptySet
    <3>5. Cardinality(Kind(net, access)) <= NrVMs
      BY <2>1 DEF BoundedNetworks, Bounded, NetworksOfKind, Kind
    <3>6. Cardinality(Kind(net, access)) \in Nat
      BY KindFinite
    <3>7. NrVMs <= NrVMs * Cardinality(uses)
      BY <3>4, IDsCount
    <3> HIDE DEF uses, net, access
    <3>8. NrVMs * Cardinality(uses) \in Nat
      BY <3>4, IDsCount
    <3>. QED
      BY <3>3, <3>5, <3>6, <3>7, <3>8, IDsCount
  <2>2. CASE access = FALSE
    <3> DEFINE r == CHOOSE q \in DOMAIN TestRuns :
                      NetworksOfKind(net, FALSE) <= NrVMs * Demand(TestRuns[q], net)
               S == {p \in DOMAIN TestRuns[r].networks : TestRuns[r].networks[p] = net}
    <3>1. r \in DOMAIN TestRuns /\ NetworksOfKind(net, FALSE) <= NrVMs * Demand(TestRuns[r], net)
      BY <2>2 DEF BoundedNetworks, Bounded
    <3>2. uses = {"extra"} \X ({r} \X S)
      BY <2>2 DEF UsesOf
    <3> HIDE DEF r
    <3>3. uses \subseteq NetworkUses
      BY <3>1, <3>2 DEF NetworkUses
    <3>4. Cardinality(S) = Demand(TestRuns[r], net) /\ IsFiniteSet(S) /\ Cardinality(S) \in Nat
      BY <3>1, DemandType DEF Demand
    <3>5. Cardinality(uses) = Cardinality(S)
      <4>1. IsFiniteSet({r}) /\ Cardinality({r}) = 1 /\ IsFiniteSet({"extra"}) /\ Cardinality({"extra"}) = 1
        BY FS_Singleton
      <4> HIDE DEF S
      <4>2. IsFiniteSet({r} \X S) /\ Cardinality({r} \X S) = 1 * Cardinality(S)
        BY <3>4, <4>1, FS_Product
      <4>3. Cardinality({"extra"} \X ({r} \X S)) = 1 * Cardinality({r} \X S)
        BY <4>1, <4>2, FS_Product
      <4>. QED
        BY <3>2, <3>4, <4>2, <4>3
    <3>6. Cardinality(Kind(net, access)) = NetworksOfKind(net, FALSE)
      BY <2>2 DEF NetworksOfKind, Kind
    <3>. QED
      BY <3>1, <3>3, <3>4, <3>5, <3>6
  <2>. QED
    BY <1>1, <2>1, <2>2
<1>3. IsFiniteSet(IDs \X uses) /\ Cardinality(IDs \X uses) = NrVMs * Cardinality(uses)
  BY <1>2, FiniteUses, IDsCount, FS_Subset, FS_Product
<1>. QED
  BY <1>2, <1>3

LEMMA UseTellsKind ==
  ASSUME NEW net, NEW access \in BOOLEAN, NEW use \in UsesOf(net, access)
  PROVE  /\ use[1] = IF access THEN "access" ELSE "extra"
         /\ net = IF access THEN accessNetwork(use[2])
                  ELSE TestRuns[use[2][1]].networks[use[2][2]]
BY DEF UsesOf

\* A list of the elements of a finite set.
Listing(S) == CHOOSE f : f \in Bijection(1 .. Cardinality(S), S)

LEMMA ListingLists ==
  ASSUME NEW S, IsFiniteSet(S)
  PROVE  /\ Cardinality(S) \in Nat
         /\ \A k \in 1 .. Cardinality(S) : Listing(S)[k] \in S
         /\ \A k, l \in 1 .. Cardinality(S) : Listing(S)[k] = Listing(S)[l] => k = l
<1>1. Cardinality(S) \in Nat /\ ExistsBijection(1 .. Cardinality(S), S)
  BY FS_CardinalityType
<1>2. Listing(S) \in Bijection(1 .. Cardinality(S), S)
  BY <1>1 DEF Listing, ExistsBijection
<1>. QED
  BY <1>1, <1>2 DEF Bijection, Injection, IsInjective

\* Each network is named by an ID and a use: the one that its rank among those of
\* its kind has in a list of what there is room for.
LEMMA NetworksFit ==
  ASSUME TypeOK, BoundedNetworks, AccessKnown
  PROVE  DOMAIN networks \subseteq 1 .. MostNetworks /\ MostNetworks \in Nat
<1> DEFINE N == DOMAIN networks
           kind(i) == Kind(networks[i].network, networks[i].isAccess)
           room(i) == IDs \X UsesOf(networks[i].network, networks[i].isAccess)
           name == [i \in N |-> Listing(room(i))[RankIn(kind(i), i) + 1]]
           All == IDs \X NetworkUses
<1>1. N = 1 .. Len(networks) /\ Len(networks) \in Nat
  BY DEF TypeOK
<1>2. \A i \in N : networks[i].isAccess \in BOOLEAN
  <2>1. \A i \in N : networks[i] \in NetworkState
    BY DEF TypeOK
  <2>. QED
    BY <2>1 DEF NetworkState
<1>3. ASSUME NEW i \in N
      PROVE  /\ room(i) \subseteq All /\ IsFiniteSet(room(i))
             /\ Cardinality(kind(i)) <= Cardinality(room(i))
  BY RoomOfKind
<1>4. ASSUME NEW i \in N, NEW j \in kind(i)
      PROVE  /\ RankIn(kind(i), j) \in Int
             /\ RankIn(kind(i), j) + 1 \in 1 .. Cardinality(room(i))
             /\ \A k \in kind(i) : RankIn(kind(i), j) = RankIn(kind(i), k) => j = k
  <2> DEFINE S == kind(i)
  <2>1. IsFiniteSet(S) /\ S \subseteq Int
    BY KindFinite
  <2>2. Cardinality(S) <= Cardinality(room(i)) /\ Cardinality(room(i)) \in Nat
    BY <1>3, FS_CardinalityType
  <2> HIDE DEF S, room
  <2>3. /\ Cardinality(S) \in Nat
        /\ [x \in S |-> RankIn(S, x)] \in Bijection(S, 0 .. (Cardinality(S) - 1))
    BY <2>1, RankBijective
  <2>4. /\ RankIn(S, j) \in 0 .. (Cardinality(S) - 1)
        /\ \A k \in S : RankIn(S, j) = RankIn(S, k) => j = k
    BY <1>4, <2>3 DEF Bijection, Injection, IsInjective, S
  <2>. QED
    BY <2>2, <2>3, <2>4 DEF S
<1>5. \A i \in N : i \in kind(i)
  BY DEF Kind
<1>6. ASSUME NEW i \in N
      PROVE  name[i] \in room(i) /\ name[i] \in All
  <2>1. RankIn(kind(i), i) + 1 \in 1 .. Cardinality(room(i))
    BY <1>4, <1>5
  <2> HIDE DEF kind, room, All
  <2>2. name[i] = Listing(room(i))[RankIn(kind(i), i) + 1]
    OBVIOUS
  <2>. QED
    BY <1>3, <2>1, <2>2, ListingLists
<1>7. ASSUME NEW i \in N, NEW j \in N, name[i] = name[j]
      PROVE  i = j
  <2>1. /\ networks[i].network = networks[j].network
        /\ networks[i].isAccess = networks[j].isAccess
    <3>1. PICK d \in IDs, use \in UsesOf(networks[i].network, networks[i].isAccess) :
            use \in UsesOf(networks[j].network, networks[j].isAccess)
      <4> HIDE DEF name
      <4>. QED
        BY <1>6, <1>7
    <3>2. networks[i].isAccess = networks[j].isAccess
      BY <1>2, <3>1, UseTellsKind
    <3>. QED
      BY <1>2, <3>1, <3>2, UseTellsKind
  <2>2. room(i) = room(j) /\ kind(i) = kind(j)
    BY <2>1
  <2> DEFINE k == RankIn(kind(i), i) + 1
             l == RankIn(kind(i), j) + 1
  <2>3. j \in kind(i) /\ i \in kind(i)
    BY <1>5, <2>2
  <2>4. k \in 1 .. Cardinality(room(i)) /\ l \in 1 .. Cardinality(room(i))
    BY <1>4, <2>3
  <2>5. Listing(room(i))[k] = Listing(room(i))[l]
    BY <1>7, <2>2
  <2> HIDE DEF room, kind
  <2>6. k = l
    <3> HIDE DEF k, l
    <3>. QED
      BY <1>3, <2>4, <2>5, ListingLists
  <2>7. RankIn(kind(i), i) = RankIn(kind(i), j)
    <3>1. RankIn(kind(i), i) \in Int /\ RankIn(kind(i), j) \in Int
      BY <1>4, <2>3
    <3>. QED
      BY <2>6, <3>1
  <2>. QED
    BY <1>4, <2>3, <2>7
<1>8. name \in Injection(N, All)
  <2> HIDE DEF All, kind, room
  <2>1. name \in [N -> All]
    BY <1>6
  <2> HIDE DEF name, N
  <2>. QED
    BY <1>7, <2>1 DEF Injection, IsInjective
<1>9. IsFiniteSet(All) /\ Cardinality(All) = MostNetworks /\ MostNetworks \in Nat
  BY FiniteUses, IDsCount, FS_Product DEF MostNetworks
<1>10. Cardinality(N) = Len(networks)
  <2> HIDE DEF N
  <2>1. 1 \in Int /\ Len(networks) \in Int
    BY <1>1
  <2>2. Cardinality(1 .. Len(networks))
          = IF 1 > Len(networks) THEN 0 ELSE Len(networks) - 1 + 1
    BY <2>1, FS_Interval
  <2>. QED
    BY <1>1, <2>2
<1>11. Len(networks) <= MostNetworks
  BY <1>8, <1>9, <1>10, FS_Injection
<1>. QED
  BY <1>1, <1>9, <1>11

\* The same, to be had in the next state as well.
NetworksFitNow == DOMAIN networks \subseteq 1 .. MostNetworks

LEMMA FitNext ==
  (TypeOK /\ BoundedNetworks /\ AccessKnown)' => NetworksFitNow'
<1>1. TypeOK /\ BoundedNetworks /\ AccessKnown => NetworksFitNow
  BY NetworksFit DEF NetworksFitNow
<1>. QED
  BY <1>1, PTL

\* What is to come, kind by kind.
ComesRight ==
  /\ \A w \in AllWork :
       /\ <<"begin", w>> \in ToCome <=> WorkPhase(w) = "todo"
       /\ <<"end", w>> \in ToCome <=> WorkPhase(w) \in {"todo", "running"}
  /\ \A i \in 1 .. MostNetworks :
       /\ <<"add", i>> \in ToCome <=> i \notin DOMAIN networks
       /\ <<"added", i>> \in ToCome <=> (i \in DOMAIN networks => networks[i].stage = "Add")
  /\ <<"event", "timeout">> \in ToCome <=> ~softExpired
  /\ <<"event", "signal">> \in ToCome <=> ~interrupted
  /\ <<"event", "left">> \in ToCome <=> pc \in {"schedule", "wait"}
  /\ <<"event", "ended">> \in ToCome <=> ~Ended
  /\ \A x \in ToCome :
       \/ \E w \in AllWork : x \in {<<"begin", w>>, <<"end", w>>}
       \/ \E i \in 1 .. MostNetworks : x \in {<<"add", i>>, <<"added", i>>}
       \/ x \in {<<"event", e>> : e \in {"timeout", "signal", "left", "ended"}}

LEMMA ComesNow == ComesRight
<1> DEFINE happened == [timeout |-> softExpired, signal |-> interrupted,
                        left |-> pc \notin {"schedule", "wait"}, ended |-> Ended]
           Begins == {w \in AllWork : WorkPhase(w) = "todo"}
           Ends == {w \in AllWork : WorkPhase(w) \in {"todo", "running"}}
           Adds == {i \in 1 .. MostNetworks : i \notin DOMAIN networks}
           Addeds == {i \in 1 .. MostNetworks : i \in DOMAIN networks => networks[i].stage = "Add"}
           Events == {e \in DOMAIN happened : ~happened[e]}
<1>1. ToCome = ({"begin"} \X Begins) \cup ({"end"} \X Ends) \cup ({"add"} \X Adds)
                 \cup ({"added"} \X Addeds) \cup ({"event"} \X Events)
  BY DEF ToCome
<1>2. /\ DOMAIN happened = {"timeout", "signal", "left", "ended"}
      /\ happened.timeout = softExpired /\ happened.signal = interrupted
      /\ happened.left = (pc \notin {"schedule", "wait"}) /\ happened.ended = Ended
  OBVIOUS
<1>3. /\ "timeout" \in Events <=> ~softExpired
      /\ "signal" \in Events <=> ~interrupted
      /\ "left" \in Events <=> pc \in {"schedule", "wait"}
      /\ "ended" \in Events <=> ~Ended
      /\ Events \subseteq {"timeout", "signal", "left", "ended"}
  BY <1>2
<1> HIDE DEF Events, happened
<1>4. \A w \in AllWork :
        /\ <<"begin", w>> \in ToCome <=> WorkPhase(w) = "todo"
        /\ <<"end", w>> \in ToCome <=> WorkPhase(w) \in {"todo", "running"}
  BY <1>1
<1>5. \A i \in 1 .. MostNetworks :
        /\ <<"add", i>> \in ToCome <=> i \notin DOMAIN networks
        /\ <<"added", i>> \in ToCome <=> (i \in DOMAIN networks => networks[i].stage = "Add")
  BY <1>1
<1>6. \A e : <<"event", e>> \in ToCome <=> e \in Events
  BY <1>1
<1>7. \A x \in ToCome :
        \/ \E w \in AllWork : x \in {<<"begin", w>>, <<"end", w>>}
        \/ \E i \in 1 .. MostNetworks : x \in {<<"add", i>>, <<"added", i>>}
        \/ x \in {<<"event", e>> : e \in {"timeout", "signal", "left", "ended"}}
  <2> HIDE DEF Begins, Ends, Adds, Addeds
  <2>1. Begins \subseteq AllWork /\ Ends \subseteq AllWork
    BY DEF Begins, Ends
  <2>2. Adds \subseteq 1 .. MostNetworks /\ Addeds \subseteq 1 .. MostNetworks
    BY DEF Adds, Addeds
  <2> TAKE x \in ToCome
  <2>3. \/ \E w \in Begins : x = <<"begin", w>>
        \/ \E w \in Ends : x = <<"end", w>>
        \/ \E i \in Adds : x = <<"add", i>>
        \/ \E i \in Addeds : x = <<"added", i>>
        \/ \E e \in Events : x = <<"event", e>>
    BY <1>1
  <2>. QED
    BY <1>3, <2>1, <2>2, <2>3
<1>. QED
  BY <1>3, <1>4, <1>5, <1>6, <1>7 DEF ComesRight

LEMMA ComesNext == ComesRight'
BY ComesNow, PTL

\* Work only goes on.
WorkGoesOn ==
  \A w \in AllWork :
    \/ WorkPhase(w)' = WorkPhase(w)
    \/ WorkPhase(w) = "todo" /\ WorkPhase(w)' = "running"
    \/ WorkPhase(w) = "running" /\ WorkPhase(w)' \in {"done", "failed"}

LEMMA NextGoesOn ==
  ASSUME StageInv, StageInv', [Next]_vars
  PROVE  WorkGoesOn
<1> DEFINE phase == [w \in AllWork |-> WorkPhase(w)]
<1>1. [Pool!Next]_(Pool!poolVars)
  BY NextPool
<1>2. \/ phase' = phase
      \/ \E w \in AllWork : phase[w] = "todo" /\ phase' = [phase EXCEPT ![w] = "running"]
      \/ \E w \in AllWork, end \in {"done", "failed"} :
            phase[w] = "running" /\ phase' = [phase EXCEPT ![w] = end]
  BY <1>1 DEF Pool!Next, Pool!Stop, Pool!Begin, Pool!Finish, Pool!poolVars
<1>3. \A w \in AllWork : phase[w] = WorkPhase(w) /\ phase'[w] = WorkPhase(w)'
  OBVIOUS
<1>4. phase = [w \in AllWork |-> phase[w]]
  OBVIOUS
<1> HIDE DEF phase
<1>. QED
  BY <1>2, <1>3, <1>4 DEF WorkGoesOn

\* So do networks.
NetworksGoOn ==
  \A i \in DOMAIN networks :
    i \in DOMAIN networks' /\ (networks'[i].stage = "Add" => networks[i].stage = "Add")

LEMMA SetStageGoesOn ==
  ASSUME TypeOK, NEW nets, NEW stage, networks' = SetStage(nets, stage), stage # "Add"
  PROVE  NetworksGoOn
BY SetStageStages DEF NetworksGoOn

LEMMA AppendGoesOn ==
  ASSUME TypeOK, NEW net, networks' = Append(networks, net)
  PROVE  NetworksGoOn /\ Len(networks) + 1 \in DOMAIN networks' /\ Len(networks) + 1 \notin DOMAIN networks
BY DEF NetworksGoOn, TypeOK

LEMMA NextNetworksGoOn ==
  ASSUME TypeOK, [Next]_vars
  PROVE  NetworksGoOn
<1>1. CASE \E nets, stage : networks' = SetStage(nets, stage) /\ stage # "Add"
  BY <1>1, SetStageGoesOn
<1>2. CASE \E net : networks' = Append(networks, net)
  BY <1>2, AppendGoesOn
<1>3. CASE UNCHANGED networks
  BY <1>3 DEF NetworksGoOn
<1>4. CASE StartTest \/ StartProvision
  BY <1>1, <1>4 DEF StartTest, StartProvision, Occupy
<1>5. CASE FinishTest \/ FinishProvision \/ FinishAddNetwork
  <2>1. \E nets, stage : networks' = SetStage(nets, stage) /\ stage \in {"Ready", "Error"}
    BY <1>5 DEF FinishTest, FinishProvision, FinishAddNetwork, Release
  <2>. QED
    BY <1>1, <2>1
<1>6. CASE StartAddNetwork \/ PanicAddNetwork
  BY <1>2, <1>6 DEF StartAddNetwork, PanicAddNetwork
<1>7. CASE StartPull \/ FinishPull \/ AwaitResult \/ LeaveLoop \/ SoftTimer \/ Interrupt \/ TearDown
  BY <1>3, <1>7 DEF StartPull, FinishPull, AwaitResult, LeaveLoop, SoftTimer, Interrupt, TearDown, netVars
<1>8. CASE Terminated \/ UNCHANGED vars
  BY <1>3, <1>8 DEF Terminated, vars
<1>. QED
  BY <1>4, <1>5, <1>6, <1>7, <1>8 DEF Next, SchedulerStep, Environment

\* And what has happened has happened.
EventsStay ==
  /\ softExpired => softExpired'
  /\ interrupted => interrupted'
  /\ pc \notin {"schedule", "wait"} => pc' \notin {"schedule", "wait"}
  /\ Ended => Ended'

LEMMA NextEventsStay ==
  ASSUME [Next]_vars
  PROVE  EventsStay
<1>1. CASE StartTest \/ StartPull \/ StartProvision \/ StartAddNetwork
  BY <1>1 DEF StartTest, StartPull, StartProvision, StartAddNetwork, loopVars, EventsStay, Ended
<1>2. CASE FinishTest \/ FinishPull \/ FinishProvision \/ FinishAddNetwork
  <2>1. PICK a : Receive(a)
    BY <1>2 DEF FinishTest, FinishPull, FinishProvision, FinishAddNetwork
  <2>. QED
    BY <2>1 DEF Receive, EventsStay, Ended
<1>3. CASE PanicAddNetwork \/ AwaitResult \/ LeaveLoop \/ SoftTimer \/ Interrupt
  BY <1>3 DEF PanicAddNetwork, AwaitResult, LeaveLoop, SoftTimer, Interrupt, EndIteration,
              EventsStay, Ended
<1>4. CASE TearDown \/ Terminated \/ UNCHANGED vars
  BY <1>4 DEF TearDown, Terminated, vars, EventsStay, Ended
<1>. QED
  BY <1>1, <1>2, <1>3, <1>4 DEF Next, SchedulerStep, Environment

LEMMA ComesLess ==
  ASSUME WorkGoesOn, NetworksGoOn, EventsStay
  PROVE  ToCome' \subseteq ToCome
<1> SUFFICES ASSUME NEW x \in ToCome' PROVE x \in ToCome
  OBVIOUS
<1>1. CASE \E w \in AllWork : x \in {<<"begin", w>>, <<"end", w>>}
  <2>1. PICK w \in AllWork : x \in {<<"begin", w>>, <<"end", w>>}
    BY <1>1
  <2>2. /\ x = <<"begin", w>> => WorkPhase(w)' = "todo"
        /\ x = <<"end", w>> => WorkPhase(w)' \in {"todo", "running"}
    BY ComesNext DEF ComesRight
  <2>3. /\ x = <<"begin", w>> => WorkPhase(w) = "todo"
        /\ x = <<"end", w>> => WorkPhase(w) \in {"todo", "running"}
    BY <2>2 DEF WorkGoesOn
  <2>. QED
    BY <2>1, <2>3, ComesNow DEF ComesRight
<1>2. CASE \E i \in 1 .. MostNetworks : x \in {<<"add", i>>, <<"added", i>>}
  <2>1. PICK i \in 1 .. MostNetworks : x \in {<<"add", i>>, <<"added", i>>}
    BY <1>2
  <2>2. /\ x = <<"add", i>> => i \notin DOMAIN networks'
        /\ x = <<"added", i>> => (i \in DOMAIN networks' => networks'[i].stage = "Add")
    BY ComesNext DEF ComesRight
  <2>3. /\ x = <<"add", i>> => i \notin DOMAIN networks
        /\ x = <<"added", i>> => (i \in DOMAIN networks => networks[i].stage = "Add")
    BY <2>2 DEF NetworksGoOn
  <2>. QED
    BY <2>1, <2>3, ComesNow DEF ComesRight
<1>3. CASE x \in {<<"event", e>> : e \in {"timeout", "signal", "left", "ended"}}
  BY <1>3, ComesNow, ComesNext DEF ComesRight, EventsStay
<1>. QED
  BY <1>1, <1>2, <1>3, ComesNext DEF ComesRight

LEMMA WorkMoves ==
  ASSUME NEW w \in AllWork,
         \/ WorkPhase(w) = "todo" /\ WorkPhase(w)' = "running"
         \/ WorkPhase(w) = "running" /\ WorkPhase(w)' \in {"done", "failed"}
  PROVE  ToCome' # ToCome
<1>1. CASE WorkPhase(w) = "todo" /\ WorkPhase(w)' = "running"
  <2>1. <<"begin", w>> \in ToCome /\ <<"begin", w>> \notin ToCome'
    BY <1>1, ComesNow, ComesNext DEF ComesRight
  <2>. QED
    BY <2>1
<1>2. CASE WorkPhase(w) = "running" /\ WorkPhase(w)' \in {"done", "failed"}
  <2>1. <<"end", w>> \in ToCome /\ <<"end", w>> \notin ToCome'
    BY <1>2, ComesNow, ComesNext DEF ComesRight
  <2>. QED
    BY <2>1
<1>. QED
  BY <1>1, <1>2

LEMMA StartMoves ==
  ASSUME StageInv, StartTest \/ StartPull \/ StartProvision
  PROVE  ToCome' # ToCome
<1>1. /\ runStage \in [TestIDs -> {"New", "Exec", "Done"}]
      /\ pullStage \in [BaseImages -> {"None", "Pull", "Done", "Error"}]
      /\ provisionStage \in [VMIDs -> {"None", "Exec", "Done", "Error"}]
  BY DEF StageInv, ResourceInv, TypeOK
<1>2. CASE StartTest
  <2>1. PICK a \in chooseNextAction :
          a.kind = "test" /\ runStage' = [runStage EXCEPT ![TestRuns[a.nr].testID] = "Exec"]
    BY <1>2 DEF StartTest
  <2>2. PICK t \in TestIDs : runStage[t] = "New" /\ runStage'[t] = "Exec"
    BY <1>1, <2>1, ChosenAction, RunTypes DEF Choice, StartableRuns, StageOf
  <2>3. /\ <<"test", t>> \in AllWork /\ WorkPhase(<<"test", t>>) = "todo"
        /\ WorkPhase(<<"test", t>>)' = "running"
    BY <2>2, Phases, PhasesNext DEF PhasesRight, AllWork
  <2>. QED
    BY <2>3, WorkMoves
<1>3. CASE StartPull
  <2>1. PICK a \in chooseNextAction :
          a.kind = "pull" /\ pullStage' = [pullStage EXCEPT ![VMs[a.nr].base] = "Pull"]
    BY <1>3 DEF StartPull
  <2>2. PICK b \in BaseImages : pullStage[b] = "None" /\ pullStage'[b] = "Pull"
    BY <1>1, <2>1, ChosenAction, VMTypes DEF Choice, UnpulledVMs
  <2>3. /\ <<"pull", b>> \in AllWork /\ WorkPhase(<<"pull", b>>) = "todo"
        /\ WorkPhase(<<"pull", b>>)' = "running"
    BY <2>2, Phases, PhasesNext DEF PhasesRight, AllWork
  <2>. QED
    BY <2>3, WorkMoves
<1>4. CASE StartProvision
  <2>1. PICK a \in chooseNextAction :
          a.kind = "provision" /\ provisionStage' = [provisionStage EXCEPT ![ID(VMs[a.nr])] = "Exec"]
    BY <1>4 DEF StartProvision
  <2>2. PICK i \in VMIDs : provisionStage[i] = "None" /\ provisionStage'[i] = "Exec"
    BY <1>1, <2>1, ChosenAction, VMTypes DEF Choice, PulledVMs
  <2>3. /\ <<"provision", i>> \in AllWork /\ WorkPhase(<<"provision", i>>) = "todo"
        /\ WorkPhase(<<"provision", i>>)' = "running"
    BY <2>2, Phases, PhasesNext DEF PhasesRight, AllWork
  <2>. QED
    BY <2>3, WorkMoves
<1>. QED
  BY <1>2, <1>3, <1>4

LEMMA FinishMoves ==
  ASSUME StageInv, FinishTest \/ FinishPull \/ FinishProvision
  PROVE  ToCome' # ToCome
<1>1. /\ TypeOK
      /\ runStage \in [TestIDs -> {"New", "Exec", "Done"}]
      /\ pullStage \in [BaseImages -> {"None", "Pull", "Done", "Error"}]
      /\ provisionStage \in [VMIDs -> {"None", "Exec", "Done", "Error"}]
      /\ outstanding \subseteq Action
  BY DEF StageInv, ResourceInv, TypeOK
<1>2. CASE FinishTest
  <2>1. PICK a \in outstanding :
          a.kind = "test" /\ runStage' = [runStage EXCEPT ![TestRuns[a.nr].testID] = "Done"]
    BY <1>2 DEF FinishTest
  <2>2. PICK t \in TestIDs : runStage[t] = "Exec" /\ runStage'[t] = "Done"
    <3>1. a.nr \in DOMAIN TestRuns
      BY <1>1, <2>1, ActionFields
    <3>2. TestRuns[a.nr].testID \in TestIDs /\ runStage[TestRuns[a.nr].testID] = "Exec"
      BY <2>1, <3>1, WorkInProgress, RunTypes
    <3>. QED
      BY <1>1, <2>1, <3>2
  <2>3. /\ <<"test", t>> \in AllWork /\ WorkPhase(<<"test", t>>) = "running"
        /\ WorkPhase(<<"test", t>>)' = "done"
    BY <2>2, Phases, PhasesNext DEF PhasesRight, AllWork
  <2>. QED
    BY <2>3, WorkMoves
<1>3. CASE FinishPull
  <2>1. PICK a \in outstanding, end \in {"Error", "Done"} :
          a.kind = "pull" /\ pullStage' = [pullStage EXCEPT ![VMs[a.nr].base] = end]
    BY <1>3 DEF FinishPull
  <2>2. PICK b \in BaseImages : pullStage[b] = "Pull" /\ pullStage'[b] = end
    <3>1. a.nr \in DOMAIN VMs
      BY <1>1, <2>1, ActionFields
    <3>2. VMs[a.nr].base \in BaseImages /\ pullStage[VMs[a.nr].base] = "Pull"
      BY <2>1, <3>1, WorkInProgress, VMTypes
    <3>. QED
      BY <1>1, <2>1, <3>2
  <2>3. /\ <<"pull", b>> \in AllWork /\ WorkPhase(<<"pull", b>>) = "running"
        /\ WorkPhase(<<"pull", b>>)' \in {"done", "failed"}
    BY <2>2, Phases, PhasesNext DEF PhasesRight, AllWork
  <2>. QED
    BY <2>3, WorkMoves
<1>4. CASE FinishProvision
  <2>1. PICK a \in outstanding, end \in {"Error", "Done"} :
          a.kind = "provision" /\ provisionStage' = [provisionStage EXCEPT ![ID(VMs[a.nr])] = end]
    BY <1>4 DEF FinishProvision
  <2>2. PICK i \in VMIDs : provisionStage[i] = "Exec" /\ provisionStage'[i] = end
    <3>1. a.nr \in DOMAIN VMs
      BY <1>1, <2>1, ActionFields
    <3>2. ID(VMs[a.nr]) \in VMIDs /\ provisionStage[ID(VMs[a.nr])] = "Exec"
      BY <2>1, <3>1, WorkInProgress, VMTypes
    <3>. QED
      BY <1>1, <2>1, <3>2
  <2>3. /\ <<"provision", i>> \in AllWork /\ WorkPhase(<<"provision", i>>) = "running"
        /\ WorkPhase(<<"provision", i>>)' \in {"done", "failed"}
    BY <2>2, Phases, PhasesNext DEF PhasesRight, AllWork
  <2>. QED
    BY <2>3, WorkMoves
<1>. QED
  BY <1>2, <1>3, <1>4

LEMMA NetworkMoves ==
  ASSUME StageInv, NetworksGoOn, NetworksFitNow', StartAddNetwork \/ PanicAddNetwork \/ FinishAddNetwork
  PROVE  ToCome' # ToCome
<1>1. TypeOK
  BY DEF StageInv, ResourceInv
<1>2. CASE StartAddNetwork \/ PanicAddNetwork
  <2>1. PICK net : networks' = Append(networks, net)
    BY <1>2 DEF StartAddNetwork, PanicAddNetwork
  <2>2. PICK n \in DOMAIN networks' : n \notin DOMAIN networks
    BY <1>1, <2>1, AppendGoesOn
  <2>3. n \in 1 .. MostNetworks
    BY <2>2 DEF NetworksFitNow
  <2>4. <<"add", n>> \in ToCome /\ <<"add", n>> \notin ToCome'
    BY <2>2, <2>3, ComesNow, ComesNext DEF ComesRight
  <2>. QED
    BY <2>4
<1>3. CASE FinishAddNetwork
  <2>1. PICK a \in outstanding, end \in {"Error", "Ready"} :
          a.kind = "network" /\ networks' = SetStage({a.nr}, end)
    BY <1>3 DEF FinishAddNetwork
  <2>2. a.nr \in DOMAIN networks /\ networks[a.nr].stage = "Add"
    BY <1>1, <2>1, ActionFields DEF StageInv, ResourceInv, AddingOutstanding, TypeOK
  <2>3. PICK n \in DOMAIN networks : networks[n].stage = "Add" /\ networks'[n].stage = end
    BY <1>1, <2>1, <2>2, SetStageStages
  <2>4. n \in DOMAIN networks' /\ n \in 1 .. MostNetworks
    BY DEF NetworksFitNow, NetworksGoOn
  <2>5. <<"added", n>> \in ToCome /\ <<"added", n>> \notin ToCome'
    BY <2>3, <2>4, ComesNow, ComesNext DEF ComesRight
  <2>. QED
    BY <2>5
<1>. QED
  BY <1>2, <1>3

LEMMA EventMoves ==
  ASSUME LeaveLoop \/ SoftTimer \/ Interrupt \/ TearDown
  PROVE  ToCome' # ToCome
<1>1. CASE LeaveLoop
  <2>1. <<"event", "left">> \in ToCome /\ <<"event", "left">> \notin ToCome'
    BY <1>1, ComesNow, ComesNext DEF ComesRight, LeaveLoop
  <2>. QED
    BY <2>1
<1>2. CASE SoftTimer
  <2>1. <<"event", "timeout">> \in ToCome /\ <<"event", "timeout">> \notin ToCome'
    BY <1>2, ComesNow, ComesNext DEF ComesRight, SoftTimer
  <2>. QED
    BY <2>1
<1>3. CASE Interrupt
  <2>1. <<"event", "signal">> \in ToCome /\ <<"event", "signal">> \notin ToCome'
    BY <1>3, ComesNow, ComesNext DEF ComesRight, Interrupt
  <2>. QED
    BY <2>1
<1>4. CASE TearDown
  <2>1. <<"event", "ended">> \in ToCome /\ <<"event", "ended">> \notin ToCome'
    BY <1>4, ComesNow, ComesNext DEF ComesRight, TearDown, Ended
  <2>. QED
    BY <2>1
<1>. QED
  BY <1>1, <1>2, <1>3, <1>4

LEMMA NextMoves ==
  ASSUME StageInv, StageInv', NetworksFitNow', [Next]_vars
  PROVE  /\ ToCome' \subseteq ToCome
         /\ \/ ToCome' # ToCome
            \/ pc = "schedule" /\ pc' = "wait"
            \/ UNCHANGED vars
<1>1. NetworksGoOn
  BY NextNetworksGoOn DEF StageInv, ResourceInv
<1>2. ToCome' \subseteq ToCome
  BY <1>1, NextGoesOn, NextEventsStay, ComesLess
<1>3. CASE AwaitResult
  BY <1>2, <1>3 DEF AwaitResult
<1>. QED
  BY <1>1, <1>2, <1>3, StartMoves, FinishMoves, NetworkMoves, EventMoves
  DEF Next, SchedulerStep, Environment, Terminated

LEMMA FiniteToCome ==
  ASSUME MostNetworks \in Nat
  PROVE  IsFiniteSet(ToCome)
<1> DEFINE All == ({"begin"} \X AllWork) \cup ({"end"} \X AllWork)
                    \cup ({"add"} \X (1 .. MostNetworks)) \cup ({"added"} \X (1 .. MostNetworks))
                    \cup ({"event"} \X {"timeout", "signal", "left", "ended"})
<1>1. \A x : IsFiniteSet({x})
  BY FS_Singleton
<1>2. IsFiniteSet({"timeout", "signal", "left", "ended"})
  <2>1. {"timeout", "signal", "left", "ended"} = {"timeout"} \cup {"signal"} \cup {"left"} \cup {"ended"}
    OBVIOUS
  <2>2. IsFiniteSet({"timeout"} \cup {"signal"})
    BY <1>1, FS_Union
  <2>3. IsFiniteSet({"timeout"} \cup {"signal"} \cup {"left"})
    BY <1>1, <2>2, FS_Union
  <2>4. IsFiniteSet({"timeout"} \cup {"signal"} \cup {"left"} \cup {"ended"})
    BY <1>1, <2>3, FS_Union
  <2>. QED
    BY <2>1, <2>4
<1>3. IsFiniteSet(1 .. MostNetworks)
  BY FS_Interval
<1>4. IsFiniteSet(All)
  BY <1>1, <1>2, <1>3, FiniteWork, FS_Product, FS_Union
<1>5. ToCome \in SUBSET All
  <2>1. ASSUME NEW x \in ToCome PROVE x \in All
    BY ComesNow DEF ComesRight
  <2>. QED
    BY <2>1
<1>. QED
  BY <1>4, <1>5, FS_Subset

\* When every test has VMs, whatever fails, expires or is interrupted, the
\* scheduler goes through finitely many steps: what may still happen is a finite
\* set that only shrinks, and it shrinks in every step but the one to a wait.
THEOREM BoundedSteps == Spec => StepsRunOut /\ [](Populated => IsFiniteSet(ToCome))
<1> DEFINE Inv == Populated => BuildInv /\ BoundedNetworks /\ AccessKnown
<1>1. Init => Inv
  BY DEF Init, BuildInv, BoundedNetworks, AccessKnown
<1>2. Inv /\ StageInv /\ EquipInv /\ [Next]_vars => Inv'
  BY NextBuilds, NextBounded, NextAccess DEF StageInv, ResourceInv, Populated, Size
<1>3. Inv /\ StageInv => (Populated => IsFiniteSet(ToCome))
  BY NetworksFit, FiniteToCome DEF StageInv, ResourceInv
<1>4. StageInv /\ StageInv' /\ Inv' /\ [Next]_vars
        => [(\A r \in DOMAIN TestRuns : Size(r) > 0) =>
              /\ ToCome' \subseteq ToCome
              /\ ToCome' # ToCome \/ (pc = "schedule" /\ pc' = "wait")]_vars
  <2> SUFFICES ASSUME StageInv, StageInv', Inv', [Next]_vars, Populated
               PROVE  [/\ ToCome' \subseteq ToCome
                       /\ ToCome' # ToCome \/ (pc = "schedule" /\ pc' = "wait")]_vars
    BY DEF Populated
  <2>1. (TypeOK /\ BoundedNetworks /\ AccessKnown)'
    BY DEF StageInv, ResourceInv, Populated, Size
  <2>2. NetworksFitNow'
    BY <2>1, FitNext
  <2>. QED
    BY <2>2, NextMoves
<1>. QED
  BY <1>1, <1>2, <1>3, <1>4, StageInvariance, EquipInvariance, PTL DEF Spec, StepsRunOut

------------------------------------------------------------------------------
(* And it never waits for nothing.                                         *)

LEMMA NextWaits ==
  ASSUME StageInv, NobodyWaitsInVain, [Next]_vars
  PROVE  NobodyWaitsInVain'
<1>1. activeActions > 0 => outstanding # {}
  BY FS_EmptySet DEF StageInv, Counted
<1>2. activeActions = 0 => outstanding = {}
  BY FS_EmptySet DEF StageInv, Counted
<1>3. CASE StartTest \/ StartPull \/ StartProvision \/ StartAddNetwork
  <2>1. pc' = "schedule"
    BY <1>3 DEF StartTest, StartPull, StartProvision, StartAddNetwork, loopVars
  <2>. QED
    BY <2>1 DEF NobodyWaitsInVain
<1>4. CASE FinishTest \/ FinishPull \/ FinishProvision \/ FinishAddNetwork \/ SoftTimer
  <2>1. pc' = "schedule"
    BY <1>4 DEF FinishTest, FinishPull, FinishProvision, FinishAddNetwork, SoftTimer, EndIteration
  <2>. QED
    BY <2>1 DEF NobodyWaitsInVain
<1>5. CASE AwaitResult \/ LeaveLoop \/ PanicAddNetwork
  BY <1>1, <1>2, <1>5 DEF AwaitResult, LeaveLoop, PanicAddNetwork, NobodyWaitsInVain
<1>6. CASE Interrupt \/ TearDown \/ Terminated \/ UNCHANGED vars
  BY <1>6 DEF Interrupt, TearDown, Terminated, vars, NobodyWaitsInVain
<1>. QED
  BY <1>3, <1>4, <1>5, <1>6 DEF Next, SchedulerStep, Environment

\* Neither the scheduler nor a goroutine with a result waits for ever: the loop
\* waits only while an action is outstanding, and ends only when none is.
THEOREM WaitsEnd == Spec => []NobodyWaitsInVain
<1>1. Init => NobodyWaitsInVain
  BY DEF Init, NobodyWaitsInVain
<1>2. StageInv /\ NobodyWaitsInVain /\ [Next]_vars => NobodyWaitsInVain'
  BY NextWaits
<1>. QED
  BY <1>1, <1>2, StageInvariance, PTL DEF Spec

==============================================================================
