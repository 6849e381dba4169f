------------------------------ MODULE PlanProofs ------------------------------
(***************************************************************************)
(* The plan of a suite is what doc/test-run-determination.md says, for     *)
(* every specification: the product of tests, counts, variants, platforms  *)
(* and repeats, on suitable VMs, with unique IDs and no superfluous VMs.   *)
(***************************************************************************)
EXTENDS TestRunPlan, FiniteSetTheorems, TLAPS

\* What the specification must not repeat: VM counts of a test and names of
\* variants (see finding 3 in the README for what happens otherwise).
DistinctParts ==
  \A s \in Specifications :
    /\ \A i, j \in DOMAIN s.variants : s.variants[i].name = s.variants[j].name => i = j
    /\ \A t \in DOMAIN s.tests : \A i, j \in DOMAIN s.tests[t].counts :
         s.tests[t].counts[i] = s.tests[t].counts[j] => i = j

\* VMs that differ have different IDs.
DistinctVMs ==
  \A s \in Specifications : \A v, w \in DOMAIN s.vms : s.vms[v].id = s.vms[w].id => v = w

Run == [testID : Strings \X Nat \X Strings \X Nat, test : Strings, variant : Strings, vms : Seq(Nat)]

AllowedVMs == {v \in DOMAIN spec.vms : Allowed(spec.vms[v])}

\* How many runs one repeat makes for test t.
Each(t, i) == IF spec.tests[t].all THEN Cardinality(Available(t, Listed[i])) ELSE 1

PlanTypes ==
  /\ spec \in Specifications
  /\ pc \in {"filter", "tests", "variants", "planned"}
  /\ vi \in Nat \ {0} /\ ci \in Nat \ {0} /\ repeat \in Nat /\ made \in Nat
  /\ runs \in Seq(Run)

\* What the filters have left.
Filtered ==
  /\ pc = "filter" => /\ left = DOMAIN spec.tests
                      /\ vms = DOMAIN spec.vms
                      /\ runs = << >>
  /\ pc # "filter" => /\ left \subseteq filterTests(DOMAIN spec.tests, spec.toRun)
                      /\ variants = filterVariants(spec.variantsToRun)
  /\ pc \in {"tests", "variants"} => vms = AllowedVMs

\* Where the loops are.
Cursor ==
  pc = "variants" =>
    /\ test \in filterTests(DOMAIN spec.tests, spec.toRun) \ left
    /\ vi \in 1 .. (Len(Listed) + 1)
    /\ ci \in 1 .. (Len(Test.counts) + 1)
    /\ repeat \in 0 .. spec.repeats
    /\ made = IF repeat = 0 THEN 0 ELSE repeat * Each(test, vi)
    /\ vi \notin DOMAIN Listed \/ ~Selected => ci = 1 /\ repeat = 0
    /\ ci \notin DOMAIN Test.counts => repeat = 0

LoopInv == PlanTypes /\ Filtered /\ Cursor

------------------------------------------------------------------------------
(* What the specification says.                                            *)

LEMMA SpecTypes ==
  ASSUME PlanTypes
  PROVE  /\ spec.vms \in Seq(VMConfig)
         /\ spec.variants \in Seq(VariantConfig)
         /\ \A t \in DOMAIN spec.tests : t \in Strings /\ spec.tests[t] \in TestConfig
         /\ spec.repeats \in Nat
BY SpecificationAssumption DEF PlanTypes

LEMMA ListedType ==
  ASSUME PlanTypes
  PROVE  Listed \in Seq(VariantConfig) /\ DOMAIN Listed = 1 .. Len(Listed)
<1>1. spec.variants \in Seq(VariantConfig)
  BY SpecTypes
<1>2. [name |-> "default", tags |-> {}] \in VariantConfig
  BY SpecificationAssumption DEF VariantConfig
<1>3. \A e \in VariantConfig : << e >> \in Seq(VariantConfig)
  OBVIOUS
<1>4. Listed \in Seq(VariantConfig)
  BY <1>1, <1>2, <1>3 DEF Listed
<1>. QED
  BY <1>4

LEMMA AvailableFinite ==
  ASSUME PlanTypes, NEW t, NEW variant
  PROVE  /\ IsFiniteSet(Available(t, variant))
         /\ Available(t, variant) \subseteq Nat
         /\ Cardinality(Available(t, variant)) \in Nat
<1>1. DOMAIN spec.vms = 1 .. Len(spec.vms) /\ Len(spec.vms) \in Nat
  BY SpecTypes
<1>2. IsFiniteSet(DOMAIN spec.vms)
  BY <1>1, FS_Interval
<1>. QED
  BY <1>1, <1>2, FS_Subset, FS_CardinalityType DEF Available

\* The list the code draws from is what the documentation calls available.
LEMMA PlatformsAvailable ==
  ASSUME PlanTypes, vms = AllowedVMs
  PROVE  Platforms = Available(test, Variant)
BY DEF Platforms, availableVMs, matchingVMTags, containsAllStrings, AllowedVMs, Available, Test

\* A variant is selected when the documentation wants it and it has platforms.
LEMMA SelectedWanted ==
  ASSUME LoopInv, InVariants
  PROVE  Selected <=> Wanted(test, Variant) /\ Available(test, Variant) # {}
<1>1. Platforms = Available(test, Variant)
  BY PlatformsAvailable DEF LoopInv, Filtered, InVariants
<1>2. /\ variants = filterVariants(spec.variantsToRun)
      /\ test \in filterTests(DOMAIN spec.tests, spec.toRun)
  BY DEF LoopInv, Filtered, Cursor, InVariants
<1>. QED
  BY <1>1, <1>2 DEF Selected, Wanted, filterVariants, filterTests, InVariants, Test, Variant

------------------------------------------------------------------------------
(* The loops.                                                              *)

LEMMA TestTypes ==
  ASSUME LoopInv, pc = "variants"
  PROVE  /\ test \in DOMAIN spec.tests /\ test \in Strings
         /\ Test \in TestConfig
         /\ Test.counts \in Seq(Nat)
         /\ DOMAIN Test.counts = 1 .. Len(Test.counts)
<1>1. test \in DOMAIN spec.tests
  BY DEF LoopInv, Cursor, filterTests
<1>2. test \in Strings /\ Test \in TestConfig
  BY <1>1, SpecTypes DEF LoopInv, Test
<1>3. Test.counts \in Seq(Nat)
  BY <1>2 DEF TestConfig
<1>. QED
  BY <1>1, <1>2, <1>3

\* What one repeat comes up with.
Count == Test.counts[ci]

Uniform(s) == \A a, b \in 1 .. Count : s[a] = s[b]

LEMMA AssignmentShape ==
  ASSUME LoopInv, InVariants, ci \in DOMAIN Test.counts,
         NEW assigned \in Assignments(Test, Count, Platforms)
  PROVE  /\ assigned \in Seq([1 .. Count -> Platforms])
         /\ Len(assigned) = Each(test, vi)
         /\ Test.all \/ Test.same => \A k \in 1 .. Len(assigned) : Uniform(assigned[k])
<1>1. Test.all \in BOOLEAN /\ Test.same \in BOOLEAN
  BY TestTypes DEF TestConfig, InVariants
<1>2. Platforms = Available(test, Variant)
  BY PlatformsAvailable DEF LoopInv, Filtered, InVariants
<1>3. Cardinality(Platforms) \in Nat
  BY <1>2, AvailableFinite DEF LoopInv
<1>4. Each(test, vi) = IF Test.all THEN Cardinality(Platforms) ELSE 1
  BY <1>2 DEF Each, Test, Variant
<1>5. CASE Test.all
  <2>1. PICK f \in InOrder(Platforms) : assigned = [k \in DOMAIN f |-> repeatVM(f[k], Count)]
    BY <1>5 DEF Assignments
  <2>2. f \in [1 .. Cardinality(Platforms) -> Platforms]
    BY DEF InOrder
  <2>3. assigned \in [1 .. Cardinality(Platforms) -> [1 .. Count -> Platforms]]
    BY <2>1, <2>2 DEF repeatVM
  <2>4. \A k \in DOMAIN assigned : Uniform(assigned[k])
    BY <2>1 DEF repeatVM, Uniform
  <2>. QED
    BY <1>3, <1>4, <1>5, <2>3, <2>4
<1>6. CASE ~Test.all /\ Test.same
  <2>1. PICK v \in Platforms : assigned = <<repeatVM(v, Count)>>
    BY <1>6 DEF Assignments
  <2>2. repeatVM(v, Count) \in [1 .. Count -> Platforms] /\ Uniform(repeatVM(v, Count))
    BY DEF repeatVM, Uniform
  <2>. QED
    BY <1>4, <1>6, <2>1, <2>2
<1>7. CASE ~Test.all /\ ~Test.same
  <2>1. PICK s \in [1 .. Count -> Platforms] : assigned = <<s>>
    BY <1>1, <1>7 DEF Assignments
  <2>. QED
    BY <1>4, <1>7, <2>1
<1>. QED
  BY <1>1, <1>5, <1>6, <1>7

\* What determineRunsForTestVariant adds for one repeat.
NewRun(r, index) ==
  /\ r \in Run
  /\ r.test = test /\ r.variant = Variant.name
  /\ r.vms \in [1 .. Count -> Available(test, Variant)]
  /\ Len(r.vms) = Count
  /\ r.testID = <<test, Count, Variant.name, index>>
  /\ Test.all \/ Test.same => Uniform(r.vms)

LEMMA NewRuns ==
  ASSUME LoopInv, InVariants, ci \in DOMAIN Test.counts,
         NEW assigned \in Assignments(Test, Count, Platforms)
  PROVE  LET new == determineRunsForTestVariant(Variant, assigned) IN
         /\ new \in Seq(Run)
         /\ Len(new) = Each(test, vi) /\ Len(assigned) = Each(test, vi)
         /\ \A k \in 1 .. Len(new) : NewRun(new[k], made + k - 1)
<1>. DEFINE new == determineRunsForTestVariant(Variant, assigned)
<1>1. Platforms = Available(test, Variant)
  BY PlatformsAvailable DEF LoopInv, Filtered, InVariants
<1>2. Platforms \subseteq Nat
  BY <1>1, AvailableFinite DEF LoopInv
<1>3. Count \in Nat /\ test \in Strings
  BY TestTypes DEF InVariants, Count
<1>4. Variant \in VariantConfig /\ Variant.name \in Strings
  <2>1. vi \in DOMAIN Listed /\ Listed \in Seq(VariantConfig)
    BY ListedType DEF LoopInv, InVariants
  <2>2. Variant \in VariantConfig
    BY <2>1 DEF Variant
  <2>. QED
    BY <2>2 DEF VariantConfig
<1>5. /\ assigned \in Seq([1 .. Count -> Platforms])
      /\ Len(assigned) = Each(test, vi)
      /\ Test.all \/ Test.same => \A k \in 1 .. Len(assigned) : Uniform(assigned[k])
  BY AssignmentShape
<1>6. DOMAIN assigned = 1 .. Len(assigned) /\ Len(assigned) \in Nat
  BY <1>5
<1>7. made \in Nat
  BY DEF LoopInv, PlanTypes
<1>8. ASSUME NEW k \in 1 .. Len(assigned)
      PROVE  NewRun(newTestRun(Variant, assigned[k], made + k - 1), made + k - 1)
  <2>. DEFINE r == newTestRun(Variant, assigned[k], made + k - 1)
  <2>1. assigned[k] \in [1 .. Count -> Platforms] /\ made + k - 1 \in Nat
    BY <1>5, <1>6, <1>7
  <2>2. assigned[k] \in Seq(Nat) /\ Len(assigned[k]) = Count
    <3>1. \A n \in Nat : \A s \in [1 .. n -> Nat] : s \in Seq(Nat) /\ Len(s) = n
      OBVIOUS
    <3>2. assigned[k] \in [1 .. Count -> Nat]
      BY <2>1, <1>2
    <3>. QED
      BY <3>1, <3>2, <1>3
  <2>3. r \in Run
    BY <2>1, <2>2, <1>3, <1>4 DEF newTestRun, Run
  <2>4. /\ r.test = test /\ r.variant = Variant.name /\ r.vms = assigned[k]
        /\ r.testID = <<test, Count, Variant.name, made + k - 1>>
    BY <2>2 DEF newTestRun
  <2>5. NewRun(r, made + k - 1)
    <3>. HIDE DEF r
    <3>. QED
      BY <2>1, <2>2, <2>3, <2>4, <1>1, <1>5 DEF NewRun
  <2>. QED
    BY <2>5
<1>9. new = [k \in 1 .. Len(assigned) |-> newTestRun(Variant, assigned[k], made + k - 1)]
  BY <1>6 DEF determineRunsForTestVariant
<1>10. new \in Seq(Run) /\ Len(new) = Len(assigned)
  <2>1. \A k \in 1 .. Len(assigned) : newTestRun(Variant, assigned[k], made + k - 1) \in Run
    BY <1>8 DEF NewRun
  <2>. HIDE DEF new
  <2>. QED
    BY <2>1, <1>6, <1>9
<1>. QED
  <2>. HIDE DEF new
  <2>1. \A k \in 1 .. Len(new) : NewRun(new[k], made + k - 1)
    BY <1>8, <1>9, <1>10
  <2>. QED
    BY <2>1, <1>5, <1>10 DEF new

------------------------------------------------------------------------------
(* The loops stay in step.                                                 *)

LEMMA InitLoop == Init => LoopInv
<1>. SUFFICES ASSUME Init PROVE LoopInv
  OBVIOUS
<1>1. PlanTypes
  BY DEF Init, PlanTypes
<1>. QED
  BY <1>1 DEF Init, LoopInv, Filtered, Cursor

LEMMA DetermineRuns ==
  ASSUME LoopInv, Determine
  PROVE  /\ runs \in Seq(Run) /\ runs' \in Seq(Run)
         /\ Each(test, vi) \in Nat
         /\ made' = made + Each(test, vi)
         /\ Len(runs') = Len(runs) + Each(test, vi)
         /\ \A r \in 1 .. Len(runs) : runs'[r] = runs[r]
         /\ \A k \in 1 .. Each(test, vi) : NewRun(runs'[Len(runs) + k], made + k - 1)
<1>1. InVariants /\ ci \in DOMAIN Test.counts
  BY DEF Determine
<1>2. PICK assigned \in Assignments(Test, Count, Platforms) :
        /\ runs' = runs \o determineRunsForTestVariant(Variant, assigned)
        /\ made' = made + Len(assigned)
  BY DEF Determine, Count
<1>. DEFINE new == determineRunsForTestVariant(Variant, assigned)
<1>3. /\ new \in Seq(Run) /\ Len(new) = Each(test, vi) /\ Len(assigned) = Each(test, vi)
      /\ \A k \in 1 .. Len(new) : NewRun(new[k], made + k - 1)
  BY <1>1, NewRuns
<1>4. runs \in Seq(Run)
  BY DEF LoopInv, PlanTypes
<1>5. runs' = runs \o new
  BY <1>2
<1>. HIDE DEF new
<1>6. /\ runs \o new \in Seq(Run) /\ Len(new) \in Nat
      /\ Len(runs \o new) = Len(runs) + Len(new)
      /\ \A r \in 1 .. Len(runs) : (runs \o new)[r] = runs[r]
      /\ \A k \in 1 .. Len(new) : (runs \o new)[Len(runs) + k] = new[k]
  BY <1>3, <1>4
<1>. QED
  BY <1>2, <1>3, <1>4, <1>5, <1>6

LEMMA NextLoop == LoopInv /\ [Next]_vars => LoopInv'
<1>. SUFFICES ASSUME LoopInv, [Next]_vars PROVE LoopInv'
  OBVIOUS
<1>. USE DEF LoopInv
<1>1. CASE Filter
  <2>1. PlanTypes'
    BY <1>1 DEF Filter, PlanTypes
  <2>2. Filtered'
    <3>1. vms' = AllowedVMs'
      BY <1>1 DEF Filter, Filtered, filterVMs, AllowedVMs, Allowed
    <3>2. left' = filterTests(DOMAIN spec.tests, spec.toRun)'
      BY <1>1 DEF Filter, Filtered, filterTests
    <3>3. variants' = filterVariants(spec.variantsToRun)'
      BY <1>1 DEF Filter, filterVariants, Listed
    <3>. QED
      BY <1>1, <3>1, <3>2, <3>3 DEF Filter, Filtered
  <2>. QED
    BY <1>1, <2>1, <2>2 DEF Filter, Cursor
<1>2. CASE TakeTest
  <2>1. PlanTypes'
    BY <1>2 DEF TakeTest, PlanTypes
  <2>2. Filtered'
    BY <1>2 DEF TakeTest, Filtered, AllowedVMs, Allowed, filterTests, filterVariants, Listed
  <2>3. test' \in filterTests(DOMAIN spec.tests, spec.toRun)' \ left'
    BY <1>2 DEF TakeTest, Filtered, filterTests
  <2>4. Listed' \in Seq(VariantConfig)
    BY <2>1, <1>2, ListedType DEF TakeTest, Listed
  <2>5. Test'.counts \in Seq(Nat)
    <3>1. test' \in DOMAIN spec.tests
      BY <2>3, <1>2 DEF TakeTest, filterTests
    <3>2. Test' \in TestConfig
      BY <3>1, <1>2, SpecTypes DEF TakeTest, Test
    <3>. QED
      BY <3>2 DEF TestConfig
  <2>6. spec'.repeats \in Nat
    BY <1>2, SpecTypes DEF TakeTest
  <2>7. vi' = 1 /\ ci' = 1 /\ repeat' = 0 /\ made' = 0
    BY <1>2 DEF TakeTest
  <2>. QED
    BY <2>1, <2>2, <2>3, <2>4, <2>5, <2>6, <2>7 DEF Cursor
<1>3. CASE SkipVariant
  <2>1. PlanTypes'
    BY <1>3 DEF SkipVariant, PlanTypes
  <2>2. Filtered'
    BY <1>3 DEF SkipVariant, Filtered, AllowedVMs, Allowed, filterTests, filterVariants, Listed
  <2>3. UNCHANGED <<spec, pc, test, left, ci, repeat, made>> /\ vi' = vi + 1
    BY <1>3 DEF SkipVariant
  <2>4. UNCHANGED <<Listed, Test>>
    BY <2>3 DEF Listed, Test
  <2>5. vi \in DOMAIN Listed /\ ~Selected /\ pc = "variants"
    BY <1>3 DEF SkipVariant, InVariants
  <2>6. Len(Listed) \in Nat /\ DOMAIN Listed = 1 .. Len(Listed)
    BY ListedType
  <2>7. ci = 1 /\ repeat = 0 /\ made = 0
    BY <2>5 DEF Cursor
  <2>8. vi' \in 1 .. (Len(Listed') + 1)
    BY <2>3, <2>4, <2>5, <2>6
  <2>9. UNCHANGED filterTests(DOMAIN spec.tests, spec.toRun)
    BY <2>3 DEF filterTests
  <2>. QED
    BY <2>1, <2>2, <2>3, <2>4, <2>5, <2>7, <2>8, <2>9 DEF Cursor
<1>4. CASE Determine
  <2>0. /\ UNCHANGED <<spec, pc, vms, variants, left, test, vi, ci>>
        /\ repeat < spec.repeats /\ repeat' = repeat + 1
        /\ pc = "variants" /\ Selected /\ vi \in DOMAIN Listed /\ ci \in DOMAIN Test.counts
    BY <1>4 DEF Determine, InVariants
  <2>1. /\ runs' \in Seq(Run)
        /\ made' = made + Each(test, vi) /\ Each(test, vi) \in Nat
    BY <1>4, DetermineRuns
  <2>2. PlanTypes'
    BY <2>0, <2>1 DEF PlanTypes
  <2>3. Filtered'
    BY <2>0 DEF Filtered, AllowedVMs, Allowed, filterTests, filterVariants, Listed
  <2>4. UNCHANGED <<Listed, Test, Selected, Each(test, vi)>>
    <3>1. UNCHANGED <<Listed, Test>>
      BY <2>0 DEF Listed, Test
    <3>2. UNCHANGED Selected
      BY <2>0, <3>1
      DEF Selected, Variant, Platforms, availableVMs, matchingVMTags, containsAllStrings
    <3>3. UNCHANGED Each(test, vi)
      BY <2>0, <3>1 DEF Each, Available, Allowed
    <3>. QED
      BY <3>1, <3>2, <3>3
  <2>5. UNCHANGED filterTests(DOMAIN spec.tests, spec.toRun)
    BY <2>0 DEF filterTests
  <2>6. spec.repeats \in Nat /\ repeat \in Nat /\ made \in Nat
    BY SpecTypes DEF PlanTypes
  <2>7. made = IF repeat = 0 THEN 0 ELSE repeat * Each(test, vi)
    BY <2>0 DEF Cursor
  <2>8. made' = (repeat + 1) * Each(test, vi)
    BY <2>1, <2>6, <2>7
  <2>9. made' = IF repeat' = 0 THEN 0 ELSE repeat' * Each(test, vi)
    BY <2>0, <2>6, <2>8
  <2>10. repeat' \in 0 .. spec'.repeats
    BY <2>0, <2>6
  <2>. QED
    BY <2>0, <2>2, <2>3, <2>4, <2>5, <2>9, <2>10 DEF Cursor
<1>5. CASE CountDone
  <2>0. /\ UNCHANGED <<spec, pc, vms, variants, left, test, vi, runs>>
        /\ repeat' = 0 /\ made' = 0 /\ ci' = ci + 1
        /\ pc = "variants" /\ Selected /\ vi \in DOMAIN Listed /\ ci \in DOMAIN Test.counts
    BY <1>5 DEF CountDone, InVariants
  <2>1. PlanTypes'
    BY <2>0 DEF PlanTypes
  <2>2. Filtered'
    BY <2>0 DEF Filtered, AllowedVMs, Allowed, filterTests, filterVariants, Listed
  <2>3. UNCHANGED <<Listed, Test>>
    BY <2>0 DEF Listed, Test
  <2>4. UNCHANGED Selected
    BY <2>0, <2>3
    DEF Selected, Variant, Platforms, availableVMs, matchingVMTags, containsAllStrings
  <2>5. ci' \in 1 .. (Len(Test'.counts) + 1)
    BY <2>0, <2>3, TestTypes DEF PlanTypes
  <2>6. UNCHANGED filterTests(DOMAIN spec.tests, spec.toRun)
    BY <2>0 DEF filterTests
  <2>7. spec.repeats \in Nat
    BY SpecTypes
  <2>. QED
    BY <2>0, <2>1, <2>2, <2>3, <2>4, <2>5, <2>6, <2>7 DEF Cursor
<1>6. CASE VariantDone
  <2>0. /\ UNCHANGED <<spec, pc, vms, variants, left, test, repeat, made, runs>>
        /\ ci' = 1 /\ vi' = vi + 1
        /\ pc = "variants" /\ Selected /\ vi \in DOMAIN Listed /\ ci \notin DOMAIN Test.counts
    BY <1>6 DEF VariantDone, InVariants
  <2>1. PlanTypes'
    BY <2>0 DEF PlanTypes
  <2>2. Filtered'
    BY <2>0 DEF Filtered, AllowedVMs, Allowed, filterTests, filterVariants, Listed
  <2>3. UNCHANGED <<Listed, Test>>
    BY <2>0 DEF Listed, Test
  <2>4. repeat = 0 /\ made = 0
    BY <2>0 DEF Cursor
  <2>5. vi' \in 1 .. (Len(Listed') + 1)
    BY <2>0, <2>3, ListedType DEF PlanTypes
  <2>6. ci' \in 1 .. (Len(Test'.counts) + 1)
    BY <2>0, <2>3, TestTypes
  <2>7. UNCHANGED filterTests(DOMAIN spec.tests, spec.toRun)
    BY <2>0 DEF filterTests
  <2>8. spec.repeats \in Nat
    BY SpecTypes
  <2>. QED
    BY <2>0, <2>1, <2>2, <2>3, <2>4, <2>5, <2>6, <2>7, <2>8 DEF Cursor
<1>7. CASE TestDone
  BY <1>7 DEF TestDone, PlanTypes, Filtered, Cursor, AllowedVMs, Allowed, filterTests,
              filterVariants, Listed
<1>8. CASE RemoveUnused
  BY <1>8 DEF RemoveUnused, PlanTypes, Filtered, Cursor, filterTests, filterVariants, Listed
<1>9. CASE UNCHANGED vars
  <2>. USE <1>9 DEF vars
  <2>1. PlanTypes' /\ Filtered'
    BY DEF PlanTypes, Filtered, AllowedVMs, Allowed, filterTests, filterVariants, Listed
  <2>2. UNCHANGED <<Listed, Test>>
    BY DEF Listed, Test
  <2>3. UNCHANGED Selected
    BY <2>2
    DEF Selected, Variant, Platforms, availableVMs, matchingVMTags, containsAllStrings
  <2>4. UNCHANGED Each(test, vi)
    BY <2>2 DEF Each, Available, Allowed
  <2>5. UNCHANGED filterTests(DOMAIN spec.tests, spec.toRun)
    BY DEF filterTests
  <2>. QED
    BY <2>1, <2>2, <2>3, <2>4, <2>5 DEF Cursor
<1>. QED
  BY <1>1, <1>2, <1>3, <1>4, <1>5, <1>6, <1>7, <1>8, <1>9 DEF Next, Planned

LEMMA LoopInvariance == Spec => []LoopInv
<1>. QED
  BY InitLoop, NextLoop, PTL DEF Spec

------------------------------------------------------------------------------
(* Every run belongs to the product.                                       *)

\* Run r is one of those of test t, its j-th VM count and the i-th variant.
RunOf(r, t, i, j) ==
  /\ j \in DOMAIN spec.tests[t].counts
  /\ r.test = t /\ r.variant = Listed[i].name
  /\ r.vms \in [1 .. spec.tests[t].counts[j] -> Available(t, Listed[i])]
  /\ Len(r.vms) = spec.tests[t].counts[j]
  /\ \E index \in Nat : r.testID = <<t, spec.tests[t].counts[j], Listed[i].name, index>>
  /\ spec.tests[t].all \/ spec.tests[t].same =>
       \A a, b \in 1 .. spec.tests[t].counts[j] : r.vms[a] = r.vms[b]

InProduct(r) ==
  \E t \in DOMAIN spec.tests : \E i \in DOMAIN Listed : \E j \in Nat : RunOf(r, t, i, j)

RunsInv == LoopInv /\ \A r \in DOMAIN runs : InProduct(runs[r])

LEMMA NextRuns == RunsInv /\ [Next]_vars => RunsInv'
<1>. SUFFICES ASSUME RunsInv, [Next]_vars PROVE RunsInv'
  OBVIOUS
<1>. USE DEF RunsInv
<1>1. LoopInv'
  BY NextLoop
<1>2. spec' = spec
  BY DEF Next, Filter, TakeTest, SkipVariant, Determine, CountDone, VariantDone, TestDone,
         RemoveUnused, Planned, vars
<1>3. \A r : InProduct(r)' <=> InProduct(r)
  BY <1>2 DEF InProduct, RunOf, Listed, Available, Allowed
<1>4. CASE Determine
  <2>1. /\ runs \in Seq(Run) /\ runs' \in Seq(Run)
        /\ Each(test, vi) \in Nat
        /\ Len(runs') = Len(runs) + Each(test, vi)
        /\ \A r \in 1 .. Len(runs) : runs'[r] = runs[r]
        /\ \A k \in 1 .. Each(test, vi) : NewRun(runs'[Len(runs) + k], made + k - 1)
    BY <1>4, DetermineRuns
  <2>2. /\ test \in DOMAIN spec.tests /\ vi \in DOMAIN Listed
        /\ ci \in DOMAIN spec.tests[test].counts /\ ci \in Nat
    BY <1>4, TestTypes DEF Determine, InVariants, Test
  <2>3. ASSUME NEW r, NEW index \in Nat, NewRun(r, index)
        PROVE  InProduct(r)
    <3>1. r.testID = <<test, spec.tests[test].counts[ci], Listed[vi].name, index>>
      BY <2>3 DEF NewRun, Count, Test, Variant
    <3>2. \E k \in Nat : r.testID = <<test, spec.tests[test].counts[ci], Listed[vi].name, k>>
      BY <3>1
    <3>3. spec.tests[test].all \/ spec.tests[test].same =>
            \A a, b \in 1 .. spec.tests[test].counts[ci] : r.vms[a] = r.vms[b]
      BY <2>3 DEF NewRun, Count, Test, Uniform
    <3>4. RunOf(r, test, vi, ci)
      BY <2>2, <2>3, <3>2, <3>3 DEF NewRun, RunOf, Count, Test, Variant
    <3>. QED
      BY <2>2, <3>4 DEF InProduct
  <2>4. made \in Nat
    BY DEF LoopInv, PlanTypes
  <2>5. ASSUME NEW r \in DOMAIN runs'
        PROVE  InProduct(runs'[r])
    <3>1. CASE r \in 1 .. Len(runs)
      BY <2>1, <3>1
    <3>2. CASE r \notin 1 .. Len(runs)
      <4>1. r - Len(runs) \in 1 .. Each(test, vi)
        BY <2>1, <3>2
      <4>2. /\ NewRun(runs'[Len(runs) + (r - Len(runs))], made + (r - Len(runs)) - 1)
            /\ made + (r - Len(runs)) - 1 \in Nat /\ Len(runs) + (r - Len(runs)) = r
        BY <2>1, <2>4, <4>1
      <4>. QED
        BY <2>3, <4>2
    <3>. QED
      BY <3>1, <3>2
  <2>. QED
    BY <1>1, <1>3, <2>5
<1>5. CASE runs' = runs
  BY <1>1, <1>3, <1>5
<1>. QED
  BY <1>4, <1>5
  DEF Next, Filter, TakeTest, SkipVariant, CountDone, VariantDone, TestDone, RemoveUnused,
      Planned, vars

LEMMA RunsInvariance == Spec => []RunsInv
<1>1. Init => RunsInv
  BY InitLoop DEF Init, RunsInv
<1>. QED
  BY <1>1, NextRuns, PTL DEF Spec

LEMMA ListedVariants ==
  ASSUME PlanTypes
  PROVE  Variants = {Listed[i] : i \in DOMAIN Listed}
<1>1. CASE spec.variants = << >>
  <2>1. DOMAIN Listed = {1} /\ Listed[1] = [name |-> "default", tags |-> {}]
    BY <1>1 DEF Listed
  <2>. QED
    BY <1>1, <2>1 DEF Variants
<1>2. CASE spec.variants # << >>
  BY <1>2 DEF Variants, Listed, SeqRange
<1>. QED
  BY <1>1, <1>2

\* A test never runs on a VM that lacks a tag or that a filter has excluded, and
\* never on mixed platforms when it says so.
THEOREM SuitableVMs == Spec => []VMsSuitable
<1>1. ASSUME RunsInv PROVE VMsSuitable
  <2>. SUFFICES ASSUME NEW r \in DOMAIN runs
                PROVE
         /\ \E variant \in Variants :
              /\ variant.name = runs[r].variant
              /\ \A k \in DOMAIN runs[r].vms : runs[r].vms[k] \in Available(runs[r].test, variant)
         /\ spec.tests[runs[r].test].all \/ spec.tests[runs[r].test].same =>
              \A k, l \in DOMAIN runs[r].vms : runs[r].vms[k] = runs[r].vms[l]
    BY DEF VMsSuitable
  <2>1. PICK t \in DOMAIN spec.tests, i \in DOMAIN Listed, j \in Nat :
          RunOf(runs[r], t, i, j)
    BY <1>1 DEF RunsInv, InProduct
  <2>2. Listed[i] \in Variants
    BY <1>1, ListedVariants DEF RunsInv, LoopInv
  <2>3. DOMAIN runs[r].vms = 1 .. spec.tests[t].counts[j]
    BY <2>1 DEF RunOf
  <2>. QED
    BY <2>1, <2>2, <2>3 DEF RunOf
<1>. QED
  BY <1>1, RunsInvariance, PTL

\* A VM is used by a run.
Used == UNION {SeqRange(runs[r].vms) : r \in DOMAIN runs}

LEMMA UsedAllowed == RunsInv => Used \subseteq AllowedVMs
<1>. SUFFICES ASSUME RunsInv, NEW r \in DOMAIN runs, NEW k \in DOMAIN runs[r].vms
              PROVE  runs[r].vms[k] \in AllowedVMs
  BY DEF Used, SeqRange
<1>1. PICK t \in DOMAIN spec.tests, i \in DOMAIN Listed, j \in Nat :
        RunOf(runs[r], t, i, j)
  BY DEF RunsInv, InProduct
<1>2. runs[r].vms[k] \in Available(t, Listed[i])
  BY <1>1 DEF RunOf
<1>. QED
  BY <1>2 DEF Available, AllowedVMs

UsedInv == RunsInv /\ OnlyUsedVMsRemain

\* The VMs that remain are exactly those of the runs, so that the scheduler finds
\* every VM of a run (ConfigAssumption) and builds no image in vain.
THEOREM ExactlyUsedVMs ==
  ASSUME DistinctVMs
  PROVE  Spec => []OnlyUsedVMsRemain
<1>1. Init => UsedInv
  BY InitLoop DEF Init, RunsInv, UsedInv, OnlyUsedVMsRemain
<1>2. ASSUME UsedInv, [Next]_vars PROVE UsedInv'
  <2>1. RunsInv'
    BY <1>2, NextRuns DEF UsedInv
  <2>2. CASE RemoveUnused
    <3>1. vms = AllowedVMs /\ spec \in Specifications
      BY <1>2, <2>2 DEF RemoveUnused, UsedInv, RunsInv, LoopInv, Filtered, PlanTypes
    <3>2. Used \subseteq AllowedVMs
      BY <1>2, UsedAllowed DEF UsedInv
    <3>3. vms' = {v \in vms : \E u \in Used : spec.vms[u].id = spec.vms[v].id}
      BY <2>2 DEF RemoveUnused, removeUnusedVMs, Used, SeqRange
    <3>4. \A u, v \in AllowedVMs : spec.vms[u].id = spec.vms[v].id => u = v
      BY <3>1, DistinctVMs DEF DistinctVMs, AllowedVMs
    <3>5. vms' = Used
      BY <3>1, <3>2, <3>3, <3>4
    <3>. QED
      BY <2>1, <2>2, <3>5 DEF RemoveUnused, UsedInv, OnlyUsedVMsRemain, Used
  <2>3. CASE Planned \/ UNCHANGED vars
    BY <1>2, <2>1, <2>3 DEF UsedInv, OnlyUsedVMsRemain, Planned, vars
  <2>4. CASE pc' # "planned"
    BY <2>1, <2>4 DEF UsedInv, OnlyUsedVMsRemain
  <2>. QED
    BY <1>2, <2>2, <2>3, <2>4
    DEF Next, Filter, TakeTest, SkipVariant, Determine, CountDone, VariantDone, TestDone,
        InVariants
<1>3. UsedInv => OnlyUsedVMsRemain
  BY DEF UsedInv
<1>. QED
  BY <1>1, <1>2, <1>3, PTL DEF Spec

------------------------------------------------------------------------------
(* Nothing is missing and nothing is there twice.                          *)

\* The loops are past the j-th VM count of variant i of test t, or at it.
Over(t, i, j) ==
  /\ t \notin left
  /\ pc = "variants" /\ t = test => i < vi \/ (i = vi /\ j < ci)

Current(t, i, j) == pc = "variants" /\ t = test /\ i = vi /\ j = ci

\* The runs there are to be by now of those that belong together.
Done(t, i, j) ==
  IF Over(t, i, j) THEN HowManyRuns(t, Listed[i])
  ELSE IF Current(t, i, j) THEN made ELSE 0

KindOf(t, i, j) == <<t, spec.tests[t].counts[j], Listed[i].name>>

Counters(kind) == {runs[r].testID[4] : r \in {q \in DOMAIN runs : Kind(q) = kind}}

AllCounted ==
  \A t \in DOMAIN spec.tests : \A i \in DOMAIN Listed : \A j \in DOMAIN spec.tests[t].counts :
    Counters(KindOf(t, i, j)) = 0 .. (Done(t, i, j) - 1)

CountersUnique ==
  \A q, r \in DOMAIN runs :
    Kind(q) = Kind(r) /\ runs[q].testID[4] = runs[r].testID[4] => q = r

CountInv ==
  /\ RunsInv
  /\ pc = "planned" => left = {}
  /\ AllCounted
  /\ CountersUnique

LEMMA PartsDistinct ==
  ASSUME DistinctParts, PlanTypes,
         NEW t \in DOMAIN spec.tests, NEW i \in DOMAIN Listed, NEW j \in DOMAIN spec.tests[t].counts,
         NEW u \in DOMAIN spec.tests, NEW k \in DOMAIN Listed, NEW l \in DOMAIN spec.tests[u].counts,
         KindOf(t, i, j) = KindOf(u, k, l)
  PROVE  t = u /\ i = k /\ j = l
<1>1. t = u /\ spec.tests[t].counts[j] = spec.tests[u].counts[l] /\ Listed[i].name = Listed[k].name
  BY DEF KindOf
<1>2. j = l
  BY <1>1 DEF DistinctParts, PlanTypes
<1>3. i = k
  <2>1. CASE spec.variants = << >>
    BY <2>1 DEF Listed
  <2>2. CASE spec.variants # << >>
    BY <1>1, <2>2 DEF Listed, DistinctParts, PlanTypes
  <2>. QED
    BY <2>1, <2>2
<1>. QED
  BY <1>1, <1>2, <1>3

LEMMA HowManyType ==
  ASSUME PlanTypes, NEW t \in DOMAIN spec.tests, NEW i
  PROVE  /\ HowManyRuns(t, Listed[i]) \in Nat
         /\ Wanted(t, Listed[i]) /\ Available(t, Listed[i]) # {} =>
              HowManyRuns(t, Listed[i]) = spec.repeats * Each(t, i)
<1>1. spec.repeats \in Nat /\ Cardinality(Available(t, Listed[i])) \in Nat
  BY SpecTypes, AvailableFinite
<1>. QED
  BY <1>1 DEF HowManyRuns, Each

\* What a run is can be read off its ID.
LEMMA IDOfRun ==
  ASSUME RunsInv, NEW r \in DOMAIN runs
  PROVE  /\ runs[r].testID[4] \in Nat
         /\ runs[r].testID = <<runs[r].test, Len(runs[r].vms), runs[r].variant, runs[r].testID[4]>>
<1>1. PICK t \in DOMAIN spec.tests, i \in DOMAIN Listed, j \in Nat : RunOf(runs[r], t, i, j)
  BY DEF RunsInv, InProduct
<1>2. PICK index \in Nat : runs[r].testID = <<t, spec.tests[t].counts[j], Listed[i].name, index>>
  BY <1>1 DEF RunOf
<1>. QED
  BY <1>1, <1>2 DEF RunOf

\* One repeat continues the counters where the last one stopped.
LEMMA DetermineCounts ==
  ASSUME DistinctParts, CountInv, Determine
  PROVE  AllCounted' /\ CountersUnique'
<1>1. /\ runs \in Seq(Run) /\ runs' \in Seq(Run)
      /\ Each(test, vi) \in Nat
      /\ made' = made + Each(test, vi)
      /\ Len(runs') = Len(runs) + Each(test, vi)
      /\ \A r \in 1 .. Len(runs) : runs'[r] = runs[r]
      /\ \A k \in 1 .. Each(test, vi) : NewRun(runs'[Len(runs) + k], made + k - 1)
  BY DetermineRuns DEF CountInv, RunsInv
<1>2. made \in Nat /\ vi \in Nat /\ ci \in Nat /\ PlanTypes
  BY DEF CountInv, RunsInv, LoopInv, PlanTypes
<1>3. /\ UNCHANGED <<spec, pc, left, test, vi, ci>> /\ pc = "variants"
      /\ test \in DOMAIN spec.tests /\ test \notin left
      /\ vi \in DOMAIN Listed /\ ci \in DOMAIN spec.tests[test].counts
  BY TestTypes DEF Determine, InVariants, Test, CountInv, RunsInv, LoopInv, Cursor
<1>. DEFINE n == Len(runs)
            e == Each(test, vi)
            here == KindOf(test, vi, ci)
            counter(r) == runs'[r].testID[4]
<1>4. /\ DOMAIN runs = 1 .. n /\ DOMAIN runs' = 1 .. (n + e) /\ n \in Nat /\ e \in Nat
      /\ \A r \in 1 .. (n + e) : r \in 1 .. n \/ r - n \in 1 .. e
  BY <1>1
<1>5. \A r \in 1 .. n : Kind(r)' = Kind(r) /\ counter(r) = runs[r].testID[4]
  BY <1>1 DEF Kind
<1>6. ASSUME NEW r \in 1 .. (n + e), r \notin 1 .. n
      PROVE  Kind(r)' = here /\ counter(r) = made + (r - n) - 1
  <2>1. r - n \in 1 .. e /\ n + (r - n) = r
    BY <1>4, <1>6
  <2>2. NewRun(runs'[r], made + (r - n) - 1)
    BY <1>1, <2>1
  <2>. QED
    BY <2>2 DEF NewRun, Kind, KindOf, Count, Test, Variant
<1>7. Done(test, vi, ci) = made
  BY <1>2, <1>3 DEF Done, Over, Current
<1>8. Counters(here) = 0 .. (made - 1)
  BY <1>3, <1>7 DEF CountInv, AllCounted
<1>9. \A r \in 1 .. n : Kind(r) = here => runs[r].testID[4] \in 0 .. (made - 1)
  BY <1>4, <1>8 DEF Counters
<1>10. CountersUnique'
  <2>. SUFFICES ASSUME NEW q \in 1 .. (n + e), NEW r \in 1 .. (n + e),
                       Kind(q)' = Kind(r)', counter(q) = counter(r)
                PROVE  q = r
    BY <1>4 DEF CountersUnique
  <2>. HIDE DEF here
  <2>1. CASE q \in 1 .. n /\ r \in 1 .. n
    BY <1>4, <1>5, <2>1 DEF CountInv, CountersUnique
  <2>2. ASSUME NEW old \in 1 .. n, NEW new \in 1 .. (n + e), new \notin 1 .. n,
               Kind(old)' = Kind(new)', counter(old) = counter(new)
        PROVE  FALSE
    <3>1. Kind(old) = here /\ runs[old].testID[4] = made + (new - n) - 1
      BY <1>5, <1>6, <2>2
    <3>2. made + (new - n) - 1 \in 0 .. (made - 1)
      BY <1>9, <3>1
    <3>. HIDE DEF n, e
    <3>. QED
      BY <1>2, <1>4, <2>2, <3>2
  <2>3. CASE q \notin 1 .. n /\ r \notin 1 .. n
    <3>1. made + (q - n) - 1 = made + (r - n) - 1
      BY <1>6, <2>3
    <3>. HIDE DEF n, e
    <3>. QED
      BY <1>2, <1>4, <3>1
  <2>. QED
    BY <2>1, <2>2, <2>3
<1>11. AllCounted'
  <2>. SUFFICES ASSUME NEW t \in DOMAIN spec.tests, NEW i \in DOMAIN Listed,
                       NEW j \in DOMAIN spec.tests[t].counts
                PROVE  Counters(KindOf(t, i, j))' = 0 .. (Done(t, i, j)' - 1)
    BY <1>3 DEF AllCounted, Listed
  <2>1. UNCHANGED <<Listed, KindOf(t, i, j)>>
    BY <1>3 DEF Listed, KindOf
  <2>2. UNCHANGED HowManyRuns(t, Listed[i])
    BY <1>3, <2>1 DEF HowManyRuns, Wanted, Available, Allowed
  <2>3. CASE t = test /\ i = vi /\ j = ci
    <3>1. Done(t, i, j)' = made + e
      BY <1>1, <1>2, <1>3, <2>3 DEF Done, Over, Current
    <3>2. Counters(KindOf(t, i, j))' = {counter(r) : r \in {q \in 1 .. (n + e) : Kind(q)' = here}}
      BY <1>4, <2>1, <2>3 DEF Counters
    <3>3. {runs[r].testID[4] : r \in {q \in 1 .. n : Kind(q) = here}} = 0 .. (made - 1)
      BY <1>4, <1>8 DEF Counters
    <3>4. {counter(r) : r \in {q \in 1 .. (n + e) : Kind(q)' = here}} = 0 .. (made + e - 1)
      <4>. HIDE DEF here, n, e, counter
      <4>1. ASSUME NEW r \in 1 .. (n + e), Kind(r)' = here PROVE counter(r) \in 0 .. (made + e - 1)
        <5>1. CASE r \in 1 .. n
          BY <1>2, <1>4, <1>5, <1>9, <4>1, <5>1
        <5>2. CASE r \notin 1 .. n
          BY <1>2, <1>4, <1>6, <5>2
        <5>. QED
          BY <5>1, <5>2
      <4>2. ASSUME NEW k \in 0 .. (made + e - 1)
            PROVE  \E r \in 1 .. (n + e) : Kind(r)' = here /\ counter(r) = k
        <5>1. CASE k \in 0 .. (made - 1)
          <6>1. PICK r \in 1 .. n : Kind(r) = here /\ runs[r].testID[4] = k
            BY <3>3, <5>1
          <6>. QED
            BY <1>4, <1>5, <6>1
        <5>2. CASE k \notin 0 .. (made - 1)
          <6>1. PICK r \in 1 .. (n + e) : r \notin 1 .. n /\ made + (r - n) - 1 = k
            <7>1. LET r == n + (k - made) + 1 IN
                  r \in 1 .. (n + e) /\ r \notin 1 .. n /\ made + (r - n) - 1 = k
              BY <1>2, <1>4, <5>2
            <7>. QED
              BY <7>1
          <6>. QED
            BY <1>6, <6>1
        <5>. QED
          BY <5>1, <5>2
      <4>. QED
        BY <4>1, <4>2
    <3>5. Counters(KindOf(t, i, j))' = 0 .. (made + e - 1)
      BY <3>2, <3>4
    <3>. QED
      BY <1>2, <1>4, <3>1, <3>5
  <2>4. CASE ~(t = test /\ i = vi /\ j = ci)
    <3>1. Done(t, i, j)' = Done(t, i, j)
      BY <1>3, <2>2, <2>4 DEF Done, Over, Current
    <3>2. KindOf(t, i, j) # here
      BY <1>2, <1>3, <2>4, PartsDistinct
    <3>. DEFINE kind == KindOf(t, i, j)
    <3>3. {q \in 1 .. (n + e) : Kind(q)' = kind} = {q \in 1 .. n : Kind(q) = kind}
      <4>. HIDE DEF n, e, here, kind
      <4>. QED
        BY <1>4, <1>5, <1>6, <3>2 DEF kind
    <3>4. Counters(kind)' = Counters(kind)
      <4>1. Counters(kind)' = {counter(r) : r \in {q \in 1 .. (n + e) : Kind(q)' = kind}}
        BY <1>4, <2>1 DEF Counters
      <4>2. Counters(kind) = {runs[r].testID[4] : r \in {q \in 1 .. n : Kind(q) = kind}}
        BY <1>4 DEF Counters
      <4>. QED
        BY <1>5, <3>3, <4>1, <4>2
    <3>5. Counters(KindOf(t, i, j)) = 0 .. (Done(t, i, j) - 1)
      BY DEF CountInv, AllCounted
    <3>. QED
      BY <3>1, <3>4, <3>5
  <2>. QED
    BY <2>3, <2>4
<1>. QED
  BY <1>10, <1>11

\* Wherever the loops are taken on without a run, the number that there are to be
\* stays what it is.
LEMMA DoneKept ==
  ASSUME CountInv, [Next]_vars, ~Determine,
         NEW t \in DOMAIN spec.tests, NEW i \in DOMAIN Listed, NEW j \in DOMAIN spec.tests[t].counts
  PROVE  Done(t, i, j)' = Done(t, i, j)
<1>. USE DEF CountInv, RunsInv, LoopInv
<1>1. spec' = spec /\ Listed' = Listed
  BY DEF Next, Filter, TakeTest, SkipVariant, Determine, CountDone, VariantDone, TestDone,
         RemoveUnused, Planned, vars, Listed
<1>2. UNCHANGED HowManyRuns(t, Listed[i])
  BY <1>1 DEF HowManyRuns, Wanted, Available, Allowed
<1>3. /\ vi \in Nat \ {0} /\ ci \in Nat \ {0} /\ i \in Nat \ {0} /\ j \in Nat \ {0}
      /\ i <= Len(Listed) /\ Len(Listed) \in Nat
  <2>1. DOMAIN Listed = 1 .. Len(Listed) /\ Len(Listed) \in Nat
    BY ListedType
  <2>2. spec.tests[t] \in TestConfig
    BY SpecTypes
  <2>3. DOMAIN spec.tests[t].counts = 1 .. Len(spec.tests[t].counts)
    BY <2>2 DEF TestConfig
  <2>. QED
    BY <2>1, <2>3 DEF PlanTypes
<1>4. pc = "variants" /\ t = test =>
        /\ made = IF repeat = 0 THEN 0 ELSE repeat * Each(test, vi)
        /\ vi \notin DOMAIN Listed \/ ~Selected => ci = 1 /\ repeat = 0
        /\ ci \notin DOMAIN Test.counts => repeat = 0
  BY DEF Cursor
<1>5. HowManyRuns(t, Listed[i]) \in Nat
  BY HowManyType
<1>6. CASE Filter
  <2>1. t \notin left' => HowManyRuns(t, Listed[i]) = 0
    BY <1>6 DEF Filter, Filtered, filterTests, HowManyRuns, Wanted
  <2>. QED
    BY <1>2, <1>6, <2>1 DEF Filter, Filtered, Done, Over, Current
<1>7. CASE TakeTest
  BY <1>2, <1>3, <1>7 DEF TakeTest, Done, Over, Current
<1>8. CASE SkipVariant
  <2>1. t = test /\ i = vi => HowManyRuns(t, Listed[i]) = 0
    BY <1>8, SelectedWanted DEF SkipVariant, HowManyRuns, Variant
  <2>2. t = test => ci = 1 /\ made = 0
    BY <1>4, <1>8 DEF SkipVariant, InVariants
  <2>3. /\ UNCHANGED <<left, pc, test, ci, made>> /\ vi' = vi + 1 /\ pc = "variants"
    BY <1>8 DEF SkipVariant, InVariants
  <2>. QED
    BY <1>2, <1>3, <2>1, <2>2, <2>3 DEF Done, Over, Current
<1>9. CASE CountDone
  <2>1. /\ UNCHANGED <<left, pc, test, vi>> /\ ci' = ci + 1 /\ made' = 0 /\ pc = "variants"
        /\ repeat = spec.repeats /\ Selected /\ InVariants
    BY <1>9 DEF CountDone, InVariants
  <2>2. t = test /\ i = vi => HowManyRuns(t, Listed[i]) = made
    <3>. SUFFICES ASSUME t = test, i = vi PROVE HowManyRuns(t, Listed[i]) = made
      OBVIOUS
    <3>1. HowManyRuns(t, Listed[i]) = spec.repeats * Each(test, vi)
      BY <2>1, SelectedWanted, HowManyType DEF Variant
    <3>2. Each(test, vi) \in Nat
      BY AvailableFinite DEF Each
    <3>. QED
      BY <1>4, <2>1, <3>1, <3>2
  <2>3. CASE t = test /\ i = vi /\ j = ci
    <3>1. Over(t, i, j)' <=> t \notin left
      BY <1>3, <2>1, <2>3 DEF Over
    <3>2. ~Over(t, i, j) /\ Current(t, i, j) /\ ~Current(t, i, j)'
      BY <1>3, <2>1, <2>3 DEF Over, Current
    <3>3. test \notin left
      BY <2>1 DEF Cursor
    <3>. QED
      BY <1>2, <2>2, <2>3, <3>1, <3>2, <3>3 DEF Done
  <2>4. CASE ~(t = test /\ i = vi /\ j = ci)
    <3>1. UNCHANGED Over(t, i, j)
      BY <1>3, <2>1, <2>4 DEF Over
    <3>2. ~Current(t, i, j) /\ (Current(t, i, j)' => made' = 0)
      BY <1>3, <2>1, <2>4 DEF Current
    <3>. QED
      BY <1>2, <3>1, <3>2 DEF Done
  <2>. QED
    BY <2>3, <2>4
<1>10. CASE VariantDone
  <2>1. /\ UNCHANGED <<left, pc, test, made>> /\ ci' = 1 /\ vi' = vi + 1 /\ pc = "variants"
        /\ ci \notin DOMAIN Test.counts
    BY <1>10 DEF VariantDone, InVariants
  <2>2. t = test => made = 0 /\ j < ci
    <3>. SUFFICES ASSUME t = test PROVE made = 0 /\ j < ci
      OBVIOUS
    <3>1. /\ DOMAIN Test.counts = 1 .. Len(Test.counts) /\ Len(Test.counts) \in Nat
          /\ j \in DOMAIN Test.counts
      BY <2>1, TestTypes DEF Test
    <3>. QED
      BY <1>3, <1>4, <2>1, <3>1
  <2>. QED
    BY <1>2, <1>3, <2>1, <2>2 DEF Done, Over, Current
<1>11. CASE TestDone
  <2>1. pc = "variants" /\ pc' = "tests" /\ UNCHANGED <<left, test>> /\ vi \notin DOMAIN Listed
    BY <1>11 DEF TestDone
  <2>2. i < vi
    BY <1>3, <2>1, ListedType
  <2>. QED
    BY <1>2, <2>1, <2>2 DEF Done, Over, Current
<1>12. CASE RemoveUnused
  BY <1>2, <1>12 DEF RemoveUnused, Done, Over, Current
<1>13. CASE UNCHANGED vars
  BY <1>2, <1>13 DEF vars, Done, Over, Current
<1>. QED
  BY <1>6, <1>7, <1>8, <1>9, <1>10, <1>11, <1>12, <1>13 DEF Next, Planned

LEMMA NextCount ==
  ASSUME DistinctParts
  PROVE  CountInv /\ [Next]_vars => CountInv'
<1>. SUFFICES ASSUME CountInv, [Next]_vars PROVE CountInv'
  OBVIOUS
<1>1. RunsInv'
  BY NextRuns DEF CountInv
<1>2. (pc = "planned" => left = {})'
  BY DEF CountInv, Next, Filter, TakeTest, SkipVariant, Determine, CountDone, VariantDone,
         TestDone, InVariants, RemoveUnused, Planned, vars
<1>3. CASE Determine
  BY <1>1, <1>2, <1>3, DetermineCounts DEF CountInv
<1>4. CASE ~Determine
  <2>1. spec' = spec /\ Listed' = Listed /\ runs' = runs
    BY <1>4 DEF Next, Filter, TakeTest, SkipVariant, CountDone, VariantDone, TestDone,
                RemoveUnused, Planned, vars, Listed
  <2>2. CountersUnique'
    BY <2>1 DEF CountInv, CountersUnique, Kind
  <2>3. AllCounted'
    <3>. SUFFICES ASSUME NEW t \in DOMAIN spec.tests, NEW i \in DOMAIN Listed,
                         NEW j \in DOMAIN spec.tests[t].counts
                  PROVE  Counters(KindOf(t, i, j))' = 0 .. (Done(t, i, j)' - 1)
      BY <2>1 DEF AllCounted
    <3>1. UNCHANGED Counters(KindOf(t, i, j))
      BY <2>1 DEF Counters, KindOf, Kind
    <3>2. Done(t, i, j)' = Done(t, i, j)
      BY <1>4, DoneKept
    <3>3. Counters(KindOf(t, i, j)) = 0 .. (Done(t, i, j) - 1)
      BY DEF CountInv, AllCounted
    <3>. QED
      BY <3>1, <3>2, <3>3
  <2>. QED
    BY <1>1, <1>2, <2>2, <2>3 DEF CountInv
<1>. QED
  BY <1>3, <1>4

LEMMA CountInvariance ==
  ASSUME DistinctParts
  PROVE  Spec => []CountInv
<1>1. Init => CountInv
  <2>. SUFFICES ASSUME Init PROVE CountInv
    OBVIOUS
  <2>1. RunsInv /\ DOMAIN runs = {}
    BY InitLoop DEF Init, RunsInv
  <2>2. AllCounted
    <3>. SUFFICES ASSUME NEW t \in DOMAIN spec.tests, NEW i \in DOMAIN Listed,
                         NEW j \in DOMAIN spec.tests[t].counts
                  PROVE  Counters(KindOf(t, i, j)) = 0 .. (Done(t, i, j) - 1)
      BY DEF AllCounted
    <3>1. Done(t, i, j) = 0
      BY DEF Init, Done, Over, Current
    <3>2. Counters(KindOf(t, i, j)) = {}
      BY <2>1 DEF Counters
    <3>. QED
      BY <3>1, <3>2
  <2>. QED
    BY <2>1, <2>2 DEF Init, CountInv, CountersUnique
<1>. QED
  BY <1>1, NextCount, PTL DEF Spec

\* The ID of a run names that run alone: stages, results and directories of two
\* runs are never confused.
THEOREM UniqueIDs ==
  ASSUME DistinctParts
  PROVE  Spec => []IDsUnique
<1>1. ASSUME CountInv PROVE IDsUnique
  <2>. SUFFICES ASSUME NEW q \in DOMAIN runs, NEW r \in DOMAIN runs,
                       runs[q].testID = runs[r].testID
                PROVE  q = r
    BY DEF IDsUnique
  <2>1. /\ runs[q].testID = <<runs[q].test, Len(runs[q].vms), runs[q].variant, runs[q].testID[4]>>
        /\ runs[r].testID = <<runs[r].test, Len(runs[r].vms), runs[r].variant, runs[r].testID[4]>>
    BY <1>1, IDOfRun DEF CountInv
  <2>2. Kind(q) = Kind(r) /\ runs[q].testID[4] = runs[r].testID[4]
    BY <2>1 DEF Kind
  <2>. QED
    BY <1>1, <2>2 DEF CountInv, CountersUnique
<1>. QED
  BY <1>1, CountInvariance, PTL

\* The plan is the product of tests, VM counts, variants, platforms and repeats,
\* every element once.
THEOREM PlanIsProduct ==
  ASSUME DistinctParts
  PROVE  Spec => []PlanComplete
<1>1. ASSUME CountInv, pc = "planned",
             NEW t \in DOMAIN spec.tests, NEW variant \in Variants,
             NEW count \in SeqRange(spec.tests[t].counts)
      PROVE  LET same == {r \in DOMAIN runs : Kind(r) = <<t, count, variant.name>>} IN
             /\ Cardinality(same) = HowManyRuns(t, variant)
             /\ {runs[r].testID[4] : r \in same} = 0 .. (Cardinality(same) - 1)
  <2>. DEFINE same == {r \in DOMAIN runs : Kind(r) = <<t, count, variant.name>>}
              n == HowManyRuns(t, variant)
  <2>1. PlanTypes
    BY <1>1 DEF CountInv, RunsInv, LoopInv
  <2>2. PICK i \in DOMAIN Listed : variant = Listed[i]
    BY <2>1, <1>1, ListedVariants
  <2>3. PICK j \in DOMAIN spec.tests[t].counts : count = spec.tests[t].counts[j]
    BY DEF SeqRange
  <2>4. Done(t, i, j) = n
    BY <1>1, <2>2 DEF CountInv, Done, Over
  <2>5. {runs[r].testID[4] : r \in same} = 0 .. (n - 1)
    BY <1>1, <2>2, <2>3, <2>4 DEF CountInv, AllCounted, Counters, KindOf
  <2>6. \A q, r \in same : runs[q].testID[4] = runs[r].testID[4] => q = r
    BY <1>1 DEF CountInv, CountersUnique
  <2>7. n \in Nat
    BY <2>1, <2>2, HowManyType
  <2>8. Cardinality(0 .. (n - 1)) = n
    BY <2>7, FS_Interval
  <2>9. Cardinality(same) = n
    <3>. DEFINE f == [r \in same |-> runs[r].testID[4]]
    <3>. HIDE DEF same, n
    <3>1. f \in Bijection(same, 0 .. (n - 1))
      BY <2>5, <2>6 DEF Bijection, Injection, Surjection, IsInjective
    <3>2. IsFiniteSet(same)
      <4>1. DOMAIN runs = 1 .. Len(runs) /\ Len(runs) \in Nat
        BY <2>1 DEF PlanTypes
      <4>2. IsFiniteSet(DOMAIN runs)
        BY <4>1, FS_Interval
      <4>. QED
        BY <4>2, FS_Subset DEF same
    <3>. QED
      BY <2>8, <3>1, <3>2, FS_Bijection DEF ExistsBijection
  <2>. QED
    BY <2>5, <2>9
<1>2. ASSUME CountInv, NEW r \in DOMAIN runs
      PROVE  \E t \in DOMAIN spec.tests : \E variant \in Variants :
               \E count \in SeqRange(spec.tests[t].counts) : Kind(r) = <<t, count, variant.name>>
  <2>1. PICK t \in DOMAIN spec.tests, i \in DOMAIN Listed, j \in Nat : RunOf(runs[r], t, i, j)
    BY <1>2 DEF CountInv, RunsInv, InProduct
  <2>2. Listed[i] \in Variants
    BY <1>2, ListedVariants DEF CountInv, RunsInv, LoopInv
  <2>3. spec.tests[t].counts[j] \in SeqRange(spec.tests[t].counts)
    BY <2>1 DEF RunOf, SeqRange
  <2>. QED
    BY <2>1, <2>2, <2>3 DEF RunOf, Kind
<1>3. CountInv => PlanComplete
  BY <1>1, <1>2 DEF PlanComplete
<1>. QED
  BY <1>3, CountInvariance, PTL

==============================================================================
