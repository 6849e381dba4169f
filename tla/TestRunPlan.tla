------------------------------ MODULE TestRunPlan ------------------------------
(***************************************************************************)
(* Which test runs a suite has: createTestSuiteRun and the functions it    *)
(* calls (cmd/vmshed.go), described in doc/test-run-determination.md.      *)
(*                                                                         *)
(* The tests are taken in any order (Go ranges over a map) and VMs are     *)
(* drawn at random; a step is one iteration of one of the loops.  A VM is  *)
(* its position in the specification, and a filtered list is the set of    *)
(* the positions that are left: filters keep the order.  The test ID is    *)
(* the tuple of what the code formats into a string, "test-count-variant-  *)
(* counter": the parts can be read off it unless a variant has a dash in   *)
(* its name.                                                               *)
(***************************************************************************)
EXTENDS Naturals, Sequences, FiniteSets

CONSTANTS
  Strings,        \* the strings the configuration and the program use
  Specifications
  \* what the two TOML files and the flags may say:
  \*   vms      : the VMs, a sequence of [id, base, tags]
  \*   tests    : by name, [counts, tags, same, all, variants]
  \*   variants : a sequence of [name, tags]
  \*   baseImages, exclude, toRun, variantsToRun : sets, {} if not given
  \*   repeats  : --repeats

VMConfig      == [id : Strings, base : Strings, tags : SUBSET Strings]
VariantConfig == [name : Strings, tags : SUBSET Strings]
TestConfig    == [counts : Seq(Nat), tags : SUBSET Strings, same : BOOLEAN,
                  all : BOOLEAN, variants : SUBSET Strings]

ASSUME SpecificationAssumption ==
  /\ "default" \in Strings
  /\ \A s \in Specifications :
       /\ s.vms \in Seq(VMConfig)
       /\ s.variants \in Seq(VariantConfig)
       /\ \A t \in DOMAIN s.tests : t \in Strings /\ s.tests[t] \in TestConfig
       /\ s.repeats \in Nat

VARIABLES
  spec,       \* the specification of this run of vmshed
  pc,         \* "filter", "tests", "variants" or "planned"
  vms,        \* vmSpec.VMs
  variants,   \* testSpec.Variants
  left,       \* the tests not yet taken
  test,       \* the name of the current test
  vi,         \* index of the current variant
  ci,         \* index of the current VM count
  repeat,     \* repeatCounter
  made,       \* the number of runs this call of determineRunsForTestVariant has made
  runs        \* testRuns: [testID, test, variant, vms]

vars == <<spec, pc, vms, variants, left, test, vi, ci, repeat, made, runs>>

SeqRange(s) == {s[i] : i \in DOMAIN s}

------------------------------------------------------------------------------

containsAllStrings(values, required) == required \subseteq values

matchingVMTags(required, s) == {v \in s : containsAllStrings(spec.vms[v].tags, required)}

filterVMsNotExcluding(s, baseImages, exclude) ==
  {v \in s : baseImages = {} \/ spec.vms[v].base \in baseImages}

filterVMs(s, baseImages, exclude) ==
  {v \in s : /\ baseImages = {} \/ spec.vms[v].base \in baseImages
             /\ spec.vms[v].base \notin exclude}

\* Without variants in the specification there is one, whatever was asked for.
Listed == IF spec.variants = << >> THEN << [name |-> "default", tags |-> {}] >> ELSE spec.variants

filterVariants(toRun) ==
  IF spec.variants = << >> \/ toRun = {} THEN DOMAIN Listed
  ELSE {i \in DOMAIN Listed : Listed[i].name \in toRun}

filterTests(names, toRun) ==
  {t \in names : toRun \in {{}, {"all"}} \/ t \in toRun}

removeUnusedVMsByBase(s, testRuns) ==
  {v \in s : \E r \in DOMAIN testRuns :
                testRuns[r].vms # << >> /\ spec.vms[testRuns[r].vms[1]].id = spec.vms[v].id}

removeUnusedVMs(s, testRuns) ==
  {v \in s : \E r \in DOMAIN testRuns :
                \E k \in DOMAIN testRuns[r].vms : spec.vms[testRuns[r].vms[k]].id = spec.vms[v].id}

availableVMs(t, variant) == matchingVMTags(t.tags, matchingVMTags(variant.tags, vms))

repeatVM(v, count) == [i \in 1 .. count |-> v]

newTestRun(variant, assigned, index) ==
  [testID  |-> <<test, Len(assigned), variant.name, index>>,
   test    |-> test,
   variant |-> variant.name,
   vms     |-> assigned]

\* The elements of S in ascending order, the one list there is.
InOrder(S) ==
  {f \in [1 .. Cardinality(S) -> S] : \A i, j \in DOMAIN f : i < j => f[i] < f[j]}

\* The assignments of VMs that one repeat may come up with, in order.
Assignments(t, count, available) ==
  CASE t.all -> {[k \in DOMAIN f |-> repeatVM(f[k], count)] : f \in InOrder(available)}
    [] ~t.all /\ t.same -> {<<repeatVM(v, count)>> : v \in available}
    [] OTHER -> {<<s>> : s \in [1 .. count -> available]}

determineRunsRestarting(variant, assigned) ==
  [k \in DOMAIN assigned |-> newTestRun(variant, assigned[k], k - 1)]

\* One repeat.  The counter is the number of the run among those of this call.
determineRunsForTestVariant(variant, assigned) ==
  [k \in DOMAIN assigned |-> newTestRun(variant, assigned[k], made + k - 1)]

------------------------------------------------------------------------------

Init ==
  /\ spec \in Specifications
  /\ pc = "filter"
  /\ vms = DOMAIN spec.vms
  /\ variants = {}
  /\ left = DOMAIN spec.tests
  /\ test = "none"
  /\ vi = 1
  /\ ci = 1
  /\ repeat = 0
  /\ made = 0
  /\ runs = << >>

Filter ==
  /\ pc = "filter"
  /\ pc' = "tests"
  /\ vms' = filterVMs(vms, spec.baseImages, spec.exclude)
  /\ variants' = filterVariants(spec.variantsToRun)
  /\ left' = filterTests(left, spec.toRun)
  /\ UNCHANGED <<spec, test, vi, ci, repeat, made, runs>>

TakeTest ==
  /\ pc = "tests"
  /\ test' \in left
  /\ left' = left \ {test'}
  /\ pc' = "variants"
  /\ vi' = 1 /\ ci' = 1 /\ repeat' = 0 /\ made' = 0
  /\ UNCHANGED <<spec, vms, variants, runs>>

Test      == spec.tests[test]
Variant   == Listed[vi]
Platforms == availableVMs(Test, Variant)

SelectedUnchecked == vi \in variants /\ Platforms # {}

\* The list without what was filtered out, and what the test wants of it.
Selected ==
  /\ vi \in variants
  /\ Test.variants = {} \/ Variant.name \in Test.variants
  /\ Platforms # {}

InVariants == pc = "variants" /\ vi \in DOMAIN Listed

SkipVariant ==
  /\ InVariants /\ ~Selected
  /\ vi' = vi + 1
  /\ UNCHANGED <<spec, pc, vms, variants, left, test, ci, repeat, made, runs>>

Determine ==
  /\ InVariants /\ Selected
  /\ ci \in DOMAIN Test.counts
  /\ repeat < spec.repeats
  /\ \E assigned \in Assignments(Test, Test.counts[ci], Platforms) :
       /\ runs' = runs \o determineRunsForTestVariant(Variant, assigned)
       /\ made' = made + Len(assigned)
  /\ repeat' = repeat + 1
  /\ UNCHANGED <<spec, pc, vms, variants, left, test, vi, ci>>

CountDone ==
  /\ InVariants /\ Selected
  /\ ci \in DOMAIN Test.counts
  /\ repeat = spec.repeats
  /\ ci' = ci + 1 /\ repeat' = 0 /\ made' = 0
  /\ UNCHANGED <<spec, pc, vms, variants, left, test, vi, runs>>

VariantDone ==
  /\ InVariants /\ Selected
  /\ ci \notin DOMAIN Test.counts
  /\ vi' = vi + 1 /\ ci' = 1
  /\ UNCHANGED <<spec, pc, vms, variants, left, test, repeat, made, runs>>

TestDone ==
  /\ pc = "variants" /\ vi \notin DOMAIN Listed
  /\ pc' = "tests"
  /\ UNCHANGED <<spec, vms, variants, left, test, vi, ci, repeat, made, runs>>

RemoveUnused ==
  /\ pc = "tests" /\ left = {}
  /\ vms' = removeUnusedVMs(vms, runs)
  /\ pc' = "planned"
  /\ UNCHANGED <<spec, variants, left, test, vi, ci, repeat, made, runs>>

Planned == pc = "planned" /\ UNCHANGED vars

Next == Filter \/ TakeTest \/ SkipVariant \/ Determine \/ CountDone \/ VariantDone
        \/ TestDone \/ RemoveUnused \/ Planned

Spec == Init /\ [][Next]_vars

------------------------------------------------------------------------------
(* Properties: what doc/test-run-determination.md says.                    *)

\* A test run ID names one run: the scheduler's stages and results are indexed
\* by it.  ("The final element Counter increments whenever the other elements
\* are the same.")
IDsUnique == \A i, j \in DOMAIN runs : i # j => runs[i].testID # runs[j].testID

Kind(r) == <<runs[r].test, Len(runs[r].vms), runs[r].variant>>

\* The documentation's view of what is available and selected.
Allowed(v) == (spec.baseImages # {} => v.base \in spec.baseImages) /\ v.base \notin spec.exclude

Available(t, variant) ==
  {i \in DOMAIN spec.vms : /\ Allowed(spec.vms[i])
                           /\ spec.tests[t].tags \cup variant.tags \subseteq spec.vms[i].tags}

Variants == IF spec.variants = << >> THEN {[name |-> "default", tags |-> {}]}
            ELSE SeqRange(spec.variants)

Wanted(t, variant) ==
  /\ spec.toRun \in {{}, {"all"}} \/ t \in spec.toRun
  /\ spec.tests[t].variants # {} => variant.name \in spec.tests[t].variants
  /\ spec.variants # << >> /\ spec.variantsToRun # {} => variant.name \in spec.variantsToRun

HowManyRuns(t, variant) ==
  IF ~Wanted(t, variant) \/ Available(t, variant) = {} THEN 0
  ELSE spec.repeats * IF spec.tests[t].all THEN Cardinality(Available(t, variant)) ELSE 1

\* The plan is the product of tests, counts, variants, platforms and repeats:
\* nothing is missing, nothing is there twice, nothing else is there; and the
\* counters of the runs that differ in nothing else are 0, 1, 2 ...
PlanComplete ==
  pc = "planned" =>
    /\ \A t \in DOMAIN spec.tests : \A variant \in Variants :
         \A count \in SeqRange(spec.tests[t].counts) :
           LET same == {r \in DOMAIN runs : Kind(r) = <<t, count, variant.name>>} IN
           /\ Cardinality(same) = HowManyRuns(t, variant)
           /\ {runs[r].testID[4] : r \in same} = 0 .. (Cardinality(same) - 1)
    /\ \A r \in DOMAIN runs :
         \E t \in DOMAIN spec.tests : \E variant \in Variants :
           \E count \in SeqRange(spec.tests[t].counts) : Kind(r) = <<t, count, variant.name>>

\* Every VM of a run satisfies the tags of test and variant and the filters,
\* and a run that must not mix platforms does not.
VMsSuitable ==
  \A r \in DOMAIN runs :
    LET t == spec.tests[runs[r].test] IN
    /\ \E variant \in Variants :
         /\ variant.name = runs[r].variant
         /\ \A k \in DOMAIN runs[r].vms : runs[r].vms[k] \in Available(runs[r].test, variant)
    /\ t.all \/ t.same => \A k, l \in DOMAIN runs[r].vms : runs[r].vms[k] = runs[r].vms[l]

\* The VMs that remain are those the runs use: the scheduler waits for the
\* images of all of them, and for no others.
OnlyUsedVMsRemain ==
  pc = "planned" => vms = UNION {SeqRange(runs[r].vms) : r \in DOMAIN runs}

==============================================================================
