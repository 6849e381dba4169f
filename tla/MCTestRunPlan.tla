---------------------------- MODULE MCTestRunPlan ----------------------------
(* Small test and VM specifications. *)
EXTENDS TestRunPlan, TLC

AllStrings == STRING

VMof(id, base, tags) == [id |-> id, base |-> base, tags |-> tags]
ThreeVMs ==
  << VMof("a", "a", {"zfs"}), VMof("b", "b", {"zfs", "drbd"}), VMof("n", "b", {}) >>

TestOf(counts, tags, same, all, only) ==
  [counts |-> counts, tags |-> tags, same |-> same, all |-> all, variants |-> only]

Tests ==
  "mixed" :> TestOf(<<1, 2>>, {}, FALSE, FALSE, {"plain"})
    @@ "same" :> TestOf(<<2>>, {"zfs"}, TRUE, FALSE, {})
    @@ "every" :> TestOf(<<2, 1>>, {}, FALSE, TRUE, {})

TwoVariants == << [name |-> "plain", tags |-> {}], [name |-> "drbd", tags |-> {"drbd"}] >>

Given(tests, variantList, baseImages, exclude, toRun, variantsToRun, repeats) ==
  [vms |-> ThreeVMs, tests |-> tests, variants |-> variantList, baseImages |-> baseImages,
   exclude |-> exclude, toRun |-> toRun, variantsToRun |-> variantsToRun, repeats |-> repeats]

\* All tests, every combination of the filters.
Distinct ==
  {Given(Tests, TwoVariants, base, out, only, variant, 1) :
     base \in {{}, {"b"}}, out \in {{}, {"a"}}, only \in {{}, {"all"}, {"every", "same"}},
     variant \in {{}, {"drbd"}}}
  \cup {Given(Tests, << >>, {}, {}, {"same", "every"}, {}, 2),
        Given(Tests, TwoVariants, {}, {}, {"mixed"}, {}, 2)}

\* "vms = [2, 2]" in the test specification.
Repeated == {Given("mixed" :> TestOf(<<2, 2>>, {}, FALSE, FALSE, {}), << >>, {}, {}, {}, {}, 1)}

==============================================================================
