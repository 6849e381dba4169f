----------------------------- MODULE MCScheduler -----------------------------
(* Small suites for the scheduler. *)
EXTENDS Scheduler, TLC

SomeStrings == {"", "nat", "test", "x", "y", "A", "B", "n", "small", "large",
                "other", "v4", "v6", "huge"}

BaseVM == [name |-> "", base |-> "A"]
NamedVM == [name |-> "n", base |-> "A"]
OtherVM == [name |-> "", base |-> "B"]

Extra == [forward |-> "", ipv6 |-> FALSE, dhcp |-> FALSE, domain |-> "x"]
ExtraDHCP == [forward |-> "", ipv6 |-> TRUE, dhcp |-> TRUE, domain |-> "y"]

Run(id, vms, nets, ipv6, priority) ==
  [testID |-> id, vms |-> vms, networks |-> nets, ipv6 |-> ipv6, priority |-> priority]

\* Two images of one base image, one run with two equal extra networks.
TwoImages == <<BaseVM, NamedVM>>
FiveRuns ==
  << Run("small", <<BaseVM>>, <<Extra>>, FALSE, 1),
     Run("large", <<BaseVM, NamedVM>>, <<Extra, Extra, ExtraDHCP>>, FALSE, 2),
     Run("other", <<NamedVM>>, << >>, FALSE, 3),
     Run("v6", <<NamedVM>>, <<ExtraDHCP>>, TRUE, 3),
     Run("huge", <<BaseVM, BaseVM, NamedVM, NamedVM>>, <<Extra>>, FALSE, 4) >>

\* Runs of both IP versions, one that can never fit in two IDs.
MixedRuns ==
  << Run("v4", <<BaseVM>>, << >>, FALSE, 2),
     Run("v6", <<OtherVM>>, <<ExtraDHCP>>, TRUE, 1),
     Run("huge", <<BaseVM, OtherVM, OtherVM>>, << >>, FALSE, 3) >>
TwoBases == <<BaseVM, OtherVM>>

Plenty == [ipv6 \in BOOLEAN |-> 9]
Scarce == [ipv6 \in BOOLEAN |-> IF ipv6 THEN 9 ELSE 3]

TestFailed == {[status |-> "FAILED", err |-> TRUE]}
AnyFailed == {[status |-> s, err |-> TRUE] : s \in {"unset", "FAILED", "SUCCESS"}}
==============================================================================
