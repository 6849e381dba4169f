----------------------------- MODULE NetworkList -----------------------------
(***************************************************************************)
(* The list of IP subnets of a suite run (cmd/network_list.go).            *)
(*                                                                         *)
(* A subnet is its address family and its number, counted from the first   *)
(* subnet given on the command line (number 0).  The address space ends:   *)
(* LastSubnet[ipv6] is the number of the last subnet of the family.        *)
(* The module holds operators only; they return the outcomes of a call as  *)
(* a set, because Go iterates over a map in any order.                     *)
(***************************************************************************)
EXTENDS Naturals

CONSTANT LastSubnet     \* number of the last subnet, per family

ASSUME LastSubnetAssumption == LastSubnet \in [BOOLEAN -> Nat]

Subnet == [ipv6 : BOOLEAN, nr : Nat]

\* current is currentV4 and currentV6, free the subnets marked true in freeNets.
SubnetList == [current : [BOOLEAN -> Nat], free : SUBSET Subnet]

NewNetworkList == [current |-> [ipv6 \in BOOLEAN |-> 0], free |-> {}]

FreeSubnets(list, ipv6) == {s \in list.free : s.ipv6 = ipv6}

Outcome(subnet, list) == [subnet |-> subnet, list |-> list]

\* The candidate is handed out only if a next one exists.
Exhausted(list, ipv6) == list.current[ipv6] >= LastSubnet[ipv6]

\* A faulty variant, for the test of a property.
ReserveNextStale(list, ipv6) ==
  IF FreeSubnets(list, ipv6) # {}
  THEN {Outcome(s, [list EXCEPT !.free = @ \ {s}]) : s \in FreeSubnets(list, ipv6)}
  ELSE IF Exhausted(list, ipv6) THEN {}
  ELSE {Outcome([ipv6 |-> ipv6, nr |-> list.current[ipv6]],
                [list EXCEPT !.current[~ipv6] = @ + 1])}

\* A free subnet of the family if there is one, else the current one; no
\* outcome at all when the code panics ("available subnets exhausted").
ReserveNext(list, ipv6) ==
  IF FreeSubnets(list, ipv6) # {}
  THEN {Outcome(s, [list EXCEPT !.free = @ \ {s}]) : s \in FreeSubnets(list, ipv6)}
  ELSE IF Exhausted(list, ipv6) THEN {}
  ELSE {Outcome([ipv6 |-> ipv6, nr |-> list.current[ipv6]],
                [list EXCEPT !.current[ipv6] = @ + 1])}

Free(list, subnet) == [list EXCEPT !.free = @ \cup {subnet}]

==============================================================================
