---------------------------- MODULE MCDnsQueries ----------------------------
(***************************************************************************)
(* Four configurations of the query ledger in one run: two families over   *)
(* two servers, two lanes, one branch with as few ids as the code allows,  *)
(* so that the ids go through their epochs, and one branch whose answers   *)
(* may be an alias that a further query follows.                           *)
(***************************************************************************)
EXTENDS DnsQueries, TLC

CONSTANTS i1, i2, i3

(* Nothing depends on which ids there are.  States of a configuration      *)
(* with two ids are only ever identified with states of the same one, by   *)
(* permutations that keep its two.                                         *)
Symmetry == Permutations({i1, i2, i3})

TwoFamilies ==
    [lanes |-> 1, families |-> 2, ids |-> {i1, i2, i3}, streamIds |-> 2, servers |-> 2,
     attempts |-> 2, timeout |-> 1, total |-> 1, epochMax |-> 2, maxHops |-> 0,
     maxTime |-> 1, maxSubmits |-> 2]

TwoLanes ==
    [lanes |-> 2, families |-> 1, ids |-> {i1, i2, i3}, streamIds |-> 1, servers |-> 1,
     attempts |-> 1, timeout |-> 1, total |-> 1, epochMax |-> 1, maxHops |-> 0,
     maxTime |-> 1, maxSubmits |-> 2]

FewIds ==
    [lanes |-> 1, families |-> 1, ids |-> {i1, i2}, streamIds |-> 1, servers |-> 1,
     attempts |-> 2, timeout |-> 1, total |-> 2, epochMax |-> 2, maxHops |-> 0,
     maxTime |-> 2, maxSubmits |-> 3]

Aliases ==
    [lanes |-> 1, families |-> 1, ids |-> {i1, i2}, streamIds |-> 1, servers |-> 1,
     attempts |-> 2, timeout |-> 1, total |-> 2, epochMax |-> 1, maxHops |-> 1,
     maxTime |-> 2, maxSubmits |-> 2]

MCConfigs == {TwoFamilies, TwoLanes, FewIds, Aliases}
=============================================================================
