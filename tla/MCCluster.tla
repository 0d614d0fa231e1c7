----------------------------- MODULE MCCluster -----------------------------
(* Instances of Cluster for TLC.                                           *)
EXTENDS Cluster, TLC

CONSTANTS n1, n2

EachOther == {<<n1, n2>>, <<n2, n1>>}
OneWay == {<<n1, n2>>}

\* Operations of clients over one link, or links that take each other's place.
OpsOrLinks == {[links |-> 1, ops |-> 3], [links |-> 2, ops |-> 0]}
OneLink == {[links |-> 1, ops |-> 3]}

LinkSymmetry == Permutations(Links)
=============================================================================
