----------------------------- MODULE MCFoliage -----------------------------
(* Instances of Foliage for TLC.                                           *)
EXTENDS Foliage, TLC

\* The connections do the same, and so do the leaves that nobody is pinned to.
ConnectionsAndLeaves == Permutations(Procs) \cup Permutations(Leaves \ {Leaf0})
=============================================================================
