---------------------------- MODULE MCTrieStore ----------------------------
(* An instance of TrieStore for TLC.                                       *)
EXTENDS TrieStore, TLC

CONSTANTS i1, i2, c1, c2, m1

\* No operation tells identities apart.
Symmetry == Permutations(Identities)

A == <<"a">>
AB == <<"a", "b">>
SlashAB == <<"", "a", "b">>
ABC == <<"a", "b", "c">>

\* No level has blanks around it.
NoPadded == [x \in {} |-> x]

\* A topic in the foliage, and filters that share branches with each other and
\* with the retained messages; the leaves of "a/#" are in two branches.
SomeFilters == {AB, <<"", "a", "+">>, <<"a", "#">>}

\* Two topics of the same levels, and one of every other length.
SomeTopics == {A, AB, SlashAB, ABC}
=============================================================================
