----------------------------- MODULE MCStateLoop -----------------------------
(* Instance of StateLoop: three connections. *)
EXTENDS StateLoop, TLC

CONSTANTS c1, c2, c3

MCConns == {c1, c2, c3}

Symmetry == Permutations(MCConns)

\* What a connection has loaded is of no use after the comparison, and no
\* property speaks of raised: the proofs do.
Live == [c \in Conns |-> IF pc[c] = "compare" THEN seen[c] ELSE 0]
View == <<ClientsConnected, ClientsMax, pc, Live, peak, loopVars>>
=============================================================================
