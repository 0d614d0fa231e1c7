----------------------------- MODULE ClientCount -----------------------------
(***************************************************************************)
(* The counters of connected clients (State.ClientsConnected, ClientsMax), *)
(* which the goroutines of all connections change with atomic operations:  *)
(* every operation is atomic, the test between them is not.                *)
(***************************************************************************)
EXTENDS Integers, FiniteSets

CONSTANT
  Conns  \* the connections, of which each serves one CONNECT at a time

ASSUME ConnsAssumption == IsFiniteSet(Conns)

VARIABLES
  ClientsConnected, ClientsMax,
  pc,      \* connection -> the operation it does next
  seen,    \* connection -> ClientsConnected as it was loaded
  raised,  \* history: the counted connections that raised ClientsMax
  peak     \* history: the most connections counted at a time

vars == <<ClientsConnected, ClientsMax, pc, seen, raised, peak>>

Init ==
  /\ ClientsConnected = 0
  /\ ClientsMax = 0
  /\ pc = [c \in Conns |-> "out"]
  /\ seen = [c \in Conns |-> 0]
  /\ raised = {}
  /\ peak = 0

Goto(c, label) == pc' = [pc EXCEPT ![c] = label]

At(labels) == {c \in Conns : pc[c] \in labels}

\* Connections between ProcessConnect's first operation on a counter and its last.
Pending == At({"load", "compare", "raise"})

\* Connections that ClientsConnected has been incremented for.
Counted == At({"load", "compare", "raise", "in", "stale"})

\* ProcessConnect: atomic.AddInt64(ClientsConnected, 1)
Add(c) ==
  /\ pc[c] = "out"
  /\ ClientsConnected' = ClientsConnected + 1
  /\ Goto(c, "load")
  /\ LET now == Cardinality(Counted) + 1
     IN  peak' = IF now > peak THEN now ELSE peak
  /\ UNCHANGED <<ClientsMax, seen, raised>>

\* Mutant: the number is loaded before the client is added to it.
Load_Before(c) ==
  /\ pc[c] = "load"
  /\ seen' = [seen EXCEPT ![c] = ClientsConnected - 1]
  /\ Goto(c, "compare")
  /\ UNCHANGED <<ClientsConnected, ClientsMax, raised, peak>>

Load(c) ==
  /\ pc[c] = "load"
  /\ seen' = [seen EXCEPT ![c] = ClientsConnected]
  /\ Goto(c, "compare")
  /\ UNCHANGED <<ClientsConnected, ClientsMax, raised, peak>>

\* Mutant: the maximum goes up when it is reached, too.
Compare_Reached(c) ==
  /\ pc[c] = "compare"
  /\ Goto(c, IF seen[c] >= ClientsMax THEN "raise" ELSE "in")
  /\ UNCHANGED <<ClientsConnected, ClientsMax, seen, raised, peak>>

\* The load of ClientsMax and the comparison.
Compare(c) ==
  /\ pc[c] = "compare"
  /\ Goto(c, IF seen[c] > ClientsMax THEN "raise" ELSE "in")
  /\ UNCHANGED <<ClientsConnected, ClientsMax, seen, raised, peak>>

Raise(c) ==
  /\ pc[c] = "raise"
  /\ ClientsMax' = ClientsMax + 1
  /\ Goto(c, "in")
  /\ raised' = raised \cup {c}
  /\ UNCHANGED <<ClientsConnected, seen, peak>>

\* ProcessDisconnect
Leave(c) ==
  /\ pc[c] = "in"
  /\ ClientsConnected' = ClientsConnected - 1
  /\ Goto(c, "out")
  /\ raised' = raised \ {c}
  /\ UNCHANGED <<ClientsMax, seen, peak>>

\* ProcessDisconnect of a connection that ProcessConnect did not count, because
\* CONNACK could not be written.
LeaveUncounted(c) ==
  /\ pc[c] = "out"
  /\ ClientsConnected' = ClientsConnected - 1
  /\ Goto(c, "gone")
  /\ UNCHANGED <<ClientsMax, seen, raised, peak>>

\* A connection that is not uncounted: its loop ended at the top, or it sent a
\* second CONNECT, which is counted like that of another connection.
StayCounted(c) ==
  /\ pc[c] = "in"
  /\ Goto(c, "stale")
  /\ UNCHANGED <<ClientsConnected, ClientsMax, seen, raised, peak>>

Next ==
  \E c \in Conns :
    \/ Add(c) \/ Load(c) \/ Compare(c) \/ Raise(c)
    \/ Leave(c) \/ LeaveUncounted(c) \/ StayCounted(c)

Spec == Init /\ [][Next]_vars

-----------------------------------------------------------------------------
(* Properties                                                              *)

Labels == {"out", "load", "compare", "raise", "in", "stale", "gone"}

TypeOK ==
  /\ ClientsConnected \in Int /\ ClientsMax \in Nat
  /\ pc \in [Conns -> Labels]
  /\ seen \in [Conns -> Int]
  /\ raised \subseteq At({"in", "stale"})
  /\ peak \in Nat

(***************************************************************************)
(* ProcessConnect (processor.go:266-271) raises ClientsMax by one, on      *)
(* loads that may be old.  When no client is connecting, it still is at    *)
(* least half of what ClientsConnected is: a client that did not raise it  *)
(* saw all those before it that did not, and a maximum that covers them.   *)
(***************************************************************************)
MaxCoversHalf == Pending = {} => ClientsConnected <= 2 * ClientsMax

(***************************************************************************)
(* ProcessConnect (processor.go:269): several clients may raise ClientsMax *)
(* on one and the same comparison, and it then is more than were ever      *)
(* connected (counted) at a time, but less than twice as many.             *)
(***************************************************************************)
MaxBelowTwicePeak == ClientsMax > 0 => ClientsMax < 2 * peak

-----------------------------------------------------------------------------
(* What the source says of the program and the code does not do            *)

(***************************************************************************)
(* ifs/i_server.go:26, ClientsMax: "The maximum number of clients that     *)
(* have been connected to the broker at the same time": when none is       *)
(* connecting, at least as many as are now, and never more than were.      *)
(***************************************************************************)
MaxCoversConnected == Pending = {} => ClientsConnected <= ClientsMax
MaxWasConnected == ClientsMax <= peak
=============================================================================
