------------------------------ MODULE Foliage ------------------------------
(***************************************************************************)
(* One topic without wildcards of the broker's trie, shared by the         *)
(* connections that subscribe and unsubscribe it.  Trie.Subscribe and      *)
(* Trie.Unsubscribe take no lock here: they load the leaf from the foliage *)
(* (a sync.Map), change it, and store or delete it, one call after the     *)
(* other.  A connection is named by its client identifier; the counter is  *)
(* the one ProcessSubscribe and ProcessUnSubscribe keep from the results.  *)
(***************************************************************************)
EXTENDS Integers, FiniteSets

CONSTANTS
  Procs,    \* the connections that subscribe and unsubscribe
  Pinned,   \* identities that may have subscribed before, and stay
  Leaves,   \* leaf objects
  NoLeaf,   \* no entry for the topic in the foliage
  Leaf0,    \* the leaf of the pinned identities
  MaxCount  \* bound: no subscription starts while SubCount is MaxCount

VARIABLES
  pinned,   \* the identities that did subscribe before
  foliage,  \* the leaf stored for the topic, or NoLeaf
  subs,     \* leaf -> its subscribers
  pc,       \* connection -> the call it makes next
  leaf,     \* connection -> the leaf it works on
  SubCount  \* State.SubCount, the part this topic has in it

vars == <<pinned, foliage, subs, pc, leaf, SubCount>>

ASSUME LeavesAssumption == NoLeaf \notin Leaves /\ Leaf0 \in Leaves
ASSUME PinnedAssumption == Pinned \cap Procs = {} /\ IsFiniteSet(Pinned)

\* Connections between a Load and the end of the operation.
Busy == {"store", "add", "count", "remove", "length", "delete", "uncount"}

\* What follows uses the leaf, leaf.(*Leaf).
Holding == {"store", "add", "remove", "length", "delete"}

Free == {l \in Leaves : l # foliage /\ \A p \in Procs : leaf[p] # l}

Starts(p) == pc[p] = "out" /\ SubCount < MaxCount

Goto(p, label) == pc' = [pc EXCEPT ![p] = label]

Init ==
  /\ pinned \in SUBSET Pinned
  /\ foliage = IF pinned = {} THEN NoLeaf ELSE Leaf0
  /\ subs = [l \in Leaves |-> IF l = Leaf0 THEN pinned ELSE {}]
  /\ pc = [p \in Procs |-> "out"]
  /\ leaf = [p \in Procs |-> NoLeaf]
  /\ SubCount = Cardinality(pinned)

-----------------------------------------------------------------------------
(* Subscribe                                                               *)

\* t.foliage.Load finds the leaf.
LoadLeaf(p) ==
  /\ Starts(p)
  /\ foliage # NoLeaf
  /\ leaf' = [leaf EXCEPT ![p] = foliage]
  /\ Goto(p, "add")
  /\ UNCHANGED <<pinned, foliage, subs, SubCount>>

\* t.foliage.Load finds nothing: a new leaf is made.
MakeLeaf(p) ==
  /\ Starts(p)
  /\ foliage = NoLeaf
  /\ \E l \in Free :
       /\ leaf' = [leaf EXCEPT ![p] = l]
       /\ subs' = [subs EXCEPT ![l] = {}]
  /\ Goto(p, "store")
  /\ UNCHANGED <<pinned, foliage, SubCount>>

\* t.foliage.Store, over whatever leaf is there by now.
StoreLeaf(p) ==
  /\ pc[p] = "store"
  /\ foliage' = leaf[p]
  /\ Goto(p, "add")
  /\ UNCHANGED <<pinned, subs, leaf, SubCount>>

\* leaf.AddSubscriber; a subscription that existed is not counted.
AddSubscriber(p) ==
  /\ pc[p] = "add"
  /\ subs' = [subs EXCEPT ![leaf[p]] = @ \cup {p}]
  /\ leaf' = [leaf EXCEPT ![p] = NoLeaf]
  /\ Goto(p, IF p \in subs[leaf[p]] THEN "in" ELSE "count")
  /\ UNCHANGED <<pinned, foliage, SubCount>>

CountSubscription(p) ==
  /\ pc[p] = "count"
  /\ SubCount' = SubCount + 1
  /\ Goto(p, "in")
  /\ UNCHANGED <<pinned, foliage, subs, leaf>>

-----------------------------------------------------------------------------
(* Unsubscribe                                                             *)

\* Mutant: the result ok of Load is not looked at.
LoadForRemoval_AnyLeaf(p) ==
  /\ pc[p] = "in"
  /\ leaf' = [leaf EXCEPT ![p] = foliage]
  /\ Goto(p, "remove")
  /\ UNCHANGED <<pinned, foliage, subs, SubCount>>

\* t.foliage.Load: without a leaf the operation is over.
LoadForRemoval(p) ==
  /\ pc[p] = "in"
  /\ leaf' = [leaf EXCEPT ![p] = foliage]
  /\ Goto(p, IF foliage = NoLeaf THEN "out" ELSE "remove")
  /\ UNCHANGED <<pinned, foliage, subs, SubCount>>

\* Mutant: the last subscriber is left to the deletion of the leaf.
RemoveSubscriber_NotLast(p) ==
  /\ pc[p] = "remove"
  /\ subs' = [subs EXCEPT ![leaf[p]] = IF @ = {p} THEN @ ELSE @ \ {p}]
  /\ Goto(p, "length")
  /\ UNCHANGED <<pinned, foliage, leaf, SubCount>>

RemoveSubscriber(p) ==
  /\ pc[p] = "remove"
  /\ subs' = [subs EXCEPT ![leaf[p]] = @ \ {p}]
  /\ Goto(p, "length")
  /\ UNCHANGED <<pinned, foliage, leaf, SubCount>>

\* Mutant: a leaf with one subscriber left goes.
CheckLength_AtMostOne(p) ==
  /\ pc[p] = "length"
  /\ Goto(p, IF Cardinality(subs[leaf[p]]) <= 1 THEN "delete" ELSE "uncount")
  /\ UNCHANGED <<pinned, foliage, subs, leaf, SubCount>>

\* Mutant: exist is true only if the leaf goes.
CheckLength_ExistIfEmpty(p) ==
  /\ pc[p] = "length"
  /\ Goto(p, IF subs[leaf[p]] = {} THEN "delete" ELSE "out")
  /\ UNCHANGED <<pinned, foliage, subs, leaf, SubCount>>

\* len(leaf.Subscribers()) == 0; the leaves of the foliage retain nothing.
CheckLength(p) ==
  /\ pc[p] = "length"
  /\ Goto(p, IF subs[leaf[p]] = {} THEN "delete" ELSE "uncount")
  /\ UNCHANGED <<pinned, foliage, subs, leaf, SubCount>>

\* t.foliage.Delete, whatever leaf is there by now.
DeleteLeaf(p) ==
  /\ pc[p] = "delete"
  /\ foliage' = NoLeaf
  /\ Goto(p, "uncount")
  /\ UNCHANGED <<pinned, subs, leaf, SubCount>>

\* exist is true for every leaf, with or without the subscriber.
UncountSubscription(p) ==
  /\ pc[p] = "uncount"
  /\ SubCount' = SubCount - 1
  /\ leaf' = [leaf EXCEPT ![p] = NoLeaf]
  /\ Goto(p, "out")
  /\ UNCHANGED <<pinned, foliage, subs>>

-----------------------------------------------------------------------------
Step(p) ==
  \/ LoadLeaf(p) \/ MakeLeaf(p) \/ StoreLeaf(p)
  \/ AddSubscriber(p) \/ CountSubscription(p)
  \/ LoadForRemoval(p) \/ RemoveSubscriber(p) \/ CheckLength(p)
  \/ DeleteLeaf(p) \/ UncountSubscription(p)

Next == \E p \in Procs : Step(p)

Spec == Init /\ [][Next]_vars

-----------------------------------------------------------------------------
(* Properties                                                              *)

\* Whom a publication on the topic reaches (Trie.Subscribers, trie.go:82).
Reached == IF foliage = NoLeaf THEN {} ELSE subs[foliage]

TypeOK ==
  /\ pinned \subseteq Pinned
  /\ foliage \in Leaves \cup {NoLeaf}
  /\ subs \in [Leaves -> SUBSET (Procs \cup Pinned)]
  /\ pc \in [Procs -> Busy \cup {"out", "in"}]
  /\ leaf \in [Procs -> Leaves \cup {NoLeaf}]
  /\ \A p \in Procs : pc[p] \in Holding => leaf[p] \in Leaves
  /\ SubCount \in Int

(***************************************************************************)
(* Trie.Unsubscribe (trie.go:42): once a client's unsubscription has       *)
(* returned, and until it subscribes again, no publication reaches it,     *)
(* whatever leaves the other connections stored or deleted meanwhile.      *)
(***************************************************************************)
NoGhostDelivery ==
  \A p \in Procs : pc[p] \in {"out", "uncount"} => p \notin Reached

(***************************************************************************)
(* Trie.Subscribe (trie.go:21): while the topic has a subscriber that      *)
(* stays, its leaf stays, and a subscription that has returned is never    *)
(* lost to the operations of the others.                                   *)
(***************************************************************************)
NoLostSubscription ==
  pinned # {} =>
    /\ pinned \subseteq Reached
    /\ \A p \in Procs : pc[p] \in {"in", "count"} => p \in Reached

(***************************************************************************)
(* ProcessSubscribe, ProcessUnSubscribe (processor.go:160, 177): under the *)
(* same condition no subscription is counted twice and none is forgotten.  *)
(***************************************************************************)
CountedWhilePinned ==
  pinned # {} /\ (\A p \in Procs : pc[p] \notin Busy) => SubCount = Cardinality(Reached)

(***************************************************************************)
(* ifs/i_server.go:66: SubCount is "The total number of subscriptions      *)
(* active on the broker", whenever no operation is under way.              *)
(***************************************************************************)
SubCountIsActive ==
  (\A p \in Procs : pc[p] \notin Busy) => SubCount = Cardinality(Reached)
=============================================================================
