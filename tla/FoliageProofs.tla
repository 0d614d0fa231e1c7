---------------------------- MODULE FoliageProofs ----------------------------
(***************************************************************************)
(* For any number of connections and leaves: the unlocked operations of    *)
(* one topic never leave a client reachable after its unsubscription, and  *)
(* neither lose nor miscount a subscription while one subscriber stays.    *)
(***************************************************************************)
EXTENDS Foliage, FiniteSetTheorems, TLAPS

\* A leaf that is made and not yet stored is empty and nobody else's.
UnstoredIsOwn ==
  \A p \in Procs :
    pc[p] = "store" =>
      /\ leaf[p] # foliage
      /\ subs[leaf[p]] = {}
      /\ \A q \in Procs \ {p} : leaf[q] # leaf[p]

\* A connection with nothing to remove is not reached, and one that is about
\* to remove itself is reached at most through the leaf it loaded.
RemovedStays ==
  \A p \in Procs :
    /\ pc[p] \in {"out", "uncount", "store", "add", "length", "delete"} =>
         p \notin Reached
    /\ pc[p] = "remove" /\ leaf[p] # foliage => p \notin Reached

IInv ==
  /\ TypeOK
  /\ UnstoredIsOwn
  /\ RemovedStays

LEMMA InitIInv == Init => IInv
<1>1. \A P \in SUBSET Pinned : Cardinality(P) \in Nat
  BY PinnedAssumption, FS_Subset, FS_CardinalityType
<1> QED
  BY <1>1, LeavesAssumption, PinnedAssumption
  DEF Init, IInv, TypeOK, Busy, Holding, UnstoredIsOwn, RemovedStays, Reached

LEMMA NextIInv ==
  ASSUME IInv, [Next]_vars
  PROVE  IInv'
<1> USE LeavesAssumption, PinnedAssumption
    DEF IInv, TypeOK, Busy, Holding, UnstoredIsOwn, RemovedStays, Reached,
        Goto, Starts
<1>1. ASSUME NEW p \in Procs, LoadLeaf(p) PROVE IInv'
  BY <1>1 DEF LoadLeaf
<1>2. ASSUME NEW p \in Procs, MakeLeaf(p) PROVE IInv'
  BY <1>2 DEF MakeLeaf, Free
<1>3. ASSUME NEW p \in Procs, StoreLeaf(p) PROVE IInv'
  BY <1>3 DEF StoreLeaf
<1>4. ASSUME NEW p \in Procs, AddSubscriber(p) PROVE IInv'
  BY <1>4 DEF AddSubscriber
<1>5. ASSUME NEW p \in Procs, CountSubscription(p) PROVE IInv'
  BY <1>5 DEF CountSubscription
<1>6. ASSUME NEW p \in Procs, LoadForRemoval(p) PROVE IInv'
  BY <1>6 DEF LoadForRemoval
<1>7. ASSUME NEW p \in Procs, RemoveSubscriber(p) PROVE IInv'
  BY <1>7 DEF RemoveSubscriber
<1>8. ASSUME NEW p \in Procs, CheckLength(p) PROVE IInv'
  BY <1>8 DEF CheckLength
<1>9. ASSUME NEW p \in Procs, DeleteLeaf(p) PROVE IInv'
  BY <1>9 DEF DeleteLeaf
<1>10. ASSUME NEW p \in Procs, UncountSubscription(p) PROVE IInv'
  BY <1>10 DEF UncountSubscription
<1>11. CASE UNCHANGED vars
  BY <1>11 DEF vars
<1> QED
  BY <1>1, <1>2, <1>3, <1>4, <1>5, <1>6, <1>7, <1>8, <1>9, <1>10, <1>11
  DEF Next, Step

-----------------------------------------------------------------------------
(* With a pinned subscriber                                                *)

\* Nobody finds the topic without its leaf, and nobody finds the leaf empty.
OnlyLeaf0 ==
  /\ foliage = Leaf0
  /\ pinned \subseteq subs[Leaf0]
  /\ \A p \in Procs :
       /\ pc[p] \notin {"store", "delete"}
       /\ pc[p] \in Holding => leaf[p] = Leaf0
       /\ pc[p] \in {"in", "count"} => p \in subs[Leaf0]

LEMMA OnlyLeaf0Step ==
  ASSUME pinned # {}, IInv, OnlyLeaf0, [Next]_vars
  PROVE  OnlyLeaf0'
<1> USE LeavesAssumption, PinnedAssumption
    DEF IInv, TypeOK, Busy, Holding, OnlyLeaf0, Goto, Starts
<1>1. ASSUME NEW p \in Procs, LoadLeaf(p) PROVE OnlyLeaf0'
  BY <1>1 DEF LoadLeaf
<1>2. ASSUME NEW p \in Procs, MakeLeaf(p) PROVE OnlyLeaf0'
  BY <1>2 DEF MakeLeaf
<1>3. ASSUME NEW p \in Procs, StoreLeaf(p) \/ DeleteLeaf(p) PROVE OnlyLeaf0'
  BY <1>3 DEF StoreLeaf, DeleteLeaf
<1>4. ASSUME NEW p \in Procs, AddSubscriber(p) PROVE OnlyLeaf0'
  BY <1>4 DEF AddSubscriber
<1>5. ASSUME NEW p \in Procs, CountSubscription(p) PROVE OnlyLeaf0'
  BY <1>5 DEF CountSubscription
<1>6. ASSUME NEW p \in Procs, LoadForRemoval(p) PROVE OnlyLeaf0'
  BY <1>6 DEF LoadForRemoval
<1>7. ASSUME NEW p \in Procs, RemoveSubscriber(p) PROVE OnlyLeaf0'
  BY <1>7 DEF RemoveSubscriber
<1>8. ASSUME NEW p \in Procs, CheckLength(p) PROVE OnlyLeaf0'
  BY <1>8 DEF CheckLength
<1>9. ASSUME NEW p \in Procs, UncountSubscription(p) PROVE OnlyLeaf0'
  BY <1>9 DEF UncountSubscription
<1>10. CASE UNCHANGED vars
  BY <1>10 DEF vars
<1> QED
  BY <1>1, <1>2, <1>3, <1>4, <1>5, <1>6, <1>7, <1>8, <1>9, <1>10
  DEF Next, Step

-----------------------------------------------------------------------------
(* What is counted, with a pinned subscriber                               *)

\* The leaf has no other subscribers from before.
OnlyPinnedStay == subs[Leaf0] \subseteq pinned \cup Procs

\* Subscriptions that have been counted and not yet been subtracted.
Counted ==
  pinned \cup {p \in Procs : pc[p] \in {"in", "remove", "length", "uncount"}}

CountFits ==
  /\ OnlyPinnedStay
  /\ IsFiniteSet(Counted)
  /\ SubCount = Cardinality(Counted)

LEMMA OnlyPinnedStayStep ==
  ASSUME IInv, OnlyLeaf0, OnlyPinnedStay, [Next]_vars
  PROVE  OnlyPinnedStay'
  BY LeavesAssumption
  DEF IInv, TypeOK, OnlyLeaf0, OnlyPinnedStay, Holding, Next, Step, vars,
      LoadLeaf, MakeLeaf, StoreLeaf, AddSubscriber, CountSubscription,
      LoadForRemoval, RemoveSubscriber, CheckLength, DeleteLeaf,
      UncountSubscription

LEMMA CountFitsStep ==
  ASSUME pinned # {}, IInv, OnlyLeaf0, CountFits, [Next]_vars
  PROVE  CountFits'
<1> USE DEF IInv, TypeOK, Busy, OnlyLeaf0, Counted, Goto, Starts
<1> SUFFICES IsFiniteSet(Counted)' /\ (SubCount = Cardinality(Counted))'
  BY OnlyPinnedStayStep DEF CountFits
<1>1. ASSUME Counted' = Counted, SubCount' = SubCount
      PROVE  IsFiniteSet(Counted)' /\ (SubCount = Cardinality(Counted))'
  BY <1>1 DEF CountFits
<1>2. ASSUME NEW p \in Procs, CountSubscription(p)
      PROVE  IsFiniteSet(Counted)' /\ (SubCount = Cardinality(Counted))'
  <2>1. Counted' = Counted \cup {p} /\ p \notin Counted
    BY <1>2, PinnedAssumption DEF CountSubscription
  <2>2. SubCount' = SubCount + 1
    BY <1>2 DEF CountSubscription
  <2> HIDE DEF Counted
  <2> QED
    BY <2>1, <2>2, FS_AddElement DEF CountFits
<1>3. ASSUME NEW p \in Procs, UncountSubscription(p)
      PROVE  IsFiniteSet(Counted)' /\ (SubCount = Cardinality(Counted))'
  <2>1. Counted' = Counted \ {p} /\ p \in Counted
    BY <1>3, PinnedAssumption DEF UncountSubscription
  <2>2. SubCount' = SubCount - 1
    BY <1>3 DEF UncountSubscription
  <2> HIDE DEF Counted
  <2> QED
    BY <2>1, <2>2, FS_RemoveElement DEF CountFits
<1>4. ASSUME NEW p \in Procs,
             \/ LoadLeaf(p) \/ MakeLeaf(p) \/ StoreLeaf(p) \/ DeleteLeaf(p)
             \/ RemoveSubscriber(p)
      PROVE  Counted' = Counted /\ SubCount' = SubCount
  BY <1>4, LeavesAssumption
  DEF LoadLeaf, MakeLeaf, StoreLeaf, DeleteLeaf, RemoveSubscriber
<1>5. ASSUME NEW p \in Procs, AddSubscriber(p)
      PROVE  Counted' = Counted /\ SubCount' = SubCount
  <2>1. p \notin subs[leaf[p]]
    BY <1>5, LeavesAssumption DEF AddSubscriber, RemovedStays, Reached, Holding
  <2> QED
    BY <1>5, <2>1 DEF AddSubscriber
<1>6. ASSUME NEW p \in Procs, LoadForRemoval(p) \/ CheckLength(p)
      PROVE  Counted' = Counted /\ SubCount' = SubCount
  <2>1. foliage # NoLeaf
    BY LeavesAssumption
  <2>2. CASE LoadForRemoval(p)
    BY <2>1, <2>2 DEF LoadForRemoval
  <2>3. CASE CheckLength(p)
    <3>1. subs[leaf[p]] # {}
      BY <2>3 DEF CheckLength, Holding
    <3> QED
      BY <2>3, <3>1 DEF CheckLength
  <2> QED
    BY <1>6, <2>2, <2>3
<1>7. CASE UNCHANGED vars
  BY <1>1, <1>7 DEF vars
<1> QED
  BY <1>1, <1>2, <1>3, <1>4, <1>5, <1>6, <1>7 DEF Next, Step

LEMMA CountFitsAtRest ==
  ASSUME IInv, OnlyLeaf0, CountFits, \A p \in Procs : pc[p] \notin Busy
  PROVE  SubCount = Cardinality(Reached)
<1>1. Counted = Reached
  BY LeavesAssumption
  DEF IInv, TypeOK, Busy, OnlyLeaf0, CountFits, OnlyPinnedStay, Counted,
      Reached, RemovedStays
<1> QED
  BY <1>1 DEF CountFits

-----------------------------------------------------------------------------
LEMMA Invariance == Spec => []IInv
<1>1. IInv /\ [Next]_vars => IInv'
  BY NextIInv
<1> QED
  BY <1>1, InitIInv, PTL DEF Spec

(***************************************************************************)
(* The foliage, its leaves and the connections keep their types            *)
(* (trie.go:21-69).                                                        *)
(***************************************************************************)
THEOREM TypeCorrect == Spec => []TypeOK
<1>1. IInv => TypeOK
  BY DEF IInv
<1> QED
  BY <1>1, Invariance, PTL

(***************************************************************************)
(* No publication reaches a client whose Trie.Unsubscribe has returned     *)
(* (trie.go:42-69), in spite of the missing lock.                          *)
(***************************************************************************)
THEOREM UnsubscribedIsUnreached == Spec => []NoGhostDelivery
<1>1. IInv => NoGhostDelivery
  BY DEF IInv, RemovedStays, NoGhostDelivery
<1> QED
  BY <1>1, Invariance, PTL

LEMMA PinnedStays == [Next]_vars => pinned' = pinned
  BY DEF Next, Step, vars, LoadLeaf, MakeLeaf, StoreLeaf, AddSubscriber,
         CountSubscription, LoadForRemoval, RemoveSubscriber, CheckLength,
         DeleteLeaf, UncountSubscription

LEMMA PinnedInvariance == Spec => [](pinned # {} => OnlyLeaf0 /\ CountFits)
<1> DEFINE Held == pinned # {} => OnlyLeaf0 /\ CountFits
<1>1. Init => Held
  <2> SUFFICES ASSUME Init, pinned # {} PROVE OnlyLeaf0 /\ CountFits
    OBVIOUS
  <2>1. Counted = pinned /\ IsFiniteSet(pinned)
    BY PinnedAssumption, FS_Subset DEF Init, Counted
  <2>2. OnlyLeaf0
    BY LeavesAssumption DEF Init, OnlyLeaf0, Holding
  <2> QED
    BY <2>1, <2>2, LeavesAssumption DEF Init, CountFits, OnlyPinnedStay
<1>2. IInv /\ Held /\ [Next]_vars => Held'
  BY PinnedStays, OnlyLeaf0Step, CountFitsStep
<1> QED
  BY <1>1, <1>2, Invariance, PTL DEF Spec

(***************************************************************************)
(* No subscription is lost while the topic keeps a subscriber              *)
(* (trie.go:21-40).                                                        *)
(***************************************************************************)
THEOREM PinnedLosesNothing == Spec => []NoLostSubscription
<1>1. (pinned # {} => OnlyLeaf0 /\ CountFits) => NoLostSubscription
  BY LeavesAssumption DEF OnlyLeaf0, NoLostSubscription, Reached
<1> QED
  BY <1>1, PinnedInvariance, PTL

(***************************************************************************)
(* While the topic keeps a subscriber, SubCount is right whenever nobody   *)
(* is subscribing or unsubscribing (processor.go:160, 177).                *)
(***************************************************************************)
THEOREM PinnedCountIsRight == Spec => []CountedWhilePinned
<1>1. IInv /\ (pinned # {} => OnlyLeaf0 /\ CountFits) => CountedWhilePinned
  BY CountFitsAtRest DEF CountedWhilePinned
<1> QED
  BY <1>1, Invariance, PinnedInvariance, PTL
=============================================================================
