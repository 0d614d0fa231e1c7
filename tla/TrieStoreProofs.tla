-------------------------- MODULE TrieStoreProofs --------------------------
(***************************************************************************)
(* What TrieStore promises, for any sets of well-formed filters and topics *)
(* and any sequence of operations: TrieShape says at which branches the    *)
(* leaves of every filter and topic are, and that no branch is without     *)
(* one; with it, what Subscribers and SearchRetain find is what the        *)
(* filters match, and an operation changes one entry of TopicStore.        *)
(***************************************************************************)
EXTENDS TrieStore, TrieTheorems

\* What the maps of the trie range over.
TrieRanges ==
  /\ \A topic \in DOMAIN trie.foliage : DOMAIN trie.foliage[topic] \subseteq Identities
  /\ \A at \in DOMAIN trie.leaves :
       /\ DOMAIN trie.leaves[at].subs \subseteq Identities
       /\ trie.leaves[at].retain \in Packets \cup {NoRetain}

IInv ==
  /\ TrieShape(trie, Filters, Topics)
  /\ TrieRanges
  /\ IsFiniteSet(Retained(trie))
  /\ RetainCounted
  /\ exist \in BOOLEAN /\ dropped \in Nat

LEMMA Arguments == ShapeArguments(Filters, Topics)
  BY FilterAssumption, TopicAssumption DEF ShapeArguments

LEMMA InitIInv == Init => IInv
<1> SUFFICES ASSUME Init PROVE IInv
  OBVIOUS
<1>1. TrieShape(trie, Filters, Topics)
  BY NewTrieShape DEF Init
<1>2. TrieRanges /\ Retained(trie) = {}
  <2>1. DOMAIN EmptyMap = {}
    BY DEF EmptyMap
  <2> QED
    BY <2>1 DEF Init, NewTrie, TrieRanges, Retained
<1>3. IsFiniteSet(Retained(trie)) /\ Cardinality(Retained(trie)) = 0
  BY <1>2, FS_EmptySet
<1>4. Retain = 0 /\ dropped = 0 /\ exist \in BOOLEAN
  BY DEF Init
<1>5. RetainCounted
  BY <1>3, <1>4 DEF RetainCounted
<1> QED
  BY <1>1, <1>2, <1>3, <1>4, <1>5 DEF IInv

LEMMA SubscribeIInv ==
  ASSUME IInv, NEW filter \in Filters, NEW identity \in Identities, NEW client \in Clients,
         SubscribeTopic(filter, identity, client)
  PROVE  IInv'
<1>1. /\ trie' = Subscribe(trie, filter, identity, client) /\ Retain' = Retain
      /\ exist' \in BOOLEAN /\ dropped' = dropped
  BY DEF SubscribeTopic, SubscribeExist
<1>2. /\ TrieShape(trie', Filters, Topics)
      /\ Retained(trie') = Retained(trie)
  BY <1>1, Arguments, SubscribeShape DEF IInv
<1>3. WellFormed(filter) /\ IsTrie(trie) /\ TrieRanges /\ TrieShape(trie, Filters, Topics)
  BY FilterAssumption DEF IInv, TrieShape
<1> DEFINE added == LeafPathsOf(filter) \X {filter}
<1>4. CASE IsWild(filter)
  <2>1. /\ DOMAIN trie'.foliage = DOMAIN trie.foliage \cup {filter}
        /\ \A topic \in DOMAIN trie.foliage : trie'.foliage[topic] = trie.foliage[topic]
        /\ trie'.foliage[filter] \in {EmptyMap} \cup {trie.foliage[filter]}
        /\ DOMAIN trie'.leaves = DOMAIN trie.leaves \cup added
        /\ \A at \in DOMAIN trie.leaves \ added : trie'.leaves[at] = trie.leaves[at]
        /\ \A at \in added : trie'.leaves[at] =
              [LeafAt(trie, at[1], at[2]) EXCEPT !.subs = Put(@, identity, client)]
    BY <1>1, <1>3, <1>4, SubscribeForm
  <2>2. ASSUME NEW at \in added
        PROVE  /\ DOMAIN trie'.leaves[at].subs \subseteq Identities
               /\ trie'.leaves[at].retain \in Packets \cup {NoRetain}
    <3> DEFINE leaf == LeafAt(trie, at[1], filter)
    <3>1. at[2] = filter /\ trie'.leaves[at] = [leaf EXCEPT !.subs = Put(@, identity, client)]
      BY <2>1
    <3>2. IsLeaf(leaf) /\ leaf.retain = NoRetain
      BY <1>3, <1>4, WildLeaf
    <3>3. DOMAIN leaf.subs \subseteq Identities
      BY <1>3 DEF LeafAt, NewLeaf, EmptyMap, TrieRanges
    <3> HIDE DEF leaf
    <3>4. trie'.leaves[at] = [subs |-> Put(leaf.subs, identity, client), retain |-> NoRetain]
      BY <3>1, <3>2 DEF IsLeaf
    <3>5. DOMAIN Put(leaf.subs, identity, client) \subseteq Identities
      BY <3>3 DEF Put
    <3> QED
      BY <3>4, <3>5
  <2>3. \A topic \in DOMAIN trie'.foliage : DOMAIN trie'.foliage[topic] \subseteq Identities
    <3>1. DOMAIN EmptyMap = {}
      BY DEF EmptyMap
    <3>2. filter \notin DOMAIN trie.foliage => trie'.foliage[filter] = EmptyMap
      BY <1>1, <1>3, <1>4 DEF Subscribe, AddBranch, Foliate, Put, IsTrie
    <3> QED
      BY <1>3, <2>1, <3>1, <3>2 DEF TrieRanges
  <2> HIDE DEF added
  <2>4. TrieRanges'
    BY <1>3, <2>1, <2>2, <2>3 DEF TrieRanges
  <2> QED
    BY <1>1, <1>2, <2>4 DEF IInv, RetainCounted
<1>5. CASE ~ IsWild(filter)
  <2>1. /\ DOMAIN trie'.foliage = DOMAIN trie.foliage \cup {filter}
        /\ \A topic \in DOMAIN trie.foliage \ {filter} : trie'.foliage[topic] = trie.foliage[topic]
        /\ trie'.foliage[filter] =
             Put(IF filter \in DOMAIN trie.foliage THEN trie.foliage[filter] ELSE EmptyMap,
                 identity, client)
        /\ trie'.leaves = trie.leaves
    BY <1>1, <1>3, <1>5, SubscribeForm
  <2>2. DOMAIN trie'.foliage[filter] \subseteq Identities
    BY <1>3, <2>1 DEF TrieRanges, Put, EmptyMap
  <2>3. TrieRanges'
    BY <1>3, <2>1, <2>2 DEF TrieRanges
  <2> QED
    BY <1>1, <1>2, <2>3 DEF IInv, RetainCounted
<1> QED
  BY <1>4, <1>5

LEMMA UnsubscribeIInv ==
  ASSUME IInv, NEW filter \in Filters, NEW identity \in Identities,
         UnsubscribeTopic(filter, identity)
  PROVE  IInv'
<1> DEFINE home == <<Levels(filter), filter>>
           left == Delete(trie.leaves[home].subs, identity)
<1>1. /\ trie' = Unsubscribe(trie, filter, identity) /\ Retain' = Retain
      /\ dropped' = dropped
  BY DEF UnsubscribeTopic
<1>5. exist' \in BOOLEAN
  <2>1. exist' = (IF IsWild(filter) THEN HoldingLeafOf(trie, filter) # {}
                                    ELSE filter \in DOMAIN trie.foliage)
    BY DEF UnsubscribeTopic, UnsubscribeExist
  <2>2. CASE IsWild(filter)
    BY <2>1, <2>2
  <2>3. CASE ~ IsWild(filter)
    BY <2>1, <2>3
  <2> QED
    BY <2>2, <2>3
<1>2. /\ TrieShape(trie', Filters, Topics)
      /\ Retained(trie') = Retained(trie)
  BY <1>1, Arguments, UnsubscribeShape DEF IInv
<1>3. IsTrie(trie) /\ TrieRanges /\ TrieShape(trie, Filters, Topics)
  BY DEF IInv, TrieShape
<1>4. TrieRanges'
  <2>1. CASE IsWild(filter) /\ home \notin DOMAIN trie.leaves
    <3>1. trie' = trie
      BY <1>1, <1>3, <2>1, Arguments, UnsubscribeWild
    <3> QED
      BY <1>3, <3>1 DEF TrieRanges
  <2>2. CASE IsWild(filter) /\ home \in DOMAIN trie.leaves
    <3>1. /\ trie'.foliage = trie.foliage
          /\ \A at \in DOMAIN trie.leaves \ {home} : trie'.leaves[at] = trie.leaves[at]
          /\ IF left = EmptyMap
             THEN DOMAIN trie'.leaves = DOMAIN trie.leaves \ {home}
             ELSE /\ DOMAIN trie'.leaves = DOMAIN trie.leaves
                  /\ trie'.leaves[home] = [subs |-> left, retain |-> NoRetain]
      BY <1>1, <1>3, <2>2, Arguments, UnsubscribeWild
    <3>2. DOMAIN left \subseteq Identities
      BY <1>3, <2>2 DEF TrieRanges, Delete
    <3> HIDE DEF left, home
    <3> QED
      BY <1>3, <2>2, <3>1, <3>2 DEF TrieRanges
  <2>3. CASE ~ IsWild(filter)
    <3>1. /\ trie'.leaves = trie.leaves
          /\ DOMAIN trie'.foliage \subseteq DOMAIN trie.foliage
          /\ \A topic \in DOMAIN trie.foliage \ {filter} : trie'.foliage[topic] = trie.foliage[topic]
          /\ filter \in DOMAIN trie'.foliage =>
               trie'.foliage[filter] = Delete(trie.foliage[filter], identity)
      BY <1>1, <1>3, <2>3, UnsubscribeExact
    <3>2. filter \in DOMAIN trie'.foliage => DOMAIN trie'.foliage[filter] \subseteq Identities
      BY <1>3, <3>1 DEF TrieRanges, Delete
    <3> QED
      BY <1>3, <3>1, <3>2 DEF TrieRanges
  <2> QED
    BY <2>1, <2>2, <2>3
<1> QED
  BY <1>1, <1>2, <1>4, <1>5 DEF IInv, RetainCounted

LEMMA PublishRetainIInv ==
  ASSUME IInv, NEW topic \in Topics, NEW packet \in Packets, PublishRetain(topic, packet)
  PROVE  IInv'
<1> DEFINE there == <<Levels(topic), topic>>
           kept  == Retained(trie)
<1>1. /\ trie' = AddRetain(trie, topic, packet)
      /\ exist' = (there \in kept)
      /\ Retain' = Retain + (IF exist' THEN 0 ELSE 1)
      /\ dropped' = dropped
  BY TopicAssumption, TrimmedIsLevels DEF PublishRetain, AddRetainExist
<1>2. /\ TrieShape(trie', Filters, Topics)
      /\ trie'.foliage = trie.foliage
      /\ Retained(trie') = kept \cup {there}
      /\ DOMAIN trie'.leaves = DOMAIN trie.leaves \cup {there}
      /\ trie'.leaves[there] = [subs |-> EmptyMap, retain |-> packet]
      /\ \A at \in DOMAIN trie.leaves \ {there} : trie'.leaves[at] = trie.leaves[at]
  BY <1>1, Arguments, AddRetainShape, NoRetainAssumption DEF IInv
<1>3. TrieRanges'
  <2>1. DOMAIN EmptyMap = {}
    BY DEF EmptyMap
  <2> HIDE DEF there
  <2> QED
    BY <1>2, <2>1 DEF IInv, TrieRanges
<1>4. IsFiniteSet(kept) /\ Retain = Cardinality(kept) + dropped /\ dropped \in Nat
  BY DEF IInv, RetainCounted
<1> HIDE DEF kept, there
<1>5. /\ IsFiniteSet(kept \cup {there})
      /\ Cardinality(kept \cup {there}) = Cardinality(kept) + (IF there \in kept THEN 0 ELSE 1)
  BY <1>4, FS_AddElement, FS_CardinalityType
<1>6. Cardinality(kept) \in Nat
  BY <1>4, FS_CardinalityType
<1>7. exist' \in BOOLEAN
  BY <1>1
<1>8. Retain' = Cardinality(kept \cup {there}) + dropped'
  <2>1. CASE there \in kept
    <3>1. exist' = TRUE
      BY <1>1, <2>1
    <3>2. Retain' = Retain + 0
      BY <1>1, <3>1
    <3> QED
      BY <1>1, <1>4, <1>5, <1>6, <2>1, <3>2
  <2>2. CASE there \notin kept
    <3>1. (there \in kept) = FALSE
      BY <2>2
    <3>2. Retain' = Retain + 1
      BY <1>1, <3>1
    <3> QED
      BY <1>1, <1>4, <1>5, <1>6, <2>2, <3>2
  <2> QED
    BY <2>1, <2>2
<1> QED
  BY <1>1, <1>2, <1>3, <1>4, <1>5, <1>7, <1>8 DEF IInv, RetainCounted

\* A removal is counted by the broker (Retain) or not, from a link (dropped).
LEMMA RemoveRetainIInv ==
  ASSUME IInv, NEW topic \in Topics, PublishEmptyRetain(topic) \/ LinkPublishRetain(topic)
  PROVE  IInv'
<1> DEFINE kept == Retained(trie)
           taken == IF RemovableFor(trie, topic) = {} THEN 0 ELSE 1
<1>1. /\ trie' \in RemoveRetainResults(trie, topic)
      /\ exist' \in BOOLEAN
      /\ \/ Retain' = Retain - taken /\ dropped' = dropped
         \/ Retain' = Retain /\ dropped' = dropped + taken
  BY DEF PublishEmptyRetain, LinkPublishRetain, RemoveRetain
<1>2. /\ IsFiniteSet(kept) /\ Cardinality(kept) \in Nat
      /\ Retain = Cardinality(kept) + dropped /\ dropped \in Nat
  BY FS_CardinalityType DEF IInv, RetainCounted
<1>3. CASE RemovableFor(trie, topic) = {}
  <2>1. trie' = trie /\ Retain' = Retain /\ dropped' = dropped
    BY <1>1, <1>2, <1>3 DEF RemoveRetainResults
  <2> QED
    BY <1>1, <2>1 DEF IInv, TrieRanges, RetainCounted
<1>4. CASE RemovableFor(trie, topic) # {}
  <2>1. PICK at \in RemovableFor(trie, topic) :
          /\ TrieShape(trie', Filters, Topics)
          /\ trie'.foliage = trie.foliage
          /\ Retained(trie') = kept \ {at}
          /\ DOMAIN trie'.leaves = DOMAIN trie.leaves
          /\ trie'.leaves[at] = NewLeaf
          /\ \A other \in DOMAIN trie.leaves \ {at} : trie'.leaves[other] = trie.leaves[other]
    BY <1>1, <1>4, Arguments, RemoveRetainShape DEF IInv
  <2>2. TrieRanges'
    <3>1. DOMAIN EmptyMap = {}
      BY DEF EmptyMap
    <3> QED
      BY <2>1, <3>1 DEF IInv, TrieRanges, NewLeaf
  <2>3. at \in kept
    BY DEF RemovableFor
  <2> HIDE DEF kept
  <2>4. IsFiniteSet(kept \ {at}) /\ Cardinality(kept \ {at}) = Cardinality(kept) - 1
    BY <1>2, <2>3, FS_RemoveElement
  <2>5. Retain' = Cardinality(kept \ {at}) + dropped' /\ dropped' \in Nat
    BY <1>1, <1>2, <1>4, <2>4
  <2> QED
    BY <1>1, <2>1, <2>2, <2>4, <2>5 DEF IInv, RetainCounted, kept
<1> QED
  BY <1>3, <1>4

LEMMA Invariance == Spec => []IInv
<1>1. IInv /\ [Next]_vars => IInv'
  <2> SUFFICES ASSUME IInv, [Next]_vars PROVE IInv'
    OBVIOUS
  <2>1. CASE UNCHANGED vars
    BY <2>1 DEF vars, IInv, TrieRanges, RetainCounted
  <2>2. CASE Next
    BY <2>2, SubscribeIInv, UnsubscribeIInv, PublishRetainIInv, RemoveRetainIInv DEF Next
  <2> QED
    BY <2>1, <2>2
<1> QED
  BY <1>1, InitIInv, PTL DEF Spec

(***************************************************************************)
(* Shape of the trie through every operation of trie.go.                   *)
(***************************************************************************)
THEOREM TypeCorrect == Spec => []TypeOK
<1>1. IInv => TypeOK
  <2> SUFFICES ASSUME IInv PROVE TypeOK
    OBVIOUS
  <2>1. /\ DOMAIN trie.foliage \subseteq Filters
        /\ BranchShape(trie.branches)
        /\ LeafShape(trie.branches, trie.leaves, Filters, Topics)
    BY DEF IInv, TrieShape
  <2>2. ASSUME NEW at \in DOMAIN trie.leaves
        PROVE  at[1] \in trie.branches \cup {<<>>} /\ at[2] \in Filters \cup Topics
    BY <2>1 DEF LeafShape
  <2>3. Retain \in Int /\ exist \in BOOLEAN /\ dropped \in Nat
    BY FS_CardinalityType DEF IInv, RetainCounted
  <2> QED
    BY <2>1, <2>2, <2>3 DEF TypeOK, IInv, TrieRanges, BranchShape
<1> QED
  BY <1>1, Invariance, PTL

(***************************************************************************)
(* CheckClean (branch.go:84) leaves no branch without a leaf in it or below *)
(* it.                                                                     *)
(***************************************************************************)
THEOREM BranchesLive == Spec => []NoDeadBranch
<1>1. IInv => NoDeadBranch
  BY DEF IInv, TrieShape, AllBranchesLive, NoDeadBranch
<1> QED
  BY <1>1, Invariance, PTL

(***************************************************************************)
(* ProcessPublish (processor.go:133) counts the retained messages and      *)
(* those that cluster links removed (cluster/processor.go:44).             *)
(***************************************************************************)
THEOREM RetainIsCounted == Spec => []RetainCounted
<1>1. IInv => RetainCounted
  BY DEF IInv
<1> QED
  BY <1>1, Invariance, PTL

-----------------------------------------------------------------------------
(* Matching                                                                *)

\* "#" can only be the last level of a filter.
LEMMA MatchesIs ==
  ASSUME NEW filter, WellFormed(filter), NEW topic, WellFormed(topic)
  PROVE  LET want == Levels(filter)
             have == Levels(topic)
         IN  LevelsMatch(filter, topic) <=>
               IF LastOf(filter) = Hash
               THEN /\ Len(have) >= Len(want) - 1
                    /\ \A i \in 1 .. (Len(want) - 1) : want[i] \in {Plus, have[i]}
               ELSE /\ Len(have) = Len(want)
                    /\ \A i \in 1 .. Len(want) : want[i] \in {Plus, have[i]}
<1>1. LastOf(Levels(filter)) = LastOf(filter)
  BY LevelsOfWellFormed
<1>2. CASE LastOf(filter) = Hash
  BY <1>1, <1>2 DEF LevelsMatch, Matches
<1>3. CASE LastOf(filter) # Hash
  BY <1>1, <1>3 DEF LevelsMatch, Matches
<1> QED
  BY <1>2, <1>3

\* The levels of a topic are the topic without its leading "/".
LEMMA LevelsAre ==
  ASSUME NEW topic, WellFormed(topic)
  PROVE  /\ Len(topic) \in Nat \ {0}
         /\ LeadingSlash(topic) => /\ Len(Levels(topic)) = Len(topic) - 1
                                  /\ \A i \in 1 .. (Len(topic) - 1) : Levels(topic)[i] = topic[i + 1]
         /\ ~ LeadingSlash(topic) => Levels(topic) = topic
<1>1. /\ topic \in Seq(STRING) /\ topic # <<>> /\ Len(topic) \in Nat \ {0}
      /\ TrimSpace(topic[1]) = topic[1]
  BY EmptySeq DEF WellFormed
<1>2. /\ Len(Tail(topic)) = Len(topic) - 1
      /\ \A i \in 1 .. Len(Tail(topic)) : Tail(topic)[i] = topic[i + 1]
  BY <1>1, HeadTailProperties
<1> QED
  BY <1>1, <1>2 DEF Levels, LeadingSlash

\* Unless the leading "/" tells them apart, a filter matches a topic, and is as
\* much longer than it, when its levels are.
LEMMA MatchesByLevels ==
  ASSUME NEW filter, WellFormed(filter), NEW topic, WellFormed(topic), ~ SlashApart(filter, topic)
  PROVE  /\ Matches(filter, topic) <=> LevelsMatch(filter, topic)
         /\ LevelsMatch(filter, topic) =>
              (~ OfParent(filter, topic) <=>
                (LastOf(filter) = Hash => Len(Levels(topic)) >= Len(Levels(filter))))
<1> DEFINE n == Len(filter)
           m == Len(topic)
           want == Levels(filter)
           have == Levels(topic)
<1>1. n \in Nat \ {0} /\ m \in Nat \ {0} /\ Len(want) \in Nat \ {0} /\ Len(have) \in Nat \ {0}
  BY LevelsAre, LevelsOfWellFormed
<1>2. Matches(filter, topic) <=>
        IF LastOf(filter) = Hash
        THEN m >= n - 1 /\ \A i \in 1 .. (n - 1) : filter[i] \in {Plus, topic[i]}
        ELSE m = n /\ \A i \in 1 .. n : filter[i] \in {Plus, topic[i]}
  BY DEF Matches
<1>3. LevelsMatch(filter, topic) <=>
        IF LastOf(filter) = Hash
        THEN /\ Len(have) >= Len(want) - 1
             /\ \A i \in 1 .. (Len(want) - 1) : want[i] \in {Plus, have[i]}
        ELSE Len(have) = Len(want) /\ \A i \in 1 .. Len(want) : want[i] \in {Plus, have[i]}
  BY MatchesIs
<1>4. OfParent(filter, topic) <=> LastOf(filter) = Hash /\ m = n - 1
  BY DEF OfParent
<1>5. CASE filter[1] = Hash
  <2>1. n = 1 /\ ~ LeadingSlash(filter)
    <3>1. \A i \in 1 .. (n - 1) : filter[i] # Hash
      BY DEF WellFormed
    <3> HIDE DEF n
    <3>2. n = 1
      BY <1>1, <1>5, <3>1
    <3> QED
      BY <1>5, <3>2 DEF LeadingSlash, Hash, Blank
  <2>2. Len(want) = 1 /\ LastOf(filter) = Hash
    BY <1>5, <2>1, LevelsAre DEF LastOf
  <2> HIDE DEF n, m, want, have
  <2>3. /\ 1 .. (n - 1) = {} /\ 1 .. (Len(want) - 1) = {} /\ m >= n - 1 /\ m # n - 1
        /\ Len(have) >= Len(want) - 1 /\ Len(have) >= Len(want)
    BY <1>1, <2>1, <2>2
  <2>4. Matches(filter, topic) /\ LevelsMatch(filter, topic) /\ ~ OfParent(filter, topic)
    BY <1>2, <1>3, <1>4, <2>2, <2>3
  <2> QED
    BY <2>3, <2>4 DEF want, have
<1>6. CASE filter[1] # Hash /\ ~ LeadingSlash(filter) /\ ~ LeadingSlash(topic)
  <2>1. want = filter /\ have = topic
    BY <1>6, LevelsAre
  <2> QED
    BY <1>1, <1>2, <1>3, <1>4, <2>1
<1>7. CASE filter[1] # Hash /\ LeadingSlash(filter) /\ LeadingSlash(topic)
  <2>1. /\ Len(want) = n - 1 /\ \A i \in 1 .. (n - 1) : want[i] = filter[i + 1]
        /\ Len(have) = m - 1 /\ \A i \in 1 .. (m - 1) : have[i] = topic[i + 1]
        /\ filter[1] = topic[1]
    BY <1>7, LevelsAre DEF LeadingSlash
  <2> HIDE DEF n, m, want, have
  <2>2. ASSUME NEW k \in 1 .. n, m >= k
        PROVE  (\A i \in 1 .. k : filter[i] \in {Plus, topic[i]}) <=>
                 \A i \in 1 .. (k - 1) : want[i] \in {Plus, have[i]}
    <3>1. ASSUME \A i \in 1 .. k : filter[i] \in {Plus, topic[i]}, NEW i \in 1 .. (k - 1)
          PROVE  want[i] \in {Plus, have[i]}
      <4>1. i + 1 \in 1 .. k /\ i \in 1 .. (n - 1) /\ i \in 1 .. (m - 1)
        BY <1>1, <2>2
      <4> QED
        BY <2>1, <3>1, <4>1
    <3>2. ASSUME \A i \in 1 .. (k - 1) : want[i] \in {Plus, have[i]}, NEW i \in 1 .. k
          PROVE  filter[i] \in {Plus, topic[i]}
      <4>1. CASE i = 1
        BY <2>1, <4>1
      <4>2. CASE i # 1
        <5>1. /\ i - 1 \in 1 .. (k - 1) /\ i - 1 \in 1 .. (n - 1) /\ i - 1 \in 1 .. (m - 1)
              /\ (i - 1) + 1 = i
          BY <1>1, <2>2, <4>2
        <5>2. want[i - 1] = filter[i] /\ have[i - 1] = topic[i]
          BY <2>1, <5>1
        <5> QED
          BY <3>2, <5>1, <5>2
      <4> QED
        BY <4>1, <4>2
    <3> QED
      BY <3>1, <3>2
  <2>3. CASE LastOf(filter) = Hash
    <3>1. n > 1
      BY <1>1, <2>1
    <3>2. n - 1 \in 1 .. n
      BY <1>1, <3>1
    <3>3. m >= n - 1 => ((\A i \in 1 .. (n - 1) : filter[i] \in {Plus, topic[i]}) <=>
                          \A i \in 1 .. (n - 1 - 1) : want[i] \in {Plus, have[i]})
      BY <2>2, <3>2
    <3>4. /\ Len(have) >= Len(want) - 1 <=> m >= n - 1
          /\ Len(want) - 1 = n - 1 - 1
          /\ (Len(have) >= Len(want)) <=> m >= n
      BY <1>1, <2>1
    <3>5. m >= n - 1 => (m # n - 1 <=> m >= n)
      BY <1>1
    <3>6. Matches(filter, topic) <=> LevelsMatch(filter, topic)
      BY <1>2, <1>3, <2>3, <3>3, <3>4
    <3>7. LevelsMatch(filter, topic) => m >= n - 1
      BY <1>3, <2>3, <3>4
    <3> QED
      BY <1>4, <2>3, <3>4, <3>5, <3>6, <3>7 DEF want, have
  <2>4. CASE LastOf(filter) # Hash
    <3>1. n \in 1 .. n /\ (m = n => m >= n) /\ (Len(have) = Len(want) <=> m = n)
      BY <1>1, <2>1
    <3>2. m = n => ((\A i \in 1 .. n : filter[i] \in {Plus, topic[i]}) <=>
                     \A i \in 1 .. (n - 1) : want[i] \in {Plus, have[i]})
      BY <2>2, <3>1
    <3> QED
      BY <1>2, <1>3, <1>4, <2>1, <2>4, <3>1, <3>2
  <2> QED
    BY <2>3, <2>4
<1> QED
  BY <1>5, <1>6, <1>7 DEF SlashApart

\* A filter without wildcards matches itself and nothing else.
LEMMA ExactMatches ==
  ASSUME NEW filter, WellFormed(filter), ~ IsWild(filter), NEW topic, WellFormed(topic)
  PROVE  Matches(filter, topic) <=> filter = topic
<1>1. /\ filter \in Seq(STRING) /\ topic \in Seq(STRING)
      /\ Len(filter) \in Nat \ {0} /\ DOMAIN filter = 1 .. Len(filter)
  BY LevelsAre DEF WellFormed
<1>2. \A i \in 1 .. Len(filter) : filter[i] \notin {Hash, Plus}
  BY <1>1 DEF IsWild
<1>3. LastOf(filter) # Hash
  BY <1>1, <1>2 DEF LastOf
<1>4. Matches(filter, topic) <=>
        Len(topic) = Len(filter) /\ \A i \in 1 .. Len(filter) : filter[i] = topic[i]
  BY <1>2, <1>3 DEF Matches
<1> QED
  BY <1>1, <1>4, SeqEqual

\* SearchLeaves meets the branch of a filter exactly when the filter matches,
\* "#" standing for at least one level ...
LEMMA HomeFound ==
  ASSUME NEW filter, WellFormed(filter), NEW topic, WellFormed(topic), ~ IsWild(topic),
         NEW branches, NEW t, t.branches = branches, Levels(filter) \in branches
  PROVE  Levels(filter) \in FoundFor(t, topic) <=>
           /\ LevelsMatch(filter, topic)
           /\ LastOf(filter) = Hash => Len(Levels(topic)) >= Len(Levels(filter))
<1> DEFINE want == Levels(filter)
           have == Levels(topic)
           n == Len(want)
           m == Len(have)
<1>1. /\ n \in Nat \ {0} /\ \A i \in 1 .. (n - 1) : want[i] # Hash
      /\ want[n] = LastOf(filter)
  BY LevelsOfWellFormed DEF LastOf
<1>2. m \in Nat \ {0} /\ \A i \in 1 .. m : have[i] \notin {Hash, Plus}
  BY LevelsOfWellFormed, NotWildLevels
<1>3. want \in FoundFor(t, topic) <=>
        /\ n <= m
        /\ \A i \in 1 .. (n - 1) : want[i] \in {Plus, have[i]} /\ want[i] # Hash
        /\ \/ want[n] = Hash
           \/ n = m /\ want[n] \in {Plus, have[n]}
  BY DEF FoundFor
<1>4. LevelsMatch(filter, topic) <=>
        IF want[n] = Hash
        THEN m >= n - 1 /\ \A i \in 1 .. (n - 1) : want[i] \in {Plus, have[i]}
        ELSE m = n /\ \A i \in 1 .. n : want[i] \in {Plus, have[i]}
  BY <1>1, MatchesIs
<1>5. Plus # Hash
  BY DEF Plus, Hash
<1> HIDE DEF want, have, n, m
<1>6. CASE want[n] = Hash
  <2>1. n <= m => m >= n - 1
    BY <1>1, <1>2
  <2> QED
    BY <1>1, <1>2, <1>3, <1>4, <1>6, <2>1 DEF want, have, n, m
<1>7. CASE want[n] # Hash
  <2>1. n = m => ((\A i \in 1 .. n : want[i] \in {Plus, have[i]}) <=>
                    /\ \A i \in 1 .. (n - 1) : want[i] \in {Plus, have[i]}
                    /\ want[n] \in {Plus, have[n]})
    BY <1>1
  <2>2. want \in FoundFor(t, topic) <=> LevelsMatch(filter, topic)
    BY <1>1, <1>2, <1>3, <1>4, <1>7, <2>1
  <2> QED
    BY <1>1, <1>7, <2>2 DEF want, have, n, m
<1> QED
  BY <1>6, <1>7

\* ... and the parent of a "#" branch when it stands for none.
LEMMA ParentFound ==
  ASSUME NEW filter, WellFormed(filter), LastOf(filter) = Hash,
         NEW topic, WellFormed(topic), ~ IsWild(topic),
         NEW t, ParentOf(Levels(filter)) \in t.branches,
         ParentOf(Levels(filter)) # <<>>
  PROVE  /\ Len(Levels(filter)) > 1
         /\ ParentOf(Levels(filter)) \in FoundFor(t, topic) <=>
              /\ Len(Levels(topic)) = Len(Levels(filter)) - 1
              /\ \A i \in 1 .. (Len(Levels(filter)) - 1) :
                   Levels(filter)[i] \in {Plus, Levels(topic)[i]}
<1> DEFINE want == Levels(filter)
           have == Levels(topic)
           path == ParentOf(want)
           n == Len(want)
           m == Len(have)
<1>1. /\ want \in Paths /\ n \in Nat \ {0} /\ \A i \in 1 .. (n - 1) : want[i] # Hash
  BY LevelsOfWellFormed
<1>2. m \in Nat \ {0}
  BY LevelsOfWellFormed
<1>3. path \in Paths /\ Len(path) = n - 1
  BY LeafPathsAre
<1>4. n > 1
  <2>1. Len(path) \in Nat \ {0}
    BY <1>3, EmptySeq DEF Paths
  <2>2. n - 1 \in Nat \ {0}
    BY <1>3, <2>1
  <2> HIDE DEF n
  <2> QED
    BY <1>1, <2>2
<1>5. \A i \in 1 .. (n - 1) : path[i] = want[i]
  BY <1>1, <1>4, ParentIsAbove
<1>6. path \in FoundFor(t, topic) <=>
        /\ n - 1 <= m
        /\ \A i \in 1 .. (n - 1 - 1) : path[i] \in {Plus, have[i]} /\ path[i] # Hash
        /\ \/ path[n - 1] = Hash
           \/ n - 1 = m /\ path[n - 1] \in {Plus, have[n - 1]}
  BY <1>3 DEF FoundFor
<1> HIDE DEF want, have, path, n, m
<1>7. n - 1 \in 1 .. (n - 1) /\ \A i \in 1 .. (n - 1 - 1) : i \in 1 .. (n - 1)
  BY <1>1, <1>4
<1>8. path \in FoundFor(t, topic) <=>
        n - 1 = m /\ \A i \in 1 .. (n - 1) : want[i] \in {Plus, have[i]}
  <2>1. path[n - 1] # Hash /\ \A i \in 1 .. (n - 1 - 1) : path[i] # Hash
    BY <1>1, <1>5, <1>7
  <2>2. (\A i \in 1 .. (n - 1) : want[i] \in {Plus, have[i]}) <=>
          /\ \A i \in 1 .. (n - 1 - 1) : path[i] \in {Plus, have[i]}
          /\ path[n - 1] \in {Plus, have[n - 1]}
    BY <1>1, <1>4, <1>5, <1>7
  <2> QED
    BY <1>1, <1>2, <1>6, <2>1, <2>2
<1> QED
  BY <1>4, <1>8 DEF want, have, path, n, m

-----------------------------------------------------------------------------
(* Subscribers and retained messages                                       *)

LEMMA SubscriptionsAre ==
  ASSUME NEW filter \in Filters, NEW identity \in DOMAIN SubsOf(trie, filter)
  PROVE  /\ <<filter, identity>> \in DOMAIN Subscriptions
         /\ Subscriptions[<<filter, identity>>] = SubsOf(trie, filter)[identity]
<1>1. SubsOf(trie, filter) # EmptyMap
  BY DEF EmptyMap
<1>2. filter \in Filed
  BY <1>1 DEF Filed
<1>3. <<filter, identity>> \in UNION {{f} \X DOMAIN SubsOf(trie, f) : f \in Filed}
  BY <1>2
<1> QED
  BY <1>3 DEF Subscriptions

LEMMA SubscriptionIs ==
  ASSUME NEW key \in DOMAIN Subscriptions
  PROVE  /\ key[1] \in Filters /\ key[2] \in DOMAIN SubsOf(trie, key[1])
         /\ key = <<key[1], key[2]>>
         /\ Subscriptions[key] = SubsOf(trie, key[1])[key[2]]
  BY DEF Subscriptions, Filed

(***************************************************************************)
(* Subscribers (trie.go:75) misses no client whose filter matches, unless  *)
(* only a leading "/" keeps them apart: when "#" stands for no level, the  *)
(* copy in the parent branch is found.                                     *)
(***************************************************************************)
THEOREM EverySubscriberFound == Spec => []NoSubscriberMissed
<1>1. IInv => NoSubscriberMissed
  <2> SUFFICES ASSUME IInv, NEW topic \in Topics, NEW key \in DOMAIN Subscriptions,
                      Matches(key[1], topic), ~ SlashApart(key[1], topic)
               PROVE  <<key[2], Subscriptions[key]>> \in Subscribers(trie, topic)
    BY DEF NoSubscriberMissed
  <2> DEFINE filter == key[1]
             i == key[2]
             path == Levels(filter)
             home == <<path, filter>>
             parent == <<ParentOf(path), filter>>
             leaves == {at \in DOMAIN trie.leaves : at[1] \in FoundFor(trie, topic)}
             maps == {SubsOf(trie, topic)} \cup {trie.leaves[at].subs : at \in leaves}
  <2>1. /\ filter \in Filters /\ i \in DOMAIN SubsOf(trie, filter)
        /\ Subscriptions[key] = SubsOf(trie, filter)[i]
    BY SubscriptionIs
  <2>2. WellFormed(filter) /\ WellFormed(topic) /\ ~ IsWild(topic)
    BY <2>1, FilterAssumption, TopicAssumption
  <2>3. Subscribers(trie, topic) = UNION {{<<j, m[j]>> : j \in DOMAIN m} : m \in maps}
    BY <2>2 DEF Subscribers
  <2>4. SUFFICES \E m \in maps : i \in DOMAIN m /\ m[i] = SubsOf(trie, filter)[i]
    BY <2>1, <2>3
  <2>5. CASE ~ IsWild(filter)
    BY <2>1, <2>2, <2>5, ExactMatches
  <2>6. CASE IsWild(filter)
    <3>1. LevelsMatch(filter, topic)
      BY <2>2, MatchesByLevels
    <3>2. home \in DOMAIN trie.leaves /\ SubsOf(trie, filter) = trie.leaves[home].subs
      BY <2>1, <2>2, <2>6, SubsOfWild DEF EmptyMap
    <3>3. /\ LeafShape(trie.branches, trie.leaves, Filters, Topics)
          /\ ParentHolds(trie.leaves, Filters)
      BY DEF IInv, TrieShape
    <3>4. path \in trie.branches
      BY <2>2, <3>2, <3>3 DEF LeafShape, WellFormed
    <3>5. CASE LastOf(filter) = Hash => Len(Levels(topic)) >= Len(path)
      <4>1. path \in FoundFor(trie, topic)
        BY <2>2, <3>1, <3>4, <3>5, HomeFound
      <4>2. trie.leaves[home].subs \in maps
        BY <3>2, <4>1
      <4> QED
        BY <2>1, <3>2, <4>2
    <3>6. CASE LastOf(filter) = Hash /\ ~ (Len(Levels(topic)) >= Len(path))
      <4>1. /\ parent \in DOMAIN trie.leaves
            /\ i \in DOMAIN trie.leaves[parent].subs
            /\ trie.leaves[parent].subs[i] = trie.leaves[home].subs[i]
        BY <2>1, <3>2, <3>3, <3>6 DEF ParentHolds
      <4>2. Len(Levels(topic)) \in Nat \ {0} /\ Len(path) \in Nat \ {0}
        BY <2>2, LevelsOfWellFormed
      <4>3. /\ Len(Levels(topic)) >= Len(path) - 1
            /\ \A j \in 1 .. (Len(path) - 1) : path[j] \in {Plus, Levels(topic)[j]}
        BY <2>2, <3>1, <3>6, MatchesIs
      <4>4. Len(Levels(topic)) = Len(path) - 1
        <5> DEFINE m == Len(Levels(topic))
                   n == Len(path)
        <5>1. m \in Nat /\ n \in Nat /\ m >= n - 1 /\ ~ (m >= n)
          BY <3>6, <4>2, <4>3
        <5> HIDE DEF m, n
        <5>2. m = n - 1
          BY <5>1
        <5> QED
          BY <5>2 DEF m, n
      <4>5. ParentOf(path) # <<>>
        <5>1. Len(ParentOf(path)) = Len(path) - 1
          BY <2>2, <3>6, LeafPathsAre
        <5>2. Len(ParentOf(path)) # 0
          BY <4>2, <4>4, <5>1
        <5> QED
          BY <5>2, EmptySeq
      <4>6. ParentOf(path) \in trie.branches
        BY <3>3, <4>1, <4>5 DEF LeafShape
      <4>7. ParentOf(path) \in FoundFor(trie, topic)
        BY <2>2, <3>6, <4>3, <4>4, <4>5, <4>6, ParentFound
      <4>8. trie.leaves[parent].subs \in maps
        BY <4>1, <4>7
      <4> QED
        BY <3>2, <4>1, <4>8
    <3> QED
      BY <3>5, <3>6
  <2> QED
    BY <2>5, <2>6
<1> QED
  BY <1>1, Invariance, PTL

(***************************************************************************)
(* Subscribers (trie.go:75) serves the holders of matching subscriptions,  *)
(* and two kinds of strangers: those whose filter matches but for a leading*)
(* "/", and those in the leaf of a "#" filter in the parent branch.        *)
(***************************************************************************)
THEOREM StrangersAreKnown == Spec => []OnlyKnownStrangers
<1>1. IInv => OnlyKnownStrangers
  <2> SUFFICES ASSUME IInv, NEW topic \in Topics, NEW pair \in Subscribers(trie, topic)
               PROVE  \/ Subscribed(pair, topic) \/ SlashIgnored(pair, topic)
                      \/ LeftBehind(pair, topic)
    BY DEF OnlyKnownStrangers
  <2> DEFINE leaves == {at \in DOMAIN trie.leaves : at[1] \in FoundFor(trie, topic)}
             maps == {SubsOf(trie, topic)} \cup {trie.leaves[at].subs : at \in leaves}
  <2>1. /\ WellFormed(topic) /\ ~ IsWild(topic)
        /\ DOMAIN trie.foliage \subseteq Filters
        /\ BranchShape(trie.branches)
        /\ LeafShape(trie.branches, trie.leaves, Filters, Topics)
    BY TopicAssumption DEF IInv, TrieShape
  <2>2. Subscribers(trie, topic) = UNION {{<<j, m[j]>> : j \in DOMAIN m} : m \in maps}
    BY <2>1 DEF Subscribers
  <2>3. PICK m \in maps : \E i \in DOMAIN m : pair = <<i, m[i]>>
    BY <2>2
  <2>4. PICK i \in DOMAIN m : pair = <<i, m[i]>>
    BY <2>3
  <2>5. SUFFICES ASSUME NEW filter \in Filters, m = SubsOf(trie, filter),
                        \/ Matches(filter, topic)
                        \/ SlashApart(filter, topic) /\ LevelsMatch(filter, topic)
                 PROVE  Subscribed(pair, topic) \/ SlashIgnored(pair, topic)
    <3>1. CASE m = SubsOf(trie, topic)
      <4>1. topic \in DOMAIN trie.foliage
        BY <2>1, <2>4, <3>1 DEF SubsOf, EmptyMap
      <4>2. topic \in Filters /\ Matches(topic, topic)
        BY <2>1, <4>1, ExactMatches
      <4> QED
        BY <2>5, <3>1, <4>2
    <3>2. CASE m # SubsOf(trie, topic)
      <4>1. PICK at \in leaves : m = trie.leaves[at].subs
        BY <2>3, <3>2
      <4>2. trie.leaves[at].subs # EmptyMap
        BY <2>4, <4>1 DEF EmptyMap
      <4>3. HoldsSubscribers(at, trie.leaves[at], Filters)
        BY <2>1, <4>2 DEF LeafShape, HoldsRetained
      <4> DEFINE filter == at[2]
                 path == Levels(filter)
      <4>4. /\ filter \in Filters /\ IsWild(filter) /\ WellFormed(filter)
            /\ at[1] \in LeafPathsOf(filter) /\ at = <<at[1], filter>>
        BY <2>1, <4>3, FilterAssumption DEF HoldsSubscribers, LeafShape
      <4>5. at[1] \in trie.branches /\ at[1] \in FoundFor(trie, topic)
        BY DEF FoundFor
      <4>6. CASE at[1] = path
        <5>1. LevelsMatch(filter, topic)
          BY <2>1, <4>4, <4>5, <4>6, HomeFound
        <5>2. m = SubsOf(trie, filter)
          BY <4>1, <4>4, <4>6, SubsOfWild
        <5>3. SlashApart(filter, topic) \/ Matches(filter, topic)
          BY <2>1, <4>4, <5>1, MatchesByLevels
        <5> QED
          BY <2>5, <4>4, <5>1, <5>2, <5>3
      <4>7. CASE at[1] # path
        <5>1. at[1] = ParentOf(path) /\ LastOf(filter) = Hash
          BY <4>4, <4>7, LeafPathsAre
        <5>2. ParentOf(path) # <<>>
          BY <2>1, <4>5, <5>1 DEF BranchShape
        <5>3. /\ Len(path) > 1
              /\ Len(Levels(topic)) = Len(path) - 1
              /\ \A j \in 1 .. (Len(path) - 1) : path[j] \in {Plus, Levels(topic)[j]}
          BY <2>1, <4>4, <4>5, <5>1, <5>2, ParentFound
        <5>4. /\ Len(at[1]) = Len(path) - 1
              /\ \A j \in 1 .. (Len(path) - 1) : at[1][j] = path[j]
          BY <4>4, <5>1, <5>3, LevelsOfWellFormed, ParentIsAbove
        <5>5. LastOf(at[1]) # Hash
          <6>1. /\ Len(path) \in Nat /\ \A j \in 1 .. (Len(path) - 1) : path[j] # Hash
            BY <4>4, LevelsOfWellFormed
          <6> HIDE DEF path
          <6>2. Len(path) - 1 \in 1 .. (Len(path) - 1)
            BY <5>3, <6>1
          <6> QED
            BY <5>4, <6>1, <6>2 DEF LastOf
        <5>6. Matches(at[1], Levels(topic))
          BY <5>3, <5>4, <5>5 DEF Matches
        <5>7. at[1] = ParentOf(HomeOf(at[2])) /\ LastOf(at[2]) = Hash /\ at[1] # <<>>
          BY <4>4, <5>1, <5>2, HomeIsLevels
        <5>8. \E j \in DOMAIN trie.leaves[at].subs : pair = <<j, trie.leaves[at].subs[j]>>
          BY <2>4, <4>1
        <5> QED
          BY <5>6, <5>7, <5>8 DEF LeftBehind
      <4> QED
        BY <4>6, <4>7
    <3> QED
      BY <3>1, <3>2
  <2>6. /\ <<filter, i>> \in DOMAIN Subscriptions
        /\ Subscriptions[<<filter, i>>] = m[i]
    BY <2>5, SubscriptionsAre
  <2>7. pair = <<(<<filter, i>>)[2], Subscriptions[<<filter, i>>]>> /\ (<<filter, i>>)[1] = filter
    BY <2>4, <2>6
  <2> QED
    BY <2>5, <2>6, <2>7 DEF Subscribed, SlashIgnored
<1> QED
  BY <1>1, Invariance, PTL

(***************************************************************************)
(* SearchRetain (trie.go:135) returns the retained messages of exactly the *)
(* topics a filter matches, "#" standing for at least one level; when only *)
(* one of them has a leading "/", of topics whose levels match.            *)
(***************************************************************************)
THEOREM RetainedAreFound == Spec => []RetainedFound
<1>1. IInv => RetainedFound
  <2> SUFFICES ASSUME IInv, NEW filter \in Filters, NEW at \in Retained(trie)
               PROVE  IF SlashApart(filter, at[2])
                      THEN at \in SearchRetain(trie, filter) => LevelsMatch(filter, at[2])
                      ELSE at \in SearchRetain(trie, filter) <=>
                             Matches(filter, at[2]) /\ ~ OfParent(filter, at[2])
    BY DEF RetainedFound
  <2> DEFINE topic == at[2]
             want == Levels(filter)
             have == Levels(topic)
             n == Len(want)
             m == Len(have)
  <2>1. /\ topic \in Topics /\ at[1] = have /\ at \in DOMAIN trie.leaves
    BY RetainedAre DEF IInv
  <2>2. WellFormed(filter) /\ WellFormed(topic)
    BY <2>1, FilterAssumption, TopicAssumption
  <2>3. at[1] \in trie.branches
    <3>1. LeafShape(trie.branches, trie.leaves, Filters, Topics)
      BY DEF IInv, TrieShape
    <3> QED
      BY <2>1, <2>2, <3>1 DEF LeafShape, WellFormed
  <2>4. n \in Nat \ {0} /\ m \in Nat \ {0}
    BY <2>2, LevelsOfWellFormed
  <2>5. RetainReach(filter, have) <=>
          IF LastOf(filter) = Hash
          THEN m > n - 1 /\ \A i \in 1 .. (n - 1) : want[i] \in {Plus, have[i]}
          ELSE m = n /\ \A i \in 1 .. n : want[i] \in {Plus, have[i]}
    BY <2>2, HashIsLast DEF RetainReach
  <2>6. LevelsMatch(filter, topic) <=>
          IF LastOf(filter) = Hash
          THEN m >= n - 1 /\ \A i \in 1 .. (n - 1) : want[i] \in {Plus, have[i]}
          ELSE m = n /\ \A i \in 1 .. n : want[i] \in {Plus, have[i]}
    BY <2>2, MatchesIs
  <2> HIDE DEF want, have, n, m
  <2>7. (m > n - 1) <=> (m >= n - 1 /\ m >= n)
    BY <2>4
  <2>8. at \in SearchRetain(trie, filter) <=>
          LevelsMatch(filter, topic) /\ (LastOf(filter) = Hash => m >= n)
    BY <2>1, <2>3, <2>5, <2>6, <2>7 DEF SearchRetain
  <2>9. ~ SlashApart(filter, topic) =>
          /\ Matches(filter, topic) <=> LevelsMatch(filter, topic)
          /\ LevelsMatch(filter, topic) =>
               (~ OfParent(filter, topic) <=> (LastOf(filter) = Hash => m >= n))
    BY <2>2, MatchesByLevels DEF want, have, n, m
  <2> QED
    BY <2>8, <2>9
<1> QED
  BY <1>1, Invariance, PTL

-----------------------------------------------------------------------------
(* The refinement of TopicStore                                            *)

SubscriptionsIn(t) ==
  LET filed == {filter \in Filters : SubsOf(t, filter) # EmptyMap}
      keys  == UNION {{filter} \X DOMAIN SubsOf(t, filter) : filter \in filed}
  IN  [key \in keys |-> SubsOf(t, key[1])[key[2]]]

KeptIn(t) ==
  [topic \in {at[2] : at \in Retained(t)} |-> t.leaves[<<Trimmed(topic), topic>>].retain]

LEMMA MappedState ==
  /\ Subscriptions = SubscriptionsIn(trie) /\ Subscriptions' = SubscriptionsIn(trie')
  /\ Kept = KeptIn(trie) /\ Kept' = KeptIn(trie')
  BY DEF Subscriptions, Filed, Kept, SubscriptionsIn, KeptIn

LEMMA KeysIn ==
  ASSUME NEW t
  PROVE  /\ \A key : key \in DOMAIN SubscriptionsIn(t) <=>
              /\ key = <<key[1], key[2]>> /\ key[1] \in Filters
              /\ key[2] \in DOMAIN SubsOf(t, key[1])
         /\ SubscriptionsIn(t) = [key \in DOMAIN SubscriptionsIn(t) |-> SubsOf(t, key[1])[key[2]]]
<1> DEFINE filed == {filter \in Filters : SubsOf(t, filter) # EmptyMap}
           keys  == UNION {{filter} \X DOMAIN SubsOf(t, filter) : filter \in filed}
<1>1. SubscriptionsIn(t) = [key \in keys |-> SubsOf(t, key[1])[key[2]]]
  BY DEF SubscriptionsIn
<1>2. ASSUME NEW key \in keys
      PROVE  key = <<key[1], key[2]>> /\ key[1] \in Filters /\ key[2] \in DOMAIN SubsOf(t, key[1])
  OBVIOUS
<1>3. ASSUME NEW filter \in Filters, NEW i \in DOMAIN SubsOf(t, filter)
      PROVE  <<filter, i>> \in keys
  <2>1. SubsOf(t, filter) # EmptyMap
    BY DEF EmptyMap
  <2> QED
    BY <2>1
<1> HIDE DEF keys
<1> QED
  BY <1>1, <1>2, <1>3

LEMMA SubscriptionsChange ==
  ASSUME NEW t, NEW next
  PROVE  /\ (\A filter \in Filters : SubsOf(next, filter) = SubsOf(t, filter))
              => SubscriptionsIn(next) = SubscriptionsIn(t)
         /\ \A filter \in Filters : \A i, s :
              (\A other \in Filters :
                 SubsOf(next, other) = IF other = filter THEN Put(SubsOf(t, filter), i, s)
                                                         ELSE SubsOf(t, other))
              => SubscriptionsIn(next) = Put(SubscriptionsIn(t), <<filter, i>>, s)
         /\ \A filter \in Filters : \A i :
              (\A other \in Filters :
                 SubsOf(next, other) = IF other = filter THEN Delete(SubsOf(t, filter), i)
                                                         ELSE SubsOf(t, other))
              => SubscriptionsIn(next) = Delete(SubscriptionsIn(t), <<filter, i>>)
<1> DEFINE old == SubscriptionsIn(t)
           new == SubscriptionsIn(next)
<1>1. /\ \A key : key \in DOMAIN old <=>
           key = <<key[1], key[2]>> /\ key[1] \in Filters /\ key[2] \in DOMAIN SubsOf(t, key[1])
      /\ old = [key \in DOMAIN old |-> SubsOf(t, key[1])[key[2]]]
  BY KeysIn
<1>2. /\ \A key : key \in DOMAIN new <=>
           key = <<key[1], key[2]>> /\ key[1] \in Filters /\ key[2] \in DOMAIN SubsOf(next, key[1])
      /\ new = [key \in DOMAIN new |-> SubsOf(next, key[1])[key[2]]]
  BY KeysIn
<1> HIDE DEF old, new
<1>3. ASSUME \A filter \in Filters : SubsOf(next, filter) = SubsOf(t, filter)
      PROVE  new = old
  <2>1. DOMAIN new = DOMAIN old
    BY <1>1, <1>2, <1>3
  <2>2. \A key \in DOMAIN new : SubsOf(next, key[1]) = SubsOf(t, key[1])
    BY <1>2, <1>3
  <2> QED
    BY <1>1, <1>2, <2>1, <2>2
<1>4. ASSUME NEW filter \in Filters, NEW i, NEW s,
             \A other \in Filters :
               SubsOf(next, other) = IF other = filter THEN Put(SubsOf(t, filter), i, s)
                                                       ELSE SubsOf(t, other)
      PROVE  new = Put(old, <<filter, i>>, s)
  <2>1. DOMAIN new = DOMAIN old \cup {<<filter, i>>}
    <3>1. DOMAIN Put(SubsOf(t, filter), i, s) = DOMAIN SubsOf(t, filter) \cup {i}
      BY DEF Put
    <3>2. ASSUME NEW key \in DOMAIN new PROVE key \in DOMAIN old \cup {<<filter, i>>}
      BY <1>1, <1>2, <1>4, <3>1
    <3>3. ASSUME NEW key \in DOMAIN old PROVE key \in DOMAIN new
      BY <1>1, <1>2, <1>4, <3>1
    <3>4. <<filter, i>> \in DOMAIN new
      BY <1>2, <1>4, <3>1
    <3> QED
      BY <3>2, <3>3, <3>4
  <2>2. ASSUME NEW key \in DOMAIN new
        PROVE  new[key] = IF key = <<filter, i>> THEN s ELSE old[key]
    <3>1. key = <<key[1], key[2]>> /\ key[1] \in Filters /\ new[key] = SubsOf(next, key[1])[key[2]]
      BY <1>2
    <3>2. CASE key = <<filter, i>>
      BY <1>4, <3>1, <3>2 DEF Put
    <3>3. CASE key # <<filter, i>>
      <4>1. key \in DOMAIN old /\ old[key] = SubsOf(t, key[1])[key[2]]
        BY <1>1, <2>1, <3>3
      <4>2. key[1] = filter => key[2] # i
        BY <3>1, <3>3
      <4> QED
        BY <1>1, <1>4, <3>1, <3>3, <4>1, <4>2 DEF Put
    <3> QED
      BY <3>2, <3>3
  <2>3. new = [key \in DOMAIN new |-> new[key]]
    BY <1>2
  <2> QED
    BY <2>1, <2>2, <2>3 DEF Put
<1>5. ASSUME NEW filter \in Filters, NEW i,
             \A other \in Filters :
               SubsOf(next, other) = IF other = filter THEN Delete(SubsOf(t, filter), i)
                                                       ELSE SubsOf(t, other)
      PROVE  new = Delete(old, <<filter, i>>)
  <2>1. DOMAIN new = DOMAIN old \ {<<filter, i>>}
    <3>1. DOMAIN Delete(SubsOf(t, filter), i) = DOMAIN SubsOf(t, filter) \ {i}
      BY DEF Delete
    <3>2. ASSUME NEW key \in DOMAIN new PROVE key \in DOMAIN old \ {<<filter, i>>}
      BY <1>1, <1>2, <1>5, <3>1
    <3>3. ASSUME NEW key \in DOMAIN old \ {<<filter, i>>} PROVE key \in DOMAIN new
      BY <1>1, <1>2, <1>5, <3>1
    <3> QED
      BY <3>2, <3>3
  <2>2. ASSUME NEW key \in DOMAIN new
        PROVE  new[key] = old[key]
    <3>1. /\ key = <<key[1], key[2]>> /\ key[1] \in Filters /\ key[2] \in DOMAIN SubsOf(next, key[1])
          /\ new[key] = SubsOf(next, key[1])[key[2]]
      BY <1>2
    <3>2. key \in DOMAIN old /\ old[key] = SubsOf(t, key[1])[key[2]]
      BY <1>1, <2>1
    <3> QED
      BY <1>5, <3>1, <3>2 DEF Delete
  <2>3. new = [key \in DOMAIN new |-> new[key]]
    BY <1>2
  <2> QED
    BY <2>1, <2>2, <2>3 DEF Delete
<1> QED
  BY <1>3, <1>4, <1>5 DEF old, new

\* KeptIn by the topics of the retained messages.
LEMMA KeptIs ==
  ASSUME NEW t, TrieShape(t, Filters, Topics)
  PROVE  /\ KeptIn(t) =
              [topic \in DOMAIN KeptIn(t) |-> t.leaves[<<Levels(topic), topic>>].retain]
         /\ \A topic : topic \in DOMAIN KeptIn(t) <=>
              topic \in Topics /\ <<Levels(topic), topic>> \in Retained(t)
<1>1. \A at \in Retained(t) : at = <<Levels(at[2]), at[2]>> /\ at[2] \in Topics
  BY RetainedAre
<1>2. \A topic \in Topics : Trimmed(topic) = Levels(topic)
  BY TopicAssumption, TrimmedIsLevels
<1> QED
  BY <1>1, <1>2 DEF KeptIn

LEMMA KeptSame ==
  ASSUME NEW t, TrieShape(t, Filters, Topics), NEW next, TrieShape(next, Filters, Topics),
         Retained(next) = Retained(t),
         \A at \in Retained(t) : next.leaves[at] = t.leaves[at]
  PROVE  KeptIn(next) = KeptIn(t)
<1> DEFINE old == KeptIn(t)
           new == KeptIn(next)
<1>1. /\ old = [topic \in DOMAIN old |-> t.leaves[<<Levels(topic), topic>>].retain]
      /\ \A topic : topic \in DOMAIN old <=>
           topic \in Topics /\ <<Levels(topic), topic>> \in Retained(t)
  BY KeptIs
<1>2. /\ new = [topic \in DOMAIN new |-> next.leaves[<<Levels(topic), topic>>].retain]
      /\ \A topic : topic \in DOMAIN new <=>
           topic \in Topics /\ <<Levels(topic), topic>> \in Retained(t)
  BY KeptIs
<1> HIDE DEF old, new
<1>3. DOMAIN new = DOMAIN old
  BY <1>1, <1>2
<1>4. ASSUME NEW topic \in DOMAIN new PROVE new[topic] = old[topic]
  <2>1. next.leaves[<<Levels(topic), topic>>] = t.leaves[<<Levels(topic), topic>>]
    BY <1>2
  <2>2. new[topic] = next.leaves[<<Levels(topic), topic>>].retain
    BY <1>2
  <2>3. old[topic] = t.leaves[<<Levels(topic), topic>>].retain
    BY <1>1, <1>3
  <2> QED
    BY <2>1, <2>2, <2>3
<1>5. new = [topic \in DOMAIN new |-> new[topic]] /\ old = [topic \in DOMAIN old |-> old[topic]]
  BY <1>1, <1>2
<1>6. new = old
  BY <1>3, <1>4, <1>5
<1> QED
  BY <1>6 DEF old, new

LEMMA KeptAdded ==
  ASSUME NEW t, TrieShape(t, Filters, Topics), NEW next, TrieShape(next, Filters, Topics),
         NEW topic \in Topics, NEW packet,
         Retained(next) = Retained(t) \cup {<<Levels(topic), topic>>},
         next.leaves[<<Levels(topic), topic>>].retain = packet,
         \A at \in Retained(t) \ {<<Levels(topic), topic>>} : next.leaves[at] = t.leaves[at]
  PROVE  KeptIn(next) = Put(KeptIn(t), topic, packet)
<1>1. /\ KeptIn(t) =
           [other \in DOMAIN KeptIn(t) |-> t.leaves[<<Levels(other), other>>].retain]
      /\ \A other : other \in DOMAIN KeptIn(t) <=>
           other \in Topics /\ <<Levels(other), other>> \in Retained(t)
      /\ KeptIn(next) =
           [other \in DOMAIN KeptIn(next) |-> next.leaves[<<Levels(other), other>>].retain]
      /\ \A other : other \in DOMAIN KeptIn(next) <=>
           other \in Topics /\ <<Levels(other), other>> \in Retained(next)
  BY KeptIs
<1>2. DOMAIN KeptIn(next) = DOMAIN KeptIn(t) \cup {topic}
  <2>1. ASSUME NEW other \in DOMAIN KeptIn(next) PROVE other \in DOMAIN KeptIn(t) \cup {topic}
    BY <1>1
  <2>2. ASSUME NEW other \in DOMAIN KeptIn(t) \cup {topic} PROVE other \in DOMAIN KeptIn(next)
    BY <1>1
  <2> QED
    BY <2>1, <2>2
<1>3. \A other \in DOMAIN KeptIn(t) \ {topic} :
        next.leaves[<<Levels(other), other>>].retain = t.leaves[<<Levels(other), other>>].retain
  BY <1>1
<1>4. \A other \in DOMAIN KeptIn(next) :
        KeptIn(next)[other] = IF other = topic THEN packet ELSE KeptIn(t)[other]
  <2> SUFFICES ASSUME NEW other \in DOMAIN KeptIn(next)
               PROVE  KeptIn(next)[other] = IF other = topic THEN packet ELSE KeptIn(t)[other]
    OBVIOUS
  <2>1. KeptIn(next)[other] = next.leaves[<<Levels(other), other>>].retain
    BY <1>1
  <2>2. CASE other = topic
    BY <2>1, <2>2
  <2>3. CASE other # topic
    <3>1. other \in DOMAIN KeptIn(t)
      BY <1>2, <2>3
    <3>2. KeptIn(t)[other] = t.leaves[<<Levels(other), other>>].retain
      BY <1>1, <3>1
    <3> QED
      BY <1>3, <2>1, <2>3, <3>1, <3>2
  <2> QED
    BY <2>2, <2>3
<1>5. KeptIn(next) = [other \in DOMAIN KeptIn(next) |-> KeptIn(next)[other]]
  BY <1>1
<1> QED
  BY <1>2, <1>4, <1>5 DEF Put

LEMMA KeptRemoved ==
  ASSUME NEW t, TrieShape(t, Filters, Topics), NEW next, TrieShape(next, Filters, Topics),
         NEW at \in Retained(t), Retained(next) = Retained(t) \ {at},
         \A other \in Retained(t) \ {at} : next.leaves[other] = t.leaves[other]
  PROVE  at[2] \in DOMAIN KeptIn(t) /\ KeptIn(next) = Delete(KeptIn(t), at[2])
<1>1. at = <<Levels(at[2]), at[2]>> /\ at[2] \in Topics
  BY RetainedAre
<1>2. /\ KeptIn(t) =
           [other \in DOMAIN KeptIn(t) |-> t.leaves[<<Levels(other), other>>].retain]
      /\ \A other : other \in DOMAIN KeptIn(t) <=>
           other \in Topics /\ <<Levels(other), other>> \in Retained(t)
      /\ KeptIn(next) =
           [other \in DOMAIN KeptIn(next) |-> next.leaves[<<Levels(other), other>>].retain]
      /\ \A other : other \in DOMAIN KeptIn(next) <=>
           other \in Topics /\ <<Levels(other), other>> \in Retained(next)
  BY KeptIs
<1>3. at[2] \in DOMAIN KeptIn(t)
  BY <1>1, <1>2
<1>4. DOMAIN KeptIn(next) = DOMAIN KeptIn(t) \ {at[2]}
  <2>1. ASSUME NEW other \in DOMAIN KeptIn(next) PROVE other \in DOMAIN KeptIn(t) \ {at[2]}
    BY <1>1, <1>2
  <2>2. ASSUME NEW other \in DOMAIN KeptIn(t) \ {at[2]} PROVE other \in DOMAIN KeptIn(next)
    <3>1. other \in Topics /\ <<Levels(other), other>> \in Retained(t)
      BY <1>2
    <3>2. <<Levels(other), other>> # at
      BY <1>1
    <3> QED
      BY <1>2, <3>1, <3>2
  <2> QED
    BY <2>1, <2>2
<1>5. ASSUME NEW other \in DOMAIN KeptIn(next) PROVE KeptIn(next)[other] = KeptIn(t)[other]
  <2>1. /\ KeptIn(next)[other] = next.leaves[<<Levels(other), other>>].retain
        /\ <<Levels(other), other>> \in Retained(next)
    BY <1>2
  <2>2. KeptIn(t)[other] = t.leaves[<<Levels(other), other>>].retain
    BY <1>2, <1>4
  <2> QED
    BY <2>1, <2>2
<1>6. KeptIn(next) = [other \in DOMAIN KeptIn(next) |-> KeptIn(next)[other]]
  BY <1>2
<1> QED
  BY <1>3, <1>4, <1>5, <1>6 DEF Delete

\* The keys of the tables, by the trie.
LEMMA TablesAre ==
  ASSUME TrieShape(trie, Filters, Topics)
  PROVE  /\ \A filter \in Filters : \A i :
              <<filter, i>> \in DOMAIN Subscriptions <=> i \in DOMAIN SubsOf(trie, filter)
         /\ \A key : key \notin DOMAIN Subscriptions => Delete(Subscriptions, key) = Subscriptions
         /\ \A topic \in Topics : topic \in DOMAIN Kept <=> <<Levels(topic), topic>> \in Retained(trie)
         /\ \A topic : topic \notin DOMAIN Kept => Delete(Kept, topic) = Kept
<1>1. /\ \A key : key \in DOMAIN Subscriptions <=>
           /\ key = <<key[1], key[2]>> /\ key[1] \in Filters
           /\ key[2] \in DOMAIN SubsOf(trie, key[1])
      /\ Subscriptions =
           [key \in DOMAIN Subscriptions |-> SubsOf(trie, key[1])[key[2]]]
  BY KeysIn, MappedState
<1>2. /\ Kept = [topic \in DOMAIN Kept |-> trie.leaves[<<Levels(topic), topic>>].retain]
      /\ \A topic : topic \in DOMAIN Kept <=>
           topic \in Topics /\ <<Levels(topic), topic>> \in Retained(trie)
  BY KeptIs, MappedState
<1>3. ASSUME NEW key, key \notin DOMAIN Subscriptions PROVE Delete(Subscriptions, key) = Subscriptions
  <2>1. DOMAIN Subscriptions \ {key} = DOMAIN Subscriptions
    BY <1>3
  <2>2. Subscriptions = [k \in DOMAIN Subscriptions |-> Subscriptions[k]]
    BY <1>1
  <2> QED
    BY <2>1, <2>2 DEF Delete
<1>4. ASSUME NEW topic, topic \notin DOMAIN Kept PROVE Delete(Kept, topic) = Kept
  <2>1. DOMAIN Kept \ {topic} = DOMAIN Kept
    BY <1>4
  <2>2. Kept = [k \in DOMAIN Kept |-> Kept[k]]
    BY <1>2
  <2> QED
    BY <2>1, <2>2 DEF Delete
<1> QED
  BY <1>1, <1>2, <1>3, <1>4

\* Unsubscribe answers TRUE to an identity that is subscribed.
LEMMA UnsubscribeAnswers ==
  ASSUME TrieShape(trie, Filters, Topics), NEW filter \in Filters, NEW identity,
         <<filter, identity>> \in DOMAIN Subscriptions
  PROVE  UnsubscribeExist(trie, filter)
<1>1. identity \in DOMAIN SubsOf(trie, filter)
  BY TablesAre
<1>2. WellFormed(filter) /\ DOMAIN EmptyMap = {}
  BY FilterAssumption DEF EmptyMap
<1>3. CASE IsWild(filter)
  <2>1. <<Levels(filter), filter>> \in DOMAIN trie.leaves
    BY <1>1, <1>2, <1>3, SubsOfWild
  <2>2. HoldingLeafOf(trie, filter) = {Levels(filter)}
    BY <1>3, <2>1, Arguments, HoldingLeafIs
  <2> QED
    BY <1>3, <2>2 DEF UnsubscribeExist
<1>4. CASE ~ IsWild(filter)
  BY <1>1, <1>2, <1>4 DEF UnsubscribeExist, SubsOf
<1> QED
  BY <1>3, <1>4

\* RemoveRetain removes the message of its topic, that of another topic of the
\* same levels, or finds none.
LEMMA RemovalIsStores ==
  ASSUME IInv, IInv', NEW topic \in Topics, RemoveRetain(topic)
  PROVE  Store!RemoveRetain(topic) \/ RemovesAnother(topic)
<1> DEFINE there == <<Levels(topic), topic>>
<1>1. /\ TrieShape(trie, Filters, Topics) /\ TrieShape(trie', Filters, Topics)
      /\ trie' \in RemoveRetainResults(trie, topic)
      /\ exist' = (RemovableFor(trie, topic) # {})
  BY DEF IInv, RemoveRetain
<1>2. topic \in DOMAIN Kept <=> there \in RemovableFor(trie, topic)
  BY <1>1, TablesAre DEF RemovableFor
<1>3. CASE RemovableFor(trie, topic) = {}
  <2>1. trie' = trie /\ topic \notin DOMAIN Kept /\ exist' = FALSE
    BY <1>1, <1>2, <1>3 DEF RemoveRetainResults
  <2>2. Subscriptions' = Subscriptions /\ Kept' = Delete(Kept, topic)
    BY <1>1, <2>1, TablesAre, MappedState
  <2>3. Store!RemoveRetain(topic)
    <3>1. (topic \in DOMAIN Kept) = FALSE
      BY <2>1
    <3>2. exist' = (topic \in DOMAIN Kept)
      BY <2>1, <3>1
    <3> QED
      BY <2>2, <3>2 DEF Store!RemoveRetain, Store!Unset, Delete
  <2> QED
    BY <2>3
<1>4. CASE RemovableFor(trie, topic) # {}
  <2>1. PICK at \in RemovableFor(trie, topic) :
          /\ Retained(trie') = Retained(trie) \ {at}
          /\ \A other \in DOMAIN trie.leaves \ {at} : trie'.leaves[other] = trie.leaves[other]
          /\ \A filter \in Filters : SubsOf(trie', filter) = SubsOf(trie, filter)
    BY <1>1, <1>4, Arguments, RemoveRetainShape
  <2>2. Subscriptions' = Subscriptions
    BY <2>1, SubscriptionsChange, MappedState
  <2>3. at \in Retained(trie) /\ at[1] = Levels(topic)
    BY DEF RemovableFor
  <2>4. \A other \in Retained(trie) \ {at} : trie'.leaves[other] = trie.leaves[other]
    BY <2>1 DEF Retained
  <2>5. Kept' = Delete(Kept, at[2])
    BY <1>1, <2>1, <2>3, <2>4, KeptRemoved, MappedState
  <2>6. CASE at[2] = topic
    <3>1. at = there
      BY <1>1, <2>3, <2>6, RetainedAre
    <3>2. exist' = (topic \in DOMAIN Kept)
      BY <1>1, <1>2, <1>4, <3>1
    <3> QED
      BY <2>2, <2>5, <2>6, <3>2 DEF Store!RemoveRetain, Store!Unset, Delete
  <2>7. CASE at[2] # topic
    BY <1>1, <1>4, <2>2, <2>5, <2>7 DEF RemovesAnother, Store!Unset, Delete
  <2> QED
    BY <2>6, <2>7
<1> QED
  BY <1>3, <1>4

\* Every call does what it does on the tables, and answers as they do.
LEMMA CallsAreStores ==
  ASSUME IInv, IInv' PROVE AsInStore
<1>1. TrieShape(trie, Filters, Topics) /\ TrieShape(trie', Filters, Topics)
  BY DEF IInv
<1>2. ASSUME NEW filter \in Filters, NEW identity \in Identities, NEW client \in Clients,
             SubscribeTopic(filter, identity, client)
      PROVE  Store!Subscribe(filter, identity, client)
  <2>1. /\ trie' = Subscribe(trie, filter, identity, client)
        /\ exist' = (identity \in DOMAIN SubsOf(trie, filter))
    BY <1>2 DEF SubscribeTopic, SubscribeExist
  <2>2. Subscriptions' = Put(Subscriptions, <<filter, identity>>, client)
    BY <1>1, <2>1, Arguments, SubscribeSubs, SubscriptionsChange, MappedState
  <2>3. Kept' = Kept
    BY <1>1, <2>1, Arguments, SubscribeShape, KeptSame, MappedState
  <2>4. exist' = (<<filter, identity>> \in DOMAIN Subscriptions)
    BY <1>1, <2>1, TablesAre
  <2> QED
    BY <2>2, <2>3, <2>4 DEF Store!Subscribe, Store!Set, Put
<1>3. ASSUME NEW filter \in Filters, NEW identity \in Identities,
             UnsubscribeTopic(filter, identity)
      PROVE  Store!Unsubscribe(filter, identity) \/ AnswersForAnother(filter, identity)
  <2> DEFINE key == <<filter, identity>>
  <2>1. /\ trie' = Unsubscribe(trie, filter, identity)
        /\ exist' = UnsubscribeExist(trie, filter)
    BY <1>3 DEF UnsubscribeTopic
  <2>2. Subscriptions' = Delete(Subscriptions, key)
    BY <1>1, <2>1, Arguments, UnsubscribeSubs, SubscriptionsChange, MappedState
  <2>3. Kept' = Kept
    BY <1>1, <2>1, Arguments, UnsubscribeShape, KeptSame, MappedState
  <2>4. CASE exist' = (key \in DOMAIN Subscriptions)
    BY <2>2, <2>3, <2>4 DEF Store!Unsubscribe, Store!Unset, Delete
  <2>5. CASE ~ (exist' = (key \in DOMAIN Subscriptions))
    <3>1. key \in DOMAIN Subscriptions => UnsubscribeExist(trie, filter)
      BY <1>1, UnsubscribeAnswers
    <3>2. exist' \in BOOLEAN
      BY DEF IInv
    <3>3. key \notin DOMAIN Subscriptions /\ exist'
      BY <2>1, <2>5, <3>1, <3>2
    <3>4. Subscriptions' = Subscriptions
      BY <1>1, <2>2, <3>3, TablesAre
    <3> QED
      BY <2>3, <3>3, <3>4 DEF AnswersForAnother
  <2> QED
    BY <2>4, <2>5
<1>4. ASSUME NEW topic \in Topics, NEW packet \in Packets, PublishRetain(topic, packet)
      PROVE  Store!AddRetain(topic, packet)
  <2> DEFINE there == <<Levels(topic), topic>>
  <2>1. /\ trie' = AddRetain(trie, topic, packet) /\ packet # NoRetain
        /\ exist' = (there \in Retained(trie))
    BY <1>4, NoRetainAssumption, TopicAssumption, TrimmedIsLevels
    DEF PublishRetain, AddRetainExist
  <2>2. /\ Retained(trie') = Retained(trie) \cup {there}
        /\ trie'.leaves[there] = [subs |-> EmptyMap, retain |-> packet]
        /\ \A at \in DOMAIN trie.leaves \ {there} : trie'.leaves[at] = trie.leaves[at]
        /\ \A filter \in Filters : SubsOf(trie', filter) = SubsOf(trie, filter)
    BY <1>1, <2>1, Arguments, AddRetainShape
  <2>3. Subscriptions' = Subscriptions
    BY <2>2, SubscriptionsChange, MappedState
  <2>4. Kept' = Put(Kept, topic, packet)
    <3>1. trie'.leaves[there].retain = packet
      BY <2>2
    <3>2. \A at \in Retained(trie) \ {there} : trie'.leaves[at] = trie.leaves[at]
      BY <2>2 DEF Retained
    <3> QED
      BY <1>1, <2>2, <3>1, <3>2, KeptAdded, MappedState
  <2>5. exist' = (topic \in DOMAIN Kept)
    BY <1>1, <2>1, TablesAre
  <2> QED
    BY <2>3, <2>4, <2>5 DEF Store!AddRetain, Store!Set, Put
<1>5. ASSUME NEW topic \in Topics, RemoveRetain(topic)
      PROVE  Store!RemoveRetain(topic) \/ RemovesAnother(topic)
  BY <1>5, RemovalIsStores
<1> QED
  BY <1>2, <1>3, <1>4, <1>5 DEF AsInStore

LEMMA InitIsStores == Init => Store!Init
<1> SUFFICES ASSUME Init PROVE Store!Init
  OBVIOUS
<1>1. DOMAIN EmptyMap = {}
  BY DEF EmptyMap
<1>2. \A filter \in Filters : SubsOf(trie, filter) = EmptyMap
  BY <1>1 DEF Init, NewTrie, SubsOf, LeafAt, NewLeaf
<1>3. Filed = {} /\ Retained(trie) = {}
  BY <1>1, <1>2 DEF Filed, Retained, Init, NewTrie
<1>4. Subscriptions = Store!Nothing /\ Kept = Store!Nothing
  BY <1>3 DEF Subscriptions, Kept, Store!Nothing
<1> QED
  BY <1>4 DEF Store!Init, Init

(***************************************************************************)
(* trie.go: every call does to the two tables of TopicStore what the same  *)
(* call does there, and answers as it does, whatever filters and topics    *)
(* share branches; only RemoveRetain for a topic that has another of its   *)
(* levels beside it, and Unsubscribe for an identity without that          *)
(* subscription, depart from it, as ImplementsTopicStore says.             *)
(***************************************************************************)
THEOREM Refinement == Spec => ImplementsTopicStore
<1>1. IInv /\ IInv' /\ [Next]_vars => [AsInStore]_vars
  BY CallsAreStores
<1> QED
  BY <1>1, InitIsStores, Invariance, PTL DEF Spec, ImplementsTopicStore

\* One of the two departures (branch.go:129, and trie.go:67 or branch.go:74).
Departs ==
  \/ \E filter \in Filters, identity \in Identities :
       UnsubscribeTopic(filter, identity) /\ AnswersForAnother(filter, identity)
  \/ \E topic \in Topics : RemoveRetain(topic) /\ RemovesAnother(topic)

(***************************************************************************)
(* trie.go: as long as no call departs in one of these two ways, the trie  *)
(* implements the specification of TopicStore.                             *)
(***************************************************************************)
THEOREM ImplementsUnlessDeparting == Spec /\ [][~ Departs]_vars => Store!Spec
<1>1. IInv /\ IInv' /\ [Next]_vars /\ [~ Departs]_vars => [Store!Next]_(Store!vars)
  <2> SUFFICES ASSUME IInv, IInv', [Next]_vars, [~ Departs]_vars
               PROVE  [Store!Next]_(Store!vars)
    OBVIOUS
  <2>1. AsInStore
    BY CallsAreStores
  <2>2. CASE UNCHANGED vars
    BY <2>2, MappedState DEF vars, Store!vars
  <2>3. ASSUME NEW filter \in Filters, NEW identity \in Identities,
               NEW client \in Clients, SubscribeTopic(filter, identity, client)
        PROVE  Store!Next
    BY <2>1, <2>3 DEF AsInStore, Store!Next
  <2>4. ASSUME ~ Departs, NEW filter \in Filters, NEW identity \in Identities,
               UnsubscribeTopic(filter, identity)
        PROVE  Store!Next
    BY <2>1, <2>4 DEF AsInStore, Store!Next, Departs
  <2>5. ASSUME NEW topic \in Topics, NEW packet \in Packets, PublishRetain(topic, packet)
        PROVE  Store!Next
    BY <2>1, <2>5 DEF AsInStore, Store!Next
  <2>6. ASSUME ~ Departs, NEW topic \in Topics,
               PublishEmptyRetain(topic) \/ LinkPublishRetain(topic)
        PROVE  Store!Next
    <3>1. RemoveRetain(topic)
      BY <2>6 DEF PublishEmptyRetain, LinkPublishRetain
    <3> QED
      BY <2>1, <2>6, <3>1 DEF AsInStore, Store!Next, Departs
  <2> QED
    BY <2>2, <2>3, <2>4, <2>5, <2>6 DEF Next
<1> QED
  BY <1>1, InitIsStores, Invariance, PTL DEF Spec, Store!Spec
=============================================================================
