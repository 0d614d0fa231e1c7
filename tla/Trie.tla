-------------------------------- MODULE Trie --------------------------------
(***************************************************************************)
(* The topic store of the broker (package trie): the data structure and    *)
(* its six operations as operators on a value                              *)
(*                                                                         *)
(*   [foliage, branches, leaves]                                           *)
(*                                                                         *)
(*   foliage   Trie.foliage: topic -> (identity -> subscriber)             *)
(*   branches  the Branch nodes below root, each named by its path, the    *)
(*             sequence of branch names that leads to it (root is <<>>)    *)
(*   leaves    Branch.leaves of all branches: <<path, topic>> ->           *)
(*             [subs : identity -> subscriber, retain : packet or NoRetain]*)
(*                                                                         *)
(* A topic (or topic filter) is the sequence of its levels, what           *)
(* strings.Split(topic, "/") returns.  Every operation that walks the tree *)
(* holds Trie.mu, so it is one operator here; the accesses to foliage are  *)
(* not protected, and Foliage.tla takes them apart.                        *)
(***************************************************************************)
EXTENDS Naturals, Sequences, FiniteSets

CONSTANTS
  Padded,    \* level with surrounding blanks -> the level without them
  NoRetain   \* Leaf.retain = nil

Hash == "#"
Plus == "+"
Blank == ""

\* A map without keys.
EmptyMap == [x \in {} |-> x]

\* m[k] = v
Put(m, k, v) == [x \in DOMAIN m \cup {k} |-> IF x = k THEN v ELSE m[x]]

\* delete(m, k)
Delete(m, k) == [x \in DOMAIN m \ {k} |-> m[x]]

TrimSpace(level) == IF level \in DOMAIN Padded THEN Padded[level] ELSE level

\* strings.Contains(topic, "#") || strings.Contains(topic, "+")
IsWild(topic) == \E i \in DOMAIN topic : topic[i] \in {Hash, Plus}

\* The levels the operations look at: a blank first level is skipped (index 1).
Levels(topic) ==
  IF TrimSpace(topic[1]) = Blank THEN Tail(topic) ELSE topic

Trimmed(topic) ==
  [i \in DOMAIN Levels(topic) |-> TrimSpace(Levels(topic)[i])]

FirstHash(levels) ==
  CHOOSE i \in DOMAIN levels :
    levels[i] = Hash /\ \A j \in 1 .. (i - 1) : levels[j] # Hash

HasHash(levels) == \E i \in DOMAIN levels : levels[i] = Hash

\* The branches on the way to path, path included and root excluded.
OnPath(path) == {SubSeq(path, 1, n) : n \in 1 .. Len(path)}

\* path is other or one of the branches above it.
IsAbove(path, other) ==
  Len(path) <= Len(other) /\ SubSeq(other, 1, Len(path)) = path

ParentOf(path) == SubSeq(path, 1, Len(path) - 1)

LastOf(path) == path[Len(path)]

NewTrie == [foliage |-> EmptyMap, branches |-> {}, leaves |-> EmptyMap]

NewLeaf == [subs |-> EmptyMap, retain |-> NoRetain]

LeafAt(trie, path, topic) ==
  IF <<path, topic>> \in DOMAIN trie.leaves
  THEN trie.leaves[<<path, topic>>]
  ELSE NewLeaf

\* Topics and filters as MQTT has them, and without blanks around a level: some
\* level is left when a blank first one is skipped, "#" is the last one.
WellFormed(topic) ==
  /\ topic \in Seq(STRING) /\ topic # <<>> /\ Levels(topic) # <<>>
  /\ \A i \in DOMAIN topic : TrimSpace(topic[i]) = topic[i]
  /\ \A i \in 1 .. (Len(topic) - 1) : topic[i] # Hash

-----------------------------------------------------------------------------
(* Subscribe                                                               *)

\* The branch whose leaf holds the subscribers of a wildcard filter: AddBranch
\* goes down the trimmed levels and stops at the first "#".
HomeOf(filter) ==
  LET levels == Trimmed(filter)
  IN  IF HasHash(levels) THEN SubSeq(levels, 1, FirstHash(levels)) ELSE levels

\* Mutant: "#" does not stand for no level.
LeafPathsOf_NoParent(filter) == {HomeOf(filter)}

\* A "#" filter gets a second leaf, in the parent of the "#" branch.
LeafPathsOf(filter) ==
  LET home == HomeOf(filter)
  IN  {home} \cup (IF LastOf(home) = Hash THEN {ParentOf(home)} ELSE {})

\* The leaf a subscription to topic is recorded in, the one the result of
\* Subscribe is about.
SubsOf(trie, topic) ==
  IF IsWild(topic) THEN LeafAt(trie, HomeOf(topic), topic).subs
  ELSE IF topic \in DOMAIN trie.foliage THEN trie.foliage[topic]
  ELSE EmptyMap

SubscribeExist(trie, topic, identity) ==
  identity \in DOMAIN SubsOf(trie, topic)

\* A foliage leaf is created for every topic, for a wildcard filter an empty one.
Foliate(foliage, topic) ==
  IF topic \in DOMAIN foliage THEN foliage ELSE Put(foliage, topic, EmptyMap)

AddBranch(trie, filter, identity, subscriber) ==
  LET added == LeafPathsOf(filter) \X {filter}
  IN  [trie EXCEPT
        !.branches = @ \cup OnPath(HomeOf(filter)),
        !.leaves =
          [at \in DOMAIN @ \cup added |->
             LET leaf == LeafAt(trie, at[1], at[2])
             IN  IF at \in added
                 THEN [leaf EXCEPT !.subs = Put(@, identity, subscriber)]
                 ELSE leaf]]

Subscribe(trie, topic, identity, subscriber) ==
  LET foliated == [trie EXCEPT !.foliage = Foliate(@, topic)]
  IN  IF IsWild(topic)
      THEN AddBranch(foliated, topic, identity, subscriber)
      ELSE [foliated EXCEPT
             !.foliage[topic] = Put(@, identity, subscriber)]

-----------------------------------------------------------------------------
(* Unsubscribe                                                             *)

\* The branches in which ScanRemoveLeaf looks for the leaf of filter.  The
\* names of the branches are trimmed, the levels they are compared with not.
ScannedFor(trie, filter) ==
  LET levels == Levels(filter)
  IN  {path \in trie.branches :
         LET depth == Len(path) IN
         /\ depth <= Len(levels)
         /\ \A i \in 1 .. (depth - 1) : path[i] = levels[i] /\ path[i] # Hash
         /\ \/ path[depth] = Hash
            \/ depth = Len(levels) /\ path[depth] = levels[depth]}

HoldingLeafOf(trie, filter) ==
  {path \in ScannedFor(trie, filter) :
     <<path, filter>> \in DOMAIN trie.leaves}

\* Mutant: the leaf goes with the first of its subscribers.
RemoveLeaf_DropsLeaf(leaves, at, identity) == Delete(leaves, at)

\* RemoveLeaf: the leaf goes when nothing is left in it.
RemoveLeaf(leaves, at, identity) ==
  LET leaf == [leaves[at] EXCEPT !.subs = Delete(@, identity)]
  IN  IF leaf.subs = EmptyMap /\ leaf.retain = NoRetain
      THEN Delete(leaves, at)
      ELSE Put(leaves, at, leaf)

\* Mutant: only branches are looked for below the branch, not leaves.
Cleaned_IgnoresLeaves(branches, leaves, path) ==
  {dead \in OnPath(path) :
     \A below \in branches : IsAbove(dead, below) => below \in OnPath(path)}

\* Mutant: the parents are not looked at.
Cleaned_NotParents(branches, leaves, path) ==
  {dead \in {path} :
     \A below \in branches :
       IsAbove(dead, below) =>
         below = path /\ \A at \in DOMAIN leaves : at[1] # path}

\* CheckClean, called for the branch at path and then for each of its parents:
\* the branches it deletes.
Cleaned(branches, leaves, path) ==
  {dead \in OnPath(path) :
     \A below \in branches :
       IsAbove(dead, below) =>
         /\ below \in OnPath(path)
         /\ \A at \in DOMAIN leaves : at[1] # below}

ScanRemoveLeaf(trie, filter, identity) ==
  LET path   == CHOOSE p \in HoldingLeafOf(trie, filter) : TRUE
      leaves == RemoveLeaf(trie.leaves, <<path, filter>>, identity)
  IN  IF HoldingLeafOf(trie, filter) = {} THEN trie
      ELSE [trie EXCEPT
             !.leaves = leaves,
             !.branches = @ \ Cleaned(@, leaves, path)]

UnsubscribeExist(trie, topic) ==
  IF IsWild(topic) THEN HoldingLeafOf(trie, topic) # {}
                   ELSE topic \in DOMAIN trie.foliage

\* The foliage leaves never hold a retained message: they go when empty.
Unsubscribe(trie, topic, identity) ==
  LET subs == Delete(trie.foliage[topic], identity)
  IN  IF IsWild(topic) THEN ScanRemoveLeaf(trie, topic, identity)
      ELSE IF topic \notin DOMAIN trie.foliage THEN trie
      ELSE [trie EXCEPT !.foliage =
              IF subs = EmptyMap THEN Delete(@, topic) ELSE Put(@, topic, subs)]

-----------------------------------------------------------------------------
(* Subscribers                                                             *)

\* Mutant: the leaves on the way to the last level match too.
FoundFor_Prefix(trie, topic) ==
  LET levels == Levels(topic)
  IN  {path \in trie.branches :
         LET depth == Len(path) IN
         /\ depth <= Len(levels)
         /\ \A i \in 1 .. (depth - 1) :
              path[i] \in {Plus, levels[i]} /\ path[i] # Hash
         /\ path[depth] \in {Hash, Plus, levels[depth]}}

\* The branches whose leaves SearchLeaves returns for a topic.
FoundFor(trie, topic) ==
  LET levels == Levels(topic)
  IN  {path \in trie.branches :
         LET depth == Len(path) IN
         /\ depth <= Len(levels)
         /\ \A i \in 1 .. (depth - 1) :
              path[i] \in {Plus, levels[i]} /\ path[i] # Hash
         /\ \/ path[depth] = Hash
            \/ depth = Len(levels) /\ path[depth] \in {Plus, levels[depth]}}

\* The <<identity, subscriber>> pairs of the leaves a publication reaches.
Subscribers(trie, topic) ==
  IF IsWild(topic) THEN {}
  ELSE LET found  == FoundFor(trie, topic)
           leaves == {at \in DOMAIN trie.leaves : at[1] \in found}
           maps   == {SubsOf(trie, topic)} \cup
                       {trie.leaves[at].subs : at \in leaves}
       IN  UNION {{<<i, m[i]>> : i \in DOMAIN m} : m \in maps}

\* The topics RangeTopics calls its function with.
RangeTopics(trie) == DOMAIN trie.foliage

-----------------------------------------------------------------------------
(* Retained messages                                                       *)

HasRetain(trie, at) == trie.leaves[at].retain # NoRetain

Retained(trie) == {at \in DOMAIN trie.leaves : HasRetain(trie, at)}

\* Mutant: a leaf that was left without its message counts as a message.
AddRetainExist_Leaf(trie, topic) ==
  <<Trimmed(topic), topic>> \in DOMAIN trie.leaves

AddRetainExist(trie, topic) == <<Trimmed(topic), topic>> \in Retained(trie)

AddRetain(trie, topic, packet) ==
  LET path == Trimmed(topic)
      leaf == LeafAt(trie, path, topic)
  IN  [trie EXCEPT
        !.branches = @ \cup OnPath(path),
        !.leaves = Put(@, <<path, topic>>, [leaf EXCEPT !.retain = packet])]

\* RemoveRetain takes the first retained message it meets in the branch the
\* levels name, whatever topic that message has; the order is that of a map.
RemovableFor(trie, topic) ==
  {at \in Retained(trie) : at[1] = Levels(topic)}

RemoveRetainResults(trie, topic) ==
  IF RemovableFor(trie, topic) = {} THEN {trie}
  ELSE {[trie EXCEPT !.leaves[at].retain = NoRetain] :
          at \in RemovableFor(trie, topic)}

\* Mutant: "#" goes down one level only.
RetainReach_OneLevel(filter, path) ==
  LET levels == Levels(filter)
      last   == IF HasHash(levels) THEN FirstHash(levels) - 1 ELSE Len(levels)
  IN  /\ Len(path) = IF HasHash(levels) THEN last + 1 ELSE last
      /\ \A i \in 1 .. last : levels[i] \in {Plus, path[i]}

\* The leaves SearchRetain visits for a filter: all those below the level of
\* the first "#" (GetRestRetain), or those of the branches of its own depth.
RetainReach(filter, path) ==
  LET levels == Levels(filter)
      last   == IF HasHash(levels) THEN FirstHash(levels) - 1 ELSE Len(levels)
  IN  /\ IF HasHash(levels) THEN Len(path) > last ELSE Len(path) = last
      /\ \A i \in 1 .. last : levels[i] \in {Plus, path[i]}

SearchRetain(trie, filter) ==
  {at \in Retained(trie) :
     at[1] \in trie.branches /\ RetainReach(filter, at[1])}
=============================================================================
