---------------------------- MODULE TrieTheorems ----------------------------
(***************************************************************************)
(* What the operations of Trie.tla do to the subscriptions and the         *)
(* retained messages of a trie, for any well-formed topics and filters.    *)
(***************************************************************************)
EXTENDS Trie, SequenceTheorems, FiniteSetTheorems, TLAPS

Paths == Seq(STRING)

-----------------------------------------------------------------------------
(* Levels                                                                  *)

LEMMA LevelsOfWellFormed ==
  ASSUME NEW topic, WellFormed(topic)
  PROVE  /\ Levels(topic) \in Paths
         /\ Len(Levels(topic)) \in Nat \ {0}
         /\ \A i \in DOMAIN Levels(topic) : TrimSpace(Levels(topic)[i]) = Levels(topic)[i]
         /\ \A i \in 1 .. (Len(Levels(topic)) - 1) : Levels(topic)[i] # Hash
         /\ LastOf(Levels(topic)) = LastOf(topic)
<1>1. topic \in Paths /\ topic # <<>> /\ Levels(topic) # <<>>
  BY DEF WellFormed, Paths
<1>2. CASE TrimSpace(topic[1]) = Blank
  <2>1. Levels(topic) = Tail(topic)
    BY <1>2 DEF Levels
  <2>2. /\ Tail(topic) \in Paths
        /\ Len(Tail(topic)) = Len(topic) - 1
        /\ \A i \in 1 .. Len(Tail(topic)) : Tail(topic)[i] = topic[i + 1]
    BY <1>1, HeadTailProperties DEF Paths
  <2>3. Len(Tail(topic)) \in Nat \ {0}
    BY <1>1, <2>1, <2>2, EmptySeq DEF Paths
  <2> QED
    BY <1>1, <2>1, <2>2, <2>3 DEF WellFormed, Paths, LastOf
<1>3. CASE TrimSpace(topic[1]) # Blank
  <2>1. Levels(topic) = topic
    BY <1>3 DEF Levels
  <2>2. Len(topic) \in Nat \ {0}
    BY <1>1, EmptySeq DEF Paths
  <2> QED
    BY <1>1, <2>1, <2>2 DEF WellFormed, Paths, LastOf
<1> QED
  BY <1>2, <1>3

LEMMA TrimmedIsLevels ==
  ASSUME NEW topic, WellFormed(topic)
  PROVE  Trimmed(topic) = Levels(topic)
  BY LevelsOfWellFormed DEF Trimmed, Paths

LEMMA HashIsLast ==
  ASSUME NEW topic, WellFormed(topic)
  PROVE  /\ HasHash(Levels(topic)) <=> LastOf(topic) = Hash
         /\ HasHash(Levels(topic)) => FirstHash(Levels(topic)) = Len(Levels(topic))
<1> DEFINE levels == Levels(topic)
           n == Len(levels)
<1>1. /\ levels \in Paths /\ n \in Nat \ {0}
      /\ \A i \in 1 .. (n - 1) : levels[i] # Hash
      /\ levels[n] = LastOf(topic)
  BY LevelsOfWellFormed DEF LastOf
<1> HIDE DEF levels
<1>2. DOMAIN levels = 1 .. n
  BY <1>1 DEF Paths
<1>3. HasHash(levels) <=> LastOf(topic) = Hash
  BY <1>1, <1>2 DEF HasHash
<1>4. ASSUME HasHash(levels) PROVE FirstHash(levels) = n
  <2>1. /\ n \in DOMAIN levels /\ levels[n] = Hash
        /\ \A j \in 1 .. (n - 1) : levels[j] # Hash
    BY <1>1, <1>2, <1>3, <1>4
  <2>2. ASSUME NEW i \in DOMAIN levels, levels[i] = Hash PROVE i = n
    BY <1>1, <1>2, <2>2
  <2> QED
    BY <2>1, <2>2 DEF FirstHash
<1> QED
  BY <1>3, <1>4 DEF levels

LEMMA HomeIsLevels ==
  ASSUME NEW filter, WellFormed(filter)
  PROVE  HomeOf(filter) = Levels(filter)
  BY LevelsOfWellFormed, TrimmedIsLevels, HashIsLast, SubSeqFull DEF HomeOf, Paths

-----------------------------------------------------------------------------
(* Branches                                                                *)

LEMMA OnPathIsAbove ==
  ASSUME NEW path \in Paths, NEW above
  PROVE  above \in OnPath(path) <=> above \in Paths /\ above # <<>> /\ IsAbove(above, path)
<1>1. Len(path) \in Nat
  BY DEF Paths
<1>2. ASSUME NEW n \in 1 .. Len(path)
      PROVE  SubSeq(path, 1, n) \in Paths /\ Len(SubSeq(path, 1, n)) = n
  BY <1>1, <1>2, SubSeqProperties DEF Paths
<1>3. ASSUME above \in OnPath(path)
      PROVE  above \in Paths /\ above # <<>> /\ IsAbove(above, path)
  BY <1>1, <1>2, <1>3, EmptySeq DEF OnPath, IsAbove, Paths
<1>4. ASSUME above \in Paths, above # <<>>, IsAbove(above, path)
      PROVE  above \in OnPath(path)
  <2>1. Len(above) \in Nat \ {0}
    BY <1>4, EmptySeq DEF Paths
  <2>2. Len(above) \in 1 .. Len(path) /\ above = SubSeq(path, 1, Len(above))
    BY <1>1, <1>4, <2>1 DEF IsAbove
  <2> QED
    BY <2>2 DEF OnPath
<1> QED
  BY <1>3, <1>4

LEMMA AboveIsTransitive ==
  ASSUME NEW p \in Paths, NEW q \in Paths, NEW r \in Paths,
         IsAbove(p, q), IsAbove(q, r)
  PROVE  IsAbove(p, r)
<1>1. \A s \in Paths, n \in Nat : n <= Len(s) =>
        Len(SubSeq(s, 1, n)) = n /\ \A i \in 1 .. n : SubSeq(s, 1, n)[i] = s[i]
  BY SubSeqProperties DEF Paths
<1>2. Len(p) \in Nat /\ Len(q) \in Nat /\ Len(r) \in Nat
  BY DEF Paths
<1>3. SubSeq(r, 1, Len(p)) \in Paths
  BY <1>2, SubSeqProperties DEF IsAbove, Paths
<1>4. \A i \in 1 .. Len(p) : p[i] = q[i] /\ q[i] = r[i]
  BY <1>1, <1>2 DEF IsAbove
<1>5. Len(SubSeq(r, 1, Len(p))) = Len(p) /\ \A i \in 1 .. Len(p) : SubSeq(r, 1, Len(p))[i] = r[i]
  BY <1>1, <1>2 DEF IsAbove
<1>6. SubSeq(r, 1, Len(p)) = p
  BY <1>3, <1>4, <1>5, SeqEqual DEF Paths
<1> QED
  BY <1>2, <1>6 DEF IsAbove

LEMMA AboveItself ==
  ASSUME NEW path \in Paths
  PROVE  IsAbove(path, path)
  BY SubSeqFull DEF IsAbove, Paths

LEMMA ParentIsPath ==
  ASSUME NEW path \in Paths, Len(path) # 0
  PROVE  /\ ParentOf(path) \in Paths
         /\ Len(ParentOf(path)) = Len(path) - 1
<1>1. Len(path) \in Nat /\ \A i \in 1 .. Len(path) : path[i] \in STRING
  BY ElementOfSeq DEF Paths
<1>2. \A i \in 1 .. (Len(path) - 1) : path[i] \in STRING
  BY <1>1
<1>3. /\ SubSeq(path, 1, Len(path) - 1) \in Seq(STRING)
      /\ Len(SubSeq(path, 1, Len(path) - 1)) =
           IF 1 <= Len(path) - 1 THEN (Len(path) - 1) - 1 + 1 ELSE 0
  BY <1>1, <1>2, SubSeqProperties
<1>4. ParentOf(path) \in Paths
  BY <1>3 DEF ParentOf, Paths
<1> DEFINE n == Len(path) - 1
<1>5. n \in Nat /\ Len(ParentOf(path)) = IF 1 <= n THEN n - 1 + 1 ELSE 0
  BY <1>1, <1>3 DEF ParentOf
<1> HIDE DEF n
<1>6. Len(ParentOf(path)) = n
  BY <1>5
<1> QED
  BY <1>4, <1>6 DEF n

LEMMA ParentIsAbove ==
  ASSUME NEW path \in Paths, Len(path) > 1
  PROVE  /\ ParentOf(path) \in OnPath(path)
         /\ Len(ParentOf(path)) = Len(path) - 1
         /\ \A i \in 1 .. (Len(path) - 1) : ParentOf(path)[i] = path[i]
<1>1. /\ Len(path) \in Nat /\ Len(path) - 1 \in 1 .. Len(path)
      /\ \A i \in 1 .. Len(path) : path[i] \in STRING
  BY ElementOfSeq DEF Paths
<1>2. ParentOf(path) \in OnPath(path)
  BY <1>1 DEF ParentOf, OnPath
<1> DEFINE n == Len(path) - 1
<1>3. /\ Len(SubSeq(path, 1, n)) = IF 1 <= n THEN n - 1 + 1 ELSE 0
      /\ \A i \in 1 .. n - 1 + 1 : SubSeq(path, 1, n)[i] = path[1 + i - 1]
  <2>1. 1 \in Int /\ n \in Int /\ \A i \in 1 .. n : path[i] \in STRING
    BY <1>1
  <2> QED
    BY <2>1, SubSeqProperties
<1>4. n \in Nat /\ n >= 1 /\ ParentOf(path) = SubSeq(path, 1, n)
  BY <1>1 DEF ParentOf
<1> HIDE DEF n
<1>5. Len(ParentOf(path)) = n /\ \A i \in 1 .. n : ParentOf(path)[i] = path[i]
  BY <1>3, <1>4
<1> QED
  BY <1>2, <1>5 DEF n

LEMMA PathIsOnPath ==
  ASSUME NEW path \in Paths, path # <<>>
  PROVE  path \in OnPath(path)
  BY OnPathIsAbove, AboveItself

LEMMA NotWildLevels ==
  ASSUME NEW topic, WellFormed(topic), ~ IsWild(topic)
  PROVE  \A i \in 1 .. Len(Levels(topic)) : Levels(topic)[i] \notin {Hash, Plus}
<1>1. topic \in Paths /\ topic # <<>>
  BY DEF WellFormed, Paths
<1>2. \A i \in 1 .. Len(topic) : topic[i] \notin {Hash, Plus}
  BY <1>1 DEF IsWild, Paths
<1>3. Levels(topic) = topic \/ Levels(topic) = Tail(topic)
  BY DEF Levels
<1>4. /\ Len(topic) \in Nat
      /\ Len(Tail(topic)) = Len(topic) - 1
      /\ \A i \in 1 .. Len(Tail(topic)) : Tail(topic)[i] = topic[i + 1]
  BY <1>1, HeadTailProperties DEF Paths
<1> QED
  BY <1>2, <1>3, <1>4

LEMMA LeafPathsAre ==
  ASSUME NEW filter, WellFormed(filter)
  PROVE  /\ LeafPathsOf(filter) =
              {Levels(filter)} \cup
                (IF LastOf(filter) = Hash THEN {ParentOf(Levels(filter))} ELSE {})
         /\ LastOf(filter) = Hash => /\ IsWild(filter)
                                     /\ ParentOf(Levels(filter)) \in Paths
                                     /\ Len(ParentOf(Levels(filter))) = Len(Levels(filter)) - 1
                                     /\ ParentOf(Levels(filter)) # Levels(filter)
<1>1. LastOf(Levels(filter)) = LastOf(filter) /\ HomeOf(filter) = Levels(filter)
  BY LevelsOfWellFormed, HomeIsLevels
<1>2. /\ ParentOf(Levels(filter)) \in Paths
      /\ Len(ParentOf(Levels(filter))) = Len(Levels(filter)) - 1
  BY LevelsOfWellFormed, ParentIsPath
<1>3. ASSUME LastOf(filter) = Hash PROVE IsWild(filter)
  <2>1. filter \in Paths /\ Len(filter) \in DOMAIN filter
    BY EmptySeq DEF WellFormed, Paths
  <2> QED
    BY <2>1, <1>3 DEF IsWild, LastOf
<1>4. ParentOf(Levels(filter)) # Levels(filter)
  BY <1>2, LevelsOfWellFormed
<1> QED
  BY <1>1, <1>2, <1>3, <1>4 DEF LeafPathsOf

-----------------------------------------------------------------------------
(* The shape of a trie in which the filters F were subscribed to and       *)
(* messages on the topics T were retained.                                 *)

HoldsSubscribers(at, leaf, F) ==
  /\ at[2] \in F /\ IsWild(at[2])
  /\ at[1] \in LeafPathsOf(at[2])
  /\ leaf.retain = NoRetain

HoldsRetained(at, leaf, T) ==
  /\ at[2] \in T /\ ~ IsWild(at[2])
  /\ at[1] = Levels(at[2])
  /\ leaf.subs = EmptyMap

IsLeaf(leaf) == leaf = [subs |-> leaf.subs, retain |-> leaf.retain]

IsTrie(trie) ==
  /\ trie = [foliage |-> trie.foliage, branches |-> trie.branches,
             leaves |-> trie.leaves]
  /\ trie.foliage = [topic \in DOMAIN trie.foliage |-> trie.foliage[topic]]
  /\ trie.leaves = [at \in DOMAIN trie.leaves |-> trie.leaves[at]]
  /\ \A at \in DOMAIN trie.leaves : at = <<at[1], at[2]>>

BranchShape(branches) ==
  /\ branches \subseteq Paths \ {<<>>}
  /\ \A path \in branches : OnPath(path) \subseteq branches

LeafShape(branches, leaves, F, T) ==
  /\ DOMAIN leaves \subseteq Paths \X (F \cup T)
  /\ \A at \in DOMAIN leaves :
       /\ IsLeaf(leaves[at])
       /\ at[1] \in branches \cup {<<>>}
       /\ HoldsSubscribers(at, leaves[at], F) \/ HoldsRetained(at, leaves[at], T)

\* The leaf in the parent of a "#" branch holds what the leaf in that branch does.
ParentHolds(leaves, F) ==
  \A filter \in F :
    LET home   == <<Levels(filter), filter>>
        parent == <<ParentOf(Levels(filter)), filter>>
    IN  LastOf(filter) = Hash /\ home \in DOMAIN leaves =>
          /\ parent \in DOMAIN leaves
          /\ \A identity \in DOMAIN leaves[home].subs :
               /\ identity \in DOMAIN leaves[parent].subs
               /\ leaves[parent].subs[identity] = leaves[home].subs[identity]

\* A branch stays only while a leaf is in it or below it.
AllBranchesLive(branches, leaves) ==
  \A path \in branches : \E at \in DOMAIN leaves : IsAbove(path, at[1])

TrieShape(trie, F, T) ==
  /\ IsTrie(trie)
  /\ DOMAIN trie.foliage \subseteq F
  /\ BranchShape(trie.branches)
  /\ LeafShape(trie.branches, trie.leaves, F, T)
  /\ ParentHolds(trie.leaves, F)
  /\ AllBranchesLive(trie.branches, trie.leaves)

ShapeArguments(F, T) ==
  /\ \A filter \in F : WellFormed(filter)
  /\ \A topic \in T : WellFormed(topic) /\ ~ IsWild(topic)

LEMMA NewTrieShape ==
  ASSUME NEW F, NEW T
  PROVE  TrieShape(NewTrie, F, T)
<1>1. DOMAIN EmptyMap = {} /\ EmptyMap = [x \in DOMAIN EmptyMap |-> EmptyMap[x]]
  BY DEF EmptyMap
<1> QED
  BY <1>1 DEF TrieShape, NewTrie, IsTrie, BranchShape, LeafShape, ParentHolds, AllBranchesLive

-----------------------------------------------------------------------------
(* Adding branches                                                         *)

\* GetBranch and the leaf it is called for: branches are only added on the way.
LEMMA GrowBranches ==
  ASSUME NEW branches, BranchShape(branches), NEW path \in Paths
  PROVE  BranchShape(branches \cup OnPath(path))
<1> DEFINE grown == branches \cup OnPath(path)
<1>1. grown \subseteq Paths \ {<<>>}
  BY OnPathIsAbove DEF BranchShape
<1>2. ASSUME NEW p \in OnPath(path), NEW q \in OnPath(p) PROVE q \in OnPath(path)
  <2>1. p \in Paths /\ IsAbove(p, path)
    BY <1>2, OnPathIsAbove
  <2>2. q \in Paths /\ q # <<>> /\ IsAbove(q, p)
    BY <1>2, <2>1, OnPathIsAbove
  <2> QED
    BY <2>1, <2>2, AboveIsTransitive, OnPathIsAbove
<1> QED
  BY <1>1, <1>2 DEF BranchShape

LEMMA GrownBranchesLive ==
  ASSUME NEW branches, NEW leaves, NEW grown, NEW path \in Paths,
         AllBranchesLive(branches, leaves),
         DOMAIN leaves \subseteq DOMAIN grown,
         \E at \in DOMAIN grown : at[1] = path
  PROVE  AllBranchesLive(branches \cup OnPath(path), grown)
  BY OnPathIsAbove DEF AllBranchesLive

-----------------------------------------------------------------------------
(* Removing branches                                                       *)

LEMMA CleanBranches ==
  ASSUME NEW branches, BranchShape(branches), NEW leaves, NEW path \in Paths
  PROVE  BranchShape(branches \ Cleaned(branches, leaves, path))
<1> DEFINE dead == Cleaned(branches, leaves, path)
<1> SUFFICES ASSUME NEW q \in branches \ dead, NEW p \in OnPath(q)
             PROVE  p \in branches \ dead
  BY DEF BranchShape
<1>1. p \in branches /\ q \in branches /\ p \in Paths /\ q \in Paths
  BY DEF BranchShape
<1>2. IsAbove(p, q)
  BY <1>1, OnPathIsAbove
<1>3. ASSUME p \in dead PROVE FALSE
  <2>1. \A below \in branches :
          IsAbove(p, below) => below \in OnPath(path) /\ \A at \in DOMAIN leaves : at[1] # below
    BY <1>3 DEF Cleaned
  <2>2. \A below \in branches : IsAbove(q, below) => IsAbove(p, below)
    BY <1>1, <1>2, AboveIsTransitive DEF BranchShape
  <2>3. q \in OnPath(path)
    BY <1>1, <1>2, <2>1
  <2> QED
    BY <2>1, <2>2, <2>3 DEF Cleaned
<1> QED
  BY <1>1, <1>3

LEMMA CleanKeepsLeaves ==
  ASSUME NEW branches, BranchShape(branches), NEW leaves, NEW path \in Paths,
         NEW at \in DOMAIN leaves, at[1] \in branches \cup {<<>>}
  PROVE  at[1] \in (branches \ Cleaned(branches, leaves, path)) \cup {<<>>}
  BY AboveItself DEF Cleaned, BranchShape

LEMMA CleanLeavesLive ==
  ASSUME NEW branches, BranchShape(branches), NEW leaves, NEW kept,
         NEW path \in Paths,
         AllBranchesLive(branches, leaves),
         \A at \in DOMAIN leaves : at[1] \in Paths,
         \A at \in DOMAIN leaves : at \in DOMAIN kept \/ at[1] = path
  PROVE  AllBranchesLive(branches \ Cleaned(branches, kept, path), kept)
<1> SUFFICES ASSUME NEW q \in branches, q \notin Cleaned(branches, kept, path),
                    \A at \in DOMAIN kept : ~ IsAbove(q, at[1])
             PROVE  FALSE
  BY DEF AllBranchesLive
<1>1. branches \subseteq Paths \ {<<>>}
  BY DEF BranchShape
<1>2. IsAbove(q, path)
  BY DEF AllBranchesLive
<1>3. q \in OnPath(path)
  BY <1>1, <1>2, OnPathIsAbove
<1>4. PICK below \in branches :
        IsAbove(q, below) /\ (below \in OnPath(path) => \E at \in DOMAIN kept : at[1] = below)
  BY <1>3 DEF Cleaned
<1>5. below \notin OnPath(path)
  BY <1>4
<1>6. PICK at \in DOMAIN leaves : IsAbove(below, at[1])
  BY DEF AllBranchesLive
<1>7. at[1] # path
  BY <1>1, <1>5, <1>6, OnPathIsAbove
<1> QED
  BY <1>1, <1>4, <1>6, <1>7, AboveIsTransitive

-----------------------------------------------------------------------------
(* Subscribe                                                               *)

LEMMA SubscribeForm ==
  ASSUME NEW trie, IsTrie(trie), NEW filter, NEW identity, NEW subscriber,
         WellFormed(filter)
  PROVE  LET next  == Subscribe(trie, filter, identity, subscriber)
             added == LeafPathsOf(filter) \X {filter}
         IN  /\ IsTrie(next)
             /\ DOMAIN next.foliage = DOMAIN trie.foliage \cup {filter}
             /\ IF IsWild(filter)
                THEN /\ \A topic \in DOMAIN trie.foliage : next.foliage[topic] = trie.foliage[topic]
                     /\ next.foliage[filter] \in {EmptyMap} \cup {trie.foliage[filter]}
                     /\ next.branches = trie.branches \cup OnPath(Levels(filter))
                     /\ DOMAIN next.leaves = DOMAIN trie.leaves \cup added
                     /\ \A at \in DOMAIN trie.leaves \ added : next.leaves[at] = trie.leaves[at]
                     /\ \A at \in added : next.leaves[at] =
                          [LeafAt(trie, at[1], at[2]) EXCEPT !.subs = Put(@, identity, subscriber)]
                ELSE /\ \A topic \in DOMAIN trie.foliage \ {filter} :
                          next.foliage[topic] = trie.foliage[topic]
                     /\ next.foliage[filter] =
                          Put(IF filter \in DOMAIN trie.foliage THEN trie.foliage[filter] ELSE EmptyMap,
                              identity, subscriber)
                     /\ next.branches = trie.branches /\ next.leaves = trie.leaves
<1> DEFINE foliated == [trie EXCEPT !.foliage = Foliate(@, filter)]
           next  == Subscribe(trie, filter, identity, subscriber)
           added == LeafPathsOf(filter) \X {filter}
<1>1. foliated = [foliage |-> Foliate(trie.foliage, filter), branches |-> trie.branches,
                  leaves |-> trie.leaves]
  BY DEF IsTrie
<1>2. /\ DOMAIN Foliate(trie.foliage, filter) = DOMAIN trie.foliage \cup {filter}
      /\ Foliate(trie.foliage, filter) =
           [topic \in DOMAIN Foliate(trie.foliage, filter) |-> Foliate(trie.foliage, filter)[topic]]
      /\ \A topic \in DOMAIN trie.foliage : Foliate(trie.foliage, filter)[topic] = trie.foliage[topic]
      /\ Foliate(trie.foliage, filter)[filter] =
           IF filter \in DOMAIN trie.foliage THEN trie.foliage[filter] ELSE EmptyMap
  BY DEF Foliate, Put, IsTrie
<1> HIDE DEF foliated
<1>3. CASE IsWild(filter)
  <2>1. next = AddBranch(foliated, filter, identity, subscriber)
    BY <1>3 DEF Subscribe, foliated
  <2>2. \A at : LeafAt(foliated, at[1], at[2]) = LeafAt(trie, at[1], at[2])
    BY <1>1 DEF LeafAt
  <2>3. next = [foliage |-> foliated.foliage,
                branches |-> trie.branches \cup OnPath(Levels(filter)),
                leaves |-> [at \in DOMAIN trie.leaves \cup added |->
                   LET leaf == LeafAt(foliated, at[1], at[2])
                   IN  IF at \in added
                       THEN [leaf EXCEPT !.subs = Put(@, identity, subscriber)]
                       ELSE leaf]]
    <3>1. HomeOf(filter) = Levels(filter)
      BY HomeIsLevels
    <3> QED
      BY <1>1, <2>1, <3>1 DEF AddBranch
  <2>4. IsTrie(next)
    <3>1. \A at \in DOMAIN trie.leaves \cup added : at = <<at[1], at[2]>>
      BY DEF IsTrie
    <3> QED
      BY <2>3, <1>1, <1>2, <3>1 DEF IsTrie
  <2>5. /\ DOMAIN next.leaves = DOMAIN trie.leaves \cup added
        /\ \A at \in added : next.leaves[at] =
              [LeafAt(trie, at[1], at[2]) EXCEPT !.subs = Put(@, identity, subscriber)]
        /\ \A at \in DOMAIN trie.leaves \ added : next.leaves[at] = LeafAt(trie, at[1], at[2])
    BY <2>2, <2>3
  <2>6. \A at \in DOMAIN trie.leaves : LeafAt(trie, at[1], at[2]) = trie.leaves[at]
    BY DEF LeafAt, IsTrie
  <2>7. /\ DOMAIN next.foliage = DOMAIN trie.foliage \cup {filter}
        /\ \A topic \in DOMAIN trie.foliage : next.foliage[topic] = trie.foliage[topic]
        /\ next.foliage[filter] \in {EmptyMap} \cup {trie.foliage[filter]}
    BY <1>1, <1>2, <2>3
  <2>8. next.branches = trie.branches \cup OnPath(Levels(filter))
    BY <2>3
  <2> HIDE DEF added, next
  <2>9. \A at \in DOMAIN trie.leaves \ added : next.leaves[at] = trie.leaves[at]
    BY <2>5, <2>6
  <2> QED
    BY <1>3, <2>4, <2>5, <2>7, <2>8, <2>9 DEF added, next
<1>4. CASE ~ IsWild(filter)
  <2>1. next = [foliated EXCEPT !.foliage[filter] = Put(@, identity, subscriber)]
    BY <1>4 DEF Subscribe, foliated
  <2> QED
    BY <1>1, <1>2, <1>4, <2>1 DEF IsTrie
<1> QED
  BY <1>3, <1>4

LEMMA SubsOfWild ==
  ASSUME NEW trie, NEW filter, WellFormed(filter), IsWild(filter)
  PROVE  SubsOf(trie, filter) =
           IF <<Levels(filter), filter>> \in DOMAIN trie.leaves
           THEN trie.leaves[<<Levels(filter), filter>>].subs ELSE EmptyMap
  BY HomeIsLevels DEF SubsOf, LeafAt, NewLeaf

\* The leaves of a wildcard filter never hold a retained message.
LEMMA WildLeaf ==
  ASSUME NEW F, NEW T, NEW trie, TrieShape(trie, F, T), NEW path, NEW filter, IsWild(filter)
  PROVE  /\ IsLeaf(LeafAt(trie, path, filter))
         /\ LeafAt(trie, path, filter).retain = NoRetain
<1>1. CASE <<path, filter>> \in DOMAIN trie.leaves
  BY <1>1 DEF TrieShape, LeafShape, HoldsRetained, HoldsSubscribers, LeafAt
<1>2. CASE <<path, filter>> \notin DOMAIN trie.leaves
  BY <1>2 DEF LeafAt, NewLeaf, IsLeaf
<1> QED
  BY <1>1, <1>2

LEMMA SubscribeSubs ==
  ASSUME NEW F, NEW T, ShapeArguments(F, T), NEW trie, TrieShape(trie, F, T),
         NEW filter \in F, NEW identity, NEW subscriber, NEW other \in F
  PROVE  SubsOf(Subscribe(trie, filter, identity, subscriber), other) =
           IF other = filter THEN Put(SubsOf(trie, filter), identity, subscriber)
                             ELSE SubsOf(trie, other)
<1> DEFINE next  == Subscribe(trie, filter, identity, subscriber)
           added == LeafPathsOf(filter) \X {filter}
<1>1. WellFormed(filter) /\ WellFormed(other) /\ IsTrie(trie)
  BY DEF ShapeArguments, TrieShape
<1>2. CASE IsWild(filter)
  <2>1. /\ DOMAIN next.foliage = DOMAIN trie.foliage \cup {filter}
        /\ \A topic \in DOMAIN trie.foliage : next.foliage[topic] = trie.foliage[topic]
        /\ DOMAIN next.leaves = DOMAIN trie.leaves \cup added
        /\ \A at \in DOMAIN trie.leaves \ added : next.leaves[at] = trie.leaves[at]
        /\ \A at \in added : next.leaves[at] =
              [LeafAt(trie, at[1], at[2]) EXCEPT !.subs = Put(@, identity, subscriber)]
    BY <1>1, <1>2, SubscribeForm
  <2> HIDE DEF next
  <2>2. CASE other = filter
    <3> DEFINE at == <<Levels(filter), filter>>
    <3>1. at \in added /\ at[1] = Levels(filter) /\ at[2] = filter
      BY <1>1, LeafPathsAre
    <3>2. IsLeaf(LeafAt(trie, Levels(filter), filter))
      BY <1>2, WildLeaf
    <3>3. next.leaves[at].subs = Put(LeafAt(trie, Levels(filter), filter).subs, identity, subscriber)
      BY <2>1, <3>1, <3>2 DEF IsLeaf
    <3>4. SubsOf(trie, filter) = LeafAt(trie, Levels(filter), filter).subs
      BY <1>1, <1>2, HomeIsLevels DEF SubsOf
    <3>5. SubsOf(next, filter) = next.leaves[at].subs
      BY <1>1, <1>2, <2>1, <3>1, SubsOfWild
    <3> QED
      BY <2>2, <3>3, <3>4, <3>5 DEF next
  <2>3. CASE other # filter /\ IsWild(other)
    <3>1. <<Levels(other), other>> \notin added
      BY <2>3
    <3> QED
      BY <1>1, <2>1, <2>3, <3>1, SubsOfWild DEF next
  <2>4. CASE other # filter /\ ~ IsWild(other)
    BY <2>1, <2>4 DEF next, SubsOf
  <2> QED
    BY <2>2, <2>3, <2>4
<1>3. CASE ~ IsWild(filter)
  <2>1. /\ DOMAIN next.foliage = DOMAIN trie.foliage \cup {filter}
        /\ \A topic \in DOMAIN trie.foliage \ {filter} : next.foliage[topic] = trie.foliage[topic]
        /\ next.foliage[filter] =
             Put(IF filter \in DOMAIN trie.foliage THEN trie.foliage[filter] ELSE EmptyMap,
                 identity, subscriber)
        /\ next.leaves = trie.leaves
    BY <1>1, <1>3, SubscribeForm
  <2> HIDE DEF next
  <2>2. CASE IsWild(other)
    <3> DEFINE at == <<Levels(other), other>>
    <3>a. SubsOf(next, other) = IF at \in DOMAIN next.leaves THEN next.leaves[at].subs ELSE EmptyMap
      BY <1>1, <2>2, SubsOfWild
    <3>b. SubsOf(trie, other) = IF at \in DOMAIN trie.leaves THEN trie.leaves[at].subs ELSE EmptyMap
      BY <1>1, <2>2, SubsOfWild
    <3>1. SubsOf(next, other) = SubsOf(trie, other)
      BY <2>1, <3>a, <3>b
    <3>2. other # filter
      BY <1>3, <2>2
    <3> QED
      BY <3>1, <3>2 DEF next
  <2>3. CASE ~ IsWild(other)
    BY <1>3, <2>1, <2>3 DEF next, SubsOf
  <2> QED
    BY <2>2, <2>3
<1> QED
  BY <1>2, <1>3

LEMMA SubscribeShape ==
  ASSUME NEW F, NEW T, ShapeArguments(F, T), NEW trie, TrieShape(trie, F, T),
         NEW filter \in F, NEW identity, NEW subscriber
  PROVE  /\ TrieShape(Subscribe(trie, filter, identity, subscriber), F, T)
         /\ Retained(Subscribe(trie, filter, identity, subscriber)) = Retained(trie)
         /\ \A at \in Retained(trie) :
              Subscribe(trie, filter, identity, subscriber).leaves[at] = trie.leaves[at]
<1> DEFINE next  == Subscribe(trie, filter, identity, subscriber)
           added == LeafPathsOf(filter) \X {filter}
           path  == Levels(filter)
<1>1. WellFormed(filter) /\ IsTrie(trie)
  BY DEF ShapeArguments, TrieShape
<1>2. CASE IsWild(filter)
  <2>1. /\ IsTrie(next)
        /\ DOMAIN next.foliage = DOMAIN trie.foliage \cup {filter}
        /\ next.branches = trie.branches \cup OnPath(path)
        /\ DOMAIN next.leaves = DOMAIN trie.leaves \cup added
        /\ \A at \in DOMAIN trie.leaves \ added : next.leaves[at] = trie.leaves[at]
        /\ \A at \in added : next.leaves[at] =
              [LeafAt(trie, at[1], at[2]) EXCEPT !.subs = Put(@, identity, subscriber)]
    BY <1>1, <1>2, SubscribeForm
  <2> HIDE DEF next
  <2>2. path \in Paths /\ Len(path) \in Nat \ {0} /\ path # <<>>
    BY <1>1, LevelsOfWellFormed DEF WellFormed
  <2>3. LeafPathsOf(filter) \subseteq Paths \cap (OnPath(path) \cup {<<>>})
    <3>1. path \in OnPath(path)
      BY <2>2, PathIsOnPath
    <3>2. ASSUME LastOf(filter) = Hash PROVE ParentOf(path) \in Paths \cap (OnPath(path) \cup {<<>>})
      <4>1. ParentOf(path) \in Paths /\ Len(ParentOf(path)) = Len(path) - 1
        BY <1>1, <3>2, LeafPathsAre
      <4>2. CASE Len(path) = 1
        <5>1. ParentOf(path) = <<>>
          BY <4>1, <4>2, EmptySeq DEF Paths
        <5> QED
          BY <4>1, <5>1
      <4>3. CASE Len(path) > 1
        BY <2>2, <4>1, <4>3, ParentIsAbove
      <4>4. Len(path) = 1 \/ Len(path) > 1
        <5>1. Len(path) \in Nat \ {0}
          BY <2>2
        <5>2. \A n \in Nat \ {0} : n = 1 \/ n > 1
          OBVIOUS
        <5> QED
          BY <5>1, <5>2, Zenon
      <4> QED
        BY <4>2, <4>3, <4>4
    <3> QED
      BY <1>1, <2>2, <3>1, <3>2, LeafPathsAre
  <2>4. \A at \in added :
          /\ IsLeaf(next.leaves[at]) /\ next.leaves[at].retain = NoRetain
          /\ next.leaves[at].subs = Put(LeafAt(trie, at[1], filter).subs, identity, subscriber)
    <3> SUFFICES ASSUME NEW at \in added
                 PROVE  /\ IsLeaf(next.leaves[at]) /\ next.leaves[at].retain = NoRetain
                        /\ next.leaves[at].subs =
                             Put(LeafAt(trie, at[1], filter).subs, identity, subscriber)
      OBVIOUS
    <3> DEFINE leaf == LeafAt(trie, at[1], filter)
    <3>1. at[2] = filter /\ next.leaves[at] = [leaf EXCEPT !.subs = Put(@, identity, subscriber)]
      BY <2>1
    <3>2. IsLeaf(leaf) /\ leaf.retain = NoRetain
      BY <1>2, WildLeaf
    <3> HIDE DEF leaf
    <3>3. next.leaves[at] = [subs |-> Put(leaf.subs, identity, subscriber), retain |-> NoRetain]
      BY <3>1, <3>2 DEF IsLeaf
    <3> QED
      BY <3>3 DEF IsLeaf, leaf
  <2>5. LeafShape(next.branches, next.leaves, F, T)
    <3>1. DOMAIN next.leaves \subseteq Paths \X (F \cup T)
      BY <2>1, <2>3 DEF TrieShape, LeafShape
    <3>2. ASSUME NEW at \in added
          PROVE  /\ IsLeaf(next.leaves[at])
                 /\ at[1] \in next.branches \cup {<<>>}
                 /\ HoldsSubscribers(at, next.leaves[at], F)
      BY <1>2, <2>1, <2>3, <2>4 DEF HoldsSubscribers
    <3>3. ASSUME NEW at \in DOMAIN trie.leaves \ added
          PROVE  /\ IsLeaf(next.leaves[at])
                 /\ at[1] \in next.branches \cup {<<>>}
                 /\ HoldsSubscribers(at, next.leaves[at], F) \/ HoldsRetained(at, next.leaves[at], T)
      BY <2>1 DEF TrieShape, LeafShape
    <3> QED
      BY <2>1, <3>1, <3>2, <3>3 DEF LeafShape
  <2>6. ParentHolds(next.leaves, F)
    <3> SUFFICES ASSUME NEW other \in F, LastOf(other) = Hash,
                        <<Levels(other), other>> \in DOMAIN next.leaves
                 PROVE  LET home   == <<Levels(other), other>>
                            parent == <<ParentOf(Levels(other)), other>>
                        IN  /\ parent \in DOMAIN next.leaves
                            /\ \A i \in DOMAIN next.leaves[home].subs :
                                 /\ i \in DOMAIN next.leaves[parent].subs
                                 /\ next.leaves[parent].subs[i] = next.leaves[home].subs[i]
      BY DEF ParentHolds
    <3> DEFINE home   == <<Levels(other), other>>
               parent == <<ParentOf(Levels(other)), other>>
    <3>1. home \in DOMAIN trie.leaves =>
            /\ parent \in DOMAIN trie.leaves
            /\ \A i \in DOMAIN trie.leaves[home].subs :
                 /\ i \in DOMAIN trie.leaves[parent].subs
                 /\ trie.leaves[parent].subs[i] = trie.leaves[home].subs[i]
      BY DEF TrieShape, ParentHolds
    <3>2. CASE other # filter
      <4>1. home \notin added /\ parent \notin added
        BY <3>2
      <4> QED
        BY <2>1, <3>1, <4>1
    <3>3. CASE other = filter
      <4>1. home \in added /\ parent \in added
        BY <1>1, <3>3, LeafPathsAre
      <4>2. /\ next.leaves[home].subs = Put(LeafAt(trie, path, filter).subs, identity, subscriber)
            /\ next.leaves[parent].subs =
                 Put(LeafAt(trie, ParentOf(path), filter).subs, identity, subscriber)
        BY <2>4, <3>3, <4>1
      <4>3. \A i \in DOMAIN LeafAt(trie, path, filter).subs :
              /\ i \in DOMAIN LeafAt(trie, ParentOf(path), filter).subs
              /\ LeafAt(trie, ParentOf(path), filter).subs[i] = LeafAt(trie, path, filter).subs[i]
        BY <3>1, <3>3 DEF LeafAt, NewLeaf, EmptyMap
      <4> HIDE DEF home, parent
      <4>4. \A i \in DOMAIN next.leaves[home].subs :
              /\ i \in DOMAIN next.leaves[parent].subs
              /\ next.leaves[parent].subs[i] = next.leaves[home].subs[i]
        BY <4>2, <4>3 DEF Put
      <4> QED
        BY <2>1, <4>1, <4>4 DEF home, parent
    <3> QED
      BY <3>2, <3>3
  <2>7. AllBranchesLive(next.branches, next.leaves)
    <3>1. <<path, filter>> \in DOMAIN next.leaves
      BY <1>1, <2>1, LeafPathsAre
    <3>2. \E at \in DOMAIN next.leaves : at[1] = path
      BY <3>1
    <3> QED
      BY <2>1, <2>2, <3>2, GrownBranchesLive DEF TrieShape
  <2>8. BranchShape(next.branches)
    <3>1. BranchShape(trie.branches)
      BY DEF TrieShape
    <3>2. BranchShape(trie.branches \cup OnPath(path))
      BY <2>2, <3>1, GrowBranches
    <3> QED
      BY <2>1, <3>2
  <2>9. \A at \in DOMAIN trie.leaves \cap added : trie.leaves[at].retain = NoRetain
    BY <1>2 DEF TrieShape, LeafShape, HoldsRetained, HoldsSubscribers
  <2>10. Retained(next) = Retained(trie) /\ \A at \in Retained(trie) : next.leaves[at] = trie.leaves[at]
    BY <2>1, <2>4, <2>9 DEF Retained, HasRetain
  <2> QED
    BY <2>1, <2>5, <2>6, <2>7, <2>8, <2>10 DEF TrieShape, next
<1>3. CASE ~ IsWild(filter)
  <2>1. /\ IsTrie(next) /\ DOMAIN next.foliage = DOMAIN trie.foliage \cup {filter}
        /\ next.branches = trie.branches /\ next.leaves = trie.leaves
    BY <1>1, <1>3, SubscribeForm
  <2> QED
    BY <2>1 DEF TrieShape, Retained, HasRetain
<1> QED
  BY <1>2, <1>3

-----------------------------------------------------------------------------
(* Unsubscribe                                                             *)

\* ScanRemoveLeaf meets no other leaf of the filter than the one in the branch
\* of its last level: never the one in the parent of a "#" branch.
LEMMA HoldingLeafIs ==
  ASSUME NEW F, NEW T, ShapeArguments(F, T), NEW trie, TrieShape(trie, F, T),
         NEW filter \in F, IsWild(filter)
  PROVE  HoldingLeafOf(trie, filter) =
           IF <<Levels(filter), filter>> \in DOMAIN trie.leaves THEN {Levels(filter)} ELSE {}
<1> DEFINE path == Levels(filter)
<1>1. /\ WellFormed(filter)
      /\ path \in Paths /\ Len(path) \in Nat \ {0}
      /\ \A i \in 1 .. (Len(path) - 1) : path[i] # Hash
  BY LevelsOfWellFormed DEF ShapeArguments
<1>2. ASSUME NEW p \in HoldingLeafOf(trie, filter)
      PROVE  p = path /\ <<path, filter>> \in DOMAIN trie.leaves
  <2>1. /\ p \in ScannedFor(trie, filter) /\ <<p, filter>> \in DOMAIN trie.leaves
    BY <1>2 DEF HoldingLeafOf
  <2>2. p \in LeafPathsOf(filter)
    <3>1. LeafShape(trie.branches, trie.leaves, F, T)
      BY DEF TrieShape
    <3>2. \/ HoldsSubscribers(<<p, filter>>, trie.leaves[<<p, filter>>], F)
          \/ HoldsRetained(<<p, filter>>, trie.leaves[<<p, filter>>], T)
      BY <2>1, <3>1 DEF LeafShape
    <3> QED
      BY <3>2 DEF HoldsSubscribers, HoldsRetained
  <2>3. CASE p = path
    BY <2>1, <2>3
  <2>4. CASE p # path
    <3>1. p = ParentOf(path) /\ Len(p) = Len(path) - 1
      BY <1>1, <2>2, <2>4, LeafPathsAre
    <3>2. p \in trie.branches /\ p[Len(p)] = Hash
      BY <1>1, <2>1, <3>1 DEF ScannedFor
    <3>3. p \in Paths /\ p # <<>>
      BY <3>2 DEF TrieShape, BranchShape
    <3>4. Len(p) \in Nat \ {0}
      BY <3>3, EmptySeq DEF Paths
    <3>5. Len(path) > 1 /\ Len(p) \in 1 .. (Len(path) - 1)
      BY <1>1, <3>1, <3>4
    <3>6. p[Len(p)] = path[Len(p)]
      BY <1>1, <3>1, <3>5, ParentIsAbove
    <3> QED
      BY <1>1, <3>2, <3>5, <3>6
  <2> QED
    BY <2>3, <2>4
<1>3. ASSUME <<path, filter>> \in DOMAIN trie.leaves
      PROVE  path \in HoldingLeafOf(trie, filter)
  <2>1. path # <<>>
    BY <1>1 DEF WellFormed
  <2>2. path \in trie.branches
    <3>1. LeafShape(trie.branches, trie.leaves, F, T)
      BY DEF TrieShape
    <3> QED
      BY <1>3, <2>1, <3>1 DEF LeafShape
  <2> QED
    BY <1>1, <1>3, <2>2 DEF HoldingLeafOf, ScannedFor
<1> QED
  BY <1>2, <1>3

LEMMA UnsubscribeWild ==
  ASSUME NEW F, NEW T, ShapeArguments(F, T), NEW trie, TrieShape(trie, F, T),
         NEW filter \in F, IsWild(filter), NEW identity
  PROVE  LET next == Unsubscribe(trie, filter, identity)
             home == <<Levels(filter), filter>>
             left == Delete(trie.leaves[home].subs, identity)
         IN  IF home \notin DOMAIN trie.leaves THEN next = trie
             ELSE /\ IsTrie(next) /\ next.foliage = trie.foliage
                  /\ next.branches =
                       trie.branches \ Cleaned(trie.branches, next.leaves, Levels(filter))
                  /\ \A at \in DOMAIN trie.leaves \ {home} :
                       at \in DOMAIN next.leaves /\ next.leaves[at] = trie.leaves[at]
                  /\ IF left = EmptyMap
                     THEN DOMAIN next.leaves = DOMAIN trie.leaves \ {home}
                     ELSE /\ DOMAIN next.leaves = DOMAIN trie.leaves
                          /\ next.leaves[home] = [subs |-> left, retain |-> NoRetain]
<1> DEFINE home   == <<Levels(filter), filter>>
           left   == Delete(trie.leaves[home].subs, identity)
           leaves == RemoveLeaf(trie.leaves, home, identity)
           next   == Unsubscribe(trie, filter, identity)
<1>1. next = ScanRemoveLeaf(trie, filter, identity)
  BY DEF Unsubscribe
<1>2. CASE home \notin DOMAIN trie.leaves
  BY <1>1, <1>2, HoldingLeafIs DEF ScanRemoveLeaf
<1>3. CASE home \in DOMAIN trie.leaves
  <2>1. HoldingLeafOf(trie, filter) = {Levels(filter)}
    BY <1>3, HoldingLeafIs
  <2>2. next = [trie EXCEPT !.leaves = leaves,
                            !.branches = @ \ Cleaned(@, leaves, Levels(filter))]
    BY <1>1, <2>1 DEF ScanRemoveLeaf
  <2>3. IsTrie(trie)
    BY DEF TrieShape
  <2>4. next = [foliage |-> trie.foliage,
                branches |-> trie.branches \ Cleaned(trie.branches, leaves, Levels(filter)),
                leaves |-> leaves]
    BY <2>2, <2>3 DEF IsTrie
  <2>5. IsLeaf(trie.leaves[home]) /\ trie.leaves[home].retain = NoRetain
    BY <1>3, WildLeaf DEF LeafAt
  <2>6. [trie.leaves[home] EXCEPT !.subs = Delete(@, identity)] = [subs |-> left, retain |-> NoRetain]
    BY <2>5 DEF IsLeaf
  <2>7. leaves = IF left = EmptyMap THEN Delete(trie.leaves, home)
                 ELSE Put(trie.leaves, home, [subs |-> left, retain |-> NoRetain])
    BY <2>6 DEF RemoveLeaf
  <2> HIDE DEF left, next
  <2>8. CASE left = EmptyMap
    <3>1. /\ DOMAIN leaves = DOMAIN trie.leaves \ {home}
          /\ \A at \in DOMAIN trie.leaves \ {home} : leaves[at] = trie.leaves[at]
          /\ leaves = [at \in DOMAIN leaves |-> leaves[at]]
      BY <2>7, <2>8 DEF Delete
    <3> HIDE DEF leaves, home
    <3> QED
      BY <1>3, <2>3, <2>4, <2>8, <3>1 DEF IsTrie, next, left, home
  <2>9. CASE left # EmptyMap
    <3>1. /\ DOMAIN leaves = DOMAIN trie.leaves
          /\ leaves[home] = [subs |-> left, retain |-> NoRetain]
          /\ \A at \in DOMAIN trie.leaves \ {home} : leaves[at] = trie.leaves[at]
          /\ leaves = [at \in DOMAIN leaves |-> leaves[at]]
      BY <1>3, <2>7, <2>9 DEF Put
    <3> HIDE DEF leaves, home
    <3> QED
      BY <1>3, <2>3, <2>4, <2>9, <3>1 DEF IsTrie, next, left, home
  <2> QED
    BY <2>8, <2>9
<1> QED
  BY <1>2, <1>3

LEMMA UnsubscribeExact ==
  ASSUME NEW trie, IsTrie(trie), NEW filter, ~ IsWild(filter), NEW identity
  PROVE  LET next == Unsubscribe(trie, filter, identity)
         IN  /\ IsTrie(next)
             /\ next.branches = trie.branches /\ next.leaves = trie.leaves
             /\ DOMAIN next.foliage \subseteq DOMAIN trie.foliage
             /\ \A topic \in DOMAIN trie.foliage \ {filter} :
                  topic \in DOMAIN next.foliage /\ next.foliage[topic] = trie.foliage[topic]
             /\ filter \in DOMAIN trie.foliage =>
                  IF filter \in DOMAIN next.foliage
                  THEN next.foliage[filter] = Delete(trie.foliage[filter], identity)
                  ELSE Delete(trie.foliage[filter], identity) = EmptyMap
<1> DEFINE next == Unsubscribe(trie, filter, identity)
           left == Delete(trie.foliage[filter], identity)
<1>1. CASE filter \notin DOMAIN trie.foliage
  <2>1. next = trie
    BY <1>1 DEF Unsubscribe
  <2> QED
    BY <1>1, <2>1
<1>2. CASE filter \in DOMAIN trie.foliage
  <2>1. next = [foliage |-> IF left = EmptyMap THEN Delete(trie.foliage, filter)
                            ELSE Put(trie.foliage, filter, left),
                branches |-> trie.branches, leaves |-> trie.leaves]
    BY <1>2 DEF Unsubscribe, IsTrie
  <2> HIDE DEF next, left
  <2>2. CASE left = EmptyMap
    BY <1>2, <2>1, <2>2 DEF Delete, IsTrie, next, left
  <2>3. CASE left # EmptyMap
    BY <1>2, <2>1, <2>3 DEF Put, IsTrie, next, left
  <2> QED
    BY <2>2, <2>3
<1> QED
  BY <1>1, <1>2

LEMMA DeleteFromEmpty ==
  ASSUME NEW k
  PROVE  Delete(EmptyMap, k) = EmptyMap
  BY DEF Delete, EmptyMap

LEMMA UnsubscribeSubs ==
  ASSUME NEW F, NEW T, ShapeArguments(F, T), NEW trie, TrieShape(trie, F, T),
         NEW filter \in F, NEW identity, NEW other \in F
  PROVE  SubsOf(Unsubscribe(trie, filter, identity), other) =
           IF other = filter THEN Delete(SubsOf(trie, filter), identity)
                             ELSE SubsOf(trie, other)
<1> DEFINE next == Unsubscribe(trie, filter, identity)
<1>1. WellFormed(filter) /\ WellFormed(other) /\ IsTrie(trie)
  BY DEF ShapeArguments, TrieShape
<1>2. CASE IsWild(filter)
  <2> DEFINE home  == <<Levels(filter), filter>>
             left  == Delete(trie.leaves[home].subs, identity)
             there == <<Levels(other), other>>
  <2>1. CASE home \notin DOMAIN trie.leaves
    <3>1. next = trie
      BY <1>2, <2>1, UnsubscribeWild
    <3>2. SubsOf(trie, filter) = EmptyMap
      BY <1>1, <1>2, <2>1, SubsOfWild
    <3> QED
      BY <3>1, <3>2, DeleteFromEmpty
  <2>2. CASE home \in DOMAIN trie.leaves
    <3>1. /\ next.foliage = trie.foliage
          /\ \A at \in DOMAIN trie.leaves \ {home} :
               at \in DOMAIN next.leaves /\ next.leaves[at] = trie.leaves[at]
          /\ IF left = EmptyMap
             THEN DOMAIN next.leaves = DOMAIN trie.leaves \ {home}
             ELSE /\ DOMAIN next.leaves = DOMAIN trie.leaves
                  /\ next.leaves[home] = [subs |-> left, retain |-> NoRetain]
      BY <1>2, <2>2, UnsubscribeWild
    <3> HIDE DEF next
    <3>2. CASE other = filter
      <4>1. SubsOf(trie, filter) = trie.leaves[home].subs
        BY <1>1, <1>2, <2>2, SubsOfWild
      <4>2. SubsOf(next, filter) = left
        BY <1>1, <1>2, <2>2, <3>1, SubsOfWild
      <4> QED
        BY <3>2, <4>1, <4>2 DEF next
    <3>3. CASE other # filter /\ IsWild(other)
      <4>1. there # home
        BY <3>3
      <4>2. there \in DOMAIN next.leaves <=> there \in DOMAIN trie.leaves
        BY <3>1, <4>1
      <4>3. there \in DOMAIN trie.leaves => next.leaves[there] = trie.leaves[there]
        BY <3>1, <4>1
      <4> HIDE DEF there
      <4>4. SubsOf(next, other) = SubsOf(trie, other)
        BY <1>1, <3>3, <4>2, <4>3, SubsOfWild DEF there
      <4> QED
        BY <3>3, <4>4 DEF next
    <3>4. CASE other # filter /\ ~ IsWild(other)
      BY <3>1, <3>4 DEF next, SubsOf
    <3> QED
      BY <3>2, <3>3, <3>4
  <2> QED
    BY <2>1, <2>2
<1>3. CASE ~ IsWild(filter)
  <2>1. /\ next.leaves = trie.leaves
        /\ DOMAIN next.foliage \subseteq DOMAIN trie.foliage
        /\ \A topic \in DOMAIN trie.foliage \ {filter} :
             topic \in DOMAIN next.foliage /\ next.foliage[topic] = trie.foliage[topic]
        /\ filter \in DOMAIN trie.foliage =>
             IF filter \in DOMAIN next.foliage
             THEN next.foliage[filter] = Delete(trie.foliage[filter], identity)
             ELSE Delete(trie.foliage[filter], identity) = EmptyMap
    BY <1>1, <1>3, UnsubscribeExact
  <2> HIDE DEF next
  <2>2. CASE IsWild(other)
    BY <1>1, <1>3, <2>1, <2>2, SubsOfWild DEF next
  <2>3. CASE ~ IsWild(other) /\ other # filter
    BY <1>3, <2>1, <2>3 DEF next, SubsOf
  <2>4. CASE other = filter /\ filter \notin DOMAIN trie.foliage
    BY <1>3, <2>1, <2>4, DeleteFromEmpty DEF next, SubsOf
  <2>5. CASE other = filter /\ filter \in DOMAIN trie.foliage
    <3>1. SubsOf(trie, filter) = trie.foliage[filter]
      BY <1>3, <2>5 DEF SubsOf
    <3> QED
      BY <1>3, <2>1, <2>5, <3>1 DEF next, SubsOf
  <2> QED
    BY <2>2, <2>3, <2>4, <2>5
<1> QED
  BY <1>2, <1>3

LEMMA UnsubscribeShape ==
  ASSUME NEW F, NEW T, ShapeArguments(F, T), NEW trie, TrieShape(trie, F, T),
         NEW filter \in F, NEW identity
  PROVE  /\ TrieShape(Unsubscribe(trie, filter, identity), F, T)
         /\ Retained(Unsubscribe(trie, filter, identity)) = Retained(trie)
         /\ \A at \in Retained(trie) :
              Unsubscribe(trie, filter, identity).leaves[at] = trie.leaves[at]
<1> DEFINE next == Unsubscribe(trie, filter, identity)
           path == Levels(filter)
           home == <<path, filter>>
           left == Delete(trie.leaves[home].subs, identity)
<1>1. /\ WellFormed(filter) /\ IsTrie(trie) /\ BranchShape(trie.branches)
      /\ LeafShape(trie.branches, trie.leaves, F, T) /\ ParentHolds(trie.leaves, F)
      /\ AllBranchesLive(trie.branches, trie.leaves)
      /\ DOMAIN trie.foliage \subseteq F
  BY DEF ShapeArguments, TrieShape
<1>2. CASE ~ IsWild(filter)
  <2>1. /\ IsTrie(next) /\ DOMAIN next.foliage \subseteq DOMAIN trie.foliage
        /\ next.branches = trie.branches /\ next.leaves = trie.leaves
    BY <1>1, <1>2, UnsubscribeExact
  <2> QED
    BY <2>1 DEF TrieShape, Retained, HasRetain
<1>3. CASE IsWild(filter) /\ home \notin DOMAIN trie.leaves
  BY <1>3, UnsubscribeWild
<1>4. CASE IsWild(filter) /\ home \in DOMAIN trie.leaves
  <2>1. /\ IsTrie(next) /\ next.foliage = trie.foliage
        /\ next.branches = trie.branches \ Cleaned(trie.branches, next.leaves, path)
        /\ \A at \in DOMAIN trie.leaves \ {home} :
             at \in DOMAIN next.leaves /\ next.leaves[at] = trie.leaves[at]
        /\ IF left = EmptyMap
           THEN DOMAIN next.leaves = DOMAIN trie.leaves \ {home}
           ELSE /\ DOMAIN next.leaves = DOMAIN trie.leaves
                /\ next.leaves[home] = [subs |-> left, retain |-> NoRetain]
    BY <1>4, UnsubscribeWild
  <2> HIDE DEF next
  <2>2. path \in Paths /\ Len(path) # 0
    BY <1>1, LevelsOfWellFormed
  <2>3. /\ DOMAIN next.leaves \subseteq DOMAIN trie.leaves
        /\ home \in DOMAIN next.leaves =>
             next.leaves[home] = [subs |-> left, retain |-> NoRetain]
    BY <1>4, <2>1
  <2>4. \A at \in DOMAIN trie.leaves : at[1] \in Paths /\ at[1] \in trie.branches \cup {<<>>}
    BY <1>1 DEF LeafShape
  <2>5. BranchShape(next.branches)
    <3>1. BranchShape(trie.branches \ Cleaned(trie.branches, next.leaves, path))
      BY <1>1, <2>2, CleanBranches
    <3> QED
      BY <2>1, <3>1
  <2>6. LeafShape(next.branches, next.leaves, F, T)
    <3>1. DOMAIN next.leaves \subseteq Paths \X (F \cup T)
      BY <1>1, <2>3 DEF LeafShape
    <3>2. ASSUME NEW at \in DOMAIN next.leaves PROVE at[1] \in next.branches \cup {<<>>}
      BY <1>1, <2>1, <2>2, <2>3, <2>4, CleanKeepsLeaves
    <3>3. ASSUME NEW at \in DOMAIN next.leaves, at # home
          PROVE  /\ IsLeaf(next.leaves[at])
                 /\ HoldsSubscribers(at, next.leaves[at], F) \/ HoldsRetained(at, next.leaves[at], T)
      BY <1>1, <2>1, <2>3, <3>3 DEF LeafShape
    <3>4. ASSUME home \in DOMAIN next.leaves
          PROVE  IsLeaf(next.leaves[home]) /\ HoldsSubscribers(home, next.leaves[home], F)
      <4>1. home[1] = path /\ home[2] = filter /\ path \in LeafPathsOf(filter)
        BY <1>1, LeafPathsAre
      <4>2. next.leaves[home].retain = NoRetain /\ IsLeaf(next.leaves[home])
        BY <2>3, <3>4 DEF IsLeaf
      <4> QED
        BY <1>4, <4>1, <4>2 DEF HoldsSubscribers
    <3> HIDE DEF home
    <3> QED
      BY <3>1, <3>2, <3>3, <3>4 DEF LeafShape
  <2>7. ParentHolds(next.leaves, F)
    <3> SUFFICES ASSUME NEW other \in F, LastOf(other) = Hash,
                        <<Levels(other), other>> \in DOMAIN next.leaves
                 PROVE  LET there  == <<Levels(other), other>>
                            parent == <<ParentOf(Levels(other)), other>>
                        IN  /\ parent \in DOMAIN next.leaves
                            /\ \A i \in DOMAIN next.leaves[there].subs :
                                 /\ i \in DOMAIN next.leaves[parent].subs
                                 /\ next.leaves[parent].subs[i] = next.leaves[there].subs[i]
      BY DEF ParentHolds
    <3> DEFINE there  == <<Levels(other), other>>
               parent == <<ParentOf(Levels(other)), other>>
    <3>1. /\ parent \in DOMAIN trie.leaves
          /\ \A i \in DOMAIN trie.leaves[there].subs :
               /\ i \in DOMAIN trie.leaves[parent].subs
               /\ trie.leaves[parent].subs[i] = trie.leaves[there].subs[i]
      BY <1>1, <2>3 DEF ParentHolds
    <3>2. parent # home
      <4>1. WellFormed(other)
        BY DEF ShapeArguments
      <4> QED
        BY <4>1, LeafPathsAre
    <3>3. parent \in DOMAIN next.leaves /\ next.leaves[parent] = trie.leaves[parent]
      BY <2>1, <3>1, <3>2
    <3>4. CASE there # home
      BY <2>1, <2>3, <3>1, <3>3, <3>4
    <3>5. CASE there = home
      <4>1. next.leaves[there].subs = left
        BY <2>3, <3>5
      <4>2. \A i \in DOMAIN left : i \in DOMAIN trie.leaves[there].subs /\ left[i] = trie.leaves[there].subs[i]
        BY <3>5 DEF Delete
      <4> HIDE DEF there, parent, left
      <4>3. \A i \in DOMAIN next.leaves[there].subs :
              /\ i \in DOMAIN next.leaves[parent].subs
              /\ next.leaves[parent].subs[i] = next.leaves[there].subs[i]
        BY <3>1, <3>3, <4>1, <4>2
      <4> QED
        BY <3>3, <4>3 DEF there, parent
    <3> QED
      BY <3>4, <3>5
  <2>8. AllBranchesLive(next.branches, next.leaves)
    <3>1. \A at \in DOMAIN trie.leaves : at \in DOMAIN next.leaves \/ at[1] = path
      BY <2>1
    <3> QED
      BY <1>1, <2>1, <2>2, <2>4, <3>1, CleanLeavesLive
  <2>9. trie.leaves[home].retain = NoRetain
    BY <1>4, WildLeaf DEF LeafAt
  <2>10. Retained(next) = Retained(trie) /\ \A at \in Retained(trie) : next.leaves[at] = trie.leaves[at]
    <3>1. home \in DOMAIN next.leaves => next.leaves[home].retain = NoRetain
      BY <2>3
    <3> HIDE DEF home
    <3> QED
      BY <2>1, <2>3, <2>9, <3>1 DEF Retained, HasRetain
  <2> QED
    BY <1>1, <2>1, <2>5, <2>6, <2>7, <2>8, <2>10 DEF TrieShape, next
<1> QED
  BY <1>2, <1>3, <1>4

-----------------------------------------------------------------------------
(* Retained messages                                                       *)

LEMMA RetainedAre ==
  ASSUME NEW F, NEW T, NEW trie, TrieShape(trie, F, T), NEW at \in Retained(trie)
  PROVE  /\ at \in DOMAIN trie.leaves /\ IsLeaf(trie.leaves[at])
         /\ at[2] \in T /\ ~ IsWild(at[2]) /\ at[1] = Levels(at[2])
         /\ at = <<Levels(at[2]), at[2]>>
         /\ trie.leaves[at].subs = EmptyMap
<1>1. at \in DOMAIN trie.leaves /\ trie.leaves[at].retain # NoRetain
  BY DEF Retained, HasRetain
<1>2. LeafShape(trie.branches, trie.leaves, F, T) /\ IsTrie(trie)
  BY DEF TrieShape
<1>3. HoldsRetained(at, trie.leaves[at], T) /\ IsLeaf(trie.leaves[at])
  BY <1>1, <1>2 DEF LeafShape, HoldsSubscribers
<1> QED
  BY <1>1, <1>2, <1>3 DEF HoldsRetained, IsTrie

\* Only the leaf of topic changes, and it is a leaf of a retained message.
LEMMA RetainChanges ==
  ASSUME NEW F, NEW T, ShapeArguments(F, T), NEW trie, TrieShape(trie, F, T),
         NEW topic \in T, NEW packet, NEW next,
         next.foliage = trie.foliage,
         next.leaves = Put(trie.leaves, <<Levels(topic), topic>>, [subs |-> EmptyMap, retain |-> packet]),
         next.branches = trie.branches \cup OnPath(Levels(topic)),
         next = [foliage |-> next.foliage, branches |-> next.branches, leaves |-> next.leaves]
  PROVE  /\ TrieShape(next, F, T)
         /\ Retained(next) = IF packet = NoRetain
                             THEN Retained(trie) \ {<<Levels(topic), topic>>}
                             ELSE Retained(trie) \cup {<<Levels(topic), topic>>}
         /\ DOMAIN next.leaves = DOMAIN trie.leaves \cup {<<Levels(topic), topic>>}
         /\ next.leaves[<<Levels(topic), topic>>] = [subs |-> EmptyMap, retain |-> packet]
         /\ \A at \in DOMAIN trie.leaves \ {<<Levels(topic), topic>>} : next.leaves[at] = trie.leaves[at]
         /\ \A filter \in F : SubsOf(next, filter) = SubsOf(trie, filter)
<1> DEFINE path == Levels(topic)
           there == <<path, topic>>
           leaf  == [subs |-> EmptyMap, retain |-> packet]
<1>1. /\ WellFormed(topic) /\ ~ IsWild(topic) /\ IsTrie(trie) /\ BranchShape(trie.branches)
      /\ LeafShape(trie.branches, trie.leaves, F, T) /\ ParentHolds(trie.leaves, F)
      /\ AllBranchesLive(trie.branches, trie.leaves)
      /\ DOMAIN trie.foliage \subseteq F
  BY DEF ShapeArguments, TrieShape
<1>2. path \in Paths /\ path # <<>> /\ path \in OnPath(path)
  BY <1>1, LevelsOfWellFormed, PathIsOnPath DEF WellFormed
<1>3. /\ DOMAIN next.leaves = DOMAIN trie.leaves \cup {there}
      /\ next.leaves[there] = leaf
      /\ \A at \in DOMAIN trie.leaves \ {there} : next.leaves[at] = trie.leaves[at]
      /\ next.leaves = [at \in DOMAIN next.leaves |-> next.leaves[at]]
      /\ there[1] = path /\ there[2] = topic
  BY DEF Put
<1>4. IsLeaf(leaf) /\ HoldsRetained(there, leaf, T) /\ leaf.retain = packet
  BY <1>1 DEF IsLeaf, HoldsRetained
<1> HIDE DEF leaf
<1>5. IsTrie(next)
  <2>1. \A at \in DOMAIN next.leaves : at = <<at[1], at[2]>>
    BY <1>1, <1>3 DEF IsTrie
  <2> HIDE DEF there
  <2> QED
    BY <1>1, <1>3, <2>1 DEF IsTrie
<1>6. LeafShape(next.branches, next.leaves, F, T)
  <2>1. DOMAIN next.leaves \subseteq Paths \X (F \cup T)
    BY <1>1, <1>2, <1>3 DEF LeafShape
  <2>2. there[1] \in next.branches
    BY <1>2
  <2> HIDE DEF there
  <2> QED
    BY <1>1, <1>3, <1>4, <2>1, <2>2 DEF LeafShape
<1>7. ParentHolds(next.leaves, F)
  <2> SUFFICES ASSUME NEW other \in F, LastOf(other) = Hash,
                      <<Levels(other), other>> \in DOMAIN next.leaves
               PROVE  LET home   == <<Levels(other), other>>
                          parent == <<ParentOf(Levels(other)), other>>
                      IN  /\ parent \in DOMAIN next.leaves
                          /\ \A i \in DOMAIN next.leaves[home].subs :
                               /\ i \in DOMAIN next.leaves[parent].subs
                               /\ next.leaves[parent].subs[i] = next.leaves[home].subs[i]
    BY DEF ParentHolds
  <2> DEFINE home   == <<Levels(other), other>>
             parent == <<ParentOf(Levels(other)), other>>
  <2>1. home # there /\ parent # there
    <3>1. WellFormed(other) /\ IsWild(other)
      BY LeafPathsAre DEF ShapeArguments
    <3> QED
      BY <1>1, <3>1
  <2>2. home \in DOMAIN trie.leaves
    BY <1>3, <2>1
  <2>3. /\ parent \in DOMAIN trie.leaves
        /\ \A i \in DOMAIN trie.leaves[home].subs :
             /\ i \in DOMAIN trie.leaves[parent].subs
             /\ trie.leaves[parent].subs[i] = trie.leaves[home].subs[i]
    BY <1>1, <2>2 DEF ParentHolds
  <2>4. /\ parent \in DOMAIN next.leaves
        /\ next.leaves[home] = trie.leaves[home] /\ next.leaves[parent] = trie.leaves[parent]
    BY <1>3, <2>1, <2>2, <2>3
  <2> QED
    BY <2>3, <2>4
<1>8. AllBranchesLive(next.branches, next.leaves)
  <2>1. \E at \in DOMAIN next.leaves : at[1] = path
    BY <1>3
  <2>2. DOMAIN trie.leaves \subseteq DOMAIN next.leaves
    BY <1>3
  <2> QED
    BY <1>1, <1>2, <2>1, <2>2, GrownBranchesLive
<1>9. BranchShape(next.branches)
  BY <1>1, <1>2, GrowBranches
<1>10. TrieShape(next, F, T)
  BY <1>1, <1>5, <1>6, <1>7, <1>8, <1>9 DEF TrieShape
<1>11. Retained(next) = IF packet = NoRetain THEN Retained(trie) \ {there} ELSE Retained(trie) \cup {there}
  <2> HIDE DEF there
  <2> QED
    BY <1>3, <1>4 DEF Retained, HasRetain
<1>12. ASSUME NEW filter \in F PROVE SubsOf(next, filter) = SubsOf(trie, filter)
  <2>1. CASE ~ IsWild(filter)
    BY <2>1 DEF SubsOf
  <2>2. CASE IsWild(filter)
    <3> DEFINE home == <<Levels(filter), filter>>
    <3>1. WellFormed(filter) /\ home # there
      BY <1>1, <2>2 DEF ShapeArguments
    <3>2. home \in DOMAIN next.leaves <=> home \in DOMAIN trie.leaves
      BY <1>3, <3>1
    <3>3. home \in DOMAIN trie.leaves => next.leaves[home] = trie.leaves[home]
      BY <1>3, <3>1
    <3> QED
      BY <2>2, <3>1, <3>2, <3>3, SubsOfWild
  <2> QED
    BY <2>1, <2>2
<1> QED
  BY <1>3, <1>10, <1>11, <1>12 DEF leaf

LEMMA RetainLeaf ==
  ASSUME NEW F, NEW T, NEW trie, TrieShape(trie, F, T), NEW path, NEW topic, ~ IsWild(topic)
  PROVE  /\ IsLeaf(LeafAt(trie, path, topic))
         /\ LeafAt(trie, path, topic).subs = EmptyMap
<1>1. CASE <<path, topic>> \in DOMAIN trie.leaves
  BY <1>1 DEF TrieShape, LeafShape, HoldsRetained, HoldsSubscribers, LeafAt
<1>2. CASE <<path, topic>> \notin DOMAIN trie.leaves
  BY <1>2 DEF LeafAt, NewLeaf, IsLeaf
<1> QED
  BY <1>1, <1>2

LEMMA AddRetainShape ==
  ASSUME NEW F, NEW T, ShapeArguments(F, T), NEW trie, TrieShape(trie, F, T),
         NEW topic \in T, NEW packet, packet # NoRetain
  PROVE  LET next  == AddRetain(trie, topic, packet)
             there == <<Levels(topic), topic>>
         IN  /\ TrieShape(next, F, T)
             /\ next.foliage = trie.foliage
             /\ Retained(next) = Retained(trie) \cup {there}
             /\ DOMAIN next.leaves = DOMAIN trie.leaves \cup {there}
             /\ next.leaves[there] = [subs |-> EmptyMap, retain |-> packet]
             /\ \A at \in DOMAIN trie.leaves \ {there} : next.leaves[at] = trie.leaves[at]
             /\ \A filter \in F : SubsOf(next, filter) = SubsOf(trie, filter)
<1> DEFINE next  == AddRetain(trie, topic, packet)
           path  == Levels(topic)
           leaf  == LeafAt(trie, path, topic)
<1>1. WellFormed(topic) /\ ~ IsWild(topic) /\ IsTrie(trie)
  BY DEF ShapeArguments, TrieShape
<1>2. Trimmed(topic) = path
  BY <1>1, TrimmedIsLevels
<1>3. IsLeaf(leaf) /\ leaf.subs = EmptyMap
  BY <1>1, RetainLeaf
<1>4. [leaf EXCEPT !.retain = packet] = [subs |-> EmptyMap, retain |-> packet]
  <2> HIDE DEF leaf
  <2> QED
    BY <1>3 DEF IsLeaf
<1>5. next = [trie EXCEPT !.branches = @ \cup OnPath(path),
                         !.leaves = Put(@, <<path, topic>>, [subs |-> EmptyMap, retain |-> packet])]
  BY <1>2, <1>4 DEF AddRetain
<1>6. next = [foliage |-> trie.foliage, branches |-> trie.branches \cup OnPath(path),
              leaves |-> Put(trie.leaves, <<path, topic>>, [subs |-> EmptyMap, retain |-> packet])]
  BY <1>1, <1>5 DEF IsTrie
<1> HIDE DEF next
<1>7. /\ next.foliage = trie.foliage
      /\ next.branches = trie.branches \cup OnPath(path)
      /\ next.leaves = Put(trie.leaves, <<path, topic>>, [subs |-> EmptyMap, retain |-> packet])
      /\ next = [foliage |-> next.foliage, branches |-> next.branches, leaves |-> next.leaves]
  BY <1>6
<1>8. /\ TrieShape(next, F, T)
      /\ Retained(next) = Retained(trie) \cup {<<path, topic>>}
      /\ DOMAIN next.leaves = DOMAIN trie.leaves \cup {<<path, topic>>}
      /\ next.leaves[<<path, topic>>] = [subs |-> EmptyMap, retain |-> packet]
      /\ \A at \in DOMAIN trie.leaves \ {<<path, topic>>} : next.leaves[at] = trie.leaves[at]
      /\ \A filter \in F : SubsOf(next, filter) = SubsOf(trie, filter)
  <2>1. TrieShape(next, F, T) /\ Retained(next) = Retained(trie) \cup {<<path, topic>>}
    BY <1>7, RetainChanges
  <2>2. /\ DOMAIN next.leaves = DOMAIN trie.leaves \cup {<<path, topic>>}
        /\ next.leaves[<<path, topic>>] = [subs |-> EmptyMap, retain |-> packet]
        /\ \A at \in DOMAIN trie.leaves \ {<<path, topic>>} : next.leaves[at] = trie.leaves[at]
    BY <1>7 DEF Put
  <2>3. \A filter \in F : SubsOf(next, filter) = SubsOf(trie, filter)
    BY <1>7, RetainChanges
  <2> QED
    BY <2>1, <2>2, <2>3
<1> QED
  BY <1>7, <1>8 DEF next

LEMMA RemoveRetainShape ==
  ASSUME NEW F, NEW T, ShapeArguments(F, T), NEW trie, TrieShape(trie, F, T),
         NEW topic, NEW next \in RemoveRetainResults(trie, topic),
         RemovableFor(trie, topic) # {}
  PROVE  \E at \in RemovableFor(trie, topic) :
           /\ TrieShape(next, F, T)
           /\ next.foliage = trie.foliage
           /\ Retained(next) = Retained(trie) \ {at}
           /\ DOMAIN next.leaves = DOMAIN trie.leaves
           /\ next.leaves[at] = NewLeaf
           /\ \A other \in DOMAIN trie.leaves \ {at} : next.leaves[other] = trie.leaves[other]
           /\ \A filter \in F : SubsOf(next, filter) = SubsOf(trie, filter)
<1>1. PICK at \in RemovableFor(trie, topic) : next = [trie EXCEPT !.leaves[at].retain = NoRetain]
  BY DEF RemoveRetainResults
<1> DEFINE holder == at[2]
           path   == Levels(holder)
           emptied == [subs |-> EmptyMap, retain |-> NoRetain]
<1>2. /\ at \in DOMAIN trie.leaves /\ IsLeaf(trie.leaves[at])
      /\ holder \in T /\ at = <<path, holder>> /\ at[1] = path
      /\ trie.leaves[at].subs = EmptyMap
  BY RetainedAre DEF RemovableFor
<1>3. /\ IsTrie(trie) /\ BranchShape(trie.branches) /\ WellFormed(holder)
      /\ LeafShape(trie.branches, trie.leaves, F, T)
  BY <1>2 DEF TrieShape, ShapeArguments
<1>4. [trie.leaves[at] EXCEPT !.retain = NoRetain] = emptied
  BY <1>2 DEF IsLeaf
<1>5. next = [trie EXCEPT !.leaves = [@ EXCEPT ![at] = emptied]]
  BY <1>1, <1>2, <1>3, <1>4 DEF IsTrie
<1> HIDE DEF emptied
<1>6. [trie.leaves EXCEPT ![at] = emptied] = Put(trie.leaves, at, emptied)
  BY <1>2, <1>3 DEF IsTrie, Put
<1>7. next = [foliage |-> trie.foliage, branches |-> trie.branches,
              leaves |-> Put(trie.leaves, at, emptied)]
  BY <1>3, <1>5, <1>6 DEF IsTrie
<1>8. trie.branches = trie.branches \cup OnPath(path)
  <2>1. path \in trie.branches \cup {<<>>}
    BY <1>2, <1>3 DEF LeafShape
  <2>2. path # <<>>
    BY <1>3 DEF WellFormed
  <2> QED
    BY <1>3, <2>1, <2>2 DEF BranchShape
<1>9. /\ next.foliage = trie.foliage
      /\ next.branches = trie.branches \cup OnPath(path)
      /\ next.leaves = Put(trie.leaves, <<path, holder>>, [subs |-> EmptyMap, retain |-> NoRetain])
      /\ next = [foliage |-> next.foliage, branches |-> next.branches, leaves |-> next.leaves]
  BY <1>2, <1>7, <1>8 DEF emptied
<1>10. /\ TrieShape(next, F, T)
       /\ Retained(next) = Retained(trie) \ {<<path, holder>>}
       /\ DOMAIN next.leaves = DOMAIN trie.leaves \cup {<<path, holder>>}
       /\ next.leaves[<<path, holder>>] = NewLeaf
       /\ \A other \in DOMAIN trie.leaves \ {<<path, holder>>} : next.leaves[other] = trie.leaves[other]
       /\ \A filter \in F : SubsOf(next, filter) = SubsOf(trie, filter)
  <2>1. TrieShape(next, F, T) /\ Retained(next) = Retained(trie) \ {<<path, holder>>}
    BY <1>2, <1>9, RetainChanges
  <2>2. /\ DOMAIN next.leaves = DOMAIN trie.leaves \cup {<<path, holder>>}
        /\ next.leaves[<<path, holder>>] = NewLeaf
        /\ \A other \in DOMAIN trie.leaves \ {<<path, holder>>} : next.leaves[other] = trie.leaves[other]
    BY <1>9 DEF Put, NewLeaf
  <2>3. \A filter \in F : SubsOf(next, filter) = SubsOf(trie, filter)
    BY <1>2, <1>9, RetainChanges
  <2> QED
    BY <2>1, <2>2, <2>3
<1> HIDE DEF holder
<1> QED
  BY <1>1, <1>2, <1>9, <1>10
=============================================================================
