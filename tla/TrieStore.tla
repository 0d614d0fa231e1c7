------------------------------ MODULE TrieStore ------------------------------
(***************************************************************************)
(* The topic store as its callers use it, one operation after the other:   *)
(* the operations of Trie.tla on the shared trie, the answer each returns, *)
(* and the counter of retained messages that the ProcessPublish of the     *)
(* broker keeps from the answers.  The one of the cluster removes retained *)
(* messages without it.                                                    *)
(***************************************************************************)
EXTENDS Trie, Integers

CONSTANTS
  Identities,
  Clients,   \* the client objects that subscribe under these identities
  Filters,
  Topics,
  Packets,
  MaxDropped \* the retained messages that the cluster removes in a behaviour

VARIABLES
  trie,
  exist,     \* what the last operation returned
  Retain,    \* State.Retain
  dropped    \* history: the retained messages that the cluster removed

vars == <<trie, exist, Retain, dropped>>

ASSUME NoRetainAssumption == NoRetain \notin Packets

ASSUME FilterAssumption == \A filter \in Filters : WellFormed(filter)

ASSUME TopicAssumption ==
  \A topic \in Topics : WellFormed(topic) /\ ~ IsWild(topic)

Init ==
  /\ trie = NewTrie
  /\ exist = FALSE
  /\ Retain = 0
  /\ dropped = 0

SubscribeTopic(filter, identity, client) ==
  /\ exist' = SubscribeExist(trie, filter, identity)
  /\ trie' = Subscribe(trie, filter, identity, client)
  /\ UNCHANGED <<Retain, dropped>>

UnsubscribeTopic(filter, identity) ==
  /\ exist' = UnsubscribeExist(trie, filter)
  /\ trie' = Unsubscribe(trie, filter, identity)
  /\ UNCHANGED <<Retain, dropped>>

PublishRetain(topic, packet) ==
  /\ exist' = AddRetainExist(trie, topic)
  /\ trie' = AddRetain(trie, topic, packet)
  /\ Retain' = Retain + (IF exist' THEN 0 ELSE 1)
  /\ UNCHANGED dropped

RemoveRetain(topic) ==
  /\ exist' = (RemovableFor(trie, topic) # {})
  /\ trie' \in RemoveRetainResults(trie, topic)

PublishEmptyRetain(topic) ==
  /\ RemoveRetain(topic)
  /\ Retain' = Retain - (IF exist' THEN 1 ELSE 0)
  /\ UNCHANGED dropped

\* A retained publication of another node: the message is now kept there.
LinkPublishRetain(topic) ==
  /\ dropped < MaxDropped
  /\ RemoveRetain(topic)
  /\ dropped' = dropped + (IF exist' THEN 1 ELSE 0)
  /\ UNCHANGED Retain

Next ==
  \/ \E filter \in Filters, identity \in Identities, client \in Clients :
       SubscribeTopic(filter, identity, client)
  \/ \E filter \in Filters, identity \in Identities :
       UnsubscribeTopic(filter, identity)
  \/ \E topic \in Topics, packet \in Packets : PublishRetain(topic, packet)
  \/ \E topic \in Topics : PublishEmptyRetain(topic) \/ LinkPublishRetain(topic)

Spec == Init /\ [][Next]_vars

-----------------------------------------------------------------------------
(* The subscriptions and the retained messages the trie stands for         *)

\* A filter with its subscribers: a topic in the foliage, a wildcard filter in
\* its own leaf.
Filed == {filter \in Filters : SubsOf(trie, filter) # EmptyMap}

Subscriptions ==
  LET keys == UNION {{filter} \X DOMAIN SubsOf(trie, filter) : filter \in Filed}
  IN  [key \in keys |-> SubsOf(trie, key[1])[key[2]]]

Kept ==
  LET topics == {at[2] : at \in Retained(trie)}
  IN  [topic \in topics |-> trie.leaves[<<Trimmed(topic), topic>>].retain]

Store == INSTANCE TopicStore WITH
  subscriptions <- Subscriptions, kept <- Kept, Holders <- Clients

(***************************************************************************)
(* MQTT 4.7.1, 4.7.3: which topics a filter matches, level by level: "+"   *)
(* is one level, whatever it holds, "#" any number of them, none included, *)
(* and a topic with a leading "/" has a blank first level.                 *)
(***************************************************************************)
Matches(filter, topic) ==
  LET open == LastOf(filter) = Hash
      n    == IF open THEN Len(filter) - 1 ELSE Len(filter)
  IN  /\ IF open THEN Len(topic) >= n ELSE Len(topic) = n
      /\ \A i \in 1 .. n : filter[i] \in {Plus, topic[i]}

\* The tree is the same with and without a leading "/" (index 1 of every
\* operation): to the code, filter and topic match when their levels do.
LevelsMatch(filter, topic) == Matches(Levels(filter), Levels(topic))

LeadingSlash(topic) == topic[1] = Blank

\* Only one of the two has a leading "/", and the filter is not "#".
SlashApart(filter, topic) ==
  LeadingSlash(filter) # LeadingSlash(topic) /\ filter[1] # Hash

-----------------------------------------------------------------------------
(* Properties                                                              *)

(***************************************************************************)
(* Shape of the trie: leaves in existing branches (or in root), parents of *)
(* branches present, the maps of leaves and foliage well formed.           *)
(***************************************************************************)
TypeOK ==
  /\ \A topic \in DOMAIN trie.foliage :
       /\ topic \in Filters
       /\ DOMAIN trie.foliage[topic] \subseteq Identities
  /\ \A path \in trie.branches : OnPath(path) \subseteq trie.branches
  /\ \A at \in DOMAIN trie.leaves :
       /\ at[1] \in trie.branches \cup {<<>>}
       /\ at[2] \in Filters \cup Topics
       /\ DOMAIN trie.leaves[at].subs \subseteq Identities
       /\ trie.leaves[at].retain \in Packets \cup {NoRetain}
  /\ exist \in BOOLEAN
  /\ Retain \in Int
  /\ dropped \in Nat

(***************************************************************************)
(* Subscribers (trie.go:75): a publication reaches every client with a     *)
(* subscription that matches its topic, through whatever subscriptions,    *)
(* unsubscriptions and cleanings the branches have gone.  Set aside: a     *)
(* filter like "+/a", which MQTT lets match "/a" and the code does not.    *)
(***************************************************************************)
NoSubscriberMissed ==
  \A topic \in Topics, key \in DOMAIN Subscriptions :
    Matches(key[1], topic) /\ ~ SlashApart(key[1], topic) =>
      <<key[2], Subscriptions[key]>> \in Subscribers(trie, topic)

(***************************************************************************)
(* Subscribers (trie.go:75): whoever a publication reaches has a           *)
(* subscription that matches its topic, or is one of two strangers: the    *)
(* holder of a filter that matches once a leading "/" is dropped           *)
(* (trie.go:94), or a subscriber found in the leaf that a "#" filter has   *)
(* in the parent branch (branch.go:49), which Unsubscribe does not visit.  *)
(***************************************************************************)
Subscribed(pair, topic) ==
  \E key \in DOMAIN Subscriptions :
    pair = <<key[2], Subscriptions[key]>> /\ Matches(key[1], topic)

SlashIgnored(pair, topic) ==
  \E key \in DOMAIN Subscriptions :
    /\ pair = <<key[2], Subscriptions[key]>>
    /\ SlashApart(key[1], topic) /\ LevelsMatch(key[1], topic)

LeftBehind(pair, topic) ==
  \E at \in DOMAIN trie.leaves :
    /\ LastOf(at[2]) = Hash /\ at[1] = ParentOf(HomeOf(at[2]))
    /\ at[1] # <<>> /\ Matches(at[1], Levels(topic))
    /\ \E i \in DOMAIN trie.leaves[at].subs : pair = <<i, trie.leaves[at].subs[i]>>

OnlyKnownStrangers ==
  \A topic \in Topics : \A pair \in Subscribers(trie, topic) :
    Subscribed(pair, topic) \/ SlashIgnored(pair, topic) \/ LeftBehind(pair, topic)

(***************************************************************************)
(* SearchRetain (trie.go:135): a new subscription is handed the retained   *)
(* messages of exactly the topics its filter matches.  Set aside: "#"      *)
(* stands for at least one level there, and when only one of filter and    *)
(* topic has a leading "/", no more is said than that the levels match.    *)
(***************************************************************************)
OfParent(filter, topic) ==
  LastOf(filter) = Hash /\ Len(topic) = Len(filter) - 1

RetainedFound ==
  \A filter \in Filters : \A at \in Retained(trie) :
    IF SlashApart(filter, at[2])
    THEN at \in SearchRetain(trie, filter) => LevelsMatch(filter, at[2])
    ELSE at \in SearchRetain(trie, filter) <=>
           Matches(filter, at[2]) /\ ~ OfParent(filter, at[2])

(***************************************************************************)
(* CheckClean (branch.go:84): a branch stays only while a leaf is in it or *)
(* below it, however filters and retained messages share branches.  (The   *)
(* leaf that an unsubscribed "#" filter leaves behind in the parent branch *)
(* keeps that branch.)                                                     *)
(***************************************************************************)
NoDeadBranch ==
  \A path \in trie.branches :
    \E at \in DOMAIN trie.leaves : IsAbove(path, at[1])

(***************************************************************************)
(* ProcessPublish (processor.go:133): State.Retain is the number of        *)
(* retained messages in the trie and of those that cluster links removed.  *)
(***************************************************************************)
RetainCounted == Retain = Cardinality(Retained(trie)) + dropped

(***************************************************************************)
(* trie.go: every call does to the tables of subscriptions and of retained *)
(* messages what the same call of TopicStore does, with the same answer:   *)
(* whatever branches are added, cleaned or left behind, no other filter,   *)
(* identity or retained message is disturbed.  But for two departures:     *)
(* RemoveRetain may remove the one message of another topic of the same    *)
(* levels instead (branch.go:129), and Unsubscribe may answer for another  *)
(* identity with that filter (trie.go:67, branch.go:74).                   *)
(***************************************************************************)
RemovesAnother(topic) ==
  \E at \in RemovableFor(trie, topic) :
    /\ at[2] # topic /\ Kept' = Store!Unset(Kept, at[2])
    /\ Subscriptions' = Subscriptions /\ exist'

AnswersForAnother(filter, identity) ==
  /\ <<filter, identity>> \notin DOMAIN Subscriptions
  /\ Subscriptions' = Subscriptions /\ Kept' = Kept /\ exist'

AsInStore ==
  /\ \A filter \in Filters, identity \in Identities :
       /\ \A client \in Clients :
            SubscribeTopic(filter, identity, client) =>
              Store!Subscribe(filter, identity, client)
       /\ UnsubscribeTopic(filter, identity) =>
            \/ Store!Unsubscribe(filter, identity)
            \/ AnswersForAnother(filter, identity)
  /\ \A topic \in Topics :
       /\ \A packet \in Packets :
            PublishRetain(topic, packet) => Store!AddRetain(topic, packet)
       /\ RemoveRetain(topic) =>
            Store!RemoveRetain(topic) \/ RemovesAnother(topic)

ImplementsTopicStore == Store!Init /\ [][AsInStore]_vars

-----------------------------------------------------------------------------
(* What MQTT or the source says and the code does not do                   *)

(***************************************************************************)
(* MQTT 4.7.3, 3.10.4: nobody is reached without a subscription that       *)
(* matches, whatever it has unsubscribed (trie.go:94, branch.go:49).       *)
(***************************************************************************)
NoStrangerServed ==
  \A topic \in Topics : \A pair \in Subscribers(trie, topic) : Subscribed(pair, topic)

(***************************************************************************)
(* MQTT 3.3.1.3: a subscriber is handed the retained messages of exactly   *)
(* the topics its filter matches (trie.go:141, branch.go:155).             *)
(***************************************************************************)
RetainedMatch ==
  \A filter \in Filters :
    SearchRetain(trie, filter) = {at \in Retained(trie) : Matches(filter, at[2])}

(***************************************************************************)
(* ifs/i_server.go:55, Retain: "The total number of retained messages      *)
(* active on the broker" (cluster/processor.go:44 does not count).         *)
(***************************************************************************)
RetainIsActive == Retain = Cardinality(Retained(trie))

(***************************************************************************)
(* cluster/processor.go:41: a node "must delete this retain message", that *)
(* of the topic published elsewhere (branch.go:129 may leave it).          *)
(***************************************************************************)
OwnRemoved ==
  \A topic \in Topics : \A next \in RemoveRetainResults(trie, topic) :
    <<Trimmed(topic), topic>> \notin Retained(next)
=============================================================================
