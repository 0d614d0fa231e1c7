----------------------------- MODULE TopicStore -----------------------------
(***************************************************************************)
(* What the topic store of the broker promises to its callers (interface   *)
(* TopicStorage): a set of subscriptions keyed by filter and identity, one *)
(* retained message per topic, and an answer that says whether the entry   *)
(* the call is about was there.  TrieStore.tla implements it with the      *)
(* foliage map and the branches of package trie.                           *)
(***************************************************************************)
CONSTANTS
  Identities,   \* client identifiers
  Holders,      \* what Subscribe records for an identity
  Filters,      \* the topics and filters clients subscribe to
  Topics,       \* the topics messages are published on
  Packets       \* retained messages

VARIABLES
  subscriptions,  \* <<filter, identity>> -> subscriber
  kept,           \* topic -> retained message
  exist           \* the answer to the last call

vars == <<subscriptions, kept, exist>>

Nothing == [x \in {} |-> x]

Set(m, k, v) ==
  [x \in DOMAIN m \cup {k} |-> IF x = k THEN v ELSE m[x]]

Unset(m, k) == [x \in DOMAIN m \ {k} |-> m[x]]

Init ==
  /\ subscriptions = Nothing
  /\ kept = Nothing
  /\ exist = FALSE

Subscribe(filter, identity, subscriber) ==
  /\ exist' = (<<filter, identity>> \in DOMAIN subscriptions)
  /\ subscriptions' = Set(subscriptions, <<filter, identity>>, subscriber)
  /\ UNCHANGED kept

Unsubscribe(filter, identity) ==
  /\ exist' = (<<filter, identity>> \in DOMAIN subscriptions)
  /\ subscriptions' = Unset(subscriptions, <<filter, identity>>)
  /\ UNCHANGED kept

AddRetain(topic, packet) ==
  /\ exist' = (topic \in DOMAIN kept)
  /\ kept' = Set(kept, topic, packet)
  /\ UNCHANGED subscriptions

RemoveRetain(topic) ==
  /\ exist' = (topic \in DOMAIN kept)
  /\ kept' = Unset(kept, topic)
  /\ UNCHANGED subscriptions

Next ==
  \/ \E filter \in Filters, identity \in Identities :
       \/ \E subscriber \in Holders :
            Subscribe(filter, identity, subscriber)
       \/ Unsubscribe(filter, identity)
  \/ \E topic \in Topics :
       \/ \E packet \in Packets : AddRetain(topic, packet)
       \/ RemoveRetain(topic)

Spec == Init /\ [][Next]_vars
=============================================================================
