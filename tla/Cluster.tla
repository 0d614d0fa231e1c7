------------------------------- MODULE Cluster -------------------------------
(***************************************************************************)
(* The nodes of a cluster, the links between them and what they tell each  *)
(* other over these links: the topics their clients subscribe and the      *)
(* retained messages.  A link is a TCP connection with a cluster Client    *)
(* and its goroutine at either end: HandlerClient where it was dialed,     *)
(* HandlerServer where it was accepted.  The ends at one node share        *)
(* Clusters, the map of links by name of the other node, and               *)
(* ClusterTopics, the topics the other nodes subscribed; broker goroutines *)
(* (one for each client of the node) use both.                             *)
(*                                                                         *)
(* Topics are without wildcards, and a packet carries one of them.  A      *)
(* retained message is one with a payload.  CONNACK, PINGREQ and           *)
(* acknowledgements change nothing and are left out.                       *)
(***************************************************************************)
EXTENDS Naturals, Sequences, FiniteSets

CONSTANTS
  Nodes,
  Dials,     \* <<n, m>>: n has m in its list of cluster nodes
  Links,     \* TCP connections
  NoEnd,     \* no entry in a map
  Clients,   \* the clients of a node
  Topics,
  Budgets    \* bounds: how many links may be dialed, and operations of clients begun

ASSUME DialAssumption == Dials \subseteq Nodes \X Nodes
ASSUME BudgetAssumption == Budgets \subseteq [links : Nat, ops : Nat]

Sides == {"dialed", "accepted"}
Ends == Links \X Sides

ASSUME NoEndAssumption == NoEnd \notin Nodes \cup Ends

VARIABLES
  route,     \* link -> [dialed, accepted]: the nodes at its ends
  pc,        \* end -> what its goroutine does next
  closed,    \* end -> Client.Close ran
  broken,    \* links whose TCP connection the network has cut
  inbox,     \* end -> packets on their way to it
  sync,      \* end -> how far its SyncTopics has come
  topics,    \* end -> Client.topics
  clusters,  \* Clusters of a node: node -> end
  remote,    \* ClusterTopics of a node: <<topic, node>> -> end
  local,     \* BrokerTopics of a node: topic -> its subscribers
  retained,  \* BrokerTopics of a node: topics with a retained message
  task,      \* node, client -> what its broker goroutine does next
  budget     \* what is left of the bounds

linkVars == <<route, pc, closed, broken, inbox, sync, topics, clusters, remote>>
nodeVars == <<local, retained, task, budget>>
vars == <<linkVars, nodeVars>>

NoTask == [do |-> "idle"]
NoSync == [link |-> NoEnd, left |-> {}, found |-> {}]
NoRoute == [side \in Sides |-> NoEnd]

OtherEnd(e) == <<e[1], CHOOSE side \in Sides : side # e[2]>>
NodeOf(e) == route[e[1]][e[2]]
PeerOf(e) == NodeOf(OtherEnd(e))

Init ==
  /\ route = [l \in Links |-> NoRoute]
  /\ pc = [e \in Ends |-> "unused"]
  /\ closed = [e \in Ends |-> FALSE]
  /\ broken = {}
  /\ inbox = [e \in Ends |-> <<>>]
  /\ sync = [e \in Ends |-> NoSync]
  /\ topics = [e \in Ends |-> {}]
  /\ clusters = [n \in Nodes |-> [m \in Nodes |-> NoEnd]]
  /\ remote = [n \in Nodes |-> [k \in Topics \X Nodes |-> NoEnd]]
  /\ local = [n \in Nodes |-> [t \in Topics |-> {}]]
  /\ retained = [n \in Nodes |-> {}]
  /\ task = [n \in Nodes |-> [c \in Clients |-> NoTask]]
  /\ budget \in Budgets

Goto(e, label) == pc' = [pc EXCEPT ![e] = label]
At(e, label) == pc[e] = label

\* Client.WritePacket at e.  What a dead connection takes is lost, and the
\* callers do not look at the error.
Up(e) == ~ closed[e] /\ ~ closed[OtherEnd(e)] /\ e[1] \notin broken

WriteTo(boxes, e, packets) ==
  IF e # NoEnd /\ Up(e) THEN [boxes EXCEPT ![OtherEnd(e)] = @ \o packets] ELSE boxes

Packet(kind, topic) == [kind |-> kind, topic |-> topic]

-----------------------------------------------------------------------------
(* CheckHealthy and StartClient, HandlerClient                             *)

\* The node asked for is not among the links: it is dialed and accepts.
Dial(n, m, l) ==
  /\ <<n, m>> \in Dials
  /\ clusters[n][m] = NoEnd
  /\ route[l] = NoRoute
  /\ budget.links > 0
  /\ budget' = [budget EXCEPT !.links = @ - 1]
  /\ route' = [route EXCEPT ![l] = [dialed |-> n, accepted |-> m]]
  /\ pc' = [pc EXCEPT ![<<l, "dialed">>] = "connect", ![<<l, "accepted">>] = "accept"]
  /\ UNCHANGED <<closed, broken, inbox, sync, topics, clusters, remote, local, retained, task>>

\* CONNECT is written; after an error nothing is registered.
WriteConnect(e) ==
  /\ At(e, "connect")
  /\ inbox' = WriteTo(inbox, e, <<[kind |-> "connect"]>>)
  /\ Goto(e, IF Up(e) THEN "replace" ELSE "ended")
  /\ UNCHANGED <<route, closed, broken, sync, topics, clusters, remote, nodeVars>>

(* HandlerServer                                                           *)

AcceptConnect(e) ==
  /\ At(e, "accept")
  /\ inbox[e] # <<>>
  /\ inbox' = [inbox EXCEPT ![e] = Tail(@)]
  /\ Goto(e, "replace")
  /\ UNCHANGED <<route, closed, broken, sync, topics, clusters, remote, nodeVars>>

\* No CONNECT comes: the handler returns.
AcceptError(e) ==
  /\ At(e, "accept")
  /\ ~ Up(e)
  /\ Goto(e, "ended")
  /\ UNCHANGED <<route, closed, broken, inbox, sync, topics, clusters, remote, nodeVars>>

(* Both                                                                    *)

\* The link there is to the same node is closed ...
ReplaceOld(e) ==
  /\ At(e, "replace")
  /\ LET old == {clusters[NodeOf(e)][PeerOf(e)]} IN
       /\ closed' = [f \in Ends |-> closed[f] \/ f \in old]
       /\ inbox' = [f \in Ends |-> IF f \in old THEN <<>> ELSE inbox[f]]
  /\ Goto(e, "store")
  /\ UNCHANGED <<route, broken, sync, topics, clusters, remote, nodeVars>>

\* Mutant: the link is stored under the node's own name.
StoreLink_OwnName(e) ==
  /\ At(e, "store")
  /\ clusters' = [clusters EXCEPT ![NodeOf(e)][NodeOf(e)] = e]
  /\ Goto(e, "sync")
  /\ UNCHANGED <<route, closed, broken, inbox, topics, sync, remote, nodeVars>>

\* Mutant: the topics are not synchronised.
StoreLink_NoSync(e) ==
  /\ At(e, "store")
  /\ clusters' = [clusters EXCEPT ![NodeOf(e)][PeerOf(e)] = e]
  /\ Goto(e, "loop")
  /\ UNCHANGED <<route, closed, broken, inbox, topics, sync, remote, nodeVars>>

\* ... and this one takes its place.
StoreLink(e) ==
  /\ At(e, "store")
  /\ clusters' = [clusters EXCEPT ![NodeOf(e)][PeerOf(e)] = e]
  /\ Goto(e, "sync")
  /\ UNCHANGED <<route, closed, broken, inbox, topics, sync, remote, nodeVars>>

(* SyncTopics                                                              *)

\* The link stored by now is told the topics of BrokerTopics, provided that
\* the node is in the list of cluster nodes.
SyncTopics(e) ==
  LET n    == NodeOf(e)
      link == clusters[n][PeerOf(e)]
  IN  /\ At(e, "sync")
      /\ sync' = [sync EXCEPT ![e] =
           [link |-> link, found |-> {},
            left |-> IF link # NoEnd /\ <<n, PeerOf(e)>> \in Dials THEN Topics ELSE {}]]
      /\ Goto(e, "range")
      /\ UNCHANGED <<route, closed, broken, inbox, topics, clusters, remote, nodeVars>>

\* RangeTopics comes to a topic ...
RangeTopics(e, t) ==
  /\ At(e, "range")
  /\ sync[e].found = {} /\ t \in sync[e].left
  /\ sync' = [sync EXCEPT ![e].left = @ \ {t},
                          ![e].found = {u \in {t} : local[NodeOf(e)][u] # {}}]
  /\ UNCHANGED <<route, pc, closed, broken, inbox, topics, clusters, remote, nodeVars>>

\* ... and SUBSCRIBE is written for it.
WriteTopic(e, t) ==
  /\ At(e, "range")
  /\ t \in sync[e].found
  /\ sync' = [sync EXCEPT ![e].found = {}]
  /\ inbox' = WriteTo(inbox, sync[e].link, <<Packet("subscribe", t)>>)
  /\ UNCHANGED <<route, pc, closed, broken, topics, clusters, remote, nodeVars>>

EndSync(e) ==
  /\ At(e, "range")
  /\ sync[e].found = {} /\ sync[e].left = {}
  /\ sync' = [sync EXCEPT ![e] = NoSync]
  /\ Goto(e, "loop")
  /\ UNCHANGED <<route, closed, broken, inbox, topics, clusters, remote, nodeVars>>

-----------------------------------------------------------------------------
(* ReadLoop                                                                *)

Loop(e) ==
  /\ At(e, "loop")
  /\ Goto(e, IF closed[e] THEN "ended" ELSE "read")
  /\ UNCHANGED <<route, closed, broken, inbox, sync, topics, clusters, remote, nodeVars>>

\* ReadPacket fails when either end was closed or the network cut the link.
ReadError(e) ==
  /\ At(e, "read")
  /\ ~ Up(e)
  /\ Goto(e, "delete")
  /\ UNCHANGED <<route, closed, broken, inbox, sync, topics, clusters, remote, nodeVars>>

\* What was received before the other end closed can still be read.
Reads(e, kind) ==
  /\ At(e, "read")
  /\ ~ closed[e]
  /\ inbox[e] # <<>>
  /\ Head(inbox[e]).kind = kind
  /\ Goto(e, "loop")

ProcessSubscribe(e) ==
  LET n == NodeOf(e)
      t == Head(inbox[e]).topic
  IN  /\ Reads(e, "subscribe")
      /\ remote' = [remote EXCEPT ![n][<<t, PeerOf(e)>>] = e]
      /\ topics' = [topics EXCEPT ![e] = @ \cup {t}]
      /\ inbox' = WriteTo([inbox EXCEPT ![e] = Tail(@)], e,
                          IF t \in retained[n] THEN <<Packet("retain", t)>> ELSE <<>>)
      /\ UNCHANGED <<route, closed, broken, sync, clusters, nodeVars>>

ProcessUnsubscribe(e) ==
  LET t == Head(inbox[e]).topic IN
  /\ Reads(e, "unsubscribe")
  /\ remote' = [remote EXCEPT ![NodeOf(e)][<<t, PeerOf(e)>>] = NoEnd]
  /\ topics' = [topics EXCEPT ![e] = @ \ {t}]
  /\ inbox' = [inbox EXCEPT ![e] = Tail(@)]
  /\ UNCHANGED <<route, closed, broken, sync, clusters, nodeVars>>

\* A retained message of another node replaces that of this one.
ProcessRetain(e) ==
  LET t == Head(inbox[e]).topic IN
  /\ Reads(e, "retain")
  /\ retained' = [retained EXCEPT ![NodeOf(e)] = @ \ {t}]
  /\ inbox' = [inbox EXCEPT ![e] = Tail(@)]
  /\ UNCHANGED <<route, closed, broken, sync, topics, clusters, remote, local, task, budget>>

-----------------------------------------------------------------------------
(* ProcessDisconnect                                                       *)

\* Mutant: the node is not deleted from Clusters.
DeleteLink_KeepsEntry(e) ==
  /\ At(e, "delete")
  /\ closed' = [closed EXCEPT ![e] = TRUE]
  /\ inbox' = [inbox EXCEPT ![e] = <<>>]
  /\ Goto(e, IF topics[e] = {} THEN "ended" ELSE "clean")
  /\ UNCHANGED <<route, broken, topics, sync, clusters, remote, nodeVars>>

\* Clusters().Delete by name, whichever link has the name by now.
DeleteLink(e) ==
  /\ At(e, "delete")
  /\ clusters' = [clusters EXCEPT ![NodeOf(e)][PeerOf(e)] = NoEnd]
  /\ closed' = [closed EXCEPT ![e] = TRUE]
  /\ inbox' = [inbox EXCEPT ![e] = <<>>]
  /\ Goto(e, IF topics[e] = {} THEN "ended" ELSE "clean")
  /\ UNCHANGED <<route, broken, topics, sync, remote, nodeVars>>

\* Unsubscribe by name, whichever link the topic is recorded for by now.
CleanTopic(e, t) ==
  /\ At(e, "clean")
  /\ t \in topics[e]
  /\ topics' = [topics EXCEPT ![e] = @ \ {t}]
  /\ remote' = [remote EXCEPT ![NodeOf(e)][<<t, PeerOf(e)>>] = NoEnd]
  /\ Goto(e, IF topics'[e] = {} THEN "ended" ELSE "clean")
  /\ UNCHANGED <<route, closed, broken, inbox, sync, clusters, nodeVars>>

-----------------------------------------------------------------------------
(* The broker goroutines of a node                                         *)

Begins(n, c, work) ==
  /\ task[n][c] = NoTask
  /\ budget.ops > 0
  /\ budget' = [budget EXCEPT !.ops = @ - 1]
  /\ task' = [task EXCEPT ![n][c] = work]

Finishes(n, c) == task' = [task EXCEPT ![n][c] = NoTask]

ClientSubscribe(n, c, t) ==
  /\ Begins(n, c, [do |-> "forward", packet |-> Packet("subscribe", t)])
  /\ local' = [local EXCEPT ![n][t] = @ \cup {c}]
  /\ UNCHANGED <<linkVars, retained>>

ClientUnsubscribe(n, c, t) ==
  /\ Begins(n, c, [do |-> "forward", packet |-> Packet("unsubscribe", t)])
  /\ local' = [local EXCEPT ![n][t] = @ \ {c}]
  /\ UNCHANGED <<linkVars, retained>>

\* ProcessDisconnect takes the topics of a client out of BrokerTopics, and the
\* other nodes are not told.
ClientGone(n, c, t) ==
  /\ task[n][c] = NoTask
  /\ c \in local[n][t]
  /\ local' = [local EXCEPT ![n][t] = @ \ {c}]
  /\ UNCHANGED <<linkVars, retained, task, budget>>

\* The packet goes to every link, Clusters().Range.
Forward(n, c) ==
  LET linked == {clusters[n][m] : m \in Nodes} \ {NoEnd}
      packet == task[n][c].packet
  IN  /\ task[n][c].do = "forward"
      /\ inbox' = [e \in Ends |->
           IF OtherEnd(e) \in linked /\ Up(e) THEN Append(inbox[e], packet) ELSE inbox[e]]
      /\ Finishes(n, c)
      /\ UNCHANGED <<route, pc, closed, broken, sync, topics, clusters, remote,
                     local, retained, budget>>

\* ProcessPublish with Retain: DoPublish sends the message to the nodes that
\* subscribed to its topic ...
ClientPublishRetain(n, c, t) ==
  LET subscribers == {remote[n][<<t, m>>] : m \in Nodes} \ {NoEnd} IN
  /\ Begins(n, c, [do |-> "retain", topic |-> t])
  /\ inbox' = [e \in Ends |->
       IF OtherEnd(e) \in subscribers /\ Up(e)
       THEN Append(inbox[e], Packet("retain", t)) ELSE inbox[e]]
  /\ UNCHANGED <<route, pc, closed, broken, sync, topics, clusters, remote,
                 local, retained>>

\* ... and AddRetain keeps it.
KeepRetain(n, c) ==
  /\ task[n][c].do = "retain"
  /\ retained' = [retained EXCEPT ![n] = @ \cup {task[n][c].topic}]
  /\ Finishes(n, c)
  /\ UNCHANGED <<linkVars, local, budget>>

-----------------------------------------------------------------------------
CutLink(l) ==
  /\ route[l] # NoRoute
  /\ l \notin broken
  /\ broken' = broken \cup {l}
  /\ UNCHANGED <<route, pc, closed, inbox, sync, topics, clusters, remote, nodeVars>>

EndStep(e) ==
  \/ WriteConnect(e) \/ AcceptConnect(e) \/ AcceptError(e)
  \/ ReplaceOld(e) \/ StoreLink(e)
  \/ SyncTopics(e) \/ EndSync(e)
  \/ \E t \in Topics : RangeTopics(e, t) \/ WriteTopic(e, t)
  \/ Loop(e) \/ ReadError(e)
  \/ ProcessSubscribe(e) \/ ProcessUnsubscribe(e) \/ ProcessRetain(e)
  \/ DeleteLink(e)
  \/ \E t \in Topics : CleanTopic(e, t)

ClientStep(n, c) ==
  \/ \E t \in Topics :
       \/ ClientSubscribe(n, c, t) \/ ClientUnsubscribe(n, c, t)
       \/ ClientGone(n, c, t) \/ ClientPublishRetain(n, c, t)
  \/ Forward(n, c) \/ KeepRetain(n, c)

Next ==
  \/ \E n, m \in Nodes, l \in Links : Dial(n, m, l)
  \/ \E e \in Ends : EndStep(e)
  \/ \E n \in Nodes, c \in Clients : ClientStep(n, c)
  \/ \E l \in Links : CutLink(l)

Spec == Init /\ [][Next]_vars

-----------------------------------------------------------------------------
(* Properties                                                              *)

(***************************************************************************)
(* Every entry of the maps (clusters.Store and ClusterTopics,              *)
(* cluster/processor.go:60-113) is an end of its node, on a link to the    *)
(* node the entry is for, that took its place there.                       *)
(***************************************************************************)
TypeOK ==
  /\ pc \in [Ends -> {"unused", "connect", "accept", "replace", "store", "sync",
                      "range", "loop", "read", "delete", "clean", "ended"}]
  /\ topics \in [Ends -> SUBSET Topics]
  /\ retained \in [Nodes -> SUBSET Topics]
  /\ \A n, m \in Nodes, t \in Topics :
       \A e \in {clusters[n][m], remote[n][<<t, m>>]} \ {NoEnd} :
         /\ NodeOf(e) = n /\ PeerOf(e) = m
         /\ pc[e] \notin {"unused", "connect", "accept", "replace", "store"}

(***************************************************************************)
(* CheckHealthy (cluster.go:217-231) dials again a node that is not in     *)
(* Clusters and no other: so an end whose goroutine is over stays there    *)
(* only until the end that closed it takes its place, and a node is never  *)
(* cut off behind a dead link.                                             *)
(***************************************************************************)
EntryIsServed ==
  \A n, m \in Nodes :
    (clusters[n][m] # NoEnd /\ pc[clusters[n][m]] = "ended")
      => \E e \in Ends : At(e, "store") /\ NodeOf(e) = n /\ PeerOf(e) = m

\* Two nodes are connected, each over the same link, and all that was to be
\* done and told is done and told.
Settled(n, m) ==
  LET e == clusters[n][m] IN
  /\ e # NoEnd
  /\ Up(e) /\ clusters[m][n] = OtherEnd(e)
  /\ \A f \in Ends : pc[f] \in (IF f[1] = e[1] THEN {"loop", "read"} ELSE {"unused", "ended"})
  /\ inbox[e] = <<>> /\ inbox[OtherEnd(e)] = <<>>
  /\ \A k \in Nodes, c \in Clients : task[k][c] = NoTask

(***************************************************************************)
(* broker/processor.go:90: "send the message to other nodes in the cluster *)
(* that have subscribed to the topic". Once all is settled, a node knows   *)
(* over which link to reach every node that has a subscriber of the topic. *)
(***************************************************************************)
SubscribersKnown ==
  \A n, m \in Nodes :
    (<<n, m>> \in Dials /\ Settled(n, m)) =>
      \A t \in Topics : local[n][t] # {} => remote[m][<<t, n>>] = clusters[m][n]

-----------------------------------------------------------------------------
(* What the source says of the program and the code does not do            *)

(***************************************************************************)
(* The same comment: ... and none that has no subscriber.                  *)
(***************************************************************************)
StrangersUnknown ==
  \A n, m \in Nodes :
    Settled(n, m) => \A t \in Topics : local[n][t] = {} => remote[m][<<t, n>>] = NoEnd

(***************************************************************************)
(* cluster.go:217-231, ifs/i_server.go (Clusters): a link both ends read   *)
(* is found by name at both, so that messages and the next CheckHealthy    *)
(* use it instead of dialing once more.                                    *)
(***************************************************************************)
LiveIsEntered ==
  \A n, m \in Nodes, e \in Ends :
    ( /\ NodeOf(e) = n /\ PeerOf(e) = m /\ Up(e)
      /\ \A f \in Ends : pc[f] \in (IF f[1] = e[1] THEN {"loop", "read"} ELSE {"unused", "ended"}) )
    => clusters[n][m] = e

(***************************************************************************)
(* cluster/processor.go:86-97, "when a node in the cluster is              *)
(* disconnected, the node must unsubscript it's all topics": nothing is    *)
(* recorded for an end whose goroutine is over.                            *)
(***************************************************************************)
EndedIsForgotten ==
  \A n, m \in Nodes, t \in Topics :
    remote[n][<<t, m>>] # NoEnd => pc[remote[n][<<t, m>>]] # "ended"

Keepers(t) == {n \in Nodes : t \in retained[n]}

(***************************************************************************)
(* cluster/processor.go:37-46, "ensure that there is only one retain       *)
(* message for a topic in the entire clusters": not two ...                *)
(***************************************************************************)
OneRetain ==
  \A n, m \in Nodes, t \in Topics : Settled(n, m) => ~ ({n, m} \subseteq Keepers(t) /\ n # m)

(***************************************************************************)
(* ... and not none after there was one: the last is not removed while     *)
(* nobody is about to keep another (the empty message that clears a topic  *)
(* is not among the operations).                                           *)
(***************************************************************************)
RetainStays ==
  [][\A t \in Topics :
       ( /\ Keepers(t) # {}
         /\ \A n \in Nodes, c \in Clients :
              task[n][c].do = "retain" => task[n][c].topic # t )
       => Keepers(t)' # {}]_vars
=============================================================================
