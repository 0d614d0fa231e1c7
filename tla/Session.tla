------------------------------- MODULE Session -------------------------------
(***************************************************************************)
(* The life of the connections of one broker: Broker.Handler,              *)
(* Client.ReadLoop and the handlers of Processor that connect, subscribe,  *)
(* unsubscribe and disconnect.  Every connection has a goroutine; they     *)
(* share the map of clients, the trie (Trie.tla, an operation at a time:   *)
(* Foliage.tla takes the unlocked ones apart) and the counters of State,   *)
(* and a connection closes the one that held its client identifier before. *)
(*                                                                         *)
(* The topics, the will and the identifier of a Client are used by its own *)
(* goroutine only, so a step is one access to what is shared, with the     *)
(* local statements around it.                                             *)
(***************************************************************************)
EXTENDS Trie, Integers

CONSTANTS
  Conns,        \* Client objects, one for each connection accepted
  NoConn,       \* no entry in the map of clients
  Identities,   \* client identifiers
  NoIdentity,   \* the identifier of a connection that is not registered
  Filters,      \* topics and filters of SUBSCRIBE and UNSUBSCRIBE packets
  Packets,      \* CONNECT packets: an identifier, and NoWill or the will's QoS
  MaxConnects,  \* bound: CONNECT packets over one connection
  Overlap,      \* CONNECTs with the same identifier may be under way together
  Unsolicited   \* clients unsubscribe topics they did not subscribe

NoWill == "none"

ASSUME ConnAssumption == NoConn \notin Conns
ASSUME IdentityAssumption == NoIdentity \notin Identities
ASSUME FilterAssumption == \A filter \in Filters : WellFormed(filter)
ASSUME PacketAssumption ==
  Packets \subseteq [id : Identities, will : {NoWill, "qos0", "qos1", "qos2"}]
ASSUME ScenarioAssumption ==
  Overlap \in BOOLEAN /\ Unsolicited \in BOOLEAN /\ MaxConnects \in Nat

VARIABLES
  pc,        \* connection -> what its goroutine does next
  connect,   \* connection -> its last CONNECT packet
  connects,  \* connection -> number of its CONNECT packets
  id,        \* Client.id
  will,      \* Client.will
  topics,    \* Client.topics
  work,      \* the topics of the packet in hand that are not yet handled
  peer,      \* "up", or "gone": reads fail and writes may
  closed,    \* Client.Close ran: ctx is done and conn is nil
  clients,   \* Server.Clients: identifier -> connection
  trie,      \* Server.BrokerTopics
  SubCount, ClientsConnected,
  graceful,  \* connections whose DISCONNECT packet was received
  willSent,  \* connections whose will was published
  cleaned    \* connections whose ProcessDisconnect has returned

shared == <<clients, trie, SubCount, ClientsConnected>>
local == <<connect, connects, id, will, topics>>
history == <<graceful, willSent, cleaned>>
vars == <<pc, local, work, peer, closed, shared, history>>

NoPacket == [id |-> NoIdentity, will |-> NoWill]

Init ==
  /\ pc = [c \in Conns |-> "idle"]
  /\ connect = [c \in Conns |-> NoPacket]
  /\ connects = [c \in Conns |-> 0]
  /\ id = [c \in Conns |-> NoIdentity]
  /\ will = [c \in Conns |-> NoWill]
  /\ topics = [c \in Conns |-> {}]
  /\ work = [c \in Conns |-> {}]
  /\ peer = [c \in Conns |-> "up"]
  /\ closed = [c \in Conns |-> FALSE]
  /\ clients = [i \in Identities |-> NoConn]
  /\ trie = NewTrie
  /\ SubCount = 0
  /\ ClientsConnected = 0
  /\ graceful = {}
  /\ willSent = {}
  /\ cleaned = {}

Goto(c, label) == pc' = [pc EXCEPT ![c] = label]

At(c, label) == pc[c] = label

\* Client.WritePacket: with or without an error when the peer is gone, and when
\* the client was closed, for Close sets conn to nil after it has closed it.
MayWrite(c, written) ==
  ~ closed[c] /\ peer[c] = "up" => written

-----------------------------------------------------------------------------
\* The first packet cannot be read or is no CONNECT: Handler closes and returns.
RefuseFirst(c) ==
  /\ At(c, "idle")
  /\ closed' = [closed EXCEPT ![c] = TRUE]
  /\ Goto(c, "ended")
  /\ UNCHANGED <<local, work, peer, shared, history>>

-----------------------------------------------------------------------------
(* ProcessConnect                                                          *)

Connecting(c) == pc[c] \in {"takeover", "connack", "register"}

\* A CONNECT packet is read, by Handler or later by ReadLoop.
ReceiveConnect(c) ==
  /\ pc[c] \in {"idle", "read"}
  /\ ~ closed[c] /\ peer[c] = "up"
  /\ connects[c] < MaxConnects
  /\ connects' = [connects EXCEPT ![c] = @ + 1]
  /\ \E packet \in Packets :
       /\ Overlap \/ \A d \in Conns : Connecting(d) => connect[d].id # packet.id
       /\ connect' = [connect EXCEPT ![c] = packet]
  /\ Goto(c, "takeover")
  /\ UNCHANGED <<id, will, topics, work, peer, closed, shared, history>>

\* Mutant: the client found is not closed.
TakeOver_KeepsOld(c) ==
  /\ At(c, "takeover")
  /\ Goto(c, "connack")
  /\ UNCHANGED <<local, work, peer, closed, shared, history>>

\* Clients().Load; the client found is closed.
TakeOver(c) ==
  /\ At(c, "takeover")
  /\ closed' = [d \in Conns |-> closed[d] \/ d = clients[connect[c].id]]
  /\ Goto(c, "connack")
  /\ UNCHANGED <<local, work, peer, shared, history>>

\* CONNACK is written; after an error the loop runs with an unknown client.
WriteConnack(c) ==
  /\ At(c, "connack")
  /\ \E written \in BOOLEAN :
       /\ MayWrite(c, written)
       /\ Goto(c, IF written THEN "register" ELSE "loop")
  /\ UNCHANGED <<local, work, peer, closed, shared, history>>

\* Mutant: SetId is forgotten.
Register_NoId(c) ==
  LET packet == connect[c] IN
  /\ At(c, "register")
  /\ clients' = [clients EXCEPT ![packet.id] = c]
  /\ ClientsConnected' = ClientsConnected + 1
  /\ Goto(c, "loop")
  /\ UNCHANGED <<connect, connects, id, will, topics, work, peer, closed, trie,
                 SubCount, history>>

Register(c) ==
  LET packet == connect[c] IN
  /\ At(c, "register")
  /\ id' = [id EXCEPT ![c] = packet.id]
  /\ clients' = [clients EXCEPT ![packet.id] = c]
  /\ will' = [will EXCEPT ![c] = IF packet.will = NoWill THEN @ ELSE packet.will]
  /\ ClientsConnected' = ClientsConnected + 1
  /\ Goto(c, "loop")
  /\ UNCHANGED <<connect, connects, topics, work, peer, closed, trie, SubCount,
                 history>>

-----------------------------------------------------------------------------
(* ReadLoop                                                                *)

\* Mutant: ReadLoop does not look at ctx.
Loop_NotCancelled(c) ==
  /\ At(c, "loop")
  /\ Goto(c, "read")
  /\ UNCHANGED <<local, work, peer, closed, shared, history>>

\* The select statement: a cancelled connection ends here, with nothing undone.
Loop(c) ==
  /\ At(c, "loop")
  /\ Goto(c, IF closed[c] THEN "ended" ELSE "read")
  /\ UNCHANGED <<local, work, peer, closed, shared, history>>

\* Mutant: closing the client does not wake its reader.
ReadError_PeerOnly(c) ==
  /\ At(c, "read")
  /\ peer[c] = "gone"
  /\ Goto(c, IF will[c] = NoWill THEN "close" ELSE "will")
  /\ UNCHANGED <<local, work, peer, closed, shared, history>>

\* ReadPacket fails, because the peer is gone or because the client was closed.
ReadError(c) ==
  /\ At(c, "read")
  /\ closed[c] \/ peer[c] = "gone"
  /\ Goto(c, IF will[c] = NoWill THEN "close" ELSE "will")
  /\ UNCHANGED <<local, work, peer, closed, shared, history>>

Receive(c) == At(c, "read") /\ ~ closed[c] /\ peer[c] = "up"

ReceiveSubscribe(c) ==
  /\ Receive(c)
  /\ \E packet \in SUBSET Filters \ {{}} : work' = [work EXCEPT ![c] = packet]
  /\ Goto(c, "subscribe")
  /\ UNCHANGED <<local, peer, closed, shared, history>>

ReceiveUnsubscribe(c) ==
  /\ Receive(c)
  /\ \E packet \in SUBSET Filters \ {{}} :
       /\ Unsolicited \/ packet \subseteq topics[c]
       /\ work' = [work EXCEPT ![c] = packet]
  /\ Goto(c, "unsubscribe")
  /\ UNCHANGED <<local, peer, closed, shared, history>>

ReceiveDisconnect(c) ==
  /\ Receive(c)
  /\ graceful' = graceful \cup {c}
  /\ Goto(c, "close")
  /\ UNCHANGED <<local, work, peer, closed, shared, willSent, cleaned>>

\* ProcessPublish of the will.  PUBACK and PUBREC go to the dead peer, and a
\* will of QoS 2 has message id 0, which may be in flight already.
PublishWill(c) ==
  /\ At(c, "will")
  /\ \E accepted \in BOOLEAN :
       /\ will[c] = "qos0" => accepted
       /\ will[c] = "qos1" => MayWrite(c, accepted)
       /\ willSent' = IF accepted THEN willSent \cup {c} ELSE willSent
  /\ Goto(c, "close")
  /\ UNCHANGED <<local, work, peer, closed, shared, graceful, cleaned>>

-----------------------------------------------------------------------------
(* ProcessSubscribe and ProcessUnSubscribe, a topic at a time              *)

SubscribeTopic(c, topic) ==
  /\ At(c, "subscribe")
  /\ topic \in work[c]
  /\ topics' = [topics EXCEPT ![c] = @ \cup {topic}]
  /\ trie' = Subscribe(trie, topic, id[c], c)
  /\ SubCount' = SubCount + (IF SubscribeExist(trie, topic, id[c]) THEN 0 ELSE 1)
  /\ work' = [work EXCEPT ![c] = @ \ {topic}]
  /\ Goto(c, IF work'[c] = {} THEN "loop" ELSE "subscribe")
  /\ UNCHANGED <<connect, connects, id, will, peer, closed, clients,
                 ClientsConnected, history>>

\* Mutant: the client goes on believing that it is subscribed.
DropTopic_KeepsTopic(c, topic) ==
  /\ topics' = topics
  /\ trie' = Unsubscribe(trie, topic, id[c])
  /\ SubCount' = SubCount - (IF UnsubscribeExist(trie, topic) THEN 1 ELSE 0)

\* RemoveTopic, Unsubscribe and the counter, here and in ProcessDisconnect.
DropTopic(c, topic) ==
  /\ topics' = [topics EXCEPT ![c] = @ \ {topic}]
  /\ trie' = Unsubscribe(trie, topic, id[c])
  /\ SubCount' = SubCount - (IF UnsubscribeExist(trie, topic) THEN 1 ELSE 0)

UnsubscribeTopic(c, topic) ==
  /\ At(c, "unsubscribe")
  /\ topic \in work[c]
  /\ DropTopic(c, topic)
  /\ work' = [work EXCEPT ![c] = @ \ {topic}]
  /\ Goto(c, IF work'[c] = {} THEN "loop" ELSE "unsubscribe")
  /\ UNCHANGED <<connect, connects, id, will, peer, closed, clients,
                 ClientsConnected, history>>

-----------------------------------------------------------------------------
(* ProcessDisconnect                                                       *)

\* Mutant: the topics are left to the client that takes over.
Close_KeepsTopics(c) ==
  /\ At(c, "close")
  /\ closed' = [closed EXCEPT ![c] = TRUE]
  /\ Goto(c, "leave")
  /\ UNCHANGED <<local, work, peer, shared, history>>

Close(c) ==
  /\ At(c, "close")
  /\ closed' = [closed EXCEPT ![c] = TRUE]
  /\ Goto(c, IF topics[c] = {} THEN "leave" ELSE "clean")
  /\ UNCHANGED <<local, work, peer, shared, history>>

CleanTopic(c, topic) ==
  /\ At(c, "clean")
  /\ topic \in topics[c]
  /\ DropTopic(c, topic)
  /\ Goto(c, IF topics'[c] = {} THEN "leave" ELSE "clean")
  /\ UNCHANGED <<connect, connects, id, will, work, peer, closed, clients,
                 ClientsConnected, history>>

\* After a DISCONNECT packet ReadLoop goes on, after a read error it returns.
Leave(c) ==
  /\ At(c, "leave")
  /\ ClientsConnected' = ClientsConnected - 1
  /\ cleaned' = cleaned \cup {c}
  /\ Goto(c, IF c \in graceful THEN "loop" ELSE "ended")
  /\ UNCHANGED <<local, work, peer, closed, clients, trie, SubCount, graceful,
                 willSent>>

-----------------------------------------------------------------------------
\* The network, or the client, drops the connection.
PeerGone(c) ==
  /\ pc[c] \notin {"idle", "ended"}
  /\ peer[c] = "up"
  /\ peer' = [peer EXCEPT ![c] = "gone"]
  /\ UNCHANGED <<pc, local, work, closed, shared, history>>

\* What the goroutine does without waiting for a packet.
Runs(c) ==
  \/ TakeOver(c) \/ WriteConnack(c) \/ Register(c)
  \/ Loop(c) \/ ReadError(c) \/ PublishWill(c)
  \/ \E topic \in Filters :
       SubscribeTopic(c, topic) \/ UnsubscribeTopic(c, topic) \/
       CleanTopic(c, topic)
  \/ Close(c) \/ Leave(c)

Receives(c) ==
  \/ RefuseFirst(c) \/ ReceiveConnect(c) \/ ReceiveSubscribe(c)
  \/ ReceiveUnsubscribe(c) \/ ReceiveDisconnect(c)

Next == \E c \in Conns : Runs(c) \/ Receives(c) \/ PeerGone(c)

Spec == Init /\ [][Next]_vars

\* A goroutine that can run does; clients owe the broker no packet.
FairSpec == Spec /\ \A c \in Conns : WF_vars(Runs(c))

-----------------------------------------------------------------------------
(* Properties                                                              *)

Labels == {"idle", "takeover", "connack", "register", "loop", "read", "will",
           "subscribe", "unsubscribe", "close", "clean", "leave", "ended"}

TypeOK ==
  /\ pc \in [Conns -> Labels]
  /\ connect \in [Conns -> Packets \cup {NoPacket}]
  /\ connects \in [Conns -> 0 .. MaxConnects]
  /\ id \in [Conns -> Identities \cup {NoIdentity}]
  /\ will \in [Conns -> {NoWill} \cup {packet.will : packet \in Packets}]
  /\ topics \in [Conns -> SUBSET Filters]
  /\ work \in [Conns -> SUBSET Filters]
  /\ \A c \in Conns : topics[c] \cup work[c] # {} => id[c] # NoIdentity
  /\ peer \in [Conns -> {"up", "gone"}]
  /\ closed \in [Conns -> BOOLEAN]
  /\ clients \in [Identities -> Conns \cup {NoConn}]
  /\ SubCount \in Int /\ ClientsConnected \in Int
  /\ graceful \subseteq Conns /\ willSent \subseteq Conns
  /\ cleaned \subseteq Conns

\* A publication that the trie holds c for reaches it.
Subscribed(c) ==
  {filter \in Filters :
     \E i \in DOMAIN SubsOf(trie, filter) : SubsOf(trie, filter)[i] = c}

\* The connections some leaf of the trie holds.
Held ==
  {c \in Conns : Subscribed(c) # {}} \cup
  UNION {{leaf.subs[i] : i \in DOMAIN leaf.subs} :
           leaf \in {trie.leaves[at] : at \in DOMAIN trie.leaves}}

Registered(c) == id[c] # NoIdentity /\ pc[c] # "ended"

\* Connections whose CONNECT is handled and whose cleanup has not begun.
Serving(c) == Registered(c) /\ pc[c] \in {"loop", "read", "subscribe", "unsubscribe"}

Alone(c) == \A d \in Conns \ {c} : connect[d].id # connect[c].id

(***************************************************************************)
(* ReadLoop and ProcessDisconnect (clients.go:41, processor.go:204): once  *)
(* the DISCONNECT packet of a client is received, its will is not          *)
(* published any more, and no second goroutine path publishes it either.   *)
(***************************************************************************)
NoWillAfterDisconnect == graceful \cap willSent = {}

(***************************************************************************)
(* ProcessDisconnect (processor.go:202): when it has returned, the trie    *)
(* holds the connection nowhere, also if its identifier was taken over     *)
(* while it was subscribing.                                               *)
(***************************************************************************)
CleanedIsForgotten == cleaned \cap Held = {}

(***************************************************************************)
(* ProcessSubscribe, ProcessUnSubscribe (processor.go:148-193): as long as *)
(* a client is alone with its identifier, what it believes to be           *)
(* subscribed to is what the trie holds for it, whatever branches the      *)
(* operations of other clients add and clean.                              *)
(***************************************************************************)
AloneIsServed ==
  \A c \in Conns : Serving(c) /\ Alone(c) => Subscribed(c) = topics[c]

(***************************************************************************)
(* ProcessConnect (processor.go:237): of two connections registered with   *)
(* one identifier, one after the other, the earlier one is closed.         *)
(***************************************************************************)
OneOpenPerIdentity ==
  \A c, d \in Conns :
    Registered(c) /\ Registered(d) /\ id[c] = id[d] /\ c # d =>
      closed[c] \/ closed[d]

(***************************************************************************)
(* Client.Close (clients.go:122): the goroutine of a client that was       *)
(* closed, by itself or by a successor, ends whatever it was doing.        *)
(***************************************************************************)
ClosedEnds ==
  \A c \in Conns : closed[c] ~> pc[c] = "ended"

-----------------------------------------------------------------------------
(* What the source says of the program and the code does not do            *)

(***************************************************************************)
(* clients.go:41-42: "if the client has disconnected ungracefully. the     *)
(* broker sends the last-will message to all subscribed clients".          *)
(***************************************************************************)
WillSentUnlessGraceful ==
  \A c \in Conns :
    pc[c] = "ended" /\ will[c] # NoWill /\ c \notin graceful => c \in willSent

(***************************************************************************)
(* processor.go:206: "when a client disconnected, the client must          *)
(* unsubscript it's all topics".                                           *)
(***************************************************************************)
EndedIsForgotten ==
  \A c \in Conns : pc[c] = "ended" => Subscribed(c) = {}

(***************************************************************************)
(* processor.go:206: the topics a disconnecting client unsubscribes are    *)
(* its own, not those of the connection that took over its identifier.     *)
(***************************************************************************)
SuccessorIsServed ==
  \A c \in Conns :
    Serving(c) /\ ~ closed[c] /\ clients[id[c]] = c => topics[c] \subseteq Subscribed(c)

\* No packet is being handled and no connection is being set up or taken down.
Quiet == \A c \in Conns : pc[c] \in {"idle", "read", "ended"}

(***************************************************************************)
(* ifs/i_server.go:18, ClientsConnected: "The number of currently          *)
(* connected clients."                                                     *)
(***************************************************************************)
ConnectedIsCounted ==
  Quiet => ClientsConnected = Cardinality({c \in Conns : At(c, "read") /\ Registered(c)})

(***************************************************************************)
(* ifs/i_server.go:66, SubCount: "The total number of subscriptions active *)
(* on the broker."                                                         *)
(***************************************************************************)
SubscriptionsAreCounted ==
  Quiet =>
    SubCount = Cardinality({s \in Filters \X Identities :
                              s[2] \in DOMAIN SubsOf(trie, s[1])})
=============================================================================
