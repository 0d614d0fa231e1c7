------------------------------ MODULE Delivery ------------------------------
(***************************************************************************)
(* From a client's PUBLISH to the clients that subscribed, on nodes whose  *)
(* links are up: the goroutine of a connection and that of either end of a *)
(* link handle one packet after the other, and a handler writes to other   *)
(* connections while it runs.  A write waits for room in the TCP           *)
(* connection, and nothing but the peer, who reads or goes away, makes     *)
(* room: there are no deadlines.                                           *)
(*                                                                         *)
(* A handler is a list of steps.  It starts with what the packet in hand   *)
(* asks for; a step is one access to what the goroutines share, and puts   *)
(* the steps that follow from what it found in front of the rest.          *)
(*                                                                         *)
(* There is one topic, and Filters are the filters that match it.          *)
(***************************************************************************)
EXTENDS Naturals, SequencesExt

CONSTANTS
  Nodes,
  Conns,       \* connections of clients
  NodeOf,      \* connection -> its node
  IdOf,        \* connection -> client identifier
  Filters,
  Programs,    \* what the clients ask for: see Init
  NoMessage,   \* no retained message
  ClientRoom,  \* bound: packets that wait in the connection of a client
  LinkRoom     \* bound: ... of a link, in one direction

ASSUME RoomAssumption == ClientRoom \in Nat \ {0} /\ LinkRoom \in Nat \ {0}
ASSUME FiltersAssumption == IsFiniteSet(Filters)

Ends == {e \in Nodes \X Nodes : e[1] # e[2]}  \* <<n, m>>: at n, of the link to m
Handlers == Conns \cup Ends

ASSUME ConnAssumption ==
  NodeOf \in [Conns -> Nodes] /\ DOMAIN IdOf = Conns /\ Conns \cap Ends = {}

\* The packets that the code tells apart, those of clients with a QoS.
Messages ==
  {packet.msg : packet \in
     {q \in UNION {ToSet(program.requests[c]) : program \in Programs, c \in Conns} :
        q.kind = "publish"}}

Packets ==
  [kind : {"ack", "ping"}] \cup [kind : {"publish"}, msg : Messages]
  \cup [kind : {"publish"}, qos : {0, 1}, msg : Messages]
  \cup [kind : {"subscribe", "unsubscribe"}, filters : Seq(Filters)]

ASSUME MessageAssumption ==
  /\ NoMessage \notin Messages
  /\ \A msg \in Messages :
       msg.by \in Conns /\ msg.nr \in Nat /\ msg.retain \in BOOLEAN /\ msg.payload \in BOOLEAN

\* Programs are well typed, and what a client publishes is numbered.
ASSUME ProgramAssumption ==
  \A program \in Programs :
    /\ program.requests \in [Conns -> Seq(Packets)]
    /\ program.status \in [Conns -> {"up", "gone", "closed"}]
    /\ program.subs \in [Nodes -> SUBSET (Filters \X Conns)]
    /\ \A n \in Nodes : \A p \in program.subs[n] : NodeOf[p[2]] = n
    /\ \A c \in Conns : \A i, j \in DOMAIN program.requests[c] :
         LET p == program.requests[c][i] q == program.requests[c][j] IN
         p.kind = "publish" =>
           p.msg.by = c /\ (q.kind = "publish" /\ i < j => p.msg.nr < q.msg.nr)

VARIABLES
  linked,    \* the ends there are
  leavers,   \* clients that may go away
  requests,  \* connection -> packets its client has yet to send
  work,      \* handler -> steps it has yet to do
  subs,      \* BrokerTopics of a node: <<filter, connection>>
  remote,    \* ClusterTopics of a node: <<filter, node>>
  retained,  \* BrokerTopics of a node: the retained message
  buffer,    \* handler -> packets written to its connection, not yet read
             \* by the client or, at an end, by the handler
  status,    \* connection -> "up", "gone" (the client), "closed" (Client.Close)
  log,       \* connection -> messages written to it
  due,       \* <<message, connection>>: subscribed when the handler began
  owed       \* connection -> messages retained during its last SUBSCRIBE

shared == <<subs, remote, retained>>
history == <<log, due, owed>>
vars == <<linked, leavers, requests, work, shared, buffer, status, history>>

Home(h) == IF h \in Conns THEN NodeOf[h] ELSE h[1]
Peer(e) == <<e[2], e[1]>>
Room(h) == IF h \in Conns THEN ClientRoom ELSE LinkRoom
Id(h) == IF h \in Conns THEN IdOf[h] ELSE h

\* Whom h answers: its client, or the end at the other node.
Answered(h) == IF h \in Conns THEN h ELSE Peer(h)

-----------------------------------------------------------------------------
(* Packets and steps                                                       *)

Ack == [kind |-> "ack"]
Publish(msg) == [kind |-> "publish", msg |-> msg]

Write(to, packet) == <<[do |-> "write", to |-> to, packet |-> packet]>>

\* The same, where the handler returns after an error.
WriteOrReturn(to, packet) == <<[do |-> "write or return", to |-> to, packet |-> packet]>>

\* A packet for each of the pairs of a filter and a client found by it, once
\* for each identifier; some have been told.
SendRest(pairs, told, packet) ==
  IF pairs = {} THEN <<>>
  ELSE <<[do |-> "send", to |-> pairs, told |-> told, packet |-> packet]>>

Send(pairs, packet) == SendRest(pairs, {}, packet)

Each(do, filters) == [i \in DOMAIN filters |-> [do |-> do, filter |-> filters[i]]]

\* Clusters().Range of node n: the packet is written to every link.
ToLinks(n, packet) == Send({<<"link", Peer(e)>> : e \in {f \in linked : f[1] = n}}, packet)

\* Processor.ProcessPublish of the broker and of the cluster.
PublishSteps(h, msg) ==
  <<[do |-> "match", msg |-> msg]>>
  \o (IF h \in Conns THEN <<[do |-> "match links", msg |-> msg]>> ELSE <<>>)
  \o (IF msg.retain THEN <<[do |-> "retain", msg |-> msg]>> ELSE <<>>)

\* The handlers of the packets; Forwards is for what the broker sends on.
Forwards(h, packet) == IF h \in Conns THEN ToLinks(Home(h), packet) ELSE <<>>

Steps(h, packet) ==
  CASE packet.kind = "publish" ->
         (IF h \in Conns /\ packet.qos = 1 THEN WriteOrReturn(h, Ack) ELSE <<>>)
         \o PublishSteps(h, packet.msg)
    [] packet.kind = "subscribe" ->
         Write(Answered(h), Ack) \o Each("subscribe", packet.filters) \o Forwards(h, packet)
    [] packet.kind = "unsubscribe" ->
         Write(Answered(h), Ack) \o Each("unsubscribe", packet.filters) \o Forwards(h, packet)
    [] packet.kind = "ping" -> Write(Answered(h), Ack)
    [] packet.kind = "ack" -> <<>>

Init ==
  \E program \in Programs :
    /\ linked = IF program.linked THEN Ends ELSE {}
    /\ leavers = program.leavers
    /\ requests = program.requests
    /\ subs = program.subs
    /\ status = program.status
    /\ work = [h \in Handlers |->
         IF h \in linked THEN <<[do |-> "sync", left |-> Filters]>> ELSE <<>>]
    /\ remote = [n \in Nodes |-> {}]
    /\ retained = [n \in Nodes |-> NoMessage]
    /\ buffer = [h \in Handlers |-> <<>>]
    /\ log = [c \in Conns |-> <<>>]
    /\ due = {}
    /\ owed = [c \in Conns |-> {}]

-----------------------------------------------------------------------------
(* ReadLoop                                                                *)

\* Who should get what a client of n publishes: the clients subscribed there,
\* and at the nodes that told n of a filter of theirs.
Audience(n) ==
  {c \in Conns : /\ status[c] = "up" /\ ~ \E s \in ToSet(work[c]) : s.do = "unsubscribe"
                 /\ \E f \in Filters :
                      /\ <<f, c>> \in subs[NodeOf[c]]
                      /\ NodeOf[c] = n \/ <<f, NodeOf[c]>> \in remote[n]}

Expect(c, packet) ==
  /\ due' = CASE packet.kind = "publish" -> due \cup ({packet.msg} \X Audience(NodeOf[c]))
              [] packet.kind = "unsubscribe" -> {d \in due : d[2] # c}
              [] OTHER -> due
  /\ owed' = [owed EXCEPT ![c] =
       IF packet.kind = "subscribe" /\ packet.filters # <<>>
       THEN {retained[NodeOf[c]]} \ {NoMessage} ELSE @]

\* Mutant: a goroutine for every packet.
ReadRequest_Concurrently(c) ==
  /\ status[c] # "closed"
  /\ requests[c] # <<>>
  /\ work' = [work EXCEPT ![c] = Steps(c, Head(requests[c])) \o @]
  /\ requests' = [requests EXCEPT ![c] = Tail(@)]
  /\ Expect(c, Head(requests[c]))
  /\ UNCHANGED <<linked, leavers, shared, buffer, status, log>>

\* A packet of a client; what it sent before it went can still be read.
ReadRequest(c) ==
  /\ work[c] = <<>>
  /\ status[c] # "closed"
  /\ requests[c] # <<>>
  /\ work' = [work EXCEPT ![c] = Steps(c, Head(requests[c]))]
  /\ requests' = [requests EXCEPT ![c] = Tail(@)]
  /\ Expect(c, Head(requests[c]))
  /\ UNCHANGED <<linked, leavers, shared, buffer, status, log>>

\* A packet of another node.
ReadLink(e) ==
  /\ work[e] = <<>>
  /\ buffer[e] # <<>>
  /\ work' = [work EXCEPT ![e] = Steps(e, Head(buffer[e]))]
  /\ buffer' = [buffer EXCEPT ![e] = Tail(@)]
  /\ UNCHANGED <<linked, leavers, requests, shared, status, history>>

\* ReadPacket fails, and ProcessDisconnect closes and unsubscribes.
ReadError(c) ==
  /\ work[c] = <<>>
  /\ status[c] = "gone"
  /\ status' = [status EXCEPT ![c] = "closed"]
  /\ work' = [work EXCEPT ![c] =
       Each("unsubscribe", SetToSeq({p[1] : p \in {q \in subs[NodeOf[c]] : q[2] = c}}))]
  /\ UNCHANGED <<linked, leavers, requests, shared, buffer, history>>

-----------------------------------------------------------------------------
(* The steps of a handler                                                  *)

Doing(h, do) == work[h] # <<>> /\ Head(work[h]).do = do

\* The first step is done; others follow from it.
Then(h, steps) == work' = [work EXCEPT ![h] = steps \o Tail(@)]

\* Mutant: one write for each subscription found.
PickRecipient_Again(h) ==
  /\ Doing(h, "send")
  /\ LET send == Head(work[h]) IN
     \E p \in send.to :
       Then(h, Write(p[2], send.packet) \o Send(send.to \ {p}, send.packet))
  /\ UNCHANGED <<linked, leavers, requests, shared, buffer, status, history>>

\* The next of the subscribers, in whatever order the trie returned them.
PickRecipient(h) ==
  /\ Doing(h, "send")
  /\ LET send == Head(work[h]) IN
     \E p \in send.to :
       Then(h, (IF Id(p[2]) \in send.told THEN <<>> ELSE Write(p[2], send.packet))
               \o SendRest(send.to \ {p}, send.told \cup {Id(p[2])}, send.packet))
  /\ UNCHANGED <<linked, leavers, requests, shared, buffer, status, history>>

Writing(h) == Doing(h, "write") \/ Doing(h, "write or return")

\* Client.WritePacket: the packet goes into the connection once there is room.
WritePacket(h) ==
  /\ Writing(h)
  /\ LET to     == Head(work[h]).to
         packet == Head(work[h]).packet
     IN  /\ to \in Conns => status[to] = "up"
         /\ Len(buffer[to]) < Room(to)
         /\ buffer' = [buffer EXCEPT ![to] = Append(@, packet)]
         /\ log' = IF to \in Conns /\ packet.kind = "publish"
                   THEN [log EXCEPT ![to] = Append(@, packet.msg)] ELSE log
  /\ Then(h, <<>>)
  /\ UNCHANGED <<linked, leavers, requests, shared, status, due, owed>>

\* Mutant: a write that waits does not end when the client goes.
WriteLost_IfRoom(h) ==
  /\ Writing(h)
  /\ Head(work[h]).to \in Conns /\ status[Head(work[h]).to] # "up"
  /\ Len(buffer[Head(work[h]).to]) < Room(Head(work[h]).to)
  /\ Then(h, <<>>)
  /\ UNCHANGED <<linked, leavers, requests, shared, buffer, status, history>>

\* To a client that is gone, with an error or without; on a closed Client
\* always without.
WriteLost(h) ==
  /\ Writing(h)
  /\ Head(work[h]).to \in Conns /\ status[Head(work[h]).to] # "up"
  /\ Then(h, <<>>)
  /\ UNCHANGED <<linked, leavers, requests, shared, buffer, status, history>>

\* The publication is dropped, and with it what was due.
Dropped(h) == {s.msg : s \in {t \in ToSet(work[h]) : t.do = "match"}}

\* Mutant: whatever cannot be written ends the handler.
WriteError_AlwaysReturns(h) ==
  /\ Writing(h)
  /\ Head(work[h]).to \in Conns /\ status[Head(work[h]).to] = "gone"
  /\ work' = [work EXCEPT ![h] = <<>>]
  /\ due' = {d \in due : d[1] \notin Dropped(h)}
  /\ UNCHANGED <<linked, leavers, requests, shared, buffer, status, log, owed>>

\* The error of PUBACK is looked at, and the message is not published.
WriteError(h) ==
  /\ Doing(h, "write or return")
  /\ status[h] = "gone"
  /\ work' = [work EXCEPT ![h] = <<>>]
  /\ due' = {d \in due : d[1] \notin Dropped(h)}
  /\ UNCHANGED <<linked, leavers, requests, shared, buffer, status, log, owed>>

\* BrokerTopics().Subscribers, in DoPublish of the broker and of the cluster.
Match(h) ==
  /\ Doing(h, "match")
  /\ Then(h, Send(subs[Home(h)], Publish(Head(work[h]).msg)))
  /\ UNCHANGED <<linked, leavers, requests, shared, buffer, status, history>>

\* ClusterTopics().Subscribers, when the clients have been served.
MatchLinks(h) ==
  /\ Doing(h, "match links")
  /\ LET n == Home(h) IN
     Then(h, Send({<<r[1], <<r[2], n>>>> : r \in remote[n]}, Publish(Head(work[h]).msg)))
  /\ UNCHANGED <<linked, leavers, requests, shared, buffer, status, history>>

\* Mutant: an empty message is kept like any other.
Kept_Empty(h, msg) == IF h \in Conns THEN msg ELSE NoMessage

\* What a node keeps after a message to be retained: the broker keeps it, or
\* nothing if it is empty; for the cluster another node keeps it.
Kept(h, msg) == IF h \in Conns /\ msg.payload THEN msg ELSE NoMessage

\* Mutant: the old message is removed before the new one is added.
Retain_RemovesFirst(h) ==
  LET n == Home(h) kept == Kept(h, Head(work[h]).msg) IN
  /\ Doing(h, "retain")
  /\ IF retained[n] = NoMessage
     THEN /\ retained' = [retained EXCEPT ![n] = kept]
          /\ Then(h, <<>>)
     ELSE retained' = [retained EXCEPT ![n] = NoMessage] /\ UNCHANGED work
  /\ owed' = [c \in Conns |->
       IF NodeOf[c] # n \/ owed[c] = {} THEN owed[c]
       ELSE IF kept = NoMessage THEN {} ELSE owed[c] \cup {kept}]
  /\ UNCHANGED <<linked, leavers, requests, subs, remote, buffer, status, log, due>>

\* AddRetain and RemoveRetain.
Retain(h) ==
  LET n == Home(h) kept == Kept(h, Head(work[h]).msg) IN
  /\ Doing(h, "retain")
  /\ retained' = [retained EXCEPT ![n] = kept]
  /\ owed' = [c \in Conns |->
       IF NodeOf[c] # n \/ owed[c] = {} THEN owed[c]
       ELSE IF kept = NoMessage THEN {} ELSE owed[c] \cup {kept}]
  /\ Then(h, <<>>)
  /\ UNCHANGED <<linked, leavers, requests, subs, remote, buffer, status, log, due>>

\* Subscriptions are kept by identifier: a client's, or the name of a node.
Others(h, f) ==
  {p \in subs[Home(h)] : p[1] # f \/ IdOf[p[2]] # Id(h)}

Subscribe(h) ==
  LET n == Home(h) f == Head(work[h]).filter IN
  /\ Doing(h, "subscribe")
  /\ IF h \in Conns
     THEN subs' = [subs EXCEPT ![n] = Others(h, f) \cup {<<f, h>>}] /\ UNCHANGED remote
     ELSE remote' = [remote EXCEPT ![n] = @ \cup {<<f, h[2]>>}] /\ UNCHANGED subs
  /\ Then(h, <<[do |-> "search"]>>)
  /\ UNCHANGED <<linked, leavers, requests, retained, buffer, status, history>>

\* SearchRetain
Search(h) ==
  /\ Doing(h, "search")
  /\ Then(h, IF retained[Home(h)] = NoMessage THEN <<>>
             ELSE Write(Answered(h), Publish(retained[Home(h)])))
  /\ UNCHANGED <<linked, leavers, requests, shared, buffer, status, history>>

Unsubscribe(h) ==
  LET n == Home(h) f == Head(work[h]).filter IN
  /\ Doing(h, "unsubscribe")
  /\ IF h \in Conns
     THEN subs' = [subs EXCEPT ![n] = Others(h, f)] /\ UNCHANGED remote
     ELSE remote' = [remote EXCEPT ![n] = @ \ {<<f, h[2]>>}] /\ UNCHANGED subs
  /\ Then(h, <<>>)
  /\ UNCHANGED <<linked, leavers, requests, retained, buffer, status, history>>

\* SyncTopics, before the loop of a new link: RangeTopics comes to a filter,
\* and SUBSCRIBE is written for it.
SyncTopic(h) ==
  /\ Doing(h, "sync")
  /\ \E f \in Head(work[h]).left :
       LET rest == Head(work[h]).left \ {f} IN
       Then(h, (IF \E p \in subs[Home(h)] : p[1] = f
                THEN Write(Peer(h), [kind |-> "subscribe", filters |-> <<f>>]) ELSE <<>>)
               \o (IF rest = {} THEN <<>> ELSE <<[do |-> "sync", left |-> rest]>>))
  /\ UNCHANGED <<linked, leavers, requests, shared, buffer, status, history>>

-----------------------------------------------------------------------------
(* The clients                                                             *)

ClientReads(c) ==
  /\ status[c] = "up"
  /\ buffer[c] # <<>>
  /\ buffer' = [buffer EXCEPT ![c] = Tail(@)]
  /\ UNCHANGED <<linked, leavers, requests, work, shared, status, history>>

ClientGoes(c) ==
  /\ status[c] = "up"
  /\ c \in leavers
  /\ status' = [status EXCEPT ![c] = "gone"]
  /\ due' = {d \in due : d[2] # c}
  /\ owed' = [owed EXCEPT ![c] = {}]
  /\ UNCHANGED <<linked, leavers, requests, work, shared, buffer, log>>

-----------------------------------------------------------------------------
Handle(h) ==
  \/ PickRecipient(h) \/ WritePacket(h) \/ WriteLost(h) \/ WriteError(h)
  \/ Match(h) \/ MatchLinks(h) \/ Retain(h)
  \/ Subscribe(h) \/ Search(h) \/ Unsubscribe(h) \/ SyncTopic(h)

Runs(h) ==
  \/ h \in Conns /\ (ReadRequest(h) \/ ReadError(h))
  \/ h \in Ends /\ ReadLink(h)
  \/ Handle(h)

Next ==
  \/ \E h \in Handlers : Runs(h)
  \/ \E c \in Conns : ClientReads(c) \/ ClientGoes(c)

Spec == Init /\ [][Next]_vars

\* Goroutines run, and a client reads what it gets or goes away.
FairSpec ==
  /\ Spec
  /\ \A h \in Handlers : WF_vars(Runs(h))
  /\ \A c \in Conns : WF_vars(ClientReads(c))

-----------------------------------------------------------------------------
(* Properties                                                              *)

TypeOK ==
  /\ \A n \in Nodes :
       /\ subs[n] \subseteq Filters \X {c \in Conns : NodeOf[c] = n}
       /\ remote[n] \subseteq Filters \X (Nodes \ {n})
       /\ retained[n] = NoMessage \/ (retained[n].retain /\ retained[n].payload)
  /\ \A h \in Handlers : Len(buffer[h]) <= Room(h)
  /\ \A c \in Conns : status[c] \in {"up", "gone", "closed"}

(***************************************************************************)
(* broker/processor.go:79 and cluster/processor.go:28, "a message is only  *)
(* sent to a client once": however many of its filters match, on every     *)
(* node, and through the links, a client gets a message once.  (A retained *)
(* message is also sent on SUBSCRIBE.)                                     *)
(***************************************************************************)
AtMostOnce ==
  \A c \in Conns : \A i, j \in DOMAIN log[c] :
    i # j /\ log[c][i] = log[c][j] => log[c][i].retain

(***************************************************************************)
(* ReadLoop (clients.go:51) handles a packet to its end before it reads    *)
(* the next one: a subscriber gets the messages of a publisher in the      *)
(* order they were published, whoever else writes to its connection and    *)
(* over however many nodes.  (Again, but for the retained ones.)           *)
(***************************************************************************)
InOrder ==
  \A c \in Conns : \A i, j \in DOMAIN log[c] :
    ( /\ i < j /\ log[c][i].by = log[c][j].by
      /\ ~ log[c][i].retain /\ ~ log[c][j].retain ) => log[c][i].nr <= log[c][j].nr

Quiet == (\A h \in Handlers : work[h] = <<>>) /\ \A e \in Ends : buffer[e] = <<>>

(***************************************************************************)
(* DoPublish (processor.go:81-88, 93-99) goes on after a write that        *)
(* failed: whoever else is gone, a client that subscribed before the       *)
(* message was read, here or on a node that had told of it, and that       *)
(* stays, has it when all is handled.                                      *)
(***************************************************************************)
NoneMissed == Quiet => \A d \in due : d[1] \in ToSet(log[d[2]])

(***************************************************************************)
(* ProcessSubscribe (processor.go:181-186): when the handler is done, the  *)
(* client has got a message that was retained meanwhile, if there was one  *)
(* from the beginning, while other connections replace it, unless it is    *)
(* removed, by an empty one or for that of another node.                   *)
(***************************************************************************)
RetainedIsSent ==
  \A c \in Conns :
    (work[c] = <<>> /\ status[c] = "up" /\ owed[c] # {}) => owed[c] \cap ToSet(log[c]) # {}

(***************************************************************************)
(* WritePacket has no deadline (clients.go:90-96): still no handler is     *)
(* stuck for ever, as long as clients read or go and the links have room   *)
(* for what is told over them.                                             *)
(***************************************************************************)
HandlersEnd == <>[](\A h \in Handlers : work[h] = <<>>)

-----------------------------------------------------------------------------
(* What the source says of the program and the code does not do            *)

(***************************************************************************)
(* processor.go:181, "if there is a retain msg send it to this client":    *)
(* in the end a subscriber has the message its node retains.               *)
(***************************************************************************)
SubscriberIsCurrent ==
  Quiet => \A c \in Conns : \A n \in {NodeOf[c]} :
    (status[c] = "up" /\ (\E p \in subs[n] : p[2] = c) /\ retained[n] # NoMessage)
      => retained[n] \in ToSet(log[c])

(***************************************************************************)
(* The same line: ... and has it last.                                     *)
(***************************************************************************)
RetainedInOrder ==
  \A c \in Conns : \A i, j \in DOMAIN log[c] :
    i < j /\ log[c][i].by = log[c][j].by => log[c][i].nr <= log[c][j].nr
=============================================================================
