---------------------------- MODULE SessionProofs ----------------------------
(***************************************************************************)
(* For any number of connections, identifiers, filters and CONNECT         *)
(* packets: a will and a DISCONNECT packet exclude each other, and so do   *)
(* two open connections with one identifier; what a client believes to be  *)
(* subscribed and what the trie holds for it agree.                        *)
(***************************************************************************)
EXTENDS Session, TrieTheorems

\* A client whose CONNACK could not be written is not registered, and what it
\* sends cannot be read.
UnknownIsGone ==
  \A c \in Conns :
    id[c] = NoIdentity /\ pc[c] \notin {"idle", "takeover", "connack", "register", "ended"}
      => (closed[c] \/ peer[c] = "gone") /\ topics[c] = {} /\ work[c] = {}

\* Before the first CONNECT is handled there is nothing to clean up.
StartsEmpty ==
  \A c \in Conns :
    id[c] = NoIdentity /\ pc[c] \in {"idle", "takeover", "connack", "register", "ended"}
      => topics[c] = {} /\ work[c] = {}

ConnectIsRead ==
  \A c \in Conns : Connecting(c) => connect[c] \in Packets

SessionInv == TypeOK /\ UnknownIsGone /\ StartsEmpty /\ ConnectIsRead

\* What is left to do after DISCONNECT, and after the will.
GracefulLeaves ==
  \A c \in graceful :
    pc[c] = "close" \/ (closed[c] /\ pc[c] \in {"clean", "leave", "loop", "ended"})

WillIsLast ==
  \A c \in Conns :
    /\ c \in willSent => pc[c] \in {"close", "clean", "leave", "ended"}
    /\ (pc[c] = "will" \/ c \in willSent) => c \notin graceful

-----------------------------------------------------------------------------
(* Types                                                                   *)

LEMMA InitSessionInv == Init => SessionInv
  BY ScenarioAssumption
  DEF Init, SessionInv, TypeOK, Labels, UnknownIsGone, StartsEmpty,
      ConnectIsRead, Connecting, NoPacket

LEMMA NextSessionInv ==
  ASSUME SessionInv, [Next]_vars
  PROVE  SessionInv'
<1> USE PacketAssumption, ScenarioAssumption, IdentityAssumption
    DEF SessionInv, TypeOK, Labels, UnknownIsGone, StartsEmpty, ConnectIsRead,
        Connecting, Goto, At, shared, local, history, NoPacket
<1>1. ASSUME NEW c \in Conns, RefuseFirst(c) PROVE SessionInv'
  BY <1>1 DEF RefuseFirst
<1>2. ASSUME NEW c \in Conns, ReceiveConnect(c) PROVE SessionInv'
  BY <1>2 DEF ReceiveConnect
<1>3. ASSUME NEW c \in Conns, TakeOver(c) PROVE SessionInv'
  BY <1>3 DEF TakeOver
<1>4. ASSUME NEW c \in Conns, WriteConnack(c) PROVE SessionInv'
  BY <1>4 DEF WriteConnack, MayWrite
<1>5. ASSUME NEW c \in Conns, Register(c) PROVE SessionInv'
  BY <1>5 DEF Register
<1>6. ASSUME NEW c \in Conns, Loop(c) PROVE SessionInv'
  BY <1>6 DEF Loop
<1>7. ASSUME NEW c \in Conns, ReadError(c) PROVE SessionInv'
  BY <1>7 DEF ReadError
<1>8. ASSUME NEW c \in Conns, ReceiveSubscribe(c) PROVE SessionInv'
  BY <1>8 DEF ReceiveSubscribe, Receive
<1>9. ASSUME NEW c \in Conns, ReceiveUnsubscribe(c) PROVE SessionInv'
  BY <1>9 DEF ReceiveUnsubscribe, Receive
<1>10. ASSUME NEW c \in Conns, ReceiveDisconnect(c) PROVE SessionInv'
  BY <1>10 DEF ReceiveDisconnect, Receive
<1>11. ASSUME NEW c \in Conns, PublishWill(c) PROVE SessionInv'
  BY <1>11 DEF PublishWill, MayWrite
<1>12. ASSUME NEW c \in Conns, NEW topic \in Filters, SubscribeTopic(c, topic)
      PROVE  SessionInv'
  BY <1>12 DEF SubscribeTopic
<1>13. ASSUME NEW c \in Conns, NEW topic \in Filters, UnsubscribeTopic(c, topic)
      PROVE  SessionInv'
  BY <1>13 DEF UnsubscribeTopic, DropTopic
<1>14. ASSUME NEW c \in Conns, NEW topic \in Filters, CleanTopic(c, topic)
      PROVE  SessionInv'
  BY <1>14 DEF CleanTopic, DropTopic
<1>15. ASSUME NEW c \in Conns, Close(c) PROVE SessionInv'
  BY <1>15 DEF Close
<1>16. ASSUME NEW c \in Conns, Leave(c) PROVE SessionInv'
  BY <1>16 DEF Leave
<1>17. ASSUME NEW c \in Conns, PeerGone(c) PROVE SessionInv'
  BY <1>17 DEF PeerGone
<1>18. CASE UNCHANGED vars
  BY <1>18 DEF vars
<1> QED
  BY <1>1, <1>2, <1>3, <1>4, <1>5, <1>6, <1>7, <1>8, <1>9,
     <1>10, <1>11, <1>12, <1>13, <1>14, <1>15, <1>16, <1>17, <1>18
  DEF Next, Runs, Receives

LEMMA AlwaysSessionInv == Spec => []SessionInv
  BY InitSessionInv, NextSessionInv, PTL DEF Spec

(***************************************************************************)
(* The handlers of a connection keep their types, and a connection without *)
(* an identifier (processor.go:247) never subscribes anything.             *)
(***************************************************************************)
THEOREM TypeCorrect == Spec => []TypeOK
<1>1. SessionInv => TypeOK
  BY DEF SessionInv
<1> QED
  BY <1>1, AlwaysSessionInv, PTL

-----------------------------------------------------------------------------
(* The will                                                                *)

WillInv ==
  /\ pc \in [Conns -> Labels] /\ closed \in [Conns -> BOOLEAN]
  /\ graceful \subseteq Conns /\ willSent \subseteq Conns
  /\ GracefulLeaves /\ WillIsLast

LEMMA NextWillInv ==
  ASSUME WillInv, [Next]_vars
  PROVE  WillInv'
<1> USE DEF WillInv, Labels, GracefulLeaves, WillIsLast, Goto, At, shared, local,
        history
<1>1. ASSUME NEW c \in Conns, RefuseFirst(c) PROVE WillInv'
  BY <1>1 DEF RefuseFirst
<1>2. ASSUME NEW c \in Conns, ReceiveConnect(c) PROVE WillInv'
  BY <1>2 DEF ReceiveConnect
<1>3. ASSUME NEW c \in Conns, TakeOver(c) PROVE WillInv'
  BY <1>3 DEF TakeOver
<1>4. ASSUME NEW c \in Conns, WriteConnack(c) PROVE WillInv'
  BY <1>4 DEF WriteConnack, MayWrite
<1>5. ASSUME NEW c \in Conns, Register(c) PROVE WillInv'
  BY <1>5 DEF Register
<1>6. ASSUME NEW c \in Conns, Loop(c) PROVE WillInv'
  BY <1>6 DEF Loop
<1>7. ASSUME NEW c \in Conns, ReadError(c) PROVE WillInv'
  BY <1>7 DEF ReadError
<1>8. ASSUME NEW c \in Conns, ReceiveSubscribe(c) PROVE WillInv'
  BY <1>8 DEF ReceiveSubscribe, Receive
<1>9. ASSUME NEW c \in Conns, ReceiveUnsubscribe(c) PROVE WillInv'
  BY <1>9 DEF ReceiveUnsubscribe, Receive
<1>10. ASSUME NEW c \in Conns, ReceiveDisconnect(c) PROVE WillInv'
  BY <1>10 DEF ReceiveDisconnect, Receive
<1>11. ASSUME NEW c \in Conns, PublishWill(c) PROVE WillInv'
  BY <1>11 DEF PublishWill, MayWrite
<1>12. ASSUME NEW c \in Conns, NEW topic \in Filters, SubscribeTopic(c, topic)
      PROVE  WillInv'
  BY <1>12 DEF SubscribeTopic
<1>13. ASSUME NEW c \in Conns, NEW topic \in Filters, UnsubscribeTopic(c, topic)
      PROVE  WillInv'
  BY <1>13 DEF UnsubscribeTopic, DropTopic
<1>14. ASSUME NEW c \in Conns, NEW topic \in Filters, CleanTopic(c, topic)
      PROVE  WillInv'
  BY <1>14 DEF CleanTopic, DropTopic
<1>15. ASSUME NEW c \in Conns, Close(c) PROVE WillInv'
  BY <1>15 DEF Close
<1>16. ASSUME NEW c \in Conns, Leave(c) PROVE WillInv'
  BY <1>16 DEF Leave
<1>17. ASSUME NEW c \in Conns, PeerGone(c) PROVE WillInv'
  BY <1>17 DEF PeerGone
<1>18. CASE UNCHANGED vars
  BY <1>18 DEF vars
<1> QED
  BY <1>1, <1>2, <1>3, <1>4, <1>5, <1>6, <1>7, <1>8, <1>9,
     <1>10, <1>11, <1>12, <1>13, <1>14, <1>15, <1>16, <1>17, <1>18
  DEF Next, Runs, Receives

(***************************************************************************)
(* ReadLoop and ProcessDisconnect (clients.go:41, processor.go:204): the   *)
(* goroutine of a client that sent DISCONNECT never comes to its will.     *)
(***************************************************************************)
THEOREM DisconnectSilencesWill == Spec => []NoWillAfterDisconnect
<1>1. Init => WillInv
  BY DEF Init, WillInv, Labels, GracefulLeaves, WillIsLast
<1>2. WillInv => NoWillAfterDisconnect
  BY DEF WillInv, WillIsLast, NoWillAfterDisconnect
<1> QED
  BY <1>1, <1>2, NextWillInv, PTL DEF Spec

-----------------------------------------------------------------------------
(* One open connection for an identifier                                   *)

SerialConnects ==
  \A c, d \in Conns :
    Connecting(c) /\ Connecting(d) /\ c # d => connect[c].id # connect[d].id

\* As long as it is not closed, a connection is the one a CONNECT finds.
OpenIsEntered ==
  \A c \in Conns : Registered(c) /\ ~ closed[c] => clients[id[c]] = c

\* After TakeOver nobody else is open, until the connection is registered.
TakenIsClosed ==
  \A c, d \in Conns :
    /\ pc[c] \in {"connack", "register"} /\ d # c
    /\ Registered(d) /\ id[d] = connect[c].id
    => closed[d]

OpenInv == SerialConnects /\ OpenIsEntered /\ TakenIsClosed

LEMMA NextOpenInv ==
  ASSUME ~ Overlap, SessionInv, OpenInv, [Next]_vars
  PROVE  OpenInv'
<1> USE IdentityAssumption
    DEF SessionInv, TypeOK, ConnectIsRead, OpenInv, SerialConnects, OpenIsEntered,
        TakenIsClosed, Connecting, Registered, Labels, Goto, At, shared, local,
        history
<1>1. ASSUME NEW c \in Conns, RefuseFirst(c) PROVE OpenInv'
  BY <1>1 DEF RefuseFirst
<1>2. ASSUME NEW c \in Conns, ReceiveConnect(c) PROVE OpenInv'
  BY <1>2 DEF ReceiveConnect
<1>3. ASSUME NEW c \in Conns, TakeOver(c) PROVE OpenInv'
  <2>1. /\ pc[c] = "takeover" /\ pc' = [pc EXCEPT ![c] = "connack"]
        /\ closed' = [d \in Conns |-> closed[d] \/ d = clients[connect[c].id]]
        /\ UNCHANGED <<connect, id, clients>>
    BY <1>3 DEF TakeOver
  <2>2. \A d \in Conns : Registered(d)' <=> Registered(d)
    BY <2>1
  <2>3. SerialConnects'
    BY <2>1
  <2>4. OpenIsEntered'
    BY <2>1, <2>2
  <2>5. TakenIsClosed'
    <3> SUFFICES ASSUME NEW a \in Conns, NEW b \in Conns, pc'[a] \in {"connack", "register"},
                        b # a, Registered(b), id[b] = connect[a].id
                 PROVE  closed'[b]
      BY <2>1, <2>2
    <3>1. CASE a = c
      BY <2>1, <3>1
    <3>2. CASE a # c
      BY <2>1, <3>2
    <3> QED
      BY <3>1, <3>2
  <2> QED
    BY <2>3, <2>4, <2>5
<1>4. ASSUME NEW c \in Conns, WriteConnack(c) PROVE OpenInv'
  BY <1>4 DEF WriteConnack, MayWrite
<1>5. ASSUME NEW c \in Conns, Register(c) PROVE OpenInv'
  <2> DEFINE new == connect[c].id
  <2>1. /\ pc[c] = "register" /\ pc' = [pc EXCEPT ![c] = "loop"]
        /\ id' = [id EXCEPT ![c] = new] /\ clients' = [clients EXCEPT ![new] = c]
        /\ UNCHANGED <<connect, closed>>
    BY <1>5 DEF Register
  <2>2. new \in Identities
    BY <2>1, PacketAssumption
  <2>3. \A d \in Conns \ {c} : /\ Registered(d)' <=> Registered(d)
                             /\ id'[d] = id[d] /\ pc'[d] = pc[d]
    BY <2>1
  <2>4. SerialConnects'
    BY <2>1
  <2>5. \A d \in Conns \ {c} : Registered(d) /\ id[d] = new => closed[d]
    BY <2>1
  <2>6. OpenIsEntered'
    BY <2>1, <2>2, <2>3, <2>5
  <2>7. TakenIsClosed'
    BY <2>1, <2>2, <2>3
  <2> QED
    BY <2>4, <2>6, <2>7
<1>6. ASSUME NEW c \in Conns, Loop(c) PROVE OpenInv'
  BY <1>6 DEF Loop
<1>7. ASSUME NEW c \in Conns, ReadError(c) PROVE OpenInv'
  BY <1>7 DEF ReadError
<1>8. ASSUME NEW c \in Conns, ReceiveSubscribe(c) PROVE OpenInv'
  BY <1>8 DEF ReceiveSubscribe, Receive
<1>9. ASSUME NEW c \in Conns, ReceiveUnsubscribe(c) PROVE OpenInv'
  BY <1>9 DEF ReceiveUnsubscribe, Receive
<1>10. ASSUME NEW c \in Conns, ReceiveDisconnect(c) PROVE OpenInv'
  BY <1>10 DEF ReceiveDisconnect, Receive
<1>11. ASSUME NEW c \in Conns, PublishWill(c) PROVE OpenInv'
  BY <1>11 DEF PublishWill, MayWrite
<1>12. ASSUME NEW c \in Conns, NEW topic \in Filters, SubscribeTopic(c, topic)
      PROVE  OpenInv'
  BY <1>12 DEF SubscribeTopic
<1>13. ASSUME NEW c \in Conns, NEW topic \in Filters, UnsubscribeTopic(c, topic)
      PROVE  OpenInv'
  BY <1>13 DEF UnsubscribeTopic, DropTopic
<1>14. ASSUME NEW c \in Conns, NEW topic \in Filters, CleanTopic(c, topic)
      PROVE  OpenInv'
  BY <1>14 DEF CleanTopic, DropTopic
<1>15. ASSUME NEW c \in Conns, Close(c) PROVE OpenInv'
  BY <1>15 DEF Close
<1>16. ASSUME NEW c \in Conns, Leave(c) PROVE OpenInv'
  BY <1>16 DEF Leave
<1>17. ASSUME NEW c \in Conns, PeerGone(c) PROVE OpenInv'
  BY <1>17 DEF PeerGone
<1>18. CASE UNCHANGED vars
  BY <1>18 DEF vars
<1> QED
  BY <1>1, <1>2, <1>3, <1>4, <1>5, <1>6, <1>7, <1>8, <1>9,
     <1>10, <1>11, <1>12, <1>13, <1>14, <1>15, <1>16, <1>17, <1>18
  DEF Next, Runs, Receives

(***************************************************************************)
(* ProcessConnect (processor.go:237): if CONNECTs with one identifier are  *)
(* handled one after the other, at most one of the connections registered  *)
(* with it is open, whoever else connects, leaves or is closed meanwhile.  *)
(***************************************************************************)
THEOREM SerialTakeOver == ~ Overlap /\ Spec => []OneOpenPerIdentity
<1>1. Init => OpenInv
  BY DEF Init, OpenInv, SerialConnects, OpenIsEntered, TakenIsClosed, Connecting, Registered
<1>2. OpenInv => OneOpenPerIdentity
  BY DEF OpenInv, OpenIsEntered, OneOpenPerIdentity
<1>3. CASE ~ Overlap
  <2>1. SessionInv /\ OpenInv /\ [Next]_vars => OpenInv'
    BY <1>3, NextOpenInv
  <2> QED
    BY <1>1, <1>2, <2>1, AlwaysSessionInv, PTL DEF Spec
<1>4. CASE Overlap
  BY <1>4
<1>5. Overlap \in BOOLEAN
  BY ScenarioAssumption
<1> QED
  BY <1>3, <1>4, <1>5

-----------------------------------------------------------------------------
(* What the trie holds for a connection                                    *)

\* Once registered, a client sends no CONNECT packet with another identifier.
KeepsIdentifier ==
  \A c \in Conns : id[c] # NoIdentity => connect'[c].id = id[c]

\* A connection has the identifier of its last CONNECT packet, or none yet.
OneIdentity == \A c \in Conns : id[c] # NoIdentity => id[c] = connect[c].id

\* Once its cleanup has begun a connection subscribes nothing any more.
TakenDown ==
  \A c \in Conns :
    /\ pc[c] \in {"clean", "leave"} \/ c \in cleaned => closed[c]
    /\ pc[c] = "leave" \/ c \in cleaned => topics[c] = {}
    /\ c \in cleaned => pc[c] \in {"loop", "ended"}

ConnInv == SessionInv /\ OneIdentity /\ TakenDown

\* What the trie holds, it holds for a client that knows of it.
HeldIsBelieved ==
  \A filter \in Filters : \A i \in DOMAIN SubsOf(trie, filter) :
    LET c == SubsOf(trie, filter)[i]
    IN  c \in Conns /\ id[c] = i /\ filter \in topics[c]

\* No other connection is registered under the identifier.
Owns(c) == \A d \in Conns \ {c} : id[d] # id[c]

\* The converse, unless somebody else has the identifier.
BelievedIsHeld ==
  \A c \in Conns : id[c] # NoIdentity /\ Owns(c) =>
    \A filter \in topics[c] :
      /\ id[c] \in DOMAIN SubsOf(trie, filter)
      /\ SubsOf(trie, filter)[id[c]] = c

HoldInv == TrieShape(trie, Filters, {}) /\ HeldIsBelieved /\ BelievedIsHeld

TreeInv == ConnInv /\ HoldInv

\* Who shares its identifier with no packet of another shares it with nobody.
LEMMA AloneOwns ==
  ASSUME OneIdentity, NEW c \in Conns, id[c] # NoIdentity, Alone(c)
  PROVE  Owns(c)
BY DEF OneIdentity, Alone, Owns

LEMMA NextConnInv ==
  ASSUME ConnInv, [Next]_vars, KeepsIdentifier
  PROVE  ConnInv'
<1>0. SessionInv'
  BY NextSessionInv DEF ConnInv
<1> SUFFICES (OneIdentity /\ TakenDown)'
  BY <1>0 DEF ConnInv
<1> USE IdentityAssumption, ScenarioAssumption
    DEF ConnInv, SessionInv, TypeOK, Labels, OneIdentity, TakenDown, Connecting,
        Goto, At, shared, local, history
<1>1. ASSUME NEW c \in Conns, RefuseFirst(c) PROVE (OneIdentity /\ TakenDown)'
  BY <1>1 DEF RefuseFirst
<1>2. ASSUME NEW c \in Conns, ReceiveConnect(c) PROVE (OneIdentity /\ TakenDown)'
  <2>1. OneIdentity'
    BY <1>2 DEF ReceiveConnect, KeepsIdentifier
  <2>2. TakenDown'
    BY <1>2 DEF ReceiveConnect
  <2> QED
    BY <2>1, <2>2
<1>3. ASSUME NEW c \in Conns, TakeOver(c) PROVE (OneIdentity /\ TakenDown)'
  BY <1>3 DEF TakeOver
<1>4. ASSUME NEW c \in Conns, WriteConnack(c) PROVE (OneIdentity /\ TakenDown)'
  BY <1>4 DEF WriteConnack, MayWrite
<1>5. ASSUME NEW c \in Conns, Register(c) PROVE (OneIdentity /\ TakenDown)'
  BY <1>5 DEF Register
<1>6. ASSUME NEW c \in Conns, Loop(c) PROVE (OneIdentity /\ TakenDown)'
  BY <1>6 DEF Loop
<1>7. ASSUME NEW c \in Conns, ReadError(c) PROVE (OneIdentity /\ TakenDown)'
  BY <1>7 DEF ReadError
<1>8. ASSUME NEW c \in Conns, ReceiveSubscribe(c) PROVE (OneIdentity /\ TakenDown)'
  BY <1>8 DEF ReceiveSubscribe, Receive
<1>9. ASSUME NEW c \in Conns, ReceiveUnsubscribe(c) PROVE (OneIdentity /\ TakenDown)'
  BY <1>9 DEF ReceiveUnsubscribe, Receive
<1>10. ASSUME NEW c \in Conns, ReceiveDisconnect(c) PROVE (OneIdentity /\ TakenDown)'
  BY <1>10 DEF ReceiveDisconnect, Receive
<1>11. ASSUME NEW c \in Conns, PublishWill(c) PROVE (OneIdentity /\ TakenDown)'
  BY <1>11 DEF PublishWill, MayWrite
<1>12. ASSUME NEW c \in Conns, NEW topic \in Filters, SubscribeTopic(c, topic)
      PROVE  (OneIdentity /\ TakenDown)'
  BY <1>12 DEF SubscribeTopic
<1>13. ASSUME NEW c \in Conns, NEW topic \in Filters, UnsubscribeTopic(c, topic)
      PROVE  (OneIdentity /\ TakenDown)'
  BY <1>13 DEF UnsubscribeTopic, DropTopic
<1>14. ASSUME NEW c \in Conns, NEW topic \in Filters, CleanTopic(c, topic)
      PROVE  (OneIdentity /\ TakenDown)'
  BY <1>14 DEF CleanTopic, DropTopic
<1>15. ASSUME NEW c \in Conns, Close(c) PROVE (OneIdentity /\ TakenDown)'
  BY <1>15 DEF Close
<1>16. ASSUME NEW c \in Conns, Leave(c) PROVE (OneIdentity /\ TakenDown)'
  BY <1>16 DEF Leave
<1>17. ASSUME NEW c \in Conns, PeerGone(c) PROVE (OneIdentity /\ TakenDown)'
  BY <1>17 DEF PeerGone
<1>18. CASE UNCHANGED vars
  BY <1>18 DEF vars
<1> QED
  BY <1>1, <1>2, <1>3, <1>4, <1>5, <1>6, <1>7, <1>8, <1>9,
     <1>10, <1>11, <1>12, <1>13, <1>14, <1>15, <1>16, <1>17, <1>18
  DEF Next, Runs, Receives

LEMMA SessionArguments == ShapeArguments(Filters, {})
  BY FilterAssumption DEF ShapeArguments

\* A SUBSCRIBE puts the connection into the leaf of one filter.
LEMMA SubscribeKeepsHoldInv ==
  ASSUME ConnInv, HoldInv, NEW c \in Conns, NEW topic \in Filters, SubscribeTopic(c, topic)
  PROVE  HoldInv'
<1>1. /\ trie' = Subscribe(trie, topic, id[c], c)
      /\ topics' = [topics EXCEPT ![c] = @ \cup {topic}]
      /\ id' = id
  BY DEF SubscribeTopic
<1>2. topics \in [Conns -> SUBSET Filters] /\ TrieShape(trie, Filters, {})
  BY DEF ConnInv, SessionInv, TypeOK, HoldInv
<1>3. TrieShape(trie', Filters, {})
  BY <1>1, <1>2, SessionArguments, SubscribeShape
<1>4. \A filter \in Filters :
        SubsOf(trie', filter) = IF filter = topic THEN Put(SubsOf(trie, topic), id[c], c)
                                                  ELSE SubsOf(trie, filter)
  BY <1>1, <1>2, SessionArguments, SubscribeSubs
<1>5. HeldIsBelieved'
  <2> SUFFICES ASSUME NEW filter \in Filters, NEW i \in DOMAIN SubsOf(trie', filter)
               PROVE  LET d == SubsOf(trie', filter)[i]
                      IN  d \in Conns /\ id[d] = i /\ filter \in topics'[d]
    BY <1>1 DEF HeldIsBelieved
  <2>1. CASE filter = topic /\ i = id[c]
    <3>1. SubsOf(trie', filter)[i] = c
      BY <1>4, <2>1 DEF Put
    <3> QED
      BY <1>1, <1>2, <2>1, <3>1
  <2>2. CASE ~ (filter = topic /\ i = id[c])
    <3>1. i \in DOMAIN SubsOf(trie, filter) /\ SubsOf(trie', filter)[i] = SubsOf(trie, filter)[i]
      BY <1>4, <2>2 DEF Put
    <3> QED
      BY <1>1, <1>2, <3>1 DEF HoldInv, HeldIsBelieved
  <2> QED
    BY <2>1, <2>2
<1>6. BelievedIsHeld'
  <2> SUFFICES ASSUME NEW d \in Conns, id[d] # NoIdentity, Owns(d), NEW filter \in topics'[d]
               PROVE  /\ id[d] \in DOMAIN SubsOf(trie', filter)
                      /\ SubsOf(trie', filter)[id[d]] = d
    BY <1>1 DEF BelievedIsHeld, Owns
  <2>1. filter \in Filters
    BY <1>1, <1>2
  <2>2. CASE d = c /\ filter = topic
    BY <1>4, <2>2 DEF Put
  <2>3. CASE ~ (d = c /\ filter = topic)
    <3>1. filter \in topics[d]
      BY <1>1, <1>2, <2>3
    <3>2. id[d] \in DOMAIN SubsOf(trie, filter) /\ SubsOf(trie, filter)[id[d]] = d
      BY <3>1 DEF HoldInv, BelievedIsHeld
    <3>3. d # c => id[d] # id[c]
      BY DEF Owns
    <3> QED
      BY <1>4, <2>1, <2>3, <3>2, <3>3 DEF Put
  <2> QED
    BY <2>2, <2>3
<1> QED
  BY <1>3, <1>5, <1>6 DEF HoldInv

\* RemoveTopic and Unsubscribe, for an UNSUBSCRIBE packet or the cleanup.
LEMMA DropKeepsHoldInv ==
  ASSUME ConnInv, HoldInv, NEW c \in Conns, NEW topic \in Filters, id[c] # NoIdentity,
         DropTopic(c, topic), UNCHANGED id
  PROVE  HoldInv'
<1>1. /\ trie' = Unsubscribe(trie, topic, id[c])
      /\ topics' = [topics EXCEPT ![c] = @ \ {topic}]
      /\ id' = id
  BY DEF DropTopic
<1>2. topics \in [Conns -> SUBSET Filters] /\ TrieShape(trie, Filters, {})
  BY DEF ConnInv, SessionInv, TypeOK, HoldInv
<1>3. TrieShape(trie', Filters, {})
  BY <1>1, <1>2, SessionArguments, UnsubscribeShape
<1>4. \A filter \in Filters :
        SubsOf(trie', filter) = IF filter = topic THEN Delete(SubsOf(trie, topic), id[c])
                                                  ELSE SubsOf(trie, filter)
  BY <1>1, <1>2, SessionArguments, UnsubscribeSubs
<1>5. HeldIsBelieved'
  <2> SUFFICES ASSUME NEW filter \in Filters, NEW i \in DOMAIN SubsOf(trie', filter)
               PROVE  LET d == SubsOf(trie', filter)[i]
                      IN  d \in Conns /\ id[d] = i /\ filter \in topics'[d]
    BY <1>1 DEF HeldIsBelieved
  <2>1. /\ i \in DOMAIN SubsOf(trie, filter) /\ SubsOf(trie', filter)[i] = SubsOf(trie, filter)[i]
        /\ filter = topic => i # id[c]
    BY <1>4 DEF Delete
  <2>2. LET d == SubsOf(trie, filter)[i]
        IN  d \in Conns /\ id[d] = i /\ filter \in topics[d]
    BY <2>1 DEF HoldInv, HeldIsBelieved
  <2> QED
    BY <1>1, <1>2, <2>1, <2>2
<1>6. BelievedIsHeld'
  <2> SUFFICES ASSUME NEW d \in Conns, id[d] # NoIdentity, Owns(d), NEW filter \in topics'[d]
               PROVE  /\ id[d] \in DOMAIN SubsOf(trie', filter)
                      /\ SubsOf(trie', filter)[id[d]] = d
    BY <1>1 DEF BelievedIsHeld, Owns
  <2>1. filter \in Filters /\ filter \in topics[d] /\ (d = c => filter # topic)
    BY <1>1, <1>2
  <2>2. id[d] \in DOMAIN SubsOf(trie, filter) /\ SubsOf(trie, filter)[id[d]] = d
    BY <2>1 DEF HoldInv, BelievedIsHeld
  <2>3. d # c => id[d] # id[c]
    BY DEF Owns
  <2> QED
    BY <1>4, <2>1, <2>2, <2>3 DEF Delete
<1> QED
  BY <1>3, <1>5, <1>6 DEF HoldInv

LEMMA NextHoldInv ==
  ASSUME ConnInv, HoldInv, [Next]_vars
  PROVE  HoldInv'
<1>1. ASSUME UNCHANGED <<id, topics, trie>> PROVE HoldInv'
  BY <1>1 DEF HoldInv, HeldIsBelieved, BelievedIsHeld, Owns
<1>2. ASSUME NEW c \in Conns, ReceiveConnect(c) PROVE HoldInv'
  BY <1>1, <1>2 DEF ReceiveConnect, shared
<1>3. ASSUME NEW c \in Conns, Register(c) PROVE HoldInv'
  <2>1. /\ UNCHANGED <<topics, trie>>
        /\ id' = [id EXCEPT ![c] = connect[c].id] /\ id \in [Conns -> Identities \cup {NoIdentity}]
    BY <1>3 DEF Register, ConnInv, SessionInv, TypeOK
  <2>2. CASE id[c] = NoIdentity
    <3>1. topics[c] = {}
      BY <2>2 DEF ConnInv, SessionInv, TypeOK
    <3>2. \A d \in Conns \ {c} : id'[d] = id[d]
      BY <2>1
    <3>3. TrieShape(trie', Filters, {}) /\ HeldIsBelieved'
      BY <2>1, <3>1, <3>2 DEF HoldInv, HeldIsBelieved
    <3>4. ASSUME NEW d \in Conns \ {c}, id'[d] # NoIdentity, Owns(d)' PROVE Owns(d)
      BY <2>2, <3>2, <3>4 DEF Owns
    <3>5. BelievedIsHeld'
      BY <2>1, <3>1, <3>2, <3>4 DEF HoldInv, BelievedIsHeld
    <3> QED
      BY <3>3, <3>5 DEF HoldInv
  <2>3. CASE id[c] # NoIdentity
    <3>1. id' = id
      BY <2>1, <2>3 DEF ConnInv, OneIdentity
    <3> QED
      BY <1>1, <2>1, <3>1
  <2> QED
    BY <2>2, <2>3
<1>4. ASSUME NEW c \in Conns, NEW topic \in Filters, SubscribeTopic(c, topic)
      PROVE  HoldInv'
  BY <1>4, SubscribeKeepsHoldInv
<1>5. ASSUME NEW c \in Conns, NEW topic \in Filters,
             UnsubscribeTopic(c, topic) \/ CleanTopic(c, topic)
      PROVE  HoldInv'
  <2>1. id[c] # NoIdentity
    BY <1>5 DEF ConnInv, SessionInv, TypeOK, UnsubscribeTopic, CleanTopic
  <2> QED
    BY <1>5, <2>1, DropKeepsHoldInv DEF UnsubscribeTopic, CleanTopic
<1>6. CASE UNCHANGED vars
  BY <1>1, <1>6 DEF vars, local, shared
<1>7. ASSUME NEW c \in Conns,
             \/ RefuseFirst(c) \/ TakeOver(c) \/ WriteConnack(c) \/ Loop(c) \/ ReadError(c)
             \/ ReceiveSubscribe(c) \/ ReceiveUnsubscribe(c) \/ ReceiveDisconnect(c)
             \/ PublishWill(c) \/ Close(c) \/ Leave(c) \/ PeerGone(c)
      PROVE  HoldInv'
  BY <1>1, <1>7
  DEF RefuseFirst, TakeOver, WriteConnack, Loop, ReadError, ReceiveSubscribe,
      ReceiveUnsubscribe, ReceiveDisconnect, PublishWill, Close, Leave, PeerGone,
      local, shared
<1> QED
  BY <1>2, <1>3, <1>4, <1>5, <1>6, <1>7 DEF Next, Runs, Receives

LEMMA AlwaysTreeInv == Spec /\ [][KeepsIdentifier]_vars => []TreeInv
<1>1. Init => TreeInv
  <2> SUFFICES ASSUME Init PROVE TreeInv
    OBVIOUS
  <2>1. SessionInv /\ TrieShape(trie, Filters, {})
    BY InitSessionInv, NewTrieShape DEF Init
  <2>2. DOMAIN EmptyMap = {}
    BY DEF EmptyMap
  <2>3. \A filter : DOMAIN SubsOf(trie, filter) = {}
    BY <2>2 DEF Init, NewTrie, SubsOf, LeafAt, NewLeaf
  <2>4. OneIdentity /\ TakenDown /\ HeldIsBelieved /\ BelievedIsHeld
    BY <2>3 DEF Init, OneIdentity, TakenDown, HeldIsBelieved, BelievedIsHeld
  <2> QED
    BY <2>1, <2>4 DEF TreeInv, ConnInv, HoldInv
<1>2. TreeInv /\ [Next]_vars /\ [KeepsIdentifier]_vars => TreeInv'
  <2> SUFFICES ASSUME TreeInv, [Next]_vars, [KeepsIdentifier]_vars PROVE TreeInv'
    OBVIOUS
  <2>1. CASE KeepsIdentifier
    BY <2>1, NextConnInv, NextHoldInv DEF TreeInv
  <2>2. CASE UNCHANGED vars
    <3>1. SessionInv' /\ HoldInv'
      BY <2>2, NextSessionInv, NextHoldInv DEF TreeInv, ConnInv
    <3>2. OneIdentity' /\ TakenDown'
      BY <2>2 DEF TreeInv, ConnInv, OneIdentity, TakenDown, vars, local, history
    <3> QED
      BY <3>1, <3>2 DEF TreeInv, ConnInv
  <2> QED
    BY <2>1, <2>2
<1> QED
  BY <1>1, <1>2, PTL DEF Spec

\* A client that sends one CONNECT packet keeps its identifier.
LEMMA OneConnectKeeps == MaxConnects <= 1 /\ Spec => [][KeepsIdentifier]_vars
<1> DEFINE Fresh == \A c \in Conns : connects[c] = 0 => id[c] = NoIdentity /\ ~ Connecting(c)
           First == SessionInv /\ OneIdentity /\ Fresh
<1>1. Init => First
  BY InitSessionInv DEF Init, OneIdentity, Connecting
<1>2. ASSUME MaxConnects <= 1, First, [Next]_vars
      PROVE  First' /\ [KeepsIdentifier]_vars
  <2>1. SessionInv'
    BY <1>2, NextSessionInv
  <2>2. ASSUME NEW c \in Conns, ReceiveConnect(c)
        PROVE  id[c] = NoIdentity /\ connects'[c] # 0
    <3>1. connects[c] \in 0 .. MaxConnects /\ connects \in [Conns -> 0 .. MaxConnects]
      BY <1>2 DEF SessionInv, TypeOK
    <3> QED
      BY <1>2, <2>2, <3>1, ScenarioAssumption DEF ReceiveConnect
  <2> USE DEF SessionInv, TypeOK, OneIdentity, Fresh, KeepsIdentifier, Connecting, Goto, At,
              shared, local, history
  <2>3. ASSUME NEW c \in Conns, ReceiveConnect(c) PROVE (OneIdentity /\ Fresh)' /\ KeepsIdentifier
    BY <1>2, <2>2, <2>3 DEF ReceiveConnect
  <2>4. ASSUME NEW c \in Conns, Register(c) PROVE (OneIdentity /\ Fresh)' /\ [KeepsIdentifier]_vars
    <3>1. connects[c] # 0 /\ UNCHANGED <<connect, connects>>
      BY <1>2, <2>4 DEF Register
    <3>2. (OneIdentity /\ Fresh)'
      BY <1>2, <2>4, <3>1 DEF Register
    <3>3. KeepsIdentifier
      BY <1>2, <3>1
    <3> QED
      BY <3>2, <3>3
  <2>5. ASSUME UNCHANGED <<id, connect, connects>>,
               \A c \in Conns : Connecting(c)' => Connecting(c)
        PROVE  (OneIdentity /\ Fresh)' /\ KeepsIdentifier
    BY <1>2, <2>5
  <2>6. ASSUME NEW c \in Conns,
               \/ RefuseFirst(c) \/ Loop(c) \/ ReadError(c) \/ ReceiveSubscribe(c)
               \/ ReceiveUnsubscribe(c) \/ ReceiveDisconnect(c) \/ PublishWill(c)
        PROVE  (OneIdentity /\ Fresh)' /\ KeepsIdentifier
    <3>1. UNCHANGED <<id, connect, connects>> /\ \A d \in Conns : Connecting(d)' => Connecting(d)
      BY <1>2, <2>6 DEF RefuseFirst, Loop, ReadError, ReceiveSubscribe, ReceiveUnsubscribe,
                        ReceiveDisconnect, Receive, PublishWill
    <3> QED
      BY <2>5, <3>1
  <2>7. ASSUME NEW c \in Conns, NEW topic \in Filters,
               SubscribeTopic(c, topic) \/ UnsubscribeTopic(c, topic) \/ CleanTopic(c, topic)
        PROVE  (OneIdentity /\ Fresh)' /\ KeepsIdentifier
    <3>1. UNCHANGED <<id, connect, connects>> /\ \A d \in Conns : Connecting(d)' => Connecting(d)
      BY <1>2, <2>7 DEF SubscribeTopic, UnsubscribeTopic, CleanTopic
    <3> QED
      BY <2>5, <3>1
  <2>8. ASSUME NEW c \in Conns, \/ TakeOver(c) \/ WriteConnack(c) \/ Close(c) \/ Leave(c) \/ PeerGone(c)
        PROVE  (OneIdentity /\ Fresh)' /\ KeepsIdentifier
    <3>1. UNCHANGED <<id, connect, connects>> /\ \A d \in Conns : Connecting(d)' => Connecting(d)
      BY <1>2, <2>8 DEF TakeOver, WriteConnack, Close, Leave, PeerGone
    <3> QED
      BY <2>5, <3>1
  <2>9. ASSUME UNCHANGED vars PROVE (OneIdentity /\ Fresh)' /\ KeepsIdentifier
    <3>1. UNCHANGED <<pc, id, connect, connects>>
      BY <2>9 DEF vars
    <3>2. \A d \in Conns : Connecting(d)' => Connecting(d)
      BY <3>1
    <3> QED
      BY <2>5, <3>1, <3>2
  <2>10. (OneIdentity /\ Fresh)' /\ [KeepsIdentifier]_vars
    <3> HIDE DEF SessionInv, TypeOK, OneIdentity, Fresh, KeepsIdentifier, Connecting, Goto, At,
                 shared, local, history
    <3> QED
      BY <1>2, <2>3, <2>4, <2>6, <2>7, <2>8, <2>9 DEF Next, Runs, Receives
  <2> QED
    BY <2>1, <2>10
<1>3. CASE MaxConnects <= 1
  <2> HIDE DEF First
  <2>1. First /\ [Next]_vars => First' /\ [KeepsIdentifier]_vars
    BY <1>2, <1>3
  <2> QED
    BY <1>1, <2>1, PTL DEF Spec
<1>4. CASE ~ (MaxConnects <= 1)
  BY <1>4
<1> QED
  BY <1>3, <1>4

(***************************************************************************)
(* ProcessDisconnect (processor.go:202): if a client keeps its identifier, *)
(* however many CONNECT packets it sends, and no filter ends in "#", the   *)
(* trie holds nothing for it any more when its cleanup has returned,       *)
(* whoever took over its identifier or shares it, and whatever the others  *)
(* subscribe meanwhile.                                                    *)
(***************************************************************************)
THEOREM CleanupForgets ==
  (\A filter \in Filters : LastOf(filter) # Hash) /\ Spec /\ [][KeepsIdentifier]_vars
    => []CleanedIsForgotten
<1> DEFINE NoHash == \A filter \in Filters : LastOf(filter) # Hash
<1>1. NoHash /\ TreeInv => CleanedIsForgotten
  <2> SUFFICES ASSUME NoHash, TreeInv, NEW c \in cleaned, c \in Held
               PROVE  FALSE
    BY DEF CleanedIsForgotten
  <2>1. c \in Conns /\ topics[c] = {} /\ TrieShape(trie, Filters, {})
    BY DEF TreeInv, ConnInv, SessionInv, TypeOK, TakenDown, HoldInv
  <2>2. ASSUME NEW filter \in Filters, NEW i \in DOMAIN SubsOf(trie, filter),
               SubsOf(trie, filter)[i] = c
        PROVE  FALSE
    BY <2>1, <2>2 DEF TreeInv, HoldInv, HeldIsBelieved
  <2>3. ASSUME NEW at \in DOMAIN trie.leaves, NEW i \in DOMAIN trie.leaves[at].subs,
               trie.leaves[at].subs[i] = c
        PROVE  FALSE
    <3>1. /\ at[2] \in Filters /\ IsWild(at[2])
          /\ at[1] \in LeafPathsOf(at[2]) /\ at = <<at[1], at[2]>>
      BY <2>1 DEF TrieShape, LeafShape, HoldsSubscribers, HoldsRetained, IsTrie
    <3>2. WellFormed(at[2])
      BY <3>1, FilterAssumption
    <3>3. at[1] = Levels(at[2])
      BY <3>1, <3>2, LeafPathsAre
    <3>4. SubsOf(trie, at[2]) = trie.leaves[at].subs
      BY <3>1, <3>2, <3>3, SubsOfWild
    <3> QED
      BY <2>2, <2>3, <3>1, <3>4
  <2>4. Subscribed(c) = {}
    BY <2>2 DEF Subscribed
  <2>5. \E at \in DOMAIN trie.leaves : \E i \in DOMAIN trie.leaves[at].subs :
          trie.leaves[at].subs[i] = c
    <3>1. PICK leaf \in {trie.leaves[at] : at \in DOMAIN trie.leaves} :
            c \in {leaf.subs[i] : i \in DOMAIN leaf.subs}
      BY <2>4 DEF Held
    <3> QED
      BY <3>1
  <2> QED
    BY <2>3, <2>5
<1>2. CASE NoHash
  <2>1. TreeInv => CleanedIsForgotten
    BY <1>1, <1>2
  <2> QED
    BY <1>2, <2>1, AlwaysTreeInv, PTL
<1>3. CASE ~ NoHash
  BY <1>3
<1> QED
  BY <1>2, <1>3

(***************************************************************************)
(* ProcessSubscribe, ProcessUnSubscribe (processor.go:148-193): a client   *)
(* that keeps its identifier over all its CONNECT packets, one nobody else *)
(* uses, is subscribed to exactly what it believes, "#" filters and those  *)
(* of other clients included.                                              *)
(***************************************************************************)
THEOREM AloneServed == Spec /\ [][KeepsIdentifier]_vars => []AloneIsServed
<1>1. TreeInv => AloneIsServed
  <2> SUFFICES ASSUME TreeInv, NEW c \in Conns, Serving(c), Alone(c)
               PROVE  Subscribed(c) = topics[c]
    BY DEF AloneIsServed
  <2>1. topics[c] \subseteq Filters /\ id[c] # NoIdentity
    BY DEF TreeInv, ConnInv, SessionInv, TypeOK, Serving, Registered
  <2>2. \A filter \in Subscribed(c) : filter \in topics[c]
    BY DEF Subscribed, TreeInv, HoldInv, HeldIsBelieved
  <2>3. \A filter \in topics[c] : filter \in Subscribed(c)
    <3>1. Owns(c)
      BY <2>1, AloneOwns DEF TreeInv, ConnInv
    <3> QED
      BY <2>1, <3>1 DEF Subscribed, TreeInv, HoldInv, BelievedIsHeld
  <2> QED
    BY <2>2, <2>3
<1> QED
  BY <1>1, AlwaysTreeInv, PTL

(***************************************************************************)
(* The same of clients that send one CONNECT packet each (processor.go:236 *)
(* answers it), as in the runs.                                            *)
(***************************************************************************)
THEOREM OneConnectServed ==
  MaxConnects <= 1 /\ Spec
    => [](AloneIsServed /\ ((\A filter \in Filters : LastOf(filter) # Hash) => CleanedIsForgotten))
<1> DEFINE NoHash == \A filter \in Filters : LastOf(filter) # Hash
<1>1. CASE NoHash
  BY <1>1, OneConnectKeeps, AloneServed, CleanupForgets, PTL
<1>2. CASE ~ NoHash
  BY <1>2, OneConnectKeeps, AloneServed, PTL
<1> QED
  BY <1>1, <1>2
=============================================================================
