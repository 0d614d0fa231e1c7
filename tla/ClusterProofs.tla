---------------------------- MODULE ClusterProofs ----------------------------
(***************************************************************************)
(* For any number of nodes, links and clients, whoever dials whom: no node *)
(* stays behind a dead link in Clusters, and what the clients of a node    *)
(* subscribe is known at the nodes it is linked to.                        *)
(***************************************************************************)
EXTENDS Cluster, TLAPS

Labels == {"unused", "connect", "accept", "replace", "store", "sync", "range",
           "loop", "read", "delete", "clean", "ended"}

\* What an end does before it takes its place.
Early == {"unused", "connect", "accept", "replace", "store"}

LinksTyped ==
  /\ route \in [Links -> [Sides -> Nodes] \cup {NoRoute}]
  /\ pc \in [Ends -> Labels]
  /\ closed \in [Ends -> BOOLEAN]
  /\ clusters \in [Nodes -> [Nodes -> Ends \cup {NoEnd}]]

UsedIsRouted == \A e \in Ends : pc[e] # "unused" => route[e[1]] # NoRoute

\* An end is closed by the one that replaces it, or by itself at its end.
ClosedIsLate == \A e \in Ends : closed[e] => pc[e] \notin Early

EntryIsPlaced ==
  \A n, m \in Nodes : \A e \in {clusters[n][m]} \ {NoEnd} :
    e \in Ends /\ NodeOf(e) = n /\ PeerOf(e) = m /\ pc[e] \notin Early

\* An end that takes itself down is not an entry any more.
EntryEndsClosed ==
  \A n, m \in Nodes : \A e \in {clusters[n][m]} \ {NoEnd} :
    pc[e] # "clean" /\ (pc[e] = "ended" => closed[e])

ClosedIsReplaced ==
  \A n, m \in Nodes : \A e \in {clusters[n][m]} \ {NoEnd} :
    closed[e] => \E f \in Ends : At(f, "store") /\ NodeOf(f) = n /\ PeerOf(f) = m

IInv ==
  /\ LinksTyped /\ UsedIsRouted /\ ClosedIsLate
  /\ EntryIsPlaced /\ EntryEndsClosed /\ ClosedIsReplaced

LEMMA InitIInv == Init => IInv
  BY DEF Init, IInv, LinksTyped, UsedIsRouted, ClosedIsLate, EntryIsPlaced,
         EntryEndsClosed, ClosedIsReplaced, Labels, Early, NoRoute

-----------------------------------------------------------------------------
LEMMA OtherSide == \A e \in Ends : OtherEnd(e) \in Ends /\ OtherEnd(e)[1] = e[1]
<1> SUFFICES ASSUME NEW e \in Ends
             PROVE  OtherEnd(e) \in Ends /\ OtherEnd(e)[1] = e[1]
  OBVIOUS
<1> DEFINE other == CHOOSE side \in Sides : side # e[2]
<1>1. \E side \in Sides : side # e[2]
  BY DEF Sides
<1>2. other \in Sides
  BY <1>1
<1>3. OtherEnd(e) = <<e[1], other>>
  BY DEF OtherEnd
<1> HIDE DEF other
<1> QED
  BY <1>2, <1>3 DEF Ends

\* An end in use has nodes at both sides.
LEMMA RoutedEnds ==
  ASSUME LinksTyped, UsedIsRouted, NEW e \in Ends, pc[e] # "unused"
  PROVE  NodeOf(e) \in Nodes /\ PeerOf(e) \in Nodes
<1>1. route[e[1]] \in [Sides -> Nodes]
  BY DEF LinksTyped, UsedIsRouted, Ends
<1>2. e[2] \in Sides /\ OtherEnd(e)[2] \in Sides
  BY OtherSide DEF Ends
<1> QED
  BY <1>1, <1>2, OtherSide DEF NodeOf, PeerOf

\* Steps of an end that neither close nor enter anything.
LEMMA MovesOn ==
  ASSUME IInv, NEW e \in Ends, NEW label \in Labels, Goto(e, label),
         UNCHANGED <<route, closed, clusters>>,
         pc[e] \notin {"unused", "store"}, label # "unused",
         pc[e] \in Early \/ label \notin Early,
         label = "clean" => pc[e] = "clean",
         label = "ended" => closed[e] \/ pc[e] \in Early \cup {"clean"}
  PROVE  IInv'
<1> USE DEF IInv, Goto, Early, NodeOf, PeerOf
<1>1. LinksTyped' /\ UsedIsRouted' /\ ClosedIsLate'
  BY DEF LinksTyped, UsedIsRouted, ClosedIsLate
<1>2. EntryIsPlaced'
  BY DEF LinksTyped, EntryIsPlaced
<1>3. EntryEndsClosed'
  BY DEF LinksTyped, EntryIsPlaced, EntryEndsClosed
<1>4. ClosedIsReplaced'
  BY DEF LinksTyped, ClosedIsReplaced, At
<1> QED
  BY <1>1, <1>2, <1>3, <1>4

LEMMA DialKeepsIInv ==
  ASSUME IInv, NEW n \in Nodes, NEW m \in Nodes, NEW l \in Links, Dial(n, m, l)
  PROVE  IInv'
<1> DEFINE new == [dialed |-> n, accepted |-> m]
<1>1. /\ route[l] = NoRoute
      /\ route' = [route EXCEPT ![l] = new]
      /\ UNCHANGED <<closed, clusters>>
      /\ pc' = [pc EXCEPT ![<<l, "dialed">>] = "connect", ![<<l, "accepted">>] = "accept"]
  BY DEF Dial
<1>2. new \in [Sides -> Nodes] /\ <<l, "dialed">> \in Ends /\ <<l, "accepted">> \in Ends
  BY DEF Sides, Ends
<1>3. \A e \in Ends : e[1] = l => pc[e] = "unused"
  BY <1>1 DEF IInv, UsedIsRouted
<1>4. \A e \in Ends : e[1] # l => pc'[e] = pc[e] /\ NodeOf(e)' = NodeOf(e) /\ PeerOf(e)' = PeerOf(e)
  BY <1>1, OtherSide DEF IInv, LinksTyped, NodeOf, PeerOf, Ends
<1>5. new # NoRoute
  BY NoEndAssumption DEF NoRoute, Sides
<1>6. LinksTyped'
  BY <1>1, <1>2 DEF IInv, LinksTyped, Labels
<1>7. UsedIsRouted'
  BY <1>1, <1>2, <1>4, <1>5 DEF IInv, LinksTyped, UsedIsRouted, Ends
<1>8. ClosedIsLate'
  BY <1>1, <1>3, <1>4 DEF IInv, LinksTyped, ClosedIsLate, Early
<1>9. \A e \in Ends : pc[e] # "unused" =>
        pc'[e] = pc[e] /\ NodeOf(e)' = NodeOf(e) /\ PeerOf(e)' = PeerOf(e)
  BY <1>3, <1>4
<1>10. \A a, b \in Nodes : clusters[a][b] # NoEnd =>
         clusters[a][b] \in Ends /\ pc[clusters[a][b]] \notin Early
  BY DEF IInv, EntryIsPlaced
<1>11. EntryIsPlaced'
  <2> SUFFICES ASSUME NEW a \in Nodes, NEW b \in Nodes, NEW e, e = clusters[a][b], e # NoEnd
               PROVE  e \in Ends /\ NodeOf(e)' = a /\ PeerOf(e)' = b /\ pc'[e] \notin Early
    BY <1>1 DEF EntryIsPlaced
  <2> QED
    BY <1>9, <1>10 DEF IInv, EntryIsPlaced, Early
<1>12. EntryEndsClosed'
  <2> SUFFICES ASSUME NEW a \in Nodes, NEW b \in Nodes, NEW e, e = clusters[a][b], e # NoEnd
               PROVE  pc'[e] # "clean" /\ (pc'[e] = "ended" => closed[e])
    BY <1>1 DEF EntryEndsClosed
  <2> QED
    BY <1>9, <1>10 DEF IInv, EntryEndsClosed, Early
<1>13. ClosedIsReplaced'
  <2> SUFFICES ASSUME NEW a \in Nodes, NEW b \in Nodes, clusters[a][b] # NoEnd,
                      closed[clusters[a][b]]
               PROVE  \E f \in Ends : pc'[f] = "store" /\ NodeOf(f)' = a /\ PeerOf(f)' = b
    BY <1>1 DEF ClosedIsReplaced, At
  <2>1. PICK f \in Ends : pc[f] = "store" /\ NodeOf(f) = a /\ PeerOf(f) = b
    BY DEF IInv, ClosedIsReplaced, At
  <2> QED
    BY <1>9, <2>1
<1> QED
  BY <1>6, <1>7, <1>8, <1>11, <1>12, <1>13 DEF IInv

LEMMA ReplaceKeepsIInv ==
  ASSUME IInv, NEW e \in Ends, ReplaceOld(e)
  PROVE  IInv'
<1> DEFINE old == clusters[NodeOf(e)][PeerOf(e)]
<1>1. /\ pc[e] = "replace" /\ pc' = [pc EXCEPT ![e] = "store"]
      /\ closed' = [f \in Ends |-> closed[f] \/ f = old]
      /\ UNCHANGED <<route, clusters>>
  BY DEF ReplaceOld, At, Goto
<1>2. NodeOf(e) \in Nodes /\ PeerOf(e) \in Nodes
  BY <1>1, RoutedEnds DEF IInv
<1>3. \A f : NodeOf(f)' = NodeOf(f) /\ PeerOf(f)' = PeerOf(f)
  BY <1>1 DEF NodeOf, PeerOf
<1>4. LinksTyped' /\ UsedIsRouted'
  BY <1>1 DEF IInv, LinksTyped, UsedIsRouted, Labels
<1>5. ClosedIsLate'
  BY <1>1, <1>2, NoEndAssumption DEF IInv, LinksTyped, ClosedIsLate, EntryIsPlaced, Early
<1>6. EntryIsPlaced'
  BY <1>1, <1>3 DEF IInv, LinksTyped, EntryIsPlaced, Early
<1>7. EntryEndsClosed'
  BY <1>1 DEF IInv, LinksTyped, EntryIsPlaced, EntryEndsClosed, Early
<1>8. ClosedIsReplaced'
  <2> SUFFICES ASSUME NEW n \in Nodes, NEW m \in Nodes,
                      clusters[n][m] # NoEnd, closed'[clusters[n][m]]
               PROVE  \E f \in Ends : /\ pc'[f] = "store"
                                     /\ NodeOf(f) = n /\ PeerOf(f) = m
    BY <1>1, <1>3 DEF ClosedIsReplaced, At
  <2>1. clusters[n][m] \in Ends /\ NodeOf(clusters[n][m]) = n /\ PeerOf(clusters[n][m]) = m
    BY DEF IInv, EntryIsPlaced
  <2>2. CASE clusters[n][m] = old
    <3>1. old # NoEnd /\ NodeOf(old) = NodeOf(e) /\ PeerOf(old) = PeerOf(e)
      BY <1>2, <2>2 DEF IInv, EntryIsPlaced
    <3> QED
      BY <1>1, <2>1, <2>2, <3>1 DEF IInv, LinksTyped
  <2>3. CASE clusters[n][m] # old
    BY <1>1, <2>1, <2>3 DEF IInv, LinksTyped, ClosedIsReplaced, At
  <2> QED
    BY <2>2, <2>3
<1> QED
  BY <1>4, <1>5, <1>6, <1>7, <1>8 DEF IInv

LEMMA StoreKeepsIInv ==
  ASSUME IInv, NEW e \in Ends, StoreLink(e)
  PROVE  IInv'
<1>1. /\ pc[e] = "store" /\ pc' = [pc EXCEPT ![e] = "sync"]
      /\ clusters' = [clusters EXCEPT ![NodeOf(e)][PeerOf(e)] = e]
      /\ UNCHANGED <<route, closed>>
  BY DEF StoreLink, At, Goto
<1>2. NodeOf(e) \in Nodes /\ PeerOf(e) \in Nodes
  BY <1>1, RoutedEnds DEF IInv
<1>3. \A f : NodeOf(f)' = NodeOf(f) /\ PeerOf(f)' = PeerOf(f)
  BY <1>1 DEF NodeOf, PeerOf
<1>4. ~ closed[e]
  BY <1>1 DEF IInv, ClosedIsLate, Early
<1>5. \A n, m \in Nodes :
        clusters'[n][m] = IF n = NodeOf(e) /\ m = PeerOf(e) THEN e ELSE clusters[n][m]
  BY <1>1, <1>2 DEF IInv, LinksTyped
<1>6. LinksTyped'
  BY <1>1, <1>2 DEF IInv, LinksTyped, Labels
<1>7. UsedIsRouted' /\ ClosedIsLate'
  BY <1>1 DEF IInv, LinksTyped, UsedIsRouted, ClosedIsLate, Early
<1>8. EntryIsPlaced'
  BY <1>1, <1>3, <1>5 DEF IInv, LinksTyped, EntryIsPlaced, Early
<1>9. EntryEndsClosed'
  BY <1>1, <1>5 DEF IInv, LinksTyped, EntryIsPlaced, EntryEndsClosed, Early
<1>10. ClosedIsReplaced'
  BY <1>1, <1>3, <1>4, <1>5 DEF IInv, LinksTyped, EntryIsPlaced, ClosedIsReplaced, At
<1> QED
  BY <1>6, <1>7, <1>8, <1>9, <1>10 DEF IInv

LEMMA DeleteKeepsIInv ==
  ASSUME IInv, NEW e \in Ends, DeleteLink(e)
  PROVE  IInv'
<1>1. PICK label \in {"ended", "clean"} : pc' = [pc EXCEPT ![e] = label]
  BY DEF DeleteLink, Goto
<1>2. /\ pc[e] = "delete"
      /\ clusters' = [clusters EXCEPT ![NodeOf(e)][PeerOf(e)] = NoEnd]
      /\ closed' = [closed EXCEPT ![e] = TRUE]
      /\ UNCHANGED route
  BY DEF DeleteLink, At
<1>3. NodeOf(e) \in Nodes /\ PeerOf(e) \in Nodes
  BY <1>2, RoutedEnds DEF IInv
<1>4. \A f : NodeOf(f)' = NodeOf(f) /\ PeerOf(f)' = PeerOf(f)
  BY <1>2 DEF NodeOf, PeerOf
<1>5. \A n, m \in Nodes :
        clusters'[n][m] # NoEnd => clusters'[n][m] = clusters[n][m] /\ clusters[n][m] # e
  BY <1>2, <1>3 DEF IInv, LinksTyped, EntryIsPlaced
<1>6. LinksTyped'
  BY <1>1, <1>2 DEF IInv, LinksTyped, Labels
<1>7. UsedIsRouted' /\ ClosedIsLate'
  BY <1>1, <1>2 DEF IInv, LinksTyped, UsedIsRouted, ClosedIsLate, Early
<1>8. EntryIsPlaced'
  BY <1>1, <1>4, <1>5 DEF IInv, LinksTyped, EntryIsPlaced
<1>9. EntryEndsClosed'
  BY <1>1, <1>2, <1>5 DEF IInv, LinksTyped, EntryIsPlaced, EntryEndsClosed
<1>10. ClosedIsReplaced'
  BY <1>1, <1>2, <1>4, <1>5 DEF IInv, LinksTyped, EntryIsPlaced, ClosedIsReplaced, At
<1> QED
  BY <1>6, <1>7, <1>8, <1>9, <1>10 DEF IInv

\* Everything else an end does.
EndMoves(e) ==
  \/ WriteConnect(e) \/ AcceptConnect(e) \/ AcceptError(e)
  \/ SyncTopics(e) \/ EndSync(e) \/ Loop(e) \/ ReadError(e)
  \/ ProcessSubscribe(e) \/ ProcessUnsubscribe(e) \/ ProcessRetain(e)
  \/ \E t \in Topics : CleanTopic(e, t)

LEMMA EndMovesKeepIInv ==
  ASSUME IInv, NEW e \in Ends, EndMoves(e)
  PROVE  IInv'
<1> USE DEF Early, Labels, At
<1>1. CASE WriteConnect(e)
  <2>1. PICK label \in {"replace", "ended"} : Goto(e, label)
    BY <1>1 DEF WriteConnect
  <2> QED
    BY <1>1, <2>1, MovesOn DEF WriteConnect
<1>2. CASE AcceptConnect(e)
  BY <1>2, MovesOn DEF AcceptConnect
<1>3. CASE AcceptError(e)
  BY <1>3, MovesOn DEF AcceptError
<1>4. CASE SyncTopics(e)
  BY <1>4, MovesOn DEF SyncTopics
<1>5. CASE EndSync(e)
  BY <1>5, MovesOn DEF EndSync
<1>6. CASE Loop(e)
  <2>1. PICK label \in {"read", "ended"} : Goto(e, label) /\ (label = "ended" => closed[e])
    BY <1>6 DEF Loop
  <2> QED
    BY <1>6, <2>1, MovesOn DEF Loop
<1>7. CASE ReadError(e)
  BY <1>7, MovesOn DEF ReadError
<1>8. CASE ProcessSubscribe(e)
  BY <1>8, MovesOn DEF ProcessSubscribe, Reads
<1>9. CASE ProcessUnsubscribe(e)
  BY <1>9, MovesOn DEF ProcessUnsubscribe, Reads
<1>10. CASE ProcessRetain(e)
  BY <1>10, MovesOn DEF ProcessRetain, Reads
<1>11. CASE \E t \in Topics : CleanTopic(e, t)
  <2>1. PICK label \in {"clean", "ended"} : Goto(e, label)
    BY <1>11 DEF CleanTopic
  <2> QED
    BY <1>11, <2>1, MovesOn DEF CleanTopic
<1> QED
  BY <1>1, <1>2, <1>3, <1>4, <1>5, <1>6, <1>7, <1>8, <1>9, <1>10, <1>11 DEF EndMoves

\* Steps that leave all of it alone: writes, clients, and the network.
Elsewhere ==
  \/ \E e \in Ends, t \in Topics : RangeTopics(e, t) \/ WriteTopic(e, t)
  \/ \E n \in Nodes, c \in Clients : ClientStep(n, c)
  \/ \E l \in Links : CutLink(l)
  \/ UNCHANGED vars

LEMMA ClientStepLeaves ==
  ASSUME NEW n \in Nodes, NEW c \in Clients, ClientStep(n, c)
  PROVE  UNCHANGED <<route, pc, closed, broken, sync, topics, clusters, remote>>
<1>1. ASSUME NEW t \in Topics, ClientSubscribe(n, c, t) \/ ClientUnsubscribe(n, c, t)
      PROVE  UNCHANGED <<route, pc, closed, broken, sync, topics, clusters, remote>>
  BY <1>1 DEF ClientSubscribe, ClientUnsubscribe, linkVars
<1>2. ASSUME NEW t \in Topics, ClientGone(n, c, t) \/ ClientPublishRetain(n, c, t)
      PROVE  UNCHANGED <<route, pc, closed, broken, sync, topics, clusters, remote>>
  BY <1>2 DEF ClientGone, ClientPublishRetain, linkVars
<1>3. CASE Forward(n, c) \/ KeepRetain(n, c)
  BY <1>3 DEF Forward, KeepRetain, linkVars
<1> QED
  BY <1>1, <1>2, <1>3 DEF ClientStep

LEMMA ElsewhereLeaves ==
  Elsewhere => UNCHANGED <<route, pc, closed, clusters, remote>> /\ broken \subseteq broken'
<1>1. ASSUME NEW e \in Ends, NEW t \in Topics, RangeTopics(e, t) \/ WriteTopic(e, t)
      PROVE  UNCHANGED <<route, pc, closed, clusters, remote, broken>>
  BY <1>1 DEF RangeTopics, WriteTopic
<1>2. ASSUME NEW n \in Nodes, NEW c \in Clients, ClientStep(n, c)
      PROVE  UNCHANGED <<route, pc, closed, clusters, remote, broken>>
  BY <1>2, ClientStepLeaves
<1>3. ASSUME NEW l \in Links, CutLink(l)
      PROVE  UNCHANGED <<route, pc, closed, clusters, remote>> /\ broken \subseteq broken'
  BY <1>3 DEF CutLink
<1> QED
  BY <1>1, <1>2, <1>3 DEF Elsewhere, vars, linkVars

\* The steps, as the proofs take them.
LEMMA NextSteps ==
  ASSUME [Next]_vars
  PROVE  \/ \E n, m \in Nodes, l \in Links : Dial(n, m, l)
         \/ \E e \in Ends : ReplaceOld(e) \/ StoreLink(e) \/ DeleteLink(e) \/ EndMoves(e)
         \/ Elsewhere
  BY DEF Next, EndStep, EndMoves, Elsewhere

\* The steps that write ClusterTopics.
LEMMA RecordSteps ==
  ASSUME [Next]_vars
  PROVE  \/ UNCHANGED remote
         \/ \E g \in Ends : \/ ProcessSubscribe(g) \/ ProcessUnsubscribe(g)
                            \/ \E t \in Topics : CleanTopic(g, t)
<1>1. ASSUME NEW n \in Nodes, NEW m \in Nodes, NEW l \in Links, Dial(n, m, l)
      PROVE  UNCHANGED remote
  BY <1>1 DEF Dial
<1>2. ASSUME NEW e \in Ends, ReplaceOld(e) \/ StoreLink(e) \/ DeleteLink(e)
      PROVE  UNCHANGED remote
  BY <1>2 DEF ReplaceOld, StoreLink, DeleteLink
<1>3. ASSUME NEW e \in Ends,
             WriteConnect(e) \/ AcceptConnect(e) \/ AcceptError(e) \/ SyncTopics(e) \/ EndSync(e)
      PROVE  UNCHANGED remote
  BY <1>3 DEF WriteConnect, AcceptConnect, AcceptError, SyncTopics, EndSync
<1>4. ASSUME NEW e \in Ends, Loop(e) \/ ReadError(e) \/ ProcessRetain(e)
      PROVE  UNCHANGED remote
  BY <1>4 DEF Loop, ReadError, ProcessRetain
<1> QED
  BY <1>1, <1>2, <1>3, <1>4, ElsewhereLeaves, NextSteps DEF EndMoves

\* A link that is cut stays cut.
LEMMA BrokenStays == ASSUME [Next]_vars PROVE broken \subseteq broken'
<1>1. ASSUME NEW n \in Nodes, NEW m \in Nodes, NEW l \in Links, Dial(n, m, l)
      PROVE  UNCHANGED broken
  BY <1>1 DEF Dial
<1>2. ASSUME NEW e \in Ends, ReplaceOld(e) \/ StoreLink(e) \/ DeleteLink(e)
      PROVE  UNCHANGED broken
  BY <1>2 DEF ReplaceOld, StoreLink, DeleteLink
<1>3. ASSUME NEW e \in Ends,
             WriteConnect(e) \/ AcceptConnect(e) \/ AcceptError(e) \/ SyncTopics(e) \/ EndSync(e)
      PROVE  UNCHANGED broken
  BY <1>3 DEF WriteConnect, AcceptConnect, AcceptError, SyncTopics, EndSync
<1>4. ASSUME NEW e \in Ends, Loop(e) \/ ReadError(e) \/ ProcessRetain(e)
      PROVE  UNCHANGED broken
  BY <1>4 DEF Loop, ReadError, ProcessRetain
<1>5. ASSUME NEW e \in Ends,
             ProcessSubscribe(e) \/ ProcessUnsubscribe(e) \/ \E t \in Topics : CleanTopic(e, t)
      PROVE  UNCHANGED broken
  BY <1>5 DEF ProcessSubscribe, ProcessUnsubscribe, CleanTopic
<1> QED
  BY <1>1, <1>2, <1>3, <1>4, <1>5, ElsewhereLeaves, NextSteps DEF EndMoves

\* The steps that close a connection.
LEMMA ClosingSteps ==
  ASSUME [Next]_vars
  PROVE  UNCHANGED closed \/ \E g \in Ends : ReplaceOld(g) \/ DeleteLink(g)
<1>1. ASSUME NEW n \in Nodes, NEW m \in Nodes, NEW l \in Links, Dial(n, m, l)
      PROVE  UNCHANGED closed
  BY <1>1 DEF Dial
<1>2. ASSUME NEW e \in Ends, StoreLink(e) \/ EndMoves(e) PROVE UNCHANGED closed
  <2>1. CASE StoreLink(e)
    BY <2>1 DEF StoreLink
  <2>2. CASE WriteConnect(e) \/ AcceptConnect(e) \/ AcceptError(e) \/ SyncTopics(e) \/ EndSync(e)
    BY <2>2 DEF WriteConnect, AcceptConnect, AcceptError, SyncTopics, EndSync
  <2>3. CASE Loop(e) \/ ReadError(e) \/ ProcessRetain(e)
    BY <2>3 DEF Loop, ReadError, ProcessRetain
  <2>4. CASE ProcessSubscribe(e) \/ ProcessUnsubscribe(e) \/ \E t \in Topics : CleanTopic(e, t)
    BY <2>4 DEF ProcessSubscribe, ProcessUnsubscribe, CleanTopic
  <2> QED
    BY <1>2, <2>1, <2>2, <2>3, <2>4 DEF EndMoves
<1> QED
  BY <1>1, <1>2, ElsewhereLeaves, NextSteps

LEMMA NextIInv == IInv /\ [Next]_vars => IInv'
<1> SUFFICES ASSUME IInv, [Next]_vars PROVE IInv'
  OBVIOUS
<1>1. CASE \E n, m \in Nodes, l \in Links : Dial(n, m, l)
  BY <1>1, DialKeepsIInv
<1>2. ASSUME NEW e \in Ends, ReplaceOld(e) PROVE IInv'
  BY <1>2, ReplaceKeepsIInv
<1>3. ASSUME NEW e \in Ends, StoreLink(e) PROVE IInv'
  BY <1>3, StoreKeepsIInv
<1>4. ASSUME NEW e \in Ends, DeleteLink(e) PROVE IInv'
  BY <1>4, DeleteKeepsIInv
<1>5. ASSUME NEW e \in Ends, EndMoves(e) PROVE IInv'
  BY <1>5, EndMovesKeepIInv
<1>6. CASE Elsewhere
  BY <1>6, ElsewhereLeaves
  DEF IInv, LinksTyped, UsedIsRouted, ClosedIsLate, EntryIsPlaced, EntryEndsClosed,
      ClosedIsReplaced, NodeOf, PeerOf, At
<1> QED
  BY <1>1, <1>2, <1>3, <1>4, <1>5, <1>6, NextSteps

LEMMA IInvServed == IInv => EntryIsServed
  BY DEF IInv, EntryIsPlaced, EntryEndsClosed, ClosedIsReplaced, EntryIsServed

LEMMA AlwaysIInv == Spec => []IInv
  BY InitIInv, NextIInv, PTL DEF Spec

(***************************************************************************)
(* CheckHealthy (cluster.go:217-231), HandlerServer, HandlerClient and the *)
(* cluster's ProcessDisconnect: whoever dials, however often links are cut *)
(* and replaced, an entry of Clusters whose goroutine is over is about to  *)
(* be replaced, so that no node is cut off.                                *)
(***************************************************************************)
THEOREM NoDeadEntry == Spec => []EntryIsServed
  BY AlwaysIInv, IInvServed, PTL

-----------------------------------------------------------------------------
(* The types of what is told, and ClusterTopics                            *)

Told == [kind : {"subscribe", "unsubscribe", "retain"}, topic : Topics]
Message == Told \cup [kind : {"connect"}]
Work == {NoTask} \cup [do : {"forward"}, packet : Told] \cup [do : {"retain"}, topic : Topics]

DataTyped ==
  /\ inbox \in [Ends -> Seq(Message)]
  /\ topics \in [Ends -> SUBSET Topics]
  /\ remote \in [Nodes -> [Topics \X Nodes -> Ends \cup {NoEnd}]]
  /\ retained \in [Nodes -> SUBSET Topics]
  /\ task \in [Nodes -> [Clients -> Work]]

RecordIsPlaced ==
  \A n, m \in Nodes, t \in Topics : \A e \in {remote[n][<<t, m>>]} \ {NoEnd} :
    e \in Ends /\ NodeOf(e) = n /\ PeerOf(e) = m /\ pc[e] \notin Early

TInv == IInv /\ DataTyped /\ RecordIsPlaced

LEMMA InitTInv == Init => TInv
<1> SUFFICES ASSUME Init PROVE TInv
  OBVIOUS
<1>1. IInv
  BY InitIInv
<1>2. DataTyped /\ RecordIsPlaced
  BY DEF Init, DataTyped, RecordIsPlaced, Work
<1> QED
  BY <1>1, <1>2 DEF TInv

\* An end that has taken its place stays at its nodes.
PlacedStay ==
  \A e \in Ends : pc[e] \notin Early =>
    pc'[e] \notin Early /\ NodeOf(e)' = NodeOf(e) /\ PeerOf(e)' = PeerOf(e)

LEMMA NextPlacedStay == IInv /\ [Next]_vars => PlacedStay
<1> SUFFICES ASSUME IInv, [Next]_vars PROVE PlacedStay
  OBVIOUS
<1> USE DEF Early
<1>1. ASSUME NEW n \in Nodes, NEW m \in Nodes, NEW l \in Links, Dial(n, m, l) PROVE PlacedStay
  <2>1. /\ route[l] = NoRoute
        /\ \E r : route' = [route EXCEPT ![l] = r]
        /\ pc' = [pc EXCEPT ![<<l, "dialed">>] = "connect", ![<<l, "accepted">>] = "accept"]
    BY <1>1 DEF Dial
  <2>2. \A e \in Ends : pc[e] # "unused" => e[1] # l
    BY <2>1 DEF IInv, UsedIsRouted
  <2> QED
    BY <2>1, <2>2, OtherSide DEF IInv, LinksTyped, NodeOf, PeerOf, PlacedStay, Ends
<1>2. ASSUME NEW e \in Ends, ReplaceOld(e) \/ StoreLink(e) \/ DeleteLink(e) \/ EndMoves(e)
      PROVE  PlacedStay
  <2>1. PICK label \in Labels : /\ Goto(e, label)
                                /\ pc[e] \in Early \/ label \notin Early
    BY <1>2 DEF ReplaceOld, StoreLink, DeleteLink, EndMoves, WriteConnect, AcceptConnect,
       AcceptError, SyncTopics, EndSync, Loop, ReadError, ProcessSubscribe,
       ProcessUnsubscribe, ProcessRetain, CleanTopic, Reads, At, Labels
  <2>2. UNCHANGED route
    BY <1>2 DEF ReplaceOld, StoreLink, DeleteLink, EndMoves, WriteConnect, AcceptConnect,
       AcceptError, SyncTopics, EndSync, Loop, ReadError, ProcessSubscribe,
       ProcessUnsubscribe, ProcessRetain, CleanTopic
  <2> QED
    BY <2>1, <2>2 DEF IInv, LinksTyped, PlacedStay, NodeOf, PeerOf, Goto
<1>3. CASE Elsewhere
  BY <1>3, ElsewhereLeaves DEF PlacedStay, NodeOf, PeerOf
<1> QED
  BY <1>1, <1>2, <1>3, NextSteps

LEMMA WriteToTyped ==
  ASSUME NEW boxes \in [Ends -> Seq(Message)], NEW e, NEW packets \in Seq(Message)
  PROVE  WriteTo(boxes, e, packets) \in [Ends -> Seq(Message)]
<1>1. \A s \in Seq(Message) : s \o packets \in Seq(Message)
  OBVIOUS
<1> QED
  BY <1>1 DEF WriteTo

LEMMA PacketTyped ==
  ASSUME NEW kind \in {"subscribe", "unsubscribe", "retain"}, NEW t \in Topics
  PROVE  Packet(kind, t) \in Told /\ <<Packet(kind, t)>> \in Seq(Message)
  BY DEF Packet, Told, Message

\* What an end reads names a topic, unless it is CONNECT.
LEMMA HeadTyped ==
  ASSUME DataTyped, NEW e \in Ends, inbox[e] # <<>>
  PROVE  /\ Tail(inbox[e]) \in Seq(Message)
         /\ Head(inbox[e]).kind # "connect" => Head(inbox[e]).topic \in Topics
<1>1. inbox[e] \in Seq(Message)
  BY DEF DataTyped
<1>2. Head(inbox[e]) \in Message /\ Tail(inbox[e]) \in Seq(Message)
  BY <1>1
<1> QED
  BY <1>2 DEF Message, Told

LEMMA EndKeepsDataTyped ==
  ASSUME TInv, NEW e \in Ends, EndStep(e)
  PROVE  DataTyped'
<1> USE DEF TInv, DataTyped
<1>0. <<>> \in Seq(Message)
  OBVIOUS
<1>1. CASE AcceptError(e) \/ StoreLink(e) \/ SyncTopics(e) \/ EndSync(e) \/ Loop(e)
           \/ ReadError(e) \/ \E t \in Topics : RangeTopics(e, t)
  BY <1>1 DEF AcceptError, StoreLink, SyncTopics, EndSync, Loop, ReadError, RangeTopics, nodeVars
<1>2. CASE WriteConnect(e)
  <2>1. <<[kind |-> "connect"]>> \in Seq(Message)
    BY DEF Message
  <2> QED
    BY <1>2, <2>1, WriteToTyped DEF WriteConnect, nodeVars
<1>3. CASE AcceptConnect(e)
  BY <1>3, HeadTyped DEF AcceptConnect, nodeVars
<1>4. CASE ReplaceOld(e)
  <2>1. inbox' \in [Ends -> Seq(Message)]
    BY <1>0, <1>4 DEF ReplaceOld
  <2> QED
    BY <1>4, <2>1 DEF ReplaceOld, nodeVars
<1>5. ASSUME NEW t \in Topics, WriteTopic(e, t) PROVE DataTyped'
  BY <1>5, WriteToTyped, PacketTyped DEF WriteTopic, nodeVars
<1>6. CASE ProcessSubscribe(e)
  <2> DEFINE boxes == [inbox EXCEPT ![e] = Tail(@)]
             n == NodeOf(e)
             t == Head(inbox[e]).topic
             answer == IF t \in retained[n] THEN <<Packet("retain", t)>> ELSE <<>>
  <2>1. t \in Topics /\ boxes \in [Ends -> Seq(Message)]
    BY <1>6, HeadTyped DEF ProcessSubscribe, Reads
  <2>2. answer \in Seq(Message)
    BY <2>1, PacketTyped
  <2>3. inbox' = WriteTo(boxes, e, answer) /\ topics' = [topics EXCEPT ![e] = @ \cup {t}]
        /\ remote' = [remote EXCEPT ![n][<<t, PeerOf(e)>>] = e] /\ UNCHANGED <<retained, task>>
    BY <1>6 DEF ProcessSubscribe, nodeVars
  <2>4. inbox' \in [Ends -> Seq(Message)]
    BY <2>1, <2>2, <2>3, WriteToTyped
  <2> HIDE DEF boxes, answer, t, n
  <2> QED
    BY <2>1, <2>3, <2>4
<1>7. CASE ProcessUnsubscribe(e)
  BY <1>7, HeadTyped DEF ProcessUnsubscribe, Reads, nodeVars
<1>8. CASE ProcessRetain(e)
  BY <1>8, HeadTyped DEF ProcessRetain, Reads, nodeVars
<1>9. CASE DeleteLink(e)
  <2>1. inbox' = [inbox EXCEPT ![e] = <<>>]
    BY <1>9 DEF DeleteLink
  <2> QED
    BY <1>0, <1>9, <2>1 DEF DeleteLink, nodeVars
<1>10. ASSUME NEW t \in Topics, CleanTopic(e, t) PROVE DataTyped'
  BY <1>10 DEF CleanTopic, nodeVars
<1> QED
  BY <1>1, <1>2, <1>3, <1>4, <1>5, <1>6, <1>7, <1>8, <1>9, <1>10 DEF EndStep

LEMMA ClientKeepsDataTyped ==
  ASSUME TInv, NEW n \in Nodes, NEW c \in Clients, ClientStep(n, c)
  PROVE  DataTyped'
<1> USE DEF TInv, DataTyped, linkVars
<1>1. ASSUME NEW t \in Topics, ClientSubscribe(n, c, t) \/ ClientUnsubscribe(n, c, t)
      PROVE  DataTyped'
  <2>1. PICK packet \in Told :
           task' = [task EXCEPT ![n][c] = [do |-> "forward", packet |-> packet]]
    BY <1>1, PacketTyped DEF ClientSubscribe, ClientUnsubscribe, Begins
  <2> QED
    BY <1>1, <2>1 DEF ClientSubscribe, ClientUnsubscribe, Work
<1>2. ASSUME NEW t \in Topics, ClientGone(n, c, t) PROVE DataTyped'
  BY <1>2 DEF ClientGone
<1>3. ASSUME NEW t \in Topics, ClientPublishRetain(n, c, t) PROVE DataTyped'
  <2>1. Packet("retain", t) \in Message
    BY PacketTyped DEF Message
  <2>2. inbox' \in [Ends -> Seq(Message)]
    BY <1>3, <2>1 DEF ClientPublishRetain
  <2> QED
    BY <1>3, <2>2 DEF ClientPublishRetain, Begins, Work
<1>4. CASE Forward(n, c)
  <2>1. task[n][c] \in Work /\ task[n][c].do = "forward"
    BY <1>4 DEF Forward
  <2>2. task[n][c].packet \in Message
    BY <2>1 DEF Work, NoTask, Message
  <2>3. inbox' \in [Ends -> Seq(Message)]
    BY <1>4, <2>2 DEF Forward
  <2> QED
    BY <1>4, <2>3 DEF Forward, Finishes, Work
<1>5. CASE KeepRetain(n, c)
  <2>1. task[n][c] \in Work /\ task[n][c].do = "retain"
    BY <1>5 DEF KeepRetain
  <2>2. task[n][c].topic \in Topics
    BY <2>1 DEF Work, NoTask
  <2> QED
    BY <1>5, <2>2 DEF KeepRetain, Finishes, Work
<1> QED
  BY <1>1, <1>2, <1>3, <1>4, <1>5 DEF ClientStep

LEMMA NextDataTyped == TInv /\ [Next]_vars => DataTyped'
<1> SUFFICES ASSUME TInv, [Next]_vars PROVE DataTyped'
  OBVIOUS
<1>1. CASE \E n, m \in Nodes, l \in Links : Dial(n, m, l)
  BY <1>1 DEF Dial, TInv, DataTyped
<1>2. CASE \E l \in Links : CutLink(l)
  BY <1>2 DEF CutLink, TInv, DataTyped, nodeVars
<1>3. CASE UNCHANGED vars
  BY <1>3 DEF vars, linkVars, nodeVars, TInv, DataTyped
<1> QED
  BY <1>1, <1>2, <1>3, EndKeepsDataTyped, ClientKeepsDataTyped DEF Next

\* A record of ClusterTopics stays, goes, or is made for the end that read it.
RecordsChange ==
  \A n, m \in Nodes, t \in Topics :
    \/ remote'[n][<<t, m>>] \in {remote[n][<<t, m>>], NoEnd}
    \/ \E e \in Ends : /\ remote'[n][<<t, m>>] = e
                       /\ pc[e] = "read" /\ NodeOf(e) = n /\ PeerOf(e) = m

LEMMA NextRecordsChange == TInv /\ [Next]_vars => RecordsChange
<1> SUFFICES ASSUME TInv, [Next]_vars PROVE RecordsChange
  OBVIOUS
<1>1. CASE UNCHANGED remote
  BY <1>1 DEF RecordsChange
<1>2. ASSUME NEW e \in Ends, ProcessSubscribe(e) PROVE RecordsChange
  <2>1. pc[e] = "read" /\ \E t : remote' = [remote EXCEPT ![NodeOf(e)][<<t, PeerOf(e)>>] = e]
    BY <1>2 DEF ProcessSubscribe, Reads, At
  <2> QED
    BY <2>1 DEF TInv, DataTyped, RecordsChange
<1>3. ASSUME NEW e \in Ends, ProcessUnsubscribe(e) \/ \E t \in Topics : CleanTopic(e, t)
      PROVE  RecordsChange
  <2>1. \E t : remote' = [remote EXCEPT ![NodeOf(e)][<<t, PeerOf(e)>>] = NoEnd]
    BY <1>3 DEF ProcessUnsubscribe, CleanTopic
  <2> QED
    BY <2>1 DEF TInv, DataTyped, RecordsChange
<1> QED
  BY <1>1, <1>2, <1>3, RecordSteps

LEMMA NextTInv == TInv /\ [Next]_vars => TInv'
<1> SUFFICES ASSUME TInv, [Next]_vars PROVE TInv'
  OBVIOUS
<1>1. IInv' /\ DataTyped'
  BY NextIInv, NextDataTyped DEF TInv
<1>2. PlacedStay /\ RecordsChange
  BY NextPlacedStay, NextRecordsChange DEF TInv
<1>3. RecordIsPlaced'
  <2> SUFFICES ASSUME NEW n \in Nodes, NEW m \in Nodes, NEW t \in Topics,
                      NEW e, e = remote'[n][<<t, m>>], e # NoEnd
               PROVE  /\ e \in Ends /\ NodeOf(e)' = n /\ PeerOf(e)' = m
                      /\ pc'[e] \notin Early
    BY DEF RecordIsPlaced
  <2>1. CASE e = remote[n][<<t, m>>]
    BY <1>2, <2>1 DEF TInv, RecordIsPlaced, PlacedStay
  <2>2. CASE e \in Ends /\ pc[e] = "read" /\ NodeOf(e) = n /\ PeerOf(e) = m
    BY <1>2, <2>2 DEF PlacedStay, Early
  <2> QED
    BY <1>2, <2>1, <2>2 DEF RecordsChange
<1> QED
  BY <1>1, <1>3 DEF TInv

LEMMA TInvTypeOK == TInv => TypeOK
<1> SUFFICES ASSUME TInv PROVE TypeOK
  OBVIOUS
<1>1. pc \in [Ends -> Labels] /\ topics \in [Ends -> SUBSET Topics]
      /\ retained \in [Nodes -> SUBSET Topics]
  BY DEF TInv, IInv, LinksTyped, DataTyped
<1>2. \A n, m \in Nodes, t \in Topics : \A e \in {clusters[n][m], remote[n][<<t, m>>]} \ {NoEnd} :
        NodeOf(e) = n /\ PeerOf(e) = m /\ pc[e] \notin Early
  BY DEF TInv, IInv, EntryIsPlaced, RecordIsPlaced
<1> QED
  BY <1>1, <1>2 DEF TypeOK, Labels, Early

(***************************************************************************)
(* The handlers of the cluster (cluster.go:34-140, cluster/processor.go):  *)
(* an entry of Clusters or ClusterTopics is an end of this node, on a link *)
(* to the node the entry is for, that has taken its place there.           *)
(***************************************************************************)
THEOREM TypeCorrect == Spec => []TypeOK
  BY InitTInv, NextTInv, TInvTypeOK, PTL DEF Spec

-----------------------------------------------------------------------------
(* What is told                                                            *)

\* The list of clusters is that of the other nodes (conf.toml:45).
OthersOnly == \A d \in Dials : d[1] # d[2]

\* A node runs one link to another at a time: the goroutine of the old one is
\* over before the next is dialed.  Without it CleanTopic of the old end takes,
\* by name, the record that the new one has made.
Successive ==
  \A e, g \in Ends :
    (e[1] # g[1] /\ NodeOf(e) = NodeOf(g) /\ PeerOf(e) = PeerOf(g)) =>
      pc[e] \in {"unused", "ended"} \/ pc[g] \in {"unused", "ended"}

Forwards(n, kind, t) ==
  \E c \in Clients : task[n][c] = [do |-> "forward", packet |-> Packet(kind, t)]

\* A client that unsubscribes was the last of its node, and no other comes
\* before the nodes are told: they forget a node at its first UNSUBSCRIBE.
LastUnsubscribes ==
  \A n \in Nodes, t \in Topics : Forwards(n, "unsubscribe", t) => local[n][t] = {}

MoreTyped ==
  /\ sync \in [Ends -> [link : Ends \cup {NoEnd}, left : SUBSET Topics, found : SUBSET Topics]]
  /\ local \in [Nodes -> [Topics -> SUBSET Clients]]
  /\ broken \subseteq Links

Distinct == \A e \in Ends : pc[e] # "unused" => NodeOf(e) # PeerOf(e)

Running == {"sync", "range", "loop", "read", "delete"}

RunningIsEntered ==
  \A e \in Ends : pc[e] \in Running => clusters[NodeOf(e)][PeerOf(e)] = e

OverIsDown == \A e \in Ends : pc[e] \in {"clean", "ended"} => ~ Up(e)

\* An end synchronises over itself, one topic after the other.
SyncOwn ==
  \A e \in Ends : pc[e] = "range" =>
    sync[e].link = e /\ \A t, u \in sync[e].found : t = u

\* CONNECT comes first.
Silent ==
  \A e \in Ends :
    /\ pc[e] \in {"unused", "connect", "accept"} => inbox[OtherEnd(e)] = <<>>
    /\ pc[e] = "accept" /\ inbox[e] # <<>> => Head(inbox[e]).kind = "connect"
    /\ pc[e] = "accept" /\ pc[OtherEnd(e)] \notin {"unused", "connect", "accept", "ended"}
         => inbox[e] # <<>>

\* What an end knows of the topics of the other node, or will when it has read
\* what is on the way.
NoneAfter(e, t, i) ==
  \A j \in DOMAIN inbox[e] : j > i => inbox[e][j] # Packet("unsubscribe", t)

Knows(e, t) ==
  \/ remote[NodeOf(e)][<<t, PeerOf(e)>>] = e /\ NoneAfter(e, t, 0)
  \/ \E i \in DOMAIN inbox[e] : inbox[e][i] = Packet("subscribe", t) /\ NoneAfter(e, t, i)

\* The node of e is about to tell it.
Telling(e, t) ==
  \/ At(e, "range") /\ t \in sync[e].left \cup sync[e].found
  \/ Forwards(NodeOf(e), "subscribe", t)

ToTell(e, t) ==
  /\ pc[e] \in {"range", "loop", "read"} /\ Up(e)
  /\ <<NodeOf(e), PeerOf(e)>> \in Dials /\ local[NodeOf(e)][t] # {}

EndsToldOf ==
  \A e \in Ends, t \in Topics : ToTell(e, t) => Telling(e, t) \/ Knows(OtherEnd(e), t)

LinkInv == TInv /\ MoreTyped /\ Distinct /\ RunningIsEntered /\ OverIsDown /\ SyncOwn /\ Silent

LEMMA OtherOther == \A e \in Ends : OtherEnd(OtherEnd(e)) = e /\ OtherEnd(e) # e
<1> SUFFICES ASSUME NEW e \in Ends PROVE OtherEnd(OtherEnd(e)) = e /\ OtherEnd(e) # e
  OBVIOUS
<1>1. \A side \in Sides : (CHOOSE s \in Sides : s # side) = IF side = "dialed" THEN "accepted" ELSE "dialed"
  BY DEF Sides
<1>2. e = <<e[1], e[2]>> /\ e[2] \in Sides
  BY DEF Ends
<1>3. OtherEnd(e) = <<e[1], IF e[2] = "dialed" THEN "accepted" ELSE "dialed">>
  BY <1>1, <1>2 DEF OtherEnd
<1>4. OtherEnd(OtherEnd(e)) = <<e[1], IF OtherEnd(e)[2] = "dialed" THEN "accepted" ELSE "dialed">>
  BY <1>1, <1>3 DEF OtherEnd, Sides
<1> QED
  BY <1>2, <1>3, <1>4 DEF Sides

LEMMA OtherNodes ==
  ASSUME NEW e \in Ends
  PROVE  NodeOf(OtherEnd(e)) = PeerOf(e) /\ PeerOf(OtherEnd(e)) = NodeOf(e) /\ (Up(OtherEnd(e)) <=> Up(e))
<1>1. OtherEnd(OtherEnd(e)) = e /\ OtherEnd(e)[1] = e[1]
  BY OtherSide, OtherOther
<1> QED
  BY <1>1 DEF PeerOf, Up

\* An end in use stays in use, at its nodes.
UsedStay ==
  \A e \in Ends : pc[e] # "unused" =>
    pc'[e] # "unused" /\ NodeOf(e)' = NodeOf(e) /\ PeerOf(e)' = PeerOf(e)

LEMMA NextUsedStay == TInv /\ [Next]_vars => UsedStay
<1> SUFFICES ASSUME TInv, [Next]_vars PROVE UsedStay
  OBVIOUS
<1>1. ASSUME NEW n \in Nodes, NEW m \in Nodes, NEW l \in Links, Dial(n, m, l) PROVE UsedStay
  <2>1. /\ route[l] = NoRoute
        /\ \E r : route' = [route EXCEPT ![l] = r]
        /\ pc' = [pc EXCEPT ![<<l, "dialed">>] = "connect", ![<<l, "accepted">>] = "accept"]
    BY <1>1 DEF Dial
  <2>2. \A e \in Ends : pc[e] # "unused" => e[1] # l
    BY <2>1 DEF TInv, IInv, UsedIsRouted
  <2> QED
    BY <2>1, <2>2, OtherSide DEF TInv, IInv, LinksTyped, NodeOf, PeerOf, UsedStay, Ends
<1>2. ASSUME NEW e \in Ends, ReplaceOld(e) \/ StoreLink(e) \/ DeleteLink(e) \/ EndMoves(e)
      PROVE  UsedStay
  <2>1. PICK label \in Labels \ {"unused"} : Goto(e, label)
    BY <1>2 DEF ReplaceOld, StoreLink, DeleteLink, EndMoves, WriteConnect, AcceptConnect,
       AcceptError, SyncTopics, EndSync, Loop, ReadError, ProcessSubscribe,
       ProcessUnsubscribe, ProcessRetain, CleanTopic, Reads, At, Labels
  <2>2. UNCHANGED route
    BY <1>2 DEF ReplaceOld, StoreLink, DeleteLink, EndMoves, WriteConnect, AcceptConnect,
       AcceptError, SyncTopics, EndSync, Loop, ReadError, ProcessSubscribe,
       ProcessUnsubscribe, ProcessRetain, CleanTopic
  <2> QED
    BY <2>1, <2>2 DEF TInv, IInv, LinksTyped, UsedStay, NodeOf, PeerOf, Goto
<1>3. CASE Elsewhere
  BY <1>3, ElsewhereLeaves DEF UsedStay, NodeOf, PeerOf
<1> QED
  BY <1>1, <1>2, <1>3, NextSteps

\* What is down stays down.
LEMMA NextDown ==
  ASSUME TInv, [Next]_vars, NEW e \in Ends, Up(e)'
  PROVE  Up(e)
<1>1. broken \subseteq broken'
  BY BrokenStays
<1>2. \A g \in Ends : closed[g] => closed'[g]
  <2>1. CASE UNCHANGED closed
    BY <2>1
  <2>2. ASSUME NEW g \in Ends, ReplaceOld(g) \/ DeleteLink(g) PROVE \A k \in Ends : closed[k] => closed'[k]
    BY <2>2 DEF ReplaceOld, DeleteLink, TInv, IInv, LinksTyped
  <2>3. UNCHANGED closed \/ \E g \in Ends : ReplaceOld(g) \/ DeleteLink(g)
    BY ClosingSteps
  <2> QED
    BY <2>1, <2>2, <2>3
<1>3. OtherEnd(e) \in Ends
  BY OtherSide
<1> QED
  BY <1>1, <1>2, <1>3 DEF Up

\* The types of what is synchronised and of the local subscribers.
LEMMA NextMoreTyped == TInv /\ MoreTyped /\ [Next]_vars => MoreTyped'
<1> SUFFICES ASSUME TInv, MoreTyped, [Next]_vars PROVE MoreTyped'
  OBVIOUS
<1> USE DEF MoreTyped
<1>1. ASSUME NEW n \in Nodes, NEW m \in Nodes, NEW l \in Links, Dial(n, m, l) PROVE MoreTyped'
  BY <1>1 DEF Dial
<1>2. ASSUME NEW e \in Ends, EndStep(e) PROVE MoreTyped'
  <2>0. UNCHANGED <<local, broken>>
    BY <1>2 DEF EndStep, WriteConnect, AcceptConnect, AcceptError, ReplaceOld, StoreLink,
      SyncTopics, EndSync, RangeTopics, WriteTopic, Loop, ReadError, ProcessSubscribe,
      ProcessUnsubscribe, ProcessRetain, DeleteLink, CleanTopic, nodeVars
  <2>1. CASE SyncTopics(e)
    <3>1. pc[e] = "sync" /\ NodeOf(e) \in Nodes /\ PeerOf(e) \in Nodes
      BY <2>1, RoutedEnds DEF SyncTopics, At, TInv, IInv
    <3>2. clusters[NodeOf(e)][PeerOf(e)] \in Ends \cup {NoEnd}
      BY <3>1 DEF TInv, IInv, LinksTyped
    <3>3. \E left \in SUBSET Topics : sync' = [sync EXCEPT ![e] =
             [link |-> clusters[NodeOf(e)][PeerOf(e)], found |-> {}, left |-> left]]
      BY <2>1 DEF SyncTopics
    <3> QED
      BY <2>0, <3>2, <3>3
  <2>2. CASE EndSync(e)
    BY <2>0, <2>2 DEF EndSync, NoSync
  <2>3. ASSUME NEW t \in Topics, RangeTopics(e, t) PROVE MoreTyped'
    <3> DEFINE Syncs == [link : Ends \cup {NoEnd}, left : SUBSET Topics, found : SUBSET Topics]
               left == sync[e].left \ {t}
               found == {u \in {t} : local[NodeOf(e)][u] # {}}
    <3>1. sync' = [sync EXCEPT ![e] = [sync[e] EXCEPT !.left = left, !.found = found]]
      BY <2>3 DEF RangeTopics
    <3>2. sync \in [Ends -> Syncs] /\ left \in SUBSET Topics /\ found \in SUBSET Topics
      OBVIOUS
    <3> HIDE DEF left, found
    <3>3. [sync[e] EXCEPT !.left = left, !.found = found] \in Syncs
      BY <3>2
    <3>4. sync' \in [Ends -> Syncs]
      BY <3>1, <3>2, <3>3
    <3> QED
      BY <2>0, <3>4
  <2>4. ASSUME NEW t \in Topics, WriteTopic(e, t) PROVE MoreTyped'
    BY <2>0, <2>4 DEF WriteTopic
  <2>5. CASE \/ ReplaceOld(e) \/ StoreLink(e) \/ DeleteLink(e) \/ WriteConnect(e)
             \/ AcceptConnect(e) \/ AcceptError(e)
    <3>1. UNCHANGED sync
      BY <2>5 DEF ReplaceOld, StoreLink, DeleteLink, WriteConnect, AcceptConnect, AcceptError
    <3> QED
      BY <2>0, <3>1
  <2>6. CASE \/ Loop(e) \/ ReadError(e) \/ ProcessSubscribe(e) \/ ProcessUnsubscribe(e)
             \/ ProcessRetain(e) \/ \E t \in Topics : CleanTopic(e, t)
    <3>1. UNCHANGED sync
      BY <2>6 DEF Loop, ReadError, ProcessSubscribe, ProcessUnsubscribe, ProcessRetain, CleanTopic
    <3> QED
      BY <2>0, <3>1
  <2> QED
    BY <1>2, <2>1, <2>2, <2>3, <2>4, <2>5, <2>6 DEF EndStep
<1>3. ASSUME NEW n \in Nodes, NEW c \in Clients, ClientStep(n, c) PROVE MoreTyped'
  <2>0. UNCHANGED <<sync, broken>>
    BY <1>3 DEF ClientStep, ClientSubscribe, ClientUnsubscribe, ClientGone, ClientPublishRetain,
      Forward, KeepRetain, linkVars
  <2>1. \/ UNCHANGED local
        \/ \E t \in Topics : \/ local' = [local EXCEPT ![n][t] = @ \cup {c}]
                             \/ local' = [local EXCEPT ![n][t] = @ \ {c}]
    BY <1>3 DEF ClientStep, ClientSubscribe, ClientUnsubscribe, ClientGone, ClientPublishRetain,
      Forward, KeepRetain, linkVars
  <2> QED
    BY <2>0, <2>1
<1>4. ASSUME NEW l \in Links, CutLink(l) PROVE MoreTyped'
  BY <1>4 DEF CutLink, nodeVars
<1>5. CASE UNCHANGED vars
  BY <1>5 DEF vars, linkVars, nodeVars
<1> QED
  BY <1>1, <1>2, <1>3, <1>4, <1>5 DEF Next

\* An end never links a node to itself.
LEMMA NextDistinct ==
  ASSUME OthersOnly, TInv, Distinct, [Next]_vars
  PROVE  Distinct'
<1>1. UsedStay
  BY NextUsedStay
<1>2. ASSUME NEW e \in Ends, pc[e] = "unused", pc'[e] # "unused" PROVE NodeOf(e)' # PeerOf(e)'
  <2>1. CASE UNCHANGED pc
    BY <1>2, <2>1
  <2>2. ASSUME NEW g \in Ends, NEW label, Goto(g, label), pc[g] # "unused" PROVE FALSE
    BY <1>2, <2>2 DEF Goto, TInv, IInv, LinksTyped
  <2>3. ASSUME NEW g \in Ends, ReplaceOld(g) \/ StoreLink(g) \/ DeleteLink(g) \/ EndMoves(g) PROVE FALSE
    <3>1. pc[g] # "unused" /\ \E label : Goto(g, label)
      BY <2>3 DEF ReplaceOld, StoreLink, DeleteLink, EndMoves, WriteConnect, AcceptConnect,
       AcceptError, SyncTopics, EndSync, Loop, ReadError, ProcessSubscribe,
       ProcessUnsubscribe, ProcessRetain, CleanTopic, Reads, At
    <3> QED
      BY <2>2, <3>1
  <2>4. ASSUME NEW n \in Nodes, NEW m \in Nodes, NEW l \in Links, Dial(n, m, l)
        PROVE  NodeOf(e)' # PeerOf(e)'
    <3>1. n # m
      BY <2>4 DEF Dial, OthersOnly
    <3>2. pc' = [pc EXCEPT ![<<l, "dialed">>] = "connect", ![<<l, "accepted">>] = "accept"]
      BY <2>4 DEF Dial
    <3>3. e[1] = l
      BY <1>2, <3>2 DEF TInv, IInv, LinksTyped, Ends, Sides
    <3>4. route'[e[1]] = [dialed |-> n, accepted |-> m]
      BY <2>4, <3>3 DEF Dial, TInv, IInv, LinksTyped
    <3>5. e[2] \in Sides /\ OtherEnd(e)[2] \in Sides /\ OtherEnd(e)[2] # e[2] /\ OtherEnd(e)[1] = e[1]
      BY OtherSide, OtherOther DEF Ends, OtherEnd
    <3> QED
      BY <3>1, <3>4, <3>5 DEF NodeOf, PeerOf, Sides
  <2>5. CASE Elsewhere
    BY <2>1, <2>5, ElsewhereLeaves
  <2> QED
    BY <2>3, <2>4, <2>5, NextSteps
<1> QED
  BY <1>1, <1>2 DEF Distinct, UsedStay

LEMMA SameLink == \A e, g \in Ends : e[1] = g[1] /\ e # g => g = OtherEnd(e)
<1> SUFFICES ASSUME NEW e \in Ends, NEW g \in Ends, e[1] = g[1], e # g PROVE g = OtherEnd(e)
  OBVIOUS
<1>1. OtherEnd(e) \in Ends /\ OtherEnd(e)[1] = e[1] /\ OtherEnd(e) # e
  BY OtherSide, OtherOther
<1> QED
  BY <1>1 DEF Ends, Sides

\* No other end of the same node runs towards the same node.
LEMMA OnlyOne ==
  ASSUME Successive, Distinct, NEW e \in Ends, NEW g \in Ends, e # g,
         pc[e] \notin {"unused", "ended"}, NodeOf(e) = NodeOf(g), PeerOf(e) = PeerOf(g)
  PROVE  pc[g] \in {"unused", "ended"}
<1>1. CASE e[1] # g[1]
  BY <1>1 DEF Successive
<1>2. CASE e[1] = g[1]
  <2>1. g = OtherEnd(e)
    BY <1>2, SameLink
  <2> QED
    BY <2>1, OtherNodes DEF Distinct
<1> QED
  BY <1>1, <1>2

\* How the goroutine of an end goes on.
Moves ==
  {<<"connect", "replace">>, <<"connect", "ended">>, <<"accept", "replace">>, <<"accept", "ended">>,
   <<"replace", "store">>, <<"store", "sync">>, <<"sync", "range">>, <<"range", "loop">>,
   <<"loop", "read">>, <<"loop", "ended">>, <<"read", "loop">>, <<"read", "delete">>,
   <<"delete", "clean">>, <<"delete", "ended">>, <<"clean", "clean">>, <<"clean", "ended">>}

LEMMA EndGoes ==
  ASSUME NEW e \in Ends, ReplaceOld(e) \/ StoreLink(e) \/ DeleteLink(e) \/ EndMoves(e)
  PROVE  \E label : Goto(e, label) /\ <<pc[e], label>> \in Moves
<1> USE DEF Moves, At
<1>1. CASE ReplaceOld(e)
  BY <1>1 DEF ReplaceOld
<1>2. CASE StoreLink(e)
  BY <1>2 DEF StoreLink
<1>3. CASE DeleteLink(e)
  BY <1>3 DEF DeleteLink
<1>4. CASE WriteConnect(e)
  BY <1>4 DEF WriteConnect
<1>5. CASE AcceptConnect(e)
  BY <1>5 DEF AcceptConnect
<1>6. CASE AcceptError(e)
  BY <1>6 DEF AcceptError
<1>7. CASE SyncTopics(e)
  BY <1>7 DEF SyncTopics
<1>8. CASE EndSync(e)
  BY <1>8 DEF EndSync
<1>9. CASE Loop(e)
  BY <1>9 DEF Loop
<1>10. CASE ReadError(e)
  BY <1>10 DEF ReadError
<1>11. CASE ProcessSubscribe(e)
  BY <1>11 DEF ProcessSubscribe, Reads
<1>12. CASE ProcessUnsubscribe(e)
  BY <1>12 DEF ProcessUnsubscribe, Reads
<1>13. CASE ProcessRetain(e)
  BY <1>13 DEF ProcessRetain, Reads
<1>14. ASSUME NEW t \in Topics, CleanTopic(e, t)
       PROVE  \E label : Goto(e, label) /\ <<pc[e], label>> \in Moves
  BY <1>14 DEF CleanTopic
<1> QED
  BY <1>1, <1>2, <1>3, <1>4, <1>5, <1>6, <1>7, <1>8, <1>9, <1>10, <1>11, <1>12, <1>13, <1>14
  DEF EndMoves

\* Nobody takes the entry of an end that runs.
LEMMA NextRunningIsEntered ==
  ASSUME TInv, Distinct, Successive, RunningIsEntered, [Next]_vars
  PROVE  RunningIsEntered'
<1>1. UsedStay
  BY NextUsedStay
<1>2. ASSUME UNCHANGED clusters, \A g \in Ends : pc'[g] \in Running => pc[g] \in Running
      PROVE  RunningIsEntered'
  BY <1>1, <1>2 DEF RunningIsEntered, UsedStay, Running
<1>3. ASSUME NEW n \in Nodes, NEW m \in Nodes, NEW l \in Links, Dial(n, m, l) PROVE RunningIsEntered'
  <2>1. UNCHANGED clusters /\
        pc' = [pc EXCEPT ![<<l, "dialed">>] = "connect", ![<<l, "accepted">>] = "accept"]
    BY <1>3 DEF Dial
  <2> QED
    BY <1>2, <2>1 DEF TInv, IInv, LinksTyped, Running
<1>4. ASSUME NEW e \in Ends, StoreLink(e) \/ DeleteLink(e) PROVE RunningIsEntered'
  <2> DEFINE entry == IF StoreLink(e) THEN e ELSE NoEnd
  <2>1. PICK label : Goto(e, label) /\ (label \in Running => StoreLink(e))
    BY <1>4 DEF StoreLink, DeleteLink, Running
  <2>2. clusters' = [clusters EXCEPT ![NodeOf(e)][PeerOf(e)] = entry]
    BY <1>4 DEF StoreLink, DeleteLink
  <2>3. pc[e] \in {"store", "delete"}
    BY <1>4 DEF StoreLink, DeleteLink, At
  <2>4. NodeOf(e) \in Nodes /\ PeerOf(e) \in Nodes
    BY <2>3, RoutedEnds DEF TInv, IInv
  <2>5. ASSUME NEW g \in Ends, g # e, pc'[g] \in Running
        PROVE  clusters'[NodeOf(g)'][PeerOf(g)'] = g
    <3>1. pc[g] \in Running
      BY <2>1, <2>5 DEF Goto, TInv, IInv, LinksTyped
    <3>2. NodeOf(g)' = NodeOf(g) /\ PeerOf(g)' = PeerOf(g)
      BY <1>1, <3>1 DEF UsedStay, Running
    <3>3. NodeOf(g) # NodeOf(e) \/ PeerOf(g) # PeerOf(e)
      BY <2>3, <2>5, <3>1, OnlyOne DEF Running
    <3>4. NodeOf(g) \in Nodes /\ PeerOf(g) \in Nodes
      BY <3>1, RoutedEnds DEF TInv, IInv, Running
    <3>5. clusters'[NodeOf(g)][PeerOf(g)] = clusters[NodeOf(g)][PeerOf(g)]
      BY <2>2, <2>4, <3>3, <3>4 DEF TInv, IInv, LinksTyped
    <3> QED
      BY <3>1, <3>2, <3>5 DEF RunningIsEntered
  <2>6. ASSUME pc'[e] \in Running PROVE clusters'[NodeOf(e)'][PeerOf(e)'] = e
    <3>1. StoreLink(e)
      BY <2>1, <2>6 DEF Goto, TInv, IInv, LinksTyped
    <3>2. NodeOf(e)' = NodeOf(e) /\ PeerOf(e)' = PeerOf(e)
      BY <1>1, <2>3 DEF UsedStay
    <3> QED
      BY <2>2, <2>4, <3>1, <3>2 DEF TInv, IInv, LinksTyped
  <2> QED
    BY <2>5, <2>6 DEF RunningIsEntered
<1>5. ASSUME NEW e \in Ends, ReplaceOld(e) \/ EndMoves(e) PROVE RunningIsEntered'
  <2>0. CASE pc[e] = "store"
    <3>1. StoreLink(e)
      BY <1>5, <2>0 DEF ReplaceOld, EndMoves, WriteConnect, AcceptConnect,
       AcceptError, SyncTopics, EndSync, Loop, ReadError, ProcessSubscribe,
       ProcessUnsubscribe, ProcessRetain, CleanTopic, Reads, At
    <3> QED
      BY <3>1, <1>4
  <2>1. PICK label : Goto(e, label) /\ <<pc[e], label>> \in Moves
    BY <1>5, EndGoes
  <2>2. UNCHANGED clusters
    BY <1>5 DEF ReplaceOld, EndMoves, WriteConnect, AcceptConnect,
     AcceptError, SyncTopics, EndSync, Loop, ReadError, ProcessSubscribe,
     ProcessUnsubscribe, ProcessRetain, CleanTopic
  <2>3. CASE pc[e] # "store"
    <3>1. label \in Running => pc[e] \in Running
      BY <2>1, <2>3 DEF Moves, Running
    <3> QED
      BY <1>2, <2>1, <2>2, <3>1 DEF TInv, IInv, LinksTyped, Goto
  <2> QED
    BY <2>0, <2>3
<1>6. CASE Elsewhere
  BY <1>2, <1>6, ElsewhereLeaves
<1> QED
  BY <1>3, <1>4, <1>5, <1>6, NextSteps

\* A goroutine ends on a link that is down, or takes it down.
LEMMA NextOverIsDown ==
  ASSUME TInv, OverIsDown, [Next]_vars
  PROVE  OverIsDown'
<1> SUFFICES ASSUME NEW g \in Ends, pc'[g] \in {"clean", "ended"}, Up(g)' PROVE FALSE
  BY DEF OverIsDown
<1>1. Up(g)
  BY NextDown
<1>2. pc[g] \notin {"clean", "ended"}
  BY <1>1 DEF OverIsDown
<1>3. CASE UNCHANGED pc
  BY <1>2, <1>3
<1>4. ASSUME NEW n \in Nodes, NEW m \in Nodes, NEW l \in Links, Dial(n, m, l) PROVE FALSE
  <2>1. pc' = [pc EXCEPT ![<<l, "dialed">>] = "connect", ![<<l, "accepted">>] = "accept"]
    BY <1>4 DEF Dial
  <2> QED
    BY <1>2, <2>1 DEF TInv, IInv, LinksTyped
<1>5. ASSUME NEW e \in Ends, ReplaceOld(e) \/ StoreLink(e) \/ DeleteLink(e) \/ EndMoves(e) PROVE FALSE
  <2>1. PICK label : Goto(e, label) /\ <<pc[e], label>> \in Moves
    BY <1>5, EndGoes
  <2>2. g = e /\ label \in {"clean", "ended"}
    BY <1>2, <2>1 DEF Goto, TInv, IInv, LinksTyped
  <2>3. pc' = [pc EXCEPT ![e] = label] /\ pc'[e] = label /\ pc[e] \in {"connect", "accept", "loop", "delete"}
    BY <1>2, <2>1, <2>2 DEF Goto, TInv, IInv, LinksTyped, Moves
  <2>4. WriteConnect(e) \/ AcceptError(e) \/ AcceptConnect(e) \/ Loop(e) \/ DeleteLink(e)
    BY <1>5, <2>3 DEF ReplaceOld, StoreLink, DeleteLink, EndMoves, AcceptConnect,
     SyncTopics, EndSync, ReadError, ProcessSubscribe,
     ProcessUnsubscribe, ProcessRetain, CleanTopic, Reads, At
  <2>5. CASE DeleteLink(e)
    BY <1>1, <2>2, <2>5 DEF DeleteLink, TInv, IInv, LinksTyped, Up
  <2>6. CASE WriteConnect(e)
    BY <1>1, <2>2, <2>3, <2>6 DEF WriteConnect, Goto
  <2>7. CASE AcceptConnect(e)
    BY <2>2, <2>3, <2>7 DEF AcceptConnect, Goto
  <2>8. CASE Loop(e)
    BY <1>1, <2>2, <2>3, <2>8 DEF Loop, Goto, Up
  <2>9. CASE AcceptError(e)
    BY <1>1, <2>2, <2>9 DEF AcceptError
  <2> QED
    BY <2>4, <2>5, <2>6, <2>7, <2>8, <2>9
<1>6. CASE Elsewhere
  BY <1>3, <1>6, ElsewhereLeaves
<1> QED
  BY <1>4, <1>5, <1>6, NextSteps

\* The link SyncTopics finds in Clusters is its own.
LEMMA NextSyncOwn ==
  ASSUME TInv, MoreTyped, RunningIsEntered, SyncOwn, [Next]_vars
  PROVE  SyncOwn'
<1>1. ASSUME UNCHANGED sync, \A g \in Ends : pc'[g] = "range" => pc[g] = "range" PROVE SyncOwn'
  BY <1>1 DEF SyncOwn
<1>2. ASSUME NEW n \in Nodes, NEW m \in Nodes, NEW l \in Links, Dial(n, m, l) PROVE SyncOwn'
  <2>1. UNCHANGED sync /\
        pc' = [pc EXCEPT ![<<l, "dialed">>] = "connect", ![<<l, "accepted">>] = "accept"]
    BY <1>2 DEF Dial
  <2> QED
    BY <1>1, <2>1 DEF TInv, IInv, LinksTyped
<1>3. ASSUME NEW e \in Ends, ReplaceOld(e) \/ StoreLink(e) \/ DeleteLink(e) \/ EndMoves(e),
             ~ SyncTopics(e), ~ EndSync(e)
      PROVE  SyncOwn'
  <2>1. UNCHANGED sync /\ pc[e] # "sync"
    BY <1>3 DEF ReplaceOld, StoreLink, DeleteLink, EndMoves, WriteConnect, AcceptConnect,
     AcceptError, Loop, ReadError, ProcessSubscribe,
     ProcessUnsubscribe, ProcessRetain, CleanTopic, Reads, At
  <2>2. PICK label : Goto(e, label) /\ <<pc[e], label>> \in Moves
    BY <1>3, EndGoes
  <2>3. label # "range"
    BY <2>1, <2>2 DEF Moves
  <2> QED
    BY <1>1, <2>1, <2>2, <2>3 DEF Goto, TInv, IInv, LinksTyped
<1>4. ASSUME NEW e \in Ends, EndSync(e) PROVE SyncOwn'
  BY <1>4 DEF EndSync, Goto, TInv, IInv, LinksTyped, MoreTyped, SyncOwn
<1>5. ASSUME NEW e \in Ends, SyncTopics(e) PROVE SyncOwn'
  <2>1. pc[e] = "sync" /\ pc' = [pc EXCEPT ![e] = "range"] /\
        \E left : sync' = [sync EXCEPT ![e] =
             [link |-> clusters[NodeOf(e)][PeerOf(e)], found |-> {}, left |-> left]]
    BY <1>5 DEF SyncTopics, At, Goto
  <2>2. clusters[NodeOf(e)][PeerOf(e)] = e
    BY <2>1 DEF RunningIsEntered, Running
  <2> QED
    BY <2>1, <2>2 DEF TInv, IInv, LinksTyped, MoreTyped, SyncOwn
<1>6. ASSUME NEW e \in Ends, NEW t \in Topics, RangeTopics(e, t) \/ WriteTopic(e, t) PROVE SyncOwn'
  <2>1. /\ sync'[e].link = sync[e].link /\ sync'[e].found \subseteq {t}
        /\ \A g \in Ends : g # e => sync'[g] = sync[g]
    <3>1. CASE RangeTopics(e, t)
      BY <3>1 DEF RangeTopics, MoreTyped
    <3>2. CASE WriteTopic(e, t)
      BY <3>2 DEF WriteTopic, MoreTyped
    <3> QED
      BY <1>6, <3>1, <3>2
  <2>2. UNCHANGED pc
    BY <1>6 DEF RangeTopics, WriteTopic
  <2> QED
    BY <2>1, <2>2 DEF MoreTyped, SyncOwn
<1>7. CASE (\E n \in Nodes, c \in Clients : ClientStep(n, c)) \/ (\E l \in Links : CutLink(l)) \/ UNCHANGED vars
  <2>1. UNCHANGED <<sync, pc>>
    BY <1>7, ClientStepLeaves DEF CutLink, linkVars, vars
  <2> QED
    BY <1>1, <2>1
<1> QED
  BY <1>2, <1>3, <1>4, <1>5, <1>6, <1>7, NextSteps DEF Elsewhere

-----------------------------------------------------------------------------
(* How what is on the way to an end changes                                *)

Takes(f) == AcceptConnect(f) \/ ProcessSubscribe(f) \/ ProcessUnsubscribe(f) \/ ProcessRetain(f)

Sends(e, p) ==
  \/ pc[e] = "connect" /\ pc'[e] = "replace" /\ p = [kind |-> "connect"]
  \/ /\ pc[e] \notin Early /\ p \in Told
     /\ p.kind = "unsubscribe" => Forwards(NodeOf(e), "unsubscribe", p.topic)

\* What is on the way to the other end of e.
InboxChange(e) ==
  LET f == OtherEnd(e) IN
  \/ inbox'[f] = inbox[f]
  \/ inbox'[f] = <<>> /\ closed'[f]
  \/ Takes(f) /\ inbox[f] # <<>> /\ inbox'[f] = Tail(inbox[f])
  \/ \E p \in Message : Up(e) /\ Sends(e, p) /\ inbox'[f] = Append(inbox[f], p)

LEMMA WriteToOne ==
  ASSUME NEW boxes \in [Ends -> Seq(Message)], NEW e \in Ends, NEW packets \in Seq(Message)
  PROVE  /\ Up(e) => WriteTo(boxes, e, packets)[OtherEnd(e)] = boxes[OtherEnd(e)] \o packets
         /\ ~ Up(e) => WriteTo(boxes, e, packets) = boxes
         /\ \A g \in Ends : g # OtherEnd(e) => WriteTo(boxes, e, packets)[g] = boxes[g]
  BY OtherSide, NoEndAssumption DEF WriteTo

\* What an end writes, the other end gets.
LEMMA OneWritten ==
  ASSUME DataTyped, NEW e \in Ends, NEW g \in Ends, NEW p \in Message,
         inbox' = WriteTo(inbox, g, <<p>>)
  PROVE  \/ inbox'[OtherEnd(e)] = inbox[OtherEnd(e)]
         \/ g = e /\ Up(e) /\ inbox'[OtherEnd(e)] = Append(inbox[OtherEnd(e)], p)
<1>1. <<p>> \in Seq(Message) /\ inbox \in [Ends -> Seq(Message)] /\ OtherEnd(e) \in Ends
  BY OtherSide DEF DataTyped
<1>2. CASE g # e
  <2>1. OtherEnd(e) # OtherEnd(g)
    BY <1>2, OtherOther
  <2> QED
    BY <1>1, <2>1, WriteToOne
<1>3. CASE g = e /\ Up(e)
  <2>1. inbox'[OtherEnd(e)] = inbox[OtherEnd(e)] \o <<p>>
    BY <1>1, <1>3, WriteToOne
  <2>2. inbox[OtherEnd(e)] \o <<p>> = Append(inbox[OtherEnd(e)], p)
    BY <1>1
  <2> QED
    BY <1>3, <2>1, <2>2
<1>4. CASE g = e /\ ~ Up(e)
  BY <1>1, <1>4, WriteToOne
<1> QED
  BY <1>2, <1>3, <1>4

LEMMA EndInboxChange ==
  ASSUME TInv, MoreTyped, SyncOwn, NEW e \in Ends, NEW g \in Ends, EndStep(g)
  PROVE  InboxChange(e)
<1> DEFINE f == OtherEnd(e)
<1>0. f \in Ends /\ f # e /\ inbox \in [Ends -> Seq(Message)] /\ OtherEnd(f) = e
      /\ closed \in [Ends -> BOOLEAN]
  BY OtherSide, OtherOther DEF TInv, IInv, LinksTyped, DataTyped
<1> USE DEF InboxChange
<1>1. CASE UNCHANGED inbox
  BY <1>1
<1>2. CASE AcceptError(g) \/ StoreLink(g) \/ SyncTopics(g) \/ EndSync(g) \/ Loop(g)
           \/ ReadError(g) \/ \E t \in Topics : RangeTopics(g, t) \/ CleanTopic(g, t)
  <2>1. UNCHANGED inbox
    BY <1>2 DEF AcceptError, StoreLink, SyncTopics, EndSync, Loop, ReadError, RangeTopics, CleanTopic
  <2> QED
    BY <2>1
<1>3. CASE WriteConnect(g)
  <2>1. [kind |-> "connect"] \in Message /\ pc[g] = "connect"
        /\ inbox' = WriteTo(inbox, g, <<[kind |-> "connect"]>>)
    BY <1>3 DEF WriteConnect, At, Message
  <2>2. Up(g) => pc'[g] = "replace"
    BY <1>3 DEF WriteConnect, Goto, TInv, IInv, LinksTyped
  <2> QED
    BY <2>1, <2>2, OneWritten DEF Sends, TInv
<1>4. ASSUME AcceptConnect(g) \/ ProcessUnsubscribe(g) \/ ProcessRetain(g) PROVE InboxChange(e)
  <2>1. inbox' = [inbox EXCEPT ![g] = Tail(@)] /\ inbox[g] # <<>>
    BY <1>4 DEF AcceptConnect, ProcessUnsubscribe, ProcessRetain, Reads
  <2> QED
    BY <1>0, <1>4, <2>1 DEF Takes
<1>5. CASE ReplaceOld(g)
  BY <1>0, <1>5 DEF ReplaceOld
<1>6. CASE DeleteLink(g)
  BY <1>0, <1>6 DEF DeleteLink
<1>7. ASSUME NEW t \in Topics, WriteTopic(g, t) PROVE InboxChange(e)
  <2>1. pc[g] = "range" /\ sync[g].link = g /\ inbox' = WriteTo(inbox, g, <<Packet("subscribe", t)>>)
    BY <1>7 DEF WriteTopic, At, SyncOwn
  <2>2. Packet("subscribe", t) \in Told /\ Packet("subscribe", t) \in Message
        /\ Packet("subscribe", t).kind # "unsubscribe"
    BY PacketTyped DEF Packet, Message
  <2> QED
    BY <2>1, <2>2, OneWritten DEF Sends, Early, TInv
<1>8. CASE ProcessSubscribe(g)
  <2> DEFINE boxes == [inbox EXCEPT ![g] = Tail(@)]
             t == Head(inbox[g]).topic
             answer == IF t \in retained[NodeOf(g)] THEN <<Packet("retain", t)>> ELSE <<>>
  <2>1. inbox[g] # <<>> /\ Head(inbox[g]).kind # "connect" /\ pc[g] = "read"
    BY <1>8 DEF ProcessSubscribe, Reads, At
  <2>2. t \in Topics /\ Tail(inbox[g]) \in Seq(Message)
    BY <2>1, HeadTyped DEF TInv
  <2>3. boxes \in [Ends -> Seq(Message)]
    BY <1>0, <2>2
  <2>4. Packet("retain", t) \in Told /\ Packet("retain", t) \in Message
        /\ Packet("retain", t).kind # "unsubscribe"
    BY <2>2, PacketTyped DEF Packet, Message
  <2>5. <<Packet("retain", t)>> \in Seq(Message) /\ <<>> \in Seq(Message)
    BY <2>4
  <2>6. answer \in {<<>>, <<Packet("retain", t)>>}
    OBVIOUS
  <2>7. answer \in Seq(Message)
    BY <2>5, <2>6
  <2>8. inbox' = WriteTo(boxes, g, answer)
    BY <1>8 DEF ProcessSubscribe
  <2>9. /\ Up(g) => inbox'[OtherEnd(g)] = boxes[OtherEnd(g)] \o answer
        /\ ~ Up(g) => inbox' = boxes
        /\ \A k \in Ends : k # OtherEnd(g) => inbox'[k] = boxes[k]
    <3> HIDE DEF boxes, answer
    <3> QED
      BY <2>3, <2>8, <2>7, WriteToOne
  <2>10. CASE g = f
    <3>1. inbox'[f] = boxes[f]
      BY <1>0, <2>9, <2>10
    <3>2. boxes[f] = Tail(inbox[f])
      BY <1>0, <2>10
    <3> QED
      BY <1>8, <2>1, <2>10, <3>1, <3>2 DEF Takes
  <2>11. CASE g = e
    <3>1. boxes[f] = inbox[f]
      BY <1>0, <2>11
    <3>2. CASE Up(e)
      <4>1. inbox'[f] = inbox[f] \o answer
        BY <2>11, <2>9, <3>1, <3>2
      <4>2. CASE answer = <<>>
        BY <1>0, <4>1, <4>2
      <4>3. CASE answer = <<Packet("retain", t)>>
        <5>1. inbox'[f] = Append(inbox[f], Packet("retain", t))
          BY <1>0, <4>1, <4>3, <2>4
        <5> QED
          BY <2>1, <2>4, <2>11, <3>2, <5>1 DEF Sends, Early
      <4> QED
        BY <2>6, <4>2, <4>3
    <3>3. CASE ~ Up(e)
      BY <2>11, <2>9, <3>1, <3>3
    <3> QED
      BY <3>2, <3>3
  <2>12. CASE g # e /\ g # f
    <3>1. f # OtherEnd(g)
      BY <2>12, <1>0, OtherOther
    <3>2. inbox'[f] = boxes[f]
      BY <1>0, <2>9, <3>1
    <3>3. boxes[f] = inbox[f]
      BY <1>0, <2>12
    <3> QED
      BY <3>2, <3>3
  <2> QED
    BY <2>10, <2>11, <2>12
<1> QED
  BY <1>2, <1>3, <1>4, <1>5, <1>6, <1>7, <1>8 DEF EndStep

LEMMA NextInboxChange ==
  ASSUME TInv, MoreTyped, SyncOwn, [Next]_vars, NEW e \in Ends
  PROVE  InboxChange(e)
<1> DEFINE f == OtherEnd(e)
<1>0. f \in Ends /\ f # e /\ inbox \in [Ends -> Seq(Message)] /\ OtherEnd(f) = e
  BY OtherSide, OtherOther DEF TInv, DataTyped
<1>1. CASE UNCHANGED inbox
  BY <1>1 DEF InboxChange
<1>2. ASSUME NEW n \in Nodes, NEW c \in Clients, Forward(n, c) PROVE InboxChange(e)
  <2> DEFINE p == task[n][c].packet
  <2>1. task[n][c].do = "forward" /\ task[n][c] \in Work
    BY <1>2 DEF Forward, TInv, DataTyped
  <2>2. p \in Told /\ p \in Message /\ task[n][c] = [do |-> "forward", packet |-> p]
    BY <2>1 DEF Work, NoTask, Message
  <2>3. p = Packet(p.kind, p.topic)
    BY <2>2 DEF Told, Packet
  <2>4. p.kind = "unsubscribe" => Forwards(n, "unsubscribe", p.topic)
    BY <2>2, <2>3 DEF Forwards
  <2>5. inbox'[f] = IF e \in {clusters[n][m] : m \in Nodes} \ {NoEnd} /\ Up(f)
                    THEN Append(inbox[f], p) ELSE inbox[f]
    BY <1>0, <1>2 DEF Forward
  <2>6. CASE e \in {clusters[n][m] : m \in Nodes} \ {NoEnd} /\ Up(f)
    <3>1. NodeOf(e) = n /\ pc[e] \notin Early
      BY <2>6 DEF TInv, IInv, EntryIsPlaced
    <3>2. Up(e)
      BY <2>6, OtherNodes
    <3> QED
      BY <2>2, <2>4, <2>5, <2>6, <3>1, <3>2 DEF InboxChange, Sends
  <2> QED
    BY <2>5, <2>6 DEF InboxChange
<1>3. ASSUME NEW n \in Nodes, NEW c \in Clients, NEW t \in Topics, ClientPublishRetain(n, c, t)
      PROVE  InboxChange(e)
  <2> DEFINE p == Packet("retain", t)
             told == {remote[n][<<t, m>>] : m \in Nodes} \ {NoEnd}
  <2>1. p \in Told /\ p \in Message /\ p.kind # "unsubscribe"
    BY PacketTyped DEF Packet, Message
  <2>2. inbox'[f] = IF e \in told /\ Up(f) THEN Append(inbox[f], p) ELSE inbox[f]
    BY <1>0, <1>3 DEF ClientPublishRetain
  <2>3. CASE e \in told /\ Up(f)
    <3>1. pc[e] \notin Early
      BY <2>3 DEF TInv, RecordIsPlaced
    <3>2. Up(e)
      BY <2>3, OtherNodes
    <3> QED
      BY <2>1, <2>2, <2>3, <3>1, <3>2 DEF InboxChange, Sends
  <2> QED
    BY <2>2, <2>3 DEF InboxChange
<1>4. ASSUME NEW n \in Nodes, NEW c \in Clients, ClientStep(n, c) PROVE InboxChange(e)
  <2>1. \/ UNCHANGED inbox \/ Forward(n, c)
        \/ \E t \in Topics : ClientPublishRetain(n, c, t)
    BY <1>4 DEF ClientStep, ClientSubscribe, ClientUnsubscribe, ClientGone, KeepRetain, linkVars
  <2> QED
    BY <1>1, <1>2, <1>3, <2>1
<1>5. CASE (\E n, m \in Nodes, l \in Links : Dial(n, m, l)) \/ (\E l \in Links : CutLink(l)) \/ UNCHANGED vars
  <2>1. UNCHANGED inbox
    BY <1>5 DEF Dial, CutLink, vars, linkVars
  <2> QED
    BY <1>1, <2>1
<1> QED
  BY <1>4, <1>5, EndInboxChange DEF Next

\* An end starts when its link is dialed, and goes on by steps of its own.
LEMMA NextGoes ==
  ASSUME TInv, [Next]_vars, NEW e \in Ends
  PROVE  \/ pc'[e] = pc[e]
         \/ pc[e] = "unused" /\ \E n, m \in Nodes, l \in Links : Dial(n, m, l)
         \/ <<pc[e], pc'[e]>> \in Moves /\ EndStep(e)
<1>1. CASE UNCHANGED pc
  BY <1>1
<1>2. ASSUME NEW n \in Nodes, NEW m \in Nodes, NEW l \in Links, Dial(n, m, l)
      PROVE  pc'[e] = pc[e] \/ pc[e] = "unused"
  <2>1. /\ route[l] = NoRoute
        /\ pc' = [pc EXCEPT ![<<l, "dialed">>] = "connect", ![<<l, "accepted">>] = "accept"]
    BY <1>2 DEF Dial
  <2> QED
    BY <2>1 DEF TInv, IInv, LinksTyped, UsedIsRouted
<1>3. ASSUME NEW g \in Ends, ReplaceOld(g) \/ StoreLink(g) \/ DeleteLink(g) \/ EndMoves(g)
      PROVE  pc'[e] = pc[e] \/ (<<pc[e], pc'[e]>> \in Moves /\ EndStep(e))
  <2>1. PICK label : Goto(g, label) /\ <<pc[g], label>> \in Moves
    BY <1>3, EndGoes
  <2>2. EndStep(g)
    BY <1>3 DEF EndStep, EndMoves
  <2>3. CASE g = e
    <3>1. pc'[e] = label
      BY <2>1, <2>3 DEF Goto, TInv, IInv, LinksTyped
    <3> QED
      BY <2>1, <2>2, <2>3, <3>1
  <2>4. CASE g # e
    BY <2>1, <2>4 DEF Goto, TInv, IInv, LinksTyped
  <2> QED
    BY <2>3, <2>4
<1>4. CASE Elsewhere
  BY <1>1, <1>4, ElsewhereLeaves
<1> QED
  BY <1>2, <1>3, <1>4, NextSteps

\* An end that waits for CONNECT takes nothing and keeps waiting.
LEMMA TakesMoves ==
  ASSUME TInv, NEW e \in Ends, Takes(e)
  PROVE  \/ pc[e] = "accept" /\ pc'[e] = "replace" /\ AcceptConnect(e)
         \/ pc[e] = "read"
  BY DEF Takes, AcceptConnect, ProcessSubscribe, ProcessUnsubscribe, ProcessRetain, Reads, At, Goto,
    TInv, IInv, LinksTyped

LEMMA NextSilent ==
  ASSUME TInv, MoreTyped, OverIsDown, SyncOwn, Silent, [Next]_vars
  PROVE  Silent'
<1> SUFFICES ASSUME NEW e \in Ends
             PROVE  /\ pc'[e] \in {"unused", "connect", "accept"} => inbox'[OtherEnd(e)] = <<>>
                    /\ pc'[e] = "accept" /\ inbox'[e] # <<>> => Head(inbox'[e]).kind = "connect"
                    /\ pc'[e] = "accept" /\ pc'[OtherEnd(e)] \notin {"unused", "connect", "accept", "ended"}
                         => inbox'[e] # <<>>
  BY DEF Silent
<1> DEFINE f == OtherEnd(e)
<1>0. f \in Ends /\ f # e /\ OtherEnd(f) = e /\ inbox[e] \in Seq(Message) /\ f[1] = e[1]
  BY OtherSide, OtherOther DEF TInv, DataTyped
<1>8. InboxChange(e) /\ InboxChange(f) /\ TInv'
  BY <1>0, NextInboxChange, NextTInv
<1>1. ASSUME NEW n \in Nodes, NEW m \in Nodes, NEW l \in Links, Dial(n, m, l), e[1] = l
      PROVE  pc[e] = "unused" /\ inbox'[e] = <<>> /\ inbox'[f] = <<>> /\ pc'[f] \in {"connect", "accept"}
  <2>1. /\ route[l] = NoRoute /\ inbox' = inbox
        /\ pc' = [pc EXCEPT ![<<l, "dialed">>] = "connect", ![<<l, "accepted">>] = "accept"]
    BY <1>1 DEF Dial
  <2>2. pc[e] = "unused" /\ pc[f] = "unused"
    BY <1>0, <1>1, <2>1 DEF TInv, IInv, UsedIsRouted
  <2>3. f = <<l, "dialed">> \/ f = <<l, "accepted">>
    BY <1>0, <1>1 DEF Ends, Sides
  <2> QED
    BY <1>0, <2>1, <2>2, <2>3 DEF TInv, IInv, LinksTyped, Silent
<1>2. ASSUME NEW n \in Nodes, NEW m \in Nodes, NEW l \in Links, Dial(n, m, l), e[1] # l
      PROVE  pc'[e] = pc[e]
  <2>1. pc' = [pc EXCEPT ![<<l, "dialed">>] = "connect", ![<<l, "accepted">>] = "accept"]
    BY <1>2 DEF Dial
  <2> QED
    BY <1>2, <2>1 DEF TInv, IInv, LinksTyped
<1>3. pc'[e] \in {"connect", "accept"} =>
        \/ pc'[e] = pc[e]
        \/ pc[e] = "unused" /\ inbox'[e] = <<>> /\ inbox'[f] = <<>> /\ pc'[f] \in {"connect", "accept"}
  BY <1>1, <1>2, NextGoes DEF Moves
<1>4. pc'[e] = "unused" => pc[e] = "unused"
  BY NextUsedStay DEF UsedStay
<1>5. ASSUME pc'[e] = pc[e], pc[e] \in {"unused", "connect", "accept"} PROVE inbox'[f] = <<>>
  <2>1. inbox[f] = <<>>
    BY <1>5 DEF Silent
  <2>2. \A p : ~ Sends(e, p)
    BY <1>5 DEF Sends, Early
  <2> QED
    BY <1>8, <2>1, <2>2 DEF InboxChange
<1>6. ASSUME pc'[e] = pc[e], pc[e] = "accept", inbox'[e] # <<>> PROVE Head(inbox'[e]).kind = "connect"
  <2>1. ~ Takes(e)
    BY <1>6, TakesMoves
  <2>2. CASE inbox'[e] = inbox[e]
    BY <1>6, <2>2 DEF Silent
  <2>3. ASSUME NEW p \in Message, Up(f), Sends(f, p), inbox'[e] = Append(inbox[e], p)
        PROVE  Head(inbox'[e]).kind = "connect"
    <3>1. CASE inbox[e] = <<>>
      <4>1. p = [kind |-> "connect"]
        <5>1. ASSUME pc[f] \notin Early PROVE FALSE
          <6>1. pc[f] # "ended"
            BY <1>0, <2>3 DEF OverIsDown
          <6> QED
            BY <1>6, <3>1, <5>1, <6>1 DEF Silent, Early
        <5> QED
          BY <2>3, <5>1 DEF Sends
      <4>2. Head(inbox'[e]) = p
        BY <1>0, <2>3, <3>1
      <4> QED
        BY <4>1, <4>2
    <3>2. CASE inbox[e] # <<>>
      <4>1. Head(inbox'[e]) = Head(inbox[e])
        BY <1>0, <2>3, <3>2
      <4> QED
        BY <1>6, <3>2, <4>1 DEF Silent
    <3> QED
      BY <3>1, <3>2
  <2> QED
    BY <1>0, <1>8, <1>6, <2>1, <2>2, <2>3 DEF InboxChange
<1>7. ASSUME pc'[e] = pc[e], pc[e] = "accept", pc'[f] \notin {"unused", "connect", "accept", "ended"}
      PROVE  inbox'[e] # <<>>
  <2>1. CASE pc[f] \notin {"unused", "connect", "accept", "ended"}
    <3>1. inbox[e] # <<>>
      BY <1>7, <2>1 DEF Silent
    <3>2. ~ Takes(e)
      BY <1>7, TakesMoves
    <3>3. ~ closed'[e]
      BY <1>8, <1>7 DEF TInv, IInv, ClosedIsLate, Early
    <3>4. \A p \in Message : Append(inbox[e], p) # <<>>
      BY <1>0
    <3> QED
      BY <1>0, <1>8, <3>1, <3>2, <3>3, <3>4 DEF InboxChange
  <2>2. CASE pc[f] \in {"unused", "connect", "accept", "ended"}
    <3>1. EndStep(f) /\ <<pc[f], pc'[f]>> \in Moves
      <4>1. ~ (pc[f] = "unused" /\ \E n, m \in Nodes, l \in Links : Dial(n, m, l))
        <5> SUFFICES ASSUME NEW n \in Nodes, NEW m \in Nodes, NEW l \in Links, Dial(n, m, l), pc[f] = "unused"
                     PROVE  FALSE
          OBVIOUS
        <5>1. pc[e] # "unused"
          BY <1>7
        <5>2. f[1] # l
          BY <1>0, <1>1, <5>1
        <5> QED
          BY <1>0, <1>7, <2>2, <5>2 DEF Dial, TInv, IInv, LinksTyped
      <4> QED
        BY <1>0, <1>7, <2>2, <4>1, NextGoes
    <3>2. (WriteConnect(f) /\ Up(f)) \/ AcceptConnect(f)
      <4>1. pc[f] \in {"connect", "accept"} /\ pc'[f] = "replace"
        BY <1>7, <2>2, <3>1 DEF Moves
      <4>2. WriteConnect(f) \/ AcceptConnect(f) \/ AcceptError(f)
        BY <3>1, <4>1 DEF EndStep, ReplaceOld, StoreLink, SyncTopics, EndSync, RangeTopics, WriteTopic,
           Loop, ReadError, ProcessSubscribe, ProcessUnsubscribe, ProcessRetain, DeleteLink, CleanTopic,
           Reads, At
      <4> QED
        BY <1>0, <4>1, <4>2 DEF WriteConnect, AcceptError, Goto, TInv, IInv, LinksTyped
    <3>3. CASE WriteConnect(f) /\ Up(f)
      <4>1. <<[kind |-> "connect"]>> \in Seq(Message)
        BY DEF Message
      <4>2. inbox'[e] = inbox[e] \o <<[kind |-> "connect"]>>
        <5>1. inbox' = WriteTo(inbox, f, <<[kind |-> "connect"]>>) /\ inbox \in [Ends -> Seq(Message)]
          BY <3>3 DEF WriteConnect, TInv, DataTyped
        <5> DEFINE hello == <<[kind |-> "connect"]>>
        <5>2. Up(f) => WriteTo(inbox, f, hello)[OtherEnd(f)] = inbox[OtherEnd(f)] \o hello
          <6>1. hello \in Seq(Message)
            BY <4>1
          <6> HIDE DEF hello
          <6> QED
            BY <1>0, <5>1, <6>1, WriteToOne
        <5> QED
          BY <1>0, <3>3, <5>1, <5>2
      <4> QED
        BY <1>0, <4>1, <4>2
    <3>4. CASE AcceptConnect(f)
      BY <1>7, <3>4 DEF AcceptConnect, Silent
    <3> QED
      BY <3>2, <3>3, <3>4
  <2> QED
    BY <2>1, <2>2
<1> QED
  BY <1>3, <1>4, <1>5, <1>6, <1>7

-----------------------------------------------------------------------------
(* What is known stays known                                               *)

\* The first packet on the way to an end.
LEMMA HeadIs ==
  ASSUME TInv, NEW f \in Ends, inbox[f] # <<>>, Head(inbox[f]).kind # "connect"
  PROVE  /\ Head(inbox[f]) = Packet(Head(inbox[f]).kind, Head(inbox[f]).topic)
         /\ 1 \in DOMAIN inbox[f] /\ inbox[f][1] = Head(inbox[f])
<1>1. inbox[f] \in Seq(Message)
  BY DEF TInv, DataTyped
<1>2. Head(inbox[f]) \in Message /\ 1 \in DOMAIN inbox[f] /\ inbox[f][1] = Head(inbox[f])
  BY <1>1
<1>3. Head(inbox[f]) \in Told
  BY <1>2 DEF Message
<1> QED
  BY <1>2, <1>3 DEF Told, Packet

\* The record of a link that is up stays, until its own end reads UNSUBSCRIBE.
LEMMA RecordStays ==
  ASSUME TInv, Distinct, Successive, OverIsDown, [Next]_vars,
         NEW f \in Ends, NEW t \in Topics, Up(f), NodeOf(f) \in Nodes, PeerOf(f) \in Nodes,
         remote[NodeOf(f)][<<t, PeerOf(f)>>] = f, NoneAfter(f, t, 0)
  PROVE  remote'[NodeOf(f)][<<t, PeerOf(f)>>] = f
<1> DEFINE n == NodeOf(f)
           m == PeerOf(f)
<1>1. f # NoEnd /\ pc[f] \notin Early /\ pc[f] \notin {"clean", "ended"}
  BY NoEndAssumption DEF TInv, RecordIsPlaced, OverIsDown
<1>2. ASSUME NEW g \in Ends, g # f, NodeOf(g) = n, PeerOf(g) = m
      PROVE  pc[g] \in {"unused", "ended"}
  BY <1>1, <1>2, OnlyOne DEF Early
<1>3. ASSUME NEW g \in Ends, pc[g] \notin {"unused", "ended"}, NEW k, NEW r,
             remote' = [remote EXCEPT ![NodeOf(g)][<<k, PeerOf(g)>>] = r], g # f
      PROVE  remote'[n][<<t, m>>] = f
  <2>1. NodeOf(g) # n \/ PeerOf(g) # m
    BY <1>2, <1>3
  <2>2. <<t, m>> \in Topics \X Nodes /\ remote \in [Nodes -> [Topics \X Nodes -> Ends \cup {NoEnd}]]
    BY DEF TInv, DataTyped
  <2>3. NodeOf(g) # n \/ <<k, PeerOf(g)>> # <<t, m>>
    BY <2>1
  <2> HIDE DEF n, m
  <2> QED
    BY <1>3, <2>2, <2>3 DEF n, m
<1>4. ASSUME NEW g \in Ends, ProcessSubscribe(g) PROVE remote'[n][<<t, m>>] = f
  <2>1. pc[g] = "read" /\ remote' = [remote EXCEPT ![NodeOf(g)][<<Head(inbox[g]).topic, PeerOf(g)>>] = g]
    BY <1>4 DEF ProcessSubscribe, Reads, At
  <2>2. CASE g = f
    BY <2>1, <2>2 DEF TInv, DataTyped
  <2> QED
    BY <1>3, <2>1, <2>2
<1>5. ASSUME NEW g \in Ends, ProcessUnsubscribe(g) PROVE remote'[n][<<t, m>>] = f
  <2> DEFINE k == Head(inbox[g]).topic
  <2>1. pc[g] = "read" /\ remote' = [remote EXCEPT ![NodeOf(g)][<<k, PeerOf(g)>>] = NoEnd]
    BY <1>5 DEF ProcessUnsubscribe, Reads, At
  <2>2. CASE g = f
    <3>1. inbox[f] # <<>> /\ Head(inbox[f]).kind = "unsubscribe"
      BY <1>5, <2>2 DEF ProcessUnsubscribe, Reads
    <3>2. inbox[f][1] = Packet("unsubscribe", k) /\ 1 \in DOMAIN inbox[f]
      BY <2>2, <3>1, HeadIs
    <3>3. k # t
      BY <3>2 DEF NoneAfter
    <3>4. <<k, PeerOf(g)>> # <<t, m>>
      BY <3>3
    <3> HIDE DEF k
    <3> QED
      BY <2>1, <2>2, <3>4 DEF TInv, DataTyped
  <2> QED
    BY <1>3, <2>1, <2>2
<1>6. ASSUME NEW g \in Ends, NEW k \in Topics, CleanTopic(g, k) PROVE remote'[n][<<t, m>>] = f
  <2>1. pc[g] = "clean" /\ remote' = [remote EXCEPT ![NodeOf(g)][<<k, PeerOf(g)>>] = NoEnd]
    BY <1>6 DEF CleanTopic, At
  <2> QED
    BY <1>1, <1>3, <2>1
<1> QED
  BY <1>4, <1>5, <1>6, RecordSteps

\* What is known, or on its way, is not forgotten before the node has no
\* subscriber left.
LEMMA KnowsStays ==
  ASSUME TInv, MoreTyped, Distinct, Successive, OverIsDown, SyncOwn, Silent, [Next]_vars,
         NEW e \in Ends, NEW t \in Topics, pc[e] # "unused", Up(e)',
         ~ Forwards(NodeOf(e), "unsubscribe", t), Knows(OtherEnd(e), t)
  PROVE  Knows(OtherEnd(e), t)'
<1> DEFINE f == OtherEnd(e)
           s == inbox[f]
           un == Packet("unsubscribe", t)
<1>1. f \in Ends /\ NodeOf(f) = PeerOf(e) /\ PeerOf(f) = NodeOf(e) /\ OtherEnd(f) = e
      /\ NodeOf(e) \in Nodes /\ PeerOf(e) \in Nodes
  BY OtherSide, OtherNodes, OtherOther, RoutedEnds DEF TInv, IInv
<1>2. Up(e) /\ Up(f)
  BY NextDown, OtherNodes
<1>3. NodeOf(f)' = NodeOf(f) /\ PeerOf(f)' = PeerOf(f)
  <2>1. NodeOf(e)' = NodeOf(e) /\ PeerOf(e)' = PeerOf(e)
    BY NextUsedStay DEF UsedStay
  <2>2. (NodeOf(OtherEnd(e)) = PeerOf(e) /\ PeerOf(OtherEnd(e)) = NodeOf(e))'
    BY <1>1 DEF PeerOf, NodeOf, OtherEnd
  <2> QED
    BY <1>1, <2>1, <2>2
<1>4. InboxChange(e) /\ ~ closed'[f]
  BY <1>1, NextInboxChange DEF Up
<1>5. s \in Seq(Message) /\ inbox'[f] \in Seq(Message)
  BY <1>1, NextTInv DEF TInv, DataTyped
<1>6. \A p : Sends(e, p) => p # un
  <2> SUFFICES ASSUME Sends(e, un) PROVE FALSE
    OBVIOUS
  <2>1. un.kind = "unsubscribe" /\ un.topic = t
    BY DEF Packet
  <2> QED
    BY <2>1 DEF Sends
<1>7. ASSUME NEW i \in Nat, NoneAfter(f, t, i), inbox'[f] = s PROVE NoneAfter(f, t, i)'
  BY <1>7 DEF NoneAfter
<1>8. ASSUME NEW i \in Nat, NoneAfter(f, t, i), NEW p \in Message, Sends(e, p), inbox'[f] = Append(s, p)
      PROVE  NoneAfter(f, t, i)' /\ \A j \in DOMAIN s : j \in DOMAIN inbox'[f] /\ inbox'[f][j] = s[j]
  <2>1. p # un
    BY <1>6, <1>8
  <2>2. /\ DOMAIN inbox'[f] = 1..(Len(s) + 1) /\ DOMAIN s = 1..Len(s) /\ Len(s) \in Nat
        /\ \A j \in 1..Len(s) : inbox'[f][j] = s[j]
        /\ inbox'[f][Len(s) + 1] = p
    BY <1>5, <1>8
  <2> HIDE DEF s, un
  <2>3. \A j \in DOMAIN s : j > i => s[j] # un
    BY <1>8 DEF NoneAfter, s, un
  <2>4. \A j \in DOMAIN inbox'[f] : j > i => inbox'[f][j] # un
    <3> SUFFICES ASSUME NEW j \in DOMAIN inbox'[f], j > i PROVE inbox'[f][j] # un
      OBVIOUS
    <3>1. j \in DOMAIN s \/ j = Len(s) + 1
      BY <2>2
    <3> QED
      BY <2>1, <2>2, <2>3, <3>1
  <2> QED
    BY <2>2, <2>4 DEF NoneAfter, un
<1>9. ASSUME NEW i \in Nat, NEW k \in Nat, NoneAfter(f, t, i), s # <<>>, inbox'[f] = Tail(s), i <= k + 1
      PROVE  /\ NoneAfter(f, t, k)'
             /\ \A j \in DOMAIN s : j > 1 => j - 1 \in DOMAIN inbox'[f] /\ inbox'[f][j - 1] = s[j]
  <2>1. /\ DOMAIN inbox'[f] = 1..(Len(s) - 1) /\ DOMAIN s = 1..Len(s) /\ Len(s) \in Nat
        /\ \A j \in 1..(Len(s) - 1) : inbox'[f][j] = s[j + 1]
    BY <1>5, <1>9
  <2> HIDE DEF s, un
  <2>2. \A j \in DOMAIN s : j > i => s[j] # un
    BY <1>9 DEF NoneAfter, s, un
  <2>3. \A j \in DOMAIN inbox'[f] : j > k => inbox'[f][j] # un
    <3> SUFFICES ASSUME NEW j \in DOMAIN inbox'[f], j > k PROVE inbox'[f][j] # un
      OBVIOUS
    <3>1. j + 1 \in DOMAIN s /\ j + 1 > i /\ inbox'[f][j] = s[j + 1]
      BY <1>9, <2>1
    <3> QED
      BY <2>2, <3>1
  <2> QED
    BY <2>1, <2>3 DEF NoneAfter, un
<1>10. ASSUME remote[NodeOf(f)][<<t, PeerOf(f)>>] = f, NoneAfter(f, t, 0) PROVE Knows(f, t)'
  <2>1. remote'[NodeOf(f)][<<t, PeerOf(f)>>] = f
    BY <1>1, <1>2, <1>10, RecordStays
  <2>2. NoneAfter(f, t, 0)'
    <3>1. ASSUME NEW p \in Message, Sends(e, p), inbox'[f] = Append(s, p) PROVE NoneAfter(f, t, 0)'
      BY <1>8, <1>10, <3>1
    <3>2. ASSUME inbox'[f] = Tail(s), s # <<>> PROVE NoneAfter(f, t, 0)'
      BY <1>9, <1>10, <3>2
    <3> QED
      BY <1>4, <1>7, <1>10, <3>1, <3>2 DEF InboxChange
  <2> QED
    BY <1>3, <2>1, <2>2 DEF Knows
<1>11. ASSUME NEW i \in DOMAIN s, s[i] = Packet("subscribe", t), NoneAfter(f, t, i) PROVE Knows(f, t)'
  <2>0. i \in Nat /\ i > 0 /\ i <= Len(s)
    BY <1>5
  <2>1. CASE inbox'[f] = s
    BY <1>7, <1>11, <2>0, <2>1 DEF Knows
  <2>2. ASSUME NEW p \in Message, Sends(e, p), inbox'[f] = Append(s, p) PROVE Knows(f, t)'
    <3>1. NoneAfter(f, t, i)' /\ i \in DOMAIN inbox'[f] /\ inbox'[f][i] = s[i]
      BY <1>8, <1>11, <2>0, <2>2
    <3> QED
      BY <1>11, <3>1 DEF Knows, Packet
  <2>3. ASSUME inbox'[f] = Tail(s), s # <<>>, i > 1 PROVE Knows(f, t)'
    <3>1. i - 1 \in Nat /\ i <= (i - 1) + 1
      BY <2>0, <2>3
    <3>2. NoneAfter(f, t, i - 1)' /\ i - 1 \in DOMAIN inbox'[f] /\ inbox'[f][i - 1] = s[i]
      BY <1>9, <1>11, <2>0, <2>3, <3>1
    <3> QED
      BY <1>11, <3>2 DEF Knows, Packet
  <2>4. ASSUME inbox'[f] = Tail(s), s # <<>>, i = 1, Takes(f) PROVE Knows(f, t)'
    <3>1. Head(s) = Packet("subscribe", t)
      BY <1>5, <1>11, <2>4
    <3>2. Head(s).kind = "subscribe" /\ Head(s).topic = t
      BY <3>1 DEF Packet
    <3>3. ~ AcceptConnect(f)
      BY <1>1, <2>4, <3>2 DEF AcceptConnect, At, Silent
    <3>4. ProcessSubscribe(f)
      BY <2>4, <3>2, <3>3 DEF Takes, ProcessUnsubscribe, ProcessRetain, Reads
    <3>5. remote'[NodeOf(f)][<<t, PeerOf(f)>>] = f
      BY <1>1, <3>2, <3>4 DEF ProcessSubscribe, TInv, DataTyped
    <3>6. NoneAfter(f, t, 0)'
      BY <1>9, <1>11, <2>4
    <3> QED
      BY <1>3, <3>5, <3>6 DEF Knows
  <2> QED
    BY <1>4, <2>0, <2>1, <2>2, <2>3, <2>4 DEF InboxChange
<1> QED
  BY <1>10, <1>11 DEF Knows

-----------------------------------------------------------------------------
(* What is to be told is told                                              *)

\* What a client has to forward stays until it is forwarded.
LEMMA TaskStays ==
  ASSUME TInv, [Next]_vars, NEW n \in Nodes, NEW c \in Clients, task[n][c].do = "forward"
  PROVE  task'[n][c] = task[n][c] \/ Forward(n, c)
<1>1. CASE UNCHANGED task
  BY <1>1
<1>2. ASSUME NEW k \in Nodes, NEW d \in Clients, ClientStep(k, d), ~ Forward(n, c)
      PROVE  task'[n][c] = task[n][c]
  <2>1. UNCHANGED task \/ \E w : task' = [task EXCEPT ![k][d] = w]
    BY <1>2 DEF ClientStep, ClientSubscribe, ClientUnsubscribe, ClientGone, ClientPublishRetain,
      Forward, KeepRetain, Begins, Finishes
  <2>2. CASE k = n /\ d = c
    <3>1. task[n][c] # NoTask /\ task[n][c].do # "retain"
      BY DEF NoTask
    <3>2. ~ KeepRetain(n, c) /\ \A w : ~ Begins(n, c, w)
      BY <3>1 DEF KeepRetain, Begins
    <3>3. \E t \in Topics : ClientGone(n, c, t)
      BY <1>2, <2>2, <3>2 DEF ClientStep, ClientSubscribe, ClientUnsubscribe, ClientPublishRetain
    <3> QED
      BY <3>3 DEF ClientGone
  <2> QED
    BY <2>1, <2>2 DEF TInv, DataTyped
<1>3. ASSUME NEW e \in Ends, EndStep(e) PROVE UNCHANGED task
  BY <1>3 DEF EndStep, WriteConnect, AcceptConnect, AcceptError, ReplaceOld, StoreLink,
    SyncTopics, EndSync, RangeTopics, WriteTopic, Loop, ReadError, ProcessSubscribe,
    ProcessUnsubscribe, ProcessRetain, DeleteLink, CleanTopic, nodeVars
<1>4. CASE (\E k, m \in Nodes, l \in Links : Dial(k, m, l)) \/ (\E l \in Links : CutLink(l)) \/ UNCHANGED vars
  BY <1>1, <1>4 DEF Dial, CutLink, nodeVars, vars
<1> QED
  BY <1>1, <1>2, <1>3, <1>4 DEF Next

\* A topic gets its first subscriber from a client that then has it to forward.
LEMMA LocalGrows ==
  ASSUME TInv, MoreTyped, [Next]_vars, NEW n \in Nodes, NEW t \in Topics,
         local[n][t] = {}, local'[n][t] # {}
  PROVE  Forwards(n, "subscribe", t)'
<1>1. ~ UNCHANGED local
  OBVIOUS
<1>2. PICK k \in Nodes, d \in Clients : ClientStep(k, d)
  <2>1. \A e \in Ends : ~ EndStep(e)
    BY <1>1 DEF EndStep, WriteConnect, AcceptConnect, AcceptError, ReplaceOld, StoreLink,
      SyncTopics, EndSync, RangeTopics, WriteTopic, Loop, ReadError, ProcessSubscribe,
      ProcessUnsubscribe, ProcessRetain, DeleteLink, CleanTopic, nodeVars
  <2> QED
    BY <1>1, <2>1 DEF Next, Dial, CutLink, nodeVars, vars
<1>3. PICK u \in Topics : ClientSubscribe(k, d, u) \/ ClientUnsubscribe(k, d, u) \/ ClientGone(k, d, u)
  BY <1>1, <1>2 DEF ClientStep, ClientPublishRetain, Forward, KeepRetain, linkVars
<1>4. ~ (ClientUnsubscribe(k, d, u) \/ ClientGone(k, d, u))
  BY DEF ClientUnsubscribe, ClientGone, MoreTyped
<1>5. /\ local' = [local EXCEPT ![k][u] = @ \cup {d}]
      /\ task' = [task EXCEPT ![k][d] = [do |-> "forward", packet |-> Packet("subscribe", u)]]
  BY <1>3, <1>4 DEF ClientSubscribe, Begins
<1>6. k = n /\ u = t
  BY <1>5 DEF MoreTyped
<1>7. task'[n][d] = [do |-> "forward", packet |-> Packet("subscribe", t)]
  BY <1>5, <1>6 DEF TInv, DataTyped
<1> QED
  BY <1>7 DEF Forwards, Packet

\* How far SyncTopics has come changes only by its own steps.
LEMMA SyncStays ==
  ASSUME TInv, MoreTyped, [Next]_vars, NEW e \in Ends, pc[e] = "range"
  PROVE  \/ sync'[e] = sync[e] /\ pc'[e] = pc[e]
         \/ EndSync(e)
         \/ \E u \in Topics : RangeTopics(e, u) \/ WriteTopic(e, u)
<1>1. pc'[e] = pc[e] \/ EndSync(e)
  <2>1. pc'[e] = pc[e] \/ EndStep(e)
    BY NextGoes
  <2> QED
    BY <2>1 DEF EndStep, WriteConnect, AcceptConnect, AcceptError, ReplaceOld, StoreLink,
      SyncTopics, RangeTopics, WriteTopic, Loop, ReadError, ProcessSubscribe,
      ProcessUnsubscribe, ProcessRetain, DeleteLink, CleanTopic, Reads, At
<1>2. sync'[e] = sync[e] \/ EndSync(e) \/ \E u \in Topics : RangeTopics(e, u) \/ WriteTopic(e, u)
  <2>1. ASSUME NEW g \in Ends, EndStep(g), g # e PROVE sync'[e] = sync[e]
    <3>1. \/ UNCHANGED sync \/ SyncTopics(g) \/ EndSync(g)
          \/ \E u \in Topics : RangeTopics(g, u) \/ WriteTopic(g, u)
      BY <2>1 DEF EndStep, WriteConnect, AcceptConnect, AcceptError, ReplaceOld, StoreLink,
        Loop, ReadError, ProcessSubscribe, ProcessUnsubscribe, ProcessRetain, DeleteLink, CleanTopic
    <3> QED
      BY <2>1, <3>1 DEF SyncTopics, EndSync, RangeTopics, WriteTopic, MoreTyped
  <2>2. CASE EndStep(e)
    BY <2>2 DEF EndStep, WriteConnect, AcceptConnect, AcceptError, ReplaceOld, StoreLink,
      SyncTopics, Loop, ReadError, ProcessSubscribe,
      ProcessUnsubscribe, ProcessRetain, DeleteLink, CleanTopic, Reads, At
  <2>3. CASE UNCHANGED sync
    BY <2>3
  <2>4. ASSUME NEW k \in Nodes, NEW d \in Clients, ClientStep(k, d) PROVE UNCHANGED sync
    BY <2>4 DEF ClientStep, ClientSubscribe, ClientUnsubscribe, ClientGone, ClientPublishRetain,
      Forward, KeepRetain, linkVars
  <2> QED
    BY <2>1, <2>2, <2>3, <2>4 DEF Next, Dial, CutLink, linkVars, vars
<1> QED
  BY <1>1, <1>2

\* The last that was written is known.
LEMMA WrittenIsKnown ==
  ASSUME TInv, NEW f \in Ends, NEW t \in Topics,
         inbox'[f] = Append(inbox[f], Packet("subscribe", t))
  PROVE  Knows(f, t)'
<1>1. inbox[f] \in Seq(Message)
  BY DEF TInv, DataTyped
<1>2. PICK i \in Nat : /\ i > 0 /\ DOMAIN inbox'[f] = 1..i
                       /\ inbox'[f][i] = Packet("subscribe", t)
  <2>1. /\ DOMAIN inbox'[f] = 1..(Len(inbox[f]) + 1) /\ Len(inbox[f]) \in Nat
        /\ inbox'[f][Len(inbox[f]) + 1] = Packet("subscribe", t)
    BY <1>1
  <2> QED
    BY <2>1
<1>3. \A j \in DOMAIN inbox'[f] : ~ (j > i)
  BY <1>2
<1>4. NoneAfter(f, t, i)'
  BY <1>3 DEF NoneAfter
<1>5. i \in DOMAIN inbox'[f]
  BY <1>2
<1> QED
  BY <1>2, <1>4, <1>5 DEF Knows, Packet

LEMMA NextEndsToldOf ==
  ASSUME LinkInv, Successive, LastUnsubscribes, EndsToldOf, [Next]_vars
  PROVE  EndsToldOf'
<1> SUFFICES ASSUME NEW e \in Ends, NEW t \in Topics, ToTell(e, t)'
             PROVE  Telling(e, t)' \/ Knows(OtherEnd(e), t)'
  BY DEF EndsToldOf, OtherEnd
<1> DEFINE n == NodeOf(e)
           m == PeerOf(e)
           f == OtherEnd(e)
<1> USE DEF LinkInv
<1>1. pc'[e] \in {"range", "loop", "read"} /\ Up(e)'
      /\ <<NodeOf(e)', PeerOf(e)'>> \in Dials /\ local'[NodeOf(e)'][t] # {}
  BY DEF ToTell, At
<1>2. Up(e) /\ f \in Ends /\ OtherEnd(f) = e /\ Up(f)
  BY <1>1, NextDown, OtherSide, OtherOther, OtherNodes
<1>3. \/ pc[e] \in {"range", "loop", "read"}
      \/ pc[e] = "sync" /\ EndStep(e)
  <2>1. \/ pc'[e] = pc[e] \/ pc[e] = "unused"
        \/ <<pc[e], pc'[e]>> \in Moves /\ EndStep(e)
    BY NextGoes
  <2>2. CASE pc[e] = "unused"
    <3>1. pc'[e] \in {"unused", "connect", "accept"}
      <4>1. ASSUME NEW k \in Nodes, NEW d \in Nodes, NEW l \in Links, Dial(k, d, l)
            PROVE  pc'[e] \in {"unused", "connect", "accept"}
        <5>1. pc' = [pc EXCEPT ![<<l, "dialed">>] = "connect", ![<<l, "accepted">>] = "accept"]
          BY <4>1 DEF Dial
        <5> QED
          BY <2>2, <5>1 DEF TInv, IInv, LinksTyped
      <4>2. pc'[e] = pc[e] \/ \E k, d \in Nodes, l \in Links : Dial(k, d, l)
        BY <2>2, NextGoes DEF Moves
      <4> QED
        BY <2>2, <4>1, <4>2
    <3> QED
      BY <1>1, <3>1
  <2> QED
    BY <1>1, <2>1, <2>2 DEF Moves
<1>4. NodeOf(e)' = n /\ PeerOf(e)' = m /\ n \in Nodes /\ m \in Nodes
  BY <1>3, NextUsedStay, RoutedEnds DEF UsedStay, TInv, IInv
<1>5. <<n, m>> \in Dials /\ local'[n][t] # {}
  BY <1>1, <1>4
<1>6. clusters[n][m] = e /\ e # NoEnd
  BY <1>3, NoEndAssumption DEF RunningIsEntered, Running
<1>7. CASE pc[e] = "sync" /\ EndStep(e)
  <2>1. SyncTopics(e)
    BY <1>7 DEF EndStep, WriteConnect, AcceptConnect, AcceptError, ReplaceOld, StoreLink,
      EndSync, RangeTopics, WriteTopic, Loop, ReadError, ProcessSubscribe,
      ProcessUnsubscribe, ProcessRetain, DeleteLink, CleanTopic, Reads, At
  <2>2. sync'[e].left = Topics /\ pc'[e] = "range"
    BY <1>5, <1>6, <2>1 DEF SyncTopics, Goto, MoreTyped, TInv, IInv, LinksTyped
  <2> QED
    BY <2>2 DEF Telling, At
<1>8. CASE local[n][t] = {}
  <2>1. Forwards(n, "subscribe", t)'
    BY <1>4, <1>5, <1>8, LocalGrows
  <2> QED
    BY <1>4, <2>1 DEF Telling, Forwards, Packet
<1>9. CASE pc[e] \in {"range", "loop", "read"} /\ local[n][t] # {}
  <2>1. ~ Forwards(n, "unsubscribe", t)
    BY <1>4, <1>9 DEF LastUnsubscribes
  <2>2. Telling(e, t) \/ Knows(f, t)
    BY <1>2, <1>5, <1>9 DEF EndsToldOf, ToTell
  <2>3. CASE Knows(f, t)
    <3>1. Knows(f, t)'
      BY <1>1, <1>9, <2>1, <2>3, KnowsStays
    <3> QED
      BY <3>1
  <2>4. ASSUME NEW c \in Clients, task[n][c] = [do |-> "forward", packet |-> Packet("subscribe", t)]
        PROVE  Telling(e, t)' \/ Knows(f, t)'
    <3>1. task'[n][c] = task[n][c] \/ Forward(n, c)
      <4>1. task[n][c].do = "forward"
        BY <2>4
      <4> HIDE DEF n
      <4> QED
        BY <1>4, <4>1, TaskStays
    <3>2. CASE task'[n][c] = task[n][c]
      <4>1. task'[NodeOf(e)'][c] = [do |-> "forward", packet |-> Packet("subscribe", t)]
        BY <1>4, <2>4, <3>2
      <4> QED
        BY <4>1 DEF Telling, Forwards, Packet
    <3>3. CASE Forward(n, c)
      <4>1. OtherEnd(f) \in {clusters[n][k] : k \in Nodes} \ {NoEnd}
        BY <1>2, <1>4, <1>6
      <4>2. inbox'[f] = Append(inbox[f], Packet("subscribe", t))
        BY <1>2, <2>4, <3>3, <4>1 DEF Forward
      <4> QED
        BY <1>2, <4>2, WrittenIsKnown
    <3> QED
      BY <3>1, <3>2, <3>3
  <2>5. ASSUME pc[e] = "range", t \in sync[e].left \cup sync[e].found
        PROVE  Telling(e, t)' \/ Knows(f, t)'
    <3>1. ASSUME pc'[e] = "range", t \in sync'[e].left \cup sync'[e].found PROVE Telling(e, t)'
      BY <3>1 DEF Telling, At
    <3>2. ASSUME NEW u \in Topics, RangeTopics(e, u) PROVE Telling(e, t)'
      <4>1. /\ pc' = pc /\ sync'[e].left = sync[e].left \ {u} /\ sync[e].found = {}
            /\ sync'[e].found = {k \in {u} : local[n][k] # {}}
        BY <3>2 DEF RangeTopics, MoreTyped
      <4> QED
        BY <1>9, <2>5, <3>1, <4>1
    <3>3. ASSUME NEW u \in Topics, WriteTopic(e, u) PROVE Telling(e, t)' \/ Knows(f, t)'
      <4>1. u \in sync[e].found /\ sync[e].link = e /\ \A k, d \in sync[e].found : k = d
        BY <2>5, <3>3 DEF WriteTopic, SyncOwn
      <4>2. CASE u = t
        <5> DEFINE told == <<Packet("subscribe", t)>>
        <5>1. told \in Seq(Message) /\ Packet("subscribe", t) \in Message
          BY PacketTyped DEF Message
        <5>2. inbox' = WriteTo(inbox, e, told)
          BY <3>3, <4>1, <4>2 DEF WriteTopic
        <5>3. inbox'[f] = inbox[f] \o told
          <6> HIDE DEF told
          <6> QED
            BY <1>2, <5>1, <5>2, WriteToOne DEF TInv, DataTyped
        <5>4. inbox'[f] = Append(inbox[f], Packet("subscribe", t))
          <6>1. inbox[f] \in Seq(Message)
            BY <1>2 DEF TInv, DataTyped
          <6> QED
            BY <5>1, <5>3, <6>1
        <5> QED
          BY <1>2, <5>4, WrittenIsKnown
      <4>3. CASE u # t
        <5>1. t \in sync[e].left
          BY <2>5, <4>1, <4>3
        <5>2. pc' = pc /\ sync'[e].left = sync[e].left
          BY <3>3 DEF WriteTopic, MoreTyped
        <5> QED
          BY <2>5, <3>1, <5>1, <5>2
      <4> QED
        BY <4>2, <4>3
    <3>4. ~ EndSync(e)
      BY <2>5 DEF EndSync
    <3> QED
      BY <2>5, <3>1, <3>2, <3>3, <3>4, SyncStays
  <2> QED
    BY <2>2, <2>3, <2>4, <2>5 DEF Telling, Forwards, At
<1> QED
  BY <1>3, <1>7, <1>8, <1>9

-----------------------------------------------------------------------------
LEMMA InitLinkInv == Init => LinkInv /\ EndsToldOf
<1> SUFFICES ASSUME Init PROVE LinkInv /\ EndsToldOf
  OBVIOUS
<1>1. TInv
  BY InitTInv
<1>2. \A e \in Ends : pc[e] = "unused" /\ inbox[e] = <<>> /\ OtherEnd(e) \in Ends
  BY OtherSide DEF Init
<1>3. MoreTyped
  BY DEF Init, MoreTyped, NoSync
<1>4. Distinct /\ RunningIsEntered /\ OverIsDown /\ SyncOwn /\ Silent
  BY <1>2 DEF Distinct, RunningIsEntered, Running, OverIsDown, SyncOwn, Silent
<1>5. EndsToldOf
  BY <1>2 DEF EndsToldOf, ToTell
<1> QED
  BY <1>1, <1>3, <1>4, <1>5 DEF LinkInv

LEMMA NextLinkInv ==
  ASSUME OthersOnly
  PROVE  LinkInv /\ EndsToldOf /\ Successive /\ LastUnsubscribes /\ [Next]_vars
           => LinkInv' /\ EndsToldOf'
<1> SUFFICES ASSUME LinkInv, EndsToldOf, Successive, LastUnsubscribes, [Next]_vars
             PROVE  LinkInv' /\ EndsToldOf'
  OBVIOUS
<1>1. TInv' /\ MoreTyped' /\ Distinct'
  BY NextTInv, NextMoreTyped, NextDistinct DEF LinkInv
<1>2. RunningIsEntered' /\ OverIsDown' /\ SyncOwn' /\ Silent'
  BY NextRunningIsEntered, NextOverIsDown, NextSyncOwn, NextSilent DEF LinkInv
<1> QED
  BY <1>1, <1>2, NextEndsToldOf DEF LinkInv

LEMMA ToldIsKnown == LinkInv /\ EndsToldOf => SubscribersKnown
<1> SUFFICES ASSUME LinkInv, EndsToldOf, NEW n \in Nodes, NEW m \in Nodes,
                    <<n, m>> \in Dials, Settled(n, m), NEW t \in Topics, local[n][t] # {}
             PROVE  remote[m][<<t, n>>] = clusters[m][n]
  BY DEF SubscribersKnown
<1> DEFINE e == clusters[n][m]
<1>1. /\ e # NoEnd /\ Up(e) /\ clusters[m][n] = OtherEnd(e)
      /\ inbox[OtherEnd(e)] = <<>>
      /\ \A c \in Clients : task[n][c] = NoTask
  BY DEF Settled
<1>2. e \in Ends /\ NodeOf(e) = n /\ PeerOf(e) = m
  BY <1>1 DEF LinkInv, TInv, IInv, EntryIsPlaced
<1>3. pc[e] \in {"loop", "read"}
  BY <1>2 DEF Settled
<1>4. Knows(OtherEnd(e), t) \/ Telling(e, t)
  BY <1>1, <1>2, <1>3 DEF EndsToldOf, ToTell
<1>5. ~ Telling(e, t)
  <2>1. ~ Forwards(n, "subscribe", t)
    BY <1>1 DEF Forwards, NoTask
  <2> QED
    BY <1>2, <1>3, <2>1 DEF Telling, At
<1>6. NodeOf(OtherEnd(e)) = m /\ PeerOf(OtherEnd(e)) = n
  BY <1>2, OtherNodes
<1>7. DOMAIN inbox[OtherEnd(e)] = {}
  BY <1>1
<1> QED
  BY <1>1, <1>4, <1>5, <1>6, <1>7 DEF Knows

(***************************************************************************)
(* broker/processor.go:90 relies on ClusterTopics.  SyncTopics             *)
(* (cluster.go:142-164), the goroutines that forward SUBSCRIBE and         *)
(* UNSUBSCRIBE to every link and the other node's ProcessSubscribe and     *)
(* ProcessUnsubscribe: whatever they do in between, a node knows in the    *)
(* end over which link to reach every node that has a subscriber, if the   *)
(* links between two nodes come one after the other and the client that    *)
(* unsubscribes a topic was its last at the node.                          *)
(***************************************************************************)
THEOREM SubscribersAreKnown ==
  ASSUME OthersOnly
  PROVE  Spec /\ [](Successive /\ LastUnsubscribes) => []SubscribersKnown
<1>1. LinkInv /\ EndsToldOf /\ (Successive /\ LastUnsubscribes) /\ [Next]_vars
        => (LinkInv /\ EndsToldOf)'
  BY NextLinkInv
<1> QED
  BY <1>1, InitLinkInv, ToldIsKnown, PTL DEF Spec
=============================================================================
