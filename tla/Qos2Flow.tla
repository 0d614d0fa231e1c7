------------------------------ MODULE Qos2Flow ------------------------------
(***************************************************************************)
(* Clients that publish with QoS 2 by the book, over connections that may  *)
(* break, to a broker with the in-flight table of Qos2.tla.  A client has  *)
(* one message under way: it sends PUBLISH and waits for PUBREC, then      *)
(* sends PUBREL and waits for PUBCOMP.  What it waits for when its         *)
(* connection breaks it asks for again over the next one.  Clients choose  *)
(* their message ids independently of each other.                          *)
(***************************************************************************)
EXTENDS Qos2, Functions

CONSTANTS
  Clients,
  MaxMessages,   \* bound: client -> how many messages it has
  MaxReconnects, \* bound: client -> how many times it reconnects
  Overlap        \* a client may reconnect while the goroutine of its broken
                 \* connection still handles a packet

ASSUME ConnectionAssumption == Injection(Clients, Handlers) # {}
ASSUME BoundAssumption == MaxMessages \in [Clients -> Nat]

VARIABLES
  conn,        \* client -> the handler of its connection
  flow,        \* client -> [phase, id, serial, sent, tried]: it waits for the answer
               \* to what it sent; tried is history: the broker has handled a packet
               \* of this phase, over this connection or an earlier one
  wire,        \* client -> the answer on its way to it
  source,      \* handler -> <<client, serial>> of the message it handles
  published,   \* <<client, serial>> -> times DoPublish ran for the message
  reconnects,  \* client -> how many times it has reconnected
  late,        \* history: ids still to be stored when the client reconnected
  exposed      \* history: messages whose id did not stay in the table from the
               \* lookup on, while their client might send them again

clientVars == <<conn, flow, wire, reconnects>>
history == <<late, exposed>>
flowVars == <<vars, clientVars, source, published, history>>

Nobody == <<NoId, 0>>
Messages == UNION {{c} \X (1 .. MaxMessages[c]) : c \in Clients}

Current(c) == <<c, flow[c].serial>>

FlowInit ==
  /\ Init
  /\ conn = CHOOSE f \in Injection(Clients, Handlers) : TRUE
  /\ flow = [c \in Clients |->
       [phase |-> "idle", id |-> NoId, serial |-> 0,
        sent |-> FALSE, tried |-> FALSE]]
  /\ wire = [c \in Clients |-> "none"]
  /\ source = [h \in Handlers |-> Nobody]
  /\ published = [m \in Messages |-> 0]
  /\ reconnects = [c \in Clients |-> 0]
  /\ late = {}
  /\ exposed = {}

-----------------------------------------------------------------------------
(* Clients                                                                 *)

NewMessage(c) ==
  /\ flow[c].phase = "idle"
  /\ flow[c].serial < MaxMessages[c]
  /\ \E id \in MessageIds :
       flow' = [flow EXCEPT ![c] = [phase |-> "publish", id |-> id, serial |-> @.serial + 1,
                                    sent |-> FALSE, tried |-> FALSE]]
  /\ UNCHANGED <<vars, conn, wire, reconnects, source, published, history>>

ReceivePubrec(c) ==
  /\ wire[c] = "pubrec"
  /\ flow' = [flow EXCEPT ![c].phase = "release", ![c].sent = FALSE, ![c].tried = FALSE]
  /\ wire' = [wire EXCEPT ![c] = "none"]
  /\ UNCHANGED <<vars, conn, reconnects, source, published, history>>

ReceivePubcomp(c) ==
  /\ wire[c] = "pubcomp"
  /\ flow' = [flow EXCEPT ![c].phase = "idle", ![c].sent = FALSE]
  /\ wire' = [wire EXCEPT ![c] = "none"]
  /\ UNCHANGED <<vars, conn, reconnects, source, published, history>>

\* The handler is between the lookup and the assignment of saveQos2Msg for
\* the client.
Storing(h, c) == pc[h] = "store" /\ source[h] = Current(c)

\* The connection breaks: an answer on its way is lost, and the next one gets a
\* goroutine of its own, for which one that has ended will do.
Reconnect(c) ==
  /\ reconnects[c] < MaxReconnects[c]
  /\ Overlap \/ pc[conn[c]] = "idle"
  /\ \E h \in Handlers :
       /\ pc[h] = "idle" /\ \A d \in Clients \ {c} : conn[d] # h
       /\ pc[conn[c]] = "idle" => h = conn[c]
       /\ conn' = [conn EXCEPT ![c] = h]
  /\ flow' = [flow EXCEPT ![c].sent = FALSE]
  /\ wire' = [wire EXCEPT ![c] = "none"]
  /\ reconnects' = [reconnects EXCEPT ![c] = @ + 1]
  /\ IF Storing(conn[c], c)
     THEN late' = late \cup {msg[conn[c]]} /\ exposed' = exposed \cup {Current(c)}
     ELSE UNCHANGED history
  /\ UNCHANGED <<vars, source, published>>

-----------------------------------------------------------------------------
(* The broker, on the packets of these clients                             *)

Sends(c, phase) ==
  /\ flow[c].phase = phase
  /\ ~ flow[c].sent
  /\ pc[conn[c]] = "idle"
  /\ flow' = [flow EXCEPT ![c].sent = TRUE, ![c].tried = TRUE]

PublishAccepted(c) ==
  /\ Sends(c, "publish")
  /\ CheckSave(conn[c], flow[c].id)
  /\ source' = [source EXCEPT ![conn[c]] = Current(c)]
  /\ UNCHANGED <<conn, wire, reconnects, published, history>>

\* Mutant: a message that is taken for a duplicate is acknowledged.
PublishRefused_Answered(c) ==
  /\ Sends(c, "publish")
  /\ Refused(flow[c].id)
  /\ wire' = [wire EXCEPT ![c] = "pubrec"]
  /\ UNCHANGED <<vars, conn, reconnects, source, published, history>>

\* ProcessPublish returns without an answer.
PublishRefused(c) ==
  /\ Sends(c, "publish")
  /\ Refused(flow[c].id)
  /\ UNCHANGED <<vars, conn, wire, reconnects, source, published, history>>

\* Messages that the broker has begun to handle and that may be sent again,
\* whose id is being deleted.
LoseId(id) ==
  LET begun(m) == published[m] > 0 \/ \E h \in Handlers : source[h] = m
  IN  {Current(c) : c \in {d \in Clients : /\ flow[d].phase = "publish"
                                         /\ flow[d].id = id /\ id \in InFlight
                                         /\ begun(Current(d))}}

PubrelHandled(c) ==
  /\ Sends(c, "release")
  /\ Pubrel(conn[c], flow[c].id)
  /\ wire' = [wire EXCEPT ![c] = "pubcomp"]
  /\ exposed' = exposed \cup LoseId(flow[c].id)
  /\ UNCHANGED <<conn, reconnects, source, published, late>>

StoreMsgFlow(h) ==
  StoreMsg(h) /\ UNCHANGED <<clientVars, source, published, history>>

ArmTimerFlow(h) ==
  ArmTimer(h) /\ UNCHANGED <<clientVars, source, published, history>>

\* The write fails only over a connection that broke: the client has left it
\* or has yet to see that.
WritePubrecFlow(h) ==
  LET c == source[h][1] IN
  /\ pc[h] = "pubrec"
  /\ \E written \in BOOLEAN :
       /\ written \/ conn[c] # h \/ reconnects[c] < MaxReconnects[c]
       /\ WritePubrec(h, written)
       /\ source' = [source EXCEPT ![h] = IF written THEN @ ELSE Nobody]
       /\ wire' = IF written /\ conn[c] = h
                  THEN [wire EXCEPT ![c] = "pubrec"] ELSE wire
  /\ UNCHANGED <<conn, flow, reconnects, published, history>>

PublishFlow(h) ==
  /\ Publish(h)
  /\ published' = [published EXCEPT ![source[h]] = @ + 1]
  /\ source' = [source EXCEPT ![h] = Nobody]
  /\ UNCHANGED <<clientVars, history>>

TimerStepFlow(t) ==
  /\ TimerStep(t)
  /\ exposed' = IF timer[t].state = "deleting"
                THEN exposed \cup LoseId(timer[t].victim) ELSE exposed
  /\ UNCHANGED <<clientVars, source, published, late>>

TickFlow ==
  Tick /\ UNCHANGED <<clientVars, source, published, history>>

ClientStep(c) ==
  \/ NewMessage(c) \/ ReceivePubrec(c) \/ ReceivePubcomp(c) \/ Reconnect(c)
  \/ PublishAccepted(c) \/ PublishRefused(c) \/ PubrelHandled(c)

FlowNext ==
  \/ \E c \in Clients : ClientStep(c)
  \/ \E h \in Handlers :
       \/ StoreMsgFlow(h) \/ ArmTimerFlow(h)
       \/ WritePubrecFlow(h) \/ PublishFlow(h)
  \/ \E t \in Timers : TimerStepFlow(t)
  \/ TickFlow

FlowSpec == FlowInit /\ [][FlowNext]_flowVars

\* The fairness of Qos2; clients and connections promise nothing.
FlowFairness ==
  /\ WF_flowVars(TickFlow)
  /\ \A h \in Handlers :
       WF_flowVars(StoreMsgFlow(h) \/ ArmTimerFlow(h)
                   \/ WritePubrecFlow(h) \/ PublishFlow(h))
  /\ \A t \in Timers : WF_flowVars(TimerStepFlow(t))

FairFlowSpec == FlowSpec /\ FlowFairness

-----------------------------------------------------------------------------
(* Properties                                                              *)

(***************************************************************************)
(* ProcessPublish (processor.go:117): a client that got the PUBREC of its  *)
(* message forgets it, so by then the broker has published it or its       *)
(* handler is about to.                                                    *)
(***************************************************************************)
AcknowledgedIsPublished ==
  \A c \in Clients :
    flow[c].phase = "release" \/ wire[c] = "pubrec" =>
      \/ published[Current(c)] > 0
      \/ \E h \in Handlers : pc[h] = "publish" /\ source[h] = Current(c)

(***************************************************************************)
(* saveQos2Msg and expireQos2Msg (processor.go:40-62): a message is        *)
(* published twice only if its id did not stay in the table: a sweep       *)
(* deleted it, the PUBREL of a client with the same id, or its client was  *)
(* back before the handler that had looked it up stored it.  Nothing else  *)
(* that a lost connection, a repetition or a late handler can do leads to  *)
(* a second publication.                                                   *)
(***************************************************************************)
OnceUnlessExposed ==
  \A m \in Messages : published[m] > 1 => m \in exposed

(***************************************************************************)
(* saveQos2Msg (processor.go:45): the table has one key for a message id   *)
(* of whatever client.  A message that its client has not sent before and  *)
(* that is taken for a duplicate all the same is so for a message that     *)
(* another client has under way, or for one that was stored after its      *)
(* client had reconnected; never for an earlier one of this client, nor    *)
(* for a message whose client is done with it.                             *)
(***************************************************************************)
RefusedForOthers ==
  \A c \in Clients :
    flow[c].phase = "publish" /\ ~ flow[c].tried /\ flow[c].id \in InFlight =>
      \/ \E d \in Clients \ {c} : flow[d].id = flow[c].id /\ flow[d].phase # "idle"
      \/ flow[c].id \in late

-----------------------------------------------------------------------------
(* What the source says of the program and the code does not do            *)

(***************************************************************************)
(* config/constant.go:6, QosExactlyOnce: a message is published at most    *)
(* once, however often it is sent.                                         *)
(***************************************************************************)
PublishedOnce == \A m \in Messages : published[m] <= 1

(***************************************************************************)
(* README.md:4, MQTT 3.x: message ids belong to a client, so a message     *)
(* that its client sends for the first time is not taken for a duplicate.  *)
(***************************************************************************)
FirstSendAccepted ==
  \A c \in Clients :
    flow[c].phase = "publish" /\ ~ flow[c].tried => flow[c].id \notin InFlight
=============================================================================
