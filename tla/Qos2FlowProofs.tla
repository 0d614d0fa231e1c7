--------------------------- MODULE Qos2FlowProofs ---------------------------
(***************************************************************************)
(* For any number of clients, connections and reconnections, whatever ids  *)
(* the clients use and however the table refuses or forgets them: what is  *)
(* acknowledged is published, what is sent for the first time is refused   *)
(* only for the sake of another client or of a message stored too late,    *)
(* and only a message whose id has left the table is published again.      *)
(***************************************************************************)
EXTENDS Qos2Flow, TLAPS
-----------------------------------------------------------------------------
(* The table with arbitrary packets                                       *)

\* A handler that is past the lookups knows the message it saves, a sweep the
\* one it deletes.
Known ==
  /\ \A h \in Handlers : pc[h] \in {"store", "arm"} => msg[h] \in MessageIds
  /\ \A t \in Timers : timer[t].state = "deleting" => timer[t].victim \in MessageIds

IInv == TypeOK /\ Known /\ NoMessageForgotten

LEMMA InitIInv == Init => IInv
  BY IdAssumption, TimeAssumption
  DEF Init, IInv, TypeOK, Known, NoMessageForgotten, InFlight, Absent,
      NoTimer, States, Labels

-----------------------------------------------------------------------------
(* Types                                                                   *)

LEMMA TypeStep == TypeOK /\ Known /\ [Next]_vars => TypeOK'
<1> SUFFICES ASSUME TypeOK, Known, [Next]_vars PROVE TypeOK'
  OBVIOUS
<1> USE IdAssumption, TimeAssumption DEF TypeOK, States, Labels, Absent, InFlight
<1>1. ASSUME NEW h \in Handlers, NEW id \in MessageIds,
             CheckSave(h, id) \/ Pubrel(h, id)
      PROVE TypeOK'
  BY <1>1 DEF CheckSave, Pubrel
<1>2. ASSUME NEW h \in Handlers, HandlerStep(h) PROVE TypeOK'
  <2>1. CASE StoreMsg(h)
    BY <2>1 DEF StoreMsg, Known
  <2>2. CASE ArmTimer(h)
    BY <2>2 DEF ArmTimer, FreeTimers
  <2>3. CASE Publish(h)
    BY <2>3 DEF Publish
  <2>4. ASSUME NEW written \in BOOLEAN, WritePubrec(h, written) PROVE TypeOK'
    BY <2>4 DEF WritePubrec
  <2> QED
    BY <1>2, <2>1, <2>2, <2>3, <2>4 DEF HandlerStep
<1>3. ASSUME NEW t \in Timers, TimerStep(t) PROVE TypeOK'
  <2>1. CASE Fire(t)
    BY <2>1 DEF Fire, NoTimer
  <2>2. ASSUME NEW id \in MessageIds, FindExpired(t, id) PROVE TypeOK'
    BY <2>2 DEF FindExpired
  <2>3. CASE DeleteExpired(t)
    BY <2>3 DEF DeleteExpired, Known
  <2>4. CASE EndSweep(t)
    BY <2>4 DEF EndSweep, NoTimer
  <2> QED
    BY <1>3, <2>1, <2>2, <2>3, <2>4 DEF TimerStep
<1>4. CASE Tick
  BY <1>4 DEF Tick
<1>5. CASE UNCHANGED vars
  BY <1>5 DEF vars
<1> QED
  BY <1>1, <1>2, <1>3, <1>4, <1>5 DEF Next

LEMMA KnownStep == TypeOK /\ Known /\ [Next]_vars => Known'
<1> SUFFICES ASSUME TypeOK, Known, [Next]_vars PROVE Known'
  OBVIOUS
<1> USE IdAssumption, TimeAssumption
    DEF TypeOK, States, Labels, Absent, Known, InFlight
<1>1. ASSUME NEW h \in Handlers, NEW id \in MessageIds,
             CheckSave(h, id) \/ Pubrel(h, id)
      PROVE Known'
  BY <1>1 DEF CheckSave, Pubrel
<1>2. ASSUME NEW h \in Handlers, HandlerStep(h) PROVE Known'
  <2>1. CASE StoreMsg(h)
    BY <2>1 DEF StoreMsg
  <2>2. CASE ArmTimer(h)
    BY <2>2 DEF ArmTimer, FreeTimers
  <2>3. CASE Publish(h)
    BY <2>3 DEF Publish
  <2>4. ASSUME NEW written \in BOOLEAN, WritePubrec(h, written) PROVE Known'
    BY <2>4 DEF WritePubrec
  <2> QED
    BY <1>2, <2>1, <2>2, <2>3, <2>4 DEF HandlerStep
<1>3. ASSUME NEW t \in Timers, TimerStep(t) PROVE Known'
  <2>1. CASE Fire(t)
    BY <2>1 DEF Fire, NoTimer
  <2>2. ASSUME NEW id \in MessageIds, FindExpired(t, id) PROVE Known'
    BY <2>2 DEF FindExpired
  <2>3. CASE DeleteExpired(t)
    BY <2>3 DEF DeleteExpired
  <2>4. CASE EndSweep(t)
    BY <2>4 DEF EndSweep, NoTimer
  <2> QED
    BY <1>3, <2>1, <2>2, <2>3, <2>4 DEF TimerStep
<1>4. CASE Tick
  BY <1>4 DEF Tick
<1>5. CASE UNCHANGED vars
  BY <1>5 DEF vars
<1> QED
  BY <1>1, <1>2, <1>3, <1>4, <1>5 DEF Next

-----------------------------------------------------------------------------
(* Who sees to the expiry of a message                                     *)

\* A timer or a sweep that covers the message.
Covers(t, id) == timer[t].state # "free" /\ timer[t].at >= Due(id)

Arms(h, id) == pc[h] = "arm" /\ msg[h] = id

SeenTo(id) == (\E t \in Timers : Covers(t, id)) \/ (\E h \in Handlers : Arms(h, id))

LEMMA SeenToStep ==
  ASSUME IInv, [Next]_vars, NEW i \in MessageIds, i \in InFlight'
  PROVE  SeenTo(i)'
<1> USE IdAssumption, TimeAssumption
    DEF IInv, TypeOK, States, Labels, Absent, Known, InFlight, SeenTo,
        Covers, Arms, Due
<1>0. i \in InFlight => SeenTo(i)
  BY DEF NoMessageForgotten
<1>1. ASSUME NEW h \in Handlers, NEW id \in MessageIds,
             CheckSave(h, id) \/ Pubrel(h, id)
      PROVE SeenTo(i)'
  BY <1>0, <1>1 DEF CheckSave, Pubrel
<1>2. ASSUME NEW h \in Handlers, HandlerStep(h) PROVE SeenTo(i)'
  <2>1. CASE StoreMsg(h)
    BY <1>0, <2>1 DEF StoreMsg
  <2>2. CASE ArmTimer(h)
    <3>1. PICK t \in FreeTimers : timer' = [timer EXCEPT
            ![t] = [state |-> "armed", at |-> now + Qos2Timeout, victim |-> NoId]]
      BY <2>2 DEF ArmTimer
    <3>2. /\ qos2Msgs' = qos2Msgs
          /\ i \in InFlight
          /\ qos2Msgs[i] \in Nat
          /\ qos2Msgs[i] <= now
          /\ now \in Nat
      BY <2>2 DEF ArmTimer
    <3>3. timer'[t].state = "armed" /\ timer'[t].at = now + Qos2Timeout
      BY <3>1 DEF FreeTimers
    <3>4. Covers(t, i)'
      BY <3>2, <3>3
    <3> QED
      BY <3>4 DEF FreeTimers
  <2>3. CASE Publish(h)
    BY <1>0, <2>3 DEF Publish
  <2>4. ASSUME NEW written \in BOOLEAN, WritePubrec(h, written) PROVE SeenTo(i)'
    BY <1>0, <2>4 DEF WritePubrec
  <2> QED
    BY <1>2, <2>1, <2>2, <2>3, <2>4 DEF HandlerStep
<1>3. ASSUME NEW t \in Timers, TimerStep(t) PROVE SeenTo(i)'
  <2>1. CASE Fire(t)
    BY <1>0, <2>1 DEF Fire
  <2>2. ASSUME NEW id \in MessageIds, FindExpired(t, id) PROVE SeenTo(i)'
    BY <1>0, <2>2 DEF FindExpired
  <2>3. CASE DeleteExpired(t)
    BY <1>0, <2>3 DEF DeleteExpired
  <2>4. CASE EndSweep(t)
    <3>1. ~ Covers(t, i)
      BY <2>4 DEF EndSweep, Expired
    <3> QED
      BY <1>0, <2>4, <3>1 DEF EndSweep
  <2> QED
    BY <1>3, <2>1, <2>2, <2>3, <2>4 DEF TimerStep
<1>4. CASE Tick
  BY <1>0, <1>4 DEF Tick
<1>5. CASE UNCHANGED vars
  BY <1>0, <1>5 DEF vars
<1> QED
  BY <1>1, <1>2, <1>3, <1>4, <1>5 DEF Next

LEMMA NextIInv == IInv /\ [Next]_vars => IInv'
<1> SUFFICES ASSUME IInv, [Next]_vars PROVE IInv'
  OBVIOUS
<1>1. TypeOK' /\ Known'
  BY TypeStep, KnownStep DEF IInv
<1>2. NoMessageForgotten'
  <2> SUFFICES ASSUME NEW i \in InFlight' PROVE SeenTo(i)'
    BY DEF NoMessageForgotten, SeenTo, Covers, Arms
  <2> QED
    BY SeenToStep DEF InFlight
<1> QED
  BY <1>1, <1>2 DEF IInv

-----------------------------------------------------------------------------
(***************************************************************************)
(* The table, the handlers and the timers keep their types                 *)
(* (processor.go:18-63).                                                   *)
(***************************************************************************)
THEOREM TypeCorrect == Spec => []TypeOK
<1>1. IInv => TypeOK
  BY DEF IInv
<1> QED
  BY <1>1, InitIInv, NextIInv, PTL DEF Spec

(***************************************************************************)
(* Every message in flight is seen to (processor.go:48-63): the timers are *)
(* enough for all of them, although a PUBREL takes messages out without    *)
(* stopping a timer and an id may be saved twice by two handlers.          *)
(***************************************************************************)
THEOREM EveryMessageSeenTo == Spec => []NoMessageForgotten
<1>1. IInv => NoMessageForgotten
  BY DEF IInv
<1> QED
  BY <1>1, InitIInv, NextIInv, PTL DEF Spec

-----------------------------------------------------------------------------
(* Clients that follow the protocol                                        *)

Phases == {"idle", "publish", "release"}

\* A message is a client's and has one of its serial numbers.
LEMMA MessageOf ==
  /\ \A c \in Clients : \A n : <<c, n>> \in Messages <=> n \in 1 .. MaxMessages[c]
  /\ \A m \in Messages : m[1] \in Clients /\ m = <<m[1], m[2]>> /\ m[2] \in Nat \ {0}
  /\ \A c \in Clients : MaxMessages[c] \in Nat
<1>1. \A c \in Clients : MaxMessages[c] \in Nat
  BY BoundAssumption
<1> QED
  BY <1>1 DEF Messages

\* The steps of ProcessPublish before the client is answered.
Unanswered == {"store", "arm", "pubrec"}

FlowTyped ==
  /\ pc \in [Handlers -> Labels]
  /\ msg \in [Handlers -> MessageIds \cup {NoId}]
  /\ conn \in [Clients -> Handlers]
  /\ flow \in [Clients -> [phase  : Phases,
                           id     : MessageIds \cup {NoId},
                           serial : Nat,
                           sent   : BOOLEAN,
                           tried  : BOOLEAN]]
  /\ wire \in [Clients -> {"none", "pubrec", "pubcomp"}]
  /\ source \in [Handlers -> Messages \cup {Nobody}]
  /\ published \in [Messages -> Nat]

\* Two clients never share a connection.
OwnConnection == \A c, d \in Clients : conn[c] = conn[d] => c = d

\* A client that waits for an answer waits for that of a message.
WaitsForMessage ==
  \A c \in Clients : flow[c].phase # "idle" =>
    flow[c].id \in MessageIds /\ Current(c) \in Messages

BusyHasMessage == \A h \in Handlers : pc[h] # "idle" => source[h] \in Messages

\* What the handler of a client's connection has in hand is the message the
\* client waits for, and the client has no other answer to expect.
HandlesCurrent ==
  \A c \in Clients : pc[conn[c]] \in Unanswered =>
    /\ source[conn[c]] = Current(c) /\ msg[conn[c]] = flow[c].id
    /\ flow[c].phase = "publish" /\ flow[c].sent /\ flow[c].tried
    /\ wire[c] = "none"

\* An answer on its way is that to the packet last sent.
AnswerFits ==
  \A c \in Clients : wire[c] # "none" =>
    /\ flow[c].sent /\ flow[c].tried
    /\ flow[c].phase = IF wire[c] = "pubrec" THEN "publish" ELSE "release"

FlowInv ==
  /\ FlowTyped /\ OwnConnection /\ WaitsForMessage /\ BusyHasMessage
  /\ HandlesCurrent /\ AnswerFits /\ AcknowledgedIsPublished

LEMMA InitFlowInv == FlowInit => FlowInv
<1> SUFFICES ASSUME FlowInit PROVE FlowInv
  OBVIOUS
<1>1. conn \in Injection(Clients, Handlers)
  BY ConnectionAssumption DEF FlowInit
<1>2. conn \in [Clients -> Handlers] /\ OwnConnection
  BY <1>1 DEF Injection, IsInjective, OwnConnection
<1> QED
  BY <1>2
  DEF FlowInit, Init, FlowInv, FlowTyped, WaitsForMessage, BusyHasMessage,
      HandlesCurrent, AnswerFits, AcknowledgedIsPublished, Phases, Unanswered,
      Labels

-----------------------------------------------------------------------------
(* Every step keeps the invariant                                          *)

Acknowledged(c) == flow[c].phase = "release" \/ wire[c] = "pubrec"

InHand(h, c) == pc[h] = "publish" /\ source[h] = Current(c)

Seen(c) == published[Current(c)] > 0 \/ \E h \in Handlers : InHand(h, c)

\* As long as no message is counted, the client stays with its message and no
\* handler drops one it is about to publish.
LEMMA SeenStays ==
  ASSUME NEW c \in Clients, Seen(c), flow'[c].serial = flow[c].serial,
         UNCHANGED published,
         \A h \in Handlers :
           pc[h] = "publish" => pc'[h] = "publish" /\ source'[h] = source[h]
  PROVE  Seen(c)'
  BY DEF Seen, InHand, Current

LEMMA AcknowledgedSeen ==
  AcknowledgedIsPublished <=> \A c \in Clients : Acknowledged(c) => Seen(c)
  BY DEF AcknowledgedIsPublished, Acknowledged, Seen, InHand

Flows == [phase : Phases, id : MessageIds \cup {NoId}, serial : Nat,
          sent : BOOLEAN, tried : BOOLEAN]

\* A client that marks its packet as sent or not stays typed, and so it does
\* when it moves to another phase.
LEMMA SentTyped ==
  ASSUME flow \in [Clients -> Flows], NEW c \in Clients
  PROVE  /\ [flow EXCEPT ![c].sent = FALSE] \in [Clients -> Flows]
         /\ [flow EXCEPT ![c].sent = TRUE, ![c].tried = TRUE] \in [Clients -> Flows]
<1>1. flow[c] \in Flows
  OBVIOUS
<1>2. [flow[c] EXCEPT !.sent = FALSE] \in Flows
  BY <1>1 DEF Flows
<1>3. [flow[c] EXCEPT !.sent = TRUE, !.tried = TRUE] \in Flows
  BY <1>1 DEF Flows
<1> QED
  BY <1>2, <1>3

LEMMA PhaseTyped ==
  ASSUME flow \in [Clients -> Flows], NEW c \in Clients
  PROVE  /\ [flow EXCEPT ![c].phase = "idle", ![c].sent = FALSE] \in [Clients -> Flows]
         /\ [flow EXCEPT ![c].phase = "release", ![c].sent = FALSE, ![c].tried = FALSE]
              \in [Clients -> Flows]
<1>1. flow[c] \in Flows
  OBVIOUS
<1>2. [flow[c] EXCEPT !.phase = "idle", !.sent = FALSE] \in Flows
  BY <1>1 DEF Flows, Phases
<1>3. [flow[c] EXCEPT !.phase = "release", !.sent = FALSE, !.tried = FALSE] \in Flows
  BY <1>1 DEF Flows, Phases
<1> QED
  BY <1>2, <1>3

LEMMA ClientKeepsFlowInv ==
  ASSUME FlowInv, NEW c \in Clients, ClientStep(c)
  PROVE  FlowInv'
<1>1. CASE NewMessage(c)
  <2> DEFINE new == flow[c].serial + 1
  <2>0. PICK id \in MessageIds :
          flow' = [flow EXCEPT ![c] = [phase |-> "publish", id |-> id, serial |-> new,
                                       sent |-> FALSE, tried |-> FALSE]]
    BY <1>1 DEF NewMessage
  <2>1. /\ flow[c].serial \in Nat /\ new \in 1 .. MaxMessages[c]
        /\ flow[c].phase = "idle" /\ UNCHANGED <<vars, conn, wire, source, published>>
    BY <1>1, MessageOf DEF FlowInv, FlowTyped, NewMessage
  <2>2. /\ flow'[c].phase = "publish" /\ flow'[c].id = id /\ Current(c)' = <<c, new>>
        /\ \A d \in Clients \ {c} : flow'[d] = flow[d] /\ Current(d)' = Current(d)
    BY <2>0 DEF FlowInv, FlowTyped, Current
  <2>7. <<c, new>> \in Messages
    BY <2>1, MessageOf
  <2>8. FlowTyped'
    <3>1. flow' \in [Clients -> Flows]
      BY <2>0, <2>1 DEF FlowInv, FlowTyped, Flows, Phases
    <3> QED
      BY <2>1, <3>1 DEF FlowInv, FlowTyped, Flows, vars
  <2> HIDE DEF new
  <2>9. WaitsForMessage' /\ OwnConnection' /\ BusyHasMessage'
    BY <2>1, <2>2, <2>7
    DEF FlowInv, FlowTyped, OwnConnection, WaitsForMessage, BusyHasMessage, vars
  <2>10. HandlesCurrent' /\ AnswerFits'
    BY <2>1, <2>2 DEF FlowInv, FlowTyped, HandlesCurrent, AnswerFits, Unanswered, vars
  <2>3. ASSUME NEW d \in Clients, Acknowledged(d)' PROVE Seen(d)'
    <3>1. Acknowledged(d) /\ flow'[d].serial = flow[d].serial
      BY <1>1, MessageOf, <2>3
      DEF Acknowledged, FlowInv, FlowTyped, WaitsForMessage, AnswerFits,
          NewMessage, vars
    <3>2. UNCHANGED published /\ \A h \in Handlers :
            pc[h] = "publish" => pc'[h] = "publish" /\ source'[h] = source[h]
      BY <1>1, MessageOf
      DEF FlowInv, FlowTyped, NewMessage, vars
    <3> QED
      BY <3>1, <3>2, SeenStays, AcknowledgedSeen DEF FlowInv
  <2> QED
    BY <2>3, <2>8, <2>9, <2>10
    DEF FlowInv, AcknowledgedIsPublished, Acknowledged, Seen, InHand
<1>2. CASE ReceivePubrec(c)
  <2>1. FlowTyped'
    <3>1. flow' \in [Clients -> Flows]
      BY <1>2, PhaseTyped DEF FlowInv, FlowTyped, Flows, Phases, ReceivePubrec
    <3> QED
      BY <1>2, <3>1 DEF FlowInv, FlowTyped, Flows, Labels, ReceivePubrec, vars
  <2>2. /\ OwnConnection' /\ WaitsForMessage' /\ BusyHasMessage'
        /\ HandlesCurrent' /\ AnswerFits'
    BY <1>2
    DEF FlowInv, FlowTyped, OwnConnection, WaitsForMessage, BusyHasMessage,
        HandlesCurrent, AnswerFits, Current, Phases, Unanswered, Labels,
        ReceivePubrec, vars
  <2>3. ASSUME NEW d \in Clients, Acknowledged(d)' PROVE Seen(d)'
    <3>1. Acknowledged(d) /\ flow'[d].serial = flow[d].serial
      BY <1>2, <2>3
      DEF Acknowledged, FlowInv, FlowTyped, WaitsForMessage, AnswerFits,
          ReceivePubrec, vars
    <3>2. UNCHANGED published /\ \A h \in Handlers :
            pc[h] = "publish" => pc'[h] = "publish" /\ source'[h] = source[h]
      BY <1>2 DEF FlowInv, FlowTyped, ReceivePubrec, vars
    <3> QED
      BY <3>1, <3>2, SeenStays, AcknowledgedSeen DEF FlowInv
  <2> QED
    BY <2>1, <2>2, <2>3
    DEF FlowInv, AcknowledgedIsPublished, Acknowledged, Seen, InHand
<1>3. CASE ReceivePubcomp(c)
  <2>1. FlowTyped'
    <3>1. flow' \in [Clients -> Flows]
      BY <1>3, PhaseTyped DEF FlowInv, FlowTyped, Flows, Phases, ReceivePubcomp
    <3> QED
      BY <1>3, <3>1 DEF FlowInv, FlowTyped, Flows, Labels, ReceivePubcomp, vars
  <2>2. /\ OwnConnection' /\ WaitsForMessage' /\ BusyHasMessage'
        /\ HandlesCurrent' /\ AnswerFits'
    BY <1>3
    DEF FlowInv, FlowTyped, OwnConnection, WaitsForMessage, BusyHasMessage,
        HandlesCurrent, AnswerFits, Current, Phases, Unanswered, Labels,
        ReceivePubcomp, vars
  <2>3. ASSUME NEW d \in Clients, Acknowledged(d)' PROVE Seen(d)'
    <3>1. Acknowledged(d) /\ flow'[d].serial = flow[d].serial
      BY <1>3, <2>3
      DEF Acknowledged, FlowInv, FlowTyped, WaitsForMessage, AnswerFits,
          ReceivePubcomp, vars
    <3>2. UNCHANGED published /\ \A h \in Handlers :
            pc[h] = "publish" => pc'[h] = "publish" /\ source'[h] = source[h]
      BY <1>3 DEF FlowInv, FlowTyped, ReceivePubcomp, vars
    <3> QED
      BY <3>1, <3>2, SeenStays, AcknowledgedSeen DEF FlowInv
  <2> QED
    BY <2>1, <2>2, <2>3
    DEF FlowInv, AcknowledgedIsPublished, Acknowledged, Seen, InHand
<1>4. CASE Reconnect(c)
  <2>1. FlowTyped'
    <3>1. flow' \in [Clients -> Flows]
      BY <1>4, SentTyped DEF FlowInv, FlowTyped, Flows, Reconnect
    <3> QED
      BY <1>4, <3>1 DEF FlowInv, FlowTyped, Flows, Labels, Reconnect, vars
  <2>2. /\ OwnConnection' /\ WaitsForMessage' /\ BusyHasMessage'
        /\ HandlesCurrent' /\ AnswerFits'
    BY <1>4
    DEF FlowInv, FlowTyped, OwnConnection, WaitsForMessage, BusyHasMessage,
        HandlesCurrent, AnswerFits, Current, Phases, Unanswered, Labels,
        Reconnect, vars
  <2>3. ASSUME NEW d \in Clients, Acknowledged(d)' PROVE Seen(d)'
    <3>1. Acknowledged(d) /\ flow'[d].serial = flow[d].serial
      BY <1>4, <2>3
      DEF Acknowledged, FlowInv, FlowTyped, WaitsForMessage, AnswerFits,
          Reconnect, vars
    <3>2. UNCHANGED published /\ \A h \in Handlers :
            pc[h] = "publish" => pc'[h] = "publish" /\ source'[h] = source[h]
      BY <1>4 DEF FlowInv, FlowTyped, Reconnect, vars
    <3> QED
      BY <3>1, <3>2, SeenStays, AcknowledgedSeen DEF FlowInv
  <2> QED
    BY <2>1, <2>2, <2>3
    DEF FlowInv, AcknowledgedIsPublished, Acknowledged, Seen, InHand
<1>5. CASE PublishAccepted(c)
  <2>1. FlowTyped'
    <3>1. flow' \in [Clients -> Flows]
      BY <1>5, SentTyped DEF FlowInv, FlowTyped, Flows, PublishAccepted, Sends
    <3> QED
      BY <1>5, <3>1 DEF FlowInv, FlowTyped, Flows, Labels, WaitsForMessage, PublishAccepted,
          Sends, CheckSave, Current
  <2>2. /\ OwnConnection' /\ WaitsForMessage' /\ BusyHasMessage'
        /\ HandlesCurrent' /\ AnswerFits'
    BY <1>5
    DEF FlowInv, FlowTyped, OwnConnection, WaitsForMessage, BusyHasMessage,
        HandlesCurrent, AnswerFits, Current, Phases, Unanswered, Labels,
        PublishAccepted, Sends, CheckSave, Current
  <2>3. ASSUME NEW d \in Clients, Acknowledged(d)' PROVE Seen(d)'
    <3>1. Acknowledged(d) /\ flow'[d].serial = flow[d].serial
      BY <1>5, <2>3
      DEF Acknowledged, FlowInv, FlowTyped, WaitsForMessage, AnswerFits,
          PublishAccepted, Sends, CheckSave, Current
    <3>2. UNCHANGED published /\ \A h \in Handlers :
            pc[h] = "publish" => pc'[h] = "publish" /\ source'[h] = source[h]
      BY <1>5 DEF FlowInv, FlowTyped, PublishAccepted, Sends, CheckSave, Current
    <3> QED
      BY <3>1, <3>2, SeenStays, AcknowledgedSeen DEF FlowInv
  <2> QED
    BY <2>1, <2>2, <2>3
    DEF FlowInv, AcknowledgedIsPublished, Acknowledged, Seen, InHand
<1>6. CASE PublishRefused(c)
  <2>1. FlowTyped'
    <3>1. flow' \in [Clients -> Flows]
      BY <1>6, SentTyped DEF FlowInv, FlowTyped, Flows, PublishRefused, Sends
    <3> QED
      BY <1>6, <3>1 DEF FlowInv, FlowTyped, Flows, Labels, PublishRefused, Sends, vars
  <2>2. /\ OwnConnection' /\ WaitsForMessage' /\ BusyHasMessage'
        /\ HandlesCurrent' /\ AnswerFits'
    BY <1>6
    DEF FlowInv, FlowTyped, OwnConnection, WaitsForMessage, BusyHasMessage,
        HandlesCurrent, AnswerFits, Current, Phases, Unanswered, Labels,
        PublishRefused, Sends, vars
  <2>3. ASSUME NEW d \in Clients, Acknowledged(d)' PROVE Seen(d)'
    <3>1. Acknowledged(d) /\ flow'[d].serial = flow[d].serial
      BY <1>6, <2>3
      DEF Acknowledged, FlowInv, FlowTyped, WaitsForMessage, AnswerFits,
          PublishRefused, Sends, vars
    <3>2. UNCHANGED published /\ \A h \in Handlers :
            pc[h] = "publish" => pc'[h] = "publish" /\ source'[h] = source[h]
      BY <1>6 DEF FlowInv, FlowTyped, PublishRefused, Sends, vars
    <3> QED
      BY <3>1, <3>2, SeenStays, AcknowledgedSeen DEF FlowInv
  <2> QED
    BY <2>1, <2>2, <2>3
    DEF FlowInv, AcknowledgedIsPublished, Acknowledged, Seen, InHand
<1>7. CASE PubrelHandled(c)
  <2>1. FlowTyped'
    <3>1. flow' \in [Clients -> Flows]
      BY <1>7, SentTyped DEF FlowInv, FlowTyped, Flows, PubrelHandled, Sends
    <3> QED
      BY <1>7, <3>1 DEF FlowInv, FlowTyped, Flows, Labels, PubrelHandled, Sends, Pubrel
  <2>2. /\ OwnConnection' /\ WaitsForMessage' /\ BusyHasMessage'
        /\ HandlesCurrent' /\ AnswerFits'
    BY <1>7
    DEF FlowInv, FlowTyped, OwnConnection, WaitsForMessage, BusyHasMessage,
        HandlesCurrent, AnswerFits, Current, Phases, Unanswered, Labels,
        PubrelHandled, Sends, Pubrel
  <2>3. ASSUME NEW d \in Clients, Acknowledged(d)' PROVE Seen(d)'
    <3>1. Acknowledged(d) /\ flow'[d].serial = flow[d].serial
      BY <1>7, <2>3
      DEF Acknowledged, FlowInv, FlowTyped, WaitsForMessage, AnswerFits,
          PubrelHandled, Sends, Pubrel
    <3>2. UNCHANGED published /\ \A h \in Handlers :
            pc[h] = "publish" => pc'[h] = "publish" /\ source'[h] = source[h]
      BY <1>7 DEF FlowInv, FlowTyped, PubrelHandled, Sends, Pubrel
    <3> QED
      BY <3>1, <3>2, SeenStays, AcknowledgedSeen DEF FlowInv
  <2> QED
    BY <2>1, <2>2, <2>3
    DEF FlowInv, AcknowledgedIsPublished, Acknowledged, Seen, InHand
<1> QED
  BY <1>1, <1>2, <1>3, <1>4, <1>5, <1>6, <1>7 DEF ClientStep

LEMMA HandlerKeepsFlowInv ==
  ASSUME FlowInv, NEW h \in Handlers,
         StoreMsgFlow(h) \/ ArmTimerFlow(h) \/ WritePubrecFlow(h) \/ PublishFlow(h)
  PROVE  FlowInv'
<1>1. CASE StoreMsgFlow(h)
  <2>1. FlowTyped'
    BY <1>1
    DEF FlowInv, FlowTyped, Phases, Labels, StoreMsgFlow, StoreMsg, clientVars
  <2>2. /\ OwnConnection' /\ WaitsForMessage' /\ BusyHasMessage'
        /\ HandlesCurrent' /\ AnswerFits'
    BY <1>1
    DEF FlowInv, FlowTyped, OwnConnection, WaitsForMessage, BusyHasMessage,
        HandlesCurrent, AnswerFits, Current, Phases, Unanswered, Labels,
        StoreMsgFlow, StoreMsg, clientVars
  <2>3. ASSUME NEW d \in Clients, Acknowledged(d)' PROVE Seen(d)'
    <3>1. Acknowledged(d) /\ flow'[d].serial = flow[d].serial
      BY <1>1, <2>3
      DEF Acknowledged, FlowInv, FlowTyped, WaitsForMessage, AnswerFits,
          StoreMsgFlow, StoreMsg, clientVars
    <3>2. UNCHANGED published /\ \A g \in Handlers :
            pc[g] = "publish" => pc'[g] = "publish" /\ source'[g] = source[g]
      BY <1>1 DEF FlowInv, FlowTyped, StoreMsgFlow, StoreMsg, clientVars
    <3> QED
      BY <3>1, <3>2, SeenStays, AcknowledgedSeen DEF FlowInv
  <2> QED
    BY <2>1, <2>2, <2>3
    DEF FlowInv, AcknowledgedIsPublished, Acknowledged, Seen, InHand
<1>2. CASE ArmTimerFlow(h)
  <2>1. FlowTyped'
    BY <1>2
    DEF FlowInv, FlowTyped, Phases, Labels, ArmTimerFlow, ArmTimer, clientVars
  <2>2. /\ OwnConnection' /\ WaitsForMessage' /\ BusyHasMessage'
        /\ HandlesCurrent' /\ AnswerFits'
    BY <1>2
    DEF FlowInv, FlowTyped, OwnConnection, WaitsForMessage, BusyHasMessage,
        HandlesCurrent, AnswerFits, Current, Phases, Unanswered, Labels,
        ArmTimerFlow, ArmTimer, clientVars
  <2>3. ASSUME NEW d \in Clients, Acknowledged(d)' PROVE Seen(d)'
    <3>1. Acknowledged(d) /\ flow'[d].serial = flow[d].serial
      BY <1>2, <2>3
      DEF Acknowledged, FlowInv, FlowTyped, WaitsForMessage, AnswerFits,
          ArmTimerFlow, ArmTimer, clientVars
    <3>2. UNCHANGED published /\ \A g \in Handlers :
            pc[g] = "publish" => pc'[g] = "publish" /\ source'[g] = source[g]
      BY <1>2 DEF FlowInv, FlowTyped, ArmTimerFlow, ArmTimer, clientVars
    <3> QED
      BY <3>1, <3>2, SeenStays, AcknowledgedSeen DEF FlowInv
  <2> QED
    BY <2>1, <2>2, <2>3
    DEF FlowInv, AcknowledgedIsPublished, Acknowledged, Seen, InHand
<1>3. CASE WritePubrecFlow(h)
  <2>1. FlowTyped'
    <3>1. PICK written \in BOOLEAN :
            /\ UNCHANGED <<conn, flow, published>>
            /\ pc' = [pc EXCEPT ![h] = IF written THEN "publish" ELSE "idle"]
            /\ msg' = [msg EXCEPT ![h] = IF written THEN @ ELSE NoId]
            /\ source' = [source EXCEPT ![h] = IF written THEN @ ELSE Nobody]
            /\ \/ wire' = [wire EXCEPT ![source[h][1]] = "pubrec"]
               \/ wire' = wire
      BY <1>3 DEF WritePubrecFlow, WritePubrec
    <3>2. wire' \in [Clients -> {"none", "pubrec", "pubcomp"}]
      BY <3>1 DEF FlowInv, FlowTyped
    <3>3. CASE written
      BY <3>1, <3>2, <3>3 DEF FlowInv, FlowTyped, Labels
    <3>4. CASE ~ written
      BY <3>1, <3>2, <3>4 DEF FlowInv, FlowTyped, Labels
    <3> QED
      BY <3>3, <3>4
  <2>2. /\ OwnConnection' /\ WaitsForMessage' /\ BusyHasMessage'
        /\ HandlesCurrent' /\ AnswerFits'
    BY <1>3
    DEF FlowInv, FlowTyped, OwnConnection, WaitsForMessage, BusyHasMessage,
        HandlesCurrent, AnswerFits, Current, Phases, Unanswered, Labels,
        WritePubrecFlow, WritePubrec
  <2>3. ASSUME NEW d \in Clients, Acknowledged(d)' PROVE Seen(d)'
    <3>1. CASE Acknowledged(d)
      BY <1>3, <3>1, SeenStays, AcknowledgedSeen
      DEF FlowInv, FlowTyped, WritePubrecFlow, WritePubrec
    <3>2. CASE ~ Acknowledged(d)
      <4>1. conn[d] = h /\ pc[h] = "pubrec" /\ pc'[h] = "publish" /\ source' = source
        BY <1>3, <2>3, <3>2
        DEF Acknowledged, FlowInv, FlowTyped, OwnConnection, HandlesCurrent,
            Unanswered, Current, WritePubrecFlow, WritePubrec
      <4>2. source[h] = Current(d) /\ Current(d)' = Current(d)
        BY <1>3, <4>1
        DEF FlowInv, HandlesCurrent, Unanswered, Current, WritePubrecFlow
      <4> QED
        BY <4>1, <4>2 DEF Seen, InHand
    <3> QED
      BY <3>1, <3>2
  <2> QED
    BY <2>1, <2>2, <2>3
    DEF FlowInv, AcknowledgedIsPublished, Acknowledged, Seen, InHand
<1>4. CASE PublishFlow(h)
  <2>1. FlowTyped'
    BY <1>4
    DEF FlowInv, FlowTyped, Phases, Labels, BusyHasMessage, PublishFlow,
        Publish, clientVars
  <2>2. /\ OwnConnection' /\ WaitsForMessage' /\ BusyHasMessage'
        /\ HandlesCurrent' /\ AnswerFits'
    BY <1>4
    DEF FlowInv, FlowTyped, OwnConnection, WaitsForMessage, BusyHasMessage,
        HandlesCurrent, AnswerFits, Current, Phases, Unanswered, Labels,
        PublishFlow, Publish, clientVars
  <2>3. ASSUME NEW d \in Clients, Acknowledged(d)' PROVE Seen(d)'
    <3>1. Acknowledged(d) /\ Current(d)' = Current(d)
      BY <1>4, <2>3 DEF Acknowledged, Current, PublishFlow, clientVars
    <3>2. Seen(d)
      BY <3>1, AcknowledgedSeen DEF FlowInv
    <3>3. source[h] \in Messages /\ Current(d) \in Messages
      BY <1>4, <3>1
      DEF FlowInv, BusyHasMessage, WaitsForMessage, AnswerFits, Acknowledged,
          PublishFlow, Publish
    <3>4. CASE InHand(h, d) \/ published[Current(d)] > 0
      BY <1>4, <3>1, <3>3, <3>4 DEF FlowInv, FlowTyped, Seen, InHand, PublishFlow
    <3>5. ASSUME NEW g \in Handlers \ {h}, InHand(g, d) PROVE Seen(d)'
      BY <1>4, <3>1, <3>5
      DEF FlowInv, FlowTyped, Seen, InHand, PublishFlow, Publish
    <3> QED
      BY <3>2, <3>4, <3>5 DEF Seen
  <2> QED
    BY <2>1, <2>2, <2>3
    DEF FlowInv, AcknowledgedIsPublished, Acknowledged, Seen, InHand
<1> QED
  BY <1>1, <1>2, <1>3, <1>4

LEMMA NextFlowInv == FlowInv /\ [FlowNext]_flowVars => FlowInv'
<1> SUFFICES ASSUME FlowInv, [FlowNext]_flowVars PROVE FlowInv'
  OBVIOUS
<1>1. ASSUME UNCHANGED <<pc, msg, clientVars, source, published>> PROVE FlowInv'
  BY <1>1
  DEF FlowInv, FlowTyped, OwnConnection, WaitsForMessage, BusyHasMessage,
      HandlesCurrent, AnswerFits, AcknowledgedIsPublished, Current, clientVars
<1>2. ASSUME NEW t \in Timers, TimerStepFlow(t) PROVE FlowInv'
  BY <1>1, <1>2
  DEF TimerStepFlow, TimerStep, Fire, FindExpired, DeleteExpired, EndSweep
<1>3. CASE TickFlow
  BY <1>1, <1>3 DEF TickFlow, Tick
<1>4. CASE UNCHANGED flowVars
  BY <1>1, <1>4 DEF flowVars, vars
<1> QED
  BY <1>2, <1>3, <1>4, ClientKeepsFlowInv, HandlerKeepsFlowInv DEF FlowNext

-----------------------------------------------------------------------------
(***************************************************************************)
(* ProcessPublish and ProcessPubrel (processor.go:117-127, 221): a client  *)
(* that has got the PUBREC of its message, or asks for PUBCOMP over a new  *)
(* connection, can forget it: it was or will be published.                 *)
(***************************************************************************)
THEOREM AcknowledgedPublishes == FlowSpec => []AcknowledgedIsPublished
<1>1. FlowInv => AcknowledgedIsPublished
  BY DEF FlowInv
<1> QED
  BY InitFlowInv, NextFlowInv, <1>1, PTL DEF FlowSpec

-----------------------------------------------------------------------------
(* The clients are an environment of Qos2: they add nothing to its steps.  *)

LEMMA FlowStepIsStep == FlowInv /\ [FlowNext]_flowVars => [Next]_vars
<1> SUFFICES ASSUME FlowInv, [FlowNext]_flowVars PROVE [Next]_vars
  OBVIOUS
<1>1. ASSUME NEW c \in Clients, ClientStep(c) PROVE [Next]_vars
  <2>1. conn[c] \in Handlers /\ (flow[c].phase # "idle" => flow[c].id \in MessageIds)
    BY DEF FlowInv, FlowTyped, WaitsForMessage
  <2>2. CASE PublishAccepted(c) \/ PubrelHandled(c)
    BY <2>1, <2>2 DEF PublishAccepted, PubrelHandled, Sends, Next
  <2>3. CASE \/ NewMessage(c) \/ ReceivePubrec(c) \/ ReceivePubcomp(c)
             \/ Reconnect(c) \/ PublishRefused(c)
    BY <2>3
    DEF NewMessage, ReceivePubrec, ReceivePubcomp, Reconnect, PublishRefused
  <2> QED
    BY <1>1, <2>2, <2>3 DEF ClientStep
<1>2. ASSUME NEW h \in Handlers,
             StoreMsgFlow(h) \/ ArmTimerFlow(h) \/ WritePubrecFlow(h) \/ PublishFlow(h)
      PROVE  Next
  BY <1>2
  DEF StoreMsgFlow, ArmTimerFlow, WritePubrecFlow, PublishFlow, HandlerStep, Next
<1>3. ASSUME NEW t \in Timers, TimerStepFlow(t) PROVE Next
  BY <1>3 DEF TimerStepFlow, Next
<1>4. CASE TickFlow
  BY <1>4 DEF TickFlow, Next
<1>5. CASE UNCHANGED flowVars
  BY <1>5 DEF flowVars
<1> QED
  BY <1>1, <1>2, <1>3, <1>4, <1>5 DEF FlowNext

(***************************************************************************)
(* Whatever holds of the table with arbitrary packets holds with these     *)
(* clients (processor.go:117-127, 221-230).                                *)
(***************************************************************************)
THEOREM FlowImplementsQos2 == FlowSpec => Spec
<1>1. FlowInit => Init
  BY DEF FlowInit
<1> QED
  BY <1>1, InitFlowInv, NextFlowInv, FlowStepIsStep, PTL DEF FlowSpec, Spec

(***************************************************************************)
(* saveQos2Msg and expireQos2Msg (processor.go:48-63): with clients that   *)
(* lose their connections and send again, too, every message in flight is  *)
(* seen to.                                                                *)
(***************************************************************************)
THEOREM FlowMessagesSeenTo == FlowSpec => []NoMessageForgotten
  BY FlowImplementsQos2, EveryMessageSeenTo, PTL

-----------------------------------------------------------------------------
(* A message that is sent for the first time                               *)

\* What a handler is about to store is its client's, who has not left it, or
\* comes too late.
LateStores ==
  \A h \in Handlers : pc[h] = "store" =>
    msg[h] \in late \/ \E c \in Clients : conn[c] = h /\ msg[h] = flow[c].id

\* A client that has tried to publish with the id, or has the PUBREC and has
\* yet to send its PUBREL.
Owns(c, id) ==
  /\ flow[c].id = id
  /\ \/ flow[c].phase = "publish" /\ flow[c].tried
     \/ flow[c].phase = "release" /\ ~ flow[c].tried

Owned == \A id \in InFlight : id \in late \/ \E c \in Clients : Owns(c, id)

FirstInv == FlowInv /\ IInv /\ LateStores /\ Owned

LEMMA InitFirstInv == FlowInit => FirstInv
<1> SUFFICES ASSUME FlowInit PROVE FirstInv
  OBVIOUS
<1>1. FlowInv /\ IInv
  BY InitFlowInv, InitIInv DEF FlowInit
<1>2. LateStores /\ Owned
  BY DEF FlowInit, Init, LateStores, Owned, InFlight
<1> QED
  BY <1>1, <1>2 DEF FirstInv

\* A step of a timer leaves all but the table and the exposed messages alone.
LEMMA TimerDeletes ==
  ASSUME IInv, NEW t \in Timers, TimerStepFlow(t)
  PROVE  /\ UNCHANGED <<pc, msg, conn, flow, wire, source, published, late>>
         /\ exposed \subseteq exposed'
         /\ InFlight' \subseteq InFlight
         /\ timer[t].state # "deleting" => InFlight' = InFlight
         /\ timer[t].state = "deleting" =>
              /\ \A id \in InFlight : id # timer[t].victim => id \in InFlight'
              /\ exposed' = exposed \cup LoseId(timer[t].victim)
<1>1. /\ UNCHANGED <<pc, msg, conn, flow, wire, source, published, late>>
      /\ exposed' = IF timer[t].state = "deleting"
                    THEN exposed \cup LoseId(timer[t].victim) ELSE exposed
  BY DEF TimerStepFlow, clientVars, TimerStep, Fire, FindExpired, DeleteExpired, EndSweep
<1>2. CASE DeleteExpired(t)
  <2>1. timer[t].state = "deleting"
        /\ qos2Msgs' = [qos2Msgs EXCEPT ![timer[t].victim] = Absent]
    BY <1>2 DEF DeleteExpired
  <2>2. \A id \in InFlight : id # timer[t].victim => id \in InFlight'
    BY <2>1 DEF InFlight, IInv, TypeOK
  <2>3. InFlight' \subseteq InFlight
    BY <2>1 DEF InFlight, IInv, TypeOK
  <2> QED
    BY <1>1, <2>1, <2>2, <2>3
<1>3. CASE ~ DeleteExpired(t)
  <2>1. timer[t].state # "deleting" /\ UNCHANGED qos2Msgs
    BY <1>3 DEF TimerStepFlow, TimerStep, Fire, FindExpired, EndSweep
  <2>2. InFlight' = InFlight
    BY <2>1 DEF InFlight
  <2> QED
    BY <1>1, <2>1, <2>2
<1> QED
  BY <1>2, <1>3

LEMMA LateStoresStay ==
  ASSUME LateStores, late \subseteq late',
         \A h \in Handlers : pc'[h] = "store" => pc[h] = "store" /\ msg'[h] = msg[h],
         \A c \in Clients : conn'[c] = conn[c] /\ flow'[c].id = flow[c].id
  PROVE  LateStores'
  BY DEF LateStores

LEMMA OwnedStays ==
  ASSUME Owned, late \subseteq late', InFlight' \subseteq InFlight,
         \A c \in Clients : \A id \in InFlight' : Owns(c, id) =>
           /\ flow'[c].id = id
           /\ \/ flow'[c].phase = "publish" /\ flow'[c].tried
              \/ flow'[c].phase = "release" /\ ~ flow'[c].tried
  PROVE  Owned'
  BY DEF Owned, Owns

LEMMA ClientKeepsFirst ==
  ASSUME FirstInv, NEW c \in Clients, ClientStep(c)
  PROVE  LateStores' /\ Owned'
<1>0. /\ FlowInv /\ FlowTyped /\ LateStores /\ Owned
      /\ qos2Msgs \in [MessageIds -> Nat \cup {Absent}]
  BY DEF FirstInv, FlowInv, IInv, TypeOK
<1>1. CASE NewMessage(c)
  <2>1. PICK f \in Flows :
          flow' = [flow EXCEPT ![c] = f]
          /\ UNCHANGED <<qos2Msgs, pc, msg, conn, late>> /\ flow[c].phase = "idle"
    <3>1. PICK id \in MessageIds :
            flow' = [flow EXCEPT ![c] = [phase |-> "publish", id |-> id,
                       serial |-> flow[c].serial + 1, sent |-> FALSE, tried |-> FALSE]]
      BY <1>1 DEF NewMessage
    <3>2. [phase |-> "publish", id |-> id, serial |-> flow[c].serial + 1,
           sent |-> FALSE, tried |-> FALSE] \in Flows
      BY <1>0 DEF FlowTyped, Flows, Phases
    <3>3. UNCHANGED <<qos2Msgs, pc, msg, conn, late>> /\ flow[c].phase = "idle"
      BY <1>1 DEF NewMessage, vars, history
    <3> QED
      BY <3>1, <3>2, <3>3
  <2>2. \A d \in Clients : d # c => flow'[d] = flow[d]
    BY <1>0, <2>1 DEF FlowTyped
  <2>3. InFlight' = InFlight
    BY <2>1 DEF InFlight
  <2>4. Owned'
    BY <1>0, <2>1, <2>2, <2>3 DEF Owned, Owns
  <2>5. LateStores'
    BY <1>0, <2>1, <2>2 DEF LateStores, FlowInv, HandlesCurrent, Unanswered
  <2> QED
    BY <2>4, <2>5
<1>2. CASE ReceivePubrec(c)
  <2>1. /\ UNCHANGED <<qos2Msgs, pc, msg, conn, late>>
        /\ flow[c].phase = "publish" /\ flow[c].tried
        /\ flow' = [flow EXCEPT ![c].phase = "release", ![c].sent = FALSE, ![c].tried = FALSE]
    BY <1>0, <1>2 DEF ReceivePubrec, vars, history, FlowInv, AnswerFits
  <2>2. InFlight' = InFlight
    BY <2>1 DEF InFlight
  <2>3. flow'[c].id = flow[c].id /\ flow'[c].phase = "release" /\ flow'[c].tried = FALSE
        /\ \A d \in Clients \ {c} : flow'[d] = flow[d]
    BY <1>0, <2>1 DEF FlowTyped
  <2> QED
    BY <1>0, <2>1, <2>2, <2>3, OwnedStays, LateStoresStay DEF Owns
<1>3. CASE ReceivePubcomp(c)
  <2>1. /\ UNCHANGED <<qos2Msgs, pc, msg, conn, late>>
        /\ flow[c].phase = "release" /\ flow[c].tried
        /\ flow' = [flow EXCEPT ![c].phase = "idle", ![c].sent = FALSE]
    BY <1>0, <1>3 DEF ReceivePubcomp, vars, history, FlowInv, AnswerFits
  <2>2. InFlight' = InFlight
    BY <2>1 DEF InFlight
  <2>3. flow'[c].id = flow[c].id /\ \A d \in Clients \ {c} : flow'[d] = flow[d]
    BY <1>0, <2>1 DEF FlowTyped
  <2> QED
    BY <1>0, <2>1, <2>2, <2>3, OwnedStays, LateStoresStay DEF Owns
<1>4. CASE Reconnect(c)
  <2>1. /\ UNCHANGED <<qos2Msgs, pc, msg>> /\ late \subseteq late'
        /\ flow' = [flow EXCEPT ![c].sent = FALSE]
        /\ \A d \in Clients \ {c} : conn'[d] = conn[d]
        /\ Storing(conn[c], c) => msg[conn[c]] \in late'
    BY <1>0, <1>4 DEF Reconnect, vars, history, FlowTyped
  <2>2. InFlight' = InFlight
    BY <2>1 DEF InFlight
  <2>3. \A d \in Clients : flow'[d].id = flow[d].id /\ flow'[d].phase = flow[d].phase
          /\ flow'[d].tried = flow[d].tried
    BY <1>0, <2>1 DEF FlowTyped
  <2>4. pc[conn[c]] = "store" => Storing(conn[c], c)
    BY <1>0 DEF FlowInv, HandlesCurrent, Unanswered, Storing
  <2>5. LateStores'
    BY <1>0, <2>1, <2>3, <2>4 DEF LateStores
  <2> QED
    BY <1>0, <2>1, <2>2, <2>3, <2>5, OwnedStays DEF Owns
<1>5. CASE PublishAccepted(c) \/ PublishRefused(c)
  <2>1. /\ UNCHANGED <<qos2Msgs, conn, late>> /\ flow[c].phase = "publish"
        /\ flow' = [flow EXCEPT ![c].sent = TRUE, ![c].tried = TRUE]
    BY <1>5 DEF PublishAccepted, PublishRefused, Sends, CheckSave, vars, history
  <2>2. InFlight' = InFlight
    BY <2>1 DEF InFlight
  <2>3. /\ flow'[c].id = flow[c].id /\ flow'[c].phase = flow[c].phase
        /\ flow'[c].tried = TRUE
        /\ \A d \in Clients \ {c} : flow'[d] = flow[d]
    BY <1>0, <2>1 DEF FlowTyped
  <2>4. Owned'
    BY <1>0, <2>1, <2>2, <2>3, OwnedStays DEF Owns
  <2>5. ASSUME NEW h \in Handlers, pc'[h] = "store"
        PROVE  \/ pc[h] = "store" /\ msg'[h] = msg[h]
               \/ h = conn[c] /\ msg'[h] = flow[c].id
    BY <1>0, <1>5, <2>5 DEF PublishAccepted, PublishRefused, CheckSave, vars, FlowTyped
  <2>6. UNCHANGED <<conn, late>> /\ \A d \in Clients : flow'[d].id = flow[d].id
    BY <2>1, <2>3
  <2>7. LateStores'
    BY <1>0, <2>5, <2>6 DEF LateStores
  <2> QED
    BY <2>4, <2>7
<1>6. CASE PubrelHandled(c)
  <2>1. /\ UNCHANGED <<pc, msg, conn, late>> /\ flow[c].phase = "release"
        /\ flow' = [flow EXCEPT ![c].sent = TRUE, ![c].tried = TRUE]
        /\ qos2Msgs' = [qos2Msgs EXCEPT ![flow[c].id] = Absent]
    BY <1>6 DEF PubrelHandled, Sends, Pubrel
  <2>2. InFlight' \subseteq InFlight /\ flow[c].id \notin InFlight'
    BY <1>0, <2>1 DEF InFlight
  <2>3. /\ flow'[c].id = flow[c].id
        /\ \A d \in Clients \ {c} : flow'[d] = flow[d]
    BY <1>0, <2>1 DEF FlowTyped
  <2> QED
    BY <1>0, <2>1, <2>2, <2>3, OwnedStays, LateStoresStay DEF Owns
<1> QED
  BY <1>1, <1>2, <1>3, <1>4, <1>5, <1>6 DEF ClientStep

LEMMA HandlerKeepsFirst ==
  ASSUME FirstInv, NEW h \in Handlers,
         StoreMsgFlow(h) \/ ArmTimerFlow(h) \/ WritePubrecFlow(h) \/ PublishFlow(h)
  PROVE  LateStores' /\ Owned'
<1>0. /\ FlowInv /\ FlowTyped /\ LateStores /\ Owned
      /\ qos2Msgs \in [MessageIds -> Nat \cup {Absent}]
  BY DEF FirstInv, FlowInv, IInv, TypeOK
<1>1. UNCHANGED <<conn, flow, late>>
  BY DEF StoreMsgFlow, ArmTimerFlow, WritePubrecFlow, PublishFlow, clientVars, history
<1>2. \A g \in Handlers : pc'[g] = "store" => pc[g] = "store" /\ msg'[g] = msg[g]
  BY <1>0 DEF FlowTyped, StoreMsgFlow, ArmTimerFlow, WritePubrecFlow, PublishFlow,
     StoreMsg, ArmTimer, WritePubrec, Publish
<1>3. LateStores'
  BY <1>0, <1>1, <1>2, LateStoresStay
<1>4. CASE StoreMsgFlow(h)
  <2>1. pc[h] = "store" /\ qos2Msgs' = [qos2Msgs EXCEPT ![msg[h]] = now]
    BY <1>4 DEF StoreMsgFlow, StoreMsg
  <2>2. \A id \in InFlight' : id \in InFlight \/ id = msg[h]
    BY <1>0, <2>1 DEF InFlight
  <2>3. msg[h] \in late \/ \E c \in Clients : Owns(c, msg[h])
    BY <1>0, <2>1 DEF LateStores, Owns, FlowInv, HandlesCurrent, Unanswered
  <2> QED
    BY <1>0, <1>1, <1>3, <2>2, <2>3 DEF Owned, Owns
<1>5. CASE ~ StoreMsgFlow(h)
  <2>1. qos2Msgs' = qos2Msgs
    BY <1>5 DEF ArmTimerFlow, WritePubrecFlow, PublishFlow, ArmTimer, WritePubrec, Publish
  <2>2. InFlight' = InFlight
    BY <2>1 DEF InFlight
  <2> QED
    BY <1>0, <1>1, <1>3, <2>2, OwnedStays DEF Owns
<1> QED
  BY <1>4, <1>5

LEMMA NextFirstInv == FirstInv /\ [FlowNext]_flowVars => FirstInv'
<1> SUFFICES ASSUME FirstInv, [FlowNext]_flowVars PROVE FirstInv'
  OBVIOUS
<1>1. FlowInv' /\ IInv'
  BY NextFlowInv, FlowStepIsStep, NextIInv DEF FirstInv
<1>2. ASSUME NEW t \in Timers, TimerStepFlow(t) PROVE LateStores' /\ Owned'
  <2>1. /\ UNCHANGED <<pc, msg, conn, flow, late>> /\ InFlight' \subseteq InFlight
    BY <1>2, TimerDeletes DEF FirstInv
  <2>2. LateStores'
    BY <2>1, LateStoresStay DEF FirstInv
  <2>3. Owned'
    BY <2>1, OwnedStays DEF FirstInv, Owns
  <2> QED
    BY <2>2, <2>3
<1>3. ASSUME TickFlow \/ UNCHANGED flowVars PROVE LateStores' /\ Owned'
  <2>1. UNCHANGED <<pc, msg, conn, flow, late, qos2Msgs>>
    BY <1>3 DEF TickFlow, Tick, clientVars, history, flowVars, vars
  <2>2. InFlight' = InFlight
    BY <2>1 DEF InFlight
  <2>3. LateStores'
    BY <2>1, LateStoresStay DEF FirstInv
  <2>4. Owned'
    BY <2>1, <2>2, OwnedStays DEF FirstInv, Owns
  <2> QED
    BY <2>3, <2>4
<1>4. LateStores' /\ Owned'
  BY <1>2, <1>3, ClientKeepsFirst, HandlerKeepsFirst DEF FlowNext
<1> QED
  BY <1>1, <1>4 DEF FirstInv

(***************************************************************************)
(* saveQos2Msg (processor.go:45): whatever ids the clients choose, however *)
(* often they reconnect and whichever handlers are late, a message that is *)
(* sent for the first time is taken for a duplicate only for the sake of   *)
(* another client, or of a message stored after its client reconnected.    *)
(***************************************************************************)
THEOREM FirstSends == FlowSpec => []RefusedForOthers
<1>1. FirstInv => RefusedForOthers
  <2> SUFFICES ASSUME FirstInv, NEW c \in Clients, flow[c].phase = "publish",
                      ~ flow[c].tried, flow[c].id \in InFlight
               PROVE  \/ \E d \in Clients \ {c} : flow[d].id = flow[c].id /\ flow[d].phase # "idle"
                      \/ flow[c].id \in late
    BY DEF RefusedForOthers
  <2>1. flow[c].id \in late \/ \E d \in Clients : Owns(d, flow[c].id)
    BY DEF FirstInv, Owned
  <2> QED
    BY <2>1 DEF Owns
<1> QED
  BY <1>1, InitFirstInv, NextFirstInv, PTL DEF FlowSpec

-----------------------------------------------------------------------------
(* A message that is published twice                                       *)

\* A handler has the message in hand, or it has been published.
Handled(m) == published[m] > 0 \/ \E h \in Handlers : source[h] = m

InOrder == \A m \in Messages : Handled(m) => m[2] <= flow[m[1]].serial

IdleHasNobody == \A h \in Handlers : pc[h] = "idle" => source[h] = Nobody

\* As long as the client may send its message again, the handler of its
\* connection is about to store it, or it is in the table.
Guarded(c) ==
  flow[c].phase = "publish" /\ Current(c) \notin exposed /\ Handled(Current(c)) =>
    Storing(conn[c], c) \/ flow[c].id \in InFlight

\* One handler has the message, once.
HandledOnce(m) ==
  /\ published[m] <= 1
  /\ \A h \in Handlers : source[h] = m =>
       published[m] = 0 /\ \A g \in Handlers : source[g] = m => g = h

OnceInv ==
  /\ FlowInv /\ IInv /\ InOrder /\ IdleHasNobody
  /\ \A c \in Clients : Guarded(c)
  /\ \A m \in Messages \ exposed : HandledOnce(m)

\* No message is nobody's.
LEMMA NobodyIsNone == Nobody \notin Messages
  BY MessageOf DEF Nobody

LEMMA InitOnceInv == FlowInit => OnceInv
<1> SUFFICES ASSUME FlowInit PROVE OnceInv
  OBVIOUS
<1>1. FlowInv /\ IInv
  BY InitFlowInv, InitIInv DEF FlowInit
<1>2. /\ \A m \in Messages : published[m] = 0
      /\ \A h \in Handlers : source[h] = Nobody
      /\ \A c \in Clients : flow[c].phase = "idle"
  BY DEF FlowInit
<1>3. \A m \in Messages : ~ Handled(m) /\ HandledOnce(m)
  BY <1>2, NobodyIsNone DEF Handled, HandledOnce
<1> QED
  BY <1>1, <1>2, <1>3 DEF OnceInv, InOrder, IdleHasNobody, Guarded

-----------------------------------------------------------------------------
(* What keeps the parts of the invariant                                   *)

\* No handler takes a message up, and none is counted.
LEMMA HandledStays ==
  ASSUME UNCHANGED published,
         \A h \in Handlers : source'[h] = source[h] \/ source'[h] = Nobody,
         NEW m \in Messages
  PROVE  /\ published'[m] > 0 \/ (\E h \in Handlers : source'[h] = m) => Handled(m)
         /\ HandledOnce(m) => HandledOnce(m)'
<1>1. \A h \in Handlers : source'[h] = m => source[h] = m
  BY NobodyIsNone
<1> QED
  BY <1>1 DEF Handled, HandledOnce

\* What a step keeps in which clients stay with their messages and no handler
\* takes one up.
LEMMA OnceStays ==
  ASSUME OnceInv, UNCHANGED published, exposed \subseteq exposed',
         \A h \in Handlers :
           source'[h] = source[h] \/ (source'[h] = Nobody /\ pc'[h] = "idle"),
         \A h \in Handlers : pc'[h] = "idle" => pc[h] = "idle" \/ source'[h] = Nobody,
         \A c \in Clients : flow[c].serial \in Nat /\ flow'[c].serial \in Nat
                              /\ flow'[c].serial >= flow[c].serial
  PROVE  /\ InOrder' /\ IdleHasNobody'
         /\ \A m \in Messages \ exposed' : HandledOnce(m)'
<1>1. \A m \in Messages :
        /\ published'[m] > 0 \/ (\E h \in Handlers : source'[h] = m) => Handled(m)
        /\ HandledOnce(m) => HandledOnce(m)'
  BY HandledStays
<1>2. ASSUME NEW m \in Messages,
             published'[m] > 0 \/ \E h \in Handlers : source'[h] = m
      PROVE  m[2] <= flow'[m[1]].serial
  <2>1. m[2] <= flow[m[1]].serial
    BY <1>1, <1>2 DEF OnceInv, InOrder
  <2>2. m[1] \in Clients /\ m[2] \in Nat
    BY MessageOf
  <2> QED
    BY <2>1, <2>2
<1>3. InOrder'
  BY <1>2 DEF InOrder, Handled
<1>4. IdleHasNobody'
  BY DEF OnceInv, IdleHasNobody
<1> QED
  BY <1>1, <1>3, <1>4 DEF OnceInv

\* A message that leaves the table is exposed, or has not been handled.
LEMMA LostIsExposed ==
  ASSUME NEW id, NEW c \in Clients, flow[c].phase = "publish", flow[c].id = id,
         id \in InFlight, Handled(Current(c))
  PROVE  Current(c) \in LoseId(id)
  BY DEF LoseId, Handled

-----------------------------------------------------------------------------
(* Every step keeps the invariant                                          *)

LEMMA ClientKeepsOnce ==
  ASSUME OnceInv, NEW c \in Clients, ClientStep(c)
  PROVE  /\ InOrder' /\ IdleHasNobody'
         /\ \A d \in Clients : Guarded(d)'
         /\ \A m \in Messages \ exposed' : HandledOnce(m)'
<1>0. /\ FlowInv /\ FlowTyped /\ InOrder /\ IdleHasNobody /\ OwnConnection
      /\ \A d \in Clients : Guarded(d)
      /\ qos2Msgs \in [MessageIds -> Nat \cup {Absent}]
      /\ \A d \in Clients : flow[d].serial \in Nat
  BY DEF OnceInv, FlowInv, FlowTyped, IInv, TypeOK
<1>1. CASE NewMessage(c)
  <2>1. /\ UNCHANGED <<qos2Msgs, pc, msg, conn, source, published, exposed>>
        /\ flow'[c].serial = flow[c].serial + 1
        /\ \A d \in Clients \ {c} : flow'[d] = flow[d]
    BY <1>0, <1>1 DEF NewMessage, vars, history, FlowTyped
  <2>2. InFlight' = InFlight
    BY <2>1 DEF InFlight
  <2>3. ASSUME NEW d \in Clients PROVE Guarded(d)'
    <3>1. CASE d = c
      <4>1. Current(c)' = <<c, flow[c].serial + 1>>
        BY <2>1 DEF Current
      <4>2. <<c, flow[c].serial + 1>> \in Messages
        BY <1>0, <1>1, MessageOf DEF NewMessage
      <4>3. ~ Handled(<<c, flow[c].serial + 1>>)
        BY <1>0, <4>2 DEF InOrder
      <4> QED
        BY <2>1, <3>1, <4>1, <4>3 DEF Guarded, Handled
    <3>2. CASE d # c
      BY <1>0, <2>1, <2>2, <3>2 DEF Guarded, Handled, Current, Storing
    <3> QED
      BY <3>1, <3>2
  <2>4. \A d \in Clients : flow'[d].serial \in Nat /\ flow'[d].serial >= flow[d].serial
    BY <1>0, <2>1
  <2> QED
    BY <1>0, <2>1, <2>3, <2>4, OnceStays
<1>2. CASE ReceivePubrec(c) \/ ReceivePubcomp(c)
  <2>1. /\ UNCHANGED <<qos2Msgs, pc, msg, conn, source, published, exposed>>
        /\ flow'[c].phase # "publish" /\ flow'[c].serial = flow[c].serial
        /\ \A d \in Clients \ {c} : flow'[d] = flow[d]
    BY <1>0, <1>2 DEF ReceivePubrec, ReceivePubcomp, vars, history, FlowTyped
  <2>2. InFlight' = InFlight
    BY <2>1 DEF InFlight
  <2>3. ASSUME NEW d \in Clients PROVE Guarded(d)'
    <3>1. CASE d = c
      BY <2>1, <3>1 DEF Guarded
    <3>2. CASE d # c
      BY <1>0, <2>1, <2>2, <3>2 DEF Guarded, Handled, Current, Storing
    <3> QED
      BY <3>1, <3>2
  <2>4. \A d \in Clients : flow'[d].serial \in Nat /\ flow'[d].serial >= flow[d].serial
    BY <1>0, <2>1
  <2> QED
    BY <1>0, <2>1, <2>3, <2>4, OnceStays
<1>3. CASE Reconnect(c)
  <2>1. /\ UNCHANGED <<qos2Msgs, pc, msg, source, published>> /\ exposed \subseteq exposed'
        /\ Storing(conn[c], c) => Current(c) \in exposed'
        /\ flow' = [flow EXCEPT ![c].sent = FALSE]
        /\ \A d \in Clients \ {c} : conn'[d] = conn[d]
    BY <1>0, <1>3 DEF Reconnect, vars, history, FlowTyped
  <2>2. InFlight' = InFlight
    BY <2>1 DEF InFlight
  <2>3. \A d \in Clients : /\ flow'[d].phase = flow[d].phase /\ flow'[d].id = flow[d].id
                           /\ flow'[d].serial = flow[d].serial
    BY <1>0, <2>1 DEF FlowTyped
  <2>4. ASSUME NEW d \in Clients PROVE Guarded(d)'
    <3>1. Current(d)' = Current(d)
      BY <2>3 DEF Current
    <3>2. CASE d = c
      BY <1>0, <2>1, <2>2, <2>3, <3>1, <3>2 DEF Guarded, Handled
    <3>3. CASE d # c
      BY <1>0, <2>1, <2>2, <2>3, <3>1, <3>3 DEF Guarded, Handled, Storing
    <3> QED
      BY <3>2, <3>3
  <2>5. \A d \in Clients : flow'[d].serial \in Nat /\ flow'[d].serial >= flow[d].serial
    BY <1>0, <2>3
  <2> QED
    BY <1>0, <2>1, <2>4, <2>5, OnceStays
<1>4. CASE PublishAccepted(c)
  <2> DEFINE h == conn[c]
             m == Current(c)
  <2>1. /\ flow[c].phase = "publish" /\ pc[h] = "idle" /\ flow[c].id \notin InFlight
        /\ UNCHANGED <<qos2Msgs, conn, published, exposed>>
        /\ flow' = [flow EXCEPT ![c].sent = TRUE, ![c].tried = TRUE]
        /\ pc' = [pc EXCEPT ![h] = "store"]
        /\ source' = [source EXCEPT ![h] = m]
    BY <1>4 DEF PublishAccepted, Sends, CheckSave, Refused, history
  <2>2. h \in Handlers /\ m \in Messages /\ m = <<c, flow[c].serial>>
    BY <1>0, <2>1 DEF FlowTyped, FlowInv, WaitsForMessage, Current
  <2>3. InFlight' = InFlight
    BY <2>1 DEF InFlight
  <2>4. \A d \in Clients : /\ flow'[d].phase = flow[d].phase /\ flow'[d].id = flow[d].id
                           /\ flow'[d].serial = flow[d].serial
    BY <1>0, <2>1 DEF FlowTyped
  <2>5. source'[h] = m /\ pc'[h] = "store"
        /\ \A g \in Handlers \ {h} : source'[g] = source[g] /\ pc'[g] = pc[g]
    BY <1>0, <2>1, <2>2 DEF FlowTyped
  <2>6. \A d \in Clients : Current(d)' = Current(d)
    BY <2>4 DEF Current
  <2>7. m \notin exposed => ~ Handled(m)
    BY <1>0, <2>1 DEF Guarded, Storing
  <2> HIDE DEF h, m
  <2>8. InOrder'
    <3>1. ASSUME NEW n \in Messages, Handled(n)' PROVE n[2] <= flow[n[1]].serial
      <4>1. CASE n = m
        BY <1>0, <2>2, <4>1
      <4>2. CASE n # m
        <5>1. Handled(n)
          BY <2>1, <2>5, <3>1, <4>2 DEF Handled
        <5> QED
          BY <1>0, <5>1 DEF InOrder
      <4> QED
        BY <4>1, <4>2
    <3> QED
      BY <2>4, <3>1, MessageOf DEF InOrder
  <2>9. IdleHasNobody'
    BY <1>0, <2>5 DEF IdleHasNobody
  <2>10. ASSUME NEW d \in Clients PROVE Guarded(d)'
    <3>1. CASE d = c
      <4>1. conn'[c] = h /\ Current(c)' = m
        BY <2>1, <2>6 DEF h, m
      <4> QED
        BY <2>5, <3>1, <4>1 DEF Guarded, Storing
    <3>2. CASE d # c
      <4>1. Current(d) # m /\ conn[d] # h /\ conn[d] \in Handlers
        BY <1>0, <2>2, <3>2 DEF Current, OwnConnection, FlowTyped, h
      <4>2. Handled(Current(d))' => Handled(Current(d))
        BY <2>1, <2>5, <2>6, <4>1 DEF Handled
      <4>3. Storing(conn[d], d) => Storing(conn[d], d)'
        BY <2>1, <2>5, <2>6, <4>1 DEF Storing
      <4>4. flow'[d].phase = flow[d].phase /\ flow'[d].id = flow[d].id
            /\ Current(d)' = Current(d) /\ exposed' = exposed
        BY <2>1, <2>4, <2>6
      <4> QED
        BY <1>0, <2>3, <4>2, <4>3, <4>4 DEF Guarded
    <3> QED
      BY <3>1, <3>2
  <2>11. ASSUME NEW n \in Messages \ exposed' PROVE HandledOnce(n)'
    <3>0. HandledOnce(n) /\ n \notin exposed
      BY <2>1 DEF OnceInv
    <3>1. CASE n = m
      <4>1. \A g \in Handlers : source[g] # n
        BY <2>7, <3>0, <3>1 DEF Handled
      <4>2. published[n] = 0
        BY <1>0, <2>7, <3>0, <3>1 DEF Handled, FlowTyped
      <4> QED
        BY <2>1, <2>5, <4>1, <4>2 DEF HandledOnce
    <3>2. CASE n # m
      BY <2>1, <2>5, <3>0, <3>2 DEF HandledOnce
    <3> QED
      BY <3>1, <3>2
  <2> QED
    BY <2>8, <2>9, <2>10, <2>11
<1>5. CASE PublishRefused(c)
  <2>1. /\ UNCHANGED <<qos2Msgs, pc, msg, conn, source, published, exposed>>
        /\ flow' = [flow EXCEPT ![c].sent = TRUE, ![c].tried = TRUE]
    BY <1>5 DEF PublishRefused, Sends, vars, history
  <2>2. InFlight' = InFlight
    BY <2>1 DEF InFlight
  <2>3. \A d \in Clients : /\ flow'[d].phase = flow[d].phase /\ flow'[d].id = flow[d].id
                           /\ flow'[d].serial = flow[d].serial
    BY <1>0, <2>1 DEF FlowTyped
  <2>4. ASSUME NEW d \in Clients PROVE Guarded(d)'
    <3>1. Current(d)' = Current(d)
      BY <2>3 DEF Current
    <3>2. (Storing(conn[d], d)' <=> Storing(conn[d], d))
          /\ (Handled(Current(d))' <=> Handled(Current(d)))
      BY <2>1, <3>1 DEF Handled, Storing
    <3>3. exposed' = exposed
      BY <2>1
    <3> QED
      BY <1>0, <2>2, <2>3, <3>1, <3>2, <3>3 DEF Guarded
  <2>5. \A d \in Clients : flow'[d].serial \in Nat /\ flow'[d].serial >= flow[d].serial
    BY <1>0, <2>3
  <2> QED
    BY <1>0, <2>1, <2>4, <2>5, OnceStays
<1>6. CASE PubrelHandled(c)
  <2>1. /\ UNCHANGED <<pc, msg, conn, source, published>> /\ flow[c].phase = "release"
        /\ flow' = [flow EXCEPT ![c].sent = TRUE, ![c].tried = TRUE]
        /\ qos2Msgs' = [qos2Msgs EXCEPT ![flow[c].id] = Absent]
        /\ exposed' = exposed \cup LoseId(flow[c].id)
    BY <1>6 DEF PubrelHandled, Sends, Pubrel
  <2>2. \A id \in InFlight : id # flow[c].id => id \in InFlight'
    BY <1>0, <2>1 DEF InFlight
  <2>3. \A d \in Clients : /\ flow'[d].phase = flow[d].phase /\ flow'[d].id = flow[d].id
                           /\ flow'[d].serial = flow[d].serial
    BY <1>0, <2>1 DEF FlowTyped
  <2>4. ASSUME NEW d \in Clients PROVE Guarded(d)'
    <3>1. Current(d)' = Current(d)
      BY <2>3 DEF Current
    <3> SUFFICES ASSUME flow[d].phase = "publish", Current(d) \notin exposed',
                        Handled(Current(d))
                 PROVE  Storing(conn[d], d) \/ flow[d].id \in InFlight'
      BY <2>1, <2>3, <3>1 DEF Guarded, Handled, Storing
    <3>2. Storing(conn[d], d) \/ flow[d].id \in InFlight
      BY <1>0, <2>1 DEF Guarded
    <3>3. flow[d].id \in InFlight => flow[d].id # flow[c].id
      BY <2>1, LostIsExposed
    <3> QED
      BY <2>2, <3>2, <3>3
  <2>5. \A d \in Clients : flow'[d].serial \in Nat /\ flow'[d].serial >= flow[d].serial
    BY <1>0, <2>3
  <2> QED
    BY <1>0, <2>1, <2>4, <2>5, OnceStays
<1> QED
  BY <1>1, <1>2, <1>3, <1>4, <1>5, <1>6 DEF ClientStep

LEMMA HandlerKeepsOnce ==
  ASSUME OnceInv, NEW h \in Handlers,
         StoreMsgFlow(h) \/ ArmTimerFlow(h) \/ WritePubrecFlow(h) \/ PublishFlow(h)
  PROVE  /\ InOrder' /\ IdleHasNobody'
         /\ \A d \in Clients : Guarded(d)'
         /\ \A m \in Messages \ exposed' : HandledOnce(m)'
<1>0. /\ FlowInv /\ FlowTyped /\ InOrder /\ IdleHasNobody
      /\ \A d \in Clients : Guarded(d)
      /\ qos2Msgs \in [MessageIds -> Nat \cup {Absent}]
      /\ \A d \in Clients : flow[d].serial \in Nat
  BY DEF OnceInv, FlowInv, FlowTyped, IInv, TypeOK
<1>1. UNCHANGED <<conn, flow, exposed>> /\ \A d \in Clients : Current(d)' = Current(d)
  BY DEF StoreMsgFlow, ArmTimerFlow, WritePubrecFlow, PublishFlow, clientVars, history, Current
<1>2. \A d \in Clients : flow'[d].serial \in Nat /\ flow'[d].serial >= flow[d].serial
  BY <1>0, <1>1
<1>3. CASE StoreMsgFlow(h)
  <2>1. /\ pc[h] = "store" /\ UNCHANGED <<source, published>>
        /\ qos2Msgs' = [qos2Msgs EXCEPT ![msg[h]] = now]
        /\ pc' = [pc EXCEPT ![h] = "arm"]
    BY <1>3 DEF StoreMsgFlow, StoreMsg
  <2>2. now \in Nat
    BY DEF OnceInv, IInv, TypeOK
  <2>3. InFlight \subseteq InFlight' /\ (msg[h] \in MessageIds => msg[h] \in InFlight')
    BY <1>0, <2>1, <2>2 DEF InFlight, Absent
  <2>4. ASSUME NEW d \in Clients PROVE Guarded(d)'
    <3>1. CASE conn[d] = h
      <4>1. msg[h] = flow[d].id /\ flow[d].id \in MessageIds
        BY <1>0, <2>1, <3>1
        DEF FlowInv, HandlesCurrent, WaitsForMessage, Unanswered
      <4> QED
        BY <1>1, <2>3, <4>1 DEF Guarded
    <3>2. CASE conn[d] # h
      <4>1. pc'[conn[d]] = pc[conn[d]]
        BY <1>0, <2>1, <3>2 DEF FlowTyped
      <4> QED
        BY <1>0, <1>1, <2>1, <2>3, <4>1 DEF Guarded, Handled, Storing
    <3> QED
      BY <3>1, <3>2
  <2>5. \A g \in Handlers : pc'[g] = "idle" => pc[g] = "idle"
    BY <1>0, <2>1 DEF FlowTyped
  <2> QED
    BY <1>1, <1>2, <2>1, <2>4, <2>5, OnceStays
<1>4. CASE ArmTimerFlow(h)
  <2>1. /\ pc[h] = "arm" /\ UNCHANGED <<source, published, qos2Msgs>>
        /\ pc' = [pc EXCEPT ![h] = "pubrec"]
    BY <1>4 DEF ArmTimerFlow, ArmTimer
  <2>2. InFlight' = InFlight
    BY <2>1 DEF InFlight
  <2>3. \A g \in Handlers : (pc[g] = "store" => pc'[g] = "store")
                              /\ (pc'[g] = "idle" => pc[g] = "idle")
    BY <1>0, <2>1 DEF FlowTyped
  <2>4. ASSUME NEW d \in Clients PROVE Guarded(d)'
    <3>1. conn[d] \in Handlers
      BY <1>0 DEF FlowTyped
    <3> QED
      BY <1>0, <1>1, <2>1, <2>2, <2>3, <3>1 DEF Guarded, Handled, Storing
  <2> QED
    BY <1>1, <1>2, <2>1, <2>3, <2>4, OnceStays
<1>5. CASE WritePubrecFlow(h)
  <2>1. PICK written \in BOOLEAN :
          /\ pc[h] = "pubrec" /\ UNCHANGED <<published, qos2Msgs>>
          /\ pc' = [pc EXCEPT ![h] = IF written THEN "publish" ELSE "idle"]
          /\ source' = [source EXCEPT ![h] = IF written THEN @ ELSE Nobody]
    BY <1>5 DEF WritePubrecFlow, WritePubrec
  <2>2. InFlight' = InFlight
    BY <2>1 DEF InFlight
  <2>3. /\ \A g \in Handlers \ {h} : pc'[g] = pc[g] /\ source'[g] = source[g]
        /\ \/ pc'[h] = "idle" /\ source'[h] = Nobody
           \/ pc'[h] = "publish" /\ source'[h] = source[h]
    BY <1>0, <2>1 DEF FlowTyped
  <2>4. ASSUME NEW d \in Clients PROVE Guarded(d)'
    <3>1. conn[d] \in Handlers
      BY <1>0 DEF FlowTyped
    <3>2. Storing(conn[d], d) => Storing(conn[d], d)'
      BY <1>1, <2>1, <2>3, <3>1 DEF Storing
    <3>3. flow[d].phase = "publish" /\ Handled(Current(d))' => Handled(Current(d))
      <4>1. flow[d].phase = "publish" => Current(d) \in Messages
        BY <1>0 DEF FlowInv, WaitsForMessage
      <4> QED
        BY <1>1, <2>1, <2>3, <4>1, NobodyIsNone DEF Handled
    <3> QED
      BY <1>0, <1>1, <2>2, <3>2, <3>3 DEF Guarded
  <2> QED
    BY <1>1, <1>2, <2>1, <2>3, <2>4, OnceStays
<1>6. CASE PublishFlow(h)
  <2> DEFINE m == source[h]
  <2>1. /\ pc[h] = "publish" /\ UNCHANGED qos2Msgs
        /\ pc' = [pc EXCEPT ![h] = "idle"]
        /\ source' = [source EXCEPT ![h] = Nobody]
        /\ published' = [published EXCEPT ![m] = @ + 1]
    BY <1>6 DEF PublishFlow, Publish
  <2>2. m \in Messages /\ Handled(m)
    BY <1>0, <2>1 DEF FlowInv, BusyHasMessage, Handled
  <2>3. InFlight' = InFlight
    BY <2>1 DEF InFlight
  <2>4. /\ \A g \in Handlers \ {h} : pc'[g] = pc[g] /\ source'[g] = source[g]
        /\ pc'[h] = "idle" /\ source'[h] = Nobody
        /\ published'[m] = published[m] + 1 /\ published[m] \in Nat
        /\ \A n \in Messages \ {m} : published'[n] = published[n]
    BY <1>0, <2>1, <2>2 DEF FlowTyped
  <2> HIDE DEF m
  <2>5. ASSUME NEW n \in Messages, Handled(n)' PROVE Handled(n)
    <3>1. CASE n = m
      BY <2>2, <3>1
    <3>2. CASE n # m
      BY <2>4, <2>5, <3>2, NobodyIsNone DEF Handled
    <3> QED
      BY <3>1, <3>2
  <2>6. InOrder' /\ IdleHasNobody'
    BY <1>0, <1>1, <2>4, <2>5 DEF InOrder, IdleHasNobody
  <2>7. ASSUME NEW d \in Clients PROVE Guarded(d)'
    <3>1. conn[d] \in Handlers
      BY <1>0 DEF FlowTyped
    <3>2. Storing(conn[d], d) => Storing(conn[d], d)'
      BY <1>1, <2>1, <2>4, <3>1 DEF Storing
    <3>3. flow[d].phase = "publish" /\ Handled(Current(d))' => Handled(Current(d))
      <4>1. flow[d].phase = "publish" => Current(d) \in Messages
        BY <1>0 DEF FlowInv, WaitsForMessage
      <4> QED
        BY <1>1, <2>5, <4>1 DEF Handled
    <3> QED
      BY <1>0, <1>1, <2>3, <3>2, <3>3 DEF Guarded
  <2>8. ASSUME NEW n \in Messages \ exposed' PROVE HandledOnce(n)'
    <3>0. HandledOnce(n)
      BY <1>1 DEF OnceInv
    <3>1. CASE n = m
      <4>1. published[n] = 0 /\ \A g \in Handlers \ {h} : source[g] # n
        BY <3>0, <3>1 DEF HandledOnce, m
      <4> QED
        BY <2>4, <3>1, <4>1, NobodyIsNone DEF HandledOnce
    <3>2. CASE n # m
      BY <2>4, <3>0, <3>2, NobodyIsNone DEF HandledOnce
    <3> QED
      BY <3>1, <3>2
  <2> QED
    BY <2>6, <2>7, <2>8
<1> QED
  BY <1>3, <1>4, <1>5, <1>6

LEMMA TimerKeepsOnce ==
  ASSUME OnceInv, NEW t \in Timers, TimerStepFlow(t)
  PROVE  /\ InOrder' /\ IdleHasNobody'
         /\ \A d \in Clients : Guarded(d)'
         /\ \A m \in Messages \ exposed' : HandledOnce(m)'
<1>1. /\ UNCHANGED <<pc, msg, conn, flow, source, published>> /\ exposed \subseteq exposed'
      /\ timer[t].state # "deleting" => InFlight' = InFlight
      /\ timer[t].state = "deleting" =>
           /\ \A id \in InFlight : id # timer[t].victim => id \in InFlight'
           /\ exposed' = exposed \cup LoseId(timer[t].victim)
  BY TimerDeletes DEF OnceInv
<1>2. ASSUME NEW d \in Clients PROVE Guarded(d)'
  <2> SUFFICES ASSUME flow[d].phase = "publish", Current(d) \notin exposed',
                      Handled(Current(d))
               PROVE  Storing(conn[d], d) \/ flow[d].id \in InFlight'
    BY <1>1 DEF Guarded, Handled, Storing, Current
  <2>1. Storing(conn[d], d) \/ flow[d].id \in InFlight
    BY <1>1 DEF OnceInv, Guarded
  <2>2. timer[t].state = "deleting" /\ flow[d].id \in InFlight =>
          flow[d].id # timer[t].victim
    BY <1>1, LostIsExposed
  <2> QED
    BY <1>1, <2>1, <2>2
<1>3. \A d \in Clients : flow[d].serial \in Nat
  BY DEF OnceInv, FlowInv, FlowTyped
<1>4. \A d \in Clients : flow'[d].serial \in Nat /\ flow'[d].serial >= flow[d].serial
  BY <1>1, <1>3
<1> QED
  BY <1>1, <1>2, <1>3, <1>4, OnceStays

LEMMA NextOnceInv == OnceInv /\ [FlowNext]_flowVars => OnceInv'
<1> SUFFICES ASSUME OnceInv, [FlowNext]_flowVars PROVE OnceInv'
  OBVIOUS
<1>1. FlowInv' /\ IInv'
  BY NextFlowInv, FlowStepIsStep, NextIInv DEF OnceInv
<1>2. CASE FlowNext /\ ~ TickFlow
  BY <1>1, <1>2, ClientKeepsOnce, HandlerKeepsOnce, TimerKeepsOnce DEF FlowNext, OnceInv
<1>3. CASE TickFlow \/ UNCHANGED flowVars
  <2>1. UNCHANGED <<pc, msg, conn, flow, source, published, exposed, qos2Msgs>>
    BY <1>3 DEF TickFlow, Tick, clientVars, history, flowVars, vars
  <2>2. InFlight' = InFlight
    BY <2>1 DEF InFlight
  <2>3. InOrder' /\ IdleHasNobody'
    BY <2>1 DEF OnceInv, InOrder, Handled, IdleHasNobody
  <2>4. \A d \in Clients : Guarded(d)'
    BY <2>1, <2>2 DEF OnceInv, Guarded, Handled, Storing, Current
  <2>5. \A m \in Messages \ exposed' : HandledOnce(m)'
    BY <2>1 DEF OnceInv, HandledOnce
  <2> QED
    BY <1>1, <2>3, <2>4, <2>5 DEF OnceInv
<1> QED
  BY <1>2, <1>3

(***************************************************************************)
(* ProcessPublish and saveQos2Msg (processor.go:40-62, 117-127): over      *)
(* however many connections its client sends a message, and whichever      *)
(* handlers of earlier ones are still at work, it is published twice only  *)
(* if its id left the table, or was stored too late.                       *)
(***************************************************************************)
THEOREM PublishesOnce == FlowSpec => []OnceUnlessExposed
<1>1. OnceInv => OnceUnlessExposed
  BY DEF OnceInv, HandledOnce, OnceUnlessExposed, FlowInv, FlowTyped
<1> QED
  BY <1>1, InitOnceInv, NextOnceInv, PTL DEF FlowSpec

=============================================================================
