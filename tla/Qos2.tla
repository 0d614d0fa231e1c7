-------------------------------- MODULE Qos2 --------------------------------
(***************************************************************************)
(* The in-flight table of the broker for publications of QoS 2             *)
(* (Processor.qos2Msgs): message id -> the second it was received in.  One *)
(* table serves all connections and takes no lock.  Its users are          *)
(*   - the connections' goroutines (Handlers), one packet at a time each,  *)
(*   - the timers time.AfterFunc starts for every message saved, each of   *)
(*     which sweeps the whole table once Qos2Timeout later.                *)
(* The messages of the handlers are arbitrary here; Qos2Flow.tla adds      *)
(* clients that follow the protocol.                                       *)
(***************************************************************************)
EXTENDS Integers, FiniteSets

CONSTANTS
  Handlers,     \* goroutines of connections
  MessageIds,   \* the uint16 message identifiers in use
  NoId,         \* no message
  Timers,       \* bound: that many timers are pending at a time
  Qos2Timeout,  \* seconds
  maxQos2Msgs,  \* 0, no limit: nothing assigns the field
  Horizon       \* bound: no message is saved after that second

ASSUME IdAssumption == NoId \notin MessageIds
ASSUME TimeAssumption == Qos2Timeout \in Nat /\ Horizon \in Nat

VARIABLES
  now,       \* time.Now().Unix()
  qos2Msgs,  \* message id -> second, or Absent
  pc,        \* handler -> the step it takes next
  msg,       \* handler -> the message id of the packet it handles
  timer      \* timer -> [state, at, victim]

vars == <<now, qos2Msgs, pc, msg, timer>>

Absent == -1
NoTimer == [state |-> "free", at |-> 0, victim |-> NoId]

InFlight == {id \in MessageIds : qos2Msgs[id] # Absent}

\* Mutant: not yet when the timer is due.
Expired_Later(ts, at) == at - ts > Qos2Timeout

\* now-ts >= Qos2Timeout, by the clock the sweep read when it began.
Expired(ts, at) == at - ts >= Qos2Timeout

Init ==
  /\ now = 0
  /\ qos2Msgs = [id \in MessageIds |-> Absent]
  /\ pc = [h \in Handlers |-> "idle"]
  /\ msg = [h \in Handlers |-> NoId]
  /\ timer = [t \in Timers |-> NoTimer]

-----------------------------------------------------------------------------
(* ProcessPublish, QoS 2                                                   *)

IsQos2MsgFull ==
  maxQos2Msgs # 0 /\ Cardinality(InFlight) >= maxQos2Msgs

\* Mutant: a message that is in the table is not looked for.
Refused_OnlyFull(id) == IsQos2MsgFull

\* saveQos2Msg returns an error and ProcessPublish answers nothing.
Refused(id) == IsQos2MsgFull \/ id \in InFlight

\* Handlers that will start a timer, and timers they can start.
Saving == {h \in Handlers : pc[h] \in {"store", "arm"}}
FreeTimers == {t \in Timers : timer[t].state = "free"}

MaySave ==
  now < Horizon /\ Cardinality(Saving) < Cardinality(FreeTimers)

\* The lookups of saveQos2Msg find room and no message with this id.
CheckSave(h, id) ==
  /\ pc[h] = "idle"
  /\ MaySave
  /\ ~ Refused(id)
  /\ pc' = [pc EXCEPT ![h] = "store"]
  /\ msg' = [msg EXCEPT ![h] = id]
  /\ UNCHANGED <<now, qos2Msgs, timer>>

\* Mutant: the second of the expiry is stored.
StoreMsg_Deadline(h) ==
  /\ pc[h] = "store"
  /\ qos2Msgs' = [qos2Msgs EXCEPT ![msg[h]] = now + Qos2Timeout]
  /\ pc' = [pc EXCEPT ![h] = "arm"]
  /\ UNCHANGED <<now, msg, timer>>

\* p.qos2Msgs[messageId] = time.Now().Unix()
StoreMsg(h) ==
  /\ pc[h] = "store"
  /\ qos2Msgs' = [qos2Msgs EXCEPT ![msg[h]] = now]
  /\ pc' = [pc EXCEPT ![h] = "arm"]
  /\ UNCHANGED <<now, msg, timer>>

\* Mutant: no timer is started while another one is running.
ArmTimer_OnlyOne(h) ==
  /\ pc[h] = "arm"
  /\ IF \E t \in Timers : timer[t].state = "armed"
     THEN UNCHANGED timer
     ELSE \E t \in FreeTimers :
            timer' = [timer EXCEPT
              ![t] = [state |-> "armed", at |-> now + Qos2Timeout, victim |-> NoId]]
  /\ pc' = [pc EXCEPT ![h] = "pubrec"]
  /\ UNCHANGED <<now, qos2Msgs, msg>>

\* time.AfterFunc(Qos2Timeout, p.expireQos2Msg)
ArmTimer(h) ==
  /\ pc[h] = "arm"
  /\ \E t \in FreeTimers :
       timer' = [timer EXCEPT
         ![t] = [state |-> "armed", at |-> now + Qos2Timeout, victim |-> NoId]]
  /\ pc' = [pc EXCEPT ![h] = "pubrec"]
  /\ UNCHANGED <<now, qos2Msgs, msg>>

\* PUBREC is written, or the write fails and the message is not published.
WritePubrec(h, written) ==
  /\ pc[h] = "pubrec"
  /\ pc' = [pc EXCEPT ![h] = IF written THEN "publish" ELSE "idle"]
  /\ msg' = [msg EXCEPT ![h] = IF written THEN @ ELSE NoId]
  /\ UNCHANGED <<now, qos2Msgs, timer>>

\* DoPublish
Publish(h) ==
  /\ pc[h] = "publish"
  /\ pc' = [pc EXCEPT ![h] = "idle"]
  /\ msg' = [msg EXCEPT ![h] = NoId]
  /\ UNCHANGED <<now, qos2Msgs, timer>>

-----------------------------------------------------------------------------
(* ProcessPubrel: the message leaves the table; PUBCOMP is sent even if it *)
(* was not in it.                                                          *)

\* Mutant: the message is found and stays in the table.
Pubrel_Keeps(h, id) ==
  /\ pc[h] = "idle"
  /\ UNCHANGED vars

Pubrel(h, id) ==
  /\ pc[h] = "idle"
  /\ qos2Msgs' = [qos2Msgs EXCEPT ![id] = Absent]
  /\ UNCHANGED <<now, pc, msg, timer>>

-----------------------------------------------------------------------------
(* expireQos2Msg, in the goroutine of a timer                              *)

Fire(t) ==
  /\ timer[t].state = "armed"
  /\ now >= timer[t].at
  /\ timer' = [timer EXCEPT ![t] =
       IF InFlight = {} THEN NoTimer
       ELSE [state |-> "sweeping", at |-> now, victim |-> NoId]]
  /\ UNCHANGED <<now, qos2Msgs, pc, msg>>

\* The range statement meets an expired message ...
FindExpired(t, id) ==
  /\ timer[t].state = "sweeping"
  /\ id \in InFlight
  /\ Expired(qos2Msgs[id], timer[t].at)
  /\ timer' = [timer EXCEPT ![t].state = "deleting", ![t].victim = id]
  /\ UNCHANGED <<now, qos2Msgs, pc, msg>>

\* ... and the next statement deletes what is under its id by then.
DeleteExpired(t) ==
  /\ timer[t].state = "deleting"
  /\ qos2Msgs' = [qos2Msgs EXCEPT ![timer[t].victim] = Absent]
  /\ timer' = [timer EXCEPT ![t].state = "sweeping", ![t].victim = NoId]
  /\ UNCHANGED <<now, pc, msg>>

\* The range statement visits every message that was there from its start;
\* those that came later have not expired.
EndSweep(t) ==
  /\ timer[t].state = "sweeping"
  /\ \A id \in InFlight : ~ Expired(qos2Msgs[id], timer[t].at)
  /\ timer' = [timer EXCEPT ![t] = NoTimer]
  /\ UNCHANGED <<now, qos2Msgs, pc, msg>>

-----------------------------------------------------------------------------
(* The clock runs until the last timer is due.                             *)

Tick ==
  /\ now < Horizon + Qos2Timeout
  /\ now >= Horizon => Saving = {}
  /\ now' = now + 1
  /\ UNCHANGED <<qos2Msgs, pc, msg, timer>>

HandlerStep(h) ==
  \/ StoreMsg(h) \/ ArmTimer(h) \/ Publish(h)
  \/ \E written \in BOOLEAN : WritePubrec(h, written)

TimerStep(t) ==
  \/ Fire(t)
  \/ \E id \in MessageIds : FindExpired(t, id)
  \/ DeleteExpired(t)
  \/ EndSweep(t)

Next ==
  \/ \E h \in Handlers :
       \/ \E id \in MessageIds : CheckSave(h, id) \/ Pubrel(h, id)
       \/ HandlerStep(h)
  \/ \E t \in Timers : TimerStep(t)
  \/ Tick

Spec == Init /\ [][Next]_vars

\* Goroutines and timers run, and time passes; packets need not arrive.
Fairness ==
  /\ WF_vars(Tick)
  /\ \A h \in Handlers : WF_vars(HandlerStep(h))
  /\ \A t \in Timers : WF_vars(TimerStep(t))

FairSpec == Spec /\ Fairness

-----------------------------------------------------------------------------
(* Properties                                                              *)

States == {"free", "armed", "sweeping", "deleting"}
Labels == {"idle", "store", "arm", "pubrec", "publish"}

TypeOK ==
  /\ now \in Nat
  /\ qos2Msgs \in [MessageIds -> Nat \cup {Absent}]
  /\ \A id \in InFlight : qos2Msgs[id] <= now
  /\ pc \in [Handlers -> Labels]
  /\ msg \in [Handlers -> MessageIds \cup {NoId}]
  /\ timer \in [Timers -> [state  : States,
                           at     : Nat,
                           victim : MessageIds \cup {NoId}]]

Due(id) == qos2Msgs[id] + Qos2Timeout

(***************************************************************************)
(* saveQos2Msg and expireQos2Msg (processor.go:48-63): for every message   *)
(* in flight there is a timer that will find it expired, a sweep that will *)
(* still delete it, or a handler about to start its timer.  No message     *)
(* stays in the table, blocking its id, for want of a timer, although      *)
(* timers belong to no message and sweeps delete what others saved.        *)
(***************************************************************************)
NoMessageForgotten ==
  \A id \in InFlight :
    \/ \E t \in Timers : timer[t].state # "free" /\ timer[t].at >= Due(id)
    \/ \E h \in Handlers : pc[h] = "arm" /\ msg[h] = id

(***************************************************************************)
(* expireQos2Msg (processor.go:53): every message leaves the table, with   *)
(* or without a PUBREL, so that its id can be used again.                  *)
(***************************************************************************)
InFlightDrains ==
  \A id \in MessageIds : (id \in InFlight) ~> (id \notin InFlight)
=============================================================================
