------------------------------ MODULE StateLoop ------------------------------
(***************************************************************************)
(* Broker.publishState beside the connections of ClientCount: a ticker     *)
(* wakes the state loop, which loads the counters of clients one after the *)
(* other, in the order of the composite literal, while clients come and    *)
(* go, and publishes the numbers on topics below $SYS.                     *)
(***************************************************************************)
EXTENDS ClientCount

VARIABLES
  at,     \* how many numbers the state loop has loaded; -1: it waits for the ticker
  topics  \* the numbers loaded, with a history field: connecting, the most clients
          \* that were in ProcessConnect when one of them was loaded

loopVars == <<at, topics>>
allVars == <<vars, loopVars>>

Waiting == -1
NoTopics == [connected |-> 0, active |-> 0, maximum |-> 0, connecting |-> 0]

LoopInit == Init /\ at = Waiting /\ topics = NoTopics

\* StartStateLoop: the ticker fires.
TickerFires ==
  /\ at = Waiting
  /\ at' = 0
  /\ UNCHANGED <<vars, topics>>

\* Mutant: the maximum is loaded first.
Order_MaximumFirst == <<"maximum", "connected", "active">>

\* The order of the literal.
Order == <<"connected", "active", "maximum">>

Counter(field) == IF field = "maximum" THEN ClientsMax ELSE ClientsConnected

ReadCounter ==
  /\ at \in 0..2
  /\ LET now == Cardinality(Pending)
     IN  topics' = [topics EXCEPT ![Order[at + 1]] = Counter(Order[at + 1]),
                                  !.connecting = IF now > @ THEN now ELSE @]
  /\ at' = at + 1
  /\ UNCHANGED vars

\* The messages to the subscribers of the $SYS topics, and the end of publishState.
PublishState ==
  /\ at = 3
  /\ at' = Waiting
  /\ topics' = NoTopics
  /\ UNCHANGED vars

PublishStep == TickerFires \/ ReadCounter \/ PublishState

LoopNext == (Next /\ UNCHANGED loopVars) \/ PublishStep

LoopSpec == LoopInit /\ [][LoopNext]_allVars

-----------------------------------------------------------------------------
(* Properties                                                              *)

(***************************************************************************)
(* broker.go:83-87 loads the number of clients twice and, later, the       *)
(* maximum.  The report mixes moments, and still keeps to the bound of     *)
(* MaxCoversHalf, but for the clients that were connecting meanwhile,      *)
(* because the maximum is loaded last and only grows.                      *)
(***************************************************************************)
ReportCovers ==
  LET bound == 2 * topics.maximum + topics.connecting
  IN  at = 3 => topics.connected <= bound /\ topics.active <= bound

-----------------------------------------------------------------------------
(* What the source says of the program and the code does not do            *)

(***************************************************************************)
(* broker.go:83-84, "clients/connected" and "clients/active" are one       *)
(* counter: they are loaded twice, and a client comes or goes in between.  *)
(***************************************************************************)
ReportAgrees == at = 3 => topics.connected = topics.active
=============================================================================
