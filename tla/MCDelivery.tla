----------------------------- MODULE MCDelivery -----------------------------
(* Instances of Delivery for TLC.                                          *)
EXTENDS Delivery

CONSTANTS n1, n2, pub, near, other, far

\* A publisher and two subscribers at n1, a client at n2.
Place == [c \in {pub, near, other, far} |-> IF c = far THEN n2 ELSE n1]
Distinct == [c \in {pub, near, other, far} |-> c]

Msg(c, i, retain) == [by |-> c, nr |-> i, retain |-> retain, payload |-> TRUE]
Pub(qos, msg) == [kind |-> "publish", qos |-> qos, msg |-> msg]
Sub(fs) == [kind |-> "subscribe", filters |-> fs]
Unsub(fs) == [kind |-> "unsubscribe", filters |-> fs]
Ping == [kind |-> "ping"]

AllUp == [c \in Conns |-> "up"]
NoSubs == [n \in Nodes |-> {}]
Nobody == [c \in Conns |-> <<>>]

Program(isLinked, leaving, reqs, table) ==
  [linked |-> isLinked, leavers |-> leaving, requests |-> reqs @@ Nobody,
   subs |-> table @@ NoSubs, status |-> AllUp]

\* Overlapping filters, one of them subscribed while messages of QoS 0 and 1
\* are published; another subscriber, and the publisher, may leave.
Overlapping == Program(FALSE, {pub, other},
  pub :> <<Pub(1, Msg(pub, 1, FALSE)), Pub(0, Msg(pub, 2, FALSE))>>
  @@ near :> <<Sub(<<"f2">>)>>,
  n1 :> {<<"f1", near>>, <<"f1", other>>})

\* Retained messages come and go while clients subscribe and unsubscribe.
Retaining == Program(FALSE, {near},
  pub :> <<Pub(0, Msg(pub, 1, TRUE)), Pub(0, Msg(pub, 2, TRUE)),
           Pub(0, [Msg(pub, 3, TRUE) EXCEPT !.payload = FALSE])>>
  @@ near :> <<Sub(<<"f1", "f2">>), Unsub(<<"f1">>), Ping>>, NoSubs)

\* Subscribers at two nodes, known by SyncTopics or by SUBSCRIBE.
TwoNodes == Program(TRUE, {},
  pub :> <<Pub(0, Msg(pub, 1, FALSE)), Pub(0, Msg(pub, 2, FALSE))>>
  @@ far :> <<Sub(<<"f2">>)>>,
  n2 :> {<<"f1", far>>})

\* A retained message at one node and a subscriber that comes and goes at the other.
RetainTwoNodes == Program(TRUE, {far},
  pub :> <<Pub(1, Msg(pub, 1, TRUE))>> @@ far :> <<Sub(<<"f1">>), Unsub(<<"f1">>)>>, NoSubs)

\* Publishers and subscribers at both nodes.
Mutual == Program(TRUE, {},
  pub :> <<Pub(0, Msg(pub, 1, FALSE))>> @@ far :> <<Pub(1, Msg(far, 1, FALSE))>>,
  n2 :> {<<"f1", far>>} @@ n1 :> {<<"f1", near>>})

\* What a connection that was taken over may leave behind (EndedIsForgotten of
\* Session): another connection has its identifier by now.
Leftover == [Program(FALSE, {},
  pub :> <<Pub(0, Msg(pub, 1, FALSE))>>, n1 :> {<<"f1", other>>, <<"f2", near>>})
  EXCEPT !.status = [AllUp EXCEPT ![other] = "closed"]]

LeftoverOnly == {Leftover}
Successor == [Distinct EXCEPT ![near] = other]

AllPrograms == {Overlapping, Retaining, TwoNodes, RetainTwoNodes, Mutual}
=============================================================================
