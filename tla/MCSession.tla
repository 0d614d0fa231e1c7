----------------------------- MODULE MCSession -----------------------------
(* Instances of Session for TLC.                                           *)
EXTENDS Session

NoPadded == [x \in {} |-> x]

A == <<"a">>
APlus == <<"a", "+">>
AHash == <<"a", "#">>

TopicAndPlus == {A, APlus}
OneHash == {AHash}

\* One client connects with a will, the other without.
TwoClients == {[id |-> "i1", will |-> "qos1"], [id |-> "i2", will |-> NoWill]}

OneClient == {[id |-> "i1", will |-> "qos1"], [id |-> "i1", will |-> NoWill]}
=============================================================================
