------------------------------- MODULE MCWire -------------------------------
(* Instances of Wire for TLC.                                              *)
EXTENDS Wire

Name == <<<<97, 1>>, <<98, 1>>>>

\* Lengths at which the number of digits changes, and the two greatest: the
\* packet with a payload of n - 6 bytes has a remaining length of n.
Lengths == {6, 127, 128, 129, 16383, 16384, 2097151, 2097152, 268435454, 268435455}

Publishes ==
  {Packet(MessageType.Publish, dup, 1, ~ dup,
          [TopicName |-> Name, MessageID |-> 258,
           Payload |-> IF n = 6 THEN <<>> ELSE <<<<120, n - 6>>>>])
     : n \in Lengths, dup \in BOOLEAN}

Connects ==
  {Packet(MessageType.Connect, FALSE, 0, FALSE,
          [ProtocolName |-> Name, ProtocolVersion |-> 4, CleanSession |-> will, WillFlag |-> will,
           WillQos |-> IF will THEN 2 ELSE 0, WillRetain |-> user,
           PasswordFlag |-> pass, UsernameFlag |-> user, Keepalive |-> 300,
           ClientIdentifier |-> <<>>,
           WillTopic |-> IF will THEN Name ELSE <<>>, WillMessage |-> IF will THEN <<<<109, 1>>>> ELSE <<>>,
           Username |-> IF user THEN <<<<117, 1>>>> ELSE <<>>,
           Password |-> IF pass THEN <<<<112, 1>>>> ELSE <<>>])
     : will \in BOOLEAN, user \in BOOLEAN, pass \in BOOLEAN}

Others ==
  { Packet(MessageType.Connack, FALSE, 0, FALSE, [SessionPresent |-> TRUE, ReturnCode |-> 4]),
    Packet(MessageType.Puback, FALSE, 0, FALSE, [MessageID |-> 65535]),
    Packet(MessageType.Pubrel, FALSE, 1, FALSE, [MessageID |-> 256]),
    Packet(MessageType.Subscribe, FALSE, 1, FALSE,
           [MessageID |-> 1, Topics |-> <<Name, <<>>, Name>>, Qoss |-> <<2, 0, 1>>]),
    Packet(MessageType.Suback, FALSE, 0, FALSE,
           [MessageID |-> 1, ReturnCodes |-> <<<<0, 1>>, <<128, 1>>>>]),
    Packet(MessageType.Unsubscribe, FALSE, 1, FALSE, [MessageID |-> 1, Topics |-> <<Name, Name>>]),
    Packet(MessageType.Pingreq, FALSE, 0, FALSE, <<>>) }

AllPackets == Publishes \cup Connects \cup Others

Bodies(n) == {[i \in DOMAIN s |-> <<s[i], 1>>] : s \in SeqOf({0, 1, 2, 97}, n)}

\* PUBLISH with Qos 0 and 1, SUBSCRIBE.
RelayedFrames == {48, 50, 130} \X Bodies(6)
=============================================================================
