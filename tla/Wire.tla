-------------------------------- MODULE Wire --------------------------------
(***************************************************************************)
(* The encoding of the packets, and how they are found again in the bytes  *)
(* of a connection.  A string of bytes is a sequence of runs <<byte,       *)
(* times>>, so that a payload can be as long as a packet allows.  Reading  *)
(* gives a set: of the one pair <<what was read, what is left>>, or of     *)
(* nothing after an error.                                                 *)
(***************************************************************************)
EXTENDS Integers, Sequences, SequencesExt

MessageType ==
  [Connect |-> 1, Connack |-> 2, Publish |-> 3, Puback |-> 4, Pubrec |-> 5,
   Pubrel |-> 6, Pubcomp |-> 7, Subscribe |-> 8, Suback |-> 9, Unsubscribe |-> 10,
   Unsuback |-> 11, Pingreq |-> 12, Pingresp |-> 13, Disconnect |-> 14]

Byte(b) == <<<<b, 1>>>>
Size(s) == FoldLeft(LAMBDA n, run : n + run[2], 0, s)

Runs == Seq(Nat \X Nat)

\* The first n bytes, and the bytes after them.
Take[s \in Runs, n \in Int] ==
  IF n <= 0 \/ s = <<>> THEN <<>>
  ELSE IF s[1][2] <= n THEN <<s[1]>> \o Take[Tail(s), n - s[1][2]]
  ELSE <<<<s[1][1], n>>>>

Drop[s \in Runs, n \in Int] ==
  IF n <= 0 \/ s = <<>> THEN s
  ELSE IF s[1][2] <= n THEN Drop[Tail(s), n - s[1][2]]
  ELSE <<<<s[1][1], s[1][2] - n>>>> \o Tail(s)

\* Read of n bytes into a new slice: there is an error when nothing is left,
\* none when there is less than n, and what is missing stays zero.
ReadUpTo[s \in Runs, n \in Nat] ==
  IF n > 0 /\ s = <<>> THEN {}
  ELSE IF Size(s) < n THEN {<<Append(s, <<0, n - Size(s)>>), <<>>>>}
  ELSE {<<Take[s, n], Drop[s, n]>>}

-----------------------------------------------------------------------------
(* Numbers and strings                                                     *)

\* Mutant: the comparison is off by one.
encodeLength_To128(length) ==
  LET digits[n \in Nat] ==
        IF n <= 128 THEN Byte(n) ELSE Byte((n % 128) + 128) \o digits[n \div 128]
  IN  digits[length]

encodeLength(length) ==
  LET digits[n \in Nat] ==
        IF n < 128 THEN Byte(n) ELSE Byte((n % 128) + 128) \o digits[n \div 128]
  IN  digits[length]

ByteAt[s \in Runs, i \in Nat] == Take[Drop[s, i - 1], 1][1][1]

\* At most four digits are read, whatever the fourth says.
decodeLength[s \in Runs] ==
  LET Ends(i) == /\ i = 4 \/ ByteAt[s, i] < 128
                 /\ \A j \in 1 .. i - 1 : ByteAt[s, j] >= 128
      value[i \in 0 .. 4] ==
        IF i = 0 THEN 0 ELSE value[i - 1] + (ByteAt[s, i] % 128) * 128 ^ (i - 1)
  IN  {<<value[i], Drop[s, i]>> : i \in {i \in 1 .. 4 : i <= Size(s) /\ Ends(i)}}

encodeUint16(num) == Byte(num \div 256) \o Byte(num % 256)
encodeBytes(field) == encodeUint16(Size(field) % 65536) \o field

decodeByte[s \in Runs] == IF s = <<>> THEN {} ELSE {<<s[1][1], Drop[s, 1]>>}

decodeUint16[s \in Runs] ==
  {<<ByteAt[num[1], 1] * 256 + ByteAt[num[1], 2], num[2]>> : num \in ReadUpTo[s, 2]}

decodeBytes[s \in Runs] ==
  UNION {ReadUpTo[fieldLength[2], fieldLength[1]] : fieldLength \in decodeUint16[s]}

Decode == [byte |-> decodeByte, uint16 |-> decodeUint16, bytes |-> decodeBytes]

\* Fields of these kinds, one after the other, up to the first error.
Fields[s \in Runs, kinds \in Seq(DOMAIN Decode)] ==
  IF kinds = <<>> THEN {<<<<>>, s>>}
  ELSE UNION {{<<<<field[1]>> \o others[1], others[2]>> : others \in Fields[field[2], Tail(kinds)]}
                : field \in Decode[Head(kinds)][s]}

-----------------------------------------------------------------------------
(* The bodies of the packets: Write and Unpack                             *)

BoolToByte(b) == IF b THEN 1 ELSE 0
Bit(n, i) == (n \div 2 ^ i) % 2 = 1

PublishBody(fh, p) ==
  encodeBytes(p.TopicName)
    \o (IF fh.Qos > 0 THEN encodeUint16(p.MessageID) ELSE <<>>)
    \o p.Payload

\* The rest of the packet, by its length and that of the fields, is the payload.
Message(topic, id, payload) == [TopicName |-> topic, MessageID |-> id, Payload |-> payload]

\* Mutant: the size of the identifier is forgotten.
UnpackPublish_NoId(fh, body) ==
  UNION {LET length == Size(body) - Size(fields[1][1]) - 2 IN
         {Message(fields[1][1], IF fh.Qos > 0 THEN fields[1][2] ELSE 0, payload[1])
            : payload \in IF length < 0 THEN {} ELSE ReadUpTo[fields[2], length]}
           : fields \in Fields[body, IF fh.Qos > 0 THEN <<"bytes", "uint16">> ELSE <<"bytes">>]}

UnpackPublish(fh, body) ==
  UNION {LET length == Size(body) - Size(fields[1][1]) - (IF fh.Qos > 0 THEN 4 ELSE 2) IN
         {Message(fields[1][1], IF fh.Qos > 0 THEN fields[1][2] ELSE 0, payload[1])
            : payload \in IF length < 0 THEN {} ELSE ReadUpTo[fields[2], length]}
           : fields \in Fields[body, IF fh.Qos > 0 THEN <<"bytes", "uint16">> ELSE <<"bytes">>]}

SubscribeBody(p) ==
  encodeUint16(p.MessageID)
    \o FlattenSeq([i \in DOMAIN p.Topics |-> encodeBytes(p.Topics[i]) \o Byte(p.Qoss[i])])

\* The topics and their Qos while there is length left.
UnpackTopics[s \in Runs, payloadLength \in Int] ==
  IF payloadLength <= 0 THEN {<<>>}
  ELSE UNION {{<<topic[1]>> \o more
                 : more \in UnpackTopics[topic[2], payloadLength - (2 + Size(topic[1][1]) + 1)]}
                : topic \in Fields[s, <<"bytes", "byte">>]}

UnpackSubscribe(body) ==
  UNION {{[MessageID |-> id[1],
           Topics |-> [i \in DOMAIN list |-> list[i][1]],
           Qoss |-> [i \in DOMAIN list |-> list[i][2]]]
            : list \in UnpackTopics[id[2], Size(body) - 2]}
           : id \in decodeUint16[body]}

UnsubscribeBody(p) ==
  encodeUint16(p.MessageID)
    \o FlattenSeq([i \in DOMAIN p.Topics |-> encodeBytes(p.Topics[i])])

\* The list ends at an empty topic or at an error, which is not returned.
UnpackNames[s \in Runs] ==
  FlattenSeq(SetToSeq({<<topic[1]>> \o UnpackNames[topic[2]]
                         : topic \in {topic \in decodeBytes[s] : topic[1] # <<>>}}))

UnpackUnsubscribe(body) ==
  {[MessageID |-> id[1], Topics |-> UnpackNames[id[2]]] : id \in decodeUint16[body]}

\* CONNECT: which of the last fields are there is said by the flags.
ConnectBody(p) ==
  LET given(flag, field) == IF flag THEN encodeBytes(field) ELSE <<>> IN
  encodeBytes(p.ProtocolName)
    \o Byte(p.ProtocolVersion)
    \o Byte(BoolToByte(p.CleanSession) * 2 + BoolToByte(p.WillFlag) * 4 + p.WillQos * 8
            + BoolToByte(p.WillRetain) * 32 + BoolToByte(p.PasswordFlag) * 64
            + BoolToByte(p.UsernameFlag) * 128)
    \o encodeUint16(p.Keepalive)
    \o encodeBytes(p.ClientIdentifier)
    \o given(p.WillFlag, p.WillTopic) \o given(p.WillFlag, p.WillMessage)
    \o given(p.UsernameFlag, p.Username) \o given(p.PasswordFlag, p.Password)

\* The fields after the flags, by what the flags say of each.
OptionalKinds(flags) ==
  (IF Bit(flags, 2) THEN <<"bytes", "bytes">> ELSE <<>>)
    \o (IF Bit(flags, 7) THEN <<"bytes">> ELSE <<>>)
    \o (IF Bit(flags, 6) THEN <<"bytes">> ELSE <<>>)

ConnectFields(first, more) ==
  LET flag(i) == Bit(first[3], i)
      given(there, n) == IF there THEN more[n] ELSE <<>>
  IN  [ProtocolName |-> first[1], ProtocolVersion |-> first[2],
       CleanSession |-> flag(1), WillFlag |-> flag(2),
       WillQos |-> (first[3] \div 8) % 4, WillRetain |-> flag(5),
       PasswordFlag |-> flag(6), UsernameFlag |-> flag(7),
       Keepalive |-> first[4], ClientIdentifier |-> first[5],
       WillTopic |-> given(flag(2), 1), WillMessage |-> given(flag(2), 2),
       Username |-> given(flag(7), IF flag(6) THEN Len(more) - 1 ELSE Len(more)),
       Password |-> given(flag(6), Len(more))]

UnpackConnect(body) ==
  UNION {{ConnectFields(first[1], more[1]) : more \in Fields[first[2], OptionalKinds(first[1][3])]}
           : first \in Fields[body, <<"bytes", "byte", "byte", "uint16", "bytes">>]}

ConnackBody(p) == Byte(BoolToByte(p.SessionPresent)) \o Byte(p.ReturnCode)

UnpackConnack(body) ==
  {[SessionPresent |-> Bit(fields[1][1], 0), ReturnCode |-> fields[1][2]]
     : fields \in Fields[body, <<"byte", "byte">>]}

\* The acknowledgements: an identifier, and SUBACK's codes after it.
UnpackAck(body) == {[MessageID |-> id[1]] : id \in decodeUint16[body]}
UnpackSuback(body) == {[MessageID |-> id[1], ReturnCodes |-> id[2]] : id \in decodeUint16[body]}

-----------------------------------------------------------------------------
(* Packets                                                                 *)

\* A packet is its fixed header and the rest of its fields.
Packet(type, dup, qos, retain, fields) ==
  [fh |-> [MessageType |-> type, Dup |-> dup, Qos |-> qos, Retain |-> retain],
   fields |-> fields]

Body(p) ==
  CASE p.fh.MessageType = MessageType.Connect -> ConnectBody(p.fields)
    [] p.fh.MessageType = MessageType.Connack -> ConnackBody(p.fields)
    [] p.fh.MessageType = MessageType.Publish -> PublishBody(p.fh, p.fields)
    [] p.fh.MessageType = MessageType.Subscribe -> SubscribeBody(p.fields)
    [] p.fh.MessageType = MessageType.Unsubscribe -> UnsubscribeBody(p.fields)
    [] p.fh.MessageType = MessageType.Suback ->
         encodeUint16(p.fields.MessageID) \o p.fields.ReturnCodes
    [] p.fh.MessageType \in {12, 13, 14} -> <<>>
    [] OTHER -> encodeUint16(p.fields.MessageID)

Unpack(fh, body) ==
  CASE fh.MessageType = MessageType.Connect -> UnpackConnect(body)
    [] fh.MessageType = MessageType.Connack -> UnpackConnack(body)
    [] fh.MessageType = MessageType.Publish -> UnpackPublish(fh, body)
    [] fh.MessageType = MessageType.Subscribe -> UnpackSubscribe(body)
    [] fh.MessageType = MessageType.Unsubscribe -> UnpackUnsubscribe(body)
    [] fh.MessageType = MessageType.Suback -> UnpackSuback(body)
    [] fh.MessageType \in {12, 13, 14} -> {<<>>}
    [] OTHER -> UnpackAck(body)

\* pack, and the body after it: what Write hands to the connection in one call.
Pack(p) ==
  LET fh == p.fh
      first == fh.MessageType * 16 + BoolToByte(fh.Dup) * 8 + fh.Qos * 2 + BoolToByte(fh.Retain)
  IN  Byte(first) \o encodeLength(Size(Body(p))) \o Body(p)

unpack(first) ==
  [MessageType |-> first \div 16, Dup |-> Bit(first, 3),
   Qos |-> (first \div 2) % 4, Retain |-> Bit(first, 0)]

\* What ReadPacket returns: a packet or none, with an error or without.  The
\* packet of an error is only partly filled in.
Returns(packets, err, body, rest) == [packets |-> packets, err |-> err, body |-> body, rest |-> rest]

Decoded(fh, body, rest) ==
  LET fields == Unpack(fh, body)
  IN  Returns({[fh |-> fh, fields |-> f] : f \in IF fields = {} THEN {<<>>} ELSE fields},
              fields = {}, body, rest)

\* It waits, and returns nothing yet, when a packet is not all there.
ReadPacket(s) ==
  LET fh == unpack(s[1][1])
      known == fh.MessageType \in 1 .. 14
      Ready(length) == known => length[1] <= Size(length[2])
  IN  {IF known
       THEN Decoded(fh, Take[length[2], length[1]], Drop[length[2], length[1]])
       ELSE Returns({}, TRUE, <<>>, length[2])
         : length \in {length \in IF s = <<>> THEN {} ELSE decodeLength[Drop[s, 1]] : Ready(length)}}

-----------------------------------------------------------------------------
(* A connection                                                            *)

CONSTANTS
  Packets,  \* the packets this code writes
  Frames,   \* the packets others write, each a first byte and a body
  MaxSent   \* bound: packets of this code on the connection

VARIABLES
  alien,    \* another program, an MQTT client say, writes to the connection
  stream,   \* the bytes on the connection
  sent,     \* the packets written
  got,      \* the packets read
  last      \* what ReadPacket returned last

vars == <<alien, stream, sent, got, last>>

Init ==
  /\ alien \in BOOLEAN
  /\ stream = <<>> /\ sent = <<>> /\ got = <<>>
  /\ last = Returns({}, FALSE, <<>>, <<>>)

Write(p) ==
  /\ ~ alien /\ Len(sent) < MaxSent
  /\ stream' = stream \o Pack(p)
  /\ sent' = Append(sent, p)
  /\ UNCHANGED <<alien, got, last>>

\* Another program writes a packet of its own making; one is enough.
WriteFrame(frame) ==
  /\ alien /\ sent = <<>>
  /\ stream' = stream \o Byte(frame[1]) \o encodeLength(Size(frame[2])) \o frame[2]
  /\ sent' = Append(sent, frame)
  /\ UNCHANGED <<alien, got, last>>

\* ReadLoop: no packet is read after an error.
Read ==
  /\ ~ last.err
  /\ \E result \in ReadPacket(stream) :
       /\ last' = result
       /\ stream' = result.rest
       /\ got' = IF result.err THEN got ELSE got \o SetToSeq(result.packets)
  /\ UNCHANGED <<alien, sent>>

Next ==
  \/ \E p \in Packets : Write(p)
  \/ \E frame \in Frames : WriteFrame(frame)
  \/ Read

Spec == Init /\ [][Next]_vars

-----------------------------------------------------------------------------
(* Properties                                                              *)

(***************************************************************************)
(* encodeLength, decodeLength and ReadPacket (packets.go:112, 337-375):    *)
(* the reader of a connection never loses the beginning of a packet.  What *)
(* it reads are the packets this code wrote, whatever their length, one    *)
(* after the other, field by field and without an error.                   *)
(***************************************************************************)
InStep ==
  ~ alien =>
    /\ ~ last.err
    /\ got = SubSeq(sent, 1, Len(got))

(***************************************************************************)
(* broker/processor.go:79, 90: PUBLISH and SUBSCRIBE packets are passed on *)
(* to clients and nodes.  Whoever wrote the packet, written again it is    *)
(* the packet received, with nothing added or lost, although a field that  *)
(* is cut short is read without an error (packets.go:316-329).  A SUBSCRIBE*)
(* of a single byte is the exception: it is accepted and written as two.   *)
(***************************************************************************)
RelayedUnchanged ==
  \A p \in last.packets :
    ( /\ ~ last.err
      /\ \/ p.fh.MessageType = MessageType.Publish
         \/ p.fh.MessageType = MessageType.Subscribe /\ Size(last.body) > 1 )
    => Body(p) = last.body

-----------------------------------------------------------------------------
(* What the source says and the code does not do                           *)

(***************************************************************************)
(* packets.go:110-111: "One of these returns will always be nil, a nil     *)
(* ControlPacket indicating an error occurred."                            *)
(***************************************************************************)
OneReturnIsNil == last.err => last.packets = {}
=============================================================================
