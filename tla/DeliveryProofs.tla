--------------------------- MODULE DeliveryProofs ---------------------------
(***************************************************************************)
(* For any number of nodes, connections and filters, connections of any    *)
(* capacity and any programs of the clients: a message that is not         *)
(* retained reaches a client at most once and after what its publisher     *)
(* published before it, a new subscriber gets a retained message, and who  *)
(* stays subscribed gets what is published.                                *)
(*                                                                         *)
(* The first two follow from what a step does to the messages on their way *)
(* to one client (StepKinds): it hands the head of one place to the next,  *)
(* or keeps it with the handler, or drops it.  The last does as well, and  *)
(* from what a handler goes on with (GoesRight): it passes the message on  *)
(* to whoever is subscribed, and a handler that gives up has not begun.    *)
(***************************************************************************)
EXTENDS Delivery, SequenceTheorems, FiniteSetTheorems, TLAPS

RetainedMessages == {msg \in Messages : msg.retain}
Plain == {msg \in Messages : ~ msg.retain}

\* Whom a handler writes to: the clients of its node and the far ends of its
\* links.
Reached(h) ==
  {c \in Conns : NodeOf[c] = Home(h)} \cup {e \in Ends : e[2] = Home(h)}

Ids == {IdOf[c] : c \in Conns} \cup Ends

StepsOf(h) ==
  [do : {"write", "write or return"}, to : Reached(h), packet : Packets]
  \cup [do : {"send"}, to : SUBSET ((Filters \cup {"link"}) \X Reached(h)),
        told : SUBSET Ids, packet : Packets]
  \cup [do : {"match", "match links"}, msg : Messages]
  \cup [do : {"retain"}, msg : RetainedMessages]
  \cup [do : {"subscribe", "unsubscribe"}, filter : Filters]
  \cup [do : {"search"}]
  \cup {s \in [do : {"sync"}, left : SUBSET Filters] : h \in Ends}

Typed ==
  /\ linked \subseteq Ends
  /\ requests \in [Conns -> Seq(Packets)]
  /\ DOMAIN work = Handlers /\ \A h \in Handlers : work[h] \in Seq(StepsOf(h))
  /\ subs \in [Nodes -> SUBSET (Filters \X Conns)]
  /\ \A n \in Nodes : \A p \in subs[n] : NodeOf[p[2]] = n
  /\ remote \in [Nodes -> SUBSET (Filters \X Nodes)]
  /\ \A n \in Nodes : \A r \in remote[n] : r[2] # n
  /\ retained \in [Nodes -> {NoMessage} \cup {msg \in RetainedMessages : msg.payload}]
  /\ buffer \in [Handlers -> Seq(Packets)]
  /\ \A h \in Handlers : Len(buffer[h]) <= Room(h)
  /\ status \in [Conns -> {"up", "gone", "closed"}]
  /\ log \in [Conns -> Seq(Messages)]

-----------------------------------------------------------------------------
(* Once                                                                    *)

\* The elements of a sequence that are in S: none, or one at most.
None(s, S) == \A i \in DOMAIN s : s[i] \notin S
One(s, S) == \A i, j \in DOMAIN s : s[i] \in S /\ s[j] \in S => i = j

PacketsWith(msg) == {p \in Packets : p.kind = "publish" /\ p.msg = msg}

\* To whom h has to write so that c gets the message.
Target(h, c) == IF Home(h) = NodeOf[c] THEN c ELSE <<NodeOf[c], Home(h)>>

\* The steps from which c gets the message.
StepsWith(h, msg, c) ==
  {s \in StepsOf(h) :
     \/ s.do = "match" /\ s.msg = msg /\ Home(h) = NodeOf[c]
     \/ s.do = "match links" /\ s.msg = msg /\ Home(h) # NodeOf[c]
     \/ /\ s.do = "send" /\ s.packet \in PacketsWith(msg)
        /\ Id(Target(h, c)) \notin s.told /\ \E p \in s.to : p[2] = Target(h, c)
     \/ /\ s.do \in {"write", "write or return"}
        /\ s.packet \in PacketsWith(msg) /\ s.to = Target(h, c)}

\* Where the message may be on its way to c, or there.
Places(c) ==
  ({"requests"} \X Conns) \cup ({"work"} \X Handlers)
  \cup ({"buffer"} \X {e \in Ends : e[1] = NodeOf[c]}) \cup {<<"log", c>>}

At(p) ==
  CASE p[1] = "requests" -> requests[p[2]]
    [] p[1] = "work" -> work[p[2]]
    [] p[1] = "buffer" -> buffer[p[2]]
    [] p[1] = "log" -> log[p[2]]

With(p, msg, c) ==
  CASE p[1] = "work" -> StepsWith(p[2], msg, c)
    [] p[1] = "log" -> {msg}
    [] OTHER -> PacketsWith(msg)

Holds(p, msg, c) == ~ None(At(p), With(p, msg, c))

Single(msg, c) ==
  /\ \A p \in Places(c) : One(At(p), With(p, msg, c))
  /\ \A p, q \in Places(c) : Holds(p, msg, c) /\ Holds(q, msg, c) => p = q

OnceInv == \A msg \in Messages : \A c \in Conns : ~ msg.retain => Single(msg, c)

LEMMA NothingEmpty ==
  ASSUME NEW S
  PROVE  None(<<>>, S) /\ One(<<>>, S)
  BY DEF None, One

LEMMA NoneIsOne ==
  ASSUME NEW s, NEW S, None(s, S)
  PROVE  One(s, S)
  BY DEF None, One

LEMMA OneOfSingle ==
  ASSUME NEW x, NEW S
  PROVE  One(<<x>>, S) /\ (None(<<x>>, S) <=> x \notin S)
  BY DEF None, One

LEMMA SingleTyped ==
  ASSUME NEW X, NEW x \in X
  PROVE  <<x>> \in Seq(X) /\ <<>> \in Seq(X)
  OBVIOUS

LEMMA JoinedNone ==
  ASSUME NEW X, NEW s \in Seq(X), NEW t \in Seq(X), NEW S
  PROVE  None(s \o t, S) <=> None(s, S) /\ None(t, S)
<1>1. /\ DOMAIN s = 1 .. Len(s) /\ DOMAIN t = 1 .. Len(t)
      /\ DOMAIN (s \o t) = 1 .. (Len(s) + Len(t))
      /\ Len(s) \in Nat /\ Len(t) \in Nat
      /\ \A i \in 1 .. (Len(s) + Len(t)) :
           (s \o t)[i] = IF i <= Len(s) THEN s[i] ELSE t[i - Len(s)]
  BY ConcatProperties, LenProperties
<1>2. ASSUME None(s \o t, S) PROVE None(s, S)
  BY <1>1, <1>2 DEF None
<1>3. ASSUME None(s \o t, S), NEW i \in DOMAIN t PROVE t[i] \notin S
  <2>1. Len(s) + i \in 1 .. (Len(s) + Len(t)) /\ (s \o t)[Len(s) + i] = t[i]
    BY <1>1
  <2> QED
    BY <1>1, <1>3, <2>1 DEF None
<1>4. ASSUME None(s, S), None(t, S) PROVE None(s \o t, S)
  BY <1>1, <1>4 DEF None
<1> QED
  BY <1>2, <1>3, <1>4 DEF None

LEMMA JoinedOne ==
  ASSUME NEW X, NEW s \in Seq(X), NEW t \in Seq(X), NEW S,
         One(s, S), One(t, S), None(s, S) \/ None(t, S)
  PROVE  One(s \o t, S)
<1>1. /\ DOMAIN s = 1 .. Len(s) /\ DOMAIN t = 1 .. Len(t)
      /\ DOMAIN (s \o t) = 1 .. (Len(s) + Len(t))
      /\ Len(s) \in Nat /\ Len(t) \in Nat
      /\ \A i \in 1 .. (Len(s) + Len(t)) :
           (s \o t)[i] = IF i <= Len(s) THEN s[i] ELSE t[i - Len(s)]
  BY ConcatProperties, LenProperties
<1>2. SUFFICES ASSUME NEW i \in DOMAIN (s \o t), NEW j \in DOMAIN (s \o t),
                      (s \o t)[i] \in S, (s \o t)[j] \in S
               PROVE  i = j
  BY DEF One
<1>3. CASE None(s, S)
  <2>1. /\ i > Len(s) /\ i - Len(s) \in DOMAIN t /\ t[i - Len(s)] \in S
        /\ j > Len(s) /\ j - Len(s) \in DOMAIN t /\ t[j - Len(s)] \in S
    BY <1>1, <1>2, <1>3 DEF None
  <2>2. i - Len(s) = j - Len(s)
    BY <2>1 DEF One
  <2> QED
    BY <1>1, <2>1, <2>2
<1>4. CASE None(t, S)
  <2>1. /\ i \in DOMAIN s /\ s[i] \in S
        /\ j \in DOMAIN s /\ s[j] \in S
    BY <1>1, <1>2, <1>4 DEF None
  <2> QED
    BY <2>1 DEF One
<1> QED
  BY <1>3, <1>4

LEMMA TakenFromHead ==
  ASSUME NEW X, NEW s \in Seq(X), s # <<>>, NEW S, One(s, S)
  PROVE  /\ One(Tail(s), S)
         /\ None(s, S) => None(Tail(s), S) /\ Head(s) \notin S
         /\ Head(s) \in S => None(Tail(s), S)
<1>1. /\ DOMAIN s = 1 .. Len(s) /\ Len(s) \in Nat \ {0}
      /\ DOMAIN Tail(s) = 1 .. (Len(s) - 1)
      /\ \A i \in 1 .. (Len(s) - 1) : Tail(s)[i] = s[i + 1]
      /\ Head(s) = s[1]
  BY HeadTailProperties, LenProperties, EmptySeq
<1>2. ASSUME NEW i \in DOMAIN Tail(s), NEW j \in DOMAIN Tail(s),
             Tail(s)[i] \in S, Tail(s)[j] \in S
      PROVE  i = j
  <2>1. /\ i + 1 \in DOMAIN s /\ s[i + 1] \in S
        /\ j + 1 \in DOMAIN s /\ s[j + 1] \in S
        /\ i \in Nat /\ j \in Nat
    BY <1>1, <1>2
  <2>2. i + 1 = j + 1
    BY <2>1 DEF One
  <2> QED
    BY <2>1, <2>2
<1>3. ASSUME None(s, S) PROVE None(Tail(s), S) /\ Head(s) \notin S
  BY <1>1, <1>3 DEF None
<1>4. ASSUME Head(s) \in S, NEW i \in DOMAIN Tail(s), Tail(s)[i] \in S PROVE FALSE
  <2>1. /\ i + 1 \in DOMAIN s /\ s[i + 1] \in S /\ i \in 1 .. (Len(s) - 1)
        /\ 1 \in DOMAIN s /\ s[1] \in S
    BY <1>1, <1>4
  <2>2. i + 1 = 1
    BY <2>1 DEF One
  <2> QED
    BY <1>1, <2>1, <2>2
<1> QED
  BY <1>2, <1>3, <1>4 DEF One, None

LEMMA NoneOfTail ==
  ASSUME NEW X, NEW s \in Seq(X), s # <<>>, NEW S, None(s, S)
  PROVE  None(Tail(s), S) /\ Head(s) \notin S
<1>1. /\ DOMAIN s = 1 .. Len(s) /\ Len(s) \in Nat \ {0}
      /\ DOMAIN Tail(s) = 1 .. (Len(s) - 1)
      /\ \A i \in 1 .. (Len(s) - 1) : Tail(s)[i] = s[i + 1]
      /\ Head(s) = s[1]
  BY HeadTailProperties, LenProperties, EmptySeq
<1> QED
  BY <1>1 DEF None

LEMMA PutLast ==
  ASSUME NEW X, NEW s \in Seq(X), NEW x \in X, NEW S, One(s, S)
  PROVE  /\ None(Append(s, x), S) <=> None(s, S) /\ x \notin S
         /\ None(s, S) \/ x \notin S => One(Append(s, x), S)
<1>1. /\ DOMAIN s = 1 .. Len(s) /\ Len(s) \in Nat
      /\ DOMAIN Append(s, x) = 1 .. (Len(s) + 1)
      /\ \A i \in 1 .. Len(s) : Append(s, x)[i] = s[i]
      /\ Append(s, x)[Len(s) + 1] = x
  BY AppendProperties, LenProperties
<1> QED
  BY <1>1 DEF None, One

\* A handler goes on: what it has to do next follows from the step done.
LEMMA GoneOn ==
  ASSUME NEW X, NEW s \in Seq(X), s # <<>>, NEW new \in Seq(X), NEW S,
         One(s, S), One(new, S), ~ None(new, S) => Head(s) \in S
  PROVE  /\ new \o Tail(s) \in Seq(X)
         /\ One(new \o Tail(s), S)
         /\ None(s, S) => None(new \o Tail(s), S)
<1>1. /\ Tail(s) \in Seq(X)
      /\ One(Tail(s), S)
      /\ None(s, S) => None(Tail(s), S) /\ Head(s) \notin S
      /\ Head(s) \in S => None(Tail(s), S)
  BY TakenFromHead, HeadTailProperties
<1> QED
  BY <1>1, ConcatProperties, JoinedOne, JoinedNone

-----------------------------------------------------------------------------
(* Handlers, packets and steps                                             *)

LEMMA Homes ==
  ASSUME NEW h \in Handlers
  PROVE  /\ Home(h) \in Nodes
         /\ h \in Conns => Home(h) = NodeOf[h] /\ h \notin Ends
         /\ h \in Ends => /\ h \notin Conns /\ Home(h) = h[1] /\ h[2] \in Nodes \ {h[1]}
                          /\ Peer(h) \in Ends /\ Peer(h)[2] = h[1] /\ Peer(h)[1] = h[2]
         /\ Answered(h) \in Reached(h)
         /\ Reached(h) \subseteq Handlers
  BY ConnAssumption DEF Handlers, Home, Ends, Peer, Answered, Reached

LEMMA Targets ==
  ASSUME NEW h \in Handlers, NEW c \in Conns
  PROVE  /\ Home(h) = NodeOf[c] => Target(h, c) = c
         /\ Home(h) # NodeOf[c] => Target(h, c) = <<NodeOf[c], Home(h)>>
                                   /\ Target(h, c) \in Ends
         /\ Target(h, c) \in Ends <=> Home(h) # NodeOf[c]
<1>1. Home(h) \in Nodes /\ NodeOf[c] \in Nodes /\ c \notin Ends
  BY Homes, ConnAssumption
<1> QED
  BY <1>1 DEF Target, Ends

LEMMA Identifiers ==
  ASSUME NEW h \in Handlers
  PROVE  Id(h) \in Ids
  BY ConnAssumption DEF Handlers, Id, Ids

LEMMA PacketOf ==
  ASSUME NEW packet \in Packets
  PROVE  /\ packet.kind \in {"ack", "ping", "publish", "subscribe", "unsubscribe"}
         /\ packet.kind = "publish" => packet.msg \in Messages
         /\ packet.kind \in {"subscribe", "unsubscribe"} => packet.filters \in Seq(Filters)
  BY DEF Packets

LEMMA StepOf ==
  ASSUME NEW h, NEW s \in StepsOf(h)
  PROVE  /\ s.do \in {"write", "write or return"} => s.to \in Reached(h) /\ s.packet \in Packets
         /\ s.do = "send" =>
              /\ s.to \subseteq (Filters \cup {"link"}) \X Reached(h)
              /\ s.told \subseteq Ids /\ s.packet \in Packets
              /\ s = [do |-> "send", to |-> s.to, told |-> s.told, packet |-> s.packet]
         /\ s.do \in {"match", "match links"} => s.msg \in Messages
         /\ s.do = "retain" => s.msg \in RetainedMessages
         /\ s.do \in {"subscribe", "unsubscribe"} => s.filter \in Filters
         /\ s.do = "sync" => h \in Ends /\ s.left \subseteq Filters
<1>1. CASE s \in [do : {"write", "write or return"}, to : Reached(h), packet : Packets]
  BY <1>1
<1>2. CASE s \in [do : {"send"}, to : SUBSET ((Filters \cup {"link"}) \X Reached(h)),
                  told : SUBSET Ids, packet : Packets]
  BY <1>2
<1>3. CASE s \in [do : {"match", "match links"}, msg : Messages]
  BY <1>3
<1>4. CASE s \in [do : {"retain"}, msg : RetainedMessages]
  BY <1>4
<1>5. CASE s \in [do : {"subscribe", "unsubscribe"}, filter : Filters]
  BY <1>5
<1>6. CASE s \in [do : {"search"}]
  BY <1>6
<1>7. CASE h \in Ends /\ s \in [do : {"sync"}, left : SUBSET Filters]
  BY <1>7
<1> QED
  BY <1>1, <1>2, <1>3, <1>4, <1>5, <1>6, <1>7 DEF StepsOf

LEMMA SentTyped ==
  ASSUME NEW h, NEW pairs \in SUBSET ((Filters \cup {"link"}) \X Reached(h)),
         NEW told \in SUBSET Ids, NEW packet \in Packets
  PROVE  SendRest(pairs, told, packet) \in Seq(StepsOf(h))
<1>1. [do |-> "send", to |-> pairs, told |-> told, packet |-> packet] \in StepsOf(h)
  BY DEF StepsOf
<1> QED
  BY <1>1, SingleTyped, EmptySeq DEF SendRest

LEMMA WrittenTyped ==
  ASSUME NEW h, NEW to \in Reached(h), NEW packet \in Packets
  PROVE  /\ Write(to, packet) \in Seq(StepsOf(h))
         /\ WriteOrReturn(to, packet) \in Seq(StepsOf(h))
<1>1. /\ [do |-> "write", to |-> to, packet |-> packet] \in StepsOf(h)
      /\ [do |-> "write or return", to |-> to, packet |-> packet] \in StepsOf(h)
  BY DEF StepsOf
<1> QED
  BY <1>1, SingleTyped DEF Write, WriteOrReturn

LEMMA EachTyped ==
  ASSUME NEW h, NEW do \in {"subscribe", "unsubscribe"}, NEW filters \in Seq(Filters)
  PROVE  Each(do, filters) \in Seq(StepsOf(h))
<1>1. /\ DOMAIN filters = 1 .. Len(filters) /\ Len(filters) \in Nat
      /\ \A i \in DOMAIN filters : filters[i] \in Filters
  BY LenProperties, ElementOfSeq
<1>2. \A i \in DOMAIN filters : [do |-> do, filter |-> filters[i]] \in StepsOf(h)
  BY <1>1 DEF StepsOf
<1>3. Each(do, filters) \in [1 .. Len(filters) -> StepsOf(h)]
  BY <1>1, <1>2 DEF Each
<1> QED
  BY <1>1, <1>3, SeqDef

LEMMA LinksTyped ==
  ASSUME linked \subseteq Ends, NEW h \in Handlers, NEW packet \in Packets
  PROVE  Forwards(h, packet) \in Seq(StepsOf(h))
<1> DEFINE pairs == {<<"link", Peer(e)>> : e \in {f \in linked : f[1] = Home(h)}}
<1>1. \A e \in {f \in linked : f[1] = Home(h)} : Peer(e) \in Reached(h)
  BY DEF Reached, Peer, Ends
<1>2. pairs \in SUBSET ((Filters \cup {"link"}) \X Reached(h))
  BY <1>1
<1>3. Send(pairs, packet) \in Seq(StepsOf(h))
  BY <1>2, SentTyped DEF Send
<1> QED
  BY <1>3, EmptySeq DEF Forwards, ToLinks

LEMMA PublishTyped ==
  ASSUME NEW h, NEW msg \in Messages
  PROVE  PublishSteps(h, msg) \in Seq(StepsOf(h))
<1> DEFINE T == Seq(StepsOf(h))
           match == <<[do |-> "match", msg |-> msg]>>
           links == IF h \in Conns THEN <<[do |-> "match links", msg |-> msg]>> ELSE <<>>
           retain == IF msg.retain THEN <<[do |-> "retain", msg |-> msg]>> ELSE <<>>
<1>1. /\ [do |-> "match", msg |-> msg] \in StepsOf(h)
      /\ [do |-> "match links", msg |-> msg] \in StepsOf(h)
      /\ msg.retain => [do |-> "retain", msg |-> msg] \in StepsOf(h)
  BY DEF StepsOf, RetainedMessages
<1>2. match \in T
  BY <1>1, SingleTyped
<1>3. links \in T
  BY <1>1, SingleTyped
<1>4. retain \in T
  BY <1>1, SingleTyped, EmptySeq
<1>5. PublishSteps(h, msg) = match \o links \o retain
  BY DEF PublishSteps
<1> HIDE DEF match, links, retain
<1> QED
  BY <1>2, <1>3, <1>4, <1>5, ConcatProperties

LEMMA StepsTyped ==
  ASSUME linked \subseteq Ends, NEW h \in Handlers, NEW packet \in Packets
  PROVE  Steps(h, packet) \in Seq(StepsOf(h))
<1> DEFINE T == Seq(StepsOf(h))
<1>1. Ack \in Packets /\ Answered(h) \in Reached(h) /\ (h \in Conns => h \in Reached(h))
  BY Homes DEF Ack, Packets, Reached, Home
<1>2. /\ Write(Answered(h), Ack) \in T /\ Forwards(h, packet) \in T /\ <<>> \in T
      /\ h \in Conns => WriteOrReturn(h, Ack) \in T
  BY <1>1, WrittenTyped, LinksTyped, EmptySeq
<1>3. CASE packet.kind = "publish"
  <2> DEFINE a == IF h \in Conns /\ packet.qos = 1 THEN WriteOrReturn(h, Ack) ELSE <<>>
  <2>1. a \in T /\ PublishSteps(h, packet.msg) \in T
    BY <1>2, <1>3, PacketOf, PublishTyped
  <2>2. Steps(h, packet) = a \o PublishSteps(h, packet.msg)
    BY <1>3 DEF Steps
  <2> HIDE DEF a
  <2> QED
    BY <2>1, <2>2, ConcatProperties
<1>4. CASE packet.kind \in {"subscribe", "unsubscribe"}
  <2>1. Each(packet.kind, packet.filters) \in T
    BY <1>4, PacketOf, EachTyped
  <2>2. Steps(h, packet) =
          Write(Answered(h), Ack) \o Each(packet.kind, packet.filters) \o Forwards(h, packet)
    BY <1>4 DEF Steps
  <2> QED
    BY <1>2, <2>1, <2>2, ConcatProperties
<1>5. CASE packet.kind \in {"ack", "ping"}
  BY <1>2, <1>5 DEF Steps
<1> QED
  BY <1>3, <1>4, <1>5, PacketOf

LEMMA HeadOfWork ==
  ASSUME Typed, NEW h \in Handlers, NEW do, Doing(h, do)
  PROVE  work[h] # <<>> /\ Head(work[h]) \in StepsOf(h) /\ Head(work[h]).do = do
  BY HeadTailProperties DEF Typed, Doing

LEMMA WriteNotWith ==
  ASSUME NEW h, NEW msg, NEW c, NEW to, NEW packet, packet \notin PacketsWith(msg)
  PROVE  /\ None(Write(to, packet), StepsWith(h, msg, c))
         /\ None(WriteOrReturn(to, packet), StepsWith(h, msg, c))
  BY OneOfSingle DEF Write, WriteOrReturn, StepsWith

LEMMA SendNotWith ==
  ASSUME NEW h, NEW msg, NEW c, NEW pairs, NEW packet, packet \notin PacketsWith(msg)
  PROVE  None(Send(pairs, packet), StepsWith(h, msg, c))
  BY OneOfSingle, NothingEmpty DEF Send, SendRest, StepsWith

LEMMA EachNotWith ==
  ASSUME NEW h, NEW msg, NEW c, NEW filters, NEW do \in {"subscribe", "unsubscribe"}
  PROVE  None(Each(do, filters), StepsWith(h, msg, c))
  BY DEF None, Each, StepsWith

\* The packet of a message, and nothing else, makes a handler send it on;
\* to its clients, or over the links if it comes from a client.
LEMMA StepsOnce ==
  ASSUME linked \subseteq Ends, NEW h \in Handlers, NEW packet \in Packets,
         NEW msg \in Messages, ~ msg.retain, NEW c \in Conns
  PROVE  /\ One(Steps(h, packet), StepsWith(h, msg, c))
         /\ ~ None(Steps(h, packet), StepsWith(h, msg, c)) =>
              packet \in PacketsWith(msg) /\ (h \in Conns \/ Home(h) = NodeOf[c])
<1> DEFINE T == Seq(StepsOf(h))
           S == StepsWith(h, msg, c)
<1>1. Ack \in Packets /\ Ack \notin PacketsWith(msg)
  BY DEF Ack, Packets, PacketsWith
<1>2. /\ Answered(h) \in Reached(h)
      /\ h \in Conns => h \in Reached(h)
  BY Homes DEF Reached, Home
<1>3. /\ None(Write(Answered(h), Ack), S) /\ Write(Answered(h), Ack) \in T
      /\ h \in Conns => None(WriteOrReturn(h, Ack), S) /\ WriteOrReturn(h, Ack) \in T
  BY <1>1, <1>2, WriteNotWith, WrittenTyped
<1>4. CASE packet.kind = "publish"
  <2> DEFINE ack == IF h \in Conns /\ packet.qos = 1 THEN WriteOrReturn(h, Ack) ELSE <<>>
             match == <<[do |-> "match", msg |-> packet.msg]>>
             links == IF h \in Conns THEN <<[do |-> "match links", msg |-> packet.msg]>>
                      ELSE <<>>
             retain == IF packet.msg.retain THEN <<[do |-> "retain", msg |-> packet.msg]>>
                       ELSE <<>>
  <2>1. packet.msg \in Messages /\ (packet \in PacketsWith(msg) <=> packet.msg = msg)
    BY <1>4, PacketOf DEF PacketsWith
  <2>2. /\ [do |-> "match", msg |-> packet.msg] \in StepsOf(h)
        /\ [do |-> "match links", msg |-> packet.msg] \in StepsOf(h)
        /\ packet.msg.retain => [do |-> "retain", msg |-> packet.msg] \in StepsOf(h)
    BY <2>1 DEF StepsOf, RetainedMessages
  <2>3. None(ack, S) /\ ack \in T
    BY <1>3, NothingEmpty, SingleTyped
  <2>4. /\ match \in T /\ One(match, S)
        /\ ~ None(match, S) => packet.msg = msg /\ Home(h) = NodeOf[c]
    BY <2>2, SingleTyped, OneOfSingle DEF StepsWith
  <2>5. links \in T
    BY <2>2, SingleTyped
  <2>6. /\ One(links, S)
        /\ ~ None(links, S) => packet.msg = msg /\ Home(h) # NodeOf[c] /\ h \in Conns
    BY OneOfSingle, NothingEmpty DEF StepsWith
  <2>7. retain \in T
    BY <2>2, SingleTyped, EmptySeq
  <2>8. None(retain, S)
    BY OneOfSingle, NothingEmpty DEF StepsWith
  <2>9. Steps(h, packet) = ack \o (match \o links \o retain)
    BY <1>4 DEF Steps, PublishSteps
  <2> HIDE DEF ack, match, links, retain, S, T
  <2>10. /\ match \o links \in T
         /\ One(match \o links, S)
         /\ None(match \o links, S) <=> None(match, S) /\ None(links, S)
    BY <2>4, <2>5, <2>6, ConcatProperties, JoinedOne, JoinedNone DEF T
  <2>11. /\ match \o links \o retain \in T
         /\ One(match \o links \o retain, S)
         /\ None(match \o links \o retain, S) <=> None(match \o links, S)
    <3> DEFINE both == match \o links
    <3> HIDE DEF both
    <3>1. both \in T /\ One(both, S) /\ One(retain, S)
      BY <2>8, <2>10, NoneIsOne DEF both
    <3>2. /\ both \o retain \in T
          /\ One(both \o retain, S)
          /\ None(both \o retain, S) <=> None(both, S)
      BY <2>7, <2>8, <3>1, ConcatProperties, JoinedOne, JoinedNone DEF T
    <3> QED
      BY <3>2 DEF both
  <2>12. /\ One(Steps(h, packet), S)
         /\ None(Steps(h, packet), S) <=> None(match \o links \o retain, S)
    <3> DEFINE rest == match \o links \o retain
    <3> HIDE DEF rest
    <3>1. rest \in T /\ One(rest, S) /\ One(ack, S)
      BY <2>3, <2>11, NoneIsOne DEF rest
    <3>2. One(ack \o rest, S) /\ (None(ack \o rest, S) <=> None(rest, S))
      BY <2>3, <3>1, JoinedOne, JoinedNone DEF T
    <3> QED
      BY <2>9, <3>2 DEF rest
  <2> QED
    BY <2>1, <2>4, <2>6, <2>10, <2>11, <2>12 DEF S
<1>5. CASE packet.kind \in {"subscribe", "unsubscribe"}
  <2> DEFINE ack == Write(Answered(h), Ack)
             each == Each(packet.kind, packet.filters)
             forwards == Forwards(h, packet)
  <2>1. each \in T /\ None(each, S)
    BY <1>5, PacketOf, EachTyped, EachNotWith
  <2>2. packet \notin PacketsWith(msg)
    BY <1>5 DEF PacketsWith
  <2>3. forwards \in T /\ None(forwards, S)
    BY <2>2, LinksTyped, SendNotWith, NothingEmpty DEF Forwards, ToLinks
  <2>4. ack \in T /\ None(ack, S)
    BY <1>3
  <2>5. Steps(h, packet) = ack \o each \o forwards
    BY <1>5 DEF Steps
  <2> HIDE DEF S, ack, each, forwards
  <2>6. ack \o each \in T /\ None(ack \o each, S)
    BY <2>1, <2>4, JoinedNone, ConcatProperties
  <2>7. None(ack \o each \o forwards, S)
    BY <2>3, <2>6, JoinedNone
  <2> QED
    BY <2>5, <2>7, NoneIsOne DEF S
<1>6. CASE packet.kind \in {"ack", "ping"}
  <2>1. Steps(h, packet) \in {<<>>, Write(Answered(h), Ack)}
    BY <1>6 DEF Steps
  <2> QED
    BY <1>3, <2>1, NothingEmpty, NoneIsOne
<1> QED
  BY <1>4, <1>5, <1>6, PacketOf

-----------------------------------------------------------------------------
(* What a step is followed by                                              *)

\* A handler goes on with steps that pass on what it has in hand, once to
\* each client, and nothing else.
PassesOn(h, steps) ==
  \A msg \in Messages, c \in Conns : ~ msg.retain =>
    /\ One(steps, StepsWith(h, msg, c))
    /\ None(steps, StepsWith(h, msg, c)) \/ Head(work[h]) \in StepsWith(h, msg, c)

Passes(h) == \E steps \in Seq(StepsOf(h)) : Then(h, steps) /\ PassesOn(h, steps)

LEMMA PickPasses ==
  ASSUME Typed, NEW h \in Handlers, PickRecipient(h)
  PROVE  Passes(h)
<1> DEFINE send == Head(work[h])
<1>1. send \in StepsOf(h) /\ send.do = "send"
  BY HeadOfWork DEF PickRecipient
<1>2. /\ send.to \subseteq (Filters \cup {"link"}) \X Reached(h)
      /\ send.told \subseteq Ids /\ send.packet \in Packets
  BY <1>1, StepOf
<1>3. PICK p \in send.to :
        Then(h, (IF Id(p[2]) \in send.told THEN <<>> ELSE Write(p[2], send.packet))
                \o SendRest(send.to \ {p}, send.told \cup {Id(p[2])}, send.packet))
  BY DEF PickRecipient
<1>4. p[2] \in Reached(h) /\ Id(p[2]) \in Ids
  BY <1>2, Homes, Identifiers
<1> DEFINE first == IF Id(p[2]) \in send.told THEN <<>> ELSE Write(p[2], send.packet)
           rest == SendRest(send.to \ {p}, send.told \cup {Id(p[2])}, send.packet)
<1>5. first \in Seq(StepsOf(h))
  BY <1>2, <1>4, WrittenTyped, SingleTyped
<1>6. rest \in Seq(StepsOf(h))
  <2>1. /\ send.to \ {p} \in SUBSET ((Filters \cup {"link"}) \X Reached(h))
        /\ send.told \cup {Id(p[2])} \in SUBSET Ids
    BY <1>2, <1>4
  <2> QED
    BY <1>2, <2>1, SentTyped
<1>7. ASSUME NEW msg \in Messages, NEW c \in Conns
      PROVE  /\ One(first \o rest, StepsWith(h, msg, c))
             /\ None(first \o rest, StepsWith(h, msg, c)) \/ send \in StepsWith(h, msg, c)
  <2> DEFINE S == StepsWith(h, msg, c)
             t == Target(h, c)
  <2>1. /\ One(first, S)
        /\ ~ None(first, S) =>
             p[2] = t /\ send.packet \in PacketsWith(msg) /\ Id(t) \notin send.told
    <3>1. CASE Id(p[2]) \in send.told
      BY <3>1, NothingEmpty
    <3>2. CASE Id(p[2]) \notin send.told
      <4>1. first = <<[do |-> "write", to |-> p[2], packet |-> send.packet]>>
        BY <3>2 DEF Write
      <4>2. [do |-> "write", to |-> p[2], packet |-> send.packet] \in S
              => p[2] = t /\ send.packet \in PacketsWith(msg)
        BY DEF StepsWith
      <4> QED
        BY <3>2, <4>1, <4>2, OneOfSingle
    <3> QED
      BY <3>1, <3>2
  <2>2. /\ One(rest, S)
        /\ ~ None(rest, S) => /\ send.packet \in PacketsWith(msg)
                              /\ Id(t) \notin send.told /\ Id(t) # Id(p[2])
                              /\ \E q \in send.to : q[2] = t
    <3> DEFINE x == [do |-> "send", to |-> send.to \ {p}, told |-> send.told \cup {Id(p[2])},
                     packet |-> send.packet]
    <3>1. rest = <<>> \/ rest = <<x>>
      BY DEF SendRest
    <3>2. x \in S => /\ send.packet \in PacketsWith(msg)
                     /\ Id(t) \notin send.told /\ Id(t) # Id(p[2])
                     /\ \E q \in send.to : q[2] = t
      BY DEF StepsWith
    <3> HIDE DEF x, rest
    <3> QED
      BY <3>1, <3>2, OneOfSingle, NothingEmpty
  <2>3. ~ None(first, S) \/ ~ None(rest, S) => send \in S
    <3>1. ~ None(first, S) \/ ~ None(rest, S) =>
            /\ send.packet \in PacketsWith(msg) /\ Id(t) \notin send.told
            /\ \E q \in send.to : q[2] = t
      BY <1>3, <2>1, <2>2
    <3> QED
      BY <1>1, <3>1 DEF StepsWith
  <2>4. None(first, S) \/ None(rest, S)
    BY <2>1, <2>2
  <2> HIDE DEF first, rest, S
  <2> QED
    BY <1>5, <1>6, <2>1, <2>2, <2>3, <2>4, JoinedOne, JoinedNone DEF S
<1>8. Then(h, first \o rest)
  BY <1>3
<1> HIDE DEF first, rest
<1>9. first \o rest \in Seq(StepsOf(h)) /\ PassesOn(h, first \o rest)
  BY <1>5, <1>6, <1>7, ConcatProperties DEF PassesOn
<1> QED
  BY <1>8, <1>9 DEF Passes

LEMMA MatchPasses ==
  ASSUME Typed, NEW h \in Handlers, Match(h)
  PROVE  Passes(h)
<1> DEFINE m == Head(work[h]).msg
           new == Send(subs[Home(h)], Publish(m))
           x == [do |-> "send", to |-> subs[Home(h)], told |-> {}, packet |-> Publish(m)]
<1>1. /\ Head(work[h]) \in StepsOf(h) /\ Head(work[h]).do = "match"
      /\ m \in Messages /\ Then(h, new)
  BY HeadOfWork, StepOf DEF Match
<1>2. Publish(m) \in Packets
  BY <1>1 DEF Publish, Packets
<1>3. subs[Home(h)] \in SUBSET ((Filters \cup {"link"}) \X Reached(h))
  BY Homes DEF Typed, Reached
<1>4. new \in Seq(StepsOf(h))
  BY <1>2, <1>3, SentTyped DEF Send
<1>5. ASSUME NEW msg \in Messages, NEW c \in Conns, x \in StepsWith(h, msg, c)
      PROVE  Head(work[h]) \in StepsWith(h, msg, c)
  <2>1. Publish(m) \in PacketsWith(msg) /\ \E p \in subs[Home(h)] : p[2] = Target(h, c)
    BY <1>5 DEF StepsWith
  <2>2. m = msg
    BY <2>1 DEF PacketsWith, Publish
  <2>3. Target(h, c) \in Conns
    BY <2>1, Homes DEF Typed
  <2>4. Home(h) = NodeOf[c]
    BY <2>3, Targets, ConnAssumption
  <2> QED
    BY <1>1, <2>2, <2>4 DEF StepsWith
<1>6. new = <<>> \/ new = <<x>>
  BY DEF Send, SendRest
<1> HIDE DEF x, new
<1>7. PassesOn(h, new)
  BY <1>5, <1>6, OneOfSingle, NothingEmpty DEF PassesOn
<1> QED
  BY <1>1, <1>4, <1>7 DEF Passes

LEMMA MatchLinksPasses ==
  ASSUME Typed, NEW h \in Handlers, MatchLinks(h)
  PROVE  Passes(h)
<1> DEFINE m == Head(work[h]).msg
           pairs == {<<r[1], <<r[2], Home(h)>>>> : r \in remote[Home(h)]}
           new == Send(pairs, Publish(m))
           x == [do |-> "send", to |-> pairs, told |-> {}, packet |-> Publish(m)]
<1>1. /\ Head(work[h]) \in StepsOf(h) /\ Head(work[h]).do = "match links"
      /\ m \in Messages /\ Then(h, new)
  BY HeadOfWork, StepOf DEF MatchLinks
<1>2. Publish(m) \in Packets
  BY <1>1 DEF Publish, Packets
<1>3. \A r \in remote[Home(h)] : r[1] \in Filters /\ <<r[2], Home(h)>> \in Ends
  BY Homes DEF Typed, Ends
<1>4. new \in Seq(StepsOf(h))
  <2>1. pairs \in SUBSET ((Filters \cup {"link"}) \X Reached(h))
    BY <1>3 DEF Reached
  <2> QED
    BY <1>2, <2>1, SentTyped DEF Send
<1>5. ASSUME NEW msg \in Messages, NEW c \in Conns, x \in StepsWith(h, msg, c)
      PROVE  Head(work[h]) \in StepsWith(h, msg, c)
  <2>1. Publish(m) \in PacketsWith(msg) /\ \E p \in pairs : p[2] = Target(h, c)
    BY <1>5 DEF StepsWith
  <2>2. m = msg
    BY <2>1 DEF PacketsWith, Publish
  <2>3. Target(h, c) \in Ends
    BY <1>3, <2>1
  <2>4. Home(h) # NodeOf[c]
    BY <2>3, Targets
  <2> QED
    BY <1>1, <2>2, <2>4 DEF StepsWith
<1>6. new = <<>> \/ new = <<x>>
  BY DEF Send, SendRest
<1> HIDE DEF x, new
<1>7. PassesOn(h, new)
  BY <1>5, <1>6, OneOfSingle, NothingEmpty DEF PassesOn
<1> QED
  BY <1>1, <1>4, <1>7 DEF Passes

\* The other steps pass nothing on.
LEMMA PassesNothing ==
  ASSUME NEW h \in Handlers, NEW new \in Seq(StepsOf(h)), Then(h, new),
         \A msg \in Messages, c \in Conns : ~ msg.retain => None(new, StepsWith(h, msg, c))
  PROVE  Passes(h)
<1>1. PassesOn(h, new)
  BY NoneIsOne DEF PassesOn
<1> QED
  BY <1>1 DEF Passes

LEMMA SearchPasses ==
  ASSUME Typed, NEW h \in Handlers, Search(h)
  PROVE  Passes(h)
<1> DEFINE found == retained[Home(h)]
           new == IF found = NoMessage THEN <<>> ELSE Write(Answered(h), Publish(found))
<1>1. found # NoMessage => found \in Messages /\ found.retain
  BY Homes DEF Typed, RetainedMessages
<1>2. found # NoMessage => Publish(found) \in Packets
  BY <1>1 DEF Publish, Packets
<1>3. new \in Seq(StepsOf(h)) /\ Then(h, new)
  BY <1>2, Homes, WrittenTyped, EmptySeq DEF Search
<1>4. ASSUME NEW msg \in Messages, NEW c \in Conns, ~ msg.retain
      PROVE  None(new, StepsWith(h, msg, c))
  <2>1. found # NoMessage => Publish(found) \notin PacketsWith(msg)
    BY <1>1, <1>4 DEF Publish, PacketsWith
  <2> QED
    BY <2>1, WriteNotWith, NothingEmpty
<1> QED
  BY <1>3, <1>4, PassesNothing

LEMMA SyncPasses ==
  ASSUME Typed, NEW h \in Handlers, SyncTopic(h)
  PROVE  Passes(h)
<1> DEFINE left == Head(work[h]).left
<1>1. h \in Ends /\ left \subseteq Filters
  BY HeadOfWork, StepOf DEF SyncTopic
<1>2. PICK f \in left :
        Then(h, (IF \E p \in subs[Home(h)] : p[1] = f
                 THEN Write(Peer(h), [kind |-> "subscribe", filters |-> <<f>>]) ELSE <<>>)
                \o (IF left \ {f} = {} THEN <<>>
                    ELSE <<[do |-> "sync", left |-> left \ {f}]>>))
  BY DEF SyncTopic
<1> DEFINE packet == [kind |-> "subscribe", filters |-> <<f>>]
           x == [do |-> "sync", left |-> left \ {f}]
           first == IF \E p \in subs[Home(h)] : p[1] = f THEN Write(Peer(h), packet) ELSE <<>>
           rest == IF left \ {f} = {} THEN <<>> ELSE <<x>>
<1>3. packet \in Packets /\ \A msg : packet \notin PacketsWith(msg)
  BY <1>1, SingleTyped DEF Packets, PacketsWith
<1>4. Peer(h) \in Reached(h)
  BY <1>1, Homes DEF Reached
<1>5. x \in StepsOf(h) /\ \A msg, c : x \notin StepsWith(h, msg, c)
  BY <1>1 DEF StepsOf, StepsWith
<1>6. Then(h, first \o rest)
  BY <1>2
<1> HIDE DEF packet, x
<1>7. first \in Seq(StepsOf(h)) /\ \A msg, c : None(first, StepsWith(h, msg, c))
  BY <1>3, <1>4, WrittenTyped, WriteNotWith, EmptySeq, NothingEmpty
<1>8. rest \in Seq(StepsOf(h)) /\ \A msg, c : None(rest, StepsWith(h, msg, c))
  BY <1>5, SingleTyped, OneOfSingle, NothingEmpty
<1> HIDE DEF first, rest
<1>9. first \o rest \in Seq(StepsOf(h)) /\ \A msg, c : None(first \o rest, StepsWith(h, msg, c))
  BY <1>7, <1>8, ConcatProperties, JoinedNone
<1> QED
  BY <1>6, <1>9, PassesNothing

LEMMA OthersPass ==
  ASSUME NEW h \in Handlers, WriteLost(h) \/ Retain(h) \/ Subscribe(h) \/ Unsubscribe(h)
  PROVE  Passes(h)
<1>1. CASE WriteLost(h) \/ Retain(h) \/ Unsubscribe(h)
  <2>1. Then(h, <<>>) /\ <<>> \in Seq(StepsOf(h))
    BY <1>1, EmptySeq DEF WriteLost, Retain, Unsubscribe
  <2> QED
    BY <2>1, PassesNothing, NothingEmpty
<1>2. CASE Subscribe(h)
  <2> DEFINE x == [do |-> "search"]
  <2>1. x \in StepsOf(h) /\ \A msg, c : x \notin StepsWith(h, msg, c)
    BY DEF StepsOf, StepsWith
  <2>2. Then(h, <<x>>)
    BY <1>2 DEF Subscribe
  <2> HIDE DEF x
  <2>3. <<x>> \in Seq(StepsOf(h)) /\ \A msg, c : None(<<x>>, StepsWith(h, msg, c))
    BY <2>1, SingleTyped, OneOfSingle
  <2> QED
    BY <2>2, <2>3, PassesNothing
<1> QED
  BY <1>1, <1>2

\* The steps of Handle that only change what the handler has to do.
GoesOn(h) ==
  \/ PickRecipient(h) \/ WriteLost(h) \/ Match(h) \/ MatchLinks(h) \/ Retain(h)
  \/ Subscribe(h) \/ Search(h) \/ Unsubscribe(h) \/ SyncTopic(h)

LEMMA HandlersPass ==
  ASSUME Typed, NEW h \in Handlers, GoesOn(h)
  PROVE  /\ work[h] # <<>> /\ Head(work[h]) \in StepsOf(h) /\ Passes(h)
         /\ UNCHANGED <<requests, buffer, log>>
<1>1. work[h] # <<>> /\ Head(work[h]) \in StepsOf(h)
  BY HeadOfWork DEF GoesOn, WriteLost, Writing, PickRecipient, Match, MatchLinks, Retain,
                    Subscribe, Search, Unsubscribe, SyncTopic
<1>2. UNCHANGED <<requests, buffer, log>>
  BY DEF GoesOn, WriteLost, PickRecipient, Match, MatchLinks, Retain, Subscribe, Search,
         Unsubscribe, SyncTopic, history
<1> QED
  BY <1>1, <1>2, PickPasses, MatchPasses, MatchLinksPasses, SearchPasses, SyncPasses, OthersPass
     DEF GoesOn

-----------------------------------------------------------------------------
(* Types                                                                   *)

LEMMA FoundTyped ==
  ASSUME NEW S, IsFiniteSet(S)
  PROVE  SetToSeq(S) \in Seq(S)
<1>1. PICK n \in Nat : ExistsBijection(1 .. n, S)
  BY FS_NatBijection
<1>2. IsFiniteSet(1 .. n) /\ Cardinality(1 .. n) = n
  BY FS_Interval
<1>3. Cardinality(S) = n
  BY <1>1, <1>2, FS_Bijection
<1>4. SetToSeq(S) \in [1 .. n -> S]
  <2>1. PICK f \in [1 .. n -> S] : \A i, j \in 1 .. n : f[i] = f[j] => i = j
    BY <1>1 DEF ExistsBijection, Bijection, Injection, IsInjective
  <2>2. IsInjective(f)
    BY <2>1 DEF IsInjective
  <2> QED
    BY <1>3, <2>2 DEF SetToSeq
<1> QED
  BY <1>4, SeqDef

\* What a handler does may be followed by any typed steps.
LEMMA ThenTyped ==
  ASSUME Typed, NEW h \in Handlers, work[h] # <<>>,
         NEW steps \in Seq(StepsOf(h)), Then(h, steps)
  PROVE  DOMAIN work' = Handlers /\ \A k \in Handlers : work'[k] \in Seq(StepsOf(k))
<1>1. steps \o Tail(work[h]) \in Seq(StepsOf(h))
  BY HeadTailProperties, ConcatProperties DEF Typed
<1> QED
  BY <1>1 DEF Typed, Then

LEMMA PassesTyped ==
  ASSUME Typed, NEW h \in Handlers, GoesOn(h)
  PROVE  DOMAIN work' = Handlers /\ \A k \in Handlers : work'[k] \in Seq(StepsOf(k))
  BY HandlersPass, ThenTyped DEF Passes

LEMMA InitTyped == Init => Typed
<1> SUFFICES ASSUME Init PROVE Typed
  OBVIOUS
<1>1. PICK program \in Programs :
        /\ linked = IF program.linked THEN Ends ELSE {}
        /\ requests = program.requests
        /\ subs = program.subs
        /\ status = program.status
        /\ work = [h \in Handlers |->
             IF h \in linked THEN <<[do |-> "sync", left |-> Filters]>> ELSE <<>>]
        /\ remote = [n \in Nodes |-> {}]
        /\ retained = [n \in Nodes |-> NoMessage]
        /\ buffer = [h \in Handlers |-> <<>>]
        /\ log = [c \in Conns |-> <<>>]
  BY DEF Init
<1>2. /\ requests \in [Conns -> Seq(Packets)]
      /\ status \in [Conns -> {"up", "gone", "closed"}]
      /\ subs \in [Nodes -> SUBSET (Filters \X Conns)]
      /\ \A n \in Nodes : \A p \in subs[n] : NodeOf[p[2]] = n
  BY <1>1, ProgramAssumption
<1>3. linked \subseteq Ends
  BY <1>1
<1>4. DOMAIN work = Handlers /\ \A h \in Handlers : work[h] \in Seq(StepsOf(h))
  <2>1. DOMAIN work = Handlers
    BY <1>1
  <2>2. ASSUME NEW h \in Handlers PROVE work[h] \in Seq(StepsOf(h))
    <3>1. h \in Ends => [do |-> "sync", left |-> Filters] \in StepsOf(h)
      BY DEF StepsOf
    <3>2. work[h] = IF h \in linked THEN <<[do |-> "sync", left |-> Filters]>> ELSE <<>>
      BY <1>1
    <3> QED
      BY <1>3, <3>1, <3>2, SingleTyped
  <2> QED
    BY <2>1, <2>2
<1>5. /\ remote \in [Nodes -> SUBSET (Filters \X Nodes)]
      /\ \A n \in Nodes : \A r \in remote[n] : r[2] # n
      /\ retained \in [Nodes -> {NoMessage} \cup {msg \in RetainedMessages : msg.payload}]
  BY <1>1
<1>6. /\ buffer \in [Handlers -> Seq(Packets)]
      /\ \A h \in Handlers : Len(buffer[h]) <= Room(h)
      /\ log \in [Conns -> Seq(Messages)]
  BY <1>1, EmptySeq, RoomAssumption DEF Room
<1> QED
  BY <1>2, <1>3, <1>4, <1>5, <1>6 DEF Typed

LEMMA ReadRequestTyped ==
  ASSUME Typed, NEW c \in Conns, ReadRequest(c)
  PROVE  Typed'
<1>1. c \in Handlers /\ requests[c] \in Seq(Packets) /\ requests[c] # <<>>
  BY DEF Typed, Handlers, ReadRequest
<1>2. Head(requests[c]) \in Packets /\ Tail(requests[c]) \in Seq(Packets)
  BY <1>1, HeadTailProperties
<1>3. Steps(c, Head(requests[c])) \in Seq(StepsOf(c))
  BY <1>1, <1>2, StepsTyped DEF Typed
<1>4. DOMAIN work' = Handlers /\ \A k \in Handlers : work'[k] \in Seq(StepsOf(k))
  BY <1>3 DEF ReadRequest, Typed
<1>5. requests' \in [Conns -> Seq(Packets)]
  BY <1>2 DEF ReadRequest, Typed
<1> QED
  BY <1>4, <1>5 DEF ReadRequest, Expect, Typed, shared

LEMMA ReadLinkTyped ==
  ASSUME Typed, NEW e \in Ends, ReadLink(e)
  PROVE  Typed'
<1>1. e \in Handlers /\ buffer[e] \in Seq(Packets) /\ buffer[e] # <<>>
  BY DEF Typed, Handlers, ReadLink
<1>2. /\ Head(buffer[e]) \in Packets /\ Tail(buffer[e]) \in Seq(Packets)
      /\ Len(Tail(buffer[e])) = Len(buffer[e]) - 1 /\ Len(buffer[e]) \in Nat
  BY <1>1, HeadTailProperties, LenProperties
<1>3. Steps(e, Head(buffer[e])) \in Seq(StepsOf(e))
  BY <1>1, <1>2, StepsTyped DEF Typed
<1>4. DOMAIN work' = Handlers /\ \A k \in Handlers : work'[k] \in Seq(StepsOf(k))
  BY <1>3 DEF ReadLink, Typed
<1>5. buffer' \in [Handlers -> Seq(Packets)]
  BY <1>2 DEF ReadLink, Typed
<1>6. \A k \in Handlers : Len(buffer'[k]) <= Room(k)
  <2>1. Room(e) \in Nat
    BY RoomAssumption DEF Room
  <2> QED
    BY <1>1, <1>2, <2>1 DEF ReadLink, Typed
<1> QED
  BY <1>4, <1>5, <1>6 DEF ReadLink, Typed, shared, history

LEMMA ReadErrorTyped ==
  ASSUME Typed, NEW c \in Conns, ReadError(c)
  PROVE  Typed'
<1> DEFINE mine == {p[1] : p \in {q \in subs[NodeOf[c]] : q[2] = c}}
<1>1. mine \subseteq Filters
  BY ConnAssumption DEF Typed
<1>2. IsFiniteSet(mine)
  BY <1>1, FiltersAssumption, FS_Subset
<1>3. SetToSeq(mine) \in Seq(Filters)
  BY <1>1, <1>2, FoundTyped, SeqMonotonic
<1>4. Each("unsubscribe", SetToSeq(mine)) \in Seq(StepsOf(c))
  BY <1>3, EachTyped
<1>5. DOMAIN work' = Handlers /\ \A k \in Handlers : work'[k] \in Seq(StepsOf(k))
  BY <1>4 DEF ReadError, Typed
<1>6. status' \in [Conns -> {"up", "gone", "closed"}]
  BY DEF ReadError, Typed
<1> QED
  BY <1>5, <1>6 DEF ReadError, Typed, shared, history

LEMMA WriteTyped ==
  ASSUME Typed, NEW h \in Handlers, WritePacket(h)
  PROVE  Typed'
<1> DEFINE to     == Head(work[h]).to
           packet == Head(work[h]).packet
<1>1. work[h] # <<>> /\ to \in Reached(h) /\ packet \in Packets
  BY HeadOfWork, StepOf DEF WritePacket, Writing
<1>2. to \in Handlers
  BY <1>1, Homes
<1> HIDE DEF to, packet
<1>3. /\ Len(buffer[to]) < Room(to)
      /\ buffer' = [buffer EXCEPT ![to] = Append(@, packet)]
      /\ log' = IF to \in Conns /\ packet.kind = "publish"
                THEN [log EXCEPT ![to] = Append(@, packet.msg)] ELSE log
      /\ Then(h, <<>>)
  BY DEF WritePacket, to, packet
<1>4. DOMAIN work' = Handlers /\ \A k \in Handlers : work'[k] \in Seq(StepsOf(k))
  BY <1>1, <1>3, ThenTyped, EmptySeq
<1>5. /\ Append(buffer[to], packet) \in Seq(Packets)
      /\ Len(Append(buffer[to], packet)) = Len(buffer[to]) + 1 /\ Len(buffer[to]) \in Nat
  BY <1>1, <1>2, AppendProperties, LenProperties DEF Typed
<1>6. buffer' \in [Handlers -> Seq(Packets)]
  BY <1>3, <1>5 DEF Typed
<1>7. \A k \in Handlers : Len(buffer'[k]) <= Room(k)
  <2>1. Room(to) \in Nat
    BY RoomAssumption DEF Room
  <2> QED
    BY <1>2, <1>3, <1>5, <2>1 DEF Typed
<1>8. log' \in [Conns -> Seq(Messages)]
  <2>1. ASSUME to \in Conns, packet.kind = "publish"
        PROVE  Append(log[to], packet.msg) \in Seq(Messages)
    BY <1>1, <2>1, PacketOf, AppendProperties DEF Typed
  <2> QED
    BY <1>3, <2>1 DEF Typed
<1> QED
  BY <1>4, <1>6, <1>7, <1>8 DEF WritePacket, Typed, shared

LEMMA WriteErrorTyped ==
  ASSUME Typed, NEW h \in Handlers, WriteError(h)
  PROVE  Typed'
<1>1. DOMAIN work' = Handlers /\ \A k \in Handlers : work'[k] \in Seq(StepsOf(k))
  BY EmptySeq DEF WriteError, Typed
<1> QED
  BY <1>1 DEF WriteError, Typed, shared

LEMMA RetainTyped ==
  ASSUME Typed, NEW h \in Handlers, Retain(h)
  PROVE  Typed'
<1>1. work[h] # <<>> /\ Head(work[h]).msg \in RetainedMessages
  BY HeadOfWork, StepOf DEF Retain
<1>2. Kept(h, Head(work[h]).msg) \in
        {NoMessage} \cup {msg \in RetainedMessages : msg.payload}
  BY <1>1 DEF Kept
<1>3. retained' \in [Nodes -> {NoMessage} \cup {msg \in RetainedMessages : msg.payload}]
  BY <1>2 DEF Retain, Typed
<1>4. DOMAIN work' = Handlers /\ \A k \in Handlers : work'[k] \in Seq(StepsOf(k))
  BY PassesTyped DEF GoesOn
<1> QED
  BY <1>3, <1>4 DEF Retain, Typed

LEMMA SubscribeTyped ==
  ASSUME Typed, NEW h \in Handlers, Subscribe(h) \/ Unsubscribe(h)
  PROVE  Typed'
<1> DEFINE f == Head(work[h]).filter
<1>1. work[h] # <<>> /\ f \in Filters
  BY HeadOfWork, StepOf DEF Subscribe, Unsubscribe
<1>2. DOMAIN work' = Handlers /\ \A k \in Handlers : work'[k] \in Seq(StepsOf(k))
  BY PassesTyped DEF GoesOn
<1> HIDE DEF f
<1>3. /\ subs' \in [Nodes -> SUBSET (Filters \X Conns)]
      /\ \A n \in Nodes : \A p \in subs'[n] : NodeOf[p[2]] = n
  <2>1. CASE h \in Conns
    <3>1. /\ Others(h, f) \subseteq subs[Home(h)]
          /\ Home(h) \in Nodes /\ Home(h) = NodeOf[h]
      BY <2>1, Homes DEF Others
    <3>2. \/ subs' = [subs EXCEPT ![Home(h)] = Others(h, f) \cup {<<f, h>>}]
          \/ subs' = [subs EXCEPT ![Home(h)] = Others(h, f)]
      BY <2>1 DEF Subscribe, Unsubscribe, f
    <3>3. PICK new : /\ subs' = [subs EXCEPT ![Home(h)] = new]
                     /\ new \subseteq subs[Home(h)] \cup {<<f, h>>}
      BY <3>1, <3>2
    <3>4. new \subseteq Filters \X Conns /\ \A p \in new : NodeOf[p[2]] = Home(h)
      BY <1>1, <2>1, <3>1, <3>3 DEF Typed
    <3> QED
      BY <3>3, <3>4 DEF Typed
  <2>2. CASE h \notin Conns
    <3>1. subs' = subs
      BY <2>2 DEF Subscribe, Unsubscribe
    <3> QED
      BY <3>1 DEF Typed
  <2> QED
    BY <2>1, <2>2
<1>4. /\ remote' \in [Nodes -> SUBSET (Filters \X Nodes)]
      /\ \A n \in Nodes : \A r \in remote'[n] : r[2] # n
  <2>1. CASE h \in Conns
    <3>1. remote' = remote
      BY <2>1 DEF Subscribe, Unsubscribe
    <3> QED
      BY <3>1 DEF Typed
  <2>2. CASE h \notin Conns
    <3>1. Home(h) \in Nodes /\ h[2] \in Nodes /\ h[2] # Home(h)
      BY <2>2, Homes DEF Handlers
    <3>2. \/ remote' = [remote EXCEPT ![Home(h)] = @ \cup {<<f, h[2]>>}]
          \/ remote' = [remote EXCEPT ![Home(h)] = @ \ {<<f, h[2]>>}]
      BY <2>2 DEF Subscribe, Unsubscribe, f
    <3>3. PICK new : /\ remote' = [remote EXCEPT ![Home(h)] = new]
                     /\ new \subseteq remote[Home(h)] \cup {<<f, h[2]>>}
      BY <3>2
    <3>4. new \subseteq Filters \X Nodes /\ \A r \in new : r[2] # Home(h)
      BY <1>1, <3>1, <3>3 DEF Typed
    <3> QED
      BY <3>3, <3>4 DEF Typed
  <2> QED
    BY <2>1, <2>2
<1>5. UNCHANGED <<linked, requests, retained, buffer, status, log>>
  BY DEF Subscribe, Unsubscribe, history
<1> QED
  BY <1>2, <1>3, <1>4, <1>5 DEF Typed

\* The others only change what the handler has to do.
LEMMA OthersTyped ==
  ASSUME Typed, NEW h \in Handlers,
         \/ PickRecipient(h) \/ WriteLost(h) \/ Match(h) \/ MatchLinks(h)
         \/ Search(h) \/ SyncTopic(h)
  PROVE  Typed'
<1>1. DOMAIN work' = Handlers /\ \A k \in Handlers : work'[k] \in Seq(StepsOf(k))
  BY PassesTyped DEF GoesOn
<1>2. UNCHANGED <<linked, requests, shared, buffer, status, log>>
  BY DEF PickRecipient, WriteLost, Match, MatchLinks, Search, SyncTopic, history
<1> QED
  BY <1>1, <1>2 DEF Typed, shared

LEMMA ClientTyped ==
  ASSUME Typed, NEW c \in Conns, ClientReads(c) \/ ClientGoes(c)
  PROVE  Typed'
<1>1. CASE ClientReads(c)
  <2>1. c \in Handlers /\ buffer[c] \in Seq(Packets) /\ buffer[c] # <<>>
    BY <1>1 DEF Typed, Handlers, ClientReads
  <2>2. /\ Tail(buffer[c]) \in Seq(Packets)
        /\ Len(Tail(buffer[c])) = Len(buffer[c]) - 1 /\ Len(buffer[c]) \in Nat
    BY <2>1, HeadTailProperties, LenProperties
  <2>3. Room(c) \in Nat
    BY RoomAssumption DEF Room
  <2>4. /\ buffer' \in [Handlers -> Seq(Packets)]
        /\ \A k \in Handlers : Len(buffer'[k]) <= Room(k)
    BY <1>1, <2>1, <2>2, <2>3 DEF ClientReads, Typed
  <2> QED
    BY <1>1, <2>4 DEF ClientReads, Typed, shared, history
<1>2. CASE ClientGoes(c)
  <2>1. status' \in [Conns -> {"up", "gone", "closed"}]
    BY <1>2 DEF ClientGoes, Typed
  <2> QED
    BY <1>2, <2>1 DEF ClientGoes, Typed, shared
<1> QED
  BY <1>1, <1>2

LEMMA NextTyped ==
  ASSUME Typed, [Next]_vars
  PROVE  Typed'
<1>1. CASE UNCHANGED vars
  BY <1>1 DEF Typed, vars, shared, history
<1>2. ASSUME NEW c \in Conns, ClientReads(c) \/ ClientGoes(c) PROVE Typed'
  BY <1>2, ClientTyped
<1>3. ASSUME NEW h \in Conns, ReadRequest(h) \/ ReadError(h) PROVE Typed'
  BY <1>3, ReadRequestTyped, ReadErrorTyped
<1>4. ASSUME NEW h \in Ends, ReadLink(h) PROVE Typed'
  BY <1>4, ReadLinkTyped
<1>5. ASSUME NEW h \in Handlers, Handle(h) PROVE Typed'
  BY <1>5, WriteTyped, WriteErrorTyped, RetainTyped, SubscribeTyped, OthersTyped DEF Handle
<1> QED
  BY <1>1, <1>2, <1>3, <1>4, <1>5 DEF Next, Runs

LEMMA AlwaysTyped == Spec => []Typed
<1> QED
  BY InitTyped, NextTyped, PTL DEF Spec

(***************************************************************************)
(* TypeOK of the runs, whatever the handlers do to the tries of the nodes  *)
(* (broker/processor.go, cluster/processor.go) and to the connections: a   *)
(* node keeps only what its own clients and other nodes asked for, never   *)
(* an empty message, and no more waits in a connection than fits.          *)
(***************************************************************************)
THEOREM TypeCorrect == Spec => []TypeOK
<1>1. Typed => TypeOK
  BY DEF Typed, TypeOK, RetainedMessages
<1> QED
  BY <1>1, AlwaysTyped, PTL

-----------------------------------------------------------------------------
(* The way of a message to a client                                        *)

Elements(p) ==
  CASE p[1] = "work" -> StepsOf(p[2])
    [] p[1] = "log" -> Messages
    [] OTHER -> Packets

\* The places that a message of x may pass on its way to c, and how far from c
\* a place is.
Path(x, c) ==
  {<<"requests", x>>, <<"work", x>>, <<"log", c>>}
  \cup {p \in {"buffer", "work"} \X Ends :
          p[2] = <<NodeOf[c], NodeOf[x]>> /\ NodeOf[c] # NodeOf[x]}

Rank(p) ==
  CASE p[1] = "log" -> 0
    [] p[1] = "work" /\ p[2] \in Ends -> 1
    [] p[1] = "buffer" -> 2
    [] p[1] = "work" /\ p[2] \in Conns -> 3
    [] p[1] = "requests" -> 4

\* From a to b on the way, with no place between them.
Along(a, b, c) ==
  \A x \in Conns : a \in Path(x, c) =>
       /\ b \in Path(x, c) /\ Rank(b) < Rank(a)
       /\ \A q \in Path(x, c) : Rank(q) <= Rank(b) \/ Rank(a) < Rank(q) \/ q = a

\* What is new at b comes from the head of what is at a.
Carried(new, b, a, c) ==
  \A msg \in Plain :
    /\ One(new, With(b, msg, c))
    /\ None(new, With(b, msg, c)) \/ Head(At(a)) \in With(a, msg, c)

\* What a step does to the messages on their way to c.
Hands(a, b, c) ==
  /\ a \in Places(c) /\ b \in Places(c) /\ a # b /\ Along(a, b, c)
  /\ \A p \in Places(c) \ {a, b} : At(p)' = At(p)
  /\ At(a) # <<>> /\ At(a)' = Tail(At(a))
  /\ \E new \in Seq(Elements(b)) : At(b)' = At(b) \o new /\ Carried(new, b, a, c)

Keeps(a, c) ==
  /\ a \in Places(c)
  /\ \A p \in Places(c) \ {a} : At(p)' = At(p)
  /\ At(a) # <<>>
  /\ \E new \in Seq(Elements(a)) : At(a)' = new \o Tail(At(a)) /\ Carried(new, a, a, c)

Drops(a, c) ==
  /\ a \in Places(c)
  /\ \A p \in Places(c) \ {a} : At(p)' = At(p)
  /\ \A msg \in Plain : None(At(a)', With(a, msg, c))

Stays(c) == \A p \in Places(c) : At(p)' = At(p)

LEMMA WorkPlace ==
  ASSUME NEW c, NEW h \in Handlers
  PROVE  /\ <<"work", h>> \in Places(c)
         /\ At(<<"work", h>>) = work[h] /\ At(<<"work", h>>)' = work'[h]
         /\ Elements(<<"work", h>>) = StepsOf(h)
         /\ \A msg : With(<<"work", h>>, msg, c) = StepsWith(h, msg, c)
  BY DEF Places, At, With, Elements

LEMMA RequestsPlace ==
  ASSUME NEW c, NEW x \in Conns
  PROVE  /\ <<"requests", x>> \in Places(c)
         /\ At(<<"requests", x>>) = requests[x] /\ At(<<"requests", x>>)' = requests'[x]
         /\ Elements(<<"requests", x>>) = Packets
         /\ \A msg : With(<<"requests", x>>, msg, c) = PacketsWith(msg)
  BY DEF Places, At, With, Elements

LEMMA BufferPlace ==
  ASSUME NEW c, NEW e \in Ends
  PROVE  /\ e[1] = NodeOf[c] => <<"buffer", e>> \in Places(c)
         /\ At(<<"buffer", e>>) = buffer[e] /\ At(<<"buffer", e>>)' = buffer'[e]
         /\ Elements(<<"buffer", e>>) = Packets
         /\ \A msg : With(<<"buffer", e>>, msg, c) = PacketsWith(msg)
  BY DEF Places, At, With, Elements

LEMMA LogPlace ==
  ASSUME NEW c
  PROVE  /\ <<"log", c>> \in Places(c)
         /\ At(<<"log", c>>) = log[c] /\ At(<<"log", c>>)' = log'[c]
         /\ Elements(<<"log", c>>) = Messages
         /\ \A msg : With(<<"log", c>>, msg, c) = {msg}
  BY DEF Places, At, With, Elements

LEMMA Elsewhere ==
  ASSUME NEW c, NEW p \in Places(c)
  PROVE  \/ \E x \in Conns : p = <<"requests", x>>
         \/ \E h \in Handlers : p = <<"work", h>>
         \/ \E e \in Ends : e[1] = NodeOf[c] /\ p = <<"buffer", e>>
         \/ p = <<"log", c>>
  BY DEF Places

LEMMA PlacesTyped ==
  ASSUME Typed, NEW c \in Conns, NEW p \in Places(c)
  PROVE  At(p) \in Seq(Elements(p))
<1>1. ASSUME NEW x \in Conns, p = <<"requests", x>> PROVE At(p) \in Seq(Elements(p))
  BY <1>1, RequestsPlace DEF Typed
<1>2. ASSUME NEW h \in Handlers, p = <<"work", h>> PROVE At(p) \in Seq(Elements(p))
  BY <1>2, WorkPlace DEF Typed
<1>3. ASSUME NEW e \in Ends, p = <<"buffer", e>> PROVE At(p) \in Seq(Elements(p))
  BY <1>3, BufferPlace DEF Typed, Handlers
<1>4. CASE p = <<"log", c>>
  BY <1>4, LogPlace DEF Typed
<1> QED
  BY <1>1, <1>2, <1>3, <1>4, Elsewhere

\* Only one handler does anything, and only these change.
LEMMA OthersStay ==
  ASSUME NEW c \in Conns, NEW A,
         \A h \in Handlers : work'[h] = work[h] \/ <<"work", h>> \in A,
         \A x \in Conns : requests'[x] = requests[x] \/ <<"requests", x>> \in A,
         \A e \in Ends : buffer'[e] = buffer[e] \/ <<"buffer", e>> \in A,
         log'[c] = log[c] \/ <<"log", c>> \in A
  PROVE  \A p \in Places(c) \ A : At(p)' = At(p)
<1> SUFFICES ASSUME NEW p \in Places(c), p \notin A PROVE At(p)' = At(p)
  OBVIOUS
<1>1. ASSUME NEW x \in Conns, p = <<"requests", x>> PROVE At(p)' = At(p)
  BY <1>1, RequestsPlace
<1>2. ASSUME NEW h \in Handlers, p = <<"work", h>> PROVE At(p)' = At(p)
  BY <1>2, WorkPlace
<1>3. ASSUME NEW e \in Ends, p = <<"buffer", e>> PROVE At(p)' = At(p)
  BY <1>3, BufferPlace
<1>4. CASE p = <<"log", c>>
  BY <1>4, LogPlace
<1> QED
  BY <1>1, <1>2, <1>3, <1>4, Elsewhere

LEMMA Ranks ==
  /\ \A c : Rank(<<"log", c>>) = 0
  /\ \A e \in Ends : Rank(<<"work", e>>) = 1 /\ Rank(<<"buffer", e>>) = 2
  /\ \A x \in Conns : Rank(<<"work", x>>) = 3 /\ Rank(<<"requests", x>>) = 4
<1>1. \A e \in Ends : e \notin Conns
  BY ConnAssumption
<1>2. \A c : Rank(<<"log", c>>) = 0
  BY DEF Rank
<1>3. \A e \in Ends : Rank(<<"work", e>>) = 1
  BY <1>1 DEF Rank
<1>4. \A e \in Ends : Rank(<<"buffer", e>>) = 2
  BY DEF Rank
<1>5. \A x \in Conns : Rank(<<"work", x>>) = 3
  BY <1>1 DEF Rank
<1>6. \A x \in Conns : Rank(<<"requests", x>>) = 4
  BY DEF Rank
<1> QED
  BY <1>2, <1>3, <1>4, <1>5, <1>6

LEMMA OnPath ==
  ASSUME NEW x \in Conns, NEW c \in Conns, NEW p \in Path(x, c)
  PROVE  \/ p \in {<<"requests", x>>, <<"work", x>>, <<"log", c>>}
         \/ \E e \in Ends : /\ e = <<NodeOf[c], NodeOf[x]>> /\ NodeOf[c] # NodeOf[x]
                           /\ p \in {<<"buffer", e>>, <<"work", e>>}
  BY DEF Path

LEMMA RequestAlong ==
  ASSUME NEW x \in Conns, NEW c \in Conns
  PROVE  Along(<<"requests", x>>, <<"work", x>>, c)
<1>1. ASSUME NEW y \in Conns, <<"requests", x>> \in Path(y, c)
      PROVE  /\ <<"work", x>> \in Path(y, c)
             /\ \A q \in Path(y, c) : Rank(q) <= 3 \/ 4 < Rank(q) \/ q = <<"requests", x>>
  <2>1. x = y
    BY <1>1, OnPath
  <2>2. <<"work", x>> \in Path(y, c)
    BY <2>1 DEF Path
  <2>3. ASSUME NEW q \in Path(y, c) PROVE Rank(q) <= 3 \/ 4 < Rank(q) \/ q = <<"requests", x>>
    <3>0. Rank(<<"work", y>>) = 3 /\ Rank(<<"log", c>>) = 0
      BY Ranks
    <3>1. CASE q \in {<<"requests", y>>, <<"work", y>>, <<"log", c>>}
      BY <2>1, <3>0, <3>1
    <3>2. ASSUME NEW e \in Ends, q \in {<<"buffer", e>>, <<"work", e>>} PROVE Rank(q) <= 3
      <4>1. Rank(<<"buffer", e>>) = 2 /\ Rank(<<"work", e>>) = 1
        BY Ranks
      <4> QED
        BY <3>2, <4>1
    <3> QED
      BY <3>1, <3>2, OnPath
  <2> QED
    BY <2>2, <2>3
<1> QED
  BY <1>1, Ranks DEF Along

LEMMA LinkAlong ==
  ASSUME NEW e \in Ends, NEW c \in Conns
  PROVE  Along(<<"buffer", e>>, <<"work", e>>, c)
<1>1. ASSUME NEW y \in Conns, <<"buffer", e>> \in Path(y, c)
      PROVE  /\ <<"work", e>> \in Path(y, c)
             /\ \A q \in Path(y, c) : Rank(q) <= 1 \/ 2 < Rank(q) \/ q = <<"buffer", e>>
  <2>1. e = <<NodeOf[c], NodeOf[y]>> /\ NodeOf[c] # NodeOf[y]
    BY <1>1 DEF Path
  <2>2. <<"work", e>> \in Path(y, c)
    BY <2>1 DEF Path
  <2>3. ASSUME NEW q \in Path(y, c)
        PROVE  Rank(q) <= 1 \/ 2 < Rank(q) \/ q = <<"buffer", e>>
    <3>1. q \in {<<"requests", y>>, <<"work", y>>, <<"log", c>>, <<"buffer", e>>, <<"work", e>>}
      BY <2>1, OnPath
    <3>2. /\ Rank(<<"requests", y>>) = 4 /\ Rank(<<"work", y>>) = 3
          /\ Rank(<<"log", c>>) = 0 /\ Rank(<<"work", e>>) = 1
      BY Ranks
    <3> QED
      BY <3>1, <3>2
  <2> QED
    BY <2>2, <2>3
<1> QED
  BY <1>1, Ranks DEF Along

\* A handler writes to the client, or to the link that leads to it.
LEMMA WriteAlong ==
  ASSUME NEW h \in Handlers, NEW c \in Conns
  PROVE  /\ Home(h) = NodeOf[c] => Along(<<"work", h>>, <<"log", c>>, c)
         /\ Home(h) # NodeOf[c] =>
              Along(<<"work", h>>, <<"buffer", Target(h, c)>>, c)
<1>1. ASSUME Home(h) = NodeOf[c] PROVE Along(<<"work", h>>, <<"log", c>>, c)
  <2>1. Rank(<<"work", h>>) \in {1, 3} /\ Rank(<<"log", c>>) = 0
    BY Ranks DEF Handlers
  <2>2. ASSUME NEW y \in Conns, <<"work", h>> \in Path(y, c), NEW q \in Path(y, c)
        PROVE  Rank(q) <= 0 \/ Rank(<<"work", h>>) < Rank(q) \/ q = <<"work", h>>
    <3>1. CASE h \in Conns
      <4>1. h = y /\ NodeOf[y] = NodeOf[c]
        BY <1>1, <2>2, <3>1, Homes, OnPath
      <4>2. q \in {<<"requests", y>>, <<"work", y>>, <<"log", c>>}
        BY <2>2, <4>1, OnPath
      <4> QED
        BY <4>1, <4>2, Ranks
    <3>2. CASE h \in Ends
      <4>1. h = <<NodeOf[c], NodeOf[y]>>
        BY <2>2, <3>2, Homes, OnPath
      <4>2. q \in {<<"requests", y>>, <<"work", y>>, <<"log", c>>, <<"buffer", h>>, <<"work", h>>}
        BY <2>2, <4>1, OnPath
      <4>3. /\ Rank(<<"requests", y>>) = 4 /\ Rank(<<"work", y>>) = 3
            /\ Rank(<<"log", c>>) = 0 /\ Rank(<<"work", h>>) = 1 /\ Rank(<<"buffer", h>>) = 2
        BY <3>2, Ranks
      <4> QED
        BY <4>2, <4>3
    <3> QED
      BY <3>1, <3>2 DEF Handlers
  <2>3. \A y \in Conns : <<"log", c>> \in Path(y, c)
    BY DEF Path
  <2>4. Rank(<<"log", c>>) < Rank(<<"work", h>>)
    BY <2>1
  <2> QED
    BY <2>1, <2>2, <2>3, <2>4 DEF Along
<1>2. ASSUME h \in Ends, Home(h) # NodeOf[c]
      PROVE  Along(<<"work", h>>, <<"buffer", Target(h, c)>>, c)
  <2>1. \A y \in Conns : <<"work", h>> \notin Path(y, c)
    BY <1>2, Homes DEF Path
  <2> QED
    BY <2>1 DEF Along
<1>3. ASSUME h \in Conns, Home(h) # NodeOf[c]
      PROVE  Along(<<"work", h>>, <<"buffer", Target(h, c)>>, c)
  <2> DEFINE e == Target(h, c)
  <2>1. e = <<NodeOf[c], NodeOf[h]>> /\ e \in Ends
    BY <1>3, Targets, Homes
  <2>2. Rank(<<"work", h>>) = 3 /\ Rank(<<"buffer", e>>) = 2 /\ Rank(<<"work", e>>) = 1
    BY <1>3, <2>1, Ranks
  <2> HIDE DEF e
  <2>3. ASSUME NEW y \in Conns, <<"work", h>> \in Path(y, c)
        PROVE  /\ <<"buffer", e>> \in Path(y, c)
               /\ \A q \in Path(y, c) : Rank(q) <= 2 \/ 3 < Rank(q) \/ q = <<"work", h>>
    <3>1. h = y /\ NodeOf[c] # NodeOf[y]
      BY <1>3, <2>3, Homes, OnPath
    <3>2. <<"buffer", e>> \in Path(y, c)
      BY <2>1, <3>1 DEF Path
    <3>3. ASSUME NEW q \in Path(y, c) PROVE Rank(q) <= 2 \/ 3 < Rank(q) \/ q = <<"work", h>>
      <4>1. q \in {<<"requests", y>>, <<"work", y>>, <<"log", c>>, <<"buffer", e>>, <<"work", e>>}
        BY <2>1, <3>1, OnPath
      <4> QED
        BY <2>2, <3>1, <4>1, Ranks
    <3> QED
      BY <3>2, <3>3
  <2>4. Along(<<"work", h>>, <<"buffer", e>>, c)
    BY <2>2, <2>3 DEF Along
  <2> QED
    BY <2>4 DEF e
<1> QED
  BY <1>1, <1>2, <1>3 DEF Handlers

-----------------------------------------------------------------------------
(* What the steps do to the messages on their way                          *)

LEMMA HandlerKeeps ==
  ASSUME Typed, NEW h \in Handlers, NEW c \in Conns, GoesOn(h)
  PROVE  Keeps(<<"work", h>>, c)
<1> DEFINE a == <<"work", h>>
<1>1. PICK steps \in Seq(StepsOf(h)) : Then(h, steps) /\ PassesOn(h, steps)
  BY HandlersPass DEF Passes
<1>2. /\ work'[h] = steps \o Tail(work[h])
      /\ \A k \in Handlers : k # h => work'[k] = work[k]
  BY <1>1 DEF Then, Typed
<1>3. /\ a \in Places(c) /\ At(a) = work[h] /\ At(a)' = work'[h] /\ Elements(a) = StepsOf(h)
      /\ \A msg : With(a, msg, c) = StepsWith(h, msg, c)
  BY WorkPlace
<1>4. \A p \in Places(c) \ {a} : At(p)' = At(p)
  BY <1>2, HandlersPass, OthersStay
<1> HIDE DEF a
<1>5. Carried(steps, a, a, c)
  BY <1>1, <1>3 DEF Carried, PassesOn, Plain
<1>6. work[h] # <<>>
  BY HandlersPass
<1> QED
  BY <1>1, <1>2, <1>3, <1>4, <1>5, <1>6 DEF Keeps, a

LEMMA RequestHands ==
  ASSUME Typed, NEW h \in Conns, NEW c \in Conns, ReadRequest(h)
  PROVE  Hands(<<"requests", h>>, <<"work", h>>, c)
<1> DEFINE a == <<"requests", h>>
           b == <<"work", h>>
           packet == Head(requests[h])
           new == Steps(h, packet)
<1>1. /\ h \in Handlers /\ linked \subseteq Ends
      /\ requests[h] \in Seq(Packets) /\ requests[h] # <<>> /\ work[h] = <<>>
  BY DEF Typed, ReadRequest, Handlers
<1>2. packet \in Packets
  BY <1>1, HeadTailProperties
<1>3. /\ a \in Places(c) /\ At(a) = requests[h] /\ At(a)' = requests'[h]
      /\ \A msg : With(a, msg, c) = PacketsWith(msg)
  BY RequestsPlace
<1>4. /\ b \in Places(c) /\ At(b) = work[h] /\ At(b)' = work'[h] /\ Elements(b) = StepsOf(h)
      /\ \A msg : With(b, msg, c) = StepsWith(h, msg, c)
  BY <1>1, WorkPlace
<1>5. /\ requests'[h] = Tail(requests[h]) /\ work'[h] = new
      /\ \A x \in Conns : x # h => requests'[x] = requests[x]
      /\ \A k \in Handlers : k # h => work'[k] = work[k]
      /\ buffer' = buffer /\ log' = log
  BY <1>1 DEF ReadRequest, Typed
<1>6. \A p \in Places(c) \ {a, b} : At(p)' = At(p)
  BY <1>5, OthersStay
<1>7. new \in Seq(StepsOf(h))
  BY <1>1, <1>2, StepsTyped
<1>8. \A msg \in Plain : /\ One(new, StepsWith(h, msg, c))
                         /\ None(new, StepsWith(h, msg, c)) \/ packet \in PacketsWith(msg)
  BY <1>1, <1>2, StepsOnce DEF Plain
<1>9. a # b /\ Along(a, b, c)
  BY RequestAlong
<1> HIDE DEF a, b, packet, new
<1>10. Carried(new, b, a, c)
  BY <1>3, <1>4, <1>8 DEF Carried, packet
<1>11. At(b)' = At(b) \o new /\ new \in Seq(Elements(b))
  BY <1>1, <1>4, <1>5, <1>7, EmptySeq, ConcatProperties
<1> QED
  BY <1>1, <1>3, <1>4, <1>5, <1>6, <1>9, <1>10, <1>11 DEF Hands, a, b

\* What another node sends reaches the clients of the node, and nobody else.
LEMMA LinkHands ==
  ASSUME Typed, NEW h \in Ends, NEW c \in Conns, ReadLink(h)
  PROVE  Hands(<<"buffer", h>>, <<"work", h>>, c) \/ Drops(<<"work", h>>, c)
<1> DEFINE a == <<"buffer", h>>
           b == <<"work", h>>
           packet == Head(buffer[h])
           new == Steps(h, packet)
<1>1. /\ h \in Handlers /\ h \notin Conns /\ Home(h) = h[1] /\ linked \subseteq Ends
      /\ buffer[h] \in Seq(Packets) /\ buffer[h] # <<>> /\ work[h] = <<>>
  BY Homes DEF Typed, ReadLink, Handlers
<1>2. packet \in Packets
  BY <1>1, HeadTailProperties
<1>3. /\ h[1] = NodeOf[c] => a \in Places(c)
      /\ At(a) = buffer[h] /\ At(a)' = buffer'[h]
      /\ \A msg : With(a, msg, c) = PacketsWith(msg)
  BY BufferPlace
<1>4. /\ b \in Places(c) /\ At(b) = work[h] /\ At(b)' = work'[h] /\ Elements(b) = StepsOf(h)
      /\ \A msg : With(b, msg, c) = StepsWith(h, msg, c)
  BY <1>1, WorkPlace
<1>5. /\ buffer'[h] = Tail(buffer[h]) /\ work'[h] = new
      /\ \A e \in Ends : e # h => buffer'[e] = buffer[e]
      /\ \A k \in Handlers : k # h => work'[k] = work[k]
      /\ requests' = requests /\ log' = log
  BY <1>1 DEF ReadLink, Typed, Handlers, history
<1>6. \A p \in Places(c) \ {a, b} : At(p)' = At(p)
  BY <1>5, OthersStay
<1>7. new \in Seq(StepsOf(h))
  BY <1>1, <1>2, StepsTyped
<1>8. \A msg \in Plain :
        /\ One(new, StepsWith(h, msg, c))
        /\ None(new, StepsWith(h, msg, c)) \/ (packet \in PacketsWith(msg) /\ h[1] = NodeOf[c])
  BY <1>1, <1>2, StepsOnce DEF Plain
<1>9. a # b /\ Along(a, b, c)
  BY LinkAlong
<1>10. h[1] # NodeOf[c] => a \notin Places(c)
  BY DEF Places
<1> HIDE DEF a, b, packet, new
<1>11. CASE h[1] = NodeOf[c]
  <2>1. Carried(new, b, a, c)
    BY <1>3, <1>4, <1>8 DEF Carried, packet
  <2>2. At(b)' = At(b) \o new /\ new \in Seq(Elements(b))
    BY <1>1, <1>4, <1>5, <1>7, EmptySeq, ConcatProperties
  <2>3. Hands(a, b, c)
    BY <1>1, <1>3, <1>4, <1>5, <1>6, <1>9, <1>11, <2>1, <2>2 DEF Hands
  <2> QED
    BY <2>3 DEF a, b
<1>12. CASE h[1] # NodeOf[c]
  <2>1. \A msg \in Plain : None(At(b)', With(b, msg, c))
    BY <1>4, <1>5, <1>8, <1>12
  <2>2. Drops(b, c)
    BY <1>4, <1>6, <1>10, <1>12, <2>1 DEF Drops
  <2> QED
    BY <2>2 DEF b
<1> QED
  BY <1>11, <1>12

LEMMA ErrorDrops ==
  ASSUME Typed, NEW h \in Handlers, NEW c \in Conns, (h \in Conns /\ ReadError(h)) \/ WriteError(h)
  PROVE  Drops(<<"work", h>>, c)
<1> DEFINE a == <<"work", h>>
<1>1. /\ a \in Places(c) /\ At(a)' = work'[h]
      /\ \A msg : With(a, msg, c) = StepsWith(h, msg, c)
  BY WorkPlace
<1>2. /\ \A k \in Handlers : k # h => work'[k] = work[k]
      /\ requests' = requests /\ buffer' = buffer /\ log' = log
  BY DEF ReadError, WriteError, Typed, history
<1>3. ASSUME NEW msg \in Plain PROVE None(work'[h], StepsWith(h, msg, c))
  <2>1. CASE h \in Conns /\ ReadError(h)
    <3> DEFINE fs == SetToSeq({p[1] : p \in {q \in subs[NodeOf[h]] : q[2] = h}})
    <3>1. work'[h] = Each("unsubscribe", fs)
      BY <2>1 DEF ReadError, Typed
    <3> HIDE DEF fs
    <3> QED
      BY <3>1, EachNotWith
  <2>2. CASE WriteError(h)
    BY <2>2, NothingEmpty DEF WriteError, Typed
  <2> QED
    BY <2>1, <2>2
<1>4. \A p \in Places(c) \ {a} : At(p)' = At(p)
  BY <1>2, OthersStay
<1> QED
  BY <1>1, <1>3, <1>4 DEF Drops

LEMMA ClientsStay ==
  ASSUME Typed, NEW c \in Conns,
         UNCHANGED vars \/ \E x \in Conns : ClientReads(x) \/ ClientGoes(x)
  PROVE  Stays(c)
<1>1. /\ requests' = requests /\ work' = work /\ log' = log
      /\ \A e \in Ends : buffer'[e] = buffer[e]
  BY ConnAssumption DEF ClientReads, ClientGoes, Typed, Handlers, history, vars, shared
<1> QED
  BY <1>1, OthersStay DEF Stays

LEMMA WriteHands ==
  ASSUME Typed, NEW h \in Handlers, NEW c \in Conns, WritePacket(h)
  PROVE  \/ \E b \in Places(c) : Hands(<<"work", h>>, b, c)
         \/ Keeps(<<"work", h>>, c)
<1>0. PICK to, packet : to = Head(work[h]).to /\ packet = Head(work[h]).packet
  OBVIOUS
<1> DEFINE a == <<"work", h>>
           arrived == to \in Conns /\ packet.kind = "publish"
<1>1. /\ work[h] # <<>> /\ work[h] \in Seq(StepsOf(h)) /\ Head(work[h]) \in StepsOf(h)
      /\ Head(work[h]).do \in {"write", "write or return"}
      /\ to \in Reached(h) /\ packet \in Packets
  BY <1>0, HeadOfWork, StepOf DEF WritePacket, Writing, Typed
<1>2. to \in Handlers
  BY <1>1, Homes
<1>3. /\ work' = [work EXCEPT ![h] = <<>> \o Tail(@)]
      /\ buffer' = [buffer EXCEPT ![to] = Append(@, packet)]
      /\ log' = IF arrived THEN [log EXCEPT ![to] = Append(@, packet.msg)] ELSE log
      /\ requests' = requests
  BY <1>0 DEF WritePacket, Then
<1>4. work'[h] = <<>> \o Tail(work[h]) /\ Tail(work[h]) = <<>> \o Tail(work[h])
  <2>1. Tail(work[h]) \in Seq(StepsOf(h))
    BY <1>1, HeadTailProperties
  <2>2. <<>> \o Tail(work[h]) = Tail(work[h])
    BY <2>1, ConcatEmptySeq
  <2> QED
    BY <1>3, <2>2 DEF Typed
<1>5. /\ a \in Places(c) /\ At(a) = work[h] /\ At(a)' = work'[h] /\ Elements(a) = StepsOf(h)
      /\ \A msg : With(a, msg, c) = StepsWith(h, msg, c)
  BY WorkPlace
<1>6. At(a) # <<>> /\ At(a)' = Tail(At(a))
  BY <1>1, <1>4, <1>5
<1>7. \A msg : packet \in PacketsWith(msg) /\ to = Target(h, c) => Head(At(a)) \in With(a, msg, c)
  BY <1>0, <1>1, <1>5 DEF StepsWith
<1>8. \A p \in Places(c) \ {a, <<"buffer", to>>, <<"log", to>>} : At(p)' = At(p)
  <2>1. \A k \in Handlers : k # h => work'[k] = work[k]
    BY <1>3 DEF Typed
  <2>2. \A e \in Ends : e # to => buffer'[e] = buffer[e]
    BY <1>3 DEF Typed, Handlers
  <2>3. to # c => log'[c] = log[c]
    BY <1>3 DEF Typed
  <2> QED
    BY <1>3, <2>1, <2>2, <2>3, OthersStay
<1> HIDE DEF a
<1>9. CASE to = c
  <2> DEFINE b == <<"log", c>>
             new == IF arrived THEN <<packet.msg>> ELSE <<>>
  <2>1. Home(h) = NodeOf[c] /\ to = Target(h, c) /\ to \notin Ends
    BY <1>1, <1>9, ConnAssumption, Homes, Targets DEF Reached
  <2>2. <<"buffer", to>> \notin Places(c)
    BY <2>1 DEF Places
  <2>3. /\ b \in Places(c) /\ At(b) = log[c] /\ At(b)' = log'[c] /\ Elements(b) = Messages
        /\ \A msg : With(b, msg, c) = {msg}
    BY LogPlace
  <2>4. a # b /\ Along(a, b, c)
    BY <2>1, WriteAlong DEF a
  <2>5. arrived => packet.msg \in Messages /\ \A msg : packet.msg = msg <=> packet \in PacketsWith(msg)
    BY <1>1, PacketOf DEF PacketsWith
  <2>6. new \in Seq(Messages)
    BY <2>5, SingleTyped, EmptySeq
  <2>7. log'[c] = log[c] \o new
    <3>1. log[c] \in Seq(Messages)
      BY DEF Typed
    <3>2. CASE arrived
      BY <1>3, <1>9, <2>5, <3>1, <3>2, AppendIsConcat DEF Typed
    <3>3. CASE ~ arrived
      BY <1>3, <3>1, <3>3, ConcatEmptySeq
    <3> QED
      BY <3>2, <3>3
  <2>8. \A msg : One(new, {msg}) /\ (None(new, {msg}) \/ packet \in PacketsWith(msg))
    BY <2>5, OneOfSingle, NothingEmpty
  <2>9. \A p \in Places(c) \ {a, b} : At(p)' = At(p)
    BY <1>8, <1>9, <2>2
  <2> HIDE DEF b, new
  <2>10. Carried(new, b, a, c)
    BY <1>7, <2>1, <2>3, <2>8 DEF Carried
  <2>11. Hands(a, b, c)
    BY <1>5, <1>6, <2>3, <2>4, <2>6, <2>7, <2>9, <2>10 DEF Hands
  <2> QED
    BY <2>3, <2>11 DEF a
<1>10. CASE to # c /\ to \in Ends /\ to[1] = NodeOf[c]
  <2> DEFINE b == <<"buffer", to>>
             new == <<packet>>
  <2>1. to = Target(h, c) /\ Home(h) # NodeOf[c]
    <3>1. to[2] = Home(h)
      BY <1>1, <1>10, ConnAssumption DEF Reached
    <3>2. to[1] # to[2] /\ to = <<to[1], to[2]>>
      BY <1>10 DEF Ends
    <3> QED
      BY <1>10, <3>1, <3>2, Targets
  <2>2. /\ b \in Places(c) /\ At(b) = buffer[to] /\ At(b)' = buffer'[to] /\ Elements(b) = Packets
        /\ \A msg : With(b, msg, c) = PacketsWith(msg)
    BY <1>10, BufferPlace
  <2>3. a # b /\ Along(a, b, c)
    BY <2>1, WriteAlong DEF a
  <2>4. new \in Seq(Packets) /\ buffer'[to] = buffer[to] \o new
    BY <1>1, <1>2, <1>3, SingleTyped, AppendIsConcat DEF Typed
  <2>5. \A S : One(new, S) /\ (None(new, S) \/ packet \in S)
    BY OneOfSingle
  <2>6. <<"log", to>> \notin Places(c)
    BY <1>10 DEF Places
  <2>7. \A p \in Places(c) \ {a, b} : At(p)' = At(p)
    BY <1>8, <2>6
  <2> HIDE DEF b, new
  <2>8. Carried(new, b, a, c)
    BY <1>7, <2>1, <2>2, <2>5 DEF Carried
  <2>9. Hands(a, b, c)
    BY <1>5, <1>6, <2>2, <2>3, <2>4, <2>7, <2>8 DEF Hands
  <2> QED
    BY <2>2, <2>9 DEF a
<1>11. CASE to # c /\ ~ (to \in Ends /\ to[1] = NodeOf[c])
  <2>1. <<"log", to>> \notin Places(c) /\ <<"buffer", to>> \notin Places(c)
    BY <1>11 DEF Places
  <2>2. \A p \in Places(c) \ {a} : At(p)' = At(p)
    BY <1>8, <2>1
  <2>3. Carried(<<>>, a, a, c) /\ <<>> \in Seq(Elements(a))
    BY NothingEmpty, EmptySeq DEF Carried
  <2>4. At(a)' = <<>> \o Tail(At(a))
    BY <1>4, <1>5
  <2>5. Keeps(a, c)
    BY <1>5, <1>6, <2>2, <2>3, <2>4 DEF Keeps
  <2> QED
    BY <2>5 DEF a
<1> QED
  BY <1>9, <1>10, <1>11

\* Every step moves messages one place along, keeps them or drops them.
LEMMA StepKinds ==
  ASSUME Typed, NEW c \in Conns, [Next]_vars
  PROVE  \/ \E a, b \in Places(c) : Hands(a, b, c)
         \/ \E a \in Places(c) : Keeps(a, c) \/ Drops(a, c)
         \/ Stays(c)
<1> DEFINE Goal == \/ \E a, b \in Places(c) : Hands(a, b, c)
                   \/ \E a \in Places(c) : Keeps(a, c) \/ Drops(a, c)
                   \/ Stays(c)
<1>1. CASE UNCHANGED vars \/ \E x \in Conns : ClientReads(x) \/ ClientGoes(x)
  BY <1>1, ClientsStay
<1>2. ASSUME NEW h \in Conns, ReadRequest(h) PROVE Goal
  BY <1>2, RequestHands DEF Hands
<1>3. ASSUME NEW h \in Ends, ReadLink(h) PROVE Goal
  BY <1>3, LinkHands DEF Hands, Drops
<1>4. ASSUME NEW h \in Handlers, (h \in Conns /\ ReadError(h)) \/ WriteError(h) PROVE Goal
  BY <1>4, ErrorDrops DEF Drops
<1>5. ASSUME NEW h \in Handlers, WritePacket(h) PROVE Goal
  BY <1>5, WriteHands DEF Hands, Keeps
<1>6. ASSUME NEW h \in Handlers, GoesOn(h) PROVE Goal
  BY <1>6, HandlerKeeps DEF Keeps
<1> HIDE DEF Goal
<1>7. Goal
  BY <1>1, <1>2, <1>3, <1>4, <1>5, <1>6 DEF Next, Runs, Handle, GoesOn, Handlers, Goal
<1> QED
  BY <1>7 DEF Goal

\* What is left where a step takes from, and what comes after it.
LEMMA HandedOn ==
  ASSUME Typed, NEW c \in Conns, NEW a \in Places(c), NEW b \in Places(c), Hands(a, b, c),
         NEW msg \in Plain
  PROVE  /\ Holds(a, msg, c)' => Holds(a, msg, c)
         /\ Holds(b, msg, c)' => Holds(b, msg, c) \/ Head(At(a)) \in With(a, msg, c)
         /\ Head(At(a)) \in With(a, msg, c) => Holds(a, msg, c)
         /\ \A p \in Places(c) \ {a, b} : Holds(p, msg, c)' <=> Holds(p, msg, c)
<1>1. PICK new \in Seq(Elements(b)) : At(b)' = At(b) \o new /\ Carried(new, b, a, c)
  BY DEF Hands
<1>2. /\ At(a) \in Seq(Elements(a)) /\ At(b) \in Seq(Elements(b))
      /\ At(a) # <<>> /\ At(a)' = Tail(At(a))
  BY PlacesTyped DEF Hands
<1>3. None(At(a), With(a, msg, c)) =>
        None(Tail(At(a)), With(a, msg, c)) /\ Head(At(a)) \notin With(a, msg, c)
  BY <1>2, NoneOfTail
<1>4. None(At(b)', With(b, msg, c)) <=> None(At(b), With(b, msg, c)) /\ None(new, With(b, msg, c))
  BY <1>1, <1>2, JoinedNone
<1>5. \A p \in Places(c) \ {a, b} : Holds(p, msg, c)' <=> Holds(p, msg, c)
  BY DEF Hands, Holds
<1> QED
  BY <1>1, <1>2, <1>3, <1>4, <1>5 DEF Carried, Holds

LEMMA KeptOn ==
  ASSUME Typed, NEW c \in Conns, NEW a \in Places(c), Keeps(a, c) \/ Drops(a, c),
         NEW msg \in Plain, NEW p \in Places(c)
  PROVE  Holds(p, msg, c)' => Holds(p, msg, c)
<1>1. CASE p # a
  BY <1>1 DEF Keeps, Drops, Holds
<1>2. CASE p = a /\ Drops(a, c)
  BY <1>2 DEF Drops, Holds
<1>3. CASE p = a /\ Keeps(a, c)
  <2>1. PICK new \in Seq(Elements(a)) : At(a)' = new \o Tail(At(a)) /\ Carried(new, a, a, c)
    BY <1>3 DEF Keeps
  <2>2. At(a) \in Seq(Elements(a)) /\ At(a) # <<>>
    BY <1>3, PlacesTyped DEF Keeps
  <2>3. /\ Tail(At(a)) \in Seq(Elements(a))
        /\ None(At(a), With(a, msg, c)) =>
             None(Tail(At(a)), With(a, msg, c)) /\ Head(At(a)) \notin With(a, msg, c)
    BY <2>2, NoneOfTail, HeadTailProperties
  <2>4. None(At(a)', With(a, msg, c)) <=>
          None(new, With(a, msg, c)) /\ None(Tail(At(a)), With(a, msg, c))
    <3> DEFINE X == Elements(a)
               S == With(a, msg, c)
               rest == Tail(At(a))
    <3>1. new \in Seq(X) /\ rest \in Seq(X) /\ At(a)' = new \o rest
      BY <2>1, <2>3
    <3> HIDE DEF X, S, rest
    <3>2. None(new \o rest, S) <=> None(new, S) /\ None(rest, S)
      BY <3>1, JoinedNone
    <3>3. None(At(a)', S) <=> None(new, S) /\ None(rest, S)
      BY <3>1, <3>2
    <3> QED
      BY <3>3 DEF S, rest
  <2> QED
    BY <1>3, <2>1, <2>3, <2>4 DEF Carried, Holds
<1> QED
  BY <1>1, <1>2, <1>3

-----------------------------------------------------------------------------
(* A message that is not retained is in one place on its way to a client.  *)

LEMMA HandsOnce ==
  ASSUME Typed, NEW c \in Conns, NEW a \in Places(c), NEW b \in Places(c), Hands(a, b, c),
         NEW msg \in Plain, Single(msg, c)
  PROVE  Single(msg, c)'
<1>1. PICK new \in Seq(Elements(b)) : At(b)' = At(b) \o new /\ Carried(new, b, a, c)
  BY DEF Hands
<1>2. /\ At(a) \in Seq(Elements(a)) /\ At(b) \in Seq(Elements(b))
      /\ At(a) # <<>> /\ At(a)' = Tail(At(a)) /\ a # b
  BY PlacesTyped DEF Hands
<1>3. /\ One(At(a), With(a, msg, c)) /\ One(At(b), With(b, msg, c))
      /\ Holds(a, msg, c) => ~ Holds(b, msg, c)
  BY <1>2 DEF Single
<1>4. /\ One(At(a)', With(a, msg, c))
      /\ Head(At(a)) \in With(a, msg, c) => ~ Holds(a, msg, c)'
  BY <1>2, <1>3, TakenFromHead DEF Holds
<1>5. One(At(b)', With(b, msg, c))
  <2>1. One(new, With(b, msg, c))
    BY <1>1 DEF Carried
  <2>2. None(At(b), With(b, msg, c)) \/ None(new, With(b, msg, c))
    BY <1>1, <1>3, HandedOn DEF Carried, Holds
  <2> QED
    BY <1>1, <1>2, <1>3, <2>1, <2>2, JoinedOne
<1>6. ASSUME NEW p \in Places(c) PROVE One(At(p)', With(p, msg, c))
  <2>1. CASE p \notin {a, b}
    BY <2>1 DEF Single, Hands
  <2> QED
    BY <1>4, <1>5, <2>1
<1>7. ASSUME NEW p \in Places(c), Holds(p, msg, c)'
      PROVE  \/ Holds(p, msg, c) /\ (p = a => Head(At(a)) \notin With(a, msg, c))
             \/ p = b /\ Head(At(a)) \in With(a, msg, c) /\ Holds(a, msg, c)
  BY <1>2, <1>4, <1>7, HandedOn
<1>8. ASSUME NEW p \in Places(c), NEW q \in Places(c), Holds(p, msg, c)', Holds(q, msg, c)'
      PROVE  p = q
  <2>1. Holds(p, msg, c) /\ Holds(q, msg, c) => p = q
    BY DEF Single
  <2>2. \A r \in Places(c) : Holds(r, msg, c) /\ Holds(a, msg, c) => r = a
    BY DEF Single
  <2> QED
    BY <1>7, <1>8, <2>1, <2>2
<1> QED
  BY <1>6, <1>8 DEF Single

LEMMA KeepsOnce ==
  ASSUME Typed, NEW c \in Conns, NEW a \in Places(c), Keeps(a, c) \/ Drops(a, c),
         NEW msg \in Plain, Single(msg, c)
  PROVE  Single(msg, c)'
<1>1. ASSUME NEW p \in Places(c) PROVE One(At(p)', With(p, msg, c))
  <2>1. CASE p # a
    BY <2>1 DEF Single, Keeps, Drops
  <2>2. CASE p = a /\ Drops(a, c)
    BY <2>2, NoneIsOne DEF Drops
  <2>3. CASE p = a /\ Keeps(a, c)
    <3>1. PICK new \in Seq(Elements(a)) : At(a)' = new \o Tail(At(a)) /\ Carried(new, a, a, c)
      BY <2>3 DEF Keeps
    <3>2. At(a) \in Seq(Elements(a)) /\ At(a) # <<>> /\ One(At(a), With(a, msg, c))
      BY <2>3, PlacesTyped DEF Keeps, Single
    <3>3. One(new, With(a, msg, c)) /\ (~ None(new, With(a, msg, c)) => Head(At(a)) \in With(a, msg, c))
      BY <3>1 DEF Carried
    <3> QED
      BY <2>3, <3>1, <3>2, <3>3, GoneOn
  <2> QED
    BY <2>1, <2>2, <2>3
<1>2. ASSUME NEW p \in Places(c), NEW q \in Places(c), Holds(p, msg, c)', Holds(q, msg, c)'
      PROVE  p = q
  BY <1>2, KeptOn DEF Single
<1> QED
  BY <1>1, <1>2 DEF Single

\* In the beginning all messages are with their publishers.
LEMMA InitElsewhere ==
  ASSUME Init, NEW msg \in Messages, NEW c \in Conns,
         NEW p \in Places(c), ~ \E x \in Conns : p = <<"requests", x>>
  PROVE  None(At(p), With(p, msg, c))
<1>1. \A h \in Handlers :
        work[h] = IF h \in linked THEN <<[do |-> "sync", left |-> Filters]>> ELSE <<>>
  BY DEF Init
<1>2. (\A h \in Handlers : buffer[h] = <<>>) /\ log[c] = <<>>
  BY DEF Init
<1>3. ASSUME NEW k \in Handlers, p = <<"work", k>> PROVE None(At(p), With(p, msg, c))
  <2>1. [do |-> "sync", left |-> Filters] \notin StepsWith(k, msg, c)
    BY DEF StepsWith
  <2>2. None(work[k], StepsWith(k, msg, c))
    BY <1>1, <2>1, OneOfSingle, NothingEmpty
  <2> QED
    BY <1>3, <2>2, WorkPlace
<1>4. ASSUME NEW e \in Ends, p = <<"buffer", e>> PROVE None(At(p), With(p, msg, c))
  BY <1>2, <1>4, BufferPlace, NothingEmpty DEF Handlers
<1>5. CASE p = <<"log", c>>
  BY <1>2, <1>5, LogPlace, NothingEmpty
<1> QED
  BY <1>3, <1>4, <1>5, Elsewhere

LEMMA InitOnce ==
  ASSUME Init, NEW msg \in Messages, NEW c \in Conns
  PROVE  Single(msg, c)
<1> DEFINE P == PacketsWith(msg)
<1>1. PICK program \in Programs : requests = program.requests
  BY DEF Init
<1>2. /\ requests \in [Conns -> Seq(Packets)]
      /\ \A x, y \in Conns : \A i \in DOMAIN requests[x], j \in DOMAIN requests[y] :
           requests[x][i] \in P /\ requests[y][j] \in P => x = y /\ i = j
  <2>1. ASSUME NEW x \in Conns, NEW y \in Conns,
               NEW i \in DOMAIN requests[x], NEW j \in DOMAIN requests[y],
               requests[x][i] \in P, requests[y][j] \in P
        PROVE  x = y /\ i = j
    <3>0. /\ requests[x][i].kind = "publish" /\ requests[x][i].msg = msg
          /\ requests[y][j].kind = "publish" /\ requests[y][j].msg = msg
      BY <2>1 DEF PacketsWith
    <3>1. msg.by = x /\ msg.by = y
      BY <1>1, <3>0, ProgramAssumption
    <3>2. ~ i < j /\ ~ j < i
      <4>1. i < j => msg.nr < msg.nr
        BY <1>1, <3>0, <3>1, ProgramAssumption
      <4>2. j < i => msg.nr < msg.nr
        BY <1>1, <3>0, <3>1, ProgramAssumption
      <4> QED
        BY <4>1, <4>2, MessageAssumption
    <3>3. requests[x] \in Seq(Packets)
      BY <1>1, ProgramAssumption
    <3>4. i \in Int /\ j \in Int
      BY <3>1, <3>3, LenProperties
    <3> QED
      BY <3>1, <3>2, <3>4
  <2> QED
    BY <1>1, <2>1, ProgramAssumption
<1>3. ASSUME NEW p \in Places(c), ~ \E x \in Conns : p = <<"requests", x>>
      PROVE  None(At(p), With(p, msg, c))
  BY <1>3, InitElsewhere
<1> HIDE DEF P
<1>4. ASSUME NEW x \in Conns PROVE One(requests[x], P)
  BY <1>2 DEF One
<1>5. ASSUME NEW x \in Conns, NEW y \in Conns, ~ None(requests[x], P), ~ None(requests[y], P)
      PROVE  x = y
  BY <1>2, <1>5 DEF None
<1>6. ASSUME NEW p \in Places(c) PROVE One(At(p), With(p, msg, c))
  <2>1. ASSUME NEW x \in Conns, p = <<"requests", x>> PROVE One(At(p), With(p, msg, c))
    BY <1>4, <2>1, RequestsPlace DEF P
  <2> QED
    BY <1>3, <2>1, NoneIsOne
<1>7. ASSUME NEW p \in Places(c), NEW q \in Places(c), Holds(p, msg, c), Holds(q, msg, c)
      PROVE  p = q
  <2>1. PICK x \in Conns : p = <<"requests", x>>
    BY <1>3, <1>7 DEF Holds
  <2>2. PICK y \in Conns : q = <<"requests", y>>
    BY <1>3, <1>7 DEF Holds
  <2>3. ~ None(requests[x], P) /\ ~ None(requests[y], P)
    BY <1>7, <2>1, <2>2, RequestsPlace DEF Holds, P
  <2> QED
    BY <1>5, <2>1, <2>2, <2>3
<1> QED
  BY <1>6, <1>7 DEF Single

LEMMA NextOnce ==
  ASSUME Typed, OnceInv, [Next]_vars
  PROVE  OnceInv'
<1> SUFFICES ASSUME NEW msg \in Plain, NEW c \in Conns
             PROVE  Single(msg, c)'
  BY DEF OnceInv, Plain
<1>1. Single(msg, c)
  BY DEF OnceInv, Plain
<1>2. CASE Stays(c)
  BY <1>1, <1>2 DEF Stays, Single, Holds
<1> QED
  BY <1>1, <1>2, HandsOnce, KeepsOnce, StepKinds

(***************************************************************************)
(* broker/processor.go:79 and cluster/processor.go:28, "a message is only  *)
(* sent to a client once": a client gets a message that is not retained at *)
(* most once, for any number of nodes and links, of overlapping filters,   *)
(* of clients that subscribe, unsubscribe and leave meanwhile and of       *)
(* connections that share an identifier, whatever room the connections     *)
(* have, if clients publish no message twice.                              *)
(***************************************************************************)
THEOREM MessagesComeOnce == Spec => []AtMostOnce
<1>1. Init => OnceInv
  BY InitOnce DEF OnceInv
<1>2. Typed /\ OnceInv /\ [Next]_vars => OnceInv'
  BY NextOnce
<1>3. Typed /\ OnceInv => AtMostOnce
  <2> SUFFICES ASSUME Typed, OnceInv, NEW c \in Conns,
                      NEW i \in DOMAIN log[c], NEW j \in DOMAIN log[c],
                      i # j, log[c][i] = log[c][j], ~ log[c][i].retain
               PROVE  FALSE
    BY DEF AtMostOnce
  <2> DEFINE msg == log[c][i]
  <2>1. msg \in Messages
    BY LenProperties, ElementOfSeq DEF Typed
  <2>2. Single(msg, c)
    BY <2>1 DEF OnceInv
  <2> HIDE DEF msg
  <2>3. One(log[c], {msg})
    BY <2>2, LogPlace DEF Single
  <2> QED
    BY <2>3 DEF One, msg
<1> QED
  BY <1>1, <1>2, <1>3, AlwaysTyped, PTL DEF Spec

-----------------------------------------------------------------------------
(* In order                                                                *)

\* No element in T comes before one in S.
Before(s, S, T) == \A i, j \in DOMAIN s : s[i] \in T /\ s[j] \in S => ~ i < j

\* Of two messages of a client the first is further on its way.
InRow(first, second, c) ==
  /\ \A p \in Places(c) : Before(At(p), With(p, first, c), With(p, second, c))
  /\ \A p, q \in Places(c) : Holds(p, second, c) /\ Holds(q, first, c) => Rank(q) <= Rank(p)

Routed(msg, c) == \A p \in Places(c) : Holds(p, msg, c) => p \in Path(msg.by, c)

OrderInv ==
  /\ \A msg \in Plain : \A c \in Conns : Routed(msg, c)
  /\ \A first, second \in Plain : \A c \in Conns :
       first.by = second.by /\ first.nr < second.nr => InRow(first, second, c)

LEMMA NoneBefore ==
  ASSUME NEW s, NEW S, NEW T, None(s, S) \/ None(s, T)
  PROVE  Before(s, S, T)
  BY DEF None, Before

LEMMA JoinedBefore ==
  ASSUME NEW X, NEW s \in Seq(X), NEW t \in Seq(X), NEW S, NEW T,
         Before(s, S, T), Before(t, S, T), None(s, T) \/ None(t, S)
  PROVE  Before(s \o t, S, T)
<1>1. /\ DOMAIN s = 1 .. Len(s) /\ DOMAIN t = 1 .. Len(t)
      /\ DOMAIN (s \o t) = 1 .. (Len(s) + Len(t))
      /\ Len(s) \in Nat /\ Len(t) \in Nat
      /\ \A i \in 1 .. (Len(s) + Len(t)) :
           (s \o t)[i] = IF i <= Len(s) THEN s[i] ELSE t[i - Len(s)]
  BY ConcatProperties, LenProperties
<1>2. SUFFICES ASSUME NEW i \in DOMAIN (s \o t), NEW j \in DOMAIN (s \o t),
                      (s \o t)[i] \in T, (s \o t)[j] \in S, i < j
               PROVE  FALSE
  BY DEF Before
<1>3. CASE j <= Len(s)
  <2>1. i \in DOMAIN s /\ j \in DOMAIN s /\ s[i] \in T /\ s[j] \in S
    BY <1>1, <1>2, <1>3
  <2> QED
    BY <1>2, <2>1 DEF Before
<1>4. CASE i > Len(s)
  <2>1. /\ i - Len(s) \in DOMAIN t /\ t[i - Len(s)] \in T
        /\ j - Len(s) \in DOMAIN t /\ t[j - Len(s)] \in S
        /\ i - Len(s) < j - Len(s)
    BY <1>1, <1>2, <1>4
  <2> QED
    BY <2>1 DEF Before
<1>5. CASE i <= Len(s) /\ j > Len(s)
  <2>1. i \in DOMAIN s /\ s[i] \in T /\ j - Len(s) \in DOMAIN t /\ t[j - Len(s)] \in S
    BY <1>1, <1>2, <1>5
  <2> QED
    BY <2>1 DEF None
<1> QED
  BY <1>1, <1>2, <1>3, <1>4, <1>5

LEMMA TailBefore ==
  ASSUME NEW X, NEW s \in Seq(X), s # <<>>, NEW S, NEW T, Before(s, S, T)
  PROVE  Before(Tail(s), S, T) /\ (Head(s) \in T => None(Tail(s), S))
<1>1. /\ DOMAIN s = 1 .. Len(s) /\ Len(s) \in Nat \ {0}
      /\ DOMAIN Tail(s) = 1 .. (Len(s) - 1)
      /\ \A i \in 1 .. (Len(s) - 1) : Tail(s)[i] = s[i + 1]
      /\ Head(s) = s[1]
  BY HeadTailProperties, LenProperties, EmptySeq
<1>2. ASSUME NEW i \in DOMAIN Tail(s), NEW j \in DOMAIN Tail(s),
             Tail(s)[i] \in T, Tail(s)[j] \in S, i < j
      PROVE  FALSE
  <2>1. /\ i + 1 \in DOMAIN s /\ s[i + 1] \in T
        /\ j + 1 \in DOMAIN s /\ s[j + 1] \in S /\ i + 1 < j + 1
    BY <1>1, <1>2
  <2> QED
    BY <2>1 DEF Before
<1>3. ASSUME Head(s) \in T, NEW j \in DOMAIN Tail(s), Tail(s)[j] \in S
      PROVE  FALSE
  <2>1. /\ 1 \in DOMAIN s /\ s[1] \in T
        /\ j + 1 \in DOMAIN s /\ s[j + 1] \in S /\ 1 < j + 1
    BY <1>1, <1>3
  <2> QED
    BY <2>1 DEF Before
<1> QED
  BY <1>2, <1>3 DEF Before, None

LEMMA RankTyped ==
  ASSUME NEW c \in Conns, NEW p \in Places(c)
  PROVE  Rank(p) \in Nat
<1>1. ASSUME NEW h \in Ends, p = <<"work", h>> \/ p = <<"buffer", h>> PROVE Rank(p) \in Nat
  <2>1. Rank(<<"work", h>>) = 1 /\ Rank(<<"buffer", h>>) = 2
    BY Ranks
  <2> QED
    BY <1>1, <2>1
<1>2. ASSUME NEW x \in Conns, p = <<"work", x>> \/ p = <<"requests", x>> PROVE Rank(p) \in Nat
  <2>1. Rank(<<"work", x>>) = 3 /\ Rank(<<"requests", x>>) = 4
    BY Ranks
  <2> QED
    BY <1>2, <2>1
<1>3. CASE p = <<"log", c>>
  <2>1. Rank(<<"log", c>>) = 0
    BY Ranks
  <2> QED
    BY <1>3, <2>1
<1> QED
  BY <1>1, <1>2, <1>3, Elsewhere DEF Handlers

\* Nothing carries two messages.
LEMMA OneEach ==
  ASSUME NEW c \in Conns, NEW p \in Places(c), NEW first, NEW second, first # second
  PROVE  With(p, first, c) \cap With(p, second, c) = {}
<1>1. ASSUME NEW h, NEW s \in StepsWith(h, first, c), s \in StepsWith(h, second, c)
      PROVE  FALSE
  <2>1. CASE s.do \in {"match", "match links"}
    BY <1>1, <2>1 DEF StepsWith
  <2>2. CASE s.do \in {"send", "write", "write or return"}
    <3>1. s.packet \in PacketsWith(first) /\ s.packet \in PacketsWith(second)
      BY <1>1, <2>2 DEF StepsWith
    <3> QED
      BY <3>1 DEF PacketsWith
  <2> QED
    BY <1>1, <2>1, <2>2 DEF StepsWith
<1>2. PacketsWith(first) \cap PacketsWith(second) = {}
  BY DEF PacketsWith
<1>3. ASSUME NEW x \in Conns, p = <<"requests", x>>
      PROVE  With(p, first, c) \cap With(p, second, c) = {}
  BY <1>2, <1>3, RequestsPlace
<1>4. ASSUME NEW h \in Handlers, p = <<"work", h>>
      PROVE  With(p, first, c) \cap With(p, second, c) = {}
  BY <1>1, <1>4, WorkPlace
<1>5. ASSUME NEW e \in Ends, p = <<"buffer", e>>
      PROVE  With(p, first, c) \cap With(p, second, c) = {}
  BY <1>2, <1>5, BufferPlace
<1>6. CASE p = <<"log", c>>
  BY <1>6, LogPlace
<1> QED
  BY <1>3, <1>4, <1>5, <1>6, Elsewhere

LEMMA HandsRouted ==
  ASSUME Typed, NEW c \in Conns, NEW a \in Places(c), NEW b \in Places(c), Hands(a, b, c),
         NEW msg \in Plain, Routed(msg, c)
  PROVE  Routed(msg, c)'
<1>1. msg.by \in Conns
  BY MessageAssumption DEF Plain
<1>2. a \in Path(msg.by, c) => b \in Path(msg.by, c)
  BY <1>1 DEF Hands, Along
<1>3. ASSUME NEW p \in Places(c), Holds(p, msg, c)' PROVE p \in Path(msg.by, c)
  BY <1>2, <1>3, HandedOn DEF Routed
<1> QED
  BY <1>3 DEF Routed

LEMMA HandsInRow ==
  ASSUME Typed, NEW c \in Conns, NEW a \in Places(c), NEW b \in Places(c), Hands(a, b, c),
         NEW first \in Plain, NEW second \in Plain, first # second, first.by = second.by,
         Routed(first, c), Routed(second, c), InRow(first, second, c)
  PROVE  InRow(first, second, c)'
<1> DEFINE x == first.by
<1>1. PICK new \in Seq(Elements(b)) : At(b)' = At(b) \o new /\ Carried(new, b, a, c)
  BY DEF Hands
<1>2. /\ At(a) \in Seq(Elements(a)) /\ At(b) \in Seq(Elements(b))
      /\ At(a) # <<>> /\ At(a)' = Tail(At(a)) /\ a # b
  BY PlacesTyped DEF Hands
<1>3. x \in Conns
  BY MessageAssumption DEF Plain
<1>4. \A p \in Places(c) : Rank(p) \in Nat
  BY RankTyped
\* the head of a carries the first, the second or none
<1>5. ~ (Head(At(a)) \in With(a, first, c) /\ Head(At(a)) \in With(a, second, c))
  BY OneEach
<1>6. Holds(a, first, c) \/ Holds(a, second, c) =>
        /\ Rank(b) < Rank(a)
        /\ \A q \in Path(x, c) : Rank(q) <= Rank(b) \/ Rank(a) < Rank(q) \/ q = a
  <2>1. Holds(a, first, c) \/ Holds(a, second, c) => a \in Path(x, c)
    BY DEF Routed
  <2> QED
    BY <1>3, <2>1 DEF Hands, Along
<1>7. /\ Before(At(a)', With(a, first, c), With(a, second, c))
      /\ Head(At(a)) \in With(a, second, c) => ~ Holds(a, first, c)'
  BY <1>2, TailBefore DEF InRow, Holds
<1>8. Before(At(b)', With(b, first, c), With(b, second, c))
  <2>1. Before(new, With(b, first, c), With(b, second, c))
    BY <1>1, <1>5, NoneBefore DEF Carried
  <2>2. None(At(b), With(b, second, c)) \/ None(new, With(b, first, c))
    <3> SUFFICES ASSUME Holds(b, second, c), ~ None(new, With(b, first, c)) PROVE FALSE
      BY DEF Holds
    <3>1. Holds(a, first, c)
      BY <1>1, HandedOn DEF Carried
    <3>2. Rank(a) <= Rank(b)
      BY <3>1 DEF InRow
    <3> QED
      BY <1>4, <1>6, <3>1, <3>2
  <2> QED
    BY <1>1, <1>2, <2>1, <2>2, JoinedBefore DEF InRow
<1>9. ASSUME NEW p \in Places(c) PROVE Before(At(p)', With(p, first, c), With(p, second, c))
  <2>1. CASE p \notin {a, b}
    BY <2>1 DEF InRow, Hands
  <2> QED
    BY <1>7, <1>8, <2>1
<1>10. ASSUME NEW p \in Places(c), NEW q \in Places(c), Holds(p, second, c)', Holds(q, first, c)'
       PROVE  Rank(q) <= Rank(p)
  <2>1. CASE Holds(p, second, c) /\ Holds(q, first, c)
    BY <2>1 DEF InRow
  <2>2. CASE ~ Holds(q, first, c) /\ Holds(p, second, c)
    <3>1. q = b /\ Holds(a, first, c)
      BY <1>10, <2>2, HandedOn
    <3>2. Rank(a) <= Rank(p)
      BY <2>2, <3>1 DEF InRow
    <3> QED
      BY <1>4, <1>6, <3>1, <3>2
  <2>3. CASE ~ Holds(p, second, c) /\ Holds(q, first, c)
    <3>1. p = b /\ Holds(a, second, c) /\ Head(At(a)) \in With(a, second, c)
      BY <1>10, <2>3, HandedOn
    <3>2. Rank(q) <= Rank(a) /\ q \in Path(x, c)
      BY <2>3, <3>1 DEF InRow, Routed
    <3>3. q # a
      BY <1>7, <1>10, <3>1
    <3> QED
      BY <1>4, <1>6, <3>1, <3>2, <3>3
  <2>4. CASE ~ Holds(p, second, c) /\ ~ Holds(q, first, c)
    <3>1. p = b /\ q = b
      BY <1>10, <2>4, HandedOn
    <3> QED
      BY <1>4, <3>1
  <2> QED
    BY <2>1, <2>2, <2>3, <2>4
<1> QED
  BY <1>9, <1>10 DEF InRow

LEMMA KeepsInRow ==
  ASSUME Typed, NEW c \in Conns, NEW a \in Places(c), Keeps(a, c) \/ Drops(a, c),
         NEW first \in Plain, NEW second \in Plain, first # second, InRow(first, second, c)
  PROVE  InRow(first, second, c)'
<1>1. ASSUME NEW p \in Places(c) PROVE Before(At(p)', With(p, first, c), With(p, second, c))
  <2>1. CASE p # a
    BY <2>1 DEF InRow, Keeps, Drops
  <2>2. CASE p = a /\ Drops(a, c)
    BY <2>2, NoneBefore DEF Drops
  <2>3. CASE p = a /\ Keeps(a, c)
    <3>1. PICK new \in Seq(Elements(a)) : At(a)' = new \o Tail(At(a)) /\ Carried(new, a, a, c)
      BY <2>3 DEF Keeps
    <3>2. At(a) \in Seq(Elements(a)) /\ At(a) # <<>>
      BY <2>3, PlacesTyped DEF Keeps
    <3>3. /\ Tail(At(a)) \in Seq(Elements(a))
          /\ Before(Tail(At(a)), With(a, first, c), With(a, second, c))
          /\ Head(At(a)) \in With(a, second, c) => None(Tail(At(a)), With(a, first, c))
      BY <3>2, TailBefore, HeadTailProperties DEF InRow
    <3>4. Before(new, With(a, first, c), With(a, second, c))
      BY <3>1, OneEach, NoneBefore DEF Carried
    <3>5. None(new, With(a, second, c)) \/ Head(At(a)) \in With(a, second, c)
      BY <3>1 DEF Carried
    <3> QED
      BY <2>3, <3>1, <3>3, <3>4, <3>5, JoinedBefore
  <2> QED
    BY <2>1, <2>2, <2>3
<1>2. ASSUME NEW p \in Places(c), NEW q \in Places(c), Holds(p, second, c)', Holds(q, first, c)'
      PROVE  Rank(q) <= Rank(p)
  BY <1>2, KeptOn DEF InRow
<1> QED
  BY <1>1, <1>2 DEF InRow

LEMMA NextOrder ==
  ASSUME Typed, OrderInv, [Next]_vars
  PROVE  OrderInv'
<1>1. ASSUME NEW msg \in Plain, NEW c \in Conns PROVE Routed(msg, c)'
  <2>1. Routed(msg, c)
    BY DEF OrderInv
  <2>2. CASE Stays(c)
    BY <2>1, <2>2 DEF Stays, Routed, Holds
  <2>3. ASSUME NEW a \in Places(c), Keeps(a, c) \/ Drops(a, c) PROVE Routed(msg, c)'
    BY <2>1, <2>3, KeptOn DEF Routed
  <2> QED
    BY <2>1, <2>2, <2>3, HandsRouted, StepKinds
<1>2. ASSUME NEW first \in Plain, NEW second \in Plain, NEW c \in Conns,
             first.by = second.by, first.nr < second.nr
      PROVE  InRow(first, second, c)'
  <2>1. InRow(first, second, c) /\ Routed(first, c) /\ Routed(second, c)
    BY <1>2 DEF OrderInv
  <2>2. first # second
    BY <1>2, MessageAssumption DEF Plain
  <2>3. CASE Stays(c)
    BY <2>1, <2>3 DEF Stays, InRow, Holds
  <2> QED
    BY <1>2, <2>1, <2>2, <2>3, HandsInRow, KeepsInRow, StepKinds
<1> QED
  BY <1>1, <1>2 DEF OrderInv

LEMMA InitOrder == Init => OrderInv
<1> SUFFICES ASSUME Init PROVE OrderInv
  OBVIOUS
<1>1. PICK program \in Programs : requests = program.requests
  BY DEF Init
<1>2. ASSUME NEW msg \in Plain, NEW c \in Conns, NEW p \in Places(c), Holds(p, msg, c)
      PROVE  p = <<"requests", msg.by>>
  <2>1. PICK x \in Conns : p = <<"requests", x>>
    BY <1>2, InitElsewhere DEF Holds, Plain
  <2>2. ~ None(requests[x], PacketsWith(msg))
    BY <1>2, <2>1, RequestsPlace DEF Holds
  <2>3. PICK i \in DOMAIN requests[x] : requests[x][i] \in PacketsWith(msg)
    BY <2>2 DEF None
  <2>4. msg.by = x
    BY <1>1, <2>3, ProgramAssumption DEF PacketsWith
  <2> QED
    BY <2>1, <2>4
<1>3. ASSUME NEW msg \in Plain, NEW c \in Conns PROVE Routed(msg, c)
  BY <1>2 DEF Routed, Path
<1>4. ASSUME NEW first \in Plain, NEW second \in Plain, NEW c \in Conns,
             first.by = second.by, first.nr < second.nr
      PROVE  InRow(first, second, c)
  <2>1. ASSUME NEW p \in Places(c) PROVE Before(At(p), With(p, first, c), With(p, second, c))
    <3>1. CASE \E x \in Conns : p = <<"requests", x>>
      <4>1. PICK x \in Conns : p = <<"requests", x>>
        BY <3>1
      <4>2. /\ At(p) = requests[x] /\ With(p, first, c) = PacketsWith(first)
            /\ With(p, second, c) = PacketsWith(second)
        BY <4>1, RequestsPlace
      <4>3. ASSUME NEW i \in DOMAIN requests[x], NEW j \in DOMAIN requests[x], i < j,
                   requests[x][i] \in PacketsWith(second), requests[x][j] \in PacketsWith(first)
            PROVE  FALSE
        <5>1. second.nr < first.nr
          BY <1>1, <4>3, ProgramAssumption DEF PacketsWith
        <5> QED
          BY <1>4, <5>1, MessageAssumption DEF Plain
      <4> QED
        BY <4>2, <4>3 DEF Before
    <3> QED
      BY <3>1, InitElsewhere, NoneBefore DEF Plain
  <2>2. ASSUME NEW p \in Places(c), NEW q \in Places(c), Holds(p, second, c), Holds(q, first, c)
        PROVE  Rank(q) <= Rank(p)
    <3>1. p = q
      BY <1>2, <1>4, <2>2
    <3> QED
      BY <3>1, RankTyped
  <2> QED
    BY <2>1, <2>2 DEF InRow
<1> QED
  BY <1>3, <1>4 DEF OrderInv

(***************************************************************************)
(* ReadLoop (clients.go:51) handles a packet to its end before it reads    *)
(* the next one: the messages of a publisher reach a subscriber in the     *)
(* order they were published, for any number of publishers and nodes, of   *)
(* filters that overlap and of clients that come and go, whatever room the *)
(* connections have and whoever else writes to them.                       *)
(***************************************************************************)
THEOREM MessagesComeInOrder == Spec => []InOrder
<1>1. Typed /\ OrderInv /\ [Next]_vars => OrderInv'
  BY NextOrder
<1>2. Typed /\ OrderInv => InOrder
  <2> SUFFICES ASSUME Typed, OrderInv, NEW c \in Conns,
                      NEW i \in DOMAIN log[c], NEW j \in DOMAIN log[c],
                      i < j, log[c][i].by = log[c][j].by,
                      ~ log[c][i].retain, ~ log[c][j].retain,
                      ~ log[c][i].nr <= log[c][j].nr
               PROVE  FALSE
    BY DEF InOrder
  <2> DEFINE first == log[c][j]
             second == log[c][i]
  <2>1. first \in Plain /\ second \in Plain
    BY LenProperties, ElementOfSeq DEF Typed, Plain
  <2>2. first.nr < second.nr
    BY <2>1, MessageAssumption DEF Plain
  <2>3. InRow(first, second, c)
    BY <2>1, <2>2 DEF OrderInv
  <2> HIDE DEF first, second
  <2>4. /\ <<"log", c>> \in Places(c) /\ At(<<"log", c>>) = log[c]
        /\ With(<<"log", c>>, first, c) = {first} /\ With(<<"log", c>>, second, c) = {second}
    BY LogPlace
  <2>5. Before(log[c], {first}, {second})
    BY <2>3, <2>4 DEF InRow
  <2> QED
    BY <2>5 DEF Before, first, second
<1> QED
  BY <1>1, <1>2, InitOrder, AlwaysTyped, PTL DEF Spec

-----------------------------------------------------------------------------
(* Retained messages                                                       *)

\* The steps by which c gets one of the messages.
Announces(c, msgs) ==
  {s \in StepsOf(c) :
     \/ s.do \in {"subscribe", "search"}
     \/ /\ s.do = "write" /\ s.to = c
        /\ s.packet.kind = "publish" /\ s.packet.msg \in msgs}

Underway(c) == ~ None(work[c], Announces(c, owed[c])) \/ ~ None(log[c], owed[c])

OwedTo(c) ==
  /\ NoMessage \notin owed[c]
  /\ owed[c] # {} =>
       /\ retained[NodeOf[c]] \in owed[c]
       /\ status[c] = "up" => Underway(c)

OwedInv == DOMAIN owed = Conns /\ \A c \in Conns : OwedTo(c)

LEMMA GoesOnWith ==
  ASSUME NEW X, NEW s \in Seq(X), s # <<>>, NEW new \in Seq(X), NEW S, ~ None(s, S),
         Head(s) \in S => ~ None(new, S)
  PROVE  ~ None(new \o Tail(s), S)
<1>1. /\ DOMAIN s = 1 .. Len(s) /\ Len(s) \in Nat \ {0}
      /\ Tail(s) \in Seq(X) /\ DOMAIN Tail(s) = 1 .. (Len(s) - 1)
      /\ \A i \in 1 .. (Len(s) - 1) : Tail(s)[i] = s[i + 1]
      /\ Head(s) = s[1]
  BY HeadTailProperties, LenProperties, EmptySeq
<1>2. PICK i \in DOMAIN s : s[i] \in S
  BY DEF None
<1>3. CASE i = 1
  BY <1>1, <1>2, <1>3, JoinedNone
<1>4. CASE i # 1
  <2>1. i - 1 \in DOMAIN Tail(s) /\ Tail(s)[i - 1] \in S
    BY <1>1, <1>2, <1>4
  <2>2. ~ None(Tail(s), S)
    BY <2>1 DEF None
  <2> QED
    BY <1>1, <2>2, JoinedNone
<1> QED
  BY <1>3, <1>4

LEMMA MoreAnnounced ==
  ASSUME NEW s, NEW S, NEW T, S \subseteq T, ~ None(s, S)
  PROVE  ~ None(s, T)
  BY DEF None

\* A handler goes on, and nothing is retained or written.
LEMMA WentOnOwed ==
  ASSUME Typed, OwedInv, NEW h \in Handlers, work[h] # <<>>,
         NEW steps \in Seq(StepsOf(h)), Then(h, steps),
         UNCHANGED <<retained, status, log, owed>>,
         h \in Conns /\ status[h] = "up" /\ owed[h] # {} =>
           (Head(work[h]) \in Announces(h, owed[h]) => ~ None(steps, Announces(h, owed[h])))
  PROVE  OwedInv'
<1> SUFFICES ASSUME NEW c \in Conns, owed[c] # {}, status[c] = "up"
             PROVE  Underway(c)'
  BY DEF OwedInv, OwedTo
<1>1. Underway(c)
  BY DEF OwedInv, OwedTo
<1>2. CASE c # h
  <2>1. work'[c] = work[c]
    BY <1>2 DEF Then, Typed, Handlers
  <2> QED
    BY <1>1, <2>1 DEF Underway
<1>3. CASE c = h
  <2>1. work'[h] = steps \o Tail(work[h]) /\ work[h] \in Seq(StepsOf(h))
    BY DEF Then, Typed
  <2>2. ~ None(work[h], Announces(h, owed[h]))
          => ~ None(steps \o Tail(work[h]), Announces(h, owed[h]))
    BY <1>3, <2>1, GoesOnWith
  <2> QED
    BY <1>1, <1>3, <2>1, <2>2 DEF Underway
<1> QED
  BY <1>2, <1>3

LEMMA InitOwed == Init => OwedInv
  BY DEF Init, OwedInv, OwedTo

LEMMA ReadRequestOwed ==
  ASSUME Typed, OwedInv, NEW x \in Conns, ReadRequest(x)
  PROVE  OwedInv'
<1> DEFINE packet == Head(requests[x])
           asks == packet.kind = "subscribe" /\ packet.filters # <<>>
<1>1. /\ retained' = retained /\ log' = log /\ status' = status
      /\ work' = [work EXCEPT ![x] = Steps(x, packet)]
      /\ owed' = [owed EXCEPT ![x] = IF asks THEN {retained[NodeOf[x]]} \ {NoMessage} ELSE @]
      /\ work[x] = <<>>
  BY DEF ReadRequest, Expect, shared
<1>2. x \in Handlers /\ packet \in Packets
  <2>1. requests[x] \in Seq(Packets) /\ requests[x] # <<>>
    BY DEF Typed, ReadRequest
  <2> QED
    BY <2>1, HeadTailProperties DEF Handlers
<1> HIDE DEF packet
<1>3. ASSUME NEW c \in Conns, c # x PROVE OwedTo(c)'
  <2>1. /\ work'[c] = work[c] /\ log'[c] = log[c] /\ owed'[c] = owed[c]
        /\ retained'[NodeOf[c]] = retained[NodeOf[c]] /\ status'[c] = status[c]
    BY <1>1, <1>3 DEF Typed, OwedInv, Handlers
  <2>2. OwedTo(c)
    BY DEF OwedInv
  <2> QED
    BY <2>1, <2>2 DEF OwedTo, Underway
<1>4. CASE asks
  <2>1. owed'[x] = {retained[NodeOf[x]]} \ {NoMessage}
    BY <1>1, <1>4 DEF OwedInv
  <2>2. ~ None(Steps(x, packet), Announces(x, owed'[x]))
    <3> DEFINE ack == Write(Answered(x), Ack)
               each == Each("subscribe", packet.filters)
               forwards == Forwards(x, packet)
               T == Seq(StepsOf(x))
               A == Announces(x, owed'[x])
    <3>1. Ack \in Packets /\ Answered(x) \in Reached(x)
      BY <1>2, Homes DEF Ack, Packets
    <3>2. ack \in T /\ forwards \in T
      BY <1>2, <3>1, WrittenTyped, LinksTyped DEF Typed
    <3>3. packet.filters \in Seq(Filters)
      BY <1>2, <1>4, PacketOf
    <3>4. each \in T
      BY <3>3, EachTyped
    <3>5. 1 \in DOMAIN packet.filters /\ packet.filters[1] \in Filters
      BY <1>4, <3>3, EmptySeq, LenProperties, ElementOfSeq
    <3>6. each[1] \in A /\ 1 \in DOMAIN each
      BY <3>5 DEF Each, Announces, StepsOf
    <3>7. Steps(x, packet) = ack \o each \o forwards
      BY <1>4 DEF Steps
    <3>8. ~ None(each, A)
      BY <3>6 DEF None
    <3> HIDE DEF ack, each, forwards, A
    <3>9. ack \o each \in T /\ ~ None(ack \o each, A)
      BY <3>2, <3>4, <3>8, ConcatProperties, JoinedNone
    <3>10. ~ None(ack \o each \o forwards, A)
      BY <3>2, <3>9, JoinedNone
    <3> QED
      BY <3>7, <3>10 DEF A
  <2>3. work'[x] = Steps(x, packet)
    BY <1>1, <1>2 DEF Typed
  <2>4. Underway(x)'
    BY <2>2, <2>3 DEF Underway
  <2>5. OwedTo(x)'
    BY <1>1, <2>1, <2>4 DEF OwedTo
  <2> QED
    BY <1>1, <1>3, <2>5 DEF OwedInv
<1>5. CASE ~ asks
  <2>1. owed'[x] = owed[x] /\ DOMAIN owed' = Conns
    BY <1>1, <1>5 DEF OwedInv
  <2>2. OwedTo(x)
    BY DEF OwedInv
  <2>3. owed[x] # {} /\ status[x] = "up" => ~ None(log[x], owed[x])
    BY <1>1, <2>2, NothingEmpty DEF OwedTo, Underway
  <2> QED
    BY <1>1, <1>3, <2>1, <2>2, <2>3 DEF OwedInv, OwedTo, Underway
<1> QED
  BY <1>4, <1>5

\* Nothing is done to a client that is up.
LEMMA ElsewhereOwed ==
  ASSUME Typed, OwedInv, UNCHANGED <<retained, log, owed>>,
         \A c \in Conns : status'[c] = "up" => status[c] = "up" /\ work'[c] = work[c]
  PROVE  OwedInv'
  BY DEF OwedInv, OwedTo, Underway

LEMMA ReadOwed ==
  ASSUME Typed, OwedInv, NEW h \in Handlers,
         \/ h \in Ends /\ ReadLink(h)
         \/ h \in Conns /\ ReadError(h)
         \/ h \in Conns /\ ClientReads(h)
         \/ WriteError(h)
  PROVE  OwedInv'
<1>1. CASE h \in Ends /\ ReadLink(h)
  BY <1>1, ElsewhereOwed, ConnAssumption DEF ReadLink, Typed, Handlers, shared, history
<1>2. CASE h \in Conns /\ ReadError(h)
  BY <1>2, ElsewhereOwed DEF ReadError, Typed, Handlers, shared, history
<1>3. CASE h \in Conns /\ ClientReads(h)
  BY <1>3, ElsewhereOwed DEF ClientReads, shared, history
<1>4. CASE WriteError(h)
  BY <1>4, ElsewhereOwed DEF WriteError, Typed, Handlers, shared
<1> QED
  BY <1>1, <1>2, <1>3, <1>4

LEMMA GoesOwed ==
  ASSUME Typed, OwedInv, NEW c \in Conns, ClientGoes(c)
  PROVE  OwedInv'
<1>1. owed'[c] = {} /\ DOMAIN owed' = Conns
  BY DEF ClientGoes, OwedInv
<1>2. ASSUME NEW d \in Conns, d # c PROVE OwedTo(d)'
  <2>1. /\ owed'[d] = owed[d] /\ status'[d] = status[d]
        /\ UNCHANGED <<work, log, retained>>
    BY <1>2 DEF ClientGoes, OwedInv, Typed, shared
  <2>2. OwedTo(d)
    BY DEF OwedInv
  <2> QED
    BY <2>1, <2>2 DEF OwedTo, Underway
<1> QED
  BY <1>1, <1>2 DEF OwedInv, OwedTo

LEMMA WriteOwed ==
  ASSUME Typed, OwedInv, NEW h \in Handlers, WritePacket(h)
  PROVE  OwedInv'
<1>0. PICK to, packet : to = Head(work[h]).to /\ packet = Head(work[h]).packet
  OBVIOUS
<1>1. /\ work[h] # <<>> /\ work[h] \in Seq(StepsOf(h)) /\ Head(work[h]) \in StepsOf(h)
      /\ to \in Reached(h) /\ packet \in Packets
  BY <1>0, HeadOfWork, StepOf DEF WritePacket, Writing, Typed
<1>2. /\ work' = [work EXCEPT ![h] = <<>> \o Tail(@)]
      /\ log' = IF to \in Conns /\ packet.kind = "publish"
                THEN [log EXCEPT ![to] = Append(@, packet.msg)] ELSE log
      /\ status' = status /\ retained' = retained /\ owed' = owed
  BY <1>0 DEF WritePacket, Then, shared
<1>3. SUFFICES ASSUME NEW c \in Conns, owed[c] # {}, status[c] = "up"
               PROVE  Underway(c)'
  BY <1>2 DEF OwedInv, OwedTo
<1>4. Underway(c)
  BY <1>3 DEF OwedInv, OwedTo
<1>5. ~ None(log[c], owed[c]) => ~ None(log'[c], owed[c])
  <2>1. CASE to = c /\ packet.kind = "publish"
    <3>1. packet.msg \in Messages /\ log[c] \in Seq(Messages)
      BY <1>1, <2>1, PacketOf DEF Typed
    <3>2. log'[c] = Append(log[c], packet.msg)
      BY <1>2, <2>1 DEF Typed
    <3> QED
      BY <3>1, <3>2, AppendProperties, LenProperties DEF None
  <2>2. CASE ~ (to = c /\ packet.kind = "publish")
    BY <1>2, <2>2 DEF Typed
  <2> QED
    BY <2>1, <2>2
<1>6. CASE c # h
  <2>1. work'[c] = work[c]
    BY <1>2, <1>6 DEF Typed, Handlers
  <2> QED
    BY <1>2, <1>4, <1>5, <2>1 DEF Underway
<1>7. CASE c = h
  <2> DEFINE A == Announces(c, owed[c])
  <2>1. work'[c] = <<>> \o Tail(work[c])
    BY <1>2, <1>7 DEF Typed, Handlers
  <2>2. CASE Head(work[c]) \in A
    <3>1. to = c /\ packet.kind = "publish" /\ packet.msg \in owed[c]
      BY <1>0, <1>7, <2>2 DEF Announces, WritePacket, Writing, Doing
    <3>2. packet.msg \in Messages /\ log[c] \in Seq(Messages)
      BY <1>1, <3>1, PacketOf DEF Typed
    <3>3. log'[c] = Append(log[c], packet.msg)
      BY <1>2, <3>1 DEF Typed
    <3>4. /\ Len(log[c]) + 1 \in DOMAIN log'[c]
          /\ log'[c][Len(log[c]) + 1] \in owed[c]
      BY <3>1, <3>2, <3>3, AppendProperties, LenProperties
    <3>5. ~ None(log'[c], owed[c])
      BY <3>4 DEF None
    <3> QED
      BY <1>2, <3>5 DEF Underway
  <2>3. CASE Head(work[c]) \notin A
    <3>1. ~ None(work[c], A) => ~ None(<<>> \o Tail(work[c]), A)
      BY <1>1, <1>7, <2>3, GoesOnWith, EmptySeq
    <3> QED
      BY <1>2, <1>4, <1>5, <2>1, <3>1 DEF Underway
  <2> QED
    BY <2>2, <2>3
<1> QED
  BY <1>6, <1>7

\* What another connection retains is owed from now on.
LEMMA RetainOwed ==
  ASSUME Typed, OwedInv, NEW h \in Handlers, Retain(h)
  PROVE  OwedInv'
<1> DEFINE n == Home(h)
           kept == Kept(h, Head(work[h]).msg)
<1>1. /\ n \in Nodes /\ work[h] # <<>> /\ work[h] \in Seq(StepsOf(h))
      /\ Head(work[h]).do = "retain"
  BY HeadOfWork, Homes DEF Retain, Typed
<1>2. /\ retained' = [retained EXCEPT ![n] = kept]
      /\ owed' = [c \in Conns |->
           IF NodeOf[c] # n \/ owed[c] = {} THEN owed[c]
           ELSE IF kept = NoMessage THEN {} ELSE owed[c] \cup {kept}]
      /\ work' = [work EXCEPT ![h] = <<>> \o Tail(@)]
      /\ log' = log /\ status' = status
  BY DEF Retain, Then
<1> HIDE DEF n, kept
<1>3. ASSUME NEW c \in Conns PROVE OwedTo(c)'
  <2>1. OwedTo(c) /\ NodeOf[c] \in Nodes
    BY ConnAssumption DEF OwedInv
  <2>2. NoMessage \notin owed'[c]
    BY <1>2, <2>1 DEF OwedTo
  <2>3. owed'[c] # {} => retained'[NodeOf[c]] \in owed'[c]
    BY <1>1, <1>2, <2>1 DEF OwedTo, Typed
  <2>4. ASSUME owed'[c] # {}, status'[c] = "up" PROVE Underway(c)'
    <3>1. owed[c] # {} /\ owed[c] \subseteq owed'[c]
      BY <1>2, <2>4
    <3>2. Underway(c)
      BY <1>2, <2>1, <2>4, <3>1 DEF OwedTo
    <3>3. ~ None(work[c], Announces(c, owed[c])) => ~ None(work'[c], Announces(c, owed[c]))
      <4>1. CASE c = h
        <5>1. Head(work[c]) \notin Announces(c, owed[c])
          BY <1>1, <4>1 DEF Announces
        <5>2. work'[c] = <<>> \o Tail(work[c])
          BY <1>2, <4>1 DEF Typed, Handlers
        <5> QED
          BY <1>1, <4>1, <5>1, <5>2, GoesOnWith, EmptySeq
      <4>2. CASE c # h
        BY <1>2, <4>2 DEF Typed, Handlers
      <4> QED
        BY <4>1, <4>2
    <3>4. Announces(c, owed[c]) \subseteq Announces(c, owed'[c])
      BY <3>1 DEF Announces
    <3> QED
      BY <1>2, <3>1, <3>2, <3>3, <3>4, MoreAnnounced DEF Underway
  <2> QED
    BY <2>2, <2>3, <2>4 DEF OwedTo
<1> QED
  BY <1>2, <1>3 DEF OwedInv

\* The other steps: SUBSCRIBE is followed by the search, and this by PUBLISH.
LEMMA StepsOwed ==
  ASSUME Typed, OwedInv, NEW h \in Handlers,
         \/ PickRecipient(h) \/ WriteLost(h) \/ Match(h) \/ MatchLinks(h)
         \/ Subscribe(h) \/ Search(h) \/ Unsubscribe(h) \/ SyncTopic(h)
  PROVE  OwedInv'
<1> DEFINE A == Announces(h, owed[h])
           T == Seq(StepsOf(h))
<1>1. work[h] # <<>> /\ Head(work[h]) \in StepsOf(h)
  BY HeadOfWork DEF WriteLost, Writing, PickRecipient, Match, MatchLinks,
                    Subscribe, Search, Unsubscribe, SyncTopic
<1>2. UNCHANGED <<status, log, owed, retained>>
  BY DEF WriteLost, PickRecipient, Match, MatchLinks, Subscribe, Search, Unsubscribe, SyncTopic,
         history, shared
<1>3. CASE PickRecipient(h) \/ Match(h) \/ MatchLinks(h) \/ SyncTopic(h)
  <2>1. PICK steps \in T : Then(h, steps)
    BY <1>3, HandlersPass DEF GoesOn, Passes
  <2>2. Head(work[h]) \notin A
    BY <1>3 DEF PickRecipient, Match, MatchLinks, SyncTopic, Doing, Announces
  <2> QED
    BY <1>1, <1>2, <2>1, <2>2, WentOnOwed
<1>4. CASE WriteLost(h) \/ Unsubscribe(h)
  <2>1. Then(h, <<>>) /\ <<>> \in T
    BY <1>4, EmptySeq DEF WriteLost, Unsubscribe
  <2>2. h \in Conns /\ status[h] = "up" => Head(work[h]) \notin A
    BY <1>4 DEF WriteLost, Unsubscribe, Writing, Doing, Announces
  <2> QED
    BY <1>1, <1>2, <2>1, <2>2, WentOnOwed
<1>5. CASE Subscribe(h)
  <2>1. [do |-> "search"] \in StepsOf(h) /\ [do |-> "search"] \in A
    BY DEF StepsOf, Announces
  <2>2. <<[do |-> "search"]>> \in T /\ ~ None(<<[do |-> "search"]>>, A)
    BY <2>1, SingleTyped, OneOfSingle
  <2>3. Then(h, <<[do |-> "search"]>>)
    BY <1>5 DEF Subscribe
  <2> QED
    BY <1>1, <1>2, <2>2, <2>3, WentOnOwed
<1>6. CASE Search(h)
  <2> DEFINE found == retained[Home(h)]
             steps == IF found = NoMessage THEN <<>> ELSE Write(Answered(h), Publish(found))
  <2>1. Then(h, steps)
    BY <1>6 DEF Search
  <2>2. found # NoMessage => found \in Messages /\ Publish(found) \in Packets
    <3>1. found # NoMessage => found \in Messages
      BY Homes DEF Typed, RetainedMessages
    <3> QED
      BY <3>1 DEF Publish, Packets
  <2>3. steps \in T
    BY <2>2, Homes, WrittenTyped, EmptySeq
  <2>4. h \in Conns /\ owed[h] # {} => ~ None(steps, A)
    <3> SUFFICES ASSUME h \in Conns, owed[h] # {} PROVE ~ None(steps, A)
      OBVIOUS
    <3>1. found \in owed[h] /\ found # NoMessage /\ Answered(h) = h /\ h \in Reached(h)
      BY Homes DEF OwedInv, OwedTo, Answered
    <3> DEFINE x == [do |-> "write", to |-> h, packet |-> Publish(found)]
    <3>2. x \in StepsOf(h)
      BY <2>2, <3>1 DEF StepsOf
    <3>3. x \in A
      BY <3>1, <3>2 DEF Announces, Publish
    <3>4. steps = <<x>>
      BY <3>1 DEF Write
    <3> HIDE DEF x, steps, A
    <3> QED
      BY <3>3, <3>4, OneOfSingle
  <2> HIDE DEF steps
  <2> QED
    BY <1>1, <1>2, <2>1, <2>3, <2>4, WentOnOwed
<1> QED
  BY <1>3, <1>4, <1>5, <1>6

LEMMA NextOwed ==
  ASSUME Typed, OwedInv, [Next]_vars
  PROVE  OwedInv'
<1>1. CASE UNCHANGED vars
  BY <1>1, ElsewhereOwed DEF vars, shared, history
<1>2. ASSUME NEW c \in Conns, ClientReads(c) \/ ClientGoes(c) PROVE OwedInv'
  BY <1>2, ReadOwed, GoesOwed DEF Handlers
<1>3. ASSUME NEW h \in Conns, ReadRequest(h) \/ ReadError(h) PROVE OwedInv'
  BY <1>3, ReadRequestOwed, ReadOwed DEF Handlers
<1>4. ASSUME NEW h \in Ends, ReadLink(h) PROVE OwedInv'
  BY <1>4, ReadOwed DEF Handlers
<1>5. ASSUME NEW h \in Handlers, Handle(h) PROVE OwedInv'
  BY <1>5, ReadOwed, WriteOwed, RetainOwed, StepsOwed DEF Handle
<1> QED
  BY <1>1, <1>2, <1>3, <1>4, <1>5 DEF Next, Runs

(***************************************************************************)
(* ProcessSubscribe (broker/processor.go:181-186): a client that           *)
(* subscribed has the message that was retained, or one that replaced it   *)
(* meanwhile, when the handler is done: however many connections publish   *)
(* and replace it between its steps.                                       *)
(***************************************************************************)
THEOREM RetainedComes == Spec => []RetainedIsSent
<1>1. OwedInv => RetainedIsSent
  <2> SUFFICES ASSUME OwedInv, NEW c \in Conns, work[c] = <<>>, status[c] = "up", owed[c] # {}
               PROVE  owed[c] \cap ToSet(log[c]) # {}
    BY DEF RetainedIsSent
  <2>1. ~ None(log[c], owed[c])
    BY NothingEmpty DEF OwedInv, OwedTo, Underway
  <2> QED
    BY <2>1 DEF None, ToSet
<1>2. Typed /\ OwedInv /\ [Next]_vars => OwedInv'
  BY NextOwed
<1> QED
  BY <1>1, <1>2, InitOwed, AlwaysTyped, PTL DEF Spec

-----------------------------------------------------------------------------
(* What is due                                                             *)

\* Clients and nodes have identifiers of their own.
OwnIds == \A h, k \in Handlers : Id(h) = Id(k) => h = k

\* No client of linked nodes unsubscribes.
KeepFilters ==
  \A program \in Programs : program.linked =>
    \A c \in Conns : \A i \in DOMAIN program.requests[c] :
      program.requests[c][i].kind # "unsubscribe"

\* Steps by which somebody is unsubscribed, here or at another node, and the
\* step with which a handler may end.
Ending(h) ==
  {s \in StepsOf(h) :
     \/ s.do \in {"write or return", "unsubscribe"}
     \/ s.do \in {"write", "send"} /\ s.packet.kind = "unsubscribe"}

Telling(h) ==
  {s \in Ending(h) :
     \/ s.do = "unsubscribe" /\ h \in Ends
     \/ s.do \in {"write", "write or return", "send"} /\ s.packet.kind = "unsubscribe"}

\* Links tell of new filters only.
NoneTold ==
  /\ \A x \in Conns : \A i \in DOMAIN requests[x] :
       /\ requests[x][i].kind = "publish" => requests[x][i].msg.by = x
       /\ linked # {} => requests[x][i].kind # "unsubscribe"
  /\ \A h \in Handlers : None(work[h], Telling(h))
  /\ \A e \in Ends : None(buffer[e], {packet \in Packets : packet.kind = "unsubscribe"})

\* A handler that may still return has done nothing yet.
Untouched(h) ==
  \/ None(work[h], {s \in StepsOf(h) : s.do = "write or return"})
  \/ /\ \E packet \in Packets : packet.kind = "publish" /\ work[h] = Steps(h, packet)
     /\ None(Tail(work[h]), {s \in StepsOf(h) : s.do = "write or return"})

\* A client that is to get a message of x is up and stays subscribed.
Served(x, c) ==
  /\ status[c] = "up"
  /\ None(work[c], {s \in StepsOf(c) : s.do = "unsubscribe"})
  /\ \E f \in Filters :
       /\ <<f, c>> \in subs[NodeOf[c]]
       /\ NodeOf[c] = NodeOf[x] \/ <<f, NodeOf[c]>> \in remote[NodeOf[x]]

\* It has it, or the message is on its way.
Coming(msg, c) ==
  \E p \in Path(msg.by, c) \ {<<"requests", msg.by>>} : Holds(p, msg, c)

DueInv ==
  /\ NoneTold
  /\ \A h \in Handlers : Untouched(h)
  /\ due \subseteq Messages \X Conns
  /\ \A msg \in Messages, c \in Conns :
       <<msg, c>> \in due => Served(msg.by, c) /\ Coming(msg, c)

\* How a handler goes on.
GoesRight(h, steps) ==
  /\ steps \in Seq(StepsOf(h)) /\ Then(h, steps)
  /\ None(steps, Ending(h))
  /\ \A msg \in Messages, c \in Conns :
       /\ Head(work[h]) \in StepsWith(h, msg, c)
       /\ Served(msg.by, c) /\ <<"work", h>> \in Path(msg.by, c)
       => ~ None(steps, StepsWith(h, msg, c))

LEMMA PickRight ==
  ASSUME Typed, OwnIds, NEW h \in Handlers, PickRecipient(h), Head(work[h]) \notin Telling(h)
  PROVE  \E steps : GoesRight(h, steps)
<1> DEFINE send == Head(work[h])
<1>1. send \in StepsOf(h) /\ send.do = "send"
  BY HeadOfWork DEF PickRecipient
<1>2. /\ send.to \subseteq (Filters \cup {"link"}) \X Reached(h)
      /\ send.told \subseteq Ids /\ send.packet \in Packets
      /\ send.packet.kind # "unsubscribe"
  BY <1>1, StepOf DEF Telling, Ending
<1>3. PICK p \in send.to :
        Then(h, (IF Id(p[2]) \in send.told THEN <<>> ELSE Write(p[2], send.packet))
                \o SendRest(send.to \ {p}, send.told \cup {Id(p[2])}, send.packet))
  BY DEF PickRecipient
<1>4. p[2] \in Reached(h) /\ p[2] \in Handlers /\ Id(p[2]) \in Ids
  BY <1>2, Homes, Identifiers
<1> DEFINE w == [do |-> "write", to |-> p[2], packet |-> send.packet]
           x == [do |-> "send", to |-> send.to \ {p}, told |-> send.told \cup {Id(p[2])},
                 packet |-> send.packet]
           first == IF Id(p[2]) \in send.told THEN <<>> ELSE Write(p[2], send.packet)
           rest == SendRest(send.to \ {p}, send.told \cup {Id(p[2])}, send.packet)
<1>5. w \in StepsOf(h) /\ x \in StepsOf(h) /\ w \notin Ending(h) /\ x \notin Ending(h)
  BY <1>2, <1>4 DEF StepsOf, Ending
<1>6. /\ first = IF Id(p[2]) \in send.told THEN <<>> ELSE <<w>>
      /\ rest = IF send.to \ {p} = {} THEN <<>> ELSE <<x>>
  BY DEF Write, SendRest
<1>7. ASSUME NEW msg \in Messages, NEW c \in Conns, send \in StepsWith(h, msg, c)
      PROVE  ~ None(first, StepsWith(h, msg, c)) \/ ~ None(rest, StepsWith(h, msg, c))
  <2> DEFINE t == Target(h, c)
  <2>1. /\ send.packet \in PacketsWith(msg) /\ Id(t) \notin send.told
        /\ \E q \in send.to : q[2] = t
    BY <1>1, <1>7 DEF StepsWith
  <2>2. CASE p[2] = t
    <3>1. w \in StepsWith(h, msg, c)
      BY <1>5, <2>1, <2>2 DEF StepsWith
    <3> HIDE DEF w, first
    <3> QED
      BY <1>6, <2>1, <2>2, <3>1, OneOfSingle
  <2>3. CASE p[2] # t
    <3>1. t \in Handlers
      BY Targets DEF Handlers
    <3>2. Id(p[2]) # Id(t)
      BY <1>4, <2>3, <3>1 DEF OwnIds
    <3>3. \E q \in send.to \ {p} : q[2] = t
      BY <2>1, <2>3
    <3>4. x \in StepsWith(h, msg, c)
      BY <1>5, <2>1, <3>2, <3>3 DEF StepsWith
    <3> HIDE DEF x, rest
    <3> QED
      BY <1>6, <3>3, <3>4, OneOfSingle
  <2> QED
    BY <2>2, <2>3
<1>8. Then(h, first \o rest)
  BY <1>3
<1> HIDE DEF w, x
<1>9. /\ first \in Seq(StepsOf(h)) /\ None(first, Ending(h))
      /\ rest \in Seq(StepsOf(h)) /\ None(rest, Ending(h))
  <2>1. /\ <<w>> \in Seq(StepsOf(h)) /\ None(<<w>>, Ending(h))
        /\ <<x>> \in Seq(StepsOf(h)) /\ None(<<x>>, Ending(h))
    BY <1>5, SingleTyped, OneOfSingle
  <2>2. <<>> \in Seq(StepsOf(h)) /\ None(<<>>, Ending(h))
    BY EmptySeq, NothingEmpty
  <2> HIDE DEF first, rest
  <2> QED
    BY <1>6, <2>1, <2>2
<1> HIDE DEF first, rest
<1>10. /\ first \o rest \in Seq(StepsOf(h)) /\ None(first \o rest, Ending(h))
       /\ \A S : ~ None(first, S) \/ ~ None(rest, S) => ~ None(first \o rest, S)
  BY <1>9, ConcatProperties, JoinedNone
<1>11. GoesRight(h, first \o rest)
  BY <1>7, <1>8, <1>10 DEF GoesRight
<1> QED
  BY <1>11

LEMMA MatchRight ==
  ASSUME Typed, NEW h \in Handlers, Match(h)
  PROVE  \E steps : GoesRight(h, steps)
<1> DEFINE m == Head(work[h]).msg
           new == Send(subs[Home(h)], Publish(m))
           x == [do |-> "send", to |-> subs[Home(h)], told |-> {}, packet |-> Publish(m)]
<1>1. /\ Head(work[h]) \in StepsOf(h) /\ Head(work[h]).do = "match"
      /\ m \in Messages /\ Then(h, new)
  BY HeadOfWork, StepOf DEF Match
<1>2. Publish(m) \in Packets /\ Publish(m).kind = "publish" /\ Publish(m).msg = m
  BY <1>1 DEF Publish, Packets
<1>3. subs[Home(h)] \in SUBSET ((Filters \cup {"link"}) \X Reached(h))
  BY Homes DEF Typed, Reached
<1>4. x \in StepsOf(h) /\ x \notin Ending(h)
  BY <1>2, <1>3 DEF StepsOf, Ending
<1>5. ASSUME NEW msg \in Messages, NEW c \in Conns, Head(work[h]) \in StepsWith(h, msg, c),
             Served(msg.by, c)
      PROVE  x \in StepsWith(h, msg, c) /\ subs[Home(h)] # {}
  <2>1. m = msg /\ Home(h) = NodeOf[c]
    BY <1>1, <1>5 DEF StepsWith
  <2>2. PICK f \in Filters : <<f, c>> \in subs[Home(h)]
    BY <1>5, <2>1 DEF Served
  <2>3. \E p \in subs[Home(h)] : p[2] = Target(h, c)
    BY <2>1, <2>2, Targets
  <2>4. Publish(m) \in PacketsWith(msg)
    BY <1>2, <2>1 DEF PacketsWith
  <2> QED
    BY <1>4, <2>2, <2>3, <2>4 DEF StepsWith
<1>6. new = IF subs[Home(h)] = {} THEN <<>> ELSE <<x>>
  BY DEF Send, SendRest
<1> HIDE DEF x, new
<1>7. new \in Seq(StepsOf(h)) /\ None(new, Ending(h))
  BY <1>4, <1>6, SingleTyped, OneOfSingle, NothingEmpty
<1>8. GoesRight(h, new)
  BY <1>1, <1>5, <1>6, <1>7, OneOfSingle DEF GoesRight
<1> QED
  BY <1>8

LEMMA MatchLinksRight ==
  ASSUME Typed, NEW h \in Handlers, MatchLinks(h)
  PROVE  \E steps : GoesRight(h, steps)
<1> DEFINE m == Head(work[h]).msg
           pairs == {<<r[1], <<r[2], Home(h)>>>> : r \in remote[Home(h)]}
           new == Send(pairs, Publish(m))
           x == [do |-> "send", to |-> pairs, told |-> {}, packet |-> Publish(m)]
<1>1. /\ Head(work[h]) \in StepsOf(h) /\ Head(work[h]).do = "match links"
      /\ m \in Messages /\ Then(h, new)
  BY HeadOfWork, StepOf DEF MatchLinks
<1>2. Publish(m) \in Packets /\ Publish(m).kind = "publish" /\ Publish(m).msg = m
  BY <1>1 DEF Publish, Packets
<1>3. \A r \in remote[Home(h)] : r[1] \in Filters /\ <<r[2], Home(h)>> \in Reached(h)
  BY Homes DEF Typed, Ends, Reached
<1>4. x \in StepsOf(h) /\ x \notin Ending(h)
  <2>1. pairs \in SUBSET ((Filters \cup {"link"}) \X Reached(h))
    BY <1>3
  <2> QED
    BY <1>2, <2>1 DEF StepsOf, Ending
<1>5. ASSUME NEW msg \in Messages, NEW c \in Conns, Head(work[h]) \in StepsWith(h, msg, c),
             Served(msg.by, c), <<"work", h>> \in Path(msg.by, c)
      PROVE  x \in StepsWith(h, msg, c) /\ pairs # {}
  <2>1. m = msg /\ Home(h) # NodeOf[c]
    BY <1>1, <1>5 DEF StepsWith
  <2>2. h = msg.by /\ Home(h) = NodeOf[msg.by]
    <3>1. msg.by \in Conns
      BY MessageAssumption
    <3> QED
      BY <1>5, <2>1, <3>1, Homes, OnPath
  <2>3. PICK f \in Filters : <<f, NodeOf[c]>> \in remote[Home(h)]
    BY <1>5, <2>1, <2>2 DEF Served
  <2>4. <<f, <<NodeOf[c], Home(h)>>>> \in pairs
    BY <2>3
  <2>5. \E p \in pairs : p[2] = Target(h, c)
    BY <2>1, <2>4, Targets
  <2>6. Publish(m) \in PacketsWith(msg)
    BY <1>2, <2>1 DEF PacketsWith
  <2> QED
    BY <1>4, <2>4, <2>5, <2>6 DEF StepsWith
<1>6. new = IF pairs = {} THEN <<>> ELSE <<x>>
  BY DEF Send, SendRest
<1> HIDE DEF x, new, pairs
<1>7. new \in Seq(StepsOf(h)) /\ None(new, Ending(h))
  BY <1>4, <1>6, SingleTyped, OneOfSingle, NothingEmpty
<1>8. GoesRight(h, new)
  BY <1>1, <1>5, <1>6, <1>7, OneOfSingle DEF GoesRight
<1> QED
  BY <1>8

LEMMA OthersRight ==
  ASSUME Typed, NEW h \in Handlers,
         WriteLost(h) \/ Retain(h) \/ Subscribe(h) \/ Search(h) \/ Unsubscribe(h) \/ SyncTopic(h)
  PROVE  \E steps : GoesRight(h, steps)
<1> DEFINE T == Seq(StepsOf(h))
<1>1. SUFFICES \E steps \in T : Then(h, steps) /\ None(steps, Ending(h))
  <2>1. ASSUME NEW msg \in Messages, NEW c \in Conns,
               Head(work[h]) \in StepsWith(h, msg, c), Served(msg.by, c)
        PROVE  FALSE
    <3>1. CASE WriteLost(h)
      <4>1. /\ Head(work[h]).to = Target(h, c) /\ Head(work[h]).to \in Conns
            /\ status[Head(work[h]).to] # "up"
        BY <2>1, <3>1 DEF WriteLost, Writing, Doing, StepsWith
      <4>2. Target(h, c) = c
        BY <4>1, Targets, ConnAssumption
      <4> QED
        BY <2>1, <4>1, <4>2 DEF Served
    <3>2. CASE Retain(h) \/ Subscribe(h) \/ Search(h) \/ Unsubscribe(h) \/ SyncTopic(h)
      BY <2>1, <3>2 DEF Retain, Subscribe, Search, Unsubscribe, SyncTopic, Doing, StepsWith
    <3> QED
      BY <3>1, <3>2
  <2> QED
    BY <2>1 DEF GoesRight
<1>2. CASE WriteLost(h) \/ Retain(h) \/ Unsubscribe(h)
  <2>1. Then(h, <<>>) /\ <<>> \in T
    BY <1>2, EmptySeq DEF WriteLost, Retain, Unsubscribe
  <2> QED
    BY <2>1, NothingEmpty
<1>3. CASE Subscribe(h)
  <2> DEFINE x == [do |-> "search"]
  <2>1. x \in StepsOf(h) /\ x \notin Ending(h)
    BY DEF StepsOf, Ending
  <2>2. Then(h, <<x>>)
    BY <1>3 DEF Subscribe
  <2> HIDE DEF x
  <2>3. <<x>> \in T /\ None(<<x>>, Ending(h))
    BY <2>1, SingleTyped, OneOfSingle
  <2> QED
    BY <2>2, <2>3
<1>4. CASE Search(h)
  <2> DEFINE found == retained[Home(h)]
             x == [do |-> "write", to |-> Answered(h), packet |-> Publish(found)]
             new == IF found = NoMessage THEN <<>> ELSE <<x>>
  <2>1. Then(h, new)
    BY <1>4 DEF Search, Write
  <2>2. found # NoMessage => Publish(found) \in Packets
    <3>1. found # NoMessage => found \in Messages
      BY Homes DEF Typed, RetainedMessages
    <3> QED
      BY <3>1 DEF Publish, Packets
  <2>3. found # NoMessage => x \in StepsOf(h) /\ x \notin Ending(h)
    BY <2>2, Homes DEF StepsOf, Ending, Publish
  <2>4. <<>> \in T /\ None(<<>>, Ending(h))
    BY EmptySeq, NothingEmpty
  <2> HIDE DEF x
  <2>5. found # NoMessage => <<x>> \in T /\ None(<<x>>, Ending(h))
    BY <2>3, SingleTyped, OneOfSingle
  <2>6. new \in T /\ None(new, Ending(h))
    BY <2>4, <2>5
  <2> QED
    BY <2>1, <2>6
<1>5. CASE SyncTopic(h)
  <2> DEFINE left == Head(work[h]).left
  <2>1. h \in Ends /\ left \subseteq Filters
    BY <1>5, HeadOfWork, StepOf DEF SyncTopic
  <2>2. PICK f \in left :
          Then(h, (IF \E p \in subs[Home(h)] : p[1] = f
                   THEN Write(Peer(h), [kind |-> "subscribe", filters |-> <<f>>]) ELSE <<>>)
                  \o (IF left \ {f} = {} THEN <<>>
                      ELSE <<[do |-> "sync", left |-> left \ {f}]>>))
    BY <1>5 DEF SyncTopic
  <2> DEFINE packet == [kind |-> "subscribe", filters |-> <<f>>]
             w == [do |-> "write", to |-> Peer(h), packet |-> packet]
             x == [do |-> "sync", left |-> left \ {f}]
             first == IF \E p \in subs[Home(h)] : p[1] = f THEN <<w>> ELSE <<>>
             rest == IF left \ {f} = {} THEN <<>> ELSE <<x>>
  <2>3. packet \in Packets /\ packet.kind # "unsubscribe"
    BY <2>1, SingleTyped DEF Packets
  <2>4. Peer(h) \in Reached(h)
    BY <2>1, Homes DEF Reached
  <2>5. w \in StepsOf(h) /\ w \notin Ending(h)
    BY <2>3, <2>4 DEF StepsOf, Ending
  <2>6. x \in StepsOf(h) /\ x \notin Ending(h)
    BY <2>1 DEF StepsOf, Ending
  <2>7. Then(h, first \o rest)
    BY <2>2 DEF Write
  <2>8. <<>> \in T /\ None(<<>>, Ending(h))
    BY EmptySeq, NothingEmpty
  <2> HIDE DEF packet, w, x
  <2>9. /\ <<w>> \in T /\ None(<<w>>, Ending(h))
        /\ <<x>> \in T /\ None(<<x>>, Ending(h))
    BY <2>5, <2>6, SingleTyped, OneOfSingle
  <2>10. /\ first \in T /\ None(first, Ending(h))
         /\ rest \in T /\ None(rest, Ending(h))
    BY <2>8, <2>9
  <2> HIDE DEF first, rest
  <2>11. first \o rest \in T /\ None(first \o rest, Ending(h))
    BY <2>10, ConcatProperties, JoinedNone
  <2> QED
    BY <2>7, <2>11
<1> QED
  BY <1>2, <1>3, <1>4, <1>5

LEMMA HandlersGoRight ==
  ASSUME Typed, OwnIds, NoneTold, NEW h \in Handlers, GoesOn(h)
  PROVE  \E steps : GoesRight(h, steps)
<1>1. work[h] # <<>>
  BY HandlersPass
<1>2. Head(work[h]) \notin Telling(h)
  BY <1>1, NoneOfTail DEF NoneTold, Typed
<1> QED
  BY <1>2, PickRight, MatchRight, MatchLinksRight, OthersRight DEF GoesOn

-----------------------------------------------------------------------------
(* What a packet makes a handler do                                        *)

MatchOf(packet) == [do |-> "match", msg |-> packet.msg]
MatchLinksOf(packet) == [do |-> "match links", msg |-> packet.msg]
RetainOf(packet) == [do |-> "retain", msg |-> packet.msg]

\* The parts of what it does.
LEMMA MatchParts ==
  ASSUME NEW h \in Handlers, NEW packet \in Packets, packet.kind = "publish", NEW S
  PROVE  /\ PublishSteps(h, packet.msg) \in Seq(StepsOf(h))
         /\ /\ MatchOf(packet) \notin S /\ MatchLinksOf(packet) \notin S
            /\ RetainOf(packet) \notin S
            => None(PublishSteps(h, packet.msg), S)
         /\ MatchOf(packet) \in S \/ (h \in Conns /\ MatchLinksOf(packet) \in S) =>
              ~ None(PublishSteps(h, packet.msg), S)
<1> DEFINE T == Seq(StepsOf(h))
           match == <<MatchOf(packet)>>
           links == IF h \in Conns THEN <<MatchLinksOf(packet)>> ELSE <<>>
           retain == IF packet.msg.retain THEN <<RetainOf(packet)>> ELSE <<>>
<1>1. packet.msg \in Messages
  BY PacketOf
<1>2. /\ MatchOf(packet) \in StepsOf(h) /\ MatchLinksOf(packet) \in StepsOf(h)
      /\ packet.msg.retain => RetainOf(packet) \in StepsOf(h)
  BY <1>1 DEF StepsOf, RetainedMessages, MatchOf, MatchLinksOf, RetainOf
<1>3. match \in T /\ links \in T
  BY <1>2, SingleTyped
<1>4. retain \in T
  BY <1>2, SingleTyped, EmptySeq
<1>5. PublishSteps(h, packet.msg) = match \o links \o retain
  BY DEF PublishSteps, MatchOf, MatchLinksOf, RetainOf
<1>6. None(match, S) <=> MatchOf(packet) \notin S
  BY OneOfSingle
<1>7. /\ MatchLinksOf(packet) \notin S => None(links, S)
      /\ h \in Conns /\ MatchLinksOf(packet) \in S => ~ None(links, S)
  BY OneOfSingle, NothingEmpty
<1>8. RetainOf(packet) \notin S => None(retain, S)
  BY OneOfSingle, NothingEmpty
<1> HIDE DEF match, links, retain
<1>9. match \o links \in T /\ (None(match \o links, S) <=> None(match, S) /\ None(links, S))
  BY <1>3, ConcatProperties, JoinedNone
<1> DEFINE both == match \o links
<1> HIDE DEF both
<1>10. /\ both \o retain \in T
       /\ None(both \o retain, S) <=> None(both, S) /\ None(retain, S)
  BY <1>4, <1>9, ConcatProperties, JoinedNone DEF both
<1> QED
  BY <1>5, <1>6, <1>7, <1>8, <1>9, <1>10 DEF both

LEMMA PublishParts ==
  ASSUME NEW h \in Handlers, NEW packet \in Packets, packet.kind = "publish", NEW S
  PROVE  /\ /\ h \in Conns => None(WriteOrReturn(h, Ack), S)
            /\ MatchOf(packet) \notin S /\ MatchLinksOf(packet) \notin S
            /\ RetainOf(packet) \notin S
            => None(Steps(h, packet), S)
         /\ MatchOf(packet) \in S \/ (h \in Conns /\ MatchLinksOf(packet) \in S) =>
              ~ None(Steps(h, packet), S)
<1> DEFINE T == Seq(StepsOf(h))
           ack == IF h \in Conns /\ packet.qos = 1 THEN WriteOrReturn(h, Ack) ELSE <<>>
           rest == PublishSteps(h, packet.msg)
<1>1. ack \in T
  <2>1. Ack \in Packets /\ (h \in Conns => h \in Reached(h))
    BY DEF Ack, Packets, Reached, Home
  <2> QED
    BY <2>1, WrittenTyped, EmptySeq
<1>2. Steps(h, packet) = ack \o rest
  BY DEF Steps
<1>3. (h \in Conns => None(WriteOrReturn(h, Ack), S)) => None(ack, S)
  BY NothingEmpty
<1> HIDE DEF ack
<1>4. None(ack \o rest, S) <=> None(ack, S) /\ None(rest, S)
  BY <1>1, MatchParts, JoinedNone
<1> QED
  BY <1>2, <1>3, <1>4, MatchParts

\* Only at its beginning the handler of PUBLISH may return.
LEMMA PublishBegins ==
  ASSUME NEW h \in Handlers, NEW packet \in Packets, packet.kind = "publish"
  PROVE  \/ None(Steps(h, packet), {s \in StepsOf(h) : s.do = "write or return"})
         \/ None(Tail(Steps(h, packet)), {s \in StepsOf(h) : s.do = "write or return"})
<1> DEFINE R == {s \in StepsOf(h) : s.do = "write or return"}
           T == Seq(StepsOf(h))
           rest == PublishSteps(h, packet.msg)
<1>1. rest \in T /\ None(rest, R)
  BY MatchParts DEF MatchOf, MatchLinksOf, RetainOf
<1>2. CASE h \in Conns /\ packet.qos = 1
  <2> DEFINE x == [do |-> "write or return", to |-> h, packet |-> Ack]
  <2>1. x \in StepsOf(h)
    BY <1>2 DEF Ack, Packets, Reached, Home, StepsOf
  <2>2. Steps(h, packet) = <<x>> \o rest
    BY <1>2 DEF Steps, WriteOrReturn
  <2>3. x \in R
    BY <2>1
  <2> HIDE DEF x, rest, R
  <2>4. <<x>> \in T /\ One(<<x>>, R) /\ One(rest, R)
    BY <1>1, <2>1, SingleTyped, OneOfSingle, NoneIsOne
  <2>5. One(<<x>> \o rest, R)
    BY <1>1, <2>4, JoinedOne
  <2>6. /\ <<x>> \o rest \in T /\ <<x>> \o rest # <<>>
        /\ Head(<<x>> \o rest) = x
    BY <1>1, <2>4
  <2>7. None(Tail(<<x>> \o rest), R)
    BY <2>3, <2>5, <2>6, TakenFromHead
  <2> QED
    BY <2>2, <2>7 DEF R
<1>3. CASE ~ (h \in Conns /\ packet.qos = 1)
  <2>1. Steps(h, packet) = <<>> \o rest
    BY <1>3 DEF Steps
  <2> HIDE DEF rest
  <2>2. <<>> \o rest = rest
    BY <1>1, ConcatEmptySeq
  <2> QED
    BY <1>1, <2>1, <2>2
<1> QED
  BY <1>2, <1>3

LEMMA SubscribeParts ==
  ASSUME linked \subseteq Ends, NEW h \in Handlers, NEW packet \in Packets,
         packet.kind \in {"subscribe", "unsubscribe"}, NEW S,
         None(Write(Answered(h), Ack), S), None(Each(packet.kind, packet.filters), S),
         None(Forwards(h, packet), S)
  PROVE  None(Steps(h, packet), S)
<1> DEFINE T == Seq(StepsOf(h))
           ack == Write(Answered(h), Ack)
           each == Each(packet.kind, packet.filters)
           forwards == Forwards(h, packet)
<1>1. ack \in T
  <2>1. Ack \in Packets /\ Answered(h) \in Reached(h)
    BY Homes DEF Ack, Packets
  <2> QED
    BY <2>1, WrittenTyped
<1>2. each \in T
  BY PacketOf, EachTyped
<1>3. forwards \in T
  BY LinksTyped
<1>4. Steps(h, packet) = ack \o each \o forwards
  BY DEF Steps
<1> HIDE DEF ack, each, forwards
<1>5. ack \o each \in T /\ None(ack \o each, S)
  BY <1>1, <1>2, JoinedNone, ConcatProperties DEF ack, each
<1> DEFINE first == ack \o each
<1> HIDE DEF first
<1>6. None(first \o forwards, S)
  BY <1>3, <1>5, JoinedNone DEF first, forwards
<1> QED
  BY <1>4, <1>6 DEF first

LEMMA AnswerParts ==
  ASSUME NEW h \in Handlers, NEW packet \in Packets, packet.kind \in {"ack", "ping"}, NEW S,
         None(Write(Answered(h), Ack), S)
  PROVE  None(Steps(h, packet), S)
<1>1. Steps(h, packet) \in {<<>>, Write(Answered(h), Ack)}
  BY DEF Steps
<1> QED
  BY <1>1, NothingEmpty

LEMMA AckEnds ==
  ASSUME NEW h
  PROVE  /\ None(Write(Answered(h), Ack), Ending(h))
         /\ None(WriteOrReturn(h, Ack), Telling(h))
         /\ None(WriteOrReturn(h, Ack), {s \in StepsOf(h) : s.do = "unsubscribe"})
  BY OneOfSingle DEF Write, WriteOrReturn, Ack, Ending, Telling

LEMMA FewerIsNone ==
  ASSUME NEW s, NEW S, NEW T, S \subseteq T, None(s, T)
  PROVE  None(s, S)
  BY DEF None

LEMMA EndingParts ==
  ASSUME NEW h
  PROVE  /\ Telling(h) \subseteq Ending(h)
         /\ {s \in StepsOf(h) : s.do = "unsubscribe"} \subseteq Ending(h)
         /\ {s \in StepsOf(h) : s.do = "write or return"} \subseteq Ending(h)
  BY DEF Telling, Ending

LEMMA StepsEnding ==
  ASSUME linked \subseteq Ends, NEW h \in Handlers, NEW packet \in Packets
  PROVE  /\ packet.kind # "unsubscribe" \/ (h \in Conns /\ linked = {}) =>
              None(Steps(h, packet), Telling(h))
         /\ packet.kind # "unsubscribe" =>
              None(Steps(h, packet), {s \in StepsOf(h) : s.do = "unsubscribe"})
         /\ packet.kind # "publish" =>
              None(Steps(h, packet), {s \in StepsOf(h) : s.do = "write or return"})
<1> DEFINE U == {s \in StepsOf(h) : s.do = "unsubscribe"}
           R == {s \in StepsOf(h) : s.do = "write or return"}
<1>1. /\ Telling(h) \subseteq Ending(h) /\ U \subseteq Ending(h) /\ R \subseteq Ending(h)
  BY EndingParts
<1>2. CASE packet.kind = "publish"
  <2>1. \A S \in {Telling(h), U} :
          MatchOf(packet) \notin S /\ MatchLinksOf(packet) \notin S /\ RetainOf(packet) \notin S
    BY DEF Telling, Ending, MatchOf, MatchLinksOf, RetainOf
  <2>2. \A S \in {Telling(h), U} : None(WriteOrReturn(h, Ack), S)
    BY AckEnds
  <2> HIDE DEF U
  <2>3. None(Steps(h, packet), Telling(h))
    BY <1>2, <2>1, <2>2, PublishParts
  <2>4. None(Steps(h, packet), U)
    BY <1>2, <2>1, <2>2, PublishParts
  <2> QED
    BY <1>2, <2>3, <2>4 DEF U
<1>3. CASE packet.kind = "subscribe"
  <2>1. None(Each("subscribe", packet.filters), Ending(h))
    BY DEF None, Each, Ending
  <2>2. None(Forwards(h, packet), Ending(h))
    BY <1>3, OneOfSingle, NothingEmpty DEF Forwards, ToLinks, Send, SendRest, Ending
  <2>3. None(Steps(h, packet), Ending(h))
    BY <1>3, <2>1, <2>2, AckEnds, SubscribeParts
  <2> QED
    BY <1>1, <1>3, <2>3, FewerIsNone
<1>4. CASE packet.kind = "unsubscribe"
  <2>1. None(Each("unsubscribe", packet.filters), R)
    BY DEF None, Each
  <2>2. None(Forwards(h, packet), R)
    BY OneOfSingle, NothingEmpty DEF Forwards, ToLinks, Send, SendRest
  <2>3. None(Write(Answered(h), Ack), R) /\ None(Write(Answered(h), Ack), Telling(h))
    BY <1>1, AckEnds, FewerIsNone
  <2>4. None(Steps(h, packet), R)
    BY <1>4, <2>1, <2>2, <2>3, SubscribeParts
  <2>5. ASSUME h \in Conns, linked = {} PROVE None(Steps(h, packet), Telling(h))
    <3>1. None(Each("unsubscribe", packet.filters), Telling(h))
      BY <2>5, ConnAssumption DEF None, Each, Telling
    <3>2. Forwards(h, packet) = <<>>
      BY <2>5 DEF Forwards, ToLinks, Send, SendRest
    <3> QED
      BY <1>4, <2>3, <3>1, <3>2, NothingEmpty, SubscribeParts
  <2> QED
    BY <1>4, <2>4, <2>5
<1>5. CASE packet.kind \in {"ack", "ping"}
  <2>1. None(Steps(h, packet), Ending(h))
    BY <1>5, AckEnds, AnswerParts
  <2> QED
    BY <1>1, <1>5, <2>1, FewerIsNone
<1> QED
  BY <1>2, <1>3, <1>4, <1>5, PacketOf

\* Whom the message reaches: those it can reach, and with no other packet.
LEMMA StepsCome ==
  ASSUME linked \subseteq Ends, NEW h \in Handlers, NEW packet \in Packets,
         NEW msg \in Messages, NEW c \in Conns
  PROVE  /\ packet \in PacketsWith(msg) /\ (h \in Conns \/ Home(h) = NodeOf[c]) =>
              ~ None(Steps(h, packet), StepsWith(h, msg, c))
         /\ ~ None(Steps(h, packet), StepsWith(h, msg, c)) =>
              packet \in PacketsWith(msg) /\ MatchOf(packet) \in ToSet(Steps(h, packet))
<1> DEFINE S == StepsWith(h, msg, c)
<1>1. Ack \notin PacketsWith(msg)
  BY DEF Ack, PacketsWith
<1>2. None(Write(Answered(h), Ack), S) /\ None(WriteOrReturn(h, Ack), S)
  BY <1>1, WriteNotWith
<1>3. CASE packet.kind = "publish"
  <2>1. packet.msg \in Messages /\ (packet \in PacketsWith(msg) <=> packet.msg = msg)
    BY <1>3, PacketOf DEF PacketsWith
  <2>2. /\ MatchOf(packet) \in S <=> packet.msg = msg /\ Home(h) = NodeOf[c]
        /\ MatchLinksOf(packet) \in S <=> packet.msg = msg /\ Home(h) # NodeOf[c]
        /\ RetainOf(packet) \notin S
    BY <2>1 DEF MatchOf, MatchLinksOf, RetainOf, StepsWith, StepsOf
  <2>3. MatchOf(packet) \in ToSet(Steps(h, packet))
    <3>1. ~ None(Steps(h, packet), {MatchOf(packet)})
      BY <1>3, PublishParts
    <3> QED
      BY <3>1 DEF None, ToSet
  <2> HIDE DEF S
  <2> QED
    BY <1>2, <1>3, <2>1, <2>2, <2>3, PublishParts DEF S
<1>4. CASE packet.kind \in {"subscribe", "unsubscribe"}
  <2>1. packet \notin PacketsWith(msg)
    BY <1>4 DEF PacketsWith
  <2>2. None(Each(packet.kind, packet.filters), S)
    BY <1>4, EachNotWith
  <2>3. None(Forwards(h, packet), S)
    BY <2>1, SendNotWith, NothingEmpty DEF Forwards, ToLinks
  <2> QED
    BY <1>2, <1>4, <2>1, <2>2, <2>3, SubscribeParts
<1>5. CASE packet.kind \in {"ack", "ping"}
  BY <1>2, <1>5, AnswerParts DEF PacketsWith
<1> QED
  BY <1>3, <1>4, <1>5, PacketOf

-----------------------------------------------------------------------------
(* What is on its way stays on its way                                     *)

LEMMA PathPlaces ==
  ASSUME NEW x \in Conns, NEW c \in Conns
  PROVE  Path(x, c) \subseteq Places(c)
  BY DEF Path, Places, Handlers

\* What is not at the head of the place that a step takes from stays there.
LEMMA StillThere ==
  ASSUME Typed, NEW c \in Conns, NEW a \in Places(c),
         Keeps(a, c) \/ \E b \in Places(c) : Hands(a, b, c),
         NEW msg \in Messages, NEW p \in Places(c), Holds(p, msg, c),
         p # a \/ Head(At(a)) \notin With(a, msg, c)
  PROVE  Holds(p, msg, c)'
<1> DEFINE S == With(p, msg, c)
<1>1. ASSUME At(p)' = At(p) PROVE ~ None(At(p)', S)
  BY <1>1 DEF Holds
<1>2. ASSUME NEW new \in Seq(Elements(p)), At(p)' = At(p) \o new PROVE ~ None(At(p)', S)
  BY <1>2, PlacesTyped, JoinedNone DEF Holds
<1>3. ASSUME p = a, At(p) # <<>>, NEW new \in Seq(Elements(p)), At(p)' = new \o Tail(At(p))
      PROVE  ~ None(At(p)', S)
  BY <1>3, PlacesTyped, GoesOnWith DEF Holds
<1>4. ASSUME p = a, At(p) # <<>>, At(p)' = Tail(At(p)) PROVE ~ None(At(p)', S)
  <2>1. /\ At(p) \in Seq(Elements(p)) /\ ~ None(At(p), S) /\ Head(At(p)) \notin S
        /\ <<>> \in Seq(Elements(p))
    BY <1>4, PlacesTyped, EmptySeq DEF Holds
  <2>2. ~ None(<<>> \o Tail(At(p)), S)
    BY <1>4, <2>1, GoesOnWith
  <2>3. <<>> \o Tail(At(p)) = Tail(At(p))
    BY <1>4, <2>1, HeadTailProperties, ConcatEmptySeq
  <2> QED
    BY <1>4, <2>2, <2>3
<1>5. CASE Keeps(a, c)
  BY <1>1, <1>3, <1>5 DEF Keeps, Holds
<1>6. CASE \E b \in Places(c) : Hands(a, b, c)
  <2>1. PICK b \in Places(c) : Hands(a, b, c)
    BY <1>6
  <2> QED
    BY <1>1, <1>2, <1>4, <2>1 DEF Hands, Holds
<1> QED
  BY <1>5, <1>6

LEMMA StillElsewhere ==
  ASSUME NEW c \in Conns, NEW a, \A p \in Places(c) \ {a} : At(p)' = At(p),
         NEW msg, NEW p \in Places(c) \ {a}, Holds(p, msg, c)
  PROVE  Holds(p, msg, c)'
  BY DEF Holds

\* A message is still coming if what carries it stays or hands it on.
LEMMA StillComing ==
  ASSUME NEW msg, NEW c, Coming(msg, c),
         \A p \in Path(msg.by, c) \ {<<"requests", msg.by>>} : Holds(p, msg, c) =>
           \E q \in Path(msg.by, c) \ {<<"requests", msg.by>>} : Holds(q, msg, c)'
  PROVE  Coming(msg, c)'
  BY DEF Coming

\* A packet is written where it carries the message further.
LEMMA WriteArrives ==
  ASSUME Typed, NEW h \in Handlers, NEW msg \in Messages, NEW c \in Conns, WritePacket(h),
         Head(work[h]) \in StepsWith(h, msg, c), <<"work", h>> \in Path(msg.by, c)
  PROVE  \E q \in Path(msg.by, c) \ {<<"requests", msg.by>>} : Holds(q, msg, c)'
<1>0. PICK to, packet : to = Head(work[h]).to /\ packet = Head(work[h]).packet
  OBVIOUS
<1>1. /\ Head(work[h]).do \in {"write", "write or return"}
      /\ packet \in PacketsWith(msg) /\ to = Target(h, c)
  BY <1>0, HeadOfWork DEF WritePacket, Writing, Doing, StepsWith
<1>2. /\ buffer' = [buffer EXCEPT ![to] = Append(@, packet)]
      /\ log' = IF to \in Conns /\ packet.kind = "publish"
                THEN [log EXCEPT ![to] = Append(@, packet.msg)] ELSE log
  BY <1>0 DEF WritePacket
<1>3. packet \in Packets /\ packet.kind = "publish" /\ packet.msg = msg
  BY <1>1 DEF PacketsWith
<1>4. CASE Home(h) = NodeOf[c]
  <2>1. to = c
    BY <1>1, <1>4, Targets
  <2>2. log'[c] = Append(log[c], msg) /\ log[c] \in Seq(Messages)
    BY <1>2, <1>3, <2>1 DEF Typed
  <2>3. ~ None(log'[c], {msg})
    <3>1. log'[c][Len(log[c]) + 1] = msg /\ Len(log[c]) + 1 \in DOMAIN log'[c]
      BY <2>2
    <3> QED
      BY <3>1 DEF None
  <2>4. Holds(<<"log", c>>, msg, c)'
    BY <2>3, LogPlace DEF Holds
  <2> QED
    BY <2>4 DEF Path
<1>5. CASE Home(h) # NodeOf[c]
  <2>1. to \in Ends /\ to = <<NodeOf[c], Home(h)>> /\ to \in Handlers
    BY <1>1, <1>5, Targets DEF Handlers
  <2>2. buffer'[to] = Append(buffer[to], packet) /\ buffer[to] \in Seq(Packets)
    BY <1>2, <2>1 DEF Typed
  <2>3. ~ None(buffer'[to], PacketsWith(msg))
    <3>1. buffer'[to][Len(buffer[to]) + 1] = packet /\ Len(buffer[to]) + 1 \in DOMAIN buffer'[to]
      BY <1>3, <2>2
    <3> QED
      BY <1>1, <3>1 DEF None
  <2>4. Holds(<<"buffer", to>>, msg, c)'
    BY <2>1, <2>3, BufferPlace DEF Holds
  <2>5. msg.by \in Conns
    BY MessageAssumption
  <2>6. <<"buffer", to>> \in Path(msg.by, c)
    BY <1>1, <1>5, <2>5, WriteAlong DEF Along
  <2> QED
    BY <2>4, <2>6
<1> QED
  BY <1>4, <1>5

-----------------------------------------------------------------------------
(* No link tells of a filter that is given up.                             *)

LEMMA TailOfRequests ==
  ASSUME NEW X, NEW s \in Seq(X), s # <<>>, NEW i \in DOMAIN Tail(s)
  PROVE  i + 1 \in DOMAIN s /\ Tail(s)[i] = s[i + 1]
  OBVIOUS

LEMMA InitTold == ASSUME Init, KeepFilters PROVE NoneTold
<1>1. PICK program \in Programs :
        /\ linked = IF program.linked THEN Ends ELSE {}
        /\ requests = program.requests
        /\ work = [h \in Handlers |->
             IF h \in linked THEN <<[do |-> "sync", left |-> Filters]>> ELSE <<>>]
        /\ buffer = [h \in Handlers |-> <<>>]
  BY DEF Init
<1>2. \A x \in Conns : \A i \in DOMAIN requests[x] :
        /\ requests[x][i].kind = "publish" => requests[x][i].msg.by = x
        /\ linked # {} => requests[x][i].kind # "unsubscribe"
  BY <1>1, ProgramAssumption DEF KeepFilters
<1>3. ASSUME NEW h \in Handlers PROVE None(work[h], Telling(h))
  BY <1>1, OneOfSingle, NothingEmpty DEF Telling, Ending
<1>4. \A e \in Ends : None(buffer[e], {packet \in Packets : packet.kind = "unsubscribe"})
  BY <1>1, NothingEmpty DEF Handlers
<1> QED
  BY <1>2, <1>3, <1>4 DEF NoneTold

\* A handler is to do other steps, and the packets that wait are fewer.
LEMMA WorkTold ==
  ASSUME Typed, NoneTold, NEW h \in Handlers, \A k \in Handlers \ {h} : work'[k] = work[k],
         None(work'[h], Telling(h)), UNCHANGED <<linked, requests>>,
         \A e \in Ends : buffer'[e] = buffer[e] \/ (buffer[e] # <<>> /\ buffer'[e] = Tail(buffer[e]))
  PROVE  NoneTold'
<1> DEFINE P == {packet \in Packets : packet.kind = "unsubscribe"}
<1>1. \A k \in Handlers : None(work'[k], Telling(k))
  BY DEF NoneTold
<1>2. ASSUME NEW e \in Ends PROVE None(buffer'[e], P)
  <2>1. None(buffer[e], P) /\ buffer[e] \in Seq(Packets)
    BY DEF NoneTold, Typed, Handlers
  <2> HIDE DEF P
  <2> QED
    BY <2>1, NoneOfTail
<1> QED
  BY <1>1, <1>2 DEF NoneTold

LEMMA ReadRequestTold ==
  ASSUME Typed, NoneTold, NEW x \in Conns, ReadRequest(x)
  PROVE  NoneTold'
<1> DEFINE packet == Head(requests[x])
<1>1. requests[x] \in Seq(Packets) /\ requests[x] # <<>> /\ packet = requests[x][1]
  BY DEF Typed, ReadRequest
<1>2. packet \in Packets /\ 1 \in DOMAIN requests[x]
  BY <1>1
<1>3. /\ work' = [work EXCEPT ![x] = Steps(x, packet)]
      /\ requests' = [requests EXCEPT ![x] = Tail(@)]
      /\ UNCHANGED <<linked, buffer>>
  BY DEF ReadRequest
<1>4. None(Steps(x, packet), Telling(x))
  <2>1. packet.kind # "unsubscribe" \/ linked = {}
    BY <1>1, <1>2 DEF NoneTold
  <2>2. linked \subseteq Ends /\ x \in Handlers
    BY DEF Typed, Handlers
  <2> HIDE DEF packet
  <2> QED
    BY <1>2, <2>1, <2>2, StepsEnding
<1> HIDE DEF packet
<1>5. \A h \in Handlers : None(work'[h], Telling(h))
  BY <1>3, <1>4 DEF NoneTold, Typed
<1>6. ASSUME NEW y \in Conns, NEW i \in DOMAIN requests'[y]
      PROVE  /\ requests'[y][i].kind = "publish" => requests'[y][i].msg.by = y
             /\ linked # {} => requests'[y][i].kind # "unsubscribe"
  <2>1. CASE y = x
    <3>1. requests'[y] = Tail(requests[x])
      BY <1>3, <2>1 DEF Typed
    <3>2. i + 1 \in DOMAIN requests[x] /\ requests'[y][i] = requests[x][i + 1]
      BY <1>1, <1>6, <3>1, TailOfRequests
    <3> QED
      BY <2>1, <3>2 DEF NoneTold
  <2>2. CASE y # x
    BY <1>3, <1>6, <2>2 DEF NoneTold, Typed
  <2> QED
    BY <2>1, <2>2
<1> QED
  BY <1>3, <1>5, <1>6 DEF NoneTold

LEMMA WriteTold ==
  ASSUME Typed, NoneTold, NEW h \in Handlers, WritePacket(h)
  PROVE  NoneTold'
<1>0. PICK to, packet : to = Head(work[h]).to /\ packet = Head(work[h]).packet
  OBVIOUS
<1> DEFINE P == {q \in Packets : q.kind = "unsubscribe"}
<1>1. /\ Head(work[h]).do \in {"write", "write or return"} /\ Head(work[h]) \in StepsOf(h)
      /\ work[h] # <<>> /\ work[h] \in Seq(StepsOf(h)) /\ to \in Handlers /\ packet \in Packets
  BY <1>0, HeadOfWork, StepOf, Homes DEF WritePacket, Writing, Doing, Typed
<1>2. /\ work' = [work EXCEPT ![h] = <<>> \o Tail(@)]
      /\ buffer' = [buffer EXCEPT ![to] = Append(@, packet)]
      /\ UNCHANGED <<linked, requests>>
  BY <1>0 DEF WritePacket, Then
<1>3. None(Tail(work[h]), Telling(h)) /\ Head(work[h]) \notin Telling(h)
  BY <1>1, NoneOfTail DEF NoneTold
<1>4. packet \notin P
  BY <1>0, <1>1, <1>3 DEF Telling, Ending
<1>5. work'[h] = Tail(work[h])
  <2>1. Tail(work[h]) \in Seq(StepsOf(h))
    BY <1>1, HeadTailProperties
  <2>2. <<>> \o Tail(work[h]) = Tail(work[h])
    BY <2>1, ConcatEmptySeq
  <2>3. DOMAIN work = Handlers
    BY DEF Typed
  <2> QED
    BY <1>2, <2>2, <2>3
<1>6. \A k \in Handlers : None(work'[k], Telling(k))
  BY <1>2, <1>3, <1>5 DEF NoneTold, Typed
<1>7. ASSUME NEW e \in Ends PROVE None(buffer'[e], P)
  <2>1. None(buffer[e], P) /\ buffer[e] \in Seq(Packets) /\ e \in Handlers
    BY DEF NoneTold, Typed, Handlers
  <2>2. buffer'[e] = IF e = to THEN Append(buffer[e], packet) ELSE buffer[e]
    BY <1>2, <2>1 DEF Typed
  <2> HIDE DEF P
  <2>3. One(buffer[e], P)
    BY <2>1, NoneIsOne
  <2>4. None(Append(buffer[e], packet), P)
    BY <1>1, <1>4, <2>1, <2>3, PutLast
  <2> QED
    BY <2>1, <2>2, <2>4
<1> QED
  BY <1>2, <1>6, <1>7 DEF NoneTold

LEMMA NextTold ==
  ASSUME Typed, OwnIds, NoneTold, [Next]_vars
  PROVE  NoneTold'
<1>1. ASSUME NEW h \in Ends, ReadLink(h) PROVE NoneTold'
  <2>1. /\ h \in Handlers /\ buffer[h] \in Seq(Packets) /\ buffer[h] # <<>>
        /\ work' = [work EXCEPT ![h] = Steps(h, Head(buffer[h]))]
        /\ buffer' = [buffer EXCEPT ![h] = Tail(@)] /\ UNCHANGED <<linked, requests>>
    BY <1>1 DEF ReadLink, Typed, Handlers
  <2>2. Head(buffer[h]) \in Packets /\ Head(buffer[h]).kind # "unsubscribe"
    <3>1. Head(buffer[h]) \notin {packet \in Packets : packet.kind = "unsubscribe"}
      BY <2>1, NoneOfTail DEF NoneTold
    <3> QED
      BY <2>1, <3>1
  <2>3. None(Steps(h, Head(buffer[h])), Telling(h))
    BY <2>1, <2>2, StepsEnding DEF Typed
  <2> QED
    BY <2>1, <2>3, WorkTold DEF Typed, Handlers
<1>2. ASSUME NEW h \in Conns, ReadError(h) PROVE NoneTold'
  <2> DEFINE fs == SetToSeq({p[1] : p \in {q \in subs[NodeOf[h]] : q[2] = h}})
  <2>1. /\ h \in Handlers /\ work' = [work EXCEPT ![h] = Each("unsubscribe", fs)]
        /\ UNCHANGED <<linked, requests, buffer>>
    BY <1>2 DEF ReadError, Handlers
  <2>2. None(Each("unsubscribe", fs), Telling(h))
    BY ConnAssumption DEF None, Each, Telling
  <2> HIDE DEF fs
  <2> QED
    BY <2>1, <2>2, WorkTold DEF Typed
<1>3. ASSUME NEW h \in Handlers, WriteError(h) PROVE NoneTold'
  <2>1. work' = [work EXCEPT ![h] = <<>>] /\ UNCHANGED <<linked, requests, buffer>>
    BY <1>3 DEF WriteError
  <2>2. None(<<>>, Telling(h))
    BY NothingEmpty
  <2> QED
    BY <2>1, <2>2, WorkTold DEF Typed
<1>4. ASSUME NEW h \in Handlers, GoesOn(h) PROVE NoneTold'
  <2>1. PICK steps : GoesRight(h, steps)
    BY <1>4, HandlersGoRight
  <2>2. /\ work' = [work EXCEPT ![h] = steps \o Tail(@)] /\ steps \in Seq(StepsOf(h))
        /\ None(steps, Ending(h))
    BY <2>1 DEF GoesRight, Then
  <2>3. work[h] # <<>> /\ UNCHANGED <<linked, requests, buffer>>
    BY <1>4, HandlersPass DEF GoesOn, PickRecipient, WriteLost, Match, MatchLinks, Retain,
      Subscribe, Search, Unsubscribe, SyncTopic
  <2>4. None(steps, Telling(h))
    BY <2>2, EndingParts, FewerIsNone
  <2>5. /\ work[h] \in Seq(StepsOf(h)) /\ Tail(work[h]) \in Seq(StepsOf(h))
        /\ None(Tail(work[h]), Telling(h))
    BY <2>3, NoneOfTail, HeadTailProperties DEF NoneTold, Typed
  <2>6. None(steps \o Tail(work[h]), Telling(h))
    BY <2>2, <2>4, <2>5, JoinedNone
  <2> QED
    BY <2>2, <2>3, <2>6, WorkTold DEF Typed
<1>5. ASSUME NEW x \in Conns, ClientReads(x) \/ ClientGoes(x) PROVE NoneTold'
  <2>1. /\ UNCHANGED <<linked, requests, work>> /\ \A e \in Ends : buffer'[e] = buffer[e]
    BY <1>5, ConnAssumption DEF ClientReads, ClientGoes, Typed, Handlers
  <2> QED
    BY <2>1 DEF NoneTold
<1>6. CASE UNCHANGED vars
  BY <1>6 DEF NoneTold, vars
<1> QED
  BY <1>1, <1>2, <1>3, <1>4, <1>5, <1>6, ReadRequestTold, WriteTold
     DEF Next, Runs, Handle, GoesOn

-----------------------------------------------------------------------------
(* A handler that may still return has published nothing.                  *)

LEMMA StepsStay ==
  ASSUME linked' = linked, NEW h, NEW packet
  PROVE  Steps(h, packet)' = Steps(h, packet)
  BY DEF Steps, Forwards, ToLinks

LEMMA UntouchedTail ==
  ASSUME Typed, NEW h \in Handlers, Untouched(h), work[h] # <<>>
  PROVE  /\ None(Tail(work[h]), {s \in StepsOf(h) : s.do = "write or return"})
         /\ Tail(work[h]) \in Seq(StepsOf(h))
<1>1. work[h] \in Seq(StepsOf(h))
  BY DEF Typed
<1> QED
  BY <1>1, NoneOfTail, HeadTailProperties DEF Untouched

LEMMA OthersUntouched ==
  ASSUME NEW h \in Handlers, \A k \in Handlers : Untouched(k), linked' = linked,
         \A k \in Handlers \ {h} : work'[k] = work[k], Untouched(h)'
  PROVE  \A k \in Handlers : Untouched(k)'
<1> SUFFICES ASSUME NEW k \in Handlers, k # h PROVE Untouched(k)'
  OBVIOUS
<1>1. work'[k] = work[k] /\ Untouched(k)
  OBVIOUS
<1> QED
  BY <1>1, StepsStay DEF Untouched

LEMMA ReadUntouched ==
  ASSUME Typed, NEW h \in Handlers, NEW packet \in Packets, linked' = linked,
         work' = [work EXCEPT ![h] = Steps(h, packet)]
  PROVE  Untouched(h)'
<1>1. work'[h] = Steps(h, packet) /\ Steps(h, packet)' = Steps(h, packet)
  BY StepsStay DEF Typed
<1>2. CASE packet.kind = "publish"
  BY <1>1, <1>2, PublishBegins DEF Untouched
<1>3. CASE packet.kind # "publish"
  <2>1. None(work'[h], {s \in StepsOf(h) : s.do = "write or return"})
    BY <1>1, <1>3, StepsEnding DEF Typed
  <2> QED
    BY <2>1 DEF Untouched
<1> QED
  BY <1>2, <1>3

LEMMA NextUntouched ==
  ASSUME Typed, OwnIds, NoneTold, \A h \in Handlers : Untouched(h), [Next]_vars
  PROVE  \A h \in Handlers : Untouched(h)'
<1>1. ASSUME NEW h \in Conns, ReadRequest(h) PROVE \A k \in Handlers : Untouched(k)'
  <2>1. /\ h \in Handlers /\ requests[h] \in Seq(Packets) /\ requests[h] # <<>>
        /\ work' = [work EXCEPT ![h] = Steps(h, Head(requests[h]))] /\ linked' = linked
    BY <1>1 DEF ReadRequest, Typed, Handlers
  <2>2. Head(requests[h]) \in Packets
    BY <2>1
  <2> QED
    BY <2>1, <2>2, ReadUntouched, OthersUntouched DEF Typed
<1>2. ASSUME NEW h \in Ends, ReadLink(h) PROVE \A k \in Handlers : Untouched(k)'
  <2>1. /\ h \in Handlers /\ buffer[h] \in Seq(Packets) /\ buffer[h] # <<>>
        /\ work' = [work EXCEPT ![h] = Steps(h, Head(buffer[h]))] /\ linked' = linked
    BY <1>2 DEF ReadLink, Typed, Handlers
  <2>2. Head(buffer[h]) \in Packets
    BY <2>1
  <2> QED
    BY <2>1, <2>2, ReadUntouched, OthersUntouched DEF Typed
<1>3. ASSUME NEW h \in Conns, ReadError(h) PROVE \A k \in Handlers : Untouched(k)'
  <2> DEFINE fs == SetToSeq({p[1] : p \in {q \in subs[NodeOf[h]] : q[2] = h}})
  <2>1. /\ h \in Handlers /\ work' = [work EXCEPT ![h] = Each("unsubscribe", fs)]
        /\ linked' = linked
    BY <1>3 DEF ReadError, Handlers
  <2>2. None(Each("unsubscribe", fs), {s \in StepsOf(h) : s.do = "write or return"})
    BY DEF None, Each
  <2> HIDE DEF fs
  <2>3. Untouched(h)'
    BY <2>1, <2>2 DEF Untouched, Typed
  <2> QED
    BY <2>1, <2>3, OthersUntouched DEF Typed
<1>4. ASSUME NEW h \in Handlers, WritePacket(h) PROVE \A k \in Handlers : Untouched(k)'
  <2>1. work[h] # <<>> /\ work' = [work EXCEPT ![h] = <<>> \o Tail(@)] /\ linked' = linked
    BY <1>4 DEF WritePacket, Writing, Doing, Then
  <2>2. work'[h] = Tail(work[h])
    BY <2>1, UntouchedTail, ConcatEmptySeq DEF Typed
  <2>3. Untouched(h)'
    BY <2>1, <2>2, UntouchedTail DEF Untouched
  <2> QED
    BY <2>1, <2>3, OthersUntouched DEF Typed
<1>5. ASSUME NEW h \in Handlers, WriteError(h) PROVE \A k \in Handlers : Untouched(k)'
  <2>1. work' = [work EXCEPT ![h] = <<>>] /\ linked' = linked
    BY <1>5 DEF WriteError
  <2>2. Untouched(h)'
    BY <2>1, NothingEmpty DEF Untouched, Typed
  <2> QED
    BY <2>1, <2>2, OthersUntouched DEF Typed
<1>6. ASSUME NEW h \in Handlers, GoesOn(h) PROVE \A k \in Handlers : Untouched(k)'
  <2>1. PICK steps : GoesRight(h, steps)
    BY <1>6, HandlersGoRight
  <2>2. /\ work' = [work EXCEPT ![h] = steps \o Tail(@)] /\ steps \in Seq(StepsOf(h))
        /\ None(steps, Ending(h))
    BY <2>1 DEF GoesRight, Then
  <2>3. work[h] # <<>> /\ linked' = linked
    BY <1>6, HandlersPass DEF GoesOn, PickRecipient, WriteLost, Match, MatchLinks, Retain,
      Subscribe, Search, Unsubscribe, SyncTopic
  <2>4. None(steps, {s \in StepsOf(h) : s.do = "write or return"})
    BY <2>2, EndingParts, FewerIsNone
  <2>5. None(steps \o Tail(work[h]), {s \in StepsOf(h) : s.do = "write or return"})
    BY <2>2, <2>3, <2>4, UntouchedTail, JoinedNone
  <2>6. Untouched(h)'
    BY <2>2, <2>5 DEF Untouched, Typed
  <2> QED
    BY <2>2, <2>3, <2>6, OthersUntouched DEF Typed
<1>7. CASE UNCHANGED vars \/ \E x \in Conns : ClientReads(x) \/ ClientGoes(x)
  <2>1. linked' = linked /\ work' = work
    BY <1>7 DEF vars, ClientReads, ClientGoes
  <2> QED
    BY <2>1, StepsStay DEF Untouched
<1> QED
  BY <1>1, <1>2, <1>3, <1>4, <1>5, <1>6, <1>7 DEF Next, Runs, Handle, GoesOn

-----------------------------------------------------------------------------
(* Who is subscribed and stays is subscribed.                              *)

Unsubscribing(c) == {s \in StepsOf(c) : s.do = "unsubscribe"}

\* The trie of its node keeps the filters of a client that does not
\* unsubscribe, and the other nodes keep those they were told.
LEMMA FiltersStay ==
  ASSUME Typed, OwnIds, NoneTold, [Next]_vars,
         NEW c \in Conns, None(work[c], Unsubscribing(c))
  PROVE  /\ \A f \in Filters : <<f, c>> \in subs[NodeOf[c]] => <<f, c>> \in subs'[NodeOf[c]]
         /\ \A n \in Nodes : remote[n] \subseteq remote'[n]
<1>1. \A k \in Conns : IdOf[k] = IdOf[c] => k = c
  BY DEF OwnIds, Id, Handlers
<1>2. NodeOf[c] \in Nodes
  BY ConnAssumption
<1>3. ASSUME NEW h \in Handlers, Subscribe(h) \/ Unsubscribe(h),
             NEW f \in Filters, <<f, c>> \in subs[NodeOf[c]]
      PROVE  <<f, c>> \in subs'[NodeOf[c]]
  <2>1. CASE Subscribe(h)
    <3>1. c \in Handlers /\ Id(c) = IdOf[c]
      BY DEF Id, Handlers
    <3>2. Id(h) # IdOf[c] \/ h = c
      BY <3>1 DEF OwnIds
    <3>3. \/ subs' = subs
          \/ /\ h \in Conns
             /\ subs' = [subs EXCEPT ![Home(h)] = Others(h, Head(work[h]).filter)
                                                \cup {<<Head(work[h]).filter, h>>}]
      BY <2>1 DEF Subscribe
    <3> QED
      <4>1. DOMAIN subs = Nodes
        BY DEF Typed
      <4>2. PICK g : g = Head(work[h]).filter
        OBVIOUS
      <4>3. <<f, c>> \in Others(h, g) \cup {<<g, h>>} \/ NodeOf[c] # Home(h)
        BY <1>3, <3>2 DEF Others
      <4> QED
        BY <1>2, <1>3, <3>3, <4>1, <4>2, <4>3
  <2>2. CASE Unsubscribe(h)
    <3>1. /\ work[h] # <<>> /\ Head(work[h]) \in StepsOf(h)
          /\ Head(work[h]).do = "unsubscribe"
      BY <2>2, HeadOfWork DEF Unsubscribe
    <3>2. h # c
      BY <3>1, NoneOfTail DEF Unsubscribing, Typed
    <3>3. h \in Conns => IdOf[c] # IdOf[h]
      BY <1>1, <3>2
    <3> QED
      BY <1>2, <1>3, <2>2, <3>3 DEF Unsubscribe, Others, Typed, Home, Id
  <2> QED
    BY <1>3, <2>1, <2>2
<1>4. ASSUME NEW h \in Handlers, Subscribe(h) \/ Unsubscribe(h), NEW n \in Nodes
      PROVE  remote[n] \subseteq remote'[n]
  <2>1. CASE Subscribe(h)
    <3>1. \/ remote' = remote
          \/ remote' = [remote EXCEPT ![Home(h)] = @ \cup {<<Head(work[h]).filter, h[2]>>}]
      BY <2>1 DEF Subscribe
    <3>2. DOMAIN remote = Nodes
      BY DEF Typed
    <3> QED
      BY <3>1, <3>2
  <2>2. CASE Unsubscribe(h)
    <3>1. /\ work[h] # <<>> /\ Head(work[h]) \in StepsOf(h)
          /\ Head(work[h]).do = "unsubscribe"
      BY <2>2, HeadOfWork DEF Unsubscribe
    <3>2. Head(work[h]) \notin Telling(h)
      BY <3>1, NoneOfTail DEF NoneTold, Typed
    <3>3. h \in Conns
      BY <3>1, <3>2 DEF Telling, Ending, Handlers
    <3> QED
      BY <2>2, <3>3 DEF Unsubscribe
  <2> QED
    BY <1>4, <2>1, <2>2
<1>5. CASE UNCHANGED <<subs, remote>>
  BY <1>5
<1>6. UNCHANGED <<subs, remote>> \/ \E h \in Handlers : Subscribe(h) \/ Unsubscribe(h)
  BY DEF Next, Runs, Handle, ReadRequest, ReadError, ReadLink, PickRecipient, WritePacket,
    WriteLost, WriteError, Match, MatchLinks, Retain, Search, SyncTopic, ClientReads,
    ClientGoes, vars, shared
<1> QED
  BY <1>3, <1>4, <1>5, <1>6

LEMMA WorkStays ==
  ASSUME Typed, OwnIds, NoneTold, [Next]_vars, NEW c \in Conns,
         None(work[c], Unsubscribing(c)), status[c] = "up", NEW msg, <<msg, c>> \in due'
  PROVE  None(work'[c], Unsubscribing(c)) /\ status'[c] = "up"
<1> DEFINE U == Unsubscribing(c)
<1>0. c \in Handlers /\ c \in DOMAIN work /\ c \notin Ends
  BY ConnAssumption DEF Typed, Handlers
<1>1. CASE ReadRequest(c)
  <2>1. /\ requests[c] \in Seq(Packets) /\ requests[c] # <<>>
        /\ work'[c] = Steps(c, Head(requests[c])) /\ status' = status
    BY <1>0, <1>1 DEF ReadRequest, Typed
  <2>2. PICK packet \in Packets : packet = Head(requests[c])
    BY <2>1
  <2>3. packet.kind # "unsubscribe"
    BY <1>1, <2>2 DEF ReadRequest, Expect
  <2>4. linked \subseteq Ends
    BY DEF Typed
  <2>5. None(Steps(c, packet), {s \in StepsOf(c) : s.do = "unsubscribe"})
    BY <1>0, <2>3, <2>4, StepsEnding
  <2> QED
    BY <2>1, <2>2, <2>5 DEF Unsubscribing
<1>2. CASE WritePacket(c)
  <2>1. /\ work[c] # <<>> /\ work[c] \in Seq(StepsOf(c)) /\ status' = status
        /\ work'[c] = <<>> \o Tail(work[c])
    BY <1>0, <1>2 DEF WritePacket, Writing, Doing, Then, Typed
  <2>2. work'[c] = Tail(work[c])
    BY <2>1, HeadTailProperties, ConcatEmptySeq
  <2> QED
    BY <2>1, <2>2, NoneOfTail
<1>3. CASE WriteError(c)
  BY <1>0, <1>3, NothingEmpty DEF WriteError
<1>4. CASE GoesOn(c)
  <2>1. PICK steps : GoesRight(c, steps)
    BY <1>0, <1>4, HandlersGoRight
  <2>2. /\ work'[c] = steps \o Tail(work[c]) /\ steps \in Seq(StepsOf(c))
        /\ None(steps, Ending(c))
    BY <1>0, <2>1 DEF GoesRight, Then
  <2>3. work[c] # <<>> /\ work[c] \in Seq(StepsOf(c))
    BY <1>0, <1>4, HandlersPass DEF Typed
  <2>4. None(steps, U)
    BY <2>2, EndingParts, FewerIsNone DEF Unsubscribing
  <2>5. None(Tail(work[c]), U) /\ Tail(work[c]) \in Seq(StepsOf(c))
    BY <2>3, NoneOfTail, HeadTailProperties
  <2>6. None(steps \o Tail(work[c]), U)
    BY <2>2, <2>4, <2>5, JoinedNone
  <2>7. status' = status
    BY <1>4 DEF GoesOn, PickRecipient, WriteLost, Match, MatchLinks, Retain,
      Subscribe, Search, Unsubscribe, SyncTopic
  <2> QED
    BY <2>2, <2>6, <2>7
<1>5. CASE ReadError(c) \/ ClientGoes(c)
  BY <1>5 DEF ReadError, ClientGoes
<1>6. CASE \E h \in Handlers \ {c} : Runs(h)
  <2>1. PICK h \in Handlers \ {c} : Runs(h)
    BY <1>6
  <2>2. \E new : work' = [work EXCEPT ![h] = new]
    <3>1. CASE (h \in Conns /\ (ReadRequest(h) \/ ReadError(h))) \/ (h \in Ends /\ ReadLink(h))
      BY <3>1 DEF ReadRequest, ReadError, ReadLink
    <3>2. CASE WritePacket(h) \/ WriteError(h)
      BY <3>2 DEF WritePacket, WriteError, Then
    <3>3. CASE GoesOn(h)
      <4>1. PICK steps : Then(h, steps)
        BY <3>3, HandlersGoRight DEF GoesRight
      <4> QED
        BY <4>1 DEF Then
    <3> QED
      BY <2>1, <3>1, <3>2, <3>3 DEF Runs, Handle, GoesOn
  <2>4. work'[c] = work[c]
    BY <1>0, <2>1, <2>2
  <2>3. status'[c] = "up"
    BY <2>1 DEF Typed, Runs, Handle, ReadRequest, ReadError, ReadLink, PickRecipient, WritePacket,
      WriteLost, WriteError, Match, MatchLinks, Retain, Subscribe, Search, Unsubscribe,
      SyncTopic
  <2> QED
    BY <2>3, <2>4
<1>7. CASE UNCHANGED vars \/ \E x \in Conns : ClientReads(x) \/ (x # c /\ ClientGoes(x))
  BY <1>7 DEF vars, ClientReads, ClientGoes, Typed
<1> QED
  BY <1>0, <1>1, <1>2, <1>3, <1>4, <1>5, <1>6, <1>7 DEF Next, Runs, Handle, GoesOn

LEMMA NextServed ==
  ASSUME Typed, OwnIds, NoneTold, [Next]_vars, NEW x \in Conns, NEW c \in Conns,
         Served(x, c), NEW msg, <<msg, c>> \in due'
  PROVE  Served(x, c)'
<1>1. None(work[c], Unsubscribing(c)) /\ status[c] = "up"
  BY DEF Served, Unsubscribing
<1>2. None(work'[c], {s \in StepsOf(c) : s.do = "unsubscribe"}) /\ status'[c] = "up"
  BY <1>1, WorkStays DEF Unsubscribing
<1>3. /\ \A f \in Filters : <<f, c>> \in subs[NodeOf[c]] => <<f, c>> \in subs'[NodeOf[c]]
      /\ \A n \in Nodes : remote[n] \subseteq remote'[n]
  BY <1>1, FiltersStay
<1>4. NodeOf[x] \in Nodes
  BY ConnAssumption
<1> QED
  BY <1>2, <1>3, <1>4 DEF Served

-----------------------------------------------------------------------------
(* What is due is coming.                                                  *)

\* Where a step takes from nothing that carries the message, it stays.
LEMMA AllStay ==
  ASSUME NEW msg \in Messages, NEW c \in Conns, Coming(msg, c),
         \A p \in Path(msg.by, c) \ {<<"requests", msg.by>>} :
           p \in Places(c) /\ Holds(p, msg, c) => Holds(p, msg, c)'
  PROVE  Coming(msg, c)'
<1>1. Path(msg.by, c) \subseteq Places(c)
  BY PathPlaces, MessageAssumption
<1> QED
  BY <1>1, StillComing

LEMMA ReadRequestComing ==
  ASSUME Typed, NEW h \in Conns, ReadRequest(h), NEW msg \in Messages, NEW c \in Conns,
         Coming(msg, c)
  PROVE  Coming(msg, c)'
<1> DEFINE a == <<"requests", h>>
<1>1. a \in Places(c) /\ <<"work", h>> \in Places(c) /\ Hands(a, <<"work", h>>, c)
  BY RequestHands, RequestsPlace, WorkPlace DEF Handlers
<1> HIDE DEF a
<1>2. \A p \in Path(msg.by, c) \ {<<"requests", msg.by>>} : p # a
  <2>1. msg.by \in Conns
    BY MessageAssumption
  <2> QED
    BY <2>1, OnPath DEF a
<1> QED
  BY <1>1, <1>2, StillThere, AllStay

LEMMA ReadLinkComing ==
  ASSUME Typed, NEW h \in Ends, ReadLink(h), NEW msg \in Messages, NEW c \in Conns,
         Coming(msg, c)
  PROVE  Coming(msg, c)'
<1> DEFINE a == <<"buffer", h>>
           b == <<"work", h>>
<1>1. /\ h \in Handlers /\ work[h] = <<>> /\ buffer[h] \in Seq(Packets) /\ buffer[h] # <<>>
      /\ work'[h] = Steps(h, Head(buffer[h]))
  BY DEF ReadLink, Typed, Handlers
<1>2. /\ b \in Places(c) /\ At(b) = work[h] /\ At(b)' = work'[h]
      /\ With(b, msg, c) = StepsWith(h, msg, c)
      /\ At(a) = buffer[h] /\ With(a, msg, c) = PacketsWith(msg)
  BY <1>1, WorkPlace, BufferPlace
<1>3. Hands(a, b, c) \/ Drops(b, c)
  BY LinkHands
<1> HIDE DEF a, b
<1>4. CASE Drops(b, c)
  <2>1. ~ Holds(b, msg, c)
    BY <1>1, <1>2, NothingEmpty DEF Holds
  <2>2. \A p \in Places(c) \ {b} : At(p)' = At(p)
    BY <1>4 DEF Drops
  <2> QED
    BY <2>1, <2>2, StillElsewhere, AllStay
<1>5. CASE Hands(a, b, c) /\ Head(At(a)) \notin With(a, msg, c)
  <2>1. a \in Places(c)
    BY <1>5 DEF Hands
  <2> QED
    BY <1>2, <1>5, <2>1, StillThere, AllStay
<1>6. CASE Hands(a, b, c) /\ Head(At(a)) \in With(a, msg, c)
  <2>1. a \in Places(c) /\ Head(buffer[h]) \in PacketsWith(msg)
    BY <1>2, <1>6 DEF Hands
  <2>2. Home(h) = NodeOf[c]
    BY <2>1, Homes, <1>1, ConnAssumption DEF a, Places
  <2>3. Head(buffer[h]) \in Packets
    BY <1>1
  <2>4. Holds(b, msg, c)'
    BY <1>1, <1>2, <2>1, <2>2, <2>3, StepsCome DEF Holds, Typed
  <2>5. \A p \in Path(msg.by, c) \ {<<"requests", msg.by>>} : p = a => b \in Path(msg.by, c)
    BY DEF a, b, Path
  <2>6. \A p \in Places(c) \ {a} : Holds(p, msg, c) => Holds(p, msg, c)'
    BY <1>2, <1>6, <2>1, StillThere
  <2>7. Path(msg.by, c) \subseteq Places(c)
    BY PathPlaces, MessageAssumption
  <2>8. b # <<"requests", msg.by>>
    BY DEF b
  <2> QED
    BY <2>4, <2>5, <2>6, <2>7, <2>8, StillComing
<1> QED
  BY <1>3, <1>4, <1>5, <1>6

\* Nothing but what the handler had to do is given up.
LEMMA ErrorComing ==
  ASSUME Typed, \A k \in Handlers : Untouched(k), NEW h \in Handlers,
         (h \in Conns /\ ReadError(h)) \/ WriteError(h),
         NEW msg \in Messages, NEW c \in Conns, Coming(msg, c), <<msg, c>> \in due'
  PROVE  Coming(msg, c)'
<1> DEFINE a == <<"work", h>>
<1>1. /\ a \in Places(c) /\ At(a) = work[h] /\ With(a, msg, c) = StepsWith(h, msg, c)
  BY WorkPlace
<1>2. \A p \in Places(c) \ {a} : At(p)' = At(p)
  BY ErrorDrops DEF Drops
<1> HIDE DEF a
<1>3. ~ Holds(a, msg, c)
  <2>1. CASE ReadError(h)
    BY <1>1, <2>1, NothingEmpty DEF ReadError, Holds
  <2>2. CASE WriteError(h)
    <3>1. /\ work[h] # <<>> /\ Head(work[h]) \in StepsOf(h)
          /\ Head(work[h]).do = "write or return" /\ work[h] \in Seq(StepsOf(h))
      BY <2>2, HeadOfWork DEF WriteError, Typed
    <3>2. ~ None(work[h], {s \in StepsOf(h) : s.do = "write or return"})
      <4> DEFINE R == {s \in StepsOf(h) : s.do = "write or return"}
      <4>1. Head(work[h]) \in R
        BY <3>1
      <4> HIDE DEF R
      <4>2. ~ None(work[h], R)
        BY <3>1, <4>1, NoneOfTail
      <4> QED
        BY <4>2 DEF R
    <3>3. PICK packet \in Packets : packet.kind = "publish" /\ work[h] = Steps(h, packet)
      BY <3>2 DEF Untouched
    <3>4. ASSUME Holds(a, msg, c) PROVE FALSE
      <4>1. packet \in PacketsWith(msg) /\ MatchOf(packet) \in ToSet(work[h])
        BY <1>1, <3>3, <3>4, StepsCome DEF Holds, Typed
      <4>2. MatchOf(packet).do = "match" /\ MatchOf(packet).msg = msg
        BY <4>1 DEF MatchOf, PacketsWith
      <4>3. msg \in Dropped(h)
        BY <4>1, <4>2 DEF Dropped
      <4> QED
        BY <2>2, <4>3 DEF WriteError
    <3> QED
      BY <3>4
  <2> QED
    BY <2>1, <2>2
<1> QED
  BY <1>2, <1>3, StillElsewhere, AllStay

LEMMA WriteComing ==
  ASSUME Typed, NEW h \in Handlers, WritePacket(h), NEW msg \in Messages, NEW c \in Conns,
         Coming(msg, c)
  PROVE  Coming(msg, c)'
<1> DEFINE a == <<"work", h>>
<1>1. /\ a \in Places(c) /\ At(a) = work[h] /\ With(a, msg, c) = StepsWith(h, msg, c)
  BY WorkPlace
<1>2. Keeps(a, c) \/ \E b \in Places(c) : Hands(a, b, c)
  BY WriteHands
<1>3. Head(work[h]) \in StepsWith(h, msg, c) /\ a \in Path(msg.by, c) =>
        \E q \in Path(msg.by, c) \ {<<"requests", msg.by>>} : Holds(q, msg, c)'
  BY WriteArrives
<1> HIDE DEF a
<1>4. \A p \in Places(c) : Holds(p, msg, c) /\ (p # a \/ Head(At(a)) \notin With(a, msg, c)) =>
        Holds(p, msg, c)'
  BY <1>1, <1>2, StillThere
<1>5. Path(msg.by, c) \subseteq Places(c)
  BY PathPlaces, MessageAssumption
<1> QED
  BY <1>1, <1>3, <1>4, <1>5, StillComing

LEMMA GoesOnComing ==
  ASSUME Typed, OwnIds, NoneTold, NEW h \in Handlers, GoesOn(h),
         NEW msg \in Messages, NEW c \in Conns, Served(msg.by, c), Coming(msg, c)
  PROVE  Coming(msg, c)'
<1> DEFINE a == <<"work", h>>
<1>1. /\ a \in Places(c) /\ At(a) = work[h] /\ At(a)' = work'[h]
      /\ With(a, msg, c) = StepsWith(h, msg, c)
  BY WorkPlace
<1>2. Keeps(a, c)
  BY HandlerKeeps
<1>3. ASSUME a \in Path(msg.by, c), Head(work[h]) \in StepsWith(h, msg, c)
      PROVE  Holds(a, msg, c)'
  <2>1. PICK steps : GoesRight(h, steps)
    BY HandlersGoRight
  <2>2. /\ steps \in Seq(StepsOf(h)) /\ work'[h] = steps \o Tail(work[h])
        /\ ~ None(steps, StepsWith(h, msg, c))
    BY <1>3, <2>1 DEF GoesRight, Then, Typed
  <2>3. Tail(work[h]) \in Seq(StepsOf(h))
    BY HandlersPass, HeadTailProperties DEF Typed
  <2>4. ~ None(work'[h], StepsWith(h, msg, c))
    BY <2>2, <2>3, JoinedNone
  <2> HIDE DEF a
  <2> QED
    BY <1>1, <2>4 DEF Holds
<1> HIDE DEF a
<1>4. \A p \in Places(c) : Holds(p, msg, c) /\ (p # a \/ Head(At(a)) \notin With(a, msg, c)) =>
        Holds(p, msg, c)'
  BY <1>1, <1>2, StillThere
<1>5. Path(msg.by, c) \subseteq Places(c)
  BY PathPlaces, MessageAssumption
<1> QED
  BY <1>1, <1>3, <1>4, <1>5, AllStay

LEMMA NextComing ==
  ASSUME Typed, OwnIds, NoneTold, \A h \in Handlers : Untouched(h), [Next]_vars,
         NEW msg \in Messages, NEW c \in Conns, Served(msg.by, c), Coming(msg, c),
         <<msg, c>> \in due'
  PROVE  Coming(msg, c)'
<1>1. CASE UNCHANGED vars \/ \E x \in Conns : ClientReads(x) \/ ClientGoes(x)
  <2>1. Stays(c)
    BY <1>1, ClientsStay
  <2> QED
    BY <2>1, AllStay DEF Stays, Holds
<1> QED
  BY <1>1, ReadRequestComing, ReadLinkComing, ErrorComing, WriteComing, GoesOnComing
     DEF Next, Runs, Handle, GoesOn, Handlers

\* What becomes due is in the hands of the handler that reads it.
LEMMA NewlyDue ==
  ASSUME Typed, NoneTold, NEW x \in Conns, ReadRequest(x), NEW d \in due', d \notin due
  PROVE  \E msg \in Messages, c \in Conns :
           d = <<msg, c>> /\ Served(msg.by, c) /\ Coming(msg, c)'
<1>0. PICK packet : packet = Head(requests[x])
  OBVIOUS
<1>1. /\ requests[x] \in Seq(Packets) /\ requests[x] # <<>>
      /\ packet = requests[x][1] /\ work' = [work EXCEPT ![x] = Steps(x, packet)]
  BY <1>0 DEF ReadRequest, Typed
<1>2. packet \in Packets /\ 1 \in DOMAIN requests[x]
  BY <1>1
<1>3. packet.kind = "publish" /\ d \in {packet.msg} \X Audience(NodeOf[x])
  BY <1>0 DEF ReadRequest, Expect
<1>4. PICK c \in Conns : d = <<packet.msg, c>> /\ c \in Audience(NodeOf[x])
  <2>1. Audience(NodeOf[x]) \subseteq Conns
    BY DEF Audience
  <2> QED
    BY <1>3, <2>1
<1>5. packet.msg \in Messages /\ packet.msg.by = x
  BY <1>1, <1>2, <1>3, PacketOf DEF NoneTold
<1>6. Served(x, c)
  <2>1. None(work[c], {s \in StepsOf(c) : s.do = "unsubscribe"})
    BY <1>4 DEF Audience, None, ToSet
  <2> QED
    BY <1>4, <2>1 DEF Audience, Served
<1>7. Coming(packet.msg, c)'
  <2> DEFINE a == <<"work", x>>
  <2>1. /\ x \in Handlers /\ At(a)' = work'[x]
        /\ With(a, packet.msg, c) = StepsWith(x, packet.msg, c)
    BY WorkPlace DEF Handlers
  <2>2. ~ None(Steps(x, packet), StepsWith(x, packet.msg, c))
    BY <1>2, <1>3, <1>5, <2>1, StepsCome DEF PacketsWith, Typed
  <2>3. work'[x] = Steps(x, packet)
    BY <1>1, <2>1 DEF Typed
  <2>4. a \in Path(packet.msg.by, c) \ {<<"requests", packet.msg.by>>}
    BY <1>5 DEF Path
  <2> HIDE DEF a
  <2>5. Holds(a, packet.msg, c)'
    BY <2>1, <2>2, <2>3 DEF Holds
  <2> QED
    BY <2>4, <2>5 DEF Coming
<1> QED
  BY <1>4, <1>5, <1>6, <1>7

LEMMA NextDue ==
  ASSUME Typed, OwnIds, DueInv, [Next]_vars
  PROVE  DueInv'
<1>1. NoneTold /\ \A h \in Handlers : Untouched(h)
  BY DEF DueInv
<1>2. NoneTold' /\ \A h \in Handlers : Untouched(h)'
  BY <1>1, NextTold, NextUntouched
<1>3. due' \subseteq due \/ \E x \in Conns : ReadRequest(x)
  BY DEF Next, Runs, Handle, ReadError, ReadLink, PickRecipient, WritePacket, WriteLost,
    WriteError, Match, MatchLinks, Retain, Subscribe, Search, Unsubscribe, SyncTopic,
    ClientReads, ClientGoes, vars, history
<1>4. ASSUME NEW d \in due'
      PROVE  \E msg \in Messages, c \in Conns :
               d = <<msg, c>> /\ Served(msg.by, c) /\ Coming(msg, c)'
  <2>1. CASE d \in due
    <3>1. PICK msg \in Messages, c \in Conns : d = <<msg, c>>
      BY <2>1 DEF DueInv
    <3>2. Served(msg.by, c) /\ Coming(msg, c)
      BY <2>1, <3>1 DEF DueInv
    <3>3. Coming(msg, c)'
      BY <1>1, <1>4, <3>1, <3>2, NextComing
    <3> QED
      BY <3>1, <3>2, <3>3
  <2>2. CASE d \notin due
    BY <1>1, <1>3, <1>4, <2>2, NewlyDue
  <2> QED
    BY <2>1, <2>2
<1>5. due' \subseteq Messages \X Conns
  BY <1>4
<1>6. ASSUME NEW msg \in Messages, NEW c \in Conns, <<msg, c>> \in due'
      PROVE  Served(msg.by, c)' /\ Coming(msg, c)'
  <2>1. Served(msg.by, c) /\ Coming(msg, c)'
    <3>1. PICK m \in Messages, k \in Conns :
            <<msg, c>> = <<m, k>> /\ Served(m.by, k) /\ Coming(m, k)'
      BY <1>4, <1>6
    <3>2. m = msg /\ k = c
      BY <3>1
    <3> QED
      BY <3>1, <3>2
  <2>2. msg.by \in Conns
    BY MessageAssumption
  <2> QED
    BY <1>1, <1>6, <2>1, <2>2, NextServed
<1> QED
  BY <1>2, <1>5, <1>6 DEF DueInv

LEMMA InitDue == ASSUME Init, KeepFilters PROVE DueInv
<1>1. due = {} /\ NoneTold
  BY InitTold DEF Init
<1>2. ASSUME NEW h \in Handlers PROVE Untouched(h)
  <2>1. work[h] \in {<<>>, <<[do |-> "sync", left |-> Filters]>>}
    BY DEF Init
  <2> DEFINE R == {s \in StepsOf(h) : s.do = "write or return"}
             x == [do |-> "sync", left |-> Filters]
  <2>3. x \notin R
    OBVIOUS
  <2> HIDE DEF x
  <2>4. None(<<x>>, R) /\ None(<<>>, R)
    BY <2>3, OneOfSingle, NothingEmpty
  <2>2. None(work[h], R)
    BY <2>1, <2>4 DEF x
  <2> QED
    BY <2>2 DEF Untouched
<1> QED
  BY <1>1, <1>2 DEF DueInv

(***************************************************************************)
(* DoPublish (broker/processor.go:81-99) goes on after a write that        *)
(* failed, and a PUBLISH is given up (processor.go:111-113) only before it *)
(* is matched: when all is handled, every client that was subscribed when  *)
(* the message was read, at the node of the publisher or at one that had   *)
(* told it of the filter, and that stays, has it. For any number of nodes, *)
(* of publishers and of clients that go away meanwhile, if nobody shares   *)
(* an identifier and no client of linked nodes unsubscribes: UNSUBSCRIBE   *)
(* of another node (cluster/processor.go) removes the one entry there is   *)
(* for all of its clients, and comes when the client may have subscribed   *)
(* again.                                                                  *)
(***************************************************************************)
THEOREM NobodyIsMissed ==
  ASSUME OwnIds, KeepFilters
  PROVE  Spec => []NoneMissed
<1>1. Init => DueInv
  BY InitDue
<1>2. Typed /\ DueInv /\ [Next]_vars => DueInv'
  BY NextDue
<1>3. Typed /\ DueInv => NoneMissed
  <2> SUFFICES ASSUME Typed, DueInv, Quiet, NEW d \in due PROVE d[1] \in ToSet(log[d[2]])
    BY DEF NoneMissed
  <2>1. PICK msg \in Messages, c \in Conns : d = <<msg, c>>
    BY DEF DueInv
  <2>2. PICK p \in Path(msg.by, c) \ {<<"requests", msg.by>>} : Holds(p, msg, c)
    BY <2>1 DEF DueInv, Coming
  <2>3. msg.by \in Conns
    BY MessageAssumption
  <2>4. ASSUME NEW h \in Handlers, p = <<"work", h>> PROVE FALSE
    BY <2>2, <2>4, WorkPlace, NothingEmpty DEF Quiet, Holds
  <2>5. ASSUME NEW e \in Ends, p = <<"buffer", e>> PROVE FALSE
    BY <2>2, <2>5, BufferPlace, NothingEmpty DEF Quiet, Holds
  <2>6. p = <<"log", c>>
    BY <2>2, <2>3, <2>4, <2>5, OnPath DEF Handlers
  <2>7. ~ None(log[c], {msg})
    BY <2>2, <2>6, LogPlace DEF Holds
  <2> QED
    BY <2>1, <2>7 DEF None, ToSet
<1> QED
  BY <1>1, <1>2, <1>3, AlwaysTyped, PTL DEF Spec
=============================================================================
