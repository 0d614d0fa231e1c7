# A TLA+ model of amqtt

amqtt is an MQTT 3.x broker in Go that can run as a cluster. Paths below are those of the
repository (`src/`); `broker/processor.go:48` is a line there. `PROJECT.json` names, for every
definition that models code, the lines it models.

## 1. The system

| part | state | operations | called by |
|---|---|---|---|
| topic store, `trie/` | `foliage` (sync.Map: exact topic -> leaf), branches and leaves for wildcard filters and retained messages, one mutex | Subscribe, Unsubscribe, Subscribers, RangeTopics, AddRetain, RemoveRetain, SearchRetain | every goroutine of the broker and the cluster; a server has two tries, BrokerTopics and ClusterTopics |
| broker processor, `broker/processor.go` | `qos2Msgs` (message id -> second), a plain map | one handler for every kind of packet, the sweep of `qos2Msgs` by timers | goroutines of clients, timers |
| broker client, `broker/clients.go`, `broker.go` | connection, context, identifier, topics, will | Handler, ReadLoop, Close | one goroutine for each connection; `Close` also by the goroutine of a connection with the same identifier |
| server state, `server/`, `ifs/` | Clients and Clusters (sync.Map), counters | atomic additions, Load, Store, Delete | all of them |
| cluster, `cluster/` | a Client for each link, with its topics | CheckHealthy every 20 s, HandlerServer, HandlerClient, SyncTopics, handlers of packets | one goroutine for each end of a link, and the broker's handlers, which write to the links |
| packets, `packets/` | none | ReadPacket, Write and Unpack of 14 kinds of packets | ReadLoop, WritePacket |
| state loop, `broker/broker.go` | a ticker | loads the counters one by one, publishes them on `$SYS` topics | its goroutine |
| configuration, `config/` | the settings | conf.toml, flags, the file of `-c`, `-clusters` | main, before anything else runs |
| listeners, logger, main | sockets | accept, dial | |

What is hard, part by part:

- **Topic store.** The tree is walked under a mutex, but the accesses to `foliage` are not
  protected: Load, Store, AddSubscriber, Delete of different connections interleave. Branches are
  shared by filters and retained messages and are cleaned when a leaf goes. Correct: a publication
  reaches the clients whose filters match and nobody else, a new subscription gets the retained
  messages that match, nothing is left behind.
- **QoS 2.** One table for all clients, without a lock, changed by handlers and by timers that
  sweep it as a whole; PUBREC may be lost, the client sends again. Correct: a message is published
  exactly once, an acknowledged one is published, an id becomes free again.
- **Sessions.** A second connection with the same identifier closes the first while its goroutine
  is anywhere in its loop; the cleanup of the first one runs late, by identifier. Correct: one open
  connection for an identifier, the will published if and only if there was no DISCONNECT, what a
  client believes to be subscribed is in the trie, nothing of an ended one is.
- **Delivery.** A handler writes to other connections while it runs; a write has no deadline and may
  fail or go nowhere. Subscribers are a snapshot, subscriptions and retained messages change
  meanwhile. Correct: a message comes once, in its publisher's order, to everyone who was subscribed;
  a new subscriber gets the retained message; no handler waits for ever.
- **Counters.** Atomic additions, and decisions between them; a report reads them at different times.
- **Configuration.** Registering, parsing and decoding assign the same variables one after the other.
  Correct: the file goes before the flags, these before conf.toml, each to its own setting.
- **Cluster.** Both nodes dial; links are replaced by name, old ones clean up by name; topics are
  announced while they change. Correct: two nodes that can talk have a live link, and know each
  other's subscriptions.
- **Packets.** The framing must survive every length; fields cut short are read without an error.

`PROJECT.json` lists the hazards line by line, with the properties that would see them go wrong.

## 2. The modules

| module | models | runs |
|---|---|---|
| `TopicStore` | what the topic store promises: a table of subscriptions and one of retained messages | |
| `Trie` | the trie as a value and its operations as operators | |
| `TrieTheorems` | lemmas about the operators of `Trie` | |
| `TrieStore` (`MCTrieStore`), `TrieStoreProofs` | the operations one after the other, with their answers and `State.Retain`; implements `TopicStore` but for two departures | `trie` |
| `Foliage` (`MCFoliage`), `FoliageProofs` | Subscribe and Unsubscribe of one exact topic, access by access | `foliage`, `foliage_lost` |
| `Qos2` | the table of QoS 2 messages, handlers and timers, any packets | |
| `Qos2Flow` (`MCQos2Flow`), `Qos2FlowProofs` | `Qos2` with clients that follow the protocol, choose their ids and reconnect | `qos2_flow` |
| `Session` (`MCSession`), `SessionProofs` | the life of connections over `Trie` and the counters | `session`, `session_successor_unsubscribed` |
| `Delivery` (`MCDelivery`), `DeliveryProofs` | from PUBLISH to the subscribers, on one node and over links, with connections that can be full | `delivery` |
| `ClientCount` | ClientsConnected and ClientsMax | |
| `StateLoop` (`MCStateLoop`), `BrokerProofs` | `ClientCount` with the state loop reading | `counters` |
| `Cluster` (`MCCluster`), `ClusterProofs` | nodes, links that break and replace each other, and what is told over them | `cluster`, `cluster_shared_topic` |
| `Config` (`MCConfig`), `BrokerProofs` | how a setting gets its value | `config` |
| `Wire` (`MCWire`) | encoding and framing of packets | `wire` |

`Session`, `Cluster` and `Delivery` overlap on purpose. `Session` has the real trie and connections that
take each other's place, `Cluster` has links that come and go; in both a write never waits. `Delivery`
has one topic and stable links, and looks at what is written to whom and at who waits for whom.

How state and actions correspond to the code:

- A goroutine is a `pc` function; an action is the stretch from one access to shared state to the
  next, with the local statements around it. Operations under `Trie.mu` are one step.
- `Trie`: a `Branch` is named by its path, so that `b.parent` and `b.branches` need no pointers; a
  topic is the sequence `strings.Split(topic, "/")` returns. `TrimSpace` is the function `Padded`.
  The order in which Go ranges over a map matters only in RemoveRetain, which is nondeterministic.
- `TrieStore`: an action is a call with what its caller makes of the answer: `PublishRetain` and
  `PublishEmptyRetain` count as `processor.go:133-145` does, `LinkPublishRetain` is the call of
  `cluster/processor.go:44`, which does not count. `exist` is the answer to the last call, `dropped` the
  number of messages links removed. `Matches` is MQTT's rule (4.7.1, 4.7.3), a leading `/` being a level
  of its own; `LevelsMatch` is what is left of it in a tree that drops that level (`trie.go:34` and
  wherever else `index` is set).
- `Foliage`: `LoadLeaf`, `MakeLeaf`, `StoreLeaf`, `AddSubscriber`, `CountSubscription` are
  `trie.go:23-39` and `processor.go:176-179`; `LoadForRemoval`, `RemoveSubscriber`, `CheckLength`,
  `DeleteLeaf`, `UncountSubscription` are `trie.go:58-66` and `processor.go:156-159`. `pinned` are
  identities subscribed before and throughout. A `Leaves` value nobody refers to is reused, as the
  garbage collector would.
- `Qos2`: `CheckSave`, `StoreMsg`, `ArmTimer`, `WritePubrec`, `Publish` are `processor.go:40-50` and
  `117-127`; a timer goes `Fire`, `FindExpired`, `DeleteExpired`, ..., `EndSweep`. The clock counts
  seconds, as `time.Now().Unix()` does. `Qos2Flow` adds `flow` (what the client waits for),
  `wire` (the answer on its way), `source` (whose message a handler has in hand). A write of PUBREC
  fails only if the connection broke. Clients choose ids independently, the same one included, and may be
  back while the goroutine of the broken connection still runs (`Overlap`). Three histories are for the
  properties: `tried`, that a packet has been handled before; `late`, ids still to be stored when
  the client reconnected; `exposed`, messages that may be sent again and whose id is no longer (or not
  yet) in the table.
- `Session`: `pc` runs through takeover, connack, register (ProcessConnect), loop and read
  (ReadLoop), subscribe and unsubscribe (a topic at a time, as the loops do), will, close, clean,
  leave (ProcessDisconnect). A write to a connection that is closed succeeds or fails: `WritePacket` returns
  nil once `conn` is nil, and an error between `conn.Close()` and that assignment (`clients.go:91-95`,
  `127-128`). `graceful`, `willSent` and `cleaned` record what happened.
- `Delivery`: there is no `pc`; `work` is the list of steps a handler has yet to do. `Steps` makes it
  from the packet, in the order of the statements of the handler (`processor.go:102-200`,
  `cluster/processor.go:37-84`), and a step may put others in front: `Match` the writes to the
  subscribers found, `Subscribe` the search for a retained message. The history map of DoPublish is
  `told`. `buffer` is what was written to a connection and not yet read; at the end of a link it is
  the handler's input. `log`, `due` and `owed` record what happened. With one topic, Filters are names
  of filters that match it.
- `ClientCount`: a connection goes through the four operations of `processor.go:268-270` one at a time and
  leaves at `217`. `LeaveUncounted` is the one whose CONNACK failed, which is subtracted and was never
  added; `StayCounted` the one that ends at the top of its loop, or sends a second CONNECT, and is
  never subtracted. `peak` and `raised` are histories.
- `StateLoop`: `at` counts the entries of the composite literal (`broker.go:80-101`) that are loaded,
  and `Order` has those that are about clients.
- `Config`: a value is the place it comes from. Registering a flag assigns the default, as the `flag`
  package does; `clusters` is the local variable, `flagged` the one `fs.String` allocates.
- `Cluster`: an end is a link and a side. `clusters` is Clusters, `remote` is ClusterTopics, `local`
  is BrokerTopics without wildcards; `task` is what a broker goroutine still has to do after it
  changed BrokerTopics. Packets to one end are a queue.
- `Wire`: bytes are runs `<<byte, times>>`, so that a payload of 268 MB is one pair.

Steps that are merged, and why nothing is lost: in `TakeOver` and `ReplaceOld`, Load and Close of the
old client (Close of a client twice, or of one that has left the map, does nothing more); in `Close`,
the cancellation and the closing of the connection (the reader sees the first only at the top of its
loop, the second only in ReadPacket, and either is possible after the step); in `DeleteLink`, Delete
and Close (an old connection closed a little later); in `Forward`, the writes to all links, which is
exact for two nodes; in `StoreMsg`, the reading of the clock and the assignment; in `Match`, all of
Subscribers (the trie is walked under its mutex, and one exact topic is one leaf); in `ReadError` of
`Delivery`, the closing and the reading of `topics`, which is the goroutine's own; in `Expect`, only
history.

## 3. The runs

Every bound is a CONSTANT or a guard marked "bound".

| run | instance | shows |
|---|---|---|
| `trie` | filters `a/b`, `/a/+`, `a/#`; topics `a`, `a/b`, `/a/b`, `a/b/c`; two identities (symmetric), one client object, one message; links remove at most one retained message (`MaxDropped`) | all operations in any order: who is found and who should be, retained messages, cleaning, `State.Retain`, and that the trie implements `TopicStore` with its answers, but for two departures |
| `foliage` | three connections, three leaves, nobody or one identity pinned | no delivery after Unsubscribe; with somebody pinned, no lost subscription and a correct SubCount |
| `qos2_flow` | two clients that share the one id; the first has two messages and one reconnection, with `Overlap`, the second one message; three handlers, two timers, `Qos2Timeout` 1, saves before second 2 (`Horizon`) | a message is published twice, or refused at first, only in the ways named; nothing acknowledged is lost, nothing in the table forgotten, the table drains |
| `session` | two connections, two identifiers, one with a will, filters `a` and `a/+`, CONNECTs of one identifier one after the other | will, takeover, cleanup, subscriptions, termination |
| `counters` | three connections (symmetric), each of which connects any number of times or is miscounted, and the state loop; the view leaves out a number loaded and no longer used, and `raised` | ClientsMax is within a factor of two of ClientsConnected and of the most connected; a report keeps to the same bound |
| `cluster` | two nodes that dial each other, one client each, one topic; either one link and three operations, or two links and no operation | what SyncTopics and the handlers tell is enough; CheckHealthy is never kept from dialing |
| `delivery` | a publisher, two subscribers and a client at another node, two filters; five programs: `Overlapping`, `Retaining`, `TwoNodes`, `RetainTwoNodes`, `Mutual`; one packet fits into a connection, four into a link | once, in order, to all, with the retained message; no handler is stuck |
| `config` | up to three flags out of all, a file with some settings or none | precedence, whatever the order |
| `wire` | every kind of packet, ten lengths around the boundaries, two packets in a row; every PUBLISH and SUBSCRIBE body of up to six bytes out of four | reading in step, unchanged relaying |
| `foliage_lost` | nobody pinned | SubCountIsActive is violated: a leaf is overwritten by a second first subscriber |
| `session_successor_unsubscribed` | one identifier | SuccessorIsServed is violated |
| `cluster_shared_topic` | two clients at a node | SubscribersKnown is violated |

Why the bounds are enough for the cases meant: the races of `Foliage` need two connections, the third
is the one that loses; in `qos2_flow` one reconnection loses PUBREC or PUBCOMP, or leaves a second handler of the client behind, two
messages reuse an id, a client with the same id gets in between, and with `Horizon` beyond `Qos2Timeout`
messages are saved again after a sweep, so that every way to a second publication is there (TLC finds
`PublishedOnce` violated through each); two connections are enough to leave ClientsMax
too low, or too high after they have come again, and the third compares with the result; two connections are what takeover is about, and two filters that share a branch what cleaning
is about; two links are an old one and its successor. `Budgets` divides the operations between links
and clients, because both at once are out of reach; `Delivery` has the packets over links that
`Cluster` then leaves out. A connection that takes one packet makes every second write wait, and three
flags are enough for one to be repeated around another. The number of digits of `encodeLength` changes
at the lengths listed; PUBLISH bodies of six bytes are long enough for a topic, an id and a payload, each
possibly cut short.

`CHECK_DEADLOCK FALSE` stands where the system comes to rest: clients have sent all their messages,
connections are closed, links are used up.

**Fairness.** `session`, `qos2_flow` and `delivery` check liveness, under weak fairness of what runs by itself:
the steps of a goroutine that waits for no packet, the steps of a timer's goroutine, and the clock.
The Go scheduler runs every runnable goroutine, `time.AfterFunc` fires, and a blocked read returns
once the connection is closed. Nothing is assumed of clients, of the network or of packets in the first two. In `delivery` a
write may wait for ever, so that a client is assumed to read what it gets unless it goes away: TCP's
own timeouts end the third case, a peer that vanished silently. `Runs` is fair as a whole because a
goroutine does one thing at a time.

## 4. What is proved

With TLAPS, for every value of the constants that satisfies the ASSUMEs:

- `FoliageProofs` (`LeavesAssumption`, `PinnedAssumption`): `TypeCorrect`; `UnsubscribedIsUnreached`,
  `Spec => []NoGhostDelivery`; `PinnedLosesNothing`, `Spec => []NoLostSubscription`. NoGhostDelivery is
  not inductive: a connection may be about to store a leaf that was loaded by others. `IInv` adds that
  a leaf made and not yet stored is empty and in nobody else's hands, and that a connection that is
  removing itself is reached through its own leaf at most. `OnlyLeaf0`, relative to `IInv`, says that
  with a pinned subscriber nobody finds the topic without a leaf or the leaf empty, so that neither
  Store nor Delete is ever reached. `CountFits` adds that SubCount is the number of subscriptions counted and
  not yet subtracted, and gives `PinnedCountIsRight`, `Spec => []CountedWhilePinned`.
- `TrieTheorems` and `TrieStoreProofs` (`FilterAssumption`, `TopicAssumption`, `NoRetainAssumption`): for any sets
  of filters, topics, identities and messages, `TypeCorrect`; `EverySubscriberFound`,
  `Spec => []NoSubscriberMissed`; `StrangersAreKnown`, `Spec => []OnlyKnownStrangers`; `RetainedAreFound`;
  `BranchesLive`, `Spec => []NoDeadBranch`; `RetainIsCounted`, with the messages that links removed; and
  `Refinement`, `Spec => ImplementsTopicStore`. The oracle of the first ones is MQTT's matching, not the
  code's, so that they name where the code departs from it: a leading `/` that only one of filter and
  topic has (`SlashApart`), the leaf in the parent of a `#` branch (`LeftBehind`), and `#` for no level in
  SearchRetain (`OfParent`). `MatchesByLevels` is the bridge: where neither or both have the `/`, MQTT's
  matching is that of the levels the tree is made of. `TopicStore` is the plain one, answers included;
  `ImplementsTopicStore` pairs every call with the same call of it, and writes the two departures out with
  what they do instead (`RemovesAnother`, `AnswersForAnother`). Where neither happens, the trie implements the
  whole specification: `ImplementsUnlessDeparting`, `Spec /\ [][~ Departs]_vars => Store!Spec`.
  The inductive invariant is `TrieShape`, a constant-level predicate
  on the value of a trie so that `Session` can use it, too: the leaves of a filter are at
  the branches GetBranch returns for it and nowhere else (`LeafPathsOf`), the two leaves of a `#` filter
  hold what they should of each other, every branch has its parents and a leaf in it or below it.
  `TrieTheorems` has a lemma for every operation: it keeps TrieShape, and changes SubsOf (or Retained) in one
  place. Cleaning is the hard part: `CheckClean` stops at the first branch that is needed, and it
  needs AllBranchesLive to know that no branch further up is dead. What is found then follows from
  how paths and filters match. The assumptions say that filters and topics are
  well formed (`WellFormed`): not empty, no blanks around a level, `#` last, no wildcards in topics. MQTT
  (4.7) asks that of clients, except for the blanks; the code checks none of it. What the code does
  with the others is in the hazards (branch.go:37, trie.go:113).
- `Qos2FlowProofs`, about `Qos2` (`IdAssumption`, `TimeAssumption`): `TypeCorrect`; `EveryMessageSeenTo`,
  `Spec => []NoMessageForgotten`. The strengthening follows the handlers between the assignment and
  the timer, and the sweeps, which delete what other handlers saved.
- `Qos2FlowProofs`, about `Qos2Flow` (`ConnectionAssumption`, `BoundAssumption`):
  `AcknowledgedPublishes`, `FlowSpec => []AcknowledgedIsPublished`, for any ids, shared or not, and also
  with `Overlap`. The table plays no part in it: the invariant says that the handler of a client's
  connection has the message in hand that the client waits for (`HandlesCurrent`), that an answer on
  its way is that to the packet last sent (`AnswerFits`), and that connections are not shared.
  `FlowImplementsQos2`, `FlowSpec => Spec`: these clients are an environment of `Qos2`; with it,
  `FlowMessagesSeenTo` is NoMessageForgotten for them.
  `FirstSends`, `FlowSpec => []RefusedForOthers`: what is in the table belongs to a client (`Owned`): one that
  waits for the answer to a packet with that id (`Owns`), or it was stored `late`. `LateStores` says
  that a handler about to store does so for the client of its connection, or its id is in `late`.
  `PublishesOnce`, `FlowSpec => []OnceUnlessExposed`: for a message that is not `exposed`, its
  handler is about to store it or the table has its id, as long as it may be sent again (`Guarded`), so
  that a repetition is refused and one handler at most has it in hand, before it is published
  (`HandledOnce`). Neither has a hypothesis: ids may be shared, messages are saved at any time, clients
  may have several handlers. What MQTT asks for is more (`FirstSendAccepted`, `PublishedOnce`), and the
  code does not do it (section 5).
- `SessionProofs` (`IdentityAssumption`, `PacketAssumption`, `ScenarioAssumption`): `TypeCorrect`;
  `DisconnectSilencesWill`, `Spec => []NoWillAfterDisconnect`; `SerialTakeOver`,
  `~ Overlap /\ Spec => []OneOpenPerIdentity`. None of these needs to know what the operators of `Trie` do. For
  TypeOK the invariant adds what a connection without an identifier can be; for the will, that a
  graceful connection is past the place where wills are published (`GracefulLeaves`, `WillIsLast`); for
  the takeover, that an open registered connection is the one in Clients (`OpenIsEntered`) and that
  whoever is about to register has closed the one before (`TakenIsClosed`).
  Over `TrieTheorems` (`FilterAssumption`): `CleanupForgets`, for filters that do not end in `#`,
  `Spec => []CleanedIsForgotten`; `AloneServed`, `Spec => []AloneIsServed`. Both under
  `[][KeepsIdentifier]_vars`, however many CONNECTs a connection sends: a client that sends one with another
  identifier leaves what it subscribed under the first. `OneConnectServed` is the case of the run: with
  `MaxConnects <= 1` every behaviour satisfies the condition (`OneConnectKeeps`). The invariant, `TreeInv`, relates the trie to `topics`: what it holds it holds for a client with that
  identifier that knows of it (`HeldIsBelieved`), the converse for those who are alone with it
  (`BelievedIsHeld`), and after the cleanup has begun nothing is subscribed (`TakenDown`).
- `DeliveryProofs` (`ConnAssumption`, `FiltersAssumption`, `MessageAssumption`, `ProgramAssumption`,
  `RoomAssumption`), for any programs of any number of clients on any number of nodes, linked or not:
  `TypeCorrect`; `MessagesComeOnce`, `Spec => []AtMostOnce`; `MessagesComeInOrder`, `Spec => []InOrder`;
  `RetainedComes`, `Spec => []RetainedIsSent`; `NobodyIsMissed`, `Spec => []NoneMissed`. The assumptions say that programs are well typed and that a client
  numbers what it publishes; filters may be shared, and identifiers, too. The first two rest on one lemma,
  `StepKinds`. A message for one client is in *places*: with its publisher (`requests`), with a handler (the
  steps of `work` that make it reach that client, `StepsWith`), in a link (`buffer`), with the client (`log`).
  Every step either hands the head of a place on to the next one along the way
  (`Hands`), or leaves it with the handler in another form (`Keeps`: `Match` makes a list of subscribers of it,
  `PickRecipient` a write), or drops it. From this `OnceInv`: a message that is not retained is
  in one place at most, once. `OrderInv`: no place has a message of a publisher
  before an earlier one, and in different places the earlier one is further on (`Rank`), because there
  is no place between the two that `Hands` connects (`Along`). `told` and the two loops of DoPublish
  matter in `PickPasses` and `StepsOnce`: whom a handler has written to is not written to again, and what comes
  over a link goes to clients only. `RetainedComes` has an invariant of its own, `OwedInv`: who is owed a retained message has one
  on its way, or its handler is before SearchRetain and the node retains one of those owed.
  `NobodyIsMissed` has `DueInv`: who is to get a message stays up and subscribed (`Served`, by `FiltersStay`),
  and the message is at some place after `requests` on the way to it (`Coming`). A step that takes it from a
  place puts it at the next (`WriteArrives`, `StepsCome`) or goes on with a step that will reach the client
  (`GoesRight`, which needs `Served` where `Match` looks the subscribers up). `WriteError` gives up a list of
  steps; `Untouched` says that it is then still the whole handler of a PUBLISH, so nobody has got the message,
  and it is not due. Its two hypotheses are conditions under which the code keeps the promise:
  `OwnIds`, identifiers are not shared (section 5), and `KeepFilters`, clients of linked nodes do
  not unsubscribe. Without the second TLC finds a client that unsubscribes and subscribes
  again and misses a message: the UNSUBSCRIBE told over the link is handled after it has subscribed, and before
  its SUBSCRIBE. `NoneTold` carries the second hypothesis from the programs to the links.
- `ClusterProofs` (`NoEndAssumption`): `TypeCorrect`; `NoDeadEntry`, `Spec => []EntryIsServed`, for any
  number of nodes and links. EntryIsServed is not inductive: an end is closed by the one that will
  replace it, and ends later. `IInv` says that a closed entry is being replaced from the moment it is
  closed (`ClosedIsReplaced`), that an entry takes itself out before it cleans up and ends
  (`EntryEndsClosed`), and that an entry belongs to the two nodes it is filed under (`EntryIsPlaced`).
  `SubscribersAreKnown`, `Spec /\ [](Successive /\ LastUnsubscribes) => []SubscribersKnown`, for any nodes, links,
  clients and topics: settled nodes know each other's topics. `EndsToldOf` says it of the states in between: of a topic
  with a subscriber, the node is about to tell the other (`Telling`: SyncTopics has not come to it, or a client has it to
  forward), or the other `Knows` it (a record of the link, or a SUBSCRIBE on the way, with no UNSUBSCRIBE after it). A
  step of `Telling` writes to the other end, because the link in Clusters is the one that runs (`RunningIsEntered`) and
  SyncTopics writes over its own (`SyncOwn`); what is known stays, because what is on the way only grows at the end
  or is read at the front (`InboxChange`), CONNECT is read first (`Silent`), and no other end of the node writes the
  record (`OnlyOne`). The hypotheses are when the code keeps the promise. `Successive`: the goroutines of an old link
  are over when the next one starts; otherwise `CleanTopic` of the old end takes the record of the new one (section 5).
  `LastUnsubscribes`: otherwise the run `cluster_shared_topic` shows what happens. `OthersOnly`: the list of clusters
  is that of the other nodes (conf.toml:45). One link and one client a node, the first of the budgets of the run
  `cluster`, satisfy both.
- `BrokerProofs`, on `ClientCount` and `StateLoop` (`ConnsAssumption`: there are finitely many connections):
  `MaxWithinTwo`, `Spec => [](MaxCoversHalf /\ MaxBelowTwicePeak)`, for any number of connections whose steps
  interleave in any way; `ReportsAreCovered`, `LoopSpec => []ReportCovers`. For the lower bound the
  invariant says that those who raised the maximum are no more than it is, that those who did not have
  seen no more than it is (`MaxCoversSeen`), and that of any set of connections that have loaded
  ClientsConnected one did so last and saw all but those who came later (`LastCounted`): the set of those who
  did not raise gives the factor of two (`HalfCovered`). For the upper bound, that the maximum and those
  about to raise it are together below twice the peak (`UpToPeak`), because they all compared before
  the first of them raised. For the report, that what is loaded so far is
  covered by the maximum of now, which only grows, or once loaded by the maximum loaded: it needs
  the order in which the numbers are loaded.
- `BrokerProofs`, on `Config` (`FilesAssumption`): `LastFlagCounts`, `ConfigureSpec => []SettingsPrecede` for
  any file and any number of flags. SettingsPrecede speaks of the end only; `ConfigureInv` says for every
  stage where a value comes from: while flags are registered, that of a setting that is not Miswired is the one
  of conf.toml, for its flag has it as its default (`Wiring`, about the 18 registrations); then
  it is that of the last flag given (`FromLastFlag`, `OneMoreGiven`); after the file has been decoded, that of
  the file where it has one. `clusters` stays Unset, because it is read before Parse, so the last step changes nothing.

`PinnedLosesNothing` and `PinnedCountIsRight` speak of topics with a subscriber that stays,
`SerialTakeOver` of serial connects, `NobodyIsMissed` of clients with
identifiers of their own that keep their filters, `CleanupForgets` and `AloneServed` of clients that keep
their identifier, `SubscribersAreKnown` of successive links and last
unsubscribers, because that is when the code keeps
the promise: the run `foliage_lost` and section 5 show what happens otherwise.

Only model-checked: liveness (out of the prover's reach) and the properties of `Wire` (induction over data).

## 5. Where the code departs from what it says

The three `violation` runs are listed under `findings`. Other statements of the source were found to
be false by TLC while the modules were written; the definitions are in the last section of the modules
and can be checked by putting them in place of the INVARIANTs of the run named.

| definition | statement | run and change | what happens |
|---|---|---|---|
| `TrieStore!NoStrangerServed` | MQTT 4.7.3, 3.10.4 | `trie` | filter `/a/+` is served the topic `a/b`, because the tree drops a leading `/` (trie.go:94); and a `#` filter is served after UNSUBSCRIBE, through the leaf in the parent branch (branch.go:49) |
| `TrieStore!NoSubscriberMissed` | MQTT 4.7.3 | `trie`, without `~ SlashApart`, filter `+/a`, topic `/a` | the filter has a level more than the path of the topic |
| `TrieStore!RetainedMatch` | MQTT 3.3.1.3 | `trie` | `a/#` is not handed the message of `a`; `/a/+` is handed that of `a/b`, and an exact `a/b` that of `/a/b` |
| `TrieStore!RetainIsActive` | i_server.go:55 | `trie` | a link removes a retained message and State.Retain stays (cluster/processor.go:44) |
| `TrieStore!OwnRemoved` | cluster/processor.go:41 | `trie` | RemoveRetain of `a/b` takes the message of `/a/b` |
| `TrieStore!ImplementsTopicStore` | i_topic.go:5 | `trie`, without `AnswersForAnother` | Unsubscribe answers true for who is not subscribed, if another is |
| `Session!WillSentUnlessGraceful` | clients.go:41 | `session_successor_unsubscribed` | a connection taken over ends at the top of its loop; or the PUBACK of a QoS 1 will cannot be written and ProcessPublish returns |
| `Session!EndedIsForgotten` | processor.go:206 | same | the same exit skips ProcessDisconnect |
| `Session!ConnectedIsCounted` | i_server.go:18 | same | the same exit is not counted; a connection whose CONNACK failed is subtracted though never added |
| `Session!SubscriptionsAreCounted` | i_server.go:66 | same, `Unsolicited = TRUE`, two identifiers | Unsubscribe is true for any topic with a leaf |
| `Session!CleanedIsForgotten` | processor.go:206 | same, `Filters <- OneHash` | the second leaf of a `#` filter stays |
| `Session!OneOpenPerIdentity` | | same, `Overlap = TRUE` | two CONNECTs pass Load together |
| `ClientCount!MaxCoversConnected` | i_server.go:26 | `counters` | a client compares what it loaded before another was added with the maximum that the other one has raised: two are connected, the maximum is 1 |
| `ClientCount!MaxWasConnected` | i_server.go:26 | `counters` | two clients compare before either raises, when one of them would do: the maximum was never reached |
| `StateLoop!ReportAgrees` | broker.go:83-84 | `counters` | connected and active are one counter, loaded twice |
| `Delivery!SubscriberIsCurrent` | processor.go:181 | `delivery` | SUBSCRIBE between DoPublish and AddRetain: the new message is never sent |
| `Delivery!RetainedInOrder` | same | same | SearchRetain finds the old message, its write comes after the new one's |
| `Delivery!NoneMissed` | processor.go:79 | `delivery`, `Programs <- LeftoverOnly`, `IdOf <- Successor` | a connection that was taken over is still in the trie and, found first, hides its successor from the same publication |
| `Delivery!HandlersEnd` | | `delivery`, `LinkRoom = 1`, subscribers of both filters at both nodes | both nodes write SUBSCRIBEs and neither reads |
| `Qos2Flow!FirstSendAccepted` | README.md:4, MQTT 2.3.1 | `qos2_flow` | message ids of different clients are one key: the second message is dropped without PUBREC |
| `Qos2Flow!PublishedOnce` | config/constant.go:6 | `qos2_flow` | a repetition after the message expired, after another client's PUBREL released the id, or before the old handler stored it |
| `Cluster!SubscribersKnown` | broker/processor.go:90 | `cluster`, `Budgets` with two links and an operation | the old link cleans a topic recorded for the new one |
| `Cluster!LiveIsEntered` | cluster.go:217 | `cluster` | the old link deletes the entry of the new one; the node is dialed again every 20 seconds |
| `Cluster!StrangersUnknown` | same | `cluster` | a client that is gone is not announced |
| `Cluster!EndedIsForgotten` | cluster/processor.go:91 | `cluster`, `Budgets` with two links and an operation | exit at the top of the loop |
| `Cluster!OneRetain`, `RetainStays` | cluster/processor.go:42 | `cluster`, retained messages at both nodes | two nodes keep one message each, or both drop theirs |
| `Config!UsageHolds` | config.go:63, 77, 80 | `config` | -ws-tls is bound to `Websocket`, -tls has the default of `ClusterTls`, -clusters is read before Parse |
| `Wire!OneReturnIsNil` | packets.go:110 | `wire`, a frame with a body too short | Unpack's error is returned with the packet |

The properties that are checked in their place say how far the code keeps to the statement and name
what they set aside: OnlyKnownStrangers, RetainedFound, RetainCounted, ImplementsTopicStore,
MaxCoversHalf and MaxBelowTwicePeak, RefusedForOthers, OnceUnlessExposed.

## 6. Not modelled

- The counters that only count up, and the numbers of the state loop other than those about clients.
- The runtime's reaction to unlocked maps and to a nil connection (the hazards name the lines): the
  models take such an access as one step.
- Wildcard filters told over links, and with them the empty foliage leaves RangeTopics announces; more
  than two nodes; links that break while they are full (`Cluster` has links that break, `Delivery`
  links that fill up).
- Connections that take each other's place in `Delivery`: `LeftoverOnly` starts from what they leave.
- Keepalive, which the broker reads from CONNECT and does not enforce; cancellation of the server's
  context, which nothing calls.
- Levels with blanks in an instance (the operators have them), and topics that begin with `$`, which
  MQTT 4.7.2 keeps from filters that begin with a wildcard and the code does not.
- Sockets, TLS, websocket, logging.

## 7. Plan

All parts that have state are there. Next, in this order:

1. `Delivery`: the links of `Cluster` in place of the stable ones.
2. `Cluster`: a third node in the instance, wildcard filters.
