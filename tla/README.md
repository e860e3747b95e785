# A verification of cobalt

cobalt (`src/`) is a Rust library that gives games virtual connections over UDP: a client and a
server, connections with acknowledged packets and time-outs, and three kinds of messages
(Instant, Reliable, Ordered). The modules here model its protocol in TLA+. TLC checks small
instances of them, and TLAPS proves the main results for all sizes. Line numbers refer to the
files under `src/src/`.

## 1. The system

| Component | State | Operations | Talks to |
|---|---|---|---|
| `MessageQueue` (shared/message_queue.rs) | three send queues, receive queue, heap and set of early Ordered messages, two 12 bit order counters | `send`, `send_packet` (pack by quota), `receive_packet`, `lost_packet`, `received`, `dismiss`, `reset` | owned by a Connection |
| `Connection` (shared/connection.rs) | state, two times, sequence numbers modulo 256, `sent_ack_queue`, `recv_ack_queue`, event list, rtt and loss statistics | `send`, `events`, `receive_packet`, `send_packet`, `close`, `reset`, `set_config` | queue, rate limiter, packet modifier, socket |
| `Client` (client.rs) | one Connection, event queue, `should_receive` | `connect`, `receive`, `send`, `reset`, `disconnect` | Connection, socket, Ticker, StatsCollector |
| `Server` (server.rs) | Connections and addresses by id, list of dropped ids, event queue | `listen`, `accept_receive`, `send`, `shutdown` | as Client, for many Connections |
| `BinaryRateLimiter` | mode, times, delay, tick | `update`, `congested`, `should_send`, `reset` | asked by `Connection::send_packet` |
| `StatsCollector` | ring of buckets with a running sum | `set_bytes_*`, `tick`, `set_config`, `reset` | Client, Server |
| `Ticker` | overflow of the last ticks in ns | `begin_tick`, `end_tick`, `reset` | Client, Server |
| `UdpSocket`, `NoopPacketModifier`, `Config`, traits | (thin) | | |

Within one process everything is sequential: an application calls `receive` and `send` in
turns. What makes the system hard is what happens between two processes: packets are lost,
repeated, delayed and reordered; counters of 8 and 12 bits wrap around and are compared with a
window of half their range; a packet taken for lost may still arrive; time-outs race with
packets; either end may close or die at any moment; and an acknowledgement is only a number
and 32 bits.

What makes each component correct:

* **MessageQueue**: Ordered messages come out in sending order, once, and as soon as those
  before them are there; Reliable and Ordered messages of a lost packet are queued again;
  a header is decoded as it was encoded; packing never exceeds the packet and always gets on.
* **Connection**: what it takes for acknowledged was processed by the peer; no message that
  must arrive is forgotten; repeated packets have no effect; the events tell the application
  the state of the connection; a gone peer is noticed; a close completes, and a connection
  counts as closed by the peer only if the peer closed it.
* **Server / Client**: maps, addresses and dropped list agree; one connection per peer; a
  reset starts from nothing.
* **BinaryRateLimiter**: mode changes follow the round-trip times, the delay stays within its
  limits, a congested connection still sends. **StatsCollector**: the average is the sum of
  the buckets. **Ticker**: the overflow is paid back and never negative.

`PROJECT.json` lists the hazards line by line, with the properties that cover them.

## 2. The modules

| Module | What it models |
|---|---|
| `Wraparound` | counters that start over, and the comparison of two of them |
| `MessageQueue` | message_queue.rs: a queue is a record, each method an operator on it |
| `OrderedMessages` | a sending and a receiving queue and the network between them, for one stream of Ordered messages |
| `FifoDelivery` | the promise of `MessageKind::Ordered`: a first-in first-out channel |
| `Acks` | sequence numbers, ack bit field |
| `Connection` | connection.rs: a connection is a record that contains a queue; `ReceivePacket`, `SendPacket`, `SendMessage`, `PendingEvents` / `Drained`, `Close` |
| `Link` | two Connections and a network of packets between them |
| `ConnectionLifecycle` | the state machine of both ends alone: packets reduced to data and closure, plus the death of a process; `Link` implements it |
| `ConnectionStates` | a connection as its owner sees it: states, ages, events, addresses; no packets. `Link` is checked to behave in this way |
| `Server` | server.rs: the maps of connections and addresses, dropped ids, events; `listen`, `accept_receive`, `send`, `shutdown`, and what the application does with a connection |
| `Client` | client.rs: `connect`, `receive`, `send`, `reset`, `disconnect`, `close` |
| `ClientServer` | a Server, a Client with several sessions, resets and ports, and the network between them |
| `Ticker`, `StatsCollector`, `BinaryRateLimiter` | one record each, with an operator per method |
| `HostLoop` | the loop of a host and those three |
| `MCOrderedMessages`, `MCLink`, `MCClientServer`, `MCHostLoop` | constants for TLC |
| `FoundationProofs` | lemmas about numbers, sequences and folds that the other proofs share |
| `MessageQueueProofs`, `OrderedMessagesProofs`, `LinkProofs`, `ConnectionLifecycleProofs`, `ServerProofs`, `ClientServerProofs`, `HostLoopProofs` | the theorems |

How the models relate to the code:

* **Messages and payloads.** The bytes of a message are a number, its length is given when it
  is sent. The header bytes are kept, since a packet modifier rewrites them: in the model it
  masks the byte that holds the kind (`Scrambles`). A payload is the sequence of its messages.
* **Heap and set.** `o_recv_heap` and `o_recv_set` are updated together, so one set of
  messages stands for both; "minimum of the heap" is by the raw order id, as in `Ord for
  Message` (l.55-61).
* **Time** is counted in ticks, one `send_packet` of each end per tick. `Instant`s are ages,
  counted up to the largest threshold they are compared with. `Elapse` ages a connection.
* **Rate limiter and socket** answer arbitrarily (`env` of `SendPacket`): the congestion state
  changes or not, the packet may be skipped, the socket may refuse it.
* **The network.** In `Link` a packet may be received any number of times, at any time, in any
  order, or never, until `MaxLag` newer packets of its sender have been sent. In
  `OrderedMessages` a message stays on the wire for good, and the two constants `Window` and
  `ReorderAcrossWrap` say what may arrive. In `ConnectionLifecycle` the network is a set of
  kinds of packets.
* **History variables** (`processed`, `acked`, `arrived`, `got`, `seen`) are for the properties.
  A packet has an `id` that the code does not have, for the same reason.

* **Hosts.** In `ClientServer` a tick is: wake, receive (a step per packet), let the application
  fetch its events and act, send, sleep. The applications follow the loops of the examples
  (client.rs l.84-108, server.rs l.80-94): they call `receive` or `accept_receive` until there
  is nothing left, then `send`. The server's application closes or resets a connection only
  while the events it has fetched say that there is one; the client's may reset, disconnect and
  connect again at any time, which for the server is also a client that crashed and restarted.
* **Ids and addresses.** Each `connect` draws a random id; in the model they are the numbers of
  the sessions, so two sessions never share an id. Addresses are numbered in the order a
  session uses them.
* **Newer packets.** `ConnectionStates` has no sequence numbers. Whether a packet is newer than
  the last is a free choice on a lossy network. Even a packet sent earlier, from a port the client
  has left, may count as newer: after a reset, after 128 lost packets, or when a closure packet
  established the connection, which sets `remote_seq_number` to 0 (connection.rs l.664-677,
  l.397). The address may therefore go back to an old port, and no property denies it. The
  wrap-around is the matter of `Acks` and `Link`.
* **Short packets.** 8 bytes are enough for a packet to reach a connection (connection.rs l.282),
  which takes none below 14 (l.384). In `ClientServer` whatever arrives may be cut short in this
  way (`Truncates`, `Arriving`). A connection ignores such a packet; a server makes a new one for
  it all the same (server.rs l.387).
* **Forgetting.** The acceptor of `ConnectionLifecycle` is a connection of a Server if `Forgets`: once
  `send` has found it over (`dropped`), the next `send` removes it (`Forget`, server.rs l.270-274)
  and the next packet makes another one. Without `Forgets` both ends are Connections by themselves,
  as `Link` has them.
* **Events.** The server's events are queued per connection, in the code in one queue. Congestion
  and packet-loss events, which tell nothing of the state, are left out of `ClientServer`.
* **Ticker, statistics, limiter.** A second has `Second` units of time and a recovery rate is a
  number of `RateSteps`-ths. `Fails` names an index out of bounds and a subtraction below zero,
  which stop the process (the latter in builds that check overflow). `HostLoop` varies the inputs
  of one component in each behaviour (`varying`): the three do not read each other's state, but
  for the congested connection that sends nothing.

`Link` refines `ConnectionLifecycle` (`LifecycleSpec`): its events are the log, its packets are
reduced to their kinds. Properties of the states are therefore stated and proved in the small
module, with fairness, and packets are explored in the large one. In the same way `ViewAgrees`
says that each step of a full `Connection` is, seen through `View`, one of the operators of
`ConnectionStates` that `Client` and `Server` are made of.

## 3. The runs

| Run | Checks | Bounds |
|---|---|---|
| `ordered` | `TypeOK`, `InOrder`, `AvailableAtOnce`, `IInv`, `FifoSpec`, `EventuallyHanded` | 6 order ids, window 3, 14 messages |
| `lifecycle` | `TypeOK`, `LogMatchesState`, `ClosedMeansPeerClosed`, `PeerGoneNoticed`, `CloseCompletes` | thresholds 1, 2, 1 ticks; a Client and a Server that forgets; the server's application may close |
| `link_messages` | `AckSound`, `ReliableKept`, `AtMostOnce`, `PackingGetsOn` | `OneScript`: either a Reliable and an Instant message, one to a packet, and an Ordered one that fits into none, with 3 packets of the initiator and 2 of the acceptor; or two Ordered messages, one to a packet, with 4 packets and 1; 4 order ids, lag 3 |
| `client_server` | `TypeOK`, `CollectionsAgree`, `EventsTellConnections`, `PanicHasCause`, `NothingDismissed`, `ClientKnowsState`, `SilentConnectionsEnd` | thresholds 1, 2, 1 ticks; two sessions, resets and changes of port altogether; two packets on their way to the server |
| `host_loop` | `TypeOK`, `OnSchedule`, `AverageIsLastSecond`, `FailsOnlyWhenOdd`, `StillSends`, `CalmRestores` | a second of 4 units with 1 or 2 ticks, work of 1 or 5, recovery off, half and full |
| `link_closing` | `LifecycleSpec`, `ViewAgrees` | 2 packets per end, both may close, any rate limiter, failing socket |
| `ordered_across_wrap` | violates `AvailableAtOnce` | 6 ids, 8 messages, early arrivals across the wrap |
| `lifecycle_mutual_close` | violates `CloseCompletes` | the thresholds of `lifecycle`; two bare Connections, both ends may close |
| `link_first_packet` | violates `ReliableKept` | a Reliable message from the acceptor |
| `link_modifier` | violates `ReliableKept` | `Scrambles` |
| `link_false_closure` | violates `NoFalseClosure` | 4 sequence numbers, 2 ack bits, no messages |
| `client_server_close` | violates `CloseFinishes` | thresholds 3, 6, 4; one session, a network that loses and delays nothing |

Why the bounds are enough:

* `ordered`: 14 messages over 6 ids are more than two turns of the counter, so an id is used
  three times; a window of half the range is the largest for which the comparison is right.
* `lifecycle`: thresholds above zero, two of them different, separate the time-outs;
  nothing else in the module is bounded. `CloseCompletes` is about a close by the server's
  application. One by the client's does not complete against a server that forgets, which is what
  `client_server_close` shows in the larger module.
* `link_messages`, first script: a message can be lost with its packet, be found lost by a later
  packet (`PacketDropThreshold` 1) and be sent again in the third packet, while the network
  repeats the first one. Sequence numbers do not wrap around within three packets. What the
  wrap-around does to acknowledgements is proved (`BitIndexIsDistance`, `AckRoundTrip`).
  Second script (the constraint `OneScript` keeps the two apart, so that the run stays small):
  with four packets each message can be taken for lost and sent again behind or ahead of the
  other (the messages of lost packets come back in reverse), and lag 3 lets an old copy arrive
  after the new one. Two of four ids is what can be compared (`FewOrdered`). The acceptor only
  receives and sends one packet, which acknowledges them.
* `link_closing`: two packets suffice to establish, to close and to answer; ticks on which the
  rate limiter skips the packet are not counted, so that all time-outs are reached.

* `client_server`: packets of a session that is over meet the connection of the next one, a
  connection is revived, ends and is removed while another lasts, and a packet sent from a port
  before it changed is still on its way. The ids are treated alike but for what the server's
  application does: it closes the first connection and resets the second, so that both
  happen, and both reasons for a panic that `PanicHasCause` names are reached, each by itself. Two packets at a time are enough for one of
  each of two sessions or addresses. The theorems lift all of these bounds.
* `host_loop`: work of 5 in a tick of 2 or 4 leaves an overflow that takes several ticks to make
  up for; ring sizes of 2 and 3 make the index wrap around and, after `set_config`, lie outside.
  `MaxTime` is above the longest tick. One `receive` is left out and one configuration set
  between two resets.

Deadlock is checked in `lifecycle`. It is switched off where the bounds (`MaxSends`,
`MaxPackets`, `MaxChanges`) end every behaviour, or where the process may stop: in `ClientServer`
by a panic, in `HostLoop` by a failure.

**Fairness.** `ConnectionLifecycle!FairSpec`: time passes; an end that is alive calls
`send_packet` each tick (applications call `Client::send` / `Server::send` in their loop; a
dead process is modelled and does nothing); packets do not stay in the network for ever. No
packet is assumed to arrive. `OrderedMessages!FairSpec`: queued messages are sent, the
application fetches, and a message that may arrive arrives in the end: the connection sends it
again until one of its packets is acknowledged, and the network does not lose every one.
`ClientServer!FairSpec`, used by the violation only: the loops of the hosts that are there go on,
and so does time; packets of sessions that are over get lost in the end. Nobody has to connect,
close or reset. `HostLoop!FairSpec`: the application keeps calling `receive` and `send`.

### What the violations show

1. **ordered_across_wrap.** The heap is ordered by raw order ids. A message that arrives early
   from behind the wrap-around (id 0 while 4094 is expected) is the minimum and hides those
   that are next, so messages that have arrived are not delivered.
2. **lifecycle_mutual_close.** In `Closing` every packet restarts the wait, so two ends that
   close at the same time keep each other from finishing as long as both send;
   `connection_closing_threshold` is documented as a maximum.
3. **link_first_packet.** `remote_seq_number` starts at 0 and is sent as an acknowledgement
   before anything was received. Packet 0 of the acceptor is then taken for acknowledged even if
   it is lost, and its Reliable messages are never sent again. `AckSound` names this exception.
4. **link_modifier.** `sent_ack_queue` stores packets as the modifier rewrote them, and
   `lost_packet` parses them as they are.
5. **link_false_closure.** A closure packet is told from a data packet by six header bytes that
   a data packet may also have: number 0, acknowledging 128, every other ack bit set. The latter
   takes the receipt of packet 128, and the loss of every other packet of the 32 before it.
6. **client_server_close.** A server removes a closed connection two calls of `send` after it got
   the closure packet. Its client is closing and still sends closure packets, as it has no
   confirmation. The first to arrive after the removal opens a new connection (server.rs l.375),
   whatever packet it is; the server sends data on it, that restarts the wait of the client
   (connection.rs l.662, l.394), and the next closure packet closes the new connection. With the
   thresholds of the run, in the proportion of the default ones to a tick, the client never gets
   to the end of the wait, and the server's application sees a client come and go for ever.

Three more disagreements were seen in smaller experiments with the same modules and are listed as
hazards: an Ordered message more than half the id space ahead is dropped although acknowledged;
a sequence number that is reused while its packet still waits for an acknowledgement is not
remembered (more than 256 packets within `packet_drop_threshold`); a closing connection takes
repeated packets for new ones. `BinaryRateLimiter` shows two more by inspection: the comment at
l.112-114 says that every 10 seconds in good mode halve the delay, but l.120-123 only clamp it
(so it never shrinks until a reset), and `last_bad_time` is set at l.77 just before l.97 compares
it, so that every drop doubles the delay and not only one within 10 seconds.

**A panic.** `unreachable!()` at server.rs l.418 is reachable. Nothing but a packet of 8 to 13
bytes is needed, with the protocol's header and an id the server does not know: the server makes a
connection for it (l.387), which refuses the packet (connection.rs l.384), stays `Connecting`, and
fails to connect in a `send` after `connection_init_threshold`, where the event cannot be mapped.
A `reset` of a connection by the server's application does the same if nothing arrives in time.
`PanicHasCause` says that there is no third way, neither here nor by `unwrap` (l.272) or the index
(l.282).

**Statistics.** The comment on `StatsCollector::reset` (stats.rs l.113-114) says that it "does not
reset the last calculated averages"; l.116-117 set them to 0. The averages are the running sums
that `set_bytes_*` goes on from, so the code cannot do what the comment says: with the buckets
cleared and the sums kept, every later average would be too high (this is the mutant
`StatsResetKeepsAverages`). `AverageIsLastSecond` speaks from the first tick after a reset on, and
leaves open what `average` returns before it.

What the passing runs say with an exception in their wording is a result, too. After a `reset` of
the client, events of the connection before the reset may still be delivered (`told = "unsure"` in
`ClientKnowsState`: connection.rs l.628-643 does not clear them), and a server that still has the
connection sees its number start over. The address of a connection of the server may go back to a
port the client has left. A `set_config` with another `send_rate` leaves the sums of the
statistics and the tick as they are: the average is wrong until a reset, and a smaller rate can
leave the tick outside of the buckets, an index out of bounds that a reset does not cure
(`FailsOnlyWhenOdd`).

## 4. The theorems

All are proved for every value of the constants that satisfies the named assumptions.

* **Ordered transfer** (`OrderedMessagesProofs`). `TypeCorrect` needs nothing else. The others
  hold under `ArrivalHypothesis`: arrivals are within half of the id space and none is early
  across the wrap-around. The code relies on both, and `ordered_across_wrap` shows that the
  second cannot be dropped. `InOrder` is not inductive. The invariant `IInv` adds that order
  ids are message numbers modulo `MaxOrderId` everywhere, that the receiver expects
  the id of its number of deliveries, that each message in the heap is as far ahead as its id
  says, and that whatever arrived is delivered or in the heap. The central lemmas say what the
  drain loop does (`DrainEffect`) and what an arrival is: late, early or expected
  (`ReceiveLate`, `ReceiveEarly`, `ReceiveExpected`). `Inductive` gives `DeliveredInOrder`, `AllAvailable`
  and `ImplementsFifo`.
* **Life-cycle** (`ConnectionLifecycleProofs`), with and without a server that forgets.
  `LifecycleTypeCorrect`; `LogsMatchStates`, if close() is not called on a connection that is over
  (`~CloseAnytime`: calling it then starts a new closing phase with another Closed event, so
  `LogMatchesState` is not checked for such applications); `ClosedOnlyByPeer`, with the invariant
  that only an end whose application closes is ever closing or has closure packets on their way.
* **Queues and payloads** (`MessageQueueProofs`). `HeaderRoundTrip`: every message of every kind, order id
  and 16 bit size is decoded from its four header bytes as it was encoded, and `HeaderBytes`:
  those are bytes. `PayloadRoundTrip`: the same for a whole payload. `PackingIsSound`: what
  `send_packet` packs together with what it leaves is what was queued, the packet has room for
  it, and it is not empty if the first message of some kind fits.
* **Counters** (`FoundationProofs`, `LinkProofs`). `MoreRecentIsLater`: numbers less than half
  the range apart are compared correctly. `BitIndexIsDistance`: the bit of a packet is its
  distance from the acknowledged one, across the wrap-around. `AckRoundTrip`: a receiver reads
  from the bit field exactly the numbers its peer has in `recv_ack_queue` and within reach.
* **Two connections** (`LinkProofs`), for every script of messages, number of packets, lag of the
  network, size of the number space, and answers of limiter and socket.
  - `AcksAreSound`, by the invariant `LinkInv`: an acknowledgement is the number of a processed
    packet (`Acknowledged`) because the numbers in `recv_ack_queue` and in the ack fields of the
    packets on their way are. Numbers stand for packets only until one is used twice
    (`NoNumberTwice`); what happens then is the hazard of `recv_ack_queue` (connection.rs
    l.476), and the theorem says no more. `LinkInv` itself holds for ever.
  - `NothingIsForgotten`, by `MessageInv`, which adds `KeptFor`: what was posted is queued, noted with an
    unacknowledged packet, or has arrived. Its hypotheses exclude what violations 3
    and 4 above show: the modifier leaves the bytes that hold the kinds alone (`~Scrambles`), and
    packet 0 of the acceptor has arrived or only the initiator posts.
  - `HandedOverOnce` (`AtMostOnce`) and `InstantsHandedOverOnce`, by `OnceInv`, which adds to
    `MessageInv` a `Direction` for each end: what its connection still has to send (`Own`), what
    is on its way, what waits in the peer's heap, and what the peer has handed over
    (`Told`: fetched by the application or about to be). `Window` says that packets on their way
    and processed ones lie within `MaxLag` of each other, at most half of the number space, and
    that `remote_seq_number` is that of the latest processed one; so a packet that is accepted is
    newer than all that were (`TakenIsNewer`), however often the numbers have wrapped around.
    `InstantsOnce` follows an Instant message, which waits, or is in one packet, or was handed
    over. An Ordered message may be in many packets at once; `OrderedOnce` says that its copies
    share one id, that different messages have different ids, that the ids of messages handed
    over are below `remote_order_id` and those in the heap above it. Every action has its lemma on
    one direction (`QuietDirection`, `PostingDirection`, `BuildingDirection`,
    `ArrivingDirection`); that a packet keeps the invariant message by message is
    `ReceivedOnce` and `ReceivedInTurn` of `MessageQueueProofs`. The hypotheses: the modifier
    leaves payloads alone (`~Scrambles`); no end is `Closing` or `Closed` (`NoneCloses`), because
    a closing connection accepts every packet, repeated ones too (connection.rs l.662), and hands
    their messages over again if the application goes on polling; and no end sends more Ordered
    messages than half of the ids, 2048 (`FewOrdered`). Beyond that an id is used again, and
    that a copy from the turn before does not come late is a matter of the network's lag
    in messages, which `Link` bounds in packets. Instant messages need no such bound.
  - `PacketsAreWellFilled` follows from `MessageInv` and `PackingIsSound`.
  - `ImplementsLifecycle`: every step of the two connections is a step of `ConnectionLifecycle`
    or a stutter. The mapping needs `LifeInv`: the event lists are sequences, and an end that is
    not born has no age, events or messages, which is what its first packet finds. The hypothesis `[]NoLookalike` excludes violation 5: no end has the six
    numbers of a closure packet in front of it when it sends data. `NoLookalikeAtFirst` shows
    that half of the number space has to be used before it can fail (128 packets of an end).
    With the refinement, the theorems about `ConnectionLifecycle` hold of the two connections: `ClosureIsTrue` is
    `NoFalseClosure`, `EventsTellState` is `LogMatchesState`.
  - `HostsSeeTheConnection` is `ViewAgrees`, call by call: `ReceiveInView` for `receive_packet`,
    `FlushView` for `send_packet`, `TickView`, `DrainedView`, `CloseView` and `PostView`. `ViewInv`
    adds to `LifeInv` that closure packets bring no messages; a send that is not skipped leaves no
    message unread, and receiving takes none away (`StillUnread`).

* **Hosts** (`ServerProofs`, `ClientServerProofs`). For all thresholds, any number of sessions,
  resets, ports and packets, for every answer of the sockets and limiters, and whatever each of
  the applications may do: `TypeCorrect`, `CollectionsAlwaysAgree`, `EventsAlwaysTell`,
  `PanicsHaveCause`, `NothingIsDismissed`, `SilentConnectionsAlwaysEnd`. `NeverPanicsUnprovoked`
  draws the conclusion: without a `reset` by the server's application (`ServerResets = {}`) and
  without packets cut short (`~Truncates`) the server does not panic at all. The properties hold each other up, so they are
  proved as one invariant, `SystemInv`. Its server part `ServerInv` adds `AllSettled`: between
  calls no connection holds an event or a message, one that is `Connecting` has been reset or was
  made for a short packet, and a server without a socket has none. `Tells` and `Finally` restate `EventsTellConnections` for
  a sequence of events, with one lemma for an event that is appended (`MoreTells`), one for an
  event that is fetched (`FewerTell`) and one for a drained connection (`DrainTells`).
  `ReceiveEffect` and `SendEffect` say what `receive_packet` and `send_packet` do to a settled
  connection. Each call of the server has its lemma (`...Keeps`). The client part `ClientInv`
  says that only the loop of `receive` leaves messages in the connection, the part `NetworkInv`
  that a server that sleeps has attended to every connection (`SendAttends`). `ClientStory` says `ClientKnowsState` of
  any sequence of events, fetched or waiting (`Story`), and is preserved besides `SystemInv`
  (`ClientAlwaysKnows`).
* **Loop of a host** (`HostLoopProofs`). `HostTypeCorrect`, `KeepsSchedule`, `SumsTheLastSecond`
  (`AverageIsLastSecond`) and `NoFailureInTurns` (`FailsOnlyWhenOdd`), for all send
  rates, recovery rates, working times and limits. The invariant adds that in the middle of a
  tick the loop is behind by the overflow and the time since the tick began; `EndTickEffect` is
  the arithmetic of `end_tick`. For the statistics it adds that each bucket of the ring is what
  the history says and the running sum is the sum of the ring; the lemmas about `SumOf` say what
  replacing one bucket does to it.

The provers do not instantiate induction principles that take an operator as a parameter. What
a fold over a sequence computes is proved by the least counterexample instead: the set of
indices at which the partial result lacks the property has a least element (`SetHasMin` in
`FoundationProofs`, from the well-foundedness of `<`), and that leads to a contradiction.
Filters are written as the fold `Only` where a theorem is about them.

Only model-checked: liveness (`EventuallyHanded`, `PeerGoneNoticed`, `CloseCompletes`,
`StillSends`, `CalmRestores`), which needs ENABLED. Every invariant and action property of a
passing run is stated by a theorem.

## 5. What is not modelled

* `Connection::set_config`: thresholds that change while a connection lasts. (Ticker and
  statistics have `set_config` in `HostLoop`.) `MessageQueue::reset` and `set_config` replace all
  of the state or the quotas.
* The statistics of a connection, round-trip time and packet loss: the limiter's `update` gets
  arbitrary values of the first and ignores the second.
* Message lengths from 65536 (l.166 truncates them to 16 bits) and quotas above 100 % in total
  (the subtraction at l.431 goes below zero): the models have lengths that fit and documented
  quotas. Recovery rates outside of 0 to 1.
* Foreign packets, and those too short for an id: `id_from_packet` refuses them, and nothing
  happens. Packets with an id and less than a header are in `ClientServer` only: a connection
  ignores them.
* `send(false)`: without the ticker the application decides when a tick is over; `ClientServer`
  does not depend on that.
* `recv_ack_queue` over more than 256 packets (connection.rs l.476): after long heavy loss one of
  its 32 entries may be so old that it stands for a packet 256 later. That takes more packets
  than `Link` can explore.
* `Config`, `UdpSocket`, `NoopPacketModifier`, the traits and the module files have no behaviour
  of their own beyond what the CONSTANTS and the answers of the environment stand for.
