-------------------------------- MODULE Link --------------------------------
(***************************************************************************)
(* Two connections (module Connection) and the UDP network between them.   *)
(*                                                                         *)
(* The initiator is a Client's connection; the acceptor is created by the  *)
(* Server when the first packet arrives.  Each application posts messages, *)
(* polls its events and closes; send_packet() runs once per tick.  The     *)
(* network loses, duplicates, delays and reorders: a packet stays in it,   *)
(* and may arrive never, once or many times, until MaxLag newer packets of *)
(* its sender have been sent.  (cobalt cannot tell apart packets that are  *)
(* half of MAX_SEQ_NUMBER apart: 128 packets, or 4 s at the default rate.) *)
(*                                                                         *)
(* Bounds: MaxPackets packets by each end, each message of Script posted   *)
(* once, and no new Congestion event while MaxEvents events are waiting.   *)
(***************************************************************************)
EXTENDS Connection

CONSTANTS Script,        \* messages: [from, kind, data, len] with data unique
          Envs,          \* answers of rate limiter and socket (SendPacket)
          Closers,       \* ends whose application may call close()
          MaxLag, MaxPackets, MaxEvents

Ends == {"initiator", "acceptor"}

ASSUME LinkAssumption ==
    /\ \A m \in Script : m.from \in Ends /\ m.kind \in Kinds /\ m.len \in Sizes
    /\ \A m, n \in Script : m.data = n.data => m = n
    /\ Envs \subseteq [congestionChanged : BOOLEAN, shouldSend : BOOLEAN,
                       sendOk : BOOLEAN]
    /\ Closers \subseteq Ends
    /\ MaxLag \in 1..(MaxSeqNumber \div 2) /\ MaxPackets \in [Ends -> Nat]
    /\ MaxEvents \in Nat

VARIABLES conn,       \* per end: its connection
          born,       \* the ends that have a connection
          net,        \* per end: packets on their way to it
          due,        \* per end: send_packet() is still to come this tick
          count,      \* per end: number of packets built
          posted,     \* messages handed to send()
          seen,       \* per end: the life-cycle events the application got
          got,        \* per end: the messages the application got
          processed,  \* history, per end: ids of the packets it processed
          acked,      \* history, per end: ids it takes for acknowledged
          arrived     \* history: data of messages in processed packets

vars == <<conn, born, net, due, count, posted, seen, got,
          processed, acked, arrived>>

history == <<processed, acked, arrived>>

Peer(e) == IF e = "initiator" THEN "acceptor" ELSE "initiator"

Init ==
    /\ conn = [e \in Ends |-> NewConnection]
    /\ born = {"initiator"}
    /\ net = [e \in Ends |-> {}]
    /\ due = [e \in Ends |-> e = "initiator"]
    /\ count = [e \in Ends |-> 0]
    /\ posted = {}
    /\ seen = [e \in Ends |-> <<>>]
    /\ got = [e \in Ends |-> <<>>]
    /\ processed = [e \in Ends |-> {}]
    /\ acked = [e \in Ends |-> {}]
    /\ arrived = {}

\* receive_packet(), on a connection made for the packet if there is none
\* (Server::receive_connection_packet).
Arrive(e, p) ==
    LET c == conn[e]
        accepts == UpdateReceiveState(c, p).accepts
        payload == MessagesFromPacket(Incoming(p.payload))
    IN  /\ conn' = [conn EXCEPT ![e] = ReceivePacket(c, p)]
        /\ born' = born \cup {e}
        /\ due' = [due EXCEPT ![e] = e \notin born \/ @]
        /\ IF accepts
           THEN /\ processed' = [processed EXCEPT ![e] = @ \cup {p.id}]
                /\ acked' = [acked EXCEPT ![e] = @ \cup
                      {a.id : a \in {c.sentAckQueue[i] :
                          i \in {j \in DOMAIN c.sentAckQueue :
                                   AckedBy(p, c.sentAckQueue[j])}}}]
                /\ arrived' = arrived \cup
                      {payload[i].data : i \in DOMAIN payload}
           ELSE UNCHANGED history
        /\ UNCHANGED <<net, count, posted, seen, got>>

\* The network after packets `sent', at most one, of a sender that has built n.
Carry(ps, sent, n) ==
    IF sent = {} THEN ps ELSE {p \in ps \cup sent : p.id + MaxLag >= n}

\* send_packet()
Flush(e, env) ==
    /\ due[e]
    /\ env.congestionChanged => Len(conn[e].events) < MaxEvents
    /\ \E r \in {SendPacket(conn[e], env, count[e])} :
          LET n == count[e] + (IF r.conn.localSeq # conn[e].localSeq
                               THEN 1 ELSE 0)
          IN  /\ n <= MaxPackets[e]
              /\ conn' = [conn EXCEPT ![e] = r.conn]
              /\ count' = [count EXCEPT ![e] = n]
              /\ net' = [net EXCEPT ![Peer(e)] = Carry(@, r.packet, n)]
    /\ due' = [due EXCEPT ![e] = FALSE]
    /\ UNCHANGED <<born, posted, seen, got, history>>

Post(m) ==
    /\ m \notin posted /\ m.from \in born
    /\ posted' = posted \cup {m}
    /\ conn' = [conn EXCEPT ![m.from] = SendMessage(@, m.kind, m.data, m.len)]
    /\ UNCHANGED <<born, net, due, count, seen, got, history>>

\* The events about the connection itself, not its messages and packets.
AboutConnection ==
    {<<"Connected">>, <<"FailedToConnect">>} \cup ({"Lost", "Closed"} \X BOOLEAN)
LifecycleEvents(events) == Only(events, AboutConnection)
Messages(events) ==
    LET ms == Only(events, {v \in ToSet(events) : v[1] = "Message"})
    IN  [i \in DOMAIN ms |-> ms[i][2]]

\* The application drains events().
Poll(e) ==
    LET events == PendingEvents(conn[e])
    IN  /\ events # <<>>
        /\ seen' = [seen EXCEPT ![e] = @ \o LifecycleEvents(events)]
        /\ got' = [got EXCEPT ![e] = @ \o Messages(events)]
        /\ conn' = [conn EXCEPT ![e] = Drained(@)]
        /\ UNCHANGED <<born, net, due, count, posted, history>>

\* The application closes a connection that is not over.
CloseEnd(e) ==
    /\ e \in Closers \cap born
    /\ conn[e].state \in {"Connecting", "Connected"}
    /\ conn' = [conn EXCEPT ![e] = Close(@)]
    /\ UNCHANGED <<born, net, due, count, posted, seen, got, history>>

Tick ==
    /\ \A e \in Ends : ~due[e]
    /\ conn' = [e \in Ends |-> IF e \in born THEN Elapse(conn[e]) ELSE conn[e]]
    /\ due' = [e \in Ends |-> e \in born]
    /\ UNCHANGED <<born, net, count, posted, seen, got, history>>

Next ==
    \/ \E e \in Ends :
          \/ \E p \in net[e] : Arrive(e, p)
          \/ \E env \in Envs : Flush(e, env)
          \/ Poll(e)
          \/ CloseEnd(e)
    \/ \E m \in Script : Post(m)
    \/ Tick

Spec == Init /\ [][Next]_vars

-----------------------------------------------------------------------------
(* Properties *)

\* Both ends are up or coming up as far as end e's messages are concerned:
\* neither application has called close().  Closure packets all have number 0
\* and carry no acknowledgements, and no message survives a close.
Undisturbed(e) ==
    /\ e \in born /\ conn[e].state \in {"Connecting", "Connected"}
    /\ conn[Peer(e)].state \notin {"Closing", "Closed"}

\* A packet that an end takes for acknowledged was processed by the peer
\* (SentPacketAck: "... until it has been acknowledged or considered lost").
AckMeansProcessed ==
    \A e \in Ends : Undisturbed(e) => acked[e] \subseteq processed[Peer(e)]

\* The same, but for the acceptor's packet 0: before the initiator has heard
\* anything its packets acknowledge number 0, the initial remote_seq_number.
AckSound ==
    \A e \in Ends : Undisturbed(e) =>
        acked[e] \ (IF e = "acceptor" THEN {0} ELSE {})
            \subseteq processed[Peer(e)]

DataOf(queue) == {queue[i].data : i \in DOMAIN queue}

\* A Reliable or Ordered message is in one of the queues, in a packet that is
\* waiting for its acknowledgement, or at the peer: nothing forgets it
\* ("re-send in case its containing packet is lost", message_queue.rs l.31).
ReliableKept ==
    \A m \in posted :
        LET c == conn[m.from]
        IN  m.kind # "Instant" /\ Undisturbed(m.from)
            => \/ m.data \in DataOf(c.queue.rQueue) \cup DataOf(c.queue.oQueue)
               \/ \E i \in DOMAIN c.sentAckQueue :
                     m.data \in DataOf(c.sentAckQueue[i].payload)
               \/ m.data \in arrived

Occurrences(d, s) == Cardinality({i \in DOMAIN s : s[i] = d})

Received(e) == got[e] \o Messages(PendingEvents(conn[e]))

\* However often the network repeats a packet and the sender re-sends its
\* messages, Instant and Ordered messages are handed over at most once.  (A
\* Reliable one comes again when its packet is taken for lost by mistake.)
AtMostOnce ==
    \A m \in posted : m.kind # "Reliable" =>
        Occurrences(m.data, Received(Peer(m.from))) <= 1

\* A packet never holds more than it may, and it takes a message with it
\* whenever the first of some kind fits into an empty one: large messages and
\* the quotas hold back no other kind (message_queue.rs l.225-237, l.431).
PackingGetsOn ==
    [][\A e \in Ends : \A p \in net'[Peer(e)] \ net[Peer(e)] :
          LET q == conn[e].queue
          IN  /\ RequiredBytes(MessagesFromPacket(Incoming(p.payload)))
                    <= PacketSpace
              /\ /\ ~IsClosure(p)
                 /\ \E queue \in {q.iQueue, q.rQueue, q.oQueue} :
                       queue # <<>> /\ Required(Head(queue)) <= PacketSpace
                 => p.payload # <<>>]_vars

-----------------------------------------------------------------------------
(* The life-cycle of module ConnectionLifecycle *)

KindOfPacket(p) == IF IsClosure(p) THEN "closure" ELSE "data"

Life == INSTANCE ConnectionLifecycle WITH
    CloseAnytime <- FALSE, Forgets <- FALSE, dropped <- {},
    state <- [e \in Ends |-> IF e \in born THEN conn[e].state ELSE "None"],
    sinceRecv <- [e \in Ends |-> conn[e].sinceRecv],
    sinceSend <- [e \in Ends |-> conn[e].sinceSend],
    log <- [e \in Ends |-> seen[e] \o LifecycleEvents(conn[e].events)],
    net <- [e \in Ends |-> {KindOfPacket(p) : p \in net[e]}]

\* What a Client or a Server sees of connection c.
View(c) ==
    [state |-> c.state, sinceRecv |-> c.sinceRecv, sinceSend |-> c.sinceSend,
     unread |-> c.queue.recvQueue # <<>>, peer |-> 0, remote |-> 0,
     events |-> LifecycleEvents(c.events)]

States == INSTANCE ConnectionStates

\* Each step shows up in the view as a call of ConnectionStates, or not at all.
ViewStep(e) ==
    LET before == View(conn[e])
        after == View(conn'[e])
    IN  IF \A d \in Ends : ~due[d] /\ (due'[d] <=> d \in born)
        THEN after = IF e \in born THEN States!Elapse(before) ELSE before
        ELSE IF due[e] /\ ~due'[e]
        THEN \E env \in {"sent", "refused", "skipped"} :
                /\ after = States!SendPacket(before, env)
                /\ States!PacketOf(before, env)
                      \subseteq {KindOfPacket(p) : p \in net'[Peer(e)]}
        ELSE \/ after = before
             \/ after = States!Drained(before) \/ after = States!Close(before)
             \/ \E p \in net[e], newer, carries \in BOOLEAN :
                   after = States!ReceivePacket(before,
                              [kind |-> KindOfPacket(p), addr |-> 0], newer, carries)

\* The Connection with its packets, queues and numbers changes its state, ages
\* and events exactly as the hosts of module ClientServer take it to.
ViewAgrees == [][\A e \in Ends : ViewStep(e)]_vars

\* A connection is only reported closed by its peer when the peer's
\* application called close(): no data packet passes for a closure packet.
NoFalseClosure == Life!ClosedMeansPeerClosed

\* Two connections exchanging packets live the lives that module describes.
LifecycleSpec == Life!Spec
=============================================================================
