----------------------------- MODULE Connection -----------------------------
(***************************************************************************)
(* shared/connection.rs: one end of a virtual connection.  A connection is *)
(* a record, and every method is an operator that returns the connection   *)
(* after the call.                                                         *)
(*                                                                         *)
(* Time is counted in ticks, one call of send_packet() per tick.  An       *)
(* Instant of the source is kept as its age in ticks, counted no further   *)
(* than the largest threshold it is compared with.                         *)
(*                                                                         *)
(* Left out: the packet statistics (they only feed the rate limiter, whose *)
(* answers are arbitrary here), the addresses, and packets that are too    *)
(* short or of another protocol, which change nothing.                     *)
(***************************************************************************)
EXTENDS MessageQueue, Acks

CONSTANTS InitThreshold,             \* Config::connection_init_threshold
          DropThreshold,             \* Config::connection_drop_threshold
          ClosingThreshold,          \* Config::connection_closing_threshold
          PacketDropThreshold,       \* Config::packet_drop_threshold
          PacketSpace,               \* packet_max_size - PACKET_HEADER_SIZE
          Scrambles                  \* the packet modifier changes payloads

ASSUME ThresholdAssumption ==
    /\ {InitThreshold, DropThreshold, ClosingThreshold, PacketDropThreshold}
          \subseteq Nat
    /\ PacketSpace \in Nat
    /\ Scrambles \in BOOLEAN

OpenStates == {"Connecting", "Connected", "Closing"}
TerminalStates == {"FailedToConnect", "Lost", "Closed"}

\* open()
Open(c) == c.state \in OpenStates

NewConnection ==
    [state |-> "Connecting", localSeq |-> 0, remoteSeq |-> 0,
     sinceRecv |-> 0, sinceSend |-> 0,
     recvAckQueue |-> <<>>, sentAckQueue |-> <<>>,
     queue |-> NewQueue, events |-> <<>>]

\* One tick of time.
Older(age, threshold) == IF age > threshold THEN age ELSE age + 1

LongestThreshold == Max({InitThreshold, DropThreshold, ClosingThreshold})

Aged(entry) == [entry EXCEPT !.age = Older(@, PacketDropThreshold)]

Elapse(c) ==
    [c EXCEPT !.sinceRecv = Older(@, LongestThreshold),
              !.sinceSend = Older(@, DropThreshold),
              !.sentAckQueue = [i \in DOMAIN @ |-> Aged(@[i])]]

Emit(c, event) == [c EXCEPT !.events = Append(@, event)]

-----------------------------------------------------------------------------
(* Packets *)

\* The application's PacketModifier: either it leaves payloads alone (None),
\* or it rewrites them and incoming() undoes outgoing().  Rewriting is a mask
\* on the byte that holds a message's kind.
Outgoing(payload) ==
    [i \in DOMAIN payload |->
        [payload[i] EXCEPT !.b0 = IF Scrambles THEN @ + 8 ELSE @]]
Incoming(payload) ==
    [i \in DOMAIN payload |->
        [payload[i] EXCEPT !.b0 = IF Scrambles THEN @ - 8 ELSE @]]

\* CLOSURE_PACKET_DATA: sequence number 0, acknowledging 128 of 256, with
\* every second ack bit set.  Nothing else tells it from a data packet.
ClosureHeader ==
    [seq |-> 0, ack |-> MaxSeqNumber \div 2,
     bits |-> {b \in 0..(MaxAckBits - 1) : b % 2 = 0}]

IsClosure(p) == [seq |-> p.seq, ack |-> p.ack, bits |-> p.bits] = ClosureHeader

-----------------------------------------------------------------------------
(* Receiving *)

\* update_receive_state(): the connection after it, and whether the packet
\* is to be processed.
UpdateReceiveState(c, p) ==
    CASE c.state \in TerminalStates -> [conn |-> c, accepts |-> FALSE]
      [] c.state = "Closing" -> [conn |-> c, accepts |-> TRUE]
      [] c.state = "Connecting" ->
            [conn |-> Emit([c EXCEPT !.state = "Connected"], <<"Connected">>),
             accepts |-> TRUE]
      [] c.state = "Connected" /\ IsClosure(p) ->
            [conn |-> Emit([c EXCEPT !.state = "Closed"], <<"Closed", TRUE>>),
             accepts |-> FALSE]
      [] c.state = "Connected" /\ ~IsClosure(p) ->
            [conn |-> c, accepts |-> SeqIsMoreRecent(p.seq, c.remoteSeq)]

AckedBy(p, entry) == SeqWasAcked(entry.seq, p.ack, p.bits)

TimedOut(p, entry) ==
    ~AckedBy(p, entry) /\ entry.age > PacketDropThreshold

\* The messages of the packets in `lost' go back into the queue.
TakenBack(queue, lost) ==
    FoldLeft(LAMBDA q, a : QueueLostPacket(q, a.payload), queue, lost)

\* receive_packet(): acknowledged packets are forgotten, the messages of lost
\* ones go back into the queue, then the packet's own messages are taken.
ReceivePacket(c, p) ==
    LET u == UpdateReceiveState(c, p)
        unknown == ToSet(c.sentAckQueue)
        lost == Only(c.sentAckQueue, {a \in unknown : TimedOut(p, a)})
        returned == TakenBack(c.queue, lost)
        recent == <<p.seq>> \o c.recvAckQueue
    IN  IF ~u.accepts THEN u.conn
        ELSE [u.conn EXCEPT
                !.sinceRecv = 0,
                !.remoteSeq = p.seq,
                !.queue = QueueReceivePacket(returned, Incoming(p.payload)),
                !.sentAckQueue =
                   Only(@, {a \in unknown : ~AckedBy(p, a) /\ ~TimedOut(p, a)}),
                !.recvAckQueue =
                   IF Len(recent) > MaxAckBits
                   THEN SubSeq(recent, 1, Len(recent) - 1) ELSE recent,
                !.events = @ \o [i \in DOMAIN lost |-> <<"PacketLost">>]]

-----------------------------------------------------------------------------
(* Sending *)

\* update_send_state(): the time-outs.
UpdateSendState(c) ==
    LET Gone(state, event) ==
            [conn |-> Emit([c EXCEPT !.state = state], event),
             sends |-> FALSE]
    IN  CASE c.state \in TerminalStates -> [conn |-> c, sends |-> FALSE]
          [] c.state = "Connecting" /\ c.sinceRecv > InitThreshold ->
                Gone("FailedToConnect", <<"FailedToConnect">>)
          [] c.state = "Connected" /\ c.sinceRecv > DropThreshold ->
                Gone("Lost", <<"Lost", TRUE>>)
          [] /\ c.state = "Connected" /\ c.sinceRecv <= DropThreshold
             /\ c.sinceSend > DropThreshold ->
                Gone("Lost", <<"Lost", FALSE>>)
          [] c.state = "Closing" /\ c.sinceRecv > ClosingThreshold ->
                Gone("Closed", <<"Closed", FALSE>>)
          [] OTHER -> [conn |-> c, sends |-> TRUE]

\* What send_packet() puts on the wire; `queue' is the message queue after.
OutgoingPacket(c) ==
    IF c.state = "Closing"
    THEN [queue |-> c.queue, header |-> ClosureHeader, payload |-> <<>>]
    ELSE LET q == QueueSendPacket(c.queue, PacketSpace)
         IN  [queue |-> q.queue,
              header |-> [seq |-> c.localSeq, ack |-> c.remoteSeq,
                          bits |-> AckBitfield(c.recvAckQueue, c.remoteSeq)],
              payload |-> Outgoing(q.payload)]

\* send_ack_required()
SendAckRequired(c) ==
    \A i \in DOMAIN c.sentAckQueue : c.sentAckQueue[i].seq # c.localSeq

\* Mutant: last_send_time is set although the socket failed.
TransmitNotesFailure(c, env, id, out) ==
    [conn |->
       [c EXCEPT
          !.sinceSend = 0,
          !.sentAckQueue =
             IF SendAckRequired(c)
             THEN Append(@, [seq |-> c.localSeq, age |-> 0,
                             payload |-> out.payload, id |-> id])
             ELSE @,
          !.localSeq = Successor(@, MaxSeqNumber),
          !.queue = QueueDismiss(out.queue)],
     packet |->
       IF env.sendOk
       THEN {[seq |-> out.header.seq, ack |-> out.header.ack,
              bits |-> out.header.bits, payload |-> out.payload, id |-> id]}
       ELSE {}]

\* The end of send_packet(): `out' goes to the socket, which may fail.
Transmit(c, env, id, out) ==
    [conn |->
       [c EXCEPT
          !.sinceSend = IF env.sendOk THEN 0 ELSE @,
          !.sentAckQueue =
             IF SendAckRequired(c)
             THEN Append(@, [seq |-> c.localSeq, age |-> 0,
                             payload |-> out.payload, id |-> id])
             ELSE @,
          !.localSeq = Successor(@, MaxSeqNumber),
          !.queue = QueueDismiss(out.queue)],
     packet |->
       IF env.sendOk
       THEN {[seq |-> out.header.seq, ack |-> out.header.ack,
              bits |-> out.header.bits, payload |-> out.payload, id |-> id]}
       ELSE {}]

\* send_packet(), with the answers of its surroundings in `env': whether the
\* rate limiter's congestion state changes, whether it lets the packet pass,
\* and whether the socket takes it.  `id' is the number of the packet, kept
\* with it for the properties.
SendPacket(c, env, id) ==
    LET u == UpdateSendState(c)
        d == IF env.congestionChanged THEN Emit(u.conn, <<"Congestion">>)
             ELSE u.conn
    IN  IF ~u.sends THEN [conn |-> u.conn, packet |-> {}]
        ELSE IF ~env.shouldSend THEN [conn |-> d, packet |-> {}]
        ELSE Transmit(d, env, id, OutgoingPacket(d))

-----------------------------------------------------------------------------
(* The application's calls *)

\* send()
SendMessage(c, kind, data, len) ==
    [c EXCEPT !.queue = QueueSend(@, kind, data, len)]

\* events(): what is queued, then one event per received message.
PendingEvents(c) ==
    c.events \o [i \in DOMAIN c.queue.recvQueue |->
                    <<"Message", c.queue.recvQueue[i].data>>]
Drained(c) == [c EXCEPT !.events = <<>>, !.queue = QueueDismiss(@)]

\* Mutant: close() ends the connection without telling the peer.
CloseAtOnce(c) == [c EXCEPT !.state = "Closed"]

\* close(), whatever the state.
Close(c) == [c EXCEPT !.state = "Closing"]
=============================================================================
