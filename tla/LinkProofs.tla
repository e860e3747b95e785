----------------------------- MODULE LinkProofs -----------------------------
(***************************************************************************)
(* Theorems about two connections and what their packets say about each    *)
(* other, for every size of the number space and of the bit field, every   *)
(* script of messages and whatever the network does.                       *)
(***************************************************************************)
EXTENDS Link, MessageQueueProofs, FoundationProofs, FiniteSetTheorems

-----------------------------------------------------------------------------
(* Acknowledgements *)

\* Distinct packets have distinct bits, and the bit of the packet sent k + 1
\* before the acknowledged one is bit k.
LEMMA BitIndexType ==
    ASSUME NEW seq \in SeqNumbers, NEW ack \in SeqNumbers, seq # ack
    PROVE  SeqBitIndex(seq, ack) \in 0..(MaxSeqNumber - 2)
BY SeqAssumption DEF SeqBitIndex, SeqNumbers

THEOREM BitIndexInjective ==
    ASSUME NEW ack \in SeqNumbers,
           NEW seq \in SeqNumbers \ {ack}, NEW other \in SeqNumbers \ {ack},
           SeqBitIndex(seq, ack) = SeqBitIndex(other, ack)
    PROVE  seq = other
BY SeqAssumption DEF SeqBitIndex, SeqNumbers

\* seq_bit_index() counts back from the acknowledged packet: the packet that
\* was sent k + 1 packets before packet n has bit k.
THEOREM BitIndexIsDistance ==
    ASSUME NEW n \in Nat, NEW k \in 0..(MaxSeqNumber - 2)
    PROVE  SeqBitIndex(n % MaxSeqNumber, (n + (k + 1)) % MaxSeqNumber) = k
<1>1. MaxSeqNumber \in Nat \ {0, 1} /\ k + 1 \in 0..(MaxSeqNumber - 1)
  BY SeqAssumption
<1>2. n % MaxSeqNumber \in 0..(MaxSeqNumber - 1)
  BY <1>1, DivMod
<1>3. (n + (k + 1)) % MaxSeqNumber =
         IF (n % MaxSeqNumber) + (k + 1) < MaxSeqNumber
         THEN (n % MaxSeqNumber) + (k + 1)
         ELSE (n % MaxSeqNumber) + (k + 1) - MaxSeqNumber
  BY <1>1, ModAdd
<1> QED BY <1>1, <1>2, <1>3 DEF SeqBitIndex

\* What send_packet() encodes is what receive_packet() decodes: a packet that
\* acknowledges `ack' acknowledges exactly the entries of the queue that its
\* bit field reaches, and nothing that was not received.
THEOREM AckRoundTrip ==
    ASSUME NEW queue \in Seq(SeqNumbers), NEW ack \in SeqNumbers,
           NEW seq \in SeqNumbers
    PROVE  SeqWasAcked(seq, ack, AckBitfield(queue, ack)) <=>
              \/ seq = ack
              \/ /\ \E i \in DOMAIN queue : queue[i] = seq
                 /\ SeqBitIndex(seq, ack) < MaxAckBits
<1>1. CASE seq = ack
  BY <1>1 DEF SeqWasAcked
<1>2. CASE seq # ack
  <2>1. ASSUME SeqBitIndex(seq, ack) \in AckBitfield(queue, ack)
        PROVE  \E i \in DOMAIN queue : queue[i] = seq
    <3>1. PICK i \in DOMAIN queue :
             queue[i] # ack
             /\ SeqBitIndex(queue[i], ack) = SeqBitIndex(seq, ack)
      BY <2>1 DEF AckBitfield
    <3>2. queue[i] \in SeqNumbers
      OBVIOUS
    <3>3. queue[i] = seq
      BY <1>2, <3>1, <3>2, BitIndexInjective
    <3> QED BY <3>3
  <2>2. ASSUME NEW i \in DOMAIN queue, queue[i] = seq,
               SeqBitIndex(seq, ack) < MaxAckBits
        PROVE  SeqBitIndex(seq, ack) \in AckBitfield(queue, ack)
    <3>1. SeqBitIndex(seq, ack) \in 0..(MaxAckBits - 1)
      BY <1>2, <2>2, BitIndexType, SeqAssumption
    <3> QED BY <1>2, <2>2, <3>1 DEF AckBitfield
  <2> QED BY <1>2, <2>1, <2>2 DEF SeqWasAcked
<1> QED BY <1>1, <1>2

-----------------------------------------------------------------------------
(* What the calls do to a connection *)

States5 == OpenStates \cup TerminalStates

IsEntry(a) ==
    a = [seq |-> a.seq, age |-> a.age, payload |-> a.payload, id |-> a.id]

IsConnection(c) ==
    /\ c = [state |-> c.state, localSeq |-> c.localSeq,
            remoteSeq |-> c.remoteSeq, sinceRecv |-> c.sinceRecv,
            sinceSend |-> c.sinceSend, recvAckQueue |-> c.recvAckQueue,
            sentAckQueue |-> c.sentAckQueue, queue |-> c.queue,
            events |-> c.events]
    /\ c.state \in States5 /\ c.sinceRecv \in Nat /\ c.sinceSend \in Nat
    /\ c.localSeq \in SeqNumbers /\ c.remoteSeq \in SeqNumbers
    /\ c.recvAckQueue \in Seq(SeqNumbers)
    /\ \E S : c.sentAckQueue \in Seq(S)
    /\ \A a \in ToSet(c.sentAckQueue) : IsEntry(a)

\* close() was called on the connection, or it has taken a packet for a closure
\* packet.
Closes(c) == c.state \in {"Closing", "Closed"}

LEMMA NewIsConnection ==
    /\ IsConnection(NewConnection) /\ NewConnection.state = "Connecting"
    /\ NewConnection.localSeq = 0 /\ NewConnection.remoteSeq = 0
    /\ ToSet(NewConnection.recvAckQueue) = {}
    /\ ToSet(NewConnection.sentAckQueue) = {}
  <1>1. 0 \in SeqNumbers
    BY SeqAssumption DEF SeqNumbers
  <1>2. "Connecting" \in States5
    BY DEF States5, OpenStates
  <1>3. /\ NewConnection.state = "Connecting"
        /\ NewConnection.localSeq = 0 /\ NewConnection.remoteSeq = 0
        /\ NewConnection.sinceRecv = 0 /\ NewConnection.sinceSend = 0
        /\ NewConnection.recvAckQueue = <<>>
        /\ NewConnection.sentAckQueue = <<>>
    BY DEF NewConnection
  <1>4. ToSet(<<>>) = {} /\ <<>> \in Seq(SeqNumbers) /\ <<>> \in Seq({})
    BY EmptySet
  <1>5. NewConnection =
           [state |-> NewConnection.state, localSeq |-> NewConnection.localSeq,
            remoteSeq |-> NewConnection.remoteSeq,
            sinceRecv |-> NewConnection.sinceRecv,
            sinceSend |-> NewConnection.sinceSend,
            recvAckQueue |-> NewConnection.recvAckQueue,
            sentAckQueue |-> NewConnection.sentAckQueue,
            queue |-> NewConnection.queue, events |-> NewConnection.events]
    BY DEF NewConnection
  <1> QED
    BY <1>1, <1>2, <1>3, <1>4, <1>5 DEF IsConnection

LEMMA ReceiveState ==
    ASSUME NEW c, IsConnection(c), NEW p
    PROVE  LET u == UpdateReceiveState(c, p)
           IN  /\ u.accepts \in BOOLEAN
               /\ c.state = "Connecting" => u.accepts
               /\ u.conn = [c EXCEPT !.state = u.conn.state,
                                     !.events = u.conn.events]
               /\ u.conn.state \in States5
               /\ u.conn.state = "Connecting" => c.state = "Connecting"
               /\ Closes(c) => Closes(u.conn)
  <1>1. c.state \in States5
    BY DEF IsConnection
  <1>2. CASE c.state \in TerminalStates
    BY <1>1, <1>2 DEF UpdateReceiveState, IsConnection, TerminalStates
  <1>3. CASE c.state = "Closing"
    BY <1>1, <1>3 DEF UpdateReceiveState, IsConnection, TerminalStates
  <1>4. CASE c.state = "Connecting"
    BY <1>4 DEF UpdateReceiveState, IsConnection, TerminalStates, Emit,
                Closes, States5, OpenStates
  <1>5. CASE c.state = "Connected" /\ IsClosure(p)
    BY <1>5 DEF UpdateReceiveState, IsConnection, TerminalStates, Emit,
                Closes, States5
  <1>6. CASE c.state = "Connected" /\ ~IsClosure(p)
    <2>1. SeqIsMoreRecent(p.seq, c.remoteSeq) \in BOOLEAN
      BY DEF SeqIsMoreRecent, MoreRecent
    <2> QED
      BY <1>1, <1>6, <2>1 DEF UpdateReceiveState, IsConnection, TerminalStates
  <1> QED
    BY <1>1, <1>2, <1>3, <1>4, <1>5, <1>6
    DEF States5, OpenStates

\* The numbers received: one more in front, the last one may be dropped.
Noted(x, seq) ==
    LET recent == <<x>> \o seq
    IN  IF Len(recent) > MaxAckBits THEN SubSeq(recent, 1, Len(recent) - 1)
        ELSE recent

LEMMA NotedFacts ==
    ASSUME NEW S, NEW seq \in Seq(S), NEW x \in S
    PROVE  /\ Noted(x, seq) \in Seq(S)
           /\ ToSet(Noted(x, seq)) \subseteq ToSet(seq) \cup {x}
  <1> DEFINE one == <<x>>
             r == one \o seq
             n == Len(r) - 1
             front == SubSeq(r, 1, n)
  <1>1. one \in Seq(S) /\ ToSet(one) = {x}
    BY DEF ToSet
  <1>2. Noted(x, seq) \in {r, front}
    BY DEF Noted
  <1>3. Len(r) \in Nat \ {0}
    OBVIOUS
  <1> HIDE DEF one
  <1>4. r \in Seq(S) /\ ToSet(r) = {x} \cup ToSet(seq)
    BY <1>1, ConcatSet
  <1> HIDE DEF r
  <1>5. n \in 0..Len(r)
    BY <1>3
  <1> HIDE DEF n
  <1>6. front \in Seq(S) /\ ToSet(front) \subseteq ToSet(r)
    BY <1>4, <1>5, SubSeqFacts
  <1> QED
    BY <1>2, <1>4, <1>6

\* receive_packet() takes over the number of a packet that it accepts.
LEMMA ReceiveEffect ==
    ASSUME NEW c, IsConnection(c), NEW p, p.seq \in SeqNumbers
    PROVE  LET u == UpdateReceiveState(c, p)
               new == ReceivePacket(c, p)
           IN  /\ IsConnection(new) /\ new.localSeq = c.localSeq
               /\ new.state = u.conn.state
               /\ ToSet(new.sentAckQueue) \subseteq ToSet(c.sentAckQueue)
               /\ u.accepts =>
                     /\ new.remoteSeq = p.seq
                     /\ ToSet(new.recvAckQueue)
                           \subseteq ToSet(c.recvAckQueue) \cup {p.seq}
               /\ ~u.accepts =>
                     /\ new.remoteSeq = c.remoteSeq
                     /\ new.recvAckQueue = c.recvAckQueue
  <1> DEFINE u == UpdateReceiveState(c, p)
             new == ReceivePacket(c, p)
             numbers == Noted(p.seq, c.recvAckQueue)
             unknown == ToSet(c.sentAckQueue)
             lost == Only(c.sentAckQueue, {a \in unknown : TimedOut(p, a)})
             waiting == Only(c.sentAckQueue,
                             {a \in unknown : ~AckedBy(p, a) /\ ~TimedOut(p, a)})
             returned == TakenBack(c.queue, lost)
             taken == QueueReceivePacket(returned, Incoming(p.payload))
             losses == [i \in DOMAIN lost |-> <<"PacketLost">>]
  <1>1. /\ u.accepts \in BOOLEAN
        /\ u.conn = [c EXCEPT !.state = u.conn.state, !.events = u.conn.events]
        /\ u.conn.state \in States5
    BY ReceiveState
  <1>2. /\ numbers \in Seq(SeqNumbers)
        /\ ToSet(numbers) \subseteq ToSet(c.recvAckQueue) \cup {p.seq}
    <2>1. c.recvAckQueue \in Seq(SeqNumbers)
      BY DEF IsConnection
    <2> QED
      BY <2>1, NotedFacts
  <1>3. /\ \E S : waiting \in Seq(S)
        /\ ToSet(waiting) \subseteq ToSet(c.sentAckQueue)
    BY OnlyFacts DEF IsConnection
  <1>4. new = IF ~u.accepts THEN u.conn
              ELSE [u.conn EXCEPT
                      !.sinceRecv = 0, !.remoteSeq = p.seq, !.queue = taken,
                      !.sentAckQueue =
                         Only(@, {a \in unknown :
                                    ~AckedBy(p, a) /\ ~TimedOut(p, a)}),
                      !.recvAckQueue = numbers,
                      !.events = @ \o losses]
    BY DEF ReceivePacket, Noted
  <1>5. u.conn.sentAckQueue = c.sentAckQueue
    BY <1>1 DEF IsConnection
  <1> HIDE DEF new, u, numbers, unknown, lost, returned, taken, losses
  <1>6. u.conn = [state |-> u.conn.state, localSeq |-> c.localSeq,
                  remoteSeq |-> c.remoteSeq, sinceRecv |-> c.sinceRecv,
                  sinceSend |-> c.sinceSend, recvAckQueue |-> c.recvAckQueue,
                  sentAckQueue |-> c.sentAckQueue, queue |-> c.queue,
                  events |-> u.conn.events]
    BY <1>1 DEF IsConnection
  <1>7. CASE ~u.accepts
    <2>1. new = u.conn
      BY <1>4, <1>7
    <2>2. IsConnection(new)
      BY <1>1, <1>6, <2>1 DEF IsConnection
    <2> QED
      BY <1>6, <1>7, <2>1, <2>2 DEF u, new
  <1>8. CASE u.accepts
    <2>1. new = [state |-> u.conn.state, localSeq |-> c.localSeq,
                 remoteSeq |-> p.seq, sinceRecv |-> 0,
                 sinceSend |-> c.sinceSend, recvAckQueue |-> numbers,
                 sentAckQueue |-> waiting, queue |-> taken,
                 events |-> u.conn.events \o losses]
      BY <1>1, <1>4, <1>6, <1>8
    <2> HIDE DEF waiting
    <2>2. IsConnection(new)
      BY <1>1, <1>2, <1>3, <2>1 DEF IsConnection
    <2> QED
      BY <1>2, <1>3, <1>8, <2>1, <2>2 DEF u, new
  <1> QED
    BY <1>1, <1>7, <1>8

LEMMA SendState ==
    ASSUME NEW c, IsConnection(c)
    PROVE  LET u == UpdateSendState(c)
           IN  /\ u.sends \in BOOLEAN
               /\ u.conn = [c EXCEPT !.state = u.conn.state,
                                     !.events = u.conn.events]
               /\ u.conn.state \in States5
               /\ u.sends => u.conn = c /\ c.state \in OpenStates
               /\ u.conn.state = "Connecting" => c.state = "Connecting"
               /\ Closes(c) => Closes(u.conn)
  <1>1. c.state \in States5
    BY DEF IsConnection
  <1>2. CASE c.state \in TerminalStates
    BY <1>1, <1>2 DEF UpdateSendState, IsConnection, TerminalStates
  <1>3. CASE c.state = "Closing"
    BY <1>3 DEF UpdateSendState, IsConnection, TerminalStates, Emit,
                Closes, States5, OpenStates
  <1>4. CASE c.state = "Connecting"
    BY <1>4 DEF UpdateSendState, IsConnection, TerminalStates, Emit,
                Closes, States5, OpenStates
  <1>5. CASE c.state = "Connected"
    <2>1. c.state \notin TerminalStates
      BY <1>5 DEF TerminalStates
    <2> DEFINE u == UpdateSendState(c)
    <2>2. \/ u = [conn |-> c, sends |-> TRUE]
          \/ \E why \in BOOLEAN :
                u = [conn |-> Emit([c EXCEPT !.state = "Lost"], <<"Lost", why>>),
                     sends |-> FALSE]
      <3>0. DropThreshold \in Nat /\ c.sinceRecv \in Nat
        BY ThresholdAssumption DEF IsConnection
      <3>1. CASE c.sinceRecv > DropThreshold
        <4>0. ~(c.sinceRecv <= DropThreshold)
          BY <3>0, <3>1
        <4>1. u = [conn |-> Emit([c EXCEPT !.state = "Lost"], <<"Lost", TRUE>>),
                   sends |-> FALSE]
          BY <1>5, <2>1, <3>1, <4>0 DEF UpdateSendState
        <4> QED
          BY <4>1
      <3>2. CASE /\ ~(c.sinceRecv > DropThreshold)
                 /\ c.sinceRecv <= DropThreshold /\ c.sinceSend > DropThreshold
        <4>1. u = [conn |-> Emit([c EXCEPT !.state = "Lost"], <<"Lost", FALSE>>),
                   sends |-> FALSE]
          BY <1>5, <2>1, <3>2 DEF UpdateSendState
        <4> QED
          BY <4>1
      <3>3. CASE /\ ~(c.sinceRecv > DropThreshold)
                 /\ ~(c.sinceRecv <= DropThreshold /\ c.sinceSend > DropThreshold)
        BY <1>5, <2>1, <3>3 DEF UpdateSendState
      <3> QED
        BY <3>1, <3>2, <3>3
    <2> HIDE DEF u
    <2>3. ASSUME u = [conn |-> c, sends |-> TRUE]
          PROVE  /\ u.sends = TRUE /\ u.conn = c
                 /\ u.conn = [c EXCEPT !.state = u.conn.state,
                                       !.events = u.conn.events]
      BY <2>3 DEF IsConnection
    <2>4. ASSUME NEW why \in BOOLEAN,
                 u = [conn |-> Emit([c EXCEPT !.state = "Lost"], <<"Lost", why>>),
                      sends |-> FALSE]
          PROVE  /\ u.sends = FALSE /\ u.conn.state = "Lost"
                 /\ u.conn = [c EXCEPT !.state = u.conn.state,
                                       !.events = u.conn.events]
      BY <1>5, <2>4 DEF IsConnection, Emit
    <2> QED
      BY <1>1, <1>5, <2>2, <2>3, <2>4
      DEF Closes, States5, OpenStates, TerminalStates, u
  <1> QED
    BY <1>1, <1>2, <1>3, <1>4, <1>5 DEF States5, OpenStates

\* What send_packet() notes of the packet it sends.
NoteOf(c, id, payload) ==
    [seq |-> c.localSeq, age |-> 0, payload |-> payload, id |-> id]

Sends(c, r, env, id) ==
    /\ r.conn.state \in OpenStates /\ r.conn.state = c.state
    /\ r.conn.localSeq = Successor(c.localSeq, MaxSeqNumber)
    /\ \E payload : ToSet(r.conn.sentAckQueue)
                       \subseteq ToSet(c.sentAckQueue) \cup {NoteOf(c, id, payload)}
    /\ \A p \in r.packet :
          /\ p.id = id /\ p.seq \in SeqNumbers
          /\ ~Closes(c) =>
                /\ p.seq = c.localSeq /\ p.ack = c.remoteSeq
                /\ p.bits = AckBitfield(c.recvAckQueue, c.remoteSeq)
    /\ \A p, q \in r.packet : p = q

LEMMA SuccessorDiffers ==
    ASSUME NEW n \in SeqNumbers
    PROVE  /\ Successor(n, MaxSeqNumber) \in SeqNumbers
           /\ Successor(n, MaxSeqNumber) # n
  BY SeqAssumption DEF Successor, SeqNumbers

LEMMA TransmitEffect ==
    ASSUME NEW c, IsConnection(c), c.state \in OpenStates, NEW env, NEW id
    PROVE  LET r == Transmit(c, env, id, OutgoingPacket(c))
           IN  /\ IsConnection(r.conn)
               /\ r.conn.remoteSeq = c.remoteSeq
               /\ r.conn.recvAckQueue = c.recvAckQueue
               /\ Sends(c, r, env, id)
  <1> DEFINE out == OutgoingPacket(c)
             r == Transmit(c, env, id, out)
             note == NoteOf(c, id, out.payload)
             sent == IF SendAckRequired(c) THEN Append(c.sentAckQueue, note)
                     ELSE c.sentAckQueue
             next == Successor(c.localSeq, MaxSeqNumber)
             since == IF env.sendOk THEN 0 ELSE c.sinceSend
             left == QueueDismiss(out.queue)
  <1>1. /\ out.header.seq \in SeqNumbers
        /\ ~Closes(c) =>
              /\ out.header.seq = c.localSeq /\ out.header.ack = c.remoteSeq
              /\ out.header.bits = AckBitfield(c.recvAckQueue, c.remoteSeq)
    <2>1. c.localSeq \in SeqNumbers /\ 0 \in SeqNumbers
      BY SeqAssumption DEF IsConnection, SeqNumbers
    <2>2. CASE c.state = "Closing"
      BY <2>1, <2>2 DEF OutgoingPacket, ClosureHeader, Closes
    <2>3. CASE c.state # "Closing"
      BY <2>1, <2>3 DEF OutgoingPacket
    <2> QED
      BY <2>2, <2>3
  <1>2. /\ \E S : sent \in Seq(S)
        /\ ToSet(sent) \subseteq ToSet(c.sentAckQueue) \cup {note}
        /\ \A a \in ToSet(sent) : IsEntry(a)
    <2>1. PICK S : c.sentAckQueue \in Seq(S)
      BY DEF IsConnection
    <2>2. c.sentAckQueue \in Seq(S \cup {note})
      BY <2>1
    <2> HIDE DEF note
    <2>3. /\ Append(c.sentAckQueue, note) \in Seq(S \cup {note})
          /\ ToSet(Append(c.sentAckQueue, note)) = ToSet(c.sentAckQueue) \cup {note}
      BY <2>2, AppendSet
    <2>4. IsEntry(note)
      BY DEF note, NoteOf, IsEntry
    <2>5. \E T : sent \in Seq(T)
      BY <2>1, <2>3
    <2>6. ToSet(sent) \subseteq ToSet(c.sentAckQueue) \cup {note}
      BY <2>3
    <2>7. \A a \in ToSet(c.sentAckQueue) : IsEntry(a)
      BY DEF IsConnection
    <2> HIDE DEF sent
    <2> QED
      BY <2>4, <2>5, <2>6, <2>7
  <1>3. next \in SeqNumbers /\ since \in Nat
    BY SuccessorDiffers DEF IsConnection
  <1>4. r.conn = [c EXCEPT !.sinceSend = since, !.sentAckQueue = sent,
                           !.localSeq = next, !.queue = left]
    BY DEF Transmit, NoteOf, IsConnection
  <1>5. r.packet = IF env.sendOk
                   THEN {[seq |-> out.header.seq, ack |-> out.header.ack,
                          bits |-> out.header.bits, payload |-> out.payload,
                          id |-> id]}
                   ELSE {}
    BY DEF Transmit
  <1> HIDE DEF out, r, sent, next, since, left
  <1>6. r.conn = [state |-> c.state, localSeq |-> next,
                  remoteSeq |-> c.remoteSeq, sinceRecv |-> c.sinceRecv,
                  sinceSend |-> since, recvAckQueue |-> c.recvAckQueue,
                  sentAckQueue |-> sent, queue |-> left, events |-> c.events]
    BY <1>4 DEF IsConnection
  <1>7. IsConnection(r.conn)
    BY <1>2, <1>3, <1>6 DEF IsConnection
  <1>8. Sends(c, r, env, id)
    <2>1. /\ r.conn.state \in OpenStates /\ r.conn.state = c.state
          /\ r.conn.localSeq = Successor(c.localSeq, MaxSeqNumber)
      BY <1>6 DEF next
    <2>2. ToSet(r.conn.sentAckQueue) \subseteq ToSet(c.sentAckQueue) \cup {note}
      BY <1>2, <1>6
    <2>3. ASSUME NEW p \in r.packet
          PROVE  /\ p.id = id /\ p.seq \in SeqNumbers
                 /\ ~Closes(c) =>
                       /\ p.seq = c.localSeq /\ p.ack = c.remoteSeq
                       /\ p.bits = AckBitfield(c.recvAckQueue, c.remoteSeq)
      <3>1. p = [seq |-> out.header.seq, ack |-> out.header.ack,
                 bits |-> out.header.bits, payload |-> out.payload, id |-> id]
        BY <1>5
      <3> QED
        BY <1>1, <3>1
    <2>4. \A p, q \in r.packet : p = q
      BY <1>5
    <2> QED
      BY <2>1, <2>2, <2>3, <2>4 DEF Sends
  <1> QED
    BY <1>6, <1>7, <1>8 DEF r, out

\* send_packet() numbers the packets that it builds in turn, whether or not the
\* socket takes them; its other ends leave the numbers alone.
LEMMA SendEffect ==
    ASSUME NEW c, IsConnection(c), NEW env, NEW id
    PROVE  LET r == SendPacket(c, env, id)
           IN  /\ IsConnection(r.conn)
               /\ r.conn.remoteSeq = c.remoteSeq
               /\ r.conn.recvAckQueue = c.recvAckQueue
               /\ Closes(c) => Closes(r.conn)
               /\ r.conn.state = "Connecting" => c.state = "Connecting"
               /\ \/ /\ r.packet = {} /\ r.conn.localSeq = c.localSeq
                     /\ r.conn.sentAckQueue = c.sentAckQueue
                  \/ Sends(c, r, env, id)
  <1> DEFINE u == UpdateSendState(c)
             d == IF env.congestionChanged THEN Emit(u.conn, <<"Congestion">>)
                  ELSE u.conn
             r == SendPacket(c, env, id)
  <1>1. /\ u.sends \in BOOLEAN
        /\ u.conn = [c EXCEPT !.state = u.conn.state, !.events = u.conn.events]
        /\ u.conn.state \in States5
        /\ u.sends => u.conn = c /\ c.state \in OpenStates
        /\ u.conn.state = "Connecting" => c.state = "Connecting"
        /\ Closes(c) => Closes(u.conn)
    BY SendState
  <1>2. r = IF ~u.sends THEN [conn |-> u.conn, packet |-> {}]
            ELSE IF ~env.shouldSend THEN [conn |-> d, packet |-> {}]
            ELSE Transmit(d, env, id, OutgoingPacket(d))
    BY DEF SendPacket
  <1> HIDE DEF u, r
  <1>3. ASSUME NEW e, e = [c EXCEPT !.state = e.state, !.events = e.events],
               e.state \in States5
        PROVE  /\ IsConnection(e) /\ e.localSeq = c.localSeq
               /\ e.remoteSeq = c.remoteSeq /\ e.recvAckQueue = c.recvAckQueue
               /\ e.sentAckQueue = c.sentAckQueue
    <2>1. e = [state |-> e.state, localSeq |-> c.localSeq,
               remoteSeq |-> c.remoteSeq, sinceRecv |-> c.sinceRecv,
               sinceSend |-> c.sinceSend, recvAckQueue |-> c.recvAckQueue,
               sentAckQueue |-> c.sentAckQueue, queue |-> c.queue,
               events |-> e.events]
      BY <1>3 DEF IsConnection
    <2> QED
      BY <1>3, <2>1 DEF IsConnection
  <1>4. CASE ~u.sends
    <2>1. r.conn = u.conn /\ r.packet = {}
      BY <1>2, <1>4
    <2> QED
      BY <1>1, <1>3, <2>1 DEF r
  <1>5. CASE u.sends
    <2>1. /\ d = [c EXCEPT !.state = d.state, !.events = d.events]
          /\ d.state = c.state
      BY <1>1, <1>5 DEF Emit, IsConnection
    <2> HIDE DEF d
    <2>2. /\ IsConnection(d) /\ d.localSeq = c.localSeq
          /\ d.remoteSeq = c.remoteSeq /\ d.recvAckQueue = c.recvAckQueue
          /\ d.sentAckQueue = c.sentAckQueue
      BY <1>3, <2>1 DEF IsConnection
    <2>3. CASE ~env.shouldSend
      <3>1. r.conn = d /\ r.packet = {}
        BY <1>2, <1>5, <2>3
      <3> QED
        BY <2>1, <2>2, <3>1 DEF r, Closes
    <2>4. CASE env.shouldSend
      <3>1. r = Transmit(d, env, id, OutgoingPacket(d))
        BY <1>2, <1>5, <2>4
      <3>2. /\ IsConnection(r.conn) /\ r.conn.remoteSeq = d.remoteSeq
            /\ r.conn.recvAckQueue = d.recvAckQueue /\ Sends(d, r, env, id)
        BY <1>1, <1>5, <2>1, <2>2, <3>1, TransmitEffect
      <3>3. Sends(c, r, env, id)
        BY <2>1, <2>2, <3>2 DEF Sends, NoteOf, Closes
      <3> QED
        BY <2>1, <2>2, <3>2, <3>3 DEF r, Sends, Closes
    <2> QED
      BY <2>3, <2>4
  <1> QED
    BY <1>1, <1>4, <1>5

\* The other calls leave the numbers of packets alone.
Spares(new, c) ==
    /\ IsConnection(new)
    /\ new.localSeq = c.localSeq /\ new.remoteSeq = c.remoteSeq
    /\ new.recvAckQueue = c.recvAckQueue
    /\ \A a \in ToSet(new.sentAckQueue) :
          \E b \in ToSet(c.sentAckQueue) : a.seq = b.seq /\ a.id = b.id
    /\ Closes(c) => Closes(new)

LEMMA ApplicationCalls ==
    ASSUME NEW c, IsConnection(c)
    PROVE  /\ \A kind, data, len : Spares(SendMessage(c, kind, data, len), c)
                                   /\ SendMessage(c, kind, data, len).state = c.state
           /\ Spares(Drained(c), c) /\ Drained(c).state = c.state
           /\ Spares(Close(c), c)
           /\ Spares(c, c)
  <1> DEFINE With(state, q, events) ==
               [c EXCEPT !.state = state, !.queue = q, !.events = events]
  <1>1. ASSUME NEW state \in States5, NEW q, NEW events,
               Closes(c) => state \in {"Closing", "Closed"}
        PROVE  Spares(With(state, q, events), c)
               /\ With(state, q, events).state = state
    <2> DEFINE new == With(state, q, events)
    <2>0. new = [c EXCEPT !.state = state, !.queue = q, !.events = events]
      OBVIOUS
    <2> HIDE DEF new, With
    <2>1. new = [state |-> state, localSeq |-> c.localSeq,
                 remoteSeq |-> c.remoteSeq, sinceRecv |-> c.sinceRecv,
                 sinceSend |-> c.sinceSend, recvAckQueue |-> c.recvAckQueue,
                 sentAckQueue |-> c.sentAckQueue, queue |-> q,
                 events |-> events]
      BY <2>0 DEF IsConnection
    <2>2. IsConnection(new)
      BY <2>1 DEF IsConnection
    <2> QED
      BY <1>1, <2>1, <2>2 DEF Spares, Closes, new
  <1>2. c.state \in States5 /\ "Closing" \in States5
    BY DEF IsConnection, States5, OpenStates
  <1>3. c = With(c.state, c.queue, c.events)
    BY DEF IsConnection
  <1>4. ASSUME NEW kind, NEW data, NEW len
        PROVE  \E q : SendMessage(c, kind, data, len) = With(c.state, q, c.events)
    <2> DEFINE q == QueueSend(c.queue, kind, data, len)
    <2>1. SendMessage(c, kind, data, len) = [c EXCEPT !.queue = q]
      BY DEF SendMessage
    <2> HIDE DEF q
    <2>2. [c EXCEPT !.queue = q] = With(c.state, q, c.events)
      BY DEF IsConnection
    <2> QED
      BY <2>1, <2>2
  <1>5. \E q : Drained(c) = With(c.state, q, <<>>)
    <2> DEFINE q == QueueDismiss(c.queue)
    <2>1. Drained(c) = [c EXCEPT !.events = <<>>, !.queue = q]
      BY DEF Drained
    <2> HIDE DEF q
    <2>2. [c EXCEPT !.events = <<>>, !.queue = q] = With(c.state, q, <<>>)
      BY DEF IsConnection
    <2> QED
      BY <2>1, <2>2
  <1>6. Close(c) = With("Closing", c.queue, c.events)
    BY DEF Close, IsConnection
  <1> HIDE DEF With
  <1>7. Spares(c, c) /\ Spares(Close(c), c)
    BY <1>1, <1>2, <1>3, <1>6 DEF Closes
  <1>8. ASSUME NEW kind, NEW data, NEW len
        PROVE  /\ Spares(SendMessage(c, kind, data, len), c)
               /\ SendMessage(c, kind, data, len).state = c.state
    BY <1>1, <1>2, <1>4 DEF Closes
  <1>9. Spares(Drained(c), c) /\ Drained(c).state = c.state
    BY <1>1, <1>2, <1>5 DEF Closes
  <1> QED
    BY <1>7, <1>8, <1>9

LEMMA OlderIsNat ==
    ASSUME NEW age \in Nat, NEW threshold
    PROVE  Older(age, threshold) \in Nat
  BY DEF Older

LEMMA ElapseSpares ==
    ASSUME NEW c, IsConnection(c)
    PROVE  Spares(Elapse(c), c) /\ Elapse(c).state = c.state
  <1> DEFINE q == c.sentAckQueue
             aged == [i \in DOMAIN q |-> Aged(q[i])]
             received == Older(c.sinceRecv, LongestThreshold)
             sent == Older(c.sinceSend, DropThreshold)
             new == Elapse(c)
  <1>1. new = [c EXCEPT !.sinceRecv = received, !.sinceSend = sent,
                        !.sentAckQueue = aged]
    BY DEF Elapse
  <1>2. received \in Nat /\ sent \in Nat
    BY OlderIsNat DEF IsConnection
  <1>3. ASSUME NEW a, IsEntry(a)
        PROVE  IsEntry(Aged(a)) /\ Aged(a).seq = a.seq /\ Aged(a).id = a.id
    BY <1>3 DEF IsEntry, Aged
  <1>4. PICK S : q \in Seq(S)
    BY DEF IsConnection
  <1> HIDE DEF received, sent, new
  <1>5. aged \in Seq({Aged(a) : a \in S})
    BY <1>4
  <1>6. \A a \in ToSet(aged) : \E b \in ToSet(q) : a = Aged(b)
    BY <1>4 DEF ToSet
  <1>7. \A b \in ToSet(q) : IsEntry(b)
    BY DEF IsConnection
  <1> HIDE DEF aged, q
  <1>8. /\ \A a \in ToSet(aged) : IsEntry(a)
        /\ \A a \in ToSet(aged) :
              \E b \in ToSet(q) : a.seq = b.seq /\ a.id = b.id
    BY <1>3, <1>6, <1>7
  <1>9. new = [state |-> c.state, localSeq |-> c.localSeq,
               remoteSeq |-> c.remoteSeq, sinceRecv |-> received,
               sinceSend |-> sent, recvAckQueue |-> c.recvAckQueue,
               sentAckQueue |-> aged, queue |-> c.queue, events |-> c.events]
    BY <1>1 DEF IsConnection
  <1>10. IsConnection(new)
    BY <1>2, <1>5, <1>8, <1>9 DEF IsConnection
  <1>11. Spares(new, c) /\ new.state = c.state
    BY <1>8, <1>9, <1>10 DEF Spares, Closes, q
  <1> QED
    BY <1>11 DEF new

-----------------------------------------------------------------------------
(* What the calls do to messages *)

Datas == {m.data : m \in Script}
Sendable == MessagesOf(Datas)

IsPayload(payload) == \E out \in Seq(Sendable) : payload = Wire(out)

\* The messages in a payload.
Carried(payload) == ToSet(MessagesFromPacket(payload))

Resendable(msgs) == {m \in msgs : m.kind # "Instant"}

Loaded(c) ==
    /\ c.queue \in QueuesOf(Datas)
    /\ \A a \in ToSet(c.sentAckQueue) : IsPayload(a.payload)

\* The Reliable and Ordered messages that a connection is responsible for: they
\* are queued or in a packet that waits for its acknowledgement.
Holds(c) ==
    Resendable(Queued(c.queue)
               \cup UNION {Carried(a.payload) : a \in ToSet(c.sentAckQueue)})

LEMMA PayloadFacts ==
    ASSUME NEW payload, IsPayload(payload)
    PROVE  /\ Carried(payload) \subseteq Sendable
           /\ DataOf(payload) = {m.data : m \in Carried(payload)}
           /\ ~Scrambles => Incoming(payload) = payload /\ Outgoing(payload) = payload
  <1>1. PICK out \in Seq(Sendable) : payload = Wire(out)
    BY DEF IsPayload
  <1>2. MessagesFromPacket(payload) = out
    BY <1>1, PayloadRoundTrip DEF Sendable
  <1>3. payload = [n \in DOMAIN out |-> Encode(out[n])]
    BY <1>1 DEF Wire
  <1>4. DOMAIN payload = DOMAIN out /\ \A n \in DOMAIN out :
           /\ payload[n] = Encode(out[n]) /\ out[n] \in Sendable
           /\ payload[n].data = out[n].data
    BY <1>3 DEF Encode
  <1>5. Carried(payload) = {out[n] : n \in DOMAIN out}
    BY <1>2 DEF Carried, ToSet
  <1>6. Carried(payload) \subseteq Sendable
    BY <1>4, <1>5
  <1>7. DataOf(payload) = {m.data : m \in Carried(payload)}
    BY <1>4, <1>5 DEF DataOf
  <1>8. ASSUME ~Scrambles
        PROVE  Incoming(payload) = payload /\ Outgoing(payload) = payload
    <2>1. ASSUME NEW n \in DOMAIN payload
          PROVE  [payload[n] EXCEPT !.b0 = payload[n].b0] = payload[n]
      BY <1>4 DEF Encode
    <2>2. Outgoing(payload) = [n \in DOMAIN payload |-> payload[n]]
      BY <1>8, <2>1 DEF Outgoing
    <2>3. Incoming(payload) = [n \in DOMAIN payload |-> payload[n]]
      BY <1>8, <2>1 DEF Incoming
    <2>4. payload = [n \in DOMAIN payload |-> payload[n]]
      BY <1>3
    <2> QED
      BY <2>2, <2>3, <2>4
  <1> QED
    BY <1>6, <1>7, <1>8

\* Only the queues of messages that are re-sent change.
OnlyReturns(new, q) ==
    /\ new.recvQueue = q.recvQueue /\ new.iQueue = q.iQueue
    /\ new.oRecvHeap = q.oRecvHeap
    /\ new.localOrderId = q.localOrderId /\ new.remoteOrderId = q.remoteOrderId

LEMMA LostPayload ==
    ASSUME NEW q \in QueuesOf(Datas), NEW payload, IsPayload(payload)
    PROVE  LET new == QueueLostPacket(q, payload)
           IN  /\ new \in QueuesOf(Datas) /\ OnlyReturns(new, q)
               /\ Queued(new) = Queued(q) \cup Resendable(Carried(payload))
  <1>1. PICK out \in Seq(Sendable) : payload = Wire(out)
    BY DEF IsPayload
  <1>2. Carried(payload) = ToSet(out)
    BY <1>1, PayloadRoundTrip DEF Sendable, Carried
  <1> DEFINE new == QueueLostPacket(q, Wire(out))
  <1>3. /\ new \in QueuesOf(Datas)
        /\ new = [q EXCEPT !.rQueue = new.rQueue, !.oQueue = new.oQueue]
        /\ Queued(new) = Queued(q) \cup {m \in ToSet(out) : m.kind # "Instant"}
    BY LostPacketReturns DEF Sendable
  <1>4. OnlyReturns(new, q)
    <2> HIDE DEF new
    <2> QED
      BY <1>3 DEF QueuesOf, OnlyReturns
  <1> QED
    BY <1>1, <1>2, <1>3, <1>4 DEF Resendable

\* receive_packet() takes back the messages of every packet that it takes for
\* lost.
LEMMA TakenBackHolds ==
    ASSUME NEW q \in QueuesOf(Datas), NEW S, NEW lost \in Seq(S),
           \A a \in ToSet(lost) : IsPayload(a.payload)
    PROVE  /\ TakenBack(q, lost) \in QueuesOf(Datas)
           /\ OnlyReturns(TakenBack(q, lost), q)
           /\ Queued(q) \subseteq Queued(TakenBack(q, lost))
           /\ Queued(TakenBack(q, lost)) \subseteq
                 Queued(q) \cup UNION {Carried(a.payload) : a \in ToSet(lost)}
           /\ \A a \in ToSet(lost) :
                 Resendable(Carried(a.payload)) \subseteq Queued(TakenBack(q, lost))
  <1> DEFINE n == Len(lost)
             V == QueuesOf(Datas)
             Take(acc, a) == QueueLostPacket(acc, a.payload)
             Sum(it) == it = [T \in SUBSET (1..n) |->
                 IF T = {} THEN q ELSE Take(it[T \ {Max(T)}], lost[Max(T)])]
             sum == CHOOSE it : Sum(it)
             F == [x \in V \X (1..n) |-> Take(x[1], lost[x[2]])]
             Given == Queued(q) \cup UNION {Carried(a.payload) : a \in ToSet(lost)}
  <1>1. /\ n \in Nat /\ DOMAIN lost = 1..n
        /\ \A i \in 1..n : IsPayload(lost[i].payload) /\ lost[i] \in ToSet(lost)
    BY DEF ToSet
  <1>2. ASSUME NEW acc \in V, NEW i \in 1..n
        PROVE  /\ Take(acc, lost[i]) \in V
               /\ OnlyReturns(Take(acc, lost[i]), acc)
               /\ Queued(Take(acc, lost[i]))
                     = Queued(acc) \cup Resendable(Carried(lost[i].payload))
    BY <1>1, LostPayload
  <1>3. F \in [V \X (1..n) -> V]
    BY <1>2
  <1>4. TakenBack(q, lost) = sum[1..n]
    BY <1>1 DEF TakenBack, FoldLeft, MapThenFoldSet
  <1>5. ASSUME NEW acc \in V, NEW i \in 1..n
        PROVE  F[acc, i] = Take(acc, lost[i])
    OBVIOUS
  <1> HIDE DEF Take, F, V
  <1>6. PICK known \in [SUBSET (1..n) -> V] : Unfolds(known, n, q, F)
    BY <1>1, <1>3, FoldExists DEF V
  <1>7. \A T \in SUBSET (1..n) :
           T # {} => Max(T) \in 1..n /\ T \ {Max(T)} \in SUBSET (1..n)
    BY <1>1, MaxOfRange
  <1>8. Sum(sum)
    <2>1. Sum(known)
      BY <1>5, <1>6, <1>7 DEF Unfolds
    <2> QED
      BY <2>1
  <1> HIDE DEF sum
  <1>9. UnfoldsIn(sum, n, V, q, F)
    BY <1>5, <1>7, <1>8 DEF UnfoldsIn
  <1>10. PICK g : Runs(g, n, V, q, F, sum)
    <2>1. F \in Steps(V, n) /\ q \in V
      BY <1>3 DEF Steps, V
    <2> HIDE DEF n
    <2> QED
      BY <1>1, <1>9, <2>1, FoldRuns
  <1> DEFINE T == {k \in 0..n :
                     /\ Queued(q) \subseteq Queued(g[k])
                     /\ OnlyReturns(g[k], q) /\ Queued(g[k]) \subseteq Given
                     /\ \A i \in 1..k : Resendable(Carried(lost[i].payload))
                                           \subseteq Queued(g[k])}
  <1> HIDE DEF n
  <1>11. 0 \in T
    <2>1. g[0] = q
      BY <1>10 DEF Runs
    <2>2. 1..0 = {}
      OBVIOUS
    <2> QED
      BY <1>1, <2>1, <2>2 DEF OnlyReturns
  <1>12. ASSUME NEW k \in 0..(n - 1), k \in T
         PROVE  k + 1 \in T
    <2>1. /\ k + 1 \in 1..n /\ (k + 1) - 1 = k /\ k \in 0..n /\ k + 1 \in 0..n
          /\ \A i \in 1..(k + 1) : i \in 1..k \/ i = k + 1
      BY <1>1
    <2>2. g[k] \in V /\ g[k + 1] = F[g[k], k + 1]
      BY <1>10, <2>1 DEF Runs
    <2>3. g[k + 1] = Take(g[k], lost[k + 1])
      BY <1>5, <2>1, <2>2
    <2>4. OnlyReturns(g[k + 1], q)
      <3>1. OnlyReturns(g[k + 1], g[k])
        BY <1>2, <2>1, <2>2, <2>3
      <3> QED
        BY <1>12, <3>1 DEF OnlyReturns
    <2>5. Queued(g[k + 1])
             = Queued(g[k]) \cup Resendable(Carried(lost[k + 1].payload))
      BY <1>2, <2>1, <2>2, <2>3
    <2>6. Queued(g[k + 1]) \subseteq Given
      BY <1>1, <1>12, <2>1, <2>5 DEF Resendable
    <2> QED
      BY <1>12, <2>1, <2>4, <2>5, <2>6
  <1> HIDE DEF T
  <1>13. n \in T
    <2>1. 0..n \subseteq T
      BY <1>1, <1>11, <1>12, SetInduction
    <2> QED
      BY <1>1, <2>1
  <1>14. g[n] = TakenBack(q, lost) /\ g[n] \in V
    <2>1. n \in 0..n
      BY <1>1
    <2> QED
      BY <1>4, <1>10, <2>1 DEF Runs
  <1> QED
    BY <1>1, <1>13, <1>14 DEF T, V, ToSet

\* receive_packet() stays responsible for every message but those of packets
\* that are acknowledged.
LEMMA ReceiveHolds ==
    ASSUME ~Scrambles, NEW c, IsConnection(c), Loaded(c),
           NEW p, IsPayload(p.payload)
    PROVE  LET new == ReceivePacket(c, p)
           IN  /\ Loaded(new) /\ StillUnread(new.queue, c.queue)
               /\ p.payload = <<>> => new.queue.recvQueue = c.queue.recvQueue
               /\ \A m \in Holds(c) :
                     \/ m \in Holds(new)
                     \/ /\ UpdateReceiveState(c, p).accepts
                        /\ \E a \in ToSet(c.sentAckQueue) :
                              AckedBy(p, a) /\ m \in Carried(a.payload)
  <1> DEFINE u == UpdateReceiveState(c, p)
             new == ReceivePacket(c, p)
             unknown == ToSet(c.sentAckQueue)
             lost == Only(c.sentAckQueue, {a \in unknown : TimedOut(p, a)})
             waiting == Only(c.sentAckQueue,
                             {a \in unknown : ~AckedBy(p, a) /\ ~TimedOut(p, a)})
             returned == TakenBack(c.queue, lost)
             taken == QueueReceivePacket(returned, p.payload)
  <1>1. /\ u.accepts \in BOOLEAN
        /\ u.conn = [c EXCEPT !.state = u.conn.state, !.events = u.conn.events]
    BY ReceiveState
  <1>2. u.conn.queue = c.queue /\ u.conn.sentAckQueue = c.sentAckQueue
    BY <1>1 DEF IsConnection
  <1>3. ~u.accepts => new.queue = c.queue /\ new.sentAckQueue = c.sentAckQueue
    BY <1>2 DEF ReceivePacket
  <1>4. u.accepts => new.queue = taken /\ new.sentAckQueue = waiting
    <2>1. Incoming(p.payload) = p.payload
      BY PayloadFacts
    <2>2. ASSUME u.accepts
          PROVE  \E recv, numbers, events :
                    new = [u.conn EXCEPT
                             !.sinceRecv = recv, !.remoteSeq = p.seq,
                             !.queue = taken,
                             !.sentAckQueue =
                                Only(@, {a \in unknown :
                                           ~AckedBy(p, a) /\ ~TimedOut(p, a)}),
                             !.recvAckQueue = numbers, !.events = events]
      BY <2>1, <2>2 DEF ReceivePacket
    <2> HIDE DEF u, taken, new
    <2>3. u.conn = [state |-> u.conn.state, localSeq |-> c.localSeq,
                    remoteSeq |-> c.remoteSeq, sinceRecv |-> c.sinceRecv,
                    sinceSend |-> c.sinceSend, recvAckQueue |-> c.recvAckQueue,
                    sentAckQueue |-> c.sentAckQueue, queue |-> c.queue,
                    events |-> u.conn.events]
      BY <1>1 DEF IsConnection
    <2> QED
      BY <1>2, <2>2, <2>3
  <1> HIDE DEF u, new
  <1>5. /\ \E S : lost \in Seq(S)
        /\ ToSet(lost) = {a \in unknown : TimedOut(p, a)}
        /\ ToSet(waiting) = {a \in unknown : ~AckedBy(p, a) /\ ~TimedOut(p, a)}
    <2>1. PICK S : c.sentAckQueue \in Seq(S)
      BY DEF IsConnection
    <2>2. /\ lost \in Seq(S)
          /\ ToSet(lost) = unknown \cap {a \in unknown : TimedOut(p, a)}
          /\ ToSet(waiting) = unknown \cap
                {a \in unknown : ~AckedBy(p, a) /\ ~TimedOut(p, a)}
      BY <2>1, OnlyFacts
    <2> HIDE DEF lost, waiting, unknown
    <2> QED
      BY <2>2
  <1> HIDE DEF lost, waiting
  <1>6. /\ returned \in QueuesOf(Datas)
        /\ returned.recvQueue = c.queue.recvQueue
        /\ Queued(c.queue) \subseteq Queued(returned)
        /\ \A a \in ToSet(lost) :
              Resendable(Carried(a.payload)) \subseteq Queued(returned)
    <2>1. c.queue \in QueuesOf(Datas) /\ \A a \in ToSet(lost) : IsPayload(a.payload)
      BY <1>5 DEF Loaded
    <2> QED
      BY <1>5, <2>1, TakenBackHolds DEF OnlyReturns
  <1> HIDE DEF returned
  <1>7. /\ taken \in QueuesOf(Datas) /\ Queued(taken) = Queued(returned)
        /\ StillUnread(taken, returned) /\ (p.payload = <<>> => taken = returned)
    <2>1. PICK out \in Seq(Sendable) : p.payload = Wire(out)
      BY DEF IsPayload
    <2>2. /\ taken \in QueuesOf(Datas) /\ SameOutgoing(taken, returned)
          /\ StillUnread(taken, returned) /\ (out = <<>> => taken = returned)
      BY <1>6, <2>1, ReceivePacketTypes DEF Sendable
    <2>3. p.payload = <<>> => out = <<>>
      <3>1. DOMAIN p.payload = DOMAIN out /\ DOMAIN out = 1..Len(out)
            /\ Len(out) \in Nat
        BY <2>1 DEF Wire
      <3> QED
        BY <2>1, <3>1
    <2> HIDE DEF taken
    <2> QED
      BY <2>2, <2>3 DEF SameOutgoing, Queued
  <1> HIDE DEF taken
  <1>8. CASE ~u.accepts
    BY <1>3, <1>8 DEF Loaded, Holds, StillUnread, new
  <1>9. CASE u.accepts
    <2>1. Loaded(new)
      BY <1>4, <1>5, <1>7, <1>9 DEF Loaded
    <2>2. ASSUME NEW m \in Holds(c)
          PROVE  \/ m \in Holds(new)
                 \/ \E a \in unknown : AckedBy(p, a) /\ m \in Carried(a.payload)
      <3>1. CASE m \in Queued(c.queue)
        BY <1>4, <1>6, <1>7, <1>9, <2>2, <3>1 DEF Holds, Resendable
      <3>2. ASSUME NEW a \in unknown, m \in Carried(a.payload), ~AckedBy(p, a)
            PROVE  m \in Holds(new)
        <4>1. CASE TimedOut(p, a)
          <5>1. a \in ToSet(lost) /\ m \in Resendable(Carried(a.payload))
            BY <1>5, <2>2, <3>2, <4>1 DEF Resendable, Holds
          <5> QED
            BY <1>4, <1>6, <1>7, <1>9, <5>1 DEF Holds, Resendable
        <4>2. CASE ~TimedOut(p, a)
          <5>1. a \in ToSet(new.sentAckQueue)
            BY <1>4, <1>5, <1>9, <3>2, <4>2
          <5> QED
            BY <2>2, <3>2, <5>1 DEF Holds, Resendable
        <4> QED
          BY <4>1, <4>2
      <3> QED
        BY <2>2, <3>1, <3>2 DEF Holds, Resendable
    <2>3. /\ StillUnread(new.queue, c.queue)
          /\ p.payload = <<>> => new.queue.recvQueue = c.queue.recvQueue
      BY <1>4, <1>6, <1>7, <1>9 DEF StillUnread
    <2> QED
      BY <1>9, <2>1, <2>2, <2>3 DEF u, new
  <1> QED
    BY <1>1, <1>8, <1>9

\* The number of every packet that waits for its acknowledgement is different
\* from the next one's: send_ack_required().
LEMMA NotedWhenFree ==
    ASSUME NEW c, \A a \in ToSet(c.sentAckQueue) : a.seq # c.localSeq
    PROVE  SendAckRequired(c)
  BY DEF SendAckRequired, ToSet

\* send_packet() stays responsible for every message, those that it puts into
\* its packet included, as long as it takes a note of the packet.
SendsHeld(c, r, id) ==
    /\ Holds(c) \subseteq Holds(r.conn)
    /\ \A a \in ToSet(r.conn.sentAckQueue) :
          \/ a \in ToSet(c.sentAckQueue)
          \/ a.id = id /\ \A p \in r.packet : p.payload = a.payload

\* The packet that send_packet() makes of the queues.
SendsPacked(c, r) ==
    /\ Loaded(r.conn)
    /\ \A p \in r.packet :
          /\ IsPayload(p.payload)
          /\ RequiredBytes(MessagesFromPacket(p.payload)) <= PacketSpace
          /\ ~IsClosure(p) /\ SomeFits(c.queue, PacketSpace) => p.payload # <<>>

LEMMA TransmitHolds ==
    ASSUME ~Scrambles, NEW c, IsConnection(c), Loaded(c), NEW env, NEW id
    PROVE  LET r == Transmit(c, env, id, OutgoingPacket(c))
           IN  /\ SendsPacked(c, r)
               /\ SendAckRequired(c) => SendsHeld(c, r, id)
  <1> DEFINE out == OutgoingPacket(c)
             r == Transmit(c, env, id, out)
             note == NoteOf(c, id, out.payload)
             sent == IF SendAckRequired(c) THEN Append(c.sentAckQueue, note)
                     ELSE c.sentAckQueue
             left == QueueDismiss(out.queue)
  <1>1. /\ out.queue \in QueuesOf(Datas) /\ IsPayload(out.payload)
        /\ Queued(out.queue) \cup Carried(out.payload) = Queued(c.queue)
        /\ RequiredBytes(MessagesFromPacket(out.payload)) <= PacketSpace
        /\ c.state # "Closing" /\ SomeFits(c.queue, PacketSpace)
           => out.payload # <<>>
    <2>1. CASE c.state = "Closing"
      <3>1. out.queue = c.queue /\ out.payload = <<>>
        BY <2>1 DEF OutgoingPacket
      <3>2. <<>> \in Seq(Sendable) /\ Wire(<<>>) = <<>>
        BY DEF Wire
      <3>3. /\ IsPayload(<<>>) /\ Carried(<<>>) = {}
            /\ RequiredBytes(MessagesFromPacket(<<>>)) <= PacketSpace
        <4> DEFINE e == <<>>
        <4>1. /\ e \in Seq(Sendable) /\ Wire(e) = e /\ ToSet(e) = {}
              /\ RequiredBytes(e) <= PacketSpace
          BY <3>2, EmptySet, RequiredEmpty, ThresholdAssumption
        <4> HIDE DEF e
        <4>2. MessagesFromPacket(e) = e
          BY <4>1, PayloadRoundTrip DEF Sendable
        <4>3. /\ IsPayload(e) /\ Carried(e) = {}
              /\ RequiredBytes(MessagesFromPacket(e)) <= PacketSpace
          BY <4>1, <4>2 DEF IsPayload, Carried
        <4> QED
          BY <4>3 DEF e
      <3> QED
        BY <2>1, <3>1, <3>3 DEF Loaded
    <2>2. CASE c.state # "Closing"
      <3> DEFINE q == QueueSendPacket(c.queue, PacketSpace)
      <3>1. out.queue = q.queue /\ out.payload = Outgoing(q.payload)
        BY <2>2 DEF OutgoingPacket
      <3>2. PacketSpace \in Nat
        BY ThresholdAssumption
      <3>3. PICK msgs : Sent(Datas, c.queue, PacketSpace, q, msgs)
        BY <3>2, PackingIsSound DEF Loaded
      <3> HIDE DEF q
      <3>4. /\ q.queue \in QueuesOf(Datas) /\ msgs \in Seq(Sendable)
            /\ q.payload = Wire(msgs)
            /\ Queued(q.queue) \cup ToSet(msgs) = Queued(c.queue)
            /\ RequiredBytes(msgs) <= PacketSpace
            /\ SomeFits(c.queue, PacketSpace) => msgs # <<>>
        BY <3>3 DEF Sent, Sendable
      <3>5. IsPayload(q.payload) /\ Carried(q.payload) = ToSet(msgs)
        BY <3>4, PayloadRoundTrip DEF IsPayload, Carried, Sendable
      <3>6. Outgoing(q.payload) = q.payload
        BY <3>5, PayloadFacts
      <3>7. MessagesFromPacket(q.payload) = msgs
        BY <3>4, PayloadRoundTrip DEF Sendable
      <3>8. msgs # <<>> => q.payload # <<>>
        BY <3>4 DEF Wire
      <3> QED
        BY <2>2, <3>1, <3>4, <3>5, <3>6, <3>7, <3>8
    <2> QED
      BY <2>1, <2>2
  <1>2. r.conn = [c EXCEPT !.sinceSend = r.conn.sinceSend, !.sentAckQueue = sent,
                           !.localSeq = r.conn.localSeq, !.queue = left]
    <2>1. \E since, next :
             r.conn = [c EXCEPT !.sinceSend = since, !.sentAckQueue = sent,
                                !.localSeq = next, !.queue = left]
      BY DEF Transmit, NoteOf, IsConnection
    <2> HIDE DEF r, sent, left
    <2> QED
      BY <2>1 DEF IsConnection
  <1>3. \A p \in r.packet : /\ p.payload = out.payload
                            /\ c.state = "Closing" => IsClosure(p)
    <2>1. \A p \in r.packet : /\ p.seq = out.header.seq /\ p.ack = out.header.ack
                              /\ p.bits = out.header.bits
                              /\ p.payload = out.payload
      <3> HIDE DEF out
      <3> QED
        BY DEF Transmit
    <2>2. c.state = "Closing" => out.header = ClosureHeader
      BY DEF OutgoingPacket
    <2> HIDE DEF r, out
    <2> QED
      BY <2>1, <2>2 DEF IsClosure, ClosureHeader
  <1>4. left \in QueuesOf(Datas) /\ Queued(left) = Queued(out.queue)
    <2> DEFINE e == <<>>
    <2>1. e \in Seq(MessagesOf(Datas))
      OBVIOUS
    <2>2. left = [out.queue EXCEPT !.recvQueue = e]
      BY DEF QueueDismiss
    <2> HIDE DEF e, left, out
    <2> QED
      BY <1>1, <2>1, <2>2 DEF QueuesOf, Queued
  <1>5. note.payload = out.payload /\ note.id = id
    BY DEF NoteOf
  <1> HIDE DEF out, r, left, note
  <1>6. /\ ToSet(sent) \subseteq ToSet(c.sentAckQueue) \cup {note}
        /\ SendAckRequired(c) => ToSet(sent) = ToSet(c.sentAckQueue) \cup {note}
    <2>1. PICK S : c.sentAckQueue \in Seq(S)
      BY DEF IsConnection
    <2>2. c.sentAckQueue \in Seq(S \cup {note})
      BY <2>1
    <2>3. ToSet(Append(c.sentAckQueue, note)) = ToSet(c.sentAckQueue) \cup {note}
      BY <2>2, AppendSet
    <2> QED
      BY <2>3
  <1> HIDE DEF sent
  <1>7. r.conn.queue = left /\ r.conn.sentAckQueue = sent
    BY <1>2 DEF IsConnection
  <1>8. Loaded(r.conn)
    BY <1>1, <1>4, <1>5, <1>6, <1>7 DEF Loaded
  <1>9. SendAckRequired(c) => Holds(c) \subseteq Holds(r.conn)
    <2> SUFFICES ASSUME SendAckRequired(c)
                 PROVE  Holds(c) \subseteq Holds(r.conn)
      OBVIOUS
    <2>1. ASSUME NEW m \in Queued(c.queue)
          PROVE  m \in Queued(left) \/ m \in Carried(note.payload)
      BY <1>1, <1>4, <1>5
    <2>2. ASSUME NEW m \in Holds(c)
          PROVE  m \in Holds(r.conn)
      <3>1. CASE m \in Queued(c.queue)
        BY <1>6, <1>7, <2>1, <2>2, <3>1 DEF Holds, Resendable
      <3>2. CASE \E a \in ToSet(c.sentAckQueue) : m \in Carried(a.payload)
        BY <1>6, <1>7, <2>2, <3>2 DEF Holds, Resendable
      <3> QED
        BY <2>2, <3>1, <3>2 DEF Holds, Resendable
    <2> QED
      BY <2>2
  <1>10. SendsPacked(c, r)
    BY <1>1, <1>3, <1>8 DEF SendsPacked
  <1>11. SendAckRequired(c) => SendsHeld(c, r, id)
    BY <1>1, <1>3, <1>5, <1>6, <1>7, <1>8, <1>9 DEF SendsHeld
  <1> QED
    BY <1>10, <1>11 DEF r, out

LEMMA SendHolds ==
    ASSUME ~Scrambles, NEW c, IsConnection(c), Loaded(c), NEW env, NEW id
    PROVE  LET r == SendPacket(c, env, id)
           IN  /\ SendsPacked(c, r)
               /\ SendAckRequired(c) \/ r.conn.localSeq = c.localSeq
                  => SendsHeld(c, r, id)
  <1> DEFINE u == UpdateSendState(c)
             d == IF env.congestionChanged THEN Emit(u.conn, <<"Congestion">>)
                  ELSE u.conn
             r == SendPacket(c, env, id)
  <1>1. /\ u.conn = [c EXCEPT !.state = u.conn.state, !.events = u.conn.events]
        /\ u.conn.state \in States5
    BY SendState
  <1>2. \/ r = [conn |-> u.conn, packet |-> {}]
        \/ r = [conn |-> d, packet |-> {}]
        \/ r = Transmit(d, env, id, OutgoingPacket(d))
    BY DEF SendPacket
  <1>3. /\ d = [c EXCEPT !.state = d.state, !.events = d.events]
        /\ d.state = u.conn.state
    <2> HIDE DEF u
    <2> QED
      BY <1>1 DEF Emit, IsConnection
  <1> HIDE DEF u, d, r
  <1>4. ASSUME NEW e, e = [c EXCEPT !.state = e.state, !.events = e.events],
               e.state \in States5
        PROVE  /\ IsConnection(e) /\ Loaded(e) /\ e.localSeq = c.localSeq
               /\ SendAckRequired(c) => SendAckRequired(e)
               /\ e.queue = c.queue
               /\ Holds(e) = Holds(c) /\ e.sentAckQueue = c.sentAckQueue
    <2>1. e = [state |-> e.state, localSeq |-> c.localSeq,
               remoteSeq |-> c.remoteSeq, sinceRecv |-> c.sinceRecv,
               sinceSend |-> c.sinceSend, recvAckQueue |-> c.recvAckQueue,
               sentAckQueue |-> c.sentAckQueue, queue |-> c.queue,
               events |-> e.events]
      BY <1>4 DEF IsConnection
    <2>2. /\ e.queue = c.queue /\ e.sentAckQueue = c.sentAckQueue
          /\ e.localSeq = c.localSeq
      BY <2>1
    <2>3. IsConnection(e)
      BY <1>4, <2>1 DEF IsConnection
    <2> QED
      BY <2>2, <2>3 DEF Loaded, Holds, SendAckRequired
  <1>5. ASSUME NEW e, e = [c EXCEPT !.state = e.state, !.events = e.events],
               e.state \in States5, r = [conn |-> e, packet |-> {}]
        PROVE  SendsPacked(c, r) /\ SendsHeld(c, r, id)
    <2>1. r.conn = e /\ r.packet = {}
      BY <1>5
    <2>2. /\ Loaded(e) /\ Holds(e) = Holds(c) /\ e.sentAckQueue = c.sentAckQueue
      BY <1>4, <1>5
    <2> QED
      BY <2>1, <2>2 DEF SendsHeld, SendsPacked
  <1>6. ASSUME r = Transmit(d, env, id, OutgoingPacket(d))
        PROVE  /\ SendsPacked(c, r) /\ r.conn.localSeq # c.localSeq
               /\ SendAckRequired(c) => SendsHeld(c, r, id)
    <2>1. /\ IsConnection(d) /\ Loaded(d) /\ d.localSeq = c.localSeq
          /\ SendAckRequired(c) => SendAckRequired(d)
          /\ d.queue = c.queue
          /\ Holds(d) = Holds(c) /\ d.sentAckQueue = c.sentAckQueue
      BY <1>1, <1>3, <1>4
    <2>2. SendsPacked(d, r) /\ (SendAckRequired(d) => SendsHeld(d, r, id))
      BY <1>6, <2>1, TransmitHolds
    <2>3. r.conn.localSeq # c.localSeq
      <3>1. r.conn.localSeq = Successor(d.localSeq, MaxSeqNumber)
        <4> DEFINE next == Successor(d.localSeq, MaxSeqNumber)
        <4>1. \E since, sent, left :
                 r.conn = [d EXCEPT !.sinceSend = since, !.sentAckQueue = sent,
                                    !.localSeq = next, !.queue = left]
          BY <1>6 DEF Transmit
        <4> HIDE DEF next
        <4>2. r.conn.localSeq = next
          BY <2>1, <4>1 DEF IsConnection
        <4> QED
          BY <4>2 DEF next
      <3>2. d.localSeq \in SeqNumbers
        BY <2>1 DEF IsConnection
      <3> QED
        BY <2>1, <3>1, <3>2, SuccessorDiffers
    <2>4. SendsPacked(c, r)
      BY <1>4, <2>1, <2>2 DEF SendsPacked
    <2> QED
      BY <2>1, <2>2, <2>3, <2>4 DEF SendsHeld
  <1>7. ASSUME r = [conn |-> u.conn, packet |-> {}]
        PROVE  SendsPacked(c, r) /\ SendsHeld(c, r, id)
    <2> DEFINE e == u.conn
    <2>1. e = [c EXCEPT !.state = e.state, !.events = e.events]
      BY <1>1
    <2>2. e.state \in States5 /\ r = [conn |-> e, packet |-> {}]
      BY <1>1, <1>7
    <2> HIDE DEF e
    <2> QED
      BY <1>5, <2>1, <2>2
  <1>8. ASSUME r = [conn |-> d, packet |-> {}]
        PROVE  SendsPacked(c, r) /\ SendsHeld(c, r, id)
    <2>1. d.state \in States5
      BY <1>1, <1>3
    <2> QED
      BY <1>3, <1>5, <1>8, <2>1
  <1>9. /\ SendsPacked(c, r)
        /\ SendAckRequired(c) \/ r.conn.localSeq = c.localSeq
           => SendsHeld(c, r, id)
    BY <1>2, <1>6, <1>7, <1>8
  <1> QED
    BY <1>9 DEF r

\* The other calls lose no message.
Retains(new, c) ==
    /\ Loaded(new) /\ Holds(c) \subseteq Holds(new)
    /\ \A a \in ToSet(new.sentAckQueue) :
          \E b \in ToSet(c.sentAckQueue) : a.id = b.id /\ a.payload = b.payload

LEMMA RetainsSame ==
    ASSUME NEW c, Loaded(c), NEW new, new.sentAckQueue = c.sentAckQueue,
           new.queue \in QueuesOf(Datas), Queued(c.queue) \subseteq Queued(new.queue)
    PROVE  Retains(new, c)
  BY DEF Retains, Loaded, Holds, Resendable

LEMMA ApplicationCallsHold ==
    ASSUME NEW c, IsConnection(c), Loaded(c)
    PROVE  /\ Retains(Drained(c), c) /\ Retains(Close(c), c) /\ Retains(c, c)
           /\ \A kind \in Kinds, data \in Datas, len \in Nat :
                 LET new == SendMessage(c, kind, data, len)
                 IN  /\ Retains(new, c)
                     /\ kind # "Instant" => \E m \in Holds(new) : m.data = data
  <1>1. c.queue \in QueuesOf(Datas)
    BY DEF Loaded
  <1>2. Retains(c, c)
    BY <1>1, RetainsSame
  <1>3. Retains(Close(c), c)
    <2>1. Close(c).queue = c.queue /\ Close(c).sentAckQueue = c.sentAckQueue
      BY DEF Close, IsConnection
    <2> QED
      BY <1>1, <2>1, RetainsSame
  <1>4. Retains(Drained(c), c)
    <2> DEFINE e == <<>>
               left == QueueDismiss(c.queue)
               new == Drained(c)
    <2>1. e \in Seq(MessagesOf(Datas))
      OBVIOUS
    <2>2. left = [c.queue EXCEPT !.recvQueue = e]
      BY DEF QueueDismiss
    <2>3. new = [c EXCEPT !.events = e, !.queue = left]
      BY DEF Drained
    <2> HIDE DEF e, left, new
    <2>4. left \in QueuesOf(Datas) /\ Queued(left) = Queued(c.queue)
      BY <1>1, <2>1, <2>2 DEF QueuesOf, Queued
    <2>5. new.queue = left /\ new.sentAckQueue = c.sentAckQueue
      BY <2>3 DEF IsConnection
    <2>6. Retains(new, c)
      BY <2>4, <2>5, RetainsSame
    <2> QED
      BY <2>6 DEF new
  <1>5. ASSUME NEW kind \in Kinds, NEW data \in Datas, NEW len \in Nat
        PROVE  LET new == SendMessage(c, kind, data, len)
               IN  /\ Retains(new, c)
                   /\ kind # "Instant" => \E m \in Holds(new) : m.data = data
    <2> DEFINE q == QueueSend(c.queue, kind, data, len)
               new == SendMessage(c, kind, data, len)
    <2>1. new = [c EXCEPT !.queue = q]
      BY DEF SendMessage
    <2>2. /\ q \in QueuesOf(Datas)
          /\ \E m \in MessagesOf(Datas) :
                /\ m.kind = kind /\ m.data = data
                /\ Queued(q) = Queued(c.queue) \cup {m}
      BY <1>1, SendQueues
    <2> HIDE DEF q, new
    <2>3. new.queue = q /\ new.sentAckQueue = c.sentAckQueue
      BY <2>1 DEF IsConnection
    <2>4. Retains(new, c)
      BY <2>2, <2>3, RetainsSame
    <2>5. kind # "Instant" => \E m \in Holds(new) : m.data = data
      BY <2>2, <2>3 DEF Holds, Resendable
    <2> QED
      BY <2>4, <2>5 DEF new
  <1> QED
    BY <1>2, <1>3, <1>4, <1>5

LEMMA ElapseHolds ==
    ASSUME NEW c, IsConnection(c), Loaded(c)
    PROVE  Retains(Elapse(c), c)
  <1> DEFINE q == c.sentAckQueue
             aged == [i \in DOMAIN q |-> Aged(q[i])]
             received == Older(c.sinceRecv, LongestThreshold)
             sent == Older(c.sinceSend, DropThreshold)
             new == Elapse(c)
  <1>1. new = [c EXCEPT !.sinceRecv = received, !.sinceSend = sent,
                        !.sentAckQueue = aged]
    BY DEF Elapse
  <1> HIDE DEF received, sent, new
  <1>2. ASSUME NEW a, IsEntry(a)
        PROVE  Aged(a).payload = a.payload /\ Aged(a).id = a.id
    BY <1>2 DEF IsEntry, Aged
  <1>3. \A b \in ToSet(q) : IsEntry(b) /\ IsPayload(b.payload)
    BY DEF IsConnection, Loaded
  <1>4. /\ \A a \in ToSet(aged) : \E b \in ToSet(q) : a = Aged(b)
        /\ \A b \in ToSet(q) : Aged(b) \in ToSet(aged)
    BY DEF ToSet
  <1> HIDE DEF aged
  <1>5. new.queue = c.queue /\ new.sentAckQueue = aged
    BY <1>1 DEF IsConnection
  <1> HIDE DEF q
  <1>6. Loaded(new)
    BY <1>2, <1>3, <1>4, <1>5 DEF Loaded
  <1>7. Holds(c) \subseteq Holds(new)
    <2>1. \A b \in ToSet(q) : \E a \in ToSet(aged) : a.payload = b.payload
      BY <1>2, <1>3, <1>4
    <2> QED
      BY <1>5, <2>1 DEF Holds, Resendable, q
  <1>8. \A a \in ToSet(aged) :
           \E b \in ToSet(q) : a.id = b.id /\ a.payload = b.payload
    BY <1>2, <1>3, <1>4
  <1> QED
    BY <1>5, <1>6, <1>7, <1>8 DEF Retains, new, q

-----------------------------------------------------------------------------
(* Acknowledgements of two connections *)

Initially(e) == IF e = "initiator" THEN {0} ELSE {}

BothOpen(e) == ~Closes(conn[e]) /\ ~Closes(conn[Peer(e)])

LinkShape ==
    /\ DOMAIN conn = Ends /\ DOMAIN net = Ends /\ due \in [Ends -> BOOLEAN]
    /\ count \in [Ends -> Nat] /\ DOMAIN processed = Ends /\ DOMAIN acked = Ends
    /\ "initiator" \in born /\ born \subseteq Ends
    /\ \A e \in Ends :
          /\ IsConnection(conn[e])
          /\ due[e] => e \in born
          /\ e \notin born => conn[e].state = "Connecting"

\* No end has used a sequence number twice yet.
NoNumberTwice == \A e \in Ends : count[e] <= MaxSeqNumber

\* A packet's number is how many there were before it.
Numbered(e) ==
    /\ conn[e].localSeq = IF count[e] = MaxSeqNumber THEN 0 ELSE count[e]
    /\ \A a \in ToSet(conn[e].sentAckQueue) : a.id = a.seq /\ a.seq \in SeqNumbers
    /\ \A p \in net[Peer(e)] : ~Closes(conn[e]) => p.id = p.seq

\* The numbers that an end is going to acknowledge, those that are acknowledged
\* by its packets on their way, and those that the peer takes for acknowledged,
\* are of packets it has processed; or the initial number.
Acknowledged(e) ==
    /\ ~Closes(conn[Peer(e)]) =>
          /\ ToSet(conn[e].recvAckQueue) \subseteq processed[e]
          /\ e \in born => conn[e].remoteSeq \in processed[e] \cup Initially(e)
    /\ BothOpen(e) =>
          /\ \A p \in net[Peer(e)] : \A n \in SeqNumbers :
                SeqWasAcked(n, p.ack, p.bits)
                => n \in processed[e] \cup Initially(e)
          /\ acked[Peer(e)] \subseteq processed[e] \cup Initially(e)

LinkInv ==
    /\ LinkShape
    /\ \A e \in Ends : \A p \in net[Peer(e)] : p.seq \in SeqNumbers
    /\ NoNumberTwice => \A e \in Ends : Numbered(e) /\ Acknowledged(e)

LEMMA PeerOfPeer ==
    ASSUME NEW e \in Ends
    PROVE  /\ Peer(e) \in Ends /\ Peer(Peer(e)) = e /\ Peer(e) # e
           /\ \A f \in Ends : f = e \/ f = Peer(e)
  BY DEF Peer, Ends

LEMMA InitLinkInv == Init => LinkInv
  <1> SUFFICES ASSUME Init PROVE LinkInv
    OBVIOUS
  <1>1. LinkShape
    BY NewIsConnection DEF Init, LinkShape, Ends
  <1>2. ASSUME NEW e \in Ends
        PROVE  Numbered(e) /\ Acknowledged(e) /\ net[Peer(e)] = {}
    <2>1. /\ conn[e] = NewConnection /\ net[Peer(e)] = {} /\ count[e] = 0
          /\ processed[e] = {} /\ acked[Peer(e)] = {}
          /\ e \in born => e = "initiator"
      BY PeerOfPeer DEF Init
    <2>2. MaxSeqNumber # 0
      BY SeqAssumption
    <2>3. Numbered(e)
      BY <2>1, <2>2, NewIsConnection DEF Numbered
    <2>4. Acknowledged(e)
      BY <2>1, NewIsConnection DEF Acknowledged, Initially
    <2> QED
      BY <2>1, <2>3, <2>4
  <1> QED
    BY <1>1, <1>2 DEF LinkInv

\* A step that sends no packet and takes none in.
LEMMA KeepingStep ==
    ASSUME LinkInv, DOMAIN conn' = Ends, due' \in [Ends -> BOOLEAN],
           UNCHANGED <<born, net, count, processed, acked>>,
           \A e \in Ends : /\ Spares(conn'[e], conn[e])
                           /\ due'[e] => e \in born
                           /\ e \notin born => conn'[e].state = "Connecting"
    PROVE  LinkInv'
  <1>1. LinkShape'
    BY DEF LinkInv, LinkShape, Spares
  <1>2. ASSUME NEW e \in Ends, NoNumberTwice
        PROVE  Numbered(e)' /\ Acknowledged(e)'
    <2>1. /\ Numbered(e) /\ Acknowledged(e) /\ Peer(e) \in Ends
          /\ Spares(conn'[e], conn[e]) /\ Spares(conn'[Peer(e)], conn[Peer(e)])
      BY <1>2, PeerOfPeer DEF LinkInv
    <2>2. Numbered(e)'
      BY <2>1 DEF Numbered, Spares
    <2>3. Acknowledged(e)'
      BY <2>1 DEF Acknowledged, Spares, BothOpen
    <2> QED
      BY <2>2, <2>3
  <1> QED
    BY <1>1, <1>2 DEF LinkInv, NoNumberTwice

LEMMA ArriveStep ==
    ASSUME LinkInv, NEW e \in Ends, NEW p \in net[e], Arrive(e, p)
    PROVE  LinkInv'
  <1> DEFINE f == Peer(e)
             c == conn[e]
             u == UpdateReceiveState(c, p)
             new == ReceivePacket(c, p)
  <1>1. f \in Ends /\ Peer(f) = e /\ f # e /\ \A g \in Ends : g \in {e, f}
    BY PeerOfPeer
  <1>2. /\ LinkShape /\ IsConnection(c) /\ p.seq \in SeqNumbers
        /\ \A g \in Ends : \A o \in net[Peer(g)] : o.seq \in SeqNumbers
    BY <1>1 DEF LinkInv, LinkShape
  <1>3. /\ conn' = [conn EXCEPT ![e] = new] /\ born' = born \cup {e}
        /\ due' = [due EXCEPT ![e] = e \notin born \/ due[e]]
        /\ net' = net /\ count' = count
    BY DEF Arrive
  <1>4. /\ IsConnection(new) /\ new.localSeq = c.localSeq
        /\ Closes(c) => Closes(new) /\ u.accepts \in BOOLEAN
        /\ ToSet(new.sentAckQueue) \subseteq ToSet(c.sentAckQueue)
        /\ u.accepts =>
              /\ new.remoteSeq = p.seq
              /\ ToSet(new.recvAckQueue) \subseteq ToSet(c.recvAckQueue) \cup {p.seq}
        /\ ~u.accepts =>
              /\ new.remoteSeq = c.remoteSeq /\ e \in born
              /\ new.recvAckQueue = c.recvAckQueue
    <2>1. e \notin born => u.accepts
      BY <1>2, ReceiveState DEF LinkShape
    <2>2. /\ IsConnection(new) /\ new.localSeq = c.localSeq
          /\ new.state = u.conn.state
          /\ ToSet(new.sentAckQueue) \subseteq ToSet(c.sentAckQueue)
          /\ u.accepts =>
                /\ new.remoteSeq = p.seq
                /\ ToSet(new.recvAckQueue)
                      \subseteq ToSet(c.recvAckQueue) \cup {p.seq}
          /\ ~u.accepts =>
                /\ new.remoteSeq = c.remoteSeq
                /\ new.recvAckQueue = c.recvAckQueue
      BY <1>2, ReceiveEffect
    <2>4. u.accepts \in BOOLEAN /\ (Closes(c) => Closes(u.conn))
      BY <1>2, ReceiveState
    <2> HIDE DEF new, u, c
    <2>3. Closes(c) => Closes(new)
      BY <2>2, <2>4 DEF Closes
    <2> QED
      BY <2>1, <2>2, <2>3, <2>4
  <1>5. /\ DOMAIN processed' = Ends /\ DOMAIN acked' = Ends
        /\ processed'[f] = processed[f] /\ processed[e] \subseteq processed'[e]
        /\ u.accepts => p.id \in processed'[e]
        /\ acked'[f] = acked[f]
        /\ \A x \in acked'[e] :
              \/ x \in acked[e]
              \/ \E a \in ToSet(c.sentAckQueue) : AckedBy(p, a) /\ a.id = x
    <2>1. DOMAIN processed = Ends /\ DOMAIN acked = Ends
      BY <1>2 DEF LinkShape
    <2>2. CASE u.accepts
      <3> DEFINE q == c.sentAckQueue
                 taken == {a.id : a \in {q[i] : i \in {j \in DOMAIN q :
                                                          AckedBy(p, q[j])}}}
      <3>1. /\ processed' = [processed EXCEPT ![e] = processed[e] \cup {p.id}]
            /\ acked' = [acked EXCEPT ![e] = acked[e] \cup taken]
        BY <2>2 DEF Arrive
      <3>2. \A x \in taken : \E a \in ToSet(q) : AckedBy(p, a) /\ a.id = x
        BY DEF ToSet
      <3> HIDE DEF taken, q
      <3>3. /\ DOMAIN processed' = Ends /\ DOMAIN acked' = Ends
            /\ processed'[e] = processed[e] \cup {p.id}
            /\ processed'[f] = processed[f]
            /\ acked'[e] = acked[e] \cup taken /\ acked'[f] = acked[f]
        BY <1>1, <2>1, <3>1
      <3> QED
        BY <3>2, <3>3 DEF q
    <2>3. CASE ~u.accepts
      BY <2>1, <2>3 DEF Arrive, history
    <2> QED
      BY <2>2, <2>3
  <1>6. /\ DOMAIN conn' = Ends /\ conn'[e] = new /\ conn'[f] = conn[f]
        /\ due' \in [Ends -> BOOLEAN] /\ due'[f] = due[f]
    <2>1. DOMAIN conn = Ends /\ due \in [Ends -> BOOLEAN]
      BY <1>2 DEF LinkShape
    <2>2. (e \notin born \/ due[e]) \in BOOLEAN
      BY <2>1
    <2> QED
      BY <1>1, <1>3, <2>1, <2>2
  <1> HIDE DEF f, u, c, new
  <1>7. LinkShape'
    <2>1. \A g \in Ends : IsConnection(conn'[g])
      BY <1>1, <1>2, <1>4, <1>6 DEF LinkShape
    <2>2. \A g \in Ends : (due'[g] => g \in born')
                          /\ (g \notin born' => conn'[g].state = "Connecting")
      BY <1>1, <1>2, <1>3, <1>6 DEF LinkShape
    <2> QED
      BY <1>2, <1>3, <1>5, <1>6, <2>1, <2>2 DEF LinkShape
  <1>8. ASSUME NoNumberTwice
        PROVE  \A g \in Ends : Numbered(g)' /\ Acknowledged(g)'
    <2>1. /\ Numbered(e) /\ Numbered(f) /\ Acknowledged(e) /\ Acknowledged(f)
      BY <1>1, <1>8 DEF LinkInv
    <2>2. ~Closes(conn[f]) => p.id = p.seq
      BY <1>1, <2>1 DEF Numbered
    <2>3. BothOpen(f) /\ BothOpen(e)
             => \A n \in SeqNumbers : SeqWasAcked(n, p.ack, p.bits)
                                      => n \in processed[f] \cup Initially(f)
      BY <1>1, <2>1 DEF Acknowledged, BothOpen
    <2>4. Numbered(e)' /\ Numbered(f)'
      BY <1>1, <1>3, <1>4, <1>6, <2>1 DEF Numbered, c
    <2>5. Acknowledged(e)'
      <3>1. ~Closes(conn[f]) =>
               /\ ToSet(conn'[e].recvAckQueue) \subseteq processed'[e]
               /\ conn'[e].remoteSeq \in processed'[e] \cup Initially(e)
        <4>1. ASSUME ~Closes(conn[f])
              PROVE  /\ ToSet(c.recvAckQueue) \subseteq processed[e]
                     /\ e \in born => c.remoteSeq \in processed[e] \cup Initially(e)
          BY <2>1, <4>1 DEF Acknowledged, c, f
        <4> QED
          BY <1>4, <1>5, <1>6, <2>2, <4>1
      <3>2. (BothOpen(e))' => BothOpen(e)
        BY <1>1, <1>4, <1>6 DEF BothOpen, c, f
      <3>3. (BothOpen(e))' => /\ \A o \in net'[f] : \A n \in SeqNumbers :
                                    SeqWasAcked(n, o.ack, o.bits)
                                    => n \in processed'[e] \cup Initially(e)
                              /\ acked'[f] \subseteq processed'[e] \cup Initially(e)
        BY <1>1, <1>3, <1>5, <2>1, <3>2 DEF Acknowledged, f
      <3> QED
        BY <1>6, <3>1, <3>3 DEF Acknowledged, f
    <2>6. Acknowledged(f)'
      <3>1. (BothOpen(f))' => BothOpen(f) /\ BothOpen(e)
        <4>1. Peer(e) = f
          BY DEF f
        <4>2. (BothOpen(f))' => ~Closes(conn'[f]) /\ ~Closes(conn'[e])
          BY <1>1 DEF BothOpen, f
        <4> QED
          BY <1>1, <1>4, <1>6, <4>1, <4>2 DEF BothOpen, c
      <3>2. ASSUME BothOpen(f), BothOpen(e)
            PROVE  acked'[e] \subseteq processed[f] \cup Initially(f)
        <4>1. ASSUME NEW a \in ToSet(c.sentAckQueue), AckedBy(p, a)
              PROVE  a.id \in processed[f] \cup Initially(f)
          BY <2>1, <2>3, <3>2, <4>1 DEF AckedBy, Numbered, c
        <4>2. acked[e] \subseteq processed[f] \cup Initially(f)
          BY <1>1, <2>1, <3>2 DEF Acknowledged
        <4> QED
          BY <1>5, <4>1, <4>2
      <3>3. ~Closes(conn'[e]) =>
               /\ ToSet(conn'[f].recvAckQueue) \subseteq processed'[f]
               /\ f \in born' => conn'[f].remoteSeq \in processed'[f] \cup Initially(f)
        BY <1>1, <1>3, <1>4, <1>5, <1>6, <2>1 DEF Acknowledged, Closes, c
      <3>4. BothOpen(f) => \A o \in net'[e] : \A n \in SeqNumbers :
                              SeqWasAcked(n, o.ack, o.bits)
                              => n \in processed'[f] \cup Initially(f)
        BY <1>1, <1>3, <1>5, <2>1 DEF Acknowledged
      <3> QED
        BY <1>1, <1>5, <3>1, <3>2, <3>3, <3>4 DEF Acknowledged
    <2> QED
      BY <1>1, <2>4, <2>5, <2>6
  <1>9. NoNumberTwice' => NoNumberTwice
    BY <1>3 DEF NoNumberTwice
  <1> QED
    BY <1>2, <1>3, <1>7, <1>8, <1>9 DEF LinkInv, f

LEMMA FlushStep ==
    ASSUME LinkInv, NEW e \in Ends, NEW env \in Envs, Flush(e, env)
    PROVE  LinkInv'
  <1> DEFINE f == Peer(e)
             c == conn[e]
             r == SendPacket(c, env, count[e])
             n == count[e] + (IF r.conn.localSeq # c.localSeq THEN 1 ELSE 0)
  <1>1. f \in Ends /\ Peer(f) = e /\ f # e /\ \A g \in Ends : g \in {e, f}
    BY PeerOfPeer
  <1>2. /\ LinkShape /\ IsConnection(c) /\ e \in born /\ count[e] \in Nat
        /\ \A g \in Ends : \A o \in net[Peer(g)] : o.seq \in SeqNumbers
    BY <1>1 DEF LinkInv, LinkShape, Flush
  <1>3. /\ conn' = [conn EXCEPT ![e] = r.conn]
        /\ count' = [count EXCEPT ![e] = n]
        /\ net' = [net EXCEPT ![f] = Carry(net[f], r.packet, n)]
        /\ due' = [due EXCEPT ![e] = FALSE]
        /\ UNCHANGED <<born, processed, acked>>
    BY DEF Flush, history
  <1>4. /\ IsConnection(r.conn) /\ r.conn.remoteSeq = c.remoteSeq
        /\ r.conn.recvAckQueue = c.recvAckQueue
        /\ Closes(c) => Closes(r.conn)
        /\ \/ /\ r.packet = {} /\ r.conn.localSeq = c.localSeq
              /\ r.conn.sentAckQueue = c.sentAckQueue
           \/ Sends(c, r, env, count[e])
    BY <1>2, SendEffect
  <1>5. /\ DOMAIN conn' = Ends /\ conn'[e] = r.conn /\ conn'[f] = conn[f]
        /\ due' \in [Ends -> BOOLEAN] /\ due'[f] = due[f]
        /\ DOMAIN net' = Ends /\ net'[e] = net[e]
        /\ net'[f] \subseteq net[f] \cup r.packet
        /\ n \in Nat /\ count' \in [Ends -> Nat]
        /\ count'[e] = n /\ count'[f] = count[f] /\ count[e] <= n
    <2>1. /\ DOMAIN conn = Ends /\ due \in [Ends -> BOOLEAN]
          /\ DOMAIN net = Ends /\ count \in [Ends -> Nat]
      BY <1>2 DEF LinkShape
    <2>2. n \in Nat /\ count[e] <= n
      BY <1>2
    <2>3. Carry(net[f], r.packet, n) \subseteq net[f] \cup r.packet
      BY DEF Carry
    <2> HIDE DEF n, r, f
    <2> QED
      BY <1>1, <1>3, <2>1, <2>2, <2>3
  <1>6. Sends(c, r, env, count[e]) => n = count[e] + 1 /\ c.localSeq # r.conn.localSeq
    BY <1>2, SuccessorDiffers DEF Sends, IsConnection
  <1>7. r.conn.localSeq = c.localSeq => n = count[e]
    BY <1>2
  <1> HIDE DEF f, c, r, n
  <1>8. LinkShape'
    <2>1. \A g \in Ends : IsConnection(conn'[g])
      BY <1>1, <1>2, <1>4, <1>5 DEF LinkShape
    <2>2. \A g \in Ends : (due'[g] => g \in born')
                          /\ (g \notin born' => conn'[g].state = "Connecting")
      BY <1>1, <1>2, <1>3, <1>5 DEF LinkShape
    <2> QED
      BY <1>2, <1>3, <1>5, <2>1, <2>2 DEF LinkShape
  <1>9. ASSUME NEW p \in r.packet
        PROVE  /\ p.seq \in SeqNumbers
               /\ ~Closes(c) =>
                     /\ p.id = count[e] /\ p.seq = c.localSeq
                     /\ p.ack = c.remoteSeq
                     /\ p.bits = AckBitfield(c.recvAckQueue, c.remoteSeq)
    BY <1>4, <1>9 DEF Sends
  <1>10. \A g \in Ends : \A o \in net'[Peer(g)] : o.seq \in SeqNumbers
    BY <1>1, <1>2, <1>5, <1>9 DEF f
  <1>11. NoNumberTwice' => NoNumberTwice /\ n <= MaxSeqNumber
    <2>1. MaxSeqNumber \in Nat
      BY SeqAssumption
    <2> QED
      BY <1>1, <1>2, <1>5, <2>1 DEF NoNumberTwice
  <1>12. ASSUME NoNumberTwice, n <= MaxSeqNumber
         PROVE  \A g \in Ends : Numbered(g)' /\ Acknowledged(g)'
    <2>1. /\ Numbered(e) /\ Numbered(f) /\ Acknowledged(e) /\ Acknowledged(f)
      BY <1>1, <1>12 DEF LinkInv
    <2>2. Numbered(f)'
      BY <1>1, <1>5, <2>1 DEF Numbered
    <2>3. Numbered(e)'
      <3>1. MaxSeqNumber \in Nat \ {0, 1}
        BY SeqAssumption
      <3>2. conn'[e].localSeq = IF n = MaxSeqNumber THEN 0 ELSE n
        BY <1>2, <1>4, <1>5, <1>6, <1>7, <1>12, <2>1, <3>1
        DEF Numbered, Sends, Successor, c
      <3>3. \A p \in r.packet : ~Closes(c) => p.id = p.seq
        <4>1. ASSUME NEW p \in r.packet
              PROVE  c.localSeq = count[e]
          BY <1>2, <1>4, <1>6, <1>12, <2>1, <3>1, <4>1 DEF Numbered, c
        <4> QED
          BY <1>9, <4>1
      <3>4. \A p \in net'[f] : ~Closes(conn'[e]) => p.id = p.seq
        BY <1>4, <1>5, <2>1, <3>3 DEF Numbered, c, f
      <3>5. \A a \in ToSet(conn'[e].sentAckQueue) :
               a.id = a.seq /\ a.seq \in SeqNumbers
        <4>1. CASE r.conn.sentAckQueue = c.sentAckQueue
          BY <1>5, <2>1, <4>1 DEF Numbered, c
        <4>2. CASE Sends(c, r, env, count[e])
          <5>1. c.localSeq = count[e] /\ c.localSeq \in SeqNumbers
            BY <1>2, <1>6, <1>12, <2>1, <3>1, <4>2 DEF Numbered, IsConnection, c
          <5>2. PICK payload : ToSet(r.conn.sentAckQueue) \subseteq
                   ToSet(c.sentAckQueue) \cup {NoteOf(c, count[e], payload)}
            BY <4>2 DEF Sends
          <5>3. /\ NoteOf(c, count[e], payload).id = count[e]
                /\ NoteOf(c, count[e], payload).seq = c.localSeq
            BY DEF NoteOf
          <5> QED
            BY <1>5, <2>1, <5>1, <5>2, <5>3 DEF Numbered, c
        <4> QED
          BY <1>4, <4>1, <4>2
      <3> QED
        BY <1>1, <1>5, <3>2, <3>4, <3>5 DEF Numbered, f
    <2>4. Acknowledged(f)'
      BY <1>1, <1>3, <1>4, <1>5, <2>1 DEF Acknowledged, BothOpen, c
    <2>5. Acknowledged(e)'
      <3>1. (BothOpen(e))' => BothOpen(e)
        BY <1>1, <1>4, <1>5 DEF BothOpen, c, f
      <3>2. ASSUME BothOpen(e), NEW p \in r.packet, NEW m \in SeqNumbers,
                   SeqWasAcked(m, p.ack, p.bits)
            PROVE  m \in processed[e] \cup Initially(e)
        <4>1. /\ ToSet(c.recvAckQueue) \subseteq processed[e]
              /\ c.remoteSeq \in processed[e] \cup Initially(e)
          BY <1>2, <2>1, <3>2 DEF Acknowledged, BothOpen, c
        <4>2. SeqWasAcked(m, c.remoteSeq, AckBitfield(c.recvAckQueue, c.remoteSeq))
          BY <1>9, <3>2 DEF BothOpen, c
        <4>3. m = c.remoteSeq \/ \E i \in DOMAIN c.recvAckQueue :
                                    c.recvAckQueue[i] = m
          BY <1>2, <4>2, AckRoundTrip DEF IsConnection
        <4> QED
          BY <4>1, <4>3 DEF ToSet
      <3>3. ~Closes(conn'[f]) =>
               /\ ToSet(conn'[e].recvAckQueue) \subseteq processed[e]
               /\ conn'[e].remoteSeq \in processed[e] \cup Initially(e)
        BY <1>1, <1>2, <1>4, <1>5, <2>1 DEF Acknowledged, c, f
      <3>4. (BothOpen(e))' =>
               /\ \A p \in net'[f] : \A m \in SeqNumbers :
                     SeqWasAcked(m, p.ack, p.bits)
                     => m \in processed[e] \cup Initially(e)
               /\ acked[f] \subseteq processed[e] \cup Initially(e)
        BY <1>1, <1>5, <2>1, <3>1, <3>2 DEF Acknowledged, f
      <3> QED
        BY <1>3, <3>3, <3>4 DEF Acknowledged, f
    <2> QED
      BY <1>1, <2>2, <2>3, <2>4, <2>5
  <1> QED
    BY <1>8, <1>10, <1>11, <1>12 DEF LinkInv

LEMMA LinkStep ==
    ASSUME LinkInv, [Next]_vars
    PROVE  LinkInv'
  <1>1. LinkShape /\ Ends = DOMAIN conn
    BY DEF LinkInv, LinkShape
  <1>2. ASSUME NEW e \in Ends, NEW p \in net[e], Arrive(e, p)
        PROVE  LinkInv'
    BY <1>2, ArriveStep
  <1>3. ASSUME NEW e \in Ends, NEW env \in Envs, Flush(e, env)
        PROVE  LinkInv'
    BY <1>3, FlushStep
  <1>4. ASSUME NEW e \in Ends, NEW new, conn' = [conn EXCEPT ![e] = new],
               Spares(new, conn[e]), e \notin born => new.state = "Connecting",
               UNCHANGED <<born, net, due, count, processed, acked>>
        PROVE  LinkInv'
    <2>1. \A f \in Ends : f # e => conn'[f] = conn[f]
      BY <1>1, <1>4
    <2>2. conn'[e] = new /\ DOMAIN conn' = Ends
      BY <1>1, <1>4
    <2>3. ASSUME NEW f \in Ends
          PROVE  /\ Spares(conn'[f], conn[f])
                 /\ due'[f] => f \in born
                 /\ f \notin born => conn'[f].state = "Connecting"
      <3>1. IsConnection(conn[f])
        BY <1>1 DEF LinkShape
      <3>2. Spares(conn'[f], conn[f])
        BY <1>4, <2>1, <2>2, <3>1, ApplicationCalls
      <3> QED
        BY <1>1, <1>4, <2>1, <3>2 DEF LinkShape
    <2> QED
      BY <1>1, <1>4, <2>2, <2>3, KeepingStep DEF LinkShape
  <1>5. ASSUME NEW e \in Ends, Poll(e)
        PROVE  LinkInv'
    <2>1. /\ conn' = [conn EXCEPT ![e] = Drained(conn[e])]
          /\ UNCHANGED <<born, net, due, count, processed, acked>>
      BY <1>5 DEF Poll, history
    <2>2. /\ Spares(Drained(conn[e]), conn[e])
          /\ Drained(conn[e]).state = conn[e].state
      BY <1>1, ApplicationCalls DEF LinkShape
    <2>3. e \notin born => conn[e].state = "Connecting"
      BY <1>1 DEF LinkShape
    <2> QED
      BY <1>4, <2>1, <2>2, <2>3
  <1>6. ASSUME NEW e \in Ends, CloseEnd(e)
        PROVE  LinkInv'
    <2>1. /\ conn' = [conn EXCEPT ![e] = Close(conn[e])] /\ e \in born
          /\ UNCHANGED <<born, net, due, count, processed, acked>>
      BY <1>6 DEF CloseEnd, history
    <2>2. Spares(Close(conn[e]), conn[e])
      BY <1>1, ApplicationCalls DEF LinkShape
    <2> QED
      BY <1>4, <2>1, <2>2
  <1>7. ASSUME NEW m \in Script, Post(m)
        PROVE  LinkInv'
    <2>1. /\ conn' = [conn EXCEPT ![m.from] =
                         SendMessage(conn[m.from], m.kind, m.data, m.len)]
          /\ m.from \in born /\ m.from \in Ends
          /\ UNCHANGED <<born, net, due, count, processed, acked>>
      BY <1>1, <1>7 DEF Post, history, LinkShape
    <2>2. Spares(SendMessage(conn[m.from], m.kind, m.data, m.len), conn[m.from])
      BY <1>1, <2>1, ApplicationCalls DEF LinkShape
    <2> QED
      BY <1>4, <2>1, <2>2
  <1>8. ASSUME Tick
        PROVE  LinkInv'
    <2>1. /\ conn' = [e \in Ends |-> IF e \in born THEN Elapse(conn[e])
                                     ELSE conn[e]]
          /\ due' = [e \in Ends |-> e \in born]
          /\ UNCHANGED <<born, net, count, processed, acked>>
      BY <1>8 DEF Tick, history
    <2>2. ASSUME NEW e \in Ends
          PROVE  /\ Spares(conn'[e], conn[e])
                 /\ due'[e] => e \in born
                 /\ e \notin born => conn'[e].state = "Connecting"
      <3>1. IsConnection(conn[e])
        BY <1>1 DEF LinkShape
      <3> QED
        BY <1>1, <2>1, <3>1, ElapseSpares, ApplicationCalls DEF LinkShape
    <2>3. DOMAIN conn' = Ends /\ due' \in [Ends -> BOOLEAN]
      BY <2>1
    <2> QED
      BY <2>1, <2>2, <2>3, KeepingStep
  <1>9. ASSUME UNCHANGED vars
        PROVE  LinkInv'
    <2>1. /\ conn' = conn /\ due' = due
          /\ UNCHANGED <<born, net, count, processed, acked>>
      BY <1>9 DEF vars
    <2>2. ASSUME NEW e \in Ends
          PROVE  Spares(conn[e], conn[e])
      BY <1>1, ApplicationCalls DEF LinkShape
    <2> QED
      BY <1>1, <2>1, <2>2, KeepingStep DEF LinkShape
  <1> QED
    BY <1>2, <1>3, <1>5, <1>6, <1>7, <1>8, <1>9 DEF Next

\* In every reachable state, in particular once numbers have come again, the
\* two connections are records of their type.
THEOREM LinkInvariant == Spec => []LinkInv
  <1>1. Init => LinkInv
    BY InitLinkInv
  <1>2. LinkInv /\ [Next]_vars => LinkInv'
    BY LinkStep
  <1> QED
    BY <1>1, <1>2, PTL DEF Spec

\* An end takes a packet for acknowledged only when the peer has processed it,
\* whatever the network loses, repeats and reorders, as long as no sequence
\* number has been used twice.  (After that recv_ack_queue may still name an
\* old packet by the number of a new one, connection.rs l.476.)
THEOREM AcksAreSound == Spec => [](NoNumberTwice => AckSound)
  <1>1. LinkInv => (NoNumberTwice => AckSound)
    <2> SUFFICES ASSUME LinkInv, NoNumberTwice, NEW e \in Ends, Undisturbed(e)
                 PROVE  acked[e] \ (IF e = "acceptor" THEN {0} ELSE {})
                           \subseteq processed[Peer(e)]
      BY DEF AckSound
    <2>1. /\ Peer(e) \in Ends /\ Peer(Peer(e)) = e
          /\ Peer(e) = "initiator" => e = "acceptor"
      BY DEF Peer, Ends
    <2>2. Acknowledged(Peer(e))
      BY <2>1 DEF LinkInv
    <2>3. BothOpen(Peer(e))
      BY <2>1 DEF BothOpen, Undisturbed, Closes
    <2>4. acked[e] \subseteq processed[Peer(e)] \cup Initially(Peer(e))
      BY <2>1, <2>2, <2>3 DEF Acknowledged
    <2> QED
      BY <2>1, <2>4 DEF Initially
  <1> QED
    BY <1>1, LinkInvariant, PTL

-----------------------------------------------------------------------------
(* Messages of two connections *)

\* What end e remembers of its packets: the notes of them are true, and a
\* packet that the peer has processed has brought its messages there.
Remembered(e) ==
    /\ \A p \in net[Peer(e)] : p.id \in 0..(count[e] - 1)
    /\ processed[Peer(e)] \subseteq 0..(count[e] - 1)
    /\ \A a \in ToSet(conn[e].sentAckQueue) :
          /\ a.id \in 0..(count[e] - 1)
          /\ \A p \in net[Peer(e)] : p.id = a.id => p.payload = a.payload
          /\ a.id \in processed[Peer(e)] =>
                \A m \in Carried(a.payload) : m.data \in arrived

\* The acceptor's packet 0, which passes for acknowledged before it arrives.
InFirstPacket(e, data) ==
    /\ e = "acceptor" /\ count[e] > 0 /\ 0 \notin processed[Peer(e)]
    /\ \A p \in net[Peer(e)] : p.id = 0 => data \in DataOf(p.payload)

KeptFor(e) ==
    BothOpen(e) => \A m \in posted : m.from = e /\ m.kind # "Instant" =>
        \/ m.data \in arrived
        \/ \E x \in Holds(conn[e]) : x.data = m.data
        \/ InFirstPacket(e, m.data)

MessageInv ==
    /\ LinkInv /\ posted \subseteq Script
    /\ \A e \in Ends : /\ Loaded(conn[e])
                      /\ \A p \in net[e] : IsPayload(p.payload)
    /\ NoNumberTwice => \A e \in Ends : Remembered(e) /\ KeptFor(e)

LEMMA EmptyIsLoaded == Loaded(NewConnection)
  <1> DEFINE e == <<>>
  <1>1. /\ e \in Seq(OfKind(Datas, "Instant")) /\ e \in Seq(OfKind(Datas, "Reliable"))
        /\ e \in Seq(OfKind(Datas, "Ordered")) /\ e \in Seq(MessagesOf(Datas))
    OBVIOUS
  <1>2. 0 \in OrderIds
    BY MaxOrderIdAssumption DEF OrderIds
  <1>3. /\ NewConnection.queue = [localOrderId |-> 0, remoteOrderId |-> 0,
                                  iQueue |-> e, rQueue |-> e, oQueue |-> e,
                                  recvQueue |-> e, oRecvHeap |-> {}]
        /\ NewConnection.sentAckQueue = e
    BY DEF NewConnection, NewQueue
  <1>4. ToSet(e) = {}
    BY DEF ToSet
  <1> HIDE DEF e
  <1>5. NewConnection.queue \in QueuesOf(Datas)
    BY <1>1, <1>2, <1>3 DEF QueuesOf
  <1> QED
    BY <1>3, <1>4, <1>5 DEF Loaded

LEMMA InitMessageInv == Init => MessageInv
  <1> SUFFICES ASSUME Init PROVE MessageInv
    OBVIOUS
  <1>1. LinkInv /\ posted = {}
    BY InitLinkInv DEF Init
  <1>2. ASSUME NEW e \in Ends
        PROVE  /\ Loaded(conn[e]) /\ net[e] = {}
               /\ Remembered(e) /\ KeptFor(e)
    <2>1. /\ conn[e] = NewConnection /\ net[e] = {} /\ net[Peer(e)] = {}
          /\ processed[Peer(e)] = {}
      BY PeerOfPeer DEF Init
    <2>2. ToSet(NewConnection.sentAckQueue) = {}
      BY DEF NewConnection, ToSet
    <2>3. Remembered(e)
      BY <2>1, <2>2 DEF Remembered
    <2> QED
      BY <1>1, <2>1, <2>3, EmptyIsLoaded DEF KeptFor
  <1> QED
    BY <1>1, <1>2 DEF MessageInv

\* A step that neither sends nor receives a packet.
LEMMA RetainingStep ==
    ASSUME MessageInv, LinkInv', UNCHANGED <<net, count, processed, arrived>>,
           posted' \subseteq Script,
           \A e \in Ends : /\ Closes(conn[e]) => Closes(conn'[e])
                           /\ Retains(conn'[e], conn[e]),
           \A m \in posted' : m \notin posted /\ m.kind # "Instant"
              => \E x \in Holds(conn'[m.from]) : x.data = m.data
    PROVE  MessageInv'
  <1>1. ASSUME NEW e \in Ends, NoNumberTwice
        PROVE  Remembered(e)' /\ KeptFor(e)'
    <2>1. /\ Remembered(e) /\ KeptFor(e) /\ Peer(e) \in Ends
          /\ Retains(conn'[e], conn[e])
      BY <1>1, PeerOfPeer DEF MessageInv
    <2>2. Remembered(e)'
      BY <2>1 DEF Remembered, Retains
    <2>3. (BothOpen(e))' => BothOpen(e)
      BY <2>1 DEF BothOpen
    <2>4. ASSUME NEW m \in posted', m.from = e, m.kind # "Instant", (BothOpen(e))'
          PROVE  \/ m.data \in arrived
                 \/ \E x \in Holds(conn'[e]) : x.data = m.data
                 \/ InFirstPacket(e, m.data)
      <3>1. CASE m \notin posted
        BY <2>1, <2>4, <3>1
      <3>2. CASE m \in posted
        BY <2>1, <2>3, <2>4, <3>2 DEF KeptFor, Retains
      <3> QED
        BY <3>1, <3>2
    <2>5. \A m \in posted' : InFirstPacket(e, m.data) => InFirstPacket(e, m.data)'
      BY DEF InFirstPacket
    <2> QED
      BY <2>1, <2>2, <2>4, <2>5 DEF KeptFor
  <1> QED
    BY <1>1 DEF MessageInv, NoNumberTwice, Retains

LEMMA ArriveKeeps ==
    ASSUME ~Scrambles, MessageInv, LinkInv', NEW e \in Ends, NEW p \in net[e],
           Arrive(e, p)
    PROVE  MessageInv'
  <1> DEFINE f == Peer(e)
             c == conn[e]
             u == UpdateReceiveState(c, p)
             new == ReceivePacket(c, p)
  <1>1. f \in Ends /\ Peer(f) = e /\ f # e /\ \A g \in Ends : g \in {e, f}
    BY PeerOfPeer
  <1>2. /\ LinkInv /\ LinkShape /\ IsConnection(c) /\ p.seq \in SeqNumbers
        /\ posted' = posted /\ posted \subseteq Script
        /\ net' = net /\ count' = count
    BY <1>1 DEF MessageInv, LinkInv, LinkShape, Arrive
  <1>3. /\ conn'[e] = new /\ conn'[f] = conn[f]
        /\ processed'[f] = processed[f] /\ arrived \subseteq arrived'
        /\ u.accepts =>
              /\ processed'[e] = processed[e] \cup {p.id}
              /\ \A m \in Carried(Incoming(p.payload)) : m.data \in arrived'
        /\ ~u.accepts => processed'[e] = processed[e]
    <2>1. /\ DOMAIN conn = Ends /\ DOMAIN processed = Ends
          /\ conn' = [conn EXCEPT ![e] = new]
      BY <1>2 DEF LinkShape, Arrive
    <2>2. CASE u.accepts
      <3> DEFINE msgs == MessagesFromPacket(Incoming(p.payload))
      <3>1. /\ processed' = [processed EXCEPT ![e] = processed[e] \cup {p.id}]
            /\ arrived' = arrived \cup {msgs[i].data : i \in DOMAIN msgs}
        BY <2>2 DEF Arrive
      <3>2. Carried(Incoming(p.payload)) = {msgs[i] : i \in DOMAIN msgs}
        BY DEF Carried, ToSet
      <3> HIDE DEF msgs, new, u, c, f
      <3> QED
        BY <1>1, <2>1, <2>2, <3>1, <3>2
    <2>3. CASE ~u.accepts
      <3>1. processed' = processed /\ arrived' = arrived
        BY <2>3 DEF Arrive, history
      <3> QED
        BY <1>1, <2>1, <2>3, <3>1
    <2> QED
      BY <2>2, <2>3
  <1> HIDE DEF f, c, u, new
  <1>6. /\ Loaded(c) /\ Loaded(conn[f]) /\ IsPayload(p.payload)
        /\ Incoming(p.payload) = p.payload
        /\ DataOf(p.payload) = {m.data : m \in Carried(p.payload)}
    BY <1>1, PayloadFacts DEF MessageInv, c
  <1>7. /\ Loaded(new)
        /\ ToSet(new.sentAckQueue) \subseteq ToSet(c.sentAckQueue)
        /\ Closes(c) => Closes(new) /\ u.accepts \in BOOLEAN
        /\ \A m \in Holds(c) :
              \/ m \in Holds(new)
              \/ /\ u.accepts
                 /\ \E a \in ToSet(c.sentAckQueue) :
                       AckedBy(p, a) /\ m \in Carried(a.payload)
    <2>1. /\ new.state = u.conn.state
          /\ ToSet(new.sentAckQueue) \subseteq ToSet(c.sentAckQueue)
      BY <1>2, ReceiveEffect DEF new, u
    <2>2. u.accepts \in BOOLEAN /\ (Closes(c) => Closes(u.conn))
      BY <1>2, ReceiveState DEF u
    <2>3. Closes(c) => Closes(new)
      BY <2>1, <2>2 DEF Closes
    <2> QED
      BY <1>2, <1>6, <2>1, <2>2, <2>3, ReceiveHolds DEF new, u
  <1>4. ASSUME NoNumberTwice
        PROVE  \A g \in Ends : Remembered(g)' /\ KeptFor(g)'
    <2>1. /\ Remembered(e) /\ Remembered(f)
          /\ KeptFor(e) /\ KeptFor(f) /\ Numbered(e) /\ Acknowledged(f)
      BY <1>1, <1>2, <1>4 DEF MessageInv, LinkInv
    <2>2. p.id \in 0..(count[f] - 1)
      BY <1>1, <2>1 DEF Remembered
    <2>4. Remembered(e)'
      BY <1>1, <1>2, <1>3, <2>1, <1>7 DEF Remembered, c, f
    <2>5. Remembered(f)'
      <3>1. ASSUME NEW a \in ToSet(conn[f].sentAckQueue), a.id \in processed'[e],
                   NEW m \in Carried(a.payload)
            PROVE  m.data \in arrived'
        <4>1. CASE a.id \in processed[e]
          BY <1>1, <1>3, <2>1, <3>1, <4>1 DEF Remembered
        <4>2. CASE u.accepts /\ a.id = p.id
          <5>1. p.payload = a.payload
            BY <1>1, <2>1, <3>1, <4>2 DEF Remembered
          <5> QED
            BY <1>3, <1>6, <3>1, <4>2, <5>1
        <4> QED
          BY <1>3, <1>7, <3>1, <4>1, <4>2
      <3>2. processed'[e] \subseteq 0..(count[f] - 1)
        BY <1>1, <1>3, <2>1, <2>2, <1>7 DEF Remembered
      <3> QED
        BY <1>1, <1>2, <1>3, <2>1, <3>1, <3>2 DEF Remembered
    <2>6. ASSUME NEW m \in posted, m.from = e, m.kind # "Instant", (BothOpen(e))'
          PROVE  \/ m.data \in arrived'
                 \/ \E x \in Holds(new) : x.data = m.data
                 \/ InFirstPacket(e, m.data)'
      <3>1. BothOpen(e) /\ BothOpen(f)
        BY <1>1, <1>3, <1>7, <2>6 DEF BothOpen, c, f
      <3>2. CASE m.data \in arrived
        BY <1>3, <3>2
      <3>3. CASE InFirstPacket(e, m.data)
        BY <1>1, <1>2, <1>3, <3>3 DEF InFirstPacket, f
      <3>4. ASSUME NEW x \in Holds(c), x.data = m.data, x \notin Holds(new)
            PROVE  m.data \in arrived' \/ InFirstPacket(e, m.data)'
        <4>1. PICK a \in ToSet(c.sentAckQueue) :
                 AckedBy(p, a) /\ x \in Carried(a.payload)
          BY <1>7, <3>4
        <4>2. a.id = a.seq /\ a.seq \in SeqNumbers
          BY <2>1, <4>1 DEF Numbered, c
        <4>3. a.id \in processed[f] \cup Initially(f)
          BY <1>1, <2>1, <3>1, <4>1, <4>2 DEF Acknowledged, AckedBy
        <4>4. CASE a.id \in processed[f]
          BY <1>3, <2>1, <3>4, <4>1, <4>4 DEF Remembered, c, f
        <4>5. CASE a.id \notin processed[f]
          <5>1. e = "acceptor" /\ a.id = 0
            BY <1>1, <4>3, <4>5 DEF Initially, Ends
          <5>2. /\ a.id \in 0..(count[e] - 1)
                /\ \A o \in net[f] : o.id = a.id => o.payload = a.payload
            BY <2>1, <4>1 DEF Remembered, c, f
          <5>3. IsPayload(a.payload)
            BY <1>6, <4>1 DEF Loaded
          <5>4. m.data \in DataOf(a.payload)
            BY <3>4, <4>1, <5>3, PayloadFacts
          <5>5. count[e] > 0
            BY <1>2, <5>1, <5>2 DEF LinkShape
          <5> QED
            BY <1>2, <1>3, <4>5, <5>1, <5>2, <5>4, <5>5 DEF InFirstPacket, f
        <4> QED
          BY <4>4, <4>5
      <3> QED
        BY <2>1, <2>6, <3>1, <3>2, <3>3, <3>4 DEF KeptFor, c
    <2>7. KeptFor(e)'
      BY <1>2, <1>3, <2>6 DEF KeptFor
    <2>8. ASSUME NEW m \in posted, m.from = f, m.kind # "Instant", (BothOpen(f))'
          PROVE  \/ m.data \in arrived'
                 \/ \E x \in Holds(conn[f]) : x.data = m.data
                 \/ InFirstPacket(f, m.data)'
      <3>1. BothOpen(f)
        BY <1>1, <1>3, <1>7, <2>8 DEF BothOpen, c
      <3>2. CASE InFirstPacket(f, m.data)
        <4>1. CASE u.accepts /\ p.id = 0
          BY <1>1, <1>3, <1>6, <3>2, <4>1 DEF InFirstPacket
        <4>2. CASE ~(u.accepts /\ p.id = 0)
          BY <1>1, <1>2, <1>3, <1>7, <3>2, <4>2 DEF InFirstPacket
        <4> QED
          BY <4>1, <4>2
      <3> QED
        BY <1>3, <2>1, <2>8, <3>1, <3>2 DEF KeptFor
    <2>9. KeptFor(f)'
      BY <1>2, <1>3, <2>8 DEF KeptFor
    <2> QED
      BY <1>1, <2>4, <2>5, <2>7, <2>9
  <1>5. NoNumberTwice' => NoNumberTwice
    BY <1>2 DEF NoNumberTwice
  <1> QED
    BY <1>1, <1>2, <1>3, <1>4, <1>5, <1>6, <1>7 DEF MessageInv

LEMMA FlushKeeps ==
    ASSUME ~Scrambles, MessageInv, LinkInv', NEW e \in Ends, NEW env \in Envs,
           Flush(e, env)
    PROVE  MessageInv'
  <1> DEFINE f == Peer(e)
             c == conn[e]
             r == SendPacket(c, env, count[e])
             n == count[e] + (IF r.conn.localSeq # c.localSeq THEN 1 ELSE 0)
  <1>1. f \in Ends /\ Peer(f) = e /\ f # e /\ \A g \in Ends : g \in {e, f}
    BY PeerOfPeer
  <1>2. /\ LinkInv /\ LinkShape /\ IsConnection(c) /\ count[e] \in Nat
        /\ posted' = posted /\ posted \subseteq Script
        /\ processed' = processed /\ arrived' = arrived
    BY <1>1 DEF MessageInv, LinkInv, LinkShape, Flush, history
  <1>3. /\ conn'[e] = r.conn /\ conn'[f] = conn[f] /\ net'[e] = net[e]
        /\ net'[f] \subseteq net[f] \cup r.packet
        /\ count'[e] = n /\ count'[f] = count[f]
    <2>1. /\ conn' = [conn EXCEPT ![e] = r.conn]
          /\ count' = [count EXCEPT ![e] = n]
          /\ net' = [net EXCEPT ![f] = Carry(net[f], r.packet, n)]
      BY DEF Flush
    <2>2. Carry(net[f], r.packet, n) \subseteq net[f] \cup r.packet
      BY DEF Carry
    <2>3. DOMAIN conn = Ends /\ DOMAIN net = Ends /\ count \in [Ends -> Nat]
      BY <1>2 DEF LinkShape
    <2> HIDE DEF f, c, r, n
    <2> QED
      BY <1>1, <2>1, <2>2, <2>3
  <1>4. /\ Closes(c) => Closes(r.conn)
        /\ \/ /\ r.packet = {} /\ r.conn.localSeq = c.localSeq
              /\ r.conn.sentAckQueue = c.sentAckQueue
           \/ Sends(c, r, env, count[e])
    BY <1>2, SendEffect
  <1>5. Sends(c, r, env, count[e]) => n = count[e] + 1
    BY <1>2, SuccessorDiffers DEF Sends, IsConnection
  <1>6. r.conn.localSeq = c.localSeq => n = count[e]
    BY <1>2
  <1>7. r = SendPacket(c, env, count[e])
    OBVIOUS
  <1> HIDE DEF f, c, r, n
  <1>10. /\ Loaded(c) /\ Loaded(conn[f]) /\ SendsPacked(c, r)
         /\ \A p \in net[e] \cup net[f] : IsPayload(p.payload)
    <2>1. Loaded(c) /\ Loaded(conn[f])
          /\ \A p \in net[e] \cup net[f] : IsPayload(p.payload)
      BY <1>1 DEF MessageInv, c
    <2> QED
      BY <1>2, <1>7, <2>1, SendHolds
  <1>11. \A g \in Ends : /\ Loaded(conn'[g])
                         /\ \A p \in net'[g] : IsPayload(p.payload)
    BY <1>1, <1>3, <1>10 DEF SendsPacked
  <1>8. ASSUME NoNumberTwice, n <= MaxSeqNumber
        PROVE  \A g \in Ends : Remembered(g)' /\ KeptFor(g)'
    <2>1. /\ Remembered(e) /\ Remembered(f)
          /\ KeptFor(e) /\ KeptFor(f) /\ Numbered(e)
      BY <1>1, <1>2, <1>8 DEF MessageInv, LinkInv
    <2>2. SendAckRequired(c) \/ r.conn.localSeq = c.localSeq
      <3> SUFFICES ASSUME r.conn.localSeq # c.localSeq
                   PROVE  \A a \in ToSet(c.sentAckQueue) : a.seq # c.localSeq
        BY NotedWhenFree
      <3>1. n = count[e] + 1
        BY <1>4, <1>5
      <3>2. MaxSeqNumber \in Nat
        BY SeqAssumption
      <3>3. c.localSeq = count[e]
        BY <1>2, <1>8, <2>1, <3>1, <3>2 DEF Numbered, c
      <3>4. \A a \in ToSet(c.sentAckQueue) : a.seq \in 0..(count[e] - 1)
        BY <2>1 DEF Numbered, Remembered, c
      <3> QED
        BY <1>2, <3>3, <3>4
    <2>3. SendsHeld(c, r, count[e])
      BY <1>2, <1>7, <1>10, <2>2, SendHolds
    <2>4. n \in Nat /\ count[e] <= n /\ (r.packet # {} => n = count[e] + 1)
      BY <1>2, <1>4, <1>5, <1>6
    <2>5. \A p \in r.packet : p.id = count[e] /\ n = count[e] + 1
      BY <1>4, <1>5 DEF Sends
    <2>6. Remembered(f)'
      BY <1>1, <1>2, <1>3, <2>1 DEF Remembered
    <2>7. Remembered(e)'
      <3>1. ASSUME NEW p \in net'[f]
            PROVE  p.id \in 0..(n - 1)
        <4>1. CASE p \in net[f]
          BY <1>2, <2>1, <2>4, <4>1 DEF Remembered, f
        <4>2. CASE p \in r.packet
          BY <1>2, <2>5, <4>2
        <4> QED
          BY <1>3, <4>1, <4>2
      <3>2. processed[f] \subseteq 0..(n - 1)
        BY <1>2, <2>1, <2>4 DEF Remembered, f
      <3>3. ASSUME NEW a \in ToSet(r.conn.sentAckQueue)
            PROVE  /\ a.id \in 0..(n - 1)
                   /\ \A p \in net'[f] : p.id = a.id => p.payload = a.payload
                   /\ a.id \in processed[f] =>
                         \A m \in Carried(a.payload) : m.data \in arrived
        <4>1. CASE a \in ToSet(c.sentAckQueue)
          <5>1. /\ a.id \in 0..(count[e] - 1)
                /\ \A p \in net[f] : p.id = a.id => p.payload = a.payload
                /\ a.id \in processed[f] =>
                      \A m \in Carried(a.payload) : m.data \in arrived
            BY <2>1, <4>1 DEF Remembered, c, f
          <5>2. \A p \in r.packet : p.id # a.id
            BY <1>2, <2>5, <5>1
          <5> QED
            BY <1>2, <1>3, <2>4, <5>1, <5>2
        <4>2. CASE a \notin ToSet(c.sentAckQueue)
          <5>1. a.id = count[e] /\ \A p \in r.packet : p.payload = a.payload
            BY <2>3, <4>2 DEF SendsHeld
          <5>2. n = count[e] + 1
            BY <1>4, <1>5, <4>2
          <5>3. count[e] \notin processed[f] /\ \A p \in net[f] : p.id # count[e]
            BY <1>2, <2>1 DEF Remembered, f
          <5> QED
            BY <1>2, <1>3, <5>1, <5>2, <5>3
        <4> QED
          BY <4>1, <4>2
      <3> QED
        BY <1>2, <1>3, <3>1, <3>2, <3>3 DEF Remembered, f
    <2>8. KeptFor(f)'
      <3>1. (BothOpen(f))' => BothOpen(f)
        BY <1>1, <1>3, <1>4 DEF BothOpen, c
      <3>2. \A m \in posted : InFirstPacket(f, m.data) => InFirstPacket(f, m.data)'
        BY <1>1, <1>2, <1>3 DEF InFirstPacket
      <3> QED
        BY <1>2, <1>3, <2>1, <3>1, <3>2 DEF KeptFor
    <2>9. KeptFor(e)'
      <3>1. (BothOpen(e))' => BothOpen(e)
        BY <1>1, <1>3, <1>4 DEF BothOpen, c, f
      <3>2. ASSUME NEW m \in posted, InFirstPacket(e, m.data)
            PROVE  InFirstPacket(e, m.data)'
        <4>1. /\ e = "acceptor" /\ count[e] > 0 /\ 0 \notin processed[f]
              /\ \A p \in net[f] : p.id = 0 => m.data \in DataOf(p.payload)
          BY <3>2 DEF InFirstPacket, f
        <4>2. \A p \in r.packet : p.id # 0
          BY <2>5, <4>1
        <4>3. n > 0
          BY <1>2, <2>4, <4>1
        <4> QED
          BY <1>2, <1>3, <4>1, <4>2, <4>3 DEF InFirstPacket, f
      <3>3. Holds(c) \subseteq Holds(conn'[e])
        BY <1>3, <2>3 DEF SendsHeld
      <3> QED
        BY <1>2, <2>1, <3>1, <3>2, <3>3 DEF KeptFor, c
    <2> QED
      BY <1>1, <2>6, <2>7, <2>8, <2>9
  <1>9. NoNumberTwice' => NoNumberTwice /\ n <= MaxSeqNumber
    <2>1. MaxSeqNumber \in Nat /\ n \in Nat /\ count[e] <= n
      BY <1>2, <1>4, <1>5, <1>6, SeqAssumption
    <2>2. NoNumberTwice' => n <= MaxSeqNumber /\ count[f] <= MaxSeqNumber
      BY <1>1, <1>3 DEF NoNumberTwice
    <2>3. n <= MaxSeqNumber => count[e] <= MaxSeqNumber
      BY <1>2, <2>1
    <2> QED
      BY <1>1, <2>2, <2>3 DEF NoNumberTwice
  <1> QED
    BY <1>2, <1>8, <1>9, <1>11 DEF MessageInv

LEMMA MessageStep ==
    ASSUME ~Scrambles, MessageInv, [Next]_vars
    PROVE  MessageInv'
  <1>1. LinkInv /\ LinkInv' /\ DOMAIN conn = Ends
    BY LinkStep DEF MessageInv, LinkInv, LinkShape
  <1>2. \A e \in Ends : IsConnection(conn[e]) /\ Loaded(conn[e])
    BY <1>1 DEF MessageInv, LinkInv, LinkShape
  <1>3. ASSUME NEW e \in Ends, NEW p \in net[e], Arrive(e, p)
        PROVE  MessageInv'
    BY <1>1, <1>3, ArriveKeeps
  <1>4. ASSUME NEW e \in Ends, NEW env \in Envs, Flush(e, env)
        PROVE  MessageInv'
    BY <1>1, <1>4, FlushKeeps
  <1>5. ASSUME NEW e \in Ends, NEW new, conn' = [conn EXCEPT ![e] = new],
               UNCHANGED <<net, count, processed, arrived>>, posted' \subseteq Script,
               Closes(conn[e]) => Closes(new), Retains(new, conn[e]),
               \A m \in posted' : m \notin posted =>
                  /\ m.from = e
                  /\ m.kind # "Instant" => \E x \in Holds(new) : x.data = m.data
        PROVE  MessageInv'
    <2>1. conn'[e] = new /\ \A f \in Ends : f # e => conn'[f] = conn[f]
      BY <1>1, <1>5
    <2>2. \A f \in Ends : /\ Closes(conn[f]) => Closes(conn'[f])
                          /\ Retains(conn'[f], conn[f])
      BY <1>2, <1>5, <2>1, ApplicationCallsHold
    <2>3. \A m \in posted' : m \notin posted /\ m.kind # "Instant"
             => \E x \in Holds(conn'[m.from]) : x.data = m.data
      BY <1>5, <2>1
    <2> QED
      BY <1>1, <1>5, <2>2, <2>3, RetainingStep
  <1>6. ASSUME NEW e \in Ends, Poll(e)
        PROVE  MessageInv'
    <2>1. /\ conn' = [conn EXCEPT ![e] = Drained(conn[e])]
          /\ UNCHANGED <<net, count, posted, processed, arrived>>
      BY <1>6 DEF Poll, history
    <2>2. /\ Closes(conn[e]) => Closes(Drained(conn[e]))
          /\ Retains(Drained(conn[e]), conn[e])
      BY <1>2, ApplicationCalls, ApplicationCallsHold DEF Spares
    <2> QED
      BY <1>5, <2>1, <2>2 DEF MessageInv
  <1>7. ASSUME NEW e \in Ends, CloseEnd(e)
        PROVE  MessageInv'
    <2>1. /\ conn' = [conn EXCEPT ![e] = Close(conn[e])]
          /\ UNCHANGED <<net, count, posted, processed, arrived>>
      BY <1>7 DEF CloseEnd, history
    <2>2. /\ Closes(conn[e]) => Closes(Close(conn[e]))
          /\ Retains(Close(conn[e]), conn[e])
      BY <1>2, ApplicationCalls, ApplicationCallsHold DEF Spares
    <2> QED
      BY <1>5, <2>1, <2>2 DEF MessageInv
  <1>8. ASSUME NEW m \in Script, Post(m)
        PROVE  MessageInv'
    <2> DEFINE new == SendMessage(conn[m.from], m.kind, m.data, m.len)
    <2>1. /\ conn' = [conn EXCEPT ![m.from] = new] /\ posted' = posted \cup {m}
          /\ UNCHANGED <<net, count, processed, arrived>>
      BY <1>8 DEF Post, history
    <2>2. /\ m.from \in Ends /\ m.kind \in Kinds /\ m.len \in Nat
          /\ m.data \in Datas
      <3>1. m.from \in Ends /\ m.kind \in Kinds /\ m.len \in Sizes
        BY LinkAssumption
      <3>2. Sizes \subseteq Nat
        BY DEF Sizes
      <3> QED
        BY <3>1, <3>2 DEF Datas
    <2>3. /\ Closes(conn[m.from]) => Closes(new)
          /\ Retains(new, conn[m.from])
          /\ m.kind # "Instant" => \E x \in Holds(new) : x.data = m.data
      BY <1>2, <2>2, ApplicationCalls, ApplicationCallsHold DEF Spares
    <2> HIDE DEF new
    <2> QED
      BY <1>5, <2>1, <2>2, <2>3 DEF MessageInv
  <1>9. ASSUME Tick
        PROVE  MessageInv'
    <2>1. /\ conn' = [e \in Ends |-> IF e \in born THEN Elapse(conn[e])
                                     ELSE conn[e]]
          /\ UNCHANGED <<net, count, posted, processed, arrived>>
      BY <1>9 DEF Tick, history
    <2>2. \A e \in Ends : /\ Closes(conn[e]) => Closes(conn'[e])
                          /\ Retains(conn'[e], conn[e])
      BY <1>2, <2>1, ElapseSpares, ElapseHolds, ApplicationCallsHold DEF Spares
    <2> QED
      BY <1>1, <2>1, <2>2, RetainingStep DEF MessageInv
  <1>10. ASSUME UNCHANGED vars
         PROVE  MessageInv'
    <2>1. UNCHANGED <<conn, net, count, posted, processed, arrived>>
      BY <1>10 DEF vars
    <2>2. \A e \in Ends : Retains(conn'[e], conn[e])
      BY <1>2, <2>1, ApplicationCallsHold
    <2> QED
      BY <1>1, <2>1, <2>2, RetainingStep DEF MessageInv
  <1> QED
    BY <1>3, <1>4, <1>6, <1>7, <1>8, <1>9, <1>10 DEF Next

\* No message that is to be re-sent is forgotten between send() and the peer,
\* whatever the network loses, repeats and reorders.  The hypotheses are what
\* it takes: a modifier's payloads do not come back as messages; no sequence
\* number has been used twice; and the acceptor's packet 0 has arrived, or all
\* messages are the initiator's: before the initiator has heard anything, its
\* packets acknowledge number 0 (connection.rs l.175, remote_seq_number).
THEOREM NothingIsForgotten ==
    ASSUME ~Scrambles
    PROVE  Spec => [](/\ NoNumberTwice
                      /\ \/ 0 \in processed["initiator"]
                         \/ \A m \in posted : m.from = "initiator"
                      => ReliableKept)
  <1> DEFINE Heard == \/ 0 \in processed["initiator"]
                      \/ \A m \in posted : m.from = "initiator"
  <1>1. Init => MessageInv
    BY InitMessageInv
  <1>2. MessageInv /\ [Next]_vars => MessageInv'
    BY MessageStep
  <1>3. MessageInv => (NoNumberTwice /\ Heard => ReliableKept)
    <2> SUFFICES ASSUME MessageInv, NoNumberTwice, Heard, NEW m \in posted,
                        m.kind # "Instant", Undisturbed(m.from)
                 PROVE  LET c == conn[m.from]
                        IN  \/ m.data \in DataOf(c.queue.rQueue)
                                          \cup DataOf(c.queue.oQueue)
                            \/ \E i \in DOMAIN c.sentAckQueue :
                                  m.data \in DataOf(c.sentAckQueue[i].payload)
                            \/ m.data \in arrived
      BY DEF ReliableKept
    <2> DEFINE c == conn[m.from]
    <2>1. m.from \in Ends
      BY LinkAssumption DEF MessageInv
    <2>2. Loaded(c) /\ KeptFor(m.from) /\ BothOpen(m.from)
      BY <2>1 DEF MessageInv, BothOpen, Undisturbed, Closes
    <2>3. ~InFirstPacket(m.from, m.data)
      BY DEF InFirstPacket, Peer
    <2>4. m.data \in arrived \/ \E x \in Holds(c) : x.data = m.data
      BY <2>2, <2>3 DEF KeptFor
    <2>5. ASSUME NEW x \in Holds(c), x.data = m.data
          PROVE  \/ m.data \in DataOf(c.queue.rQueue) \cup DataOf(c.queue.oQueue)
                 \/ \E i \in DOMAIN c.sentAckQueue :
                       m.data \in DataOf(c.sentAckQueue[i].payload)
      <3>1. x.kind # "Instant"
        BY <2>5 DEF Holds, Resendable
      <3>2. CASE x \in ToSet(c.queue.iQueue)
        <4>1. c.queue.iQueue \in Seq(OfKind(Datas, "Instant"))
          BY <2>2 DEF Loaded, QueuesOf
        <4>2. x.kind = "Instant"
          BY <3>2, <4>1 DEF ToSet, OfKind
        <4> QED
          BY <3>1, <4>2
      <3>3. CASE x \in ToSet(c.queue.rQueue) \cup ToSet(c.queue.oQueue)
        BY <2>5, <3>3 DEF ToSet, DataOf
      <3>4. ASSUME NEW a \in ToSet(c.sentAckQueue), x \in Carried(a.payload)
            PROVE  \E i \in DOMAIN c.sentAckQueue :
                      m.data \in DataOf(c.sentAckQueue[i].payload)
        <4>1. m.data \in DataOf(a.payload)
          BY <2>2, <2>5, <3>4, PayloadFacts DEF Loaded
        <4> QED
          BY <4>1 DEF ToSet
      <3> QED
        BY <2>5, <3>2, <3>3, <3>4 DEF Holds, Resendable, Queued
    <2> QED
      BY <2>4, <2>5
  <1> QED
    BY <1>1, <1>2, <1>3, PTL DEF Spec

\* A packet never holds more than it may, and takes a message with it whenever
\* the first of some kind fits into an empty one (message_queue.rs l.195-251).
\* Here sequence numbers may come again as often as they like.
THEOREM PacketsAreWellFilled ==
    ASSUME ~Scrambles
    PROVE  Spec => PackingGetsOn
  <1> DEFINE Packs(e, p) ==
               LET q == conn[e].queue
               IN  /\ RequiredBytes(MessagesFromPacket(Incoming(p.payload)))
                         <= PacketSpace
                   /\ /\ ~IsClosure(p)
                      /\ \E queue \in {q.iQueue, q.rQueue, q.oQueue} :
                            queue # <<>> /\ Required(Head(queue)) <= PacketSpace
                      => p.payload # <<>>
  <1>1. Init => MessageInv
    BY InitMessageInv
  <1>2. MessageInv /\ [Next]_vars => MessageInv'
    BY MessageStep
  <1>3. ASSUME MessageInv, [Next]_vars, NEW e \in Ends,
               NEW p \in net'[Peer(e)] \ net[Peer(e)]
        PROVE  Packs(e, p)
    <2>1. Peer(e) \in Ends /\ DOMAIN net = Ends /\ IsConnection(conn[e])
          /\ Loaded(conn[e])
      BY <1>3, PeerOfPeer DEF MessageInv, LinkInv, LinkShape
    <2>2. PICK g \in Ends, env \in Envs : Flush(g, env)
      <3>1. net' # net
        BY <1>3
      <3> QED
        BY <1>3, <3>1 DEF Next, vars, Arrive, Poll, CloseEnd, Post, Tick
    <2> DEFINE r == SendPacket(conn[e], env, count[e])
    <2>3. g = e
      <3>1. \A f \in Ends : f # Peer(g) => net'[f] = net[f]
        BY <2>1, <2>2 DEF Flush
      <3> QED
        BY <1>3, <2>1, <3>1, PeerOfPeer
    <2>4. net'[Peer(e)] \subseteq net[Peer(e)] \cup r.packet
      BY <2>1, <2>2, <2>3 DEF Flush, Carry
    <2>5. p \in r.packet
      BY <1>3, <2>4
    <2>6. SendsPacked(conn[e], r)
      BY <2>1, SendHolds
    <2> HIDE DEF r
    <2>7. /\ IsPayload(p.payload)
          /\ RequiredBytes(MessagesFromPacket(p.payload)) <= PacketSpace
          /\ ~IsClosure(p) /\ SomeFits(conn[e].queue, PacketSpace)
             => p.payload # <<>>
      BY <2>5, <2>6 DEF SendsPacked
    <2>8. Incoming(p.payload) = p.payload
      BY <2>7, PayloadFacts
    <2> QED
      BY <2>7, <2>8 DEF SomeFits
  <1>4. MessageInv /\ [Next]_vars =>
           [\A e \in Ends : \A p \in net'[Peer(e)] \ net[Peer(e)] : Packs(e, p)]_vars
    BY <1>3
  <1> QED
    BY <1>1, <1>2, <1>4, PTL DEF Spec, PackingGetsOn

-----------------------------------------------------------------------------
(* The life-cycle of a connection *)

IsList(s) == \E S : s \in Seq(S)

LEMMA EmptyIsList == IsList(<<>>) /\ LifecycleEvents(<<>>) = <<>>
  <1> DEFINE e == <<>>
  <1>1. e \in Seq({}) /\ ToSet(e) = {}
    BY EmptySet
  <1> HIDE DEF e
  <1>2. Only(e, AboutConnection) = <<>>
    BY <1>1, OnlyNone
  <1> QED
    BY <1>1, <1>2 DEF IsList, LifecycleEvents, e

LEMMA LifecycleIsList ==
    ASSUME NEW events, IsList(events)
    PROVE  IsList(LifecycleEvents(events))
  BY OnlyFacts DEF IsList, LifecycleEvents

\* Events about messages and packets do not show.
LEMMA OtherEvents ==
    ASSUME NEW events, IsList(events), NEW more, IsList(more),
           ToSet(more) \cap AboutConnection = {}
    PROVE  /\ IsList(events \o more)
           /\ LifecycleEvents(events \o more) = LifecycleEvents(events)
  <1>1. PICK S, T : events \in Seq(S) /\ more \in Seq(T)
    BY DEF IsList
  <1> DEFINE U == S \cup T
             about == Only(events, AboutConnection)
  <1>2. events \in Seq(U) /\ more \in Seq(U)
    BY <1>1
  <1>3. events \o more \in Seq(U)
    BY <1>2
  <1> HIDE DEF U
  <1>4. /\ Only(events \o more, AboutConnection)
              = about \o Only(more, AboutConnection)
        /\ Only(more, AboutConnection) = <<>> /\ about \in Seq(U)
    <2>1. about \in Seq(U)
      BY <1>2, OnlyFacts
    <2>2. Only(more, AboutConnection) = <<>>
      BY <1>2, OnlyNone
    <2>3. Only(Joined(events, more), AboutConnection)
             = Joined(about, Only(more, AboutConnection))
      BY <1>2, OnlyConcat
    <2> QED
      BY <2>1, <2>2, <2>3 DEF Joined
  <1> HIDE DEF about
  <1>5. about \o <<>> = about
    BY <1>4, ConcatEmptySeq
  <1>6. Only(events \o more, AboutConnection) = about
    BY <1>4, <1>5
  <1> QED
    BY <1>3, <1>6 DEF IsList, LifecycleEvents, about

LEMMA OneEvent ==
    ASSUME NEW events, IsList(events), NEW v
    PROVE  /\ IsList(Append(events, v))
           /\ v \in AboutConnection =>
                 LifecycleEvents(Append(events, v))
                    = Append(LifecycleEvents(events), v)
           /\ v \notin AboutConnection =>
                 LifecycleEvents(Append(events, v)) = LifecycleEvents(events)
  <1>1. PICK S : events \in Seq(S)
    BY DEF IsList
  <1> DEFINE U == S \cup {v}
             one == <<v>>
             about == Only(events, AboutConnection)
  <1>2. /\ events \in Seq(U) /\ one \in Seq(U) /\ v \in U /\ ToSet(one) = {v}
        /\ IsList(one)
    BY <1>1 DEF ToSet, IsList
  <1>3. Append(events, v) = events \o one /\ Append(events, v) \in Seq(U)
    BY <1>2, AppendIsConcat
  <1> HIDE DEF U
  <1>4. IsList(Append(events, v))
    BY <1>3 DEF IsList
  <1>5. ASSUME v \in AboutConnection
        PROVE  Only(Append(events, v), AboutConnection) = Append(about, v)
    <2> HIDE DEF one
    <2>1. Only(events \o one, AboutConnection)
             = about \o Only(one, AboutConnection)
          /\ about \in Seq(U)
      <3>1. about \in Seq(U)
        BY <1>2, OnlyFacts
      <3>2. Only(Joined(events, one), AboutConnection)
               = Joined(about, Only(one, AboutConnection))
        BY <1>2, OnlyConcat
      <3> QED
        BY <3>1, <3>2 DEF Joined
    <2>2. Only(one, AboutConnection) = one
      BY <1>2, <1>5, OnlyAll
    <2> HIDE DEF about
    <2>3. Append(about, v) = about \o one
      BY <1>2, <2>1, AppendIsConcat DEF one
    <2> QED
      BY <1>3, <2>1, <2>2, <2>3
  <1>6. ASSUME v \notin AboutConnection
        PROVE  LifecycleEvents(Append(events, v)) = LifecycleEvents(events)
    <2> HIDE DEF one
    <2>1. LifecycleEvents(events \o one) = LifecycleEvents(events)
      BY <1>2, <1>6, OtherEvents
    <2> QED
      BY <1>3, <2>1
  <1> QED
    BY <1>4, <1>5, <1>6 DEF LifecycleEvents

\* Connection c, with its life-cycle events.
Leads(c, state, sinceRecv, sinceSend, log) ==
    /\ c.state = state /\ c.sinceRecv = sinceRecv /\ c.sinceSend = sinceSend
    /\ IsList(c.events) /\ LifecycleEvents(c.events) = log

AboutEvents ==
    {<<"Connected">>, <<"FailedToConnect">>, <<"Lost", TRUE>>, <<"Lost", FALSE>>,
     <<"Closed", TRUE>>, <<"Closed", FALSE>>}

LEMMA AboutIsAbout ==
    /\ AboutEvents \subseteq AboutConnection
    /\ <<"PacketLost">> \notin AboutConnection
    /\ <<"Congestion">> \notin AboutConnection
    /\ \A d : <<"Message", d>> \notin AboutConnection
  <1>1. AboutEvents \subseteq AboutConnection
    <2>1. \A s \in {"Lost", "Closed"}, b \in BOOLEAN : <<s, b>> \in AboutConnection
      BY DEF AboutConnection
    <2>2. \A s \in {"Connected", "FailedToConnect"} : <<s>> \in AboutConnection
      BY DEF AboutConnection
    <2> QED
      BY <2>1, <2>2 DEF AboutEvents
  <1>2. ASSUME NEW v \in AboutConnection
        PROVE  v[1] \in {"Connected", "FailedToConnect", "Lost", "Closed"}
    BY DEF AboutConnection
  <1>3. <<"PacketLost">>[1] = "PacketLost" /\ <<"Congestion">>[1] = "Congestion"
    OBVIOUS
  <1>4. \A d : <<"Message", d>>[1] = "Message"
    OBVIOUS
  <1> QED
    BY <1>1, <1>2, <1>3, <1>4

\* Connection c after it has entered a state, with an event that says so.
Moved(c, state, event) == Emit([c EXCEPT !.state = state], event)

OnlyMoves(new, c) == new = [c EXCEPT !.state = new.state, !.events = new.events]

LEMMA MoveLeads ==
    ASSUME NEW c, IsConnection(c), IsList(c.events), NEW state \in States5,
           NEW event \in AboutEvents
    PROVE  /\ Leads(Moved(c, state, event), state, c.sinceRecv, c.sinceSend,
                    Append(LifecycleEvents(c.events), event))
           /\ OnlyMoves(Moved(c, state, event), c)
  <1> DEFINE new == Moved(c, state, event)
             longer == Append(c.events, event)
  <1>1. new = [state |-> state, localSeq |-> c.localSeq,
               remoteSeq |-> c.remoteSeq, sinceRecv |-> c.sinceRecv,
               sinceSend |-> c.sinceSend, recvAckQueue |-> c.recvAckQueue,
               sentAckQueue |-> c.sentAckQueue, queue |-> c.queue,
               events |-> longer]
    <2>1. c = [state |-> c.state, localSeq |-> c.localSeq,
               remoteSeq |-> c.remoteSeq, sinceRecv |-> c.sinceRecv,
               sinceSend |-> c.sinceSend, recvAckQueue |-> c.recvAckQueue,
               sentAckQueue |-> c.sentAckQueue, queue |-> c.queue,
               events |-> c.events]
      BY DEF IsConnection
    <2>2. [c EXCEPT !.state = state].events = c.events
      BY <2>1
    <2>3. new = [[c EXCEPT !.state = state] EXCEPT !.events = longer]
      BY <2>2 DEF Emit, Moved
    <2> HIDE DEF longer, new
    <2> QED
      BY <2>1, <2>3
  <1>2. /\ IsList(longer)
        /\ LifecycleEvents(longer) = Append(LifecycleEvents(c.events), event)
    <2>1. event \in AboutConnection
      BY AboutIsAbout
    <2> QED
      BY <2>1, OneEvent
  <1> HIDE DEF new, longer
  <1>3. new = [c EXCEPT !.state = new.state, !.events = new.events]
    <2>1. new.state = state /\ new.events = longer
      BY <1>1
    <2>2. c = [state |-> c.state, localSeq |-> c.localSeq,
               remoteSeq |-> c.remoteSeq, sinceRecv |-> c.sinceRecv,
               sinceSend |-> c.sinceSend, recvAckQueue |-> c.recvAckQueue,
               sentAckQueue |-> c.sentAckQueue, queue |-> c.queue,
               events |-> c.events]
      BY DEF IsConnection
    <2> DEFINE alt == [c EXCEPT !.state = state, !.events = longer]
    <2>4. alt = [c EXCEPT !.state = state, !.events = longer]
      OBVIOUS
    <2> HIDE DEF alt
    <2>3. alt
             = [state |-> state, localSeq |-> c.localSeq,
                remoteSeq |-> c.remoteSeq, sinceRecv |-> c.sinceRecv,
                sinceSend |-> c.sinceSend, recvAckQueue |-> c.recvAckQueue,
                sentAckQueue |-> c.sentAckQueue, queue |-> c.queue,
                events |-> longer]
      BY <2>2, <2>4
    <2> QED
      BY <1>1, <2>1, <2>3 DEF alt
  <1>4. Leads(new, state, c.sinceRecv, c.sinceSend,
              Append(LifecycleEvents(c.events), event))
    BY <1>1, <1>2 DEF Leads
  <1> QED
    BY <1>3, <1>4 DEF new, OnlyMoves

\* receive_packet() and the life-cycle (connection.rs l.664-697).
Receives(new, c, p) ==
    /\ c.state \in TerminalStates => new = c
    /\ c.state = "Closing" =>
          Leads(new, "Closing", 0, c.sinceSend, LifecycleEvents(c.events))
    /\ c.state = "Connecting" =>
          Leads(new, "Connected", 0, c.sinceSend,
                Append(LifecycleEvents(c.events), <<"Connected">>))
    /\ c.state = "Connected" /\ IsClosure(p) =>
          /\ Leads(new, "Closed", c.sinceRecv, c.sinceSend,
                   Append(LifecycleEvents(c.events), <<"Closed", TRUE>>))
          /\ new.queue = c.queue
    /\ c.state = "Connected" /\ ~IsClosure(p) =>
          IF SeqIsMoreRecent(p.seq, c.remoteSeq)
          THEN Leads(new, "Connected", 0, c.sinceSend, LifecycleEvents(c.events))
          ELSE new = c

LEMMA ReceiveLeads ==
    ASSUME NEW c, IsConnection(c), IsList(c.events), NEW p
    PROVE  Receives(ReceivePacket(c, p), c, p)
  <1> DEFINE u == UpdateReceiveState(c, p)
             new == ReceivePacket(c, p)
             log == LifecycleEvents(c.events)
             lost == Only(c.sentAckQueue,
                          {a \in ToSet(c.sentAckQueue) : TimedOut(p, a)})
             losses == [i \in DOMAIN lost |-> <<"PacketLost">>]
  <1>1. IsList(losses) /\ ToSet(losses) \cap AboutConnection = {}
    <2>1. PICK S : lost \in Seq(S)
      BY OnlyFacts DEF IsConnection
    <2> HIDE DEF lost
    <2>2. losses \in Seq({<<"PacketLost">>}) /\ ToSet(losses) \subseteq {<<"PacketLost">>}
      <3>1. DOMAIN lost = 1..Len(lost) /\ Len(lost) \in Nat
        BY <2>1
      <3>2. losses = [i \in 1..Len(lost) |-> <<"PacketLost">>]
        BY <3>1
      <3> DEFINE one == <<"PacketLost">>
      <3>3. losses = [i \in 1..Len(lost) |-> one]
        BY <3>2
      <3> HIDE DEF losses, one
      <3>4. losses \in Seq({one})
        BY <3>1, <3>3, IsASeq
      <3>5. ToSet(losses) \subseteq {one}
        BY <3>3 DEF ToSet
      <3> QED
        BY <3>4, <3>5 DEF one
    <2> QED
      BY <2>2, AboutIsAbout DEF IsList
  <1>2. ASSUME u.accepts
        PROVE  \E q, waiting, numbers :
                  new = [u.conn EXCEPT
                           !.sinceRecv = 0, !.remoteSeq = p.seq, !.queue = q,
                           !.sentAckQueue = waiting,
                           !.recvAckQueue = numbers, !.events = @ \o losses]
    <2> DEFINE waiting == Only(u.conn.sentAckQueue,
                               {a \in ToSet(c.sentAckQueue) :
                                  ~AckedBy(p, a) /\ ~TimedOut(p, a)})
    <2>1. \E q, numbers :
             new = [u.conn EXCEPT
                      !.sinceRecv = 0, !.remoteSeq = p.seq, !.queue = q,
                      !.sentAckQueue = Only(@, {a \in ToSet(c.sentAckQueue) :
                                            ~AckedBy(p, a) /\ ~TimedOut(p, a)}),
                      !.recvAckQueue = numbers, !.events = @ \o losses]
      BY <1>2 DEF ReceivePacket
    <2> HIDE DEF new, u, losses
    <2> QED
      BY <2>1
  <1>3. ~u.accepts => new = u.conn
    BY DEF ReceivePacket
  <1>4. ASSUME u.accepts, NEW state, NEW told,
               Leads(u.conn, state, c.sinceRecv, c.sinceSend, told),
               OnlyMoves(u.conn, c)
        PROVE  Leads(new, state, 0, c.sinceSend, told)
    <2> HIDE DEF u, new, losses
    <2>1. u.conn = [state |-> u.conn.state, localSeq |-> c.localSeq,
                    remoteSeq |-> c.remoteSeq, sinceRecv |-> c.sinceRecv,
                    sinceSend |-> c.sinceSend, recvAckQueue |-> c.recvAckQueue,
                    sentAckQueue |-> c.sentAckQueue, queue |-> c.queue,
                    events |-> u.conn.events]
      BY <1>4 DEF IsConnection, OnlyMoves
    <2>2. PICK q, waiting, numbers :
             new = [u.conn EXCEPT
                      !.sinceRecv = 0, !.remoteSeq = p.seq, !.queue = q,
                      !.sentAckQueue = waiting,
                      !.recvAckQueue = numbers, !.events = @ \o losses]
      BY <1>2, <1>4
    <2>3. /\ new.state = u.conn.state /\ new.sinceRecv = 0
          /\ new.sinceSend = c.sinceSend
          /\ new.events = u.conn.events \o losses
      BY <2>1, <2>2
    <2>4. /\ IsList(u.conn.events \o losses)
          /\ LifecycleEvents(u.conn.events \o losses) = told
      BY <1>1, <1>4, OtherEvents DEF Leads
    <2> QED
      BY <1>4, <2>3, <2>4 DEF Leads
  <1>5. Leads(c, c.state, c.sinceRecv, c.sinceSend, log)
    BY DEF Leads
  <1>6. OnlyMoves(c, c)
    BY DEF IsConnection, OnlyMoves
  <1>7. c.state \in TerminalStates => new = c
    <2>1. ASSUME c.state \in TerminalStates
          PROVE  u.conn = c /\ ~u.accepts
      BY <2>1 DEF UpdateReceiveState, TerminalStates
    <2> HIDE DEF u, new
    <2> QED
      BY <1>3, <2>1
  <1>8. c.state = "Closing" => Leads(new, "Closing", 0, c.sinceSend, log)
    <2>1. ASSUME c.state = "Closing"
          PROVE  u.conn = c /\ u.accepts
      BY <2>1 DEF UpdateReceiveState, TerminalStates
    <2> HIDE DEF u, new, log
    <2> QED
      BY <1>4, <1>5, <1>6, <2>1
  <1>9. c.state = "Connecting" =>
           Leads(new, "Connected", 0, c.sinceSend, Append(log, <<"Connected">>))
    <2>1. ASSUME c.state = "Connecting"
          PROVE  /\ u.conn = Moved(c, "Connected", <<"Connected">>)
                 /\ u.accepts
      BY <2>1 DEF UpdateReceiveState, TerminalStates, Moved
    <2>2. "Connected" \in States5 /\ <<"Connected">> \in AboutEvents
      BY DEF States5, OpenStates, AboutEvents
    <2>3. /\ Leads(Moved(c, "Connected", <<"Connected">>), "Connected", c.sinceRecv,
                   c.sinceSend, Append(log, <<"Connected">>))
          /\ OnlyMoves(Moved(c, "Connected", <<"Connected">>), c)
      BY <2>2, MoveLeads
    <2> HIDE DEF u, new, log
    <2> QED
      BY <1>4, <2>1, <2>3
  <1>10. c.state = "Connected" /\ IsClosure(p) =>
            /\ Leads(new, "Closed", c.sinceRecv, c.sinceSend,
                     Append(log, <<"Closed", TRUE>>))
            /\ new.queue = c.queue
    <2>1. ASSUME c.state = "Connected", IsClosure(p)
          PROVE  /\ u.conn = Moved(c, "Closed", <<"Closed", TRUE>>)
                 /\ ~u.accepts
      BY <2>1 DEF UpdateReceiveState, TerminalStates, Moved
    <2>2. "Closed" \in States5 /\ <<"Closed", TRUE>> \in AboutEvents
      BY DEF States5, TerminalStates, AboutEvents
    <2>3. /\ Leads(Moved(c, "Closed", <<"Closed", TRUE>>), "Closed", c.sinceRecv,
                   c.sinceSend, Append(log, <<"Closed", TRUE>>))
          /\ OnlyMoves(Moved(c, "Closed", <<"Closed", TRUE>>), c)
      BY <2>2, MoveLeads
    <2> HIDE DEF u, new, log
    <2>4. ASSUME c.state = "Connected", IsClosure(p)
          PROVE  new.queue = c.queue
      <3>1. OnlyMoves(new, c)
        BY <1>3, <2>1, <2>3, <2>4
      <3> QED
        BY <3>1 DEF IsConnection, OnlyMoves
    <2> QED
      BY <1>3, <2>1, <2>3, <2>4
  <1>11. ASSUME c.state = "Connected", ~IsClosure(p)
         PROVE  /\ SeqIsMoreRecent(p.seq, c.remoteSeq) =>
                      Leads(new, "Connected", 0, c.sinceSend, log)
                /\ ~SeqIsMoreRecent(p.seq, c.remoteSeq) => new = c
    <2>1. u.conn = c /\ u.accepts = SeqIsMoreRecent(p.seq, c.remoteSeq)
      BY <1>11 DEF UpdateReceiveState, TerminalStates
    <2> HIDE DEF u, new, log
    <2> QED
      BY <1>3, <1>4, <1>5, <1>6, <1>11, <2>1
  <1> HIDE DEF u, new, log
  <1> QED
    BY <1>7, <1>8, <1>9, <1>10, <1>11 DEF Receives, new, log

\* The time-outs of send_packet() and the states they end in.
TimesOut(c, state, event) ==
    \/ /\ c.state = "Connecting" /\ c.sinceRecv > InitThreshold
       /\ state = "FailedToConnect" /\ event = <<"FailedToConnect">>
    \/ /\ c.state = "Connected" /\ c.sinceRecv > DropThreshold
       /\ state = "Lost" /\ event = <<"Lost", TRUE>>
    \/ /\ c.state = "Connected" /\ ~(c.sinceRecv > DropThreshold)
       /\ c.sinceSend > DropThreshold
       /\ state = "Lost" /\ event = <<"Lost", FALSE>>
    \/ /\ c.state = "Closing" /\ c.sinceRecv > ClosingThreshold
       /\ state = "Closed" /\ event = <<"Closed", FALSE>>

LEMMA TimeOutState ==
    ASSUME NEW c, IsConnection(c)
    PROVE  LET u == UpdateSendState(c)
           IN  /\ \A state, event : TimesOut(c, state, event) =>
                     u.conn = Moved(c, state, event) /\ ~u.sends
               /\ ~(\E state, event : TimesOut(c, state, event)) =>
                     u.conn = c /\ (u.sends <=> c.state \in OpenStates)
  <1> DEFINE u == UpdateSendState(c)
  <1>1. /\ c.sinceRecv \in Nat /\ DropThreshold \in Nat
        /\ ~(c.sinceRecv > DropThreshold) <=> c.sinceRecv <= DropThreshold
    <2>1. c.sinceRecv \in Nat /\ DropThreshold \in Nat
      BY ThresholdAssumption DEF IsConnection
    <2> QED
      BY <2>1
  <1>2. ASSUME NEW state, NEW event, TimesOut(c, state, event)
        PROVE  u.conn = Moved(c, state, event) /\ ~u.sends
    <2>1. CASE c.state = "Connecting"
      BY <1>2, <2>1 DEF UpdateSendState, TimesOut, Moved, TerminalStates
    <2>2. CASE c.state = "Connected"
      BY <1>1, <1>2, <2>2 DEF UpdateSendState, TimesOut, Moved, TerminalStates
    <2>3. CASE c.state = "Closing"
      BY <1>2, <2>3 DEF UpdateSendState, TimesOut, Moved, TerminalStates
    <2> QED
      BY <1>2, <2>1, <2>2, <2>3 DEF TimesOut
  <1>3. ASSUME ~(\E state, event : TimesOut(c, state, event))
        PROVE  u.conn = c /\ (u.sends <=> c.state \in OpenStates)
    <2>1. /\ ~(c.state = "Connecting" /\ c.sinceRecv > InitThreshold)
          /\ ~(c.state = "Connected" /\ c.sinceRecv > DropThreshold)
          /\ ~(/\ c.state = "Connected" /\ ~(c.sinceRecv > DropThreshold)
               /\ c.sinceSend > DropThreshold)
          /\ ~(c.state = "Closing" /\ c.sinceRecv > ClosingThreshold)
      BY <1>3 DEF TimesOut
    <2>2. c.state \in States5
      BY DEF IsConnection
    <2>3. CASE c.state \in TerminalStates
      <3>1. u = [conn |-> c, sends |-> FALSE]
        BY <2>3 DEF UpdateSendState, TerminalStates
      <3>2. c.state \notin OpenStates
        BY <2>3 DEF TerminalStates, OpenStates
      <3> HIDE DEF u
      <3> QED
        BY <3>1, <3>2
    <2>4. CASE c.state \in OpenStates
      <3>1. u = [conn |-> c, sends |-> TRUE]
        BY <1>1, <2>1, <2>4 DEF UpdateSendState, TerminalStates, OpenStates
      <3> HIDE DEF u
      <3> QED
        BY <2>4, <3>1
    <2> QED
      BY <2>2, <2>3, <2>4 DEF States5
  <1> QED
    BY <1>2, <1>3

HeaderOf(c) ==
    [seq |-> c.localSeq, ack |-> c.remoteSeq,
     bits |-> AckBitfield(c.recvAckQueue, c.remoteSeq)]

\* send_packet() lets a connection be that has not timed out.  A packet leaves,
\* or none does.
Goes(r, c, id) ==
    /\ c.state \in OpenStates
    /\ Leads(r.conn, c.state, c.sinceRecv, 0, LifecycleEvents(c.events))
    /\ r.conn.localSeq # c.localSeq /\ \E q : r.conn.queue = QueueDismiss(q)
    /\ \E p : /\ r.packet = {p} /\ p.id = id
              /\ c.state = "Closing" => IsClosure(p) /\ p.payload = <<>>
              /\ c.state # "Closing" /\ HeaderOf(c) # ClosureHeader => ~IsClosure(p)

Stays(r, c) ==
    /\ Leads(r.conn, c.state, c.sinceRecv, c.sinceSend, LifecycleEvents(c.events))
    /\ r.packet = {}
    /\ \/ r.conn.queue = c.queue
       \/ c.state \in OpenStates /\ \E q : r.conn.queue = QueueDismiss(q)

LEMMA OtherEventEmitted ==
    ASSUME NEW c, IsConnection(c), IsList(c.events), NEW v,
           v \notin AboutConnection
    PROVE  /\ IsConnection(Emit(c, v)) /\ OnlyMoves(Emit(c, v), c)
           /\ Leads(Emit(c, v), c.state, c.sinceRecv, c.sinceSend,
                    LifecycleEvents(c.events))
  <1> DEFINE d == Emit(c, v)
             longer == Append(c.events, v)
  <1>1. c = [state |-> c.state, localSeq |-> c.localSeq,
             remoteSeq |-> c.remoteSeq, sinceRecv |-> c.sinceRecv,
             sinceSend |-> c.sinceSend, recvAckQueue |-> c.recvAckQueue,
             sentAckQueue |-> c.sentAckQueue, queue |-> c.queue,
             events |-> c.events]
    BY DEF IsConnection
  <1>2. d = [c EXCEPT !.events = longer]
    BY DEF Emit
  <1>3. IsList(longer) /\ LifecycleEvents(longer) = LifecycleEvents(c.events)
    BY OneEvent
  <1> HIDE DEF d, longer
  <1>4. d = [state |-> c.state, localSeq |-> c.localSeq,
             remoteSeq |-> c.remoteSeq, sinceRecv |-> c.sinceRecv,
             sinceSend |-> c.sinceSend, recvAckQueue |-> c.recvAckQueue,
             sentAckQueue |-> c.sentAckQueue, queue |-> c.queue,
             events |-> longer]
    BY <1>1, <1>2
  <1>5. IsConnection(d)
    BY <1>4 DEF IsConnection
  <1>6. OnlyMoves(d, c)
    <2>1. d.state = c.state /\ d.events = longer
      BY <1>4
    <2> DEFINE alt == [c EXCEPT !.state = c.state, !.events = longer]
    <2>2. alt = [c EXCEPT !.state = c.state, !.events = longer]
      OBVIOUS
    <2> HIDE DEF alt
    <2>3. alt
             = [state |-> c.state, localSeq |-> c.localSeq,
                remoteSeq |-> c.remoteSeq, sinceRecv |-> c.sinceRecv,
                sinceSend |-> c.sinceSend, recvAckQueue |-> c.recvAckQueue,
                sentAckQueue |-> c.sentAckQueue, queue |-> c.queue,
                events |-> longer]
      BY <1>1, <2>2
    <2> QED
      BY <1>4, <2>1, <2>3 DEF OnlyMoves, alt
  <1>7. Leads(d, c.state, c.sinceRecv, c.sinceSend, LifecycleEvents(c.events))
    BY <1>3, <1>4 DEF Leads
  <1> QED
    BY <1>5, <1>6, <1>7 DEF d

LEMMA TransmitLeads ==
    ASSUME NEW c, IsConnection(c), IsList(c.events), c.state \in OpenStates,
           NEW env, env.sendOk \in BOOLEAN, NEW id
    PROVE  LET r == Transmit(c, env, id, OutgoingPacket(c))
           IN  IF env.sendOk THEN Goes(r, c, id) ELSE Stays(r, c)
  <1> DEFINE out == OutgoingPacket(c)
             r == Transmit(c, env, id, out)
             p == [seq |-> out.header.seq, ack |-> out.header.ack,
                   bits |-> out.header.bits, payload |-> out.payload,
                   id |-> id]
             next == Successor(c.localSeq, MaxSeqNumber)
             since == IF env.sendOk THEN 0 ELSE c.sinceSend
             log == LifecycleEvents(c.events)
  <1>1. out.header = IF c.state = "Closing" THEN ClosureHeader ELSE HeaderOf(c)
    BY DEF OutgoingPacket, HeaderOf
  <1>2. \E sent : r.conn = [c EXCEPT !.sinceSend = since, !.sentAckQueue = sent,
                                     !.localSeq = next,
                                     !.queue = QueueDismiss(out.queue)]
    <2> DEFINE sent == IF SendAckRequired(c)
                       THEN Append(c.sentAckQueue, NoteOf(c, id, out.payload))
                       ELSE c.sentAckQueue
    <2>1. r.conn = [c EXCEPT !.sinceSend = since, !.sentAckQueue = sent,
                             !.localSeq = next,
                             !.queue = QueueDismiss(out.queue)]
      BY DEF Transmit, NoteOf, IsConnection
    <2> HIDE DEF r, sent, since, next, out
    <2> QED
      BY <2>1
  <1>3. r.packet = IF env.sendOk THEN {p} ELSE {}
    BY DEF Transmit
  <1> HIDE DEF r, since, next
  <1>4. PICK sent : r.conn = [c EXCEPT !.sinceSend = since, !.sentAckQueue = sent,
                                       !.localSeq = next,
                                       !.queue = QueueDismiss(out.queue)]
    BY <1>2
  <1>5. /\ r.conn.state = c.state /\ r.conn.sinceRecv = c.sinceRecv
        /\ r.conn.sinceSend = since /\ r.conn.events = c.events
        /\ r.conn.localSeq = next /\ r.conn.queue = QueueDismiss(out.queue)
    <2> DEFINE left == QueueDismiss(out.queue)
    <2>1. r.conn = [c EXCEPT !.sinceSend = since, !.sentAckQueue = sent,
                             !.localSeq = next, !.queue = left]
      BY <1>4
    <2> HIDE DEF left, out
    <2>2. /\ r.conn.state = c.state /\ r.conn.sinceRecv = c.sinceRecv
          /\ r.conn.sinceSend = since /\ r.conn.events = c.events
          /\ r.conn.localSeq = next /\ r.conn.queue = left
      BY <2>1 DEF IsConnection
    <2> QED
      BY <2>2 DEF left
  <1>6. Leads(r.conn, c.state, c.sinceRecv, since, log)
    BY <1>5 DEF Leads
  <1>7. next # c.localSeq
    BY SuccessorDiffers DEF IsConnection, next
  <1>8. /\ p.id = id
        /\ IsClosure(p) <=> out.header = ClosureHeader
    <2> DEFINE h == out.header
    <2>1. ASSUME h = [seq |-> h.seq, ack |-> h.ack, bits |-> h.bits]
          PROVE  IsClosure(p) <=> h = ClosureHeader
      BY <2>1 DEF IsClosure
    <2>2. h = [seq |-> h.seq, ack |-> h.ack, bits |-> h.bits]
      <3> HIDE DEF out
      <3>1. ClosureHeader = [seq |-> ClosureHeader.seq, ack |-> ClosureHeader.ack,
                             bits |-> ClosureHeader.bits]
        BY DEF ClosureHeader
      <3>2. HeaderOf(c) = [seq |-> HeaderOf(c).seq, ack |-> HeaderOf(c).ack,
                           bits |-> HeaderOf(c).bits]
        BY DEF HeaderOf
      <3> QED
        BY <1>1, <3>1, <3>2
    <2> QED
      BY <2>1, <2>2
  <1>9. CASE env.sendOk
    <2>1. since = 0 /\ r.packet = {p}
      BY <1>3, <1>9 DEF since
    <2>2. c.state = "Closing" => IsClosure(p) /\ p.payload = <<>>
      BY <1>1, <1>8 DEF OutgoingPacket
    <2>3. c.state # "Closing" /\ HeaderOf(c) # ClosureHeader => ~IsClosure(p)
      BY <1>1, <1>8
    <2> HIDE DEF p, out
    <2>4. Goes(r, c, id)
      BY <1>5, <1>6, <1>7, <1>8, <2>1, <2>2, <2>3 DEF Goes, log
    <2> QED
      BY <1>9, <2>4 DEF r, out
  <1>10. CASE ~env.sendOk
    <2>1. since = c.sinceSend /\ r.packet = {}
      BY <1>3, <1>10 DEF since
    <2> HIDE DEF p, out
    <2>2. Stays(r, c)
      BY <1>5, <1>6, <2>1 DEF Stays, log
    <2> QED
      BY <1>10, <2>2 DEF r, out
  <1> QED
    BY <1>9, <1>10

SendOutcome(r, c, id) ==
    /\ \A state, event : TimesOut(c, state, event) =>
          r.conn = Moved(c, state, event) /\ r.packet = {}
    /\ (\A state, event : ~TimesOut(c, state, event)) =>
          Goes(r, c, id) \/ Stays(r, c)

LEMMA SendLeads ==
    ASSUME NEW c, IsConnection(c), IsList(c.events),
           NEW env, env.sendOk \in BOOLEAN, NEW id
    PROVE  SendOutcome(SendPacket(c, env, id), c, id)
  <1> DEFINE u == UpdateSendState(c)
             d == IF env.congestionChanged THEN Emit(u.conn, <<"Congestion">>)
                  ELSE u.conn
             r == SendPacket(c, env, id)
             log == LifecycleEvents(c.events)
  <1>1. /\ \A state, event : TimesOut(c, state, event) =>
              u.conn = Moved(c, state, event) /\ ~u.sends
        /\ ~(\E state, event : TimesOut(c, state, event)) =>
              u.conn = c /\ (u.sends <=> c.state \in OpenStates)
    BY TimeOutState
  <1>2. r = IF ~u.sends THEN [conn |-> u.conn, packet |-> {}]
            ELSE IF ~env.shouldSend THEN [conn |-> d, packet |-> {}]
            ELSE Transmit(d, env, id, OutgoingPacket(d))
    BY DEF SendPacket
  <1>3. u.conn = c => /\ IsConnection(d) /\ OnlyMoves(d, c)
                      /\ Leads(d, c.state, c.sinceRecv, c.sinceSend, log)
    <2>1. IsConnection(c) /\ OnlyMoves(c, c)
          /\ Leads(c, c.state, c.sinceRecv, c.sinceSend, log)
      BY DEF IsConnection, OnlyMoves, Leads
    <2>2. LET e == Emit(c, <<"Congestion">>)
          IN  /\ IsConnection(e) /\ OnlyMoves(e, c)
              /\ Leads(e, c.state, c.sinceRecv, c.sinceSend, log)
      BY AboutIsAbout, OtherEventEmitted
    <2> HIDE DEF u
    <2> QED
      BY <2>1, <2>2
  <1> HIDE DEF u, d, r
  <1>4. ASSUME NEW state, NEW event, TimesOut(c, state, event)
        PROVE  r.conn = Moved(c, state, event) /\ r.packet = {}
    BY <1>1, <1>2, <1>4
  <1>5. ASSUME \A state, event : ~TimesOut(c, state, event)
        PROVE  Goes(r, c, id) \/ Stays(r, c)
    <2>1. u.conn = c /\ (u.sends <=> c.state \in OpenStates)
      BY <1>1, <1>5
    <2>2. /\ IsConnection(d) /\ OnlyMoves(d, c)
          /\ Leads(d, c.state, c.sinceRecv, c.sinceSend, log)
      BY <1>3, <2>1
    <2>3. /\ d.queue = c.queue /\ d.localSeq = c.localSeq
          /\ d.remoteSeq = c.remoteSeq /\ d.recvAckQueue = c.recvAckQueue
      BY <2>2 DEF OnlyMoves, IsConnection
    <2>4. CASE ~u.sends
      <3>1. r.conn = c /\ r.packet = {}
        BY <1>2, <2>1, <2>4
      <3>2. Leads(c, c.state, c.sinceRecv, c.sinceSend, log)
        BY DEF Leads
      <3> QED
        BY <3>1, <3>2 DEF Stays, log
    <2>5. CASE u.sends /\ ~env.shouldSend
      <3>1. r.conn = d /\ r.packet = {}
        BY <1>2, <2>5
      <3> QED
        BY <2>2, <2>3, <3>1 DEF Stays, log
    <2>6. CASE u.sends /\ env.shouldSend
      <3>1. r = Transmit(d, env, id, OutgoingPacket(d))
        BY <1>2, <2>6
      <3>2. /\ d.state = c.state /\ d.sinceRecv = c.sinceRecv
            /\ d.sinceSend = c.sinceSend /\ IsList(d.events)
            /\ LifecycleEvents(d.events) = log /\ d.state \in OpenStates
        BY <2>1, <2>2, <2>6 DEF Leads
      <3>3. IF env.sendOk THEN Goes(r, d, id) ELSE Stays(r, d)
        BY <2>2, <3>1, <3>2, TransmitLeads
      <3>4. HeaderOf(d) = HeaderOf(c)
        BY <2>3 DEF HeaderOf
      <3>5. Goes(r, d, id) => Goes(r, c, id)
        BY <2>3, <3>2, <3>4 DEF Goes, log
      <3>6. Stays(r, d) => Stays(r, c)
        BY <2>3, <3>2 DEF Stays, log
      <3> QED
        BY <3>3, <3>5, <3>6
    <2> QED
      BY <2>4, <2>5, <2>6
  <1> QED
    BY <1>4, <1>5 DEF SendOutcome, r

LEMMA ElapseLeads ==
    ASSUME NEW c, IsConnection(c), IsList(c.events)
    PROVE  /\ Leads(Elapse(c), c.state, Older(c.sinceRecv, LongestThreshold),
                    Older(c.sinceSend, DropThreshold), LifecycleEvents(c.events))
           /\ Elapse(c).queue = c.queue
  <1> DEFINE received == Older(c.sinceRecv, LongestThreshold)
             sent == Older(c.sinceSend, DropThreshold)
             aged == [i \in DOMAIN c.sentAckQueue |-> Aged(c.sentAckQueue[i])]
             new == Elapse(c)
  <1>1. new = [c EXCEPT !.sinceRecv = received, !.sinceSend = sent,
                        !.sentAckQueue = aged]
    BY DEF Elapse
  <1> HIDE DEF received, sent, aged, new
  <1>2. /\ new.state = c.state /\ new.sinceRecv = received
        /\ new.sinceSend = sent /\ new.events = c.events /\ new.queue = c.queue
    BY <1>1 DEF IsConnection
  <1> QED
    BY <1>2 DEF Leads, received, sent, new

LEMMA CallsLead ==
    ASSUME NEW c, IsConnection(c), IsList(c.events)
    PROVE  /\ \A kind, data, len :
                 Leads(SendMessage(c, kind, data, len), c.state, c.sinceRecv,
                       c.sinceSend, LifecycleEvents(c.events))
           /\ Leads(Drained(c), c.state, c.sinceRecv, c.sinceSend, <<>>)
           /\ Leads(Close(c), "Closing", c.sinceRecv, c.sinceSend,
                    LifecycleEvents(c.events))
           /\ Close(c).queue = c.queue
           /\ Drained(c).queue = QueueDismiss(c.queue)
           /\ \A kind, data, len : SendMessage(c, kind, data, len).queue
                                      = QueueSend(c.queue, kind, data, len)
  <1>2. ASSUME NEW kind, NEW data, NEW len
        PROVE  /\ Leads(SendMessage(c, kind, data, len), c.state, c.sinceRecv,
                        c.sinceSend, LifecycleEvents(c.events))
               /\ SendMessage(c, kind, data, len).queue
                     = QueueSend(c.queue, kind, data, len)
    <2> DEFINE q == QueueSend(c.queue, kind, data, len)
               new == SendMessage(c, kind, data, len)
    <2>1. new = [c EXCEPT !.queue = q]
      BY DEF SendMessage
    <2> HIDE DEF q, new
    <2>2. /\ new.state = c.state /\ new.sinceRecv = c.sinceRecv
          /\ new.sinceSend = c.sinceSend /\ new.events = c.events /\ new.queue = q
      BY <2>1 DEF IsConnection
    <2> QED
      BY <2>2 DEF Leads, new, q
  <1>3. /\ Leads(Drained(c), c.state, c.sinceRecv, c.sinceSend, <<>>)
        /\ Drained(c).queue = QueueDismiss(c.queue)
    <2> DEFINE q == QueueDismiss(c.queue)
               none == <<>>
               new == Drained(c)
    <2>1. new = [c EXCEPT !.events = none, !.queue = q]
      BY DEF Drained
    <2>2. IsList(none) /\ LifecycleEvents(none) = none
      BY EmptyIsList
    <2> HIDE DEF q, none, new
    <2>3. /\ new.state = c.state /\ new.sinceRecv = c.sinceRecv
          /\ new.sinceSend = c.sinceSend /\ new.events = none /\ new.queue = q
      BY <2>1 DEF IsConnection
    <2> QED
      BY <2>2, <2>3 DEF Leads, new, none, q
  <1>4. /\ Leads(Close(c), "Closing", c.sinceRecv, c.sinceSend,
                 LifecycleEvents(c.events))
        /\ Close(c).queue = c.queue
    <2> DEFINE new == Close(c)
    <2>1. new = [c EXCEPT !.state = "Closing"]
      BY DEF Close
    <2> HIDE DEF new
    <2>2. /\ new.state = "Closing" /\ new.sinceRecv = c.sinceRecv
          /\ new.sinceSend = c.sinceSend /\ new.events = c.events
          /\ new.queue = c.queue
      BY <2>1 DEF IsConnection
    <2> QED
      BY <2>2 DEF Leads, new
  <1> QED
    BY <1>2, <1>3, <1>4

-----------------------------------------------------------------------------
(* The refinement of ConnectionLifecycle *)

\* The variables of that module: state, sinceRecv, sinceSend, log and net.
LState == [e \in Ends |-> IF e \in born THEN conn[e].state ELSE "None"]
LRecv == [e \in Ends |-> conn[e].sinceRecv]
LSend == [e \in Ends |-> conn[e].sinceSend]
LLog == [e \in Ends |-> seen[e] \o LifecycleEvents(conn[e].events)]
LNet == [e \in Ends |-> {KindOfPacket(p) : p \in net[e]}]

Alive(e) ==
    /\ IsList(conn[e].events) /\ IsList(seen[e])
    /\ e \notin born => /\ conn[e].sinceRecv = 0 /\ conn[e].sinceSend = 0
                        /\ PendingEvents(conn[e]) = <<>>

LifeInv ==
    /\ MessageInv /\ DOMAIN conn = Ends /\ seen = [e \in Ends |-> seen[e]]
    /\ \A e \in Ends : Alive(e)

\* Function g is f but for its value at e.
Sets(g, f, e, v) == g = [f EXCEPT ![e] = v]

LEMMA EndStep ==
    ASSUME LifeInv, MessageInv', NEW e \in Ends, born' = born \cup {e},
           NEW new, conn' = [conn EXCEPT ![e] = new],
           NEW told, IsList(told), Sets(seen', seen, e, told),
           NEW state, NEW received, NEW sent, NEW log,
           Leads(new, state, received, sent, log)
    PROVE  /\ LifeInv' /\ LState' = [LState EXCEPT ![e] = state]
           /\ LRecv' = [LRecv EXCEPT ![e] = received]
           /\ LSend' = [LSend EXCEPT ![e] = sent]
           /\ Sets(LLog', LLog, e, Joined(told, log))
  <1>1. /\ DOMAIN conn = Ends /\ seen = [x \in Ends |-> seen[x]]
        /\ \A x \in Ends : Alive(x)
    BY DEF LifeInv
  <1>2. /\ DOMAIN conn' = Ends /\ conn'[e] = new
        /\ \A x \in Ends : x # e => conn'[x] = conn[x]
    BY <1>1
  <1>3. /\ seen' = [x \in Ends |-> seen'[x]] /\ seen'[e] = told
        /\ \A x \in Ends : x # e => seen'[x] = seen[x]
    BY <1>1 DEF Sets
  <1>4. /\ new.state = state /\ new.sinceRecv = received /\ new.sinceSend = sent
        /\ IsList(new.events) /\ LifecycleEvents(new.events) = log
    BY DEF Leads
  <1>5. ASSUME NEW x \in Ends PROVE Alive(x)'
    <2>1. CASE x = e
      BY <1>2, <1>3, <1>4, <2>1 DEF Alive
    <2>2. CASE x # e
      BY <1>1, <1>2, <1>3, <2>2 DEF Alive
    <2> QED
      BY <2>1, <2>2
  <1>6. LifeInv'
    BY <1>2, <1>3, <1>5 DEF LifeInv
  <1>7. LState' = [LState EXCEPT ![e] = state]
    BY <1>2, <1>4 DEF LState
  <1>8. /\ LRecv' = [LRecv EXCEPT ![e] = received]
        /\ LSend' = [LSend EXCEPT ![e] = sent]
    BY <1>2, <1>4 DEF LRecv, LSend
  <1>9. Sets(LLog', LLog, e, Joined(told, log))
    <2> DEFINE whole == told \o log
               old(x) == seen[x] \o LifecycleEvents(conn[x].events)
    <2>1. /\ LLog = [x \in Ends |-> old(x)]
          /\ LLog' = [x \in Ends |-> seen'[x] \o LifecycleEvents(conn'[x].events)]
      BY DEF LLog
    <2>2. \A x \in Ends : x # e =>
             seen'[x] \o LifecycleEvents(conn'[x].events) = old(x)
      BY <1>2, <1>3
    <2>3. seen'[e] \o LifecycleEvents(conn'[e].events) = whole
      BY <1>2, <1>3, <1>4
    <2>4. LLog' = [x \in Ends |-> IF x = e THEN whole ELSE old(x)]
      BY <2>1, <2>2, <2>3
    <2> HIDE DEF whole, old
    <2>5. LLog' = [LLog EXCEPT ![e] = whole]
      BY <2>1, <2>4
    <2> QED
      BY <2>5 DEF whole, Joined, Sets
  <1> QED
    BY <1>6, <1>7, <1>8, <1>9

\* What has been polled and what is waiting are one log.
LEMMA LogGrows ==
    ASSUME NEW s, IsList(s), NEW events, IsList(events), NEW v
    PROVE  Joined(s, Append(LifecycleEvents(events), v))
              = Append(Joined(s, LifecycleEvents(events)), v)
  <1> DEFINE t == LifecycleEvents(events)
  <1>1. PICK S, T : s \in Seq(S) /\ t \in Seq(T)
    BY LifecycleIsList DEF IsList
  <1> HIDE DEF t
  <1> DEFINE U == S \cup T \cup {v}
  <1>2. s \in Seq(U) /\ t \in Seq(U) /\ v \in U
    BY <1>1
  <1> HIDE DEF U
  <1>3. s \o Append(t, v) = Append(s \o t, v)
    BY <1>2
  <1> QED
    BY <1>3 DEF t, Joined

\* An end's connection changes and says nothing about it, or one thing.
LEMMA QuietStep ==
    ASSUME LifeInv, MessageInv', NEW e \in Ends, born' = born \cup {e},
           NEW new, conn' = [conn EXCEPT ![e] = new], seen' = seen,
           NEW state, NEW received, NEW sent,
           Leads(new, state, received, sent, LifecycleEvents(conn[e].events))
    PROVE  /\ LifeInv' /\ LState' = [LState EXCEPT ![e] = state]
           /\ LRecv' = [LRecv EXCEPT ![e] = received]
           /\ LSend' = [LSend EXCEPT ![e] = sent] /\ LLog' = LLog
  <1> DEFINE log == LifecycleEvents(conn[e].events)
             told == seen[e]
             whole == Joined(told, log)
  <1>0. Leads(new, state, received, sent, log)
    OBVIOUS
  <1>1. IsList(told) /\ Sets(seen', seen, e, told)
    BY DEF LifeInv, Alive, Sets
  <1>2. LLog[e] = whole /\ LLog = [x \in Ends |-> LLog[x]]
    BY DEF LLog, Joined
  <1> HIDE DEF told, log
  <1>3. /\ LifeInv' /\ LState' = [LState EXCEPT ![e] = state]
        /\ LRecv' = [LRecv EXCEPT ![e] = received]
        /\ LSend' = [LSend EXCEPT ![e] = sent]
        /\ Sets(LLog', LLog, e, Joined(told, log))
    BY <1>0, <1>1, EndStep
  <1>4. LLog' = [LLog EXCEPT ![e] = whole]
    BY <1>3 DEF Sets
  <1> HIDE DEF whole
  <1> QED
    BY <1>2, <1>3, <1>4

Longer(log, e, event) == [log EXCEPT ![e] = Append(@, event)]

LEMMA SpeakingStep ==
    ASSUME LifeInv, MessageInv', NEW e \in Ends, born' = born \cup {e},
           NEW new, conn' = [conn EXCEPT ![e] = new], seen' = seen,
           NEW state, NEW received, NEW sent, NEW event,
           Leads(new, state, received, sent,
                 Append(LifecycleEvents(conn[e].events), event))
    PROVE  /\ LifeInv' /\ LState' = [LState EXCEPT ![e] = state]
           /\ LRecv' = [LRecv EXCEPT ![e] = received]
           /\ LSend' = [LSend EXCEPT ![e] = sent]
           /\ LLog' = Longer(LLog, e, event)
  <1> DEFINE log == Append(LifecycleEvents(conn[e].events), event)
             told == seen[e]
             whole == Joined(told, log)
             longer == Append(LLog[e], event)
  <1>0. Leads(new, state, received, sent, log)
    OBVIOUS
  <1>1. IsList(told) /\ Sets(seen', seen, e, told) /\ IsList(conn[e].events)
    BY DEF LifeInv, Alive, Sets
  <1>2. LLog = [x \in Ends |-> LLog[x]]
    BY DEF LLog
  <1>3. longer = Append(Joined(told, LifecycleEvents(conn[e].events)), event)
    BY DEF LLog, Joined
  <1>4. whole = longer
    BY <1>1, <1>3, LogGrows
  <1> HIDE DEF told, log, longer
  <1>5. /\ LifeInv' /\ LState' = [LState EXCEPT ![e] = state]
        /\ LRecv' = [LRecv EXCEPT ![e] = received]
        /\ LSend' = [LSend EXCEPT ![e] = sent]
        /\ Sets(LLog', LLog, e, Joined(told, log))
    BY <1>0, <1>1, EndStep
  <1>6. LLog' = [LLog EXCEPT ![e] = longer]
    BY <1>4, <1>5 DEF Sets
  <1> QED
    BY <1>2, <1>5, <1>6 DEF longer, Longer

LEMMA LifeArrives ==
    ASSUME LifeInv, MessageInv', NEW e \in Ends, NEW p \in net[e], Arrive(e, p)
    PROVE  LifeInv' /\ [Life!Next]_(Life!lifeVars)
  <1> DEFINE c == conn[e]
             new == ReceivePacket(c, p)
             log == LifecycleEvents(c.events)
             kind == KindOfPacket(p)
  <1>1. /\ conn' = [conn EXCEPT ![e] = new] /\ born' = born \cup {e}
        /\ due' = [due EXCEPT ![e] = e \notin born \/ @]
        /\ net' = net /\ seen' = seen
    BY DEF Arrive
  <1>2. IsConnection(c) /\ IsList(c.events)
        /\ (e \notin born => c.state = "Connecting") /\ due \in [Ends -> BOOLEAN]
    BY DEF LifeInv, MessageInv, LinkInv, LinkShape, Alive
  <1>3. Receives(new, c, p)
    BY <1>2, ReceiveLeads
  <1>4. /\ kind \in LNet[e] /\ LNet' = LNet /\ kind \in {"data", "closure"}
        /\ kind = "closure" <=> IsClosure(p)
    BY <1>1 DEF LNet, KindOfPacket
  <1>5. /\ LState[e] = IF e \in born THEN c.state ELSE "None"
        /\ LState = [x \in Ends |-> LState[x]] /\ LRecv = [x \in Ends |-> LRecv[x]]
        /\ LSend = [x \in Ends |-> LSend[x]]
        /\ LRecv[e] = c.sinceRecv /\ LSend[e] = c.sinceSend
    BY DEF LState, LRecv, LSend
  <1>6. Leads(c, c.state, c.sinceRecv, c.sinceSend, log)
    BY <1>2 DEF Leads
  <1>7. c.state \in {"Connecting", "Connected", "Closing"} \cup TerminalStates
    BY <1>2 DEF IsConnection, States5, OpenStates
  <1>8. e \in born => due' = due
    BY <1>1, <1>2
  <1> HIDE DEF c, new, log, kind
  <1>9. CASE c.state = "Connecting"
    <2>1. Leads(new, "Connected", 0, c.sinceSend, Append(log, <<"Connected">>))
      BY <1>3, <1>9 DEF Receives, log
    <2>2. /\ LifeInv' /\ LState' = [LState EXCEPT ![e] = "Connected"]
          /\ LRecv' = [LRecv EXCEPT ![e] = 0]
          /\ LSend' = [LSend EXCEPT ![e] = c.sinceSend]
          /\ LLog' = Longer(LLog, e, <<"Connected">>)
      BY <1>1, <2>1, SpeakingStep DEF c, log
    <2>3. LSend' = LSend /\ LState[e] \in {"None", "Connecting"}
          /\ due' = [due EXCEPT ![e] = (LState[e] = "None") \/ @]
      BY <1>1, <1>2, <1>5, <1>9, <2>2
    <2>4. Life!Establish(e, kind)
      BY <1>4, <2>2, <2>3
      DEF Life!Establish, Life!Enter, Longer, LState, LRecv, LSend, LLog, LNet
    <2> QED
      BY <1>4, <2>2, <2>4 DEF Life!Next, Life!Kinds, Life!Ends, Ends
  <1>10. CASE c.state = "Closing" \/ (/\ c.state = "Connected" /\ ~IsClosure(p)
                                      /\ SeqIsMoreRecent(p.seq, c.remoteSeq))
    <2>1. Leads(new, c.state, 0, c.sinceSend, log)
      BY <1>3, <1>10 DEF Receives, log
    <2>2. /\ LifeInv' /\ LState' = [LState EXCEPT ![e] = c.state]
          /\ LRecv' = [LRecv EXCEPT ![e] = 0]
          /\ LSend' = [LSend EXCEPT ![e] = c.sinceSend] /\ LLog' = LLog
      BY <1>1, <2>1, QuietStep DEF c, log
    <2>3. LSend' = LSend /\ LState' = LState /\ LState[e] = c.state /\ due' = due
      BY <1>2, <1>5, <1>8, <1>10, <2>2
    <2>4. (LState[e] = "Connected" /\ kind = "data") \/ LState[e] = "Closing"
      BY <1>4, <1>10, <2>3
    <2>5. Life!Accept(e, kind)
      BY <1>4, <2>2, <2>3, <2>4 DEF Life!Accept, LState, LRecv, LSend, LLog, LNet
    <2> QED
      BY <1>4, <2>2, <2>5 DEF Life!Next, Life!Kinds, Life!Ends, Ends
  <1>11. CASE c.state = "Connected" /\ IsClosure(p)
    <2>1. Leads(new, "Closed", c.sinceRecv, c.sinceSend,
                Append(log, <<"Closed", TRUE>>))
      BY <1>3, <1>11 DEF Receives, log
    <2>2. /\ LifeInv' /\ LState' = [LState EXCEPT ![e] = "Closed"]
          /\ LRecv' = [LRecv EXCEPT ![e] = c.sinceRecv]
          /\ LSend' = [LSend EXCEPT ![e] = c.sinceSend]
          /\ LLog' = Longer(LLog, e, <<"Closed", TRUE>>)
      BY <1>1, <2>1, SpeakingStep DEF c, log
    <2>3. /\ LSend' = LSend /\ LRecv' = LRecv /\ LState[e] = "Connected"
          /\ due' = due /\ "closure" \in LNet[e]
      BY <1>2, <1>4, <1>5, <1>8, <1>11, <2>2
    <2>4. Life!ClosedByRemote(e)
      BY <1>4, <2>2, <2>3
      DEF Life!ClosedByRemote, Life!Enter, Longer, LState, LRecv, LSend, LLog, LNet
    <2> QED
      BY <2>2, <2>4 DEF Life!Next, Life!Ends, Ends
  <1>12. CASE c.state \in TerminalStates
              \/ (/\ c.state = "Connected" /\ ~IsClosure(p)
                  /\ ~SeqIsMoreRecent(p.seq, c.remoteSeq))
    <2>1. new = c
      BY <1>3, <1>12 DEF Receives
    <2>2. c.state # "Connecting"
      BY <1>12 DEF TerminalStates
    <2>3. /\ LifeInv' /\ LState' = [LState EXCEPT ![e] = c.state]
          /\ LRecv' = [LRecv EXCEPT ![e] = c.sinceRecv]
          /\ LSend' = [LSend EXCEPT ![e] = c.sinceSend] /\ LLog' = LLog
      BY <1>1, <1>6, <2>1, QuietStep DEF c, log
    <2>4. LSend' = LSend /\ LState' = LState /\ LRecv' = LRecv /\ due' = due
      BY <1>2, <1>5, <1>8, <2>2, <2>3
    <2> QED
      BY <1>4, <2>3, <2>4 DEF Life!lifeVars, LState, LRecv, LSend, LLog, LNet
  <1> QED
    BY <1>7, <1>9, <1>10, <1>11, <1>12

\* No data packet has the numbers of a closure packet: if one had, its receiver
\* would take the connection for closed (run LinkFalseClosure).
NoLookalike ==
    \A e \in Ends : conn[e].state \in {"Connecting", "Connected"}
                       => HeaderOf(conn[e]) # ClosureHeader

\* The network towards f after the packet `sent' has joined it.
LEMMA NetAfterPacket ==
    ASSUME DOMAIN net = Ends, NEW f \in Ends, NEW sent, NEW n,
           net' = [net EXCEPT ![f] = Carry(@, {sent}, n)],
           sent.id + MaxLag >= n
    PROVE  \E left \in SUBSET LNet[f] :
              LNet' = [LNet EXCEPT ![f] = left \cup {KindOfPacket(sent)}]
  <1> DEFINE now == {p \in net[f] \cup {sent} : p.id + MaxLag >= n}
             left == {KindOfPacket(p) : p \in now \cap net[f]}
             kinds == {KindOfPacket(p) : p \in now}
  <1>1. net'[f] = now /\ \A x \in Ends : x # f => net'[x] = net[x]
    BY DEF Carry
  <1>2. now = (now \cap net[f]) \cup {sent}
    OBVIOUS
  <1> HIDE DEF now
  <1>3. kinds = left \cup {KindOfPacket(sent)}
    BY <1>2
  <1>4. left \in SUBSET LNet[f]
    BY DEF LNet
  <1>5. LNet' = [x \in Ends |-> IF x = f THEN kinds ELSE LNet[x]]
    BY <1>1 DEF LNet
  <1> HIDE DEF left, kinds
  <1>6. LNet = [x \in Ends |-> LNet[x]]
    BY DEF LNet
  <1>7. LNet' = [LNet EXCEPT ![f] = left \cup {KindOfPacket(sent)}]
    BY <1>3, <1>5, <1>6
  <1> QED
    BY <1>4, <1>7

LEMMA NetUntouched ==
    ASSUME DOMAIN net = Ends, NEW f \in Ends, NEW n,
           net' = [net EXCEPT ![f] = Carry(@, {}, n)]
    PROVE  LNet' = LNet
  <1>1. \A x \in Ends : net'[x] = net[x]
    BY DEF Carry
  <1> QED
    BY <1>1 DEF LNet

LEMMA LifeTimesOut ==
    ASSUME NEW e \in Ends, e \in born, due[e],
           NEW state, NEW event, TimesOut(conn[e], state, event),
           due' = [due EXCEPT ![e] = FALSE],
           LState' = [LState EXCEPT ![e] = state], LRecv' = LRecv,
           LSend' = LSend, LLog' = Longer(LLog, e, event), LNet' = LNet
    PROVE  Life!TimeOut(e)
  <1> DEFINE c == conn[e]
             long == LRecv[e] > DropThreshold
  <1>1. LState[e] = c.state /\ LRecv[e] = c.sinceRecv /\ LSend[e] = c.sinceSend
    BY DEF LState, LRecv, LSend
  <1>2. /\ \/ LState[e] = "Connecting" /\ LRecv[e] > InitThreshold
           \/ LState[e] = "Connected" /\ LRecv[e] > DropThreshold
           \/ LState[e] = "Connected" /\ LSend[e] > DropThreshold
           \/ LState[e] = "Closing" /\ LRecv[e] > ClosingThreshold
        /\ LState[e] \in {"Connecting", "Connected", "Closing"}
        /\ LState[e] = "Connecting" =>
              state = "FailedToConnect" /\ event = <<"FailedToConnect">>
        /\ LState[e] = "Closing" =>
              state = "Closed" /\ event = <<"Closed", FALSE>>
        /\ LState[e] = "Connected" =>
              state = "Lost" /\ event = IF long THEN <<"Lost", TRUE>>
                                        ELSE <<"Lost", FALSE>>
    BY <1>1 DEF TimesOut
  <1>3. CASE LState[e] = "Connecting"
    BY <1>2, <1>3
    DEF Life!TimeOut, Life!Sends, Life!Dropping, Life!TimedOut, Life!Enter, Longer,
        LState, LRecv, LSend, LLog, LNet
  <1>4. CASE LState[e] = "Closing"
    BY <1>2, <1>4
    DEF Life!TimeOut, Life!Sends, Life!Dropping, Life!TimedOut, Life!Enter, Longer,
        LState, LRecv, LSend, LLog, LNet
  <1>5. CASE LState[e] = "Connected" /\ long
    <2>1. (LRecv[e] > DropThreshold) = TRUE
      BY <1>5
    <2>2. event = <<"Lost", LRecv[e] > DropThreshold>> /\ state = "Lost"
      BY <1>2, <1>5, <2>1
    <2> QED
      BY <1>2, <1>5, <2>2
      DEF Life!TimeOut, Life!Sends, Life!Dropping, Life!TimedOut, Life!Enter, Longer,
          LState, LRecv, LSend, LLog, LNet
  <1>6. CASE LState[e] = "Connected" /\ ~long
    <2>1. (LRecv[e] > DropThreshold) = FALSE
      BY <1>6
    <2>2. event = <<"Lost", LRecv[e] > DropThreshold>> /\ state = "Lost"
      BY <1>2, <1>6, <2>1
    <2> QED
      BY <1>2, <1>6, <2>2
      DEF Life!TimeOut, Life!Sends, Life!Dropping, Life!TimedOut, Life!Enter, Longer,
          LState, LRecv, LSend, LLog, LNet
  <1> QED
    BY <1>2, <1>3, <1>4, <1>5, <1>6

LEMMA LifeFlushes ==
    ASSUME LifeInv, MessageInv', NoLookalike, NEW e \in Ends, NEW env \in Envs,
           Flush(e, env)
    PROVE  LifeInv' /\ Life!Next
  <1> DEFINE c == conn[e]
             f == Peer(e)
             r == SendPacket(c, env, count[e])
             n == count[e] + (IF r.conn.localSeq # c.localSeq THEN 1 ELSE 0)
             log == LifecycleEvents(c.events)
  <1>1. /\ conn' = [conn EXCEPT ![e] = r.conn] /\ due[e]
        /\ net' = [net EXCEPT ![f] = Carry(@, r.packet, n)]
        /\ due' = [due EXCEPT ![e] = FALSE] /\ born' = born /\ seen' = seen
    BY DEF Flush
  <1>2. /\ IsConnection(c) /\ IsList(c.events) /\ e \in born
        /\ DOMAIN net = Ends /\ count[e] \in Nat /\ f \in Ends
    BY <1>1, PeerOfPeer DEF LifeInv, MessageInv, LinkInv, LinkShape, Alive
  <1>3. env.sendOk \in BOOLEAN /\ MaxLag \in Nat /\ 1 <= MaxLag
    BY LinkAssumption, SeqAssumption
  <1>4. SendOutcome(r, c, count[e])
    BY <1>2, <1>3, SendLeads
  <1>5. /\ LState[e] = c.state /\ LRecv[e] = c.sinceRecv /\ LSend[e] = c.sinceSend
        /\ LState = [x \in Ends |-> LState[x]] /\ LRecv = [x \in Ends |-> LRecv[x]]
        /\ LSend = [x \in Ends |-> LSend[x]]
    BY <1>2 DEF LState, LRecv, LSend
  <1>6. born' = born \cup {e}
    BY <1>1, <1>2
  <1>7. NoLookalike => (c.state \in {"Connecting", "Connected"}
                           => HeaderOf(c) # ClosureHeader)
    BY DEF NoLookalike
  <1> HIDE DEF r, n, c, log
  <1>8. ASSUME NEW state, NEW event, TimesOut(c, state, event)
        PROVE  LifeInv' /\ Life!Next
    <2>1. r.conn = Moved(c, state, event) /\ r.packet = {}
      BY <1>4, <1>8 DEF SendOutcome
    <2>2. state \in States5 /\ event \in AboutEvents
      BY <1>8 DEF TimesOut, States5, TerminalStates, AboutEvents
    <2>3. Leads(r.conn, state, c.sinceRecv, c.sinceSend, Append(log, event))
      BY <1>2, <2>1, <2>2, MoveLeads DEF log
    <2>4. /\ LifeInv' /\ LState' = [LState EXCEPT ![e] = state]
          /\ LRecv' = [LRecv EXCEPT ![e] = c.sinceRecv]
          /\ LSend' = [LSend EXCEPT ![e] = c.sinceSend]
          /\ LLog' = Longer(LLog, e, event)
      BY <1>1, <1>6, <2>3, SpeakingStep DEF c, log
    <2>5. LRecv' = LRecv /\ LSend' = LSend
      BY <1>5, <2>4
    <2>6. LNet' = LNet
      BY <1>1, <1>2, <2>1, NetUntouched
    <2>7. Life!TimeOut(e)
      BY <1>1, <1>2, <1>8, <2>4, <2>5, <2>6, LifeTimesOut DEF c
    <2> QED
      BY <2>4, <2>7 DEF Life!Next, Life!Ends, Ends
  <1>9. ASSUME \A state, event : ~TimesOut(c, state, event)
        PROVE  ~Life!TimedOut(e)
    <2>1. /\ ~(c.state = "Connecting" /\ c.sinceRecv > InitThreshold)
          /\ ~(c.state = "Connected" /\ c.sinceRecv > DropThreshold)
          /\ ~(/\ c.state = "Connected" /\ ~(c.sinceRecv > DropThreshold)
               /\ c.sinceSend > DropThreshold)
          /\ ~(c.state = "Closing" /\ c.sinceRecv > ClosingThreshold)
      BY <1>9 DEF TimesOut
    <2>2. /\ ~(LState[e] = "Connecting" /\ LRecv[e] > InitThreshold)
          /\ ~(LState[e] = "Connected" /\ LRecv[e] > DropThreshold)
          /\ ~(LState[e] = "Connected" /\ LSend[e] > DropThreshold)
          /\ ~(LState[e] = "Closing" /\ LRecv[e] > ClosingThreshold)
      BY <1>5, <2>1
    <2> QED
      BY <2>2 DEF Life!TimedOut, LState, LRecv, LSend
  <1>10. ASSUME \A state, event : ~TimesOut(c, state, event), Goes(r, c, count[e])
         PROVE  LifeInv' /\ Life!Next
    <2>1. /\ c.state \in OpenStates
          /\ Leads(r.conn, c.state, c.sinceRecv, 0, log)
          /\ r.conn.localSeq # c.localSeq
      BY <1>10 DEF Goes, log
    <2>2. PICK p : /\ r.packet = {p} /\ p.id = count[e]
                   /\ c.state = "Closing" => IsClosure(p)
                   /\ c.state # "Closing" /\ HeaderOf(c) # ClosureHeader
                         => ~IsClosure(p)
      BY <1>10 DEF Goes
    <2>3. KindOfPacket(p) = IF LState[e] = "Closing" THEN "closure" ELSE "data"
      BY <1>5, <1>7, <2>1, <2>2 DEF KindOfPacket, OpenStates
    <2>4. p.id + MaxLag >= n
      BY <1>2, <1>3, <2>1, <2>2 DEF n
    <2>5. PICK left \in SUBSET LNet[f] :
             LNet' = [LNet EXCEPT ![f] = left \cup {KindOfPacket(p)}]
      BY <1>1, <1>2, <2>2, <2>4, NetAfterPacket
    <2>6. /\ LifeInv' /\ LState' = [LState EXCEPT ![e] = c.state]
          /\ LRecv' = [LRecv EXCEPT ![e] = c.sinceRecv]
          /\ LSend' = [LSend EXCEPT ![e] = 0] /\ LLog' = LLog
      BY <1>1, <1>6, <2>1, QuietStep DEF c, log
    <2>7. LRecv' = LRecv /\ LState' = LState /\ LState[e] \in OpenStates
      BY <1>5, <2>1, <2>6
    <2>8. ~Life!TimedOut(e)
      BY <1>9, <1>10
    <2>9. LNet' = [LNet EXCEPT ![f] =
                      left \cup {IF LState[e] = "Closing" THEN "closure"
                                 ELSE "data"}]
      BY <2>3, <2>5
    <2>10. Life!Peer(e) = f
      BY DEF Life!Peer, Peer
    <2>11. Life!Transmit(e)
      BY <1>1, <2>5, <2>6, <2>7, <2>8, <2>9, <2>10
      DEF Life!Transmit, Life!Sends, Life!OpenStates, OpenStates,
          LState, LRecv, LSend, LLog, LNet
    <2> QED
      BY <2>6, <2>11 DEF Life!Next, Life!Ends, Ends
  <1>11. ASSUME \A state, event : ~TimesOut(c, state, event), Stays(r, c)
         PROVE  LifeInv' /\ Life!Next
    <2>1. r.packet = {} /\ Leads(r.conn, c.state, c.sinceRecv, c.sinceSend, log)
      BY <1>11 DEF Stays, log
    <2>2. /\ LifeInv' /\ LState' = [LState EXCEPT ![e] = c.state]
          /\ LRecv' = [LRecv EXCEPT ![e] = c.sinceRecv]
          /\ LSend' = [LSend EXCEPT ![e] = c.sinceSend] /\ LLog' = LLog
      BY <1>1, <1>6, <2>1, QuietStep DEF c, log
    <2>3. LRecv' = LRecv /\ LState' = LState /\ LSend' = LSend
      BY <1>5, <2>2
    <2>4. LNet' = LNet
      BY <1>1, <1>2, <2>1, NetUntouched
    <2>5. ~Life!TimedOut(e)
      BY <1>9, <1>11
    <2>6. Life!Withhold(e)
      BY <1>1, <2>2, <2>3, <2>4, <2>5
      DEF Life!Withhold, Life!Sends, Life!Dropping, LState, LRecv, LSend, LLog, LNet
    <2> QED
      BY <2>2, <2>6 DEF Life!Next, Life!Ends, Ends
  <1>12. \/ \E state, event : TimesOut(c, state, event)
         \/ /\ \A state, event : ~TimesOut(c, state, event)
            /\ Goes(r, c, count[e]) \/ Stays(r, c)
    BY <1>4 DEF SendOutcome
  <1> QED
    BY <1>8, <1>10, <1>11, <1>12

\* Received messages do not show in the log.
LEMMA PendingLeads ==
    ASSUME NEW c, IsList(c.events), NEW S, c.queue.recvQueue \in Seq(S)
    PROVE  /\ IsList(PendingEvents(c))
           /\ LifecycleEvents(PendingEvents(c)) = LifecycleEvents(c.events)
  <1> DEFINE q == c.queue.recvQueue
             msgs == [i \in DOMAIN q |-> <<"Message", q[i].data>>]
             shown == {<<"Message", d>> : d \in {q[i].data : i \in DOMAIN q}}
  <1>1. PendingEvents(c) = c.events \o msgs
    BY DEF PendingEvents
  <1>2. q \in Seq(S)
    OBVIOUS
  <1>3. /\ \A i \in DOMAIN q : msgs[i] \in shown
        /\ DOMAIN msgs = DOMAIN q
    OBVIOUS
  <1>4. shown \cap AboutConnection = {}
    BY AboutIsAbout
  <1> HIDE DEF q, shown
  <1>5. DOMAIN q = 1..Len(q) /\ Len(q) \in Nat
    BY <1>2
  <1>6. msgs = [i \in 1..Len(q) |-> msgs[i]]
    BY <1>5
  <1> HIDE DEF msgs
  <1>7. msgs \in Seq(shown) /\ ToSet(msgs) \subseteq shown
    BY <1>3, <1>5, <1>6, IsASeq DEF ToSet
  <1>8. IsList(msgs) /\ ToSet(msgs) \cap AboutConnection = {}
    BY <1>4, <1>7 DEF IsList
  <1>9. /\ IsList(c.events \o msgs)
        /\ LifecycleEvents(c.events \o msgs) = LifecycleEvents(c.events)
    BY <1>8, OtherEvents
  <1> QED
    BY <1>1, <1>9

LEMMA LifePolls ==
    ASSUME LifeInv, MessageInv', NEW e \in Ends, e \in born, Poll(e)
    PROVE  LifeInv' /\ UNCHANGED Life!lifeVars
  <1> DEFINE c == conn[e]
             log == LifecycleEvents(c.events)
             told == seen[e] \o log
             new == Drained(c)
             none == <<>>
  <1>1. /\ IsConnection(c) /\ IsList(c.events) /\ IsList(seen[e])
        /\ seen = [x \in Ends |-> seen[x]] /\ Loaded(c)
    BY DEF LifeInv, MessageInv, LinkInv, LinkShape, Alive
  <1>2. LifecycleEvents(PendingEvents(c)) = log
    BY <1>1, PendingLeads DEF Loaded, QueuesOf
  <1>3. /\ conn' = [conn EXCEPT ![e] = new] /\ seen' = [seen EXCEPT ![e] = told]
        /\ born' = born \cup {e} /\ due' = due /\ net' = net
    BY <1>2 DEF Poll
  <1>4. Leads(new, c.state, c.sinceRecv, c.sinceSend, none)
    BY <1>1, CallsLead
  <1>5. /\ LState[e] = c.state /\ LRecv[e] = c.sinceRecv /\ LSend[e] = c.sinceSend
        /\ LState = [x \in Ends |-> LState[x]] /\ LRecv = [x \in Ends |-> LRecv[x]]
        /\ LSend = [x \in Ends |-> LSend[x]] /\ LLog = [x \in Ends |-> LLog[x]]
        /\ LLog[e] = told
    BY DEF LState, LRecv, LSend, LLog
  <1> HIDE DEF none, new, c
  <1>6. IsList(told) /\ told \o none = told
    <2>1. PICK S, T : seen[e] \in Seq(S) /\ log \in Seq(T)
      BY <1>1, LifecycleIsList DEF IsList
    <2> DEFINE U == S \cup T
    <2>2. seen[e] \in Seq(U) /\ log \in Seq(U)
      BY <2>1
    <2> HIDE DEF U, log
    <2>3. told \in Seq(U)
      BY <2>2
    <2> HIDE DEF told
    <2> QED
      BY <2>3, ConcatEmptySeq DEF IsList, none
  <1> HIDE DEF told
  <1>7. Joined(told, none) = told
    BY <1>6 DEF Joined
  <1>8. Sets(seen', seen, e, told)
    BY <1>3 DEF Sets
  <1>9. /\ LifeInv' /\ LState' = [LState EXCEPT ![e] = c.state]
        /\ LRecv' = [LRecv EXCEPT ![e] = c.sinceRecv]
        /\ LSend' = [LSend EXCEPT ![e] = c.sinceSend]
        /\ Sets(LLog', LLog, e, Joined(told, none))
    BY <1>3, <1>4, <1>6, <1>8, EndStep
  <1>10. LState' = LState /\ LRecv' = LRecv /\ LSend' = LSend
    BY <1>5, <1>9
  <1>11. LLog' = LLog
    BY <1>5, <1>7, <1>9 DEF Sets
  <1>12. LNet' = LNet
    BY <1>3 DEF LNet
  <1> QED
    BY <1>3, <1>9, <1>10, <1>11, <1>12
    DEF Life!lifeVars, LState, LRecv, LSend, LLog, LNet

LEMMA LifePosts ==
    ASSUME LifeInv, MessageInv', NEW m \in Script, Post(m)
    PROVE  LifeInv' /\ UNCHANGED Life!lifeVars
  <1> DEFINE e == m.from
             c == conn[e]
             new == SendMessage(c, m.kind, m.data, m.len)
  <1>1. /\ conn' = [conn EXCEPT ![e] = new] /\ seen' = seen /\ e \in born
        /\ born' = born /\ due' = due /\ net' = net
    BY DEF Post
  <1>2. e \in Ends /\ IsConnection(c) /\ IsList(c.events)
    BY LinkAssumption DEF LifeInv, MessageInv, LinkInv, LinkShape, Alive
  <1>3. Leads(new, c.state, c.sinceRecv, c.sinceSend, LifecycleEvents(c.events))
    BY <1>2, CallsLead
  <1>4. /\ LState[e] = c.state /\ LRecv[e] = c.sinceRecv /\ LSend[e] = c.sinceSend
        /\ LState = [x \in Ends |-> LState[x]] /\ LRecv = [x \in Ends |-> LRecv[x]]
        /\ LSend = [x \in Ends |-> LSend[x]]
    BY <1>1, <1>2 DEF LState, LRecv, LSend
  <1>5. born' = born \cup {e}
    BY <1>1
  <1> HIDE DEF new, e
  <1>6. /\ LifeInv' /\ LState' = [LState EXCEPT ![e] = c.state]
        /\ LRecv' = [LRecv EXCEPT ![e] = c.sinceRecv]
        /\ LSend' = [LSend EXCEPT ![e] = c.sinceSend] /\ LLog' = LLog
    BY <1>1, <1>2, <1>3, <1>5, QuietStep
  <1>7. LState' = LState /\ LRecv' = LRecv /\ LSend' = LSend /\ LNet' = LNet
    BY <1>1, <1>4, <1>6 DEF LNet
  <1> QED
    BY <1>1, <1>6, <1>7 DEF Life!lifeVars, LState, LRecv, LSend, LLog, LNet

LEMMA LifeCloses ==
    ASSUME LifeInv, MessageInv', NEW e \in Ends, CloseEnd(e)
    PROVE  LifeInv' /\ Life!Next
  <1> DEFINE c == conn[e]
             new == Close(c)
  <1>1. /\ conn' = [conn EXCEPT ![e] = new] /\ seen' = seen /\ e \in born
        /\ born' = born /\ due' = due /\ net' = net
        /\ e \in Closers /\ c.state \in {"Connecting", "Connected"}
    BY DEF CloseEnd
  <1>2. IsConnection(c) /\ IsList(c.events)
    BY DEF LifeInv, MessageInv, LinkInv, LinkShape, Alive
  <1>3. Leads(new, "Closing", c.sinceRecv, c.sinceSend, LifecycleEvents(c.events))
    BY <1>2, CallsLead
  <1>4. /\ LState[e] = c.state /\ LRecv[e] = c.sinceRecv /\ LSend[e] = c.sinceSend
        /\ LRecv = [x \in Ends |-> LRecv[x]] /\ LSend = [x \in Ends |-> LSend[x]]
    BY <1>1, <1>2 DEF LState, LRecv, LSend
  <1>5. born' = born \cup {e}
    BY <1>1
  <1> HIDE DEF new
  <1>6. /\ LifeInv' /\ LState' = [LState EXCEPT ![e] = "Closing"]
        /\ LRecv' = [LRecv EXCEPT ![e] = c.sinceRecv]
        /\ LSend' = [LSend EXCEPT ![e] = c.sinceSend] /\ LLog' = LLog
    BY <1>1, <1>2, <1>3, <1>5, QuietStep
  <1>7. LRecv' = LRecv /\ LSend' = LSend /\ LNet' = LNet
    BY <1>1, <1>4, <1>6 DEF LNet
  <1>8. Life!Close(e)
    BY <1>1, <1>4, <1>6, <1>7 DEF Life!Close, LState, LRecv, LSend, LLog, LNet
  <1> QED
    BY <1>6, <1>8 DEF Life!Next, Life!Ends, Ends

LEMMA SameLongest == LongestThreshold = Life!LongestThreshold
  <1> DEFINE S == {InitThreshold, DropThreshold, ClosingThreshold}
             m == Life!LongestThreshold
  <1>1. /\ InitThreshold \in Nat /\ DropThreshold \in Nat
        /\ ClosingThreshold \in Nat
    BY ThresholdAssumption
  <1>2. m \in S /\ \A x \in S : m >= x
    BY <1>1 DEF Life!LongestThreshold
  <1>3. \A x \in S : (\A y \in S : x >= y) => x = m
    BY <1>1, <1>2
  <1>4. LongestThreshold = CHOOSE x \in S : \A y \in S : x >= y
    BY DEF LongestThreshold, Max
  <1> HIDE DEF S, m
  <1> QED
    BY <1>2, <1>3, <1>4 DEF m

LEMMA LifeTicks ==
    ASSUME LifeInv, MessageInv', Tick
    PROVE  LifeInv' /\ Life!Next
  <1> DEFINE Aging(x) == IF x \in born THEN Elapse(conn[x]) ELSE conn[x]
  <1>1. /\ conn' = [x \in Ends |-> Aging(x)] /\ due' = [x \in Ends |-> x \in born]
        /\ seen' = seen /\ born' = born /\ net' = net /\ \A x \in Ends : ~due[x]
    BY DEF Tick
  <1>2. /\ DOMAIN conn = Ends /\ seen = [x \in Ends |-> seen[x]]
        /\ \A x \in Ends : Alive(x) /\ IsConnection(conn[x])
    BY DEF LifeInv, MessageInv, LinkInv, LinkShape
  <1>3. DOMAIN conn' = Ends /\ \A x \in Ends : conn'[x] = Aging(x)
    BY <1>1
  <1>4. ASSUME NEW x \in Ends
        PROVE  /\ Alive(x)' /\ LState'[x] = LState[x] /\ LLog'[x] = LLog[x]
               /\ LRecv'[x] = IF LState[x] = "None" THEN 0
                              ELSE Older(LRecv[x], LongestThreshold)
               /\ LSend'[x] = IF LState[x] = "None" THEN 0
                              ELSE Older(LSend[x], DropThreshold)
               /\ LState[x] # "Gone" /\ (LState[x] # "None" <=> x \in born)
    <2> DEFINE c == conn[x]
    <2>1. Alive(x) /\ IsConnection(c)
      BY <1>2
    <2>2. c.state \notin {"None", "Gone"}
      BY <2>1 DEF IsConnection, States5, OpenStates, TerminalStates
    <2>3. /\ LState[x] = IF x \in born THEN c.state ELSE "None"
          /\ LRecv[x] = c.sinceRecv /\ LSend[x] = c.sinceSend
      BY DEF LState, LRecv, LSend
    <2>4. CASE x \in born
      <3>1. Leads(conn'[x], c.state, Older(c.sinceRecv, LongestThreshold),
                  Older(c.sinceSend, DropThreshold), LifecycleEvents(c.events))
        BY <1>3, <2>1, <2>4, ElapseLeads DEF Alive
      <3> DEFINE now == conn'[x]
      <3>2. /\ now.state = c.state /\ IsList(now.events)
            /\ now.sinceRecv = Older(c.sinceRecv, LongestThreshold)
            /\ now.sinceSend = Older(c.sinceSend, DropThreshold)
            /\ LifecycleEvents(now.events) = LifecycleEvents(c.events)
        BY <3>1 DEF Leads
      <3>3. Alive(x)'
        BY <1>1, <2>1, <2>4, <3>2 DEF Alive
      <3>4. LState'[x] = c.state
        BY <1>1, <2>4, <3>2 DEF LState
      <3>5. LLog'[x] = LLog[x]
        BY <1>1, <3>2 DEF LLog
      <3>6. /\ LRecv'[x] = Older(c.sinceRecv, LongestThreshold)
            /\ LSend'[x] = Older(c.sinceSend, DropThreshold)
        BY <3>2 DEF LRecv, LSend
      <3> QED
        BY <2>2, <2>3, <2>4, <3>3, <3>4, <3>5, <3>6
    <2>5. CASE x \notin born
      <3>1. conn'[x] = c /\ x \notin born'
        BY <1>1, <1>3, <2>5
      <3>2. c.sinceRecv = 0 /\ c.sinceSend = 0
        BY <2>1, <2>5 DEF Alive
      <3>3. Alive(x)'
        BY <1>1, <2>1, <2>5, <3>1 DEF Alive
      <3>4. LState'[x] = "None" /\ LLog'[x] = LLog[x] /\ LRecv'[x] = 0 /\ LSend'[x] = 0
        BY <1>1, <3>1, <3>2 DEF LState, LLog, LRecv, LSend
      <3> QED
        BY <2>2, <2>3, <2>5, <3>3, <3>4
    <2> QED
      BY <2>4, <2>5
  <1> HIDE DEF Aging
  <1>5. LifeInv'
    BY <1>1, <1>2, <1>3, <1>4 DEF LifeInv
  <1>6. LState' = LState /\ LLog' = LLog /\ LNet' = LNet
    <2>1. /\ LState = [x \in Ends |-> LState[x]] /\ LState' = [x \in Ends |-> LState'[x]]
          /\ LLog = [x \in Ends |-> LLog[x]] /\ LLog' = [x \in Ends |-> LLog'[x]]
      BY DEF LState, LLog
    <2>2. LState' = LState
      BY <1>4, <2>1
    <2>3. LLog' = LLog
      BY <1>4, <2>1
    <2> QED
      BY <1>1, <2>2, <2>3 DEF LNet
  <1>7. LRecv' = [x \in Ends |-> IF LState[x] = "None" THEN 0
                                 ELSE Older(LRecv[x], LongestThreshold)]
    <2>1. LRecv' = [x \in Ends |-> LRecv'[x]]
      BY DEF LRecv
    <2> QED
      BY <1>4, <2>1
  <1>8. LSend' = [x \in Ends |-> IF LState[x] = "None" THEN 0
                                 ELSE Older(LSend[x], DropThreshold)]
    <2>1. LSend' = [x \in Ends |-> LSend'[x]]
      BY DEF LSend
    <2> QED
      BY <1>4, <2>1
  <1>9. due' = [x \in Ends |-> LState[x] \notin {"None", "Gone"}]
    BY <1>1, <1>4
  <1>10. Life!Ends = Ends
    BY DEF Life!Ends, Ends
  <1>11. \A age, threshold : Life!Older(age, threshold) = Older(age, threshold)
    BY DEF Life!Older, Older
  <1>12. /\ LRecv' = [x \in Life!Ends |-> IF LState[x] = "None" THEN 0
                                 ELSE Life!Older(LRecv[x], Life!LongestThreshold)]
         /\ LSend' = [x \in Life!Ends |-> IF LState[x] = "None" THEN 0
                                 ELSE Life!Older(LSend[x], DropThreshold)]
    BY <1>7, <1>8, <1>10, <1>11, SameLongest
  <1>13. Life!Tick
    BY <1>1, <1>6, <1>9, <1>10, <1>12
    DEF Life!Tick, LState, LRecv, LSend, LLog, LNet
  <1> QED
    BY <1>5, <1>13 DEF Life!Next

LEMMA InitLife == Init => LifeInv /\ Life!Init
  <1> SUFFICES ASSUME Init PROVE LifeInv /\ Life!Init
    OBVIOUS
  <1> DEFINE c == NewConnection
             none == <<>>
  <1>1. /\ conn = [e \in Ends |-> c] /\ seen = [e \in Ends |-> none]
        /\ born = {"initiator"} /\ net = [e \in Ends |-> {}]
        /\ due = [e \in Ends |-> e = "initiator"]
    BY DEF Init
  <1>2. /\ c.state = "Connecting" /\ c.sinceRecv = 0 /\ c.sinceSend = 0
        /\ c.events = none /\ c.queue.recvQueue = none
    BY DEF NewConnection, NewQueue
  <1>3. IsList(none) /\ LifecycleEvents(none) = none /\ none \o none = none
    BY EmptyIsList
  <1>4. PendingEvents(c) = <<>>
    <2>1. PendingEvents(c) = none \o [i \in DOMAIN none |-> <<"Message", none[i].data>>]
      BY <1>2 DEF PendingEvents
    <2>2. [i \in DOMAIN none |-> <<"Message", none[i].data>>] = <<>>
      OBVIOUS
    <2> QED
      BY <1>3, <2>1, <2>2
  <1> HIDE DEF c
  <1>5. LifeInv
    <2> HIDE DEF none
    <2>1. \A e \in Ends : Alive(e)
      BY <1>1, <1>2, <1>3, <1>4 DEF Alive
    <2> QED
      BY <1>1, <2>1, InitMessageInv DEF LifeInv
  <1>6. /\ LState = [e \in Ends |-> IF e = "initiator" THEN "Connecting" ELSE "None"]
        /\ LRecv = [e \in Ends |-> 0] /\ LSend = [e \in Ends |-> 0]
        /\ LNet = [e \in Ends |-> {}]
    BY <1>1, <1>2 DEF LState, LRecv, LSend, LNet
  <1>7. LLog = [e \in Ends |-> <<>>]
    <2> HIDE DEF none
    <2>1. \A e \in Ends : seen[e] = none /\ conn[e].events = none
      BY <1>1, <1>2
    <2>2. \A e \in Ends : seen[e] \o LifecycleEvents(conn[e].events) = none
      BY <1>3, <2>1
    <2>3. LLog = [e \in Ends |-> none]
      BY <2>2 DEF LLog
    <2> QED
      BY <2>3 DEF none
  <1>8. Life!Ends = Ends
    BY DEF Life!Ends, Ends
  <1>9. Life!Init
    BY <1>1, <1>6, <1>7, <1>8 DEF Life!Init, LState, LRecv, LSend, LLog, LNet
  <1> QED
    BY <1>5, <1>9

LEMMA LifeStep ==
    ASSUME ~Scrambles, LifeInv, NoLookalike, [Next]_vars
    PROVE  LifeInv' /\ [Life!Next]_(Life!lifeVars)
  <1>1. MessageInv'
    BY MessageStep DEF LifeInv
  <1>2. ASSUME NEW e \in Ends, NEW p \in net[e], Arrive(e, p)
        PROVE  LifeInv' /\ [Life!Next]_(Life!lifeVars)
    BY <1>1, <1>2, LifeArrives
  <1>3. ASSUME NEW e \in Ends, NEW env \in Envs, Flush(e, env)
        PROVE  LifeInv' /\ [Life!Next]_(Life!lifeVars)
    BY <1>1, <1>3, LifeFlushes
  <1>4. ASSUME NEW e \in Ends, Poll(e)
        PROVE  LifeInv' /\ [Life!Next]_(Life!lifeVars)
    <2>1. e \in born
      BY <1>4 DEF Poll, LifeInv, Alive
    <2> QED
      BY <1>1, <1>4, <2>1, LifePolls
  <1>5. ASSUME NEW e \in Ends, CloseEnd(e)
        PROVE  LifeInv' /\ [Life!Next]_(Life!lifeVars)
    BY <1>1, <1>5, LifeCloses
  <1>6. ASSUME NEW m \in Script, Post(m)
        PROVE  LifeInv' /\ [Life!Next]_(Life!lifeVars)
    BY <1>1, <1>6, LifePosts
  <1>7. ASSUME Tick PROVE LifeInv' /\ [Life!Next]_(Life!lifeVars)
    BY <1>1, <1>7, LifeTicks
  <1>8. ASSUME UNCHANGED vars PROVE LifeInv' /\ [Life!Next]_(Life!lifeVars)
    <2>1. /\ conn' = conn /\ born' = born /\ seen' = seen /\ net' = net
          /\ due' = due
      BY <1>8 DEF vars
    <2>2. LifeInv'
      BY <1>1, <2>1 DEF LifeInv, Alive
    <2>3. /\ LState' = LState /\ LRecv' = LRecv /\ LSend' = LSend
          /\ LLog' = LLog /\ LNet' = LNet
      BY <2>1 DEF LState, LRecv, LSend, LLog, LNet
    <2> QED
      BY <2>1, <2>2, <2>3 DEF Life!lifeVars, LState, LRecv, LSend, LLog, LNet
  <1> QED
    BY <1>2, <1>3, <1>4, <1>5, <1>6, <1>7, <1>8 DEF Next

\* Two connections that exchange packets, however those are lost, repeated,
\* delayed and reordered, live the lives that module ConnectionLifecycle
\* describes: connection.rs adds no state, event or time-out to it.  There is
\* one exception, a data packet with the numbers of a closure packet.
THEOREM ImplementsLifecycle ==
    ASSUME ~Scrambles
    PROVE  Spec /\ []NoLookalike => LifecycleSpec
  <1>1. Init => LifeInv /\ Life!Init
    BY InitLife
  <1>2. LifeInv /\ NoLookalike /\ [Next]_vars
           => LifeInv' /\ [Life!Next]_(Life!lifeVars)
    BY LifeStep
  <1> QED
    BY <1>1, <1>2, PTL DEF Spec, LifecycleSpec, Life!Spec

\* As long as no end has sent half of the numbers.
Half == MaxSeqNumber \div 2

Early ==
    /\ LifeInv
    /\ \A e \in Ends : /\ count[e] <= Half /\ conn[e].remoteSeq < Half
                      /\ \A p \in net[e] : p.seq < Half

LEMMA EarlyFacts ==
    ASSUME Early, NEW e \in Ends
    PROVE  /\ conn[e].localSeq = count[e] /\ count[e] \in Nat /\ Half \in Nat
           /\ HeaderOf(conn[e]) # ClosureHeader
  <1>1. MaxSeqNumber \in Nat /\ 2 <= MaxSeqNumber
    BY SeqAssumption
  <1>2. Half \in Nat /\ 1 <= Half /\ Half < MaxSeqNumber
    BY <1>1 DEF Half
  <1>3. LinkInv /\ \A x \in Ends : count[x] \in Nat /\ count[x] <= Half
    BY DEF Early, LifeInv, MessageInv, LinkInv, LinkShape
  <1>4. NoNumberTwice
    BY <1>1, <1>2, <1>3 DEF NoNumberTwice
  <1>5. Numbered(e)
    BY <1>3, <1>4 DEF LinkInv
  <1>6. conn[e].localSeq = count[e]
    BY <1>1, <1>2, <1>3, <1>5 DEF Numbered
  <1>7. HeaderOf(conn[e]).ack < Half /\ ClosureHeader.ack = Half
    BY DEF Early, HeaderOf, ClosureHeader, Half
  <1> QED
    BY <1>2, <1>3, <1>6, <1>7

LEMMA EarlyStep ==
    ASSUME ~Scrambles, \A e \in Ends : MaxPackets[e] <= Half, Early, [Next]_vars
    PROVE  Early'
  <1>1. NoLookalike /\ LifeInv /\ LinkInv /\ DOMAIN conn = Ends /\ DOMAIN net = Ends
    BY EarlyFacts
    DEF NoLookalike, Early, LifeInv, MessageInv, LinkInv, LinkShape
  <1>2. LifeInv'
    BY <1>1, LifeStep
  <1>3. ASSUME UNCHANGED <<count, net>>,
               \A e \in Ends : conn'[e].remoteSeq = conn[e].remoteSeq
        PROVE  Early'
    BY <1>2, <1>3 DEF Early
  <1>4. \A e \in Ends : IsConnection(conn[e])
    BY <1>1 DEF LinkInv, LinkShape
  <1>5. ASSUME NEW e \in Ends, NEW p \in net[e], Arrive(e, p) PROVE Early'
    <2> DEFINE new == ReceivePacket(conn[e], p)
    <2>1. conn' = [conn EXCEPT ![e] = new] /\ net' = net /\ count' = count
      BY <1>5 DEF Arrive
    <2>2. p.seq \in SeqNumbers
      BY <1>1, <1>5, PeerOfPeer DEF LinkInv
    <2>3. new.remoteSeq \in {p.seq, conn[e].remoteSeq}
      BY <1>4, <2>2, ReceiveEffect
    <2> HIDE DEF new
    <2>4. p.seq < Half /\ conn[e].remoteSeq < Half
      BY DEF Early
    <2>5. \A x \in Ends : conn'[x].remoteSeq < Half
      BY <1>1, <2>1, <2>3, <2>4 DEF Early
    <2> QED
      BY <1>2, <2>1, <2>5 DEF Early, Half
  <1>6. ASSUME NEW e \in Ends, NEW env \in Envs, Flush(e, env) PROVE Early'
    <2> DEFINE c == conn[e]
               f == Peer(e)
               r == SendPacket(c, env, count[e])
               n == count[e] + (IF r.conn.localSeq # c.localSeq THEN 1 ELSE 0)
    <2>1. /\ conn' = [conn EXCEPT ![e] = r.conn] /\ n <= MaxPackets[e]
          /\ count' = [count EXCEPT ![e] = n]
          /\ net' = [net EXCEPT ![f] = Carry(@, r.packet, n)]
      BY <1>6 DEF Flush
    <2>2. /\ r.conn.remoteSeq = c.remoteSeq
          /\ \/ r.packet = {}
             \/ Sends(c, r, env, count[e])
      BY <1>4, SendEffect
    <2>3. IsList(c.events) /\ env.sendOk \in BOOLEAN /\ MaxPackets[e] \in Nat
      BY <1>1, LinkAssumption DEF LifeInv, Alive
    <2>4. SendOutcome(r, c, count[e])
      BY <1>4, <2>3, SendLeads
    <2>5. c.localSeq = count[e] /\ count[e] \in Nat /\ Half \in Nat /\ c.localSeq \in Nat
      BY EarlyFacts
    <2>6. n \in Nat /\ n <= Half
      BY <2>1, <2>3, <2>5
    <2>7. f \in Ends /\ count \in [Ends -> Nat]
      BY <1>1, PeerOfPeer DEF LinkInv, LinkShape
    <2> HIDE DEF c, f, r
    <2>8. ASSUME NEW p \in r.packet PROVE p.seq < Half
      <3>1. Sends(c, r, env, count[e])
        BY <2>2, <2>8
      <3>2. c.state \in OpenStates /\ n = count[e] + 1
        BY <2>5, <3>1, SuccessorDiffers, <1>4 DEF Sends, IsConnection, c
      <3>3. CASE c.state = "Closing"
        <4>1. \A state, event : ~TimesOut(c, state, event)
          BY <2>4, <2>8 DEF SendOutcome
        <4>2. Goes(r, c, count[e])
          BY <2>4, <2>8, <4>1 DEF SendOutcome, Stays
        <4>3. IsClosure(p)
          BY <2>8, <3>3, <4>2 DEF Goes
        <4>4. p.seq = 0
          BY <4>3 DEF IsClosure, ClosureHeader
        <4> QED
          BY <2>5, <2>6, <3>2, <4>4
      <3>4. CASE c.state # "Closing"
        <4>1. ~Closes(c)
          BY <3>2, <3>4 DEF Closes, OpenStates
        <4>2. p.seq = c.localSeq
          BY <2>8, <3>1, <4>1 DEF Sends
        <4> QED
          BY <2>5, <2>6, <3>2, <4>2
      <3> QED
        BY <3>3, <3>4
    <2> HIDE DEF n
    <2>9. net'[f] \subseteq net[f] \cup r.packet
          /\ \A x \in Ends : x # f => net'[x] = net[x]
      BY <1>1, <2>1 DEF Carry
    <2>10. \A x \in Ends : \A p \in net'[x] : p.seq < Half
      BY <2>7, <2>8, <2>9 DEF Early
    <2>11. \A x \in Ends : count'[x] <= Half
      BY <2>1, <2>6, <2>7 DEF Early
    <2>12. \A x \in Ends : conn'[x].remoteSeq < Half
      BY <1>1, <2>1, <2>2 DEF Early, c
    <2> QED
      BY <1>2, <2>10, <2>11, <2>12 DEF Early, Half
  <1>7. ASSUME NEW e \in Ends, Poll(e) PROVE Early'
    <2> DEFINE new == Drained(conn[e])
    <2>1. conn' = [conn EXCEPT ![e] = new] /\ net' = net /\ count' = count
      BY <1>7 DEF Poll
    <2>2. new.remoteSeq = conn[e].remoteSeq
      BY <1>4, ApplicationCalls DEF Spares
    <2> HIDE DEF new
    <2> QED
      BY <1>1, <1>3, <2>1, <2>2
  <1>8. ASSUME NEW e \in Ends, CloseEnd(e) PROVE Early'
    <2> DEFINE new == Close(conn[e])
    <2>1. conn' = [conn EXCEPT ![e] = new] /\ net' = net /\ count' = count
      BY <1>8 DEF CloseEnd
    <2>2. new.remoteSeq = conn[e].remoteSeq
      BY <1>4, ApplicationCalls DEF Spares
    <2> HIDE DEF new
    <2> QED
      BY <1>1, <1>3, <2>1, <2>2
  <1>9. ASSUME NEW m \in Script, Post(m) PROVE Early'
    <2> DEFINE e == m.from
               new == SendMessage(conn[e], m.kind, m.data, m.len)
    <2>1. /\ conn' = [conn EXCEPT ![e] = new] /\ net' = net /\ count' = count
          /\ e \in Ends
      BY <1>9, LinkAssumption DEF Post
    <2>2. new.remoteSeq = conn[e].remoteSeq
      BY <1>4, <2>1, ApplicationCalls DEF Spares
    <2> HIDE DEF new
    <2> QED
      BY <1>1, <1>3, <2>1, <2>2
  <1>10. ASSUME Tick PROVE Early'
    <2>1. /\ net' = net /\ count' = count
          /\ \A e \in Ends : conn'[e] = IF e \in born THEN Elapse(conn[e])
                                        ELSE conn[e]
      BY <1>10 DEF Tick
    <2>2. \A e \in Ends : Elapse(conn[e]).remoteSeq = conn[e].remoteSeq
      BY <1>4, ElapseSpares DEF Spares
    <2> QED
      BY <1>3, <2>1, <2>2
  <1>11. ASSUME UNCHANGED vars PROVE Early'
    BY <1>3, <1>11 DEF vars
  <1> QED
    BY <1>5, <1>6, <1>7, <1>8, <1>9, <1>10, <1>11 DEF Next

\* The exception takes half a round of sequence numbers: before that no data
\* packet passes for a closure packet (connection.rs l.33-36).
THEOREM NoLookalikeAtFirst ==
    ASSUME ~Scrambles, \A e \in Ends : MaxPackets[e] <= MaxSeqNumber \div 2
    PROVE  Spec => []NoLookalike
  <1>1. Init => Early
    <2> SUFFICES ASSUME Init PROVE Early
      OBVIOUS
    <2>1. Half \in Nat /\ 1 <= Half
      BY SeqAssumption DEF Half
    <2>2. /\ \A e \in Ends : count[e] = 0 /\ conn[e] = NewConnection /\ net[e] = {}
      BY DEF Init
    <2>3. NewConnection.remoteSeq = 0
      BY DEF NewConnection
    <2> QED
      BY <2>1, <2>2, <2>3, InitLife DEF Early
  <1>2. Early /\ [Next]_vars => Early'
    BY EarlyStep DEF Half
  <1>3. Early => NoLookalike
    BY EarlyFacts DEF NoLookalike
  <1> QED
    BY <1>1, <1>2, <1>3, PTL DEF Spec

\* What is proved of ConnectionLifecycle holds of the two connections.
LifeTheorems == INSTANCE ConnectionLifecycleProofs WITH
    CloseAnytime <- FALSE, Forgets <- FALSE, dropped <- {},
    state <- [e \in Ends |-> IF e \in born THEN conn[e].state ELSE "None"],
    sinceRecv <- [e \in Ends |-> conn[e].sinceRecv],
    sinceSend <- [e \in Ends |-> conn[e].sinceSend],
    log <- [e \in Ends |-> seen[e] \o LifecycleEvents(conn[e].events)],
    net <- [e \in Ends |-> {KindOfPacket(p) : p \in net[e]}]

LEMMA SameLife ==
    /\ Life!Init <=> LifeTheorems!Init
    /\ [Life!Next]_(Life!lifeVars) <=> [LifeTheorems!Next]_(LifeTheorems!lifeVars)
  BY DEF
      Life!Init, Life!Next, Life!lifeVars, Life!Ends, Life!Kinds, Life!Peer,
      Life!OpenStates, Life!TerminalStates, Life!Enter, Life!Establish,
      Life!ClosedByRemote, Life!Accept, Life!TimedOut, Life!TimeOut,
      Life!Transmit, Life!Withhold, Life!Forget, Life!Sends, Life!Dropping,
      Life!Close, Life!Die, Life!Lose,
      Life!LongestThreshold, Life!Older, Life!Tick,
      LifeTheorems!Init, LifeTheorems!Next, LifeTheorems!lifeVars,
      LifeTheorems!Ends, LifeTheorems!Kinds, LifeTheorems!Peer,
      LifeTheorems!OpenStates, LifeTheorems!TerminalStates,
      LifeTheorems!Enter, LifeTheorems!Establish,
      LifeTheorems!ClosedByRemote, LifeTheorems!Accept,
      LifeTheorems!TimedOut, LifeTheorems!TimeOut, LifeTheorems!Transmit,
      LifeTheorems!Withhold, LifeTheorems!Forget, LifeTheorems!Sends,
      LifeTheorems!Dropping, LifeTheorems!Close, LifeTheorems!Die,
      LifeTheorems!Lose, LifeTheorems!LongestThreshold, LifeTheorems!Older,
      LifeTheorems!Tick

\* The other application called close() whenever a connection is reported
\* closed by it (connection.rs l.682): neither a lost nor a delayed packet looks
\* like that, but for the one exception.
THEOREM ClosureIsTrue ==
    ASSUME ~Scrambles
    PROVE  Spec /\ []NoLookalike => []NoFalseClosure
  <1>1. /\ InitThreshold \in Nat /\ DropThreshold \in Nat
        /\ ClosingThreshold \in Nat
        /\ Closers \subseteq LifeTheorems!Ends
        /\ FALSE \in BOOLEAN
    BY ThresholdAssumption, LinkAssumption DEF LifeTheorems!Ends, Ends
  <1>2. LifeTheorems!Init /\ [][LifeTheorems!Next]_(LifeTheorems!lifeVars)
           => []LifeTheorems!ClosedMeansPeerClosed
    BY <1>1, LifeTheorems!ClosedOnlyByPeer, PTL DEF LifeTheorems!Spec
  <1>3. LifeTheorems!ClosedMeansPeerClosed => NoFalseClosure
    BY DEF NoFalseClosure, LifeTheorems!ClosedMeansPeerClosed, LifeTheorems!Ends,
           LifeTheorems!Peer, Life!ClosedMeansPeerClosed, Life!Ends, Life!Peer
  <1> QED
    BY ImplementsLifecycle, SameLife, <1>2, <1>3, PTL DEF LifecycleSpec, Life!Spec

\* The life-cycle events an application has got and those that wait for it tell
\* it, in order, the state its connection is in (connection.rs l.664-737).
THEOREM EventsTellState ==
    ASSUME ~Scrambles
    PROVE  Spec /\ []NoLookalike => []Life!LogMatchesState
  <1>1. /\ InitThreshold \in Nat /\ DropThreshold \in Nat
        /\ ClosingThreshold \in Nat
        /\ Closers \subseteq LifeTheorems!Ends
        /\ FALSE \in BOOLEAN
    BY ThresholdAssumption, LinkAssumption DEF LifeTheorems!Ends, Ends
  <1>2. LifeTheorems!Init /\ [][LifeTheorems!Next]_(LifeTheorems!lifeVars)
           => []LifeTheorems!LogMatchesState
    BY <1>1, LifeTheorems!LogsMatchStates, PTL DEF LifeTheorems!Spec
  <1>3. LifeTheorems!LogMatchesState => Life!LogMatchesState
    BY DEF LifeTheorems!LogMatchesState, LifeTheorems!Ends, LifeTheorems!LogsOf,
           Life!LogMatchesState, Life!Ends, Life!LogsOf
  <1> QED
    BY ImplementsLifecycle, SameLife, <1>2, <1>3, PTL DEF LifecycleSpec, Life!Spec

-----------------------------------------------------------------------------
(* The connections of the hosts *)

\* A connection of module ConnectionStates, seen through View.
Seen(state, received, sent, unread, log) ==
    [state |-> state, sinceRecv |-> received, sinceSend |-> sent,
     unread |-> unread, peer |-> 0, remote |-> 0,
     events |-> log]

Unread(c) == c.queue.recvQueue # <<>>

LEMMA ViewOfLeads ==
    ASSUME NEW c, NEW state, NEW received, NEW sent, NEW log,
           Leads(c, state, received, sent, log)
    PROVE  View(c) = Seen(state, received, sent, Unread(c), log)
  BY DEF Leads, View, Seen, Unread

\* An age and the mark of an unread message are replaced.
SendSets(v, since, now) == [v EXCEPT !.sinceSend = since, !.unread = now]
RecvSets(v, since, from, now) ==
    [v EXCEPT !.sinceRecv = since, !.remote = from, !.unread = now]

LEMMA SeenSendSet ==
    ASSUME NEW state, NEW received, NEW sent, NEW unread, NEW log, NEW since,
           NEW now
    PROVE  SendSets(Seen(state, received, sent, unread, log), since, now)
              = Seen(state, received, since, now, log)
  <1>1. PICK from : from = 0
    OBVIOUS
  <1>2. PICK v : v = Seen(state, received, sent, unread, log)
    OBVIOUS
  <1>3. PICK w : w = SendSets(v, since, now)
    OBVIOUS
  <1>4. v = [state |-> state, sinceRecv |-> received, sinceSend |-> sent,
             unread |-> unread, peer |-> 0, remote |-> from, events |-> log]
    BY <1>1, <1>2 DEF Seen
  <1>5. w = [v EXCEPT !.sinceSend = since, !.unread = now]
    BY <1>3 DEF SendSets
  <1>6. w = [state |-> state, sinceRecv |-> received, sinceSend |-> since,
             unread |-> now, peer |-> 0, remote |-> from, events |-> log]
    BY <1>4, <1>5
  <1> QED
    BY <1>1, <1>2, <1>3, <1>6 DEF Seen

LEMMA SeenRecvSet ==
    ASSUME NEW state, NEW received, NEW sent, NEW unread, NEW log, NEW since,
           NEW now, NEW from, from = 0
    PROVE  RecvSets(Seen(state, received, sent, unread, log), since, from, now)
              = Seen(state, since, sent, now, log)
  <1> DEFINE v == Seen(state, received, sent, unread, log)
             b == RecvSets(v, since, from, now)
  <1>1. v = [state |-> state, sinceRecv |-> received, sinceSend |-> sent,
             unread |-> unread, peer |-> 0, remote |-> from, events |-> log]
    BY DEF Seen
  <1>2. b = [v EXCEPT !.sinceRecv = since, !.remote = from, !.unread = now]
    BY DEF RecvSets
  <1> HIDE DEF v, b
  <1>3. b = Seen(state, since, sent, now, log)
    BY <1>1, <1>2 DEF Seen
  <1> QED
    BY <1>3 DEF v, b

LEMMA SameLast == LongestThreshold = States!LastThreshold
  <1>1. States!LastThreshold = Life!LongestThreshold
    BY DEF States!LastThreshold, Life!LongestThreshold
  <1> QED
    BY <1>1, SameLongest

LEMMA SeenElapses ==
    ASSUME NEW state, NEW received, NEW sent, NEW unread, NEW log
    PROVE  States!Elapse(Seen(state, received, sent, unread, log))
              = Seen(state, Older(received, LongestThreshold),
                     Older(sent, DropThreshold), unread, log)
  <1> DEFINE v == Seen(state, received, sent, unread, log)
             r == Older(received, LongestThreshold)
             t == Older(sent, DropThreshold)
  <1>1. v = [state |-> state, sinceRecv |-> received, sinceSend |-> sent,
             unread |-> unread, peer |-> 0, remote |-> 0,
             events |-> log]
    BY DEF Seen
  <1> HIDE DEF v
  <1>2. States!Stepped(v.sinceRecv, States!LastThreshold) = r
        /\ States!Stepped(v.sinceSend, DropThreshold) = t
    BY <1>1, SameLast DEF Older, States!Stepped
  <1>3. States!Elapse(v) = [v EXCEPT !.sinceRecv = r, !.sinceSend = t]
    BY <1>2 DEF States!Elapse
  <1> HIDE DEF r, t
  <1>4. States!Elapse(v) = Seen(state, r, t, unread, log)
    BY <1>1, <1>3 DEF Seen
  <1> QED
    BY <1>4 DEF v, r, t

LEMMA SeenDrained ==
    ASSUME NEW state, NEW received, NEW sent, NEW unread, NEW log
    PROVE  States!Drained(Seen(state, received, sent, unread, log))
              = Seen(state, received, sent, FALSE, <<>>)
  <1> DEFINE v == Seen(state, received, sent, unread, log)
             none == <<>>
  <1>1. v = [state |-> state, sinceRecv |-> received, sinceSend |-> sent,
             unread |-> unread, peer |-> 0, remote |-> 0,
             events |-> log]
    BY DEF Seen
  <1> HIDE DEF v
  <1>2. States!Drained(v) = [v EXCEPT !.events = none, !.unread = FALSE]
    BY DEF States!Drained
  <1> HIDE DEF none
  <1>3. States!Drained(v) = Seen(state, received, sent, FALSE, none)
    BY <1>1, <1>2 DEF Seen
  <1> QED
    BY <1>3 DEF v, none

LEMMA SeenCloses ==
    ASSUME NEW state, NEW received, NEW sent, NEW unread, NEW log
    PROVE  States!Close(Seen(state, received, sent, unread, log))
              = Seen("Closing", received, sent, unread, log)
  <1> DEFINE v == Seen(state, received, sent, unread, log)
  <1>1. v = [state |-> state, sinceRecv |-> received, sinceSend |-> sent,
             unread |-> unread, peer |-> 0, remote |-> 0,
             events |-> log]
    BY DEF Seen
  <1> HIDE DEF v
  <1>2. States!Close(v) = [v EXCEPT !.state = "Closing"]
    BY DEF States!Close
  <1>3. States!Close(v) = Seen("Closing", received, sent, unread, log)
    BY <1>1, <1>2 DEF Seen
  <1> QED
    BY <1>3 DEF v

\* A packet as ConnectionStates has it.
Shown(kind) == [kind |-> kind, addr |-> 0]

\* Owners see a packet consumed that brings no message, or one.
LEMMA SeenConsumed ==
    ASSUME NEW state, NEW received, NEW sent, NEW unread \in BOOLEAN, NEW log,
           NEW kind, NEW newer, NEW carries \in BOOLEAN,
           NEW state2, NEW log2,
           States!Consumes(Seen(state, received, sent, unread, log), Shown(kind), newer),
           States!UpdateReceiveState(Seen(state, received, sent, unread, log),
                                     Shown(kind))
              = Seen(state2, received, sent, unread, log2)
    PROVE  States!ReceivePacket(Seen(state, received, sent, unread, log),
                                Shown(kind), newer, carries)
              = Seen(state2, 0, sent, unread \/ (carries /\ kind = "data"), log2)
  <1> DEFINE v == Seen(state, received, sent, unread, log)
             w == Seen(state2, received, sent, unread, log2)
             p == Shown(kind)
             now == unread \/ (carries /\ kind = "data")
             from == p.addr
  <1>1. States!ReceivePacket(v, p, newer, carries)
           = [w EXCEPT !.sinceRecv = 0, !.remote = from,
                       !.unread = w.unread \/ (carries /\ p.kind = "data")]
    <2> HIDE DEF v, w, p
    <2> QED
      BY DEF States!ReceivePacket, v, w, p
  <1>2. p.kind = kind /\ from = 0 /\ w.unread = unread
    BY DEF Shown, Seen
  <1>4. (w.unread \/ (carries /\ p.kind = "data")) = now
    BY <1>2
  <1> HIDE DEF v, w, p, from, now
  <1>5. States!ReceivePacket(v, p, newer, carries) = RecvSets(w, 0, from, now)
    BY <1>1, <1>4 DEF RecvSets
  <1>6. RecvSets(w, 0, from, now) = Seen(state2, 0, sent, now, log2)
    BY <1>2, SeenRecvSet DEF w
  <1>7. States!ReceivePacket(v, p, newer, carries)
           = Seen(state2, 0, sent, now, log2)
    BY <1>5, <1>6
  <1> QED
    BY <1>7 DEF v, p, now

LEMMA SeenReceives ==
    ASSUME NEW received, NEW sent, NEW unread \in BOOLEAN, NEW log,
           NEW kind, kind # "short", NEW newer, NEW carries \in BOOLEAN
    PROVE  /\ States!ReceivePacket(Seen("Connecting", received, sent, unread, log),
                                   Shown(kind), newer, carries)
              = Seen("Connected", 0, sent, unread \/ (carries /\ kind = "data"),
                     Append(log, <<"Connected">>))
           /\ States!ReceivePacket(Seen("Closing", received, sent, unread, log),
                                   Shown(kind), newer, carries)
              = Seen("Closing", 0, sent, unread \/ (carries /\ kind = "data"), log)
           /\ kind = "data" /\ newer =>
              States!ReceivePacket(Seen("Connected", received, sent, unread, log),
                                   Shown(kind), newer, carries)
              = Seen("Connected", 0, sent, unread \/ (carries /\ kind = "data"), log)
           /\ kind = "closure" =>
              States!ReceivePacket(Seen("Connected", received, sent, unread, log),
                                   Shown(kind), newer, carries)
              = Seen("Closed", received, sent, unread,
                     Append(log, <<"Closed", TRUE>>))
  <1> DEFINE v(state) == Seen(state, received, sent, unread, log)
             p == Shown(kind)
  <1>1. \A state : /\ v(state).state = state /\ v(state).events = log
                   /\ v(state) = [state |-> state, sinceRecv |-> received,
                                  sinceSend |-> sent, unread |-> unread, peer |-> 0,
                                  remote |-> 0,
                                  events |-> log]
    BY DEF Seen
  <1>2. p.kind = kind
    BY DEF Shown
  <1> HIDE DEF v, p
  <1>3. ASSUME NEW c, NEW state, NEW event
        PROVE  States!Emit([c EXCEPT !.state = state], event)
                  = [[c EXCEPT !.state = state] EXCEPT
                       !.events = Append([c EXCEPT !.state = state].events, event)]
    BY DEF States!Emit
  <1>4. ASSUME NEW state, NEW state2, NEW event
        PROVE  States!Emit([v(state) EXCEPT !.state = state2], event)
                  = Seen(state2, received, sent, unread, Append(log, event))
    <2> DEFINE d == [v(state) EXCEPT !.state = state2]
               longer == Append(log, event)
    <2>1. d = [state |-> state2, sinceRecv |-> received, sinceSend |-> sent,
               unread |-> unread, peer |-> 0, remote |-> 0,
               events |-> log]
      BY <1>1
    <2> HIDE DEF d
    <2>2. States!Emit(d, event) = [d EXCEPT !.events = longer]
      BY <2>1 DEF States!Emit
    <2> HIDE DEF longer
    <2>3. States!Emit(d, event) = Seen(state2, received, sent, unread, longer)
      BY <2>1, <2>2 DEF Seen
    <2> QED
      BY <2>3 DEF d, longer
  <1>5. States!UpdateReceiveState(v("Connecting"), p)
           = Seen("Connected", received, sent, unread, Append(log, <<"Connected">>))
        /\ States!Consumes(v("Connecting"), p, newer)
    BY <1>1, <1>2, <1>4 DEF States!UpdateReceiveState, States!Consumes
  <1>6. States!UpdateReceiveState(v("Closing"), p) = v("Closing")
        /\ States!Consumes(v("Closing"), p, newer)
    BY <1>1, <1>2 DEF States!UpdateReceiveState, States!Consumes
  <1>7. kind = "data" /\ newer =>
           /\ States!UpdateReceiveState(v("Connected"), p) = v("Connected")
           /\ States!Consumes(v("Connected"), p, newer)
    BY <1>1, <1>2 DEF States!UpdateReceiveState, States!Consumes
  <1>8. kind = "closure" =>
           /\ States!UpdateReceiveState(v("Connected"), p)
                 = Seen("Closed", received, sent, unread,
                        Append(log, <<"Closed", TRUE>>))
           /\ ~States!Consumes(v("Connected"), p, newer)
    BY <1>1, <1>2, <1>4 DEF States!UpdateReceiveState, States!Consumes
  <1>9. kind = "closure" =>
           States!ReceivePacket(v("Connected"), p, newer, carries)
              = Seen("Closed", received, sent, unread,
                     Append(log, <<"Closed", TRUE>>))
    BY <1>2, <1>8 DEF States!ReceivePacket
  <1> QED
    BY <1>5, <1>6, <1>7, <1>9, SeenConsumed DEF v, p

LEMMA SeenTimesOut ==
    ASSUME NEW c, IsConnection(c), NEW unread, NEW log, NEW state, NEW event,
           TimesOut(c, state, event)
    PROVE  LET v == Seen(c.state, c.sinceRecv, c.sinceSend, unread, log)
           IN  /\ States!SendPacket(v, "skipped")
                     = Seen(state, c.sinceRecv, c.sinceSend, unread,
                            Append(log, event))
               /\ States!PacketOf(v, "skipped") = {}
  <1>1. /\ DropThreshold \in Nat /\ c.sinceRecv \in Nat
        /\ ~(c.sinceRecv > DropThreshold) <=> c.sinceRecv <= DropThreshold
    <2>1. DropThreshold \in Nat /\ c.sinceRecv \in Nat
      BY ThresholdAssumption DEF IsConnection
    <2> QED
      BY <2>1
  <1> DEFINE v == Seen(c.state, c.sinceRecv, c.sinceSend, unread, log)
             u == Seen(state, c.sinceRecv, c.sinceSend, unread, Append(log, event))
  <1>2. States!UpdateSendState(v) = u
    <2>1. CASE c.state = "Connecting"
      BY <2>1 DEF TimesOut, Seen, States!UpdateSendState, States!Emit
    <2>2. CASE c.state = "Connected"
      BY <1>1, <2>2 DEF TimesOut, Seen, States!UpdateSendState, States!Emit
    <2>3. CASE c.state = "Closing"
      BY <2>3 DEF TimesOut, Seen, States!UpdateSendState, States!Emit
    <2> QED
      BY <2>1, <2>2, <2>3 DEF TimesOut
  <1>3. ~States!Open(u)
    BY DEF TimesOut, Seen, States!Open, States!OpenStates
  <1> HIDE DEF u, v
  <1>4. States!SendPacket(v, "skipped") = u /\ States!PacketOf(v, "skipped") = {}
    BY <1>2, <1>3 DEF States!SendPacket, States!PacketOf
  <1> QED
    BY <1>4 DEF u, v

LEMMA SeenSends ==
    ASSUME NEW c, IsConnection(c), NEW unread, NEW log,
           \A state, event : ~TimesOut(c, state, event)
    PROVE  LET v == Seen(c.state, c.sinceRecv, c.sinceSend, unread, log)
           IN  /\ States!SendPacket(v, "skipped") = v
               /\ States!PacketOf(v, "skipped") = {}
               /\ States!PacketOf(v, "refused") = {}
               /\ c.state \in OpenStates =>
                     /\ States!SendPacket(v, "refused")
                           = Seen(c.state, c.sinceRecv, c.sinceSend, FALSE, log)
                     /\ States!SendPacket(v, "sent")
                           = Seen(c.state, c.sinceRecv, 0, FALSE, log)
                     /\ States!PacketOf(v, "sent")
                           = IF c.state = "Closing" THEN {"closure"} ELSE {"data"}
  <1> DEFINE v == Seen(c.state, c.sinceRecv, c.sinceSend, unread, log)
  <1>1. /\ DropThreshold \in Nat /\ c.sinceRecv \in Nat
        /\ ~(c.sinceRecv > DropThreshold) <=> c.sinceRecv <= DropThreshold
    <2>1. DropThreshold \in Nat /\ c.sinceRecv \in Nat
      BY ThresholdAssumption DEF IsConnection
    <2> QED
      BY <2>1
  <1>2. /\ ~(c.state = "Connecting" /\ c.sinceRecv > InitThreshold)
        /\ ~(c.state = "Connected" /\ c.sinceRecv > DropThreshold)
        /\ ~(/\ c.state = "Connected" /\ ~(c.sinceRecv > DropThreshold)
             /\ c.sinceSend > DropThreshold)
        /\ ~(c.state = "Closing" /\ c.sinceRecv > ClosingThreshold)
    BY DEF TimesOut
  <1>3. /\ v.state = c.state /\ v.sinceRecv = c.sinceRecv
        /\ v.sinceSend = c.sinceSend
    BY DEF Seen
  <1>4. States!UpdateSendState(v) = v
    <2> HIDE DEF v
    <2> QED
      BY <1>1, <1>2, <1>3 DEF States!UpdateSendState
  <1>5. States!Open(v) <=> c.state \in OpenStates
    BY <1>3 DEF States!Open, States!OpenStates, OpenStates
  <1>6. \A since : SendSets(v, since, FALSE)
                      = Seen(c.state, c.sinceRecv, since, FALSE, log)
    <2> SUFFICES ASSUME NEW since
                 PROVE  SendSets(v, since, FALSE)
                           = Seen(c.state, c.sinceRecv, since, FALSE, log)
      OBVIOUS
    <2> DEFINE state == c.state
               received == c.sinceRecv
               sent == c.sinceSend
               now == FALSE
    <2> HIDE DEF state, received, sent, now
    <2>1. SendSets(Seen(state, received, sent, unread, log), since, now)
             = Seen(state, received, since, now, log)
      BY SeenSendSet
    <2> QED
      BY <2>1 DEF state, received, sent, now
  <1> HIDE DEF v
  <1>7. /\ States!SendPacket(v, "skipped") = v
        /\ States!PacketOf(v, "skipped") = {}
        /\ States!PacketOf(v, "refused") = {}
    BY <1>4 DEF States!SendPacket, States!PacketOf
  <1>8. ASSUME c.state \in OpenStates
        PROVE  /\ States!SendPacket(v, "refused")
                     = Seen(c.state, c.sinceRecv, c.sinceSend, FALSE, log)
               /\ States!SendPacket(v, "sent")
                     = Seen(c.state, c.sinceRecv, 0, FALSE, log)
               /\ States!PacketOf(v, "sent")
                     = IF c.state = "Closing" THEN {"closure"} ELSE {"data"}
    <2>1. States!SendPacket(v, "refused")
             = SendSets(v, v.sinceSend, FALSE)
      BY <1>4, <1>5, <1>8 DEF States!SendPacket, SendSets
    <2>2. States!SendPacket(v, "sent")
             = SendSets(v, 0, FALSE)
      BY <1>4, <1>5, <1>8 DEF States!SendPacket, SendSets
    <2>3. States!PacketOf(v, "sent")
             = IF c.state = "Closing" THEN {"closure"} ELSE {"data"}
      BY <1>3, <1>4, <1>5, <1>8 DEF States!PacketOf
    <2> QED
      BY <1>3, <1>6, <2>1, <2>2, <2>3
  <1> QED
    BY <1>7, <1>8 DEF v

\* Closure packets bring nothing.
ClosuresAreEmpty == \A e \in Ends : \A p \in net[e] : IsClosure(p) => p.payload = <<>>

ViewInv == LifeInv /\ ClosuresAreEmpty

LEMMA ViewOfConnection ==
    ASSUME NEW c
    PROVE  View(c) = Seen(c.state, c.sinceRecv, c.sinceSend, Unread(c),
                          LifecycleEvents(c.events))
  BY DEF View, Seen, Unread

\* The forms that a step takes in the view, but for the tick.
LEMMA ViewOfCall ==
    ASSUME NEW e \in Ends, "initiator" \in born,
           due'["initiator"] => due["initiator"], due[e] => due'[e],
           \/ View(conn'[e]) = View(conn[e])
           \/ View(conn'[e]) = States!Drained(View(conn[e]))
           \/ View(conn'[e]) = States!Close(View(conn[e]))
           \/ \E p \in net[e], newer, carries \in BOOLEAN :
                 View(conn'[e]) = States!ReceivePacket(View(conn[e]),
                                     Shown(KindOfPacket(p)), newer, carries)
    PROVE  ViewStep(e)
  <1>1. "initiator" \in Ends
    BY DEF Ends
  <1>2. ~(\A d \in Ends : ~due[d] /\ (due'[d] <=> d \in born))
    BY <1>1
  <1>3. ~(due[e] /\ ~due'[e])
    OBVIOUS
  <1> QED
    BY <1>2, <1>3 DEF ViewStep, Shown

LEMMA ViewOfFlush ==
    ASSUME NEW e \in Ends, due[e], ~due'[e],
           NEW env \in {"sent", "refused", "skipped"},
           View(conn'[e]) = States!SendPacket(View(conn[e]), env),
           States!PacketOf(View(conn[e]), env)
              \subseteq {KindOfPacket(p) : p \in net'[Peer(e)]}
    PROVE  ViewStep(e)
  <1>1. ~(\A d \in Ends : ~due[d] /\ (due'[d] <=> d \in born))
    OBVIOUS
  <1> QED
    BY <1>1 DEF ViewStep

\* receive_packet() in the view.
LEMMA ReceiveInView ==
    ASSUME ~Scrambles, NEW c, IsConnection(c), IsList(c.events), Loaded(c),
           NEW p, IsPayload(p.payload), IsClosure(p) => p.payload = <<>>
    PROVE  \/ View(ReceivePacket(c, p)) = View(c)
           \/ \E newer, carries \in BOOLEAN :
                 View(ReceivePacket(c, p))
                    = States!ReceivePacket(View(c), Shown(KindOfPacket(p)),
                                           newer, carries)
  <1> DEFINE new == ReceivePacket(c, p)
             kind == KindOfPacket(p)
             unread == Unread(c)
             carries == Unread(new)
             log == LifecycleEvents(c.events)
             now == unread \/ (carries /\ kind = "data")
  <1>1. Receives(new, c, p)
    BY ReceiveLeads
  <1>2. /\ StillUnread(new.queue, c.queue)
        /\ p.payload = <<>> => new.queue.recvQueue = c.queue.recvQueue
    BY ReceiveHolds
  <1>3. (kind = "closure" <=> IsClosure(p)) /\ kind \in {"data", "closure"}
    BY DEF KindOfPacket
  <1>4. unread \in BOOLEAN /\ carries \in BOOLEAN /\ now \in BOOLEAN
    BY DEF Unread
  <1>5. carries = now
    <2>1. unread => carries
      BY <1>2 DEF StillUnread, Unread
    <2>2. kind = "closure" => (carries <=> unread)
      BY <1>2, <1>3 DEF Unread
    <2> HIDE DEF new, unread, carries, kind
    <2>3. carries <=> now
      BY <1>3, <2>1, <2>2
    <2> QED
      BY <1>4, <2>3
  <1>6. View(c) = Seen(c.state, c.sinceRecv, c.sinceSend, unread, log)
    BY ViewOfConnection
  <1>7. ASSUME NEW state, NEW received, NEW sent, NEW told,
               Leads(new, state, received, sent, told)
        PROVE  View(new) = Seen(state, received, sent, carries, told)
    BY <1>7, ViewOfLeads
  <1>8. c.state \in {"Connecting", "Connected", "Closing"} \cup TerminalStates
    BY DEF IsConnection, States5, OpenStates
  <1>9. new = c => View(new) = View(c)
    OBVIOUS
  <1> HIDE DEF new, kind, unread, carries, log, now
  <1>10. /\ States!ReceivePacket(Seen("Connecting", c.sinceRecv, c.sinceSend, unread,
                                      log), Shown(kind), TRUE, carries)
               = Seen("Connected", 0, c.sinceSend, now, Append(log, <<"Connected">>))
         /\ States!ReceivePacket(Seen("Closing", c.sinceRecv, c.sinceSend, unread, log),
                                 Shown(kind), TRUE, carries)
               = Seen("Closing", 0, c.sinceSend, now, log)
         /\ kind = "data" =>
            States!ReceivePacket(Seen("Connected", c.sinceRecv, c.sinceSend, unread,
                                      log), Shown(kind), TRUE, carries)
               = Seen("Connected", 0, c.sinceSend, now, log)
         /\ kind = "closure" =>
            States!ReceivePacket(Seen("Connected", c.sinceRecv, c.sinceSend, unread,
                                      log), Shown(kind), TRUE, carries)
               = Seen("Closed", c.sinceRecv, c.sinceSend, unread,
                      Append(log, <<"Closed", TRUE>>))
    <2> DEFINE received == c.sinceRecv
               sent == c.sinceSend
               newer == TRUE
    <2> HIDE DEF received, sent, newer
    <2>0. kind # "short"
      BY <1>3
    <2>1. /\ States!ReceivePacket(Seen("Connecting", received, sent, unread, log),
                                  Shown(kind), newer, carries)
                = Seen("Connected", 0, sent, now, Append(log, <<"Connected">>))
          /\ States!ReceivePacket(Seen("Closing", received, sent, unread, log),
                                  Shown(kind), newer, carries)
                = Seen("Closing", 0, sent, now, log)
          /\ kind = "data" /\ newer =>
             States!ReceivePacket(Seen("Connected", received, sent, unread, log),
                                  Shown(kind), newer, carries)
                = Seen("Connected", 0, sent, now, log)
          /\ kind = "closure" =>
             States!ReceivePacket(Seen("Connected", received, sent, unread, log),
                                  Shown(kind), newer, carries)
                = Seen("Closed", received, sent, unread,
                       Append(log, <<"Closed", TRUE>>))
      BY <2>0, <1>4, SeenReceives DEF now
    <2> QED
      BY <2>1 DEF received, sent, newer
  <1>11. CASE c.state = "Connecting"
    <2>1. View(new) = Seen("Connected", 0, c.sinceSend, carries,
                           Append(log, <<"Connected">>))
      BY <1>1, <1>7, <1>11 DEF Receives, log
    <2>2. View(new) = States!ReceivePacket(View(c), Shown(kind), TRUE, carries)
      BY <1>5, <1>6, <1>10, <1>11, <2>1 DEF now
    <2> QED
      BY <1>4, <2>2 DEF new, kind
  <1>12. CASE c.state = "Closing"
    <2>1. View(new) = Seen("Closing", 0, c.sinceSend, carries, log)
      BY <1>1, <1>7, <1>12 DEF Receives, log
    <2>2. View(new) = States!ReceivePacket(View(c), Shown(kind), TRUE, carries)
      BY <1>5, <1>6, <1>10, <1>12, <2>1 DEF now
    <2> QED
      BY <1>4, <2>2 DEF new, kind
  <1>13. CASE c.state = "Connected" /\ IsClosure(p)
    <2>1. /\ View(new) = Seen("Closed", c.sinceRecv, c.sinceSend, carries,
                              Append(log, <<"Closed", TRUE>>))
          /\ new.queue = c.queue
      BY <1>1, <1>7, <1>13 DEF Receives, log
    <2>2. carries = unread
      BY <2>1 DEF carries, unread, Unread
    <2>3. View(new) = States!ReceivePacket(View(c), Shown(kind), TRUE, carries)
      BY <1>3, <1>6, <1>10, <1>13, <2>1, <2>2
    <2> QED
      BY <1>4, <2>3 DEF new, kind
  <1>14. CASE c.state = "Connected" /\ ~IsClosure(p)
    <2>1. CASE SeqIsMoreRecent(p.seq, c.remoteSeq)
      <3>1. View(new) = Seen("Connected", 0, c.sinceSend, carries, log)
        BY <1>1, <1>7, <1>14, <2>1 DEF Receives, log
      <3>2. View(new) = States!ReceivePacket(View(c), Shown(kind), TRUE, carries)
        BY <1>3, <1>5, <1>6, <1>10, <1>14, <3>1 DEF now
      <3> QED
        BY <1>4, <3>2 DEF new, kind
    <2>2. CASE ~SeqIsMoreRecent(p.seq, c.remoteSeq)
      BY <1>1, <1>9, <1>14, <2>2 DEF Receives, new
    <2> QED
      BY <2>1, <2>2
  <1>15. CASE c.state \in TerminalStates
    BY <1>1, <1>9, <1>15 DEF Receives, new
  <1> QED
    BY <1>8, <1>11, <1>12, <1>13, <1>14, <1>15

LEMMA ArriveView ==
    ASSUME ~Scrambles, ViewInv, NEW e \in Ends, NEW p \in net[e], Arrive(e, p),
           NEW d \in Ends
    PROVE  ViewStep(d) /\ ClosuresAreEmpty'
  <1> DEFINE c == conn[e]
             new == ReceivePacket(c, p)
  <1>1. /\ conn' = [conn EXCEPT ![e] = new]
        /\ due' = [due EXCEPT ![e] = e \notin born \/ @] /\ net' = net
    BY DEF Arrive
  <1>2. /\ IsConnection(c) /\ IsList(c.events) /\ Loaded(c) /\ IsPayload(p.payload)
        /\ (IsClosure(p) => p.payload = <<>>) /\ "initiator" \in born
        /\ due \in [Ends -> BOOLEAN] /\ DOMAIN conn = Ends
    BY DEF ViewInv, ClosuresAreEmpty, LifeInv, MessageInv, LinkInv, LinkShape, Alive
  <1>3. /\ due'["initiator"] => due["initiator"]
        /\ \A x \in Ends : due[x] => due'[x]
    BY <1>1, <1>2 DEF Ends
  <1>4. ClosuresAreEmpty'
    BY <1>1 DEF ViewInv, ClosuresAreEmpty
  <1>5. CASE d = e
    <2>1. conn'[e] = new
      BY <1>1, <1>2
    <2>2. \/ View(new) = View(c)
          \/ \E newer, carries \in BOOLEAN :
                View(new) = States!ReceivePacket(View(c), Shown(KindOfPacket(p)),
                                                 newer, carries)
      BY <1>2, ReceiveInView
    <2> HIDE DEF new
    <2>3. ViewStep(e)
      BY <1>2, <1>3, <2>1, <2>2, ViewOfCall
    <2> QED
      BY <1>4, <1>5, <2>3
  <1>6. CASE d # e
    <2>1. View(conn'[d]) = View(conn[d])
      BY <1>1, <1>2, <1>6
    <2>2. ViewStep(d)
      BY <1>2, <1>3, <2>1, ViewOfCall
    <2> QED
      BY <1>4, <2>2
  <1> QED
    BY <1>5, <1>6

\* send_packet() in the view; a closure packet brings nothing.
LEMMA FlushView ==
    ASSUME ~Scrambles, ViewInv, MessageInv', NoLookalike,
           NEW e \in Ends, NEW env \in Envs, Flush(e, env), NEW d \in Ends
    PROVE  ViewStep(d) /\ ClosuresAreEmpty'
  <1> DEFINE c == conn[e]
             f == Peer(e)
             r == SendPacket(c, env, count[e])
             n == count[e] + (IF r.conn.localSeq # c.localSeq THEN 1 ELSE 0)
             log == LifecycleEvents(c.events)
             kinds == {KindOfPacket(p) : p \in net'[f]}
             Showing(answer) ==
                /\ View(r.conn) = States!SendPacket(View(c), answer)
                /\ States!PacketOf(View(c), answer) \subseteq kinds
  <1>1. /\ conn' = [conn EXCEPT ![e] = r.conn] /\ due[e]
        /\ net' = [net EXCEPT ![f] = Carry(@, r.packet, n)]
        /\ due' = [due EXCEPT ![e] = FALSE] /\ born' = born
    BY DEF Flush
  <1>2. /\ IsConnection(c) /\ IsList(c.events) /\ "initiator" \in born
        /\ DOMAIN net = Ends /\ count[e] \in Nat /\ f \in Ends /\ DOMAIN conn = Ends
        /\ due \in [Ends -> BOOLEAN] /\ ClosuresAreEmpty
    BY PeerOfPeer DEF ViewInv, LifeInv, MessageInv, LinkInv, LinkShape, Alive
  <1>3. env.sendOk \in BOOLEAN /\ MaxLag \in Nat /\ 1 <= MaxLag
    BY LinkAssumption, SeqAssumption
  <1>4. SendOutcome(r, c, count[e])
    BY <1>2, <1>3, SendLeads
  <1>5. c.state \in {"Connecting", "Connected"} => HeaderOf(c) # ClosureHeader
    BY DEF NoLookalike
  <1>6. conn'[e] = r.conn /\ Loaded(r.conn)
    BY <1>1, <1>2 DEF MessageInv
  <1>7. View(c) = Seen(c.state, c.sinceRecv, c.sinceSend, Unread(c), log)
    BY ViewOfConnection
  <1>8. /\ \A x \in Ends : x # f => net'[x] = net[x]
        /\ net'[f] \subseteq net[f] \cup r.packet
    BY <1>1, <1>2 DEF Carry
  <1> HIDE DEF r, n, c, log
  <1>9. (\E q : r.conn.queue = QueueDismiss(q)) => Unread(r.conn) = FALSE
    BY <1>6, DismissEmpties DEF Loaded, Unread
  <1>10. r.conn.queue = c.queue => Unread(r.conn) = Unread(c)
    BY DEF Unread
  <1>11. ASSUME NEW state, NEW event, TimesOut(c, state, event)
         PROVE  Showing("skipped") /\ r.packet = {}
    <2>1. r.conn = Moved(c, state, event) /\ r.packet = {}
      BY <1>4, <1>11 DEF SendOutcome
    <2>2. state \in States5 /\ event \in AboutEvents
      BY <1>11 DEF TimesOut, States5, TerminalStates, AboutEvents
    <2>3. /\ Leads(r.conn, state, c.sinceRecv, c.sinceSend, Append(log, event))
          /\ OnlyMoves(r.conn, c)
      BY <1>2, <2>1, <2>2, MoveLeads DEF log
    <2>4. r.conn.queue = c.queue
      BY <1>2, <2>3 DEF OnlyMoves, IsConnection
    <2>5. View(r.conn) = Seen(state, c.sinceRecv, c.sinceSend, Unread(c),
                              Append(log, event))
      BY <1>10, <2>3, <2>4, ViewOfLeads
    <2> DEFINE unread == Unread(c)
    <2> HIDE DEF unread
    <2>6. LET v == Seen(c.state, c.sinceRecv, c.sinceSend, unread, log)
          IN  /\ States!SendPacket(v, "skipped")
                    = Seen(state, c.sinceRecv, c.sinceSend, unread,
                           Append(log, event))
              /\ States!PacketOf(v, "skipped") = {}
      BY <1>2, <1>11, SeenTimesOut
    <2> QED
      BY <1>7, <2>1, <2>5, <2>6 DEF unread
  <1>12. ASSUME \A state, event : ~TimesOut(c, state, event)
         PROVE  LET v == View(c)
                IN  /\ States!SendPacket(v, "skipped") = v
                    /\ States!PacketOf(v, "skipped") = {}
                    /\ States!PacketOf(v, "refused") = {}
                    /\ c.state \in OpenStates =>
                          /\ States!SendPacket(v, "refused")
                                = Seen(c.state, c.sinceRecv, c.sinceSend, FALSE, log)
                          /\ States!SendPacket(v, "sent")
                                = Seen(c.state, c.sinceRecv, 0, FALSE, log)
                          /\ States!PacketOf(v, "sent")
                                = IF c.state = "Closing" THEN {"closure"}
                                  ELSE {"data"}
    <2> DEFINE unread == Unread(c)
    <2> HIDE DEF unread
    <2>1. LET v == Seen(c.state, c.sinceRecv, c.sinceSend, unread, log)
          IN  /\ States!SendPacket(v, "skipped") = v
              /\ States!PacketOf(v, "skipped") = {}
              /\ States!PacketOf(v, "refused") = {}
              /\ c.state \in OpenStates =>
                    /\ States!SendPacket(v, "refused")
                          = Seen(c.state, c.sinceRecv, c.sinceSend, FALSE, log)
                    /\ States!SendPacket(v, "sent")
                          = Seen(c.state, c.sinceRecv, 0, FALSE, log)
                    /\ States!PacketOf(v, "sent")
                          = IF c.state = "Closing" THEN {"closure"} ELSE {"data"}
      BY <1>2, <1>12, SeenSends
    <2> QED
      BY <1>7, <2>1 DEF unread
  <1>13. ASSUME \A state, event : ~TimesOut(c, state, event), Goes(r, c, count[e])
         PROVE  /\ Showing("sent")
                /\ \A p \in r.packet : IsClosure(p) => p.payload = <<>>
    <2>1. /\ c.state \in OpenStates
          /\ Leads(r.conn, c.state, c.sinceRecv, 0, log)
          /\ r.conn.localSeq # c.localSeq /\ \E q : r.conn.queue = QueueDismiss(q)
      BY <1>13 DEF Goes, log
    <2>2. PICK p : /\ r.packet = {p} /\ p.id = count[e]
                   /\ c.state = "Closing" => IsClosure(p) /\ p.payload = <<>>
                   /\ c.state # "Closing" /\ HeaderOf(c) # ClosureHeader
                         => ~IsClosure(p)
      BY <1>13 DEF Goes
    <2>3. /\ KindOfPacket(p) = IF c.state = "Closing" THEN "closure" ELSE "data"
          /\ IsClosure(p) => p.payload = <<>>
      BY <1>5, <2>1, <2>2 DEF KindOfPacket, OpenStates
    <2>4. p.id + MaxLag >= n
      BY <1>2, <1>3, <2>1, <2>2 DEF n
    <2>5. p \in net'[f]
      BY <1>1, <1>2, <2>2, <2>4 DEF Carry
    <2>6. View(r.conn) = Seen(c.state, c.sinceRecv, 0, FALSE, log)
      BY <1>9, <2>1, ViewOfLeads
    <2>7. KindOfPacket(p) \in kinds
      BY <2>5
    <2>8. States!PacketOf(View(c), "sent") = {KindOfPacket(p)}
      BY <1>12, <1>13, <2>1, <2>3
    <2>9. View(r.conn) = States!SendPacket(View(c), "sent")
      BY <1>12, <1>13, <2>1, <2>6
    <2> HIDE DEF kinds
    <2> QED
      BY <2>2, <2>3, <2>7, <2>8, <2>9
  <1>14. ASSUME \A state, event : ~TimesOut(c, state, event), Stays(r, c)
         PROVE  (Showing("skipped") \/ Showing("refused")) /\ r.packet = {}
    <2>1. /\ r.packet = {} /\ Leads(r.conn, c.state, c.sinceRecv, c.sinceSend, log)
          /\ \/ r.conn.queue = c.queue
             \/ c.state \in OpenStates /\ \E q : r.conn.queue = QueueDismiss(q)
      BY <1>14 DEF Stays, log
    <2>2. View(r.conn) = Seen(c.state, c.sinceRecv, c.sinceSend, Unread(r.conn), log)
      BY <2>1, ViewOfLeads
    <2>3. CASE r.conn.queue = c.queue
      <3>1. View(r.conn) = View(c)
        BY <1>7, <1>10, <2>2, <2>3
      <3> QED
        BY <1>12, <1>14, <2>1, <3>1
    <2>4. CASE c.state \in OpenStates /\ \E q : r.conn.queue = QueueDismiss(q)
      <3>1. View(r.conn) = Seen(c.state, c.sinceRecv, c.sinceSend, FALSE, log)
        BY <1>9, <2>2, <2>4
      <3> QED
        BY <1>12, <1>14, <2>1, <2>4, <3>1
    <2> QED
      BY <2>1, <2>3, <2>4
  <1>15. \/ \E state, event : TimesOut(c, state, event)
         \/ /\ \A state, event : ~TimesOut(c, state, event)
            /\ Goes(r, c, count[e]) \/ Stays(r, c)
    BY <1>4 DEF SendOutcome
  <1>16. /\ Showing("sent") \/ Showing("refused") \/ Showing("skipped")
         /\ \A p \in r.packet : IsClosure(p) => p.payload = <<>>
    <2> HIDE DEF Showing
    <2> QED
      BY <1>11, <1>13, <1>14, <1>15
  <1>17. ClosuresAreEmpty'
    BY <1>2, <1>8, <1>16 DEF ClosuresAreEmpty
  <1>18. ViewStep(e)
    <2>1. due[e] /\ ~due'[e]
      BY <1>1, <1>2
    <2>2. PICK answer \in {"sent", "refused", "skipped"} : Showing(answer)
      BY <1>16
    <2>3. /\ View(conn'[e]) = States!SendPacket(View(conn[e]), answer)
          /\ States!PacketOf(View(conn[e]), answer)
                \subseteq {KindOfPacket(p) : p \in net'[Peer(e)]}
      BY <1>6, <2>2 DEF c
    <2> QED
      BY <2>1, <2>3, ViewOfFlush
  <1>19. ASSUME d # e PROVE ViewStep(d)
    <2>1. View(conn'[d]) = View(conn[d])
      BY <1>1, <1>2, <1>19
    <2>2. (due'["initiator"] => due["initiator"]) /\ (due[d] => due'[d])
      BY <1>1, <1>2, <1>19 DEF Ends
    <2> QED
      BY <1>2, <2>1, <2>2, ViewOfCall
  <1> QED
    BY <1>17, <1>18, <1>19

\* A tick in the view.
LEMMA TickView ==
    ASSUME ViewInv, Tick, NEW e \in Ends
    PROVE  ViewStep(e) /\ ClosuresAreEmpty'
  <1> DEFINE c == conn[e]
             log == LifecycleEvents(c.events)
             unread == Unread(c)
  <1>1. /\ conn'[e] = IF e \in born THEN Elapse(c) ELSE c
        /\ \A x \in Ends : ~due[x] /\ (due'[x] <=> x \in born) /\ net' = net
    BY DEF Tick
  <1>2. IsConnection(c) /\ IsList(c.events)
    BY DEF ViewInv, LifeInv, MessageInv, LinkInv, LinkShape, Alive
  <1>3. ClosuresAreEmpty'
    BY <1>1 DEF ViewInv, ClosuresAreEmpty
  <1>4. /\ Leads(Elapse(c), c.state, Older(c.sinceRecv, LongestThreshold),
                 Older(c.sinceSend, DropThreshold), log)
        /\ Elapse(c).queue = c.queue
    BY <1>2, ElapseLeads
  <1>5. View(c) = Seen(c.state, c.sinceRecv, c.sinceSend, unread, log)
    BY ViewOfConnection
  <1>6. View(Elapse(c)) = Seen(c.state, Older(c.sinceRecv, LongestThreshold),
                               Older(c.sinceSend, DropThreshold), unread, log)
    <2>1. Unread(Elapse(c)) = unread
      BY <1>4 DEF Unread
    <2> HIDE DEF unread, log
    <2> QED
      BY <1>4, <2>1, ViewOfLeads
  <1> HIDE DEF unread, log, c
  <1>7. States!Elapse(Seen(c.state, c.sinceRecv, c.sinceSend, unread, log))
           = Seen(c.state, Older(c.sinceRecv, LongestThreshold),
                  Older(c.sinceSend, DropThreshold), unread, log)
    <2> DEFINE state == c.state
               received == c.sinceRecv
               sent == c.sinceSend
    <2> HIDE DEF state, received, sent
    <2>1. States!Elapse(Seen(state, received, sent, unread, log))
             = Seen(state, Older(received, LongestThreshold),
                    Older(sent, DropThreshold), unread, log)
      BY SeenElapses
    <2> QED
      BY <2>1 DEF state, received, sent
  <1>8. View(Elapse(c)) = States!Elapse(View(c))
    BY <1>5, <1>6, <1>7
  <1>9. View(conn'[e]) = IF e \in born THEN States!Elapse(View(conn[e]))
                         ELSE View(conn[e])
    BY <1>1, <1>8 DEF c
  <1> QED
    BY <1>1, <1>3, <1>9 DEF ViewStep

\* The calls of an application in the view.
LEMMA DrainedView ==
    ASSUME NEW c, IsConnection(c), IsList(c.events), Loaded(Drained(c))
    PROVE  View(Drained(c)) = States!Drained(View(c))
  <1> DEFINE log == LifecycleEvents(c.events)
             unread == Unread(c)
             v == Seen(c.state, c.sinceRecv, c.sinceSend, unread, log)
  <1>1. View(c) = v
    BY ViewOfConnection
  <1>2. /\ Leads(Drained(c), c.state, c.sinceRecv, c.sinceSend, <<>>)
        /\ Drained(c).queue = QueueDismiss(c.queue)
    BY CallsLead
  <1>3. Unread(Drained(c)) = FALSE
    BY <1>2, DismissEmpties DEF Loaded, Unread
  <1> HIDE DEF unread, log
  <1>4. States!Drained(v) = Seen(c.state, c.sinceRecv, c.sinceSend, FALSE, <<>>)
    <2> DEFINE state == c.state
               received == c.sinceRecv
               sent == c.sinceSend
    <2> HIDE DEF state, received, sent
    <2>1. States!Drained(Seen(state, received, sent, unread, log))
             = Seen(state, received, sent, FALSE, <<>>)
      BY SeenDrained
    <2> QED
      BY <2>1 DEF state, received, sent
  <1>5. View(Drained(c)) = Seen(c.state, c.sinceRecv, c.sinceSend, FALSE, <<>>)
    BY <1>2, <1>3, ViewOfLeads
  <1> QED
    BY <1>1, <1>4, <1>5

LEMMA CloseView ==
    ASSUME NEW c, IsConnection(c), IsList(c.events)
    PROVE  View(Close(c)) = States!Close(View(c))
  <1> DEFINE log == LifecycleEvents(c.events)
             unread == Unread(c)
             v == Seen(c.state, c.sinceRecv, c.sinceSend, unread, log)
  <1>1. View(c) = v
    BY ViewOfConnection
  <1>2. /\ Leads(Close(c), "Closing", c.sinceRecv, c.sinceSend, log)
        /\ Close(c).queue = c.queue
    BY CallsLead
  <1>3. Unread(Close(c)) = unread
    BY <1>2 DEF Unread
  <1> HIDE DEF unread, log
  <1>4. States!Close(v) = Seen("Closing", c.sinceRecv, c.sinceSend, unread, log)
    <2> DEFINE state == c.state
               received == c.sinceRecv
               sent == c.sinceSend
    <2> HIDE DEF state, received, sent
    <2>1. States!Close(Seen(state, received, sent, unread, log))
             = Seen("Closing", received, sent, unread, log)
      BY SeenCloses
    <2> QED
      BY <2>1 DEF state, received, sent
  <1>5. View(Close(c)) = Seen("Closing", c.sinceRecv, c.sinceSend, unread, log)
    BY <1>2, <1>3, ViewOfLeads
  <1> QED
    BY <1>1, <1>4, <1>5

LEMMA PostView ==
    ASSUME NEW c, IsConnection(c), IsList(c.events), Loaded(c), NEW m \in Script
    PROVE  View(SendMessage(c, m.kind, m.data, m.len)) = View(c)
  <1> DEFINE log == LifecycleEvents(c.events)
             unread == Unread(c)
             new == SendMessage(c, m.kind, m.data, m.len)
  <1>1. View(c) = Seen(c.state, c.sinceRecv, c.sinceSend, unread, log)
    BY ViewOfConnection
  <1>2. /\ Leads(new, c.state, c.sinceRecv, c.sinceSend, log)
        /\ new.queue = QueueSend(c.queue, m.kind, m.data, m.len)
    BY CallsLead
  <1>3. m.kind \in Kinds /\ m.data \in Datas /\ m.len \in Nat
    <2>1. m.kind \in Kinds /\ m.len \in Sizes
      BY LinkAssumption
    <2>2. Sizes \subseteq Nat
      BY DEF Sizes
    <2> QED
      BY <2>1, <2>2 DEF Datas
  <1>4. QueueSend(c.queue, m.kind, m.data, m.len).recvQueue = c.queue.recvQueue
    BY <1>3, SendQueues DEF Loaded
  <1> HIDE DEF new
  <1>5. Unread(new) = unread
    BY <1>2, <1>4 DEF Unread
  <1> HIDE DEF unread, log
  <1>6. View(new) = Seen(c.state, c.sinceRecv, c.sinceSend, unread, log)
    BY <1>2, <1>5, ViewOfLeads
  <1> QED
    BY <1>1, <1>6 DEF new

LEMMA ViewInStep ==
    ASSUME ~Scrambles, ViewInv, NoLookalike, [Next]_vars
    PROVE  ViewInv' /\ \A e \in Ends : ViewStep(e)
  <1>1. MessageInv' /\ LifeInv'
    BY MessageStep, LifeStep DEF ViewInv, LifeInv
  <1> SUFFICES ASSUME NEW e \in Ends
               PROVE  ViewStep(e) /\ ClosuresAreEmpty'
    BY <1>1 DEF ViewInv, Ends
  <1>2. /\ "initiator" \in born /\ DOMAIN conn = Ends
        /\ \A x \in Ends : /\ IsConnection(conn[x]) /\ IsList(conn[x].events)
                           /\ Loaded(conn[x])
    BY DEF ViewInv, LifeInv, MessageInv, LinkInv, LinkShape, Alive
  <1>3. ASSUME due' = due, net' = net,
               \/ View(conn'[e]) = View(conn[e])
               \/ View(conn'[e]) = States!Drained(View(conn[e]))
               \/ View(conn'[e]) = States!Close(View(conn[e]))
        PROVE  ViewStep(e) /\ ClosuresAreEmpty'
    <2>1. ViewStep(e)
      BY <1>2, <1>3, ViewOfCall
    <2>2. ClosuresAreEmpty'
      BY <1>3 DEF ViewInv, ClosuresAreEmpty
    <2> QED
      BY <2>1, <2>2
  <1>4. ASSUME NEW x \in Ends, NEW p \in net[x], Arrive(x, p)
        PROVE  ViewStep(e) /\ ClosuresAreEmpty'
    BY <1>4, ArriveView
  <1>5. ASSUME NEW x \in Ends, NEW env \in Envs, Flush(x, env)
        PROVE  ViewStep(e) /\ ClosuresAreEmpty'
    BY <1>1, <1>5, FlushView
  <1>6. ASSUME NEW x \in Ends, Poll(x)
        PROVE  ViewStep(e) /\ ClosuresAreEmpty'
    <2>1. /\ conn' = [conn EXCEPT ![x] = Drained(@)] /\ due' = due /\ net' = net
      BY <1>6 DEF Poll
    <2>2. Loaded(Drained(conn[x]))
      BY <1>1, <1>2, <2>1 DEF MessageInv
    <2>3. View(conn'[e]) \in {View(conn[e]), States!Drained(View(conn[e]))}
      BY <1>2, <2>1, <2>2, DrainedView
    <2> QED
      BY <1>3, <2>1, <2>3
  <1>7. ASSUME NEW x \in Ends, CloseEnd(x)
        PROVE  ViewStep(e) /\ ClosuresAreEmpty'
    <2>1. /\ conn' = [conn EXCEPT ![x] = Close(@)] /\ due' = due /\ net' = net
      BY <1>7 DEF CloseEnd
    <2>2. View(Close(conn[x])) = States!Close(View(conn[x]))
      BY <1>2, CloseView
    <2>3. View(conn'[e]) \in {View(conn[e]), States!Close(View(conn[e]))}
      BY <1>2, <2>1, <2>2
    <2> QED
      BY <1>3, <2>1, <2>3
  <1>8. ASSUME NEW m \in Script, Post(m)
        PROVE  ViewStep(e) /\ ClosuresAreEmpty'
    <2>1. /\ conn' = [conn EXCEPT ![m.from] = SendMessage(@, m.kind, m.data, m.len)]
          /\ due' = due /\ net' = net /\ m.from \in Ends
      BY <1>8, LinkAssumption DEF Post
    <2>2. View(conn'[e]) = View(conn[e])
      BY <1>2, <2>1, PostView
    <2> QED
      BY <1>3, <2>1, <2>2
  <1>9. ASSUME Tick PROVE ViewStep(e) /\ ClosuresAreEmpty'
    BY <1>9, TickView
  <1>10. ASSUME UNCHANGED vars PROVE ViewStep(e) /\ ClosuresAreEmpty'
    <2>1. conn' = conn /\ due' = due /\ net' = net
      BY <1>10 DEF vars
    <2> QED
      BY <1>3, <2>1
  <1> QED
    BY <1>4, <1>5, <1>6, <1>7, <1>8, <1>9, <1>10 DEF Next

\* A connection with its packets, queues and numbers changes its state, ages
\* and events exactly as the operators of ConnectionStates, of which Client and
\* Server are made, say it does when they call it (client.rs l.248-292,
\* server.rs l.285-414).
THEOREM HostsSeeTheConnection ==
    ASSUME ~Scrambles
    PROVE  Spec /\ []NoLookalike => ViewAgrees
  <1>1. Init => ViewInv
    BY InitLife DEF ViewInv, ClosuresAreEmpty, Init
  <1>2. ViewInv /\ NoLookalike /\ [Next]_vars
           => ViewInv' /\ [\A e \in Ends : ViewStep(e)]_vars
    BY ViewInStep
  <1> QED
    BY <1>1, <1>2, PTL DEF Spec, ViewAgrees

-----------------------------------------------------------------------------
(* Messages that are handed over once *)

\* The messages of which a connection keeps a copy to send.
Own(c) ==
    Queued(c.queue) \cup UNION {Carried(a.payload) : a \in ToSet(c.sentAckQueue)}

\* Messages do not wait among these events (events() puts them behind).
IsPlain(events) == IsList(events) /\ \A v \in ToSet(events) : v[1] # "Message"

\* A call that gives its connection nothing else to send.
SenderKept(new, c) ==
    /\ Own(new) \subseteq Own(c)
    /\ new.queue.iQueue = c.queue.iQueue
    /\ new.queue.localOrderId = c.queue.localOrderId
    /\ new.localSeq = c.localSeq
    /\ Closes(c) => Closes(new)

\* A call that takes no message in.  It may hand over what has been received,
\* or dismiss that (send_packet()).
ReceiverKept(new, c) ==
    /\ new.queue.oRecvHeap = c.queue.oRecvHeap
    /\ new.queue.remoteOrderId = c.queue.remoteOrderId
    /\ new.queue.recvQueue \in {c.queue.recvQueue, <<>>}
    /\ new.remoteSeq = c.remoteSeq
    /\ new.state = "Connecting" => c.state = "Connecting"
    /\ IsPlain(c.events) => IsPlain(new.events)
    /\ Closes(c) => Closes(new)

LEMMA PlainMore ==
    ASSUME NEW s, IsPlain(s)
    PROVE  /\ \A v : v[1] # "Message" => IsPlain(Append(s, v))
           /\ \A t : IsPlain(t) => IsPlain(s \o t)
  <1>1. PICK S : s \in Seq(S)
    BY DEF IsPlain, IsList
  <1>2. ASSUME NEW v, v[1] # "Message"
        PROVE  IsPlain(Append(s, v))
    <2>1. s \in Seq(S \cup {v})
      BY <1>1
    <2>2. /\ Append(s, v) \in Seq(S \cup {v})
          /\ ToSet(Append(s, v)) = ToSet(s) \cup {v}
      BY <2>1, AppendSet
    <2> QED
      BY <1>2, <2>2 DEF IsPlain, IsList
  <1>3. ASSUME NEW t, IsPlain(t)
        PROVE  IsPlain(s \o t)
    <2>1. PICK T : t \in Seq(T)
      BY <1>3 DEF IsPlain, IsList
    <2>2. s \in Seq(S \cup T) /\ t \in Seq(S \cup T)
      BY <1>1, <2>1
    <2>3. s \o t \in Seq(S \cup T) /\ ToSet(s \o t) = ToSet(s) \cup ToSet(t)
      BY <2>2, ConcatSet
    <2> QED
      BY <1>3, <2>3 DEF IsPlain, IsList
  <1> QED
    BY <1>2, <1>3

LEMMA AboutIsPlain ==
    /\ \A v \in AboutEvents : v[1] # "Message"
    /\ <<"PacketLost">>[1] # "Message" /\ <<"Congestion">>[1] # "Message"
  BY DEF AboutEvents

\* A connection that only changes its state and says so.
LEMMA MovesKept ==
    ASSUME NEW c, IsConnection(c), NEW new, OnlyMoves(new, c),
           new.state = "Connecting" => c.state = "Connecting",
           IsPlain(c.events) => IsPlain(new.events),
           Closes(c) => Closes(new)
    PROVE  /\ SenderKept(new, c) /\ ReceiverKept(new, c)
           /\ new.queue = c.queue /\ new.sentAckQueue = c.sentAckQueue
  <1>1. new = [state |-> new.state, localSeq |-> c.localSeq,
               remoteSeq |-> c.remoteSeq, sinceRecv |-> c.sinceRecv,
               sinceSend |-> c.sinceSend, recvAckQueue |-> c.recvAckQueue,
               sentAckQueue |-> c.sentAckQueue, queue |-> c.queue,
               events |-> new.events]
    BY DEF IsConnection, OnlyMoves
  <1>2. /\ new.queue = c.queue /\ new.sentAckQueue = c.sentAckQueue
        /\ new.localSeq = c.localSeq /\ new.remoteSeq = c.remoteSeq
    BY <1>1
  <1> QED
    BY <1>2 DEF SenderKept, ReceiverKept, Own

LEMMA MovedIsPlain ==
    ASSUME NEW c, IsConnection(c), IsPlain(c.events), NEW state,
           NEW event \in AboutEvents
    PROVE  IsPlain(Moved(c, state, event).events)
  <1> DEFINE longer == Append(c.events, event)
  <1>1. Moved(c, state, event).events = longer
    BY DEF Moved, Emit, IsConnection
  <1>2. IsPlain(longer)
    BY AboutIsPlain, PlainMore
  <1> QED
    BY <1>1, <1>2

LEMMA ReceiveStateIsPlain ==
    ASSUME NEW c, IsConnection(c), IsPlain(c.events), NEW p
    PROVE  IsPlain(UpdateReceiveState(c, p).conn.events)
  <1> DEFINE u == UpdateReceiveState(c, p)
  <1>1. CASE c.state = "Connecting"
    <2>1. u.conn = Moved(c, "Connected", <<"Connected">>)
      BY <1>1 DEF UpdateReceiveState, Moved, TerminalStates
    <2> HIDE DEF u
    <2> QED
      BY <2>1, MovedIsPlain DEF AboutEvents, u
  <1>2. CASE c.state = "Connected" /\ IsClosure(p)
    <2>1. u.conn = Moved(c, "Closed", <<"Closed", TRUE>>)
      BY <1>2 DEF UpdateReceiveState, Moved, TerminalStates
    <2> HIDE DEF u
    <2> QED
      BY <2>1, MovedIsPlain DEF AboutEvents, u
  <1>3. CASE c.state # "Connecting" /\ ~(c.state = "Connected" /\ IsClosure(p))
    <2>1. c.state \in TerminalStates \/ c.state \in {"Closing", "Connected"}
      <3>1. c.state \in States5
        BY DEF IsConnection
      <3>2. c.state # "Connecting"
        BY <1>3
      <3> QED
        BY <3>1, <3>2 DEF States5, OpenStates
    <2>2. u.conn = c
      BY <1>3, <2>1 DEF UpdateReceiveState, TerminalStates
    <2> HIDE DEF u
    <2> QED
      BY <2>2 DEF u
  <1> QED
    BY <1>1, <1>2, <1>3

LEMMA SendStateIsPlain ==
    ASSUME NEW c, IsConnection(c), IsPlain(c.events)
    PROVE  IsPlain(UpdateSendState(c).conn.events)
  <1>1. \A state, event : TimesOut(c, state, event) => event \in AboutEvents
    BY DEF TimesOut, AboutEvents
  <1> QED
    BY <1>1, TimeOutState, MovedIsPlain

\* The calls that are quiet for both directions.
LEMMA CallsKept ==
    ASSUME NEW c, IsConnection(c), Loaded(c)
    PROVE  /\ SenderKept(c, c) /\ ReceiverKept(c, c)
           /\ SenderKept(Close(c), c) /\ ReceiverKept(Close(c), c)
           /\ SenderKept(Drained(c), c) /\ ReceiverKept(Drained(c), c)
           /\ IsPlain(Drained(c).events) /\ Drained(c).queue.recvQueue = <<>>
  <1>1. OnlyMoves(c, c)
    BY DEF OnlyMoves, IsConnection
  <1>2. /\ OnlyMoves(Close(c), c) /\ Close(c).state = "Closing"
        /\ Close(c).events = c.events
    BY DEF OnlyMoves, IsConnection, Close
  <1>3. SenderKept(c, c) /\ ReceiverKept(c, c)
    BY <1>1, MovesKept
  <1>4. SenderKept(Close(c), c) /\ ReceiverKept(Close(c), c)
    BY <1>2, MovesKept DEF Closes
  <1>5. /\ SenderKept(Drained(c), c) /\ ReceiverKept(Drained(c), c)
        /\ IsPlain(Drained(c).events) /\ Drained(c).queue.recvQueue = <<>>
    <2> DEFINE e == <<>>
               left == QueueDismiss(c.queue)
               new == Drained(c)
    <2>1. IsPlain(e)
      BY EmptySet DEF IsPlain, IsList
    <2>2. left = [c.queue EXCEPT !.recvQueue = e]
      BY DEF QueueDismiss
    <2>3. new = [c EXCEPT !.events = e, !.queue = left]
      BY DEF Drained
    <2>4. c.queue \in QueuesOf(Datas)
      BY DEF Loaded
    <2> HIDE DEF left, new
    <2>5. /\ left.recvQueue = e /\ left.iQueue = c.queue.iQueue
          /\ left.rQueue = c.queue.rQueue /\ left.oQueue = c.queue.oQueue
          /\ left.localOrderId = c.queue.localOrderId
          /\ left.remoteOrderId = c.queue.remoteOrderId
          /\ left.oRecvHeap = c.queue.oRecvHeap
      BY <2>2, <2>4 DEF QueuesOf
    <2>6. /\ new.queue = left /\ new.sentAckQueue = c.sentAckQueue
          /\ new.state = c.state /\ new.localSeq = c.localSeq
          /\ new.remoteSeq = c.remoteSeq /\ new.events = e
      BY <2>3 DEF IsConnection
    <2> HIDE DEF e
    <2>7. SenderKept(new, c)
      BY <2>5, <2>6 DEF SenderKept, Own, Queued, Closes
    <2>8. ReceiverKept(new, c)
      BY <2>1, <2>5, <2>6 DEF ReceiverKept, Closes, e
    <2> QED
      BY <2>1, <2>5, <2>6, <2>7, <2>8 DEF new, e
  <1> QED
    BY <1>3, <1>4, <1>5

LEMMA ElapseKept ==
    ASSUME NEW c, IsConnection(c), Loaded(c)
    PROVE  SenderKept(Elapse(c), c) /\ ReceiverKept(Elapse(c), c)
  <1> DEFINE q == c.sentAckQueue
             aged == [i \in DOMAIN q |-> Aged(q[i])]
             received == Older(c.sinceRecv, LongestThreshold)
             sent == Older(c.sinceSend, DropThreshold)
             new == Elapse(c)
  <1>1. new = [c EXCEPT !.sinceRecv = received, !.sinceSend = sent,
                        !.sentAckQueue = aged]
    BY DEF Elapse
  <1> HIDE DEF received, sent, new
  <1>2. \A b \in ToSet(q) : Aged(b).payload = b.payload
    BY DEF IsEntry, Aged, IsConnection
  <1>3. \A a \in ToSet(aged) : \E b \in ToSet(q) : a = Aged(b)
    BY DEF ToSet
  <1> HIDE DEF aged
  <1>4. /\ new.queue = c.queue /\ new.sentAckQueue = aged
        /\ new.state = c.state /\ new.localSeq = c.localSeq
        /\ new.remoteSeq = c.remoteSeq /\ new.events = c.events
    BY <1>1 DEF IsConnection
  <1> HIDE DEF q
  <1>5. SenderKept(new, c)
    <2>1. \A a \in ToSet(aged) : \E b \in ToSet(q) : a.payload = b.payload
      BY <1>2, <1>3
    <2> QED
      BY <1>4, <2>1 DEF SenderKept, Own, Closes, q
  <1>6. ReceiverKept(new, c)
    BY <1>4 DEF ReceiverKept, Closes
  <1> QED
    BY <1>5, <1>6 DEF new

\* send()
LEMMA PostKept ==
    ASSUME NEW c, IsConnection(c), Loaded(c), NEW kind \in Kinds,
           NEW data \in Datas, NEW len \in Nat
    PROVE  LET new == SendMessage(c, kind, data, len)
           IN  /\ ReceiverKept(new, c)
               /\ new.localSeq = c.localSeq
               /\ Closes(c) => Closes(new)
               /\ new.queue.localOrderId =
                     IF kind = "Ordered"
                     THEN Successor(c.queue.localOrderId, MaxOrderId)
                     ELSE c.queue.localOrderId
               /\ \E m \in Sendable :
                     /\ m.kind = kind /\ m.data = data
                     /\ m.order = c.queue.localOrderId
                     /\ Own(new) = Own(c) \cup {m}
                     /\ new.queue.iQueue = IF kind = "Instant"
                                           THEN Append(c.queue.iQueue, m)
                                           ELSE c.queue.iQueue
  <1> DEFINE q == QueueSend(c.queue, kind, data, len)
             new == SendMessage(c, kind, data, len)
  <1>1. new = [c EXCEPT !.queue = q]
    BY DEF SendMessage
  <1>2. /\ q.recvQueue = c.queue.recvQueue /\ q.oRecvHeap = c.queue.oRecvHeap
        /\ q.remoteOrderId = c.queue.remoteOrderId
        /\ q.localOrderId = IF kind = "Ordered"
                            THEN Successor(c.queue.localOrderId, MaxOrderId)
                            ELSE c.queue.localOrderId
    BY SendQueues DEF Loaded
  <1>3. PICK m \in Sendable :
           /\ m.kind = kind /\ m.data = data
           /\ m.order = c.queue.localOrderId
           /\ Queued(q) = Queued(c.queue) \cup {m}
           /\ q.iQueue = IF kind = "Instant" THEN Append(c.queue.iQueue, m)
                         ELSE c.queue.iQueue
    BY SendQueues DEF Loaded, Sendable
  <1> HIDE DEF q, new
  <1>4. /\ new.queue = q /\ new.sentAckQueue = c.sentAckQueue
        /\ new.state = c.state /\ new.localSeq = c.localSeq
        /\ new.remoteSeq = c.remoteSeq /\ new.events = c.events
    BY <1>1 DEF IsConnection
  <1>5. ReceiverKept(new, c)
    BY <1>2, <1>4 DEF ReceiverKept, Closes
  <1>6. Own(new) = Own(c) \cup {m}
    BY <1>3, <1>4 DEF Own
  <1>7. (Closes(c) => Closes(new)) /\ new.localSeq = c.localSeq
    BY <1>4 DEF Closes
  <1> QED
    BY <1>2, <1>3, <1>4, <1>5, <1>6, <1>7 DEF new

\* receive_packet() adds nothing to what the connection has to send; ...
LEMMA ReceiveKept ==
    ASSUME ~Scrambles, NEW c, IsConnection(c), Loaded(c),
           NEW p, p.seq \in SeqNumbers, IsPayload(p.payload)
    PROVE  LET new == ReceivePacket(c, p)
               u == UpdateReceiveState(c, p)
           IN  /\ SenderKept(new, c)
               /\ IsPlain(c.events) => IsPlain(new.events)
               /\ ~u.accepts => ReceiverKept(new, c)
               /\ u.accepts => \E returned \in QueuesOf(Datas) :
                     /\ OnlyReturns(returned, c.queue)
                     /\ new.queue = QueueReceivePacket(returned, p.payload)
  <1> DEFINE u == UpdateReceiveState(c, p)
             new == ReceivePacket(c, p)
             unknown == ToSet(c.sentAckQueue)
             lost == Only(c.sentAckQueue, {a \in unknown : TimedOut(p, a)})
             waiting == Only(c.sentAckQueue,
                             {a \in unknown : ~AckedBy(p, a) /\ ~TimedOut(p, a)})
             returned == TakenBack(c.queue, lost)
             taken == QueueReceivePacket(returned, p.payload)
             losses == [i \in DOMAIN lost |-> <<"PacketLost">>]
  <1>1. /\ u.accepts \in BOOLEAN
        /\ u.conn = [c EXCEPT !.state = u.conn.state, !.events = u.conn.events]
        /\ u.conn.state = "Connecting" => c.state = "Connecting"
        /\ Closes(c) => Closes(u.conn)
    <2>1. /\ u.accepts \in BOOLEAN
          /\ c.state = "Connecting" => u.accepts
          /\ u.conn = [c EXCEPT !.state = u.conn.state,
                                !.events = u.conn.events]
          /\ u.conn.state \in States5
          /\ u.conn.state = "Connecting" => c.state = "Connecting"
          /\ Closes(c) => Closes(u.conn)
      BY ReceiveState
    <2> HIDE DEF u
    <2> QED
      BY <2>1
  <1>2. IsPlain(c.events) => IsPlain(u.conn.events)
    BY ReceiveStateIsPlain
  <1>3. ~u.accepts => new = u.conn
    BY DEF ReceivePacket
  <1>4. u.accepts => /\ new.queue = taken /\ new.sentAckQueue = waiting
                     /\ new.events = u.conn.events \o losses
    <2>1. Incoming(p.payload) = p.payload
      BY PayloadFacts
    <2>2. ASSUME u.accepts
          PROVE  \E recv, numbers :
                    new = [u.conn EXCEPT
                             !.sinceRecv = recv, !.remoteSeq = p.seq,
                             !.queue = taken,
                             !.sentAckQueue =
                                Only(@, {a \in unknown :
                                           ~AckedBy(p, a) /\ ~TimedOut(p, a)}),
                             !.recvAckQueue = numbers,
                             !.events = @ \o losses]
      BY <2>1, <2>2 DEF ReceivePacket
    <2> HIDE DEF u, taken, new, losses
    <2>3. u.conn = [state |-> u.conn.state, localSeq |-> c.localSeq,
                    remoteSeq |-> c.remoteSeq, sinceRecv |-> c.sinceRecv,
                    sinceSend |-> c.sinceSend, recvAckQueue |-> c.recvAckQueue,
                    sentAckQueue |-> c.sentAckQueue, queue |-> c.queue,
                    events |-> u.conn.events]
      BY <1>1 DEF IsConnection
    <2>4. u.conn.sentAckQueue = c.sentAckQueue
      BY <2>3
    <2> QED
      BY <2>2, <2>3, <2>4
  <1>5. /\ new.localSeq = c.localSeq /\ new.state = u.conn.state
    BY ReceiveEffect
  <1>6. /\ \E S : lost \in Seq(S)
        /\ ToSet(lost) \subseteq unknown /\ ToSet(waiting) \subseteq unknown
    <2>1. PICK S : c.sentAckQueue \in Seq(S)
      BY DEF IsConnection
    <2> QED
      BY <2>1, OnlyFacts
  <1>7. IsPlain(losses)
    <2>1. PICK S : lost \in Seq(S)
      BY <1>6
    <2> DEFINE one == <<"PacketLost">>
    <2>2. one[1] # "Message"
      BY AboutIsPlain
    <2> HIDE DEF lost
    <2>3. Len(lost) \in Nat /\ losses = [i \in 1..Len(lost) |-> one]
      BY <2>1
    <2> HIDE DEF losses, one
    <2>4. losses \in Seq({one}) /\ ToSet(losses) \subseteq {one}
      BY <2>3, IsASeq DEF ToSet
    <2> QED
      BY <2>2, <2>4 DEF IsPlain, IsList
  <1> HIDE DEF u, new, lost, waiting, losses
  <1>8. /\ returned \in QueuesOf(Datas) /\ OnlyReturns(returned, c.queue)
        /\ Queued(returned) \subseteq
              Queued(c.queue) \cup UNION {Carried(a.payload) : a \in ToSet(lost)}
    <2>1. c.queue \in QueuesOf(Datas) /\ \A a \in ToSet(lost) : IsPayload(a.payload)
      BY <1>6 DEF Loaded
    <2> QED
      BY <1>6, <2>1, TakenBackHolds
  <1> HIDE DEF returned
  <1>9. taken \in QueuesOf(Datas) /\ SameOutgoing(taken, returned)
    <2>1. PICK out \in Seq(Sendable) : p.payload = Wire(out)
      BY DEF IsPayload
    <2> QED
      BY <1>8, <2>1, ReceivePacketTypes DEF Sendable
  <1>10. CASE ~u.accepts
    <2>1. OnlyMoves(new, c)
      BY <1>1, <1>3, <1>10 DEF OnlyMoves
    <2>2. SenderKept(new, c) /\ ReceiverKept(new, c)
      BY <1>1, <1>2, <1>3, <1>10, <2>1, MovesKept
    <2> QED
      BY <1>2, <1>3, <1>10, <2>2 DEF u, new
  <1>11. CASE u.accepts
    <2>1. Own(new) \subseteq Own(c)
      <3>1. /\ Queued(new.queue) \subseteq
                   Queued(c.queue) \cup UNION {Carried(a.payload) : a \in unknown}
            /\ ToSet(new.sentAckQueue) \subseteq unknown
        BY <1>4, <1>6, <1>8, <1>9, <1>11 DEF SameOutgoing, Queued
      <3> QED
        BY <3>1 DEF Own
    <2>2. /\ new.queue.iQueue = c.queue.iQueue
          /\ new.queue.localOrderId = c.queue.localOrderId
      BY <1>4, <1>8, <1>9, <1>11 DEF SameOutgoing, OnlyReturns
    <2>3. Closes(c) => Closes(new)
      BY <1>1, <1>5 DEF Closes
    <2>4. SenderKept(new, c)
      BY <1>5, <2>1, <2>2, <2>3 DEF SenderKept
    <2>5. IsPlain(c.events) => IsPlain(new.events)
      BY <1>2, <1>4, <1>7, <1>11, PlainMore
    <2>6. new.queue = QueueReceivePacket(returned, p.payload)
      BY <1>4, <1>11
    <2> QED
      BY <1>8, <1>11, <2>4, <2>5, <2>6 DEF u, new
  <1> QED
    BY <1>1, <1>10, <1>11

\* ... and takes a packet in only if it is newer than the last one, or the first
\* one, or the connection is closing.
LEMMA AcceptedIsNew ==
    ASSUME NEW c, IsConnection(c), NEW p, p.seq \in SeqNumbers,
           UpdateReceiveState(c, p).accepts
    PROVE  LET new == ReceivePacket(c, p)
           IN  /\ new.remoteSeq = p.seq /\ new.state # "Connecting"
               /\ \/ c.state = "Connecting"
                  \/ Closes(c) /\ Closes(new)
                  \/ SeqIsMoreRecent(p.seq, c.remoteSeq)
  <1> DEFINE u == UpdateReceiveState(c, p)
             new == ReceivePacket(c, p)
  <1>1. new.remoteSeq = p.seq /\ new.state = u.conn.state
    BY ReceiveEffect
  <1>2. Closes(c) => Closes(u.conn)
    BY ReceiveState
  <1>3. /\ u.conn.state # "Connecting"
        /\ c.state = "Connecting" \/ c.state = "Closing"
           \/ SeqIsMoreRecent(p.seq, c.remoteSeq)
    <2>1. c.state \in States5
      BY DEF IsConnection
    <2>2. CASE c.state \in TerminalStates
      BY <2>2 DEF UpdateReceiveState, TerminalStates
    <2>3. CASE c.state = "Closing"
      BY <2>3 DEF UpdateReceiveState, TerminalStates
    <2>4. CASE c.state = "Connecting"
      BY <2>4 DEF UpdateReceiveState, TerminalStates, Emit, IsConnection
    <2>5. CASE c.state = "Connected"
      BY <2>5 DEF UpdateReceiveState, TerminalStates
    <2>6. \/ c.state \in TerminalStates \/ c.state = "Closing"
          \/ c.state = "Connecting" \/ c.state = "Connected"
      BY <2>1 DEF States5, OpenStates
    <2> QED
      BY <2>2, <2>3, <2>4, <2>5, <2>6
  <1> HIDE DEF u, new
  <1> QED
    BY <1>1, <1>2, <1>3 DEF Closes, u, new

\* Messages behind others are once each, and so are the others; none is in both.
LEMMA OnceEachParts ==
    ASSUME NEW S, NEW s \in Seq(S), NEW t \in Seq(S), OnceEach(Joined(s, t))
    PROVE  /\ OnceEach(s) /\ OnceEach(t)
           /\ \A m \in ToSet(s), x \in ToSet(t) :
                 m.kind = "Instant" /\ x.kind = "Instant" => x.data # m.data
  <1> DEFINE w == Joined(s, t)
  <1>1. IsJoin(w, s, t)
    BY JoinedAt
  <1>2. \A i, j \in DOMAIN w :
           w[i].kind = "Instant" /\ w[j].kind = "Instant" /\ w[i].data = w[j].data
           => i = j
    BY DEF OnceEach
  <1> HIDE DEF w
  <1>3. /\ \A i \in DOMAIN s : i \in DOMAIN w /\ w[i] = s[i] /\ i <= Len(s) /\ i \in Nat
        /\ \A j \in DOMAIN t : /\ j + Len(s) \in DOMAIN w
                              /\ w[j + Len(s)] = t[j] /\ j \in Nat \ {0}
        /\ Len(s) \in Nat
    BY <1>1 DEF IsJoin
  <1>4. OnceEach(s)
    BY <1>2, <1>3 DEF OnceEach
  <1>5. OnceEach(t)
    <2> SUFFICES ASSUME NEW i \in DOMAIN t, NEW j \in DOMAIN t,
                        t[i].kind = "Instant", t[j].kind = "Instant",
                        t[i].data = t[j].data
                 PROVE  i = j
      BY DEF OnceEach
    <2>1. i + Len(s) = j + Len(s)
      BY <1>2, <1>3
    <2> QED
      BY <1>3, <2>1
  <1>6. ASSUME NEW m \in ToSet(s), NEW x \in ToSet(t),
               m.kind = "Instant", x.kind = "Instant", x.data = m.data
        PROVE  FALSE
    <2>1. PICK i \in DOMAIN s, j \in DOMAIN t : s[i] = m /\ t[j] = x
      BY DEF ToSet
    <2>2. i = j + Len(s)
      BY <1>2, <1>3, <1>6, <2>1
    <2> QED
      BY <1>3, <2>1, <2>2
  <1> QED
    BY <1>4, <1>5, <1>6

\* send_packet() when it builds a packet: it takes the messages out of the queues.
Builds(c, r, id) ==
    /\ Own(r.conn) \subseteq Own(c)
    /\ r.conn.queue.localOrderId = c.queue.localOrderId
    /\ r.conn.localSeq = Successor(c.localSeq, MaxSeqNumber)
    /\ Closes(c) => Closes(r.conn)
    /\ ToSet(r.conn.queue.iQueue) \subseteq ToSet(c.queue.iQueue)
    /\ OnceEach(c.queue.iQueue) => OnceEach(r.conn.queue.iQueue)
    /\ \A p, o \in r.packet : p = o
    /\ \A p \in r.packet :
          /\ p.id = id /\ IsPayload(p.payload)
          /\ ~Closes(c) => p.seq = c.localSeq
          /\ Carried(p.payload) \subseteq Queued(c.queue)
          /\ OnceEach(c.queue.iQueue) =>
                /\ OnceEach(MessagesFromPacket(p.payload))
                /\ \A m \in Carried(p.payload), x \in ToSet(r.conn.queue.iQueue) :
                      m.kind = "Instant" => x.data # m.data

LEMMA TransmitBuilds ==
    ASSUME ~Scrambles, NEW c, IsConnection(c), Loaded(c), NEW env, NEW id
    PROVE  LET r == Transmit(c, env, id, OutgoingPacket(c))
           IN  Builds(c, r, id) /\ ReceiverKept(r.conn, c)
  <1> DEFINE out == OutgoingPacket(c)
             r == Transmit(c, env, id, out)
             note == NoteOf(c, id, out.payload)
             sent == IF SendAckRequired(c) THEN Append(c.sentAckQueue, note)
                     ELSE c.sentAckQueue
             left == QueueDismiss(out.queue)
             next == Successor(c.localSeq, MaxSeqNumber)
             msgs == MessagesFromPacket(out.payload)
  <1>1. /\ out.queue \in QueuesOf(Datas) /\ IsPayload(out.payload)
        /\ out.queue = [c.queue EXCEPT !.iQueue = out.queue.iQueue,
                                       !.rQueue = out.queue.rQueue,
                                       !.oQueue = out.queue.oQueue]
        /\ msgs \in Seq(Sendable)
        /\ Queued(out.queue) \cup ToSet(msgs) = Queued(c.queue)
        /\ OnceEach(c.queue.iQueue) => OnceEach(Joined(msgs, out.queue.iQueue))
    <2>0. c.queue \in QueuesOf(Datas)
      BY DEF Loaded
    <2>1. CASE c.state = "Closing"
      <3> DEFINE e == <<>>
      <3>1. out.queue = c.queue /\ out.payload = e
        BY <2>1 DEF OutgoingPacket
      <3>2. /\ e \in Seq(Sendable) /\ Wire(e) = e /\ ToSet(e) = {}
            /\ \A S : \A t \in Seq(S) : Joined(e, t) = t
        BY EmptySet DEF Wire, Joined
      <3> HIDE DEF e
      <3>3. MessagesFromPacket(e) = e /\ IsPayload(e)
        BY <3>2, PayloadRoundTrip DEF Sendable, IsPayload
      <3>4. c.queue = [c.queue EXCEPT !.iQueue = c.queue.iQueue,
                                      !.rQueue = c.queue.rQueue,
                                      !.oQueue = c.queue.oQueue]
            /\ \E S : c.queue.iQueue \in Seq(S)
        BY <2>0 DEF QueuesOf
      <3> HIDE DEF out
      <3> QED
        BY <2>0, <3>1, <3>2, <3>3, <3>4
    <2>2. CASE c.state # "Closing"
      <3> DEFINE q == QueueSendPacket(c.queue, PacketSpace)
      <3>1. out.queue = q.queue /\ out.payload = Outgoing(q.payload)
        BY <2>2 DEF OutgoingPacket
      <3>2. PacketSpace \in Nat
        BY ThresholdAssumption
      <3>3. PICK w : Sent(Datas, c.queue, PacketSpace, q, w)
        BY <2>0, <3>2, PackingIsSound
      <3> HIDE DEF q
      <3>4. /\ q.queue \in QueuesOf(Datas) /\ w \in Seq(Sendable)
            /\ q.queue = [c.queue EXCEPT !.iQueue = q.queue.iQueue,
                                         !.rQueue = q.queue.rQueue,
                                         !.oQueue = q.queue.oQueue]
            /\ q.payload = Wire(w)
            /\ Queued(q.queue) \cup ToSet(w) = Queued(c.queue)
            /\ OnceEach(c.queue.iQueue) => OnceEach(Joined(w, q.queue.iQueue))
        BY <3>3 DEF Sent, Sendable
      <3>5. IsPayload(q.payload) /\ MessagesFromPacket(q.payload) = w
        BY <3>4, PayloadRoundTrip DEF IsPayload, Sendable
      <3>6. Outgoing(q.payload) = q.payload
        BY <3>5, PayloadFacts
      <3> HIDE DEF out
      <3> QED
        BY <3>1, <3>4, <3>5, <3>6
    <2> QED
      BY <2>1, <2>2
  <1>2. /\ r.conn.queue = left /\ r.conn.sentAckQueue = sent
        /\ r.conn.localSeq = next /\ r.conn.state = c.state
        /\ r.conn.remoteSeq = c.remoteSeq /\ r.conn.events = c.events
    <2>1. \E since : r.conn = [c EXCEPT !.sinceSend = since, !.sentAckQueue = sent,
                                        !.localSeq = next, !.queue = left]
      BY DEF Transmit, NoteOf, IsConnection
    <2> HIDE DEF r, sent, left, next
    <2> QED
      BY <2>1 DEF IsConnection
  <1>3. /\ \A p \in r.packet : /\ p.payload = out.payload /\ p.id = id
                              /\ p.seq = out.header.seq
        /\ \A p, o \in r.packet : p = o
    <2> HIDE DEF out
    <2> QED
      BY DEF Transmit
  <1>4. ~Closes(c) => out.header.seq = c.localSeq
    BY DEF OutgoingPacket, Closes
  <1>5. /\ left.iQueue = out.queue.iQueue /\ left.oRecvHeap = c.queue.oRecvHeap
        /\ left.rQueue = out.queue.rQueue /\ left.oQueue = out.queue.oQueue
        /\ left.localOrderId = c.queue.localOrderId
        /\ left.remoteOrderId = c.queue.remoteOrderId
        /\ left.recvQueue = <<>>
    <2> DEFINE e == <<>>
    <2>1. left = [out.queue EXCEPT !.recvQueue = e]
      BY DEF QueueDismiss
    <2>2. /\ out.queue.oRecvHeap = c.queue.oRecvHeap
          /\ out.queue.localOrderId = c.queue.localOrderId
          /\ out.queue.remoteOrderId = c.queue.remoteOrderId
      <3>1. c.queue \in QueuesOf(Datas)
        BY DEF Loaded
      <3> HIDE DEF out
      <3> QED
        BY <1>1, <3>1 DEF QueuesOf
    <2> HIDE DEF left, out, e
    <2>3. /\ left.iQueue = out.queue.iQueue /\ left.oRecvHeap = out.queue.oRecvHeap
          /\ left.rQueue = out.queue.rQueue /\ left.oQueue = out.queue.oQueue
          /\ left.localOrderId = out.queue.localOrderId
          /\ left.remoteOrderId = out.queue.remoteOrderId
          /\ left.recvQueue = e
      BY <1>1, <2>1 DEF QueuesOf
    <2> QED
      BY <2>2, <2>3 DEF e
  <1>6. note.payload = out.payload
    BY DEF NoteOf
  <1>7. Carried(out.payload) = ToSet(msgs)
    BY DEF Carried
  <1> HIDE DEF out, r, left, note, next, msgs
  <1>8. ToSet(sent) \subseteq ToSet(c.sentAckQueue) \cup {note}
    <2>1. PICK S : c.sentAckQueue \in Seq(S)
      BY DEF IsConnection
    <2>2. c.sentAckQueue \in Seq(S \cup {note})
      BY <2>1
    <2>3. ToSet(Append(c.sentAckQueue, note)) = ToSet(c.sentAckQueue) \cup {note}
      BY <2>2, AppendSet
    <2> QED
      BY <2>3
  <1> HIDE DEF sent
  <1>9. Queued(left) = Queued(out.queue)
    BY <1>5 DEF Queued
  <1>10. Own(r.conn) \subseteq Own(c)
    BY <1>1, <1>2, <1>6, <1>7, <1>8, <1>9 DEF Own
  <1>11. /\ out.queue.iQueue \in Seq(OfKind(Datas, "Instant"))
         /\ out.queue.iQueue \in Seq(Sendable)
         /\ \A x \in ToSet(out.queue.iQueue) : x.kind = "Instant"
    <2>1. out.queue.iQueue \in Seq(OfKind(Datas, "Instant"))
      BY <1>1 DEF QueuesOf
    <2>2. OfKind(Datas, "Instant") \subseteq Sendable
      BY DEF OfKind, Sendable
    <2>3. out.queue.iQueue \in Seq(Sendable)
      BY <2>1, <2>2, SubsetSeq
    <2>4. \A x \in ToSet(out.queue.iQueue) : x.kind = "Instant"
      BY <2>1 DEF OfKind, ToSet
    <2> QED
      BY <2>1, <2>3, <2>4
  <1>12. ToSet(out.queue.iQueue) \subseteq ToSet(c.queue.iQueue)
    <2>1. /\ c.queue.rQueue \in Seq(OfKind(Datas, "Reliable"))
          /\ c.queue.oQueue \in Seq(OfKind(Datas, "Ordered"))
      BY DEF Loaded, QueuesOf
    <2>2. \A x \in ToSet(c.queue.rQueue) \cup ToSet(c.queue.oQueue) :
             x.kind # "Instant"
      BY <2>1 DEF OfKind, ToSet
    <2>3. ToSet(out.queue.iQueue) \subseteq Queued(c.queue)
      BY <1>1 DEF Queued
    <2> QED
      BY <1>11, <2>2, <2>3 DEF Queued
  <1>13. OnceEach(c.queue.iQueue) =>
            /\ OnceEach(out.queue.iQueue) /\ OnceEach(msgs)
            /\ \A m \in ToSet(msgs), x \in ToSet(out.queue.iQueue) :
                  m.kind = "Instant" => x.data # m.data
    BY <1>1, <1>11, OnceEachParts
  <1>14. Builds(c, r, id)
    <2>1. Closes(c) => Closes(r.conn)
      BY <1>2 DEF Closes
    <2>2. ASSUME NEW p \in r.packet
          PROVE  /\ p.id = id /\ IsPayload(p.payload)
                 /\ ~Closes(c) => p.seq = c.localSeq
                 /\ Carried(p.payload) = ToSet(msgs)
                 /\ MessagesFromPacket(p.payload) = msgs
                 /\ ToSet(msgs) \subseteq Queued(c.queue)
      BY <1>1, <1>3, <1>4, <1>7 DEF msgs
    <2> QED
      BY <1>2, <1>3, <1>5, <1>10, <1>12, <1>13, <2>1, <2>2 DEF Builds, next
  <1>15. ReceiverKept(r.conn, c)
    BY <1>2, <1>5 DEF ReceiverKept, Closes
  <1> QED
    BY <1>14, <1>15 DEF r, out

LEMMA SendBuilds ==
    ASSUME ~Scrambles, NEW c, IsConnection(c), Loaded(c), NEW env, NEW id
    PROVE  LET r == SendPacket(c, env, id)
           IN  /\ ReceiverKept(r.conn, c)
               /\ \/ r.packet = {} /\ SenderKept(r.conn, c)
                  \/ Builds(c, r, id)
  <1> DEFINE u == UpdateSendState(c)
             d == IF env.congestionChanged THEN Emit(u.conn, <<"Congestion">>)
                  ELSE u.conn
             r == SendPacket(c, env, id)
  <1>1. /\ u.sends \in BOOLEAN
        /\ u.conn = [c EXCEPT !.state = u.conn.state, !.events = u.conn.events]
        /\ u.conn.state \in States5
        /\ u.sends => u.conn = c /\ c.state \in OpenStates
        /\ u.conn.state = "Connecting" => c.state = "Connecting"
        /\ Closes(c) => Closes(u.conn)
    BY SendState
  <1>2. \/ r = [conn |-> u.conn, packet |-> {}]
        \/ r = [conn |-> d, packet |-> {}]
        \/ u.sends /\ r = Transmit(d, env, id, OutgoingPacket(d))
    BY DEF SendPacket
  <1>3. IsPlain(c.events) => IsPlain(u.conn.events)
    BY SendStateIsPlain
  <1> HIDE DEF u, r
  <1>4. /\ OnlyMoves(d, c) /\ d.state = u.conn.state
        /\ IsPlain(c.events) => IsPlain(d.events)
    <2>1. OnlyMoves(d, c) /\ d.state = u.conn.state
      BY <1>1 DEF Emit, IsConnection, OnlyMoves
    <2>2. CASE env.congestionChanged
      <3> DEFINE v == <<"Congestion">>
                 longer == Append(u.conn.events, v)
      <3>1. IsPlain(c.events) => IsPlain(longer)
        BY <1>3, PlainMore, AboutIsPlain
      <3>2. d = [u.conn EXCEPT !.events = longer]
        BY <2>2 DEF Emit
      <3> HIDE DEF d, longer
      <3>3. d.events = longer
        BY <1>1, <3>2 DEF IsConnection
      <3> QED
        BY <2>1, <3>1, <3>3
    <2>3. CASE ~env.congestionChanged
      BY <1>3, <2>1, <2>3
    <2> QED
      BY <2>1, <2>2, <2>3
  <1> HIDE DEF d
  <1>5. OnlyMoves(u.conn, c)
    BY <1>1 DEF OnlyMoves
  <1>6. ASSUME NEW x, x \in {u.conn, d}
        PROVE  /\ SenderKept(x, c) /\ ReceiverKept(x, c)
               /\ x.queue = c.queue /\ x.sentAckQueue = c.sentAckQueue
               /\ IsConnection(x) /\ Loaded(x) /\ x.localSeq = c.localSeq
               /\ Closes(c) => Closes(x)
    <2>1. /\ OnlyMoves(x, c) /\ x.state \in States5
          /\ x.state = "Connecting" => c.state = "Connecting"
          /\ IsPlain(c.events) => IsPlain(x.events)
          /\ Closes(c) => Closes(x)
      BY <1>1, <1>3, <1>4, <1>5, <1>6 DEF Closes
    <2>2. /\ SenderKept(x, c) /\ ReceiverKept(x, c)
          /\ x.queue = c.queue /\ x.sentAckQueue = c.sentAckQueue
      BY <2>1, MovesKept
    <2>3. x = [state |-> x.state, localSeq |-> c.localSeq,
               remoteSeq |-> c.remoteSeq, sinceRecv |-> c.sinceRecv,
               sinceSend |-> c.sinceSend, recvAckQueue |-> c.recvAckQueue,
               sentAckQueue |-> c.sentAckQueue, queue |-> c.queue,
               events |-> x.events]
      BY <2>1 DEF OnlyMoves, IsConnection
    <2>4. IsConnection(x)
      BY <2>1, <2>3 DEF IsConnection
    <2> QED
      BY <2>1, <2>2, <2>4 DEF Loaded, SenderKept
  <1>7. ASSUME NEW x, x \in {u.conn, d}, r = [conn |-> x, packet |-> {}]
        PROVE  ReceiverKept(r.conn, c) /\ r.packet = {} /\ SenderKept(r.conn, c)
    BY <1>6, <1>7
  <1>8. ASSUME u.sends, r = Transmit(d, env, id, OutgoingPacket(d))
        PROVE  ReceiverKept(r.conn, c) /\ Builds(c, r, id)
    <2>1. /\ IsConnection(d) /\ Loaded(d) /\ d.queue = c.queue
          /\ d.sentAckQueue = c.sentAckQueue /\ d.localSeq = c.localSeq
          /\ ReceiverKept(d, c)
      BY <1>6
    <2>2. Builds(d, r, id) /\ ReceiverKept(r.conn, d)
      BY <1>8, <2>1, TransmitBuilds
    <2>3. (Closes(d) <=> Closes(c)) /\ Own(d) = Own(c)
      BY <1>1, <1>4, <1>8, <2>1 DEF Closes, Own
    <2>4. ReceiverKept(r.conn, c)
      <3>1. /\ r.conn.queue.oRecvHeap = c.queue.oRecvHeap
            /\ r.conn.queue.remoteOrderId = c.queue.remoteOrderId
            /\ r.conn.queue.recvQueue \in {c.queue.recvQueue, <<>>}
        BY <2>1, <2>2 DEF ReceiverKept
      <3> QED
        BY <2>1, <2>2, <3>1 DEF ReceiverKept
    <2>5. Builds(c, r, id)
      BY <2>1, <2>2, <2>3 DEF Builds
    <2> QED
      BY <2>4, <2>5
  <1> QED
    BY <1>2, <1>7, <1>8 DEF r

\* One direction: sender c, which has built n packets and was given the
\* messages `said', packets ps on their way, and receiver d, which has processed
\* the packets `done' and handed over, or is to hand over, the data `told'.
OnTheWay(ps) == UNION {Carried(p.payload) : p \in ps}
Copies(c, d, ps) == Own(c) \cup OnTheWay(ps) \cup d.queue.oRecvHeap

BothUp(c, d) == ~Closes(c) /\ ~Closes(d)

DataWaiting(c) == {m.data : m \in ToSet(c.queue.iQueue)}

OrderedOf(msgs) == {m \in msgs : m.kind = "Ordered"}
OrderedData(said) == {x.data : x \in OrderedOf(said)}

\* Half of the id space: more ids cannot be compared.
Few(said) == Cardinality(OrderedOf(said)) <= MaxOrderId \div 2

\* The packets on their way, and those processed, are within MaxLag of each
\* other, so that their numbers tell which one is later.
Window(c, d, ps, n, done) ==
    /\ \A p \in ps : p.id \in 0..(n - 1)
    /\ done \subseteq 0..(n - 1)
    /\ \A p, r \in ps : r.id < p.id + MaxLag
    /\ \A p \in ps : \A id \in done : id < p.id + MaxLag
    /\ d.state = "Connecting" => done = {}
    /\ BothUp(c, d) =>
          /\ c.localSeq = n % MaxSeqNumber
          /\ \A p \in ps : p.seq = p.id % MaxSeqNumber
          /\ done # {} => \E last \in done :
                             /\ \A id \in done : id <= last
                             /\ d.remoteSeq = last % MaxSeqNumber

\* Every copy is of a message that was sent, and so is what was handed over.
SaidBy(c, d, ps, told, said) ==
    /\ \A m \in Copies(c, d, ps) :
          \E x \in said : x.kind = m.kind /\ x.data = m.data
    /\ \A data \in ToSet(told) : \E x \in said : x.data = data
    /\ OrderedOf(d.queue.oRecvHeap) = d.queue.oRecvHeap

\* An Instant message waits, or is in one packet, or has been handed over, once.
InstantsOnce(c, ps, done, told, said) ==
    /\ OnceEach(c.queue.iQueue)
    /\ \A p \in ps : OnceEach(MessagesFromPacket(p.payload))
    /\ \A p \in ps : \A m \in Carried(p.payload) : m.kind = "Instant" =>
          /\ m.data \notin DataWaiting(c)
          /\ \A r \in ps : \A x \in Carried(r.payload) :
                x.data = m.data => r.id = p.id
          /\ m.data \in ToSet(told) => \E id \in done : p.id <= id
    /\ DataWaiting(c) \cap ToSet(told) = {}
    /\ \A x \in said : x.kind = "Instant" => Once(told, x.data)

\* Ordered messages have the ids 0, 1, 2, ... in the order of send(), and are
\* handed over up to the next id.
OrderedOnce(c, d, ps, told, said) ==
    LET copies == OrderedOf(Copies(c, d, ps))
        limit == c.queue.localOrderId
    IN  /\ limit = Cardinality(OrderedOf(said))
        /\ \A m \in copies : m.order < limit
        /\ \A x, y \in copies : x.data = y.data <=> x.order = y.order
        /\ OrderKept(d.queue, told, copies, OrderedData(said), limit)

Direction(c, d, ps, n, done, told, said) ==
    /\ Window(c, d, ps, n, done)
    /\ SaidBy(c, d, ps, told, said)
    /\ BothUp(c, d) => /\ InstantsOnce(c, ps, done, told, said)
                       /\ Few(said) => OrderedOnce(c, d, ps, told, said)

Shrinks(new, told) ==
    /\ ToSet(new) \subseteq ToSet(told)
    /\ \A data : Once(told, data) => Once(new, data)

\* Fewer copies, and less that was handed over.
LEMMA OrderStaysKept ==
    ASSUME NEW q, NEW new, new.oRecvHeap = q.oRecvHeap,
           new.remoteOrderId = q.remoteOrderId,
           NEW told, NEW now, Shrinks(now, told), NEW copies, NEW fewer,
           fewer \subseteq copies, q.oRecvHeap \subseteq fewer,
           NEW all, NEW limit, OrderKept(q, told, copies, all, limit)
    PROVE  OrderKept(new, now, fewer, all, limit)
  BY DEF OrderKept, WaitAhead, Shrinks

\* Calls that give nothing to send and take nothing in.
LEMMA QuietDirection ==
    ASSUME NEW c, NEW d, NEW ps, NEW n, NEW done, NEW told, NEW said,
           Direction(c, d, ps, n, done, told, said),
           NEW c2, SenderKept(c2, c), NEW d2, ReceiverKept(d2, d),
           NEW told2, Shrinks(told2, told)
    PROVE  Direction(c2, d2, ps, n, done, told2, said)
  <1>1. /\ BothUp(c2, d2) => BothUp(c, d)
        /\ Copies(c2, d2, ps) \subseteq Copies(c, d, ps)
        /\ DataWaiting(c2) = DataWaiting(c)
        /\ d2.queue.oRecvHeap = d.queue.oRecvHeap
        /\ d2.queue.remoteOrderId = d.queue.remoteOrderId
        /\ c2.queue.localOrderId = c.queue.localOrderId
        /\ c2.queue.iQueue = c.queue.iQueue
    BY DEF SenderKept, ReceiverKept, BothUp, Copies, DataWaiting
  <1>2. Window(c2, d2, ps, n, done)
    BY <1>1 DEF Direction, Window, SenderKept, ReceiverKept
  <1>3. SaidBy(c2, d2, ps, told2, said)
    BY <1>1 DEF Direction, SaidBy, Shrinks
  <1>4. ASSUME BothUp(c2, d2)
        PROVE  InstantsOnce(c2, ps, done, told2, said)
    BY <1>1, <1>4 DEF Direction, InstantsOnce, Shrinks
  <1>5. ASSUME BothUp(c2, d2), Few(said)
        PROVE  OrderedOnce(c2, d2, ps, told2, said)
    <2> DEFINE copies == OrderedOf(Copies(c, d, ps))
               fewer == OrderedOf(Copies(c2, d2, ps))
    <2>1. fewer \subseteq copies /\ d.queue.oRecvHeap \subseteq fewer
      <3>1. OrderedOf(d.queue.oRecvHeap) = d.queue.oRecvHeap
        BY DEF Direction, SaidBy
      <3> QED
        BY <1>1, <3>1 DEF OrderedOf, Copies
    <2>2. /\ OrderKept(d.queue, told, copies, OrderedData(said), c.queue.localOrderId)
          /\ c.queue.localOrderId = Cardinality(OrderedOf(said))
          /\ \A m \in copies : m.order < c.queue.localOrderId
          /\ \A x, y \in copies : x.data = y.data <=> x.order = y.order
      BY <1>1, <1>5 DEF Direction, OrderedOnce
    <2> HIDE DEF copies, fewer
    <2>3. OrderKept(d2.queue, told2, fewer, OrderedData(said), c.queue.localOrderId)
      BY <1>1, <2>1, <2>2, OrderStaysKept
    <2> QED
      BY <1>1, <2>1, <2>2, <2>3 DEF OrderedOnce, fewer
  <1> QED
    BY <1>2, <1>3, <1>4, <1>5 DEF Direction

LEMMA ShrinksToItself ==
    ASSUME NEW told
    PROVE  Shrinks(told, told)
  BY DEF Shrinks

\* What the messages that were sent tell: their data are different.
LEMMA SameData ==
    ASSUME NEW said \in SUBSET Script, NEW c, NEW d, NEW ps, NEW told,
           SaidBy(c, d, ps, told, said)
    PROVE  /\ \A m, x \in Copies(c, d, ps) : m.data = x.data => m.kind = x.kind
           /\ \A m \in Copies(c, d, ps), x \in said :
                 m.data = x.data => m.kind = x.kind
  <1>1. \A x, y \in said : x.data = y.data => x = y
    BY LinkAssumption
  <1> QED
    BY <1>1 DEF SaidBy

\* The Instant messages among those in the queues wait in theirs.
LEMMA InstantWaits ==
    ASSUME NEW c, Loaded(c), NEW m \in Queued(c.queue), m.kind = "Instant"
    PROVE  m \in ToSet(c.queue.iQueue)
  <1>1. /\ c.queue.rQueue \in Seq(OfKind(Datas, "Reliable"))
        /\ c.queue.oQueue \in Seq(OfKind(Datas, "Ordered"))
    BY DEF Loaded, QueuesOf
  <1>2. \A x \in ToSet(c.queue.rQueue) \cup ToSet(c.queue.oQueue) : x.kind # "Instant"
    BY <1>1 DEF OfKind, ToSet
  <1> QED
    BY <1>2 DEF Queued

\* send_packet() builds a packet.
LEMMA BuildingDirection ==
    ASSUME NEW c, Loaded(c), NEW d, NEW ps, NEW n \in Nat, NEW done, NEW told,
           NEW said \in SUBSET Script, Direction(c, d, ps, n, done, told, said),
           NEW r, Builds(c, r, n), IsConnection(c),
           NEW ps2, ps2 = Carry(ps, r.packet, n + 1)
    PROVE  Direction(r.conn, d, ps2, n + 1, done, told, said)
  <1> DEFINE c2 == r.conn
  <1>1. /\ ps2 \subseteq ps \cup r.packet
        /\ \A p \in r.packet : /\ p.id = n /\ IsPayload(p.payload)
                              /\ Carried(p.payload) \subseteq Queued(c.queue)
        /\ BothUp(c2, d) => BothUp(c, d)
    BY DEF Carry, Builds, BothUp
  <1>2. Window(c2, d, ps2, n + 1, done)
    <2>1. Window(c, d, ps, n, done)
      BY DEF Direction
    <2>2. MaxLag \in Nat \ {0} /\ MaxSeqNumber \in Nat \ {0, 1}
      <3>1. MaxSeqNumber \in Nat \ {0, 1}
        BY SeqAssumption
      <3> QED
        BY <3>1, LinkAssumption
    <2>3. /\ \A p \in ps2 : p.id \in 0..n
          /\ done \subseteq 0..(n - 1)
      BY <1>1, <2>1 DEF Window
    <2>4. /\ \A p \in ps2 : p.id \in 0..((n + 1) - 1)
          /\ done \subseteq 0..((n + 1) - 1)
      BY <2>3
    <2>5. /\ \A p, o \in ps2 : o.id < p.id + MaxLag
          /\ \A p \in ps2 : \A id \in done : id < p.id + MaxLag
      <3>1. CASE r.packet = {}
        <4>1. ps2 = ps
          BY <3>1 DEF Carry
        <4> QED
          BY <2>1, <4>1 DEF Window
      <3>2. CASE r.packet # {}
        <4>1. \A p \in ps2 : p.id + MaxLag >= n + 1
          BY <3>2 DEF Carry
        <4>2. \A p \in ps2 : p.id \in Nat /\ p.id < n + 1
          BY <2>3
        <4>3. \A id \in done : id \in Nat /\ id < n + 1
          BY <2>3
        <4>4. \A p \in ps2 : p.id + MaxLag \in Nat
          BY <2>2, <4>2
        <4> QED
          BY <4>1, <4>2, <4>3, <4>4
      <3> QED
        BY <3>1, <3>2
    <2>6. ASSUME BothUp(c2, d)
          PROVE  /\ c2.localSeq = (n + 1) % MaxSeqNumber
                 /\ \A p \in ps2 : p.seq = p.id % MaxSeqNumber
      <3>1. /\ c.localSeq = n % MaxSeqNumber
            /\ \A p \in ps : p.seq = p.id % MaxSeqNumber
        BY <1>1, <2>1, <2>6 DEF Window
      <3>2. /\ c2.localSeq = Successor(c.localSeq, MaxSeqNumber)
            /\ \A p \in r.packet : p.seq = c.localSeq
        BY <1>1, <2>6 DEF Builds, BothUp
      <3>3. Successor(n % MaxSeqNumber, MaxSeqNumber) = (n + 1) % MaxSeqNumber
        BY <2>2, SuccessorIsMod
      <3> QED
        BY <1>1, <3>1, <3>2, <3>3
    <2> HIDE DEF c2
    <2> QED
      BY <1>1, <2>1, <2>4, <2>5, <2>6 DEF Window
  <1>3. Copies(c2, d, ps2) \subseteq Copies(c, d, ps)
    BY <1>1 DEF Copies, OnTheWay, Builds, Own
  <1>4. SaidBy(c2, d, ps2, told, said)
    BY <1>3 DEF Direction, SaidBy
  <1>5. ASSUME BothUp(c2, d)
        PROVE  InstantsOnce(c2, ps2, done, told, said)
    <2>1. InstantsOnce(c, ps, done, told, said)
      BY <1>1, <1>5 DEF Direction
    <2>2. /\ DataWaiting(c2) \subseteq DataWaiting(c) /\ OnceEach(c2.queue.iQueue)
          /\ \A p \in r.packet :
                /\ OnceEach(MessagesFromPacket(p.payload))
                /\ \A m \in Carried(p.payload) :
                      m.kind = "Instant" => m.data \notin DataWaiting(c2)
      BY <2>1 DEF Builds, InstantsOnce, DataWaiting
    <2>3. \A p \in r.packet : \A m \in Carried(p.payload) :
             m.kind = "Instant" => m.data \in DataWaiting(c)
      BY <1>1, InstantWaits DEF DataWaiting
    <2>4. \A p \in ps \cup r.packet : Carried(p.payload) \subseteq Copies(c, d, ps)
      BY <1>1 DEF Copies, OnTheWay, Own
    <2>5. \A m, x \in Copies(c, d, ps) : m.data = x.data => m.kind = x.kind
      BY SameData DEF Direction
    <2>6. ASSUME NEW p \in ps2, NEW m \in Carried(p.payload), m.kind = "Instant"
          PROVE  /\ m.data \notin DataWaiting(c2)
                 /\ \A o \in ps2 : \A x \in Carried(o.payload) :
                       x.data = m.data => o.id = p.id
                 /\ m.data \in ToSet(told) => \E id \in done : p.id <= id
      <3>1. ASSUME NEW o \in ps2, NEW x \in Carried(o.payload), x.data = m.data
            PROVE  o.id = p.id
        <4>1. x.kind = "Instant"
          BY <1>1, <2>4, <2>5, <2>6, <3>1
        <4> QED
          BY <1>1, <2>1, <2>3, <2>6, <3>1, <4>1 DEF InstantsOnce
      <3>2. m.data \notin DataWaiting(c2)
        BY <1>1, <2>1, <2>2, <2>6 DEF InstantsOnce
      <3>3. m.data \in ToSet(told) => \E id \in done : p.id <= id
        BY <1>1, <2>1, <2>3, <2>6 DEF InstantsOnce
      <3> QED
        BY <3>1, <3>2, <3>3
    <2> HIDE DEF c2
    <2> QED
      BY <1>1, <2>1, <2>2, <2>6 DEF InstantsOnce
  <1>6. ASSUME BothUp(c2, d), Few(said)
        PROVE  OrderedOnce(c2, d, ps2, told, said)
    <2> DEFINE copies == OrderedOf(Copies(c, d, ps))
               fewer == OrderedOf(Copies(c2, d, ps2))
    <2>1. fewer \subseteq copies /\ d.queue.oRecvHeap \subseteq fewer
      <3>1. OrderedOf(d.queue.oRecvHeap) = d.queue.oRecvHeap
        BY DEF Direction, SaidBy
      <3> QED
        BY <1>3, <3>1 DEF OrderedOf, Copies
    <2>2. /\ OrderKept(d.queue, told, copies, OrderedData(said), c.queue.localOrderId)
          /\ c.queue.localOrderId = Cardinality(OrderedOf(said))
          /\ \A m \in copies : m.order < c.queue.localOrderId
          /\ \A x, y \in copies : x.data = y.data <=> x.order = y.order
          /\ c2.queue.localOrderId = c.queue.localOrderId
      BY <1>1, <1>6 DEF Direction, OrderedOnce, Builds
    <2> HIDE DEF copies, fewer, c2
    <2>3. OrderKept(d.queue, told, fewer, OrderedData(said), c.queue.localOrderId)
      BY <2>1, <2>2, OrderStaysKept, ShrinksToItself
    <2> QED
      BY <2>1, <2>2, <2>3 DEF OrderedOnce, fewer
  <1> HIDE DEF c2
  <1>7. Direction(c2, d, ps2, n + 1, done, told, said)
    BY <1>2, <1>4, <1>5, <1>6 DEF Direction
  <1> QED
    BY <1>7 DEF c2

\* A message that has not been sent before has no copies.
LEMMA NothingSaid ==
    ASSUME NEW said \in SUBSET Script, NEW c, NEW d, NEW ps, NEW told,
           SaidBy(c, d, ps, told, said), NEW x \in Script, x \notin said
    PROVE  /\ \A m \in Copies(c, d, ps) : m.data # x.data
           /\ x.data \notin ToSet(told)
           /\ \A y \in said : y.data # x.data
  <1>1. \A y \in said : y.data # x.data
    BY LinkAssumption
  <1> QED
    BY <1>1 DEF SaidBy

LEMMA OnceEachLonger ==
    ASSUME NEW S, NEW s \in Seq(S), OnceEach(s), NEW m,
           \A x \in ToSet(s) : x.data # m.data
    PROVE  OnceEach(Append(s, m)) /\ ToSet(Append(s, m)) = ToSet(s) \cup {m}
  <1>1. s \in Seq(S \cup {m})
    OBVIOUS
  <1>2. ToSet(Append(s, m)) = ToSet(s) \cup {m}
    BY <1>1, AppendSet
  <1> DEFINE longer == Append(s, m)
             k == Len(s) + 1
  <1>3. /\ DOMAIN longer = DOMAIN s \cup {k} /\ k \notin DOMAIN s
        /\ longer[k] = m /\ \A i \in DOMAIN s : longer[i] = s[i]
    OBVIOUS
  <1> HIDE DEF longer, k
  <1>4. \A i \in DOMAIN s : s[i].data # m.data
    BY DEF ToSet
  <1>5. OnceEach(longer)
    BY <1>3, <1>4 DEF OnceEach
  <1> QED
    BY <1>2, <1>5 DEF longer

\* One more Ordered message in the count.
LEMMA OneMoreOrdered ==
    ASSUME NEW said, IsFiniteSet(said), NEW x, x \notin said
    PROVE  /\ IsFiniteSet(said \cup {x})
           /\ Few(said \cup {x}) => Few(said)
           /\ Cardinality(OrderedOf(said \cup {x})) =
                 Cardinality(OrderedOf(said))
                    + (IF x.kind = "Ordered" THEN 1 ELSE 0)
           /\ Cardinality(OrderedOf(said)) \in Nat
  <1> DEFINE before == OrderedOf(said)
             after == OrderedOf(said \cup {x})
  <1>1. IsFiniteSet(said \cup {x})
    BY FS_AddElement
  <1>2. before \subseteq said /\ x \notin before
    BY DEF OrderedOf
  <1>3. after = IF x.kind = "Ordered" THEN before \cup {x} ELSE before
    BY DEF OrderedOf
  <1> HIDE DEF before, after
  <1>4. IsFiniteSet(before) /\ Cardinality(before) \in Nat
    BY <1>2, FS_Subset, FS_CardinalityType
  <1>5. Cardinality(before \cup {x}) = Cardinality(before) + 1
    BY <1>2, <1>4, FS_AddElement
  <1>6. Cardinality(after) = Cardinality(before) + (IF x.kind = "Ordered" THEN 1 ELSE 0)
    BY <1>3, <1>4, <1>5
  <1>7. MaxOrderId \div 2 \in Nat
    BY MaxOrderIdType, DivMod
  <1>8. Cardinality(after) <= MaxOrderId \div 2 => Cardinality(before) <= MaxOrderId \div 2
    BY <1>4, <1>6, <1>7
  <1> QED
    BY <1>1, <1>4, <1>6, <1>8 DEF Few, before, after

\* Below half of the id space the ids do not wrap.
LEMMA OrderIdGrows ==
    ASSUME NEW k \in Nat, k + 1 <= MaxOrderId \div 2
    PROVE  Successor(k, MaxOrderId) = k + 1
  <1>1. MaxOrderId \in Nat \ {0, 1} /\ 2 * (MaxOrderId \div 2) <= MaxOrderId
    BY MaxOrderIdType, Z3
  <1>2. k + 1 < MaxOrderId
    BY <1>1
  <1> QED
    BY <1>1, <1>2 DEF Successor

LEMMA CopiesAreMessages ==
    ASSUME NEW c, Loaded(c), NEW d, Loaded(d), NEW ps,
           \A p \in ps : IsPayload(p.payload)
    PROVE  /\ Copies(c, d, ps) \subseteq Sendable
           /\ \A m \in Copies(c, d, ps) : m.order \in Nat /\ m.data \in Datas
  <1>1. /\ c.queue \in QueuesOf(Datas) /\ d.queue \in QueuesOf(Datas)
        /\ \A k : OfKind(Datas, k) \subseteq Sendable
    BY DEF Loaded, OfKind, Sendable
  <1>2. Queued(c.queue) \subseteq Sendable
    <2>1. /\ c.queue.iQueue \in Seq(Sendable) /\ c.queue.rQueue \in Seq(Sendable)
          /\ c.queue.oQueue \in Seq(Sendable)
      BY <1>1, SubsetSeq DEF QueuesOf
    <2> QED
      BY <2>1 DEF Queued, ToSet
  <1>3. UNION {Carried(a.payload) : a \in ToSet(c.sentAckQueue)} \subseteq Sendable
    BY PayloadFacts DEF Loaded
  <1>4. OnTheWay(ps) \subseteq Sendable
    BY PayloadFacts DEF OnTheWay
  <1>5. d.queue.oRecvHeap \subseteq Sendable
    BY <1>1 DEF QueuesOf, Sendable
  <1>6. Copies(c, d, ps) \subseteq Sendable
    BY <1>2, <1>3, <1>4, <1>5 DEF Copies, Own
  <1>7. \A m \in Sendable : m.order \in Nat /\ m.data \in Datas
    BY DEF Sendable, MessagesOf, OrderIds
  <1> QED
    BY <1>6, <1>7

\* send()
LEMMA PostingDirection ==
    ASSUME NEW c, IsConnection(c), Loaded(c), NEW d, Loaded(d), NEW ps,
           \A p \in ps : IsPayload(p.payload), NEW n, NEW done,
           NEW told, NEW said \in SUBSET Script, IsFiniteSet(said),
           Direction(c, d, ps, n, done, told, said),
           NEW x \in Script, x \notin said
    PROVE  Direction(SendMessage(c, x.kind, x.data, x.len), d, ps, n, done, told,
                     said \cup {x})
  <1> DEFINE c2 == SendMessage(c, x.kind, x.data, x.len)
             all == said \cup {x}
             L == c.queue.localOrderId
  <1>0. x.kind \in Kinds /\ x.data \in Datas /\ x.len \in Nat
    <2>1. x.kind \in Kinds /\ x.len \in Sizes
      BY LinkAssumption
    <2>2. Sizes \subseteq Nat
      BY DEF Sizes
    <2> QED
      BY <2>1, <2>2 DEF Datas
  <1>1. /\ c2.localSeq = c.localSeq /\ (Closes(c) => Closes(c2))
        /\ c2.queue.localOrderId = IF x.kind = "Ordered"
                                   THEN Successor(L, MaxOrderId) ELSE L
        /\ \E m \in Sendable :
              /\ m.kind = x.kind /\ m.data = x.data /\ m.order = L
              /\ Own(c2) = Own(c) \cup {m}
              /\ c2.queue.iQueue = IF x.kind = "Instant"
                                   THEN Append(c.queue.iQueue, m)
                                   ELSE c.queue.iQueue
    BY <1>0, PostKept
  <1>2. PICK m \in Sendable :
              /\ m.kind = x.kind /\ m.data = x.data /\ m.order = L
              /\ Own(c2) = Own(c) \cup {m}
              /\ c2.queue.iQueue = IF x.kind = "Instant"
                                   THEN Append(c.queue.iQueue, m)
                                   ELSE c.queue.iQueue
    BY <1>1
  <1> HIDE DEF c2
  <1>3. /\ \A y \in Copies(c, d, ps) : y.data # x.data
        /\ x.data \notin ToSet(told)
        /\ \A y \in said : y.data # x.data
    BY NothingSaid DEF Direction
  <1>4. Copies(c2, d, ps) = Copies(c, d, ps) \cup {m}
    BY <1>2 DEF Copies
  <1>5. BothUp(c2, d) => BothUp(c, d)
    BY <1>1 DEF BothUp
  <1>6. Window(c2, d, ps, n, done)
    BY <1>1, <1>5 DEF Direction, Window
  <1>7. SaidBy(c2, d, ps, told, all)
    BY <1>2, <1>4 DEF Direction, SaidBy
  <1>8. ASSUME BothUp(c2, d)
        PROVE  InstantsOnce(c2, ps, done, told, all)
    <2>1. InstantsOnce(c, ps, done, told, said)
      BY <1>5, <1>8 DEF Direction
    <2>2. /\ OnceEach(c2.queue.iQueue)
          /\ DataWaiting(c2) \subseteq DataWaiting(c) \cup {x.data}
      <3>1. c.queue.iQueue \in Seq(OfKind(Datas, "Instant")) /\ OnceEach(c.queue.iQueue)
        BY <2>1 DEF Loaded, QueuesOf, InstantsOnce
      <3>2. \A y \in ToSet(c.queue.iQueue) : y.data # m.data
        BY <1>2, <1>3 DEF Copies, Own, Queued
      <3>3. /\ OnceEach(Append(c.queue.iQueue, m))
            /\ ToSet(Append(c.queue.iQueue, m)) = ToSet(c.queue.iQueue) \cup {m}
        BY <3>1, <3>2, OnceEachLonger
      <3> QED
        BY <1>2, <3>1, <3>3 DEF DataWaiting
    <2>3. \A p \in ps : \A y \in Carried(p.payload) : y.data # x.data
      BY <1>3 DEF Copies, OnTheWay
    <2>4. Once(told, x.data)
      BY <1>3 DEF Once, ToSet
    <2> QED
      BY <1>3, <2>1, <2>2, <2>3, <2>4 DEF InstantsOnce
  <1>9. ASSUME BothUp(c2, d), Few(all)
        PROVE  OrderedOnce(c2, d, ps, told, all)
    <2> DEFINE copies == OrderedOf(Copies(c, d, ps))
               more == OrderedOf(Copies(c2, d, ps))
               L2 == c2.queue.localOrderId
    <2>1. /\ Few(said) /\ Cardinality(OrderedOf(said)) \in Nat
          /\ Cardinality(OrderedOf(all)) =
                Cardinality(OrderedOf(said)) + (IF x.kind = "Ordered" THEN 1 ELSE 0)
      BY <1>9, OneMoreOrdered
    <2>2. /\ OrderKept(d.queue, told, copies, OrderedData(said), L)
          /\ L = Cardinality(OrderedOf(said))
          /\ \A y \in copies : y.order < L
          /\ \A y, z \in copies : y.data = z.data <=> y.order = z.order
      BY <1>5, <1>9, <2>1 DEF Direction, OrderedOnce
    <2>3. more = IF x.kind = "Ordered" THEN copies \cup {m} ELSE copies
      BY <1>2, <1>4 DEF OrderedOf
    <2>4. /\ \A y \in copies : y.data # x.data /\ y.kind = "Ordered"
          /\ d.queue.oRecvHeap \subseteq copies
      <3>1. OrderedOf(d.queue.oRecvHeap) = d.queue.oRecvHeap
        BY DEF Direction, SaidBy
      <3> QED
        BY <1>3, <3>1 DEF OrderedOf, Copies
    <2>5. OrderedData(all) = IF x.kind = "Ordered" THEN OrderedData(said) \cup {x.data}
                             ELSE OrderedData(said)
      BY DEF OrderedData, OrderedOf
    <2>6. CASE x.kind # "Ordered"
      BY <1>1, <2>1, <2>2, <2>3, <2>5, <2>6 DEF OrderedOnce
    <2>7. CASE x.kind = "Ordered"
      <3> HIDE DEF copies, more, all, L, L2
      <3>1. /\ L \in Nat /\ L2 = L + 1 /\ L2 = Cardinality(OrderedOf(all))
        <4>1. L \in Nat /\ Cardinality(OrderedOf(all)) = L + 1
          BY <2>1, <2>2, <2>7
        <4>2. L + 1 <= MaxOrderId \div 2
          BY <1>9, <4>1 DEF Few
        <4>3. Successor(L, MaxOrderId) = L + 1
          BY <4>1, <4>2, OrderIdGrows
        <4> QED
          BY <1>1, <2>7, <4>1, <4>3 DEF L2
      <3>2. \A y \in copies : y.order \in Nat /\ y.order < L
        BY <2>2, CopiesAreMessages DEF copies, OrderedOf
      <3>3. \A y \in more : y.order < L2
        BY <1>2, <2>3, <2>7, <3>1, <3>2
      <3>4. \A y, z \in more : y.data = z.data <=> y.order = z.order
        BY <1>2, <2>2, <2>3, <2>4, <2>7, <3>1, <3>2
      <3>5. OrderKept(d.queue, told, more, OrderedData(all), L2)
        <4>1. WaitAhead(d.queue, L2)
          <5>1. d.queue.remoteOrderId \in Nat
            BY DEF Loaded, QueuesOf, OrderIds
          <5> QED
            BY <2>2, <2>4, <3>1, <3>2, <5>1 DEF OrderKept, WaitAhead
        <4>2. \A y \in more : y.data \in ToSet(told) => y.order < d.queue.remoteOrderId
          BY <1>2, <1>3, <2>2, <2>3, <2>7 DEF OrderKept
        <4>3. Once(told, x.data)
          BY <1>3 DEF Once, ToSet
        <4> QED
          BY <2>2, <2>3, <2>4, <2>5, <2>7, <4>1, <4>2, <4>3 DEF OrderKept
      <3> QED
        BY <3>1, <3>3, <3>4, <3>5 DEF OrderedOnce, more, L2
    <2> QED
      BY <2>6, <2>7
  <1> QED
    BY <1>6, <1>7, <1>8, <1>9 DEF Direction, c2

\* A packet that is taken in is newer than all that have been, unless the
\* connection is closing.
LEMMA TakenIsNewer ==
    ASSUME NEW c, NEW d, IsConnection(d), NEW ps, NEW n \in Nat, NEW done,
           Window(c, d, ps, n, done), NEW p \in ps, p.seq \in SeqNumbers,
           UpdateReceiveState(d, p).accepts, ~Closes(c),
           ~Closes(ReceivePacket(d, p))
    PROVE  \A id \in done : id < p.id
  <1> DEFINE new == ReceivePacket(d, p)
  <1>1. \/ d.state = "Connecting"
        \/ Closes(d) /\ Closes(new)
        \/ SeqIsMoreRecent(p.seq, d.remoteSeq)
    BY AcceptedIsNew
  <1> HIDE DEF new
  <1>2. CASE d.state = "Connecting"
    BY <1>2 DEF Window
  <1>3. CASE done = {}
    BY <1>3
  <1>4. CASE ~(Closes(d) /\ Closes(new)) /\ d.state # "Connecting" /\ done # {}
    <2>1. ~Closes(new) /\ ~Closes(d)
      <3>1. Closes(d) => Closes(new)
        <4>1. Closes(d) => Closes(UpdateReceiveState(d, p).conn)
          BY ReceiveState
        <4>2. new.state = UpdateReceiveState(d, p).conn.state
          BY ReceiveEffect DEF new
        <4> QED
          BY <4>1, <4>2 DEF Closes
      <3> QED
        BY <3>1 DEF new
    <2>2. BothUp(c, d)
      BY <2>1 DEF BothUp
    <2>3. PICK last \in done : /\ \A id \in done : id <= last
                              /\ d.remoteSeq = last % MaxSeqNumber
      BY <1>4, <2>2 DEF Window
    <2>4. /\ p.id \in 0..(n - 1) /\ last \in 0..(n - 1) /\ last < p.id + MaxLag
          /\ p.seq = p.id % MaxSeqNumber /\ done \subseteq 0..(n - 1)
      BY <2>2 DEF Window
    <2>5. MoreRecent(p.id % MaxSeqNumber, last % MaxSeqNumber, MaxSeqNumber)
      BY <1>1, <1>4, <2>3, <2>4 DEF SeqIsMoreRecent
    <2>6. last < p.id
      <3> SUFFICES ASSUME p.id <= last PROVE FALSE
        BY <2>4
      <3> DEFINE k == last - p.id
      <3>1. /\ k \in Nat /\ last = p.id + k /\ k < MaxLag /\ p.id \in Nat
            /\ MaxSeqNumber \in Nat \ {0, 1} /\ MaxLag \in 1..(MaxSeqNumber \div 2)
        <4>1. MaxSeqNumber \in Nat \ {0, 1}
          BY SeqAssumption
        <4>2. MaxLag \in 1..(MaxSeqNumber \div 2)
          BY LinkAssumption
        <4>3. MaxLag \in Nat
          BY <4>1, <4>2
        <4> QED
          BY <2>4, <4>1, <4>2, <4>3
      <3>2. 2 * (MaxSeqNumber \div 2) <= MaxSeqNumber /\ MaxSeqNumber \div 2 \in Nat
        BY <3>1, Z3
      <3> HIDE DEF k
      <3>3. 2 * k < MaxSeqNumber
        BY <3>1, <3>2
      <3>4. CASE k = 0
        <4>1. last = p.id
          BY <3>1, <3>4
        <4>2. p.id % MaxSeqNumber \in 0..(MaxSeqNumber - 1)
          BY <3>1, DivMod
        <4> QED
          BY <2>5, <4>1, <4>2 DEF MoreRecent
      <3>5. CASE k # 0
        <4>1. ~MoreRecent(p.id % MaxSeqNumber, (p.id + k) % MaxSeqNumber, MaxSeqNumber)
          BY <3>1, <3>3, <3>5, MoreRecentIsLater
        <4> QED
          BY <2>5, <3>1, <4>1
      <3> QED
        BY <3>4, <3>5
    <2> QED
      BY <2>3, <2>4, <2>6
  <1> QED
    BY <1>2, <1>3, <1>4 DEF new

\* receive_packet() takes a packet in.  `pre' is what the application has got.
LEMMA ArrivingDirection ==
    ASSUME ~Scrambles, NEW c, Loaded(c), NEW d, IsConnection(d), Loaded(d),
           NEW ps, \A p \in ps : IsPayload(p.payload), NEW n \in Nat, NEW done,
           NEW pre \in Seq(Datas), NEW said \in SUBSET Script,
           Direction(c, d, ps, n, done, Handed(pre, d.queue), said),
           NEW p \in ps, p.seq \in SeqNumbers, UpdateReceiveState(d, p).accepts
    PROVE  LET new == ReceivePacket(d, p)
           IN  Direction(c, new, ps, n, done \cup {p.id},
                         Handed(pre, new.queue), said)
  <1> DEFINE new == ReceivePacket(d, p)
             told == Handed(pre, d.queue)
             now == Handed(pre, new.queue)
             heap == d.queue.oRecvHeap
             more == done \cup {p.id}
  <1>1. /\ new.remoteSeq = p.seq /\ new.state # "Connecting"
        /\ Closes(d) => Closes(new)
    <2>1. new.remoteSeq = p.seq /\ new.state # "Connecting"
      BY AcceptedIsNew
    <2>2. Closes(d) => Closes(UpdateReceiveState(d, p).conn)
      BY ReceiveState
    <2>3. new.state = UpdateReceiveState(d, p).conn.state
      BY ReceiveEffect
    <2> QED
      BY <2>1, <2>2, <2>3 DEF Closes
  <1>2. PICK returned \in QueuesOf(Datas) :
           /\ OnlyReturns(returned, d.queue)
           /\ new.queue = QueueReceivePacket(returned, p.payload)
    <2>1. IsPayload(p.payload)
      OBVIOUS
    <2> QED
      BY <2>1, ReceiveKept
  <1>3. PICK out \in Seq(Sendable) : p.payload = Wire(out)
    BY DEF IsPayload
  <1>4. MessagesFromPacket(p.payload) = out /\ Carried(p.payload) = ToSet(out)
    BY <1>3, PayloadRoundTrip DEF Sendable, Carried
  <1>5. /\ Handed(pre, returned) = told /\ returned.oRecvHeap = heap
        /\ returned.remoteOrderId = d.queue.remoteOrderId
    BY <1>2 DEF OnlyReturns, Handed
  <1> HIDE DEF new, told, now, heap
  <1>6. /\ new.queue.oRecvHeap \subseteq heap \cup OrderedOf(ToSet(out))
        /\ ToSet(now) \subseteq
              ToSet(told) \cup {m.data : m \in ToSet(out) \cup heap}
    <2> DEFINE x == QueueReceivePacket(returned, Wire(out))
    <2>1. /\ x.oRecvHeap \subseteq
                returned.oRecvHeap \cup {m \in ToSet(out) : m.kind = "Ordered"}
          /\ ToSet(Handed(pre, x)) \subseteq
                ToSet(Handed(pre, returned))
                \cup {m.data : m \in ToSet(out) \cup returned.oRecvHeap}
      BY <1>2, ReceivedData DEF Sendable
    <2> HIDE DEF x
    <2>2. new.queue = x
      BY <1>2, <1>3 DEF x
    <2> QED
      BY <1>5, <2>1, <2>2 DEF now, OrderedOf
  <1>7. ToSet(out) \subseteq OnTheWay(ps) /\ heap \cup ToSet(out) \subseteq Copies(c, d, ps)
    BY <1>4 DEF OnTheWay, Copies, heap
  <1>8. Copies(c, new, ps) \subseteq Copies(c, d, ps)
    BY <1>6, <1>7 DEF Copies, heap, OrderedOf
  <1>9. OrderedOf(heap) = heap
    BY DEF Direction, SaidBy, heap
  <1>10. SaidBy(c, d, ps, told, said)
    BY DEF Direction, told
  <1>11. /\ \A m, x \in Copies(c, d, ps) : m.data = x.data => m.kind = x.kind
         /\ \A m \in Copies(c, d, ps), x \in said : m.data = x.data => m.kind = x.kind
    BY <1>10, SameData
  <1>12. BothUp(c, new) => BothUp(c, d)
    BY <1>1 DEF BothUp
  <1>13. SaidBy(c, new, ps, now, said)
    <2>1. \A data \in ToSet(now) : \E x \in said : x.data = data
      BY <1>6, <1>7, <1>10 DEF SaidBy
    <2>2. OrderedOf(new.queue.oRecvHeap) = new.queue.oRecvHeap
      BY <1>6, <1>9 DEF OrderedOf
    <2> QED
      BY <1>8, <1>10, <2>1, <2>2 DEF SaidBy
  <1>14. BothUp(c, new) => \A id \in done : id < p.id
    <2>1. Window(c, d, ps, n, done)
      BY DEF Direction
    <2> QED
      BY <2>1, TakenIsNewer DEF BothUp, new
  <1>15. Window(c, new, ps, n, more)
    <2>1. Window(c, d, ps, n, done)
      BY DEF Direction
    <2>2. /\ \A o \in ps : o.id \in 0..(n - 1)
          /\ more \subseteq 0..(n - 1)
          /\ \A o, r \in ps : r.id < o.id + MaxLag
          /\ \A o \in ps : \A id \in more : id < o.id + MaxLag
      BY <2>1 DEF Window
    <2>3. ASSUME BothUp(c, new)
          PROVE  /\ c.localSeq = n % MaxSeqNumber
                 /\ \A o \in ps : o.seq = o.id % MaxSeqNumber
                 /\ \A id \in more : id <= p.id
      <3>1. \A id \in more : id <= p.id
        <4>1. p.id \in Int /\ \A id \in done : id \in Int
          BY <2>1 DEF Window
        <4> QED
          BY <1>14, <2>3, <4>1
      <3> QED
        BY <1>12, <2>1, <2>3, <3>1 DEF Window
    <2> QED
      BY <1>1, <2>2, <2>3 DEF Window
  <1>16. ASSUME BothUp(c, new)
         PROVE  InstantsOnce(c, ps, more, now, said)
    <2>1. InstantsOnce(c, ps, done, told, said)
      BY <1>12, <1>16 DEF Direction, told
    <2>2. \A m \in heap : m.kind # "Instant"
      BY <1>9 DEF OrderedOf
    <2>3. \A m \in ToSet(c.queue.iQueue) : m.kind = "Instant" /\ m \in Copies(c, d, ps)
      <3>1. c.queue.iQueue \in Seq(OfKind(Datas, "Instant"))
        BY DEF Loaded, QueuesOf
      <3> QED
        BY <3>1 DEF OfKind, ToSet, Copies, Own, Queued
    <2>4. ASSUME NEW m \in Copies(c, d, ps), m.kind = "Instant", m.data \in ToSet(now)
          PROVE  \/ m.data \in ToSet(told)
                 \/ \E x \in ToSet(out) : x.data = m.data /\ x.kind = "Instant"
      BY <1>6, <1>7, <1>11, <2>2, <2>4
    <2>5. DataWaiting(c) \cap ToSet(now) = {}
      <3> SUFFICES ASSUME NEW m \in ToSet(c.queue.iQueue), m.data \in ToSet(now)
                   PROVE  FALSE
        BY DEF DataWaiting
      <3> QED
        BY <1>4, <2>1, <2>3, <2>4 DEF InstantsOnce, DataWaiting
    <2>6. ASSUME NEW o \in ps, NEW m \in Carried(o.payload), m.kind = "Instant",
                 m.data \in ToSet(now)
          PROVE  \E id \in more : o.id <= id
      <3>1. m \in Copies(c, d, ps)
        BY DEF Copies, OnTheWay
      <3>2. CASE m.data \in ToSet(told)
        BY <2>1, <2>6, <3>2 DEF InstantsOnce
      <3>3. ASSUME NEW x \in ToSet(out), x.data = m.data, x.kind = "Instant"
            PROVE  \E id \in more : o.id <= id
        <4>1. p.id = o.id
          BY <1>4, <2>1, <2>6, <3>3 DEF InstantsOnce
        <4>2. p.id \in Int
          BY DEF Direction, Window
        <4> QED
          BY <4>1, <4>2
      <3> QED
        BY <2>4, <2>6, <3>1, <3>2, <3>3
    <2>7. ASSUME NEW x \in said, x.kind = "Instant"
          PROVE  Once(now, x.data)
      <3>1. /\ \A m \in ToSet(out) : m.data = x.data => m.kind = "Instant"
            /\ \A m \in heap : m.data # x.data
        BY <1>7, <1>11, <2>2, <2>7
      <3>2. OnceEach(out) /\ Once(told, x.data)
        BY <1>4, <2>1, <2>7 DEF InstantsOnce
      <3>3. ASSUME x.data \in ToSet(told), NEW m \in ToSet(out), m.data = x.data
            PROVE  FALSE
        <4>1. PICK id \in done : p.id <= id
          BY <1>4, <2>1, <3>1, <3>3 DEF InstantsOnce
        <4>2. id < p.id /\ id \in Int /\ p.id \in Int
          BY <1>14, <1>16 DEF Direction, Window
        <4> QED
          BY <4>1, <4>2
      <3>4. Once(Handed(pre, QueueReceivePacket(returned, Wire(out))), x.data)
        BY <1>2, <1>5, <3>1, <3>2, <3>3, ReceivedOnce DEF Sendable
      <3> QED
        BY <1>2, <1>3, <3>4 DEF now
    <2> QED
      BY <2>1, <2>5, <2>6, <2>7 DEF InstantsOnce
  <1>17. ASSUME BothUp(c, new), Few(said)
         PROVE  OrderedOnce(c, new, ps, now, said)
    <2> DEFINE copies == OrderedOf(Copies(c, d, ps))
               fewer == OrderedOf(Copies(c, new, ps))
               L == c.queue.localOrderId
               all == OrderedData(said)
    <2>1. /\ OrderKept(d.queue, told, copies, all, L)
          /\ L = Cardinality(OrderedOf(said))
          /\ \A m \in copies : m.order < L
          /\ \A x, y \in copies : x.data = y.data <=> x.order = y.order
      BY <1>12, <1>17 DEF Direction, OrderedOnce, told
    <2>2. \A x \in copies : /\ x.kind = "Ordered" /\ x.data \in all
                           /\ x.order \in Nat /\ x.order < L
      <3>1. \A x \in copies : x.order \in Nat
        BY CopiesAreMessages DEF OrderedOf
      <3>2. \A x \in copies : x.kind = "Ordered" /\ x.data \in all
        BY <1>10, <1>11 DEF SaidBy, OrderedOf, OrderedData
      <3> QED
        BY <2>1, <3>1, <3>2
    <2>3. \A m \in ToSet(out) :
             IF m.kind = "Ordered" THEN m \in copies ELSE m.data \notin all
      BY <1>7, <1>11 DEF OrderedOf, OrderedData
    <2>4. L \in 0..(MaxOrderId \div 2)
      <3>1. L \in Nat /\ MaxOrderId \div 2 \in Nat
        <4>1. MaxOrderId \div 2 \in Nat
          BY MaxOrderIdType, Z3
        <4>2. L \in Nat
          BY DEF Loaded, QueuesOf, OrderIds
        <4> QED
          BY <4>1, <4>2
      <3> QED
        BY <1>17, <2>1, <3>1 DEF Few
    <2>5. OrderKept(returned, Handed(pre, returned), copies, all, L)
      BY <1>5, <2>1 DEF OrderKept, WaitAhead, heap
    <2> HIDE DEF copies, L, all
    <2>6. OrderKept(new.queue, now, copies, all, L)
      <3> DEFINE x == QueueReceivePacket(returned, Wire(out))
      <3>1. OrderKept(x, Handed(pre, x), copies, all, L)
        BY <1>2, <2>1, <2>2, <2>3, <2>4, <2>5, ReceivedInTurn DEF Sendable
      <3> HIDE DEF x
      <3>2. new.queue = x
        BY <1>2, <1>3 DEF x
      <3> QED
        BY <3>1, <3>2 DEF now
    <2>7. fewer \subseteq copies /\ new.queue.oRecvHeap \subseteq fewer
      <3>1. OrderedOf(new.queue.oRecvHeap) = new.queue.oRecvHeap
        BY <1>13 DEF SaidBy
      <3> QED
        BY <1>8, <3>1 DEF OrderedOf, Copies, copies
    <2> HIDE DEF fewer
    <2>8. OrderKept(new.queue, now, fewer, all, L)
      BY <2>6, <2>7, OrderStaysKept, ShrinksToItself
    <2> QED
      BY <2>1, <2>7, <2>8 DEF OrderedOnce, fewer, L, all
  <1>18. Direction(c, new, ps, n, more, now, said)
    BY <1>13, <1>15, <1>16, <1>17 DEF Direction
  <1> QED
    BY <1>18 DEF new, now

Told(e) == Handed(got[e], conn[e].queue)
SaidFrom(e) == {x \in posted : x.from = e}

Directed(e) ==
    LET f == Peer(e)
    IN  Direction(conn[e], conn[f], net[f], count[e], processed[f], Told(f),
                  SaidFrom(e))

OnceInv ==
    /\ MessageInv /\ IsFiniteSet(posted) /\ got \in [Ends -> Seq(Datas)]
    /\ \A e \in Ends : IsPlain(conn[e].events) /\ Directed(e)

\* Behind events that are no messages, the messages come one by one.
LEMMA PendingMessages ==
    ASSUME NEW c, IsPlain(c.events), c.queue \in QueuesOf(Datas)
    PROVE  Messages(PendingEvents(c)) = DataIn(c.queue.recvQueue)
  <1> DEFINE q == c.queue.recvQueue
             ms == [i \in DOMAIN q |-> <<"Message", q[i].data>>]
             w == Joined(c.events, ms)
             set == {v \in ToSet(w) : v[1] = "Message"}
             T == {<<"Message", x>> : x \in Datas}
  <1>1. q \in Seq(MessagesOf(Datas))
    BY DEF QueuesOf
  <1>2. \A m \in MessagesOf(Datas) : m.data \in Datas
    BY DEF MessagesOf
  <1>3. DOMAIN ms = DOMAIN q /\ \A i \in DOMAIN q : ms[i] = <<"Message", q[i].data>>
    OBVIOUS
  <1>4. \A i \in DOMAIN q : q[i].data \in Datas
    BY <1>1, <1>2
  <1>5. ms \in Seq(T)
    <2>1. Len(q) \in Nat /\ DOMAIN q = 1..Len(q)
      BY <1>1
    <2>2. \A i \in DOMAIN q : <<"Message", q[i].data>> \in T
      BY <1>4
    <2>3. ms = [i \in 1..Len(q) |-> <<"Message", q[i].data>>]
      BY <2>1
    <2> HIDE DEF ms, q, T
    <2> QED
      BY <2>1, <2>2, <2>3, IsASeq
  <1>6. PICK S : c.events \in Seq(S)
    BY DEF IsPlain, IsList
  <1> DEFINE U == S \cup T
  <1>7. c.events \in Seq(U) /\ ms \in Seq(U)
    BY <1>5, <1>6, SubsetSeq
  <1>8. ToSet(w) = ToSet(c.events) \cup ToSet(ms)
    BY <1>7, JoinedSet
  <1>9. \A v \in ToSet(ms) : v[1] = "Message"
    <2>1. \A v \in ToSet(ms) : \E i \in DOMAIN q : v = <<"Message", q[i].data>>
      BY <1>3 DEF ToSet
    <2>2. \A x : <<"Message", x>>[1] = "Message"
      OBVIOUS
    <2> HIDE DEF ms, q
    <2> QED
      BY <2>1, <2>2
  <1> HIDE DEF ms, U, w, T
  <1>10. ToSet(c.events) \cap set = {} /\ ToSet(ms) \subseteq set
    BY <1>8, <1>9 DEF IsPlain
  <1> HIDE DEF set
  <1>11. Only(w, set) = Joined(Only(c.events, set), Only(ms, set))
    BY <1>7, OnlyConcat DEF w
  <1>12. Only(c.events, set) = <<>> /\ Only(ms, set) = ms
    BY <1>7, <1>10, OnlyNone, OnlyAll
  <1>13. Joined(<<>>, ms) = ms
    BY <1>7 DEF Joined
  <1>14. PendingEvents(c) = w
    BY DEF PendingEvents, w, ms, Joined
  <1>15. Only(w, set) = ms
    BY <1>11, <1>12, <1>13
  <1>16. Messages(PendingEvents(c)) = [i \in DOMAIN ms |-> ms[i][2]]
    BY <1>14, <1>15 DEF Messages, set
  <1> QED
    BY <1>3, <1>16 DEF DataIn

\* What is handed over stays, or what the application has not fetched is gone.
LEMMA HandedShrinks ==
    ASSUME NEW d, Loaded(d), NEW d2, ReceiverKept(d2, d), NEW pre \in Seq(Datas)
    PROVE  Shrinks(Handed(pre, d2.queue), Handed(pre, d.queue))
  <1> DEFINE data == DataIn(d.queue.recvQueue)
  <1>1. data \in Seq(Datas)
    <2>1. d.queue.recvQueue \in Seq(MessagesOf(Datas))
      BY DEF Loaded, QueuesOf
    <2> QED
      BY <2>1, DataInJoined
  <1>2. CASE d2.queue.recvQueue = d.queue.recvQueue
    BY <1>2, ShrinksToItself DEF Handed
  <1>3. CASE d2.queue.recvQueue = <<>>
    <2>1. Handed(pre, d2.queue) = pre
      BY <1>3 DEF Handed, Joined, DataIn
    <2>2. ToSet(Joined(pre, data)) = ToSet(pre) \cup ToSet(data)
      BY <1>1, JoinedSet
    <2>3. \A x : Once(Joined(pre, data), x) => Once(pre, x)
      BY <1>1, OnceJoined
    <2> QED
      BY <2>1, <2>2, <2>3 DEF Shrinks, Handed
  <1> QED
    BY <1>2, <1>3 DEF ReceiverKept

LEMMA DirectedFacts ==
    ASSUME OnceInv, NEW e \in Ends
    PROVE  /\ IsConnection(conn[e]) /\ Loaded(conn[e]) /\ IsPlain(conn[e].events)
           /\ count[e] \in Nat /\ got[e] \in Seq(Datas)
           /\ \A p \in net[e] : IsPayload(p.payload) /\ p.seq \in SeqNumbers
           /\ SaidFrom(e) \in SUBSET Script /\ IsFiniteSet(SaidFrom(e))
           /\ Directed(e)
  <1>1. /\ MessageInv /\ LinkInv /\ LinkShape
        /\ IsPlain(conn[e].events) /\ Directed(e)
        /\ got[e] \in Seq(Datas)
    BY DEF OnceInv, MessageInv, LinkInv
  <1>2. IsFiniteSet(SaidFrom(e)) /\ SaidFrom(e) \in SUBSET Script
    <2>1. SaidFrom(e) \subseteq posted
      BY DEF SaidFrom
    <2> QED
      BY <1>1, <2>1, FS_Subset DEF OnceInv, MessageInv
  <1>3. \A p \in net[e] : p.seq \in SeqNumbers
    BY <1>1, PeerOfPeer DEF LinkInv
  <1>4. IsConnection(conn[e]) /\ count[e] \in Nat
    BY <1>1 DEF LinkShape
  <1>5. Loaded(conn[e]) /\ \A p \in net[e] : IsPayload(p.payload)
    BY <1>1 DEF MessageInv
  <1> QED
    BY <1>1, <1>2, <1>3, <1>4, <1>5

\* A step that is quiet for the messages of end e.
LEMMA DirectedStays ==
    ASSUME NEW e \in Ends, NEW f, f = Peer(e), Directed(e),
           SenderKept(conn'[e], conn[e]), ReceiverKept(conn'[f], conn[f]),
           net'[f] = net[f], count'[e] = count[e], processed'[f] = processed[f],
           SaidFrom(e)' = SaidFrom(e), Shrinks(Told(f)', Told(f))
    PROVE  Directed(e)'
  <1>1. Direction(conn[e], conn[f], net[f], count[e], processed[f], Told(f),
                  SaidFrom(e))
    BY DEF Directed
  <1>2. Direction(conn'[e], conn'[f], net[f], count[e], processed[f], Told(f)',
                  SaidFrom(e))
    BY <1>1, QuietDirection
  <1> QED
    BY <1>2 DEF Directed

LEMMA ToldStays ==
    ASSUME OnceInv, NEW e \in Ends, got'[e] = got[e],
           ReceiverKept(conn'[e], conn[e])
    PROVE  Shrinks(Told(e)', Told(e))
  <1>1. Loaded(conn[e]) /\ got[e] \in Seq(Datas)
    BY DirectedFacts
  <1>2. Shrinks(Handed(got[e], conn'[e].queue), Handed(got[e], conn[e].queue))
    BY <1>1, HandedShrinks
  <1> QED
    BY <1>2 DEF Told

\* A step that is quiet for both directions.
LEMMA OnceStays ==
    ASSUME OnceInv, MessageInv', posted' = posted,
           got' \in [Ends -> Seq(Datas)],
           \A e \in Ends : /\ SenderKept(conn'[e], conn[e])
                           /\ ReceiverKept(conn'[e], conn[e])
                           /\ Shrinks(Told(e)', Told(e))
                           /\ net'[e] = net[e] /\ count'[e] = count[e]
                           /\ processed'[e] = processed[e]
    PROVE  OnceInv'
  <1>1. ASSUME NEW e \in Ends
        PROVE  IsPlain(conn'[e].events) /\ Directed(e)'
    <2>1. Directed(e) /\ IsPlain(conn[e].events) /\ Peer(e) \in Ends
      BY PeerOfPeer DEF OnceInv
    <2>2. SaidFrom(e)' = SaidFrom(e)
      BY DEF SaidFrom
    <2>3. Directed(e)'
      BY <2>1, <2>2, DirectedStays
    <2> QED
      BY <2>1, <2>3 DEF ReceiverKept
  <1>2. IsFiniteSet(posted)'
    BY DEF OnceInv
  <1> QED
    BY <1>1, <1>2 DEF OnceInv

LEMMA ArriveOnce ==
    ASSUME ~Scrambles, OnceInv, MessageInv', NEW e \in Ends, NEW p \in net[e],
           Arrive(e, p)
    PROVE  OnceInv'
  <1> DEFINE s == Peer(e)
             c == conn[e]
             u == UpdateReceiveState(c, p)
             new == ReceivePacket(c, p)
  <1>1. s \in Ends /\ Peer(s) = e /\ s # e /\ \A g \in Ends : g \in {e, s}
    BY PeerOfPeer
  <1>2. /\ IsConnection(c) /\ Loaded(c) /\ IsPlain(c.events)
        /\ IsPayload(p.payload) /\ p.seq \in SeqNumbers /\ Directed(e)
        /\ got[e] \in Seq(Datas)
    BY DirectedFacts
  <1>3. /\ IsConnection(conn[s]) /\ Loaded(conn[s]) /\ count[s] \in Nat
        /\ SaidFrom(s) \in SUBSET Script /\ Directed(s)
        /\ IsPlain(conn[s].events)
    BY <1>1, DirectedFacts
  <1>4. /\ UNCHANGED <<net, count, posted, got>>
        /\ conn' = [conn EXCEPT ![e] = new]
        /\ processed' = IF u.accepts
                        THEN [processed EXCEPT ![e] = processed[e] \cup {p.id}]
                        ELSE processed
    BY DEF Arrive, history
  <1>5. /\ conn'[e] = new /\ conn'[s] = conn[s] /\ processed'[s] = processed[s]
        /\ processed'[e] = IF u.accepts THEN processed[e] \cup {p.id}
                           ELSE processed[e]
    <2>1. DOMAIN conn = Ends /\ DOMAIN processed = Ends
      BY DEF OnceInv, MessageInv, LinkInv, LinkShape
    <2> HIDE DEF u, new, s
    <2> QED
      BY <1>1, <1>4, <2>1
  <1>6. /\ SenderKept(new, c)
        /\ IsPlain(c.events) => IsPlain(new.events)
        /\ ~u.accepts => ReceiverKept(new, c)
    BY <1>2, ReceiveKept
  <1>7. SenderKept(conn[s], conn[s]) /\ ReceiverKept(conn[s], conn[s])
    BY <1>3, CallsKept
  <1>8. SaidFrom(e)' = SaidFrom(e) /\ SaidFrom(s)' = SaidFrom(s)
    BY <1>4 DEF SaidFrom
  <1>9. got' \in [Ends -> Seq(Datas)] /\ IsFiniteSet(posted')
    BY <1>4 DEF OnceInv
  <1>10. CASE ~u.accepts
    <2>1. \A g \in Ends : /\ SenderKept(conn'[g], conn[g])
                          /\ ReceiverKept(conn'[g], conn[g])
      BY <1>1, <1>5, <1>6, <1>7, <1>10
    <2>2. \A g \in Ends : Shrinks(Told(g)', Told(g))
      BY <1>4, <2>1, ToldStays
    <2>3. processed' = processed
      BY <1>4, <1>10
    <2> QED
      BY <1>4, <1>9, <2>1, <2>2, <2>3, OnceStays
  <1>11. CASE u.accepts
    <2>1. Direction(conn[s], c, net[e], count[s], processed[e],
                    Handed(got[e], c.queue), SaidFrom(s))
      BY <1>1, <1>3 DEF Directed, Told
    <2>2. Direction(conn[s], new, net[e], count[s], processed[e] \cup {p.id},
                    Handed(got[e], new.queue), SaidFrom(s))
      <3>1. \A o \in net[e] : IsPayload(o.payload)
        BY DirectedFacts
      <3> HIDE DEF s, c
      <3> QED
        BY <1>2, <1>3, <1>11, <2>1, <3>1, ArrivingDirection DEF u, new
    <2> HIDE DEF new, u, c
    <2>3. Directed(s)'
      BY <1>1, <1>4, <1>5, <1>8, <1>11, <2>2 DEF Directed, Told
    <2>4. Directed(e)'
      <3>1. Shrinks(Told(s)', Told(s))
        BY <1>4, <1>5, ShrinksToItself DEF Told
      <3> QED
        BY <1>1, <1>2, <1>4, <1>5, <1>6, <1>7, <1>8, <3>1, DirectedStays DEF c
    <2>5. \A g \in Ends : IsPlain(conn'[g].events)
      BY <1>1, <1>2, <1>3, <1>5, <1>6
    <2> QED
      BY <1>1, <1>9, <2>3, <2>4, <2>5 DEF OnceInv
  <1> QED
    BY <1>10, <1>11

LEMMA FlushOnce ==
    ASSUME ~Scrambles, OnceInv, MessageInv', NEW e \in Ends, NEW env \in Envs,
           Flush(e, env)
    PROVE  OnceInv'
  <1> DEFINE f == Peer(e)
             c == conn[e]
             r == SendPacket(c, env, count[e])
             n == count[e] + (IF r.conn.localSeq # c.localSeq THEN 1 ELSE 0)
  <1>1. f \in Ends /\ Peer(f) = e /\ f # e /\ \A g \in Ends : g \in {e, f}
    BY PeerOfPeer
  <1>2. /\ IsConnection(c) /\ Loaded(c) /\ IsPlain(c.events) /\ count[e] \in Nat
        /\ SaidFrom(e) \in SUBSET Script /\ Directed(e) /\ got[e] \in Seq(Datas)
    BY DirectedFacts
  <1>3. /\ IsConnection(conn[f]) /\ Loaded(conn[f]) /\ IsPlain(conn[f].events)
        /\ Directed(f)
    BY <1>1, DirectedFacts
  <1>4. /\ conn' = [conn EXCEPT ![e] = r.conn]
        /\ count' = [count EXCEPT ![e] = n]
        /\ net' = [net EXCEPT ![f] = Carry(net[f], r.packet, n)]
        /\ UNCHANGED <<posted, got, processed>>
    BY DEF Flush, history
  <1>5. /\ conn'[e] = r.conn /\ conn'[f] = conn[f]
        /\ count'[e] = n /\ count'[f] = count[f]
        /\ net'[f] = Carry(net[f], r.packet, n) /\ net'[e] = net[e]
    <2>1. DOMAIN conn = Ends /\ DOMAIN net = Ends /\ count \in [Ends -> Nat]
      BY DEF OnceInv, MessageInv, LinkInv, LinkShape
    <2> HIDE DEF r, n, f, c
    <2> QED
      BY <1>1, <1>4, <2>1
  <1>6. /\ ReceiverKept(r.conn, c)
        /\ \/ r.packet = {} /\ SenderKept(r.conn, c)
           \/ Builds(c, r, count[e])
    BY <1>2, SendBuilds
  <1>7. SenderKept(conn[f], conn[f]) /\ ReceiverKept(conn[f], conn[f])
    BY <1>3, CallsKept
  <1>8. SaidFrom(e)' = SaidFrom(e) /\ SaidFrom(f)' = SaidFrom(f)
    BY <1>4 DEF SaidFrom
  <1>9. got' \in [Ends -> Seq(Datas)] /\ IsFiniteSet(posted')
    BY <1>4 DEF OnceInv
  <1>10. \A g \in Ends : /\ ReceiverKept(conn'[g], conn[g])
                         /\ Shrinks(Told(g)', Told(g))
    <2>1. \A g \in Ends : ReceiverKept(conn'[g], conn[g])
      BY <1>1, <1>5, <1>6, <1>7
    <2> QED
      BY <1>4, <2>1, ToldStays
  <1>11. CASE r.packet = {} /\ SenderKept(r.conn, c)
    <2>1. n = count[e]
      BY <1>2, <1>11 DEF SenderKept
    <2>2. Carry(net[f], r.packet, n) = net[f]
      BY <1>11 DEF Carry
    <2> HIDE DEF n, r, f, c
    <2>3. \A g \in Ends : SenderKept(conn'[g], conn[g])
      BY <1>1, <1>5, <1>7, <1>11 DEF c
    <2>4. \A g \in Ends : /\ net'[g] = net[g] /\ count'[g] = count[g]
                          /\ processed'[g] = processed[g]
      BY <1>1, <1>4, <1>5, <2>1, <2>2
    <2> QED
      BY <1>4, <1>9, <1>10, <2>3, <2>4, OnceStays
  <1>12. CASE Builds(c, r, count[e])
    <2>1. n = count[e] + 1
      <3>1. c.localSeq \in SeqNumbers
        BY <1>2 DEF IsConnection
      <3>2. r.conn.localSeq # c.localSeq
        BY <1>12, <3>1, SuccessorDiffers DEF Builds
      <3> QED
        BY <3>2
    <2>2. Direction(c, conn[f], net[f], count[e], processed[f], Told(f), SaidFrom(e))
      BY <1>2 DEF Directed
    <2> HIDE DEF n, r, f, c
    <2>3. Direction(r.conn, conn[f], net'[f], count[e] + 1, processed[f], Told(f),
                    SaidFrom(e))
      BY <1>2, <1>5, <1>12, <2>1, <2>2, BuildingDirection
    <2>4. Told(f)' = Told(f)
      BY <1>4, <1>5 DEF Told
    <2>5. Directed(e)'
      BY <1>4, <1>5, <1>8, <2>1, <2>3, <2>4 DEF Directed, f
    <2>6. Directed(f)'
      BY <1>1, <1>3, <1>4, <1>5, <1>7, <1>8, <1>10, DirectedStays
    <2>7. \A g \in Ends : IsPlain(conn'[g].events)
      BY <1>1, <1>2, <1>3, <1>5, <1>10 DEF ReceiverKept, c
    <2> QED
      BY <1>1, <1>9, <2>5, <2>6, <2>7 DEF OnceInv
  <1> QED
    BY <1>6, <1>11, <1>12
LEMMA PostOnce ==
    ASSUME ~Scrambles, OnceInv, MessageInv', NEW x \in Script, Post(x)
    PROVE  OnceInv'
  <1> DEFINE e == x.from
             f == Peer(e)
             c == conn[e]
             new == SendMessage(c, x.kind, x.data, x.len)
  <1>1. e \in Ends /\ f \in Ends /\ Peer(f) = e /\ f # e /\ \A g \in Ends : g \in {e, f}
    <2>1. e \in Ends
      BY LinkAssumption
    <2> QED
      BY <2>1, PeerOfPeer
  <1>2. /\ IsConnection(c) /\ Loaded(c) /\ IsPlain(c.events)
        /\ SaidFrom(e) \in SUBSET Script /\ IsFiniteSet(SaidFrom(e))
        /\ Directed(e) /\ got[e] \in Seq(Datas)
    BY <1>1, DirectedFacts
  <1>3. /\ IsConnection(conn[f]) /\ Loaded(conn[f]) /\ IsPlain(conn[f].events)
        /\ Directed(f) /\ \A p \in net[f] : IsPayload(p.payload)
    BY <1>1, DirectedFacts
  <1>4. /\ x \notin posted /\ posted' = posted \cup {x}
        /\ conn' = [conn EXCEPT ![e] = new]
        /\ UNCHANGED <<net, count, got, processed>>
    BY DEF Post, history
  <1>5. conn'[e] = new /\ conn'[f] = conn[f]
    <2>1. DOMAIN conn = Ends
      BY DEF OnceInv, MessageInv, LinkInv, LinkShape
    <2> HIDE DEF new, f
    <2> QED
      BY <1>1, <1>4, <2>1
  <1>6. ReceiverKept(new, c)
    <2>1. x.kind \in Kinds /\ x.len \in Sizes
      BY LinkAssumption
    <2>2. Sizes \subseteq Nat /\ x.data \in Datas
      BY DEF Sizes, Datas
    <2> QED
      BY <1>2, <2>1, <2>2, PostKept
  <1>7. SenderKept(conn[f], conn[f]) /\ ReceiverKept(conn[f], conn[f])
    BY <1>3, CallsKept
  <1>8. /\ SaidFrom(e)' = SaidFrom(e) \cup {x} /\ SaidFrom(f)' = SaidFrom(f)
        /\ x \notin SaidFrom(e)
    BY <1>1, <1>4 DEF SaidFrom
  <1>9. got' \in [Ends -> Seq(Datas)] /\ IsFiniteSet(posted')
    BY <1>4, FS_AddElement DEF OnceInv
  <1>10. Direction(new, conn[f], net[f], count[e], processed[f], Told(f),
                   SaidFrom(e) \cup {x})
    <2>1. Direction(c, conn[f], net[f], count[e], processed[f], Told(f), SaidFrom(e))
      BY <1>2 DEF Directed
    <2> HIDE DEF f, c, e
    <2>2. Direction(SendMessage(c, x.kind, x.data, x.len), conn[f], net[f], count[e],
                    processed[f], Told(f), SaidFrom(e) \cup {x})
      BY <1>2, <1>3, <1>8, <2>1, PostingDirection
    <2> QED
      BY <2>2 DEF c
  <1> HIDE DEF new, f, c, e
  <1>11. Directed(e)'
    <2>1. Told(f)' = Told(f)
      BY <1>4, <1>5 DEF Told
    <2> QED
      BY <1>4, <1>5, <1>8, <1>10, <2>1 DEF Directed, f
  <1>12. Directed(f)'
    <2>1. Shrinks(Told(e)', Told(e))
      BY <1>1, <1>4, <1>5, <1>6, ToldStays DEF c
    <2> QED
      BY <1>1, <1>3, <1>4, <1>5, <1>6, <1>7, <1>8, <2>1, DirectedStays DEF c
  <1>13. \A g \in Ends : IsPlain(conn'[g].events)
    BY <1>1, <1>2, <1>3, <1>5, <1>6 DEF ReceiverKept
  <1> QED
    BY <1>1, <1>9, <1>11, <1>12, <1>13 DEF OnceInv

\* The application fetches what was handed over.
LEMMA PollOnce ==
    ASSUME OnceInv, MessageInv', NEW e \in Ends, Poll(e)
    PROVE  OnceInv'
  <1> DEFINE c == conn[e]
             new == Drained(c)
             ms == Messages(PendingEvents(c))
  <1>1. /\ IsConnection(c) /\ Loaded(c) /\ IsPlain(c.events) /\ got[e] \in Seq(Datas)
    BY DirectedFacts
  <1>2. /\ UNCHANGED <<net, count, posted, processed>>
        /\ conn' = [conn EXCEPT ![e] = new] /\ got' = [got EXCEPT ![e] = got[e] \o ms]
    BY DEF Poll, history
  <1>3. /\ SenderKept(new, c) /\ ReceiverKept(new, c) /\ new.queue.recvQueue = <<>>
    BY <1>1, CallsKept
  <1>4. ms = DataIn(c.queue.recvQueue) /\ ms \in Seq(Datas)
    <2>1. c.queue \in QueuesOf(Datas) /\ c.queue.recvQueue \in Seq(MessagesOf(Datas))
      BY <1>1 DEF Loaded, QueuesOf
    <2>2. ms = DataIn(c.queue.recvQueue)
      BY <1>1, <2>1, PendingMessages
    <2>3. DataIn(c.queue.recvQueue) \in Seq(Datas)
      BY <2>1, DataInJoined
    <2> QED
      BY <2>2, <2>3
  <1> HIDE DEF new, ms, c
  <1>5. /\ conn'[e] = new /\ got'[e] = got[e] \o ms
        /\ got' \in [Ends -> Seq(Datas)]
        /\ \A g \in Ends : g # e => conn'[g] = conn[g] /\ got'[g] = got[g]
    <2>1. DOMAIN conn = Ends /\ got \in [Ends -> Seq(Datas)]
      BY DEF OnceInv, MessageInv, LinkInv, LinkShape
    <2>2. got[e] \o ms \in Seq(Datas)
      BY <1>1, <1>4
    <2> QED
      BY <1>2, <2>1, <2>2
  <1>6. Told(e)' = Told(e)
    <2> DEFINE both == got[e] \o ms
    <2>1. Told(e) = both
      BY <1>4 DEF Told, Handed, Joined, c
    <2>2. both \in Seq(Datas)
      BY <1>1, <1>4
    <2>3. DataIn(new.queue.recvQueue) = <<>>
      BY <1>3 DEF DataIn
    <2>4. Told(e)' = both \o <<>>
      BY <1>5, <2>3 DEF Told, Handed, Joined
    <2> HIDE DEF both
    <2>5. both \o <<>> = both
      BY <2>2, ConcatEmptySeq
    <2> QED
      BY <2>1, <2>4, <2>5
  <1>7. ASSUME NEW g \in Ends
        PROVE  /\ SenderKept(conn'[g], conn[g]) /\ ReceiverKept(conn'[g], conn[g])
               /\ Shrinks(Told(g)', Told(g))
    <2>1. CASE g = e
      BY <1>3, <1>5, <1>6, <2>1, ShrinksToItself DEF c
    <2>2. CASE g # e
      <3>1. IsConnection(conn[g]) /\ Loaded(conn[g])
        BY DirectedFacts
      <3>2. Told(g)' = Told(g) /\ conn'[g] = conn[g]
        BY <1>5, <2>2 DEF Told
      <3> QED
        BY <3>1, <3>2, CallsKept, ShrinksToItself
    <2> QED
      BY <2>1, <2>2
  <1> QED
    BY <1>2, <1>5, <1>7, OnceStays

LEMMA InitOnce == Init => OnceInv
  <1> SUFFICES ASSUME Init PROVE OnceInv
    OBVIOUS
  <1> DEFINE z == <<>>
  <1>1. MessageInv
    BY InitMessageInv
  <1>2. /\ posted = {} /\ got = [e \in Ends |-> z]
        /\ IsFiniteSet(posted)
    BY FS_EmptySet DEF Init
  <1>3. z \in Seq(Datas) /\ ToSet(z) = {} /\ IsPlain(z) /\ DataIn(z) = z
        /\ Joined(z, z) = z
    BY EmptySet DEF IsPlain, IsList, DataIn, Joined
  <1> DEFINE c == NewConnection
  <1>4. /\ c.state = "Connecting" /\ c.localSeq = 0 /\ c.events = z
        /\ c.sentAckQueue = z
        /\ c.queue.iQueue = z /\ c.queue.rQueue = z /\ c.queue.oQueue = z
        /\ c.queue.recvQueue = z /\ c.queue.oRecvHeap = {}
        /\ c.queue.localOrderId = 0 /\ c.queue.remoteOrderId = 0
    BY DEF NewConnection, NewQueue
  <1> HIDE DEF z, c
  <1>5. Own(c) = {} /\ Copies(c, c, {}) = {} /\ Handed(z, c.queue) = z
        /\ DataWaiting(c) = {}
    BY <1>3, <1>4 DEF Own, Copies, Queued, OnTheWay, Handed, DataWaiting
  <1>6. Direction(c, c, {}, 0, {}, z, {})
    <2>1. Window(c, c, {}, 0, {})
      <3>1. 0 % MaxSeqNumber = 0
        BY SeqAssumption, Z3
      <3> QED
        BY <1>4, <3>1 DEF Window
    <2>2. SaidBy(c, c, {}, z, {})
      BY <1>3, <1>4, <1>5 DEF SaidBy, OrderedOf
    <2>3. InstantsOnce(c, {}, {}, z, {})
      <3>1. OnceEach(z)
        BY DEF OnceEach, z
      <3> QED
        BY <1>4, <1>5, <3>1 DEF InstantsOnce
    <2>4. OrderedOnce(c, c, {}, z, {})
      <3>1. OrderedOf({}) = {} /\ Cardinality({}) = 0
        BY FS_EmptySet DEF OrderedOf
      <3>2. OrderKept(c.queue, z, {}, OrderedData({}), 0)
        BY <1>4, <3>1 DEF OrderKept, WaitAhead, OrderedData
      <3> QED
        BY <1>4, <1>5, <3>1, <3>2 DEF OrderedOnce
    <2> QED
      BY <2>1, <2>2, <2>3, <2>4 DEF Direction
  <1>7. ASSUME NEW e \in Ends
        PROVE  IsPlain(conn[e].events) /\ Directed(e)
    <2>1. /\ Peer(e) \in Ends /\ conn[e] = c /\ conn[Peer(e)] = c
          /\ net[Peer(e)] = {} /\ count[e] = 0 /\ processed[Peer(e)] = {}
          /\ got[Peer(e)] = z
      BY <1>2, PeerOfPeer DEF Init, c
    <2>2. SaidFrom(e) = {} /\ Told(Peer(e)) = z
      BY <1>2, <1>5, <2>1 DEF SaidFrom, Told
    <2> QED
      BY <1>3, <1>4, <1>6, <2>1, <2>2 DEF Directed
  <1> QED
    BY <1>1, <1>2, <1>3, <1>7 DEF OnceInv

LEMMA OnceStep ==
    ASSUME ~Scrambles, OnceInv, [Next]_vars
    PROVE  OnceInv'
  <1>1. MessageInv'
    BY MessageStep DEF OnceInv
  <1>2. /\ DOMAIN conn = Ends /\ got \in [Ends -> Seq(Datas)]
        /\ \A e \in Ends : IsConnection(conn[e]) /\ Loaded(conn[e])
    <2>1. \A e \in Ends : IsConnection(conn[e]) /\ Loaded(conn[e])
      BY DirectedFacts
    <2> QED
      BY <2>1 DEF OnceInv, MessageInv, LinkInv, LinkShape
  <1>3. ASSUME NEW e \in Ends, NEW p \in net[e], Arrive(e, p)
        PROVE  OnceInv'
    BY <1>1, <1>3, ArriveOnce
  <1>4. ASSUME NEW e \in Ends, NEW env \in Envs, Flush(e, env)
        PROVE  OnceInv'
    BY <1>1, <1>4, FlushOnce
  <1>5. ASSUME NEW e \in Ends, Poll(e)
        PROVE  OnceInv'
    BY <1>1, <1>5, PollOnce
  <1>6. ASSUME NEW m \in Script, Post(m)
        PROVE  OnceInv'
    BY <1>1, <1>6, PostOnce
  <1>7. ASSUME UNCHANGED <<net, count, posted, got, processed>>,
               \A e \in Ends : /\ SenderKept(conn'[e], conn[e])
                               /\ ReceiverKept(conn'[e], conn[e])
        PROVE  OnceInv'
    <2>1. \A e \in Ends : Shrinks(Told(e)', Told(e))
      BY <1>7, ToldStays
    <2> QED
      BY <1>1, <1>2, <1>7, <2>1, OnceStays
  <1>8. ASSUME NEW e \in Ends, CloseEnd(e)
        PROVE  OnceInv'
    <2> DEFINE new == Close(conn[e])
    <2>1. /\ conn' = [conn EXCEPT ![e] = new]
          /\ UNCHANGED <<net, count, posted, got, processed>>
      BY <1>8 DEF CloseEnd, history
    <2>2. SenderKept(new, conn[e]) /\ ReceiverKept(new, conn[e])
      BY <1>2, CallsKept
    <2> HIDE DEF new
    <2>3. conn'[e] = new /\ \A g \in Ends : g # e => conn'[g] = conn[g]
      BY <1>2, <2>1
    <2>4. \A g \in Ends : SenderKept(conn'[g], conn[g]) /\ ReceiverKept(conn'[g], conn[g])
      BY <1>2, <2>2, <2>3, CallsKept
    <2> QED
      BY <1>7, <2>1, <2>4
  <1>9. ASSUME Tick
        PROVE  OnceInv'
    <2>1. /\ conn' = [e \in Ends |-> IF e \in born THEN Elapse(conn[e])
                                     ELSE conn[e]]
          /\ UNCHANGED <<net, count, posted, got, processed>>
      BY <1>9 DEF Tick, history
    <2>2. \A g \in Ends : SenderKept(conn'[g], conn[g]) /\ ReceiverKept(conn'[g], conn[g])
      BY <1>2, <2>1, CallsKept, ElapseKept
    <2> QED
      BY <1>7, <2>1, <2>2
  <1>10. ASSUME UNCHANGED vars
         PROVE  OnceInv'
    <2>1. UNCHANGED <<conn, net, count, posted, got, processed>>
      BY <1>10 DEF vars, history
    <2>2. \A g \in Ends : SenderKept(conn'[g], conn[g]) /\ ReceiverKept(conn'[g], conn[g])
      BY <1>2, <2>1, CallsKept
    <2> QED
      BY <1>7, <2>1, <2>2
  <1> QED
    BY <1>3, <1>4, <1>5, <1>6, <1>8, <1>9, <1>10 DEF Next

\* Two occurrences of one thing are the same.
LEMMA OccurrencesOfOnce ==
    ASSUME NEW s, NEW d, Once(s, d)
    PROVE  Occurrences(d, s) <= 1
  <1> DEFINE where == {i \in DOMAIN s : s[i] = d}
  <1>1. \A i, j \in where : i = j
    BY DEF Once
  <1>2. Occurrences(d, s) = Cardinality(where)
    BY DEF Occurrences
  <1> HIDE DEF where
  <1>3. CASE where = {}
    BY <1>2, <1>3, FS_EmptySet
  <1>4. CASE where # {}
    <2>1. PICK i : where = {} \cup {i}
      BY <1>1, <1>4
    <2>2. Cardinality({} \cup {i}) = 0 + 1
      BY FS_EmptySet, FS_AddElement
    <2> QED
      BY <1>2, <2>1, <2>2
  <1> QED
    BY <1>3, <1>4

NoneCloses == \A e \in Ends : ~Closes(conn[e])

\* No end sends more Ordered messages than ids can be compared.
FewOrdered == \A e \in Ends : Few(SaidFrom(e))

InstantsAtMostOnce ==
    \A m \in posted : m.kind = "Instant" =>
        Occurrences(m.data, Received(Peer(m.from))) <= 1

LEMMA OnceImplies ==
    ASSUME OnceInv, NoneCloses
    PROVE  InstantsAtMostOnce /\ (FewOrdered => AtMostOnce)
  <1>1. ASSUME NEW m \in posted,
               m.kind = "Instant" \/ (FewOrdered /\ m.kind = "Ordered")
        PROVE  Occurrences(m.data, Received(Peer(m.from))) <= 1
    <2> DEFINE e == m.from
               f == Peer(e)
    <2>1. e \in Ends /\ f \in Ends
      <3>1. e \in Ends
        BY LinkAssumption DEF OnceInv, MessageInv
      <3> QED
        BY <3>1, PeerOfPeer
    <2>2. Received(f) = Told(f)
      <3>1. IsPlain(conn[f].events) /\ Loaded(conn[f])
        BY <2>1, DirectedFacts
      <3>2. Messages(PendingEvents(conn[f])) = DataIn(conn[f].queue.recvQueue)
        BY <3>1, PendingMessages DEF Loaded
      <3> QED
        BY <3>2 DEF Received, Told, Handed, Joined
    <2>3. /\ Direction(conn[e], conn[f], net[f], count[e], processed[f], Told(f),
                       SaidFrom(e))
          /\ BothUp(conn[e], conn[f]) /\ m \in SaidFrom(e)
          /\ FewOrdered => Few(SaidFrom(e))
      BY <2>1 DEF OnceInv, Directed, NoneCloses, BothUp, SaidFrom, FewOrdered
    <2> HIDE DEF e, f
    <2>4. Once(Told(f), m.data)
      <3>1. CASE m.kind = "Instant"
        BY <2>3, <3>1 DEF Direction, InstantsOnce
      <3>2. CASE FewOrdered /\ m.kind = "Ordered"
        <4>1. OrderedOnce(conn[e], conn[f], net[f], Told(f), SaidFrom(e))
          BY <2>3, <3>2 DEF Direction
        <4>2. m.data \in OrderedData(SaidFrom(e))
          BY <2>3, <3>2 DEF OrderedData, OrderedOf
        <4> QED
          BY <4>1, <4>2 DEF OrderedOnce, OrderKept
      <3> QED
        BY <1>1, <3>1, <3>2
    <2> QED
      BY <2>2, <2>4, OccurrencesOfOnce DEF e, f
  <1>2. \A m \in posted : m.kind \in {"Instant", "Reliable", "Ordered"}
    <2>1. \A m \in posted : m.kind \in Kinds
      BY LinkAssumption DEF OnceInv, MessageInv
    <2> QED
      BY <2>1 DEF Kinds
  <1>3. InstantsAtMostOnce
    BY <1>1 DEF InstantsAtMostOnce
  <1>4. ASSUME FewOrdered
        PROVE  AtMostOnce
    BY <1>1, <1>2, <1>4 DEF AtMostOnce
  <1> QED
    BY <1>3, <1>4

\* However often the network repeats a packet and the sender re-sends its
\* messages, Instant and Ordered messages are handed over at most once.  The
\* hypotheses are what it takes: a modifier's payloads come back as they were
\* only when it leaves them alone; neither end is closing, since a connection
\* in Closing takes every packet in, old ones too (connection.rs l.662); and no
\* end sends more Ordered messages than half of the id space, since ids further
\* apart cannot be compared (order_is_more_recent, message_queue.rs l.348).
THEOREM HandedOverOnce ==
    ASSUME ~Scrambles
    PROVE  Spec => [](NoneCloses /\ FewOrdered => AtMostOnce)
  <1>1. Init => OnceInv
    BY InitOnce
  <1>2. OnceInv /\ [Next]_vars => OnceInv'
    BY OnceStep
  <1>3. OnceInv => (NoneCloses /\ FewOrdered => AtMostOnce)
    BY OnceImplies
  <1> QED
    BY <1>1, <1>2, <1>3, PTL DEF Spec

\* For Instant messages there is no bound on how many messages are sent: not
\* their ids but the packets' numbers keep a second copy out (connection.rs
\* l.690, seq_is_more_recent).
THEOREM InstantsHandedOverOnce ==
    ASSUME ~Scrambles
    PROVE  Spec => [](NoneCloses => InstantsAtMostOnce)
  <1>1. Init => OnceInv
    BY InitOnce
  <1>2. OnceInv /\ [Next]_vars => OnceInv'
    BY OnceStep
  <1>3. OnceInv => (NoneCloses => InstantsAtMostOnce)
    BY OnceImplies
  <1> QED
    BY <1>1, <1>2, <1>3, PTL DEF Spec
=============================================================================
