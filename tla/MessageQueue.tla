---------------------------- MODULE MessageQueue ----------------------------
(***************************************************************************)
(* shared/message_queue.rs: the queue that packs outgoing messages into    *)
(* packets, unpacks incoming ones, puts Ordered messages back in order and *)
(* takes the messages of lost packets back for another transmission.       *)
(*                                                                         *)
(* A queue is a record and every method of the source is an operator that  *)
(* returns the queue after the call, so that the modules that own queues   *)
(* (OrderedMessages, MessageTransfer, Connection) can use one definition.  *)
(* The bytes of a message are a value `data' whose length is given once,   *)
(* when the message is sent; its four header bytes are kept as bytes.      *)
(*                                                                         *)
(* o_recv_heap holds at most one message per order id and o_recv_set is    *)
(* the set of those ids (both are updated together, l.315-318, l.339-340), *)
(* so one set of messages with different ids stands for the two.           *)
(***************************************************************************)
EXTENDS Wraparound, Integers, Sequences, SequencesExt, FiniteSetsExt

CONSTANTS MaxOrderId,                \* MAX_ORDER_ID, 4096 in the source
          MessageHeaderBytes,        \* MESSAGE_HEADER_BYTES, 4 in the source
          Quota                      \* Config::message_quota_*, in percent

Kinds == {"Instant", "Reliable", "Ordered"}

\* Order ids travel in 12 bits: one nibble of byte 0 and byte 1.
ASSUME MaxOrderIdAssumption == MaxOrderId \in 2..4096
ASSUME MessageHeaderAssumption == MessageHeaderBytes \in Nat \ {0}
\* Config::default() has 60, 20, 20.  Above 100 in total, l.431 would
\* subtract more than `available'.
ASSUME QuotaAssumption ==
    /\ Quota \in [Kinds -> 0..100]
    /\ Quota["Instant"] + Quota["Reliable"] + Quota["Ordered"] <= 100

OrderIds == 0..(MaxOrderId - 1)
Sizes == 0..65535

KindNibble == [Instant |-> 0, Reliable |-> 1, Ordered |-> 2]

NewQueue == [localOrderId |-> 0, remoteOrderId |-> 0,
             iQueue |-> <<>>, rQueue |-> <<>>, oQueue |-> <<>>,
             recvQueue |-> <<>>, oRecvHeap |-> {}]

\* What a sequence has of a set, in its order (iter().filter(), retain()).
Only(seq, set) ==
    FoldLeft(LAMBDA kept, x : IF x \in set THEN Append(kept, x) ELSE kept,
             <<>>, seq)

-----------------------------------------------------------------------------
(* Sending *)

\* Mutant: the order id is never reset.
QueueSendNoWrap(q, kind, data, len) ==
    LET m == [kind |-> kind, order |-> q.localOrderId,
              size |-> len % 65536, data |-> data]
    IN  [q EXCEPT !.oQueue = Append(@, m), !.localOrderId = @ + 1]

\* send(): `data' is len bytes long; only 16 bits of that length are kept.
QueueSend(q, kind, data, len) ==
    LET m == [kind |-> kind, order |-> q.localOrderId,
              size |-> len % 65536, data |-> data]
    IN  CASE kind = "Instant"  -> [q EXCEPT !.iQueue = Append(@, m)]
          [] kind = "Reliable" -> [q EXCEPT !.rQueue = Append(@, m)]
          [] kind = "Ordered"  ->
                [q EXCEPT !.oQueue = Append(@, m),
                          !.localOrderId = Successor(@, MaxOrderId)]

\* The header and data that write_message() puts on the wire for m.
Encode(m) ==
    [b0 |-> 16 * ((m.order \div 256) % 16) + KindNibble[m.kind],
     b1 |-> m.order % 256,
     b2 |-> m.size \div 256,
     b3 |-> m.size % 256,
     data |-> m.data]

Required(m) == m.size + MessageHeaderBytes

RequiredBytes(msgs) == FoldLeft(LAMBDA n, m : n + Required(m), 0, msgs)

\* How many messages from the front of the queue write_messages() can write
\* into `available' bytes: it stops at the first that does not fit.
FitCount(queue, available) ==
    Max({k \in 0..Len(queue) :
            RequiredBytes(SubSeq(queue, 1, k)) <= available})

\* A packet being filled is a record [i, r, o: what is left in the queues,
\* out: the messages written, written: their bytes].
MoveFront(w, k, n) ==
    [w EXCEPT ![k] = SubSeq(@, n + 1, Len(@)),
              !.out = @ \o SubSeq(w[k], 1, n),
              !.written = @ + RequiredBytes(SubSeq(w[k], 1, n))]

\* write_messages() for one kind, into its share of the available bytes.
WriteShare(w, k, kind, available) ==
    MoveFront(w, k, FitCount(w[k], (available * Quota[kind]) \div 100))

\* Mutant: a message that fits exactly is left out.
WriteOneStrict(w, k, available) ==
    IF w[k] # <<>> /\ Required(Head(w[k])) < available - w.written
    THEN MoveFront(w, k, 1)
    ELSE w

\* write_message() for one kind in the round-robin phase.
WriteOne(w, k, available) ==
    IF w[k] # <<>> /\ Required(Head(w[k])) <= available - w.written
    THEN MoveFront(w, k, 1)
    ELSE w

\* One turn of the `while more' loop, for a message of each kind.
Turn(w, available) ==
    FoldLeft(LAMBDA a, k : WriteOne(a, k, available), w, <<"i", "r", "o">>)

\* The loop.  A turn that writes nothing ends it and would change nothing
\* again, so as many turns as there are messages are the whole loop.
FillUp(w, available) ==
    FoldLeft(LAMBDA acc, n : Turn(acc, available),
             w, [n \in 1..(Len(w.i) + Len(w.r) + Len(w.o)) |-> n])

\* The queue that the filled packet leaves, and the payload: encoded messages.
Packed(q, w) ==
    [queue |-> [q EXCEPT !.iQueue = w.i, !.rQueue = w.r, !.oQueue = w.o],
     payload |-> [n \in DOMAIN w.out |-> Encode(w.out[n])]]

\* send_packet(): each kind's share first, then the rest in turns.
QueueSendPacket(q, available) ==
    LET empty == [i |-> q.iQueue, r |-> q.rQueue, o |-> q.oQueue,
                  out |-> <<>>, written |-> 0]
        Instant(w) == WriteShare(w, "i", "Instant", available)
        Reliable(w) == WriteShare(w, "r", "Reliable", available)
        Ordered(w) == WriteShare(w, "o", "Ordered", available)
    IN  Packed(q, FillUp(Ordered(Reliable(Instant(empty))), available))

-----------------------------------------------------------------------------
(* Receiving *)

KnownKind(e) == \E k \in Kinds : KindNibble[k] = e.b0 % 16

Decode(e) ==
    [kind |-> CHOOSE k \in Kinds : KindNibble[k] = e.b0 % 16,
     order |-> 256 * (e.b0 \div 16) + e.b1,
     size |-> 256 * e.b2 + e.b3,
     data |-> e.data]

\* messages_from_packet(): messages of unknown kind are skipped.
MessagesFromPacket(payload) ==
    LET known == Only(payload, {e \in ToSet(payload) : KnownKind(e)})
    IN  [n \in 1..Len(known) |-> Decode(known[n])]

Ids(heap) == {m.order : m \in heap}

\* Mutant: an `if' instead of a loop, one message is popped at most.
FirstGapNoLoop(heap, next) == IF next \in Ids(heap) THEN next + 1 ELSE next

\* The first order id, counted up from `next', that is not in the heap.
FirstGap(heap, next) ==
    CHOOSE g \in next..MaxOrderId :
        g \notin Ids(heap) /\ next..(g - 1) \subseteq Ids(heap)

\* Mutant: the expected id is not reset when the loop reaches the maximum.
DrainHeapNoReset(q) ==
    LET next == q.remoteOrderId
        heap == q.oRecvHeap
        gap == IF \E id \in Ids(heap) : id < next
               THEN next ELSE FirstGap(heap, next)
        Popped(n) == CHOOSE m \in heap : m.order = next + n - 1
    IN  [q EXCEPT
            !.recvQueue = @ \o [n \in 1..(gap - next) |-> Popped(n)],
            !.remoteOrderId = gap,
            !.oRecvHeap = {m \in @ : m.order \notin next..(gap - 1)}]

\* The `while matches' loop: as long as the heap's minimum is the next id it
\* is popped.  The heap is ordered by the raw id, so that an id smaller than
\* `next' hides the next one; and once MaxOrderId - 1 is popped, all that was
\* in the heap has been.
DrainHeap(q) ==
    LET next == q.remoteOrderId
        heap == q.oRecvHeap
        gap == IF \E id \in Ids(heap) : id < next
               THEN next ELSE FirstGap(heap, next)
        Popped(n) == CHOOSE m \in heap : m.order = next + n - 1
    IN  [q EXCEPT
            !.recvQueue = @ \o [n \in 1..(gap - next) |-> Popped(n)],
            !.remoteOrderId = IF gap = MaxOrderId THEN 0 ELSE gap,
            !.oRecvHeap = {m \in @ : m.order \notin next..(gap - 1)}]

\* Mutant: a message that is ahead is taken as if it were expected.
ReceiveOrderedSkips(q, m) ==
    IF m.order = q.remoteOrderId \/ MoreRecent(m.order, q.remoteOrderId, MaxOrderId)
    THEN DrainHeap([q EXCEPT !.recvQueue = Append(@, m),
                             !.remoteOrderId = Successor(m.order, MaxOrderId)])
    ELSE q

\* Mutant: messages that are behind are buffered like those ahead.
ReceiveOrderedKeepsOld(q, m) ==
    IF m.order = q.remoteOrderId
    THEN DrainHeap([q EXCEPT !.recvQueue = Append(@, m),
                             !.remoteOrderId = Successor(@, MaxOrderId)])
    ELSE IF m.order \notin Ids(q.oRecvHeap)
         THEN [q EXCEPT !.oRecvHeap = @ \cup {m}]
         ELSE q

\* Mutant: whatever is not ahead is taken as if it were expected.
ReceiveOrderedTakesOld(q, m) ==
    IF MoreRecent(m.order, q.remoteOrderId, MaxOrderId)
    THEN [q EXCEPT !.oRecvHeap = @ \cup
             (IF m.order \in Ids(@) THEN {} ELSE {m})]
    ELSE DrainHeap([q EXCEPT !.recvQueue = Append(@, m),
                             !.remoteOrderId = Successor(m.order, MaxOrderId)])

\* receive_ordered_message()
ReceiveOrderedMessage(q, m) ==
    IF m.order = q.remoteOrderId
    THEN DrainHeap([q EXCEPT !.recvQueue = Append(@, m),
                             !.remoteOrderId = Successor(@, MaxOrderId)])
    ELSE IF /\ MoreRecent(m.order, q.remoteOrderId, MaxOrderId)
            /\ m.order \notin Ids(q.oRecvHeap)
         THEN [q EXCEPT !.oRecvHeap = @ \cup {m}]
         ELSE q

\* receive_packet()
QueueReceivePacket(q, payload) ==
    FoldLeft(LAMBDA acc, m :
                 IF m.kind = "Ordered" THEN ReceiveOrderedMessage(acc, m)
                 ELSE [acc EXCEPT !.recvQueue = Append(@, m)],
             q, MessagesFromPacket(payload))

\* Mutant: only Ordered messages go back into their queue.
QueueLostPacketForgets(q, payload) ==
    LET msgs == MessagesFromPacket(payload)
    IN  [q EXCEPT !.oQueue =
            Reverse(Only(msgs, {m \in ToSet(msgs) : m.kind = "Ordered"})) \o @]

\* lost_packet(): each message is pushed to the front of its queue, so the
\* last one of the packet ends up first; Instant messages are gone.
QueueLostPacket(q, payload) ==
    LET msgs == MessagesFromPacket(payload)
        Returned(kind) ==
            Reverse(Only(msgs, {m \in ToSet(msgs) : m.kind = kind}))
    IN  [q EXCEPT !.rQueue = Returned("Reliable") \o @,
                  !.oQueue = Returned("Ordered") \o @]

\* received(), drained to its end, and dismiss() both leave nothing behind.
QueueDismiss(q) == [q EXCEPT !.recvQueue = <<>>]

=============================================================================
