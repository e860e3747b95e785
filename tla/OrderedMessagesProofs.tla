----------------------- MODULE OrderedMessagesProofs -----------------------
(***************************************************************************)
(* Theorems about OrderedMessages, for every size of the id space, every   *)
(* window and every number of messages.                                    *)
(***************************************************************************)
EXTENDS OrderedMessages, MessageQueueProofs

-----------------------------------------------------------------------------
(* What draining the heap does *)

\* Both parts of a concatenation, each at its place.
LEMMA ConcatParts ==
    ASSUME NEW S, NEW s \in Seq(S), NEW t \in Seq(S)
    PROVE  /\ s \o t \in Seq(S)
           /\ Len(s \o t) = Len(s) + Len(t)
           /\ \A i \in 1..Len(s) : (s \o t)[i] = s[i]
           /\ \A n \in 1..Len(t) : (s \o t)[Len(s) + n] = t[n]
<1>1. /\ Len(s \o t) = Len(s) + Len(t)
      /\ \A i \in 1..(Len(s) + Len(t)) :
            (s \o t)[i] = IF i <= Len(s) THEN s[i] ELSE t[i - Len(s)]
  BY ConcatProperties
<1>2. Len(s) \in Nat /\ Len(t) \in Nat
  OBVIOUS
<1>3. ASSUME NEW n \in 1..Len(t) PROVE (s \o t)[Len(s) + n] = t[n]
  <2>1. /\ Len(s) + n \in 1..(Len(s) + Len(t))
        /\ ~(Len(s) + n <= Len(s)) /\ (Len(s) + n) - Len(s) = n
    BY <1>2
  <2> QED BY <1>1, <2>1
<1>4. ASSUME NEW i \in 1..Len(s) PROVE (s \o t)[i] = s[i]
  <2>1. i \in 1..(Len(s) + Len(t)) /\ i <= Len(s)
    BY <1>2
  <2> QED BY <1>1, <2>1
<1> QED BY <1>1, <1>3, <1>4

\* DrainHeap appends the run of messages from the expected id up to the gap,
\* removes them from the heap and expects the gap's id next.
LEMMA DrainEffect ==
    ASSUME NEW q \in Queue
    PROVE  LET d == DrainHeap(q)
               next == q.remoteOrderId
               old == Len(q.recvQueue)
           IN  /\ d \in Queue
               /\ \E gap \in next..MaxOrderId :
                    /\ d.remoteOrderId = IF gap = MaxOrderId THEN 0 ELSE gap
                    /\ Len(d.recvQueue) = old + (gap - next)
                    /\ \A i \in 1..old : d.recvQueue[i] = q.recvQueue[i]
                    /\ \A n \in 1..(gap - next) :
                          /\ d.recvQueue[old + n] \in q.oRecvHeap
                          /\ d.recvQueue[old + n].order = next + n - 1
                    /\ d.oRecvHeap =
                          {m \in q.oRecvHeap : m.order \notin next..(gap - 1)}
                    /\ (\A m \in q.oRecvHeap : m.order >= next)
                          => gap \notin Ids(q.oRecvHeap)
<1> DEFINE next == q.remoteOrderId
           heap == q.oRecvHeap
           gap == IF \E id \in Ids(heap) : id < next
                  THEN next ELSE FirstGap(heap, next)
           Popped(n) == CHOOSE m \in heap : m.order = next + n - 1
           tail == [n \in 1..(gap - next) |-> Popped(n)]
           recv == q.recvQueue \o tail
           remote == IF gap = MaxOrderId THEN 0 ELSE gap
           rest == {m \in heap : m.order \notin next..(gap - 1)}
           d == DrainHeap(q)
<1>1. /\ next \in OrderIds /\ heap \in SUBSET Message
      /\ q.recvQueue \in Seq(Message)
  BY DEF Queue
<1>2. d = [q EXCEPT !.recvQueue = recv, !.remoteOrderId = remote,
                    !.oRecvHeap = rest]
  BY DEF DrainHeap
<1>3. /\ gap \in next..MaxOrderId
      /\ next..(gap - 1) \subseteq Ids(heap)
      /\ (\A m \in heap : m.order >= next) => gap \notin Ids(heap)
  <2>1. CASE \E id \in Ids(heap) : id < next
    <3>1. ~(\A m \in heap : m.order >= next)
      BY <2>1, <1>1 DEF Ids, Message, OrderIds
    <3> QED BY <2>1, <3>1, <1>1, MaxOrderIdType DEF OrderIds
  <2>2. CASE ~(\E id \in Ids(heap) : id < next)
    <3>1. Ids(heap) \subseteq OrderIds
      BY <1>1 DEF Ids, Message
    <3> QED BY <2>2, <3>1, <1>1, FirstGapExists
  <2> QED BY <2>1, <2>2
<1> HIDE DEF next, heap, gap, d
<1>4. ASSUME NEW n \in 1..(gap - next)
      PROVE  Popped(n) \in heap /\ Popped(n).order = next + n - 1
  <2>1. next + n - 1 \in next..(gap - 1)
    BY <1>1, <1>3, MaxOrderIdType DEF OrderIds
  <2>2. \E m \in heap : m.order = next + n - 1
    BY <2>1, <1>3 DEF Ids
  <2> QED BY <2>2
<1> HIDE DEF Popped
<1>5. gap - next \in Nat
  BY <1>1, <1>3, MaxOrderIdType DEF OrderIds
<1>6. tail \in Seq(Message) /\ Len(tail) = gap - next
      /\ \A n \in 1..(gap - next) : tail[n] = Popped(n)
  <2>1. \A n \in 1..(gap - next) : Popped(n) \in Message
    BY <1>4, <1>1
  <2> QED BY <2>1, <1>5, IsASeq
<1> HIDE DEF tail
<1>7. /\ recv \in Seq(Message)
      /\ Len(recv) = Len(q.recvQueue) + (gap - next)
      /\ \A i \in 1..Len(q.recvQueue) : recv[i] = q.recvQueue[i]
      /\ \A n \in 1..(gap - next) : recv[Len(q.recvQueue) + n] = Popped(n)
  <2>1. /\ recv \in Seq(Message)
        /\ Len(recv) = Len(q.recvQueue) + Len(tail)
        /\ \A i \in 1..Len(q.recvQueue) : recv[i] = q.recvQueue[i]
        /\ \A n \in 1..Len(tail) : recv[Len(q.recvQueue) + n] = tail[n]
    <3>1. q.recvQueue \in Seq(Message) /\ tail \in Seq(Message)
      BY <1>1, <1>6
    <3>2. \A s, t \in Seq(Message) :
             /\ s \o t \in Seq(Message)
             /\ Len(s \o t) = Len(s) + Len(t)
             /\ \A i \in 1..Len(s) : (s \o t)[i] = s[i]
             /\ \A n \in 1..Len(t) : (s \o t)[Len(s) + n] = t[n]
      BY ConcatParts
    <3> QED BY <3>1, <3>2
  <2> HIDE DEF recv
  <2> QED BY <2>1, <1>6
<1>8. remote \in OrderIds /\ rest \in SUBSET Message
  BY <1>1, <1>3, MaxOrderIdType DEF OrderIds
<1> HIDE DEF recv, remote, rest
<1>9. /\ d \in Queue /\ d.recvQueue = recv
      /\ d.remoteOrderId = remote /\ d.oRecvHeap = rest
  BY <1>2, <1>7, <1>8 DEF Queue
<1> QED
  BY <1>3, <1>4, <1>7, <1>9 DEF remote, rest, d, next, heap

-----------------------------------------------------------------------------
(* Types *)

\* Accepting the expected message, before the heap is drained.
LEMMA AppendEffect ==
    ASSUME NEW q \in Queue, NEW m \in Message
    PROVE  LET p == [q EXCEPT !.recvQueue = Append(@, m),
                              !.remoteOrderId = Successor(@, MaxOrderId)]
           IN  /\ p \in Queue
               /\ p.recvQueue = Append(q.recvQueue, m)
               /\ p.remoteOrderId = Successor(q.remoteOrderId, MaxOrderId)
               /\ p.oRecvHeap = q.oRecvHeap
<1> DEFINE recv == Append(q.recvQueue, m)
           remote == Successor(q.remoteOrderId, MaxOrderId)
<1>1. recv \in Seq(Message)
  BY DEF Queue
<1>2. remote \in OrderIds
  BY SuccessorType DEF Queue
<1> HIDE DEF recv, remote
<1>3. LET p == [q EXCEPT !.recvQueue = recv, !.remoteOrderId = remote]
      IN  /\ p \in Queue
          /\ p.recvQueue = recv
          /\ p.remoteOrderId = remote
          /\ p.oRecvHeap = q.oRecvHeap
  BY <1>1, <1>2 DEF Queue
<1> QED BY <1>3 DEF recv, remote

LEMMA ReceiveType ==
    ASSUME NEW q \in Queue, NEW m \in Message
    PROVE  ReceiveOrderedMessage(q, m) \in Queue
<1>1. CASE m.order = q.remoteOrderId
  <2> DEFINE p == [q EXCEPT !.recvQueue = Append(@, m),
                            !.remoteOrderId = Successor(@, MaxOrderId)]
  <2>1. p \in Queue
    BY AppendEffect
  <2> HIDE DEF p
  <2>2. DrainHeap(p) \in Queue
    BY <2>1, DrainEffect
  <2> QED BY <1>1, <2>2 DEF ReceiveOrderedMessage, p
<1>2. CASE m.order # q.remoteOrderId
  BY <1>2 DEF ReceiveOrderedMessage, Queue
<1> QED BY <1>1, <1>2

\* The message that send() makes of the n-th payload.
SentMessage(q, n) == [kind |-> "Ordered", order |-> q.localOrderId,
                      size |-> 1 % 65536, data |-> n]

LEMMA SendEffect ==
    ASSUME NEW q \in Queue, NEW n \in Nat
    PROVE  LET p == QueueSend(q, "Ordered", n, 1)
           IN  /\ SentMessage(q, n) \in Message
               /\ p \in Queue
               /\ p.oQueue = Append(q.oQueue, SentMessage(q, n))
               /\ p.localOrderId = Successor(q.localOrderId, MaxOrderId)
<1> DEFINE m == SentMessage(q, n)
           o == Append(q.oQueue, m)
           local == Successor(q.localOrderId, MaxOrderId)
           p == [q EXCEPT !.oQueue = o, !.localOrderId = local]
<1>1. QueueSend(q, "Ordered", n, 1) = p
  BY DEF QueueSend, SentMessage
<1>2. m \in Message
  <2>1. 1 % 65536 \in Sizes
    BY DEF Sizes
  <2>2. q.localOrderId \in OrderIds
    BY DEF Queue
  <2> QED BY <2>1, <2>2 DEF SentMessage, Message
<1> HIDE DEF m
<1>3. o \in Seq(Message)
  BY <1>2 DEF Queue
<1>4. local \in OrderIds
  BY SuccessorType DEF Queue
<1> HIDE DEF o, local
<1>5. p \in Queue /\ p.oQueue = o /\ p.localOrderId = local
  BY <1>3, <1>4 DEF Queue
<1> HIDE DEF p
<1> QED BY <1>1, <1>2, <1>5 DEF m, o, local

\* The application takes everything: the batch it gets, and the queue left.
Batch == [i \in DOMAIN rx.recvQueue |-> rx.recvQueue[i].data]

LEMMA FetchEffect ==
    ASSUME TypeOK
    PROVE  /\ Batch \in Seq(Nat)
           /\ Len(Batch) = Len(rx.recvQueue)
           /\ QueueDismiss(rx) \in Queue
           /\ QueueDismiss(rx).recvQueue = <<>>
           /\ QueueDismiss(rx).remoteOrderId = rx.remoteOrderId
           /\ QueueDismiss(rx).oRecvHeap = rx.oRecvHeap
<1>1. rx \in Queue /\ rx.recvQueue \in Seq(Message)
  BY DEF TypeOK, Queue
<1>2. /\ DOMAIN rx.recvQueue = 1..Len(rx.recvQueue)
      /\ Len(rx.recvQueue) \in Nat
      /\ \A i \in 1..Len(rx.recvQueue) : rx.recvQueue[i].data \in Nat
  <2>1. \A i \in 1..Len(rx.recvQueue) : rx.recvQueue[i] \in Message
    BY <1>1, ElementOfSeq
  <2>2. \A m \in Message : m.data \in Nat
    BY DEF Message
  <2> QED BY <1>1, <2>1, <2>2, LenProperties
<1>3. Batch \in Seq(Nat) /\ Len(Batch) = Len(rx.recvQueue)
  BY <1>2, IsASeq DEF Batch
<1>4. /\ QueueDismiss(rx) \in Queue
      /\ QueueDismiss(rx).recvQueue = <<>>
      /\ QueueDismiss(rx).remoteOrderId = rx.remoteOrderId
      /\ QueueDismiss(rx).oRecvHeap = rx.oRecvHeap
  <2>1. <<>> \in Seq(Message)
    OBVIOUS
  <2> DEFINE empty == <<>>
  <2> HIDE DEF empty
  <2>2. LET p == [rx EXCEPT !.recvQueue = empty]
        IN  /\ p \in Queue
            /\ p.recvQueue = empty
            /\ p.remoteOrderId = rx.remoteOrderId
            /\ p.oRecvHeap = rx.oRecvHeap
    BY <1>1, <2>1 DEF empty, Queue
  <2> QED BY <2>2 DEF empty, QueueDismiss
<1> QED BY <1>3, <1>4

LEMMA TypeInit == OrderedInit => TypeOK
<1> SUFFICES ASSUME OrderedInit PROVE TypeOK
  OBVIOUS
<1>1. NewQueue \in Queue
  BY MaxOrderIdType DEF NewQueue, Queue, OrderIds
<1> QED BY <1>1 DEF OrderedInit, TypeOK

LEMMA TypeStep == TypeOK /\ [Next]_vars => TypeOK'
<1> SUFFICES ASSUME TypeOK, [Next]_vars PROVE TypeOK'
  OBVIOUS
<1> USE DEF TypeOK
<1>1. CASE Send
  <2>1. sent \in Nat /\ tx' \in Queue
    BY <1>1, SendEffect DEF Send
  <2> QED BY <1>1, <2>1 DEF Send
<1>2. CASE Transmit
  <2> DEFINE o == Tail(tx.oQueue)
  <2>1. /\ Head(tx.oQueue) \in Message
        /\ o \in Seq(Message)
    BY <1>2, HeadTailProperties DEF Transmit, Queue
  <2> HIDE DEF o
  <2>2. [tx EXCEPT !.oQueue = o] \in Queue
    BY <2>1 DEF Queue
  <2> QED BY <1>2, <2>1, <2>2 DEF Transmit, o
<1>3. ASSUME NEW m \in wire, Receive(m) PROVE TypeOK'
  <2>1. m \in Message /\ m.data \in Nat
    BY DEF Message
  <2>2. ReceiveOrderedMessage(rx, m) \in Queue
    BY <2>1, ReceiveType
  <2> QED BY <1>3, <2>1, <2>2 DEF Receive
<1>4. CASE Fetch
  <2>1. handed' = handed \o Batch /\ rx' = QueueDismiss(rx)
    BY <1>4 DEF Fetch, Batch
  <2>2. handed' \in Seq(Nat) /\ rx' \in Queue
    BY <2>1, FetchEffect, ConcatProperties
  <2> QED BY <1>4, <2>2 DEF Fetch
<1>5. CASE UNCHANGED vars
  BY <1>5 DEF vars
<1> QED BY <1>1, <1>2, <1>3, <1>4, <1>5 DEF Next

\* Both queues stay well formed, whatever arrives and in whatever order: the
\* ids, the heap and the three queues of TypeOK (MessageQueue::send,
\* receive_ordered_message).
THEOREM TypeCorrect == OrderedSpec => []TypeOK
<1> QED BY TypeInit, TypeStep, PTL DEF OrderedSpec

-----------------------------------------------------------------------------
(* Order.  The code compares ids, not numbers: what follows holds when the *)
(* arrivals keep within half the id space and none is early across the     *)
(* wrap-around; the runs OrderedAcrossWrap and OrderedFarAhead show that   *)
(* neither hypothesis can be dropped.                                      *)

ArrivalHypothesis == ~ReorderAcrossWrap /\ 2 * Window <= MaxOrderId

\* What the steps below use of the types.
LEMMA Types ==
    ASSUME TypeOK
    PROVE  /\ rx \in Queue /\ tx \in Queue
           /\ rx.recvQueue \in Seq(Message) /\ tx.oQueue \in Seq(Message)
           /\ handed \in Seq(Nat)
           /\ Len(handed) \in Nat /\ Len(rx.recvQueue) \in Nat
           /\ Delivered \in Nat /\ sent \in Nat
           /\ rx.oRecvHeap \in SUBSET Message
           /\ rx.remoteOrderId \in OrderIds
           /\ DOMAIN handed = 1..Len(handed)
           /\ DOMAIN rx.recvQueue = 1..Len(rx.recvQueue)
           /\ wire \subseteq Message /\ arrived \subseteq Nat
           /\ \A m \in Message : m.data \in Nat /\ m.order \in OrderIds
<1>1. rx \in Queue /\ tx \in Queue /\ handed \in Seq(Nat)
  BY DEF TypeOK
<1>2. /\ rx.recvQueue \in Seq(Message) /\ tx.oQueue \in Seq(Message)
      /\ rx.oRecvHeap \in SUBSET Message /\ rx.remoteOrderId \in OrderIds
  BY <1>1 DEF Queue
<1>3. /\ Len(handed) \in Nat /\ Len(rx.recvQueue) \in Nat
      /\ DOMAIN handed = 1..Len(handed)
      /\ DOMAIN rx.recvQueue = 1..Len(rx.recvQueue)
  BY <1>1, <1>2, LenProperties
<1>4. \A m \in Message : m.data \in Nat /\ m.order \in OrderIds
  BY DEF Message
<1> QED BY <1>1, <1>2, <1>3, <1>4 DEF TypeOK, Delivered

LEMMA InvInit == OrderedInit => IInv
<1> SUFFICES ASSUME OrderedInit PROVE IInv
  OBVIOUS
<1>1. TypeOK
  BY TypeInit
<1>2. 0 % MaxOrderId = 0
  BY MaxOrderIdType, Z3
<1>3. SenderNumbers /\ HeapAhead /\ OnlySent /\ ArrivedKept /\ InOrder
  BY <1>2 DEF OrderedInit, NewQueue, SenderNumbers, HeapAhead, OnlySent,
              ArrivedKept, InOrder, Delivered
<1> QED BY <1>1, <1>3 DEF IInv

LEMMA SendStep == IInv /\ Send => IInv'
<1> SUFFICES ASSUME IInv, Send PROVE IInv'
  OBVIOUS
<1> DEFINE m == SentMessage(tx, sent)
<1>1. TypeOK'
  BY TypeStep DEF IInv, Next
<1>2. /\ sent' = sent + 1 /\ rx' = rx /\ wire' = wire
      /\ handed' = handed /\ arrived' = arrived
  BY DEF Send
<1>3. tx'.oQueue = Append(tx.oQueue, m)
      /\ tx'.localOrderId = Successor(tx.localOrderId, MaxOrderId)
      /\ m \in Message
  BY SendEffect, Types DEF Send, IInv
<1>4. m.order = sent % MaxOrderId /\ m.data = sent
  BY DEF SentMessage, IInv, SenderNumbers
<1> HIDE DEF m
<1>5. \A i \in DOMAIN tx'.oQueue :
          \/ i \in DOMAIN tx.oQueue /\ tx'.oQueue[i] = tx.oQueue[i]
          \/ tx'.oQueue[i] = m
  BY <1>3, Types DEF IInv
<1>6. SenderNumbers'
  <2>1. tx'.localOrderId = sent' % MaxOrderId
    BY <1>2, <1>3, SuccessorIsMod, MaxOrderIdType, Types
       DEF IInv, SenderNumbers
  <2>2. OrderIsNumber(m)
    BY <1>4 DEF OrderIsNumber
  <2> QED BY <1>2, <1>5, <2>1, <2>2
        DEF IInv, SenderNumbers, OrderIsNumber
<1>7. InOrder' /\ HeapAhead' /\ ArrivedKept'
  BY <1>2 DEF IInv, InOrder, HeapAhead, ArrivedKept, Delivered
<1>8. OnlySent'
  <2>1. Delivered' <= sent'
    BY <1>2, Types DEF IInv, OnlySent, Delivered
  <2>2. \A i \in DOMAIN tx'.oQueue : tx'.oQueue[i].data < sent'
    <3> SUFFICES ASSUME NEW i \in DOMAIN tx'.oQueue
                 PROVE  tx'.oQueue[i].data < sent'
      OBVIOUS
    <3>1. CASE tx'.oQueue[i] = m
      BY <3>1, <1>2, <1>4, Types DEF IInv
    <3>2. CASE i \in DOMAIN tx.oQueue /\ tx'.oQueue[i] = tx.oQueue[i]
      <4>1. tx.oQueue[i] \in Message
        BY <3>2, Types, ElementOfSeq, LenProperties DEF IInv
      <4> QED BY <3>2, <4>1, <1>2, Types DEF IInv, OnlySent
    <3> QED BY <1>5, <3>1, <3>2
  <2>3. \A x \in wire' \cup rx'.oRecvHeap : x.data < sent'
    BY <1>2, Types DEF IInv, OnlySent
  <2> QED BY <2>1, <2>2, <2>3 DEF OnlySent
<1> QED BY <1>1, <1>6, <1>7, <1>8 DEF IInv

LEMMA TransmitStep == IInv /\ Transmit => IInv'
<1> SUFFICES ASSUME IInv, Transmit PROVE IInv'
  OBVIOUS
<1> DEFINE o == tx.oQueue
<1>1. TypeOK'
  BY TypeStep DEF IInv, Next
<1>2. /\ sent' = sent /\ rx' = rx /\ wire' = wire \cup {Head(o)}
      /\ handed' = handed /\ arrived' = arrived
  BY DEF Transmit
<1>3. tx'.oQueue = Tail(o) /\ tx'.localOrderId = tx.localOrderId
  BY Types DEF Transmit, IInv, Queue
<1>4. o \in Seq(Message) /\ o # <<>>
  BY Types DEF IInv, Transmit
<1>5. /\ 1 \in DOMAIN o /\ Head(o) = o[1]
      /\ \A i \in DOMAIN Tail(o) : i + 1 \in DOMAIN o
                                   /\ Tail(o)[i] = o[i + 1]
  BY <1>4
<1> HIDE DEF o
<1>6. SenderNumbers'
  BY <1>2, <1>3, <1>5 DEF IInv, SenderNumbers, OrderIsNumber, o
<1>7. InOrder' /\ HeapAhead' /\ ArrivedKept'
  BY <1>2 DEF IInv, InOrder, HeapAhead, ArrivedKept, Delivered
<1>8. OnlySent'
  BY <1>2, <1>3, <1>5 DEF IInv, OnlySent, Delivered, o
<1> QED BY <1>1, <1>6, <1>7, <1>8 DEF IInv

LEMMA FetchStep == IInv /\ Fetch => IInv'
<1> SUFFICES ASSUME IInv, Fetch PROVE IInv'
  OBVIOUS
<1>1. TypeOK'
  BY TypeStep DEF IInv, Next
<1>2. /\ sent' = sent /\ tx' = tx /\ wire' = wire /\ arrived' = arrived
      /\ handed' = handed \o Batch /\ rx' = QueueDismiss(rx)
  BY DEF Fetch, Batch
<1>3. /\ rx'.recvQueue = <<>> /\ rx'.oRecvHeap = rx.oRecvHeap
      /\ rx'.remoteOrderId = rx.remoteOrderId
      /\ Batch \in Seq(Nat) /\ Len(Batch) = Len(rx.recvQueue)
  BY <1>2, FetchEffect DEF IInv
<1>4. /\ Len(handed') = Len(handed) + Len(rx.recvQueue)
      /\ DOMAIN handed' = 1..Len(handed')
      /\ \A i \in 1..Len(handed') :
            handed'[i] = IF i <= Len(handed) THEN handed[i]
                         ELSE Batch[i - Len(handed)]
  <2> DEFINE h == handed \o Batch
  <2>1. handed \in Seq(Nat)
    BY Types DEF IInv
  <2>2. /\ h \in Seq(Nat)
        /\ Len(h) = Len(handed) + Len(Batch)
        /\ \A i \in 1..(Len(handed) + Len(Batch)) :
              h[i] = IF i <= Len(handed) THEN handed[i]
                     ELSE Batch[i - Len(handed)]
    <3> DEFINE b == Batch
    <3>1. b \in Seq(Nat)
      BY <1>3
    <3> HIDE DEF b
    <3> QED BY <2>1, <3>1, ConcatProperties DEF b
  <2>3. DOMAIN h = 1..Len(h)
    BY <2>2, LenProperties
  <2> HIDE DEF h
  <2>4. /\ Len(h) = Len(handed) + Len(rx.recvQueue)
        /\ \A i \in 1..Len(h) :
              h[i] = IF i <= Len(handed) THEN handed[i]
                     ELSE Batch[i - Len(handed)]
    BY <2>2, <1>3
  <2>5. handed' = h
    BY <1>2 DEF h
  <2> QED BY <2>3, <2>4, <2>5
<1>5. Delivered' = Delivered
  BY <1>3, <1>4, Types DEF IInv, Delivered
<1>6. InOrder'
  <2>1. \A i \in DOMAIN handed' : handed'[i] = i - 1
    <3> SUFFICES ASSUME NEW i \in 1..Len(handed')
                 PROVE  handed'[i] = i - 1
      BY <1>4
    <3>1. CASE i <= Len(handed)
      <4>1. handed'[i] = handed[i]
        BY <3>1, <1>4
      <4>2. i \in DOMAIN handed
        BY <3>1, Types DEF IInv
      <4> QED BY <4>1, <4>2 DEF IInv, InOrder
    <3>2. CASE ~(i <= Len(handed))
      <4>1. i - Len(handed) \in DOMAIN rx.recvQueue
        BY <3>2, <1>4, Types DEF IInv
      <4>2. Batch[i - Len(handed)] = rx.recvQueue[i - Len(handed)].data
        BY <4>1 DEF Batch
      <4>3. Batch[i - Len(handed)] = Len(handed) + (i - Len(handed)) - 1
        BY <4>1, <4>2 DEF IInv, InOrder
      <4>4. handed'[i] = Batch[i - Len(handed)]
        BY <3>2, <1>4
      <4>5. Len(handed) \in Nat /\ i \in Int
        BY Types DEF IInv
      <4> QED BY <4>3, <4>4, <4>5
    <3> QED BY <3>1, <3>2
  <2> QED BY <2>1, <1>3 DEF InOrder
<1>7. SenderNumbers' /\ HeapAhead' /\ ArrivedKept' /\ OnlySent'
  BY <1>2, <1>3, <1>5
     DEF IInv, SenderNumbers, OrderIsNumber, HeapAhead, ArrivedKept, OnlySent
<1> QED BY <1>1, <1>6, <1>7 DEF IInv

\* An arrival that is not the expected message leaves all but the heap alone.
LEMMA EarlyEffect ==
    ASSUME NEW q \in Queue, NEW m \in Message, m.order # q.remoteOrderId
    PROVE  LET d == ReceiveOrderedMessage(q, m)
           IN  /\ d.recvQueue = q.recvQueue
               /\ d.remoteOrderId = q.remoteOrderId
               /\ d.oRecvHeap =
                    IF /\ MoreRecent(m.order, q.remoteOrderId, MaxOrderId)
                       /\ m.order \notin Ids(q.oRecvHeap)
                    THEN q.oRecvHeap \cup {m} ELSE q.oRecvHeap
BY DEF ReceiveOrderedMessage, Queue

\* What the three cases of an arrival share.
LEMMA ReceiveFrame ==
    ASSUME IInv, NEW m \in wire, Receive(m)
    PROVE  /\ TypeOK' /\ SenderNumbers'
           /\ rx' = ReceiveOrderedMessage(rx, m)
           /\ arrived' = arrived \cup {m.data}
           /\ sent' = sent /\ tx' = tx /\ wire' = wire /\ handed' = handed
           /\ m \in Message /\ m.data < sent
           /\ m.order = m.data % MaxOrderId
<1>1. TypeOK'
  BY TypeStep DEF IInv, Next
<1>2. /\ rx' = ReceiveOrderedMessage(rx, m)
      /\ arrived' = arrived \cup {m.data}
      /\ sent' = sent /\ tx' = tx /\ wire' = wire /\ handed' = handed
  BY DEF Receive
<1>3. m \in Message /\ m.data < sent /\ m.order = m.data % MaxOrderId
  BY Types DEF IInv, OnlySent, SenderNumbers, OrderIsNumber
<1>4. SenderNumbers'
  BY <1>2 DEF IInv, SenderNumbers, OrderIsNumber
<1> QED BY <1>1, <1>2, <1>3, <1>4

\* A message already delivered is dropped.
LEMMA ReceiveLate ==
    ASSUME ArrivalHypothesis, IInv, NEW m \in wire, Receive(m),
           m.data < Delivered
    PROVE  IInv'
<1> DEFINE k == Delivered - m.data
<1>1. m.data \in Nat /\ Delivered \in Nat /\ MaxOrderId \in Nat \ {0, 1}
  BY ReceiveFrame, Types, MaxOrderIdType DEF IInv
<1>2. k \in Nat \ {0} /\ 2 * k < MaxOrderId /\ Delivered = m.data + k
  BY <1>1, WindowAssumption DEF Receive, Arrives, ArrivalHypothesis
<1> HIDE DEF k
<1>3. /\ m.order # rx.remoteOrderId
      /\ ~MoreRecent(m.order, rx.remoteOrderId, MaxOrderId)
  <2>1. /\ m.data % MaxOrderId # (m.data + k) % MaxOrderId
        /\ ~MoreRecent(m.data % MaxOrderId, (m.data + k) % MaxOrderId,
                       MaxOrderId)
    BY <1>1, <1>2, MoreRecentIsLater
  <2> QED BY <2>1, <1>2, ReceiveFrame DEF IInv, HeapAhead
<1>4. /\ rx'.recvQueue = rx.recvQueue
      /\ rx'.remoteOrderId = rx.remoteOrderId
      /\ rx'.oRecvHeap = rx.oRecvHeap
  BY <1>3, EarlyEffect, ReceiveFrame, Types DEF IInv
<1>5. Delivered' = Delivered
  BY <1>4, ReceiveFrame DEF Delivered
<1>6. InOrder' /\ HeapAhead' /\ OnlySent' /\ ArrivedKept'
  BY <1>4, <1>5, ReceiveFrame
     DEF IInv, InOrder, HeapAhead, OnlySent, ArrivedKept
<1> QED BY <1>6, ReceiveFrame DEF IInv

\* A message ahead of the expected one is kept in the heap, once.
LEMMA ReceiveEarly ==
    ASSUME ArrivalHypothesis, IInv, NEW m \in wire, Receive(m),
           m.data > Delivered
    PROVE  IInv'
<1> DEFINE k == m.data - Delivered
<1>1. m.data \in Nat /\ Delivered \in Nat /\ MaxOrderId \in Nat \ {0, 1}
  BY ReceiveFrame, Types, MaxOrderIdType DEF IInv
<1>2. k \in Nat \ {0} /\ 2 * k < MaxOrderId /\ m.data = Delivered + k
  BY <1>1, WindowAssumption DEF Receive, Arrives, ArrivalHypothesis
<1> HIDE DEF k
<1>3. rx.remoteOrderId = Delivered % MaxOrderId
      /\ m.order = (Delivered + k) % MaxOrderId
  BY <1>2, ReceiveFrame DEF IInv, HeapAhead
<1>4. /\ m.order # rx.remoteOrderId
      /\ MoreRecent(m.order, rx.remoteOrderId, MaxOrderId)
  BY <1>1, <1>2, <1>3, MoreRecentIsLater
<1>5. m.order > rx.remoteOrderId /\ m.order = rx.remoteOrderId + k
  <2>1. m.order > rx.remoteOrderId
    BY DEF Receive, Arrives, ArrivalHypothesis
  <2>2. k \in 0..(MaxOrderId - 1)
    BY <1>1, <1>2
  <2>3. m.order = IF rx.remoteOrderId + k < MaxOrderId
                  THEN rx.remoteOrderId + k
                  ELSE rx.remoteOrderId + k - MaxOrderId
    BY <1>1, <1>3, <2>2, ModAdd
  <2>4. rx.remoteOrderId \in Nat
    BY Types DEF IInv, OrderIds
  <2> QED BY <1>1, <2>1, <2>2, <2>3, <2>4
<1>6. /\ rx'.recvQueue = rx.recvQueue
      /\ rx'.remoteOrderId = rx.remoteOrderId
      /\ rx'.oRecvHeap = IF m.order \in Ids(rx.oRecvHeap) THEN rx.oRecvHeap
                         ELSE rx.oRecvHeap \cup {m}
  BY <1>4, EarlyEffect, ReceiveFrame, Types DEF IInv
<1>7. Delivered' = Delivered
  BY <1>6, ReceiveFrame DEF Delivered
<1>8. InOrder' /\ OnlySent'
  BY <1>6, <1>7, ReceiveFrame DEF IInv, InOrder, OnlySent
<1>9. HeapAhead'
  <2>1. m.data = Delivered + (m.order - rx.remoteOrderId)
    <3>1. rx.remoteOrderId \in Nat
      BY Types DEF IInv, OrderIds
    <3> QED BY <3>1, <1>1, <1>2, <1>5
  <2> QED BY <2>1, <1>5, <1>6, <1>7, ReceiveFrame DEF IInv, HeapAhead
<1>10. \E x \in rx'.oRecvHeap : x.data = m.data
  <2>1. CASE m.order \notin Ids(rx.oRecvHeap)
    BY <2>1, <1>6
  <2>2. CASE m.order \in Ids(rx.oRecvHeap)
    <3>1. PICK x \in rx.oRecvHeap : x.order = m.order
      BY <2>2 DEF Ids
    <3>2. x.data = Delivered + (m.order - rx.remoteOrderId)
      BY <3>1 DEF IInv, HeapAhead
    <3>3. rx.remoteOrderId \in Nat
      BY Types DEF IInv, OrderIds
    <3>4. x.data = m.data
      BY <3>2, <3>3, <1>1, <1>2, <1>5
    <3> QED BY <3>4, <1>6
  <2> QED BY <2>1, <2>2
<1>11. ArrivedKept'
  BY <1>6, <1>7, <1>10, ReceiveFrame DEF IInv, ArrivedKept
<1> QED BY <1>8, <1>9, <1>11, ReceiveFrame DEF IInv

\* The expected message is delivered together with the run of messages that
\* waited for it.
LEMMA ReceiveExpected ==
    ASSUME IInv, NEW m \in wire, Receive(m), m.data = Delivered
    PROVE  IInv'
<1> DEFINE r == rx.remoteOrderId
           heap == rx.oRecvHeap
           old == Len(rx.recvQueue)
           h == Len(handed)
           next == Successor(r, MaxOrderId)
           p == [rx EXCEPT !.recvQueue = Append(@, m),
                           !.remoteOrderId = Successor(@, MaxOrderId)]
<1>1. /\ rx \in Queue /\ m \in Message /\ heap \in SUBSET Message
      /\ r \in OrderIds /\ old \in Nat /\ h \in Nat /\ Delivered \in Nat
      /\ sent \in Nat /\ m.data \in Nat /\ Delivered = h + old
      /\ rx.recvQueue \in Seq(Message)
      /\ DOMAIN rx.recvQueue = 1..old
      /\ \A x \in heap : x \in Message /\ x.data \in Nat /\ x.order \in OrderIds
  BY Types, ReceiveFrame DEF IInv, Delivered
<1>2. /\ MaxOrderId \in Nat \ {0, 1} /\ r \in 0..(MaxOrderId - 1)
  BY <1>1, MaxOrderIdType DEF OrderIds
<1>3. m.order = r /\ r = Delivered % MaxOrderId
  BY ReceiveFrame DEF IInv, HeapAhead
<1>4. rx' = DrainHeap(p)
  BY <1>3, ReceiveFrame DEF ReceiveOrderedMessage
<1>5. /\ p \in Queue /\ p.recvQueue = Append(rx.recvQueue, m)
      /\ p.remoteOrderId = next /\ p.oRecvHeap = heap
  BY <1>1, AppendEffect
<1> HIDE DEF p
<1>6. /\ Len(p.recvQueue) = old + 1
      /\ p.recvQueue[old + 1] = m
      /\ \A i \in 1..old : p.recvQueue[i] = rx.recvQueue[i]
  BY <1>1, <1>5
<1>7. PICK gap \in next..MaxOrderId :
        /\ rx'.remoteOrderId = IF gap = MaxOrderId THEN 0 ELSE gap
        /\ Len(rx'.recvQueue) = old + 1 + (gap - next)
        /\ \A i \in 1..(old + 1) : rx'.recvQueue[i] = p.recvQueue[i]
        /\ \A n \in 1..(gap - next) :
              /\ rx'.recvQueue[old + 1 + n] \in heap
              /\ rx'.recvQueue[old + 1 + n].order = next + n - 1
        /\ rx'.oRecvHeap = {x \in heap : x.order \notin next..(gap - 1)}
        /\ (\A x \in heap : x.order >= next) => gap \notin Ids(heap)
  <2>1. LET d == rx'
            from == p.remoteOrderId
            was == Len(p.recvQueue)
        IN  \E gap \in from..MaxOrderId :
              /\ d.remoteOrderId = IF gap = MaxOrderId THEN 0 ELSE gap
              /\ Len(d.recvQueue) = was + (gap - from)
              /\ \A i \in 1..was : d.recvQueue[i] = p.recvQueue[i]
              /\ \A n \in 1..(gap - from) :
                    /\ d.recvQueue[was + n] \in p.oRecvHeap
                    /\ d.recvQueue[was + n].order = from + n - 1
              /\ d.oRecvHeap =
                    {x \in p.oRecvHeap : x.order \notin from..(gap - 1)}
              /\ (\A x \in p.oRecvHeap : x.order >= from)
                    => gap \notin Ids(p.oRecvHeap)
    BY <1>4, <1>5, DrainEffect
  <2>2. /\ p.remoteOrderId = next /\ p.oRecvHeap = heap
        /\ Len(p.recvQueue) = old + 1
    BY <1>5, <1>6
  <2> QED BY ONLY <2>1, <2>2
<1>8. /\ \A x \in heap : x.order > r /\ x.data = Delivered + (x.order - r)
      /\ \A x \in heap : x.data < sent
  BY DEF IInv, HeapAhead, OnlySent
<1>9. next \in OrderIds /\ next = (Delivered + 1) % MaxOrderId
  BY <1>1, <1>2, <1>3, SuccessorIsMod, SuccessorType
<1>10. \/ next = r + 1 /\ r + 1 < MaxOrderId
       \/ next = 0 /\ r = MaxOrderId - 1 /\ heap = {} /\ gap = 0
  <2>1. CASE r + 1 = MaxOrderId
    <3>1. next = 0 /\ r = MaxOrderId - 1
      BY <2>1, <1>2 DEF Successor
    <3>2. heap = {}
      BY <2>1, <1>1, <1>2, <1>8 DEF OrderIds
    <3>3. gap = 0
      BY <3>1, <3>2, <1>2, <1>7
    <3> QED BY <3>1, <3>2, <3>3
  <2>2. CASE r + 1 # MaxOrderId
    BY <2>2, <1>2 DEF Successor
  <2> QED BY <2>1, <2>2
<1> HIDE DEF next, heap, r, old, h
<1>11. \A x \in heap : x.order >= next
  BY <1>1, <1>2, <1>8, <1>10 DEF OrderIds
<1>12. \A x \in rx'.oRecvHeap : x \in heap /\ x.order > gap
  <2> SUFFICES ASSUME NEW x \in rx'.oRecvHeap PROVE x \in heap /\ x.order > gap
    OBVIOUS
  <2>1. x \in heap /\ x.order \notin next..(gap - 1)
    BY <1>7
  <2>2. x.order # gap
    BY <2>1, <1>7, <1>11 DEF Ids
  <2>3. x.order >= next /\ x.order \in OrderIds
    BY <2>1, <1>1, <1>11
  <2> QED BY <2>1, <2>2, <2>3, <1>2, <1>7, <1>9 DEF OrderIds
<1>13. /\ Delivered' = Delivered + 1 + (gap - next)
       /\ gap - next \in Nat /\ gap \in 0..MaxOrderId /\ next \in Nat
  <2>1. Delivered' = h + Len(rx'.recvQueue)
    BY ReceiveFrame DEF Delivered, h
  <2>2. gap - next \in Nat /\ gap \in 0..MaxOrderId /\ next \in Nat
    BY <1>2, <1>7, <1>9 DEF OrderIds
  <2> QED BY <2>1, <2>2, <1>1, <1>7
<1>14. rx'.remoteOrderId = Delivered' % MaxOrderId
  <2>1. gap - next \in 0..(MaxOrderId - 1) /\ Delivered + 1 \in Nat
    BY <1>1, <1>2, <1>10, <1>13
  <2>2. (Delivered + 1 + (gap - next)) % MaxOrderId =
           IF next + (gap - next) < MaxOrderId
           THEN next + (gap - next)
           ELSE next + (gap - next) - MaxOrderId
    BY <2>1, <1>1, <1>2, <1>9, ModAdd
  <2>3. next + (gap - next) = gap
    BY <1>13
  <2> QED BY <2>2, <2>3, <1>2, <1>7, <1>13
<1>15. ASSUME NEW n \in 1..(gap - next)
       PROVE  /\ rx'.recvQueue[old + 1 + n].data = Delivered + n
              /\ Delivered + n < sent
  <2>1. /\ rx'.recvQueue[old + 1 + n] \in heap
        /\ rx'.recvQueue[old + 1 + n].order = next + n - 1
    BY <1>7
  <2> DEFINE x == rx'.recvQueue[old + 1 + n]
  <2>2. x \in heap /\ x.order = next + n - 1
    BY <2>1
  <2> HIDE DEF x
  <2>3. x.data = Delivered + (x.order - r) /\ x.data < sent
    BY <2>2, <1>8
  <2>4. next = r + 1
    BY <1>10, <1>13
  <2>5. x.order - r = n
    BY <2>2, <2>4, <1>2
  <2> QED BY <2>3, <2>5 DEF x
<1>16. InOrder'
  <2>1. \A i \in DOMAIN handed' : handed'[i] = i - 1
    BY ReceiveFrame DEF IInv, InOrder
  <2>2. ASSUME NEW i \in DOMAIN rx'.recvQueue
        PROVE  rx'.recvQueue[i].data = h + i - 1
    <3>1. i \in 1..(old + 1 + (gap - next))
      <4>1. rx'.recvQueue \in Seq(Message)
        BY ReceiveFrame, <1>4, <1>5, DrainEffect DEF Queue
      <4> QED BY <4>1, <1>7, LenProperties
    <3>2. CASE i \in 1..old
      <4>1. rx'.recvQueue[i] = rx.recvQueue[i]
        BY <3>2, <1>1, <1>6, <1>7
      <4>2. rx.recvQueue[i].data = h + i - 1
        BY <3>2, <1>1 DEF IInv, InOrder, h
      <4> QED BY <4>1, <4>2
    <3>3. CASE i = old + 1
      <4>1. rx'.recvQueue[i] = m
        BY <3>3, <1>1, <1>6, <1>7
      <4> QED BY <4>1, <3>3, <1>1
    <3>4. CASE i > old + 1
      <4>1. i - (old + 1) \in 1..(gap - next)
        BY <3>1, <3>4, <1>1, <1>13
      <4>2. old + 1 + (i - (old + 1)) = i
        BY <3>1, <1>1
      <4>3. rx'.recvQueue[i].data = Delivered + (i - (old + 1))
        BY <4>1, <4>2, <1>15
      <4> QED BY <4>3, <3>1, <1>1
    <3> QED BY <3>1, <3>2, <3>3, <3>4, <1>1
  <2>3. Len(handed') = h
    BY ReceiveFrame DEF h
  <2> QED BY <2>1, <2>2, <2>3 DEF InOrder
<1>17. HeapAhead'
  <2>1. ASSUME NEW x \in rx'.oRecvHeap
        PROVE  /\ x.order > rx'.remoteOrderId
               /\ x.data = Delivered' + (x.order - rx'.remoteOrderId)
    <3>1. x \in heap /\ x.order > gap
      BY <1>12
    <3>2. next = r + 1 /\ x.order \in 0..(MaxOrderId - 1)
      BY <3>1, <1>1, <1>10 DEF OrderIds
    <3>3. rx'.remoteOrderId = gap
      BY <3>1, <3>2, <1>2, <1>7, <1>13
    <3>4. x.data = Delivered + (x.order - r)
      BY <3>1, <1>8
    <3> QED BY <3>1, <3>2, <3>3, <3>4, <1>1, <1>2, <1>13
  <2> QED BY <2>1, <1>14 DEF HeapAhead
<1>18. OnlySent'
  <2>1. Delivered' <= sent
    <3>1. CASE gap - next = 0
      BY <3>1, <1>1, <1>13, ReceiveFrame
    <3>2. CASE gap - next # 0
      <4>1. gap - next \in 1..(gap - next)
        BY <3>2, <1>13
      <4>2. Delivered + (gap - next) < sent
        BY <4>1, <1>15
      <4> QED BY <4>2, <1>1, <1>13
    <3> QED BY <3>1, <3>2
  <2>2. \A x \in wire' \cup rx'.oRecvHeap : x.data < sent
    BY <1>8, <1>12, ReceiveFrame DEF IInv, OnlySent
  <2> QED BY <2>1, <2>2, ReceiveFrame DEF IInv, OnlySent
<1>19. ArrivedKept'
  <2> SUFFICES ASSUME NEW n \in arrived'
               PROVE  n < Delivered' \/ \E x \in rx'.oRecvHeap : x.data = n
    BY DEF ArrivedKept
  <2>1. Delivered < Delivered'
    BY <1>1, <1>13
  <2>2. n \in Nat /\ Delivered' \in Nat
    BY <1>1, <1>13, ReceiveFrame, Types DEF IInv
  <2>3. CASE n = m.data \/ n < Delivered
    BY <2>1, <2>2, <2>3, <1>1
  <2>4. ASSUME NEW x \in heap, x.data = n
        PROVE  n < Delivered' \/ x \in rx'.oRecvHeap
    <3>1. CASE x.order \notin next..(gap - 1)
      BY <3>1, <1>7
    <3>2. CASE x.order \in next..(gap - 1)
      <4>1. next = r + 1
        BY <3>2, <1>10, <1>13
      <4>2. n = Delivered + (x.order - r) /\ x.order < gap
            /\ x.order \in 0..(MaxOrderId - 1)
        BY <2>4, <3>2, <1>1, <1>8, <1>13 DEF OrderIds
      <4>3. Delivered' = Delivered + (gap - r)
        BY <4>1, <1>1, <1>2, <1>13
      <4>4. n < Delivered'
        BY <4>2, <4>3, <1>1, <1>2, <1>13
      <4> QED BY <4>4
    <3> QED BY <3>1, <3>2
  <2> QED BY <2>3, <2>4, ReceiveFrame DEF IInv, ArrivedKept, heap
<1> QED BY <1>16, <1>17, <1>18, <1>19, ReceiveFrame DEF IInv

LEMMA InvStep == ArrivalHypothesis /\ IInv /\ [Next]_vars => IInv'
<1> SUFFICES ASSUME ArrivalHypothesis, IInv, [Next]_vars PROVE IInv'
  OBVIOUS
<1>1. CASE Send
  BY <1>1, SendStep
<1>2. CASE Transmit
  BY <1>2, TransmitStep
<1>3. ASSUME NEW m \in wire, Receive(m) PROVE IInv'
  <2>1. m.data \in Nat /\ Delivered \in Nat
    BY Types DEF IInv
  <2>2. m.data < Delivered \/ m.data = Delivered \/ m.data > Delivered
    BY <2>1
  <2> QED BY <2>2, <1>3, ReceiveLate, ReceiveExpected, ReceiveEarly
<1>4. CASE Fetch
  BY <1>4, FetchStep
<1>5. CASE UNCHANGED vars
  BY <1>5 DEF vars, IInv, TypeOK, SenderNumbers, OrderIsNumber, InOrder,
              HeapAhead, OnlySent, ArrivedKept, Delivered
<1> QED BY <1>1, <1>2, <1>3, <1>4, <1>5 DEF Next

\* The inductive invariant: the ids in the queues stay congruent with the
\* numbers of the messages, and the heap ahead of the expected one.
THEOREM Inductive == ArrivalHypothesis /\ OrderedSpec => []IInv
<1> SUFFICES ASSUME ArrivalHypothesis PROVE OrderedSpec => []IInv
  OBVIOUS
<1>1. IInv /\ [Next]_vars => IInv'
  BY InvStep
<1> QED BY InvInit, <1>1, PTL DEF OrderedSpec

\* Ordered messages are handed over in the order they were sent in, none
\* twice and none skipped (receive_ordered_message).
THEOREM DeliveredInOrder == ArrivalHypothesis /\ OrderedSpec => []InOrder
<1>1. IInv => InOrder
  BY DEF IInv
<1> QED BY Inductive, <1>1, PTL

\* Messages that arrived ahead of a late one become available with it: once
\* 0..n have arrived, none of them is still in the heap or was dropped.
THEOREM AllAvailable == ArrivalHypothesis /\ OrderedSpec => []AvailableAtOnce
<1>1. ASSUME IInv PROVE AvailableAtOnce
  <2> SUFFICES ASSUME NEW n \in 0..(MaxSends - 1), 0..n \subseteq arrived,
                      ~(n < Delivered)
               PROVE  FALSE
    BY DEF AvailableAtOnce
  <2>1. Delivered \in Nat /\ n \in Nat
    BY <1>1, Types, MaxSendsAssumption DEF IInv
  <2>2. Delivered \in arrived
    BY <2>1
  <2>3. PICK m \in rx.oRecvHeap : m.data = Delivered
    BY <1>1, <2>1, <2>2 DEF IInv, ArrivedKept
  <2>4. /\ m.order > rx.remoteOrderId
        /\ m.data = Delivered + (m.order - rx.remoteOrderId)
    BY <1>1 DEF IInv, HeapAhead
  <2>5. m.order \in Nat /\ rx.remoteOrderId \in Nat
    BY <1>1, Types DEF IInv, OrderIds
  <2> QED BY <2>1, <2>3, <2>4, <2>5
<1> QED BY Inductive, <1>1, PTL

\* The pair of queues implements the first-in first-out channel that
\* MessageKind::Ordered promises: Send accepts, Fetch hands over, and no other
\* step is visible.
THEOREM ImplementsFifo == ArrivalHypothesis /\ OrderedSpec => FifoSpec
<1>1. OrderedInit => Fifo!Init
  BY DEF OrderedInit, Fifo!Init
<1>2. ASSUME IInv, [Next]_vars PROVE [Fifo!Next]_(Fifo!fifoVars)
  <2>1. CASE Send
    BY <2>1 DEF Send, Fifo!Next, Fifo!Accept
  <2>2. CASE Fetch
    <3> DEFINE k == Len(rx.recvQueue)
               b == [i \in 1..k |-> Len(handed) + i - 1]
    <3>1. /\ k \in Nat /\ Len(handed) \in Nat /\ sent \in Nat
          /\ rx.recvQueue \in Seq(Message)
          /\ DOMAIN rx.recvQueue = 1..k
      BY <1>2, Types DEF IInv
    <3>2. k # 0
      BY <2>2, <3>1 DEF Fetch
    <3>3. k \in 1..(sent - Len(handed))
      BY <3>1, <3>2, <1>2 DEF IInv, OnlySent, Delivered
    <3>4. [i \in DOMAIN rx.recvQueue |-> rx.recvQueue[i].data] = b
      BY <3>1, <1>2 DEF IInv, InOrder
    <3>5. handed' = handed \o b /\ sent' = sent
      BY <2>2, <3>4 DEF Fetch
    <3> QED BY <3>3, <3>5 DEF Fifo!Next, Fifo!HandOver
  <2>3. CASE Transmit \/ (\E m \in wire : Receive(m)) \/ UNCHANGED vars
    BY <2>3 DEF Transmit, Receive, vars, Fifo!fifoVars
  <2> QED BY <1>2, <2>1, <2>2, <2>3 DEF Next
<1> QED BY Inductive, <1>1, <1>2, PTL DEF OrderedSpec, FifoSpec, Fifo!Spec
=============================================================================
