-------------------------- MODULE OrderedMessages --------------------------
(***************************************************************************)
(* The Ordered kind end to end: a sending and a receiving queue, both      *)
(* records of MessageQueue, and between them a network that delays,        *)
(* reorders and duplicates.  The n-th message sent (from 0) carries n.     *)
(*                                                                         *)
(* A message that left the sending queue stays on the wire for good: it    *)
(* may arrive at any later time and any number of times.  That covers loss *)
(* with re-transmission, lost_packet() handing the same message over again *)
(* (a packet whose ack is lost is sent twice), in whatever packets the     *)
(* connection makes of it.                                                 *)
(*                                                                         *)
(* Two constants say how far from the expected message an arrival may be.  *)
(* The code relies on both and checks neither:                             *)
(*   Window             an arrival is less than Window messages ahead of   *)
(*                      or behind the expected one;                        *)
(*   ReorderAcrossWrap  whether a message may arrive early from the other  *)
(*                      side of the id wrap-around.                        *)
(***************************************************************************)
EXTENDS MessageQueue

CONSTANTS Window, ReorderAcrossWrap,
          MaxSends                      \* bound on the messages sent

ASSUME WindowAssumption == Window \in 1..MaxOrderId
ASSUME ReorderAssumption == ReorderAcrossWrap \in BOOLEAN
ASSUME MaxSendsAssumption == MaxSends \in Nat

VARIABLES tx,        \* the sending queue
          rx,        \* the receiving queue
          sent,      \* number of messages sent so far
          wire,      \* messages that left the sending queue
          handed,    \* what the application took from rx, in order
          arrived    \* history: the messages rx was given

vars == <<tx, rx, sent, wire, handed, arrived>>

OrderedInit ==
    /\ tx = NewQueue
    /\ rx = NewQueue
    /\ sent = 0
    /\ wire = {}
    /\ handed = <<>>
    /\ arrived = {}

\* MessageQueue::send()
Send ==
    /\ sent < MaxSends
    /\ tx' = QueueSend(tx, "Ordered", sent, 1)
    /\ sent' = sent + 1
    /\ UNCHANGED <<rx, wire, handed, arrived>>

\* write_message() takes the front of o_queue.
Transmit ==
    /\ tx.oQueue # <<>>
    /\ wire' = wire \cup {Head(tx.oQueue)}
    /\ tx' = [tx EXCEPT !.oQueue = Tail(@)]
    /\ UNCHANGED <<rx, sent, handed, arrived>>

\* The number of the message rx waits for.
Delivered == Len(handed) + Len(rx.recvQueue)

Arrives(m) ==
    /\ m.data < Delivered + Window
    /\ Delivered < m.data + Window
    /\ (m.data > Delivered => ReorderAcrossWrap \/ m.order > rx.remoteOrderId)

Receive(m) ==
    /\ Arrives(m)
    /\ rx' = ReceiveOrderedMessage(rx, m)
    /\ arrived' = arrived \cup {m.data}
    /\ UNCHANGED <<tx, sent, wire, handed>>

\* The application takes all of received().
Fetch ==
    /\ rx.recvQueue # <<>>
    /\ handed' = handed \o [i \in DOMAIN rx.recvQueue |-> rx.recvQueue[i].data]
    /\ rx' = QueueDismiss(rx)
    /\ UNCHANGED <<tx, sent, wire, arrived>>

Next ==
    \/ Send
    \/ Transmit
    \/ \E m \in wire : Receive(m)
    \/ Fetch

OrderedSpec == OrderedInit /\ [][Next]_vars

\* The connection re-sends what is not acknowledged, and the network does not
\* lose every copy: each message that may arrive eventually does.
Fairness ==
    /\ WF_vars(Transmit)
    /\ WF_vars(Fetch)
    /\ \A n \in 0..(MaxSends - 1) :
          WF_vars(\E m \in wire : m.data = n /\ Receive(m))

FairSpec == OrderedSpec /\ Fairness

-----------------------------------------------------------------------------
(* Properties *)

Message == [kind : {"Ordered"}, order : OrderIds, size : Sizes, data : Nat]

Queue == [localOrderId : OrderIds, remoteOrderId : OrderIds,
          iQueue : {<<>>}, rQueue : {<<>>},
          oQueue : Seq(Message), recvQueue : Seq(Message),
          oRecvHeap : SUBSET Message]

\* Every queue is well formed: its ids are below the maximum and only Ordered
\* messages are about.
TypeOK ==
    /\ tx \in Queue
    /\ rx \in Queue
    /\ sent \in Nat
    /\ wire \subseteq Message
    /\ handed \in Seq(Nat)
    /\ arrived \subseteq Nat

\* What the application got is 0, 1, 2, ... without a gap, a repetition or a
\* swap, and so is what waits for it in recv_queue ("guaranteed to arrive
\* in-order", MessageKind::Ordered).
InOrder ==
    /\ \A i \in DOMAIN handed : handed[i] = i - 1
    /\ \A i \in DOMAIN rx.recvQueue :
          rx.recvQueue[i].data = Len(handed) + i - 1

\* As soon as the messages 0..n have all arrived, in whatever order and with
\* whatever duplicates, all of them are available: none was dropped as old,
\* and none is left behind in the heap ("buffer the second message until the
\* first one arrives and then make both of them available", l.36-41).
AvailableAtOnce ==
    \A n \in 0..(MaxSends - 1) : 0..n \subseteq arrived => n < Delivered

\* Everything sent is handed to the application in the end.
EventuallyHanded ==
    \A n \in 0..(MaxSends - 1) : (sent > n) ~> (Len(handed) > n)

\* The queue pair implements a first-in first-out channel.
Fifo == INSTANCE FifoDelivery WITH out <- handed
FifoSpec == Fifo!Spec

-----------------------------------------------------------------------------
(* The inductive invariant of OrderedMessagesProofs *)

\* Every message not yet handed over carries the id of its number.
OrderIsNumber(m) == m.order = m.data % MaxOrderId

SenderNumbers ==
    /\ tx.localOrderId = sent % MaxOrderId
    /\ \A i \in DOMAIN tx.oQueue : OrderIsNumber(tx.oQueue[i])
    /\ \A m \in wire : OrderIsNumber(m)

\* rx expects the id of the first message it did not deliver, and the heap
\* holds messages ahead of it, each at its distance, none across the wrap.
HeapAhead ==
    /\ rx.remoteOrderId = Delivered % MaxOrderId
    /\ \A m \in rx.oRecvHeap :
          /\ m.order > rx.remoteOrderId
          /\ m.data = Delivered + (m.order - rx.remoteOrderId)

\* Only what was sent is about.
OnlySent ==
    /\ Delivered <= sent
    /\ \A i \in DOMAIN tx.oQueue : tx.oQueue[i].data < sent
    /\ \A m \in wire \cup rx.oRecvHeap : m.data < sent

\* What arrived is delivered or in the heap.
ArrivedKept ==
    \A n \in arrived :
        \/ n < Delivered
        \/ \E m \in rx.oRecvHeap : m.data = n

IInv ==
    /\ TypeOK /\ SenderNumbers /\ InOrder /\ HeapAhead /\ OnlySent
    /\ ArrivedKept

=============================================================================
