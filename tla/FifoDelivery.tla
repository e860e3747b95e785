---------------------------- MODULE FifoDelivery ----------------------------
(***************************************************************************)
(* What MessageKind::Ordered promises (message_queue.rs l.36-41): of the   *)
(* messages 0, 1, 2, ... sent so far, the application has been handed a    *)
(* prefix, in order, possibly several at once.                             *)
(***************************************************************************)
EXTENDS Naturals, Sequences

CONSTANT MaxSends

VARIABLES sent,      \* number of messages sent
          out        \* what the receiving application was handed

fifoVars == <<sent, out>>

Init == sent = 0 /\ out = <<>>

Accept ==
    /\ sent < MaxSends
    /\ sent' = sent + 1
    /\ UNCHANGED out

HandOver ==
    /\ \E k \in 1..(sent - Len(out)) :
          out' = out \o [i \in 1..k |-> Len(out) + i - 1]
    /\ UNCHANGED sent

Next == Accept \/ HandOver

Spec == Init /\ [][Next]_fifoVars
=============================================================================
