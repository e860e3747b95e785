-------------------------------- MODULE Acks --------------------------------
(***************************************************************************)
(* Packet acknowledgements of shared/connection.rs: every packet names the *)
(* last packet received (`ack') and, in a bit field, those of the packets  *)
(* before it that are still in recv_ack_queue.  A bit field is the set of  *)
(* the indices of its bits.                                                *)
(***************************************************************************)
EXTENDS Wraparound, Integers, Sequences

CONSTANTS MaxSeqNumber,              \* MAX_SEQ_NUMBER, 256 in the source
          MaxAckBits                 \* MAX_ACK_BITS, 32 in the source

\* The closure packet acknowledges half of MaxSeqNumber: 128 of 256.
ASSUME SeqAssumption ==
    /\ MaxSeqNumber \in Nat /\ MaxSeqNumber >= 2
    /\ MaxAckBits \in 0..(MaxSeqNumber - 1)

SeqNumbers == 0..(MaxSeqNumber - 1)

\* Mutant: the packet received last is accepted once more.
SeqIsNotOlder(a, b) == a = b \/ MoreRecent(a, b, MaxSeqNumber)

SeqIsMoreRecent(a, b) == MoreRecent(a, b, MaxSeqNumber)

\* The bit that stands for packet seq in a packet that acknowledges ack # seq.
SeqBitIndex(seq, ack) ==
    IF seq > ack THEN ack + (MaxSeqNumber - 1 - seq) ELSE ack - 1 - seq

\* Mutant: every bit is one too low.
AckBitfieldShifted(recvAckQueue, remoteSeq) ==
    {b \in 0..(MaxAckBits - 1) :
        \E i \in DOMAIN recvAckQueue :
            /\ recvAckQueue[i] # remoteSeq
            /\ SeqBitIndex(recvAckQueue[i], remoteSeq) = b + 1}

\* The bit field that send_packet() constructs.
AckBitfield(recvAckQueue, remoteSeq) ==
    {b \in 0..(MaxAckBits - 1) :
        \E i \in DOMAIN recvAckQueue :
            /\ recvAckQueue[i] # remoteSeq
            /\ SeqBitIndex(recvAckQueue[i], remoteSeq) = b}

SeqWasAcked(seq, ack, bits) ==
    \/ seq = ack
    \/ /\ SeqBitIndex(seq, ack) < MaxAckBits
       /\ SeqBitIndex(seq, ack) \in bits
=============================================================================
