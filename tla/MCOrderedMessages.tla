-------------------------- MODULE MCOrderedMessages --------------------------
(***************************************************************************)
(* Instances of OrderedMessages for TLC: the id space is small enough that *)
(* the ids wrap around and are re-used within MaxSends messages.           *)
(***************************************************************************)
EXTENDS OrderedMessages

MCQuota == [Instant |-> 60, Reliable |-> 20, Ordered |-> 20]
=============================================================================
