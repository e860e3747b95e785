------------------------------- MODULE MCLink -------------------------------
(***************************************************************************)
(* Instances of Link for TLC.                                              *)
(***************************************************************************)
EXTENDS Link

MCQuota == [Instant |-> 60, Reliable |-> 20, Ordered |-> 20]

Packets(initiator, acceptor) ==
    [e \in Ends |-> IF e = "initiator" THEN initiator ELSE acceptor]
TwoAndTwo == Packets(2, 2)
ThreeAndThree == Packets(3, 3)
FourAndTwo == Packets(4, 2)
NineAndNine == Packets(9, 9)

Msg(from, kind, data) == [from |-> from, kind |-> kind, data |-> data,
                          len |-> 1]

Sent == [congestionChanged |-> FALSE, shouldSend |-> TRUE, sendOk |-> TRUE]
Congested == [congestionChanged |-> TRUE, shouldSend |-> FALSE,
              sendOk |-> TRUE]
Failed == [congestionChanged |-> FALSE, shouldSend |-> TRUE, sendOk |-> FALSE]

SentOnly == {Sent}
AllEnvs == {Sent, Congested, Failed}

InitiatorReliable == {Msg("initiator", "Reliable", 1)}
AcceptorReliable == {Msg("acceptor", "Reliable", 1)}
NoMessages == {}
ReliableAndInstant == {Msg("initiator", "Reliable", 1),
                       Msg("initiator", "Instant", 2)}
WithOversized == ReliableAndInstant \cup
    {[from |-> "initiator", kind |-> "Ordered", data |-> 3, len |-> 9]}
TwoOrdered == {Msg("initiator", "Ordered", 4), Msg("initiator", "Ordered", 5)}
EitherScript == WithOversized \cup TwoOrdered

\* A behaviour follows one of the two scripts, with bounds of its own.
OneScript ==
    \/ /\ posted \subseteq WithOversized
       /\ count["initiator"] <= 3
    \/ /\ posted \subseteq TwoOrdered
       /\ count["acceptor"] <= 1
=============================================================================
