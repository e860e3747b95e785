CONSTANTS
    MaxOrderId = 4
    MessageHeaderBytes = 4
    Quota <- MCQuota
    MaxSeqNumber = 8
    MaxAckBits = 3
    InitThreshold = 2
    DropThreshold = 2
    ClosingThreshold = 1
    PacketDropThreshold = 1
    PacketSpace = 20
    Scrambles = FALSE
    Script <- AcceptorReliable
    Envs <- SentOnly
    Closers = {}
    MaxLag = 2
    MaxPackets <- ThreeAndThree
    MaxEvents = 1
SPECIFICATION Spec
INVARIANTS ReliableKept
CHECK_DEADLOCK FALSE
