CONSTANTS
    MaxOrderId = 4
    MessageHeaderBytes = 4
    Quota <- MCQuota
    MaxSeqNumber = 4
    MaxAckBits = 2
    InitThreshold = 2
    DropThreshold = 2
    ClosingThreshold = 1
    PacketDropThreshold = 1
    PacketSpace = 20
    Scrambles = FALSE
    Script <- NoMessages
    Envs <- SentOnly
    Closers = {}
    MaxLag = 1
    MaxPackets <- NineAndNine
    MaxEvents = 1
SPECIFICATION Spec
INVARIANTS NoFalseClosure
CHECK_DEADLOCK FALSE
