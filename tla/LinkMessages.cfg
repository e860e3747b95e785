CONSTANTS
    MaxOrderId = 4
    MessageHeaderBytes = 4
    Quota <- MCQuota
    MaxSeqNumber = 8
    MaxAckBits = 3
    InitThreshold = 2
    DropThreshold = 2
    ClosingThreshold = 1
    PacketDropThreshold = 1
    PacketSpace = 5
    Scrambles = FALSE
    Script <- EitherScript
    Envs <- SentOnly
    Closers = {}
    MaxLag = 3
    MaxPackets <- FourAndTwo
    MaxEvents = 1
SPECIFICATION Spec
CONSTRAINT OneScript
INVARIANTS AckSound ReliableKept AtMostOnce
PROPERTIES PackingGetsOn
CHECK_DEADLOCK FALSE
