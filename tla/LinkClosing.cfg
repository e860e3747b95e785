CONSTANTS
    MaxOrderId = 4
    MessageHeaderBytes = 4
    Quota <- MCQuota
    MaxSeqNumber = 8
    MaxAckBits = 1
    InitThreshold = 1
    DropThreshold = 1
    ClosingThreshold = 0
    PacketDropThreshold = 0
    PacketSpace = 20
    Scrambles = FALSE
    Script <- NoMessages
    Envs <- AllEnvs
    Closers = {"initiator", "acceptor"}
    MaxLag = 1
    MaxPackets <- TwoAndTwo
    MaxEvents = 1
SPECIFICATION Spec
PROPERTIES LifecycleSpec ViewAgrees
CHECK_DEADLOCK FALSE
