CONSTANTS
    MaxOrderId = 6
    MessageHeaderBytes = 4
    Quota <- MCQuota
    Window = 3
    ReorderAcrossWrap = FALSE
    MaxSends = 14
SPECIFICATION FairSpec
INVARIANTS TypeOK InOrder AvailableAtOnce IInv
PROPERTIES FifoSpec EventuallyHanded
CHECK_DEADLOCK FALSE
