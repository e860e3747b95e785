CONSTANTS
    MaxOrderId = 6
    MessageHeaderBytes = 4
    Quota <- MCQuota
    Window = 3
    ReorderAcrossWrap = TRUE
    MaxSends = 8
SPECIFICATION OrderedSpec
INVARIANT AvailableAtOnce
CHECK_DEADLOCK FALSE
