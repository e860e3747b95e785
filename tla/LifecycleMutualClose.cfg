CONSTANTS
    InitThreshold = 1
    DropThreshold = 2
    ClosingThreshold = 1
    Closers = {"initiator", "acceptor"}
    CloseAnytime = FALSE
    Forgets = FALSE
SPECIFICATION FairSpec
PROPERTIES CloseCompletes
