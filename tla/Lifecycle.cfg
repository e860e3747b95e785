CONSTANTS
    InitThreshold = 1
    DropThreshold = 2
    ClosingThreshold = 1
    Closers = {"acceptor"}
    CloseAnytime = FALSE
    Forgets = TRUE
SPECIFICATION FairSpec
INVARIANTS TypeOK LogMatchesState ClosedMeansPeerClosed
PROPERTIES PeerGoneNoticed CloseCompletes
