SPECIFICATION FairSpec
CONSTANTS
    Dest = {a, b, c}
    MaxPending = 2
    Generations = 4
    Nothing = Nothing
INVARIANTS
    PublisherQuiet
    LatestKept
PROPERTIES
    NoWriteAfterShutdown
    ImplementsMailbox
    PublisherProgress
