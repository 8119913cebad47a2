SPECIFICATION Spec
CONSTANTS
    a = a
    b = b
    Items = {a, b}
    Episodes = {a, b}
    Size <- MCSize
    SearchRounds = 2
    RoundSpacing = 1
    Grace = 2
    JobTimeout = 1
    Pause = 1
    MaxLag = 1
    MaxFaults = 1
    Other = Other
    None = None
INVARIANTS
    QueueSound
PROPERTIES
    SendsInOrder
