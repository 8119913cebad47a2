SPECIFICATION Spec
CONSTANTS
    a = a
    b = b
    Items = {a, b}
    Episodes = {a}
    Size <- MCSize
    SearchRounds = 3
    RoundSpacing = 2
    Grace = 6
    JobTimeout = 1
    Pause = 1
    MaxLag = 0
    MaxFaults = 0
    Other = Other
    None = None
PROPERTY
    RetryGrace
