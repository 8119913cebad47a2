SPECIFICATION Spec
CONSTANTS
    Day = 3
    Cooldown = 2
    FailedCooldown = 1
    MaxPerDay = 2
    EscapeWindow = 2
    MaxNow = 5
    MaxRecords = 4
INVARIANT DailyCapCountsEveryReason
