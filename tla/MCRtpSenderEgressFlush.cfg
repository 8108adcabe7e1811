SPECIFICATION Spec
CONSTANTS
    Configurations <- FlushConfiguration
    Media <- SomeMedia
    Numbers = 8
    HistorySize = 2
    MaxMedia = 3
    MaxNacks = 1
    MaxFec = 0
    MaxPadding = 0
    MaxParams = 0
CHECK_DEADLOCK FALSE
INVARIANTS
    RequestableAgain
