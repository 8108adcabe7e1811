SPECIFICATION Spec
CONSTANTS
    Configurations <- SomeConfigurations
    Media <- SomeMedia
    Numbers = 8
    HistorySize = 2
    MaxMedia = 3
    MaxNacks = 2
    MaxFec = 1
    MaxPadding = 1
    MaxParams = 2
CHECK_DEADLOCK FALSE
INVARIANTS
    InOrder
    RequestableAgain
    CountersMatchWire
PROPERTIES
    FecUsesLatest
