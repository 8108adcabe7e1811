SPECIFICATION Spec
CONSTANTS
    Stream <- KsvcStream
    MaxSize = 5
    History = 4
    TsMod = 16
    Trial = ""
    MaxInserts = 7
    MaxStarts = 1
INVARIANTS
    ScheduledIsNext
CHECK_DEADLOCK FALSE
