SPECIFICATION FairSpec
CONSTANTS
    Stream <- ShortStream
    MaxSize = 3
    History = 4
    TsMod = 16
    Trial = ""
    MaxInserts = 5
    MaxStarts = 2
INVARIANTS
    DecoderInputDecodable
    ScheduledIsNext
    DecodableIsScheduled
    TimeoutArmed
PROPERTIES
    UnitsLeave
CHECK_DEADLOCK FALSE
