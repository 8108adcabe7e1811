SPECIFICATION Spec
CONSTANTS
    Stream <- LayeredStream
    MaxSize = 4
    History = 3
    TsMod = 8
    Trial = ""
    MaxAccepted = 8
INVARIANTS
    NextUnitFresh
    DecodableUnitsFound
    FramesAccounted
PROPERTIES
    ImplementsDecodableStream
CHECK_DEADLOCK FALSE
