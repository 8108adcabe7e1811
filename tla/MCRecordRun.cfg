SPECIFICATION FairSpec
CONSTANTS
    Options <- Calls
    Rows = 1
    MaxSignals = 1
INVARIANTS
    NothingLeft
    OkMeansArtifacts
PROPERTIES
    ScriptEnds
CHECK_DEADLOCK FALSE
