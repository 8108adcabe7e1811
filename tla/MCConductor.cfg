SPECIFICATION FairSpec
CONSTANTS
    Peers = {1, 2}
    MaxCalls = 3
    MaxMessages = 4
    MaxCallbacks = 3
INVARIANTS
    PeerOfCall
    SentInOrder
    PendingIsDriven
PROPERTY
    PeerGoneEndsCall
\* The process may crash, or have no callback left after its window was closed.
CHECK_DEADLOCK FALSE
