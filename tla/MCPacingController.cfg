SPECIFICATION Spec
CONSTANTS
    Configurations <- SomeConfigurations
    Rates <- SomeRates
    MediaPackets <- SomePackets
    PaddingSizes = {1}
    CongestedInterval = 3
    MaxElapsedTime = 3
    MaxDebtInTime = 3
    TargetPaddingDuration = 1
    MaxPaddingReplay = 1
    MaxEarlyProbe = 1
    MaxBurstSize = 6
    QueueTimeLimit = 4
    ProbeSize = 3
    ProbeDelta = 1
    MaxProbeDelay = 0
    RecommendedProbeSize = 2
    Late = 1
    MaxTime = 6
    MaxCalls = 5
CHECK_DEADLOCK FALSE
INVARIANTS
    PacedBound
    NeverSilent
    BreakerForBacklogs
    NoSpin
