SPECIFICATION StreamFairSpec
CONSTANTS
    EncoderConfigs <- SomeConfigs
    Encodings <- SomeEncodings
    Allocations <- SomeAllocations
    Rates = {0, 20}
    DefaultMin = 3
    Hysteresis = 120
    MaxDifference = 10
    PadToMin = FALSE
    AlrProbing = FALSE
    MaxTasks = 2
CHECK_DEADLOCK FALSE
INVARIANTS
    ObservedWhileRunning
    AllocatorUpToDate
    NewestAllocation
PROPERTIES
    EncoderComesBack
    ThrottledIsSent
