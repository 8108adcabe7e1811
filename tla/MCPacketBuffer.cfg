SPECIFICATION Spec
CONSTANTS
    Streams <- AllStreams
    SeqMod = 32
    StartBufferSize = 2
    MaxBufferSize = 4
    MaxPaddingAge = 5
INVARIANTS
    WholeFrames
    CompleteFrameLeaves
PROPERTIES
    DeltaWaitsForGaps
