SPECIFICATION Spec
CONSTANTS
    MaxDataPoints = 3
    AverageWindow = 2
    MinAxis = 1
    AxisSteps <- MCAxisSteps
    U64Max = 7
    Float <- MCFloat
    MsPerSecond = 4
    Blocks <- MCBlocks
    MaxSamples = 3
    EndpointCount = 2
    NoHead = NoHead
INVARIANTS TypeOK ChartsComplete MaximaExact AxisCovers
PROPERTIES LastSampleAfterStop Reconnects Ends
CHECK_DEADLOCK FALSE
