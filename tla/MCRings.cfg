SPECIFICATION RingsSpec
CONSTANTS
    c1 = c1
    c2 = c2
    ConnectionKinds = {"remote", "local"}
    Controllers <- MCControllers
    QueueSize <- MCQueueSize
    HasCallback <- MCHasCallback
    MaxSent <- MCMaxSent
    Restarts = FALSE
    LocalCountLimit = 8
    LocalMaxSent <- MCLocalMaxSent
    PipeBufferSize = 2
    IndexLimit = 4
    WriteSizes = {3}
    ReadSizes = {2}
    DetectionLimit = 2
INVARIANTS
    NeverOverflows
    CountsMatchQueue
    InOrderOnce
    NothingVanishes
    LocalCountsMatchRing
    LocalInOrderOnce
    BytesInOrder
PROPERTIES
    EveryMessageArrives
    FailsForCause
    GoneIsNoticed
    EveryByteIsRead
