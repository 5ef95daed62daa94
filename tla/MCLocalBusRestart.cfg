SPECIFICATION MCSpec
CONSTANTS
    c1 = c1
    c2 = c2
    Controllers <- MCControllers
    QueueSize <- MCQueueSize
    HasCallback <- MCHasCallback
    ConnectionKinds = {"local"}
    MaxSent <- MCMaxSent
    Restarts = TRUE
    LocalCountLimit = 8
    LocalMaxSent <- MCLocalMaxSent
INVARIANTS
    LocalInOrderOnce
