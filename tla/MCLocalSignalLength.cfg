SPECIFICATION MCSpec
CONSTANTS
    s1 = s1
    s2 = s2
    s3 = s3
    ConnectionKinds = {"local"}
    Signals <- MCSignals
    Writer <- MCWriter
    Length <- MCLength
    Variable <- MCVariable
    Data = {0, 1}
    Zero = 0
    LocalSignals <- MCLocalSignals
    Restarts = FALSE
    LengthOnly = TRUE
    Erasure = {}
INVARIANTS
    LocalClientReadsServerValue
