SPECIFICATION FairSpec
CONSTANTS
    BufferSize = 20
    SizeOfHeader = 2
    DefaultSizeToRead = 4
    Connections <- LocalConnections
PROPERTIES
    TimeoutMeansNoData
