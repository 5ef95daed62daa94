SPECIFICATION FairSpec
CONSTANTS
    a = a
    b = b
    NoClient = NoClient
    Clients = {a}
    ClientVersion <- MCClientVersion
    LatestVersion = 2
    HostCalls = {"Start", "Step", "Ping"}
    PollTimeouts = {"finite", "infinite"}
    IsClientOptional = FALSE
    SocketsCanFail = FALSE
    ExchangeCanFail = FALSE
    MaxConns = 2
    MaxCommands = 2
CHECK_DEADLOCK FALSE
INVARIANTS
    CommandsInOrderOnce
PROPERTIES
    NoCommandFromEarlierConnect
    RequestEnds
    ConnectReturns
    DeadClientDropped
    CommandLeaves
