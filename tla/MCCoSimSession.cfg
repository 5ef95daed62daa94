SPECIFICATION Spec
CONSTANTS
    a = a
    b = b
    NoClient = NoClient
    Clients <- MCClients
    ClientVersion <- MCClientVersion
    LatestVersion = 2
    HostCalls = {"Start", "Step", "Ping"}
    PollTimeouts = {"finite"}
    IsClientOptional = FALSE
    SocketsCanFail = TRUE
    ExchangeCanFail = TRUE
    MaxConns = 2
    MaxCommands = 0
INVARIANTS
    TypeOK
    NoUnexpectedFrame
    NoAdvanceDuringCallback
    OneLiveSession
    ServerReachable
    VersionAgreement
PROPERTIES
    ImplementsLockStep
