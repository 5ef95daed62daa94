SPECIFICATION Spec
CONSTANTS
    a = a
    b = b
    NoClient = NoClient
    Clients = {a}
    ClientVersion <- MCClientVersion
    LatestVersion = 2
    HostCalls = {"Start", "Step", "Ping"}
    PollTimeouts = {"zero"}
    IsClientOptional = TRUE
    SocketsCanFail = FALSE
    ExchangeCanFail = FALSE
    MaxConns = 1
    MaxCommands = 0
PROPERTIES
    ZeroTimeoutSeesCommand
