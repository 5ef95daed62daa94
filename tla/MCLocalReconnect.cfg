SPECIFICATION MCSpec
CONSTANTS
    s1 = s1
    s2 = s2
    c1 = c1
    x1 = x1
    n1 = n1
    n2 = n2
    Servers = {s1, s2}
    Clients = {c1}
    Strangers = {x1}
    Casts <- MCCasts
    NoServer = NoServer
    Names = {n1, n2}
    Namings <- MCNamings
    Wanted <- MCWanted
    StartsMapper = {s1}
    PortsOf <- MCPortsOf
    Mishaps <- MCMishaps
    Mortal = {s1, s2}
    MaxBacklog = 2
    PipeClients = {c1}
    NoClient = NoClient
    NoPipe = NoPipe
    MaxNumber = 3
    Lingering = TRUE
    BufferSize = 12
    SizeOfHeader = 2
    DefaultSizeToRead = 8
    Connections <- MCCarried
    Subjects = {"pipes"}
INVARIANTS
    PipeIsItsOwn
