----------------------------- MODULE PortMapper -----------------------------
(***************************************************************************)
(* How a client finds a server by its name over TCP.  A server that starts *)
(* to listen tells the port mapper its port and, before it stops to        *)
(* listen, takes it back (StartAccepting, StopAccepting); a client asks    *)
(* the mapper and connects to the port it is told (RemoteConnect).  The    *)
(* mapper is a map of names to ports behind a thread in the process of one *)
(* of the servers.  It serves one connection after the other and reads its *)
(* request without a timeout.                                              *)
(*                                                                         *)
(* A server listens on an address that clients can reach and is configured *)
(* to register.  Processes may end at any moment, and a process that is    *)
(* neither server nor client may connect to the mapper.                    *)
(***************************************************************************)
EXTENDS Naturals, Sequences

CONSTANTS
    Servers, Clients,
    Strangers,      \* processes that connect and send nothing the mapper knows
    Casts,          \* which clients and strangers may take part together
    NoServer,
    Names,          \* the names of servers
    Namings,        \* the names the servers may have
    Wanted,         \* the name each client asks for
    StartsMapper,   \* the servers with startPortMapper
    PortsOf,        \* the ports a server can get, all of them with config.port 0
    Mishaps,        \* what a stranger sends: nothing, or a frame that is no request
    Mortal,         \* bound: the servers whose process may end
    MaxBacklog      \* bound: the connections that wait for the mapper

Unknown == [kind |-> "unexpected"]

ASSUME PortMapperAssumption ==
    /\ Servers \cap Clients = {} /\ Strangers \cap (Servers \cup Clients) = {}
    /\ NoServer \notin Servers /\ StartsMapper \subseteq Servers
    /\ Namings \subseteq [Servers -> Names] /\ Wanted \in [Clients -> Names]
    /\ Casts \subseteq SUBSET (Clients \cup Strangers) /\ Mortal \subseteq Servers
    /\ PortsOf \in [Servers -> SUBSET (Nat \ {0})]
    /\ Mishaps \subseteq {<<>>, <<Unknown>>} /\ MaxBacklog \in Nat

Callers == Servers \cup Clients \cup Strangers

VARIABLES
    name,        \* the name of each server
    present,     \* the clients and strangers that take part
    at,          \* what the host of each server is in
    listener,    \* the port of its _tcpChannelServer, or 0
    host,        \* the server whose _portMapperServer is there
    thread,      \* its thread: "polling", "reading", "ended", or "none"
    entries,     \* its _ports
    backlog,     \* the connections to it, the first is served if thread reads
    call,        \* where each caller's call of the mapper is
    told,        \* the port each client was told, or 0
    contact,     \* the server it has connected to, as long as that listens
    \* history, read by properties only
    acknowledged,  \* the listening servers whose port this mapper has entered
    orphaned,      \* the names whose entry is of a process that has ended
    moved,         \* the clients whose server stopped to listen since they asked,
                   \* or was orphaned when they were told
    erred          \* the thread has met an error: a frame it does not know, or accept failed

server == <<name, present, at, listener>>
mapper == <<host, thread, entries>>
client == <<told, contact>>
past   == <<acknowledged, orphaned, moved, erred>>
vars   == <<server, mapper, backlog, call, client, past>>

\* Requests, and a connection with the request that lies in it, if any.
SetPort(n, port) == [kind |-> "SetPort", name |-> n, port |-> port]
UnsetPort(n)     == [kind |-> "UnsetPort", name |-> n]
GetPort(n)       == [kind |-> "GetPort", name |-> n]

Connection(caller, requests) == [from |-> caller, requests |-> requests, gone |-> FALSE]

NoEntries == [n \in {} |-> 0]

Init ==
    /\ name \in Namings /\ present \in Casts
    /\ at = [s \in Servers |-> "unloaded"]
    /\ listener = [s \in Servers |-> 0]
    /\ host = NoServer /\ thread = "none" /\ entries = NoEntries
    /\ backlog = <<>>
    /\ call = [k \in Callers |-> "none"]
    /\ told = [c \in Clients |-> 0]
    /\ contact = [c \in Clients |-> NoServer]
    /\ acknowledged = {} /\ orphaned = {} /\ moved = {} /\ erred = FALSE

FreePorts(s) == PortsOf[s] \ {listener[t] : t \in Servers}

Ports == UNION {PortsOf[s] : s \in Servers}

-----------------------------------------------------------------------------
(* A call of the mapper: connect, send the request, wait for the answer.   *)

\* A port where nobody listens is an error, and with it the call; where somebody
\* listens, the system completes the connection, and the request can be sent.
Call(k, requests, mapperIsThere) ==
    IF ~mapperIsThere
    THEN call' = [call EXCEPT ![k] = "failed"] /\ UNCHANGED backlog
    ELSE /\ Len(backlog) < MaxBacklog
         /\ call' = [call EXCEPT ![k] = "waiting"]
         /\ backlog' = Append(backlog, Connection(k, requests))

\* The connection of a process that has ended, or of a stranger that leaves.
\* What it sent can still be read.
WithoutCaller(queue, k) ==
    [i \in DOMAIN queue |-> IF queue[i].from = k THEN [queue[i] EXCEPT !.gone = TRUE]
                                                 ELSE queue[i]]

\* The callers behind connections that are reset fail.
ResetCalls(queue) ==
    [k \in Callers |->
        IF \E i \in DOMAIN queue : queue[i].from = k /\ ~queue[i].gone THEN "failed" ELSE call[k]]

-----------------------------------------------------------------------------
(* The thread of the mapper.                                               *)

\* TryAccept, at a turn of the loop of RunPortMapperServer.
TryAccept ==
    /\ thread = "polling" /\ backlog # <<>>
    /\ thread' = "reading"
    /\ UNCHANGED <<server, host, entries, backlog, call, client, past>>

\* Mutant: a name that is entered keeps its port.
EnteredOnce(n, port) ==
    [other \in DOMAIN entries \cup {n} |-> IF other \in DOMAIN entries THEN entries[other] ELSE port]

Entered(n, port) ==
    [other \in DOMAIN entries \cup {n} |-> IF other = n THEN port ELSE entries[other]]

\* Mutant: the entry stays.
NotErased(n) == entries

Erased(n) == [other \in DOMAIN entries \ {n} |-> entries[other]]

HandleSetPort(request, connection) ==
    LET n == request.name IN
    /\ entries' = Entered(n, request.port)
    /\ orphaned' = IF connection.gone THEN orphaned \cup {n} ELSE orphaned \ {n}
    /\ acknowledged' = IF connection.gone THEN acknowledged
                                          ELSE acknowledged \cup {connection.from}
    /\ UNCHANGED <<told, moved>>

HandleUnsetPort(request) ==
    /\ entries' = Erased(request.name)
    /\ orphaned' = orphaned \ {request.name}
    /\ UNCHANGED <<told, acknowledged, moved>>

\* Who asks for a name that is not entered is answered with an error frame.
HandleGetPort(request, connection) ==
    LET n == request.name IN
    /\ IF ~connection.gone /\ n \in DOMAIN entries
       THEN /\ told' = [told EXCEPT ![connection.from] = entries[n]]
            /\ moved' = IF n \in orphaned THEN moved \cup {connection.from} ELSE moved
       ELSE UNCHANGED <<told, moved>>
    /\ UNCHANGED <<entries, acknowledged, orphaned>>

Handle(request, connection) ==
    \/ request.kind = "SetPort" /\ HandleSetPort(request, connection)
    \/ request.kind = "UnsetPort" /\ HandleUnsetPort(request)
    \/ request.kind = "GetPort" /\ HandleGetPort(request, connection)

\* HandleClient reads a request and answers it; CheckForClient then closes the
\* connection.
HandleClient ==
    LET connection == Head(backlog) IN
    /\ thread = "reading" /\ connection.requests # <<>>
    /\ connection.requests # <<Unknown>>
    /\ Handle(Head(connection.requests), connection)
    /\ thread' = "polling"
    /\ backlog' = Tail(backlog)
    /\ call' = IF connection.gone THEN call ELSE [call EXCEPT ![connection.from] = "answered"]
    /\ UNCHANGED <<server, host, contact, erred>>

\* Mutant: any result but Ok ends the thread.
EndsUnlessOk(result) == result # "Ok"

\* RunPortMapperServer goes on unless CheckForClient returned an error.
EndsThread(result) == result = "Error"

NextTurn(result) == thread' = IF EndsThread(result) THEN "ended" ELSE "polling"

\* accept fails, because the process has no descriptor left or the connection was
\* aborted meanwhile; what waits in the backlog stays there.
AcceptFails ==
    /\ thread = "polling" /\ backlog # <<>>
    /\ NextTurn("Error")
    /\ erred' = TRUE
    /\ UNCHANGED <<server, host, entries, backlog, call, client, acknowledged, orphaned, moved>>

\* A caller has left before it sent anything, which is "not connected" ...
CallerHasLeft ==
    LET connection == Head(backlog) IN
    /\ thread = "reading"
    /\ connection.requests = <<>> /\ connection.gone
    /\ NextTurn("NotConnected")
    /\ backlog' = Tail(backlog)
    /\ UNCHANGED <<server, host, entries, call, client, past>>

\* ... and a frame that is no request is an error.
UnexpectedFrame ==
    LET connection == Head(backlog) IN
    /\ thread = "reading" /\ connection.requests = <<Unknown>>
    /\ NextTurn("Error")
    /\ backlog' = Tail(backlog)
    /\ call' = IF connection.gone THEN call ELSE [call EXCEPT ![connection.from] = "failed"]
    /\ erred' = TRUE
    /\ UNCHANGED <<server, host, entries, client, acknowledged, orphaned, moved>>

-----------------------------------------------------------------------------
(* A server.                                                               *)

Becomes(s, stage) == at' = [at EXCEPT ![s] = stage]

\* StartAccepting: who has a listener already tells the mapper nothing.
\* Creating the listeners may fail, and that of the local channel behind the
\* other one.
StartAccepting(s, ifFails, mapperIsThere) ==
    \/ /\ listener[s] # 0
       /\ Becomes(s, "accepting")
       /\ UNCHANGED <<listener, backlog, call>>
    \/ /\ listener[s] = 0
       /\ \E port \in FreePorts(s) :
             /\ listener' = [listener EXCEPT ![s] = port]
             /\ \/ /\ Becomes(s, "registering")
                   /\ Call(s, <<SetPort(name[s], port)>>, mapperIsThere)
                \/ Becomes(s, ifFails) /\ UNCHANGED <<backlog, call>>
    \/ /\ listener[s] = 0
       /\ Becomes(s, ifFails)
       /\ UNCHANGED <<listener, backlog, call>>

\* Load creates the mapper first, which fails where there is one.
Load(s) ==
    /\ at[s] = "unloaded"
    /\ s \in StartsMapper => host = NoServer
    /\ StartAccepting(s, "unloaded", s \in StartsMapper \/ host # NoServer)
    /\ IF s \in StartsMapper
       THEN /\ host' = s /\ thread' = "polling" /\ entries' = NoEntries
            /\ acknowledged' = {} /\ orphaned' = {} /\ erred' = FALSE
       ELSE UNCHANGED <<mapper, acknowledged, orphaned, erred>>
    /\ UNCHANGED <<name, present, client, moved>>

\* Whether the mapper knows the port or not, the server then accepts.
Registered(s) ==
    /\ at[s] = "registering" /\ call[s] \in {"answered", "failed"}
    /\ Becomes(s, "accepting")
    /\ call' = [call EXCEPT ![s] = "none"]
    /\ UNCHANGED <<name, present, listener, mapper, backlog, client, past>>

\* StopAccepting takes the port back before it closes the listener.
StopAccepting(s, stage) ==
    /\ Becomes(s, stage)
    /\ Call(s, <<UnsetPort(name[s])>>, host # NoServer)
    /\ acknowledged' = acknowledged \ {s}

\* A client has connected, and the handshake succeeds.
AcceptChannel(s) ==
    /\ at[s] = "accepting"
    /\ \E c \in Clients : contact[c] = s
    /\ StopAccepting(s, "closing")
    /\ UNCHANGED <<name, present, listener, mapper, client, orphaned, moved, erred>>

\* CloseConnection, behind the end of a session.
CloseConnection(s) ==
    /\ at[s] = "inSession"
    /\ StartAccepting(s, "accepting", host # NoServer)
    /\ UNCHANGED <<name, present, mapper, client, past>>

\* Unload, also by the destructor and when nothing is loaded.
Unload(s) ==
    /\ at[s] \in {"unloaded", "accepting", "inSession"}
    /\ StopAccepting(s, "unloading")
    /\ UNCHANGED <<name, present, listener, mapper, client, orphaned, moved, erred>>

\* The listener of s is closed, and who had connected to it is reset.
Closed(s) ==
    /\ listener' = [listener EXCEPT ![s] = 0]
    /\ contact' = [c \in Clients |-> IF contact[c] = s THEN NoServer ELSE contact[c]]
    /\ moved' = moved \cup {c \in Clients : Wanted[c] = name[s] /\ call[c] # "none"}

\* The mapper of s is no more.
MapperGone ==
    /\ host' = NoServer /\ thread' = "none" /\ entries' = NoEntries
    /\ backlog' = <<>>
    /\ orphaned' = {} /\ erred' = FALSE

\* Its destructor waits for the thread.
Stopped(s) ==
    /\ at[s] \in {"closing", "unloading"} /\ call[s] \in {"answered", "failed"}
    /\ Becomes(s, IF at[s] = "closing" THEN "inSession" ELSE "unloaded")
    /\ Closed(s)
    /\ IF at[s] = "unloading" /\ host = s
       THEN /\ thread # "reading"
            /\ MapperGone
            /\ acknowledged' = {}
            /\ call' = [ResetCalls(backlog) EXCEPT ![s] = "none"]
       ELSE /\ call' = [call EXCEPT ![s] = "none"]
            /\ UNCHANGED <<mapper, backlog, acknowledged, orphaned, erred>>
    /\ UNCHANGED <<name, present, told>>

\* The process of a server ends at any moment; it may be started again.
Crash(s) ==
    /\ s \in Mortal
    /\ at[s] # "unloaded" \/ host = s
    /\ Becomes(s, "unloaded")
    /\ Closed(s)
    /\ IF host = s
       THEN /\ MapperGone
            /\ acknowledged' = {}
            /\ call' = [ResetCalls(backlog) EXCEPT ![s] = "none"]
       ELSE /\ backlog' = WithoutCaller(backlog, s)
            /\ call' = [call EXCEPT ![s] = "none"]
            /\ acknowledged' = acknowledged \ {s}
            /\ orphaned' = IF name[s] \in DOMAIN entries THEN orphaned \cup {name[s]} ELSE orphaned
            /\ UNCHANGED <<mapper, erred>>
    /\ UNCHANGED <<name, present, told>>

-----------------------------------------------------------------------------
(* A client, and a stranger.                                               *)

\* RemoteConnect without a port asks the mapper.
Ask(c) ==
    /\ c \in present /\ call[c] = "none" /\ contact[c] = NoServer
    /\ Call(c, <<GetPort(Wanted[c])>>, host # NoServer)
    /\ UNCHANGED <<server, mapper, client, past>>

\* It connects to the port it was told.  Whoever listens there accepts it: the
\* server does not look at the name in the connect frame.
RemoteConnect(c) ==
    /\ call[c] \in {"answered", "failed"}
    /\ call' = [call EXCEPT ![c] = "none"]
    /\ told' = [told EXCEPT ![c] = 0]
    /\ moved' = moved \ {c}
    /\ IF told[c] # 0 /\ \E s \in Servers : listener[s] = told[c]
       THEN contact' = [contact EXCEPT ![c] = CHOOSE s \in Servers : listener[s] = told[c]]
       ELSE UNCHANGED contact
    /\ UNCHANGED <<server, mapper, backlog, acknowledged, orphaned, erred>>

StrangerConnects(k) ==
    /\ call[k] = "none" /\ k \in present /\ host # NoServer
    /\ \E requests \in Mishaps : Call(k, requests, TRUE)
    /\ UNCHANGED <<server, mapper, client, past>>

\* The process of a client or a stranger ends, or gives up.
Leave(k) ==
    /\ call[k] # "none"
    /\ call' = [call EXCEPT ![k] = "none"]
    /\ backlog' = WithoutCaller(backlog, k)
    /\ told' = [c \in Clients |-> IF c = k THEN 0 ELSE told[c]]
    /\ moved' = moved \ {k}
    /\ UNCHANGED <<server, mapper, contact, acknowledged, orphaned, erred>>

-----------------------------------------------------------------------------
MapperThread == TryAccept \/ AcceptFails \/ HandleClient \/ CallerHasLeft \/ UnexpectedFrame

Next ==
    \/ MapperThread
    \/ \E s \in Servers : \/ Load(s) \/ Registered(s) \/ AcceptChannel(s) \/ CloseConnection(s)
                          \/ Unload(s) \/ Stopped(s) \/ Crash(s)
    \/ \E c \in Clients : Ask(c) \/ RemoteConnect(c)
    \/ \E k \in Strangers : StrangerConnects(k)
    \/ \E k \in Clients \cup Strangers : Leave(k)

Spec == Init /\ [][Next]_vars

\* The thread runs.  When anything is loaded, connects or leaves is left open.
FairSpec == Spec /\ WF_vars(MapperThread)

-----------------------------------------------------------------------------
(* Properties.                                                             *)

Requests == [kind : {"SetPort"}, name : Names, port : Ports]
                \cup [kind : {"UnsetPort", "GetPort"}, name : Names] \cup {Unknown}

TypeOK ==
    /\ name \in Namings /\ present \in Casts
    /\ at \in [Servers -> {"unloaded", "registering", "accepting", "closing", "inSession", "unloading"}]
    /\ listener \in [Servers -> Ports \cup {0}]
    /\ host \in Servers \cup {NoServer}
    /\ thread \in {"none", "polling", "reading", "ended"}
    /\ DOMAIN entries \subseteq Names /\ \A n \in DOMAIN entries : entries[n] \in Ports
    /\ \A i \in DOMAIN backlog :
          /\ backlog[i].from \in Callers /\ backlog[i].gone \in BOOLEAN
          /\ backlog[i].requests \in {<<>>} \cup {<<r>> : r \in Requests}
    /\ call \in [Callers -> {"none", "waiting", "answered", "failed"}]
    /\ told \in [Clients -> Ports \cup {0}]
    /\ contact \in [Clients -> Servers \cup {NoServer}]
    /\ acknowledged \subseteq Servers /\ orphaned \subseteq Names
    /\ moved \subseteq Clients /\ erred \in BOOLEAN

\* What the mapper has entered is the port of a server of that name that
\* listens, unless a process ended without taking it back; and a server that
\* has told it its port, and accepts, is found under its name, unless another
\* server of that name came or went.
EntriesMatchListeners ==
    /\ \A n \in DOMAIN entries \ orphaned :
          \E s \in Servers : name[s] = n /\ listener[s] = entries[n]
    /\ \A s \in acknowledged :
          at[s] = "accepting" /\ (\A t \in Servers \ {s} : name[t] # name[s]) =>
             name[s] \in DOMAIN entries /\ entries[name[s]] = listener[s]

\* A client that connects to the port it was told reaches a server of the name
\* it asked for, although nobody compares the names, unless that server has
\* stopped to listen, or ended, since the client asked or without a trace.
ReachesNamedServer ==
    [][\A c \in Clients :
          contact'[c] # contact[c] /\ contact'[c] # NoServer =>
             name[contact'[c]] = Wanted[c] \/ c \in moved]_vars

\* A call of the mapper by a server or a client comes back, although it waits
\* for its answer without a timeout, unless the thread of the mapper has ended with
\* an error, or a stranger that is served stays and says nothing.
CallsReturn ==
    \A k \in Servers \cup Clients :
        call[k] = "waiting"
            ~> \/ call[k] # "waiting"
               \/ erred
               \/ backlog # <<>> /\ Head(backlog).from \in Strangers
=============================================================================
