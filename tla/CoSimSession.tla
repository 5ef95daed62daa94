---------------------------- MODULE CoSimSession ----------------------------
(***************************************************************************)
(* The co-simulation session between CoSimServer (inside the simulator)    *)
(* and the CoSimClient objects of the applications that may connect to it. *)
(*                                                                         *)
(* The server is driven by one host thread: a call of Start, Stop,         *)
(* Terminate, Pause, Continue, Step or BackgroundService runs to its end   *)
(* before the next one starts, and blocks inside until the client's answer *)
(* arrives.  A client is driven by the thread that calls Connect,          *)
(* RunCallbackBasedCoSimulation, PollCommand and FinishCommand; a second   *)
(* thread (or a callback) may call Disconnect and the simulation commands  *)
(* (Start(), Stop(), ... of the client) at any moment.                     *)
(*                                                                         *)
(* A connection is a pair of FIFO queues of frames.  Once one end closed   *)
(* it, or the network broke it, what was sent before may still be read or  *)
(* be lost, and what is sent later never arrives.                          *)
(***************************************************************************)
EXTENDS Integers, Sequences

CONSTANTS
    Clients,         \* the client objects, each in a process of its own
    NoClient,        \* the owner of a connection not made yet
    ClientVersion,   \* the protocol version each client asks for
    LatestVersion,   \* ProtocolVersionLatest of the server
    HostCalls,       \* the requests the host makes
    PollTimeouts,    \* the timeouts PollCommand is called with
    IsClientOptional,\* CoSimServerConfig.isClientOptional
    SocketsCanFail,  \* creating a listener or accepting from it may fail
    ExchangeCanFail, \* creating the signal or bus exchange may fail
    MaxConns,        \* bound: connections made in a behaviour
    MaxCommands      \* bound: commands each client issues in a behaviour

Requests == {"Start", "Stop", "Terminate", "Pause", "Continue", "Step", "Ping"}

ASSUME ConstantsAssumption ==
    /\ NoClient \notin Clients
    /\ ClientVersion \in [Clients -> Nat]
    /\ LatestVersion \in Nat \ {0}
    /\ HostCalls \subseteq Requests
    /\ PollTimeouts \subseteq {"zero", "finite", "infinite"}
    /\ {IsClientOptional, SocketsCanFail, ExchangeCanFail} \subseteq BOOLEAN
    /\ MaxConns \in Nat
    /\ MaxCommands \in Nat

VARIABLES
    \* CoSimServer
    simulationState,  \* _simulationState
    serverChannel,    \* the connection behind _channel, 0 when there is none
    listener,         \* the channel servers: "open", "closed", or "failed" to open
    serverAt,         \* where the host's call stands
    request,          \* the request the host's call is about, or "None"
    serverVersion,    \* _protocol->GetVersion() of the server
    \* connections
    connections,      \* how many were made so far; they are 1..connections
    owner,            \* the client that made a connection
    backlog,          \* made but not accepted yet, oldest first
    up,               \* neither end closed it and the network did not break it
    toServer,         \* frames on their way to the server
    toClient,         \* frames on their way to the client
    \* CoSimClient
    channel,          \* the connection behind _channel, 0 before the first one
    isConnected,      \* _isConnected
    mode,             \* _responderMode
    clientAt,         \* where the client thread's call stands
    serving,          \* the frame whose callback runs in the blocking loop
    timeout,          \* the timeout of the PollCommand that runs
    currentCommand,   \* _currentCommand
    nextCommand,      \* _nextCommand: the number of the command, 0 for none
    commandChecked,   \* a thread is past EnsureIsConnected of a command call
    knownState,       \* _simulationState of the client
    clientVersion,    \* _protocol->GetVersion() of the client
    \* history, read by properties only
    issued,           \* commands the client issued so far
    issuedBefore,     \* issued[owner] when the connection was made
    delivered         \* the commands of a client the host was told of, in order

serverVars == <<simulationState, serverChannel, listener, serverAt, request,
                serverVersion>>
netVars    == <<connections, owner, backlog, up, toServer, toClient>>
clientVars == <<channel, isConnected, mode, clientAt, serving, timeout,
                currentCommand, nextCommand, commandChecked, knownState,
                clientVersion>>
historyVars == <<issued, issuedBefore, delivered>>
vars == <<serverVars, netVars, clientVars, historyVars>>

-----------------------------------------------------------------------------
(* Frames.                                                                 *)

Conns  == 1 .. MaxConns
States == {"Unloaded", "Stopped", "Running", "Paused", "Terminated"}
FrameKinds == Requests \cup {"Connect", "ConnectOk", "Ok", "StepOk", "PingOk"}

\* Only the fields the session reads: the version of Connect and ConnectOk,
\* the state of ConnectOk, the command of StepOk and PingOk.
Frames == [kind : FrameKinds, version : Nat, state : States, command : 0 .. MaxCommands]

Frame(kind) == [kind |-> kind, version |-> 0, state |-> "Unloaded", command |-> 0]
ConnectFrame(c)  == [Frame("Connect") EXCEPT !.version = ClientVersion[c]]
ConnectOkFrame(v, s) ==
    [kind |-> "ConnectOk", version |-> v, state |-> s, command |-> 0]

\* The frame that answers a request: a step or a ping carries the client's
\* pending command, the others are acknowledged.
ReplyKind(r) == CASE r = "Step" -> "StepOk"
                  [] r = "Ping" -> "PingOk"
                  [] OTHER      -> "Ok"

\* Mutant: only a step takes the pending command along.
CarriesCommandOnStepOnly(r) == r = "Step"

CarriesCommand(r) == r \in {"Step", "Ping"}

\* The state the server enters before it tells the client.
StateAfter(r) == CASE r \in {"Start", "Continue"} -> "Running"
                   [] r = "Stop"                  -> "Stopped"
                   [] r = "Terminate"             -> "Terminated"
                   [] r = "Pause"                 -> "Paused"
                   [] OTHER                       -> simulationState

\* Mutant: the version the client asked for is not looked at.
NegotiatedLatestAlways(v) == LatestVersion

\* What the two ends agree on: the older of the two versions.
Negotiated(v) == IF v >= LatestVersion THEN LatestVersion ELSE v

-----------------------------------------------------------------------------
Init ==
    /\ simulationState = "Stopped"
    /\ serverChannel = 0
    /\ listener = "open"
    /\ serverAt = "idle"
    /\ request = "None"
    /\ serverVersion = 1
    /\ connections = 0
    /\ owner = [k \in Conns |-> NoClient]
    /\ backlog = <<>>
    /\ up = [k \in Conns |-> FALSE]
    /\ toServer = [k \in Conns |-> <<>>]
    /\ toClient = [k \in Conns |-> <<>>]
    /\ channel = [c \in Clients |-> 0]
    /\ isConnected = [c \in Clients |-> FALSE]
    /\ mode = [c \in Clients |-> "Unknown"]
    /\ clientAt = [c \in Clients |-> "idle"]
    /\ serving = [c \in Clients |-> "None"]
    /\ timeout = [c \in Clients |-> "none"]
    /\ currentCommand = [c \in Clients |-> "None"]
    /\ nextCommand = [c \in Clients |-> 0]
    /\ commandChecked = [c \in Clients |-> FALSE]
    /\ knownState = [c \in Clients |-> "Unloaded"]
    /\ clientVersion = [c \in Clients |-> 1]
    /\ issued = [c \in Clients |-> 0]
    /\ issuedBefore = [k \in Conns |-> 0]
    /\ delivered = [c \in Clients |-> <<>>]

-----------------------------------------------------------------------------
(* Connections.                                                            *)

\* Mutant: nobody notices that the peer is gone.
CanFailNever(k) == FALSE

\* A send or a receive fails only on a dead connection; a send on a dead one
\* may also seem to succeed, but the frame never arrives.
CanFailOn(k) == ~up[k]
Deliver(queue, k, frame) ==
    IF up[k] THEN [queue EXCEPT ![k] = Append(@, frame)] ELSE queue

Forget(queue, k) == [queue EXCEPT ![k] = <<>>]

\* Resetting the listeners resets the connections nobody accepted.
Waiting(k) == \E i \in DOMAIN backlog : backlog[i] = k

\* Mutant: the listeners forget the connections and leave them open.
DropBacklogSilently ==
    /\ backlog' = <<>>
    /\ UNCHANGED <<up, toServer>>

DropBacklog ==
    /\ backlog' = <<>>
    /\ up' = [k \in Conns |-> up[k] /\ ~Waiting(k)]
    /\ toServer' = [k \in Conns |-> IF Waiting(k) THEN <<>> ELSE toServer[k]]

\* The network breaks a connection under both ends.
BreakConnection(k) ==
    /\ up[k]
    /\ up' = [up EXCEPT ![k] = FALSE]
    /\ UNCHANGED <<serverVars, clientVars, historyVars,
                   connections, owner, backlog, toServer, toClient>>

-----------------------------------------------------------------------------
(* CoSimServer.                                                            *)

\* Mutant: the server does not listen again.
StartAcceptingNever == UNCHANGED listener

\* StartAccepting creates the listeners that are not there.  "failed" is a TCP
\* listener that could not be made: the local one is not tried then.
StartAccepting ==
    listener' \in IF listener = "open" THEN {"open"}
                  ELSE {"open"} \cup (IF SocketsCanFail THEN {"failed"} ELSE {})

\* Mutant: the channel is given up without being closed.
CloseConnectionLeavesOpen ==
    /\ serverChannel' = 0
    /\ UNCHANGED up
    /\ toServer' = Forget(toServer, serverChannel)
    /\ StartAccepting
    /\ serverAt' = "idle"
    /\ request' = "None"

\* Mutant: the channel is closed and kept.
CloseConnectionKeepsChannel ==
    /\ UNCHANGED serverChannel
    /\ up' = [up EXCEPT ![serverChannel] = FALSE]
    /\ toServer' = Forget(toServer, serverChannel)
    /\ StartAccepting
    /\ serverAt' = "idle"
    /\ request' = "None"

\* CloseConnection: drop the channel, tell the host, accept again.
CloseConnection ==
    /\ serverChannel' = 0
    /\ up' = [up EXCEPT ![serverChannel] = FALSE]
    /\ toServer' = Forget(toServer, serverChannel)
    /\ StartAccepting
    /\ serverAt' = "idle"
    /\ request' = "None"

\* A Load that fails to listen leaves the server unloaded.
Load ==
    /\ simulationState = "Unloaded"
    /\ simulationState' = "Stopped"
    /\ serverVersion' = 1
    /\ listener' = "open"
    /\ UNCHANGED <<serverChannel, serverAt, request, netVars, clientVars, historyVars>>

Unload ==
    /\ serverAt = "idle"
    /\ simulationState # "Unloaded"
    /\ simulationState' = "Unloaded"
    /\ serverChannel' = 0
    /\ backlog' = <<>>
    /\ up' = [k \in Conns |-> up[k] /\ ~Waiting(k) /\ k # serverChannel]
    /\ toServer' = [k \in Conns |-> IF Waiting(k) \/ k = serverChannel THEN <<>>
                                                                   ELSE toServer[k]]
    /\ listener' = "closed"
    /\ UNCHANGED <<serverAt, request, serverVersion, connections, owner, toClient,
                   clientVars, historyVars>>

\* A host call while a client is attached: send the frame, wait for its answer.
HostRequest(r) ==
    /\ serverAt = "idle"
    /\ simulationState # "Unloaded"
    /\ serverChannel # 0
    /\ simulationState' = StateAfter(r)
    /\ \/ /\ toClient' = Deliver(toClient, serverChannel, Frame(r))
          /\ serverAt' = "wait"
          /\ request' = r
          /\ UNCHANGED <<serverChannel, listener, up, toServer>>
       \/ /\ CanFailOn(serverChannel)
          /\ CloseConnection
          /\ UNCHANGED toClient
    /\ UNCHANGED <<serverVersion, connections, owner, backlog, clientVars,
                   historyVars>>

\* A host call without a client only notes the new state; Start waits for a
\* client unless the client is optional.  Ping without a client is
\* BackgroundService, which accepts one (BackgroundAccept).
HostCallWithoutClient(r) ==
    /\ serverAt = "idle"
    /\ simulationState # "Unloaded"
    /\ serverChannel = 0
    /\ r # "Ping"
    /\ simulationState' = StateAfter(r)
    /\ IF r = "Start" /\ ~IsClientOptional /\ listener = "open"
       THEN serverAt' = "accept" /\ request' = "Start"
       ELSE UNCHANGED <<serverAt, request>>
    /\ UNCHANGED <<serverChannel, listener, serverVersion, netVars, clientVars,
                   historyVars>>

\* AcceptChannel inside Start's loop, or once from BackgroundService.
AcceptChannel ==
    /\ serverAt = "accept" \/ (serverAt = "idle" /\ serverChannel = 0)
    /\ listener = "open"
    /\ backlog # <<>>
    /\ serverChannel' = Head(backlog)
    /\ backlog' = Tail(backlog)
    /\ serverAt' = "hello"
    /\ UNCHANGED <<simulationState, listener, request, serverVersion, connections,
                   owner, up, toServer, toClient, clientVars, historyVars>>

\* TryAccept failed with an error: Start gives up.
AcceptFails ==
    /\ SocketsCanFail
    /\ serverAt = "accept"
    /\ serverAt' = "idle"
    /\ request' = "None"
    /\ UNCHANGED <<simulationState, serverChannel, listener, serverVersion,
                   netVars, clientVars, historyVars>>

\* OnHandleConnect up to SendConnectOk.
AnswerConnect ==
    /\ serverAt = "hello"
    /\ toServer[serverChannel] # <<>>
    /\ LET frame  == Head(toServer[serverChannel])
           agreed == Negotiated(frame.version)
           valid  == frame.kind = "Connect" /\ agreed >= 1
       IN  /\ serverVersion' = IF valid THEN agreed ELSE serverVersion
           /\ \/ /\ valid
                 /\ toServer' = [toServer EXCEPT ![serverChannel] = Tail(@)]
                 /\ toClient' = Deliver(toClient, serverChannel,
                                        ConnectOkFrame(agreed, simulationState))
                 /\ serverAt' = "attach"
                 /\ UNCHANGED <<serverChannel, listener, up, request>>
              \/ /\ ~valid \/ CanFailOn(serverChannel)
                 /\ CloseConnection
                 /\ UNCHANGED toClient
    /\ UNCHANGED <<simulationState, connections, owner, backlog, clientVars,
                   historyVars>>

\* The rest of OnHandleConnect: create the exchanges, StopAccepting, ask for
\* the peer's address; inside Start the start frame follows at once.
Attach ==
    /\ serverAt = "attach"
    /\ listener' = "closed"
    /\ DropBacklog
    /\ IF request = "Start"
       THEN /\ toClient' = Deliver(toClient, serverChannel, Frame("Start"))
            /\ serverAt' = "wait"
       ELSE /\ serverAt' = "idle"
            /\ UNCHANGED toClient
    /\ UNCHANGED <<simulationState, serverChannel, request, serverVersion,
                   connections, owner, clientVars, historyVars>>

\* Creating an exchange failed: the listeners are still there.
AttachFails ==
    /\ serverAt = "attach"
    /\ ExchangeCanFail
    /\ CloseConnection
    /\ UNCHANGED <<simulationState, serverVersion, connections, owner, backlog,
                   toClient, clientVars, historyVars>>

\* GetRemoteAddress or the start frame failed: StopAccepting was done.
AttachedPeerGone ==
    /\ serverAt = "attach"
    /\ CanFailOn(serverChannel)
    /\ DropBacklog
    /\ serverChannel' = 0
    /\ listener' \in {"open"} \cup (IF SocketsCanFail THEN {"failed"} ELSE {})
    /\ serverAt' = "idle"
    /\ request' = "None"
    /\ UNCHANGED <<simulationState, serverVersion, connections, owner, toClient,
                   clientVars, historyVars>>

\* Mutant: an answer without a command is taken for one.
HandlePendingCommandAlways(c, command) ==
    delivered' = [delivered EXCEPT ![c] = Append(@, command)]

\* The host is told of the command an answer carries, if any.
HandlePendingCommand(c, command) ==
    delivered' = IF command = 0 THEN delivered
                 ELSE [delivered EXCEPT ![c] = Append(@, command)]

\* WaitForOkFrame, WaitForStepOkFrame, WaitForPingOkFrame.
ReceiveReply ==
    /\ serverAt = "wait"
    /\ toServer[serverChannel] # <<>>
    /\ LET reply == Head(toServer[serverChannel]) IN
       IF reply.kind = ReplyKind(request)
       THEN /\ toServer' = [toServer EXCEPT ![serverChannel] = Tail(@)]
            /\ serverAt' = "idle"
            /\ request' = "None"
            /\ HandlePendingCommand(owner[serverChannel], reply.command)
            /\ UNCHANGED <<serverChannel, listener, up>>
       ELSE /\ CloseConnection
            /\ UNCHANGED delivered
    /\ UNCHANGED <<simulationState, serverVersion, connections, owner, backlog,
                   toClient, clientVars, issued, issuedBefore>>

\* ReceiveHeader found the connection gone.
ReceiveFails ==
    /\ serverAt \in {"hello", "wait"}
    /\ CanFailOn(serverChannel)
    /\ CloseConnection
    /\ UNCHANGED <<simulationState, serverVersion, connections, owner, backlog,
                   toClient, clientVars, historyVars>>

-----------------------------------------------------------------------------
(* CoSimClient: Connect.                                                   *)

\* Reading the next frame.
Received(c) == Head(toClient[channel[c]]).kind

Pop(c) == toClient' = [toClient EXCEPT ![channel[c]] = Tail(@)]

\* ResetDataFromPreviousConnect; it closes the old channel.
UpWithoutOld(c) == [k \in Conns |-> up[k] /\ k # channel[c]]
Unread(c) == [k \in Conns |-> IF k = channel[c] THEN <<>> ELSE toClient[k]]

\* Mutant: the command polled last survives a reconnect.
ResetKeepsCurrentCommand(c) ==
    /\ toClient' = Unread(c)
    /\ mode' = [mode EXCEPT ![c] = "Unknown"]
    /\ nextCommand' = [nextCommand EXCEPT ![c] = 0]
    /\ clientVersion' = [clientVersion EXCEPT ![c] = 1]
    /\ UNCHANGED currentCommand

\* Mutant: the pending command survives a reconnect.
ResetKeepsNextCommand(c) ==
    /\ toClient' = Unread(c)
    /\ mode' = [mode EXCEPT ![c] = "Unknown"]
    /\ currentCommand' = [currentCommand EXCEPT ![c] = "None"]
    /\ clientVersion' = [clientVersion EXCEPT ![c] = 1]
    /\ UNCHANGED nextCommand

Reset(c) ==
    /\ toClient' = Unread(c)
    /\ mode' = [mode EXCEPT ![c] = "Unknown"]
    /\ currentCommand' = [currentCommand EXCEPT ![c] = "None"]
    /\ nextCommand' = [nextCommand EXCEPT ![c] = 0]
    /\ clientVersion' = [clientVersion EXCEPT ![c] = 1]

\* Connect up to SendConnectRequest, the server accepting connections.
Connect(c) ==
    LET k == connections + 1 IN
    /\ clientAt[c] = "idle"
    /\ ~isConnected[c]
    /\ listener = "open"
    /\ k \in Conns
    /\ Reset(c)
    /\ connections' = k
    /\ owner' = [owner EXCEPT ![k] = c]
    /\ channel' = [channel EXCEPT ![c] = k]
    /\ up' = [UpWithoutOld(c) EXCEPT ![k] = TRUE]
    /\ backlog' = Append(backlog, k)
    /\ toServer' = [toServer EXCEPT ![k] = <<ConnectFrame(c)>>]
    /\ clientAt' = [clientAt EXCEPT ![c] = "hello"]
    /\ issuedBefore' = [issuedBefore EXCEPT ![k] = issued[c]]
    /\ UNCHANGED <<serverVars, isConnected, serving, timeout, commandChecked,
                   knownState, issued, delivered>>

\* No server listens: the old channel is closed all the same.
ConnectRefused(c) ==
    /\ clientAt[c] = "idle"
    /\ ~isConnected[c]
    /\ listener # "open"
    /\ Reset(c)
    /\ up' = UpWithoutOld(c)
    /\ UNCHANGED <<serverVars, connections, owner, backlog, toServer, channel,
                   isConnected, clientAt, serving, timeout, commandChecked,
                   knownState, historyVars>>

\* ReceiveConnectResponse and OnConnectOk.  When an exchange cannot be created
\* Connect fails and leaves the channel open.
ConnectOk(c) ==
    LET k == channel[c] IN
    /\ clientAt[c] = "hello"
    /\ toClient[k] # <<>>
    /\ clientAt' = [clientAt EXCEPT ![c] = "idle"]
    /\ Pop(c)
    /\ IF Received(c) = "ConnectOk"
       THEN /\ clientVersion' = [clientVersion EXCEPT ![c] = Head(toClient[k]).version]
            /\ knownState' = [knownState EXCEPT ![c] = Head(toClient[k]).state]
            /\ isConnected' \in {[isConnected EXCEPT ![c] = TRUE]} \cup
                                (IF ExchangeCanFail THEN {isConnected} ELSE {})
       ELSE UNCHANGED <<clientVersion, knownState, isConnected>>
    /\ UNCHANGED <<serverVars, connections, owner, backlog, up, toServer, channel,
                   mode, serving, timeout, currentCommand, nextCommand,
                   commandChecked, historyVars>>

\* The server dropped the connection before it answered.
ConnectFails(c) ==
    /\ clientAt[c] = "hello"
    /\ CanFailOn(channel[c])
    /\ clientAt' = [clientAt EXCEPT ![c] = "idle"]
    /\ UNCHANGED <<serverVars, netVars, channel, isConnected, mode, serving,
                   timeout, currentCommand, nextCommand, commandChecked,
                   knownState, clientVersion, historyVars>>

-----------------------------------------------------------------------------
(* CoSimClient: calls another thread, or a callback, may make.             *)

Disconnect(c) ==
    /\ isConnected[c] \/ (channel[c] # 0 /\ up[channel[c]])
    /\ isConnected' = [isConnected EXCEPT ![c] = FALSE]
    /\ up' = UpWithoutOld(c)
    /\ UNCHANGED <<serverVars, connections, owner, backlog, toServer, toClient,
                   channel, mode, clientAt, serving, timeout, currentCommand,
                   nextCommand, commandChecked, knownState, clientVersion,
                   historyVars>>

\* Start(), Stop(), ... of the client: EnsureIsConnected ...
CheckCommand(c) ==
    /\ isConnected[c]
    /\ ~commandChecked[c]
    /\ issued[c] < MaxCommands
    /\ commandChecked' = [commandChecked EXCEPT ![c] = TRUE]
    /\ UNCHANGED <<serverVars, netVars, channel, isConnected, mode, clientAt,
                   serving, timeout, currentCommand, nextCommand, knownState,
                   clientVersion, historyVars>>

\* ... then the exchange, which overwrites a command not sent yet.
StoreCommand(c) ==
    /\ commandChecked[c]
    /\ commandChecked' = [commandChecked EXCEPT ![c] = FALSE]
    /\ issued' = [issued EXCEPT ![c] = @ + 1]
    /\ nextCommand' = [nextCommand EXCEPT ![c] = issued[c] + 1]
    /\ UNCHANGED <<serverVars, netVars, channel, isConnected, mode, clientAt,
                   serving, timeout, currentCommand, knownState, clientVersion,
                   issuedBefore, delivered>>

\* The process ends; a new one starts with a new client object.
Crash(c) ==
    /\ channel[c] # 0
    /\ Reset(c)
    /\ up' = UpWithoutOld(c)
    /\ channel' = [channel EXCEPT ![c] = 0]
    /\ isConnected' = [isConnected EXCEPT ![c] = FALSE]
    /\ clientAt' = [clientAt EXCEPT ![c] = "idle"]
    /\ serving' = [serving EXCEPT ![c] = "None"]
    /\ timeout' = [timeout EXCEPT ![c] = "none"]
    /\ commandChecked' = [commandChecked EXCEPT ![c] = FALSE]
    /\ knownState' = [knownState EXCEPT ![c] = "Unloaded"]
    /\ UNCHANGED <<serverVars, connections, owner, backlog, toServer, historyVars>>

-----------------------------------------------------------------------------
(* CoSimClient: answering requests.                                        *)

\* FinishStep and FinishPing take the pending command, FinishCurrentCommand
\* leaves it where it is.
Reply(c, r) == [Frame(ReplyKind(r)) EXCEPT
                    !.command = IF CarriesCommand(r) THEN nextCommand[c] ELSE 0]

\* Mutant: the command is sent and kept.
TakeCommandKeepsIt(c, r) == UNCHANGED nextCommand

TakeCommand(c, r) ==
    nextCommand' = IF CarriesCommand(r) THEN [nextCommand EXCEPT ![c] = 0]
                                        ELSE nextCommand

\* The answer goes out.
SendReply(c, r) ==
    /\ TakeCommand(c, r)
    /\ toServer' = Deliver(toServer, channel[c], Reply(c, r))
    /\ UNCHANGED <<isConnected, up>>

\* The send fails: the command is gone with it, and CloseConnection of the
\* client runs.
FailReply(c, r) ==
    /\ CanFailOn(channel[c])
    /\ TakeCommand(c, r)
    /\ isConnected' = [isConnected EXCEPT ![c] = FALSE]
    /\ UNCHANGED <<toServer, up>>

\* ReceiveHeader fails, or the frame it found is not a request.
ReadFails(c) ==
    \/ CanFailOn(channel[c])
    \/ toClient[channel[c]] # <<>> /\ Received(c) \notin Requests

\* RunCallbackBasedCoSimulation enters its loop.
RunCallbackBased(c) ==
    /\ clientAt[c] = "idle"
    /\ isConnected[c]
    /\ mode[c] \in {"Unknown", "Blocking"}
    /\ mode' = [mode EXCEPT ![c] = "Blocking"]
    /\ clientAt' = [clientAt EXCEPT ![c] = "run"]
    /\ UNCHANGED <<serverVars, netVars, channel, isConnected, serving, timeout,
                   currentCommand, nextCommand, commandChecked, knownState,
                   clientVersion, historyVars>>

\* A request arrives and its callbacks start to run.
RunReceive(c) ==
    /\ clientAt[c] = "run"
    /\ toClient[channel[c]] # <<>>
    /\ Received(c) \in Requests \ {"Ping"}
    /\ Pop(c)
    /\ serving' = [serving EXCEPT ![c] = Received(c)]
    /\ clientAt' = [clientAt EXCEPT ![c] = "callback"]
    /\ UNCHANGED <<serverVars, connections, owner, backlog, up, toServer, channel,
                   isConnected, mode, timeout, currentCommand, nextCommand,
                   commandChecked, knownState, clientVersion, historyVars>>

\* A ping is answered at once, whether or not the client disconnected meanwhile.
RunPing(c) ==
    /\ clientAt[c] = "run"
    /\ toClient[channel[c]] # <<>>
    /\ Received(c) = "Ping"
    /\ Pop(c)
    /\ \/ SendReply(c, "Ping") /\ UNCHANGED clientAt
       \/ FailReply(c, "Ping") /\ clientAt' = [clientAt EXCEPT ![c] = "idle"]
    /\ UNCHANGED <<serverVars, connections, owner, backlog, channel, mode, serving,
                   timeout, currentCommand, commandChecked, knownState,
                   clientVersion, historyVars>>

\* The callbacks returned: answer, unless one of them disconnected.
RunFinish(c) ==
    /\ clientAt[c] = "callback"
    /\ serving' = [serving EXCEPT ![c] = "None"]
    /\ \/ /\ isConnected[c]
          /\ SendReply(c, serving[c])
          /\ clientAt' = [clientAt EXCEPT ![c] = "run"]
       \/ /\ isConnected[c]
          /\ FailReply(c, serving[c])
          /\ clientAt' = [clientAt EXCEPT ![c] = "idle"]
       \/ /\ ~isConnected[c]
          /\ clientAt' = [clientAt EXCEPT ![c] = "idle"]
          /\ UNCHANGED <<isConnected, nextCommand, toServer, up>>
    /\ UNCHANGED <<serverVars, connections, owner, backlog, toClient, channel, mode,
                   timeout, currentCommand, commandChecked, knownState,
                   clientVersion, historyVars>>

\* The loop ends; that the client disconnected shows in the same way.
RunFails(c) ==
    /\ clientAt[c] = "run"
    /\ ReadFails(c)
    /\ clientAt' = [clientAt EXCEPT ![c] = "idle"]
    /\ isConnected' = [isConnected EXCEPT ![c] = FALSE]
    /\ up' = UpWithoutOld(c)
    /\ UNCHANGED <<serverVars, connections, owner, backlog, toServer, toClient, channel,
                   mode, serving, timeout, currentCommand, nextCommand,
                   commandChecked, knownState, clientVersion, historyVars>>

\* PollCommand with its timeout: 0, finite or Infinite.
PollCommand(c, t) ==
    /\ clientAt[c] = "idle"
    /\ isConnected[c]
    /\ mode[c] \in {"Unknown", "NonBlocking"}
    /\ mode' = [mode EXCEPT ![c] = "NonBlocking"]
    /\ currentCommand[c] = "None"
    /\ clientAt' = [clientAt EXCEPT ![c] = "poll"]
    /\ timeout' = [timeout EXCEPT ![c] = t]
    /\ UNCHANGED <<serverVars, netVars, channel, isConnected, serving,
                   currentCommand, nextCommand, commandChecked, knownState,
                   clientVersion, historyVars>>

\* The deadline is compared before the channel is looked at, so with a timeout
\* of 0 it has always passed.
LooksAtChannel(c) == timeout[c] # "zero"

PollReturns(c) ==
    /\ clientAt' = [clientAt EXCEPT ![c] = "idle"]
    /\ timeout' = [timeout EXCEPT ![c] = "none"]

PollTimeout(c) ==
    /\ clientAt[c] = "poll"
    /\ timeout[c] # "infinite"
    /\ PollReturns(c)
    /\ currentCommand' = [currentCommand EXCEPT ![c] = "None"]
    /\ UNCHANGED <<serverVars, netVars, channel, isConnected, mode, serving,
                   nextCommand, commandChecked, knownState, clientVersion,
                   historyVars>>

\* A request other than ping: its callbacks run and PollCommand returns it.
PollReceive(c) ==
    /\ clientAt[c] = "poll"
    /\ LooksAtChannel(c)
    /\ toClient[channel[c]] # <<>>
    /\ Received(c) \in Requests \ {"Ping"}
    /\ Pop(c)
    /\ currentCommand' = [currentCommand EXCEPT ![c] = Received(c)]
    /\ PollReturns(c)
    /\ UNCHANGED <<serverVars, connections, owner, backlog, up, toServer, channel,
                   isConnected, mode, serving, nextCommand, commandChecked,
                   knownState, clientVersion, historyVars>>

\* A ping is answered and the loop goes on.
PollPing(c) ==
    /\ clientAt[c] = "poll"
    /\ LooksAtChannel(c)
    /\ toClient[channel[c]] # <<>>
    /\ Received(c) = "Ping"
    /\ Pop(c)
    /\ currentCommand' = [currentCommand EXCEPT ![c] = "Ping"]
    /\ \/ SendReply(c, "Ping") /\ UNCHANGED <<clientAt, timeout>>
       \/ FailReply(c, "Ping") /\ PollReturns(c)
    /\ UNCHANGED <<serverVars, connections, owner, backlog, channel, mode, serving,
                   commandChecked, knownState, clientVersion, historyVars>>

PollFails(c) ==
    /\ clientAt[c] = "poll"
    /\ LooksAtChannel(c)
    /\ ReadFails(c)
    /\ PollReturns(c)
    /\ isConnected' = [isConnected EXCEPT ![c] = FALSE]
    /\ up' = UpWithoutOld(c)
    /\ UNCHANGED <<serverVars, connections, owner, backlog, toServer, toClient, channel,
                   mode, serving, currentCommand, nextCommand, commandChecked, knownState,
                   clientVersion, historyVars>>

\* Mutant: the command stays the current one after it was answered.
NoCurrentCommandKept(c) == UNCHANGED currentCommand

NoCurrentCommand(c) == currentCommand' = [currentCommand EXCEPT ![c] = "None"]

\* FinishCommand after a successful PollCommand.
FinishCommand(c) ==
    /\ clientAt[c] = "idle"
    /\ isConnected[c]
    /\ mode[c] = "NonBlocking"
    /\ currentCommand[c] # "None"
    /\ \/ /\ SendReply(c, currentCommand[c])
          /\ NoCurrentCommand(c)
       \/ /\ FailReply(c, currentCommand[c])
          /\ UNCHANGED currentCommand
    /\ UNCHANGED <<serverVars, connections, owner, backlog, toClient, channel, mode,
                   clientAt, serving, timeout, commandChecked, knownState,
                   clientVersion, historyVars>>

-----------------------------------------------------------------------------
ServerStep ==
    \/ Load
    \/ Unload
    \/ \E r \in HostCalls : HostRequest(r) \/ HostCallWithoutClient(r)
    \/ AcceptChannel
    \/ AcceptFails
    \/ AnswerConnect
    \/ Attach
    \/ AttachFails
    \/ AttachedPeerGone
    \/ ReceiveReply
    \/ ReceiveFails

ClientStep(c) ==
    \/ Connect(c)
    \/ ConnectRefused(c)
    \/ ConnectOk(c)
    \/ ConnectFails(c)
    \/ RunCallbackBased(c)
    \/ RunReceive(c)
    \/ RunPing(c)
    \/ RunFinish(c)
    \/ RunFails(c)
    \/ \E t \in PollTimeouts : PollCommand(c, t)
    \/ PollTimeout(c)
    \/ PollReceive(c)
    \/ PollPing(c)
    \/ PollFails(c)
    \/ FinishCommand(c)

OtherThread(c) ==
    \/ Disconnect(c)
    \/ CheckCommand(c)
    \/ StoreCommand(c)

Next ==
    \/ ServerStep
    \/ \E c \in Clients : ClientStep(c) \/ OtherThread(c) \/ Crash(c)
    \/ \E k \in Conns : BreakConnection(k)

Spec == Init /\ [][Next]_vars

\* The host thread finishes what it started and keeps calling: the background
\* service pings an attached client and accepts a waiting one.
HostFairness ==
    /\ WF_vars(AcceptChannel)
    /\ WF_vars(AnswerConnect \/ Attach \/ AttachFails \/ AttachedPeerGone)
    /\ WF_vars(ReceiveReply \/ ReceiveFails)
    /\ SF_vars(HostRequest("Ping"))

\* An application that is connected runs the co-simulation: its callbacks end,
\* it finishes what it polled and polls again; PollCommand with time left
\* returns a command that is there, and notices a connection that is gone.
ClientFairness(c) ==
    /\ WF_vars(ConnectOk(c) \/ ConnectFails(c))
    /\ WF_vars(RunCallbackBased(c) \/ \E t \in PollTimeouts : PollCommand(c, t))
    /\ WF_vars(RunReceive(c) \/ RunPing(c) \/ RunFails(c))
    /\ WF_vars(RunFinish(c))
    /\ SF_vars(PollReceive(c) \/ PollPing(c) \/ PollFails(c))
    /\ WF_vars(PollTimeout(c))
    /\ WF_vars(FinishCommand(c))

FairSpec == Spec /\ HostFairness /\ \A c \in Clients : ClientFairness(c)

-----------------------------------------------------------------------------
(* Properties.                                                             *)

FrameQueues == [Conns -> Seq(Frames)]
Requested   == Requests \cup {"None"}

\* The values the variables take.
ServerTypes ==
    /\ simulationState \in States
    /\ serverChannel \in 0 .. MaxConns
    /\ listener \in {"open", "closed", "failed"}
    /\ serverAt \in {"idle", "accept", "hello", "attach", "wait"}
    /\ request \in Requested
    /\ serverVersion \in Nat

NetTypes ==
    /\ connections \in 0 .. MaxConns
    /\ owner \in [Conns -> Clients \cup {NoClient}]
    /\ backlog \in Seq(Conns)
    /\ up \in [Conns -> BOOLEAN]
    /\ toServer \in FrameQueues
    /\ toClient \in FrameQueues

ClientTypes ==
    /\ channel \in [Clients -> 0 .. MaxConns]
    /\ isConnected \in [Clients -> BOOLEAN]
    /\ mode \in [Clients -> {"Unknown", "Blocking", "NonBlocking"}]
    /\ clientAt \in [Clients -> {"idle", "hello", "run", "callback", "poll"}]
    /\ serving \in [Clients -> Requested]
    /\ timeout \in [Clients -> PollTimeouts \cup {"none"}]
    /\ currentCommand \in [Clients -> Requested]
    /\ nextCommand \in [Clients -> 0 .. MaxCommands]
    /\ commandChecked \in [Clients -> BOOLEAN]
    /\ knownState \in [Clients -> States]
    /\ clientVersion \in [Clients -> Nat]

HistoryTypes ==
    /\ issued \in [Clients -> 0 .. MaxCommands]
    /\ issuedBefore \in [Conns -> 0 .. MaxCommands]
    /\ delivered \in [Clients -> Seq(1 .. MaxCommands)]

TypeOK == ServerTypes /\ NetTypes /\ ClientTypes /\ HistoryTypes

\* No frame is ever read where another kind is expected: the branches that end
\* in OnUnexpectedFrame on both sides are not taken, whatever disconnects,
\* timeouts and reconnects came before, and an idle server has no answer left
\* over that the next request would take for its own.
NoUnexpectedFrame ==
    /\ serverAt = "hello" => \A i \in DOMAIN toServer[serverChannel] :
                                toServer[serverChannel][i].kind = "Connect"
    /\ serverAt = "wait" => \A i \in DOMAIN toServer[serverChannel] :
                                toServer[serverChannel][i].kind = ReplyKind(request)
    /\ serverAt = "idle" /\ serverChannel # 0 => toServer[serverChannel] = <<>>
    /\ \A c \in Clients : channel[c] # 0 /\ toClient[channel[c]] # <<>> =>
          /\ clientAt[c] = "hello" => Received(c) = "ConnectOk"
          /\ clientAt[c] \in {"run", "poll"} => Received(c) \in Requests

\* While a client runs a callback the simulator waits for exactly that request
\* (doc/basics: "During each callback, VEOS does not advance the simulation
\* until the callback is finished"); the same between PollCommand and
\* FinishCommand.
ServerAwaits(c, r) == serverAt = "wait" /\ serverChannel = channel[c] /\ request = r
NoAdvanceDuringCallback ==
    \A c \in Clients : channel[c] # 0 /\ up[channel[c]] =>
        /\ clientAt[c] = "callback" => ServerAwaits(c, serving[c])
        /\ clientAt[c] = "idle" /\ currentCommand[c] # "None"
              => ServerAwaits(c, currentCommand[c])

\* A client that believes it is connected, on a connection that is alive, is
\* the one client the server is attached to: the clients that connected while
\* the server was still listening never get past Connect.
OneLiveSession ==
    \A c \in Clients : isConnected[c] /\ up[channel[c]] => serverChannel = channel[c]

\* A loaded server that has no client can be reached, unless a listener could
\* not be created; with a client attached it does not listen.
ServerReachable ==
    /\ serverAt = "idle" /\ serverChannel = 0 /\ simulationState # "Unloaded"
          => listener \in {"open", "failed"} /\ (listener = "failed" => SocketsCanFail)
    /\ serverAt \in {"idle", "wait"} /\ serverChannel # 0
          => listener = "closed" /\ backlog = <<>>

\* Both ends of a session speak the same version, also when the server served
\* a client of another version before.
VersionAgreement ==
    \A c \in Clients : isConnected[c] /\ channel[c] = serverChannel =>
        /\ clientVersion[c] = serverVersion
        /\ serverVersion <= ClientVersion[c]

\* The host is told of a client's commands in the order they were issued and of
\* none of them twice, although overwritten and lost ones are skipped.
CommandsInOrderOnce ==
    \A c \in Clients : \A i, j \in DOMAIN delivered[c] :
        i < j => delivered[c][i] < delivered[c][j]

\* A command the host is told of was stored after the Connect that made the
\* connection it came over: a reconnect leaves none behind.
NoCommandFromEarlierConnect ==
    [][\A c \in Clients : delivered'[c] # delivered[c] =>
          delivered'[c][Len(delivered'[c])] > issuedBefore[serverChannel]]_vars

\* Each request is served by callbacks once, answered once, and ends by its own
\* answer or by the end of the session (see CoSimLockStep).
Carries(queue, r) == \E i \in DOMAIN queue : queue[i].kind = r
Owes(c, r) == \/ clientAt[c] = "callback" /\ serving[c] = r
              \/ currentCommand[c] = r /\ r # "Ping"
Session == IF serverAt \in {"idle", "wait"} THEN serverChannel ELSE 0
Asked   == IF serverAt = "wait" THEN request ELSE "None"
Stage   ==
    IF serverAt # "wait" THEN "none"
    ELSE IF toServer[serverChannel] # <<>> THEN "answered"
    ELSE IF Carries(toClient[serverChannel], request) THEN "sent"
    ELSE IF /\ channel[owner[serverChannel]] = serverChannel
            /\ Owes(owner[serverChannel], request) THEN "taken"
    ELSE "lost"
LockStep == INSTANCE CoSimLockStep WITH
    session <- Session, request <- Asked, stage <- Stage
ImplementsLockStep == LockStep!Spec

\* A call of the host that waits for an answer returns: the answer comes or the
\* loss of the connection is noticed.
RequestEnds == serverAt = "wait" ~> serverAt # "wait"

\* Connect returns, also for a client whose connection is never accepted.
ConnectReturns == \A c \in Clients : clientAt[c] = "hello" ~> clientAt[c] # "hello"

\* The server lets go of a client that is gone.
DeadClientDropped ==
    \A k \in Conns : (serverChannel = k /\ ~up[k]) ~> serverChannel # k

\* A command a connected client stored is passed on, or overwritten, or the
\* connection ends.
CommandLeaves ==
    \A c \in Clients : \A n \in 1 .. MaxCommands :
        (nextCommand[c] = n /\ isConnected[c]) ~> (nextCommand[c] # n \/ ~isConnected[c])

\* What the documentation says of PollCommand2 with a timeout of 0
\* (DsVeosCoSim_PollCommand2.md: "A value of `0` performs a non-blocking poll",
\* Timeout is returned "if no command arrives before the timeout expires"): it
\* does not report a timeout while a command is there to be read.
ZeroTimeoutSeesCommand ==
    [][\A c \in Clients :
          /\ clientAt[c] = "poll" /\ timeout[c] = "zero"
          /\ clientAt'[c] = "idle" /\ currentCommand'[c] = "None" /\ isConnected'[c]
          => toClient[channel[c]] = <<>>]_vars
=============================================================================
