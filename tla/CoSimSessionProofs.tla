------------------------- MODULE CoSimSessionProofs -------------------------
(***************************************************************************)
(* Proofs about CoSimSession, for every number of clients, connections and *)
(* commands, and for every set of requests of the host.  First the types   *)
(* and the safety of the sessions: one session is alive at a time, the     *)
(* server can be reached, no frame is ever read where another kind is      *)
(* expected, and the simulator waits while a client runs a callback.  Then *)
(* the refinement of CoSimLockStep: whatever disconnects, timeouts and     *)
(* reconnects happen, a request is taken once, answered once, and ends by  *)
(* its answer or the session.  Last what the frames carry: both ends speak *)
(* the same version of the protocol, and the commands of a client reach    *)
(* the host in the order they were issued, none of them twice and none     *)
(* from before the Connect that made the connection.                       *)
(***************************************************************************)
EXTENDS CoSimSession, TLAPS

-----------------------------------------------------------------------------
(* The types.                                                              *)

\* A command call that is past its check counts as one of MaxCommands.
CommandBound == \A c \in Clients : commandChecked[c] => issued[c] < MaxCommands

-----------------------------------------------------------------------------
\* A frame of every kind the session sends is a frame.
LEMMA FrameTypes ==
    /\ \A kind \in FrameKinds : Frame(kind) \in Frames
    /\ \A c \in Clients : ConnectFrame(c) \in Frames
    /\ \A v \in Nat, s \in States : ConnectOkFrame(v, s) \in Frames
<1>1. \A kind \in FrameKinds : Frame(kind) \in Frames
  BY ConstantsAssumption DEF Frame, Frames, States
<1>2. {"Connect", "ConnectOk"} \subseteq FrameKinds
  BY DEF FrameKinds
<1>3. \A c \in Clients : ConnectFrame(c) \in Frames
  BY <1>1, <1>2, ConstantsAssumption DEF ConnectFrame, Frames
<1>4. \A v \in Nat, s \in States : ConnectOkFrame(v, s) \in Frames
  BY <1>2, ConstantsAssumption DEF ConnectOkFrame, Frames
<1>. QED
  BY <1>1, <1>3, <1>4

\* Sending a frame and reading one leave queues of frames.
LEMMA DeliverType ==
    ASSUME NEW queue \in FrameQueues, NEW k \in Conns, NEW frame \in Frames
    PROVE  Deliver(queue, k, frame) \in FrameQueues
  BY DEF Deliver, FrameQueues

\* Forgetting what was sent leaves queues of frames.
LEMMA ForgetType ==
    ASSUME NEW queue \in FrameQueues, NEW k
    PROVE  Forget(queue, k) \in FrameQueues
<1>1. <<>> \in Seq(Frames)
  OBVIOUS
<1>. QED
  BY <1>1 DEF Forget, FrameQueues

\* Reading a frame leaves queues of frames, and what was read is a frame.
LEMMA ReadType ==
    ASSUME NEW queue \in FrameQueues, NEW k \in Conns, queue[k] # <<>>
    PROVE  /\ [queue EXCEPT ![k] = Tail(@)] \in FrameQueues
           /\ Head(queue[k]) \in Frames
  BY DEF FrameQueues

\* The answers of a client are frames.
LEMMA ReplyType ==
    ASSUME TypeOK, NEW c \in Clients, NEW r \in Requested
    PROVE  /\ ReplyKind(r) \in FrameKinds
           /\ Reply(c, r) \in Frames
<1>1. ReplyKind(r) \in FrameKinds
  BY DEF ReplyKind, FrameKinds
<1>2. Frame(ReplyKind(r)) \in Frames
  BY <1>1, FrameTypes
<1>3. nextCommand[c] \in 0 .. MaxCommands /\ 0 \in 0 .. MaxCommands
  BY ConstantsAssumption DEF TypeOK, ClientTypes
<1>. QED
  BY <1>1, <1>2, <1>3 DEF Reply, Frames

\* The types are inductive together with the bound on a command that is checked
\* and not stored yet, and with the connection that a call needs.
ServerAttached == serverAt \in {"hello", "attach", "wait"} => serverChannel # 0
ClientAttached ==
    \A c \in Clients : clientAt[c] # "idle" \/ isConnected[c] => channel[c] # 0

Types == TypeOK /\ CommandBound /\ ServerAttached /\ ClientAttached

\* The types hold at first.
LEMMA TypesInit == Init => Types
<1>. SUFFICES ASSUME Init PROVE Types
  OBVIOUS
<1>. USE ConstantsAssumption DEF Init
<1>1. ServerTypes
  BY DEF ServerTypes, States, Requested
<1>2. NetTypes
  BY DEF NetTypes, FrameQueues
<1>3. ClientTypes
  BY DEF ClientTypes, States, Requested
<1>4. HistoryTypes /\ CommandBound /\ ServerAttached /\ ClientAttached
  BY DEF HistoryTypes, CommandBound, ServerAttached, ClientAttached
<1>. QED
  BY <1>1, <1>2, <1>3, <1>4 DEF Types, TypeOK

\* What is left alone keeps its type.
LEMMA TypesUnchanged ==
    ASSUME Types
    PROVE  /\ UNCHANGED serverVars => ServerTypes'
           /\ UNCHANGED netVars => NetTypes'
           /\ UNCHANGED clientVars => ClientTypes' /\ ClientAttached'
           /\ UNCHANGED <<issued, commandChecked>> => CommandBound'
           /\ UNCHANGED historyVars => HistoryTypes'
<1>1. UNCHANGED serverVars => ServerTypes'
  BY DEF Types, TypeOK, ServerTypes, serverVars
<1>2. UNCHANGED netVars => NetTypes'
  BY DEF Types, TypeOK, NetTypes, netVars
<1>3. UNCHANGED clientVars => ClientTypes'
  BY DEF Types, TypeOK, ClientTypes, clientVars
<1>6. UNCHANGED clientVars => ClientAttached'
  BY DEF Types, ClientAttached, clientVars
<1>4. UNCHANGED historyVars => HistoryTypes'
  BY DEF Types, TypeOK, HistoryTypes, historyVars
<1>5. UNCHANGED <<issued, commandChecked>> => CommandBound'
  BY DEF Types, CommandBound
<1>. QED
  BY <1>1, <1>2, <1>3, <1>4, <1>5, <1>6

\* Closing the connection and listening again, and dropping the backlog.
LEMMA CloseTypes ==
    ASSUME Types, CloseConnection
    PROVE  /\ serverChannel' \in 0 .. MaxConns
           /\ listener' \in {"open", "closed", "failed"}
           /\ serverAt' = "idle"
           /\ request' \in Requested
           /\ up' \in [Conns -> BOOLEAN]
           /\ toServer' \in FrameQueues
<1>. USE DEF Types, TypeOK, ServerTypes, NetTypes
<1>1. toServer' \in FrameQueues
  BY ForgetType DEF CloseConnection
<1>2. up' \in [Conns -> BOOLEAN]
  BY DEF CloseConnection
<1>3. listener' \in {"open", "closed", "failed"}
  BY DEF CloseConnection, StartAccepting
<1>. QED
  BY <1>1, <1>2, <1>3, ConstantsAssumption DEF CloseConnection, Requested

\* Dropping the backlog keeps the types.
LEMMA DropTypes ==
    ASSUME Types, DropBacklog
    PROVE  /\ backlog' \in Seq(Conns)
           /\ up' \in [Conns -> BOOLEAN]
           /\ toServer' \in FrameQueues
<1>. USE DEF Types, TypeOK, NetTypes
<1>1. toServer' \in FrameQueues
  BY DEF DropBacklog, FrameQueues
<1>. QED
  BY <1>1 DEF DropBacklog

\* A request leads to a state.
LEMMA StateAfterType ==
    ASSUME Types, NEW r \in Requests
    PROVE  StateAfter(r) \in States
  BY Zenon DEF StateAfter, States, Types, TypeOK, ServerTypes

\* The steps of the server keep the types.
LEMMA TypesServer ==
    ASSUME Types, ServerStep
    PROVE  Types'
<1>. USE ConstantsAssumption
<1>a. TypeOK /\ ServerTypes /\ NetTypes /\ ClientTypes /\ HistoryTypes
  BY DEF Types, TypeOK
<1>b. ServerAttached
  BY DEF Types
<1>. DEFINE TypesNext == ServerTypes' /\ NetTypes' /\ ClientTypes' /\ HistoryTypes'
                           /\ CommandBound' /\ ServerAttached' /\ ClientAttached'
<1>c. SUFFICES TypesNext
  BY DEF Types, TypeOK
<1>1. CASE Load
  <2>1. ServerTypes'
    BY <1>1, <1>a DEF Load, ServerTypes, States
  <2>. QED
    BY <1>1, <1>b, <2>1, TypesUnchanged DEF ServerAttached, Load, clientVars, historyVars
<1>2. CASE Unload
  <2>1. ServerTypes'
    BY <1>2, <1>a DEF Unload, ServerTypes, States
  <2>2. toServer' \in FrameQueues
    BY <1>2, <1>a DEF Unload, NetTypes, FrameQueues
  <2>3. NetTypes'
    BY <1>2, <1>a, <2>2 DEF Unload, NetTypes
  <2>. QED
    BY <1>2, <1>b, <2>1, <2>3, TypesUnchanged DEF ServerAttached, Unload, clientVars, historyVars
<1>3. ASSUME NEW r \in HostCalls, HostRequest(r)
      PROVE  TypesNext
  <2>1. Frame(r) \in Frames /\ StateAfter(r) \in States /\ r \in Requested
    BY FrameTypes, StateAfterType DEF FrameKinds, Requested
  <2>2. serverChannel \in Conns
    BY <1>3, <1>a DEF HostRequest, ServerTypes, Conns
  <2>3. toClient' \in FrameQueues
    BY <1>3, <1>a, <2>1, <2>2, DeliverType DEF HostRequest, NetTypes
  <2>4. ServerTypes'
    BY <1>3, <1>a, <2>1, CloseTypes DEF HostRequest, ServerTypes
  <2>5. NetTypes'
    BY <1>3, <1>a, <2>3, CloseTypes DEF HostRequest, NetTypes
  <2>. QED
    BY <1>3, <1>b, <2>4, <2>5, TypesUnchanged, CloseTypes
       DEF ServerAttached, HostRequest, clientVars, historyVars
<1>4. ASSUME NEW r \in HostCalls, HostCallWithoutClient(r)
      PROVE  TypesNext
  <2>1. StateAfter(r) \in States /\ "Start" \in Requested
    BY StateAfterType DEF Requested, Requests
  <2>2. ServerTypes'
    BY <1>4, <1>a, <2>1 DEF HostCallWithoutClient, ServerTypes
  <2>. QED
    BY <1>4, <1>b, <2>2, TypesUnchanged
       DEF ServerAttached, HostCallWithoutClient, clientVars, historyVars
<1>5. CASE AcceptChannel
  <2>1. Head(backlog) \in Conns /\ Tail(backlog) \in Seq(Conns)
    BY <1>5, <1>a DEF AcceptChannel, NetTypes
  <2>2. ServerTypes'
    BY <1>5, <1>a, <2>1 DEF AcceptChannel, ServerTypes, Conns
  <2>3. NetTypes'
    BY <1>5, <1>a, <2>1 DEF AcceptChannel, NetTypes
  <2>. QED
    BY <1>5, <2>1, <2>2, <2>3, TypesUnchanged
       DEF ServerAttached, Conns, AcceptChannel, clientVars, historyVars
<1>6. CASE AcceptFails
  <2>1. ServerTypes'
    BY <1>6, <1>a DEF AcceptFails, ServerTypes, Requested
  <2>. QED
    BY <1>6, <1>b, <2>1, TypesUnchanged DEF ServerAttached, AcceptFails, clientVars, historyVars
<1>7. CASE AnswerConnect
  <2>. DEFINE frame  == Head(toServer[serverChannel])
              agreed == Negotiated(frame.version)
  <2>1. serverChannel \in Conns
    BY <1>7, <1>a, <1>b DEF AnswerConnect, ServerTypes, ServerAttached, Conns
  <2>2. /\ frame \in Frames
        /\ [toServer EXCEPT ![serverChannel] = Tail(@)] \in FrameQueues
    BY <1>7, <1>a, <2>1, ReadType DEF AnswerConnect, NetTypes
  <2>3. agreed \in Nat
    BY <2>2 DEF Negotiated, Frames
  <2>4. ConnectOkFrame(agreed, simulationState) \in Frames
    BY <1>a, <2>3, FrameTypes DEF ServerTypes
  <2>5. toClient' \in FrameQueues
    BY <1>7, <1>a, <2>1, <2>4, DeliverType DEF AnswerConnect, NetTypes
  <2>6. ServerTypes'
    BY <1>7, <1>a, <2>3, CloseTypes DEF AnswerConnect, ServerTypes
  <2>7. NetTypes'
    BY <1>7, <1>a, <2>2, <2>5, CloseTypes DEF AnswerConnect, NetTypes
  <2>. QED
    BY <1>7, <1>b, <2>6, <2>7, TypesUnchanged, CloseTypes
       DEF ServerAttached, AnswerConnect, clientVars, historyVars
<1>8. CASE Attach
  <2>1. Frame("Start") \in Frames
    BY FrameTypes DEF FrameKinds, Requests
  <2>2. toClient' \in FrameQueues
    <3>1. CASE serverChannel \in Conns
      BY <1>8, <1>a, <2>1, <3>1, DeliverType DEF Attach, NetTypes
    <3>2. CASE serverChannel \notin Conns
      BY <1>8, <1>a, <3>2 DEF Attach, NetTypes, Deliver, FrameQueues
    <3>. QED
      BY <3>1, <3>2
  <2>3. ServerTypes'
    BY <1>8, <1>a DEF Attach, ServerTypes
  <2>4. NetTypes'
    BY <1>8, <1>a, <2>2, DropTypes DEF Attach, NetTypes
  <2>. QED
    BY <1>8, <1>b, <2>3, <2>4, TypesUnchanged DEF ServerAttached, Attach, clientVars, historyVars
<1>9. CASE AttachFails
  <2>1. ServerTypes'
    BY <1>9, <1>a, CloseTypes DEF AttachFails, ServerTypes
  <2>2. NetTypes'
    BY <1>9, <1>a, CloseTypes DEF AttachFails, NetTypes
  <2>. QED
    BY <1>9, <1>b, <2>1, <2>2, TypesUnchanged, CloseTypes
       DEF ServerAttached, AttachFails, clientVars, historyVars
<1>10. CASE AttachedPeerGone
  <2>1. ServerTypes'
    BY <1>10, <1>a DEF AttachedPeerGone, ServerTypes, Requested
  <2>2. NetTypes'
    BY <1>10, <1>a, DropTypes DEF AttachedPeerGone, NetTypes
  <2>. QED
    BY <1>10, <1>b, <2>1, <2>2, TypesUnchanged
       DEF ServerAttached, AttachedPeerGone, clientVars, historyVars
<1>11. CASE ReceiveReply
  <2>. DEFINE reply == Head(toServer[serverChannel])
  <2>1. serverChannel \in Conns
    BY <1>11, <1>a, <1>b DEF ReceiveReply, ServerTypes, ServerAttached, Conns
  <2>2. /\ reply \in Frames
        /\ [toServer EXCEPT ![serverChannel] = Tail(@)] \in FrameQueues
    BY <1>11, <1>a, <2>1, ReadType DEF ReceiveReply, NetTypes
  <2>3. reply.command = 0 \/ reply.command \in 1 .. MaxCommands
    BY <2>2 DEF Frames
  <2>4. delivered' \in [Clients -> Seq(1 .. MaxCommands)]
    <3>. DEFINE c == owner[serverChannel]
    <3>1. CASE reply.command = 0 \/ reply.kind # ReplyKind(request)
      BY <1>11, <1>a, <3>1 DEF ReceiveReply, HandlePendingCommand, HistoryTypes
    <3>2. CASE reply.command \in 1 .. MaxCommands /\ reply.kind = ReplyKind(request)
      <4>1. delivered' = [delivered EXCEPT ![c] = Append(@, reply.command)]
        BY <1>11, <3>2 DEF ReceiveReply, HandlePendingCommand
      <4>2. c \in Clients => Append(delivered[c], reply.command) \in Seq(1 .. MaxCommands)
        BY <1>a, <3>2 DEF HistoryTypes
      <4>. QED
        BY <1>a, <4>1, <4>2 DEF HistoryTypes
    <3>. QED
      BY <2>3, <3>1, <3>2
  <2>5. ServerTypes'
    BY <1>11, <1>a, CloseTypes DEF ReceiveReply, ServerTypes, Requested
  <2>6. NetTypes'
    BY <1>11, <1>a, <2>2, CloseTypes DEF ReceiveReply, NetTypes
  <2>7. HistoryTypes'
    BY <1>11, <1>a, <2>4 DEF ReceiveReply, HistoryTypes
  <2>. QED
    BY <1>11, <1>b, <2>5, <2>6, <2>7, TypesUnchanged, CloseTypes
       DEF ServerAttached, ReceiveReply, clientVars
<1>12. CASE ReceiveFails
  <2>1. ServerTypes'
    BY <1>12, <1>a, CloseTypes DEF ReceiveFails, ServerTypes
  <2>2. NetTypes'
    BY <1>12, <1>a, CloseTypes DEF ReceiveFails, NetTypes
  <2>. QED
    BY <1>12, <1>b, <2>1, <2>2, TypesUnchanged, CloseTypes
       DEF ServerAttached, ReceiveFails, clientVars, historyVars
<1>. QED
  BY <1>1, <1>2, <1>3, <1>4, <1>5, <1>6, <1>7, <1>8, <1>9, <1>10, <1>11, <1>12
  DEF ServerStep

\* What a client does when it starts over, answers or sends nothing.
LEMMA ResetTypes ==
    ASSUME Types, NEW c \in Clients, Reset(c)
    PROVE  /\ toClient' \in FrameQueues
           /\ mode' \in [Clients -> {"Unknown", "Blocking", "NonBlocking"}]
           /\ currentCommand' \in [Clients -> Requested]
           /\ nextCommand' \in [Clients -> 0 .. MaxCommands]
           /\ clientVersion' \in [Clients -> Nat]
           /\ UpWithoutOld(c) \in [Conns -> BOOLEAN]
<1>. USE ConstantsAssumption DEF Types, TypeOK, ClientTypes, NetTypes
<1>1. toClient' \in FrameQueues
  BY DEF Reset, Unread, FrameQueues
<1>2. UpWithoutOld(c) \in [Conns -> BOOLEAN]
  BY DEF UpWithoutOld
<1>. QED
  BY <1>1, <1>2 DEF Reset, Requested

\* An answer that goes out, or that cannot be sent.
LEMMA AnswerTypes ==
    ASSUME Types, NEW c \in Clients, channel[c] # 0, NEW r \in Requested,
           SendReply(c, r) \/ FailReply(c, r)
    PROVE  /\ nextCommand' \in [Clients -> 0 .. MaxCommands]
           /\ toServer' \in FrameQueues
           /\ isConnected' \in [Clients -> BOOLEAN]
           /\ up' = up
           /\ \A d \in Clients : isConnected'[d] => isConnected[d]
<1>. USE ConstantsAssumption DEF Types, TypeOK, ClientTypes, NetTypes
<1>1. toServer' \in FrameQueues
  <2>1. channel[c] \in Conns
    BY DEF Conns
  <2>. QED
    BY <2>1, DeliverType, ReplyType DEF SendReply, FailReply
<1>2. nextCommand' \in [Clients -> 0 .. MaxCommands]
  <2>1. \/ nextCommand' = nextCommand
        \/ nextCommand' = [nextCommand EXCEPT ![c] = 0]
    BY Zenon DEF SendReply, FailReply, TakeCommand
  <2>2. 0 \in 0 .. MaxCommands
    OBVIOUS
  <2>. QED
    BY <2>1, <2>2
<1>. QED
  BY <1>1, <1>2 DEF SendReply, FailReply

\* A frame that a client reads.
LEMMA PopTypes ==
    ASSUME Types, NEW c \in Clients, channel[c] # 0, toClient[channel[c]] # <<>>
    PROVE  /\ Pop(c) => toClient' \in FrameQueues
           /\ Head(toClient[channel[c]]) \in Frames
<1>1. channel[c] \in Conns /\ toClient \in FrameQueues
  BY DEF Types, TypeOK, ClientTypes, NetTypes, Conns
<1>. QED
  BY <1>1, ReadType DEF Pop

\* The steps of the client thread keep the types.
LEMMA TypesClient ==
    ASSUME Types, NEW c \in Clients, ClientStep(c)
    PROVE  Types'
<1>. USE ConstantsAssumption
<1>a. TypeOK /\ ServerTypes /\ NetTypes /\ ClientTypes /\ HistoryTypes
  BY DEF Types, TypeOK
<1>b. ClientAttached /\ ServerAttached
  BY DEF Types
<1>. DEFINE TypesNext == ServerTypes' /\ NetTypes' /\ ClientTypes' /\ HistoryTypes'
                           /\ CommandBound' /\ ServerAttached' /\ ClientAttached'
<1>c. SUFFICES TypesNext
  BY DEF Types, TypeOK
<1>d. UNCHANGED serverVars => ServerTypes' /\ ServerAttached'
  BY <1>b, TypesUnchanged DEF ServerAttached, serverVars
<1>1. CASE Connect(c)
  <2>1. connections + 1 \in Conns
    BY <1>1, <1>a DEF Connect, NetTypes, Conns
  <2>2. <<ConnectFrame(c)>> \in Seq(Frames)
    BY FrameTypes
  <2>3. toServer' \in FrameQueues
    BY <1>1, <1>a, <2>1, <2>2 DEF Connect, NetTypes, FrameQueues
  <2>4. backlog' \in Seq(Conns)
    BY <1>1, <1>a, <2>1 DEF Connect, NetTypes
  <2>5. up' \in [Conns -> BOOLEAN]
    BY <1>1, <2>1, ResetTypes DEF Connect
  <2>a. /\ mode' \in [Clients -> {"Unknown", "Blocking", "NonBlocking"}]
        /\ currentCommand' \in [Clients -> Requested]
        /\ nextCommand' \in [Clients -> 0 .. MaxCommands]
        /\ clientVersion' \in [Clients -> Nat]
    BY <1>1, ResetTypes DEF Connect
  <2>b. /\ channel' = [channel EXCEPT ![c] = connections + 1]
        /\ clientAt' = [clientAt EXCEPT ![c] = "hello"]
        /\ UNCHANGED <<isConnected, serving, timeout, commandChecked, knownState>>
    BY <1>1 DEF Connect
  <2>c. connections + 1 \in 0 .. MaxConns /\ connections + 1 # 0
    BY <2>1 DEF Conns
  <2>6. ClientTypes'
    BY <1>a, <2>a, <2>b, <2>c DEF ClientTypes
  <2>7. ClientAttached'
    BY <1>a, <1>b, <2>b, <2>c DEF ClientAttached, ClientTypes
  <2>8. NetTypes'
    BY <1>1, <1>a, <2>1, <2>2, <2>3, <2>4, <2>5, ResetTypes DEF Connect, NetTypes, Conns
  <2>9. HistoryTypes' /\ CommandBound'
    BY <1>1, <1>a, <2>1, <2>2, <2>3, <2>4, <2>5 DEF Connect, HistoryTypes, CommandBound, Types
  <2>. QED
    BY <1>1, <1>d, <2>6, <2>7, <2>8, <2>9, TypesUnchanged DEF Connect, serverVars
<1>2. CASE ConnectRefused(c)
  <2>1. ClientTypes'
    BY <1>2, <1>a, ResetTypes DEF ConnectRefused, ClientTypes
  <2>2. ClientAttached'
    BY <1>2, <1>a, <1>b, ResetTypes DEF ConnectRefused, ClientAttached, ClientTypes
  <2>3. NetTypes'
    BY <1>2, <1>a, ResetTypes DEF ConnectRefused, NetTypes
  <2>. QED
    BY <1>2, <1>d, <2>1, <2>2, <2>3, TypesUnchanged DEF ConnectRefused, serverVars, historyVars
<1>3. CASE ConnectOk(c)
  <2>1. channel[c] # 0
    BY <1>3, <1>b DEF ClientAttached, ConnectOk
  <2>2. toClient' \in FrameQueues /\ Head(toClient[channel[c]]) \in Frames
    BY <1>3, <2>1, PopTypes DEF ConnectOk
  <2>3. ClientTypes'
    BY <1>3, <1>a, <2>1, <2>2 DEF ConnectOk, ClientTypes, Frames
  <2>4. ClientAttached'
    BY <1>3, <1>a, <1>b, <2>1, <2>2 DEF ConnectOk, ClientAttached, ClientTypes
  <2>5. NetTypes'
    BY <1>3, <1>a, <2>1, <2>2 DEF ConnectOk, NetTypes
  <2>. QED
    BY <1>3, <1>d, <2>3, <2>4, <2>5, TypesUnchanged DEF ConnectOk, serverVars, historyVars
<1>4. CASE ConnectFails(c)
  <2>1. ClientTypes'
    BY <1>4, <1>a DEF ConnectFails, ClientTypes
  <2>2. ClientAttached'
    BY <1>4, <1>a, <1>b DEF ConnectFails, ClientAttached, ClientTypes
  <2>. QED
    BY <1>4, <1>d, <2>1, <2>2, TypesUnchanged DEF ConnectFails, serverVars, netVars, historyVars
<1>5. CASE RunCallbackBased(c)
  <2>1. ClientTypes'
    BY <1>5, <1>a DEF RunCallbackBased, ClientTypes
  <2>2. ClientAttached'
    BY <1>5, <1>a, <1>b DEF RunCallbackBased, ClientAttached, ClientTypes
  <2>. QED
    BY <1>5, <1>d, <2>1, <2>2, TypesUnchanged DEF RunCallbackBased, serverVars, netVars, historyVars
<1>6. CASE RunReceive(c)
  <2>1. channel[c] # 0
    BY <1>6, <1>b DEF ClientAttached, RunReceive
  <2>2. toClient' \in FrameQueues /\ Head(toClient[channel[c]]) \in Frames
    BY <1>6, <2>1, PopTypes DEF RunReceive
  <2>3. ClientTypes'
    BY <1>6, <1>a, <2>1, <2>2 DEF RunReceive, ClientTypes, Requested
  <2>4. ClientAttached'
    BY <1>6, <1>a, <1>b, <2>1, <2>2 DEF RunReceive, ClientAttached, ClientTypes
  <2>5. NetTypes'
    BY <1>6, <1>a, <2>1, <2>2 DEF RunReceive, NetTypes
  <2>. QED
    BY <1>6, <1>d, <2>3, <2>4, <2>5, TypesUnchanged DEF RunReceive, serverVars, historyVars
<1>7. CASE RunPing(c)
  <2>1. channel[c] # 0
    BY <1>7, <1>b DEF ClientAttached, RunPing
  <2>2. toClient' \in FrameQueues /\ Head(toClient[channel[c]]) \in Frames
    BY <1>7, <2>1, PopTypes DEF RunPing
  <2>3. /\ nextCommand' \in [Clients -> 0 .. MaxCommands]
        /\ toServer' \in FrameQueues
        /\ isConnected' \in [Clients -> BOOLEAN]
        /\ up' = up
        /\ \A d \in Clients : isConnected'[d] => isConnected[d]
    BY <1>7, <2>1, AnswerTypes DEF Requested, RunPing, Requests
  <2>4. ClientTypes'
    BY <1>7, <1>a, <2>1, <2>2, <2>3 DEF RunPing, ClientTypes
  <2>5. ClientAttached'
    BY <1>7, <1>a, <1>b, <2>1, <2>2, <2>3 DEF RunPing, ClientAttached, ClientTypes
  <2>6. NetTypes'
    BY <1>7, <1>a, <2>1, <2>2, <2>3 DEF RunPing, NetTypes
  <2>. QED
    BY <1>7, <1>d, <2>4, <2>5, <2>6, TypesUnchanged DEF RunPing, serverVars, historyVars
<1>8. CASE RunFinish(c)
  <2>1. channel[c] # 0
    BY <1>8, <1>b DEF ClientAttached, RunFinish
  <2>2. \/ /\ nextCommand' \in [Clients -> 0 .. MaxCommands]
           /\ toServer' \in FrameQueues
           /\ isConnected' \in [Clients -> BOOLEAN]
           /\ up' = up
           /\ \A d \in Clients : isConnected'[d] => isConnected[d]
        \/ UNCHANGED <<isConnected, nextCommand, toServer, up>>
    BY <1>8, <1>a, <2>1, AnswerTypes DEF RunFinish, ClientTypes
  <2>3. ClientTypes'
    BY <1>8, <1>a, <2>1, <2>2 DEF RunFinish, ClientTypes, Requested
  <2>4. ClientAttached'
    BY <1>8, <1>a, <1>b, <2>1, <2>2 DEF RunFinish, ClientAttached, ClientTypes
  <2>5. NetTypes'
    BY <1>8, <1>a, <2>1, <2>2 DEF RunFinish, NetTypes
  <2>. QED
    BY <1>8, <1>d, <2>3, <2>4, <2>5, TypesUnchanged DEF RunFinish, serverVars, historyVars
<1>9. CASE RunFails(c)
  <2>1. ClientTypes'
    BY <1>9, <1>a DEF RunFails, ClientTypes
  <2>2. ClientAttached'
    BY <1>9, <1>a, <1>b DEF RunFails, ClientAttached, ClientTypes
  <2>3. NetTypes'
    BY <1>9, <1>a DEF RunFails, NetTypes, UpWithoutOld
  <2>. QED
    BY <1>9, <1>d, <2>1, <2>2, <2>3, TypesUnchanged DEF RunFails, serverVars, historyVars
<1>10. ASSUME NEW t \in PollTimeouts, PollCommand(c, t)
       PROVE  TypesNext
  <2>1. ClientTypes'
    BY <1>10, <1>a DEF PollCommand, ClientTypes
  <2>2. ClientAttached'
    BY <1>10, <1>a, <1>b DEF PollCommand, ClientAttached, ClientTypes
  <2>. QED
    BY <1>10, <1>d, <2>1, <2>2, TypesUnchanged DEF PollCommand, serverVars, netVars, historyVars
<1>11. CASE PollTimeout(c)
  <2>1. ClientTypes'
    BY <1>11, <1>a DEF PollTimeout, ClientTypes, PollReturns, Requested
  <2>2. ClientAttached'
    BY <1>11, <1>a, <1>b DEF PollTimeout, ClientAttached, ClientTypes, PollReturns
  <2>. QED
    BY <1>11, <1>d, <2>1, <2>2, TypesUnchanged DEF PollTimeout, serverVars, netVars, historyVars
<1>12. CASE PollReceive(c)
  <2>1. channel[c] # 0
    BY <1>12, <1>b DEF ClientAttached, PollReceive
  <2>2. toClient' \in FrameQueues /\ Head(toClient[channel[c]]) \in Frames
    BY <1>12, <2>1, PopTypes DEF PollReceive
  <2>3. ClientTypes'
    BY <1>12, <1>a, <2>1, <2>2 DEF PollReceive, ClientTypes, PollReturns, Requested
  <2>4. ClientAttached'
    BY <1>12, <1>a, <1>b, <2>1, <2>2 DEF PollReceive, ClientAttached, ClientTypes, PollReturns
  <2>5. NetTypes'
    BY <1>12, <1>a, <2>1, <2>2 DEF PollReceive, NetTypes
  <2>. QED
    BY <1>12, <1>d, <2>3, <2>4, <2>5, TypesUnchanged DEF PollReceive, serverVars, historyVars
<1>13. CASE PollPing(c)
  <2>1. channel[c] # 0
    BY <1>13, <1>b DEF ClientAttached, PollPing
  <2>2. toClient' \in FrameQueues /\ Head(toClient[channel[c]]) \in Frames
    BY <1>13, <2>1, PopTypes DEF PollPing
  <2>3. /\ nextCommand' \in [Clients -> 0 .. MaxCommands]
        /\ toServer' \in FrameQueues
        /\ isConnected' \in [Clients -> BOOLEAN]
        /\ up' = up
        /\ \A d \in Clients : isConnected'[d] => isConnected[d]
    BY <1>13, <2>1, AnswerTypes DEF Requested, PollPing, Requests
  <2>a. /\ currentCommand' = [currentCommand EXCEPT ![c] = "Ping"]
        /\ UNCHANGED <<channel, mode, serving, commandChecked, knownState, clientVersion>>
        /\ clientAt' \in {clientAt, [clientAt EXCEPT ![c] = "idle"]}
        /\ timeout' \in {timeout, [timeout EXCEPT ![c] = "none"]}
    BY <1>13 DEF PollPing, PollReturns
  <2>b. "Ping" \in Requested
    BY DEF Requested, Requests
  <2>4. ClientTypes'
    BY <1>a, <2>3, <2>a, <2>b DEF ClientTypes
  <2>5. ClientAttached'
    BY <1>13, <1>a, <1>b, <2>1, <2>2, <2>3 DEF PollPing, ClientAttached, ClientTypes, PollReturns
  <2>6. NetTypes'
    BY <1>13, <1>a, <2>1, <2>2, <2>3 DEF PollPing, NetTypes
  <2>. QED
    BY <1>13, <1>d, <2>4, <2>5, <2>6, TypesUnchanged DEF PollPing, serverVars, historyVars
<1>14. CASE PollFails(c)
  <2>1. ClientTypes'
    BY <1>14, <1>a DEF PollFails, ClientTypes, PollReturns
  <2>2. ClientAttached'
    BY <1>14, <1>a, <1>b DEF PollFails, ClientAttached, ClientTypes, PollReturns
  <2>3. NetTypes'
    BY <1>14, <1>a DEF PollFails, NetTypes, UpWithoutOld
  <2>. QED
    BY <1>14, <1>d, <2>1, <2>2, <2>3, TypesUnchanged DEF PollFails, serverVars, historyVars
<1>15. CASE FinishCommand(c)
  <2>1. channel[c] # 0
    BY <1>15, <1>b DEF ClientAttached, FinishCommand
  <2>2. /\ nextCommand' \in [Clients -> 0 .. MaxCommands]
        /\ toServer' \in FrameQueues
        /\ isConnected' \in [Clients -> BOOLEAN]
        /\ up' = up
        /\ \A d \in Clients : isConnected'[d] => isConnected[d]
    BY <1>15, <1>a, <2>1, AnswerTypes DEF FinishCommand, ClientTypes
  <2>3. ClientTypes'
    BY <1>15, <1>a, <2>1, <2>2 DEF FinishCommand, ClientTypes, NoCurrentCommand, Requested
  <2>4. ClientAttached'
    BY <1>15, <1>a, <1>b, <2>1, <2>2 DEF FinishCommand, ClientAttached, ClientTypes
  <2>5. NetTypes'
    BY <1>15, <1>a, <2>1, <2>2 DEF FinishCommand, NetTypes
  <2>. QED
    BY <1>15, <1>d, <2>3, <2>4, <2>5, TypesUnchanged DEF FinishCommand, serverVars, historyVars
<1>. QED
  BY <1>1, <1>2, <1>3, <1>4, <1>5, <1>6, <1>7, <1>8, <1>9, <1>10, <1>11, <1>12, <1>13,
     <1>14, <1>15 DEF ClientStep

\* The calls of other threads, and the end of a process, keep the types.
LEMMA TypesOther ==
    ASSUME Types, NEW c \in Clients, OtherThread(c) \/ Crash(c)
    PROVE  Types'
<1>. USE ConstantsAssumption
<1>a. TypeOK /\ ServerTypes /\ NetTypes /\ ClientTypes /\ HistoryTypes
  BY DEF Types, TypeOK
<1>b. ClientAttached /\ ServerAttached /\ CommandBound
  BY DEF Types
<1>. DEFINE TypesNext == ServerTypes' /\ NetTypes' /\ ClientTypes' /\ HistoryTypes'
                           /\ CommandBound' /\ ServerAttached' /\ ClientAttached'
<1>c. SUFFICES TypesNext
  BY DEF Types, TypeOK
<1>d. UNCHANGED serverVars => ServerTypes' /\ ServerAttached'
  BY <1>b, TypesUnchanged DEF ServerAttached, serverVars
<1>1. CASE Disconnect(c)
  <2>1. ClientTypes'
    BY <1>1, <1>a DEF Disconnect, ClientTypes
  <2>2. ClientAttached'
    BY <1>1, <1>a, <1>b DEF Disconnect, ClientAttached, ClientTypes
  <2>3. NetTypes'
    BY <1>1, <1>a DEF Disconnect, NetTypes, UpWithoutOld
  <2>. QED
    BY <1>1, <1>d, <2>1, <2>2, <2>3, TypesUnchanged DEF Disconnect, serverVars, historyVars
<1>2. CASE CheckCommand(c)
  <2>1. ClientTypes'
    BY <1>2, <1>a DEF CheckCommand, ClientTypes
  <2>2. ClientAttached'
    BY <1>2, <1>b DEF CheckCommand, ClientAttached
  <2>3. CommandBound'
    BY <1>2, <1>a, <1>b DEF CheckCommand, CommandBound, ClientTypes, historyVars
  <2>. QED
    BY <1>2, <1>d, <2>1, <2>2, <2>3, TypesUnchanged
       DEF CheckCommand, serverVars, netVars, historyVars
<1>3. CASE StoreCommand(c)
  <2>1. issued[c] + 1 \in 1 .. MaxCommands
    BY <1>3, <1>a, <1>b DEF StoreCommand, CommandBound, HistoryTypes
  <2>2. ClientTypes'
    BY <1>3, <1>a, <2>1 DEF StoreCommand, ClientTypes
  <2>3. ClientAttached'
    BY <1>3, <1>b DEF StoreCommand, ClientAttached
  <2>4. HistoryTypes'
    BY <1>3, <1>a, <2>1 DEF StoreCommand, HistoryTypes
  <2>5. CommandBound'
    BY <1>3, <1>a, <1>b DEF StoreCommand, CommandBound, ClientTypes, HistoryTypes
  <2>. QED
    BY <1>3, <1>d, <2>2, <2>3, <2>4, <2>5, TypesUnchanged DEF StoreCommand, serverVars, netVars
<1>4. CASE Crash(c)
  <2>1. ClientTypes'
    BY <1>4, <1>a, ResetTypes DEF Crash, ClientTypes, Requested, States
  <2>2. ClientAttached'
    BY <1>4, <1>a, <1>b DEF Crash, ClientAttached, ClientTypes
  <2>3. NetTypes'
    BY <1>4, <1>a, ResetTypes DEF Crash, NetTypes
  <2>4. CommandBound'
    BY <1>4, <1>a, <1>b DEF Crash, CommandBound, ClientTypes, historyVars
  <2>. QED
    BY <1>4, <1>d, <2>1, <2>2, <2>3, <2>4, TypesUnchanged DEF Crash, serverVars, historyVars
<1>. QED
  BY <1>1, <1>2, <1>3, <1>4 DEF OtherThread

\* A connection that breaks keeps the types.
LEMMA TypesNet ==
    ASSUME Types, NEW k \in Conns, BreakConnection(k)
    PROVE  Types'
<1>. TypeOK /\ ServerTypes /\ NetTypes /\ ClientTypes /\ HistoryTypes
  BY DEF Types, TypeOK
<1>1. NetTypes'
  BY DEF BreakConnection, NetTypes
<1>2. ServerTypes' /\ ClientTypes' /\ HistoryTypes' /\ CommandBound' /\ ClientAttached'
  BY TypesUnchanged DEF BreakConnection, clientVars, historyVars
<1>3. ServerAttached'
  BY DEF BreakConnection, serverVars, Types, ServerAttached
<1>. QED
  BY <1>1, <1>2, <1>3 DEF Types, TypeOK

\* Every step keeps the types.
LEMMA TypesNext ==
    ASSUME Types, [Next]_vars
    PROVE  Types'
<1>1. CASE UNCHANGED vars
  <2>1. ServerTypes' /\ NetTypes' /\ ClientTypes' /\ HistoryTypes' /\ CommandBound'
           /\ ClientAttached'
    BY <1>1, TypesUnchanged DEF vars, clientVars, historyVars
  <2>2. ServerAttached'
    BY <1>1 DEF vars, serverVars, Types, ServerAttached
  <2>. QED
    BY <2>1, <2>2 DEF Types, TypeOK
<1>. QED
  BY <1>1, TypesServer, TypesClient, TypesOther, TypesNet DEF Next

\* The inductive form of the theorem below.
LEMMA TypesHold == Spec => []Types
  BY TypesInit, TypesNext, PTL DEF Spec

\* In every behaviour of client and server every variable holds values of its
\* type: at most MaxCommands commands are counted, a queue holds frames, a
\* version is a natural number.
THEOREM TypeCorrect == Spec => []TypeOK
<1>1. Types => TypeOK
  BY DEF Types
<1>. QED
  BY <1>1, TypesHold, PTL

-----------------------------------------------------------------------------
(* The server and its listeners.                                           *)

\* What the place of the host's call says of the listeners and the channel.
ReachInv ==
    /\ simulationState = "Unloaded" =>
          serverAt = "idle" /\ serverChannel = 0 /\ listener = "closed"
    /\ serverAt = "accept" => listener = "open" /\ serverChannel = 0
    /\ serverAt \in {"hello", "attach"} => listener = "open"
    /\ serverAt \in {"idle", "wait"} /\ serverChannel # 0 => listener = "closed"
    /\ serverAt = "idle" /\ serverChannel = 0 /\ simulationState # "Unloaded"
          => listener # "closed"
    /\ listener = "failed" => SocketsCanFail
    /\ listener = "closed" => backlog = <<>>

\* A host that is not unloaded stays so over its requests.
LEMMA StateAfterLoaded ==
    ASSUME NEW r, simulationState # "Unloaded"
    PROVE  StateAfter(r) # "Unloaded"
  BY Zenon DEF StateAfter

\* It holds at first.
LEMMA ReachInit == Init => ReachInv
  BY DEF Init, ReachInv

\* After the connection is closed there is a listener, or it could not be made.
LEMMA ReachClose ==
    ASSUME Types, ReachInv, CloseConnection, simulationState' # "Unloaded",
           backlog' = backlog
    PROVE  ReachInv'
<1>1. /\ listener' \in {"open", "failed"} /\ (listener' = "failed" => SocketsCanFail)
      /\ serverAt' = "idle" /\ serverChannel' = 0
  BY DEF CloseConnection, StartAccepting, ReachInv
<1>. QED
  BY <1>1 DEF ReachInv

\* Every step of the server keeps it.
LEMMA ReachServer ==
    ASSUME Types, ReachInv, ServerStep
    PROVE  ReachInv'
<1>. USE DEF netVars
<1>a. serverAt # "idle" => simulationState # "Unloaded"
  BY DEF ReachInv
<1>1. CASE Load
  BY <1>1 DEF Load, ReachInv
<1>2. CASE Unload
  BY <1>2 DEF Unload, ReachInv
<1>3. ASSUME NEW r \in HostCalls, HostRequest(r)
      PROVE  ReachInv'
  <2>1. simulationState' # "Unloaded" /\ backlog' = backlog
    BY <1>3, StateAfterLoaded DEF HostRequest
  <2>2. CASE CloseConnection
    BY <2>1, <2>2, ReachClose
  <2>3. CASE serverAt' = "wait" /\ UNCHANGED <<serverChannel, listener>>
    BY <1>3, <2>1, <2>3 DEF HostRequest, ReachInv
  <2>. QED
    BY <1>3, <2>2, <2>3 DEF HostRequest
<1>4. ASSUME NEW r \in HostCalls, HostCallWithoutClient(r)
      PROVE  ReachInv'
  <2>1. simulationState' # "Unloaded"
    BY <1>4, StateAfterLoaded DEF HostCallWithoutClient
  <2>. QED
    BY <1>4, <2>1 DEF HostCallWithoutClient, ReachInv
<1>5. CASE AcceptChannel
  BY <1>5 DEF AcceptChannel, ReachInv
<1>6. CASE AcceptFails
  BY <1>6 DEF AcceptFails, ReachInv
<1>7. CASE AnswerConnect
  <2>1. simulationState' # "Unloaded" /\ backlog' = backlog
    BY <1>7, <1>a DEF AnswerConnect
  <2>2. CASE CloseConnection
    BY <2>1, <2>2, ReachClose
  <2>3. CASE serverAt' = "attach" /\ UNCHANGED <<serverChannel, listener>>
    BY <1>7, <2>1, <2>3 DEF AnswerConnect, ReachInv
  <2>. QED
    BY <1>7, <2>2, <2>3 DEF AnswerConnect
<1>8. CASE Attach
  BY <1>8 DEF Attach, DropBacklog, ReachInv, Types, ServerAttached
<1>9. CASE AttachFails
  BY <1>9, <1>a, ReachClose DEF AttachFails
<1>10. CASE AttachedPeerGone
  BY <1>10 DEF AttachedPeerGone, DropBacklog, ReachInv
<1>11. CASE ReceiveReply
  <2>1. simulationState' # "Unloaded" /\ backlog' = backlog
    BY <1>11, <1>a DEF ReceiveReply
  <2>2. CASE CloseConnection
    BY <2>1, <2>2, ReachClose
  <2>3. CASE serverAt' = "idle" /\ UNCHANGED <<serverChannel, listener>>
    BY <1>11, <2>1, <2>3 DEF ReceiveReply, ReachInv, Types, ServerAttached
  <2>. QED
    BY <1>11, <2>2, <2>3 DEF ReceiveReply
<1>12. CASE ReceiveFails
  BY <1>12, <1>a, ReachClose DEF ReceiveFails
<1>. QED
  BY <1>1, <1>2, <1>3, <1>4, <1>5, <1>6, <1>7, <1>8, <1>9, <1>10, <1>11, <1>12
  DEF ServerStep

\* Clients add to the backlog, and only while the server listens.
LEMMA ReachElse ==
    ASSUME ReachInv,
           \/ \E c \in Clients : ClientStep(c) \/ OtherThread(c) \/ Crash(c)
           \/ \E k \in Conns : BreakConnection(k)
           \/ UNCHANGED vars
    PROVE  ReachInv'
<1>1. ASSUME NEW c \in Clients, Connect(c)
      PROVE  ReachInv'
  BY <1>1 DEF Connect, ReachInv, serverVars
<1>2. CASE UNCHANGED <<serverVars, backlog>>
  BY <1>2 DEF ReachInv, serverVars
<1>. QED
  BY <1>1, <1>2 DEF ClientStep, OtherThread, Disconnect, CheckCommand, StoreCommand, Crash,
     BreakConnection, ConnectRefused, ConnectOk, ConnectFails, RunCallbackBased, RunReceive,
     RunPing, RunFinish, RunFails, PollCommand, PollTimeout, PollReceive, PollPing, PollFails,
     FinishCommand, vars, netVars

\* A loaded server without a client listens, unless no listener can be made; one
\* that is attached to a client does not, and nobody waits to be accepted.
THEOREM Reachable == Spec => []ServerReachable
<1>1. Types /\ ReachInv /\ [Next]_vars => ReachInv'
  BY ReachServer, ReachElse DEF Next
<1>2. Types /\ ReachInv => ServerReachable
  BY DEF Types, TypeOK, ServerTypes, ReachInv, ServerReachable
<1>. QED
  BY <1>1, <1>2, ReachInit, TypesHold, PTL DEF Spec

-----------------------------------------------------------------------------
(* Who holds a connection.                                                 *)

\* Connections are made in order, and none that is still to be made was used.
Made(k) == k <= connections
MadeInv ==
    /\ Made(serverChannel)
    /\ \A i \in DOMAIN backlog : Made(backlog[i])
    /\ \A c \in Clients : Made(channel[c])
    /\ \A k \in Conns : ~Made(k) => toClient[k] = <<>>

\* The server's end of a live connection is its channel or waits in the backlog.
HeldInv == \A k \in Conns : up[k] => k = serverChannel \/ Waiting(k)

\* A connection waits once, is not the server's, and its client, which was sent
\* nothing, is not connected by it.
BacklogInv ==
    /\ \A i, j \in DOMAIN backlog : backlog[i] = backlog[j] => i = j
    /\ \A i \in DOMAIN backlog :
          /\ backlog[i] # serverChannel
          /\ toClient[backlog[i]] = <<>>
          /\ \A c \in Clients : isConnected[c] => channel[c] # backlog[i]

LinkInv == MadeInv /\ HeldInv /\ BacklogInv

\* Nobody holds a connection at first.
LEMMA LinkInit == Init => LinkInv
<1>. SUFFICES ASSUME Init PROVE LinkInv
  OBVIOUS
<1>1. DOMAIN backlog = {}
  BY DEF Init
<1>2. MadeInv
  BY <1>1 DEF Init, MadeInv, Made
<1>3. HeldInv
  BY DEF Init, HeldInv
<1>4. BacklogInv
  BY <1>1 DEF BacklogInv
<1>. QED
  BY <1>2, <1>3, <1>4 DEF LinkInv

\* No connection is made or accepted, the server may give up the one it has and
\* the ones that wait, and who becomes connected was sent something.
LEMMA LinksShrink ==
    ASSUME Types, LinkInv,
           connections' = connections,
           serverChannel' \in {0, serverChannel},
           backlog' \in {<<>>, backlog},
           \A k \in Conns : up'[k] => /\ up[k]
                                      /\ k = serverChannel => serverChannel' = k
                                      /\ Waiting(k) => backlog' = backlog,
           \A k \in Conns : toClient[k] = <<>> /\ k # serverChannel => toClient'[k] = <<>>,
           \A c \in Clients : channel'[c] \in {0, channel[c]},
           \A c \in Clients : isConnected'[c] =>
               /\ channel'[c] = channel[c]
               /\ isConnected[c] \/ toClient[channel[c]] # <<>>
    PROVE  LinkInv'
<1>1. /\ serverChannel \in 0 .. MaxConns /\ connections \in 0 .. MaxConns
      /\ backlog \in Seq(Conns)
  BY DEF Types, TypeOK, ServerTypes, NetTypes
<1>2. MadeInv'
  BY <1>1 DEF LinkInv, MadeInv, Made, Conns
<1>3. HeldInv'
  BY DEF LinkInv, HeldInv, Waiting
<1>4. BacklogInv'
  <2>1. CASE backlog' = <<>>
    <3>1. DOMAIN backlog' = {}
      BY <2>1
    <3>. QED
      BY <3>1 DEF BacklogInv
  <2>2. CASE backlog' = backlog
    <3>. USE DEF LinkInv, BacklogInv
    <3>1. ASSUME NEW i \in DOMAIN backlog
          PROVE  /\ backlog[i] \in Conns /\ backlog[i] # 0
                 /\ backlog[i] # serverChannel /\ toClient[backlog[i]] = <<>>
                 /\ \A c \in Clients : isConnected[c] => channel[c] # backlog[i]
      <4>1. backlog[i] \in Conns
        BY <1>1
      <4>. QED
        BY <4>1 DEF Conns
    <3>2. ASSUME NEW i \in DOMAIN backlog
          PROVE  /\ backlog[i] # serverChannel' /\ toClient'[backlog[i]] = <<>>
                 /\ \A c \in Clients : isConnected'[c] => channel'[c] # backlog[i]
      BY <3>1
    <3>. QED
      BY <2>2, <3>2
  <2>. QED
    BY <2>1, <2>2
<1>. QED
  BY <1>2, <1>3, <1>4 DEF LinkInv

\* What is sent over one connection does not show on another one.
LEMMA DeliverElsewhere ==
    ASSUME NEW queue \in FrameQueues, NEW k, NEW other \in Conns, other # k, NEW frame
    PROVE  Deliver(queue, k, frame)[other] = queue[other]
  BY DEF Deliver, FrameQueues

\* The server closes its connection.
LEMMA LinkClose ==
    ASSUME Types, LinkInv, CloseConnection,
           UNCHANGED <<connections, backlog, toClient, clientVars>>
    PROVE  LinkInv'
<1>1. \A k \in Conns : up'[k] => up[k] /\ k # serverChannel
  BY DEF CloseConnection, Types, TypeOK, NetTypes
<1>. QED
  BY <1>1, LinksShrink DEF CloseConnection, clientVars

\* The server stops listening and drops the connections that wait.
LEMMA LinkDrop ==
    ASSUME Types, LinkInv, DropBacklog,
           serverChannel' = serverChannel \/ (serverChannel' = 0 /\ ~up[serverChannel]),
           \A k \in Conns : k # serverChannel => toClient'[k] = toClient[k],
           UNCHANGED <<connections, clientVars>>
    PROVE  LinkInv'
<1>1. \A k \in Conns : up'[k] => up[k] /\ ~Waiting(k)
  BY DEF DropBacklog
<1>. QED
  BY <1>1, LinksShrink DEF DropBacklog, clientVars

\* Every step of the server keeps who holds what.
LEMMA LinkServer ==
    ASSUME Types, ReachInv, LinkInv, ServerStep
    PROVE  LinkInv'
<1>a. toClient \in FrameQueues
  BY DEF Types, TypeOK, NetTypes
<1>. DEFINE Unlinked == UNCHANGED <<connections, serverChannel, backlog, up, clientVars>>
<1>b. ASSUME Unlinked, UNCHANGED toClient
      PROVE  LinkInv'
  BY <1>b, LinksShrink DEF clientVars
<1>c. ASSUME Unlinked, NEW frame, toClient' = Deliver(toClient, serverChannel, frame)
      PROVE  LinkInv'
  BY <1>a, <1>c, DeliverElsewhere, LinksShrink DEF clientVars
<1>1. CASE Load
  BY <1>1, <1>b DEF Load, netVars
<1>2. CASE Unload
  <2>1. \A k \in Conns : up'[k] => up[k] /\ k # serverChannel /\ ~Waiting(k)
    BY <1>2 DEF Unload
  <2>. QED
    BY <1>2, <2>1, LinksShrink DEF Unload, clientVars
<1>3. ASSUME NEW r \in HostCalls, HostRequest(r)
      PROVE  LinkInv'
  BY <1>3, <1>c, LinkClose DEF HostRequest
<1>4. ASSUME NEW r \in HostCalls, HostCallWithoutClient(r)
      PROVE  LinkInv'
  BY <1>4, <1>b DEF HostCallWithoutClient, netVars
<1>5. CASE AcceptChannel
  <2>1. /\ backlog # <<>> /\ backlog \in Seq(Conns)
        /\ serverChannel' = Head(backlog) /\ backlog' = Tail(backlog)
        /\ UNCHANGED <<connections, up, toClient, clientVars>>
    BY <1>5 DEF AcceptChannel, Types, TypeOK, NetTypes
  <2>2. /\ 1 \in DOMAIN backlog /\ Head(backlog) = backlog[1]
        /\ \A i \in DOMAIN backlog' : i + 1 \in DOMAIN backlog /\ backlog'[i] = backlog[i + 1]
        /\ \A i \in DOMAIN backlog : i # 1 => i - 1 \in DOMAIN backlog' /\ backlog'[i - 1] = backlog[i]
    BY <2>1
  <2>3. MadeInv'
    BY <2>1, <2>2 DEF LinkInv, MadeInv, Made, clientVars
  <2>4. HeldInv'
    <3>1. serverChannel \notin Conns
      BY <1>5 DEF AcceptChannel, ReachInv, Conns
    <3>2. ASSUME NEW k \in Conns, up[k]
          PROVE  k = Head(backlog) \/ Waiting(k)'
      <4>1. PICK i \in DOMAIN backlog : backlog[i] = k
        BY <3>1, <3>2 DEF LinkInv, HeldInv, Waiting
      <4>. QED
        BY <2>2, <4>1 DEF Waiting
    <3>. QED
      BY <2>1, <3>2 DEF HeldInv
  <2>5. BacklogInv'
    BY <2>1, <2>2 DEF LinkInv, BacklogInv, clientVars
  <2>. QED
    BY <2>3, <2>4, <2>5 DEF LinkInv
<1>6. CASE AcceptFails
  BY <1>6, <1>b DEF AcceptFails, netVars
<1>7. CASE AnswerConnect
  BY <1>7, <1>c, LinkClose DEF AnswerConnect
<1>8. CASE Attach
  <2>1. \A k \in Conns : k # serverChannel => toClient'[k] = toClient[k]
    BY <1>8, <1>a, DeliverElsewhere DEF Attach
  <2>. QED
    BY <1>8, <2>1, LinkDrop DEF Attach
<1>9. CASE AttachFails
  BY <1>9, LinkClose DEF AttachFails
<1>10. CASE AttachedPeerGone
  BY <1>10, LinkDrop DEF AttachedPeerGone, CanFailOn
<1>11. CASE ReceiveReply
  BY <1>11, <1>b, LinkClose DEF ReceiveReply
<1>12. CASE ReceiveFails
  BY <1>12, LinkClose DEF ReceiveFails
<1>. QED
  BY <1>1, <1>2, <1>3, <1>4, <1>5, <1>6, <1>7, <1>8, <1>9, <1>10, <1>11, <1>12
  DEF ServerStep

\* A connection that is made is waiting, was not used before, and is of a client
\* that is not connected yet.
LEMMA LinkConnect ==
    ASSUME Types, LinkInv, NEW c \in Clients, Connect(c)
    PROVE  LinkInv'
<1>. DEFINE k == connections + 1
<1>1. /\ connections \in Nat /\ serverChannel \in Nat /\ backlog \in Seq(Conns)
      /\ channel \in [Clients -> 0 .. MaxConns] /\ up \in [Conns -> BOOLEAN]
      /\ k \in Conns /\ connections' = k /\ backlog' = Append(backlog, k)
      /\ serverChannel' = serverChannel /\ isConnected' = isConnected /\ ~isConnected[c]
      /\ channel' = [channel EXCEPT ![c] = k]
      /\ up' = [UpWithoutOld(c) EXCEPT ![k] = TRUE] /\ toClient' = Unread(c)
  BY ConstantsAssumption
     DEF Connect, Reset, Types, TypeOK, ServerTypes, NetTypes, ClientTypes, serverVars
<1>2. /\ DOMAIN backlog' = DOMAIN backlog \cup {Len(backlog) + 1}
      /\ \A i \in DOMAIN backlog : backlog'[i] = backlog[i] /\ backlog[i] \in Conns
      /\ backlog'[Len(backlog) + 1] = k
  BY <1>1
<1>3. \A other \in Conns : toClient[other] = <<>> => toClient'[other] = <<>>
  BY <1>1 DEF Unread
<1>4. \A other \in Conns : up'[other] => up[other] \/ other = k
  BY <1>1 DEF UpWithoutOld
<1>5. /\ k # serverChannel /\ toClient[k] = <<>>
      /\ \A i \in DOMAIN backlog : backlog[i] # k
  BY <1>1, <1>2 DEF LinkInv, MadeInv, Made, Conns
<1>6. MadeInv'
  BY <1>1, <1>2, <1>3 DEF LinkInv, MadeInv, Made, Conns
<1>7. HeldInv'
  BY <1>1, <1>2, <1>4 DEF LinkInv, HeldInv, Waiting
<1>8. BacklogInv'
  <2>1. \A i, j \in DOMAIN backlog' : backlog'[i] = backlog'[j] => i = j
    BY <1>2, <1>5 DEF LinkInv, BacklogInv
  <2>2. ASSUME NEW i \in DOMAIN backlog
        PROVE  /\ backlog'[i] # serverChannel /\ toClient'[backlog'[i]] = <<>>
               /\ \A d \in Clients : isConnected[d] => channel'[d] # backlog'[i]
    BY <1>1, <1>2, <1>3, <2>2 DEF LinkInv, BacklogInv
  <2>3. \A d \in Clients : isConnected[d] => channel[d] # k /\ channel'[d] = channel[d]
    BY <1>1 DEF LinkInv, MadeInv, Made
  <2>. QED
    BY <1>1, <1>2, <1>3, <1>5, <2>1, <2>2, <2>3 DEF BacklogInv
<1>. QED
  BY <1>6, <1>7, <1>8 DEF LinkInv

\* What a client, another thread of it or the network does but Connect.
LEMMA LinkElse ==
    ASSUME Types, LinkInv,
           \/ \E c \in Clients : (ClientStep(c) /\ ~Connect(c)) \/ OtherThread(c) \/ Crash(c)
           \/ \E k \in Conns : BreakConnection(k)
           \/ UNCHANGED vars
    PROVE  LinkInv'
<1>. USE DEF serverVars, netVars, clientVars
<1>a. /\ toClient \in FrameQueues /\ channel \in [Clients -> 0 .. MaxConns]
      /\ up \in [Conns -> BOOLEAN] /\ isConnected \in [Clients -> BOOLEAN]
      /\ \A c \in Clients : clientAt[c] # "idle" \/ isConnected[c] => channel[c] # 0
  BY DEF Types, TypeOK, NetTypes, ClientTypes, ClientAttached
<1>. DEFINE Kept == UNCHANGED <<connections, serverChannel, backlog>>
            Fewer == \A k \in Conns : up'[k] => up[k]
            Emptied == \A k \in Conns : toClient[k] = <<>> => toClient'[k] = <<>>
            Left == \A d \in Clients : channel'[d] \in {0, channel[d]}
            Joined == \A d \in Clients : isConnected'[d] =>
                         /\ channel'[d] = channel[d]
                         /\ isConnected[d] \/ toClient[channel[d]] # <<>>
            Shrunk == Kept /\ Fewer /\ Emptied /\ Left /\ Joined
<1>b. Shrunk => LinkInv'
  BY LinksShrink
<1>. SUFFICES Shrunk
  BY <1>b
<1>1. CASE UNCHANGED <<connections, serverChannel, backlog, up, toClient, channel, isConnected>>
  BY <1>1
<1>2. ASSUME NEW k \in Conns, BreakConnection(k)
      PROVE  Shrunk
  BY <1>2, <1>a DEF BreakConnection
<1>3. ASSUME NEW c \in Clients, Pop(c), channel[c] # 0, toClient[channel[c]] # <<>>,
             UNCHANGED <<connections, serverChannel, backlog, up, channel>>,
             isConnected' \in {isConnected, [isConnected EXCEPT ![c] = TRUE],
                               [isConnected EXCEPT ![c] = FALSE]}
      PROVE  Shrunk
  <2>1. Emptied
    BY <1>3, <1>a DEF Pop, FrameQueues
  <2>2. Joined
    BY <1>3, <1>a
  <2>. QED
    BY <1>3, <2>1, <2>2
<1>4. ASSUME NEW c \in Clients, up' \in {up, UpWithoutOld(c)}, toClient' \in {toClient, Unread(c)},
             UNCHANGED <<connections, serverChannel, backlog>>,
             channel' \in {channel, [channel EXCEPT ![c] = 0]},
             isConnected' = [isConnected EXCEPT ![c] = FALSE]
                \/ (isConnected' = isConnected /\ channel' = channel)
      PROVE  Shrunk
  <2>1. Emptied
    BY <1>4 DEF Unread
  <2>2. Fewer
    BY <1>4 DEF UpWithoutOld
  <2>3. Joined /\ Left
    BY <1>4, <1>a
  <2>. QED
    BY <1>4, <2>1, <2>2, <2>3
<1>5. ASSUME NEW c \in Clients, ClientStep(c), ~Connect(c)
      PROVE  Shrunk
  <2>1. CASE ConnectRefused(c)
    BY <2>1, <1>4 DEF ConnectRefused, Reset
  <2>2. CASE ConnectOk(c)
    BY <2>2, <1>3, <1>a DEF ConnectOk
  <2>3. CASE ConnectFails(c)
    BY <2>3, <1>1 DEF ConnectFails
  <2>4. CASE RunCallbackBased(c)
    BY <2>4, <1>1 DEF RunCallbackBased
  <2>5. CASE RunReceive(c)
    BY <2>5, <1>3, <1>a DEF RunReceive
  <2>6. CASE RunPing(c)
    BY <2>6, <1>3, <1>a DEF RunPing, SendReply, FailReply
  <2>7. CASE RunFinish(c)
    BY <2>7, <1>1, <1>4 DEF RunFinish, SendReply, FailReply
  <2>8. CASE RunFails(c)
    BY <2>8, <1>4 DEF RunFails
  <2>9. ASSUME NEW t \in PollTimeouts, PollCommand(c, t)
        PROVE  Shrunk
    BY <2>9, <1>1 DEF PollCommand
  <2>10. CASE PollTimeout(c)
    BY <2>10, <1>1 DEF PollTimeout
  <2>11. CASE PollReceive(c)
    BY <2>11, <1>3, <1>a DEF PollReceive
  <2>12. CASE PollPing(c)
    BY <2>12, <1>3, <1>a DEF PollPing, SendReply, FailReply
  <2>13. CASE PollFails(c)
    BY <2>13, <1>4 DEF PollFails
  <2>14. CASE FinishCommand(c)
    BY <2>14, <1>1, <1>4 DEF FinishCommand, SendReply, FailReply
  <2>. QED
    BY <1>5, <2>1, <2>2, <2>3, <2>4, <2>5, <2>6, <2>7, <2>8, <2>9, <2>10, <2>11, <2>12, <2>13, <2>14
    DEF ClientStep
<1>6. ASSUME NEW c \in Clients, OtherThread(c) \/ Crash(c)
      PROVE  Shrunk
  <2>1. CASE Disconnect(c)
    BY <2>1, <1>4 DEF Disconnect
  <2>2. CASE CheckCommand(c) \/ StoreCommand(c)
    BY <2>2, <1>1 DEF CheckCommand, StoreCommand
  <2>3. CASE Crash(c)
    BY <2>3, <1>4 DEF Crash, Reset
  <2>. QED
    BY <1>6, <2>1, <2>2, <2>3 DEF OtherThread
<1>. QED
  BY <1>1, <1>2, <1>5, <1>6 DEF vars

\* Both invariants, in every behaviour.
LEMMA LinksHold == Spec => [](ReachInv /\ LinkInv)
<1>1. Types /\ ReachInv /\ LinkInv /\ [Next]_vars => (ReachInv /\ LinkInv)'
  BY ReachServer, ReachElse, LinkServer, LinkConnect, LinkElse DEF Next
<1>. QED
  BY <1>1, ReachInit, LinkInit, TypesHold, PTL DEF Spec

\* A client that believes it is connected over a live connection is the one the
\* server is attached to, however many clients reached the server while it was
\* still listening.
THEOREM OneSession == Spec => []OneLiveSession
<1>1. Types /\ LinkInv => OneLiveSession
  <2>. SUFFICES ASSUME Types, LinkInv, NEW c \in Clients, isConnected[c], up[channel[c]]
                PROVE  serverChannel = channel[c]
    BY DEF OneLiveSession
  <2>1. channel[c] \in Conns
    BY DEF Types, TypeOK, ClientTypes, ClientAttached, Conns
  <2>2. ~Waiting(channel[c])
    BY DEF LinkInv, BacklogInv, Waiting
  <2>. QED
    BY <2>1, <2>2 DEF LinkInv, HeldInv
<1>. QED
  BY <1>1, LinksHold, TypesHold, PTL

-----------------------------------------------------------------------------
(* The two ends keep in step: the inductive invariant.                     *)

\* Connect succeeded and the session did not end, or a call of it still runs.
InSession(c) == isConnected[c] \/ clientAt[c] \in {"run", "callback", "poll"}

\* The request a client took and has not answered.
Taken(c) == IF clientAt[c] = "callback" THEN serving[c]
            ELSE IF clientAt[c] = "idle" THEN currentCommand[c] ELSE "None"

\* What the call that a client is in says of its connection and its command.
ModeInv(c) ==
    /\ channel[c] # 0 => owner[channel[c]] = c
    /\ clientAt[c] = "hello" => ~isConnected[c] /\ mode[c] = "Unknown"
    /\ clientAt[c] = "poll" => mode[c] = "NonBlocking"
    /\ mode[c] # "NonBlocking" => currentCommand[c] = "None"
    /\ clientAt[c] = "callback" => serving[c] \in Requests
    /\ (/\ channel[c] # 0 /\ up[channel[c]]
        /\ clientAt[c] \in {"run", "callback", "poll"} \/ currentCommand[c] # "None")
       => isConnected[c]

\* A client in Connect finds the connect-ok frame before any request, and one in
\* a session finds requests, also when the connection is gone.
QueueInv(c) ==
    LET q == toClient[channel[c]] IN
    /\ clientAt[c] = "hello" =>
          \A i \in DOMAIN q : IF i = 1 THEN q[i].kind = "ConnectOk" ELSE q[i].kind \in Requests
    /\ InSession(c) => \A i \in DOMAIN q : q[i].kind \in Requests

\* Over a connection from which the server read nothing yet only the connect
\* frame was sent; its client waits for the answer, or is gone.
Pristine(k) ==
    /\ toClient[k] = <<>>
    /\ Len(toServer[k]) = 1 /\ toServer[k][1].kind = "Connect"
    /\ \A c \in Clients : channel[c] = k =>
          /\ ~InSession(c)
          /\ currentCommand[c] = "None"
          /\ up[k] => clientAt[c] = "hello"

Unanswered(k) == Waiting(k) \/ (k = serverChannel /\ serverAt = "hello")
PristineInv == \A k \in Conns : Unanswered(k) => Pristine(k)

\* What is on its way to the server is the one answer it waits for, or nothing.
AnswerInv ==
    LET answers == toServer[serverChannel] IN
    serverChannel # 0 =>
        /\ serverAt \in {"attach", "idle"} => answers = <<>>
        /\ serverAt = "wait" => /\ request \in Requests
                                /\ Len(answers) \in {0, 1}
                                /\ Len(answers) = 1 => answers[1].kind = ReplyKind(request)

\* Where the request of a live session is: behind the connect-ok frame, on its
\* way alone, taken by the client, or answered.
InHandshake(c, k) ==
    /\ clientAt[c] = "hello" /\ toServer[k] = <<>>
    /\ IF serverAt = "wait" THEN Len(toClient[k]) = 2 /\ toClient[k][2].kind = request
                            ELSE Len(toClient[k]) = 1
NoRequest(c, k) == serverAt # "wait" /\ toClient[k] = <<>> /\ Taken(c) = "None"
Sent(c, k) == /\ serverAt = "wait" /\ toServer[k] = <<>> /\ Taken(c) = "None"
              /\ Len(toClient[k]) = 1 /\ toClient[k][1].kind = request
IsTaken(c, k) == /\ serverAt = "wait" /\ toServer[k] = <<>> /\ Taken(c) = request
                 /\ toClient[k] = <<>>
Answered(c, k) == /\ serverAt = "wait" /\ Len(toServer[k]) = 1 /\ Taken(c) = "None"
                  /\ toClient[k] = <<>>

\* Over a live connection the server is attached to, one of these holds.
SessionInv(c) ==
    LET k == serverChannel IN
    k # 0 /\ channel[c] = k /\ up[k] /\ serverAt # "hello" =>
        \/ InHandshake(c, k)
        \/ /\ clientAt[c] # "hello"
           /\ NoRequest(c, k) \/ Sent(c, k) \/ IsTaken(c, k) \/ Answered(c, k)

ClientInv(c) == ModeInv(c) /\ QueueInv(c) /\ SessionInv(c)
ClientsInv == \A c \in Clients : ClientInv(c)

StepInv == PristineInv /\ AnswerInv /\ ClientsInv

-----------------------------------------------------------------------------
(* What a client leaves alone.                                             *)

\* The types the proofs below use.
LEMMA Shapes ==
    ASSUME Types
    PROVE  /\ channel \in [Clients -> 0 .. MaxConns]
           /\ isConnected \in [Clients -> BOOLEAN]
           /\ mode \in [Clients -> {"Unknown", "Blocking", "NonBlocking"}]
           /\ clientAt \in [Clients -> {"idle", "hello", "run", "callback", "poll"}]
           /\ serving \in [Clients -> Requested]
           /\ currentCommand \in [Clients -> Requested]
           /\ owner \in [Conns -> Clients \cup {NoClient}]
           /\ up \in [Conns -> BOOLEAN]
           /\ backlog \in Seq(Conns)
           /\ toClient \in FrameQueues /\ toServer \in FrameQueues
           /\ serverChannel \in 0 .. MaxConns
           /\ \A c \in Clients : channel[c] # 0 => channel[c] \in Conns
           /\ \A c \in Clients : clientAt[c] # "idle" \/ isConnected[c] => channel[c] \in Conns
           /\ serverChannel # 0 => serverChannel \in Conns
           /\ 0 \notin Conns
  BY DEF Types, TypeOK, ServerTypes, NetTypes, ClientTypes, ClientAttached, Conns

\* A connection is that of one client.
LEMMA OneOwner ==
    ASSUME ClientsInv, NEW c \in Clients, NEW d \in Clients, channel[c] = channel[d], channel[c] # 0
    PROVE  c = d
  BY DEF ClientsInv, ClientInv, ModeInv

\* A client on a live connection whose session began is connected, the server
\* is attached to it, and its request is at one of four places.
LEMMA Alive ==
    ASSUME Types, LinkInv, StepInv, NEW c \in Clients, InSession(c), up[channel[c]]
    PROVE  /\ isConnected[c] /\ clientAt[c] # "hello"
           /\ serverChannel = channel[c] /\ serverChannel # 0 /\ serverAt # "hello"
           /\ \/ NoRequest(c, channel[c]) \/ Sent(c, channel[c])
              \/ IsTaken(c, channel[c]) \/ Answered(c, channel[c])
<1>1. channel[c] \in Conns /\ channel[c] # 0
  BY Shapes DEF InSession
<1>2. ModeInv(c) /\ SessionInv(c)
  BY DEF StepInv, ClientsInv, ClientInv
<1>3. isConnected[c] /\ clientAt[c] # "hello"
  BY <1>1, <1>2 DEF ModeInv, InSession
<1>4. ~Unanswered(channel[c])
  BY <1>1 DEF StepInv, PristineInv, Pristine
<1>5. serverChannel = channel[c]
  BY <1>1, <1>4 DEF LinkInv, HeldInv, Unanswered
<1>6. serverAt # "hello"
  BY <1>4, <1>5 DEF Unanswered
<1>. QED
  BY <1>1, <1>2, <1>3, <1>5, <1>6 DEF SessionInv, InHandshake

\* A client that did nothing, and whose connection nobody used.
Same(d) == UNCHANGED <<channel[d], isConnected[d], mode[d], clientAt[d], serving[d],
                     currentCommand[d]>>

\* The invariant of such a client stays.
LEMMA SameClient ==
    ASSUME Types, NEW d \in Clients, ClientInv(d), Same(d),
           UNCHANGED <<serverChannel, serverAt, request>>,
           channel[d] # 0 => UNCHANGED <<owner[channel[d]], toClient[channel[d]],
                                         toServer[channel[d]]>>,
           channel[d] # 0 /\ up'[channel[d]] => up[channel[d]]
    PROVE  ClientInv(d)'
<1>1. clientAt[d] # "idle" \/ isConnected[d] => channel[d] # 0
  BY Shapes
<1>2. ModeInv(d)'
  BY <1>1 DEF ClientInv, ModeInv, Same
<1>3. QueueInv(d)'
  BY <1>1, Shapes DEF ClientInv, QueueInv, InSession, Same
<1>4. SessionInv(d)'
  <2>. SUFFICES ASSUME serverChannel # 0, channel[d] = serverChannel, up'[channel[d]], serverAt # "hello"
                PROVE  SessionInv(d)'
    BY DEF SessionInv, Same
  <2>1. Taken(d)' = Taken(d)
    BY DEF Taken, Same
  <2>. QED
    BY <2>1 DEF ClientInv, SessionInv, InHandshake, NoRequest, Sent, IsTaken, Answered, Same
<1>. QED
  BY <1>2, <1>3, <1>4 DEF ClientInv

\* A step of a client that makes no connection concerns the client, its
\* connection, and what the server reads from it.
Moves(c) ==
    /\ UNCHANGED <<serverChannel, serverAt, request, backlog, owner>>
    /\ \A d \in Clients \ {c} : Same(d)
    /\ channel'[c] \in {0, channel[c]}
    /\ \A k \in Conns : up'[k] => up[k]
    /\ \A k \in Conns : k # channel[c] => UNCHANGED <<toClient[k], toServer[k]>>

\* What must be shown of such a step: the rest of the invariant follows.
LEMMA ClientMoves ==
    ASSUME Types, StepInv, NEW c \in Clients, Moves(c), ClientInv(c)',
           \A k \in Conns : k = channel[c] /\ Unanswered(k) => Pristine(k)',
           channel[c] = serverChannel => AnswerInv'
    PROVE  StepInv'
<1>1. ClientsInv'
  <2>1. ASSUME NEW d \in Clients, d # c
        PROVE  ClientInv(d)'
    <3>1. channel[d] # 0 => channel[d] \in Conns /\ channel[d] # channel[c]
      BY <2>1, Shapes, OneOwner DEF StepInv
    <3>2. Same(d)
      BY <2>1 DEF Moves
    <3>3. /\ UNCHANGED <<serverChannel, serverAt, request>>
          /\ channel[d] # 0 => UNCHANGED <<owner[channel[d]], toClient[channel[d]], toServer[channel[d]]>>
          /\ channel[d] # 0 /\ up'[channel[d]] => up[channel[d]]
      BY <3>1, <3>2 DEF Moves, Same
    <3>4. ClientInv(d)
      BY DEF StepInv, ClientsInv
    <3>. QED
      BY <3>2, <3>3, <3>4, SameClient
  <2>. QED
    BY <2>1 DEF ClientsInv
<1>2. AnswerInv'
  BY Shapes DEF StepInv, AnswerInv, Moves
<1>3. PristineInv'
  <2>0. \A k \in Conns : Unanswered(k)' = Unanswered(k)
    BY DEF Unanswered, Waiting, Moves
  <2>. SUFFICES ASSUME NEW k \in Conns, Unanswered(k), k # channel[c]
                PROVE  Pristine(k)'
    BY <2>0 DEF PristineInv
  <2>1. Pristine(k) /\ UNCHANGED <<toClient[k], toServer[k]>> /\ (up'[k] => up[k])
    BY DEF StepInv, PristineInv, Moves
  <2>2. ASSUME NEW d \in Clients, channel'[d] = k
        PROVE  Same(d) /\ channel[d] = k
    BY <2>2, Shapes DEF Moves, Same
  <2>. QED
    BY <2>1, <2>2 DEF Pristine, InSession, Same
<1>. QED
  BY <1>1, <1>2, <1>3 DEF StepInv

\* A client in a session, or one that was sent something, was answered.
LEMMA SessionMoves ==
    ASSUME Types, StepInv, NEW c \in Clients, Moves(c), ClientInv(c)',
           InSession(c) \/ toClient[channel[c]] # <<>>,
           channel[c] = serverChannel => AnswerInv'
    PROVE  StepInv'
  BY ClientMoves DEF StepInv, PristineInv, Pristine

\* A client that leaves its connection, dead or closed by it, takes what it was
\* doing along.
LEMMA Leaves ==
    ASSUME Types, StepInv, NEW c \in Clients, Moves(c), UNCHANGED toServer, ~isConnected'[c],
           \A k \in Conns : k = channel[c] => ~up'[k] /\ toClient'[k] \in {toClient[k], <<>>},
           \/ UNCHANGED <<channel[c], clientAt[c], mode[c], serving[c], currentCommand[c]>>
           \/ /\ clientAt'[c] = "idle"
              /\ currentCommand'[c] \in {currentCommand[c], "None"}
              /\ mode'[c] # "NonBlocking" => currentCommand'[c] = "None"
    PROVE  StepInv'
<1>a. clientAt[c] # "idle" \/ isConnected[c] => channel[c] \in Conns
  BY Shapes
<1>b. ClientInv(c)
  BY DEF StepInv, ClientsInv
<1>c. channel'[c] \in {0, channel[c]} /\ UNCHANGED <<owner, serverChannel, serverAt, request>>
  BY DEF Moves
<1>1. ModeInv(c)'
  BY <1>a, <1>b, <1>c, Shapes DEF ClientInv, ModeInv
<1>2. QueueInv(c)'
  <2>1. CASE clientAt'[c] = "idle"
    BY <2>1 DEF QueueInv, InSession
  <2>2. CASE /\ UNCHANGED <<channel[c], clientAt[c]>> /\ clientAt[c] # "idle"
    <3>1. channel[c] \in Conns /\ toClient'[channel[c]] \in {toClient[channel[c]], <<>>}
      BY <1>a, <2>2
    <3>2. DOMAIN <<>> = {}
      OBVIOUS
    <3>3. QueueInv(c)
      BY <1>b DEF ClientInv
    <3>. QED
      BY <2>2, <3>1, <3>2, <3>3 DEF QueueInv, InSession
  <2>. QED
    BY <2>1, <2>2
<1>3. SessionInv(c)'
  BY <1>c, Shapes DEF SessionInv
<1>4. ASSUME NEW k \in Conns, k = channel[c], Unanswered(k)
      PROVE  Pristine(k)'
  <2>1. Pristine(k) /\ ~up'[k] /\ toClient'[k] = <<>> /\ UNCHANGED toServer
    BY <1>4 DEF StepInv, PristineInv, Pristine
  <2>2. ~InSession(c)' /\ currentCommand'[c] = "None"
    BY <1>4, <2>1 DEF Pristine, InSession
  <2>3. ASSUME NEW d \in Clients, channel'[d] = k, d # c
        PROVE  ~InSession(d)' /\ currentCommand'[d] = "None"
    BY <2>1, <2>3 DEF Moves, Same, Pristine, InSession
  <2>. QED
    BY <2>1, <2>2, <2>3 DEF Pristine
<1>5. AnswerInv'
  BY <1>c DEF StepInv, AnswerInv
<1>. QED
  BY <1>1, <1>2, <1>3, <1>4, <1>5, ClientMoves DEF ClientInv

\* The ways a client leaves: Connect is refused or fails, Disconnect, the end of
\* its process, and a read that fails.
LEMMA StepRefused ==
    ASSUME Types, StepInv, NEW c \in Clients, ConnectRefused(c)
    PROVE  StepInv'
<1>. USE Shapes DEF ConnectRefused, Reset, Unread, UpWithoutOld, serverVars
<1>1. Moves(c)
  BY DEF Moves, Same
<1>. QED
  BY <1>1, Leaves

\* The connection was dropped before the answer came.
LEMMA StepConnectFails ==
    ASSUME Types, StepInv, NEW c \in Clients, ConnectFails(c)
    PROVE  StepInv'
<1>. USE Shapes DEF ConnectFails, CanFailOn, serverVars, netVars
<1>1. Moves(c)
  BY DEF Moves, Same
<1>2. ModeInv(c)
  BY DEF StepInv, ClientsInv, ClientInv
<1>. QED
  BY <1>1, <1>2, Leaves DEF ModeInv

\* Disconnect, in the middle of any call.
LEMMA StepDisconnect ==
    ASSUME Types, StepInv, NEW c \in Clients, Disconnect(c)
    PROVE  StepInv'
<1>. USE Shapes DEF Disconnect, UpWithoutOld, serverVars
<1>1. Moves(c)
  BY DEF Moves, Same
<1>. QED
  BY <1>1, Leaves

\* The end of the process.
LEMMA StepCrash ==
    ASSUME Types, StepInv, NEW c \in Clients, Crash(c)
    PROVE  StepInv'
<1>. USE Shapes DEF Crash, Reset, Unread, UpWithoutOld, serverVars
<1>1. Moves(c)
  BY DEF Moves, Same
<1>. QED
  BY <1>1, Leaves

\* A read that finds the connection gone.
LEMMA StepReadFails ==
    ASSUME Types, StepInv, NEW c \in Clients, RunFails(c) \/ PollFails(c)
    PROVE  StepInv'
<1>. USE Shapes DEF RunFails, PollFails, PollReturns, UpWithoutOld, serverVars
<1>1. Moves(c)
  BY DEF Moves, Same
<1>2. ModeInv(c)
  BY DEF StepInv, ClientsInv, ClientInv
<1>. QED
  BY <1>1, <1>2, Leaves DEF ModeInv

\* The network breaks a connection, or a client stores a command.
LEMMA StepQuiet ==
    ASSUME Types, StepInv,
           \/ \E k \in Conns : BreakConnection(k)
           \/ \E c \in Clients : CheckCommand(c) \/ StoreCommand(c)
           \/ UNCHANGED vars
    PROVE  StepInv'
<1>. USE DEF serverVars, netVars, clientVars, vars
<1>1. /\ \A d \in Clients : Same(d)
      /\ UNCHANGED <<serverChannel, serverAt, request, backlog, owner, toClient, toServer>>
      /\ \A k \in Conns : up'[k] => up[k]
  BY Shapes DEF BreakConnection, CheckCommand, StoreCommand, Same
<1>2. \A k \in Conns : Unanswered(k)' = Unanswered(k)
  BY <1>1 DEF Unanswered, Waiting
<1>3. PristineInv'
  BY <1>1, <1>2 DEF StepInv, PristineInv, Pristine, InSession, Same
<1>4. AnswerInv'
  BY <1>1 DEF StepInv, AnswerInv
<1>5. ASSUME NEW d \in Clients
      PROVE  ClientInv(d)'
  <2>1. ClientInv(d) /\ Same(d)
    BY <1>1 DEF StepInv, ClientsInv
  <2>2. channel[d] # 0 /\ up'[channel[d]] => up[channel[d]]
    BY <1>1, Shapes
  <2>. QED
    BY <1>1, <2>1, <2>2, SameClient DEF Same
<1>. QED
  BY <1>3, <1>4, <1>5 DEF StepInv, ClientsInv

\* A client starts to run or to poll, or its poll times out: its request stays
\* where it is.
LEMMA StepCalls ==
    ASSUME Types, LinkInv, StepInv, NEW c \in Clients,
           RunCallbackBased(c) \/ PollTimeout(c) \/ \E t \in PollTimeouts : PollCommand(c, t)
    PROVE  StepInv'
<1>. USE Shapes DEF serverVars, netVars
<1>1. ModeInv(c) /\ QueueInv(c)
  BY DEF StepInv, ClientsInv, ClientInv
<1>2. /\ Moves(c) /\ UNCHANGED <<toServer, toClient, up, isConnected, channel>>
      /\ InSession(c) /\ clientAt'[c] \in {"run", "poll", "idle"}
      /\ Taken(c) = "None" /\ Taken(c)' = "None"
  BY <1>1 DEF RunCallbackBased, PollTimeout, PollCommand, PollReturns, Moves, Same, InSession,
     ModeInv, Taken
<1>3. ModeInv(c)'
  BY <1>1, <1>2 DEF RunCallbackBased, PollTimeout, PollCommand, PollReturns, ModeInv
<1>4. QueueInv(c)'
  BY <1>1, <1>2 DEF QueueInv
<1>5. SessionInv(c)'
  <2>. SUFFICES ASSUME up[channel[c]], serverChannel = channel[c]
                PROVE  SessionInv(c)'
    BY <1>2 DEF SessionInv, Moves
  <2>1. NoRequest(c, channel[c]) \/ Sent(c, channel[c]) \/ IsTaken(c, channel[c]) \/ Answered(c, channel[c])
    BY <1>2, Alive
  <2>. QED
    BY <1>2, <2>1 DEF SessionInv, Moves, NoRequest, Sent, IsTaken, Answered
<1>6. AnswerInv'
  BY <1>2 DEF StepInv, AnswerInv, Moves
<1>. QED
  BY <1>2, <1>3, <1>4, <1>5, <1>6, SessionMoves DEF ClientInv

\* Reading the only frame leaves nothing.
LEMMA TailOfOne ==
    ASSUME NEW S, NEW q \in Seq(S), Len(q) = 1
    PROVE  Tail(q) = <<>>
<1>. DEFINE rest == Tail(q)
<1>1. rest \in Seq(S) /\ Len(rest) = 0
  OBVIOUS
<1>. HIDE DEF rest
<1>2. rest = <<>>
  BY <1>1
<1>. QED
  BY <1>2 DEF rest

\* What reading a frame leaves in the queue.
LEMMA Popped ==
    ASSUME Types, NEW c \in Clients, channel[c] \in Conns, toClient[channel[c]] # <<>>, Pop(c)
    PROVE  LET q == toClient[channel[c]] IN
           /\ toClient'[channel[c]] = Tail(q)
           /\ \A k \in Conns : k # channel[c] => toClient'[k] = toClient[k]
           /\ 1 \in DOMAIN q /\ Received(c) = q[1].kind
           /\ \A i \in DOMAIN Tail(q) : i + 1 \in DOMAIN q /\ i + 1 # 1 /\ Tail(q)[i] = q[i + 1]
           /\ Len(Tail(q)) = Len(q) - 1
           /\ Len(q) = 1 => Tail(q) = <<>>
           /\ Len(q) = 2 => Tail(q)[1] = q[2]
<1>. DEFINE q == toClient[channel[c]]
<1>1. /\ toClient \in FrameQueues /\ q \in Seq(Frames) /\ q # <<>>
  BY Shapes DEF FrameQueues
<1>2. toClient'[channel[c]] = Tail(q) /\ \A k \in Conns : k # channel[c] => toClient'[k] = toClient[k]
  BY <1>1 DEF Pop, FrameQueues
<1>3. Received(c) = q[1].kind
  BY <1>1 DEF Received
<1>. HIDE DEF q
<1>4. /\ 1 \in DOMAIN q
      /\ \A i \in DOMAIN Tail(q) : i + 1 \in DOMAIN q /\ i + 1 # 1 /\ Tail(q)[i] = q[i + 1]
      /\ Len(Tail(q)) = Len(q) - 1
      /\ Len(q) = 2 => Tail(q)[1] = q[2]
  BY <1>1
<1>5. Len(q) = 1 => Tail(q) = <<>>
  BY <1>1, TailOfOne
<1>. QED
  BY <1>2, <1>3, <1>4, <1>5 DEF q

\* A request goes over from the queue to the client.
LEMMA StepTakes ==
    ASSUME Types, LinkInv, StepInv, NEW c \in Clients, RunReceive(c) \/ PollReceive(c)
    PROVE  StepInv'
<1>. USE DEF serverVars
<1>a. ModeInv(c) /\ QueueInv(c)
  BY DEF StepInv, ClientsInv, ClientInv
<1>. DEFINE k == channel[c]
            q == toClient[k]
<1>1. /\ clientAt[c] \in {"run", "poll"} /\ InSession(c) /\ k \in Conns
      /\ q # <<>> /\ Received(c) \in Requests /\ Pop(c)
      /\ UNCHANGED <<serverChannel, serverAt, request, backlog, owner, up, toServer, channel, isConnected, mode>>
  BY Shapes DEF RunReceive, PollReceive, InSession
<1>2. /\ Taken(c) = "None" /\ Taken(c)' = Received(c) /\ clientAt'[c] \in {"callback", "idle"}
      /\ clientAt'[c] = "callback" => serving'[c] \in Requests
      /\ up[k] => isConnected[c]
      /\ currentCommand'[c] = currentCommand[c] \/ mode[c] = "NonBlocking"
      /\ \A d \in Clients \ {c} : Same(d)
  BY <1>1, <1>a, Shapes DEF RunReceive, PollReceive, PollReturns, Taken, ModeInv, Same
<1>3. /\ toClient'[k] = Tail(q)
      /\ \A j \in Conns : j # k => toClient'[j] = toClient[j]
      /\ 1 \in DOMAIN q /\ Received(c) = q[1].kind
      /\ \A i \in DOMAIN Tail(q) : i + 1 \in DOMAIN q /\ Tail(q)[i] = q[i + 1]
      /\ Len(q) = 1 => Tail(q) = <<>>
  BY <1>1, Popped
<1>4. Moves(c)
  BY <1>1, <1>2, <1>3 DEF Moves
<1>5. ModeInv(c)'
  BY <1>1, <1>2, <1>a DEF ModeInv
<1>6. QueueInv(c)'
  BY <1>1, <1>2, <1>3, <1>a DEF QueueInv
<1>7. SessionInv(c)'
  <2>. SUFFICES ASSUME up[k], serverChannel = k
                PROVE  SessionInv(c)'
    BY <1>1 DEF SessionInv
  <2>1. Sent(c, k)
    BY <1>1, <1>2, <1>3, Alive, Shapes DEF NoRequest, IsTaken, Answered
  <2>2. toClient'[k] = <<>> /\ Received(c) = request
    BY <1>3, <2>1 DEF Sent
  <2>. QED
    BY <1>1, <1>2, <2>1, <2>2 DEF SessionInv, Sent, IsTaken
<1>8. AnswerInv'
  BY <1>1 DEF StepInv, AnswerInv
<1>. QED
  BY <1>1, <1>4, <1>5, <1>6, <1>7, <1>8, SessionMoves DEF ClientInv

\* Connect returns: the request that may be behind the connect-ok frame stays.
LEMMA StepConnectOk ==
    ASSUME Types, LinkInv, StepInv, NEW c \in Clients, ConnectOk(c)
    PROVE  StepInv'
<1>. USE DEF serverVars
<1>a. ModeInv(c) /\ QueueInv(c) /\ SessionInv(c)
  BY DEF StepInv, ClientsInv, ClientInv
<1>. DEFINE k == channel[c]
            q == toClient[k]
<1>1. /\ clientAt[c] = "hello" /\ k \in Conns /\ q # <<>> /\ Pop(c) /\ clientAt'[c] = "idle"
      /\ UNCHANGED <<serverChannel, serverAt, request, backlog, owner, up, toServer, channel, mode,
                     serving, currentCommand>>
      /\ currentCommand[c] = "None" /\ \A d \in Clients \ {c} : UNCHANGED <<clientAt[d], isConnected[d]>>
  BY <1>a, Shapes DEF ConnectOk, ModeInv
<1>3. /\ toClient'[k] = Tail(q)
      /\ \A j \in Conns : j # k => toClient'[j] = toClient[j]
      /\ 1 \in DOMAIN q /\ Received(c) = q[1].kind
      /\ \A i \in DOMAIN Tail(q) : i + 1 \in DOMAIN q /\ i + 1 # 1 /\ Tail(q)[i] = q[i + 1]
      /\ Len(Tail(q)) = Len(q) - 1
      /\ Len(q) = 1 => Tail(q) = <<>>
      /\ Len(q) = 2 => Tail(q)[1] = q[2]
  BY <1>1, Popped
<1>4. Moves(c)
  BY <1>1, <1>3 DEF Moves, Same
<1>5. ModeInv(c)'
  BY <1>1, <1>a DEF ModeInv
<1>6. QueueInv(c)'
  BY <1>1, <1>3, <1>a DEF QueueInv
<1>7. SessionInv(c)'
  <2>. SUFFICES ASSUME up[k], serverChannel = k, serverAt # "hello"
                PROVE  SessionInv(c)'
    BY <1>1 DEF SessionInv
  <2>1. InHandshake(c, k) /\ Taken(c)' = "None"
    BY <1>1, <1>a, Shapes DEF SessionInv, Taken
  <2>2. CASE serverAt = "wait"
    <3>1. Len(toClient'[k]) = 1 /\ toClient'[k][1].kind = request
      BY <1>3, <2>1, <2>2 DEF InHandshake
    <3>. QED
      BY <1>1, <2>1, <2>2, <3>1 DEF SessionInv, InHandshake, Sent
  <2>3. CASE serverAt # "wait"
    <3>1. toClient'[k] = <<>>
      BY <1>3, <2>1, <2>3 DEF InHandshake
    <3>. QED
      BY <1>1, <2>1, <2>3, <3>1 DEF SessionInv, NoRequest
  <2>. QED
    BY <2>2, <2>3
<1>8. AnswerInv'
  BY <1>1 DEF StepInv, AnswerInv
<1>. QED
  BY <1>1, <1>4, <1>5, <1>6, <1>7, <1>8, SessionMoves DEF ClientInv

\* An answer goes out: on a live connection it is the one the server waits for.
LEMMA AnswerGoes ==
    ASSUME Types, LinkInv, StepInv, NEW c \in Clients, NEW r \in Requests, InSession(c), Moves(c),
           channel[c] \in Conns, UNCHANGED <<channel, mode, isConnected, up>>,
           toServer' = Deliver(toServer, channel[c], Reply(c, r)),
           up[channel[c]] => /\ serverAt = "wait" /\ request = r
                             /\ toServer[channel[c]] = <<>> /\ toClient'[channel[c]] = <<>>,
           \A i \in DOMAIN toClient'[channel[c]] : toClient'[channel[c]][i].kind \in Requests,
           clientAt'[c] \in {"run", "poll", "idle"}, Taken(c)' = "None",
           up[channel[c]] => isConnected[c],
           clientAt'[c] = "poll" => mode[c] = "NonBlocking",
           mode[c] # "NonBlocking" => currentCommand'[c] = "None"
    PROVE  StepInv'
<1>. DEFINE k == channel[c]
<1>1. /\ ModeInv(c) /\ QueueInv(c)
      /\ UNCHANGED <<serverChannel, serverAt, request, backlog, owner>>
  BY DEF StepInv, ClientsInv, ClientInv, Moves
<1>2. /\ ~up[k] => toServer' = toServer
      /\ up[k] => Len(toServer'[k]) = 1 /\ toServer'[k][1] = Reply(c, r)
  <2>1. \A frame : Len(Append(<<>>, frame)) = 1 /\ Append(<<>>, frame)[1] = frame
    OBVIOUS
  <2>2. toServer' = IF up[k] THEN [toServer EXCEPT ![k] = Append(@, Reply(c, r))] ELSE toServer
    BY DEF Deliver
  <2>3. up[k] => toServer'[k] = Append(<<>>, Reply(c, r))
    BY <2>2, Shapes DEF FrameQueues
  <2>. QED
    BY <2>1, <2>2, <2>3
<1>3. Reply(c, r).kind = ReplyKind(r)
  BY DEF Reply, Frame
<1>4. ModeInv(c)'
  BY <1>1 DEF ModeInv
<1>5. QueueInv(c)'
  BY <1>1 DEF QueueInv
<1>6. SessionInv(c)'
  BY <1>1, <1>2 DEF SessionInv, Answered
<1>7. ASSUME k = serverChannel
      PROVE  AnswerInv'
  <2>1. CASE ~up[k]
    BY <1>1, <1>2, <2>1 DEF StepInv, AnswerInv
  <2>2. CASE up[k]
    BY <1>1, <1>2, <1>3, <1>7, <2>2 DEF AnswerInv
  <2>. QED
    BY <2>1, <2>2
<1>. QED
  BY <1>4, <1>5, <1>6, <1>7, SessionMoves DEF ClientInv

\* The answer cannot be sent, and the client leaves its session.
LEMMA AnswerFails ==
    ASSUME Types, StepInv, NEW c \in Clients, InSession(c), Moves(c), channel[c] \in Conns,
           UNCHANGED <<channel, mode, up, toServer>>, ~up[channel[c]],
           ~isConnected'[c], clientAt'[c] = "idle",
           mode[c] # "NonBlocking" => currentCommand'[c] = "None"
    PROVE  StepInv'
<1>1. ModeInv(c) /\ UNCHANGED <<serverChannel, serverAt, request, backlog, owner>>
  BY DEF StepInv, ClientsInv, ClientInv, Moves
<1>2. ClientInv(c)'
  BY <1>1 DEF ClientInv, ModeInv, QueueInv, SessionInv, InSession
<1>3. AnswerInv'
  BY <1>1 DEF StepInv, AnswerInv
<1>. QED
  BY <1>2, <1>3, SessionMoves

\* A ping is read and answered in one step.
LEMMA StepPing ==
    ASSUME Types, LinkInv, StepInv, NEW c \in Clients, RunPing(c) \/ PollPing(c)
    PROVE  StepInv'
<1>. USE DEF serverVars
<1>a. ModeInv(c) /\ QueueInv(c)
  BY DEF StepInv, ClientsInv, ClientInv
<1>. DEFINE k == channel[c]
            q == toClient[k]
<1>1. /\ clientAt[c] \in {"run", "poll"} /\ InSession(c) /\ k \in Conns
      /\ q # <<>> /\ Received(c) = "Ping" /\ Pop(c)
      /\ SendReply(c, "Ping") \/ FailReply(c, "Ping")
      /\ UNCHANGED <<serverChannel, serverAt, request, backlog, owner, channel, mode, serving>>
  BY Shapes DEF RunPing, PollPing, InSession
<1>2. /\ UNCHANGED up
      /\ \A d \in Clients \ {c} : Same(d)
      /\ \A j \in Conns : j # k => toServer'[j] = toServer[j]
  BY <1>1, Shapes, DeliverElsewhere DEF RunPing, PollPing, PollReturns, SendReply, FailReply, Same
<1>3. /\ toClient'[k] = Tail(q)
      /\ \A j \in Conns : j # k => toClient'[j] = toClient[j]
      /\ 1 \in DOMAIN q /\ Received(c) = q[1].kind
      /\ \A i \in DOMAIN Tail(q) : i + 1 \in DOMAIN q /\ Tail(q)[i] = q[i + 1]
      /\ Len(q) = 1 => Tail(q) = <<>>
  BY <1>1, Popped
<1>4. Moves(c)
  BY <1>1, <1>2, <1>3 DEF Moves
<1>5. CASE SendReply(c, "Ping") /\ UNCHANGED clientAt
  <2>1. ASSUME up[k]
        PROVE  /\ isConnected[c] /\ serverAt = "wait" /\ request = "Ping"
               /\ toServer[k] = <<>> /\ toClient'[k] = <<>>
    <3>1. isConnected[c] /\ Sent(c, k)
      BY <1>1, <2>1, Alive DEF NoRequest, IsTaken, Answered
    <3>. QED
      BY <1>1, <1>3, <3>1 DEF Sent
  <2>2. currentCommand'[c] = currentCommand[c] \/ clientAt[c] = "poll"
    BY <1>1, <1>5, Shapes DEF RunPing, PollPing
  <2>3. /\ clientAt'[c] = clientAt[c] /\ Taken(c)' = "None"
        /\ UNCHANGED <<isConnected, up>> /\ toServer' = Deliver(toServer, k, Reply(c, "Ping"))
    BY <1>1, <1>5 DEF SendReply, Taken
  <2>4. \A i \in DOMAIN toClient'[k] : toClient'[k][i].kind \in Requests
    BY <1>1, <1>3, <1>a DEF QueueInv
  <2>5. /\ "Ping" \in Requests
        /\ clientAt'[c] = "poll" => mode[c] = "NonBlocking"
        /\ mode[c] # "NonBlocking" => currentCommand'[c] = "None"
    BY <1>a, <1>1, <2>2, <2>3 DEF ModeInv, Requests
  <2>. QED
    BY <1>1, <1>4, <2>1, <2>3, <2>4, <2>5, AnswerGoes
<1>6. CASE FailReply(c, "Ping") /\ clientAt'[c] = "idle"
  <2>1. /\ UNCHANGED <<up, toServer>> /\ ~up[k] /\ ~isConnected'[c]
        /\ currentCommand'[c] = currentCommand[c] \/ clientAt[c] = "poll"
    BY <1>1, <1>6, Shapes DEF RunPing, PollPing, FailReply, CanFailOn
  <2>. QED
    BY <1>1, <1>4, <1>6, <1>a, <2>1, AnswerFails DEF ModeInv
<1>. QED
  BY <1>5, <1>6, Shapes DEF RunPing, PollPing, PollReturns

\* What a client took it answers: by the end of its callback or FinishCommand.
LEMMA StepFinishes ==
    ASSUME Types, LinkInv, StepInv, NEW c \in Clients, RunFinish(c) \/ FinishCommand(c)
    PROVE  StepInv'
<1>. USE DEF serverVars
<1>a. ModeInv(c) /\ QueueInv(c)
  BY DEF StepInv, ClientsInv, ClientInv
<1>. DEFINE k == channel[c]
            r == Taken(c)
<1>. DEFINE Ends ==
              /\ InSession(c) /\ k \in Conns /\ r # "None" /\ r \in Requests
              /\ \/ SendReply(c, r) /\ Taken(c)' = "None" /\ isConnected[c]
                 \/ FailReply(c, r) /\ clientAt'[c] = "idle"
                 \/ /\ clientAt[c] = "callback" /\ clientAt'[c] = "idle" /\ ~isConnected[c]
                    /\ UNCHANGED <<isConnected, nextCommand, toServer, up>>
              /\ clientAt'[c] \in {"run", "idle"}
              /\ UNCHANGED <<serverChannel, serverAt, request, backlog, owner, channel, mode, toClient>>
              /\ currentCommand'[c] \in {currentCommand[c], "None"}
<1>1. Ends
  <2>1. ASSUME RunFinish(c)
        PROVE  Ends
    BY <1>a, <2>1, Shapes DEF RunFinish, InSession, Taken, ModeInv, Requests
  <2>2. ASSUME FinishCommand(c)
        PROVE  Ends
    BY <1>a, <2>2, Shapes DEF FinishCommand, InSession, Taken, NoCurrentCommand, Requested
  <2>. QED
    BY <2>1, <2>2
<1>2. /\ UNCHANGED up
      /\ \A d \in Clients \ {c} : Same(d)
      /\ \A j \in Conns : j # k => toServer'[j] = toServer[j]
  BY <1>1, Shapes, DeliverElsewhere
     DEF RunFinish, FinishCommand, NoCurrentCommand, SendReply, FailReply, Same
<1>3. Moves(c)
  BY <1>1, <1>2 DEF Moves
<1>4. CASE SendReply(c, r) /\ Taken(c)' = "None" /\ isConnected[c]
  <2>1. ASSUME up[k]
        PROVE  serverAt = "wait" /\ request = r /\ toServer[k] = <<>> /\ toClient'[k] = <<>>
    <3>1. IsTaken(c, k)
      BY <1>1, <2>1, Alive DEF NoRequest, Sent, Answered
    <3>. QED
      BY <1>1, <3>1 DEF IsTaken
  <2>2. \A i \in DOMAIN toClient'[k] : toClient'[k][i].kind \in Requests
    BY <1>1, <1>a DEF QueueInv
  <2>. QED
    BY <1>1, <1>3, <1>4, <1>a, <2>1, <2>2, AnswerGoes DEF SendReply, ModeInv
<1>5. CASE ~SendReply(c, r) \/ Taken(c)' # "None" \/ ~isConnected[c]
  <2>1. /\ UNCHANGED toServer /\ ~up[k] /\ ~isConnected'[c] /\ clientAt'[c] = "idle"
    BY <1>1, <1>5, <1>a, Shapes DEF FailReply, CanFailOn, ModeInv
  <2>. QED
    BY <1>1, <1>2, <1>3, <1>a, <2>1, AnswerFails DEF ModeInv
<1>. QED
  BY <1>4, <1>5

\* A new connection carries the connect frame and nothing else.
LEMMA StepConnect ==
    ASSUME Types, LinkInv, StepInv, NEW c \in Clients, Connect(c),
           NEW k \in Conns, k = connections + 1
    PROVE  StepInv'
<1>1. /\ ~isConnected[c] /\ ~isConnected'[c]
      /\ UNCHANGED <<serverChannel, serverAt, request>>
      /\ backlog' = Append(backlog, k)
      /\ owner' = [owner EXCEPT ![k] = c]
      /\ channel'[c] = k /\ clientAt'[c] = "hello" /\ mode'[c] = "Unknown" /\ currentCommand'[c] = "None"
      /\ \A d \in Clients \ {c} : Same(d)
      /\ toServer' = [toServer EXCEPT ![k] = <<ConnectFrame(c)>>] /\ toClient' = Unread(c)
      /\ up' = [UpWithoutOld(c) EXCEPT ![k] = TRUE]
  BY Shapes DEF Connect, Reset, Same, serverVars
<1>2. /\ toClient[k] = <<>> /\ k # serverChannel /\ k # 0
      /\ \A d \in Clients : channel[d] # k
      /\ \A i \in DOMAIN backlog : backlog[i] # k
  <2>1. ~Made(k) /\ k # 0
    BY Shapes DEF Types, TypeOK, NetTypes, Made
  <2>. QED
    BY <2>1 DEF LinkInv, MadeInv
<1>3. /\ toClient'[k] = <<>>
      /\ Len(toServer'[k]) = 1 /\ toServer'[k][1].kind = "Connect"
      /\ \A j \in Conns : j # k => toServer'[j] = toServer[j]
      /\ \A j \in Conns : j # channel[c] => toClient'[j] = toClient[j]
      /\ \A j \in Conns : toClient[j] = <<>> => toClient'[j] = <<>>
      /\ \A j \in Conns : j # k /\ up'[j] => up[j]
      /\ \A j \in Conns : j # k => owner'[j] = owner[j]
  <2>1. ConnectFrame(c).kind = "Connect"
    BY DEF ConnectFrame, Frame
  <2>2. toServer'[k] = <<ConnectFrame(c)>> /\ \A j \in Conns : j # k => toServer'[j] = toServer[j]
    BY <1>1, Shapes DEF FrameQueues
  <2>3. Len(toServer'[k]) = 1 /\ toServer'[k][1].kind = "Connect"
    BY <2>1, <2>2
  <2>. QED
    BY <1>1, <1>2, <2>2, <2>3, Shapes DEF Unread, UpWithoutOld
<1>4. \A j \in Conns : Unanswered(j)' => j = k \/ Unanswered(j)
  <2>1. /\ DOMAIN backlog' = DOMAIN backlog \cup {Len(backlog) + 1}
        /\ \A i \in DOMAIN backlog : backlog'[i] = backlog[i]
        /\ backlog'[Len(backlog) + 1] = k
    BY <1>1, Shapes
  <2>. QED
    BY <1>1, <2>1 DEF Unanswered, Waiting
<1>5. PristineInv'
  <2>1. Pristine(k)'
    <3>1. \A d \in Clients : channel'[d] = k => d = c
      BY <1>1, <1>2 DEF Same
    <3>. QED
      BY <1>1, <1>3, <3>1 DEF Pristine, InSession
  <2>2. ASSUME NEW j \in Conns, j # k, Unanswered(j)
        PROVE  Pristine(j)'
    <3>1. Pristine(j)
      BY <2>2 DEF StepInv, PristineInv
    <3>2. ASSUME NEW d \in Clients, channel'[d] = j
          PROVE  Same(d)
      BY <1>1, <2>2, <3>2
    <3>. QED
      BY <1>3, <2>2, <3>1, <3>2 DEF Pristine, InSession, Same
  <2>. QED
    BY <1>4, <2>1, <2>2 DEF PristineInv
<1>6. AnswerInv'
  BY <1>1, <1>2, <1>3, Shapes DEF StepInv, AnswerInv
<1>7. ASSUME NEW d \in Clients, d # c
      PROVE  ClientInv(d)'
  <2>1. ClientInv(d) /\ Same(d)
    BY <1>1, <1>7 DEF StepInv, ClientsInv
  <2>2. channel[d] # 0 => channel[d] \in Conns /\ channel[d] # channel[c] /\ channel[d] # k
    BY <1>2, <1>7, Shapes, OneOwner DEF StepInv
  <2>3. channel[d] # 0 => UNCHANGED <<owner[channel[d]], toClient[channel[d]], toServer[channel[d]]>>
    BY <1>3, <2>1, <2>2 DEF Same
  <2>4. channel[d] # 0 /\ up'[channel[d]] => up[channel[d]]
    BY <1>3, <2>2
  <2>5. UNCHANGED <<serverChannel, serverAt, request>>
    BY <1>1
  <2>. QED
    BY <2>1, <2>3, <2>4, <2>5, SameClient
<1>8. ClientInv(c)'
  <2>1. ModeInv(c)'
    BY <1>1, <1>2, Shapes DEF ModeInv
  <2>2. QueueInv(c)'
    <3>1. DOMAIN (toClient'[k]) = {}
      BY <1>3
    <3>. QED
      BY <1>1, <3>1 DEF QueueInv
  <2>3. SessionInv(c)'
    BY <1>1, <1>2 DEF SessionInv
  <2>. QED
    BY <2>1, <2>2, <2>3 DEF ClientInv
<1>. QED
  BY <1>5, <1>6, <1>7, <1>8 DEF StepInv, ClientsInv

-----------------------------------------------------------------------------
(* What the server does.                                                   *)

\* A step of the server keeps what its clients do.
LEMMA ServerKeeps ==
    ASSUME Types, StepInv, UNCHANGED <<clientVars, owner>>,
           \A k \in Conns : up'[k] => up[k]
    PROVE  /\ \A c \in Clients : Same(c) /\ ModeInv(c)'
           /\ \A c \in Clients : channel[c] = 0 \/ UNCHANGED toClient => QueueInv(c)'
<1>. USE DEF clientVars
<1>1. \A c \in Clients : Same(c) /\ ModeInv(c) /\ QueueInv(c)
  BY DEF StepInv, ClientsInv, ClientInv, Same
<1>2. ASSUME NEW c \in Clients
      PROVE  ModeInv(c)'
  BY <1>1, Shapes DEF ModeInv, Same
<1>3. ASSUME NEW c \in Clients, channel[c] = 0 \/ UNCHANGED toClient
      PROVE  QueueInv(c)'
  BY <1>1, <1>3, Shapes DEF QueueInv, InSession
<1>. QED
  BY <1>1, <1>2, <1>3

\* The server has no client afterwards.
LEMMA StepAlone ==
    ASSUME Types, LinkInv, StepInv, UNCHANGED <<clientVars, owner, toClient>>,
           serverChannel' = 0, backlog' \in {<<>>, backlog},
           \A k \in Conns : up'[k] => up[k],
           \A k \in Conns : k # serverChannel /\ backlog' = backlog => toServer'[k] = toServer[k]
    PROVE  StepInv'
<1>1. ClientsInv'
  BY ServerKeeps DEF ClientsInv, ClientInv, SessionInv
<1>2. AnswerInv'
  BY DEF AnswerInv
<1>3. PristineInv'
  <2>. SUFFICES ASSUME NEW k \in Conns, Unanswered(k)'
                PROVE  Pristine(k)'
    BY DEF PristineInv
  <2>1. backlog' = backlog /\ Waiting(k)
    <3>1. Waiting(k)'
      BY Shapes DEF Unanswered
    <3>2. DOMAIN <<>> = {}
      OBVIOUS
    <3>. QED
      BY <3>1, <3>2 DEF Waiting
  <2>2. Pristine(k) /\ k # serverChannel
    BY <2>1 DEF StepInv, PristineInv, Unanswered, LinkInv, BacklogInv, Waiting
  <2>. QED
    BY <2>1, <2>2 DEF Pristine, InSession, clientVars
<1>. QED
  BY <1>1, <1>2, <1>3 DEF StepInv

\* The server takes the connection that waited longest.
LEMMA StepAccept ==
    ASSUME Types, StepInv, AcceptChannel
    PROVE  StepInv'
<1>. USE DEF clientVars
<1>1. /\ UNCHANGED <<clientVars, owner, up, toServer, toClient>> /\ serverAt' = "hello"
      /\ serverChannel' = backlog[1] /\ 1 \in DOMAIN backlog
      /\ \A i \in DOMAIN backlog' : i + 1 \in DOMAIN backlog /\ backlog'[i] = backlog[i + 1]
  BY Shapes DEF AcceptChannel
<1>2. ClientsInv' /\ AnswerInv'
  BY <1>1, ServerKeeps DEF ClientsInv, ClientInv, SessionInv, AnswerInv
<1>3. \A k \in Conns : Unanswered(k)' => Unanswered(k)
  BY <1>1 DEF Unanswered, Waiting
<1>4. PristineInv'
  BY <1>1, <1>3 DEF StepInv, PristineInv, Pristine, InSession
<1>. QED
  BY <1>2, <1>4 DEF StepInv

\* The server answers a connect frame.
LEMMA StepAnswer ==
    ASSUME Types, LinkInv, StepInv, AnswerConnect, serverAt' = "attach",
           UNCHANGED <<serverChannel, up>>,
           NEW frame, frame.kind = "ConnectOk", toClient' = Deliver(toClient, serverChannel, frame),
           toServer' = [toServer EXCEPT ![serverChannel] = Tail(@)]
    PROVE  StepInv'
<1>. USE DEF clientVars
<1>. DEFINE k == serverChannel
<1>1. /\ UNCHANGED <<clientVars, owner, backlog>> /\ serverAt = "hello" /\ k \in Conns
  BY Shapes DEF AnswerConnect, Types, ServerAttached
<1>2. Pristine(k)
  BY <1>1 DEF StepInv, PristineInv, Unanswered
<1>3. /\ toServer'[k] = <<>>
      /\ up[k] => Len(toClient'[k]) = 1
      /\ \A i \in DOMAIN toClient'[k] : i = 1 /\ toClient'[k][i].kind = "ConnectOk"
  <2>1. \A f : Len(Append(<<>>, f)) = 1 /\ DOMAIN Append(<<>>, f) = {1} /\ Append(<<>>, f)[1] = f
    OBVIOUS
  <2>2. DOMAIN <<>> = {}
    OBVIOUS
  <2>3. toServer'[k] = Tail(toServer[k]) /\ toServer[k] \in Seq(Frames) /\ Len(toServer[k]) = 1
    BY <1>1, <1>2, Shapes DEF FrameQueues, Pristine
  <2>4. toServer'[k] = <<>>
    BY <2>3, TailOfOne
  <2>5. toClient'[k] = IF up[k] THEN Append(<<>>, frame) ELSE <<>>
    BY <1>1, <1>2, Shapes DEF Deliver, FrameQueues, Pristine
  <2>. QED
    BY <2>1, <2>2, <2>4, <2>5
<1>4. \A j \in Conns : j # k => UNCHANGED <<toClient[j], toServer[j]>>
  <2>1. \A j \in Conns : j # k => toClient'[j] = toClient[j]
    BY Shapes, DeliverElsewhere
  <2>2. \A j \in Conns : j # k => toServer'[j] = toServer[j]
    BY Shapes DEF FrameQueues
  <2>. QED
    BY <2>1, <2>2
<1>5. PristineInv'
  <2>1. \A j \in Conns : Unanswered(j)' => Unanswered(j) /\ j # k
    BY <1>1 DEF Unanswered, Waiting, LinkInv, BacklogInv
  <2>. QED
    BY <1>1, <1>4, <2>1 DEF StepInv, PristineInv, Pristine, InSession
<1>6. AnswerInv'
  BY <1>3 DEF AnswerInv
<1>7. ASSUME NEW c \in Clients
      PROVE  ClientInv(c)'
  <2>1. ModeInv(c)' /\ QueueInv(c)
    BY <1>1, ServerKeeps DEF StepInv, ClientsInv, ClientInv
  <2>2. CASE channel[c] # k
    <3>1. QueueInv(c)'
      <4>1. channel[c] \in Conns => toClient'[channel[c]] = toClient[channel[c]]
        BY <1>4, <2>2
      <4>2. UNCHANGED <<channel[c], clientAt[c], isConnected[c]>>
        BY <1>1
      <4>3. clientAt[c] = "hello" \/ InSession(c) => channel[c] \in Conns
        BY Shapes DEF InSession
      <4>. QED
        BY <2>1, <4>1, <4>2, <4>3 DEF QueueInv, InSession
    <3>2. SessionInv(c)'
      BY <1>1, <2>2 DEF SessionInv
    <3>. QED
      BY <2>1, <3>1, <3>2 DEF ClientInv
  <2>3. CASE channel[c] = k
    <3>1. ~InSession(c) /\ (up[k] => clientAt[c] = "hello")
      BY <1>2, <2>3 DEF Pristine
    <3>2. QueueInv(c)'
      BY <1>1, <1>3, <2>3, <3>1 DEF QueueInv, InSession
    <3>3. SessionInv(c)'
      BY <1>1, <1>3, <2>3, <3>1 DEF SessionInv, InHandshake
    <3>. QED
      BY <2>1, <3>2, <3>3 DEF ClientInv
  <2>. QED
    BY <2>2, <2>3
<1>. QED
  BY <1>5, <1>6, <1>7 DEF StepInv, ClientsInv

\* The server sends a request; nobody waits to be accepted then.
LEMMA StepRequest ==
    ASSUME Types, StepInv, NEW r \in Requests, serverChannel # 0, serverAt \in {"attach", "idle"},
           UNCHANGED <<clientVars, owner, serverChannel>>, serverAt' = "wait", request' = r,
           backlog' = <<>>, toClient' = Deliver(toClient, serverChannel, Frame(r)),
           toServer'[serverChannel] = toServer[serverChannel],
           \A k \in Conns : up'[k] => up[k]
    PROVE  StepInv'
<1>. USE DEF clientVars
<1>. DEFINE k == serverChannel
            q == toClient[k]
<1>1. k \in Conns /\ toServer[k] = <<>>
  BY Shapes DEF StepInv, AnswerInv
<1>2. PristineInv'
  <2>1. DOMAIN <<>> = {}
    OBVIOUS
  <2>. QED
    BY <2>1 DEF PristineInv, Unanswered, Waiting
<1>3. AnswerInv'
  BY <1>1 DEF AnswerInv
<1>4. \A j \in Conns : j # k => toClient'[j] = toClient[j]
  BY Shapes, DeliverElsewhere
<1>5. CASE ~up[k]
  <2>1. toClient' = toClient /\ ~up'[k]
    BY <1>1, <1>5 DEF Deliver
  <2>. QED
    BY <1>2, <1>3, <2>1, ServerKeeps DEF StepInv, ClientsInv, ClientInv, SessionInv
<1>6. CASE up[k]
  <2>1. /\ toClient'[k] = Append(q, Frame(r)) /\ q \in Seq(Frames) /\ Frame(r).kind = r
    BY <1>1, <1>6, Shapes DEF Deliver, FrameQueues, Frame
  <2>. HIDE DEF q
  <2>2. /\ DOMAIN toClient'[k] = DOMAIN q \cup {Len(q) + 1}
        /\ \A i \in DOMAIN q : toClient'[k][i] = q[i]
        /\ Len(toClient'[k]) = Len(q) + 1
        /\ toClient'[k][Len(q) + 1].kind = r
    BY <2>1
  <2>3. Len(<<>>) = 0
    OBVIOUS
  <2>4. ASSUME NEW c \in Clients
        PROVE  ClientInv(c)'
    <3>1. ModeInv(c)' /\ QueueInv(c) /\ SessionInv(c)
      BY ServerKeeps DEF StepInv, ClientsInv, ClientInv
    <3>2. CASE channel[c] # k
      <4>1. QueueInv(c)'
        <5>1. channel[c] \in Conns => toClient'[channel[c]] = toClient[channel[c]]
          BY <1>4, <3>2
        <5>2. clientAt[c] = "hello" \/ InSession(c) => channel[c] \in Conns
          BY Shapes DEF InSession
        <5>. QED
          BY <3>1, <5>1, <5>2 DEF QueueInv, InSession
      <4>2. SessionInv(c)'
        BY <3>2 DEF SessionInv
      <4>. QED
        BY <3>1, <4>1, <4>2 DEF ClientInv
    <3>3. CASE channel[c] = k
      <4>1. \/ clientAt[c] = "hello" /\ Len(q) = 1
            \/ clientAt[c] # "hello" /\ q = <<>> /\ Taken(c) = "None"
        BY <1>6, <3>1, <3>3
        DEF SessionInv, InHandshake, NoRequest, Sent, IsTaken, Answered, q
      <4>2. \A i \in DOMAIN q : q[i] = toClient[channel[c]][i] /\ i \in DOMAIN toClient[channel[c]]
        BY <3>3 DEF q
      <4>3. QueueInv(c)'
        BY <2>2, <2>3, <3>1, <3>3, <4>1, <4>2 DEF QueueInv, InSession
      <4>4. SessionInv(c)'
        <5>1. CASE clientAt[c] = "hello" /\ Len(q) = 1
          <6>1. Len(toClient'[k]) = 2 /\ toClient'[k][2].kind = r
            BY <2>2, <5>1
          <6>. QED
            BY <1>1, <3>3, <5>1, <6>1 DEF SessionInv, InHandshake
        <5>2. CASE clientAt[c] # "hello" /\ q = <<>> /\ Taken(c) = "None"
          <6>1. Len(toClient'[k]) = 1 /\ toClient'[k][1].kind = r
            BY <2>2, <2>3, <5>2
          <6>. QED
            BY <1>1, <3>3, <5>2, <6>1 DEF SessionInv, Sent, Taken
        <5>. QED
          BY <4>1, <5>1, <5>2
      <4>. QED
        BY <3>1, <4>3, <4>4 DEF ClientInv
    <3>. QED
      BY <3>2, <3>3
  <2>. QED
    BY <1>2, <1>3, <2>4 DEF StepInv, ClientsInv
<1>. QED
  BY <1>5, <1>6

\* The server is attached, or read an answer, and its call returns.
LEMMA StepIdle ==
    ASSUME Types, StepInv, serverChannel # 0, serverAt \in {"attach", "wait"}, serverAt' = "idle",
           UNCHANGED <<clientVars, owner, serverChannel, toClient>>, backlog' = <<>>,
           toServer'[serverChannel] = <<>>,
           serverAt = "wait" => toServer[serverChannel] # <<>>,
           \A k \in Conns : up'[k] => up[k]
    PROVE  StepInv'
<1>. USE DEF clientVars
<1>1. PristineInv'
  <2>1. DOMAIN <<>> = {}
    OBVIOUS
  <2>. QED
    BY <2>1 DEF PristineInv, Unanswered, Waiting
<1>2. AnswerInv'
  BY DEF AnswerInv
<1>3. ASSUME NEW c \in Clients
      PROVE  SessionInv(c)'
  <2>. SUFFICES ASSUME channel[c] = serverChannel, up[serverChannel]
                PROVE  SessionInv(c)'
    BY Shapes DEF SessionInv
  <2>1. \/ serverAt = "attach" /\ InHandshake(c, serverChannel)
        \/ clientAt[c] # "hello" /\ toClient[serverChannel] = <<>> /\ Taken(c) = "None"
    BY DEF StepInv, ClientsInv, ClientInv, SessionInv, InHandshake, NoRequest, Sent, IsTaken,
       Answered
  <2>. QED
    BY <2>1 DEF SessionInv, InHandshake, NoRequest, Taken
<1>. QED
  BY <1>1, <1>2, <1>3, ServerKeeps DEF StepInv, ClientsInv, ClientInv

\* Every step of the server keeps the invariant.
LEMMA StepServer ==
    ASSUME Types, ReachInv, LinkInv, StepInv, ServerStep
    PROVE  StepInv'
<1>. USE DEF netVars
<1>a. /\ serverAt = "wait" \/ (serverAt = "idle" /\ serverChannel # 0) => backlog = <<>>
      /\ serverAt \in {"hello", "attach", "wait"} => serverChannel # 0
  BY DEF ReachInv, Types, ServerAttached
<1>b. ASSUME CloseConnection, UNCHANGED <<clientVars, owner, toClient, backlog>>
      PROVE  StepInv'
  <2>1. /\ \A k \in Conns : up'[k] => up[k]
        /\ \A k \in Conns : k # serverChannel => toServer'[k] = toServer[k]
    BY <1>b, Shapes DEF CloseConnection, Forget, FrameQueues
  <2>. QED
    BY <1>b, <2>1, StepAlone DEF CloseConnection
<1>c. ASSUME UNCHANGED <<clientVars, netVars, serverChannel>>, serverChannel = 0
      PROVE  StepInv'
  BY <1>c, StepAlone
<1>d. ASSUME DropBacklog
      PROVE  /\ backlog' = <<>> /\ \A k \in Conns : up'[k] => up[k]
             /\ serverChannel # 0 => toServer'[serverChannel] = toServer[serverChannel]
  BY <1>d, Shapes DEF DropBacklog, LinkInv, BacklogInv, Waiting
<1>1. CASE Load
  BY <1>1, <1>c DEF Load, ReachInv
<1>2. CASE Unload
  <2>1. \A k \in Conns : up'[k] => up[k]
    BY <1>2, Shapes DEF Unload
  <2>2. backlog' = backlog => \A k \in Conns : k # serverChannel => toServer'[k] = toServer[k]
    BY <1>2, Shapes DEF Unload, Waiting
  <2>. QED
    BY <1>2, <2>1, <2>2, StepAlone DEF Unload
<1>3. ASSUME NEW r \in HostCalls, HostRequest(r)
      PROVE  StepInv'
  <2>1. CASE CloseConnection
    <3>1. UNCHANGED <<clientVars, owner, toClient, backlog>>
      BY <1>3, <2>1 DEF HostRequest, CloseConnection
    <3>. QED
      BY <2>1, <3>1, <1>b
  <2>2. CASE serverAt' = "wait" /\ UNCHANGED <<serverChannel, up, toServer>>
    <3>1. r \in Requests
      BY ConstantsAssumption
    <3>2. /\ serverChannel # 0 /\ serverAt = "idle" /\ request' = r
          /\ toClient' = Deliver(toClient, serverChannel, Frame(r))
          /\ UNCHANGED <<clientVars, owner, backlog>>
      BY <1>3, <2>2 DEF HostRequest, CloseConnection
    <3>. QED
      BY <1>a, <2>2, <3>1, <3>2, StepRequest
  <2>. QED
    BY <1>3, <2>1, <2>2 DEF HostRequest
<1>4. ASSUME NEW r \in HostCalls, HostCallWithoutClient(r)
      PROVE  StepInv'
  BY <1>4, <1>c DEF HostCallWithoutClient
<1>5. CASE AcceptChannel
  BY <1>5, StepAccept
<1>6. CASE AcceptFails
  BY <1>6, <1>c DEF AcceptFails, ReachInv
<1>7. CASE AnswerConnect
  BY <1>7, <1>b, StepAnswer DEF AnswerConnect, ConnectOkFrame
<1>8. CASE Attach
  <2>1. /\ backlog' = <<>> /\ serverChannel # 0 /\ toServer'[serverChannel] = toServer[serverChannel]
        /\ \A k \in Conns : up'[k] => up[k]
        /\ serverAt = "attach" /\ UNCHANGED <<clientVars, owner, serverChannel, request>>
    BY <1>8, <1>a, <1>d DEF Attach
  <2>2. toServer[serverChannel] = <<>>
    BY <2>1 DEF StepInv, AnswerInv
  <2>3. CASE request = "Start"
    <3>1. "Start" \in Requests
      BY DEF Requests
    <3>. QED
      BY <1>8, <2>1, <2>3, <3>1, StepRequest DEF Attach
  <2>4. CASE request # "Start"
    BY <1>8, <2>1, <2>2, <2>4, StepIdle DEF Attach
  <2>. QED
    BY <2>3, <2>4
<1>9. CASE AttachFails
  BY <1>9, <1>b DEF AttachFails
<1>10. CASE AttachedPeerGone
  <2>1. backlog' = backlog => \A k \in Conns : toServer'[k] = toServer[k]
    BY <1>10, Shapes DEF AttachedPeerGone, DropBacklog, Waiting
  <2>. QED
    BY <1>10, <1>d, <2>1, StepAlone DEF AttachedPeerGone
<1>11. CASE ReceiveReply
  <2>1. CASE CloseConnection
    BY <1>11, <2>1, <1>b DEF ReceiveReply
  <2>2. CASE /\ serverAt' = "idle" /\ UNCHANGED <<serverChannel, up>>
             /\ toServer' = [toServer EXCEPT ![serverChannel] = Tail(@)]
    <3>1. /\ serverAt = "wait" /\ serverChannel \in Conns /\ toServer[serverChannel] # <<>>
          /\ toServer[serverChannel] \in Seq(Frames)
      BY <1>11, <1>a, Shapes DEF ReceiveReply, FrameQueues
    <3>2. Len(toServer[serverChannel]) = 1
      BY <3>1, <1>a DEF StepInv, AnswerInv
    <3>3. toServer'[serverChannel] = <<>>
      BY <2>2, <3>1, <3>2, TailOfOne, Shapes DEF FrameQueues
    <3>4. UNCHANGED <<clientVars, owner, toClient>> /\ backlog' = <<>> /\ serverChannel # 0
      BY <1>11, <1>a, <3>1 DEF ReceiveReply
    <3>. QED
      BY <2>2, <3>1, <3>3, <3>4, StepIdle
  <2>. QED
    BY <1>11, <2>1, <2>2 DEF ReceiveReply
<1>12. CASE ReceiveFails
  BY <1>12, <1>b DEF ReceiveFails
<1>. QED
  BY <1>1, <1>2, <1>3, <1>4, <1>5, <1>6, <1>7, <1>8, <1>9, <1>10, <1>11, <1>12
  DEF ServerStep

-----------------------------------------------------------------------------
(* The theorems: what is read and answered.                                *)

\* Every step of a client keeps the invariant.
LEMMA StepClient ==
    ASSUME Types, LinkInv, StepInv, NEW c \in Clients, ClientStep(c) \/ OtherThread(c) \/ Crash(c)
    PROVE  StepInv'
<1>1. CASE Connect(c)
  <2>1. connections + 1 \in Conns
    BY <1>1 DEF Connect
  <2>. QED
    BY <1>1, <2>1, StepConnect
<1>2. CASE ~Connect(c)
  BY <1>2, StepRefused, StepConnectOk, StepConnectFails, StepCalls, StepTakes, StepPing,
     StepFinishes,
     StepReadFails, StepDisconnect, StepCrash, StepQuiet DEF ClientStep, OtherThread
<1>. QED
  BY <1>1, <1>2

\* The invariant holds at first.
LEMMA StepInit == Init => StepInv
<1>. SUFFICES ASSUME Init PROVE StepInv
  OBVIOUS
<1>1. DOMAIN backlog = {}
  BY DEF Init
<1>2. PristineInv
  BY <1>1 DEF Init, PristineInv, Unanswered, Waiting
<1>3. AnswerInv
  BY DEF Init, AnswerInv
<1>4. ClientsInv
  BY DEF Init, ClientsInv, ClientInv, ModeInv, QueueInv, SessionInv, InSession
<1>. QED
  BY <1>2, <1>3, <1>4 DEF StepInv

\* The invariant, in every behaviour.
LEMMA StepsHold == Spec => []StepInv
<1>1. Types /\ ReachInv /\ LinkInv /\ StepInv /\ [Next]_vars => StepInv'
  BY StepServer, StepClient, StepQuiet DEF Next
<1>. QED
  BY <1>1, StepInit, TypesHold, LinksHold, PTL DEF Spec

\* No frame is ever read where another kind is expected, and no answer is left
\* over for the next request: not after a disconnect, a timeout, a reconnect or a
\* broken connection, and with whatever requests the host makes.
THEOREM ExpectedFrames == Spec => []NoUnexpectedFrame
<1>1. Types /\ StepInv => NoUnexpectedFrame
  <2>. SUFFICES ASSUME Types, StepInv
                PROVE  NoUnexpectedFrame
    OBVIOUS
  <2>1. ASSUME serverAt = "hello", NEW i \in DOMAIN toServer[serverChannel]
        PROVE  toServer[serverChannel][i].kind = "Connect"
    <3>1. serverChannel \in Conns
      BY <2>1, Shapes DEF Types, ServerAttached
    <3>2. Pristine(serverChannel) /\ toServer[serverChannel] \in Seq(Frames)
      BY <2>1, <3>1, Shapes DEF StepInv, PristineInv, Unanswered, FrameQueues
    <3>. QED
      BY <2>1, <3>2 DEF Pristine
  <2>2. ASSUME serverAt = "wait", NEW i \in DOMAIN toServer[serverChannel]
        PROVE  toServer[serverChannel][i].kind = ReplyKind(request)
    <3>1. serverChannel \in Conns /\ serverChannel # 0
      BY <2>2, Shapes DEF Types, ServerAttached
    <3>2. toServer[serverChannel] \in Seq(Frames)
      BY <3>1, Shapes DEF FrameQueues
    <3>3. Len(toServer[serverChannel]) = 1 /\ i = 1
      BY <2>2, <3>1, <3>2 DEF StepInv, AnswerInv
    <3>. QED
      BY <2>2, <3>1, <3>3 DEF StepInv, AnswerInv
  <2>3. serverAt = "idle" /\ serverChannel # 0 => toServer[serverChannel] = <<>>
    BY DEF StepInv, AnswerInv
  <2>4. ASSUME NEW c \in Clients, channel[c] # 0, toClient[channel[c]] # <<>>
        PROVE  /\ clientAt[c] = "hello" => Received(c) = "ConnectOk"
               /\ clientAt[c] \in {"run", "poll"} => Received(c) \in Requests
    <3>1. toClient[channel[c]] \in Seq(Frames) /\ QueueInv(c)
      BY <2>4, Shapes DEF FrameQueues, StepInv, ClientsInv, ClientInv
    <3>2. 1 \in DOMAIN toClient[channel[c]] /\ Received(c) = toClient[channel[c]][1].kind
      BY <2>4, <3>1 DEF Received
    <3>. QED
      BY <3>1, <3>2 DEF QueueInv, InSession
  <2>. QED
    BY <2>1, <2>2, <2>3, <2>4 DEF NoUnexpectedFrame
<1>. QED
  BY <1>1, TypesHold, StepsHold, PTL

\* While a client runs the callbacks of a request, or has polled it and not
\* finished it, over a live connection, the simulator waits for its answer.
THEOREM AwaitsCallback == Spec => []NoAdvanceDuringCallback
<1>1. Types /\ LinkInv /\ StepInv => NoAdvanceDuringCallback
  <2>. SUFFICES ASSUME Types, LinkInv, StepInv, NEW c \in Clients, channel[c] # 0, up[channel[c]],
                       NEW r,
                       \/ clientAt[c] = "callback" /\ r = serving[c]
                       \/ clientAt[c] = "idle" /\ r = currentCommand[c] /\ r # "None"
                PROVE  ServerAwaits(c, r)
    BY DEF NoAdvanceDuringCallback
  <2>1. Taken(c) = r /\ r # "None"
    BY DEF Taken, StepInv, ClientsInv, ClientInv, ModeInv, Requests
  <2>2. InSession(c)
    BY DEF StepInv, ClientsInv, ClientInv, ModeInv, InSession
  <2>3. IsTaken(c, channel[c]) /\ serverChannel = channel[c]
    BY <2>1, <2>2, Alive DEF NoRequest, Sent, Answered
  <2>. QED
    BY <2>1, <2>3 DEF IsTaken, ServerAwaits
<1>. QED
  BY <1>1, TypesHold, LinksHold, StepsHold, PTL

-----------------------------------------------------------------------------
(* The refinement of CoSimLockStep, and its inductive invariant.           *)

\* A connection that was made is some client's.
OwnedInv == \A k \in Conns : Made(k) => owner[k] \in Clients

\* Which call may leave which request unanswered.
CallInv(c) ==
    /\ clientAt[c] \in {"run", "callback"} => mode[c] = "Blocking"
    /\ clientAt[c] = "callback" => serving[c] # "Ping"
    /\ clientAt[c] = "poll" => currentCommand[c] \in {"None", "Ping"}
    /\ clientAt[c] = "idle" /\ isConnected[c] => currentCommand[c] # "Ping"
CallsInv == \A c \in Clients : CallInv(c)

\* Over the connection the server is attached to, alive or not, there is at most
\* the request the server waits for: last in the queue to the client, taken by
\* it, or answered.
InQueue(c, k) ==
    \A i \in DOMAIN toClient[k] : toClient[k][i].kind \in Requests =>
        /\ serverAt = "wait" /\ toClient[k][i].kind = request
        /\ i = Len(toClient[k]) /\ toServer[k] = <<>>
        /\ \A r \in Requests : ~Owes(c, r)
AtClient(c, k) ==
    \A r \in Requests : Owes(c, r) => serverAt = "wait" /\ r = request /\ toServer[k] = <<>>
PlaceInv ==
    LET k == serverChannel
        c == owner[k]
    IN  k # 0 /\ serverAt # "hello" /\ channel[c] = k => InQueue(c, k) /\ AtClient(c, k)

SimInv == OwnedInv /\ CallsInv /\ PlaceInv

\* It holds at first.
LEMMA SimInit == Init => SimInv
<1>. SUFFICES ASSUME Init PROVE SimInv
  OBVIOUS
<1>1. OwnedInv
  BY DEF Init, OwnedInv, Made, Conns
<1>2. CallsInv
  BY DEF Init, CallsInv, CallInv
<1>3. PlaceInv
  BY DEF Init, PlaceInv
<1>. QED
  BY <1>1, <1>2, <1>3 DEF SimInv

-----------------------------------------------------------------------------
(* What a client's step concerns.                                          *)

\* Every step of a client but Connect concerns its own connection only.
LEMMA AllMove ==
    ASSUME Types, NEW c \in Clients, (ClientStep(c) /\ ~Connect(c)) \/ OtherThread(c) \/ Crash(c)
    PROVE  Moves(c)
<1>. USE Shapes DEF Moves, Same, serverVars, netVars, clientVars
<1>1. CASE ConnectRefused(c) \/ Crash(c)
  BY <1>1 DEF ConnectRefused, Crash, Reset, Unread, UpWithoutOld
<1>2. CASE ConnectOk(c)
  BY <1>2 DEF ConnectOk, Pop, FrameQueues
<1>3. CASE ConnectFails(c) \/ RunCallbackBased(c) \/ PollTimeout(c)
             \/ \E t \in PollTimeouts : PollCommand(c, t)
  BY <1>3 DEF ConnectFails, RunCallbackBased, PollTimeout, PollCommand, PollReturns
<1>4. CASE RunReceive(c) \/ PollReceive(c)
  BY <1>4 DEF RunReceive, PollReceive, Pop, PollReturns, FrameQueues
<1>5. CASE RunPing(c) \/ PollPing(c)
  <2>1. Pop(c) /\ toServer' \in {toServer, Deliver(toServer, channel[c], Reply(c, "Ping"))}
    BY <1>5 DEF RunPing, PollPing, SendReply, FailReply
  <2>2. ASSUME NEW k \in Conns, k # channel[c]
        PROVE  toClient'[k] = toClient[k] /\ toServer'[k] = toServer[k]
    <3>1. toServer \in FrameQueues /\ toClient \in FrameQueues
      OBVIOUS
    <3>2. Deliver(toServer, channel[c], Reply(c, "Ping"))[k] = toServer[k]
      BY <2>2, <3>1, DeliverElsewhere
    <3>. QED
      BY <2>1, <2>2, <3>1, <3>2 DEF Pop, FrameQueues
  <2>. QED
    BY <1>5, <2>2 DEF RunPing, PollPing, SendReply, FailReply, PollReturns
<1>6. CASE RunFinish(c) \/ FinishCommand(c)
  BY <1>6, DeliverElsewhere
     DEF RunFinish, FinishCommand, NoCurrentCommand, SendReply, FailReply
<1>7. CASE RunFails(c) \/ PollFails(c) \/ Disconnect(c)
  BY <1>7 DEF RunFails, PollFails, PollReturns, Disconnect, UpWithoutOld
<1>8. CASE CheckCommand(c) \/ StoreCommand(c)
  BY <1>8 DEF CheckCommand, StoreCommand
<1>. QED
  BY <1>1, <1>2, <1>3, <1>4, <1>5, <1>6, <1>7, <1>8 DEF ClientStep, OtherThread

\* The calls a client is in: every step of it keeps what they leave unanswered.
LEMMA CallsClient ==
    ASSUME Types, StepInv, CallsInv, NEW c \in Clients, ClientStep(c) \/ OtherThread(c) \/ Crash(c)
    PROVE  CallsInv'
<1>a. CallInv(c) /\ ModeInv(c)
  BY DEF CallsInv, StepInv, ClientsInv, ClientInv
<1>1. ASSUME NEW d \in Clients, d # c
      PROVE  CallInv(d)'
  <2>1. Same(d)
    <3>1. CASE Connect(c)
      BY <1>1, <3>1, Shapes DEF Connect, Reset, Same
    <3>2. CASE ~Connect(c)
      BY <1>1, <3>2, AllMove DEF Moves
    <3>. QED
      BY <3>1, <3>2
  <2>. QED
    BY <2>1 DEF CallsInv, CallInv, Same
<1>2. CallInv(c)'
  <2>. USE <1>a, Shapes DEF CallInv, ModeInv
  <2>1. CASE Connect(c) \/ ConnectRefused(c) \/ Crash(c)
    BY <2>1 DEF Connect, ConnectRefused, Crash, Reset
  <2>2. CASE ConnectOk(c) \/ ConnectFails(c)
    BY <2>2 DEF ConnectOk, ConnectFails
  <2>3. CASE RunCallbackBased(c) \/ PollTimeout(c) \/ \E t \in PollTimeouts : PollCommand(c, t)
    BY <2>3 DEF RunCallbackBased, PollTimeout, PollCommand, PollReturns
  <2>4. CASE RunReceive(c) \/ PollReceive(c)
    BY <2>4 DEF RunReceive, PollReceive, PollReturns
  <2>5. CASE RunPing(c) \/ PollPing(c)
    BY <2>5 DEF RunPing, PollPing, SendReply, FailReply, PollReturns
  <2>6. CASE RunFinish(c) \/ FinishCommand(c)
    BY <2>6 DEF RunFinish, FinishCommand, NoCurrentCommand, SendReply, FailReply
  <2>7. CASE RunFails(c) \/ PollFails(c) \/ OtherThread(c)
    BY <2>7 DEF RunFails, PollFails, PollReturns, OtherThread, Disconnect, CheckCommand, StoreCommand
  <2>. QED
    BY <2>1, <2>2, <2>3, <2>4, <2>5, <2>6, <2>7 DEF ClientStep
<1>. QED
  BY <1>1, <1>2 DEF CallsInv

-----------------------------------------------------------------------------
(* Where a request is.                                                     *)

\* What becomes of a request when a client moves: it is taken, answered, or lost.
StageMoves ==
    \/ Stage' = Stage
    \/ Stage = "sent" /\ request # "Ping" /\ Stage' = "taken"
    \/ Stage = "sent" /\ request = "Ping" /\ Stage' = "answered"
    \/ Stage = "taken" /\ Stage' = "answered"
    \/ Stage \in {"sent", "taken"} /\ Stage' = "lost"

\* A client that is not that of the server's connection leaves it alone.
LEMMA Elsewhere ==
    ASSUME Types, LinkInv, StepInv, SimInv, NEW c \in Clients, Moves(c),
           channel[c] # serverChannel \/ serverChannel = 0
    PROVE  PlaceInv' /\ Stage' = Stage
<1>. DEFINE k == serverChannel
            o == owner[k]
<1>1. UNCHANGED <<serverChannel, serverAt, request, owner>>
  BY DEF Moves
<1>2. CASE k = 0
  BY <1>1, <1>2 DEF PlaceInv, Stage, Types, ServerAttached
<1>3. CASE k # 0
  <2>1. k \in Conns /\ o \in Clients /\ k # channel[c]
    BY <1>3, Shapes DEF SimInv, OwnedInv, LinkInv, MadeInv
  <2>2. UNCHANGED <<toClient[k], toServer[k]>>
    BY <2>1 DEF Moves
  <2>3. CASE o = c
    <3>1. channel[o] # k /\ channel'[o] # k
      BY <1>3, <2>1, <2>3 DEF Moves
    <3>. QED
      BY <1>1, <2>2, <3>1 DEF PlaceInv, Stage, Carries
  <2>4. CASE o # c
    <3>1. Same(o)
      BY <2>1, <2>4 DEF Moves
    <3>2. \A r : Owes(o, r)' = Owes(o, r)
      BY <3>1 DEF Owes, Same
    <3>3. PlaceInv'
      BY <1>1, <2>1, <2>2, <3>1, <3>2 DEF SimInv, PlaceInv, InQueue, AtClient, Same
    <3>4. Stage' = Stage
      BY <1>1, <2>1, <2>2, <3>1, <3>2 DEF Stage, Carries, Same
    <3>. QED
      BY <3>3, <3>4
  <2>. QED
    BY <2>3, <2>4
<1>. QED
  BY <1>2, <1>3

\* The client of the server's connection takes no request and answers none; it
\* may drop what it was sent or what it took.
LEMMA Drops ==
    ASSUME Types, LinkInv, StepInv, SimInv, NEW c \in Clients, Moves(c),
           channel[c] = serverChannel, serverChannel # 0,
           toServer'[serverChannel] = toServer[serverChannel],
           toClient'[serverChannel] \in {toClient[serverChannel], <<>>},
           \A r \in Requests : Owes(c, r)' => Owes(c, r)
    PROVE  PlaceInv' /\ StageMoves
<1>. DEFINE k == serverChannel
<1>1. UNCHANGED <<serverChannel, serverAt, request, owner>>
  BY DEF Moves
<1>2. k \in Conns /\ owner[k] = c
  BY Shapes DEF StepInv, ClientsInv, ClientInv, ModeInv
<1>3. toClient[k] \in Seq(Frames) /\ DOMAIN <<>> = {}
  BY <1>2, Shapes DEF FrameQueues
<1>4. PlaceInv'
  <2>. SUFFICES ASSUME serverAt # "hello"
                PROVE  InQueue(c, k)' /\ AtClient(c, k)'
    BY <1>1, <1>2 DEF PlaceInv
  <2>1. InQueue(c, k) /\ AtClient(c, k)
    BY <1>2 DEF SimInv, PlaceInv
  <2>2. InQueue(c, k)'
    <3>1. CASE toClient'[k] = <<>>
      BY <1>1, <1>3, <3>1 DEF InQueue
    <3>2. CASE toClient'[k] = toClient[k]
      BY <1>1, <2>1, <3>2 DEF InQueue
    <3>. QED
      BY <3>1, <3>2
  <2>3. AtClient(c, k)'
    BY <1>1, <2>1 DEF AtClient
  <2>. QED
    BY <2>2, <2>3
<1>5. StageMoves
  <2>. SUFFICES ASSUME serverAt = "wait", toServer[k] = <<>>
                PROVE  StageMoves
    BY <1>1 DEF StageMoves, Stage
  <2>1. InQueue(c, k) /\ AtClient(c, k) /\ request \in Requests
    BY <1>2 DEF SimInv, PlaceInv, StepInv, AnswerInv
  <2>2. CASE Carries(toClient[k], request)
    <3>1. ~Owes(c, request)
      BY <2>1, <2>2 DEF InQueue, Carries
    <3>2. Stage = "sent" /\ Stage' \in {"sent", "lost"}
      BY <1>1, <1>2, <2>1, <2>2, <3>1 DEF Stage
    <3>. QED
      BY <3>2 DEF StageMoves
  <2>3. CASE ~Carries(toClient[k], request)
    <3>1. ~Carries(toClient[k], request)'
      BY <1>1, <1>3, <2>3 DEF Carries
    <3>2. /\ Stage = IF channel[c] = k /\ Owes(c, request) THEN "taken" ELSE "lost"
          /\ Stage' = IF channel'[c] = k /\ Owes(c, request)' THEN "taken" ELSE "lost"
      BY <1>1, <1>2, <2>3, <3>1 DEF Stage
    <3>. QED
      BY <1>1, <2>1, <3>2 DEF StageMoves, Owes
  <2>. QED
    BY <2>2, <2>3
<1>. QED
  BY <1>4, <1>5

\* A client reads a request over the server's connection: it is the one the
\* server waits for, and the only frame that is left.
LEMMA ReadsRequest ==
    ASSUME Types, StepInv, SimInv, NEW c \in Clients, Pop(c), Received(c) \in Requests,
           channel[c] = serverChannel, serverChannel # 0, serverAt # "hello",
           toClient[serverChannel] # <<>>
    PROVE  /\ serverAt = "wait" /\ request = Received(c) /\ request \in Requests
           /\ toServer[serverChannel] = <<>> /\ toClient'[serverChannel] = <<>>
           /\ \A r \in Requests : ~Owes(c, r)
           /\ Stage = "sent"
<1>. DEFINE k == serverChannel
            q == toClient[k]
<1>1. k \in Conns /\ owner[k] = c /\ q \in Seq(Frames)
  BY Shapes DEF StepInv, ClientsInv, ClientInv, ModeInv, FrameQueues
<1>2. /\ toClient'[k] = Tail(q) /\ 1 \in DOMAIN q /\ Received(c) = q[1].kind
      /\ Len(q) = 1 => Tail(q) = <<>>
  BY <1>1, Popped
<1>3. InQueue(c, k)
  BY <1>1 DEF SimInv, PlaceInv
<1>4. /\ serverAt = "wait" /\ request = q[1].kind /\ 1 = Len(q) /\ toServer[k] = <<>>
      /\ \A r \in Requests : ~Owes(c, r)
  BY <1>2, <1>3 DEF InQueue
<1>5. Carries(q, request)
  BY <1>2, <1>4 DEF Carries
<1>. QED
  BY <1>1, <1>2, <1>4, <1>5 DEF Stage

\* The client takes the request.
LEMMA TakesRequest ==
    ASSUME Types, LinkInv, StepInv, SimInv, NEW c \in Clients, RunReceive(c) \/ PollReceive(c),
           channel[c] = serverChannel, serverChannel # 0
    PROVE  PlaceInv' /\ StageMoves
<1>. DEFINE k == serverChannel
<1>1. /\ Pop(c) /\ Received(c) \in Requests \ {"Ping"} /\ toClient[k] # <<>>
      /\ clientAt[c] \in {"run", "poll"} /\ InSession(c) /\ k \in Conns
      /\ UNCHANGED <<serverChannel, serverAt, request, owner, toServer, channel>>
  BY Shapes DEF RunReceive, PollReceive, InSession, serverVars
<1>2. owner[k] = c /\ serverAt # "hello"
  BY <1>1 DEF StepInv, ClientsInv, ClientInv, ModeInv, PristineInv, Pristine, Unanswered
<1>3. /\ serverAt = "wait" /\ request = Received(c) /\ request \in Requests
      /\ toServer[k] = <<>> /\ toClient'[k] = <<>> /\ Stage = "sent"
  BY <1>1, <1>2, ReadsRequest
<1>4. DOMAIN toClient'[k] = {}
  BY <1>3
<1>5. /\ Owes(c, request)'
      /\ \A r \in Requests : Owes(c, r)' => r = request
  <2>1. ModeInv(c) /\ CallInv(c)
    BY DEF StepInv, ClientsInv, ClientInv, SimInv, CallsInv
  <2>2. CASE RunReceive(c)
    <3>1. clientAt'[c] = "callback" /\ serving'[c] = request /\ currentCommand'[c] = "None"
      BY <1>3, <2>1, <2>2, Shapes DEF RunReceive, ModeInv, CallInv
    <3>. QED
      BY <1>1, <3>1 DEF Owes, Requests
  <2>3. CASE PollReceive(c)
    <3>1. clientAt'[c] = "idle" /\ currentCommand'[c] = request
      BY <1>3, <2>3, Shapes DEF PollReceive, PollReturns
    <3>. QED
      BY <1>1, <1>3, <3>1 DEF Owes
  <2>. QED
    BY <2>2, <2>3
<1>6. PlaceInv'
  BY <1>1, <1>2, <1>3, <1>4, <1>5 DEF PlaceInv, InQueue, AtClient
<1>7. Stage' = "taken"
  BY <1>1, <1>2, <1>3, <1>4, <1>5 DEF Stage, Carries
<1>. QED
  BY <1>1, <1>3, <1>6, <1>7 DEF StageMoves

\* A ping is read and answered in one step, or lost.
LEMMA AnswersPing ==
    ASSUME Types, LinkInv, StepInv, SimInv, NEW c \in Clients, RunPing(c) \/ PollPing(c),
           channel[c] = serverChannel, serverChannel # 0
    PROVE  PlaceInv' /\ StageMoves
<1>. DEFINE k == serverChannel
<1>1. /\ Pop(c) /\ Received(c) = "Ping" /\ "Ping" \in Requests /\ toClient[k] # <<>>
      /\ clientAt[c] \in {"run", "poll"} /\ InSession(c) /\ k \in Conns
      /\ UNCHANGED <<serverChannel, serverAt, request, owner, channel>>
  BY Shapes DEF RunPing, PollPing, InSession, Requests, serverVars
<1>2. owner[k] = c /\ serverAt # "hello"
  BY <1>1 DEF StepInv, ClientsInv, ClientInv, ModeInv, PristineInv, Pristine, Unanswered
<1>3. /\ serverAt = "wait" /\ request = "Ping"
      /\ toServer[k] = <<>> /\ toClient'[k] = <<>> /\ Stage = "sent"
  BY <1>1, <1>2, ReadsRequest
<1>4. DOMAIN toClient'[k] = {}
  BY <1>3
<1>5. \A r \in Requests : ~Owes(c, r)'
  <2>1. ModeInv(c) /\ CallInv(c)
    BY DEF StepInv, ClientsInv, ClientInv, SimInv, CallsInv
  <2>2. /\ clientAt'[c] \in {"run", "poll", "idle"}
        /\ currentCommand'[c] \in {"None", "Ping"}
    BY <1>1, <2>1, Shapes
       DEF RunPing, PollPing, PollReturns, ModeInv, CallInv
  <2>. QED
    BY <2>2 DEF Owes, Requests
<1>6. PlaceInv'
  BY <1>1, <1>2, <1>3, <1>4, <1>5 DEF PlaceInv, InQueue, AtClient
<1>7. Stage' \in {"answered", "lost"}
  BY <1>1, <1>2, <1>3, <1>4, <1>5 DEF Stage, Carries
<1>. QED
  BY <1>1, <1>3, <1>6, <1>7 DEF StageMoves

\* The client answers what it took.
LEMMA AnswersRequest ==
    ASSUME Types, LinkInv, StepInv, SimInv, NEW c \in Clients, RunFinish(c) \/ FinishCommand(c),
           channel[c] = serverChannel, serverChannel # 0
    PROVE  PlaceInv' /\ StageMoves
<1>. DEFINE k == serverChannel
            r == Taken(c)
<1>a. ModeInv(c) /\ CallInv(c)
  BY DEF StepInv, ClientsInv, ClientInv, SimInv, CallsInv
<1>1. /\ r \in Requests /\ Owes(c, r) /\ InSession(c) /\ k \in Conns
      /\ UNCHANGED <<serverChannel, serverAt, request, owner, channel, toClient>>
  BY <1>a, Shapes
     DEF RunFinish, FinishCommand, InSession, Taken, Owes, ModeInv, CallInv, Requested, serverVars
<1>2. owner[k] = c /\ serverAt # "hello"
  BY <1>1, <1>a DEF ModeInv, StepInv, PristineInv, Pristine, Unanswered
<1>3. InQueue(c, k) /\ AtClient(c, k)
  BY <1>2 DEF SimInv, PlaceInv
<1>4. /\ serverAt = "wait" /\ r = request /\ toServer[k] = <<>>
      /\ \A i \in DOMAIN toClient[k] : toClient[k][i].kind \notin Requests
  BY <1>1, <1>3 DEF InQueue, AtClient
<1>5. ~Carries(toClient[k], request)
  BY <1>1, <1>4 DEF Carries
<1>6. Stage = "taken"
  BY <1>1, <1>2, <1>4, <1>5 DEF Stage
<1>7. \A s \in Requests : Owes(c, s)' => Owes(c, s) /\ toServer'[k] = <<>>
  <2>1. CASE RunFinish(c)
    <3>1. clientAt'[c] \in {"run", "idle"} /\ currentCommand'[c] = "None"
      BY <1>a, <2>1, Shapes DEF RunFinish, ModeInv, CallInv
    <3>. QED
      BY <3>1 DEF Owes, Requests
  <2>2. CASE FinishCommand(c)
    <3>1. /\ clientAt'[c] = "idle" /\ clientAt[c] = "idle"
          /\ \/ currentCommand'[c] = "None"
             \/ UNCHANGED <<currentCommand, toServer>>
      BY <2>2, Shapes DEF FinishCommand, NoCurrentCommand, FailReply
    <3>. QED
      BY <1>4, <3>1 DEF Owes, Requests
  <2>. QED
    BY <2>1, <2>2
<1>8. PlaceInv'
  BY <1>1, <1>2, <1>3, <1>4, <1>7 DEF PlaceInv, InQueue, AtClient
<1>9. Stage' \in {"answered", "taken", "lost"}
  BY <1>1, <1>4, <1>5 DEF Stage, Carries
<1>. QED
  BY <1>6, <1>8, <1>9 DEF StageMoves

\* Connect reads the connect-ok frame; the request that may follow it stays.
LEMMA ReadsConnectOk ==
    ASSUME Types, LinkInv, StepInv, SimInv, NEW c \in Clients, ConnectOk(c),
           channel[c] = serverChannel, serverChannel # 0
    PROVE  PlaceInv' /\ StageMoves
<1>. DEFINE k == serverChannel
            q == toClient[k]
<1>1. /\ clientAt[c] = "hello" /\ clientAt'[c] = "idle" /\ k \in Conns /\ q # <<>> /\ Pop(c)
      /\ UNCHANGED <<serverChannel, serverAt, request, owner, toServer, channel, currentCommand>>
  BY Shapes DEF ConnectOk, serverVars
<1>2. /\ owner[k] = c /\ currentCommand[c] = "None" /\ QueueInv(c)
  BY <1>1 DEF StepInv, ClientsInv, ClientInv, ModeInv
<1>3. /\ toClient'[k] = Tail(q) /\ 1 \in DOMAIN q
      /\ \A i \in DOMAIN Tail(q) : i + 1 \in DOMAIN q /\ i + 1 # 1 /\ Tail(q)[i] = q[i + 1]
      /\ Len(Tail(q)) = Len(q) - 1
      /\ q \in Seq(Frames) /\ Tail(q) \in Seq(Frames)
  BY <1>1, Popped, Shapes DEF FrameQueues
<1>4. \A r \in Requests : ~Owes(c, r) /\ ~Owes(c, r)'
  BY <1>1, <1>2 DEF Owes, Requests
<1>5. PlaceInv'
  <2>. SUFFICES ASSUME serverAt # "hello"
                PROVE  InQueue(c, k)' /\ AtClient(c, k)'
    BY <1>1, <1>2 DEF PlaceInv
  <2>1. InQueue(c, k)
    BY <1>1, <1>2 DEF SimInv, PlaceInv
  <2>2. InQueue(c, k)'
    <3>1. ASSUME NEW i \in DOMAIN Tail(q), Tail(q)[i].kind \in Requests
          PROVE  /\ serverAt = "wait" /\ Tail(q)[i].kind = request
                 /\ i = Len(Tail(q)) /\ toServer[k] = <<>>
      <4>1. i \in Nat /\ i + 1 \in DOMAIN q /\ Tail(q)[i] = q[i + 1]
        BY <1>3, <3>1
      <4>2. /\ serverAt = "wait" /\ q[i + 1].kind = request /\ toServer[k] = <<>>
            /\ i + 1 = Len(q)
        BY <2>1, <3>1, <4>1 DEF InQueue
      <4>. QED
        BY <1>3, <4>1, <4>2
    <3>. QED
      BY <1>1, <1>3, <1>4, <3>1 DEF InQueue
  <2>. QED
    BY <1>4, <2>2 DEF AtClient
<1>6. Stage' = Stage
  <2>. SUFFICES ASSUME serverAt = "wait"
                PROVE  Stage' = Stage
    BY <1>1 DEF Stage
  <2>1. request \in Requests
    BY DEF StepInv, AnswerInv
  <2>2. ~Owes(c, request) /\ ~Owes(c, request)'
    BY <1>1, <1>4, <2>1 DEF Owes
  <2>3. Carries(toClient'[k], request) <=> Carries(toClient[k], request)
    <3>1. q[1].kind # request
      BY <1>1, <1>2, <1>3, <2>1 DEF QueueInv, Requests
    <3>2. \A i \in DOMAIN q : i # 1 => i - 1 \in DOMAIN Tail(q) /\ Tail(q)[i - 1] = q[i]
      BY <1>3
    <3>3. ASSUME NEW i \in DOMAIN q, q[i].kind = request
          PROVE  Carries(Tail(q), request)
      BY <3>1, <3>2, <3>3 DEF Carries
    <3>4. ASSUME NEW i \in DOMAIN Tail(q), Tail(q)[i].kind = request
          PROVE  Carries(q, request)
      BY <1>3, <3>4 DEF Carries
    <3>. QED
      BY <1>3, <3>3, <3>4 DEF Carries
  <2>. QED
    BY <1>1, <1>2, <2>2, <2>3 DEF Stage
<1>. QED
  BY <1>5, <1>6 DEF StageMoves

\* What a client's step does to the request is a step of CoSimLockStep.
LEMMA StageStep ==
    ASSUME UNCHANGED <<serverChannel, serverAt, request>>, StageMoves
    PROVE  [LockStep!Next]_LockStep!vars
<1>1. /\ Session' = Session /\ Asked' = Asked
      /\ Stage \in {"sent", "taken"} => Asked = request
  BY DEF Session, Asked, Stage
<1>. QED
  BY <1>1 DEF StageMoves, LockStep!Next, LockStep!vars, LockStep!Take, LockStep!Answer,
     LockStep!Lose

\* A connection is made only while the server has no session.
LEMMA SimConnect ==
    ASSUME Types, ReachInv, LinkInv, StepInv, SimInv, NEW c \in Clients, Connect(c)
    PROVE  SimInv' /\ [LockStep!Next]_LockStep!vars
<1>. DEFINE new == connections + 1
            k == serverChannel
            o == owner[k]
<1>1. /\ new \in Conns /\ connections \in Nat /\ connections' = new /\ listener = "open"
      /\ owner' = [owner EXCEPT ![new] = c] /\ channel' = [channel EXCEPT ![c] = new]
      /\ toServer' = [toServer EXCEPT ![new] = <<ConnectFrame(c)>>] /\ toClient' = Unread(c)
      /\ \A d \in Clients \ {c} : Same(d)
      /\ UNCHANGED <<serverChannel, serverAt, request>>
  BY Shapes DEF Connect, Reset, Same, serverVars, Types, TypeOK, NetTypes
<1>2. serverAt # "wait" /\ (serverAt = "idle" => k = 0)
  BY <1>1 DEF ReachInv, Types, ServerAttached
<1>3. OwnedInv'
  BY <1>1, Shapes DEF SimInv, OwnedInv, Made, Conns
<1>4. CallsInv'
  BY CallsClient DEF ClientStep, SimInv
<1>5. PlaceInv'
  <2>. SUFFICES ASSUME k # 0, serverAt # "hello", channel'[owner'[k]] = k
                PROVE  InQueue(owner[k], k)' /\ AtClient(owner[k], k)'
    BY <1>1 DEF PlaceInv
  <2>1. k # new /\ k \in Conns /\ o \in Clients /\ owner'[k] = o
    BY <1>1, Shapes DEF LinkInv, MadeInv, Made, SimInv, OwnedInv
  <2>2. o # c /\ Same(o) /\ channel[o] = k
    BY <1>1, <2>1, Shapes DEF Same
  <2>3. channel[c] # k
    BY <2>1, <2>2 DEF StepInv, ClientsInv, ClientInv, ModeInv
  <2>4. UNCHANGED <<toServer[k], toClient[k]>>
    BY <1>1, <2>1, <2>3, Shapes DEF Unread, FrameQueues
  <2>5. InQueue(o, k) /\ AtClient(o, k)
    BY <2>2 DEF SimInv, PlaceInv
  <2>6. \A r : Owes(o, r)' = Owes(o, r)
    BY <2>1, <2>2 DEF Owes, Same
  <2>. QED
    BY <1>1, <2>1, <2>4, <2>5, <2>6 DEF InQueue, AtClient
<1>6. UNCHANGED LockStep!vars
  BY <1>1, <1>2 DEF LockStep!vars, Session, Asked, Stage
<1>. QED
  BY <1>3, <1>4, <1>5, <1>6 DEF SimInv

\* Every step of a client keeps the invariant and is a step of CoSimLockStep.
LEMMA SimClient ==
    ASSUME Types, ReachInv, LinkInv, StepInv, SimInv, NEW c \in Clients,
           ClientStep(c) \/ OtherThread(c) \/ Crash(c)
    PROVE  SimInv' /\ [LockStep!Next]_LockStep!vars
<1>1. CASE Connect(c)
  BY <1>1, SimConnect
<1>2. CASE ~Connect(c)
  <2>1. Moves(c) /\ UNCHANGED connections
    <3>1. Moves(c)
      BY <1>2, AllMove
    <3>2. UNCHANGED connections
      BY <1>2 DEF ClientStep, OtherThread, Disconnect, CheckCommand, StoreCommand, Crash,
         ConnectRefused, ConnectOk, ConnectFails, RunCallbackBased, RunReceive, RunPing, RunFinish,
         RunFails, PollCommand, PollTimeout, PollReceive, PollPing, PollFails, FinishCommand,
         netVars
    <3>. QED
      BY <3>1, <3>2
  <2>2. OwnedInv' /\ CallsInv'
    BY <2>1, CallsClient DEF SimInv, OwnedInv, Made, Moves
  <2>3. PlaceInv' /\ StageMoves
    <3>1. CASE channel[c] # serverChannel \/ serverChannel = 0
      BY <2>1, <3>1, Elsewhere DEF StageMoves
    <3>2. CASE channel[c] = serverChannel /\ serverChannel # 0
      <4>a. serverChannel \in Conns /\ ModeInv(c) /\ CallInv(c)
        BY <3>2, Shapes DEF StepInv, ClientsInv, ClientInv, SimInv, CallsInv
      <4>. DEFINE k == serverChannel
                  Dropped == /\ toServer'[k] = toServer[k]
                             /\ toClient'[k] \in {toClient[k], <<>>}
                             /\ \A r \in Requests : Owes(c, r)' => Owes(c, r)
      <4>b. ASSUME Dropped
            PROVE  PlaceInv' /\ StageMoves
        BY <2>1, <3>2, <4>b, Drops
      <4>. USE Shapes DEF serverVars, netVars, Owes
      <4>1. ASSUME ConnectRefused(c) \/ Crash(c)
            PROVE  Dropped
        BY <3>2, <4>1, <4>a DEF ConnectRefused, Crash, Reset, Unread, Requests
      <4>2. ASSUME ConnectFails(c) \/ OtherThread(c)
            PROVE  Dropped
        BY <4>2, <4>a DEF ConnectFails, OtherThread, Disconnect, CheckCommand, StoreCommand,
           ModeInv
      <4>3. ASSUME \/ RunCallbackBased(c) \/ PollTimeout(c) \/ RunFails(c) \/ PollFails(c)
                   \/ \E t \in PollTimeouts : PollCommand(c, t)
            PROVE  Dropped
        BY <4>3, <4>a DEF RunCallbackBased, PollTimeout, RunFails, PollFails, PollCommand,
           PollReturns, ModeInv, CallInv, Requests
      <4>. QED
        BY <1>2, <3>2, <4>b, <4>1, <4>2, <4>3, TakesRequest, AnswersPing, AnswersRequest,
           ReadsConnectOk DEF ClientStep
    <3>. QED
      BY <3>1, <3>2
  <2>. QED
    BY <2>1, <2>2, <2>3, StageStep DEF SimInv, Moves
<1>. QED
  BY <1>1, <1>2

-----------------------------------------------------------------------------
(* What the server does.                                                   *)

\* A call that ends without a client, or is still at Connect, ends the session.
LEMMA SessionEnds ==
    ASSUME Types, serverAt' \in {"idle", "accept", "hello", "attach"},
           serverAt' = "idle" => serverChannel' = 0
    PROVE  [LockStep!Next]_LockStep!vars
<1>1. Session' = 0 /\ Asked' = "None" /\ Stage' = "none"
  BY DEF Session, Asked, Stage
<1>2. Session = 0 => Asked = "None" /\ Stage = "none"
  BY DEF Session, Asked, Stage, Types, ServerAttached
<1>. QED
  BY <1>1, <1>2 DEF LockStep!Next, LockStep!Detach, LockStep!vars

\* The server sends a request over its connection.
LEMMA SimRequest ==
    ASSUME Types, StepInv, SimInv, NEW r \in Requests, serverChannel # 0,
           serverAt \in {"attach", "idle"}, serverAt' = "wait", request' = r,
           UNCHANGED <<clientVars, owner, serverChannel>>,
           toClient' = Deliver(toClient, serverChannel, Frame(r)),
           toServer'[serverChannel] = toServer[serverChannel]
    PROVE  PlaceInv' /\ Stage' \in {"sent", "lost"}
<1>. DEFINE k == serverChannel
            c == owner[k]
            q == toClient[k]
<1>1. k \in Conns /\ toServer[k] = <<>> /\ q \in Seq(Frames)
  BY Shapes DEF StepInv, AnswerInv, FrameQueues
<1>2. channel[c] = k =>
        /\ \A i \in DOMAIN q : q[i].kind \notin Requests
        /\ \A s \in Requests : ~Owes(c, s)
  BY DEF SimInv, PlaceInv, InQueue, AtClient
<1>3. \A d, s : Owes(d, s)' = Owes(d, s)
  BY DEF Owes, clientVars
<1>4. PlaceInv'
  <2>. SUFFICES ASSUME channel[c] = k
                PROVE  InQueue(c, k)' /\ AtClient(c, k)'
    BY DEF PlaceInv, clientVars
  <2>1. AtClient(c, k)'
    BY <1>2, <1>3 DEF AtClient
  <2>2. CASE toClient'[k] = q
    BY <1>1, <1>2, <2>1, <2>2 DEF InQueue
  <2>3. CASE up[k]
    <3>1. toClient'[k] = Append(q, Frame(r)) /\ Frame(r).kind = r
      BY <1>1, <2>3, Shapes DEF Deliver, Frame, FrameQueues
    <3>2. /\ \A i \in DOMAIN toClient'[k] :
                (i \in DOMAIN q /\ toClient'[k][i] = q[i]) \/ i = Len(toClient'[k])
          /\ toClient'[k][Len(toClient'[k])].kind = r
      BY <1>1, <3>1
    <3>. QED
      BY <1>1, <1>2, <1>3, <2>1, <3>2 DEF InQueue
  <2>. QED
    BY <1>1, <2>2, <2>3 DEF Deliver
<1>5. Stage' \in {"sent", "lost"}
  <2>1. ~(channel[c] = k /\ Owes(c, r)) /\ channel' = channel
    BY <1>2 DEF clientVars
  <2>2. Owes(c, request)' = Owes(c, r)
    BY DEF Owes, clientVars
  <2>. QED
    BY <1>1, <2>1, <2>2 DEF Stage
<1>. QED
  BY <1>4, <1>5

\* The server's call returns to the host, or the connect-ok frame was sent.
LEMMA SimRests ==
    ASSUME Types, StepInv, SimInv, serverChannel # 0, serverAt' \in {"idle", "attach"},
           UNCHANGED <<clientVars, owner, serverChannel>>,
           channel[owner[serverChannel]] = serverChannel =>
              /\ \A i \in DOMAIN toClient'[serverChannel] :
                    toClient'[serverChannel][i].kind \notin Requests
              /\ \A r \in Requests : ~Owes(owner[serverChannel], r)
    PROVE  PlaceInv'
<1>1. \A d, s : Owes(d, s)' = Owes(d, s)
  BY DEF Owes, clientVars
<1>. QED
  BY <1>1 DEF PlaceInv, InQueue, AtClient, clientVars

\* Every step of the server keeps the invariant and is a step of CoSimLockStep.
LEMMA SimServer ==
    ASSUME Types, ReachInv, LinkInv, StepInv, SimInv, ServerStep
    PROVE  SimInv' /\ [LockStep!Next]_LockStep!vars
<1>. USE DEF netVars
<1>a. /\ serverAt \in {"hello", "attach", "wait"} => serverChannel # 0
      /\ serverAt = "accept" => serverChannel = 0
  BY DEF Types, ServerAttached, ReachInv
<1>b. UNCHANGED <<clientVars, owner, connections>>
  BY DEF ServerStep, Load, Unload, HostRequest, HostCallWithoutClient, AcceptChannel, AcceptFails,
     AnswerConnect, Attach, AttachFails, AttachedPeerGone, ReceiveReply, ReceiveFails
<1>c. OwnedInv' /\ CallsInv'
  BY <1>b DEF SimInv, OwnedInv, Made, CallsInv, CallInv, clientVars
<1>. SUFFICES PlaceInv' /\ [LockStep!Next]_LockStep!vars
  BY <1>c DEF SimInv
<1>d. ASSUME serverAt' \in {"idle", "accept", "hello"}, serverAt' # "hello" => serverChannel' = 0
      PROVE  PlaceInv' /\ [LockStep!Next]_LockStep!vars
  BY <1>d, SessionEnds DEF PlaceInv
<1>e. CloseConnection => PlaceInv' /\ [LockStep!Next]_LockStep!vars
  BY <1>d DEF CloseConnection
<1>1. CASE Load
  BY <1>1, <1>d DEF Load, ReachInv
<1>2. CASE Unload
  BY <1>2, <1>d DEF Unload
<1>3. ASSUME NEW r \in HostCalls, HostRequest(r)
      PROVE  PlaceInv' /\ [LockStep!Next]_LockStep!vars
  <2>1. CASE serverAt' = "wait" /\ UNCHANGED <<serverChannel, toServer>>
    <3>1. r \in Requests /\ r # "None"
      BY ConstantsAssumption DEF Requests
    <3>2. /\ serverChannel # 0 /\ serverAt = "idle" /\ request' = r
          /\ toClient' = Deliver(toClient, serverChannel, Frame(r))
      BY <1>3, <2>1 DEF HostRequest, CloseConnection
    <3>3. PlaceInv' /\ Stage' \in {"sent", "lost"}
      BY <1>b, <2>1, <3>1, <3>2, SimRequest
    <3>4. LockStep!Request
      BY <2>1, <3>1, <3>2, <3>3 DEF LockStep!Request, Session, Asked
    <3>. QED
      BY <3>3, <3>4 DEF LockStep!Next
  <2>. QED
    BY <1>3, <1>e, <2>1 DEF HostRequest
<1>4. ASSUME NEW r \in HostCalls, HostCallWithoutClient(r)
      PROVE  PlaceInv' /\ [LockStep!Next]_LockStep!vars
  BY <1>4, <1>d DEF HostCallWithoutClient
<1>5. CASE AcceptChannel
  BY <1>5, <1>d DEF AcceptChannel
<1>6. CASE AcceptFails
  BY <1>6, <1>a, <1>d DEF AcceptFails
<1>7. CASE AnswerConnect
  <2>1. CASE serverAt' = "attach" /\ UNCHANGED serverChannel
    <3>. DEFINE k == serverChannel
                c == owner[k]
    <3>1. k \in Conns /\ Pristine(k)
      BY <1>7, <1>a, Shapes DEF AnswerConnect, StepInv, PristineInv, Unanswered
    <3>2. \E frame : frame.kind = "ConnectOk" /\ toClient' = Deliver(toClient, k, frame)
      BY <1>7, <2>1 DEF AnswerConnect, CloseConnection, ConnectOkFrame
    <3>3. \A i \in DOMAIN toClient'[k] : toClient'[k][i].kind \notin Requests
      <4>1. PICK frame : frame.kind = "ConnectOk" /\ toClient' = Deliver(toClient, k, frame)
        BY <3>2
      <4>2. toClient'[k] \in {<<>>, <<frame>>}
        BY <3>1, <4>1, Shapes DEF Pristine, Deliver, FrameQueues
      <4>. QED
        BY <4>1, <4>2 DEF Requests
    <3>4. channel[c] = k => \A r \in Requests : ~Owes(c, r)
      <4>1. c \in Clients
        BY <3>1 DEF SimInv, OwnedInv, LinkInv, MadeInv
      <4>. QED
        BY <3>1, <4>1 DEF Pristine, InSession, Owes, Requests
    <3>5. PlaceInv'
      BY <1>a, <1>b, <1>7, <2>1, <3>3, <3>4, SimRests DEF AnswerConnect
    <3>. QED
      BY <2>1, <3>5, SessionEnds
  <2>. QED
    BY <1>7, <1>e, <2>1 DEF AnswerConnect
<1>8. CASE Attach
  <2>. DEFINE k == serverChannel
  <2>1. /\ k # 0 /\ k \in Conns /\ serverAt = "attach" /\ UNCHANGED <<serverChannel, request>>
        /\ toServer'[k] = toServer[k]
    BY <1>8, <1>a, Shapes DEF Attach, DropBacklog, LinkInv, BacklogInv, Waiting
  <2>2. Session = 0 /\ Session' = k
    BY <1>8, <2>1 DEF Attach, Session
  <2>3. CASE request = "Start"
    <3>1. serverAt' = "wait" /\ toClient' = Deliver(toClient, k, Frame("Start")) /\ "Start" \in Requests
      BY <1>8, <2>3 DEF Attach, Requests
    <3>2. PlaceInv' /\ Stage' \in {"sent", "lost"}
      BY <1>b, <2>1, <2>3, <3>1, SimRequest
    <3>3. LockStep!Attach
      BY <2>1, <2>2, <2>3, <3>1, <3>2 DEF LockStep!Attach, Asked
    <3>. QED
      BY <3>2, <3>3 DEF LockStep!Next
  <2>4. CASE request # "Start"
    <3>1. serverAt' = "idle" /\ UNCHANGED toClient
      BY <1>8, <2>4 DEF Attach
    <3>2. channel[owner[k]] = k =>
             /\ \A i \in DOMAIN toClient'[k] : toClient'[k][i].kind \notin Requests
             /\ \A r \in Requests : ~Owes(owner[k], r)
      BY <2>1, <3>1 DEF SimInv, PlaceInv, InQueue, AtClient
    <3>3. PlaceInv'
      BY <1>b, <2>1, <3>1, <3>2, SimRests
    <3>4. LockStep!Attach
      BY <2>1, <2>2, <3>1 DEF LockStep!Attach, Asked, Stage
    <3>. QED
      BY <3>3, <3>4 DEF LockStep!Next
  <2>. QED
    BY <2>3, <2>4
<1>9. CASE AttachFails
  BY <1>9, <1>e DEF AttachFails
<1>10. CASE AttachedPeerGone
  BY <1>10, <1>d DEF AttachedPeerGone
<1>11. CASE ReceiveReply
  <2>1. CASE serverAt' = "idle" /\ UNCHANGED serverChannel
    <3>. DEFINE k == serverChannel
    <3>1. serverAt = "wait" /\ k # 0 /\ toServer[k] # <<>> /\ UNCHANGED toClient
      BY <1>11, <1>a DEF ReceiveReply
    <3>2. channel[owner[k]] = k =>
             /\ \A i \in DOMAIN toClient'[k] : toClient'[k][i].kind \notin Requests
             /\ \A r \in Requests : ~Owes(owner[k], r)
      BY <3>1 DEF SimInv, PlaceInv, InQueue, AtClient
    <3>3. PlaceInv'
      BY <1>b, <2>1, <3>1, <3>2, SimRests
    <3>4. LockStep!End
      BY <2>1, <3>1 DEF LockStep!End, Session, Asked, Stage
    <3>. QED
      BY <3>3, <3>4 DEF LockStep!Next
  <2>. QED
    BY <1>11, <1>e, <2>1 DEF ReceiveReply
<1>12. CASE ReceiveFails
  BY <1>12, <1>e DEF ReceiveFails
<1>. QED
  BY <1>1, <1>2, <1>3, <1>4, <1>5, <1>6, <1>7, <1>8, <1>9, <1>10, <1>11, <1>12
  DEF ServerStep

\* A connection that breaks, and no step at all.
LEMMA SimElse ==
    ASSUME SimInv, (\E k \in Conns : BreakConnection(k)) \/ UNCHANGED vars
    PROVE  SimInv' /\ [LockStep!Next]_LockStep!vars
<1>1. UNCHANGED <<serverVars, clientVars, connections, owner, toServer, toClient>>
  BY DEF BreakConnection, vars, netVars
<1>. USE <1>1 DEF serverVars, clientVars
<1>2. \A d, r : Owes(d, r)' = Owes(d, r)
  BY DEF Owes
<1>3. OwnedInv' /\ CallsInv'
  BY DEF SimInv, OwnedInv, Made, CallsInv, CallInv
<1>4. PlaceInv'
  BY <1>2 DEF SimInv, PlaceInv, InQueue, AtClient
<1>5. UNCHANGED LockStep!vars
  BY DEF LockStep!vars, Session, Asked, Stage, Owes, Carries
<1>. QED
  BY <1>3, <1>4, <1>5 DEF SimInv

-----------------------------------------------------------------------------
(* The refinement.                                                         *)

\* Every step keeps the invariant and is a step of CoSimLockStep.
LEMMA SimNext ==
    ASSUME Types, ReachInv, LinkInv, StepInv, SimInv, [Next]_vars
    PROVE  SimInv' /\ [LockStep!Next]_LockStep!vars
  BY SimServer, SimClient, SimElse DEF Next

\* The invariant, in every behaviour.
LEMMA SimHolds == Spec => []SimInv
<1>1. Types /\ ReachInv /\ LinkInv /\ StepInv /\ SimInv /\ [Next]_vars => SimInv'
  BY SimNext
<1>. QED
  BY <1>1, SimInit, TypesHold, LinksHold, StepsHold, PTL DEF Spec

\* The session keeps the promise of CoSimLockStep: the server has at most one
\* request at a time, the client takes it once, answers it once and not before
\* its callbacks ended, and the request ends by that answer or with the session.
THEOREM KeepsLockStep == Spec => ImplementsLockStep
<1>1. Init => LockStep!Init
  BY DEF Init, LockStep!Init, Session, Asked, Stage
<1>2. /\ Types /\ ReachInv /\ LinkInv /\ StepInv /\ SimInv /\ [Next]_vars
         => [LockStep!Next]_LockStep!vars
  BY SimNext
<1>. QED
  BY <1>1, <1>2, SimHolds, TypesHold, LinksHold, StepsHold, PTL
     DEF Spec, ImplementsLockStep, LockStep!Spec

-----------------------------------------------------------------------------
(* What the frames carry: the inductive invariant.                         *)

\* The first frame over a connection asks for the version of its client.
FirstInv == \A k \in Conns : Unanswered(k) => toServer[k][1] = ConnectFrame(owner[k])

\* Once the server answered, the version it speaks is not newer than the one
\* asked for, the one the connect-ok frame carries, and the client's.
VersionInv ==
    LET k == serverChannel IN
    k # 0 /\ serverAt # "hello" =>
        /\ serverVersion <= ClientVersion[owner[k]]
        /\ \A i \in DOMAIN toClient[k] :
              toClient[k][i].kind = "ConnectOk" => toClient[k][i].version = serverVersion
        /\ \A c \in Clients : isConnected[c] /\ channel[c] = k => clientVersion[c] = serverVersion

\* The command a client has pending is newer than its connection and than what
\* the host was told of.
PendingInv(c) ==
    /\ nextCommand[c] <= issued[c]
    /\ channel[c] # 0 => /\ issuedBefore[channel[c]] <= issued[c]
                         /\ nextCommand[c] # 0 => issuedBefore[channel[c]] < nextCommand[c]
    /\ \A i \in DOMAIN delivered[c] : /\ delivered[c][i] <= issued[c]
                                      /\ nextCommand[c] # 0 => delivered[c][i] < nextCommand[c]

\* So is the one on its way to the server; the pending one is newer still.
ComingInv ==
    LET k == serverChannel
        c == owner[k]
        n == toServer[k][1].command
    IN  serverAt = "wait" /\ toServer[k] # <<>> /\ n # 0 =>
            /\ issuedBefore[k] < n
            /\ n <= issued[c]
            /\ nextCommand[c] # 0 => n < nextCommand[c]
            /\ \A i \in DOMAIN delivered[c] : delivered[c][i] < n

PendingsInv == \A c \in Clients : PendingInv(c)
DataInv == FirstInv /\ VersionInv /\ PendingsInv /\ ComingInv /\ CommandsInOrderOnce

\* It holds at first.
LEMMA DataInit == Init => DataInv
<1>. SUFFICES ASSUME Init PROVE DataInv
  OBVIOUS
<1>1. DOMAIN backlog = {}
  BY DEF Init
<1>2. FirstInv
  BY <1>1 DEF Init, FirstInv, Unanswered, Waiting
<1>3. VersionInv /\ ComingInv
  BY DEF Init, VersionInv, ComingInv
<1>4. PendingsInv /\ CommandsInOrderOnce
  BY DEF Init, PendingsInv, PendingInv, CommandsInOrderOnce
<1>. QED
  BY <1>2, <1>3, <1>4 DEF DataInv

\* The types of the numbers.
LEMMA Numbers ==
    ASSUME Types
    PROVE  /\ nextCommand \in [Clients -> 0 .. MaxCommands]
           /\ issued \in [Clients -> 0 .. MaxCommands]
           /\ issuedBefore \in [Conns -> 0 .. MaxCommands]
           /\ delivered \in [Clients -> Seq(1 .. MaxCommands)]
           /\ clientVersion \in [Clients -> Nat] /\ serverVersion \in Nat
           /\ \A c \in Clients : ClientVersion[c] \in Nat
           /\ MaxCommands \in Nat
           /\ \A c \in Clients : \A i \in DOMAIN delivered[c] : delivered[c][i] \in 1 .. MaxCommands
  BY ConstantsAssumption DEF Types, TypeOK, ServerTypes, ClientTypes, HistoryTypes

-----------------------------------------------------------------------------
(* What a client does.                                                     *)

\* What a client sends reaches the server only as the one answer it waits for.
Answers(c) ==
    \E r \in Requested :
        /\ serverChannel # 0 /\ channel[c] = serverChannel /\ serverAt = "wait"
        /\ toServer[serverChannel] = <<>>
        /\ toServer' = [toServer EXCEPT ![serverChannel] = <<Reply(c, r)>>]
        /\ TakeCommand(c, r)

\* An answer is sent by a client that took the request.
LEMMA SendsAnswer ==
    ASSUME Types, LinkInv, StepInv, NEW c \in Clients, NEW r \in Requested, SendReply(c, r),
           \/ RunPing(c) \/ PollPing(c)
           \/ RunFinish(c)
           \/ FinishCommand(c)
    PROVE  /\ toServer' = toServer \/ Answers(c)
           /\ nextCommand'[c] \in {0, nextCommand[c]}
           /\ \A d \in Clients \ {c} : nextCommand'[d] = nextCommand[d]
<1>1. channel[c] \in Conns /\ InSession(c) /\ ModeInv(c)
  BY Shapes DEF RunPing, PollPing, RunFinish, FinishCommand, InSession, StepInv, ClientsInv,
     ClientInv
<1>2. CASE ~up[channel[c]]
  BY <1>2, Numbers DEF SendReply, Deliver, TakeCommand
<1>3. CASE up[channel[c]]
  <2>1. toClient[channel[c]] # <<>> \/ Taken(c) # "None"
    BY <1>1 DEF RunPing, PollPing, RunFinish, FinishCommand, Taken, ModeInv, Requests
  <2>2. /\ serverChannel = channel[c] /\ serverChannel # 0 /\ serverAt = "wait"
        /\ toServer[serverChannel] = <<>>
    BY <1>1, <1>3, <2>1, Alive DEF NoRequest, Sent, IsTaken, Answered
  <2>3. toServer' = [toServer EXCEPT ![serverChannel] = <<Reply(c, r)>>]
    BY <1>1, <1>3, <2>2, Shapes DEF SendReply, Deliver, FrameQueues
  <2>. QED
    BY <2>2, <2>3, Numbers DEF SendReply, Answers, TakeCommand
<1>. QED
  BY <1>2, <1>3

\* What a step of a client but Connect does to what the invariant speaks of.
Quiet(c) ==
    /\ UNCHANGED <<serverVersion, connections, issuedBefore, delivered>>
    /\ toServer' = toServer \/ Answers(c)
    /\ \A d \in Clients \ {c} : UNCHANGED <<nextCommand[d], issued[d], clientVersion[d]>>
    /\ \/ /\ nextCommand'[c] \in {0, nextCommand[c]}
          /\ issued'[c] = issued[c]
       \/ /\ issued'[c] = issued[c] + 1
          /\ nextCommand'[c] = issued[c] + 1
          /\ toServer' = toServer

LEMMA AllQuiet ==
    ASSUME Types, LinkInv, StepInv, NEW c \in Clients,
           (ClientStep(c) /\ ~Connect(c)) \/ OtherThread(c) \/ Crash(c)
    PROVE  Quiet(c)
<1>. USE Numbers DEF Quiet, serverVars, netVars, clientVars, historyVars
<1>1. CASE ConnectRefused(c) \/ Crash(c)
  BY <1>1 DEF ConnectRefused, Crash, Reset
<1>2. CASE ConnectOk(c) \/ ConnectFails(c)
  BY <1>2 DEF ConnectOk, ConnectFails
<1>3. CASE RunCallbackBased(c) \/ PollTimeout(c) \/ \E t \in PollTimeouts : PollCommand(c, t)
  BY <1>3 DEF RunCallbackBased, PollTimeout, PollCommand
<1>4. CASE RunReceive(c) \/ PollReceive(c) \/ RunFails(c) \/ PollFails(c)
  BY <1>4 DEF RunReceive, PollReceive, RunFails, PollFails
<1>5. CASE RunPing(c) \/ PollPing(c)
  <2>1. "Ping" \in Requested
    BY DEF Requested, Requests
  <2>2. CASE SendReply(c, "Ping")
    BY <1>5, <2>1, <2>2, SendsAnswer DEF RunPing, PollPing
  <2>3. CASE FailReply(c, "Ping")
    BY <1>5, <2>3 DEF RunPing, PollPing, FailReply, TakeCommand
  <2>. QED
    BY <1>5, <2>2, <2>3 DEF RunPing, PollPing
<1>6. CASE RunFinish(c)
  <2>1. serving[c] \in Requested
    BY Shapes
  <2>2. CASE SendReply(c, serving[c])
    BY <1>6, <2>1, <2>2, SendsAnswer DEF RunFinish
  <2>3. CASE FailReply(c, serving[c])
    BY <1>6, <2>3 DEF RunFinish, FailReply, TakeCommand
  <2>. QED
    BY <1>6, <2>2, <2>3 DEF RunFinish
<1>7. CASE FinishCommand(c)
  <2>1. currentCommand[c] \in Requested
    BY Shapes
  <2>2. CASE SendReply(c, currentCommand[c])
    BY <1>7, <2>1, <2>2, SendsAnswer DEF FinishCommand
  <2>3. CASE FailReply(c, currentCommand[c])
    BY <1>7, <2>3 DEF FinishCommand, FailReply, TakeCommand
  <2>. QED
    BY <1>7, <2>2, <2>3 DEF FinishCommand
<1>8. CASE Disconnect(c) \/ CheckCommand(c) \/ StoreCommand(c)
  BY <1>8 DEF Disconnect, CheckCommand, StoreCommand
<1>. QED
  BY <1>1, <1>2, <1>3, <1>4, <1>5, <1>6, <1>7, <1>8 DEF ClientStep, OtherThread

\* What is left to read was there before, and who is connected was so before or
\* took the version from the connect-ok frame.
LEMMA Joins ==
    ASSUME Types, StepInv, NEW c \in Clients,
           (ClientStep(c) /\ ~Connect(c)) \/ OtherThread(c) \/ Crash(c)
    PROVE  /\ toClient' \in {toClient, Unread(c)} \/ (Pop(c) /\ channel[c] \in Conns
                                                     /\ toClient[channel[c]] # <<>>)
           /\ isConnected'[c] =>
                \/ isConnected[c] /\ UNCHANGED <<channel[c], clientVersion[c]>>
                \/ /\ channel'[c] = channel[c] /\ channel[c] \in Conns
                   /\ toClient[channel[c]] # <<>> /\ Received(c) = "ConnectOk"
                   /\ clientVersion'[c] = Head(toClient[channel[c]]).version
<1>a. ModeInv(c)
  BY DEF StepInv, ClientsInv, ClientInv
<1>. USE Shapes DEF serverVars, netVars, clientVars, historyVars
<1>1. CASE ConnectRefused(c) \/ Crash(c)
  BY <1>1 DEF ConnectRefused, Crash, Reset
<1>2. CASE ConnectOk(c)
  BY <1>2, <1>a, Numbers DEF ConnectOk, ModeInv
<1>3. CASE ConnectFails(c) \/ RunCallbackBased(c) \/ PollTimeout(c)
             \/ \E t \in PollTimeouts : PollCommand(c, t)
  BY <1>3 DEF ConnectFails, RunCallbackBased, PollTimeout, PollCommand
<1>4. CASE RunReceive(c) \/ PollReceive(c) \/ RunFails(c) \/ PollFails(c)
  BY <1>4 DEF RunReceive, PollReceive, RunFails, PollFails
<1>5. CASE RunPing(c) \/ PollPing(c)
  BY <1>5 DEF RunPing, PollPing, SendReply, FailReply
<1>6. CASE RunFinish(c) \/ FinishCommand(c)
  BY <1>6 DEF RunFinish, FinishCommand, SendReply, FailReply
<1>7. CASE OtherThread(c)
  BY <1>7 DEF OtherThread, Disconnect, CheckCommand, StoreCommand
<1>. QED
  BY <1>1, <1>2, <1>3, <1>4, <1>5, <1>6, <1>7 DEF ClientStep

\* A client agrees on the version when it reads the connect-ok frame.
LEMMA VersionClient ==
    ASSUME Types, StepInv, VersionInv, NEW c \in Clients, Moves(c), Quiet(c),
           (ClientStep(c) /\ ~Connect(c)) \/ OtherThread(c) \/ Crash(c)
    PROVE  VersionInv'
<1>. DEFINE k == serverChannel
<1>. SUFFICES ASSUME k # 0, serverAt # "hello"
              PROVE  VersionInv'
  BY DEF VersionInv, Moves
<1>1. k \in Conns /\ UNCHANGED <<serverChannel, serverVersion, owner>>
  BY Shapes DEF Moves, Quiet
<1>2. ASSUME NEW i \in DOMAIN toClient'[k]
      PROVE  \E j \in DOMAIN toClient[k] : toClient'[k][i] = toClient[k][j]
  <2>1. CASE toClient' \in {toClient, Unread(c)}
    <3>1. DOMAIN <<>> = {}
      OBVIOUS
    <3>. QED
      BY <1>1, <1>2, <2>1, <3>1, Shapes DEF Unread, FrameQueues
  <2>2. CASE Pop(c) /\ channel[c] \in Conns /\ toClient[channel[c]] # <<>>
    <3>1. CASE k # channel[c]
      BY <1>1, <1>2, <2>2, <3>1, Popped
    <3>2. CASE k = channel[c]
      <4>1. toClient'[k] = Tail(toClient[k])
        BY <2>2, <3>2, Popped
      <4>2. i + 1 \in DOMAIN toClient[k] /\ toClient'[k][i] = toClient[k][i + 1]
        BY <1>2, <2>2, <3>2, <4>1, Popped
      <4>. QED
        BY <4>2
    <3>. QED
      BY <3>1, <3>2
  <2>3. toClient' \in {toClient, Unread(c)} \/ (Pop(c) /\ channel[c] \in Conns
                                                 /\ toClient[channel[c]] # <<>>)
    BY Joins
  <2>. QED
    BY <2>1, <2>2, <2>3
<1>3. ASSUME NEW d \in Clients, isConnected'[d], channel'[d] = k
      PROVE  clientVersion'[d] = serverVersion
  <2>1. CASE d # c
    BY <1>3, <2>1 DEF Moves, Same, Quiet, VersionInv
  <2>2. CASE d = c /\ isConnected[c] /\ UNCHANGED <<channel[c], clientVersion[c]>>
    BY <1>3, <2>2 DEF VersionInv
  <2>3. CASE /\ d = c /\ channel[c] = k /\ toClient[k] # <<>> /\ Received(c) = "ConnectOk"
             /\ clientVersion'[c] = Head(toClient[k]).version
    <3>1. toClient[k] \in Seq(Frames)
      BY <1>1, Shapes DEF FrameQueues
    <3>2. 1 \in DOMAIN toClient[k] /\ Head(toClient[k]) = toClient[k][1]
      BY <2>3, <3>1
    <3>. QED
      BY <2>3, <3>2 DEF VersionInv, Received
  <2>. QED
    BY <1>3, <2>1, <2>2, <2>3, Joins
<1>. QED
  BY <1>1, <1>2, <1>3 DEF VersionInv

\* A client that answers hands over its pending command, one that stores a
\* command makes it newer than all before.
LEMMA DataClient ==
    ASSUME Types, LinkInv, StepInv, SimInv, DataInv, NEW c \in Clients,
           (ClientStep(c) /\ ~Connect(c)) \/ OtherThread(c) \/ Crash(c)
    PROVE  DataInv' /\ UNCHANGED delivered
<1>. DEFINE k == serverChannel
<1>1. Moves(c) /\ Quiet(c)
  BY AllMove, AllQuiet
<1>2. /\ UNCHANGED <<serverChannel, serverAt, request, backlog, owner, issuedBefore, delivered>>
      /\ channel'[c] \in {0, channel[c]} /\ \A d \in Clients \ {c} : channel'[d] = channel[d]
  BY <1>1 DEF Moves, Quiet, Same
<1>3. FirstInv'
  <2>. SUFFICES ASSUME NEW j \in Conns, Unanswered(j)
                PROVE  toServer'[j] = toServer[j]
    BY <1>2 DEF DataInv, FirstInv, Unanswered, Waiting
  <2>1. ~Answers(c) \/ j # serverChannel
    BY DEF Answers, Unanswered, LinkInv, BacklogInv, Waiting
  <2>. QED
    BY <1>1, <2>1, Shapes DEF Quiet, Answers, FrameQueues
<1>4. VersionInv'
  BY <1>1, VersionClient DEF DataInv
<1>5. PendingsInv'
  <2>1. ASSUME NEW d \in Clients
        PROVE  PendingInv(d)'
    <3>1. PendingInv(d)
      BY DEF DataInv, PendingsInv
    <3>2. CASE d # c
      BY <1>1, <1>2, <3>1, <3>2 DEF Quiet, PendingInv
    <3>3. CASE d = c
      <4>1. /\ nextCommand[c] \in Nat /\ issued[c] \in Nat
            /\ channel[c] # 0 => issuedBefore[channel[c]] \in Nat
            /\ \A i \in DOMAIN delivered[c] : delivered[c][i] \in Nat
        BY Numbers, Shapes DEF Conns
      <4>2. UNCHANGED <<issuedBefore, delivered>> /\ channel'[c] \in {0, channel[c]}
        BY <1>2
      <4>3. CASE nextCommand'[c] \in {0, nextCommand[c]} /\ issued'[c] = issued[c]
        BY <3>1, <3>3, <4>1, <4>2, <4>3 DEF PendingInv
      <4>4. CASE issued'[c] = issued[c] + 1 /\ nextCommand'[c] = issued[c] + 1
        BY <3>1, <3>3, <4>1, <4>2, <4>4 DEF PendingInv
      <4>. QED
        BY <1>1, <4>3, <4>4 DEF Quiet
    <3>. QED
      BY <3>2, <3>3
  <2>. QED
    BY <2>1 DEF PendingsInv
<1>6. ComingInv'
  <2>. SUFFICES ASSUME serverAt = "wait", toServer'[k] # <<>>, toServer'[k][1].command # 0
                PROVE  ComingInv'
    BY <1>2 DEF ComingInv
  <2>. DEFINE o == owner[k]
              n == toServer'[k][1].command
  <2>1. k \in Conns /\ o \in Clients
    BY Shapes DEF Types, ServerAttached, SimInv, OwnedInv, LinkInv, MadeInv
  <2>2. CASE toServer' = toServer
    <3>1. /\ issuedBefore[k] < n /\ n <= issued[o]
          /\ nextCommand[o] # 0 => n < nextCommand[o]
          /\ \A i \in DOMAIN delivered[o] : delivered[o][i] < n
      BY <2>2 DEF DataInv, ComingInv
    <3>0. n \in Nat
      <4>1. toServer[k] \in Seq(Frames)
        BY <2>1, Shapes DEF FrameQueues
      <4>2. toServer[k][1] \in Frames
        BY <2>2, <4>1
      <4>. QED
        BY <2>2, <4>2, Numbers DEF Frames
    <3>2. n <= issued'[o] /\ (nextCommand'[o] # 0 => n < nextCommand'[o])
      <4>. HIDE DEF n
      <4>1. CASE o # c
        BY <1>1, <2>1, <3>1, <4>1 DEF Quiet
      <4>2. CASE o = c
        BY <1>1, <3>0, <3>1, <4>2, Numbers DEF Quiet
      <4>. QED
        BY <4>1, <4>2
    <3>. QED
      BY <1>2, <3>1, <3>2 DEF ComingInv
  <2>3. CASE toServer' # toServer
    <3>1. PICK r \in Requested :
             /\ k # 0 /\ channel[c] = k
             /\ toServer' = [toServer EXCEPT ![k] = <<Reply(c, r)>>]
             /\ TakeCommand(c, r)
      BY <1>1, <2>3 DEF Quiet, Answers
    <3>2. o = c /\ PendingInv(c)
      BY <3>1 DEF StepInv, ClientsInv, ClientInv, ModeInv, DataInv, PendingsInv
    <3>3. toServer'[k] = <<Reply(c, r)>>
      BY <2>1, <3>1, Shapes DEF FrameQueues
    <3>4. n = IF CarriesCommand(r) THEN nextCommand[c] ELSE 0
      BY <3>3 DEF Reply, Frame
    <3>5. n = nextCommand[c] /\ n # 0 /\ nextCommand'[c] = 0
      BY <3>1, <3>4, Numbers DEF TakeCommand
    <3>6. issued'[c] = issued[c]
      BY <1>1, <2>3 DEF Quiet
    <3>. QED
      BY <1>2, <3>1, <3>2, <3>5, <3>6 DEF PendingInv, ComingInv
  <2>. QED
    BY <2>2, <2>3
<1>7. CommandsInOrderOnce'
  BY <1>2 DEF DataInv, CommandsInOrderOnce
<1>. QED
  BY <1>2, <1>3, <1>4, <1>5, <1>6, <1>7 DEF DataInv

\* Connect makes a connection that is newer than every command so far, and drops
\* the pending one.
LEMMA DataConnect ==
    ASSUME Types, LinkInv, StepInv, SimInv, DataInv, NEW c \in Clients, Connect(c)
    PROVE  DataInv' /\ UNCHANGED delivered
<1>. DEFINE new == connections + 1
            k == serverChannel
<1>1. /\ new \in Conns /\ connections \in Nat /\ ~isConnected[c]
      /\ owner' = [owner EXCEPT ![new] = c] /\ channel' = [channel EXCEPT ![c] = new]
      /\ toServer' = [toServer EXCEPT ![new] = <<ConnectFrame(c)>>] /\ toClient' = Unread(c)
      /\ issuedBefore' = [issuedBefore EXCEPT ![new] = issued[c]]
      /\ nextCommand' = [nextCommand EXCEPT ![c] = 0]
      /\ clientVersion' = [clientVersion EXCEPT ![c] = 1]
      /\ backlog' = Append(backlog, new)
      /\ UNCHANGED <<serverChannel, serverAt, request, serverVersion, isConnected, issued, delivered>>
  BY DEF Connect, Reset, serverVars, Types, TypeOK, NetTypes
<1>2. /\ k # new /\ \A i \in DOMAIN backlog : backlog[i] # new
      /\ \A d \in Clients : channel[d] # new
  BY <1>1 DEF LinkInv, MadeInv, Made
<1>3. \A j \in Conns : j # new => UNCHANGED <<owner[j], toServer[j], issuedBefore[j]>>
  BY <1>1, Shapes, Numbers DEF FrameQueues
<1>4. FirstInv'
  <2>. SUFFICES ASSUME NEW j \in Conns, Unanswered(j)'
                PROVE  toServer'[j][1] = ConnectFrame(owner'[j])
    BY DEF FirstInv, ConnectFrame, Frame
  <2>1. CASE j = new
    BY <1>1, <2>1, Shapes DEF FrameQueues
  <2>2. CASE j # new
    <3>1. Unanswered(j)
      BY <1>1, <2>2, Shapes DEF Unanswered, Waiting
    <3>. QED
      BY <1>3, <2>2, <3>1 DEF DataInv, FirstInv
  <2>. QED
    BY <2>1, <2>2
<1>5. VersionInv'
  <2>. SUFFICES ASSUME k # 0, serverAt # "hello"
                PROVE  VersionInv'
    BY <1>1 DEF VersionInv
  <2>1. k \in Conns /\ owner'[k] = owner[k]
    BY <1>2, <1>3, Shapes
  <2>2. toClient'[k] \in {toClient[k], <<>>} /\ DOMAIN <<>> = {}
    BY <1>1, <2>1 DEF Unread
  <2>3. ASSUME NEW d \in Clients, isConnected[d], channel'[d] = k
        PROVE  d # c /\ channel[d] = k /\ clientVersion'[d] = clientVersion[d]
    BY <1>1, <2>3, Shapes, Numbers
  <2>. QED
    BY <1>1, <2>1, <2>2, <2>3 DEF DataInv, VersionInv
<1>6. PendingsInv'
  <2>1. ASSUME NEW d \in Clients
        PROVE  PendingInv(d)'
    <3>1. PendingInv(d)
      BY DEF DataInv, PendingsInv
    <3>2. CASE d # c
      <4>1. UNCHANGED <<channel[d], nextCommand[d], issued[d], delivered[d]>>
        BY <1>1, <3>2, Shapes, Numbers
      <4>2. channel[d] # 0 => channel[d] \in Conns /\ channel[d] # new
        BY <1>2, Shapes
      <4>. QED
        BY <1>3, <3>1, <4>1, <4>2 DEF PendingInv
    <3>3. CASE d = c
      BY <1>1, <3>1, <3>3, Numbers, Shapes DEF PendingInv
    <3>. QED
      BY <3>2, <3>3
  <2>. QED
    BY <2>1 DEF PendingsInv
<1>7. ComingInv'
  <2>. SUFFICES ASSUME serverAt = "wait", toServer'[k] # <<>>, toServer'[k][1].command # 0
                PROVE  ComingInv'
    BY <1>1 DEF ComingInv
  <2>1. k \in Conns /\ owner[k] \in Clients
    BY Shapes DEF Types, ServerAttached, SimInv, OwnedInv, LinkInv, MadeInv
  <2>2. UNCHANGED <<owner[k], toServer[k], issuedBefore[k]>>
    BY <1>1, <1>2, <1>3, <2>1
  <2>3. nextCommand'[owner[k]] \in {0, nextCommand[owner[k]]}
    BY <1>1, <2>1, Numbers
  <2>4. LET n == toServer[k][1].command IN
        /\ issuedBefore[k] < n /\ n <= issued[owner[k]]
        /\ nextCommand[owner[k]] # 0 => n < nextCommand[owner[k]]
        /\ \A i \in DOMAIN delivered[owner[k]] : delivered[owner[k]][i] < n
    BY <1>1, <2>2 DEF DataInv, ComingInv
  <2>. QED
    BY <1>1, <2>2, <2>3, <2>4 DEF ComingInv
<1>8. CommandsInOrderOnce'
  BY <1>1 DEF DataInv, CommandsInOrderOnce
<1>. QED
  BY <1>1, <1>4, <1>5, <1>6, <1>7, <1>8 DEF DataInv

-----------------------------------------------------------------------------
(* What the server does.                                                   *)

\* The server leaves the clients and the history of the connections alone.
LEMMA ServerLeaves ==
    ASSUME ServerStep
    PROVE  UNCHANGED <<clientVars, owner, connections, issued, issuedBefore>>
  BY DEF ServerStep, Load, Unload, HostRequest, HostCallWithoutClient, AcceptChannel, AcceptFails,
     AnswerConnect, Attach, AttachFails, AttachedPeerGone, ReceiveReply, ReceiveFails, netVars,
     historyVars

\* A connection that was not answered yet is as its client left it.
LEMMA FirstServer ==
    ASSUME Types, ReachInv, LinkInv, ServerStep, NEW j \in Conns, Unanswered(j)'
    PROVE  Unanswered(j) /\ toServer'[j] = toServer[j]
<1>. USE DEF Unanswered, netVars
<1>a. backlog = <<>> => ~Waiting(j)
  BY DEF Waiting
<1>b. backlog' = <<>> => ~Waiting(j)'
  BY DEF Waiting
<1>c. backlog' = backlog => Waiting(j)' = Waiting(j)
  BY DEF Waiting
<1>d. Waiting(j) => j # serverChannel
  BY DEF LinkInv, BacklogInv, Waiting
<1>e. ASSUME Waiting(j), CloseConnection
      PROVE  toServer'[j] = toServer[j]
  BY <1>d, <1>e, Shapes DEF CloseConnection, Forget, FrameQueues
<1>f. ~Unload /\ ~Attach /\ ~AttachedPeerGone
  BY <1>b, 0 \notin Conns DEF Unload, Attach, AttachedPeerGone, DropBacklog, Conns
<1>1. CASE Load
  BY <1>1, <1>c DEF Load
<1>2. ASSUME NEW r \in HostCalls, HostRequest(r)
      PROVE  FALSE
  <2>1. backlog = <<>> /\ backlog' = backlog
    BY <1>2 DEF HostRequest, ReachInv
  <2>. QED
    BY <1>2, <1>b, <2>1 DEF HostRequest, CloseConnection
<1>3. ASSUME NEW r \in HostCalls, HostCallWithoutClient(r)
      PROVE  Unanswered(j) /\ toServer'[j] = toServer[j]
  BY <1>3, <1>c DEF HostCallWithoutClient
<1>4. CASE AcceptChannel
  <2>1. /\ backlog # <<>> /\ backlog \in Seq(Conns) /\ backlog' = Tail(backlog)
        /\ serverChannel' = Head(backlog) /\ toServer' = toServer
    BY <1>4, Shapes DEF AcceptChannel
  <2>2. 1 \in DOMAIN backlog /\ Head(backlog) = backlog[1]
    BY <2>1
  <2>3. \A i \in DOMAIN backlog' : i + 1 \in DOMAIN backlog /\ backlog'[i] = backlog[i + 1]
    BY <2>1
  <2>. QED
    BY <2>1, <2>2, <2>3 DEF Waiting
<1>5. CASE AcceptFails
  BY <1>5, <1>c DEF AcceptFails
<1>6. CASE AnswerConnect
  BY <1>6, <1>c, <1>d, <1>e, Shapes DEF AnswerConnect, CloseConnection, FrameQueues
<1>7. CASE AttachFails \/ ReceiveFails
  BY <1>7, <1>c, <1>e DEF AttachFails, ReceiveFails, CloseConnection
<1>8. CASE ReceiveReply
  BY <1>8, <1>c, <1>d, <1>e, Shapes DEF ReceiveReply, CloseConnection, FrameQueues
<1>. QED
  BY <1>f, <1>1, <1>2, <1>3, <1>4, <1>5, <1>6, <1>7, <1>8 DEF ServerStep

\* The server speaks the older of its version and the one asked for from the
\* moment it sends the connect-ok frame.
LEMMA VersionServer ==
    ASSUME Types, ReachInv, LinkInv, StepInv, DataInv, ServerStep
    PROVE  VersionInv'
<1>. DEFINE k == serverChannel
<1>. USE DEF netVars
<1>a. ASSUME serverChannel' = 0 \/ serverAt' = "hello"
      PROVE  VersionInv'
  BY <1>a DEF VersionInv
<1>b. CloseConnection => VersionInv'
  BY <1>a DEF CloseConnection
<1>c. UNCHANGED <<isConnected, channel, clientVersion, owner>>
  BY ServerLeaves DEF clientVars
<1>d. ASSUME k # 0, serverAt # "hello", UNCHANGED <<serverChannel, serverVersion>>,
             toClient' = toClient \/ \E r \in Requests : toClient' = Deliver(toClient, k, Frame(r))
      PROVE  VersionInv'
  <2>1. k \in Conns /\ toClient[k] \in Seq(Frames)
    BY <1>d, Shapes DEF FrameQueues
  <2>2. ASSUME NEW i \in DOMAIN toClient'[k], toClient'[k][i].kind = "ConnectOk"
        PROVE  toClient'[k][i].version = serverVersion
    <3>1. CASE toClient'[k] = toClient[k]
      BY <1>d, <2>2, <3>1 DEF DataInv, VersionInv
    <3>2. ASSUME NEW r \in Requests, toClient'[k] = Append(toClient[k], Frame(r))
          PROVE  toClient'[k][i].version = serverVersion
      <4>1. Frame(r).kind # "ConnectOk"
        BY DEF Frame, Requests
      <4>2. i \in DOMAIN toClient[k] /\ toClient'[k][i] = toClient[k][i]
        BY <2>1, <2>2, <3>2, <4>1
      <4>. QED
        BY <1>d, <2>2, <4>2 DEF DataInv, VersionInv
    <3>. QED
      BY <1>d, <2>1, <3>1, <3>2, Shapes DEF Deliver, FrameQueues
  <2>3. /\ serverVersion <= ClientVersion[owner[k]]
        /\ \A c \in Clients : isConnected[c] /\ channel[c] = k => clientVersion[c] = serverVersion
    BY <1>d DEF DataInv, VersionInv
  <2>. QED
    BY <1>c, <1>d, <2>2, <2>3 DEF VersionInv
<1>1. CASE Load
  BY <1>1, <1>a DEF Load, ReachInv
<1>2. CASE Unload \/ AttachedPeerGone
  BY <1>2, <1>a DEF Unload, AttachedPeerGone
<1>3. ASSUME NEW r \in HostCalls, HostRequest(r)
      PROVE  VersionInv'
  <2>1. r \in Requests
    BY ConstantsAssumption
  <2>. QED
    BY <1>3, <1>b, <1>d, <2>1 DEF HostRequest
<1>4. ASSUME NEW r \in HostCalls, HostCallWithoutClient(r)
      PROVE  VersionInv'
  BY <1>4, <1>a DEF HostCallWithoutClient
<1>5. CASE AcceptChannel \/ AcceptFails
  BY <1>5, <1>a DEF AcceptChannel, AcceptFails, ReachInv
<1>6. CASE AnswerConnect
  <2>. DEFINE frame  == Head(toServer[k])
              agreed == Negotiated(frame.version)
  <2>1. /\ serverAt = "hello" /\ k \in Conns /\ k # 0
        /\ owner[k] \in Clients \cup {NoClient}
    BY <1>6, Shapes DEF AnswerConnect, Types, ServerAttached
  <2>2. Pristine(k) /\ toServer[k][1] = ConnectFrame(owner[k])
    BY <2>1 DEF StepInv, PristineInv, DataInv, FirstInv, Unanswered
  <2>3. CASE CloseConnection
    BY <2>3, <1>b
  <2>4. CASE /\ serverVersion' = agreed /\ UNCHANGED serverChannel
             /\ toClient' = Deliver(toClient, k, ConnectOkFrame(agreed, simulationState))
    <3>1. toServer[k] \in Seq(Frames) /\ frame = toServer[k][1]
      BY <2>1, <2>2, Shapes DEF FrameQueues, Pristine
    <3>2. frame.version = ClientVersion[owner[k]]
      BY <2>2, <3>1 DEF ConnectFrame, Frame
    <3>3. frame.version \in Nat
      <4>1. Len(toServer[k]) = 1
        BY <2>2 DEF Pristine
      <4>2. toServer[k][1] \in Frames
        BY <3>1, <4>1
      <4>. QED
        BY <3>1, <4>2 DEF Frames
    <3>4. agreed <= ClientVersion[owner[k]]
      BY <3>2, <3>3, ConstantsAssumption DEF Negotiated
    <3>5. toClient'[k] \in {<<>>, <<ConnectOkFrame(agreed, simulationState)>>}
      BY <2>1, <2>2, <2>4, Shapes DEF Deliver, Pristine, FrameQueues
    <3>6. \A i \in DOMAIN toClient'[k] : toClient'[k][i].version = agreed
      BY <3>5 DEF ConnectOkFrame
    <3>7. \A c \in Clients : channel[c] = k => ~isConnected[c]
      BY <2>2 DEF Pristine, InSession
    <3>. QED
      BY <1>c, <2>4, <3>4, <3>6, <3>7 DEF VersionInv
  <2>. QED
    BY <1>6, <2>3, <2>4 DEF AnswerConnect
<1>7. CASE Attach
  <2>1. k # 0 /\ serverAt = "attach" /\ UNCHANGED <<serverChannel, serverVersion>>
    BY <1>7 DEF Attach, Types, ServerAttached
  <2>2. "Start" \in Requests
    BY DEF Requests
  <2>3. toClient' = toClient \/ toClient' = Deliver(toClient, k, Frame("Start"))
    BY <1>7 DEF Attach
  <2>. QED
    BY <1>d, <2>1, <2>2, <2>3
<1>8. CASE AttachFails \/ ReceiveFails
  BY <1>8, <1>b DEF AttachFails, ReceiveFails
<1>9. CASE ReceiveReply
  <2>1. k # 0 /\ serverAt = "wait" /\ UNCHANGED <<serverVersion, toClient>>
    BY <1>9 DEF ReceiveReply, Types, ServerAttached
  <2>. QED
    BY <1>9, <1>b, <1>d, <2>1 DEF ReceiveReply
<1>. QED
  BY <1>1, <1>2, <1>3, <1>4, <1>5, <1>6, <1>7, <1>8, <1>9 DEF ServerStep

\* When the server begins to wait no answer is there, and the host is told of
\* the command of the answer that came, if any.
LEMMA Delivers ==
    ASSUME Types, ReachInv, LinkInv, StepInv, ServerStep
    PROVE  /\ serverAt' = "wait" => serverChannel' # 0 /\ toServer'[serverChannel'] = <<>>
           /\ \/ delivered' = delivered
              \/ LET n == toServer[serverChannel][1].command IN
                 /\ serverAt = "wait" /\ toServer[serverChannel] # <<>> /\ n # 0
                 /\ n \in 1 .. MaxCommands
                 /\ delivered' = [delivered EXCEPT ![owner[serverChannel]] = Append(@, n)]
<1>. USE DEF netVars, historyVars
<1>1. CASE Load \/ Unload
  BY <1>1 DEF Load, Unload, ReachInv
<1>2. ASSUME NEW r \in HostCalls, HostRequest(r)
      PROVE  /\ serverAt' = "wait" => serverChannel' # 0 /\ toServer'[serverChannel'] = <<>>
             /\ delivered' = delivered
  BY <1>2 DEF HostRequest, CloseConnection, StepInv, AnswerInv
<1>3. ASSUME NEW r \in HostCalls, HostCallWithoutClient(r)
      PROVE  serverAt' # "wait" /\ delivered' = delivered
  BY <1>3 DEF HostCallWithoutClient
<1>4. CASE AcceptChannel \/ AcceptFails
  BY <1>4 DEF AcceptChannel, AcceptFails
<1>5. CASE AnswerConnect
  BY <1>5 DEF AnswerConnect, CloseConnection
<1>6. CASE Attach
  <2>1. /\ serverChannel # 0 /\ serverChannel \in Conns /\ toServer[serverChannel] = <<>>
        /\ ~Waiting(serverChannel) /\ delivered' = delivered /\ serverChannel' = serverChannel
    BY <1>6, Shapes DEF Attach, StepInv, AnswerInv, Types, ServerAttached, LinkInv, BacklogInv, Waiting
  <2>. QED
    BY <1>6, <2>1 DEF Attach, DropBacklog
<1>7. CASE AttachFails \/ AttachedPeerGone \/ ReceiveFails
  BY <1>7 DEF AttachFails, AttachedPeerGone, ReceiveFails, CloseConnection
<1>8. CASE ReceiveReply
  <2>1. serverChannel \in Conns /\ toServer[serverChannel] # <<>> /\ serverAt = "wait" /\ serverAt' = "idle"
    BY <1>8, Shapes DEF ReceiveReply, CloseConnection, Types, ServerAttached
  <2>2. toServer[serverChannel] \in Seq(Frames)
    BY <2>1, Shapes DEF FrameQueues
  <2>3. /\ Head(toServer[serverChannel]) = toServer[serverChannel][1]
        /\ toServer[serverChannel][1] \in Frames
    BY <2>1, <2>2
  <2>4. toServer[serverChannel][1].command \in 0 .. MaxCommands
    BY <2>3 DEF Frames
  <2>. DEFINE n == Head(toServer[serverChannel]).command
              told == [delivered EXCEPT ![owner[serverChannel]] = Append(@, n)]
  <2>5. delivered' = delivered \/ delivered' = IF n = 0 THEN delivered ELSE told
    BY <1>8 DEF ReceiveReply, HandlePendingCommand
  <2>6. n \in 0 .. MaxCommands /\ n = toServer[serverChannel][1].command
    BY <2>3, <2>4
  <2>7. n # 0 => n \in 1 .. MaxCommands
    BY <2>6, Numbers
  <2>. HIDE DEF n
  <2>8. \/ delivered' = delivered
        \/ n # 0 /\ delivered' = told
    BY <2>5
  <2>. QED
    BY <2>1, <2>6, <2>7, <2>8
<1>. QED
  BY <1>1, <1>2, <1>3, <1>4, <1>5, <1>6, <1>7, <1>8 DEF ServerStep

\* Every step of the server keeps the invariant, and the host is told only of
\* commands that are newer than the connection.
Newer == \A c \in Clients : delivered'[c] # delivered[c] =>
            delivered'[c][Len(delivered'[c])] > issuedBefore[serverChannel]

LEMMA DataServer ==
    ASSUME Types, ReachInv, LinkInv, StepInv, SimInv, DataInv, ServerStep
    PROVE  DataInv' /\ Newer
<1>. DEFINE k == serverChannel
            o == owner[k]
            n == toServer[k][1].command
<1>1. UNCHANGED <<channel, nextCommand, owner, issued, issuedBefore>>
  BY ServerLeaves DEF clientVars
<1>2. FirstInv'
  BY <1>1, FirstServer DEF DataInv, FirstInv, ConnectFrame, Frame
<1>3. VersionInv'
  BY VersionServer
<1>4. ComingInv'
  BY Delivers DEF ComingInv
<1>5. CASE delivered' = delivered
  <2>1. PendingsInv' /\ CommandsInOrderOnce' /\ Newer
    BY <1>1, <1>5 DEF DataInv, PendingsInv, PendingInv, CommandsInOrderOnce, Newer
  <2>. QED
    BY <1>2, <1>3, <1>4, <2>1 DEF DataInv
<1>6. CASE /\ serverAt = "wait" /\ toServer[k] # <<>> /\ n # 0 /\ n \in 1 .. MaxCommands
           /\ delivered' = [delivered EXCEPT ![o] = Append(@, n)]
  <2>1. k \in Conns /\ o \in Clients
    BY <1>6, Shapes DEF Types, ServerAttached, SimInv, OwnedInv, LinkInv, MadeInv
  <2>2. /\ issuedBefore[k] < n /\ n <= issued[o]
        /\ nextCommand[o] # 0 => n < nextCommand[o]
        /\ \A i \in DOMAIN delivered[o] : delivered[o][i] < n
    BY <1>6 DEF DataInv, ComingInv
  <2>. HIDE DEF n, o
  <2>3. /\ \A d \in Clients : d # o => delivered'[d] = delivered[d]
        /\ delivered[o] \in Seq(1 .. MaxCommands) /\ delivered'[o] = Append(delivered[o], n)
    BY <1>6, <2>1, Numbers
  <2>4. /\ \A i \in DOMAIN delivered'[o] :
              (i \in DOMAIN delivered[o] /\ delivered'[o][i] = delivered[o][i])
              \/ (i = Len(delivered[o]) + 1 /\ delivered'[o][i] = n)
        /\ Len(delivered'[o]) = Len(delivered[o]) + 1
        /\ delivered'[o][Len(delivered'[o])] = n
    BY <1>6, <2>3
  <2>5. PendingsInv'
    <3>1. ASSUME NEW d \in Clients
          PROVE  PendingInv(d)'
      <4>1. PendingInv(d)
        BY DEF DataInv, PendingsInv
      <4>2. CASE d # o
        BY <1>1, <2>3, <4>1, <4>2 DEF PendingInv
      <4>3. CASE d = o
        BY <1>1, <2>2, <2>4, <4>1, <4>3 DEF PendingInv
      <4>. QED
        BY <4>2, <4>3
    <3>. QED
      BY <3>1 DEF PendingsInv
  <2>6. CommandsInOrderOnce'
    <3>1. ASSUME NEW i \in DOMAIN delivered'[o], NEW j \in DOMAIN delivered'[o], i < j
          PROVE  delivered'[o][i] < delivered'[o][j]
      <4>1. i \in DOMAIN delivered[o] /\ delivered'[o][i] = delivered[o][i]
        BY <2>3, <2>4, <3>1
      <4>. QED
        BY <2>1, <2>2, <2>4, <3>1, <4>1 DEF DataInv, CommandsInOrderOnce
    <3>. QED
      BY <2>3, <3>1 DEF DataInv, CommandsInOrderOnce
  <2>7. Newer
    BY <2>2, <2>3, <2>4, <1>6, <2>1, Numbers DEF Newer
  <2>. QED
    BY <1>2, <1>3, <1>4, <2>5, <2>6, <2>7 DEF DataInv
<1>. QED
  BY <1>5, <1>6, Delivers

-----------------------------------------------------------------------------
(* The theorems.                                                           *)

\* Every step keeps the invariant.
LEMMA DataNext ==
    ASSUME Types, ReachInv, LinkInv, StepInv, SimInv, DataInv, [Next]_vars
    PROVE  DataInv' /\ Newer
<1>1. CASE ServerStep
  BY <1>1, DataServer
<1>2. ASSUME NEW c \in Clients, ClientStep(c) \/ OtherThread(c) \/ Crash(c)
      PROVE  DataInv' /\ Newer
  BY <1>2, DataClient, DataConnect DEF Newer
<1>3. CASE (\E k \in Conns : BreakConnection(k)) \/ UNCHANGED vars
  <2>1. UNCHANGED <<serverVars, clientVars, historyVars, owner, backlog, toServer, toClient>>
    BY <1>3 DEF BreakConnection, vars, netVars
  <2>2. \A j \in Conns : Unanswered(j)' = Unanswered(j)
    BY <2>1 DEF Unanswered, Waiting, serverVars
  <2>3. FirstInv' /\ VersionInv' /\ ComingInv'
    BY <2>1, <2>2 DEF DataInv, FirstInv, VersionInv, ComingInv, ConnectFrame, Frame, serverVars,
       clientVars, historyVars
  <2>4. PendingsInv' /\ CommandsInOrderOnce' /\ Newer
    BY <2>1 DEF DataInv, PendingsInv, PendingInv, CommandsInOrderOnce, Newer, clientVars,
       historyVars
  <2>. QED
    BY <2>3, <2>4 DEF DataInv
<1>. QED
  BY <1>1, <1>2, <1>3 DEF Next

\* The invariant, in every behaviour.
LEMMA DataHolds == Spec => [](DataInv /\ SimInv)
<1>1. Types /\ ReachInv /\ LinkInv /\ StepInv /\ SimInv /\ DataInv /\ [Next]_vars => DataInv'
  BY DataNext
<1>. QED
  BY <1>1, DataInit, SimHolds, TypesHold, LinksHold, StepsHold, PTL DEF Spec

\* Both ends of a session speak the same version, and none newer than the client
\* asked for, also when the server served a client of another version before.
THEOREM AgreedVersion == Spec => []VersionAgreement
<1>1. Types /\ StepInv /\ DataInv => VersionAgreement
  <2>. SUFFICES ASSUME Types, StepInv, DataInv, NEW c \in Clients, isConnected[c],
                       channel[c] = serverChannel
                PROVE  clientVersion[c] = serverVersion /\ serverVersion <= ClientVersion[c]
    BY DEF VersionAgreement
  <2>1. serverChannel \in Conns /\ serverChannel # 0 /\ owner[serverChannel] = c
    BY Shapes DEF StepInv, ClientsInv, ClientInv, ModeInv
  <2>2. serverAt # "hello"
    BY <2>1 DEF StepInv, PristineInv, Pristine, Unanswered, InSession
  <2>. QED
    BY <2>1, <2>2 DEF DataInv, VersionInv
<1>. QED
  BY <1>1, TypesHold, StepsHold, DataHolds, PTL

\* The host is told of a client's commands in the order they were issued and of
\* none of them twice, whichever are overwritten or lost.
THEOREM OrderedCommands == Spec => []CommandsInOrderOnce
<1>1. DataInv => CommandsInOrderOnce
  BY DEF DataInv
<1>. QED
  BY <1>1, DataHolds, PTL

\* The host is never told of a command that was stored before the Connect that
\* made the connection it came over.
THEOREM CommandsOfSession == Spec => NoCommandFromEarlierConnect
<1>1. /\ Types /\ ReachInv /\ LinkInv /\ StepInv /\ SimInv /\ DataInv /\ [Next]_vars
         => [Newer]_vars
  BY DataNext
<1>2. Spec => [][Newer]_vars
  BY <1>1, TypesHold, LinksHold, StepsHold, DataHolds, PTL DEF Spec
<1>. QED
  BY <1>2, PTL DEF NoCommandFromEarlierConnect, Newer
=============================================================================
