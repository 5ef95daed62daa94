--------------------------- MODULE MCConnections ----------------------------
(***************************************************************************)
(* How a connection is made and what crosses it, for TLC: a client finds a *)
(* server by its name, over TCP with the port mapper (PortMapper) or on    *)
(* one Windows machine with the names of pipes (PipeNames), and frames are *)
(* written and read (Channel).  None of the three knows more of the others *)
(* than that a connection is there, so a behaviour runs one of them and    *)
(* the others stay as they are.                                            *)
(***************************************************************************)
EXTENDS PortMapper, TLC

CONSTANTS
    s1, s2, c1, x1, n1, n2,   \* of the port mapper
    PipeClients,              \* the clients of one Windows machine
    NoClient, NoPipe,
    MaxNumber, Lingering,     \* as in PipeNames
    BufferSize, SizeOfHeader, DefaultSizeToRead, Connections,   \* as in Channel
    Subjects                  \* which of "mapper", "pipes" and "frames" a run looks at

MCPortsOf  == (s1 :> {1}) @@ (s2 :> {1, 2})
MCMishaps  == {<<>>, <<Unknown>>}
MCWanted   == [c \in Clients |-> n1]

\* The two servers have the same name or different ones; a client or a stranger
\* comes to them.
MCNamings  == {(s1 :> n1) @@ (s2 :> n1), (s1 :> n2) @@ (s2 :> n1)}
MCCasts    == {{c1}, {x1}}

VARIABLES
    subject,
    \* of PipeNames
    listening, counter, lastCounter, locked, number, endAt, pipe, serverPipe,
    serverPid, clientPid, visits,
    \* of Channel
    connection, toWrite, writeBuffer, wire, toRead, reading, readBuffer, readIndex,
    endFrameIndex, sizeToRead, headerRead, polled, written, taken, misread

pipeVars  == <<listening, counter, lastCounter, locked, number, endAt, pipe, serverPipe,
               serverPid, clientPid, visits>>
frameVars == <<connection, toWrite, writeBuffer, wire, toRead, reading, readBuffer, readIndex,
               endFrameIndex, sizeToRead, headerRead, polled, written, taken, misread>>

Pipes == INSTANCE PipeNames WITH
    Clients <- PipeClients,
    at      <- endAt

Carried == INSTANCE MCFrames

MCCarried == Carried!MCConnections

Frames == INSTANCE Channel

ASSUME Pipes!PipeNamesAssumption
ASSUME Frames!ChannelAssumption
ASSUME Frames!LayoutsAgree

MCInit ==
    /\ subject \in Subjects
    /\ Init
    /\ Pipes!Init
    /\ Frames!Init
    /\ subject # "mapper" => present = {x1} /\ name[s1] = n1
    /\ subject # "frames" =>
          connection = CHOOSE c \in Connections : Len(Frames!AllCalls(c.frames)) <= 3

InMapper == subject = "mapper" /\ UNCHANGED <<subject, pipeVars, frameVars>>
InPipes  == subject = "pipes" /\ UNCHANGED <<subject, vars, frameVars>>
InFrames == subject = "frames" /\ UNCHANGED <<subject, vars, pipeVars>>

MCNext ==
    \/ InMapper /\ TryAccept
    \/ InMapper /\ AcceptFails
    \/ InMapper /\ HandleClient
    \/ InMapper /\ CallerHasLeft
    \/ InMapper /\ UnexpectedFrame
    \/ InMapper /\ \E s \in Servers : Load(s)
    \/ InMapper /\ \E s \in Servers : Registered(s)
    \/ InMapper /\ \E s \in Servers : AcceptChannel(s)
    \/ InMapper /\ \E s \in Servers : CloseConnection(s)
    \/ InMapper /\ \E s \in Servers : Unload(s)
    \/ InMapper /\ \E s \in Servers : Stopped(s)
    \/ InMapper /\ \E s \in Servers : Crash(s)
    \/ InMapper /\ \E c \in Clients : Ask(c)
    \/ InMapper /\ \E c \in Clients : RemoteConnect(c)
    \/ InMapper /\ \E k \in Strangers : StrangerConnects(k)
    \/ InMapper /\ \E k \in Clients \cup Strangers : Leave(k)
    \/ InPipes /\ Pipes!Listen
    \/ InPipes /\ Pipes!TryAccept
    \/ InPipes /\ Pipes!StopAccepting
    \/ InPipes /\ Pipes!CloseConnection
    \/ InPipes /\ Pipes!Unload
    \/ InPipes /\ Pipes!ServerDies
    \/ InPipes /\ \E c \in PipeClients : Pipes!TakeNumber(c)
    \/ InPipes /\ \E c \in PipeClients : Pipes!CreateEnd(c)
    \/ InPipes /\ \E c \in PipeClients : Pipes!Disconnect(c)
    \/ InPipes /\ \E c \in PipeClients : Pipes!Destroy(c)
    \/ InPipes /\ \E c \in PipeClients : Pipes!ClientDies(c)
    \/ InFrames /\ Frames!Write
    \/ InFrames /\ Frames!Read
    \/ InFrames /\ Frames!WaitForData
    \/ InFrames /\ Frames!BeginFrame
    \/ InFrames /\ Frames!NewConnection

\* Fairness of PortMapper and of Channel.
MCFairness ==
    /\ WF_vars(subject = "mapper" /\ MapperThread)
    /\ WF_frameVars(subject = "frames" /\ Frames!Write)
    /\ WF_frameVars(subject = "frames" /\ Frames!Read)
    /\ WF_frameVars(subject = "frames" /\ Frames!WaitForData)
    /\ WF_frameVars(subject = "frames" /\ Frames!BeginFrame)

MCSpec == MCInit /\ [][MCNext]_<<subject, vars, pipeVars, frameVars>> /\ MCFairness

-----------------------------------------------------------------------------
(* The properties of PipeNames and Channel, stated there.                  *)

\* A pipe belongs to one connection.
PipeIsItsOwn == Pipes!PipeIsItsOwn

\* What the reading end takes for a field is that field.
ReadsWhatWasWritten == Frames!ReadsWhatWasWritten

\* EndRead finds the frame read to its end.
EndReadNeverThrows == Frames!EndReadNeverThrows

\* Neither buffer of a channel is written behind its end.
BuffersHold == Frames!BuffersHold

\* A poll that times out overlooked nothing.
TimeoutMeansNoData == Frames!TimeoutMeansNoData

\* Every frame that is written is read.
EveryFrameIsRead ==
    (subject = "frames" /\ toRead # <<>>) ~> (toRead = <<>> /\ reading = <<>>)
=============================================================================
