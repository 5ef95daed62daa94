--------------------------- MODULE MCBusExchange ----------------------------
(***************************************************************************)
(* The exchange of the messages of a bus for TLC: two controllers with     *)
(* queues of different sizes; the server has a callback, the client        *)
(* receives.  The kind of the connection decides, as in                    *)
(* BusExchangeSpecific::Create, whether a session exchanges messages by    *)
(* BusExchange or by LocalBusExchange; the other one stays as it is.       *)
(***************************************************************************)
EXTENDS BusExchange, TLC

CONSTANTS
    c1, c2,
    ConnectionKinds,   \* the kinds of connection a run looks at
    Restarts,          \* as in LocalBusExchange
    LocalCountLimit,   \* its CountLimit
    LocalMaxSent       \* its MaxSent

MCControllers == {c1, c2}
MCQueueSize   == (c1 :> 1) @@ (c2 :> 2)
MCHasCallback == [e \in Ends |-> e = "server"]
MCMaxSent     == [client |-> 1, server |-> 4]
MCLocalMaxSent == [client |-> 4, server |-> 4]

VARIABLES
    connectionKind,
    localItems, localReadIndex, localWriteIndex, localCount, localToAnnounce, localToReceive,
    localStage, localFrame, localPopped, localSent, localDelivered, localReused

localVars == <<localItems, localReadIndex, localWriteIndex, localCount, localToAnnounce,
               localToReceive, localStage, localFrame, localPopped, localSent, localDelivered,
               localReused>>

\* With it comes what LocalBusExchangeProofs proves about it.
Local == INSTANCE LocalBusExchangeProofs WITH
    CountLimit <- LocalCountLimit,
    MaxSent    <- LocalMaxSent,
    items      <- localItems,
    readIndex  <- localReadIndex,
    writeIndex <- localWriteIndex,
    count      <- localCount,
    toAnnounce <- localToAnnounce,
    toReceive  <- localToReceive,
    stage      <- localStage,
    frame      <- localFrame,
    popped     <- localPopped,
    sent       <- localSent,
    delivered  <- localDelivered,
    reused     <- localReused

ASSUME Local!LocalBusAssumption

MCInit ==
    /\ connectionKind \in ConnectionKinds
    /\ Init
    /\ Local!Init

Remotely == connectionKind = "remote" /\ UNCHANGED <<connectionKind, localVars>>
Locally  == connectionKind = "local" /\ UNCHANGED <<connectionKind, vars>>

MCNext ==
    \/ Remotely /\ \E e \in Ends, c \in Controllers : Transmit(e, c)
    \/ Remotely /\ SendStep
    \/ Remotely /\ SendStepOk
    \/ Remotely /\ \E e \in Ends : ReadMessage(e)
    \/ Remotely /\ \E e \in Ends : EndRead(e)
    \/ Remotely /\ Receive
    \/ Remotely /\ Start
    \/ Locally /\ \E e \in Ends, c \in Controllers : Local!Transmit(e, c)
    \/ Locally /\ Local!SendStep
    \/ Locally /\ Local!SendStepOk
    \/ Locally /\ \E e \in Ends : Local!ReadCount(e)
    \/ Locally /\ \E e \in Ends : Local!Pop(e)
    \/ Locally /\ \E e \in Ends : Local!HandOver(e)
    \/ Locally /\ \E e \in Ends : Local!EndRead(e)
    \/ Locally /\ Local!Receive
    \/ Locally /\ Local!Start

\* Fairness of BusExchange, for a remote connection.
MCFairness ==
    /\ WF_vars(connectionKind = "remote" /\ SendStep)
    /\ WF_vars(connectionKind = "remote" /\ SendStepOk)
    /\ \A e \in Ends : WF_vars(connectionKind = "remote" /\ (ReadMessage(e) \/ EndRead(e)))
    /\ SF_vars(connectionKind = "remote" /\ Receive)

MCSpec == MCInit /\ [][MCNext]_<<connectionKind, vars, localVars>> /\ MCFairness

-----------------------------------------------------------------------------
(* The properties of LocalBusExchange, stated there.                       *)

\* Over a local connection each shared count is how many messages of its
\* controller the two ends know of, and those are the ones sent last.
LocalCountsMatchRing == Local!CountsMatchRing

\* Over a local connection, too, an application is handed the messages in the
\* order the other end sent them, and none of them twice.
LocalInOrderOnce == Local!InOrderOnce
=============================================================================
