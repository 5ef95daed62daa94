------------------------------- MODULE MCRings ------------------------------
(***************************************************************************)
(* The rings through which the two ends hand over data, for TLC: those of  *)
(* messages (BusExchange, LocalBusExchange) and the ring of bytes below    *)
(* the local channel of Windows (ShmPipe).  The exchange takes from the    *)
(* channel that bytes come in order, and the pipe knows nothing of         *)
(* messages, so a behaviour runs one of them and the others stay as they   *)
(* are.                                                                    *)
(***************************************************************************)
EXTENDS MCBusExchange

CONSTANTS
    PipeBufferSize, IndexLimit, WriteSizes, ReadSizes, DetectionLimit   \* as in ShmPipe

VARIABLES
    buffer, writeIndexOfPipe, readIndexOfPipe, pid, newData, newSpace,
    partOfPipe, handle, detections, at, ownIndex, remaining,
    written, taken, misread

pipeVars == <<buffer, writeIndexOfPipe, readIndexOfPipe, pid, newData, newSpace, partOfPipe,
              handle, detections, at, ownIndex, remaining, written, taken, misread>>

\* With it comes what ShmPipeProofs proves about it.
Pipe == INSTANCE ShmPipeProofs WITH
    writeIndex <- writeIndexOfPipe,
    readIndex  <- readIndexOfPipe,
    part       <- partOfPipe

ASSUME Pipe!PipeAssumption

\* A third kind of connection: one whose bytes are looked at.
RingsInit ==
    /\ connectionKind \in ConnectionKinds \cup {"pipe"}
    /\ Init
    /\ Local!Init
    /\ Pipe!Init

RemoteBus == Remotely /\ UNCHANGED pipeVars
LocalBus  == Locally /\ UNCHANGED pipeVars
InPipe    == connectionKind = "pipe" /\ UNCHANGED <<connectionKind, vars, localVars>>

RingsNext ==
    \/ RemoteBus /\ \E e \in Ends, c \in Controllers : Transmit(e, c)
    \/ RemoteBus /\ SendStep
    \/ RemoteBus /\ SendStepOk
    \/ RemoteBus /\ \E e \in Ends : ReadMessage(e)
    \/ RemoteBus /\ \E e \in Ends : EndRead(e)
    \/ RemoteBus /\ Receive
    \/ RemoteBus /\ Start
    \/ LocalBus /\ \E e \in Ends, c \in Controllers : Local!Transmit(e, c)
    \/ LocalBus /\ Local!SendStep
    \/ LocalBus /\ Local!SendStepOk
    \/ LocalBus /\ \E e \in Ends : Local!ReadCount(e)
    \/ LocalBus /\ \E e \in Ends : Local!Pop(e)
    \/ LocalBus /\ \E e \in Ends : Local!HandOver(e)
    \/ LocalBus /\ \E e \in Ends : Local!EndRead(e)
    \/ LocalBus /\ Local!Receive
    \/ LocalBus /\ Local!Start
    \/ InPipe /\ \E end \in Pipe!Ends : Pipe!Create(end)
    \/ InPipe /\ \E end \in Pipe!Ends : Pipe!Disconnect(end)
    \/ InPipe /\ \E end \in Pipe!Ends : Pipe!Close(end)
    \/ InPipe /\ \E end \in Pipe!Ends : Pipe!Die(end)
    \/ InPipe /\ Pipe!Forget
    \/ InPipe /\ Pipe!Write
    \/ InPipe /\ Pipe!WriteGoesOn
    \/ InPipe /\ Pipe!Read
    \/ InPipe /\ Pipe!ReadGoesOn

\* Fairness of BusExchange and of ShmPipe.
RingsFairness ==
    /\ MCFairness
    /\ WF_pipeVars(connectionKind = "pipe" /\ Pipe!WriteGoesOn)
    /\ WF_pipeVars(connectionKind = "pipe" /\ Pipe!Read)
    /\ WF_pipeVars(connectionKind = "pipe" /\ Pipe!ReadGoesOn)

RingsSpec ==
    RingsInit /\ [][RingsNext]_<<connectionKind, vars, localVars, pipeVars>> /\ RingsFairness

-----------------------------------------------------------------------------
(* The properties of ShmPipe, stated there.                                *)

\* No byte is lost or misread across the wrap of the indices.
BytesInOrder == Pipe!BytesInOrder

\* A call of the pipe fails only for a cause.
FailsForCause == Pipe!FailsForCause

\* A call of the pipe never waits for an end that is gone.
GoneIsNoticed == Pipe!GoneIsNoticed

\* While both ends stay, every byte that is written is read.
EveryByteIsRead == Pipe!EveryByteIsRead
=============================================================================
