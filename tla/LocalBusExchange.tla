-------------------------- MODULE LocalBusExchange --------------------------
(***************************************************************************)
(* The exchange of the messages of one bus over the local connection of    *)
(* Windows (LocalBusExchangePart).  The messages of a direction lie in a   *)
(* ring in memory that both processes share, next to how many each         *)
(* controller has queued; a frame only tells how many messages were added  *)
(* since the last one.  Each end has a part of its own for each direction  *)
(* and keeps in it what it still has to announce or to receive.            *)
(*                                                                         *)
(* The server's calls come from one thread, and while it waits for an      *)
(* answer it makes none.  The client transmits at any time, from another   *)
(* thread or behind FinishCommand, also while the server reads.            *)
(***************************************************************************)
EXTENDS Naturals, Sequences, FiniteSets

CONSTANTS
    Controllers,   \* the controllers of the bus
    QueueSize,     \* their queueSize
    HasCallback,   \* whether an end registered a message callback
    CountLimit,    \* 2^32 in the code
    MaxSent,       \* bound: messages each end transmits
    Restarts       \* whether the simulation starts after messages were sent

Ends == {"client", "server"}
Peer(e) == IF e = "client" THEN "server" ELSE "client"

\* What a user of this module assumes of its constants.
LocalBusAssumption ==
    /\ IsFiniteSet(Controllers)
    /\ QueueSize \in [Controllers -> Nat]
    /\ HasCallback \in [Ends -> BOOLEAN]
    /\ CountLimit \in Nat /\ \A c \in Controllers : QueueSize[c] < CountLimit
    /\ MaxSent \in [Ends -> Nat]
    /\ Restarts \in BOOLEAN

VARIABLES
    items,          \* the slots of the ring for the messages of each end
    readIndex,      \* _readIndex of that ring
    writeIndex,     \* _writeIndex
    count,          \* the shared count of each controller
    toAnnounce,     \* _pendingTransmitNotificationCount of the sending end
    toReceive,      \* _pendingReceiveCount of the receiving end
    stage,          \* whose turn it is in the step, or "failed"
    frame,          \* the count in the frame that is on its way
    popped,         \* the slot and message that are about to be handed over, if any
    \* history, read by properties only
    sent,           \* how many messages each end queued
    delivered,      \* the messages the application of each end was handed
    reused          \* those of them, by their place, that came from a slot which
                    \* was written again between Pop and HandOver

ring == <<items, readIndex, writeIndex, count>>
handed == <<delivered, reused>>
vars == <<ring, toAnnounce, toReceive, stage, frame, popped, sent, handed>>

\* A message is the controller it belongs to and its number at the sender.
Message(c, n) == [controller |-> c, number |-> n]

\* The sum of the queue sizes: a place for each message of each controller.
Places == UNION {{c} \X (1 .. QueueSize[c]) : c \in Controllers}
CombinedQueueCapacity == Cardinality(Places)

Slots == 0 .. CombinedQueueCapacity - 1

NoneQueued == [c \in Controllers |-> 0]

NextSlot(index) == IF index + 1 = CombinedQueueCapacity THEN 0 ELSE index + 1

\* The counts are atomic numbers of 32 bits.
FetchSub(n) == (n + CountLimit - 1) % CountLimit

Init ==
    /\ items = [e \in Ends |-> [s \in Slots |-> Message("none", 0)]]
    /\ readIndex = [e \in Ends |-> 0]
    /\ writeIndex = [e \in Ends |-> 0]
    /\ count = [e \in Ends |-> NoneQueued]
    /\ toAnnounce = [e \in Ends |-> 0]
    /\ toReceive = [e \in Ends |-> 0]
    /\ stage = "idle"
    /\ frame = 0
    /\ popped = {}
    /\ sent = [e \in Ends |-> 0]
    /\ delivered = [e \in Ends |-> <<>>]
    /\ reused = [e \in Ends |-> {}]

-----------------------------------------------------------------------------
\* The end that reads the frame.
Reads(e) == \/ e = "client" /\ stage = "toClient"
            \/ e = "server" /\ stage = "toServer"

MayTransmit(e) == e = "server" => stage \in {"idle", "toServer"}

\* Mutant: a queue of one message more.
QueueFullLate(e, c) == count[e][c] = QueueSize[c] + 1

QueueFull(e, c) == count[e][c] = QueueSize[c]

\* PushBack does not ask whether there is room.
Transmit(e, c) ==
    LET n == sent[e] + 1 IN
    /\ MayTransmit(e)
    /\ n <= MaxSent[e]
    /\ ~QueueFull(e, c)
    /\ items' = [items EXCEPT ![e][writeIndex[e]] = Message(c, n)]
    /\ writeIndex' = [writeIndex EXCEPT ![e] = NextSlot(@)]
    /\ count' = [count EXCEPT ![e][c] = (@ + 1) % CountLimit]
    /\ toAnnounce' = [toAnnounce EXCEPT ![e] = @ + 1]
    /\ sent' = [sent EXCEPT ![e] = n]
    /\ UNCHANGED <<readIndex, toReceive, stage, frame, popped, handed>>

\* Mutant: what was announced is announced again.
AnnouncedAgain(e) == toAnnounce' = toAnnounce

Announced(e) == toAnnounce' = [toAnnounce EXCEPT ![e] = 0]

\* SendStep of the server, SendStepOk of the client.
Serialize(e) ==
    /\ frame' = toAnnounce[e]
    /\ Announced(e)
    /\ UNCHANGED <<ring, toReceive, popped, sent, handed>>

SendStep   == stage = "idle" /\ stage' = "toClient" /\ Serialize("server")
SendStepOk == stage = "inStep" /\ stage' = "toServer" /\ Serialize("client")

\* Deserialize begins with the count in the frame.
ReadCount(e) ==
    /\ Reads(e)
    /\ frame > 0
    /\ frame' = 0
    /\ toReceive' = [toReceive EXCEPT ![e] = @ + frame]
    /\ UNCHANGED <<ring, toAnnounce, stage, popped, sent, handed>>

\* One turn of its loop: the slot is released, and then its message handed over.
Pop(e) ==
    LET slot    == readIndex[Peer(e)]
        message == items[Peer(e)][slot]
    IN  /\ Reads(e) /\ frame = 0
        /\ HasCallback[e] /\ toReceive[e] > 0 /\ popped = {}
        /\ readIndex' = [readIndex EXCEPT ![Peer(e)] = NextSlot(@)]
        /\ IF message.controller \in Controllers
           THEN /\ count' = [count EXCEPT ![Peer(e)][message.controller] = FetchSub(@)]
                /\ toReceive' = [toReceive EXCEPT ![e] = @ - 1]
                /\ popped' = {[slot |-> slot, message |-> message]}
                /\ UNCHANGED stage
           ELSE stage' = "failed" /\ UNCHANGED <<count, toReceive, popped>>
        /\ UNCHANGED <<items, writeIndex, toAnnounce, frame, sent, handed>>

HandOver(e) ==
    /\ Reads(e)
    /\ \E p \in popped :
          LET found == items[Peer(e)][p.slot] IN
          /\ delivered' = [delivered EXCEPT ![e] = Append(@, found.number)]
          /\ reused' = IF found = p.message
                       THEN reused
                       ELSE [reused EXCEPT ![e] = @ \cup {Len(delivered[e]) + 1}]
    /\ popped' = {}
    /\ UNCHANGED <<ring, toAnnounce, toReceive, stage, frame, sent>>

EndRead(e) ==
    /\ Reads(e) /\ frame = 0 /\ popped = {}
    /\ HasCallback[e] => toReceive[e] = 0
    /\ stage' = IF e = "client" THEN "inStep" ELSE "idle"
    /\ UNCHANGED <<ring, toAnnounce, toReceive, frame, popped, sent, handed>>

\* Only the client has receive functions.  While it reads a frame they wait for
\* the lock.  A controller that nobody knows is an error, behind which the
\* message is gone from the ring and still counted.
Receive ==
    LET message == items["server"][readIndex["server"]] IN
    /\ ~Reads("client")
    /\ toReceive["client"] > 0
    /\ readIndex' = [readIndex EXCEPT !["server"] = NextSlot(@)]
    /\ IF message.controller \in Controllers
       THEN /\ count' = [count EXCEPT !["server"][message.controller] = FetchSub(@)]
            /\ toReceive' = [toReceive EXCEPT !["client"] = @ - 1]
            /\ delivered' = [delivered EXCEPT !["client"] = Append(@, message.number)]
            /\ UNCHANGED reused
       ELSE UNCHANGED <<count, toReceive, handed>>
    /\ UNCHANGED <<items, writeIndex, toAnnounce, stage, frame, popped, sent>>

\* OnStart of the client clears its two parts, and with them what is shared; it
\* cannot clear what the server still has to announce.
Start ==
    /\ stage = "idle"
    /\ Restarts \/ \A e \in Ends : sent[e] = 0
    /\ readIndex' = [e \in Ends |-> 0]
    /\ writeIndex' = [e \in Ends |-> 0]
    /\ count' = [e \in Ends |-> NoneQueued]
    /\ toAnnounce' = [toAnnounce EXCEPT !["client"] = 0]
    /\ toReceive' = [toReceive EXCEPT !["client"] = 0]
    /\ UNCHANGED <<items, stage, frame, popped, sent, handed>>

Next ==
    \/ \E e \in Ends, c \in Controllers : Transmit(e, c)
    \/ SendStep
    \/ SendStepOk
    \/ \E e \in Ends : ReadCount(e) \/ Pop(e) \/ HandOver(e) \/ EndRead(e)
    \/ Receive
    \/ Start

Spec == Init /\ [][Next]_vars

-----------------------------------------------------------------------------
(* Properties.                                                             *)

\* The messages of an end that wait in the ring, oldest first, as many as the
\* two ends know of.
Waiting(e) ==
    LET known == toAnnounce[e] + (IF Reads(Peer(e)) THEN frame ELSE 0) + toReceive[Peer(e)] IN
    [i \in 1 .. known |-> items[e][(readIndex[e] + i - 1) % CombinedQueueCapacity]]

\* Each count is how many messages of its controller the ends know of, and all
\* of them are the ones that were sent last: no slot is reused before its message
\* was taken, and none is announced that is not there.
CountsMatchRing ==
    \A e \in Ends :
        LET waiting == Waiting(e) IN
        /\ \A c \in Controllers :
              count[e][c] = Cardinality({i \in DOMAIN waiting : waiting[i].controller = c})
        /\ \A i \in DOMAIN waiting : waiting[i].number = sent[e] - Len(waiting) + i

\* An application is handed the messages in the order the other end sent them,
\* and none of them twice, unless the slot of a message was written again between
\* its release and the callback, which finds the newer message then.
InOrderOnce ==
    \A e \in Ends : \A i, j \in DOMAIN delivered[e] \ reused[e] :
        i < j => delivered[e][i] < delivered[e][j]
=============================================================================
