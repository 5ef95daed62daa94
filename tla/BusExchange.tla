---------------------------- MODULE BusExchange -----------------------------
(***************************************************************************)
(* The exchange of the messages of one bus between the client and the      *)
(* server of a session over a remote connection (RemoteBusExchangePart).   *)
(* The four buses are alike.  Each end has an outbound part, where         *)
(* Transmit queues messages until the next step frame or step-ok frame     *)
(* takes them along, and an inbound part, where the messages of a frame    *)
(* wait for Receive unless a callback took them.                           *)
(*                                                                         *)
(* The server's calls come from one thread, and while it waits for an      *)
(* answer it makes none.  The client's parts are locked, so that a         *)
(* Transmit or a Receive of another thread falls between two operations.   *)
(* A rejected Transmit (a controller nobody has, data too long, a full     *)
(* queue) and a Receive that finds nothing leave no trace.                 *)
(***************************************************************************)
EXTENDS Naturals, Sequences, FiniteSets, RingBuffer

CONSTANTS
    Controllers,   \* the controllers of the bus
    QueueSize,     \* their queueSize
    HasCallback,   \* whether an end registered a message callback
    MaxSent        \* bound: messages each end transmits

Ends == {"client", "server"}
Peer(e) == IF e = "client" THEN "server" ELSE "client"

ASSUME BusAssumption ==
    /\ IsFiniteSet(Controllers)
    /\ QueueSize \in [Controllers -> Nat]
    /\ HasCallback \in [Ends -> BOOLEAN]
    /\ MaxSent \in [Ends -> Nat]

VARIABLES
    outbound,    \* the outbound part of each end
    inbound,     \* the inbound part of each end
    stage,       \* whose turn it is in the step
    frame,       \* the messages of the frame that are not read yet
    bufferFull,  \* "Message buffer is full." was an answer
    \* history, read by properties only
    sent,        \* how many messages each end queued
    delivered,   \* the messages the application of each end was handed
    dropped      \* the numbers of the messages of each end that were given up

vars == <<outbound, inbound, stage, frame, bufferFull, sent, delivered, dropped>>

\* A message is the controller it belongs to and its number at the sender.
Message(c, n) == [controller |-> c, number |-> n]
Numbers(queue) == {queue[i].number : i \in DOMAIN queue}

-----------------------------------------------------------------------------
(* A part: the ring of messages and the count of each controller's.        *)

Part(ring, count) == [ring |-> ring, count |-> count]

NoneQueued == [c \in Controllers |-> 0]

\* Mutant: room for the largest queue instead of for all of them.
LargestQueueSize == CHOOSE q \in {QueueSize[c] : c \in Controllers} :
                       \A c \in Controllers : QueueSize[c] <= q

\* The sum of the queue sizes: a place for each message of each controller.
Places == UNION {{c} \X (1 .. QueueSize[c]) : c \in Controllers}
CombinedQueueCapacity == Cardinality(Places)

NewPart == Part(NewRing(CombinedQueueCapacity, Message("none", 0)), NoneQueued)

\* A controller that has as many messages queued as it may have.
QueueFull(part, c) == part.count[c] = QueueSize[c]

Queued(part, message) ==
    Part(PushBack(part.ring, message), [part.count EXCEPT ![message.controller] = @ + 1])

\* Mutant: a received message stays in the count of its controller.
ReceivedKeepsCount(part) == Part(RemoveFront(part.ring), part.count)

Received(part) ==
    Part(RemoveFront(part.ring),
         [part.count EXCEPT ![Front(part.ring).controller] = @ - 1])

\* Serialize pops every message.
Serialized(part) == Part(Drain(part.ring), NoneQueued)

ClearData(part) == Part(Clear(part.ring), NoneQueued)

-----------------------------------------------------------------------------
Init ==
    /\ outbound = [e \in Ends |-> NewPart]
    /\ inbound = [e \in Ends |-> NewPart]
    /\ stage = "idle"
    /\ frame = <<>>
    /\ bufferFull = FALSE
    /\ sent = [e \in Ends |-> 0]
    /\ delivered = [e \in Ends |-> <<>>]
    /\ dropped = [e \in Ends |-> {}]

\* The server transmits between its calls and in its callbacks.
MayTransmit(e) == e = "server" => stage \in {"idle", "toServer"}

Transmit(e, c) ==
    LET n == sent[e] + 1 IN
    /\ MayTransmit(e)
    /\ n <= MaxSent[e]
    /\ ~QueueFull(outbound[e], c)
    /\ IF IsFull(outbound[e].ring)
       THEN bufferFull' = TRUE /\ UNCHANGED <<outbound, sent>>
       ELSE /\ outbound' = [outbound EXCEPT ![e] = Queued(@, Message(c, n))]
            /\ sent' = [sent EXCEPT ![e] = n]
            /\ UNCHANGED bufferFull
    /\ UNCHANGED <<inbound, stage, frame, delivered, dropped>>

\* Mutant: the frame says that there are no messages.
MessagesOfNone(e) == <<>>

MessagesOf(e) == Contents(outbound[e].ring)

\* SendStep of the server, SendStepOk of the client.
Serialize(e) ==
    /\ frame' = MessagesOf(e)
    /\ outbound' = [outbound EXCEPT ![e] = Serialized(@)]
    /\ UNCHANGED <<inbound, bufferFull, sent, delivered, dropped>>

SendStep   == stage = "idle" /\ stage' = "toClient" /\ Serialize("server")
SendStepOk == stage = "inStep" /\ stage' = "toServer" /\ Serialize("client")

\* The end that reads the frame.
Reads(e) == \/ e = "client" /\ stage = "toClient"
            \/ e = "server" /\ stage = "toServer"

HandedOver(e, message) == delivered' = [delivered EXCEPT ![e] = Append(@, message.number)]

\* One turn of the loop of Deserialize, which holds the lock of the inbound
\* part from its first message to its last.
ReadMessage(e) ==
    LET message == Head(frame) IN
    /\ Reads(e)
    /\ frame # <<>>
    /\ frame' = Tail(frame)
    /\ \/ /\ HasCallback[e]
          /\ HandedOver(e, message)
          /\ UNCHANGED <<inbound, bufferFull, dropped>>
       \/ /\ ~HasCallback[e]
          /\ QueueFull(inbound[e], message.controller)
          /\ dropped' = [dropped EXCEPT ![Peer(e)] = @ \cup {message.number}]
          /\ UNCHANGED <<inbound, bufferFull, delivered>>
       \/ /\ ~HasCallback[e]
          /\ ~QueueFull(inbound[e], message.controller)
          /\ IF IsFull(inbound[e].ring)
             THEN bufferFull' = TRUE /\ UNCHANGED inbound
             ELSE /\ inbound' = [inbound EXCEPT ![e] = Queued(@, message)]
                  /\ UNCHANGED bufferFull
          /\ UNCHANGED <<delivered, dropped>>
    /\ UNCHANGED <<outbound, stage, sent>>

EndRead(e) ==
    /\ Reads(e)
    /\ frame = <<>>
    /\ stage' = IF e = "client" THEN "inStep" ELSE "idle"
    /\ UNCHANGED <<outbound, inbound, frame, bufferFull, sent, delivered, dropped>>

\* Only the client has receive functions.  While it reads a frame they wait for
\* the lock.
Receive ==
    /\ ~Reads("client")
    /\ ~IsEmpty(inbound["client"].ring)
    /\ HandedOver("client", Front(inbound["client"].ring))
    /\ inbound' = [inbound EXCEPT !["client"] = Received(@)]
    /\ UNCHANGED <<outbound, stage, frame, bufferFull, sent, dropped>>

\* OnStart of the client clears both of its parts; the server clears nothing.
Start ==
    /\ stage = "idle"
    /\ outbound' = [outbound EXCEPT !["client"] = ClearData(@)]
    /\ inbound' = [inbound EXCEPT !["client"] = ClearData(@)]
    /\ dropped' = [client |-> dropped["client"] \cup Numbers(MessagesOf("client")),
                   server |-> dropped["server"] \cup
                                 Numbers(Contents(inbound["client"].ring))]
    /\ UNCHANGED <<stage, frame, bufferFull, sent, delivered>>

Next ==
    \/ \E e \in Ends, c \in Controllers : Transmit(e, c)
    \/ SendStep
    \/ SendStepOk
    \/ \E e \in Ends : ReadMessage(e) \/ EndRead(e)
    \/ Receive
    \/ Start

Spec == Init /\ [][Next]_vars

\* A simulation that keeps stepping, and a client that keeps receiving.
Fairness ==
    /\ WF_vars(SendStep)
    /\ WF_vars(SendStepOk)
    /\ \A e \in Ends : WF_vars(ReadMessage(e) \/ EndRead(e))
    /\ SF_vars(Receive)

FairSpec == Spec /\ Fairness

-----------------------------------------------------------------------------
(* Properties.                                                             *)

Messages == [controller : Controllers, number : Nat]

\* The rings keep what was in their slots, of which the first was nothing.
Parts == [ring  : Rings(CombinedQueueCapacity, Messages \cup {Message("none", 0)}),
          count : [Controllers -> Nat]]

TypeOK ==
    /\ outbound \in [Ends -> Parts]
    /\ inbound \in [Ends -> Parts]
    /\ stage \in {"idle", "toClient", "inStep", "toServer"}
    /\ frame \in Seq(Messages)
    /\ bufferFull \in BOOLEAN
    /\ sent \in [Ends -> Nat]
    /\ delivered \in [Ends -> Seq(Nat)]
    /\ dropped \in [Ends -> SUBSET Nat]

\* The combined buffer never fills up before a controller's own queue does: no
\* controller can keep another one from sending, and no frame breaks off.
NeverOverflows == ~bufferFull

\* What a controller is charged for is what it has queued, in every part.
CountsMatchQueue ==
    \A e \in Ends : \A part \in {outbound[e], inbound[e]} : \A c \in Controllers :
        LET queue == Contents(part.ring) IN
        part.count[c] = Cardinality({i \in DOMAIN queue : queue[i].controller = c})

\* An application is handed the messages in the order the other end sent them,
\* over all controllers, and none of them twice.
InOrderOnce ==
    \A e \in Ends : \A i, j \in DOMAIN delivered[e] :
        i < j => delivered[e][i] < delivered[e][j]

\* A message an end queued waits at that end, is in the frame, waits at the
\* other end, was handed over, or was given up in a way the code knows of: the
\* receiver's queue of its controller was full, or a new start cleared it.
NothingVanishes ==
    \A e \in Ends :
        LET onTheWay == IF Reads(Peer(e)) THEN frame ELSE <<>> IN
        1 .. sent[e] = Numbers(MessagesOf(e)) \cup Numbers(onTheWay)
                         \cup Numbers(Contents(inbound[Peer(e)].ring))
                         \cup {delivered[Peer(e)][i] : i \in DOMAIN delivered[Peer(e)]}
                         \cup dropped[e]

\* While the simulation steps, every message an end queued is handed over at
\* the other end or given up: again and again there is none left on its way.
EveryMessageArrives ==
    \A e \in Ends : HasCallback[Peer(e)] \/ e = "server" =>
        []<>(1 .. sent[e] \subseteq
                dropped[e] \cup {delivered[Peer(e)][i] : i \in DOMAIN delivered[Peer(e)]})
=============================================================================
