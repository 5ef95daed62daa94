------------------------- MODULE BusExchangeProofs --------------------------
(***************************************************************************)
(* Proofs about BusExchange, for every set of controllers and every size   *)
(* of their queues: the ring that all controllers share never fills up     *)
(* before the queue of one of them, each count is how many messages its    *)
(* controller has queued, and the messages of an end are handed over once, *)
(* in the order they were sent, or given up.  At the end, what is proved   *)
(* of LocalBusExchange and of ShmPipe, as the properties MCRings checks.   *)
(***************************************************************************)
EXTENDS MCRings, RingBufferProofs, FiniteSetTheorems

-----------------------------------------------------------------------------
(* A part.                                                                 *)

Nothing == Message("none", 0)
Queue(part) == Contents(part.ring)

\* The ring is a queue of messages, of which each controller has as many as its
\* count says and no more than it may have.
PartInv(part) ==
    /\ part \in Parts
    /\ WellFormed(part.ring)
    /\ Queue(part) \in Seq(Messages)
    /\ \A c \in Controllers : /\ part.count[c] = Cardinality(Of(Queue(part), c))
                              /\ part.count[c] <= QueueSize[c]

\* That is what RingBufferProofs proves rings of this kind to be.
LEMMA PartCharged ==
    ASSUME NEW part
    PROVE  /\ PartInv(part) =>
                  Charged(part.ring, part.count, Messages, Nothing, Controllers, QueueSize)
           /\ \A ring, count :
                  part = Part(ring, count)
                  /\ Charged(ring, count, Messages, Nothing, Controllers, QueueSize) =>
                  PartInv(part)
<1>1. PlacesFor(Controllers, QueueSize) = Places
  BY DEF PlacesFor, Places
<1>2. PartInv(part) =>
          Charged(part.ring, part.count, Messages, Nothing, Controllers, QueueSize)
  BY <1>1 DEF PartInv, Charged, Parts, Nothing, Queue, CombinedQueueCapacity
<1>3. ASSUME NEW ring, NEW count, part = Part(ring, count),
             Charged(ring, count, Messages, Nothing, Controllers, QueueSize)
      PROVE  PartInv(part)
  <2>1. part.ring = ring /\ part.count = count /\ part = [ring |-> ring, count |-> count]
    BY <1>3 DEF Part
  <2>. QED
    BY <1>1, <1>3, <2>1 DEF PartInv, Charged, Parts, Nothing, Queue, CombinedQueueCapacity
<1>. QED
  BY <1>2, <1>3

LEMMA MessagesOwned ==
    /\ Owned(Messages, Controllers, QueueSize)
    /\ CombinedQueueCapacity \in Nat
    /\ CombinedQueueCapacity = Cardinality(PlacesFor(Controllers, QueueSize))
<1>1. PlacesFor(Controllers, QueueSize) = Places
  BY DEF PlacesFor, Places
<1>. QED
  BY <1>1, BusAssumption, PlacesFinite DEF Owned, Messages, CombinedQueueCapacity

\* While one controller may queue a message the ring has room for it.
LEMMA RoomForAll ==
    ASSUME NEW part, PartInv(part), NEW c \in Controllers, ~QueueFull(part, c)
    PROVE  ~IsFull(part.ring)
  BY PartCharged, MessagesOwned, RoomForOwner DEF QueueFull

\* A part with an empty ring and no counts is in order.
LEMMA EmptyPart ==
    ASSUME NEW ring \in Rings(CombinedQueueCapacity, Messages \cup {Nothing}),
           WellFormed(ring), Contents(ring) = <<>>
    PROVE  /\ PartInv(Part(ring, NoneQueued))
           /\ Queue(Part(ring, NoneQueued)) = <<>>
<1>1. Charged(ring, NoneQueued, Messages, Nothing, Controllers, QueueSize)
  BY MessagesOwned, ChargedNothing DEF NoneQueued
<1>2. PartInv(Part(ring, NoneQueued))
  BY <1>1, PartCharged
<1>. QED
  BY <1>2 DEF Part, Queue

\* A new part is empty.
LEMMA NewPartIsEmpty == PartInv(NewPart) /\ Queue(NewPart) = <<>>
<1>. DEFINE ring == NewRing(CombinedQueueCapacity, Nothing)
<1>1. NewPart = Part(ring, NoneQueued)
  BY DEF NewPart, Part, Nothing
<1>2. /\ ring \in Rings(CombinedQueueCapacity, Messages \cup {Nothing})
      /\ WellFormed(ring) /\ Contents(ring) = <<>>
  BY MessagesOwned, NewRingIsEmpty
<1>. HIDE DEF ring
<1>. QED
  BY <1>1, <1>2, EmptyPart

\* Serialize empties a part.
LEMMA SerializedIsEmpty ==
    ASSUME NEW part, PartInv(part)
    PROVE  PartInv(Serialized(part)) /\ Queue(Serialized(part)) = <<>>
<1>. DEFINE ring == Drain(part.ring)
<1>1. Serialized(part) = Part(ring, NoneQueued)
  BY DEF Serialized
<1>2. /\ ring \in Rings(CombinedQueueCapacity, Messages \cup {Nothing})
      /\ WellFormed(ring) /\ Contents(ring) = <<>>
  BY MessagesOwned, DrainEmpties DEF PartInv, Parts, Nothing
<1>. HIDE DEF ring
<1>. QED
  BY <1>1, <1>2, EmptyPart

\* ClearData empties a part.
LEMMA ClearedIsEmpty ==
    ASSUME NEW part, PartInv(part)
    PROVE  PartInv(ClearData(part)) /\ Queue(ClearData(part)) = <<>>
<1>. DEFINE ring == Clear(part.ring)
<1>1. ClearData(part) = Part(ring, NoneQueued)
  BY DEF ClearData
<1>2. /\ ring \in Rings(CombinedQueueCapacity, Messages \cup {Nothing})
      /\ WellFormed(ring) /\ Contents(ring) = <<>>
  BY MessagesOwned, ClearEmpties DEF PartInv, Parts, Nothing
<1>. HIDE DEF ring
<1>. QED
  BY <1>1, <1>2, EmptyPart

\* Queueing a message appends it to the queue of the part.
LEMMA QueuedAppends ==
    ASSUME NEW part, PartInv(part), NEW message \in Messages,
           ~QueueFull(part, message.controller)
    PROVE  /\ PartInv(Queued(part, message))
           /\ Queue(Queued(part, message)) = Append(Queue(part), message)
<1>. DEFINE ring == PushBack(part.ring, message)
            count == OneMore(part.count, message.controller)
<1>1. /\ Charged(ring, count, Messages, Nothing, Controllers, QueueSize)
      /\ Contents(ring) = Append(Contents(part.ring), message)
  <2>1. Accepts(part.ring, part.count, message, Messages, Nothing, Controllers, QueueSize)
    BY PartCharged, MessagesOwned DEF Accepts, QueueFull
  <2>. QED
    BY <2>1, ChargedAppends
<1>2. Queued(part, message) = Part(ring, count)
  BY DEF Queued, OneMore
<1>. HIDE DEF ring, count
<1>3. PartInv(Queued(part, message))
  BY <1>1, <1>2, PartCharged
<1>. QED
  BY <1>1, <1>2, <1>3 DEF Part, Queue

\* Receiving takes the head of the queue of the part.
LEMMA ReceivedTakesHead ==
    ASSUME NEW part, PartInv(part), ~IsEmpty(part.ring)
    PROVE  /\ PartInv(Received(part))
           /\ Queue(part) # <<>>
           /\ Front(part.ring) = Head(Queue(part))
           /\ Queue(Received(part)) = Tail(Queue(part))
<1>. DEFINE ring == RemoveFront(part.ring)
            count == OneFewer(part.count, Front(part.ring).controller)
<1>1. /\ Charged(ring, count, Messages, Nothing, Controllers, QueueSize)
      /\ Contents(part.ring) # <<>>
      /\ Front(part.ring) = Head(Contents(part.ring))
      /\ Contents(ring) = Tail(Contents(part.ring))
  BY PartCharged, MessagesOwned, ChargedTakesHead
<1>2. Received(part) = Part(ring, count)
  BY DEF Received, OneFewer
<1>. HIDE DEF ring, count
<1>3. PartInv(Received(part))
  BY <1>1, <1>2, PartCharged
<1>. QED
  BY <1>1, <1>2, <1>3 DEF Part, Queue

-----------------------------------------------------------------------------
(* The messages of one end, from the first to the last: those handed over, *)
(* those that wait at the receiver, those in the frame and those that wait *)
(* at the sender.                                                          *)

Handed(numbers) == {numbers[i] : i \in DOMAIN numbers}
Before(A, B) == \A a \in A, b \in B : a < b

Ascending(queue) ==
    \A i, j \in DOMAIN queue : i < j => queue[i].number < queue[j].number
Increasing(numbers) ==
    \A i, j \in DOMAIN numbers : i < j => numbers[i] < numbers[j]

\* The n messages of an end are on their way in the order they were sent,
\* behind those that were handed over, or were given up.
Line(handed, arrived, inFrame, waiting, n, given) ==
    /\ handed \in Seq(Nat)
    /\ arrived \in Seq(Messages)
    /\ inFrame \in Seq(Messages)
    /\ waiting \in Seq(Messages)
    /\ n \in Nat
    /\ given \in SUBSET Nat
    /\ Increasing(handed)
    /\ Ascending(arrived)
    /\ Ascending(inFrame)
    /\ Ascending(waiting)
    /\ Before(Handed(handed), Numbers(arrived))
    /\ Before(Handed(handed), Numbers(inFrame))
    /\ Before(Handed(handed), Numbers(waiting))
    /\ Before(Numbers(arrived), Numbers(inFrame))
    /\ Before(Numbers(arrived), Numbers(waiting))
    /\ Before(Numbers(inFrame), Numbers(waiting))
    /\ 1 .. n = Numbers(waiting) \cup Numbers(inFrame) \cup Numbers(arrived)
                  \cup Handed(handed) \cup given

\* What a queue of messages holds after another one is appended.
LEMMA AppendToQueue ==
    ASSUME NEW queue \in Seq(Messages), NEW message \in Messages
    PROVE  /\ Append(queue, message) \in Seq(Messages)
           /\ Numbers(Append(queue, message)) = Numbers(queue) \cup {message.number}
           /\ Ascending(queue) /\ Before(Numbers(queue), {message.number}) =>
                  Ascending(Append(queue, message))
<1>. DEFINE longer == Append(queue, message)
            n == Len(queue)
<1>1. /\ longer \in Seq(Messages) /\ n \in Nat
      /\ DOMAIN queue = 1 .. n /\ DOMAIN longer = 1 .. n + 1
      /\ \A i \in 1 .. n : longer[i] = queue[i]
      /\ longer[n + 1] = message
  OBVIOUS
<1>. HIDE DEF longer, n
<1>2. Numbers(longer) = Numbers(queue) \cup {message.number}
  <2>1. \A i \in 1 .. n + 1 : i \in 1 .. n \/ i = n + 1
    BY <1>1
  <2>2. n + 1 \in 1 .. n + 1 /\ \A i \in 1 .. n : i \in 1 .. n + 1
    BY <1>1
  <2>. QED
    BY <1>1, <2>1, <2>2 DEF Numbers
<1>3. ASSUME Ascending(queue), Before(Numbers(queue), {message.number})
      PROVE  Ascending(longer)
  <2>. SUFFICES ASSUME NEW i \in 1 .. n + 1, NEW j \in 1 .. n + 1, i < j
                PROVE  longer[i].number < longer[j].number
    BY <1>1 DEF Ascending
  <2>1. i \in 1 .. n
    BY <1>1
  <2>2. CASE j \in 1 .. n
    BY <1>1, <1>3, <2>1, <2>2 DEF Ascending
  <2>3. CASE j = n + 1
    <3>1. queue[i].number \in Numbers(queue)
      BY <1>1, <2>1 DEF Numbers
    <3>. QED
      BY <1>1, <1>3, <2>1, <2>3, <3>1 DEF Before
  <2>. QED
    BY <1>1, <2>2, <2>3
<1>. QED
  BY <1>1, <1>2, <1>3 DEF longer

\* What a queue of messages holds after its head is taken.
LEMMA TailOfQueue ==
    ASSUME NEW queue \in Seq(Messages), queue # <<>>
    PROVE  /\ Head(queue) \in Messages
           /\ Tail(queue) \in Seq(Messages)
           /\ Numbers(queue) = Numbers(Tail(queue)) \cup {Head(queue).number}
           /\ Ascending(queue) => /\ Ascending(Tail(queue))
                                  /\ Before({Head(queue).number}, Numbers(Tail(queue)))
<1>. DEFINE rest == Tail(queue)
            n == Len(queue)
<1>1. /\ rest \in Seq(Messages) /\ n \in Nat \ {0}
      /\ DOMAIN queue = 1 .. n /\ DOMAIN rest = 1 .. n - 1
      /\ Head(queue) = queue[1] /\ queue[1] \in Messages
      /\ \A i \in 1 .. n - 1 : rest[i] = queue[i + 1]
  OBVIOUS
<1>. HIDE DEF rest, n
<1>2. \A i \in 1 .. n - 1 : i + 1 \in 1 .. n /\ 1 < i + 1
  BY <1>1
<1>3. \A i \in 1 .. n : i = 1 \/ (i - 1 \in 1 .. n - 1 /\ (i - 1) + 1 = i)
  BY <1>1
<1>4. Numbers(queue) = Numbers(rest) \cup {Head(queue).number}
  <2>1. ASSUME NEW i \in 1 .. n
        PROVE  queue[i].number \in Numbers(rest) \cup {Head(queue).number}
    <3>1. CASE i = 1
      BY <1>1, <3>1
    <3>2. CASE i - 1 \in 1 .. n - 1 /\ (i - 1) + 1 = i
      <4>1. rest[i - 1] = queue[i]
        BY <1>1, <3>2
      <4>. QED
        BY <1>1, <3>2, <4>1 DEF Numbers
    <3>. QED
      BY <1>3, <3>1, <3>2
  <2>2. \A i \in 1 .. n - 1 : rest[i].number \in Numbers(queue)
    BY <1>1, <1>2 DEF Numbers
  <2>3. Head(queue).number \in Numbers(queue)
    <3>1. 1 \in 1 .. n
      BY <1>1
    <3>. QED
      BY <1>1, <3>1 DEF Numbers
  <2>. QED
    BY <1>1, <2>1, <2>2, <2>3 DEF Numbers
<1>5. ASSUME Ascending(queue)
      PROVE  Ascending(rest) /\ Before({Head(queue).number}, Numbers(rest))
  <2>1. Ascending(rest)
    <3>. SUFFICES ASSUME NEW i \in 1 .. n - 1, NEW j \in 1 .. n - 1, i < j
                  PROVE  rest[i].number < rest[j].number
      BY <1>1 DEF Ascending
    <3>1. i + 1 < j + 1
      BY <1>1
    <3>. QED
      BY <1>1, <1>2, <1>5, <3>1 DEF Ascending
  <2>2. ASSUME NEW i \in 1 .. n - 1
        PROVE  Head(queue).number < rest[i].number
    <3>1. 1 \in 1 .. n
      BY <1>1
    <3>. QED
      BY <1>1, <1>2, <1>5, <3>1 DEF Ascending
  <2>. QED
    BY <1>1, <2>1, <2>2 DEF Before, Numbers
<1>. QED
  BY <1>1, <1>4, <1>5 DEF rest

\* What was handed over after another message is.
LEMMA AppendToHanded ==
    ASSUME NEW numbers \in Seq(Nat), NEW number \in Nat
    PROVE  /\ Append(numbers, number) \in Seq(Nat)
           /\ Handed(Append(numbers, number)) = Handed(numbers) \cup {number}
           /\ Increasing(numbers) /\ Before(Handed(numbers), {number}) =>
                  Increasing(Append(numbers, number))
<1>. DEFINE longer == Append(numbers, number)
            n == Len(numbers)
<1>1. /\ longer \in Seq(Nat) /\ n \in Nat
      /\ DOMAIN numbers = 1 .. n /\ DOMAIN longer = 1 .. n + 1
      /\ \A i \in 1 .. n : longer[i] = numbers[i]
      /\ longer[n + 1] = number
  OBVIOUS
<1>. HIDE DEF longer, n
<1>2. Handed(longer) = Handed(numbers) \cup {number}
  <2>1. \A i \in 1 .. n + 1 : i \in 1 .. n \/ i = n + 1
    BY <1>1
  <2>2. n + 1 \in 1 .. n + 1 /\ \A i \in 1 .. n : i \in 1 .. n + 1
    BY <1>1
  <2>. QED
    BY <1>1, <2>1, <2>2 DEF Handed
<1>3. ASSUME Increasing(numbers), Before(Handed(numbers), {number})
      PROVE  Increasing(longer)
  <2>. SUFFICES ASSUME NEW i \in 1 .. n + 1, NEW j \in 1 .. n + 1, i < j
                PROVE  longer[i] < longer[j]
    BY <1>1 DEF Increasing
  <2>1. i \in 1 .. n
    BY <1>1
  <2>2. CASE j \in 1 .. n
    BY <1>1, <1>3, <2>1, <2>2 DEF Increasing
  <2>3. CASE j = n + 1
    <3>1. numbers[i] \in Handed(numbers)
      BY <1>1, <2>1 DEF Handed
    <3>. QED
      BY <1>1, <1>3, <2>1, <2>3, <3>1 DEF Before
  <2>. QED
    BY <1>1, <2>2, <2>3
<1>. QED
  BY <1>1, <1>2, <1>3 DEF longer

\* An empty queue has no numbers.
LEMMA EmptyQueue ==
    /\ <<>> \in Seq(Messages) /\ <<>> \in Seq(Nat)
    /\ Numbers(<<>>) = {} /\ Handed(<<>>) = {}
    /\ Ascending(<<>>) /\ Increasing(<<>>)
  BY DEF Numbers, Handed, Ascending, Increasing

\* Transmit: the next message waits at the sender.
LEMMA LineTransmit ==
    ASSUME NEW h, NEW a, NEW f, NEW w, NEW n, NEW g, Line(h, a, f, w, n, g),
           NEW c \in Controllers
    PROVE  Line(h, a, f, Append(w, Message(c, n + 1)), n + 1, g)
<1>. DEFINE m == Message(c, n + 1)
<1>1. m \in Messages /\ m.number = n + 1 /\ n \in Nat
  BY DEF Message, Messages, Line
<1>. HIDE DEF m
<1>2. 1 .. n + 1 = 1 .. n \cup {n + 1}
  BY <1>1
<1>3. \A i \in 1 .. n : i < n + 1
  BY <1>1
<1>4. w \in Seq(Messages) /\ Before(Numbers(w), {m.number})
  BY <1>1, <1>3 DEF Line, Before
<1>5. /\ Append(w, m) \in Seq(Messages)
      /\ Numbers(Append(w, m)) = Numbers(w) \cup {n + 1}
      /\ Ascending(Append(w, m))
  BY <1>1, <1>4, AppendToQueue DEF Line
<1>6. /\ Before(Handed(h), Numbers(Append(w, m)))
      /\ Before(Numbers(a), Numbers(Append(w, m)))
      /\ Before(Numbers(f), Numbers(Append(w, m)))
  BY <1>3, <1>5 DEF Line, Before
<1>. QED
  BY <1>1, <1>2, <1>5, <1>6 DEF Line, m

\* Serialize: what waits at the sender is the frame.
LEMMA LineSerialize ==
    ASSUME NEW h, NEW a, NEW w, NEW n, NEW g, Line(h, a, <<>>, w, n, g)
    PROVE  Line(h, a, w, <<>>, n, g)
  BY EmptyQueue DEF Line, Before

\* Deserialize: the head of the frame waits at the receiver.
LEMMA LineRead ==
    ASSUME NEW h, NEW a, NEW f, NEW w, NEW n, NEW g, Line(h, a, f, w, n, g), f # <<>>
    PROVE  Line(h, Append(a, Head(f)), Tail(f), w, n, g)
<1>1. /\ Head(f) \in Messages /\ Tail(f) \in Seq(Messages) /\ Ascending(Tail(f))
      /\ Numbers(f) = Numbers(Tail(f)) \cup {Head(f).number}
      /\ Before({Head(f).number}, Numbers(Tail(f)))
  BY TailOfQueue DEF Line
<1>2. Before(Numbers(a), {Head(f).number})
  BY <1>1 DEF Line, Before
<1>3. /\ Append(a, Head(f)) \in Seq(Messages) /\ Ascending(Append(a, Head(f)))
      /\ Numbers(Append(a, Head(f))) = Numbers(a) \cup {Head(f).number}
  BY <1>1, <1>2, AppendToQueue DEF Line
<1>. QED
  BY <1>1, <1>3 DEF Line, Before

\* Deserialize with a callback: the head of the frame is handed over.
LEMMA LineCallback ==
    ASSUME NEW h, NEW f, NEW w, NEW n, NEW g, Line(h, <<>>, f, w, n, g), f # <<>>
    PROVE  Line(Append(h, Head(f).number), <<>>, Tail(f), w, n, g)
<1>1. /\ Head(f) \in Messages /\ Tail(f) \in Seq(Messages) /\ Ascending(Tail(f))
      /\ Numbers(f) = Numbers(Tail(f)) \cup {Head(f).number}
      /\ Before({Head(f).number}, Numbers(Tail(f)))
  BY TailOfQueue DEF Line
<1>2. Before(Handed(h), {Head(f).number}) /\ Head(f).number \in Nat
  BY <1>1 DEF Line, Before, Messages
<1>3. /\ Append(h, Head(f).number) \in Seq(Nat) /\ Increasing(Append(h, Head(f).number))
      /\ Handed(Append(h, Head(f).number)) = Handed(h) \cup {Head(f).number}
  BY <1>1, <1>2, AppendToHanded DEF Line
<1>. QED
  BY <1>1, <1>3, EmptyQueue DEF Line, Before

\* Deserialize into a full queue: the head of the frame is given up.
LEMMA LineDrop ==
    ASSUME NEW h, NEW a, NEW f, NEW w, NEW n, NEW g, Line(h, a, f, w, n, g), f # <<>>
    PROVE  Line(h, a, Tail(f), w, n, g \cup {Head(f).number})
<1>1. /\ Head(f) \in Messages /\ Tail(f) \in Seq(Messages) /\ Ascending(Tail(f))
      /\ Numbers(f) = Numbers(Tail(f)) \cup {Head(f).number}
  BY TailOfQueue DEF Line
<1>2. Head(f).number \in Nat
  BY <1>1 DEF Messages
<1>. QED
  BY <1>1, <1>2 DEF Line, Before

\* Receive: the first message that waits at the receiver is handed over.
LEMMA LineReceive ==
    ASSUME NEW h, NEW a, NEW f, NEW w, NEW n, NEW g, Line(h, a, f, w, n, g), a # <<>>
    PROVE  Line(Append(h, Head(a).number), Tail(a), f, w, n, g)
<1>1. /\ Head(a) \in Messages /\ Tail(a) \in Seq(Messages) /\ Ascending(Tail(a))
      /\ Numbers(a) = Numbers(Tail(a)) \cup {Head(a).number}
      /\ Before({Head(a).number}, Numbers(Tail(a)))
  BY TailOfQueue DEF Line
<1>2. Before(Handed(h), {Head(a).number}) /\ Head(a).number \in Nat
  BY <1>1 DEF Line, Before, Messages
<1>3. /\ Append(h, Head(a).number) \in Seq(Nat) /\ Increasing(Append(h, Head(a).number))
      /\ Handed(Append(h, Head(a).number)) = Handed(h) \cup {Head(a).number}
  BY <1>1, <1>2, AppendToHanded DEF Line
<1>. QED
  BY <1>1, <1>3 DEF Line, Before

\* Start: what waits at the sender, or at the receiver, is given up.
LEMMA LineClear ==
    ASSUME NEW h, NEW a, NEW f, NEW w, NEW n, NEW g, Line(h, a, f, w, n, g)
    PROVE  /\ Line(h, a, f, <<>>, n, g \cup Numbers(w))
           /\ Line(h, <<>>, f, w, n, g \cup Numbers(a))
<1>1. n \in Nat /\ Numbers(w) \in SUBSET Nat /\ Numbers(a) \in SUBSET Nat
  <2>1. \A i \in 1 .. n : i \in Nat
    OBVIOUS
  <2>. QED
    BY <2>1 DEF Line
<1>. QED
  BY <1>1, EmptyQueue DEF Line, Before

-----------------------------------------------------------------------------
(* The inductive invariant.                                                *)

Arrived(e) == Queue(inbound[Peer(e)])
InFrame(e) == IF Reads(Peer(e)) THEN frame ELSE <<>>
Waiting(e) == Queue(outbound[e])

\* The messages of an end are in line, and none waits for an end that takes its
\* messages with a callback.
LineInv(e) ==
    /\ Line(delivered[Peer(e)], Arrived(e), InFrame(e), Waiting(e), sent[e], dropped[e])
    /\ HasCallback[Peer(e)] => Arrived(e) = <<>>

BusInv ==
    /\ TypeOK
    /\ NeverOverflows
    /\ \A e \in Ends : PartInv(outbound[e]) /\ PartInv(inbound[e])
    /\ \A e \in Ends : LineInv(e)

LEMMA Peers == \A e \in Ends : Peer(e) \in Ends /\ Peer(Peer(e)) = e /\ Peer(e) # e
  BY DEF Ends, Peer

LEMMA BusInit == Init => BusInv
<1>. SUFFICES ASSUME Init PROVE BusInv
  OBVIOUS
<1>1. PartInv(NewPart) /\ Queue(NewPart) = <<>> /\ NewPart \in Parts
  BY NewPartIsEmpty DEF PartInv
<1>2. TypeOK
  <2>1. outbound \in [Ends -> Parts] /\ inbound \in [Ends -> Parts]
    BY <1>1 DEF Init
  <2>2. frame \in Seq(Messages) /\ delivered \in [Ends -> Seq(Nat)]
    BY EmptyQueue DEF Init
  <2>. QED
    BY <2>1, <2>2 DEF Init, TypeOK
<1>3. NeverOverflows
  BY DEF Init, NeverOverflows
<1>4. ASSUME NEW e \in Ends
      PROVE  PartInv(outbound[e]) /\ PartInv(inbound[e])
  <2>1. outbound[e] = NewPart /\ inbound[e] = NewPart
    BY DEF Init
  <2>. QED
    BY <1>1, <2>1
<1>5. ASSUME NEW e \in Ends
      PROVE  LineInv(e)
  <2>1. /\ delivered[Peer(e)] = <<>> /\ Arrived(e) = <<>> /\ InFrame(e) = <<>>
        /\ Waiting(e) = <<>> /\ sent[e] = 0 /\ dropped[e] = {}
    BY <1>1, Peers DEF Init, Arrived, InFrame, Waiting
  <2>2. Line(<<>>, <<>>, <<>>, <<>>, 0, {})
    BY EmptyQueue DEF Line, Before
  <2>. QED
    BY <2>1, <2>2 DEF LineInv
<1>. QED
  BY <1>2, <1>3, <1>4, <1>5 DEF BusInv

\* A message is queued in a part that has a place for it.
LEMMA BusTransmit ==
    ASSUME BusInv, NEW e \in Ends, NEW c \in Controllers, Transmit(e, c)
    PROVE  BusInv'
<1>. DEFINE n == sent[e] + 1
            m == Message(c, n)
<1>1. /\ TypeOK /\ PartInv(outbound[e]) /\ n \in Nat
      /\ m \in Messages /\ m.controller = c
      /\ ~QueueFull(outbound[e], c)
  BY DEF BusInv, Transmit, TypeOK, Message, Messages
<1>2. ~IsFull(outbound[e].ring)
  BY <1>1, RoomForAll
<1>3. /\ outbound' = [outbound EXCEPT ![e] = Queued(@, m)]
      /\ sent' = [sent EXCEPT ![e] = n]
      /\ UNCHANGED <<inbound, stage, frame, bufferFull, delivered, dropped>>
  BY <1>2 DEF Transmit
<1>. HIDE DEF m
<1>4. /\ PartInv(Queued(outbound[e], m))
      /\ Queue(Queued(outbound[e], m)) = Append(Queue(outbound[e]), m)
  BY <1>1, QueuedAppends
<1>5. Queued(outbound[e], m) \in Parts
  BY <1>4 DEF PartInv
<1>6. TypeOK'
  BY <1>1, <1>3, <1>5 DEF TypeOK
<1>7. outbound'[e] = Queued(outbound[e], m) /\ \A o \in Ends \ {e} : outbound'[o] = outbound[o]
  BY <1>1, <1>3 DEF TypeOK
<1>8. (NeverOverflows /\ \A o \in Ends : PartInv(outbound[o]) /\ PartInv(inbound[o]))'
  <2>1. NeverOverflows'
    BY <1>3 DEF BusInv, NeverOverflows
  <2>2. ASSUME NEW o \in Ends
        PROVE  PartInv(outbound'[o]) /\ PartInv(inbound'[o])
    BY <1>3, <1>4, <1>7 DEF BusInv
  <2>. QED
    BY <2>1, <2>2
<1>9. ASSUME NEW o \in Ends
      PROVE  LineInv(o)'
  <2>1. LineInv(o)
    BY DEF BusInv
  <2>2. /\ delivered'[Peer(o)] = delivered[Peer(o)] /\ Arrived(o)' = Arrived(o)
        /\ InFrame(o)' = InFrame(o) /\ dropped'[o] = dropped[o]
    BY <1>3 DEF Arrived, InFrame, Reads
  <2>3. CASE o = e
    <3>1. Waiting(o)' = Append(Waiting(o), m) /\ sent'[o] = sent[o] + 1
      BY <1>1, <1>3, <1>4, <1>7, <2>3 DEF Waiting, TypeOK
    <3>2. Line(delivered[Peer(o)], Arrived(o), InFrame(o), Append(Waiting(o), m),
               sent[o] + 1, dropped[o])
      BY <2>1, <2>3, LineTransmit DEF LineInv, m
    <3>. QED
      BY <2>1, <2>2, <3>1, <3>2 DEF LineInv
  <2>4. CASE o # e
    <3>1. Waiting(o)' = Waiting(o) /\ sent'[o] = sent[o]
      BY <1>1, <1>3, <1>7, <2>4 DEF Waiting, TypeOK
    <3>. QED
      BY <2>1, <2>2, <3>1 DEF LineInv
  <2>. QED
    BY <2>3, <2>4
<1>. QED
  BY <1>6, <1>8, <1>9 DEF BusInv

\* What an end queued goes into the frame that its peer reads next.
LEMMA BusSerialize ==
    ASSUME BusInv, NEW e \in Ends, Serialize(e),
           stage \in {"idle", "inStep"},
           stage' = IF e = "server" THEN "toClient" ELSE "toServer"
    PROVE  BusInv'
<1>1. TypeOK /\ PartInv(outbound[e])
  BY DEF BusInv
<1>2. PartInv(Serialized(outbound[e])) /\ Queue(Serialized(outbound[e])) = <<>>
  BY <1>1, SerializedIsEmpty
<1>3. /\ frame' = Queue(outbound[e])
      /\ outbound' = [outbound EXCEPT ![e] = Serialized(@)]
      /\ UNCHANGED <<inbound, bufferFull, sent, delivered, dropped>>
  BY DEF Serialize, MessagesOf, Queue
<1>4. Serialized(outbound[e]) \in Parts /\ frame' \in Seq(Messages)
  BY <1>1, <1>2, <1>3 DEF PartInv
<1>5. TypeOK'
  BY <1>1, <1>3, <1>4 DEF TypeOK
<1>6. outbound'[e] = Serialized(outbound[e]) /\ \A o \in Ends \ {e} : outbound'[o] = outbound[o]
  BY <1>1, <1>3 DEF TypeOK
<1>7. (NeverOverflows /\ \A o \in Ends : PartInv(outbound[o]) /\ PartInv(inbound[o]))'
  <2>1. NeverOverflows'
    BY <1>3 DEF BusInv, NeverOverflows
  <2>2. ASSUME NEW o \in Ends
        PROVE  PartInv(outbound'[o]) /\ PartInv(inbound'[o])
    BY <1>2, <1>3, <1>6 DEF BusInv
  <2>. QED
    BY <2>1, <2>2
<1>8. ASSUME NEW o \in Ends
      PROVE  LineInv(o)'
  <2>1. LineInv(o)
    BY DEF BusInv
  <2>2. /\ delivered'[Peer(o)] = delivered[Peer(o)] /\ Arrived(o)' = Arrived(o)
        /\ sent'[o] = sent[o] /\ dropped'[o] = dropped[o]
    BY <1>3 DEF Arrived
  <2>3. InFrame(o) = <<>>
    BY DEF InFrame, Reads
  <2>4. CASE o = e
    <3>1. Waiting(o)' = <<>> /\ InFrame(o)' = Waiting(o)
      BY <1>2, <1>3, <1>6, <2>4 DEF Waiting, InFrame, Reads, Peer, Ends
    <3>2. Line(delivered[Peer(o)], Arrived(o), Waiting(o), <<>>, sent[o], dropped[o])
      BY <2>1, <2>3, LineSerialize DEF LineInv
    <3>. QED
      BY <2>1, <2>2, <3>1, <3>2 DEF LineInv
  <2>5. CASE o # e
    <3>1. Waiting(o)' = Waiting(o) /\ InFrame(o)' = InFrame(o)
      BY <1>6, <2>3, <2>5 DEF Waiting, InFrame, Reads, Peer, Ends
    <3>. QED
      BY <2>1, <2>2, <3>1 DEF LineInv
  <2>. QED
    BY <2>4, <2>5
<1>. QED
  BY <1>5, <1>7, <1>8 DEF BusInv

\* The head of the frame is handed over, waits at the receiver, or is given up.
LEMMA BusReadMessage ==
    ASSUME BusInv, NEW e \in Ends, ReadMessage(e)
    PROVE  BusInv'
<1>. DEFINE m == Head(frame)
            p == Peer(e)
<1>1. /\ TypeOK /\ PartInv(inbound[e]) /\ p \in Ends /\ Peer(p) = e /\ p # e
      /\ m \in Messages /\ m.controller \in Controllers /\ m.number \in Nat
      /\ Tail(frame) \in Seq(Messages)
  <2>1. m \in Messages /\ Tail(frame) \in Seq(Messages)
    BY TailOfQueue DEF BusInv, TypeOK, ReadMessage
  <2>2. m.controller \in Controllers /\ m.number \in Nat
    BY <2>1 DEF Messages
  <2>. HIDE DEF m
  <2>. QED
    BY <2>1, <2>2, Peers DEF BusInv
<1>2. /\ Reads(e) /\ frame # <<>> /\ frame' = Tail(frame)
      /\ UNCHANGED <<outbound, stage, sent>>
  BY DEF ReadMessage
<1>3. LineInv(p) /\ Arrived(p) = Queue(inbound[e]) /\ InFrame(p) = frame
  BY <1>1, <1>2 DEF BusInv, Arrived, InFrame
<1>4. InFrame(p)' = Tail(frame) /\ Waiting(p)' = Waiting(p)
  BY <1>1, <1>2 DEF InFrame, Waiting, Reads
<1>5. /\ LineInv(e) /\ InFrame(e) = <<>> /\ InFrame(e)' = <<>>
      /\ Waiting(e)' = Waiting(e) /\ Peer(e) = p
  BY <1>1, <1>2 DEF BusInv, InFrame, Waiting, Reads, Ends, Peer
<1>6. CASE /\ HasCallback[e]
           /\ delivered' = [delivered EXCEPT ![e] = Append(@, m.number)]
           /\ UNCHANGED <<inbound, bufferFull, dropped>>
  <2>1. /\ delivered'[e] = Append(delivered[e], m.number) /\ delivered'[p] = delivered[p]
        /\ delivered' \in [Ends -> Seq(Nat)]
    BY <1>1, <1>6 DEF TypeOK
  <2>2. TypeOK'
    BY <1>1, <1>2, <1>6, <2>1 DEF TypeOK
  <2>3. (NeverOverflows /\ \A o \in Ends : PartInv(outbound[o]) /\ PartInv(inbound[o]))'
    BY <1>2, <1>6 DEF BusInv, NeverOverflows
  <2>4. Arrived(p)' = Arrived(p) /\ Arrived(e)' = Arrived(e)
    BY <1>6 DEF Arrived
  <2>5. LineInv(p)'
    <3>1. Arrived(p) = <<>>
      BY <1>1, <1>3, <1>6 DEF LineInv
    <3>2. Line(Append(delivered[e], m.number), <<>>, Tail(frame), Waiting(p), sent[p], dropped[p])
      BY <1>1, <1>2, <1>3, <3>1, LineCallback DEF LineInv
    <3>. QED
      BY <1>1, <1>2, <1>4, <1>6, <2>1, <2>4, <3>1, <3>2 DEF LineInv
  <2>6. LineInv(e)'
    BY <1>2, <1>5, <1>6, <2>1, <2>4 DEF LineInv
  <2>. QED
    BY <1>1, <2>2, <2>3, <2>5, <2>6 DEF BusInv, Ends
<1>7. CASE /\ ~HasCallback[e]
           /\ dropped' = [dropped EXCEPT ![p] = @ \cup {m.number}]
           /\ UNCHANGED <<inbound, bufferFull, delivered>>
  <2>1. /\ dropped'[p] = dropped[p] \cup {m.number} /\ dropped'[e] = dropped[e]
        /\ dropped' \in [Ends -> SUBSET Nat]
    BY <1>1, <1>7 DEF TypeOK
  <2>2. TypeOK'
    BY <1>1, <1>2, <1>7, <2>1 DEF TypeOK
  <2>3. (NeverOverflows /\ \A o \in Ends : PartInv(outbound[o]) /\ PartInv(inbound[o]))'
    BY <1>2, <1>7 DEF BusInv, NeverOverflows
  <2>4. Arrived(p)' = Arrived(p) /\ Arrived(e)' = Arrived(e)
    BY <1>7 DEF Arrived
  <2>5. LineInv(p)'
    <3>1. Line(delivered[e], Arrived(p), Tail(frame), Waiting(p), sent[p],
               dropped[p] \cup {m.number})
      BY <1>1, <1>2, <1>3, LineDrop DEF LineInv
    <3>. QED
      BY <1>1, <1>2, <1>3, <1>4, <1>7, <2>1, <2>4, <3>1 DEF LineInv
  <2>6. LineInv(e)'
    BY <1>2, <1>5, <1>7, <2>1, <2>4 DEF LineInv
  <2>. QED
    BY <1>1, <2>2, <2>3, <2>5, <2>6 DEF BusInv, Ends
<1>8. CASE /\ ~HasCallback[e] /\ ~QueueFull(inbound[e], m.controller)
           /\ IF IsFull(inbound[e].ring)
              THEN bufferFull' = TRUE /\ UNCHANGED inbound
              ELSE /\ inbound' = [inbound EXCEPT ![e] = Queued(@, m)]
                   /\ UNCHANGED bufferFull
           /\ UNCHANGED <<delivered, dropped>>
  <2>1. ~IsFull(inbound[e].ring)
    BY <1>1, <1>8, RoomForAll
  <2>2. inbound' = [inbound EXCEPT ![e] = Queued(@, m)] /\ bufferFull' = bufferFull
    BY <1>8, <2>1
  <2>3. /\ PartInv(Queued(inbound[e], m))
        /\ Queue(Queued(inbound[e], m)) = Append(Queue(inbound[e]), m)
    BY <1>1, <1>8, QueuedAppends
  <2>4. Queued(inbound[e], m) \in Parts
    BY <2>3 DEF PartInv
  <2>5. /\ inbound'[e] = Queued(inbound[e], m) /\ inbound'[p] = inbound[p]
        /\ inbound' \in [Ends -> Parts]
    BY <1>1, <2>2, <2>4 DEF TypeOK
  <2>6. TypeOK'
    BY <1>1, <1>2, <1>8, <2>2, <2>5 DEF TypeOK
  <2>7. (NeverOverflows /\ \A o \in Ends : PartInv(outbound[o]) /\ PartInv(inbound[o]))'
    <3>1. NeverOverflows'
      BY <2>2 DEF BusInv, NeverOverflows
    <3>2. ASSUME NEW o \in Ends
          PROVE  PartInv(outbound'[o]) /\ PartInv(inbound'[o])
      <4>1. o = e \/ o = p
        BY DEF Ends, Peer
      <4>. QED
        BY <1>2, <2>3, <2>5, <4>1 DEF BusInv
    <3>. QED
      BY <3>1, <3>2
  <2>8. LineInv(p)'
    <3>1. Line(delivered[e], Append(Arrived(p), m), Tail(frame), Waiting(p), sent[p], dropped[p])
      BY <1>1, <1>2, <1>3, LineRead DEF LineInv
    <3>2. Arrived(p)' = Append(Arrived(p), m)
      BY <1>1, <1>3, <2>3, <2>5 DEF Arrived
    <3>. QED
      BY <1>1, <1>2, <1>4, <1>8, <3>1, <3>2 DEF LineInv
  <2>9. LineInv(e)'
    <3>1. Arrived(e)' = Arrived(e)
      BY <2>5 DEF Arrived
    <3>. QED
      BY <1>2, <1>5, <1>8, <3>1 DEF LineInv
  <2>. QED
    BY <1>1, <2>6, <2>7, <2>8, <2>9 DEF BusInv, Ends
<1>. QED
  BY <1>6, <1>7, <1>8 DEF ReadMessage, HandedOver

\* The frame was read.
LEMMA BusEndRead ==
    ASSUME BusInv, NEW e \in Ends, EndRead(e)
    PROVE  BusInv'
<1>1. /\ TypeOK /\ Reads(e) /\ frame = <<>>
      /\ stage' = IF e = "client" THEN "inStep" ELSE "idle"
      /\ UNCHANGED <<outbound, inbound, frame, bufferFull, sent, delivered, dropped>>
  BY DEF BusInv, EndRead
<1>2. TypeOK'
  BY <1>1 DEF TypeOK
<1>3. (NeverOverflows /\ \A o \in Ends : PartInv(outbound[o]) /\ PartInv(inbound[o]))'
  BY <1>1 DEF BusInv, NeverOverflows
<1>4. ASSUME NEW o \in Ends
      PROVE  LineInv(o)'
  <2>1. InFrame(o)' = InFrame(o)
    BY <1>1 DEF InFrame
  <2>2. Arrived(o)' = Arrived(o) /\ Waiting(o)' = Waiting(o)
    BY <1>1 DEF Arrived, Waiting
  <2>. QED
    BY <1>1, <2>1, <2>2 DEF BusInv, LineInv
<1>. QED
  BY <1>2, <1>3, <1>4 DEF BusInv

\* The client receives the message that has waited longest.
LEMMA BusReceive ==
    ASSUME BusInv, Receive
    PROVE  BusInv'
<1>. DEFINE part == inbound["client"]
            m == Front(part.ring)
<1>1. /\ TypeOK /\ PartInv(part) /\ ~IsEmpty(part.ring)
      /\ delivered' = [delivered EXCEPT !["client"] = Append(@, m.number)]
      /\ inbound' = [inbound EXCEPT !["client"] = Received(@)]
      /\ UNCHANGED <<outbound, stage, frame, bufferFull, sent, dropped>>
  BY DEF BusInv, Receive, HandedOver, Ends
<1>2. /\ PartInv(Received(part)) /\ Queue(part) # <<>> /\ m = Head(Queue(part))
      /\ Queue(Received(part)) = Tail(Queue(part))
  BY <1>1, ReceivedTakesHead
<1>3. m.number \in Nat
  <2>1. m \in Messages
    BY <1>1, <1>2, TailOfQueue DEF PartInv
  <2>. QED
    BY <2>1 DEF Messages
<1>4. /\ inbound'["client"] = Received(part) /\ inbound'["server"] = inbound["server"]
      /\ inbound' \in [Ends -> Parts]
  <2>1. Received(part) \in Parts
    BY <1>2 DEF PartInv
  <2>. QED
    BY <1>1, <2>1 DEF TypeOK, Ends
<1>. HIDE DEF m
<1>5. /\ delivered'["client"] = Append(delivered["client"], m.number)
      /\ delivered'["server"] = delivered["server"]
      /\ delivered' \in [Ends -> Seq(Nat)]
  BY <1>1, <1>3 DEF TypeOK, Ends
<1>6. TypeOK'
  BY <1>1, <1>4, <1>5 DEF TypeOK
<1>7. (NeverOverflows /\ \A o \in Ends : PartInv(outbound[o]) /\ PartInv(inbound[o]))'
  <2>1. NeverOverflows'
    BY <1>1 DEF BusInv, NeverOverflows
  <2>2. ASSUME NEW o \in Ends
        PROVE  PartInv(outbound'[o]) /\ PartInv(inbound'[o])
    BY <1>1, <1>2, <1>4 DEF BusInv, Ends
  <2>. QED
    BY <2>1, <2>2
<1>8. LineInv("server")'
  <2>1. /\ LineInv("server") /\ Peer("server") = "client" /\ Arrived("server") = Queue(part)
    BY DEF BusInv, Ends, Peer, Arrived
  <2>2. Line(Append(delivered["client"], m.number), Tail(Arrived("server")), InFrame("server"),
             Waiting("server"), sent["server"], dropped["server"])
    BY <1>2, <2>1, LineReceive DEF LineInv
  <2>3. Arrived("server")' = Tail(Arrived("server"))
    BY <1>2, <1>4, <2>1 DEF Arrived, Peer
  <2>4. InFrame("server")' = InFrame("server") /\ Waiting("server")' = Waiting("server")
    BY <1>1 DEF InFrame, Waiting, Reads
  <2>5. ~HasCallback["client"]
    BY <1>2, <2>1 DEF LineInv
  <2>. QED
    BY <1>1, <1>5, <2>1, <2>2, <2>3, <2>4, <2>5 DEF LineInv
<1>9. LineInv("client")'
  <2>1. LineInv("client") /\ Peer("client") = "server"
    BY DEF BusInv, Ends, Peer
  <2>2. /\ Arrived("client")' = Arrived("client") /\ InFrame("client")' = InFrame("client")
        /\ Waiting("client")' = Waiting("client")
    BY <1>1, <1>4 DEF Arrived, InFrame, Waiting, Reads, Peer
  <2>. QED
    BY <1>1, <1>5, <2>1, <2>2 DEF LineInv
<1>. QED
  BY <1>6, <1>7, <1>8, <1>9 DEF BusInv, Ends

\* A new start gives up what waits in the parts of the client.
LEMMA BusStart ==
    ASSUME BusInv, Start
    PROVE  BusInv'
<1>. DEFINE out == outbound["client"]
            in == inbound["client"]
<1>1. /\ TypeOK /\ PartInv(out) /\ PartInv(in)
      /\ outbound' = [outbound EXCEPT !["client"] = ClearData(@)]
      /\ inbound' = [inbound EXCEPT !["client"] = ClearData(@)]
      /\ dropped' = [client |-> dropped["client"] \cup Numbers(Queue(out)),
                     server |-> dropped["server"] \cup Numbers(Queue(in))]
      /\ UNCHANGED <<stage, frame, bufferFull, sent, delivered>>
  BY DEF BusInv, Start, Ends, MessagesOf, Queue
<1>2. /\ PartInv(ClearData(out)) /\ Queue(ClearData(out)) = <<>>
      /\ PartInv(ClearData(in)) /\ Queue(ClearData(in)) = <<>>
  BY <1>1, ClearedIsEmpty
<1>3. /\ outbound'["client"] = ClearData(out) /\ outbound'["server"] = outbound["server"]
      /\ inbound'["client"] = ClearData(in) /\ inbound'["server"] = inbound["server"]
      /\ outbound' \in [Ends -> Parts] /\ inbound' \in [Ends -> Parts]
  <2>1. ClearData(out) \in Parts /\ ClearData(in) \in Parts
    BY <1>2 DEF PartInv
  <2>. QED
    BY <1>1, <2>1 DEF TypeOK, Ends
<1>4. /\ dropped'["client"] = dropped["client"] \cup Numbers(Queue(out))
      /\ dropped'["server"] = dropped["server"] \cup Numbers(Queue(in))
      /\ DOMAIN dropped' = Ends /\ dropped' = [o \in Ends |-> dropped'[o]]
  BY <1>1 DEF Ends
<1>5. (NeverOverflows /\ \A o \in Ends : PartInv(outbound[o]) /\ PartInv(inbound[o]))'
  <2>1. NeverOverflows'
    BY <1>1 DEF BusInv, NeverOverflows
  <2>2. ASSUME NEW o \in Ends
        PROVE  PartInv(outbound'[o]) /\ PartInv(inbound'[o])
    BY <1>2, <1>3 DEF BusInv, Ends
  <2>. QED
    BY <2>1, <2>2
<1>6. LineInv("client")'
  <2>1. LineInv("client") /\ Peer("client") = "server" /\ Waiting("client") = Queue(out)
    BY DEF BusInv, Ends, Peer, Waiting
  <2>2. Line(delivered["server"], Arrived("client"), InFrame("client"), <<>>, sent["client"],
             dropped["client"] \cup Numbers(Queue(out)))
    BY <2>1, LineClear DEF LineInv
  <2>3. /\ Arrived("client")' = Arrived("client") /\ InFrame("client")' = InFrame("client")
        /\ Waiting("client")' = <<>>
    BY <1>1, <1>2, <1>3 DEF Arrived, InFrame, Waiting, Reads, Peer
  <2>. QED
    BY <1>1, <1>4, <2>1, <2>2, <2>3 DEF LineInv
<1>7. LineInv("server")'
  <2>1. LineInv("server") /\ Peer("server") = "client" /\ Arrived("server") = Queue(in)
    BY DEF BusInv, Ends, Peer, Arrived
  <2>2. Line(delivered["client"], <<>>, InFrame("server"), Waiting("server"), sent["server"],
             dropped["server"] \cup Numbers(Queue(in)))
    BY <2>1, LineClear DEF LineInv
  <2>3. /\ Arrived("server")' = <<>> /\ InFrame("server")' = InFrame("server")
        /\ Waiting("server")' = Waiting("server")
    BY <1>1, <1>2, <1>3 DEF Arrived, InFrame, Waiting, Reads, Peer
  <2>. QED
    BY <1>1, <1>4, <2>1, <2>2, <2>3 DEF LineInv
<1>8. TypeOK'
  <2>1. dropped'["client"] \in SUBSET Nat /\ dropped'["server"] \in SUBSET Nat
    BY <1>6, <1>7 DEF LineInv, Line
  <2>2. dropped' \in [Ends -> SUBSET Nat]
    BY <1>4, <2>1 DEF Ends
  <2>. QED
    BY <1>1, <1>3, <2>2 DEF TypeOK
<1>. QED
  BY <1>5, <1>6, <1>7, <1>8 DEF BusInv, Ends

LEMMA BusNext == BusInv /\ [Next]_vars => BusInv'
<1>. SUFFICES ASSUME BusInv, [Next]_vars
              PROVE  BusInv'
  OBVIOUS
<1>1. ASSUME NEW e \in Ends, NEW c \in Controllers, Transmit(e, c)
      PROVE  BusInv'
  BY <1>1, BusTransmit
<1>2. CASE SendStep
  BY <1>2, BusSerialize DEF SendStep, Ends
<1>3. CASE SendStepOk
  BY <1>3, BusSerialize DEF SendStepOk, Ends
<1>4. ASSUME NEW e \in Ends, ReadMessage(e)
      PROVE  BusInv'
  BY <1>4, BusReadMessage
<1>5. ASSUME NEW e \in Ends, EndRead(e)
      PROVE  BusInv'
  BY <1>5, BusEndRead
<1>6. CASE Receive
  BY <1>6, BusReceive
<1>7. CASE Start
  BY <1>7, BusStart
<1>8. CASE UNCHANGED vars
  <2>1. UNCHANGED <<outbound, inbound, stage, frame, bufferFull, sent, delivered, dropped>>
    BY <1>8 DEF vars
  <2>. QED
    BY <2>1 DEF BusInv, TypeOK, NeverOverflows, LineInv, Arrived, InFrame, Waiting, Reads
<1>. QED
  BY <1>1, <1>2, <1>3, <1>4, <1>5, <1>6, <1>7, <1>8 DEF Next

LEMMA BusHolds == Spec => []BusInv
<1>. QED
  BY BusInit, BusNext, PTL DEF Spec

-----------------------------------------------------------------------------
(* The theorems.                                                           *)

\* Every value stays of its type: the indices of the rings stay within them, and
\* no count of a controller goes below zero.
THEOREM BusTypes == Spec => []TypeOK
<1>1. BusInv => TypeOK
  BY DEF BusInv
<1>. QED
  BY <1>1, BusHolds, PTL

\* "Message buffer is full." is never an answer: the ring that all controllers
\* of a part share, of the sum of their queue sizes, is not full while one of
\* them may still queue a message.
THEOREM RingNeverOverflows == Spec => []NeverOverflows
<1>1. BusInv => NeverOverflows
  BY DEF BusInv
<1>. QED
  BY <1>1, BusHolds, PTL

\* What a controller is charged for in a part is what it has queued there,
\* through every Transmit, frame, Receive and new start.
THEOREM CountsOfControllers == Spec => []CountsMatchQueue
<1>1. BusInv => CountsMatchQueue
  BY DEF BusInv, CountsMatchQueue, PartInv, Of, Queue
<1>. QED
  BY <1>1, BusHolds, PTL

\* The application of an end is handed the messages of the other end in the
\* order they were sent, and none twice.
THEOREM MessagesInOrderOnce == Spec => []InOrderOnce
<1>1. BusInv => InOrderOnce
  <2>. SUFFICES ASSUME BusInv, NEW e \in Ends
                PROVE  Increasing(delivered[e])
    BY DEF InOrderOnce, Increasing
  <2>1. LineInv(Peer(e)) /\ Peer(Peer(e)) = e
    BY Peers DEF BusInv
  <2>. QED
    BY <2>1 DEF LineInv, Line
<1>. QED
  BY <1>1, BusHolds, PTL

\* A message an end queued is on its way, was handed over, or was given up: by a
\* full queue of its controller at the receiver or by a new start.
THEOREM MessagesAccountedFor == Spec => []NothingVanishes
<1>1. BusInv => NothingVanishes
  <2>. SUFFICES ASSUME BusInv, NEW e \in Ends
                PROVE  1 .. sent[e] = Numbers(MessagesOf(e)) \cup Numbers(InFrame(e))
                                        \cup Numbers(Contents(inbound[Peer(e)].ring))
                                        \cup Handed(delivered[Peer(e)]) \cup dropped[e]
    BY DEF NothingVanishes, InFrame, Handed
  <2>1. /\ LineInv(e) /\ Arrived(e) = Contents(inbound[Peer(e)].ring)
        /\ Waiting(e) = MessagesOf(e)
    BY DEF BusInv, Arrived, Waiting, MessagesOf, Queue
  <2>. QED
    BY <2>1 DEF LineInv, Line
<1>. QED
  BY <1>1, BusHolds, PTL

-----------------------------------------------------------------------------
(* The same of a local connection, and of the pipe below it: the theorems  *)
(* of LocalBusExchangeProofs and ShmPipeProofs, for the two as MCRings     *)
(* takes them.                                                             *)

\* Over a local connection each shared count is how many messages of its
\* controller the two ends know of, whatever Transmit, Pop and the frames with
\* the counts come in between.
THEOREM LocalCountsOfControllers ==
    ASSUME Local!LocalBus PROVE Local!Spec => []LocalCountsMatchRing
  BY Local!LocalCounts DEF LocalCountsMatchRing

\* Over a local connection, too, the application of an end is handed the messages
\* in the order they were sent and none twice, but for those whose slot in the
\* shared ring was written again while they were handed over.
THEOREM LocalMessagesInOrderOnce ==
    ASSUME Local!LocalBus PROVE Local!Spec => []LocalInOrderOnce
  BY Local!LocalInOrder DEF LocalInOrderOnce

\* What is taken from a pipe is what was written to it, byte by byte, however
\* often the indices wrap.
THEOREM PipeBytesInOrder ==
    ASSUME Pipe!PipeAssumption PROVE Pipe!Spec => []BytesInOrder
  BY Pipe!PipeInOrder DEF BytesInOrder

\* A call of the pipe fails only if the own end was closed or the other end had
\* gone.
THEOREM PipeCallsFailForCause ==
    ASSUME Pipe!PipeAssumption PROVE Pipe!Spec => FailsForCause
  BY Pipe!PipeFailsForCause DEF FailsForCause
=============================================================================
