----------------------- MODULE LocalBusExchangeProofs -----------------------
(***************************************************************************)
(* Proofs about LocalBusExchange, for every set of controllers, every size *)
(* of their queues and every width of the counts that holds them, unless   *)
(* the simulation starts anew after messages were sent.  The ring in the   *)
(* shared memory, which nobody asks whether it has room, is never written  *)
(* over; what the two ends know of it and the shared counts tell the same; *)
(* and the messages are handed over in order, none of them twice, but for  *)
(* those whose slot was written again behind their release.                *)
(***************************************************************************)
EXTENDS LocalBusExchange, RingBufferProofs

\* What the theorems assume.
LocalBus == LocalBusAssumption /\ ~Restarts

Messages == [controller : Controllers, number : Nat]
Nothing == Message("none", 0)

\* How many messages of an end the two ends know of, and the ring they make of
\* the shared memory: it does not keep its size, the ends do.
Known(e) == toAnnounce[e] + (IF Reads(Peer(e)) THEN frame ELSE 0) + toReceive[Peer(e)]
RingOf(e) == Ring(CombinedQueueCapacity, items[e], Known(e), readIndex[e], writeIndex[e])
Queue(e) == Contents(RingOf(e))

\* How many messages of an end were taken out of its ring.
Taken(e) == sent[e] - Known(e)

-----------------------------------------------------------------------------
(* The invariant.                                                          *)

Types ==
    /\ items \in [Ends -> [Slots -> Messages \cup {Nothing}]]
    /\ readIndex \in [Ends -> Nat] /\ writeIndex \in [Ends -> Nat]
    /\ count \in [Ends -> [Controllers -> Nat]]
    /\ toAnnounce \in [Ends -> Nat] /\ toReceive \in [Ends -> Nat]
    /\ stage \in {"idle", "toClient", "inStep", "toServer"}
    /\ frame \in Nat
    /\ sent \in [Ends -> Nat]
    /\ delivered \in [Ends -> Seq(Nat)]
    /\ reused \in [Ends -> SUBSET Nat]

\* The ring that the ends know of holds messages, of which each controller has
\* as many as its shared count says and no more than it may have ...
RingInv(e) ==
    /\ Charged(RingOf(e), count[e], Messages, Nothing, Controllers, QueueSize)
    \* ... and they are those that were sent last.
    /\ Known(e) <= sent[e]
    /\ \A i \in 1 .. Known(e) : Queue(e)[i].number = Taken(e) + i

\* The message that is about to be handed over is the last one that was taken.
PoppedInv ==
    \A p \in popped :
        \E e \in Ends : /\ Reads(e) /\ p.slot \in Slots
                       /\ p.message \in Messages /\ p.message.number = Taken(Peer(e))

\* What an application was handed was taken out of the ring, in order.
Kept(e) == DOMAIN delivered[e] \ reused[e]
DeliveredInv(e) ==
    /\ \A i \in Kept(e) : /\ delivered[e][i] <= Taken(Peer(e))
                          /\ popped # {} /\ Reads(e) => delivered[e][i] < Taken(Peer(e))
    /\ \A i, j \in Kept(e) : i < j => delivered[e][i] < delivered[e][j]

LocalInv ==
    /\ Types
    /\ \A e \in Ends : RingInv(e) /\ DeliveredInv(e)
    /\ PoppedInv

-----------------------------------------------------------------------------
(* Arithmetic of the counts and indices.                                   *)

\* A number below the modulus, and one that exceeds it once.
LEMMA ModOnce ==
    ASSUME NEW n \in Nat, NEW x \in 0 .. n - 1
    PROVE  x % n = x /\ (x + n) % n = x
  OBVIOUS

LEMMA Peers ==
    /\ "client" \in Ends /\ "server" \in Ends
    /\ Peer("client") = "server" /\ Peer("server") = "client"
    /\ \A e \in Ends : /\ Peer(e) \in Ends /\ Peer(Peer(e)) = e /\ Peer(e) # e
                       /\ \A o \in Ends : o = e \/ o = Peer(e)
                       /\ ~(Reads(e) /\ Reads(Peer(e)))
  BY DEF Ends, Peer, Reads

LEMMA MessagesOwned ==
    ASSUME LocalBus
    PROVE  /\ Owned(Messages, Controllers, QueueSize)
           /\ CombinedQueueCapacity \in Nat
           /\ CombinedQueueCapacity = Cardinality(PlacesFor(Controllers, QueueSize))
<1>1. PlacesFor(Controllers, QueueSize) = Places
  BY DEF PlacesFor, Places
<1>. QED
  BY <1>1, PlacesFinite DEF LocalBus, LocalBusAssumption, Owned, Messages, CombinedQueueCapacity

LEMMA KnownType == ASSUME Types PROVE \A e \in Ends : Known(e) \in Nat
<1>. SUFFICES ASSUME NEW e \in Ends PROVE Known(e) \in Nat
  OBVIOUS
<1>1. toAnnounce[e] \in Nat /\ toReceive[Peer(e)] \in Nat /\ frame \in Nat
  BY Peers DEF Types
<1>. QED
  BY <1>1 DEF Known

\* The shape of the ring of an end.
LEMMA RingShape ==
    ASSUME NEW e
    PROVE  /\ RingOf(e).capacity = CombinedQueueCapacity /\ RingOf(e).items = items[e]
           /\ RingOf(e).size = Known(e)
           /\ RingOf(e).readIndex = readIndex[e] /\ RingOf(e).writeIndex = writeIndex[e]
  BY DEF RingOf, Ring

\* What the ends know of fits into the ring, and is its contents.
LEMMA RingFits ==
    ASSUME LocalBus, Types, NEW e \in Ends, RingInv(e)
    PROVE  /\ Known(e) \in 0 .. CombinedQueueCapacity
           /\ Queue(e) \in Seq(Messages) /\ Len(Queue(e)) = Known(e)
           /\ DOMAIN Queue(e) = 1 .. Known(e)
           /\ sent[e] \in Nat /\ Known(e) <= sent[e] /\ Taken(e) \in Nat
           /\ readIndex[e] \in Nat
           /\ CombinedQueueCapacity > 0 => readIndex[e] < CombinedQueueCapacity
<1>1. /\ RingOf(e) \in Rings(CombinedQueueCapacity, Messages \cup {Nothing})
      /\ WellFormed(RingOf(e)) /\ Queue(e) \in Seq(Messages)
      /\ Known(e) <= sent[e]
  BY MessagesOwned DEF RingInv, Charged, Queue
<1>2. CombinedQueueCapacity \in Nat
  BY MessagesOwned
<1>3. Len(Queue(e)) = Known(e)
  BY <1>1, <1>2, RingShape, ContentsType DEF Queue
<1>4. Known(e) \in 0 .. CombinedQueueCapacity
  BY <1>1, RingShape DEF Rings
<1>5. readIndex[e] \in Nat /\ (CombinedQueueCapacity > 0 => readIndex[e] < CombinedQueueCapacity)
  BY <1>1, RingShape DEF Rings, WellFormed, Types
<1>6. sent[e] \in Nat /\ Taken(e) = sent[e] - Known(e)
  BY DEF Types, Taken
<1>7. Taken(e) \in Nat
  BY <1>1, <1>2, <1>4, <1>6
<1>8. DOMAIN Queue(e) = 1 .. Known(e)
  BY <1>1, <1>3
<1>. QED
  BY <1>1, <1>3, <1>4, <1>5, <1>6, <1>7, <1>8

-----------------------------------------------------------------------------
(* What a step may do to one direction.                                    *)

\* Nothing.
LEMMA DirectionStays ==
    ASSUME NEW e \in Ends, RingInv(e),
           UNCHANGED <<items[e], readIndex[e], writeIndex[e], count[e], sent[e], Known(e)>>
    PROVE  RingInv(e)' /\ Taken(e)' = Taken(e)
<1>1. RingOf(e)' = RingOf(e) /\ Taken(e)' = Taken(e)
  BY DEF RingOf, Taken
<1>. QED
  BY <1>1 DEF RingInv, Queue

\* Another message is written behind those in the ring.
LEMMA DirectionGrows ==
    ASSUME LocalBus, Types, NEW e \in Ends, RingInv(e), NEW c \in Controllers,
           ~QueueFull(e, c),
           items'[e] = [items[e] EXCEPT ![writeIndex[e]] = Message(c, sent[e] + 1)],
           writeIndex'[e] = NextSlot(writeIndex[e]), readIndex'[e] = readIndex[e],
           count'[e] = [count[e] EXCEPT ![c] = (@ + 1) % CountLimit],
           sent'[e] = sent[e] + 1, Known(e)' = Known(e) + 1
    PROVE  RingInv(e)' /\ Taken(e)' = Taken(e) /\ count'[e] \in [Controllers -> Nat]
<1>. DEFINE m == Message(c, sent[e] + 1)
<1>1. sent[e] \in Nat /\ m \in Messages /\ m.controller = c /\ m.number = sent[e] + 1
  BY DEF Types, Message, Messages
<1>2. /\ count[e] \in [Controllers -> Nat] /\ count[e][c] <= QueueSize[c]
      /\ QueueSize[c] \in Nat /\ CountLimit \in Nat /\ QueueSize[c] < CountLimit
      /\ count[e][c] # QueueSize[c]
  BY DEF Types, RingInv, Charged, LocalBus, LocalBusAssumption, QueueFull
<1>3. (count[e][c] + 1) % CountLimit = count[e][c] + 1
  <2>1. count[e][c] + 1 \in 0 .. CountLimit - 1
    BY <1>2
  <2>. QED
    BY <1>2, <2>1, ModOnce
<1>4. count'[e] = OneMore(count[e], c)
  BY <1>2, <1>3 DEF OneMore
<1>5. RingOf(e)' = PushBack(RingOf(e), m)
  BY RingShape DEF RingOf, PushBack, Ring, NextSlot, AdvanceIndex
<1>6. Accepts(RingOf(e), count[e], m, Messages, Nothing, Controllers, QueueSize)
  BY <1>1, <1>2, MessagesOwned DEF RingInv, Accepts
<1>. HIDE DEF m
<1>7. /\ Charged(PushBack(RingOf(e), m), OneMore(count[e], c),
                 Messages, Nothing, Controllers, QueueSize)
      /\ Contents(PushBack(RingOf(e), m)) = Append(Contents(RingOf(e)), m)
  BY <1>1, <1>6, ChargedAppends
<1>8. Charged(RingOf(e), count[e], Messages, Nothing, Controllers, QueueSize)'
  BY <1>4, <1>5, <1>7
<1>9. Queue(e)' = Append(Queue(e), m)
  BY <1>5, <1>7 DEF Queue
<1>10. /\ Queue(e) \in Seq(Messages) /\ Len(Queue(e)) = Known(e) /\ Known(e) \in Nat
       /\ Known(e) <= sent[e] /\ Taken(e) \in Nat
  BY RingFits
<1>11. Taken(e)' = Taken(e) /\ Taken(e) = sent[e] - Known(e)
  BY <1>1, <1>10 DEF Taken
<1>12. ASSUME NEW i \in 1 .. Known(e) + 1
       PROVE  Append(Queue(e), m)[i].number = Taken(e) + i
  <2>1. CASE i \in 1 .. Known(e)
    <3>1. Append(Queue(e), m)[i] = Queue(e)[i]
      BY <1>1, <1>10, <2>1
    <3>. QED
      BY <2>1, <3>1 DEF RingInv
  <2>2. CASE i = Known(e) + 1
    <3>1. Append(Queue(e), m)[i] = m
      BY <1>1, <1>10, <2>2
    <3>. QED
      BY <1>1, <1>10, <1>11, <2>2, <3>1
  <2>. QED
    BY <1>10, <2>1, <2>2
<1>13. \A i \in 1 .. Known(e)' : Queue(e)'[i].number = Taken(e)' + i
  BY <1>9, <1>11, <1>12
<1>14. count'[e] \in [Controllers -> Nat]
  BY <1>8 DEF Charged
<1>15. Known(e)' <= sent'[e]
  BY <1>1, <1>10
<1>. QED
  BY <1>8, <1>11, <1>13, <1>14, <1>15 DEF RingInv

\* The oldest message is taken out of the ring.
LEMMA DirectionTakes ==
    ASSUME LocalBus, Types, NEW e \in Ends, RingInv(e), Known(e) > 0
    PROVE  LET m == items[e][readIndex[e]] IN
           /\ m \in Messages /\ m.controller \in Controllers
           /\ m.number = Taken(e) + 1
           /\ readIndex[e] \in Slots
           /\ /\ UNCHANGED <<items[e], writeIndex[e], sent[e]>>
              /\ readIndex'[e] = NextSlot(readIndex[e])
              /\ count'[e] = [count[e] EXCEPT ![m.controller] = FetchSub(@)]
              /\ Known(e)' = Known(e) - 1
              => /\ RingInv(e)' /\ Taken(e)' = Taken(e) + 1
                 /\ count'[e] \in [Controllers -> Nat]
<1>. DEFINE m == items[e][readIndex[e]]
<1>1. /\ Known(e) \in 1 .. CombinedQueueCapacity /\ CombinedQueueCapacity \in Nat
      /\ Queue(e) \in Seq(Messages) /\ Len(Queue(e)) = Known(e)
      /\ sent[e] \in Nat /\ Known(e) <= sent[e] /\ Taken(e) \in Nat
      /\ readIndex[e] \in 0 .. CombinedQueueCapacity - 1
  BY RingFits, MessagesOwned
<1>2. m = Front(RingOf(e)) /\ ~IsEmpty(RingOf(e))
  BY <1>1, RingShape DEF Front, IsEmpty
<1>3. /\ Owned(Messages, Controllers, QueueSize)
      /\ Charged(RingOf(e), count[e], Messages, Nothing, Controllers, QueueSize)
  BY MessagesOwned DEF RingInv
<1>4. /\ m \in Messages /\ count[e][m.controller] > 0
      /\ Charged(RemoveFront(RingOf(e)), OneFewer(count[e], m.controller),
                 Messages, Nothing, Controllers, QueueSize)
      /\ Contents(RingOf(e)) # <<>> /\ m = Head(Contents(RingOf(e)))
      /\ Contents(RemoveFront(RingOf(e))) = Tail(Contents(RingOf(e)))
  BY ZenonT(60), <1>2, <1>3, ChargedTakesHead
<1>. HIDE DEF m
<1>5. m.controller \in Controllers
  BY <1>4 DEF Messages
<1>6. m.number = Taken(e) + 1
  <2>1. m = Queue(e)[1] /\ 1 \in 1 .. Known(e)
    BY <1>1, <1>4 DEF Queue
  <2>. QED
    BY <2>1 DEF RingInv
<1>7. ASSUME UNCHANGED <<items[e], writeIndex[e], sent[e]>>,
             readIndex'[e] = NextSlot(readIndex[e]),
             count'[e] = [count[e] EXCEPT ![m.controller] = FetchSub(@)],
             Known(e)' = Known(e) - 1
      PROVE  RingInv(e)' /\ Taken(e)' = Taken(e) + 1 /\ count'[e] \in [Controllers -> Nat]
  <2>1. /\ count[e] \in [Controllers -> Nat]
        /\ count[e][m.controller] \in Nat \ {0} /\ CountLimit \in Nat
        /\ count[e][m.controller] < CountLimit
    <3>1. /\ count[e] \in [Controllers -> Nat]
          /\ count[e][m.controller] <= QueueSize[m.controller]
      BY <1>3, <1>5 DEF Charged
    <3>2. /\ CountLimit \in Nat /\ QueueSize[m.controller] < CountLimit
          /\ QueueSize[m.controller] \in Nat
      BY <1>5 DEF LocalBus, LocalBusAssumption
    <3>. QED
      BY <1>4, <1>5, <3>1, <3>2
  <2>2. FetchSub(count[e][m.controller]) = count[e][m.controller] - 1
    <3>. DEFINE x == count[e][m.controller] - 1
    <3>1. x \in 0 .. CountLimit - 1 /\ count[e][m.controller] + CountLimit - 1 = x + CountLimit
      BY <2>1
    <3>. HIDE DEF x
    <3>2. (x + CountLimit) % CountLimit = x
      BY <2>1, <3>1, ModOnce
    <3>. QED
      BY <3>1, <3>2 DEF FetchSub, x
  <2>3. count'[e] = OneFewer(count[e], m.controller)
    BY <1>5, <1>7, <2>1, <2>2 DEF OneFewer
  <2>4. RingOf(e)' = RemoveFront(RingOf(e))
    BY <1>7, RingShape DEF RingOf, RemoveFront, Ring, NextSlot, AdvanceIndex
  <2>5. Charged(RingOf(e), count[e], Messages, Nothing, Controllers, QueueSize)'
    BY <1>4, <2>3, <2>4
  <2>6. Queue(e)' = Tail(Queue(e))
    BY <1>4, <2>4 DEF Queue
  <2>7. Taken(e)' = Taken(e) + 1 /\ Known(e)' \in Nat /\ Known(e)' <= sent'[e]
    BY <1>1, <1>7 DEF Taken
  <2>8. ASSUME NEW i \in 1 .. Known(e) - 1
        PROVE  Tail(Queue(e))[i].number = Taken(e) + 1 + i
    <3>1. Tail(Queue(e))[i] = Queue(e)[i + 1] /\ i + 1 \in 1 .. Known(e)
      BY <1>1
    <3>2. Queue(e)[i + 1].number = Taken(e) + (i + 1)
      BY <3>1 DEF RingInv
    <3>. QED
      BY <1>1, <3>1, <3>2
  <2>9. \A i \in 1 .. Known(e)' : Queue(e)'[i].number = Taken(e)' + i
    BY <1>7, <2>6, <2>7, <2>8
  <2>10. count'[e] \in [Controllers -> Nat]
    BY <2>5 DEF Charged
  <2>. QED
    BY <2>5, <2>7, <2>9, <2>10 DEF RingInv
<1>8. readIndex[e] \in Slots
  BY <1>1 DEF Slots
<1>. QED
  BY <1>4, <1>5, <1>6, <1>7, <1>8 DEF m

-----------------------------------------------------------------------------
(* The steps.                                                              *)

\* What an end was handed stays as it is.
LEMMA DeliveredStays ==
    ASSUME NEW e \in Ends, DeliveredInv(e), delivered'[e] = delivered[e], reused'[e] = reused[e],
           Taken(Peer(e))' = Taken(Peer(e)),
           (popped # {} /\ Reads(e))' => popped # {} /\ Reads(e)
    PROVE  DeliveredInv(e)'
  BY DEF DeliveredInv, Kept

\* A message is popped only while its reader reads.
LEMMA NonePopped ==
    ASSUME PoppedInv, \A e \in Ends : ~Reads(e)
    PROVE  popped = {}
  BY DEF PoppedInv

\* A step that only passes on what is known.
LEMMA KnowledgeMoves ==
    ASSUME LocalInv, UNCHANGED <<ring, popped, sent, handed>>, Types',
           \A e \in Ends : Known(e)' = Known(e), popped # {} => stage' = stage
    PROVE  LocalInv'
<1>1. UNCHANGED <<items, readIndex, writeIndex, count, popped, sent, delivered, reused>>
  BY DEF ring, handed
<1>2. \A e \in Ends : RingInv(e)' /\ Taken(e)' = Taken(e)
  BY <1>1, DirectionStays DEF LocalInv
<1>3. popped # {} => \A e \in Ends : Reads(e)' = Reads(e)
  BY DEF Reads
<1>4. \A e \in Ends : DeliveredInv(e)'
  BY <1>1, <1>2, <1>3, Peers, DeliveredStays DEF LocalInv
<1>5. PoppedInv'
  <2>. SUFFICES ASSUME NEW p \in popped
                PROVE  \E e \in Ends : /\ Reads(e)' /\ p.slot \in Slots /\ p.message \in Messages
                                       /\ p.message.number = Taken(Peer(e))'
    BY <1>1 DEF PoppedInv
  <2>1. PICK e \in Ends : /\ Reads(e) /\ p.slot \in Slots
                          /\ p.message \in Messages /\ p.message.number = Taken(Peer(e))
    BY DEF LocalInv, PoppedInv
  <2>. QED
    BY <1>2, <1>3, <2>1, Peers
<1>. QED
  BY <1>2, <1>4, <1>5 DEF LocalInv

LEMMA LocalTransmit ==
    ASSUME LocalBus, LocalInv, NEW e \in Ends, NEW c \in Controllers, Transmit(e, c)
    PROVE  LocalInv'
<1>. DEFINE o == Peer(e)
            m == Message(c, sent[e] + 1)
<1>1. Types /\ RingInv(e) /\ RingInv(o) /\ o \in Ends /\ o # e /\ ~QueueFull(e, c)
  BY Peers DEF LocalInv, Transmit
<1>2. /\ items' = [items EXCEPT ![e][writeIndex[e]] = m]
      /\ writeIndex' = [writeIndex EXCEPT ![e] = NextSlot(@)]
      /\ count' = [count EXCEPT ![e][c] = (@ + 1) % CountLimit]
      /\ toAnnounce' = [toAnnounce EXCEPT ![e] = @ + 1]
      /\ sent' = [sent EXCEPT ![e] = @ + 1]
      /\ UNCHANGED <<readIndex, toReceive, stage, frame, popped, delivered, reused>>
  BY DEF Transmit, handed
<1>. HIDE DEF o
<1>3. /\ items'[e] = [items[e] EXCEPT ![writeIndex[e]] = m] /\ items'[o] = items[o]
      /\ writeIndex'[e] = NextSlot(writeIndex[e]) /\ writeIndex'[o] = writeIndex[o]
      /\ count'[e] = [count[e] EXCEPT ![c] = (@ + 1) % CountLimit] /\ count'[o] = count[o]
      /\ toAnnounce'[e] = toAnnounce[e] + 1 /\ toAnnounce'[o] = toAnnounce[o]
      /\ sent'[e] = sent[e] + 1 /\ sent'[o] = sent[o]
  <2>1. /\ items'[e] = [items[e] EXCEPT ![writeIndex[e]] = m] /\ items'[o] = items[o]
        /\ writeIndex'[e] = NextSlot(writeIndex[e]) /\ writeIndex'[o] = writeIndex[o]
    BY <1>1, <1>2 DEF Types
  <2>2. count'[e] = [count[e] EXCEPT ![c] = (@ + 1) % CountLimit] /\ count'[o] = count[o]
    BY <1>1, <1>2 DEF Types
  <2>. QED
    BY <1>1, <1>2, <2>1, <2>2 DEF Types
<1>4. Known(e)' = Known(e) + 1 /\ Known(o)' = Known(o)
  <2>1. \A x \in Ends : Reads(x)' <=> Reads(x)
    BY <1>2 DEF Reads
  <2>2. /\ toAnnounce[e] \in Nat /\ toReceive[Peer(e)] \in Nat /\ frame \in Nat
        /\ Peer(e) \in Ends /\ Peer(o) \in Ends
    BY <1>1, Peers DEF Types
  <2>. QED
    BY <1>2, <1>3, <2>1, <2>2 DEF Known
<1>5. RingInv(e)' /\ Taken(e)' = Taken(e) /\ count'[e] \in [Controllers -> Nat]
  BY <1>1, <1>2, <1>3, <1>4, DirectionGrows
<1>6. RingInv(o)' /\ Taken(o)' = Taken(o)
  BY <1>1, <1>2, <1>3, <1>4, DirectionStays
<1>7. Types'
  <2>1. m \in Messages
    BY <1>1 DEF Types, Message, Messages
  <2>. HIDE DEF m
  <2>2. items' \in [Ends -> [Slots -> Messages \cup {Nothing}]]
    <3>1. items \in [Ends -> [Slots -> Messages \cup {Nothing}]]
      BY <1>1 DEF Types
    <3>2. items'[e] \in [Slots -> Messages \cup {Nothing}]
      <4>1. items[e] \in [Slots -> Messages \cup {Nothing}]
        BY <3>1
      <4>. QED
        BY <1>3, <2>1, <4>1
    <3>3. items' = [items EXCEPT ![e] = items'[e]]
      BY <1>2, <1>3, <3>1
    <3>. QED
      BY <3>2, <3>1, <3>3
  <2>3. /\ writeIndex' \in [Ends -> Nat] /\ toAnnounce' \in [Ends -> Nat]
        /\ sent' \in [Ends -> Nat]
    <3>1. NextSlot(writeIndex[e]) \in Nat
      BY <1>1 DEF Types, NextSlot
    <3>2. writeIndex \in [Ends -> Nat] /\ toAnnounce \in [Ends -> Nat] /\ sent \in [Ends -> Nat]
      BY <1>1 DEF Types
    <3>. QED
      BY <1>2, <3>1, <3>2
  <2>4. count' \in [Ends -> [Controllers -> Nat]]
    BY <1>1, <1>2, <1>3, <1>5, Peers DEF Types
  <2>. QED
    BY <1>1, <1>2, <2>2, <2>3, <2>4 DEF Types
<1>8. \A x \in Ends : RingInv(x)' /\ Taken(x)' = Taken(x)
  BY <1>5, <1>6, Peers DEF o
<1>9. \A x \in Ends : Reads(x)' <=> Reads(x)
  BY <1>2 DEF Reads
<1>10. \A x \in Ends : DeliveredInv(x)'
  BY <1>2, <1>8, <1>9, Peers, DeliveredStays DEF LocalInv
<1>11. PoppedInv'
  BY <1>2, <1>8, <1>9, Peers DEF LocalInv, PoppedInv
<1>. QED
  BY <1>7, <1>8, <1>10, <1>11 DEF LocalInv

\* SendStep and SendStepOk: what was to announce is in the frame.
LEMMA LocalSend ==
    ASSUME LocalInv, NEW e \in Ends, Serialize(e), \A x \in Ends : ~Reads(x),
           stage' = IF e = "server" THEN "toClient" ELSE "toServer"
    PROVE  LocalInv'
<1>. DEFINE o == Peer(e)
<1>1. /\ frame' = toAnnounce[e] /\ toAnnounce' = [toAnnounce EXCEPT ![e] = 0]
      /\ UNCHANGED <<items, readIndex, writeIndex, count, toReceive, popped, sent, delivered, reused>>
      /\ UNCHANGED <<ring, handed>>
  BY DEF Serialize, Announced, ring, handed
<1>2. Types /\ popped = {} /\ o \in Ends /\ o # e
  BY Peers, NonePopped DEF LocalInv
<1>3. Types'
  BY <1>1, <1>2 DEF Types
<1>4. Reads(o)' /\ ~Reads(e)'
  BY DEF Reads, Ends, Peer
<1>5. Known(e)' = Known(e) /\ Known(o)' = Known(o)
  <2>1. /\ toAnnounce[e] \in Nat /\ toReceive[o] \in Nat
        /\ toAnnounce'[e] = 0 /\ toAnnounce'[o] = toAnnounce[o] /\ Peer(o) = e
    BY <1>1, <1>2, Peers DEF Types
  <2>2. Known(e) = toAnnounce[e] + toReceive[o] /\ Known(e)' = toAnnounce[e] + toReceive[o]
    BY <1>1, <1>2, <1>4, <2>1 DEF Known
  <2>3. Known(o) = toAnnounce[o] + 0 + toReceive[e] /\ Known(o)' = Known(o)
    BY <1>1, <1>2, <1>4, <2>1 DEF Known
  <2>. QED
    BY <2>2, <2>3
<1>. QED
  BY <1>1, <1>2, <1>3, <1>5, KnowledgeMoves, Peers

LEMMA LocalReadCount ==
    ASSUME LocalInv, NEW e \in Ends, ReadCount(e)
    PROVE  LocalInv'
<1>. DEFINE o == Peer(e)
<1>1. /\ Reads(e) /\ frame' = 0 /\ toReceive' = [toReceive EXCEPT ![e] = @ + frame]
      /\ UNCHANGED <<items, readIndex, writeIndex, count, toAnnounce, stage, popped, sent,
                     delivered, reused>>
      /\ UNCHANGED <<ring, handed>>
  BY DEF ReadCount, ring, handed
<1>2. Types /\ o \in Ends /\ o # e /\ ~Reads(o) /\ Peer(o) = e
  BY <1>1, Peers DEF LocalInv
<1>3. Types'
  <2>1. toReceive \in [Ends -> Nat] /\ frame \in Nat
    BY <1>2 DEF Types
  <2>2. toReceive' \in [Ends -> Nat] /\ frame' \in Nat
    BY <1>1, <2>1
  <2>. QED
    BY <1>1, <1>2, <2>2 DEF Types
<1>4. Reads(e)' /\ ~Reads(o)'
  BY <1>1, <1>2 DEF Reads
<1>5. Known(e)' = Known(e) /\ Known(o)' = Known(o)
  <2>1. /\ toAnnounce[o] \in Nat /\ toReceive[e] \in Nat /\ frame \in Nat
        /\ toReceive'[e] = toReceive[e] + frame /\ toReceive'[o] = toReceive[o]
    BY <1>1, <1>2 DEF Types
  <2>2. /\ Known(o) = toAnnounce[o] + frame + toReceive[e]
        /\ Known(o)' = toAnnounce[o] + 0 + (toReceive[e] + frame)
    BY <1>1, <1>2, <1>4, <2>1 DEF Known
  <2>3. Known(e)' = Known(e)
    BY <1>1, <1>2, <1>4, <2>1 DEF Known
  <2>. QED
    BY <2>1, <2>2, <2>3
<1>. QED
  BY <1>1, <1>2, <1>3, <1>5, KnowledgeMoves, Peers

LEMMA LocalEndRead ==
    ASSUME LocalInv, NEW e \in Ends, EndRead(e)
    PROVE  LocalInv'
<1>. DEFINE o == Peer(e)
<1>1. /\ Reads(e) /\ frame = 0 /\ popped = {}
      /\ stage' = IF e = "client" THEN "inStep" ELSE "idle"
      /\ UNCHANGED <<items, readIndex, writeIndex, count, toAnnounce, toReceive, frame, popped,
                     sent, delivered, reused>>
      /\ UNCHANGED <<ring, handed>>
  BY DEF EndRead, ring, handed
<1>2. Types /\ o \in Ends /\ Peer(o) = e /\ toAnnounce[o] \in Nat /\ toReceive[e] \in Nat
  BY Peers DEF LocalInv, Types
<1>3. Types'
  BY <1>1, <1>2 DEF Types
<1>4. Known(e)' = Known(e) /\ Known(o)' = Known(o)
  BY <1>1 DEF Known
<1>. QED
  BY <1>1, <1>2, <1>3, <1>4, KnowledgeMoves, Peers

\* An end is handed the message that was taken last, or a newer one, which is
\* noted as such.
LEMMA DeliveredGrows ==
    ASSUME NEW e \in Ends, Types, DeliveredInv(e), NEW n \in Nat,
           Taken(Peer(e)) \in Int, Taken(Peer(e))' \in Int,
           Taken(Peer(e)) <= Taken(Peer(e))',
           delivered'[e] = Append(delivered[e], n),
           ~(popped # {} /\ Reads(e))',
           \/ reused'[e] = reused[e] \cup {Len(delivered[e]) + 1}
           \/ /\ reused'[e] = reused[e] /\ n = Taken(Peer(e))'
              /\ \A i \in Kept(e) : delivered[e][i] < n
    PROVE  DeliveredInv(e)'
<1>. DEFINE d == delivered[e]
            k == Len(d) + 1
<1>1. d \in Seq(Nat)
  BY DEF Types
<1>2. DOMAIN d = 1 .. Len(d) /\ DOMAIN delivered'[e] = 1 .. k /\ k \in Nat /\ Len(d) \in Nat
  BY <1>1
<1>3. delivered'[e][k] = n /\ \A i \in 1 .. Len(d) : delivered'[e][i] = d[i] /\ d[i] \in Nat
  BY <1>1
<1>4. \A i \in Kept(e) : i \in 1 .. Len(d) /\ d[i] <= Taken(Peer(e))
  BY <1>2 DEF DeliveredInv, Kept
<1>5. \A i \in Kept(e)' : i = k \/ i \in Kept(e)
  BY <1>2 DEF Kept
<1>6. \A i \in Kept(e)' : i = k => n = Taken(Peer(e))' /\ \A j \in Kept(e) : d[j] < n
  BY DEF Kept
<1>7. \A i, j \in Kept(e) : i < j => d[i] < d[j]
  BY DEF DeliveredInv
<1>. HIDE DEF d, k
<1>8. ASSUME NEW i \in Kept(e)'
      PROVE  delivered'[e][i] <= Taken(Peer(e))'
  <2>1. PICK t, u \in Int : t = Taken(Peer(e)) /\ u = Taken(Peer(e))' /\ t <= u
    OBVIOUS
  <2>2. CASE i = k
    <3>1. n = u
      BY <1>6, <1>8, <2>1, <2>2
    <3>2. delivered'[e][i] = n
      BY <1>3, <2>2
    <3>3. n <= u
      BY <3>1
    <3>. QED
      BY <2>1, <3>2, <3>3
  <2>3. CASE i \in Kept(e)
    <3>1. d[i] \in Nat /\ d[i] <= t /\ delivered'[e][i] = d[i]
      BY <1>3, <1>4, <2>1, <2>3
    <3>. QED
      BY <2>1, <3>1
  <2>. QED
    BY <1>5, <1>8, <2>2, <2>3
<1>9. ASSUME NEW i \in Kept(e)', NEW j \in Kept(e)', i < j
      PROVE  delivered'[e][i] < delivered'[e][j]
  <2>1. i \in 1 .. k /\ j \in 1 .. k
    BY <1>2, <1>4, <1>5, <1>9 DEF k
  <2>2. i \in Kept(e)
    BY <1>2, <1>5, <1>9, <2>1
  <2>3. CASE j = k
    BY <1>3, <1>4, <1>6, <1>9, <2>2, <2>3
  <2>4. CASE j \in Kept(e)
    BY <1>3, <1>4, <1>7, <1>9, <2>2, <2>4
  <2>. QED
    BY <1>5, <1>9, <2>3, <2>4
<1>. QED
  BY <1>8, <1>9 DEF DeliveredInv

LEMMA LocalPop ==
    ASSUME LocalBus, LocalInv, NEW e \in Ends, Pop(e)
    PROVE  LocalInv'
<1>. DEFINE o == Peer(e)
            m == items[o][readIndex[o]]
<1>1. /\ Reads(e) /\ ~Reads(o) /\ frame = 0 /\ toReceive[e] > 0 /\ popped = {}
      /\ readIndex' = [readIndex EXCEPT ![o] = NextSlot(@)]
      /\ m.controller \in Controllers =>
            /\ count' = [count EXCEPT ![o][m.controller] = FetchSub(@)]
            /\ toReceive' = [toReceive EXCEPT ![e] = @ - 1]
            /\ popped' = {[slot |-> readIndex[o], message |-> m]}
            /\ UNCHANGED stage
      /\ UNCHANGED <<items, writeIndex, toAnnounce, frame, sent, delivered, reused>>
  BY Peers DEF Pop, handed
<1>2. Types /\ RingInv(e) /\ RingInv(o) /\ o \in Ends /\ o # e /\ Peer(o) = e
  BY Peers DEF LocalInv
<1>3. /\ readIndex \in [Ends -> Nat] /\ toReceive \in [Ends -> Nat]
      /\ count \in [Ends -> [Controllers -> Nat]] /\ toAnnounce[o] \in Nat /\ toAnnounce[e] \in Nat
      /\ toReceive[e] \in Nat /\ toReceive[o] \in Nat
  BY <1>2 DEF Types
<1>4. Known(o) = toAnnounce[o] + toReceive[e] /\ Known(e) = toAnnounce[e] + toReceive[o]
  BY <1>1, <1>2, <1>3 DEF Known
<1>5. Known(o) > 0
  BY <1>1, <1>3, <1>4
<1>6. /\ m \in Messages /\ m.controller \in Controllers
      /\ m.number = Taken(o) + 1 /\ readIndex[o] \in Slots
  BY <1>2, <1>5, DirectionTakes
<1>. HIDE DEF m
<1>7. /\ readIndex'[o] = NextSlot(readIndex[o]) /\ readIndex'[e] = readIndex[e]
      /\ count'[o] = [count[o] EXCEPT ![m.controller] = FetchSub(@)] /\ count'[e] = count[e]
      /\ toReceive'[e] = toReceive[e] - 1 /\ toReceive'[o] = toReceive[o]
  BY <1>1, <1>2, <1>3, <1>6
<1>8. Known(o)' = Known(o) - 1 /\ Known(e)' = Known(e)
  <2>1. Known(o)' = toAnnounce[o] + (toReceive[e] - 1)
    <3>1. Known(o)' = toAnnounce[o] + 0 + (toReceive[e] - 1)
      BY <1>1, <1>2, <1>6, <1>7 DEF Known
    <3>. QED
      BY <1>1, <1>3, <3>1
  <2>2. Reads(o)' <=> Reads(o)
    BY <1>1, <1>6 DEF Reads
  <2>3. Known(e)' = toAnnounce[e] + 0 + toReceive[o]
    BY <1>1, <1>2, <1>6, <1>7, <2>2 DEF Known
  <2>4. toReceive[e] - 1 \in Int
    BY <1>3
  <2>. QED
    BY <1>1, <1>3, <1>4, <2>1, <2>3, <2>4
<1>9. RingInv(o)' /\ Taken(o)' = Taken(o) + 1 /\ count'[o] \in [Controllers -> Nat]
  BY <1>1, <1>2, <1>5, <1>7, <1>8, DirectionTakes DEF m
<1>10. RingInv(e)' /\ Taken(e)' = Taken(e)
  BY <1>1, <1>2, <1>7, <1>8, DirectionStays
<1>11. \A x \in Ends : RingInv(x)'
  BY <1>9, <1>10, Peers
<1>12. Types'
  <2>1. readIndex' \in [Ends -> Nat]
    <3>1. NextSlot(readIndex[o]) \in Nat
      BY <1>2, <1>3 DEF NextSlot
    <3>. QED
      BY <1>1, <1>2, <1>3, <3>1
  <2>2. toReceive' \in [Ends -> Nat]
    BY <1>1, <1>3, <1>6
  <2>3. count' \in [Ends -> [Controllers -> Nat]]
    <3>1. count' = [count EXCEPT ![o] = count'[o]]
      BY <1>1, <1>3, <1>6, <1>7
    <3>. QED
      BY <1>2, <1>3, <1>9, <3>1
  <2>. QED
    BY <1>1, <1>2, <1>6, <2>1, <2>2, <2>3 DEF Types
<1>13. Taken(o) \in Nat
  BY <1>2, RingFits
<1>14. \A x \in Ends : Reads(x)' <=> Reads(x)
  BY <1>1, <1>6 DEF Reads
<1>15. DeliveredInv(o)'
  BY <1>1, <1>2, <1>10, <1>14, DeliveredStays DEF LocalInv
<1>16. DeliveredInv(e)'
  <2>1. /\ \A i \in Kept(e) : delivered[e][i] <= Taken(o)
        /\ \A i, j \in Kept(e) : i < j => delivered[e][i] < delivered[e][j]
    BY DEF LocalInv, DeliveredInv
  <2>2. Kept(e)' = Kept(e)
    BY <1>1 DEF Kept
  <2>3. \A i \in Kept(e) : delivered[e][i] \in Nat
    BY <1>2 DEF Types, Kept
  <2>4. \A i \in Kept(e) : delivered[e][i] <= Taken(o)' /\ delivered[e][i] < Taken(o)'
    BY <1>9, <1>13, <2>1, <2>3
  <2>. QED
    BY <1>1, <2>1, <2>2, <2>4 DEF DeliveredInv
<1>17. PoppedInv'
  <2>1. /\ Reads(e)' /\ readIndex[o] \in Slots /\ m \in Messages /\ m.number = Taken(Peer(e))'
    BY <1>1, <1>6, <1>9, <1>14
  <2>. QED
    BY <1>1, <1>6, <2>1 DEF PoppedInv
<1>. QED
  BY <1>2, <1>11, <1>12, <1>15, <1>16, <1>17, Peers DEF LocalInv

LEMMA LocalHandOver ==
    ASSUME LocalBus, LocalInv, NEW e \in Ends, HandOver(e)
    PROVE  LocalInv'
<1>. DEFINE o == Peer(e)
<1>1. PICK p \in popped :
          LET found == items[o][p.slot] IN
          /\ delivered' = [delivered EXCEPT ![e] = Append(@, found.number)]
          /\ reused' = IF found = p.message
                       THEN reused
                       ELSE [reused EXCEPT ![e] = @ \cup {Len(delivered[e]) + 1}]
  BY DEF HandOver
<1>. DEFINE found == items[o][p.slot]
<1>2. /\ Reads(e) /\ popped' = {} /\ popped # {}
      /\ UNCHANGED <<items, readIndex, writeIndex, count, toAnnounce, toReceive, stage, frame, sent>>
      /\ UNCHANGED ring
  BY <1>1 DEF HandOver, ring
<1>3. Types /\ o \in Ends /\ o # e /\ Peer(o) = e /\ ~Reads(o)
  BY <1>2, Peers DEF LocalInv
<1>4. /\ p.slot \in Slots /\ p.message \in Messages /\ p.message.number = Taken(o)
  BY <1>2, <1>3, Peers DEF LocalInv, PoppedInv
<1>5. found \in Messages \cup {Nothing} /\ found.number \in Nat
  <2>1. found \in Messages \cup {Nothing}
    BY <1>3, <1>4 DEF Types
  <2>. QED
    BY <2>1 DEF Messages, Nothing, Message
<1>. HIDE DEF found
<1>6. PICK n \in Nat : n = found.number
  BY <1>5
<1>7. delivered \in [Ends -> Seq(Nat)] /\ reused \in [Ends -> SUBSET Nat]
  BY <1>3 DEF Types
<1>8. /\ delivered'[e] = Append(delivered[e], n) /\ delivered'[o] = delivered[o]
      /\ reused'[o] = reused[o]
      /\ \/ reused'[e] = reused[e] \cup {Len(delivered[e]) + 1}
         \/ reused'[e] = reused[e] /\ n = Taken(o)
  BY <1>1, <1>3, <1>4, <1>6, <1>7 DEF found
<1>9. \A x \in Ends : Known(x)' = Known(x) /\ (Reads(x)' <=> Reads(x))
  BY <1>2 DEF Known, Reads
<1>10. \A x \in Ends : RingInv(x)' /\ Taken(x)' = Taken(x)
  BY <1>2, <1>9, DirectionStays DEF LocalInv
<1>11. Types'
  <2>1. delivered' \in [Ends -> Seq(Nat)]
    <3>1. Append(delivered[e], n) \in Seq(Nat)
      BY <1>7
    <3>2. delivered' = [delivered EXCEPT ![e] = Append(delivered[e], n)]
      BY <1>1, <1>6 DEF found
    <3>. QED
      BY <1>7, <3>1, <3>2
  <2>2. reused' \in [Ends -> SUBSET Nat]
    <3>1. Len(delivered[e]) + 1 \in Nat
      BY <1>7
    <3>. QED
      BY <1>1, <1>7, <3>1
  <2>. QED
    BY <1>2, <1>3, <2>1, <2>2 DEF Types
<1>12. DeliveredInv(o)'
  BY <1>2, <1>3, <1>8, <1>10, DeliveredStays DEF LocalInv
<1>13. Taken(o) \in Nat
  BY <1>3, RingFits DEF LocalInv
<1>14. \A i \in Kept(e) : delivered[e][i] < Taken(o)
  BY <1>2 DEF LocalInv, DeliveredInv
<1>15. DeliveredInv(e)'
  <2>1. /\ DeliveredInv(e) /\ Taken(o)' = Taken(o) /\ Taken(o) \in Int /\ Taken(o) <= Taken(o)'
        /\ ~(popped # {} /\ Reads(e))'
    BY <1>2, <1>3, <1>10, <1>13 DEF LocalInv
  <2>2. \/ reused'[e] = reused[e] \cup {Len(delivered[e]) + 1}
        \/ /\ reused'[e] = reused[e] /\ n = Taken(o)'
           /\ \A i \in Kept(e) : delivered[e][i] < n
    BY <1>8, <1>14, <2>1
  <2>. QED
    BY <1>3, <1>8, <2>1, <2>2, DeliveredGrows
<1>16. PoppedInv'
  BY <1>2 DEF PoppedInv
<1>. QED
  BY <1>10, <1>11, <1>12, <1>15, <1>16, Peers DEF LocalInv

LEMMA LocalReceive ==
    ASSUME LocalBus, LocalInv, Receive
    PROVE  LocalInv'
<1>. DEFINE m == items["server"][readIndex["server"]]
<1>1. /\ ~Reads("client") /\ toReceive["client"] > 0
      /\ readIndex' = [readIndex EXCEPT !["server"] = NextSlot(@)]
      /\ m.controller \in Controllers =>
            /\ count' = [count EXCEPT !["server"][m.controller] = FetchSub(@)]
            /\ toReceive' = [toReceive EXCEPT !["client"] = @ - 1]
            /\ delivered' = [delivered EXCEPT !["client"] = Append(@, m.number)]
            /\ UNCHANGED reused
      /\ UNCHANGED <<items, writeIndex, toAnnounce, stage, frame, popped, sent>>
  BY DEF Receive
<1>2. Types /\ RingInv("client") /\ RingInv("server")
  BY Peers DEF LocalInv
<1>3. /\ readIndex \in [Ends -> Nat] /\ toReceive \in [Ends -> Nat]
      /\ count \in [Ends -> [Controllers -> Nat]] /\ delivered \in [Ends -> Seq(Nat)]
      /\ toAnnounce["client"] \in Nat /\ toAnnounce["server"] \in Nat
      /\ toReceive["client"] \in Nat /\ toReceive["server"] \in Nat /\ frame \in Nat
  BY <1>2, Peers DEF Types
<1>4. Known("server") = toAnnounce["server"] + toReceive["client"]
  BY <1>1, <1>3, Peers DEF Known
<1>5. Known("server") > 0
  BY <1>1, <1>3, <1>4
<1>6. /\ m \in Messages /\ m.controller \in Controllers
      /\ m.number = Taken("server") + 1 /\ readIndex["server"] \in Slots
  BY <1>2, <1>5, Peers, DirectionTakes
<1>. HIDE DEF m
<1>7. /\ readIndex'["server"] = NextSlot(readIndex["server"])
      /\ readIndex'["client"] = readIndex["client"]
      /\ count'["server"] = [count["server"] EXCEPT ![m.controller] = FetchSub(@)]
      /\ count'["client"] = count["client"]
      /\ toReceive'["client"] = toReceive["client"] - 1
      /\ toReceive'["server"] = toReceive["server"]
  BY ZenonT(60), <1>1, <1>3, <1>6, Peers
<1>8. /\ delivered'["client"] = Append(delivered["client"], m.number)
      /\ delivered'["server"] = delivered["server"] /\ reused' = reused
  BY <1>1, <1>3, <1>6, Peers
<1>9. \A x \in Ends : Reads(x)' <=> Reads(x)
  BY <1>1 DEF Reads
<1>10. Known("server")' = Known("server") - 1
  <2>1. Known("server")' = toAnnounce["server"] + 0 + (toReceive["client"] - 1)
    BY <1>1, <1>7, <1>9, Peers DEF Known
  <2>. QED
    BY <1>1, <1>3, <1>4, <2>1
<1>11. Known("client")' = Known("client")
  BY <1>1, <1>7, <1>9, Peers DEF Known
<1>12. /\ RingInv("server")' /\ Taken("server")' = Taken("server") + 1
       /\ count'["server"] \in [Controllers -> Nat]
  BY <1>1, <1>2, <1>5, <1>7, <1>10, Peers, DirectionTakes DEF m
<1>13. RingInv("client")' /\ Taken("client")' = Taken("client")
  BY <1>1, <1>2, <1>7, <1>11, Peers, DirectionStays
<1>14. Taken("server") \in Nat
  BY <1>2, Peers, RingFits
<1>15. Types'
  <2>1. readIndex' \in [Ends -> Nat]
    <3>1. NextSlot(readIndex["server"]) \in Nat
      BY <1>3, Peers DEF NextSlot
    <3>. QED
      BY <1>1, <1>3, <3>1
  <2>2. toReceive' \in [Ends -> Nat]
    <3>1. toReceive["client"] - 1 \in Nat
      BY <1>1, <1>3
    <3>. QED
      BY <1>1, <1>3, <1>6, <3>1
  <2>3. count' \in [Ends -> [Controllers -> Nat]]
    <3>1. count' = [count EXCEPT !["server"] = count'["server"]]
      BY <1>1, <1>3, <1>6, <1>7
    <3>. QED
      BY <1>3, <1>12, <3>1
  <2>4. delivered' \in [Ends -> Seq(Nat)]
    <3>1. Append(delivered["client"], m.number) \in Seq(Nat)
      BY <1>3, <1>6, <1>14, Peers
    <3>2. delivered' = [delivered EXCEPT !["client"] = Append(delivered["client"], m.number)]
      BY <1>1, <1>6
    <3>. QED
      BY <1>3, <3>1, <3>2
  <2>. QED
    BY <1>1, <1>2, <1>6, <2>1, <2>2, <2>3, <2>4 DEF Types
<1>16. DeliveredInv("server")'
  <2>1. DeliveredInv("server") /\ ((popped # {} /\ Reads("server"))' => popped # {} /\ Reads("server"))
    BY <1>1, <1>9, Peers DEF LocalInv
  <2>. QED
    BY <1>8, <1>13, <2>1, Peers, DeliveredStays
<1>17. DeliveredInv("client")'
  <2>1. PICK n \in Nat : n = m.number
    BY <1>6, <1>14
  <2>2. /\ DeliveredInv("client") /\ ~(popped # {} /\ Reads("client"))'
        /\ Taken("server") \in Int /\ Taken("server")' \in Int /\ Taken("server") <= Taken("server")'
        /\ n = Taken("server")' /\ n = Taken("server") + 1
    BY <1>1, <1>6, <1>9, <1>12, <1>14, <2>1, Peers DEF LocalInv
  <2>3. \A i \in Kept("client") : delivered["client"][i] <= Taken("server")
    BY <2>2, Peers DEF DeliveredInv
  <2>4. \A i \in Kept("client") : delivered["client"][i] \in Nat
    BY <1>3, Peers DEF Kept
  <2>5. \A i \in Kept("client") : delivered["client"][i] < n
    BY <1>14, <2>2, <2>3, <2>4
  <2>. QED
    BY <1>2, <1>8, <2>1, <2>2, <2>5, Peers, DeliveredGrows
<1>18. PoppedInv'
  <2>. SUFFICES ASSUME NEW p \in popped
                PROVE  /\ Reads("server")' /\ p.slot \in Slots /\ p.message \in Messages
                       /\ p.message.number = Taken(Peer("server"))'
    BY <1>1, Peers DEF PoppedInv
  <2>1. PICK e \in Ends : /\ Reads(e) /\ p.slot \in Slots
                          /\ p.message \in Messages /\ p.message.number = Taken(Peer(e))
    BY DEF LocalInv, PoppedInv
  <2>2. e = "server"
    BY <1>1, <2>1 DEF Ends
  <2>. QED
    BY <1>9, <1>13, <2>1, <2>2, Peers
<1>. QED
  BY <1>12, <1>13, <1>15, <1>16, <1>17, <1>18 DEF LocalInv, Ends

\* A ring that was just set up or cleared.
LEMMA EmptyDirection ==
    ASSUME LocalBus, NEW slots \in [Slots -> Messages \cup {Nothing}]
    PROVE  Charged(Ring(CombinedQueueCapacity, slots, 0, 0, 0), NoneQueued,
                   Messages, Nothing, Controllers, QueueSize)
<1>. DEFINE room == CombinedQueueCapacity
            ring0 == Ring(room, slots, 0, 0, 0)
<1>1. /\ Owned(Messages, Controllers, QueueSize)
      /\ room \in Nat /\ room = Cardinality(PlacesFor(Controllers, QueueSize))
  BY MessagesOwned
<1>2. ring0 \in Rings(room, Messages \cup {Nothing})
  BY <1>1 DEF Ring, Rings, Slots
<1>3. WellFormed(ring0) /\ Contents(ring0) = <<>>
  BY <1>1 DEF Ring, WellFormed, Wrap, Contents
<1>. HIDE DEF ring0
<1>4. Charged(ring0, [c \in Controllers |-> 0], Messages, Nothing, Controllers, QueueSize)
  BY <1>1, <1>2, <1>3, ChargedNothing
<1>. QED
  BY <1>4 DEF ring0, NoneQueued

LEMMA LocalInit == ASSUME LocalBus, Init PROVE LocalInv
<1>1. Types
  BY DEF Init, Types, Ends, NoneQueued, Nothing
<1>2. ASSUME NEW e \in Ends
      PROVE  RingInv(e) /\ DeliveredInv(e)
  <2>1. Known(e) = 0
    BY <1>2, Peers DEF Init, Known
  <2>2. RingOf(e) = Ring(CombinedQueueCapacity, items[e], 0, 0, 0) /\ count[e] = NoneQueued
    BY <1>2, <2>1 DEF Init, RingOf
  <2>3. items[e] \in [Slots -> Messages \cup {Nothing}]
    BY <1>1, <1>2 DEF Types
  <2>4. Charged(RingOf(e), count[e], Messages, Nothing, Controllers, QueueSize)
    BY <2>2, <2>3, EmptyDirection
  <2>5. Known(e) <= sent[e] /\ 1 .. Known(e) = {}
    BY <1>2, <2>1 DEF Init
  <2>6. Kept(e) = {}
    BY <1>2 DEF Init, Kept
  <2>. QED
    BY <2>4, <2>5, <2>6 DEF RingInv, DeliveredInv
<1>3. PoppedInv
  BY DEF Init, PoppedInv
<1>. QED
  BY <1>1, <1>2, <1>3 DEF LocalInv

\* The start of the simulation, with no message sent before it.
LEMMA LocalStart ==
    ASSUME LocalBus, LocalInv, Start
    PROVE  LocalInv'
<1>1. /\ stage = "idle" /\ \A e \in Ends : sent[e] = 0
      /\ readIndex' = [e \in Ends |-> 0] /\ writeIndex' = [e \in Ends |-> 0]
      /\ count' = [e \in Ends |-> NoneQueued]
      /\ toAnnounce' = [toAnnounce EXCEPT !["client"] = 0]
      /\ toReceive' = [toReceive EXCEPT !["client"] = 0]
      /\ UNCHANGED <<items, stage, frame, popped, sent, delivered, reused>>
  BY DEF Start, LocalBus, handed
<1>2. Types /\ popped = {} /\ \A e \in Ends : ~Reads(e) /\ ~Reads(e)'
  <2>1. \A e \in Ends : ~Reads(e) /\ ~Reads(e)'
    BY <1>1 DEF Reads
  <2>. QED
    BY <2>1, NonePopped DEF LocalInv
<1>3. toAnnounce \in [Ends -> Nat] /\ toReceive \in [Ends -> Nat]
  BY <1>2 DEF Types
<1>4. ASSUME NEW e \in Ends
      PROVE  /\ Known(e) = 0 /\ toAnnounce[e] = 0 /\ toReceive[Peer(e)] = 0
  <2>1. Known(e) <= 0 /\ Known(e) \in Nat
    BY <1>1, <1>2, <1>4, KnownType DEF LocalInv, RingInv
  <2>2. Known(e) = toAnnounce[e] + toReceive[Peer(e)]
    BY <1>2, <1>3, <1>4, Peers DEF Known
  <2>. QED
    BY <1>3, <1>4, <2>1, <2>2, Peers
<1>5. \A e \in Ends : toAnnounce'[e] = 0 /\ toReceive'[e] = 0
  BY <1>1, <1>3, <1>4, Peers
<1>6. Types'
  <2>1. toAnnounce' \in [Ends -> Nat] /\ toReceive' \in [Ends -> Nat]
    BY <1>1, <1>3
  <2>2. /\ readIndex' \in [Ends -> Nat] /\ writeIndex' \in [Ends -> Nat]
        /\ count' \in [Ends -> [Controllers -> Nat]]
    BY <1>1 DEF NoneQueued
  <2>. QED
    BY <1>1, <1>2, <2>1, <2>2 DEF Types
<1>7. ASSUME NEW e \in Ends
      PROVE  RingInv(e)' /\ DeliveredInv(e)'
  <2>1. Known(e)' = 0
    BY <1>2, <1>5, <1>7, Peers DEF Known
  <2>2. /\ RingOf(e)' = Ring(CombinedQueueCapacity, items[e], 0, 0, 0)
        /\ count'[e] = NoneQueued
    BY <1>1, <1>7, <2>1 DEF RingOf
  <2>3. items[e] \in [Slots -> Messages \cup {Nothing}]
    BY <1>2, <1>7 DEF Types
  <2>4. Charged(RingOf(e), count[e], Messages, Nothing, Controllers, QueueSize)'
    BY <2>2, <2>3, EmptyDirection
  <2>5. (Known(e) <= sent[e])' /\ 1 .. Known(e)' = {}
    BY <1>1, <1>7, <2>1
  <2>6. RingInv(e)'
    BY <2>4, <2>5 DEF RingInv
  <2>7. \A x \in Ends : Known(x)' = 0
    BY <1>2, <1>5, Peers DEF Known
  <2>8. Taken(Peer(e))' = Taken(Peer(e))
    BY <1>1, <1>4, <1>7, <2>7, Peers DEF Taken
  <2>9. DeliveredInv(e)'
    BY <1>1, <1>2, <1>7, <2>8, DeliveredStays DEF LocalInv
  <2>. QED
    BY <2>6, <2>9
<1>8. PoppedInv'
  BY <1>1, <1>2 DEF PoppedInv
<1>. QED
  BY <1>6, <1>7, <1>8 DEF LocalInv

-----------------------------------------------------------------------------
(* The invariant holds, and with it what the checks ask.                   *)

LEMMA LocalStutters == ASSUME LocalBus, LocalInv, UNCHANGED vars PROVE LocalInv'
<1>1. UNCHANGED <<ring, popped, sent, handed, items, readIndex, writeIndex, count, toAnnounce,
                  toReceive, stage, frame, delivered, reused>>
  BY DEF vars, ring, handed
<1>2. Types' /\ \A e \in Ends : Known(e)' = Known(e)
  BY <1>1 DEF Types, Known, Reads, LocalInv
<1>. QED
  BY <1>1, <1>2, KnowledgeMoves

LEMMA LocalHolds == ASSUME LocalBus PROVE Spec => []LocalInv
<1>1. Init => LocalInv
  BY LocalInit
<1>2. LocalInv /\ [Next]_vars => LocalInv'
  <2>. SUFFICES ASSUME LocalInv, [Next]_vars PROVE LocalInv'
    OBVIOUS
  <2>1. ASSUME NEW e \in Ends, NEW c \in Controllers, Transmit(e, c) PROVE LocalInv'
    BY <2>1, LocalTransmit
  <2>2. CASE SendStep
    <3>1. \A x \in Ends : ~Reads(x)
      BY <2>2 DEF SendStep, Reads
    <3>. QED
      BY <2>2, <3>1, LocalSend, Peers DEF SendStep
  <2>3. CASE SendStepOk
    <3>1. \A x \in Ends : ~Reads(x)
      BY <2>3 DEF SendStepOk, Reads
    <3>. QED
      BY <2>3, <3>1, LocalSend, Peers DEF SendStepOk
  <2>4. ASSUME NEW e \in Ends, ReadCount(e) \/ Pop(e) \/ HandOver(e) \/ EndRead(e)
        PROVE  LocalInv'
    BY <2>4, LocalReadCount, LocalPop, LocalHandOver, LocalEndRead
  <2>5. CASE Receive
    BY <2>5, LocalReceive
  <2>6. CASE Start
    BY <2>6, LocalStart
  <2>7. CASE UNCHANGED vars
    BY <2>7, LocalStutters
  <2>. QED
    BY <2>1, <2>2, <2>3, <2>4, <2>5, <2>6, <2>7 DEF Next
<1>. QED
  BY <1>1, <1>2, PTL DEF Spec

\* The messages that wait for an end are the contents of its ring.
LEMMA WaitingIsQueue ==
    ASSUME LocalBus, LocalInv, NEW e \in Ends
    PROVE  Waiting(e) = Queue(e)
<1>. DEFINE room == CombinedQueueCapacity
<1>1. /\ Known(e) \in 0 .. room /\ readIndex[e] \in Nat /\ room \in Nat
      /\ room > 0 => readIndex[e] < room
  BY RingFits, MessagesOwned DEF LocalInv
<1>2. Waiting(e) = [i \in 1 .. Known(e) |-> items[e][(readIndex[e] + i - 1) % room]]
  BY DEF Waiting, Known
<1>3. Queue(e) = [i \in 1 .. Known(e) |-> items[e][Wrap(RingOf(e), readIndex[e] + i - 1)]]
  BY RingShape DEF Queue, Contents
<1>4. ASSUME NEW i \in 1 .. Known(e)
      PROVE  (readIndex[e] + i - 1) % room = Wrap(RingOf(e), readIndex[e] + i - 1)
  <2>1. CASE readIndex[e] + i - 1 < room
    <3>1. readIndex[e] + i - 1 \in 0 .. room - 1
      BY <1>1, <2>1
    <3>2. (readIndex[e] + i - 1) % room = readIndex[e] + i - 1
      BY <1>1, <3>1, ModOnce
    <3>. QED
      BY <1>1, <2>1, <3>2, RingShape DEF Wrap
  <2>2. CASE readIndex[e] + i - 1 >= room
    <3>. DEFINE x == readIndex[e] + i - 1 - room
    <3>1. x \in 0 .. room - 1 /\ readIndex[e] + i - 1 = x + room
      BY <1>1, <2>2
    <3>. HIDE DEF x
    <3>2. (x + room) % room = x
      BY <1>1, <3>1, ModOnce
    <3>3. Wrap(RingOf(e), x + room) = x
      BY <1>1, <3>1, RingShape DEF Wrap
    <3>. QED
      BY <3>1, <3>2, <3>3
  <2>. QED
    BY <1>1, <2>1, <2>2
<1>. QED
  BY <1>2, <1>3, <1>4

\* The shared counts of the controllers are how many of their messages wait, and
\* what waits is what was sent last: PushBack, which does not ask whether there is
\* room, never writes over a message that was not taken, and an end never pops a
\* slot that was not filled.
THEOREM LocalCounts == ASSUME LocalBus PROVE Spec => []CountsMatchRing
<1>1. LocalInv => CountsMatchRing
  <2>. SUFFICES ASSUME LocalInv, NEW e \in Ends
                PROVE  LET waiting == Waiting(e) IN
                       /\ \A c \in Controllers : count[e][c] =
                             Cardinality({i \in DOMAIN waiting : waiting[i].controller = c})
                       /\ \A i \in DOMAIN waiting : waiting[i].number = sent[e] - Len(waiting) + i
    BY DEF CountsMatchRing
  <2>1. RingInv(e) /\ Types /\ Waiting(e) = Queue(e)
    BY WaitingIsQueue DEF LocalInv
  <2>2. Len(Queue(e)) = Known(e) /\ DOMAIN Queue(e) = 1 .. Known(e)
    BY <2>1, RingFits
  <2>3. \A c \in Controllers : count[e][c] =
            Cardinality({i \in DOMAIN Queue(e) : Queue(e)[i].controller = c})
    BY <2>1 DEF RingInv, Charged, Of, Queue
  <2>4. \A i \in DOMAIN Queue(e) : Queue(e)[i].number = sent[e] - Len(Queue(e)) + i
    BY <2>1, <2>2 DEF RingInv, Taken
  <2>. QED
    BY <2>1, <2>3, <2>4
<1>. QED
  BY <1>1, LocalHolds, PTL

\* An application is handed the messages of the other end in the order they were
\* sent and none twice, but for those whose slot was written again between Pop
\* and HandOver.
THEOREM LocalInOrder == ASSUME LocalBus PROVE Spec => []InOrderOnce
<1>1. LocalInv => InOrderOnce
  BY DEF LocalInv, DeliveredInv, Kept, InOrderOnce
<1>. QED
  BY <1>1, LocalHolds, PTL

\* A controller that nobody knows is never found in the ring: the read of a frame
\* never fails, and the ends never know of more messages than the ring has slots.
NeverFails == stage # "failed"
NeverOverfull == \A e \in Ends : Known(e) <= CombinedQueueCapacity

THEOREM LocalReadsFind == ASSUME LocalBus PROVE Spec => [](NeverFails /\ NeverOverfull)
<1>1. LocalBus /\ LocalInv => NeverFails /\ NeverOverfull
  <2>. SUFFICES ASSUME LocalBus, LocalInv PROVE NeverFails /\ NeverOverfull
    OBVIOUS
  <2>1. NeverFails
    BY DEF LocalInv, Types, NeverFails
  <2>2. \A e \in Ends : Known(e) \in 0 .. CombinedQueueCapacity
    BY RingFits DEF LocalInv
  <2>. QED
    BY <2>1, <2>2, MessagesOwned DEF NeverOverfull
<1>. QED
  BY <1>1, LocalHolds, PTL
=============================================================================
