----------------------------- MODULE RingBuffer -----------------------------
(***************************************************************************)
(* The class RingBuffer: a queue of fixed capacity in an array, with one   *)
(* index to read from and one to write to.  A ring is a record; what an    *)
(* operation of the class leaves behind is an operator on rings.           *)
(***************************************************************************)
EXTENDS Naturals, Sequences

\* _capacity, _items, _size, _readIndex, _writeIndex.
Ring(capacity, items, size, readIndex, writeIndex) ==
    [capacity |-> capacity, items |-> items, size |-> size,
     readIndex |-> readIndex, writeIndex |-> writeIndex]

\* The constructor; what the slots hold does not matter.
NewRing(capacity, anything) ==
    Ring(capacity, [i \in 0 .. capacity - 1 |-> anything], 0, 0, 0)

IsEmpty(ring) == ring.size = 0
IsFull(ring)  == ring.size = ring.capacity

AdvanceIndex(ring, index) == IF index + 1 = ring.capacity THEN 0 ELSE index + 1

\* Mutant: a clear that leaves the write index where it was.
ClearKeepsWriteIndex(ring) ==
    Ring(ring.capacity, ring.items, 0, 0, ring.writeIndex)

Clear(ring) == Ring(ring.capacity, ring.items, 0, 0, 0)

\* TryPushBack of a ring that is not full.
PushBack(ring, item) ==
    Ring(ring.capacity, [ring.items EXCEPT ![ring.writeIndex] = item], ring.size + 1,
         ring.readIndex, AdvanceIndex(ring, ring.writeIndex))

\* TryPeekFront, and TryPopFront or RemoveFront, of a ring that is not empty.
Front(ring) == ring.items[ring.readIndex]
RemoveFront(ring) ==
    Ring(ring.capacity, ring.items, ring.size - 1,
         AdvanceIndex(ring, ring.readIndex), ring.writeIndex)

\* Removing the front until the ring is empty.
Drain(ring) == Ring(ring.capacity, ring.items, 0, ring.writeIndex, ring.writeIndex)

-----------------------------------------------------------------------------
(* What a ring is a queue of.                                              *)

Wrap(ring, index) == IF index >= ring.capacity THEN index - ring.capacity ELSE index

Contents(ring) == [i \in 1 .. ring.size |-> ring.items[Wrap(ring, ring.readIndex + i - 1)]]

Rings(capacity, Items) ==
    [capacity : {capacity}, items : [0 .. capacity - 1 -> Items], size : 0 .. capacity,
     readIndex : 0 .. capacity, writeIndex : 0 .. capacity]

\* The indices are slots, and the write index is size slots behind the read
\* index.
WellFormed(ring) ==
    /\ ring.capacity > 0 => ring.readIndex < ring.capacity
    /\ ring.capacity = 0 => ring.readIndex = 0
    /\ ring.writeIndex = Wrap(ring, ring.readIndex + ring.size)
=============================================================================
