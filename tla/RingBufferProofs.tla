-------------------------- MODULE RingBufferProofs --------------------------
(***************************************************************************)
(* A ring of any capacity is a queue: each operation of the class does to  *)
(* the contents what the operation of a sequence does.                     *)
(***************************************************************************)
EXTENDS RingBuffer, Functions, FiniteSets, SequenceTheorems, FiniteSetTheorems, TLAPS

\* The contents of a ring are a sequence of its items.
LEMMA ContentsType ==
    ASSUME NEW capacity \in Nat, NEW Items, NEW ring \in Rings(capacity, Items),
           WellFormed(ring)
    PROVE  /\ Contents(ring) \in Seq(Items)
           /\ Len(Contents(ring)) = ring.size
<1>1. ring.size \in Nat /\ ring.capacity = capacity
  BY DEF Rings
<1>2. Contents(ring) \in [1 .. ring.size -> Items]
  <2>1. ASSUME NEW i \in 1 .. ring.size
        PROVE  Wrap(ring, ring.readIndex + i - 1) \in 0 .. capacity - 1
    BY DEF Rings, WellFormed, Wrap
  <2>. QED
    BY <2>1 DEF Contents, Rings
<1>3. Contents(ring) \in Seq(Items)
  BY <1>1, <1>2, SeqDef
<1>. QED
  BY <1>1, <1>2, <1>3, LenProperties

\* A new ring is an empty queue.
LEMMA NewRingIsEmpty ==
    ASSUME NEW capacity \in Nat, NEW Items, NEW x \in Items
    PROVE  LET ring == NewRing(capacity, x) IN
           /\ ring \in Rings(capacity, Items)
           /\ WellFormed(ring)
           /\ Contents(ring) = <<>>
  BY DEF NewRing, Ring, Rings, WellFormed, Wrap, Contents

\* Clearing a ring empties the queue.
LEMMA ClearEmpties ==
    ASSUME NEW capacity \in Nat, NEW Items, NEW ring \in Rings(capacity, Items)
    PROVE  /\ Clear(ring) \in Rings(capacity, Items)
           /\ WellFormed(Clear(ring))
           /\ Contents(Clear(ring)) = <<>>
  BY DEF Clear, Ring, Rings, WellFormed, Wrap, Contents

\* Removing the front of a ring until it is empty empties the queue.
LEMMA DrainEmpties ==
    ASSUME NEW capacity \in Nat, NEW Items, NEW ring \in Rings(capacity, Items),
           WellFormed(ring)
    PROVE  /\ Drain(ring) \in Rings(capacity, Items)
           /\ WellFormed(Drain(ring))
           /\ Contents(Drain(ring)) = <<>>
  BY DEF Drain, Ring, Rings, WellFormed, Wrap, Contents

\* Pushing into a ring that is not full appends to the queue.
LEMMA PushBackAppends ==
    ASSUME NEW capacity \in Nat, NEW Items, NEW ring \in Rings(capacity, Items),
           WellFormed(ring), ~IsFull(ring), NEW item \in Items
    PROVE  LET next == PushBack(ring, item) IN
           /\ next \in Rings(capacity, Items)
           /\ WellFormed(next)
           /\ Contents(next) = Append(Contents(ring), item)
<1>. DEFINE next == PushBack(ring, item)
<1>1. /\ ring.capacity = capacity /\ ring.size \in Nat /\ ring.size < capacity
      /\ ring.items \in [0 .. capacity - 1 -> Items]
      /\ ring.readIndex \in 0 .. capacity - 1 /\ ring.writeIndex \in 0 .. capacity - 1
      /\ ring.writeIndex = Wrap(ring, ring.readIndex + ring.size)
  BY DEF Rings, WellFormed, IsFull, Wrap
<1>2. /\ next.capacity = capacity /\ next.size = ring.size + 1
      /\ next.readIndex = ring.readIndex
      /\ next.writeIndex = AdvanceIndex(ring, ring.writeIndex)
      /\ next.items = [ring.items EXCEPT ![ring.writeIndex] = item]
  BY <1>1 DEF PushBack, Ring, Rings
<1>3. next \in Rings(capacity, Items)
  <2>1. next.items \in [0 .. capacity - 1 -> Items]
    BY <1>1, <1>2
  <2>2. next.writeIndex \in 0 .. capacity
    BY <1>1, <1>2 DEF AdvanceIndex
  <2>. QED
    BY <1>1, <1>2, <2>1, <2>2 DEF PushBack, Ring, Rings
<1>4. WellFormed(next)
  BY <1>1, <1>2 DEF WellFormed, Wrap, AdvanceIndex
<1>5. Contents(next) = Append(Contents(ring), item)
  <2>1. Len(Contents(ring)) = ring.size /\ Contents(ring) \in Seq(Items)
    BY ContentsType
  <2>2. /\ Contents(next) \in Seq(Items)
        /\ Len(Contents(next)) = ring.size + 1
    BY <1>2, <1>3, <1>4, ContentsType
  <2>3. ASSUME NEW i \in 1 .. ring.size
        PROVE  Contents(next)[i] = Contents(ring)[i]
    <3>1. Wrap(ring, ring.readIndex + i - 1) # ring.writeIndex
      BY <1>1 DEF Wrap
    <3>2. Wrap(ring, ring.readIndex + i - 1) \in 0 .. capacity - 1
      BY <1>1 DEF Wrap
    <3>. QED
      BY <1>1, <1>2, <3>1, <3>2 DEF Contents, Wrap
  <2>4. Contents(next)[ring.size + 1] = item
    <3>1. ring.size + 1 \in 1 .. next.size /\ ring.readIndex + (ring.size + 1) - 1 = ring.readIndex + ring.size
      BY <1>1, <1>2
    <3>2. Contents(next)[ring.size + 1] = next.items[Wrap(next, ring.readIndex + ring.size)]
      BY <1>1, <1>2, <3>1 DEF Contents
    <3>3. Wrap(next, ring.readIndex + ring.size) = ring.writeIndex
      BY <1>1, <1>2 DEF Wrap
    <3>. QED
      BY <1>1, <1>2, <3>2, <3>3
  <2>. QED
    BY <2>1, <2>2, <2>3, <2>4
<1>. QED
  BY <1>3, <1>4, <1>5

\* Reading the front of a ring that is not empty takes the head of the queue.
LEMMA RemoveFrontTakesHead ==
    ASSUME NEW capacity \in Nat, NEW Items, NEW ring \in Rings(capacity, Items),
           WellFormed(ring), ~IsEmpty(ring)
    PROVE  LET next == RemoveFront(ring) IN
           /\ next \in Rings(capacity, Items)
           /\ WellFormed(next)
           /\ Front(ring) = Head(Contents(ring))
           /\ Contents(next) = Tail(Contents(ring))
<1>. DEFINE next == RemoveFront(ring)
<1>1. /\ ring.capacity = capacity /\ ring.size \in 1 .. capacity
      /\ ring.items \in [0 .. capacity - 1 -> Items]
      /\ ring.readIndex \in 0 .. capacity - 1 /\ ring.writeIndex \in 0 .. capacity
      /\ ring.writeIndex = Wrap(ring, ring.readIndex + ring.size)
  BY DEF Rings, WellFormed, IsEmpty
<1>2. /\ next.capacity = capacity /\ next.size = ring.size - 1
      /\ next.readIndex = AdvanceIndex(ring, ring.readIndex)
      /\ next.writeIndex = ring.writeIndex
      /\ next.items = ring.items
  BY <1>1 DEF RemoveFront, Ring, Rings
<1>3. next \in Rings(capacity, Items)
  <2>1. next.readIndex \in 0 .. capacity
    BY <1>1, <1>2 DEF AdvanceIndex
  <2>. QED
    BY <1>1, <1>2, <2>1 DEF RemoveFront, Ring, Rings
<1>4. WellFormed(next)
  BY <1>1, <1>2 DEF WellFormed, Wrap, AdvanceIndex
<1>5. Contents(ring) \in Seq(Items) /\ Len(Contents(ring)) = ring.size
  BY ContentsType
<1>6. Front(ring) = Head(Contents(ring))
  <2>1. Contents(ring)[1] = ring.items[Wrap(ring, ring.readIndex + 1 - 1)]
    BY <1>1 DEF Contents
  <2>2. Wrap(ring, ring.readIndex + 1 - 1) = ring.readIndex
    BY <1>1 DEF Wrap
  <2>. QED
    BY <1>1, <1>5, <2>1, <2>2 DEF Front
<1>7. Contents(next) = Tail(Contents(ring))
  <2>1. Contents(next) \in Seq(Items) /\ Len(Contents(next)) = ring.size - 1
    BY <1>2, <1>3, <1>4, ContentsType
  <2>2. ASSUME NEW i \in 1 .. ring.size - 1
        PROVE  Contents(next)[i] = Contents(ring)[i + 1]
    <3>1. Contents(next)[i] = ring.items[Wrap(next, next.readIndex + i - 1)]
      BY <1>1, <1>2 DEF Contents
    <3>2. i + 1 \in 1 .. ring.size
      BY <1>1
    <3>3. Contents(ring)[i + 1] = ring.items[Wrap(ring, ring.readIndex + (i + 1) - 1)]
      BY <1>1, <3>2 DEF Contents
    <3>4. Wrap(next, next.readIndex + i - 1) = Wrap(ring, ring.readIndex + (i + 1) - 1)
      <4>1. CASE ring.readIndex + 1 = capacity
        <5>1. next.readIndex = 0
          BY <1>1, <1>2, <4>1 DEF AdvanceIndex
        <5>2. Wrap(next, next.readIndex + i - 1) = i - 1
          BY <1>1, <1>2, <5>1 DEF Wrap
        <5>3. Wrap(ring, ring.readIndex + (i + 1) - 1) = i - 1
          BY <1>1, <4>1 DEF Wrap
        <5>. QED
          BY <5>2, <5>3
      <4>2. CASE ring.readIndex + 1 # capacity
        <5>1. next.readIndex = ring.readIndex + 1
          BY <1>1, <1>2, <4>2 DEF AdvanceIndex
        <5>2. next.readIndex + i - 1 = ring.readIndex + (i + 1) - 1
          BY <1>1, <5>1
        <5>. QED
          BY <1>1, <1>2, <5>2 DEF Wrap
      <4>. QED
        BY <4>1, <4>2
    <3>. QED
      BY <3>1, <3>3, <3>4
  <2>. QED
    BY <1>1, <1>5, <2>1, <2>2
<1>. QED
  BY <1>3, <1>4, <1>6, <1>7

-----------------------------------------------------------------------------
(* A ring that queues each of some members at most once.                   *)

\* A ring with a slot for each of the members that holds the kept ones, each of
\* them once.
HoldsOnce(ring, Items, members, kept) ==
    /\ ring \in Rings(Cardinality(members), Items)
    /\ WellFormed(ring)
    /\ Range(Contents(ring)) = kept
    /\ IsInjective(Contents(ring))

LEMMA HoldsNothing ==
    ASSUME NEW Items, NEW members, NEW ring \in Rings(Cardinality(members), Items),
           WellFormed(ring), Contents(ring) = <<>>
    PROVE  HoldsOnce(ring, Items, members, {})
<1>1. Range(<<>>) = {} /\ IsInjective(<<>>)
  BY DEF Range, IsInjective
<1>. QED
  BY <1>1 DEF HoldsOnce

\* A ring that does not hold all of its members has room for another one.
LEMMA RoomForAnother ==
    ASSUME NEW Items, NEW members \in SUBSET Items, IsFiniteSet(members),
           NEW kept \in SUBSET members, NEW ring, HoldsOnce(ring, Items, members, kept),
           NEW x \in members \ kept
    PROVE  ~IsFull(ring)
<1>. DEFINE q == Contents(ring)
            n == ring.size
            room == Cardinality(members)
            others == members \ {x}
<1>1. /\ room \in Nat /\ ring \in Rings(room, Items) /\ WellFormed(ring)
  BY FS_CardinalityType DEF HoldsOnce
<1>2. q \in Seq(Items) /\ Len(q) = n /\ n \in Nat /\ ring.capacity = room
  <2>1. q \in Seq(Items) /\ Len(q) = n
    BY <1>1, ContentsType
  <2>2. ring.size \in 0 .. room /\ ring.capacity = room
    BY <1>1 DEF Rings
  <2>. QED
    BY <1>1, <2>1, <2>2
<1>3. DOMAIN q = 1 .. n
  BY <1>2
<1>. HIDE DEF q, n
<1>4. \A i \in 1 .. n : q[i] \in kept
  BY <1>3 DEF HoldsOnce, Range, q
<1>5. q \in [1 .. n -> others]
  BY <1>2, <1>3, <1>4
<1>6. q \in Injection(1 .. n, others)
  BY <1>5 DEF HoldsOnce, Injection, q
<1>7. IsFiniteSet(others) /\ Cardinality(others) = room - 1
  BY <1>1, FS_RemoveElement
<1>8. Cardinality(1 .. n) <= room - 1
  BY <1>6, <1>7, FS_Injection
<1>9. Cardinality(1 .. n) = n
  BY <1>2, FS_Interval
<1>. QED
  BY <1>1, <1>2, <1>8, <1>9 DEF IsFull, n

\* Queueing a member that the ring does not hold yet.
LEMMA HoldsAnother ==
    ASSUME NEW Items, NEW members \in SUBSET Items, IsFiniteSet(members),
           NEW kept \in SUBSET members, NEW ring, HoldsOnce(ring, Items, members, kept),
           NEW x \in members \ kept
    PROVE  HoldsOnce(PushBack(ring, x), Items, members, kept \cup {x})
<1>. DEFINE q == Contents(ring)
            next == PushBack(ring, x)
            r == Contents(next)
            n == Len(q)
            room == Cardinality(members)
<1>1. room \in Nat /\ ring \in Rings(room, Items) /\ WellFormed(ring) /\ x \in Items
  BY FS_CardinalityType DEF HoldsOnce
<1>2. ~IsFull(ring)
  BY RoomForAnother
<1>. HIDE DEF room
<1>3. next \in Rings(room, Items) /\ WellFormed(next) /\ r = Append(q, x)
  BY <1>1, <1>2, PushBackAppends
<1>4. q \in Seq(Items)
  BY <1>1, ContentsType
<1>. HIDE DEF q, next, r
<1>5. /\ n \in Nat /\ DOMAIN q = 1 .. n /\ DOMAIN r = 1 .. n + 1
      /\ \A i \in 1 .. n : r[i] = q[i] /\ i \in 1 .. n + 1
      /\ r[n + 1] = x /\ n + 1 \in 1 .. n + 1
      /\ \A i \in 1 .. n + 1 : i \in 1 .. n \/ i = n + 1
  BY <1>1, <1>3, <1>4
<1>. HIDE DEF n
<1>6. Range(q) = kept /\ IsInjective(q)
  BY DEF HoldsOnce, q
<1>7. Range(r) = kept \cup {x}
  BY <1>5, <1>6 DEF Range
<1>8. \A i \in 1 .. n : q[i] # x
  BY <1>5, <1>6 DEF Range
<1>9. IsInjective(r)
  BY <1>5, <1>6, <1>8 DEF IsInjective
<1>. QED
  BY <1>3, <1>7, <1>9 DEF HoldsOnce, next, r, room

LEMMA HoldsNoneMore ==
    ASSUME NEW Items, NEW members, IsFiniteSet(members),
           NEW kept, NEW ring, HoldsOnce(ring, Items, members, kept)
    PROVE  /\ HoldsOnce(Drain(ring), Items, members, {})
           /\ HoldsOnce(Clear(ring), Items, members, {})
<1>1. /\ Cardinality(members) \in Nat /\ WellFormed(ring)
      /\ ring \in Rings(Cardinality(members), Items)
  BY FS_CardinalityType DEF HoldsOnce
<1>. QED
  BY <1>1, DrainEmpties, ClearEmpties, HoldsNothing

\* A new ring for members of Items, whatever its slots hold.
LEMMA NewRingHolds ==
    ASSUME NEW Items, NEW members \in SUBSET Items, IsFiniteSet(members)
    PROVE  HoldsOnce(NewRing(Cardinality(members), CHOOSE x \in Items : TRUE),
                     Items, members, {})
<1>. DEFINE y == CHOOSE x \in Items : TRUE
            room == Cardinality(members)
            ring == NewRing(room, y)
<1>1. room \in Nat
  BY FS_CardinalityType
<1>2. ring \in Rings(room, Items) /\ WellFormed(ring) /\ Contents(ring) = <<>>
  <2>1. CASE Items # {}
    <3>1. y \in Items
      BY <2>1
    <3>. HIDE DEF y, room
    <3>. QED
      BY <1>1, <3>1, NewRingIsEmpty
  <2>2. CASE Items = {}
    <3>1. room = 0
      BY <2>2, FS_EmptySet
    <3>. HIDE DEF y
    <3>. QED
      BY <3>1 DEF NewRing, Ring, Rings, WellFormed, Wrap, Contents
  <2>. QED
    BY <2>1, <2>2
<1>. QED
  BY <1>2, HoldsNothing

-----------------------------------------------------------------------------
(* A ring whose items belong to controllers, each of which may have no     *)
(* more than its queue size in it.  The capacity is the sum of the sizes.  *)

\* The places of a queue whose item belongs to a controller, and those up to a
\* place whose item belongs to the same one.
Of(queue, c) == {i \in DOMAIN queue : queue[i].controller = c}
Upto(queue, i) == {j \in 1 .. i : queue[j].controller = queue[i].controller}

OneMore(count, c) == [count EXCEPT ![c] = @ + 1]
OneFewer(count, c) == [count EXCEPT ![c] = @ - 1]

\* A place for each item that any controller may have.
PlacesFor(owners, sizes) == UNION {{c} \X (1 .. sizes[c]) : c \in owners}

\* The items belong to controllers, finitely many, and each has a queue size.
Owned(Items, owners, sizes) ==
    /\ IsFiniteSet(owners)
    /\ sizes \in [owners -> Nat]
    /\ \A x \in Items : x.controller \in owners

\* The ring is a queue of items, of which each controller has as many as its
\* count says and no more than it may have.  A slot that was never used holds
\* something else.
Charged(ring, count, Items, nothing, owners, sizes) ==
    /\ ring \in Rings(Cardinality(PlacesFor(owners, sizes)), Items \cup {nothing})
    /\ WellFormed(ring)
    /\ Contents(ring) \in Seq(Items)
    /\ count \in [owners -> Nat]
    /\ \A c \in owners : /\ count[c] = Cardinality(Of(Contents(ring), c))
                         /\ count[c] <= sizes[c]

\* The controller of an item may have another one in the ring.
Accepts(ring, count, x, Items, nothing, owners, sizes) ==
    /\ Owned(Items, owners, sizes)
    /\ Charged(ring, count, Items, nothing, owners, sizes)
    /\ x \in Items /\ count[x.controller] # sizes[x.controller]

\* The combined capacity is a number.
LEMMA PlacesFinite ==
    ASSUME NEW owners, NEW sizes \in [owners -> Nat], IsFiniteSet(owners)
    PROVE  /\ IsFiniteSet(PlacesFor(owners, sizes))
           /\ Cardinality(PlacesFor(owners, sizes)) \in Nat
<1>. DEFINE PlacesOf(c) == {c} \X (1 .. sizes[c])
            Rows == {PlacesOf(c) : c \in owners}
            f == [c \in owners |-> PlacesOf(c)]
<1>1. f \in Surjection(owners, Rows)
  BY DEF Surjection
<1>2. IsFiniteSet(Rows)
  BY <1>1, FS_Surjection
<1>3. ASSUME NEW c \in owners
      PROVE  IsFiniteSet(PlacesOf(c))
  <2>1. sizes[c] \in Int /\ 1 \in Int
    OBVIOUS
  <2>2. IsFiniteSet(1 .. sizes[c]) /\ IsFiniteSet({c})
    BY <2>1, FS_Interval, FS_Singleton
  <2>. QED
    BY <2>2, FS_Product
<1>4. IsFiniteSet(PlacesFor(owners, sizes))
  <2>1. \A row \in Rows : IsFiniteSet(row)
    BY <1>3
  <2>2. IsFiniteSet(UNION Rows)
    BY <1>2, <2>1, FS_UNION
  <2>. QED
    BY <2>2 DEF PlacesFor
<1>. QED
  BY <1>4, FS_CardinalityType

\* The indices of the items of a controller are finitely many.
LEMMA OfFinite ==
    ASSUME NEW Items, NEW queue \in Seq(Items), NEW c
    PROVE  IsFiniteSet(Of(queue, c)) /\ Cardinality(Of(queue, c)) \in Nat
<1>1. DOMAIN queue = 1 .. Len(queue) /\ Len(queue) \in Nat
  OBVIOUS
<1>2. IsFiniteSet(1 .. Len(queue))
  BY <1>1, FS_Interval
<1>3. Of(queue, c) \in SUBSET (1 .. Len(queue))
  BY <1>1 DEF Of
<1>. QED
  BY <1>2, <1>3, FS_Subset, FS_CardinalityType

\* While one controller may queue an item the ring has room for it: the items
\* in the ring take different places, and none takes the last one of the
\* controller.
LEMMA RoomForOwner ==
    ASSUME NEW Items, NEW nothing, NEW owners, NEW sizes, Owned(Items, owners, sizes),
           NEW ring, NEW count, Charged(ring, count, Items, nothing, owners, sizes),
           NEW c \in owners, count[c] # sizes[c]
    PROVE  ~IsFull(ring)
<1>. DEFINE q == Contents(ring)
            n == ring.size
            Room == PlacesFor(owners, sizes)
            f == [i \in 1 .. n |-> <<q[i].controller, Cardinality(Upto(q, i))>>]
<1>1. /\ ring \in Rings(Cardinality(Room), Items \cup {nothing})
      /\ q \in Seq(Items) /\ WellFormed(ring) /\ sizes \in [owners -> Nat]
      /\ IsFiniteSet(Room) /\ Cardinality(Room) \in Nat
  BY PlacesFinite DEF Charged, Owned
<1>. HIDE DEF Room
<1>2. n \in Nat /\ Len(q) = n /\ DOMAIN q = 1 .. n /\ ring.capacity = Cardinality(Room)
  <2>1. Len(q) = n
    BY <1>1, ContentsType
  <2>2. n \in 0 .. Cardinality(Room) /\ ring.capacity = Cardinality(Room)
    BY <1>1 DEF Rings
  <2>. HIDE DEF q, n
  <2>. QED
    BY <1>1, <2>1, <2>2
<1>. HIDE DEF q, n
<1>3. ASSUME NEW i \in 1 .. n
      PROVE  /\ q[i].controller \in owners
             /\ IsFiniteSet(Upto(q, i))
             /\ Cardinality(Upto(q, i)) \in 1 .. sizes[q[i].controller]
             /\ Cardinality(Upto(q, i)) <= count[q[i].controller]
  <2>1. q[i] \in Items
    BY <1>1, <1>2
  <2>2. q[i].controller \in owners
    BY <2>1 DEF Owned
  <2>3. Upto(q, i) \in SUBSET Of(q, q[i].controller)
    BY <1>2 DEF Of, Upto
  <2>4. IsFiniteSet(Upto(q, i)) /\ Cardinality(Upto(q, i)) <= Cardinality(Of(q, q[i].controller))
    BY <1>1, <2>3, OfFinite, FS_Subset
  <2>5. Cardinality(Upto(q, i)) \in Nat /\ Cardinality(Upto(q, i)) # 0
    <3>1. i \in Upto(q, i)
      BY <1>2 DEF Upto
    <3>. QED
      BY <2>4, <3>1, FS_EmptySet, FS_CardinalityType
  <2>6. /\ Cardinality(Of(q, q[i].controller)) = count[q[i].controller]
        /\ count[q[i].controller] <= sizes[q[i].controller]
    BY <2>2 DEF Charged, q
  <2>7. sizes[q[i].controller] \in Nat /\ Cardinality(Of(q, q[i].controller)) \in Nat
    BY <1>1, <2>2, OfFinite
  <2>. QED
    BY <2>2, <2>4, <2>5, <2>6, <2>7
<1>4. ASSUME NEW i \in 1 .. n, NEW j \in 1 .. n, i < j, q[i].controller = q[j].controller
      PROVE  Cardinality(Upto(q, i)) # Cardinality(Upto(q, j))
  <2>1. Upto(q, i) \in SUBSET Upto(q, j) /\ j \in Upto(q, j) /\ j \notin Upto(q, i)
    BY <1>2, <1>4 DEF Upto
  <2>. QED
    BY <1>3, <2>1, FS_Subset
<1>5. f \in Injection(1 .. n, Room)
  <2>1. f \in [1 .. n -> Room]
    BY <1>3 DEF PlacesFor, Room
  <2>2. ASSUME NEW i \in 1 .. n, NEW j \in 1 .. n, f[i] = f[j]
        PROVE  i = j
    <3>1. q[i].controller = q[j].controller /\ Cardinality(Upto(q, i)) = Cardinality(Upto(q, j))
      BY <2>2
    <3>. QED
      BY <1>2, <1>4, <3>1
  <2>. QED
    BY <2>1, <2>2 DEF Injection, IsInjective
<1>6. count[c] \in Nat /\ count[c] <= sizes[c] /\ count[c] # sizes[c]
  BY DEF Charged
<1>7. <<c, sizes[c]>> \in Room
  <2>1. sizes[c] \in 1 .. sizes[c]
    BY <1>1, <1>6
  <2>. QED
    BY <2>1 DEF PlacesFor, Room
<1>8. \A i \in 1 .. n : f[i] # <<c, sizes[c]>>
  <2>. SUFFICES ASSUME NEW i \in 1 .. n, f[i] = <<c, sizes[c]>>
                PROVE  FALSE
    OBVIOUS
  <2>1. q[i].controller = c /\ Cardinality(Upto(q, i)) = sizes[c]
    OBVIOUS
  <2>2. sizes[c] <= count[c] /\ sizes[c] \in Nat
    BY <1>1, <1>3, <2>1
  <2>. QED
    BY <1>6, <2>2
<1>9. f \notin Surjection(1 .. n, Room)
  BY <1>7, <1>8 DEF Surjection
<1>10. Cardinality(1 .. n) = n
  BY <1>2, FS_Interval
<1>. HIDE DEF f
<1>11. Cardinality(1 .. n) # Cardinality(Room)
  BY <1>1, <1>5, <1>9, FS_Injection
<1>. QED
  BY <1>2, <1>10, <1>11 DEF IsFull, n

\* An empty ring, with nothing counted.
LEMMA ChargedNothing ==
    ASSUME NEW Items, NEW nothing, NEW owners, NEW sizes, Owned(Items, owners, sizes),
           NEW ring \in Rings(Cardinality(PlacesFor(owners, sizes)), Items \cup {nothing}),
           WellFormed(ring), Contents(ring) = <<>>
    PROVE  Charged(ring, [c \in owners |-> 0], Items, nothing, owners, sizes)
<1>. DEFINE count == [c \in owners |-> 0]
<1>1. ASSUME NEW c \in owners
      PROVE  count[c] = Cardinality(Of(Contents(ring), c)) /\ count[c] <= sizes[c]
  <2>1. Of(Contents(ring), c) = {}
    BY DEF Of
  <2>2. Cardinality(Of(Contents(ring), c)) = 0
    BY <2>1, FS_EmptySet
  <2>3. count[c] = 0 /\ sizes[c] \in Nat
    BY DEF Owned
  <2>. QED
    BY <2>2, <2>3
<1>2. count \in [owners -> Nat] /\ Contents(ring) \in Seq(Items)
  OBVIOUS
<1>. HIDE DEF count
<1>3. Charged(ring, count, Items, nothing, owners, sizes)
  BY <1>1, <1>2 DEF Charged
<1>. QED
  BY <1>3 DEF count

\* Queueing an item of a controller that may have another one.
LEMMA ChargedAppends ==
    ASSUME NEW Items, NEW nothing, NEW owners, NEW sizes, NEW ring, NEW count, NEW x,
           Accepts(ring, count, x, Items, nothing, owners, sizes)
    PROVE  /\ Charged(PushBack(ring, x), OneMore(count, x.controller),
                      Items, nothing, owners, sizes)
           /\ Contents(PushBack(ring, x)) = Append(Contents(ring), x)
<1>. DEFINE d == x.controller
            next == PushBack(ring, x)
            more == OneMore(count, d)
            q == Contents(ring)
            r == Contents(next)
<1>0. /\ Owned(Items, owners, sizes) /\ Charged(ring, count, Items, nothing, owners, sizes)
      /\ x \in Items /\ count[d] # sizes[d]
  BY DEF Accepts
<1>1. d \in owners /\ sizes \in [owners -> Nat] /\ IsFiniteSet(owners)
  BY <1>0 DEF Owned
<1>2. ~IsFull(ring)
  BY <1>0, <1>1, RoomForOwner
<1>3. /\ ring \in Rings(Cardinality(PlacesFor(owners, sizes)), Items \cup {nothing})
      /\ count \in [owners -> Nat] /\ q \in Seq(Items) /\ WellFormed(ring)
  BY <1>0 DEF Charged
<1>4. /\ next \in Rings(Cardinality(PlacesFor(owners, sizes)), Items \cup {nothing})
      /\ WellFormed(next) /\ r = Append(q, x)
  BY <1>0, <1>1, <1>2, <1>3, PlacesFinite, PushBackAppends
<1>5. /\ more \in [owners -> Nat] /\ more[d] = count[d] + 1
      /\ \A c \in owners : c # d => more[c] = count[c]
  BY <1>1, <1>3 DEF OneMore
<1>. HIDE DEF next, q, r, more
<1>6. r \in Seq(Items)
  BY <1>0, <1>3, <1>4
<1>7. ASSUME NEW c \in owners
      PROVE  more[c] = Cardinality(Of(r, c)) /\ more[c] <= sizes[c]
  <2>1. /\ count[c] = Cardinality(Of(q, c)) /\ count[c] <= sizes[c]
        /\ count[c] \in Nat /\ sizes[c] \in Nat
    BY <1>0, <1>1, <1>3 DEF Charged, q
  <2>2. IsFiniteSet(Of(q, c)) /\ Len(q) \in Nat /\ Len(q) + 1 \notin Of(q, c)
    <3>1. DOMAIN q = 1 .. Len(q) /\ Len(q) \in Nat
      BY <1>3
    <3>2. Len(q) + 1 \notin DOMAIN q
      BY <3>1
    <3>. QED
      BY <1>3, <3>1, <3>2, OfFinite DEF Of
  <2>3. CASE c = d
    <3>1. Of(r, c) = Of(q, c) \cup {Len(q) + 1}
      BY <1>0, <1>3, <1>4, <2>3 DEF Of
    <3>2. Cardinality(Of(r, c)) = Cardinality(Of(q, c)) + 1
      BY <2>2, <3>1, FS_AddElement
    <3>. QED
      BY <1>0, <1>5, <2>1, <2>3, <3>2
  <2>4. CASE c # d
    <3>1. Of(r, c) = Of(q, c)
      BY <1>0, <1>3, <1>4, <2>4 DEF Of
    <3>. QED
      BY <1>5, <2>1, <2>4, <3>1
  <2>. QED
    BY <2>3, <2>4
<1>. QED
  BY <1>4, <1>5, <1>6, <1>7 DEF Charged, next, q, r, more

\* Taking the front of a ring that is not empty.
LEMMA ChargedTakesHead ==
    ASSUME NEW Items, NEW nothing, NEW owners, NEW sizes, Owned(Items, owners, sizes),
           NEW ring, NEW count, Charged(ring, count, Items, nothing, owners, sizes),
           ~IsEmpty(ring)
    PROVE  /\ Front(ring) \in Items
           /\ count[Front(ring).controller] > 0
           /\ Charged(RemoveFront(ring), OneFewer(count, Front(ring).controller),
                      Items, nothing, owners, sizes)
           /\ Contents(ring) # <<>>
           /\ Front(ring) = Head(Contents(ring))
           /\ Contents(RemoveFront(ring)) = Tail(Contents(ring))
<1>. DEFINE d == Front(ring).controller
            next == RemoveFront(ring)
            fewer == OneFewer(count, d)
            q == Contents(ring)
            r == Contents(next)
<1>1. sizes \in [owners -> Nat] /\ IsFiniteSet(owners)
  BY DEF Owned
<1>2. /\ ring \in Rings(Cardinality(PlacesFor(owners, sizes)), Items \cup {nothing})
      /\ count \in [owners -> Nat] /\ q \in Seq(Items) /\ WellFormed(ring)
  BY DEF Charged
<1>3. Cardinality(PlacesFor(owners, sizes)) \in Nat
  BY <1>1, PlacesFinite
<1>4. /\ next \in Rings(Cardinality(PlacesFor(owners, sizes)), Items \cup {nothing})
      /\ WellFormed(next) /\ Front(ring) = Head(q) /\ r = Tail(q)
  BY <1>2, <1>3, RemoveFrontTakesHead
<1>5. q # <<>>
  <2>1. Len(q) = ring.size
    BY <1>2, <1>3, ContentsType
  <2>. QED
    BY <2>1 DEF IsEmpty
<1>. HIDE DEF next, q, r
<1>6. /\ Len(q) \in Nat \ {0} /\ Head(q) \in Items /\ Head(q) = q[1]
      /\ r \in Seq(Items) /\ Len(r) = Len(q) - 1
      /\ \A i \in 1 .. Len(r) : r[i] = q[i + 1]
      /\ DOMAIN q = 1 .. Len(q) /\ DOMAIN r = 1 .. Len(r)
  BY <1>2, <1>4, <1>5
<1>7. d \in owners /\ d = q[1].controller
  BY <1>4, <1>6 DEF Owned
<1>. HIDE DEF d
<1>8. /\ DOMAIN fewer = owners /\ fewer = [c \in owners |-> fewer[c]]
      /\ fewer[d] = count[d] - 1 /\ \A c \in owners : c # d => fewer[c] = count[c]
  BY <1>2, <1>7 DEF OneFewer
<1>. HIDE DEF fewer
<1>9. \A c \in owners : IsFiniteSet(Of(q, c)) /\ IsFiniteSet(Of(r, c))
                        /\ Cardinality(Of(r, c)) \in Nat /\ Cardinality(Of(q, c)) \in Nat
  BY <1>2, <1>6, OfFinite
<1>10. ASSUME NEW c \in owners
       PROVE  Cardinality(Of(r, c)) = Cardinality(Of(q, c) \ {1})
  <2>. DEFINE shift == [i \in Of(r, c) |-> i + 1]
  <2>1. \A i \in Of(r, c) : i \in 1 .. Len(q) - 1 /\ r[i].controller = c /\ r[i] = q[i + 1]
    BY <1>6 DEF Of
  <2>2. \A i \in Of(r, c) : i \in Nat /\ shift[i] = i + 1 /\ i + 1 \in Of(q, c) \ {1}
    BY <1>6, <2>1 DEF Of
  <2>3. ASSUME NEW j \in Of(q, c) \ {1}
        PROVE  j - 1 \in Of(r, c) /\ (j - 1) + 1 = j
    <3>1. j \in 2 .. Len(q) /\ q[j].controller = c
      BY <1>6 DEF Of
    <3>2. j - 1 \in 1 .. Len(r) /\ r[j - 1] = q[j] /\ (j - 1) + 1 = j
      BY <1>6, <3>1
    <3>. QED
      BY <1>6, <3>1, <3>2 DEF Of
  <2>4. shift \in Bijection(Of(r, c), Of(q, c) \ {1})
    <3>1. shift \in [Of(r, c) -> Of(q, c) \ {1}]
      BY <2>2
    <3>2. \A i, j \in Of(r, c) : shift[i] = shift[j] => i = j
      BY <2>2
    <3>3. \A j \in Of(q, c) \ {1} : \E i \in Of(r, c) : shift[i] = j
      BY <2>3
    <3>. QED
      BY <3>1, <3>2, <3>3 DEF Bijection, Injection, Surjection, IsInjective
  <2>5. ExistsBijection(Of(r, c), Of(q, c) \ {1})
    BY <2>4 DEF ExistsBijection
  <2>. QED
    BY <1>9, <2>5, FS_Bijection
<1>11. 1 \in Of(q, d) /\ \A c \in owners : c # d => 1 \notin Of(q, c)
  BY <1>6, <1>7 DEF Of
<1>12. ASSUME NEW c \in owners
       PROVE  /\ fewer[c] = Cardinality(Of(r, c)) /\ fewer[c] <= sizes[c] /\ fewer[c] \in Nat
              /\ c = d => count[c] > 0
  <2>1. /\ count[c] = Cardinality(Of(q, c)) /\ count[c] <= sizes[c]
        /\ count[c] \in Nat /\ sizes[c] \in Nat
    BY <1>1, <1>2 DEF Charged, q
  <2>2. CASE c = d
    <3>1. Cardinality(Of(r, c)) = Cardinality(Of(q, c)) - 1
      BY <1>9, <1>10, <1>11, <2>2, FS_RemoveElement
    <3>. QED
      BY <1>8, <1>9, <2>1, <2>2, <3>1
  <2>3. CASE c # d
    <3>1. Cardinality(Of(r, c)) = Cardinality(Of(q, c))
      BY <1>9, <1>10, <1>11, <2>3, FS_RemoveElement
    <3>. QED
      BY <1>8, <2>1, <2>3, <3>1
  <2>. QED
    BY <2>2, <2>3
<1>13. fewer \in [owners -> Nat]
  BY <1>8, <1>12
<1>14. Charged(next, fewer, Items, nothing, owners, sizes)
  BY <1>4, <1>6, <1>12, <1>13 DEF Charged, next, r
<1>. QED
  BY <1>4, <1>5, <1>6, <1>7, <1>12, <1>14 DEF next, fewer, d, q, r
=============================================================================
