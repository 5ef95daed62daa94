---------------------------- MODULE ShmPipeProofs ---------------------------
(***************************************************************************)
(* Proofs about ShmPipe, for every size of the ring, every limit of the    *)
(* indices that is a multiple of it, and all sizes of the calls: although  *)
(* neither end takes a lock, ends come, leave and die between any two of   *)
(* their steps, and the indices go round, each byte that is taken out is   *)
(* the next one that was put in; and a call fails only for a cause.        *)
(***************************************************************************)
EXTENDS ShmPipe, Integers, TLAPS

-----------------------------------------------------------------------------
(* Arithmetic of indices that go round.                                    *)

\* How far one index is in front of another.
Distance(from, to) == (to + IndexLimit - from) % IndexLimit

\* A number below the modulus, and one that exceeds it once.
LEMMA ModOnce ==
    ASSUME NEW n \in Nat, NEW x \in 0 .. n - 1
    PROVE  x % n = x /\ (x + n) % n = x
  OBVIOUS

\* Whole rounds do not matter.
LEMMA ModRounds ==
    ASSUME NEW n \in Nat \ {0}, NEW q \in Nat, NEW x \in Nat
    PROVE  (q * n + x) % n = x % n
<1>. DEFINE r == x % n
            d == x \div n
<1>1. r \in 0 .. n - 1 /\ d \in Nat /\ x = n * d + r
  OBVIOUS
<1>. HIDE DEF r, d
<1>2. q * n + x = (q + d) * n + r /\ q + d \in Nat
  BY <1>1
<1>3. ASSUME NEW k \in Nat PROVE (k * n + r) % n = r
  BY <1>1
<1>4. (q * n + x) % n = r
  BY <1>2, <1>3
<1>. QED
  BY <1>4 DEF r

LEMMA Sizes ==
    ASSUME PipeAssumption
    PROVE  /\ PipeBufferSize \in Nat \ {0} /\ IndexLimit \in Nat /\ PipeBufferSize < IndexLimit
           /\ \E q \in Nat : IndexLimit = q * PipeBufferSize
<1>1. PipeBufferSize \in Nat \ {0} /\ IndexLimit \in Nat /\ PipeBufferSize < IndexLimit
      /\ IndexLimit % PipeBufferSize = 0
  BY DEF PipeAssumption
<1>2. /\ IndexLimit \div PipeBufferSize \in Nat
      /\ IndexLimit = (IndexLimit \div PipeBufferSize) * PipeBufferSize
  BY <1>1
<1>. QED
  BY <1>1, <1>2

LEMMA AdvanceIs ==
    ASSUME PipeAssumption, NEW x \in Indices, NEW k \in 0 .. IndexLimit - 1
    PROVE  /\ Advance(x, k) \in Indices
           /\ Advance(x, k) = IF x + k < IndexLimit THEN x + k ELSE x + k - IndexLimit
<1>1. IndexLimit \in Nat
  BY Sizes
<1>2. CASE x + k < IndexLimit
  <2>1. x + k \in 0 .. IndexLimit - 1
    BY <1>1, <1>2 DEF Indices
  <2>. QED
    BY <1>1, <1>2, <2>1, ModOnce DEF Advance, Indices
<1>3. CASE x + k >= IndexLimit
  <2>. DEFINE y == x + k - IndexLimit
  <2>1. y \in 0 .. IndexLimit - 1 /\ x + k = y + IndexLimit
    BY <1>1, <1>3 DEF Indices
  <2>. HIDE DEF y
  <2>2. (y + IndexLimit) % IndexLimit = y
    BY <1>1, <2>1, ModOnce
  <2>3. Advance(x, k) = y /\ ~(x + k < IndexLimit)
    BY <1>1, <1>3, <2>1, <2>2 DEF Advance, Indices
  <2>. QED
    BY <2>1, <2>3 DEF y, Indices
<1>. QED
  BY <1>1, <1>2, <1>3 DEF Indices

LEMMA DistanceIs ==
    ASSUME PipeAssumption, NEW x \in Indices, NEW y \in Indices
    PROVE  /\ Distance(x, y) \in Indices
           /\ Distance(x, y) = IF y >= x THEN y - x ELSE y + IndexLimit - x
<1>1. IndexLimit \in Nat
  BY Sizes
<1>2. CASE y >= x
  <2>. DEFINE z == y - x
  <2>1. z \in 0 .. IndexLimit - 1 /\ y + IndexLimit - x = z + IndexLimit
    BY <1>1, <1>2 DEF Indices
  <2>. HIDE DEF z
  <2>2. (z + IndexLimit) % IndexLimit = z
    BY <1>1, <2>1, ModOnce
  <2>. QED
    BY <1>2, <2>1, <2>2 DEF Distance, z, Indices
<1>3. CASE y < x
  <2>1. y + IndexLimit - x \in 0 .. IndexLimit - 1 /\ ~(y >= x)
    BY <1>1, <1>3 DEF Indices
  <2>. QED
    BY <1>1, <2>1, ModOnce DEF Distance, Indices
<1>. QED
  BY <1>2, <1>3 DEF Indices

\* Advancing and measuring undo each other.
LEMMA AdvancedDistance ==
    ASSUME PipeAssumption, NEW x \in Indices
    PROVE  /\ \A y \in Indices : Advance(x, Distance(x, y)) = y
           /\ \A k \in 0 .. IndexLimit - 1 : Distance(x, Advance(x, k)) = k
           /\ Distance(x, x) = 0 /\ Advance(x, 0) = x
           /\ \A j, k \in 0 .. IndexLimit - 1 : j + k < IndexLimit =>
                 Advance(Advance(x, j), k) = Advance(x, j + k)
           /\ \A y \in Indices : \A k \in 0 .. Distance(x, y) :
                 Distance(Advance(x, k), y) = Distance(x, y) - k
<1>1. IndexLimit \in Nat /\ 0 \in 0 .. IndexLimit - 1
  BY Sizes DEF Indices
<1>2. ASSUME NEW y \in Indices PROVE Advance(x, Distance(x, y)) = y
  <2>1. PICK z \in 0 .. IndexLimit - 1 : /\ z = Distance(x, y)
                                         /\ z = IF y >= x THEN y - x ELSE y + IndexLimit - x
    BY DistanceIs DEF Indices
  <2>2. Advance(x, z) = IF x + z < IndexLimit THEN x + z ELSE x + z - IndexLimit
    BY AdvanceIs
  <2>. QED
    BY <1>1, <2>1, <2>2 DEF Indices
<1>3. ASSUME NEW k \in 0 .. IndexLimit - 1 PROVE Distance(x, Advance(x, k)) = k
  <2>1. PICK y \in Indices : /\ y = Advance(x, k)
                             /\ y = IF x + k < IndexLimit THEN x + k ELSE x + k - IndexLimit
    BY AdvanceIs
  <2>2. Distance(x, y) = IF y >= x THEN y - x ELSE y + IndexLimit - x
    BY DistanceIs
  <2>. QED
    BY <1>1, <2>1, <2>2 DEF Indices
<1>4. Distance(x, x) = 0 /\ Advance(x, 0) = x
  <2>1. Advance(x, 0) = IF x + 0 < IndexLimit THEN x + 0 ELSE x + 0 - IndexLimit
    BY <1>1, AdvanceIs
  <2>2. Distance(x, x) = IF x >= x THEN x - x ELSE x + IndexLimit - x
    BY DistanceIs
  <2>. QED
    BY <1>1, <2>1, <2>2 DEF Indices
<1>5. ASSUME NEW j \in 0 .. IndexLimit - 1, NEW k \in 0 .. IndexLimit - 1, j + k < IndexLimit
      PROVE  Advance(Advance(x, j), k) = Advance(x, j + k)
  <2>1. j + k \in 0 .. IndexLimit - 1
    BY <1>1, <1>5
  <2>2. PICK y \in Indices : /\ y = Advance(x, j)
                             /\ y = IF x + j < IndexLimit THEN x + j ELSE x + j - IndexLimit
    BY AdvanceIs
  <2>3. Advance(y, k) = IF y + k < IndexLimit THEN y + k ELSE y + k - IndexLimit
    BY AdvanceIs
  <2>4. Advance(x, j + k) = IF x + (j + k) < IndexLimit THEN x + (j + k)
                            ELSE x + (j + k) - IndexLimit
    BY <2>1, AdvanceIs
  <2>. QED
    BY <1>1, <1>5, <2>2, <2>3, <2>4 DEF Indices
<1>6. ASSUME NEW y \in Indices, NEW k \in 0 .. Distance(x, y)
      PROVE  Distance(Advance(x, k), y) = Distance(x, y) - k
  <2>1. PICK z \in 0 .. IndexLimit - 1 : /\ z = Distance(x, y)
                                         /\ z = IF y >= x THEN y - x ELSE y + IndexLimit - x
    BY DistanceIs DEF Indices
  <2>2. k \in 0 .. IndexLimit - 1 /\ k <= z
    BY <1>1, <2>1
  <2>3. PICK w \in Indices : /\ w = Advance(x, k)
                             /\ w = IF x + k < IndexLimit THEN x + k ELSE x + k - IndexLimit
    BY <2>2, AdvanceIs
  <2>4. Distance(w, y) = IF y >= w THEN y - w ELSE y + IndexLimit - w
    BY DistanceIs
  <2>. QED
    BY <1>1, <2>1, <2>2, <2>3, <2>4 DEF Indices
<1>. QED
  BY <1>2, <1>3, <1>4, <1>5, <1>6

\* The place of an index in the ring.
LEMMA MaskAdvances ==
    ASSUME PipeAssumption, NEW x \in Indices, NEW k \in 0 .. IndexLimit - 1
    PROVE  MaskIndex(Advance(x, k)) = (x + k) % PipeBufferSize
<1>1. PipeBufferSize \in Nat \ {0} /\ IndexLimit \in Nat
  BY Sizes
<1>2. CASE x + k < IndexLimit
  BY <1>2, AdvanceIs DEF MaskIndex
<1>3. CASE x + k >= IndexLimit
  <2>1. PICK q \in Nat : IndexLimit = q * PipeBufferSize
    BY Sizes
  <2>2. PICK y \in Nat : y = Advance(x, k) /\ x + k = y + IndexLimit
    BY <1>1, <1>3, AdvanceIs DEF Indices
  <2>3. (q * PipeBufferSize + y) % PipeBufferSize = y % PipeBufferSize
    BY <1>1, ModRounds
  <2>4. q * PipeBufferSize + y = x + k
    BY <1>1, <2>1, <2>2 DEF Indices
  <2>. QED
    BY <2>2, <2>3, <2>4 DEF MaskIndex
<1>. QED
  BY <1>1, <1>2, <1>3 DEF Indices

\* How far the place of a byte is behind the place the writer is about to fill:
\* memcpy reaches a byte that is still to be read only if it is given more than
\* there is space.
LEMMA OffsetOfPlace ==
    ASSUME PipeAssumption, NEW x \in Indices,
           NEW a \in 0 .. PipeBufferSize, NEW k \in 0 .. PipeBufferSize - 1
    PROVE  (MaskIndex(Advance(x, k)) + PipeBufferSize - MaskIndex(Advance(x, a))) % PipeBufferSize
             = IF k >= a THEN k - a ELSE k + PipeBufferSize - a
<1>. DEFINE n == PipeBufferSize
            u == MaskIndex(Advance(x, k))
            v == MaskIndex(Advance(x, a))
<1>1. n \in Nat \ {0} /\ IndexLimit \in Nat /\ n < IndexLimit /\ x \in Nat
  BY Sizes DEF Indices
<1>2. PICK s \in 0 .. n - 1, m \in Nat : x = m * n + s
  <2>1. x % n \in 0 .. n - 1 /\ x \div n \in Nat /\ x = (x \div n) * n + (x % n)
    BY <1>1
  <2>. QED
    BY <2>1
<1>3. k \in 0 .. IndexLimit - 1 /\ a \in 0 .. IndexLimit - 1
  BY <1>1
<1>4. /\ u = (x + k) % n /\ v = (x + a) % n
      /\ a \in 0 .. n /\ k \in 0 .. n - 1
  BY <1>3, MaskAdvances
<1>. HIDE DEF n, u, v
<1>5. ASSUME NEW j \in Nat PROVE (x + j) % n = (s + j) % n
  <2>1. PICK y \in Nat : y = s + j
    BY <1>1
  <2>2. m * n \in Nat /\ m * n + y = x + j
    BY <1>1, <1>2, <2>1
  <2>3. (m * n + y) % n = y % n
    BY <1>1, ModRounds
  <2>. QED
    BY <2>1, <2>2, <2>3
<1>6. ASSUME NEW j \in 0 .. n
      PROVE  (x + j) % n = IF s + j < n THEN s + j ELSE s + j - n
  <2>1. CASE s + j < n
    <3>1. PICK y \in 0 .. n - 1 : s + j = y
      BY <1>1, <2>1
    <3>2. y % n = y
      BY <1>1, ModOnce
    <3>. QED
      BY <1>1, <1>5, <2>1, <3>1, <3>2
  <2>2. CASE s + j >= n
    <3>1. PICK y \in 0 .. n - 1 : s + j = y + n
      BY <1>1, <1>2, <2>2
    <3>2. (y + n) % n = y
      BY <1>1, ModOnce
    <3>. QED
      BY <1>1, <1>5, <2>2, <3>1, <3>2
  <2>. QED
    BY <1>1, <1>2, <2>1, <2>2
<1>7. /\ u = IF s + k < n THEN s + k ELSE s + k - n
      /\ v = IF s + a < n THEN s + a ELSE s + a - n
  <2>1. a \in 0 .. n /\ k \in 0 .. n
    BY <1>1, <1>4
  <2>2. (x + k) % n = IF s + k < n THEN s + k ELSE s + k - n
    BY <1>6, <2>1
  <2>3. (x + a) % n = IF s + a < n THEN s + a ELSE s + a - n
    BY <1>6, <2>1
  <2>. QED
    BY <1>4, <2>2, <2>3
<1>8. CASE k >= a
  <2>1. PICK d \in 0 .. n - 1 : d = k - a
    BY <1>1, <1>4, <1>8
  <2>2. d % n = d /\ (d + n) % n = d
    BY <1>1, ModOnce
  <2>3. u + n - v = d \/ u + n - v = d + n
    BY <1>1, <1>2, <1>4, <1>7, <1>8, <2>1
  <2>4. (u + n - v) % n = k - a
    BY <2>1, <2>2, <2>3
  <2>. QED
    BY <1>8, <2>4 DEF n, u, v
<1>9. CASE k < a
  <2>1. PICK d \in 0 .. n - 1 : d = k + n - a
    BY <1>1, <1>4, <1>9
  <2>2. d % n = d /\ (d + n) % n = d
    BY <1>1, ModOnce
  <2>3. u + n - v = d \/ u + n - v = d + n
    BY <1>1, <1>2, <1>4, <1>7, <1>9, <2>1
  <2>4. (u + n - v) % n = k + n - a /\ ~(k >= a)
    BY <1>4, <1>9, <2>1, <2>2, <2>3
  <2>. QED
    BY <2>4 DEF n, u, v
<1>. QED
  BY <1>4, <1>8, <1>9

-----------------------------------------------------------------------------
(* The types.                                                              *)

Stations == {"idle", "looking", "waiting", "copied", "signalling", "polling", "ready", "failed"}

LEMMA Others ==
    /\ "writer" \in Ends /\ "reader" \in Ends
    /\ Other("writer") = "reader" /\ Other("reader") = "writer"
    /\ \A end \in Ends : Other(end) \in Ends
<1>1. Other("writer") \in Ends /\ Other("writer") # "writer"
  <2>1. \E other \in Ends : other # "writer"
    BY DEF Ends
  <2>. QED
    BY <2>1 DEF Other
<1>2. Other("reader") \in Ends /\ Other("reader") # "reader"
  <2>1. \E other \in Ends : other # "reader"
    BY DEF Ends
  <2>. QED
    BY <2>1 DEF Other
<1>. QED
  BY <1>1, <1>2 DEF Ends

\* What is in the ring, and what room it has.
LEMMA SpaceIs ==
    ASSUME PipeAssumption, TypeOK
    PROVE  /\ GetAvailableData = Distance(readIndex, writeIndex) /\ GetAvailableData \in Indices
           /\ GetAvailableData \in Nat
           /\ GetAvailableSpace = PipeBufferSize - GetAvailableData /\ GetAvailableSpace \in Int
<1>1. readIndex \in Indices /\ writeIndex \in Indices
  BY DEF TypeOK
<1>2. Distance(readIndex, writeIndex) \in Indices
  BY <1>1, DistanceIs
<1>3. GetAvailableData = Distance(readIndex, writeIndex)
  BY DEF GetAvailableData, Distance
<1>4. GetAvailableData \in Nat
  BY <1>2, <1>3, Sizes DEF Indices
<1>. QED
  BY <1>2, <1>3, <1>4, Sizes DEF GetAvailableSpace

LEMMA LeastOfIs ==
    ASSUME NEW a \in Nat, NEW b \in Nat
    PROVE  LeastOf(a, b) \in Nat /\ LeastOf(a, b) <= a /\ LeastOf(a, b) <= b
  BY DEF LeastOf

\* A step of one end's call.
LEMMA GotoIs ==
    ASSUME TypeOK, NEW end \in Ends, NEW place \in Stations, Goto(end, place)
    PROVE  /\ at' \in [Ends -> Stations] /\ at'[end] = place
           /\ \A other \in Ends : other # end => at'[other] = at[other]
<1>1. at \in [Ends -> Stations] /\ at' = [at EXCEPT ![end] = place]
  BY DEF TypeOK, Goto, Stations
<1>. QED
  BY <1>1

\* What an end knows of the other one.
LEMMA KnowledgeIs ==
    ASSUME TypeOK, PipeAssumption, NEW end \in Ends
    PROVE  /\ IsConnected(end) \/ IsNotConnected(end) => handle' \in [Ends -> BOOLEAN]
           /\ IsAlive(end) \/ IsNotAlive(end) =>
                 /\ handle' \in [Ends -> BOOLEAN]
                 /\ detections' \in [Ends -> 0 .. DetectionLimit]
<1>1. /\ handle \in [Ends -> BOOLEAN] /\ detections \in [Ends -> 0 .. DetectionLimit]
      /\ DetectionLimit \in Nat
  BY DEF TypeOK, PipeAssumption
<1>2. OpensProcess(end) \/ MayNotOpen(end) \/ UNCHANGED handle => handle' \in [Ends -> BOOLEAN]
  BY <1>1 DEF OpensProcess, MayNotOpen
<1>3. IsConnected(end) \/ IsNotConnected(end) => handle' \in [Ends -> BOOLEAN]
  BY <1>2 DEF IsConnected, IsNotConnected
<1>4. ASSUME IsAlive(end) \/ IsNotAlive(end)
      PROVE  handle' \in [Ends -> BOOLEAN] /\ detections' \in [Ends -> 0 .. DetectionLimit]
  <2>1. handle' \in [Ends -> BOOLEAN]
    BY <1>2, <1>4 DEF IsAlive, IsNotAlive
  <2>2. \/ UNCHANGED detections
        \/ /\ detections[end] + 1 <= DetectionLimit
           /\ detections' = [detections EXCEPT ![end] = detections[end] + 1]
    BY <1>1, <1>4 DEF IsAlive, IsNotAlive
  <2>3. detections[end] + 1 <= DetectionLimit => detections[end] + 1 \in 0 .. DetectionLimit
    BY <1>1
  <2>. QED
    BY <1>1, <2>1, <2>2, <2>3
<1>. QED
  BY <1>3, <1>4

LEMMA TimePassesIs ==
    ASSUME TypeOK, PipeAssumption, NEW end \in Ends, TimePasses(end)
    PROVE  /\ handle' \in [Ends -> BOOLEAN]
           /\ detections' \in [Ends -> 0 .. DetectionLimit]
           /\ at' \in [Ends -> Stations]
           /\ at'[end] = at[end] \/ at'[end] = "failed"
           /\ \A other \in Ends : other # end => at'[other] = at[other]
<1>1. at \in [Ends -> Stations] /\ "failed" \in Stations
  BY DEF TypeOK, Stations
<1>2. (IsAlive(end) /\ at' = at) \/ (IsNotAlive(end) /\ Goto(end, "failed"))
  BY DEF TimePasses
<1>3. CASE IsAlive(end) /\ at' = at
  BY <1>1, <1>3, KnowledgeIs
<1>4. CASE IsNotAlive(end) /\ Goto(end, "failed")
  BY <1>1, <1>4, KnowledgeIs, GotoIs
<1>. QED
  BY <1>2, <1>3, <1>4

\* The memory, or the connection, begins anew.
LEMMA FreshTypes ==
    ASSUME PipeAssumption
    PROVE  /\ [p \in Places |-> 0] \in [Places -> Indices] /\ 0 \in Indices
           /\ [e \in Ends |-> 0] \in [Ends -> Nat]
           /\ [e \in Ends |-> 0] \in [Ends -> 0 .. DetectionLimit]
           /\ [e \in Ends |-> FALSE] \in [Ends -> BOOLEAN]
<1>1. DetectionLimit \in Nat
  BY DEF PipeAssumption
<1>. QED
  BY <1>1, Sizes DEF Indices

LEMMA TypeInit == ASSUME PipeAssumption, Init PROVE TypeOK
<1>1. /\ buffer \in [Places -> Indices] /\ ownIndex \in Indices
      /\ writeIndex \in Indices /\ readIndex \in Indices
      /\ written \in Indices /\ taken \in Indices
      /\ remaining \in [Ends -> Nat] /\ detections \in [Ends -> 0 .. DetectionLimit]
  BY FreshTypes DEF Init
<1>. QED
  BY <1>1 DEF Init, TypeOK

LEMMA TypeCreate == ASSUME PipeAssumption, TypeOK, NEW end \in Ends, Create(end) PROVE TypeOK'
<1>1. /\ part' \in [Ends -> {"absent", "open", "closed", "dead"}] /\ pid' \in [Ends -> BOOLEAN]
      /\ UNCHANGED <<handle, detections, at, ownIndex, remaining, misread>>
  BY DEF Create, TypeOK, FreshMemory, past
<1>2. /\ buffer' \in [Places -> Indices] /\ writeIndex' \in Indices /\ readIndex' \in Indices
      /\ newData' \in BOOLEAN /\ newSpace' \in BOOLEAN
      /\ written' \in Indices /\ taken' \in Indices
  BY FreshTypes DEF Create, TypeOK, FreshMemory, events, past
<1>. QED
  BY <1>1, <1>2 DEF TypeOK

LEMMA TypeLife ==
    ASSUME PipeAssumption, TypeOK, NEW end \in Ends, Disconnect(end) \/ Close(end) \/ Die(end)
    PROVE  TypeOK'
<1>1. part' \in [Ends -> {"absent", "open", "closed", "dead"}] /\ pid' \in [Ends -> BOOLEAN]
  BY DEF Disconnect, Close, Die, TypeOK, shared, local
<1>2. at' \in [Ends -> Stations]
  BY GotoIs DEF Disconnect, Close, Die, TypeOK, local, Stations
<1>3. UNCHANGED <<buffer, writeIndex, readIndex, newData, newSpace, handle, detections, ownIndex,
                  remaining, written, taken, misread>>
  BY DEF Disconnect, Close, Die, shared, events, local, past
<1>. QED
  BY <1>1, <1>2, <1>3 DEF TypeOK, Stations

LEMMA TypeForget == ASSUME PipeAssumption, TypeOK, Forget PROVE TypeOK'
<1>1. /\ buffer' \in [Places -> Indices] /\ ownIndex' \in Indices
      /\ writeIndex' \in Indices /\ readIndex' \in Indices
      /\ written' \in Indices /\ taken' \in Indices
      /\ remaining' \in [Ends -> Nat] /\ detections' \in [Ends -> 0 .. DetectionLimit]
  BY FreshTypes DEF Forget
<1>. QED
  BY <1>1 DEF Forget, TypeOK

LEMMA TypeBegins ==
    ASSUME PipeAssumption, TypeOK, Write \/ Read
    PROVE  TypeOK'
<1>1. /\ UNCHANGED <<buffer, writeIndex, readIndex, pid, newData, part, detections,
                     written, taken, misread>>
      /\ newSpace' \in BOOLEAN
  BY DEF Write, Read, BeginWrite, BeginRead, BeginPoll, TypeOK, shared, events, past
<1>2. at' \in [Ends -> Stations]
  <2>1. \E end \in Ends, place \in Stations : Goto(end, place)
    BY Others DEF Write, Read, BeginWrite, BeginRead, BeginPoll, Stations
  <2>. QED
    BY <2>1, GotoIs
<1>3. handle' \in [Ends -> BOOLEAN]
  <2>1. \/ UNCHANGED handle
        \/ \E end \in Ends : IsConnected(end) \/ IsNotConnected(end)
    BY Others DEF Write, Read, BeginWrite, BeginRead, BeginPoll
  <2>. QED
    BY <2>1, KnowledgeIs DEF TypeOK
<1>4. ownIndex' \in Indices
  BY DEF Write, Read, BeginWrite, BeginRead, BeginPoll, TypeOK
<1>5. remaining' \in [Ends -> Nat]
  <2>1. \/ UNCHANGED remaining
        \/ \E end \in Ends, size \in Nat : remaining' = [remaining EXCEPT ![end] = size]
    BY Others DEF Write, Read, BeginWrite, BeginRead, BeginPoll, PipeAssumption
  <2>. QED
    BY <2>1 DEF TypeOK
<1>. QED
  BY <1>1, <1>2, <1>3, <1>4, <1>5 DEF TypeOK, Stations

LEMMA TypeWriter == ASSUME PipeAssumption, TypeOK, WriteGoesOn PROVE TypeOK'
<1>. USE Others
<1>1. CASE LookForSpace
  <2>1. at' \in [Ends -> Stations]
    BY <1>1, GotoIs DEF LookForSpace, Stations
  <2>. QED
    BY <1>1, <2>1 DEF LookForSpace, TypeOK, Stations, shared, past
<1>2. CASE CopyIn
  <2>1. at' \in [Ends -> Stations]
    BY <1>2, GotoIs DEF CopyIn, Stations
  <2>2. PICK size \in Nat :
            /\ size <= remaining["writer"]
            /\ buffer' = [p \in Places |->
                  LET offset == (p + PipeBufferSize - MaskIndex(ownIndex)) % PipeBufferSize IN
                  IF offset < size THEN Advance(written, offset) ELSE buffer[p]]
            /\ ownIndex' = Advance(ownIndex, size)
            /\ remaining' = [remaining EXCEPT !["writer"] = @ - size]
            /\ written' = Advance(written, size)
    <3>1. remaining["writer"] \in Nat /\ GetAvailableSpace \in Nat
      BY <1>2, SpaceIs DEF TypeOK, CopyIn
    <3>. QED
      BY <1>2, <3>1, LeastOfIs DEF CopyIn
  <2>3. \A x, k \in Nat : Advance(x, k) \in Indices
    BY Sizes DEF Advance, Indices
  <2>4. ownIndex' \in Indices /\ written' \in Indices
    BY <2>2, <2>3, Sizes DEF TypeOK, Indices
  <2>5. buffer' \in [Places -> Indices]
    <3>1. ASSUME NEW p \in Places
          PROVE  (p + PipeBufferSize - MaskIndex(ownIndex)) % PipeBufferSize \in Nat
      <4>1. ownIndex \in Nat /\ PipeBufferSize \in Nat \ {0} /\ p \in Nat
        BY Sizes DEF TypeOK, Indices, Places
      <4>2. MaskIndex(ownIndex) \in 0 .. PipeBufferSize - 1
        BY <4>1 DEF MaskIndex
      <4>. QED
        BY <4>1, <4>2
    <3>2. written \in Nat /\ buffer \in [Places -> Indices]
      BY Sizes DEF TypeOK, Indices
    <3>. QED
      BY <2>2, <2>3, <3>1, <3>2
  <2>6. remaining' \in [Ends -> Nat]
    <3>1. remaining \in [Ends -> Nat]
      BY DEF TypeOK
    <3>2. remaining["writer"] - size \in Nat
      BY <2>2, <3>1
    <3>. QED
      BY <2>2, <3>1, <3>2
  <2>. QED
    BY <1>2, <2>1, <2>4, <2>5, <2>6 DEF CopyIn, TypeOK, Stations, events
<1>3. CASE PublishWritten
  <2>1. at' \in [Ends -> Stations]
    BY <1>3, GotoIs DEF PublishWritten, Stations
  <2>. QED
    BY <1>3, <2>1 DEF PublishWritten, TypeOK, Stations, events, past
<1>4. CASE SignalData
  <2>1. at' \in [Ends -> Stations]
    BY <1>4, GotoIs DEF SignalData, Stations
  <2>. QED
    BY <1>4, <2>1 DEF SignalData, TypeOK, Stations, shared, past
<1>5. CASE WaitForSpace
  <2>1. at' \in [Ends -> Stations]
    BY <1>5, GotoIs, TimePassesIs DEF WaitForSpace, Stations, TypeOK
  <2>2. /\ handle' \in [Ends -> BOOLEAN] /\ detections' \in [Ends -> 0 .. DetectionLimit]
        /\ newSpace' \in BOOLEAN
    BY <1>5, TimePassesIs DEF WaitForSpace, TypeOK
  <2>. QED
    BY <1>5, <2>1, <2>2 DEF WaitForSpace, TypeOK, Stations, shared, past
<1>. QED
  BY <1>1, <1>2, <1>3, <1>4, <1>5 DEF WriteGoesOn

LEMMA TypeReader == ASSUME PipeAssumption, TypeOK, ReadGoesOn PROVE TypeOK'
<1>. USE Others
<1>1. CASE LookForData
  <2>1. at' \in [Ends -> Stations]
    BY <1>1, GotoIs DEF LookForData, Stations
  <2>. QED
    BY <1>1, <2>1 DEF LookForData, TypeOK, Stations, shared, past
<1>2. CASE CopyOut
  <2>1. at' \in [Ends -> Stations]
    BY <1>2, GotoIs DEF CopyOut, Stations
  <2>2. LeastOf(remaining["reader"], GetAvailableData) \in Nat
    BY SpaceIs, LeastOfIs DEF TypeOK
  <2>3. remaining' \in [Ends -> Nat]
    BY <1>2, <2>2 DEF CopyOut, TypeOK
  <2>4. taken' \in Indices
    BY <1>2, <2>2, Sizes DEF CopyOut, TypeOK, Advance, Indices
  <2>5. misread' \in BOOLEAN
    BY <1>2 DEF CopyOut
  <2>. QED
    BY <1>2, <2>1, <2>3, <2>4, <2>5 DEF CopyOut, TypeOK, Stations, shared, events
<1>3. CASE PublishRead
  <2>1. at' \in [Ends -> Stations]
    BY <1>3, GotoIs DEF PublishRead, Stations
  <2>2. readIndex' \in Indices /\ remaining' \in [Ends -> Nat]
    BY <1>3, Sizes DEF PublishRead, TypeOK, Advance, Indices
  <2>. QED
    BY <1>3, <2>1, <2>2 DEF PublishRead, TypeOK, Stations, events, past
<1>4. CASE SignalSpace
  <2>1. at' \in [Ends -> Stations]
    BY <1>4, GotoIs DEF SignalSpace, Stations
  <2>. QED
    BY <1>4, <2>1 DEF SignalSpace, TypeOK, Stations, shared, past
<1>5. CASE WaitForData \/ Poll
  <2>1. at' \in [Ends -> Stations]
    BY <1>5, GotoIs, TimePassesIs DEF WaitForData, Poll, LookAgain, Stations, TypeOK
  <2>2. /\ handle' \in [Ends -> BOOLEAN] /\ detections' \in [Ends -> 0 .. DetectionLimit]
        /\ newData' \in BOOLEAN
    BY <1>5, TimePassesIs DEF WaitForData, Poll, LookAgain, TypeOK
  <2>. QED
    BY <1>5, <2>1, <2>2 DEF WaitForData, Poll, TypeOK, Stations, shared, past
<1>. QED
  BY <1>1, <1>2, <1>3, <1>4, <1>5 DEF ReadGoesOn

LEMMA TypeStutters == ASSUME TypeOK, UNCHANGED vars PROVE TypeOK'
  BY DEF TypeOK, vars, shared, events, local, past

\* The types hold.
THEOREM PipeTypes == ASSUME PipeAssumption PROVE Spec => []TypeOK
<1>1. Init => TypeOK
  BY TypeInit
<1>2. TypeOK /\ [Next]_vars => TypeOK'
  BY TypeCreate, TypeLife, TypeForget, TypeBegins, TypeWriter, TypeReader, TypeStutters DEF Next
<1>. QED
  BY <1>1, <1>2, PTL DEF Spec

-----------------------------------------------------------------------------
(* Why a call fails.                                                       *)

\* A call of an end has a cause to fail.
Cause(end) ==
    \/ ~pid[end]
    \/ part[Other(end)] \in {"closed", "dead"}
    \/ ~pid[Other(end)] /\ (handle[end] \/ detections'[end] = DetectionLimit)

LEMMA NotConnectedHasCause ==
    ASSUME NEW end \in Ends, IsNotConnected(end) PROVE Cause(end)
  BY DEF IsNotConnected, MayNotOpen, Cause

LEMMA NotAliveHasCause ==
    ASSUME TypeOK, NEW end \in Ends, IsNotAlive(end) PROVE Cause(end)
<1>1. detections \in [Ends -> 0 .. DetectionLimit]
  BY DEF TypeOK
<1>. QED
  BY <1>1 DEF IsNotAlive, Cause

\* Only a step of its own call makes an end fail, and it has a cause.
LEMMA OnlyForCause ==
    ASSUME PipeAssumption, TypeOK, [Next]_vars, NEW end \in Ends,
           at[end] # "failed", at'[end] = "failed"
    PROVE  Cause(end)
<1>. DEFINE Moves(e, place) == Goto(e, place) /\ place # "failed"
<1>1. at \in [Ends -> Stations]
  BY DEF TypeOK, Stations
<1>2. ASSUME NEW e \in Ends, NEW place \in Stations, Goto(e, place)
      PROVE  e = end /\ place = "failed"
  BY <1>2, GotoIs
<1>3. ASSUME NEW e \in Ends, TimePasses(e)
      PROVE  Cause(end)
  BY <1>2, <1>3, NotAliveHasCause DEF TimePasses, Stations
<1>4. at' # at
  OBVIOUS
<1>. USE Others
<1>5. CASE Write
  BY <1>2, <1>5, NotConnectedHasCause DEF Write, BeginWrite, Stations
<1>6. CASE WriteGoesOn
  <2>1. CASE WaitForSpace
    BY <1>2, <1>3, <1>4, <2>1 DEF WaitForSpace, Stations
  <2>. QED
    BY <1>2, <1>6, <2>1 DEF WriteGoesOn, LookForSpace, CopyIn, PublishWritten, SignalData, Stations
<1>7. CASE Read
  BY <1>2, <1>7, NotConnectedHasCause DEF Read, BeginRead, BeginPoll, Stations
<1>8. CASE ReadGoesOn
  <2>1. CASE WaitForData \/ Poll
    BY <1>2, <1>3, <1>4, <2>1 DEF WaitForData, Poll, LookAgain, Stations
  <2>. QED
    BY <1>2, <1>8, <2>1 DEF ReadGoesOn, LookForData, CopyOut, PublishRead, SignalSpace, Stations
<1>9. CASE \E e \in Ends : Create(e) \/ Disconnect(e) \/ Close(e) \/ Die(e)
  BY <1>2, <1>4, <1>9 DEF Create, Disconnect, Close, Die, Stations, local
<1>10. CASE Forget
  BY <1>10 DEF Forget
<1>11. CASE UNCHANGED vars
  BY <1>4, <1>11 DEF vars, local
<1>. QED
  BY <1>5, <1>6, <1>7, <1>8, <1>9, <1>10, <1>11 DEF Next

\* Write, Read and WaitForData fail only for a cause: the own end or the other one
\* is disconnected, or the other process is gone, or it never came.
THEOREM PipeFailsForCause == ASSUME PipeAssumption PROVE Spec => FailsForCause
<1>1. TypeOK /\ [Next]_vars =>
          [\A end \in Ends : at[end] # "failed" /\ at'[end] = "failed" =>
              \/ ~pid[end]
              \/ part[Other(end)] \in {"closed", "dead"}
              \/ ~pid[Other(end)] /\ (handle[end] \/ detections'[end] = DetectionLimit)]_vars
  BY OnlyForCause DEF Cause
<1>. QED
  BY <1>1, PipeTypes, PTL DEF Spec, FailsForCause

-----------------------------------------------------------------------------
(* The bytes: the invariant.                                               *)

\* An end that is there or may still come; the calls of the others are over.
Here(end) == part[end] \in {"absent", "open"}

\* The index behind the bytes that are in the ring, published or not.
Front == IF at["writer"] = "copied" THEN ownIndex ELSE writeIndex

\* The places from the read index up to another index hold the bytes of their
\* indices.
Holds(upto) ==
    \A k \in 0 .. Distance(readIndex, upto) - 1 :
        buffer[MaskIndex(Advance(readIndex, k))] = Advance(readIndex, k)

RingInv == GetAvailableData <= PipeBufferSize /\ Holds(writeIndex)

\* The writer is never more than the ring in front of the reader, not even with
\* what it has copied but not published.
WriterInv ==
    Here("writer") =>
        /\ written = Front
        /\ at["writer"] \in {"looking", "waiting"} => ownIndex = writeIndex
        /\ Distance(readIndex, writeIndex) <= Distance(readIndex, Front)
        /\ Distance(readIndex, Front) <= PipeBufferSize
        /\ Holds(Front)

\* The reader has taken what it has published, and the bytes it copies.
ReaderInv ==
    Here("reader") =>
        /\ at["reader"] = "copied" =>
              /\ remaining["reader"] <= GetAvailableData
              /\ taken = Advance(readIndex, remaining["reader"])
        /\ at["reader"] # "copied" => taken = readIndex

IdleInv == \A end \in Ends : part[end] = "absent" => at[end] = "idle"

PipeInv == TypeOK /\ RingInv /\ WriterInv /\ ReaderInv /\ IdleInv /\ ~misread

-----------------------------------------------------------------------------
(* The bytes: the steps.                                                   *)

\* A step that touches neither the ring nor what a call has copied.
LEMMA QuietStep ==
    ASSUME PipeInv, TypeOK', IdleInv',
           UNCHANGED <<buffer, writeIndex, readIndex, written, taken, misread>>,
           Here("writer")' =>
               /\ Here("writer")
               /\ at'["writer"] = "copied" <=> at["writer"] = "copied"
               /\ at["writer"] = "copied" => UNCHANGED ownIndex
               /\ at'["writer"] \in {"looking", "waiting"} => ownIndex' = writeIndex,
           Here("reader")' =>
               /\ Here("reader")
               /\ at'["reader"] = "copied" <=> at["reader"] = "copied"
               /\ at["reader"] = "copied" => remaining'["reader"] = remaining["reader"]
    PROVE  PipeInv'
<1>1. GetAvailableData' = GetAvailableData
  BY DEF GetAvailableData
<1>2. RingInv'
  BY <1>1 DEF PipeInv, RingInv, Holds
<1>3. WriterInv'
  <2>. SUFFICES ASSUME Here("writer")'
                PROVE  /\ written' = Front'
                       /\ at'["writer"] \in {"looking", "waiting"} => ownIndex' = writeIndex'
                       /\ Distance(readIndex', writeIndex') <= Distance(readIndex', Front')
                       /\ Distance(readIndex', Front') <= PipeBufferSize
                       /\ Holds(Front)'
    BY DEF WriterInv
  <2>1. Front' = Front
    BY DEF Front
  <2>. QED
    BY <2>1 DEF PipeInv, WriterInv, Holds
<1>4. ReaderInv'
  BY <1>1 DEF PipeInv, ReaderInv
<1>. QED
  BY <1>2, <1>3, <1>4 DEF PipeInv

\* The memory begins anew, and no call is under way.
LEMMA FreshStep ==
    ASSUME PipeAssumption, TypeOK', IdleInv', ~misread',
           writeIndex' = 0, readIndex' = 0, written' = 0, taken' = 0,
           \A end \in Ends : Here(end)' => at'[end] = "idle"
    PROVE  PipeInv'
<1>1. 0 \in Indices /\ PipeBufferSize \in Nat
  BY Sizes DEF Indices
<1>2. Distance(0, 0) = 0
  BY <1>1, AdvancedDistance
<1>3. GetAvailableData' = 0
  BY <1>2 DEF GetAvailableData, Distance
<1>4. Holds(writeIndex)'
  BY <1>2 DEF Holds
<1>5. RingInv'
  BY <1>1, <1>3, <1>4 DEF RingInv
<1>6. Here("writer")' => Front' = 0 /\ at'["writer"] = "idle"
  BY Others DEF Front
<1>7. Here("writer")' => Holds(Front)'
  BY <1>2, <1>6 DEF Holds
<1>8. WriterInv'
  BY <1>1, <1>2, <1>6, <1>7 DEF WriterInv
<1>9. ReaderInv'
  BY Others DEF ReaderInv
<1>. QED
  BY <1>5, <1>8, <1>9 DEF PipeInv

LEMMA BytesCreate == ASSUME PipeAssumption, PipeInv, NEW end \in Ends, Create(end) PROVE PipeInv'
<1>1. TypeOK' /\ TypeOK
  BY TypeCreate DEF PipeInv
<1>2. /\ part[end] = "absent" /\ part' = [part EXCEPT ![end] = "open"]
      /\ UNCHANGED <<handle, detections, at, ownIndex, remaining>>
  BY DEF Create
<1>3. part'[end] = "open" /\ \A other \in Ends : other # end => part'[other] = part[other]
  BY <1>1, <1>2 DEF TypeOK
<1>4. IdleInv'
  BY <1>2, <1>3 DEF PipeInv, IdleInv
<1>5. CASE part[Other(end)] = "open"
  <2>1. UNCHANGED <<buffer, writeIndex, readIndex, written, taken, misread>>
    BY <1>5 DEF Create, past
  <2>2. \A e \in Ends : Here(e)' => Here(e)
    BY <1>2, <1>3 DEF Here
  <2>3. Here("writer")' => (at["writer"] \in {"looking", "waiting"} => ownIndex = writeIndex)
    BY <2>2, Others DEF PipeInv, WriterInv
  <2>. QED
    BY <1>1, <1>2, <1>4, <2>1, <2>2, <2>3, Others, QuietStep
<1>6. CASE part[Other(end)] # "open"
  <2>1. writeIndex' = 0 /\ readIndex' = 0 /\ written' = 0 /\ taken' = 0 /\ misread' = misread
    BY <1>6 DEF Create, FreshMemory
  <2>2. ASSUME NEW e \in Ends, Here(e)' PROVE at'[e] = "idle"
    <3>1. e = end \/ e = Other(end)
      BY Others DEF Ends
    <3>2. CASE e = end
      BY <1>2, <3>2 DEF PipeInv, IdleInv
    <3>3. CASE e = Other(end) /\ e # end
      <4>1. part[e] = "absent"
        BY <1>3, <1>6, <2>2, <3>3 DEF Here
      <4>. QED
        BY <1>2, <4>1 DEF PipeInv, IdleInv
    <3>. QED
      BY <3>1, <3>2, <3>3
  <2>. QED
    BY <1>1, <1>4, <2>1, <2>2, FreshStep DEF PipeInv
<1>. QED
  BY <1>5, <1>6

LEMMA BytesForget == ASSUME PipeAssumption, PipeInv, Forget PROVE PipeInv'
<1>1. /\ TypeOK' /\ ~misread' /\ \A e \in Ends : at'[e] = "idle"
      /\ writeIndex' = 0 /\ readIndex' = 0 /\ written' = 0 /\ taken' = 0
  BY TypeForget DEF PipeInv, Forget
<1>. QED
  BY <1>1, FreshStep DEF IdleInv

LEMMA BytesLife ==
    ASSUME PipeAssumption, PipeInv, NEW end \in Ends, Disconnect(end) \/ Close(end) \/ Die(end)
    PROVE  PipeInv'
<1>1. TypeOK' /\ TypeOK
  BY TypeLife DEF PipeInv
<1>2. UNCHANGED <<buffer, writeIndex, readIndex, written, taken, misread, ownIndex, remaining>>
  BY DEF Disconnect, Close, Die, shared, local, past
<1>3. \A e \in Ends : \/ part'[e] \in {"closed", "dead"}
                      \/ part'[e] = part[e] /\ at'[e] = at[e]
  <2>1. part \in [Ends -> {"absent", "open", "closed", "dead"}] /\ at \in [Ends -> Stations]
    BY <1>1 DEF TypeOK, Stations
  <2>. QED
    BY <2>1 DEF Disconnect, Close, Die, Goto, local
<1>4. IdleInv'
  BY <1>3 DEF PipeInv, IdleInv
<1>5. \A e \in Ends : Here(e)' => Here(e) /\ at'[e] = at[e]
  BY <1>3 DEF Here
<1>6. Here("writer") => (at["writer"] \in {"looking", "waiting"} => ownIndex = writeIndex)
  BY DEF PipeInv, WriterInv
<1>. QED
  BY <1>1, <1>2, <1>4, <1>5, <1>6, Others, QuietStep

\* A step of a call of one end that copies no bytes and publishes none.
LEMMA BytesCall ==
    ASSUME PipeInv, TypeOK', NEW end \in Ends, part[end] = "open",
           UNCHANGED <<buffer, writeIndex, readIndex, part, written, taken, misread>>,
           \A other \in Ends : other # end => at'[other] = at[other],
           at[end] # "copied", at'[end] # "copied",
           end = "reader" => UNCHANGED ownIndex,
           end = "writer" => /\ remaining'["reader"] = remaining["reader"]
                             /\ at'[end] \in {"looking", "waiting"} => ownIndex' = writeIndex
    PROVE  PipeInv'
<1>1. IdleInv'
  BY DEF PipeInv, IdleInv
<1>2. \A e \in Ends : Here(e)' <=> Here(e)
  BY DEF Here
<1>3. Here("writer") => (at["writer"] \in {"looking", "waiting"} => ownIndex = writeIndex)
  BY DEF PipeInv, WriterInv
<1>4. CASE end = "writer"
  BY <1>1, <1>2, <1>4, Others, QuietStep DEF Ends
<1>5. CASE end = "reader"
  BY <1>1, <1>2, <1>3, <1>5, Others, QuietStep DEF Ends
<1>. QED
  BY <1>4, <1>5 DEF Ends

LEMMA BytesBegin == ASSUME PipeAssumption, PipeInv, Write \/ Read PROVE PipeInv'
<1>1. TypeOK /\ TypeOK'
  BY TypeBegins DEF PipeInv
<1>2. ASSUME NEW size, BeginWrite(size) PROVE PipeInv'
  <2>1. /\ part["writer"] = "open" /\ at["writer"] = "idle" /\ ownIndex' = writeIndex
        /\ UNCHANGED <<buffer, writeIndex, readIndex, part, written, taken, misread>>
        /\ Goto("writer", "looking") \/ Goto("writer", "failed")
        /\ remaining' = [remaining EXCEPT !["writer"] = size]
    BY <1>2 DEF BeginWrite, shared, past
  <2>2. /\ at'["writer"] # "copied"
        /\ \A other \in Ends : other # "writer" => at'[other] = at[other]
    BY <1>1, <2>1, GotoIs, Others DEF Stations
  <2>3. remaining'["reader"] = remaining["reader"]
    BY <1>1, <2>1, Others DEF TypeOK
  <2>. QED
    BY <1>1, <2>1, <2>2, <2>3, BytesCall, Others
<1>3. ASSUME NEW size, BeginRead(size) PROVE PipeInv'
  <2>1. /\ part["reader"] = "open" /\ at["reader"] # "copied"
        /\ UNCHANGED <<buffer, writeIndex, readIndex, part, written, taken, misread, ownIndex>>
        /\ Goto("reader", "looking") \/ Goto("reader", "failed")
    BY <1>3 DEF BeginRead, shared, past
  <2>2. /\ at'["reader"] # "copied"
        /\ \A other \in Ends : other # "reader" => at'[other] = at[other]
    BY <1>1, <2>1, GotoIs, Others DEF Stations
  <2>. QED
    BY <1>1, <2>1, <2>2, BytesCall, Others
<1>4. CASE BeginPoll
  <2>1. /\ part["reader"] = "open" /\ at["reader"] # "copied"
        /\ UNCHANGED <<buffer, writeIndex, readIndex, part, written, taken, misread, ownIndex>>
        /\ Goto("reader", "ready") \/ Goto("reader", "polling")
    BY <1>4 DEF BeginPoll, shared, past
  <2>2. /\ at'["reader"] # "copied"
        /\ \A other \in Ends : other # "reader" => at'[other] = at[other]
    BY <1>1, <2>1, GotoIs, Others DEF Stations
  <2>. QED
    BY <1>1, <2>1, <2>2, BytesCall, Others
<1>. QED
  BY <1>2, <1>3, <1>4 DEF Write, Read

\* The steps of Write that neither copy nor publish.
LEMMA BytesWriterWaits ==
    ASSUME PipeAssumption, PipeInv, part["writer"] = "open",
           LookForSpace \/ SignalData \/ WaitForSpace
    PROVE  PipeInv'
<1>1. TypeOK /\ TypeOK'
  BY TypeWriter DEF PipeInv, WriteGoesOn
<1>2. UNCHANGED <<buffer, writeIndex, readIndex, part, written, taken, misread, ownIndex, remaining>>
  BY DEF LookForSpace, SignalData, WaitForSpace, shared, past
<1>3. /\ at["writer"] # "copied" /\ at'["writer"] # "copied"
      /\ \A other \in Ends : other # "writer" => at'[other] = at[other]
  BY <1>1, GotoIs, TimePassesIs, Others DEF LookForSpace, SignalData, WaitForSpace, Stations
<1>4. at'["writer"] \in {"looking", "waiting"} => at["writer"] \in {"looking", "waiting"}
  BY <1>1, GotoIs, Others DEF LookForSpace, SignalData, WaitForSpace, Stations
<1>5. at["writer"] \in {"looking", "waiting"} => ownIndex = writeIndex
  BY DEF PipeInv, WriterInv, Here
<1>. QED
  BY <1>1, <1>2, <1>3, <1>4, <1>5, BytesCall, Others

\* The steps of Read and WaitForData that neither copy nor publish.
LEMMA BytesReaderWaits ==
    ASSUME PipeAssumption, PipeInv, part["reader"] = "open",
           LookForData \/ SignalSpace \/ WaitForData \/ Poll
    PROVE  PipeInv'
<1>1. TypeOK /\ TypeOK'
  BY TypeReader DEF PipeInv, ReadGoesOn
<1>2. UNCHANGED <<buffer, writeIndex, readIndex, part, written, taken, misread, ownIndex, remaining>>
  BY DEF LookForData, SignalSpace, WaitForData, Poll, shared, past
<1>3. /\ at["reader"] # "copied" /\ at'["reader"] # "copied"
      /\ \A other \in Ends : other # "reader" => at'[other] = at[other]
  BY <1>1, GotoIs, TimePassesIs, Others
     DEF LookForData, SignalSpace, WaitForData, Poll, LookAgain, Stations
<1>. QED
  BY <1>1, <1>2, <1>3, BytesCall, Others

\* memcpy into the ring: it reaches no byte that is still to be read.
LEMMA BytesCopyIn ==
    ASSUME PipeAssumption, PipeInv, part["writer"] = "open", CopyIn
    PROVE  PipeInv'
<1>. DEFINE r == readIndex
            a == GetAvailableData
            n == PipeBufferSize
<1>1. TypeOK /\ TypeOK'
  BY TypeWriter DEF PipeInv, WriteGoesOn
<1>2. /\ n \in Nat \ {0} /\ IndexLimit \in Nat /\ n < IndexLimit
      /\ r \in Indices /\ writeIndex \in Indices
      /\ a = Distance(r, writeIndex) /\ a \in Nat
  BY <1>1, Sizes, SpaceIs DEF TypeOK
<1>3. /\ at["writer"] = "looking" /\ a < n
      /\ UNCHANGED <<writeIndex, readIndex, part, taken, misread>>
  <2>1. GetAvailableSpace > 0 /\ GetAvailableSpace = n - a
    BY <1>1, SpaceIs DEF CopyIn
  <2>. QED
    BY <1>2, <2>1 DEF CopyIn
<1>4. PICK size \in Nat :
          /\ a + size <= n
          /\ buffer' = [p \in Places |->
                LET offset == (p + n - MaskIndex(ownIndex)) % n IN
                IF offset < size THEN Advance(written, offset) ELSE buffer[p]]
          /\ ownIndex' = Advance(ownIndex, size)
          /\ remaining' = [remaining EXCEPT !["writer"] = @ - size]
          /\ written' = Advance(written, size)
  <2>1. /\ remaining["writer"] \in Nat /\ GetAvailableSpace \in Nat
        /\ GetAvailableSpace = n - a
    BY <1>1, SpaceIs, Others DEF TypeOK, CopyIn
  <2>2. LeastOf(remaining["writer"], GetAvailableSpace) \in Nat
        /\ LeastOf(remaining["writer"], GetAvailableSpace) <= n - a
    BY <2>1, LeastOfIs
  <2>3. a + LeastOf(remaining["writer"], GetAvailableSpace) <= n
    BY <1>2, <2>2
  <2>. QED
    BY <2>2, <2>3 DEF CopyIn
<1>5. /\ Here("writer") /\ ownIndex = writeIndex /\ written = writeIndex /\ Holds(writeIndex)
      /\ writeIndex = Advance(r, a)
  BY <1>2, <1>3, AdvancedDistance DEF PipeInv, WriterInv, RingInv, Here, Front
<1>6. /\ at'["writer"] = "copied" /\ at'["reader"] = at["reader"]
      /\ remaining'["reader"] = remaining["reader"]
  BY <1>1, <1>4, GotoIs, Others DEF CopyIn, Stations, TypeOK
<1>7. PICK front \in Indices :
          /\ front = Advance(r, a + size) /\ Distance(r, front) = a + size
          /\ ownIndex' = front /\ written' = front
  <2>1. /\ a \in 0 .. IndexLimit - 1 /\ size \in 0 .. IndexLimit - 1
        /\ a + size \in 0 .. IndexLimit - 1 /\ a + size < IndexLimit
    BY <1>2, <1>4
  <2>2. /\ Advance(Advance(r, a), size) = Advance(r, a + size)
        /\ Distance(r, Advance(r, a + size)) = a + size
        /\ Advance(r, a + size) \in Indices
    BY <1>2, <2>1, AdvancedDistance, AdvanceIs
  <2>. QED
    BY <1>4, <1>5, <2>2
<1>8. ASSUME NEW k \in 0 .. a + size - 1
      PROVE  buffer'[MaskIndex(Advance(r, k))] = Advance(r, k)
  <2>. DEFINE p == MaskIndex(Advance(r, k))
              offset == (p + n - MaskIndex(ownIndex)) % n
  <2>1. /\ k \in 0 .. n - 1 /\ a \in 0 .. n /\ k \in 0 .. IndexLimit - 1
        /\ a \in 0 .. IndexLimit - 1
    BY <1>2, <1>3, <1>4
  <2>2. offset = IF k >= a THEN k - a ELSE k + n - a
    BY <1>2, <1>5, <2>1, OffsetOfPlace
  <2>3. p \in Places
    <3>1. Advance(r, k) \in Nat
      BY <1>2, <2>1, AdvanceIs DEF Indices
    <3>. QED
      BY <1>2, <3>1 DEF MaskIndex, Places
  <2>4. buffer'[p] = IF offset < size THEN Advance(written, offset) ELSE buffer[p]
    BY <1>4, <2>3
  <2>. HIDE DEF p, offset
  <2>5. CASE k >= a
    <3>1. PICK j \in 0 .. IndexLimit - 1 : j = k - a /\ offset = j /\ j < size
      BY <1>2, <1>4, <2>1, <2>2, <2>5
    <3>2. Advance(Advance(r, a), j) = Advance(r, a + j)
      BY <1>2, <2>1, <3>1, AdvancedDistance
    <3>3. a + j = k
      BY <1>2, <2>1, <3>1
    <3>. QED
      BY <1>5, <2>4, <3>1, <3>2, <3>3 DEF p
  <2>6. CASE k < a
    <3>1. ~(offset < size)
      BY <1>2, <1>4, <2>1, <2>2, <2>6
    <3>2. k \in 0 .. Distance(r, writeIndex) - 1
      BY <1>2, <2>1, <2>6
    <3>3. buffer[p] = Advance(r, k)
      BY <1>5, <3>2 DEF Holds, p
    <3>. QED
      BY <2>4, <3>1, <3>3 DEF p
  <2>. QED
    BY <1>2, <2>1, <2>5, <2>6
<1>. HIDE DEF a
<1>9. GetAvailableData' = a /\ Distance(r, writeIndex) = a
  BY <1>2, <1>3 DEF GetAvailableData, a
<1>10. RingInv'
  <2>1. \A k \in 0 .. a - 1 : k \in 0 .. a + size - 1
    BY <1>2, <1>4
  <2>2. Holds(writeIndex)'
    BY <1>3, <1>8, <1>9, <2>1 DEF Holds
  <2>. QED
    BY <1>2, <1>3, <1>9, <2>2 DEF RingInv
<1>11. Front' = front
  BY <1>6, <1>7 DEF Front
<1>12. WriterInv'
  <2>1. Holds(Front)'
    <3>. SUFFICES ASSUME NEW k \in 0 .. Distance(readIndex', Front') - 1
                  PROVE  buffer'[MaskIndex(Advance(readIndex', k))] = Advance(readIndex', k)
      BY DEF Holds
    <3>1. Distance(readIndex', Front') = a + size /\ readIndex' = readIndex
      BY <1>3, <1>7, <1>11
    <3>2. k \in 0 .. a + size - 1
      BY <1>2, <3>1
    <3>3. buffer'[MaskIndex(Advance(r, k))] = Advance(r, k)
      BY <1>8, <3>2
    <3>. QED
      BY <3>1, <3>3
  <2>2. /\ Distance(readIndex', writeIndex') <= Distance(readIndex', Front')
        /\ Distance(readIndex', Front') <= PipeBufferSize
    BY <1>2, <1>3, <1>4, <1>7, <1>9, <1>11
  <2>. QED
    BY <1>6, <1>7, <1>11, <2>1, <2>2 DEF WriterInv
<1>13. ReaderInv'
  BY <1>3, <1>6, <1>9 DEF PipeInv, ReaderInv, Here, a
<1>14. IdleInv' /\ ~misread'
  <2>1. \A end \in Ends : end = "writer" \/ end = "reader"
    BY DEF Ends
  <2>. QED
    BY <1>3, <1>6, <2>1 DEF PipeInv, IdleInv
<1>. QED
  BY <1>1, <1>10, <1>12, <1>13, <1>14 DEF PipeInv

\* The copied bytes are published.
LEMMA BytesPublishWritten ==
    ASSUME PipeAssumption, PipeInv, part["writer"] = "open", PublishWritten
    PROVE  PipeInv'
<1>1. TypeOK /\ TypeOK'
  BY TypeWriter DEF PipeInv, WriteGoesOn
<1>2. /\ at["writer"] = "copied" /\ writeIndex' = ownIndex
      /\ UNCHANGED <<buffer, readIndex, part, ownIndex, remaining, written, taken, misread>>
  BY DEF PublishWritten, past
<1>3. at'["writer"] # "copied" /\ at'["reader"] = at["reader"]
  BY <1>1, GotoIs, Others DEF PublishWritten, Stations
<1>4. /\ Front = ownIndex /\ written = ownIndex /\ Holds(ownIndex)
      /\ Distance(readIndex, writeIndex) <= Distance(readIndex, ownIndex)
      /\ Distance(readIndex, ownIndex) <= PipeBufferSize
  BY <1>2 DEF PipeInv, WriterInv, Here, Front
<1>5. Front' = ownIndex
  BY <1>2, <1>3 DEF Front
<1>6. GetAvailableData' = Distance(readIndex, ownIndex) /\ GetAvailableData <= GetAvailableData'
  BY <1>2, <1>4 DEF GetAvailableData, Distance
<1>7. Holds(writeIndex)' /\ Holds(Front)'
  BY <1>2, <1>4, <1>5 DEF Holds
<1>8. RingInv'
  BY <1>4, <1>6, <1>7 DEF RingInv
<1>9. Distance(readIndex, ownIndex) \in Nat
  BY <1>1, DistanceIs, Sizes DEF TypeOK, Indices
<1>10. WriterInv'
  BY <1>2, <1>4, <1>5, <1>7, <1>9 DEF WriterInv
<1>11. ReaderInv'
  <2>1. remaining["reader"] \in Nat /\ GetAvailableData \in Nat /\ GetAvailableData' \in Nat
    BY <1>1, <1>6, <1>9, SpaceIs, Others DEF TypeOK
  <2>2. remaining["reader"] <= GetAvailableData => remaining["reader"] <= GetAvailableData'
    BY <1>6, <2>1
  <2>. QED
    BY <1>2, <1>3, <2>2 DEF PipeInv, ReaderInv, Here
<1>12. IdleInv' /\ ~misread'
  <2>1. \A end \in Ends : end = "writer" \/ end = "reader"
    BY DEF Ends
  <2>. QED
    BY <1>2, <1>3, <2>1 DEF PipeInv, IdleInv
<1>. QED
  BY <1>1, <1>8, <1>10, <1>11, <1>12 DEF PipeInv

\* memcpy out of the ring finds the next bytes that were written.
LEMMA BytesCopyOut ==
    ASSUME PipeAssumption, PipeInv, part["reader"] = "open", CopyOut
    PROVE  PipeInv'
<1>. DEFINE size == LeastOf(remaining["reader"], GetAvailableData)
<1>1. TypeOK /\ TypeOK'
  BY TypeReader DEF PipeInv, ReadGoesOn
<1>2. /\ size \in Nat /\ size <= GetAvailableData /\ GetAvailableData \in Nat
      /\ GetAvailableData = Distance(readIndex, writeIndex)
  BY <1>1, SpaceIs, LeastOfIs, Others DEF TypeOK
<1>3. /\ at["reader"] = "looking"
      /\ remaining' = [remaining EXCEPT !["reader"] = size]
      /\ misread' = (misread \/ \E offset \in 0 .. size - 1 :
             buffer[MaskIndex(Advance(readIndex, offset))] # Advance(taken, offset))
      /\ taken' = Advance(taken, size)
      /\ UNCHANGED <<buffer, writeIndex, readIndex, part, ownIndex, written>>
  BY DEF CopyOut, shared
<1>. HIDE DEF size
<1>4. Here("reader") /\ taken = readIndex
  BY <1>3 DEF PipeInv, ReaderInv, Here
<1>5. ASSUME NEW k \in 0 .. size - 1
      PROVE  buffer[MaskIndex(Advance(readIndex, k))] = Advance(taken, k)
  <2>1. k \in 0 .. Distance(readIndex, writeIndex) - 1
    BY <1>2
  <2>. QED
    BY <1>4, <2>1 DEF PipeInv, RingInv, Holds
<1>6. ~misread'
  BY <1>3, <1>5 DEF PipeInv
<1>7. at'["reader"] = "copied" /\ at'["writer"] = at["writer"] /\ remaining'["reader"] = size
  BY <1>1, <1>3, GotoIs, Others DEF CopyOut, Stations, TypeOK
<1>8. GetAvailableData' = GetAvailableData /\ Front' = Front
  BY <1>3, <1>7 DEF GetAvailableData, Front
<1>9. RingInv'
  BY <1>3, <1>8 DEF PipeInv, RingInv, Holds
<1>10. WriterInv'
  <2>1. Holds(Front) => Holds(Front)'
    BY <1>3, <1>8 DEF Holds
  <2>. QED
    BY <1>3, <1>7, <1>8, <2>1 DEF PipeInv, WriterInv, Here
<1>11. ReaderInv'
  BY <1>2, <1>3, <1>4, <1>7, <1>8 DEF ReaderInv
<1>12. IdleInv'
  <2>1. \A end \in Ends : end = "writer" \/ end = "reader"
    BY DEF Ends
  <2>. QED
    BY <1>3, <1>4, <1>7, <2>1 DEF PipeInv, IdleInv
<1>. QED
  BY <1>1, <1>6, <1>9, <1>10, <1>11, <1>12 DEF PipeInv

\* The space of the copied bytes is given back.
LEMMA BytesPublishRead ==
    ASSUME PipeAssumption, PipeInv, part["reader"] = "open", PublishRead
    PROVE  PipeInv'
<1>. DEFINE c == remaining["reader"]
            r == readIndex
<1>1. TypeOK /\ TypeOK'
  BY TypeReader DEF PipeInv, ReadGoesOn
<1>2. /\ at["reader"] = "copied" /\ readIndex' = Advance(r, c)
      /\ UNCHANGED <<buffer, writeIndex, part, ownIndex, written, taken, misread>>
  BY DEF PublishRead, past
<1>3. at'["reader"] # "copied" /\ at'["writer"] = at["writer"]
  BY <1>1, GotoIs, Others DEF PublishRead, Stations
<1>4. /\ c \in Nat /\ c <= GetAvailableData /\ taken = Advance(r, c)
      /\ GetAvailableData = Distance(r, writeIndex) /\ GetAvailableData \in Indices
      /\ r \in Indices /\ writeIndex \in Indices /\ ownIndex \in Indices
      /\ IndexLimit \in Nat /\ PipeBufferSize \in Nat
  BY <1>1, <1>2, SpaceIs, Sizes, Others DEF PipeInv, ReaderInv, Here, TypeOK
<1>. HIDE DEF c
<1>5. Front' = Front /\ Front \in Indices
  BY <1>2, <1>3, <1>4 DEF Front
<1>6. ASSUME NEW x \in Indices, c <= Distance(r, x)
      PROVE  /\ Distance(readIndex', x) = Distance(r, x) - c
             /\ \A k \in 0 .. Distance(r, x) - c - 1 : Advance(readIndex', k) = Advance(r, c + k)
  <2>1. Distance(r, x) \in 0 .. IndexLimit - 1 /\ c \in 0 .. Distance(r, x)
    BY <1>4, <1>6, DistanceIs DEF Indices
  <2>2. Distance(readIndex', x) = Distance(r, x) - c
    BY <1>2, <1>4, <2>1, AdvancedDistance
  <2>3. ASSUME NEW k \in 0 .. Distance(r, x) - c - 1
        PROVE  Advance(readIndex', k) = Advance(r, c + k)
    <3>1. /\ c \in 0 .. IndexLimit - 1 /\ k \in 0 .. IndexLimit - 1 /\ c + k < IndexLimit
      BY <1>4, <2>1
    <3>. QED
      BY <1>2, <1>4, <3>1, AdvancedDistance
  <2>. QED
    BY <2>2, <2>3
<1>7. ASSUME NEW x \in Indices, c <= Distance(r, x), Holds(x)
      PROVE  \A k \in 0 .. Distance(readIndex', x) - 1 :
                 buffer'[MaskIndex(Advance(readIndex', k))] = Advance(readIndex', k)
  <2>. SUFFICES ASSUME NEW k \in 0 .. Distance(r, x) - c - 1
                PROVE  buffer[MaskIndex(Advance(r, c + k))] = Advance(r, c + k)
    BY <1>2, <1>6, <1>7
  <2>1. Distance(r, x) \in Nat
    BY <1>4, DistanceIs DEF Indices
  <2>2. c + k \in 0 .. Distance(r, x) - 1
    BY <1>4, <2>1
  <2>. QED
    BY <1>7, <2>2 DEF Holds
<1>8. GetAvailableData' = GetAvailableData - c /\ GetAvailableData - c \in Nat
  <2>1. GetAvailableData' = Distance(readIndex', writeIndex)
    BY <1>2 DEF GetAvailableData, Distance
  <2>. QED
    BY <1>4, <1>6, <2>1 DEF Indices
<1>9. RingInv'
  <2>1. Holds(writeIndex)'
    BY <1>2, <1>4, <1>7 DEF PipeInv, RingInv, Holds
  <2>2. GetAvailableData <= PipeBufferSize
    BY DEF PipeInv, RingInv
  <2>3. GetAvailableData - c <= PipeBufferSize
    BY <1>4, <2>2 DEF Indices
  <2>. QED
    BY <1>8, <2>1, <2>3 DEF RingInv
<1>10. WriterInv'
  <2>. SUFFICES ASSUME Here("writer")'
                PROVE  /\ written' = Front'
                       /\ at'["writer"] \in {"looking", "waiting"} => ownIndex' = writeIndex'
                       /\ Distance(readIndex', writeIndex') <= Distance(readIndex', Front')
                       /\ Distance(readIndex', Front') <= PipeBufferSize
                       /\ Holds(Front)'
    BY DEF WriterInv
  <2>1. /\ written = Front
        /\ at["writer"] \in {"looking", "waiting"} => ownIndex = writeIndex
        /\ Distance(r, writeIndex) <= Distance(r, Front)
        /\ Distance(r, Front) <= PipeBufferSize /\ Holds(Front)
    BY <1>2 DEF PipeInv, WriterInv, Here
  <2>2. Distance(r, Front) \in Nat /\ Distance(r, writeIndex) \in Nat
    <3>1. Distance(r, Front) \in Indices /\ Distance(r, writeIndex) \in Indices
      BY <1>4, <1>5, DistanceIs
    <3>. QED
      BY <1>4, <3>1 DEF Indices
  <2>3. c <= Distance(r, writeIndex) /\ c <= Distance(r, Front)
    BY <1>4, <2>1, <2>2
  <2>4. /\ Distance(readIndex', writeIndex) = Distance(r, writeIndex) - c
        /\ Distance(readIndex', Front) = Distance(r, Front) - c
    BY <1>4, <1>5, <1>6, <2>3
  <2>5. Holds(Front)'
    BY <1>5, <1>7, <2>1, <2>3 DEF Holds
  <2>6. /\ Distance(readIndex', writeIndex) <= Distance(readIndex', Front)
        /\ Distance(readIndex', Front) <= PipeBufferSize
    BY <1>4, <2>1, <2>2, <2>4
  <2>. QED
    BY <1>2, <1>3, <1>5, <2>1, <2>5, <2>6
<1>11. ReaderInv'
  BY <1>2, <1>3, <1>4 DEF ReaderInv
<1>12. IdleInv' /\ ~misread'
  <2>1. \A end \in Ends : end = "writer" \/ end = "reader"
    BY DEF Ends
  <2>2. part["reader"] = "open"
    OBVIOUS
  <2>. QED
    BY <1>2, <1>3, <2>1, <2>2 DEF PipeInv, IdleInv
<1>. QED
  BY <1>1, <1>9, <1>10, <1>11, <1>12 DEF PipeInv

-----------------------------------------------------------------------------
(* The bytes: the theorem.                                                 *)

LEMMA BytesInit == ASSUME PipeAssumption, Init PROVE PipeInv
<1>1. TypeOK
  BY TypeInit
<1>2. 0 \in Indices /\ PipeBufferSize \in Nat /\ Distance(0, 0) = 0
  BY Sizes, AdvancedDistance DEF Indices
<1>3. /\ readIndex = 0 /\ writeIndex = 0 /\ written = 0 /\ taken = 0 /\ ~misread
      /\ ownIndex = 0 /\ \A end \in Ends : at[end] = "idle"
  BY DEF Init
<1>4. Front = 0
  BY <1>3, Others DEF Front
<1>5. GetAvailableData = 0
  BY <1>2, <1>3 DEF GetAvailableData, Distance
<1>6. Holds(writeIndex) /\ Holds(Front)
  BY <1>2, <1>3, <1>4 DEF Holds
<1>. QED
  BY <1>1, <1>2, <1>3, <1>4, <1>5, <1>6, Others
     DEF PipeInv, RingInv, WriterInv, ReaderInv, IdleInv

LEMMA BytesStutter == ASSUME PipeInv, UNCHANGED vars PROVE PipeInv'
<1>1. /\ UNCHANGED <<buffer, writeIndex, readIndex, ownIndex, remaining, at, part,
                     written, taken, misread>>
      /\ TypeOK' /\ IdleInv'
  BY TypeStutters DEF vars, shared, events, local, past, PipeInv, IdleInv
<1>2. \A end \in Ends : Here(end)' <=> Here(end)
  BY <1>1 DEF Here
<1>3. Here("writer") => (at["writer"] \in {"looking", "waiting"} => ownIndex = writeIndex)
  BY DEF PipeInv, WriterInv
<1>. QED
  BY <1>1, <1>2, <1>3, Others, QuietStep

LEMMA PipeHolds == ASSUME PipeAssumption PROVE Spec => []PipeInv
<1>1. Init => PipeInv
  BY BytesInit
<1>2. PipeInv /\ [Next]_vars => PipeInv'
  <2>. SUFFICES ASSUME PipeInv, [Next]_vars PROVE PipeInv'
    OBVIOUS
  <2>1. ASSUME NEW end \in Ends, Create(end) \/ Disconnect(end) \/ Close(end) \/ Die(end)
        PROVE  PipeInv'
    BY <2>1, BytesCreate, BytesLife
  <2>2. CASE Forget
    BY <2>2, BytesForget
  <2>3. CASE Write \/ Read
    BY <2>3, BytesBegin
  <2>4. CASE WriteGoesOn
    BY <2>4, BytesWriterWaits, BytesCopyIn, BytesPublishWritten DEF WriteGoesOn
  <2>5. CASE ReadGoesOn
    BY <2>5, BytesReaderWaits, BytesCopyOut, BytesPublishRead DEF ReadGoesOn
  <2>6. CASE UNCHANGED vars
    BY <2>6, BytesStutter
  <2>. QED
    BY <2>1, <2>2, <2>3, <2>4, <2>5, <2>6 DEF Next
<1>. QED
  BY <1>1, <1>2, PTL DEF Spec

\* The reader takes out the bytes in the order in which the writer put them in,
\* none lost, twice, overwritten or not yet copied, also when the indices of 32
\* bits have gone round, and whoever comes, leaves or dies in between.
THEOREM PipeInOrder == ASSUME PipeAssumption PROVE Spec => []BytesInOrder
<1>1. PipeInv => BytesInOrder
  BY DEF PipeInv, BytesInOrder
<1>. QED
  BY <1>1, PipeHolds, PTL

\* The ring never holds more bytes than it has places, and the writer never copies
\* over one that is still to be read.
NeverOverfull ==
    /\ GetAvailableData <= PipeBufferSize
    /\ part["writer"] = "open" /\ at["writer"] = "copied" =>
          /\ GetAvailableData <= Distance(readIndex, ownIndex)
          /\ Distance(readIndex, ownIndex) <= PipeBufferSize

THEOREM PipeNeverOverfull == ASSUME PipeAssumption PROVE Spec => []NeverOverfull
<1>1. PipeAssumption /\ PipeInv => NeverOverfull
  <2>. SUFFICES ASSUME PipeAssumption, PipeInv PROVE NeverOverfull
    OBVIOUS
  <2>1. GetAvailableData = Distance(readIndex, writeIndex) /\ GetAvailableData <= PipeBufferSize
    BY SpaceIs DEF PipeInv, RingInv
  <2>2. part["writer"] = "open" /\ at["writer"] = "copied" =>
           /\ Distance(readIndex, writeIndex) <= Distance(readIndex, ownIndex)
           /\ Distance(readIndex, ownIndex) <= PipeBufferSize
    BY DEF PipeInv, WriterInv, Here, Front
  <2>. QED
    BY <2>1, <2>2 DEF NeverOverfull
<1>. QED
  BY <1>1, PipeHolds, PTL
=============================================================================
