---------------------- MODULE LocalSignalExchangeProofs ----------------------
(***************************************************************************)
(* Proofs about LocalSignalExchange, for every set of signals and every    *)
(* length: if no end clears the copies under a part the other one has used *)
(* (Erasure = {}), the ends agree on the copies of each signal, and an end *)
(* reads what the other one had written when it sent the last frame,       *)
(* although no frame carries a value and the writer goes on writing.       *)
(*                                                                         *)
(* Without that condition the theorems do not hold: what the server wrote  *)
(* before the client started the simulation is lost (MCLocalSignalStart).  *)
(***************************************************************************)
EXTENDS LocalSignalExchange, RingBufferProofs

-----------------------------------------------------------------------------
(* Values and copies.                                                      *)

\* A copy has the length of a value of its signal.
Proper(s, copy) ==
    /\ copy \in [currentLength : 0 .. Length[s], data : [1 .. Length[s] -> Data]]
    /\ s \notin Variable => copy.currentLength = Length[s]

LEMMA SignalTypes ==
    ASSUME LocalSignalAssumption, NEW s \in Signals
    PROVE  /\ Length[s] \in Nat \ {0} /\ Length[s] \in Nat
           /\ Writer[s] \in Ends /\ Peer(Writer[s]) \in Ends
           /\ Peer(Peer(Writer[s])) = Writer[s] /\ Peer(Writer[s]) # Writer[s]
  BY DEF LocalSignalAssumption, Ends, Peer

LEMMA ValuesAre ==
    ASSUME LocalSignalAssumption, NEW s \in Signals, NEW value \in Values(s)
    PROVE  /\ value \in Seq(Data) /\ Len(value) \in 0 .. Length[s]
           /\ value \in [1 .. Len(value) -> Data]
           /\ s \notin Variable => Len(value) = Length[s]
<1>1. PICK n \in Nat : /\ value \in [1 .. n -> Data] /\ n \in 0 .. Length[s]
                       /\ s \notin Variable => n = Length[s]
  BY SignalTypes DEF Values
<1>2. value \in Seq(Data) /\ Len(value) = n
  <2>1. value \in Seq(Data)
    BY <1>1, SeqDef
  <2>2. DOMAIN value = 1 .. Len(value) /\ Len(value) \in Nat /\ DOMAIN value = 1 .. n
    BY <1>1, <2>1, LenProperties
  <2>. QED
    BY <1>1, <2>1, <2>2
<1>. QED
  BY <1>1, <1>2

LEMMA ValuesHave ==
    ASSUME NEW s \in Signals, NEW value \in Seq(Data), Len(value) \in 0 .. Length[s],
           s \notin Variable => Len(value) = Length[s]
    PROVE  value \in Values(s)
<1>1. value \in [1 .. Len(value) -> Data]
  BY LenProperties
<1>2. CASE s \in Variable
  BY <1>1, <1>2 DEF Values
<1>3. CASE s \notin Variable
  BY <1>1, <1>3 DEF Values
<1>. QED
  BY <1>2, <1>3

\* What a copy says is a value of its signal: its data up to its length.
LEMMA ValueOfCopy ==
    ASSUME LocalSignalAssumption, NEW s \in Signals, NEW copy, Proper(s, copy)
    PROVE  /\ Value(copy) \in Values(s)
           /\ Len(Value(copy)) = copy.currentLength
           /\ \A i \in 1 .. copy.currentLength : Value(copy)[i] = copy.data[i]
<1>. DEFINE n == copy.currentLength
<1>1. /\ n \in 0 .. Length[s] /\ n \in Int /\ 1 \in Int /\ Length[s] \in Nat
      /\ copy.data \in [1 .. Length[s] -> Data]
      /\ s \notin Variable => n = Length[s]
  BY SignalTypes DEF Proper
<1>. HIDE DEF n
<1>2. \A i \in 1 .. n : copy.data[i] \in Data
  BY <1>1
<1>3. /\ Value(copy) \in Seq(Data)
      /\ Len(Value(copy)) = IF 1 <= n THEN n - 1 + 1 ELSE 0
      /\ \A i \in 1 .. n - 1 + 1 : Value(copy)[i] = copy.data[1 + i - 1]
  BY <1>1, <1>2, SubSeqProperties DEF Value, n
<1>4. Len(Value(copy)) = n
  BY <1>1, <1>3
<1>5. \A i \in 1 .. n : i \in 1 .. n - 1 + 1 /\ 1 + i - 1 = i
  BY <1>1
<1>6. \A i \in 1 .. n : Value(copy)[i] = copy.data[i]
  BY <1>3, <1>5
<1>7. Value(copy) \in Values(s)
  BY <1>1, <1>3, <1>4, ValuesHave
<1>. QED
  BY <1>4, <1>6, <1>7 DEF n

\* A copy into which a value was stored says that value.
LEMMA StoredCopy ==
    ASSUME LocalSignalAssumption, NEW s \in Signals, NEW copy, Proper(s, copy),
           NEW value \in Values(s)
    PROVE  LET stored == Copy(Len(value), Overlay(copy.data, value))
           IN  Proper(s, stored) /\ Value(stored) = value
<1>. DEFINE stored == Copy(Len(value), Overlay(copy.data, value))
<1>1. /\ value \in Seq(Data) /\ Len(value) \in 0 .. Length[s]
      /\ value \in [1 .. Len(value) -> Data]
      /\ s \notin Variable => Len(value) = Length[s]
  BY ValuesAre
<1>2. copy.data \in [1 .. Length[s] -> Data] /\ Length[s] \in Nat
  BY SignalTypes DEF Proper
<1>3. /\ stored.currentLength = Len(value)
      /\ stored.data = Overlay(copy.data, value)
      /\ stored = [currentLength |-> Len(value), data |-> Overlay(copy.data, value)]
  BY DEF Copy
<1>4. Overlay(copy.data, value) \in [1 .. Length[s] -> Data]
  BY <1>1, <1>2 DEF Overlay
<1>. HIDE DEF stored
<1>5. Proper(s, stored)
  BY <1>1, <1>3, <1>4 DEF Proper
<1>6. /\ Value(stored) \in Values(s) /\ Len(Value(stored)) = Len(value)
      /\ \A i \in 1 .. Len(value) : Value(stored)[i] = stored.data[i]
  BY <1>3, <1>5, ValueOfCopy
<1>7. \A i \in 1 .. Len(value) : stored.data[i] = value[i]
  BY <1>1, <1>2, <1>3 DEF Overlay
<1>8. Value(stored) \in Seq(Data)
  BY <1>6, ValuesAre
<1>9. Value(stored) = value
  BY <1>1, <1>6, <1>7, <1>8, SeqEqual
<1>. QED
  BY <1>5, <1>9 DEF stored

\* A copy of which only the length was stored says the value if its data begin
\* with it, or if the value is empty.
LEMMA StoredLength ==
    ASSUME LocalSignalAssumption, NEW s \in Signals, NEW copy, Proper(s, copy),
           NEW value \in Values(s)
    PROVE  LET stored == Copy(Len(value), copy.data)
           IN  /\ Proper(s, stored)
               /\ ~DataChanges(copy, value) \/ value = <<>> => Value(stored) = value
<1>. DEFINE stored == Copy(Len(value), copy.data)
<1>1. /\ value \in Seq(Data) /\ Len(value) \in 0 .. Length[s]
      /\ s \notin Variable => Len(value) = Length[s]
  BY ValuesAre
<1>2. stored.currentLength = Len(value) /\ stored.data = copy.data
  BY DEF Copy
<1>3. Proper(s, stored)
  BY <1>1 DEF Proper, Copy
<1>. HIDE DEF stored
<1>4. ~DataChanges(copy, value) => Value(stored) = value
  BY <1>2 DEF DataChanges, Value
<1>5. value = <<>> => Value(stored) = value
  <2>1. Value(stored) \in Seq(Data) /\ Len(Value(stored)) = Len(value)
    BY <1>2, <1>3, ValueOfCopy, ValuesAre
  <2>. QED
    BY <2>1
<1>. QED
  BY <1>3, <1>4, <1>5 DEF stored

LEMMA ClearedCopy ==
    ASSUME LocalSignalAssumption, NEW s \in Signals
    PROVE  Proper(s, Cleared(s)) /\ Value(Cleared(s)) \in Values(s)
<1>1. Length[s] \in Nat /\ Zero \in Data
  BY SignalTypes DEF LocalSignalAssumption
<1>2. [i \in 1 .. Length[s] |-> Zero] \in [1 .. Length[s] -> Data]
  BY <1>1
<1>3. (IF s \in Variable THEN 0 ELSE Length[s]) \in 0 .. Length[s]
  BY <1>1
<1>4. Proper(s, Cleared(s))
  BY <1>2, <1>3 DEF Proper, Cleared, Copy
<1>. QED
  BY <1>4, ValueOfCopy

\* There are two copies.
LEMMA TwoCopies ==
    ASSUME NEW k \in Copies
    PROVE  Staging(k) \in Copies /\ Staging(k) # k /\ \A j \in Copies : j = k \/ j = Staging(k)
  BY DEF Copies, Staging

-----------------------------------------------------------------------------
(* Queues and frames.                                                      *)

Marked(e) == {s \in SignalsOf(e) : isChanged[s]}

\* A ring with a slot for every signal of its part, that holds some of them.
Holds(ring, e, marked) == HoldsOnce(ring, Signals, SignalsOf(e), marked)

LEMMA SignalsOfEnd ==
    ASSUME LocalSignalAssumption, NEW e
    PROVE  IsFiniteSet(SignalsOf(e)) /\ SignalsOf(e) \in SUBSET Signals
<1>1. SignalsOf(e) \in SUBSET Signals /\ IsFiniteSet(Signals)
  BY DEF LocalSignalAssumption, SignalsOf
<1>. QED
  BY <1>1, FS_Subset

\* What a queue sends is a sequence of its signals.
LEMMA QueueSends ==
    ASSUME LocalSignalAssumption, NEW e, NEW ring, NEW marked, Holds(ring, e, marked)
    PROVE  /\ Contents(ring) \in Seq(Signals)
           /\ Range(Contents(ring)) = marked /\ IsInjective(Contents(ring))
<1>1. Cardinality(SignalsOf(e)) \in Nat
  BY SignalsOfEnd, FS_CardinalityType
<1>. QED
  BY <1>1, ContentsType DEF Holds, HoldsOnce

\* Taking the first signal of a frame that names each signal once.
LEMMA RestOfFrame ==
    ASSUME NEW S, NEW q \in Seq(S), q # <<>>, IsInjective(q)
    PROVE  /\ Head(q) \in Range(q) /\ Head(q) \in S
           /\ Tail(q) \in Seq(S) /\ IsInjective(Tail(q))
           /\ Range(Tail(q)) = Range(q) \ {Head(q)}
<1>. DEFINE n == Len(q)
            r == Tail(q)
<1>1. /\ n \in Nat \ {0} /\ DOMAIN q = 1 .. n /\ Head(q) = q[1] /\ q[1] \in S
      /\ r \in Seq(S) /\ DOMAIN r = 1 .. n - 1
      /\ \A i \in 1 .. n - 1 : r[i] = q[i + 1]
  OBVIOUS
<1>. HIDE DEF n, r
<1>2. \A i, j \in 1 .. n : q[i] = q[j] => i = j
  BY <1>1 DEF IsInjective
<1>3. /\ 1 \in 1 .. n
      /\ \A i \in 1 .. n - 1 : i + 1 \in 1 .. n /\ i + 1 # 1
      /\ \A i, j \in 1 .. n - 1 : i + 1 = j + 1 => i = j
  BY <1>1
<1>4. IsInjective(r)
  BY <1>1, <1>2, <1>3 DEF IsInjective
<1>5. ASSUME NEW i \in 1 .. n - 1
      PROVE  r[i] \in Range(q) /\ r[i] # Head(q)
  BY <1>1, <1>2, <1>3 DEF Range
<1>6. ASSUME NEW x \in Range(q), x # Head(q)
      PROVE  x \in Range(r)
  <2>1. PICK i \in 1 .. n : q[i] = x
    BY <1>1 DEF Range
  <2>2. i # 1
    BY <1>1, <1>6, <2>1
  <2>3. i - 1 \in 1 .. n - 1 /\ (i - 1) + 1 = i
    BY <1>1, <2>2
  <2>4. r[i - 1] = x
    BY <1>1, <2>1, <2>3
  <2>. QED
    BY <1>1, <2>3, <2>4 DEF Range
<1>7. ASSUME NEW x \in Range(r)
      PROVE  x \in Range(q) /\ x # Head(q)
  <2>1. PICK i \in 1 .. n - 1 : r[i] = x
    BY <1>1 DEF Range
  <2>. QED
    BY <1>5, <2>1
<1>8. Range(r) = Range(q) \ {Head(q)}
  BY <1>6, <1>7
<1>. QED
  BY <1>1, <1>3, <1>4, <1>8 DEF Range, r

-----------------------------------------------------------------------------
(* The invariant.                                                          *)

Stages == {"idle", "toClient", "inStep", "toServer", "stepped"}

Reader(s) == Peer(Writer[s])

\* The end whose frame is on its way.
Sender == IF stage = "toClient" THEN "server" ELSE "client"

\* The copies are copies of their signals, a queue holds the signals that are
\* marked, each of them once, and a frame names signals of its sender.
PartsInv ==
    /\ TypeOK
    /\ copies = [s \in Signals |-> [k \in Copies |-> copies[s][k]]]
    /\ changed = [e \in Ends |-> changed[e]]
    /\ written = [s \in Signals |-> written[s]]
    /\ \A s \in Signals : \A k \in Copies : Proper(s, copies[s][k])
    /\ \A e \in Ends : Holds(changed[e], e, Marked(e))
    /\ IsInjective(frame)
    /\ stage \in {"toClient", "toServer"} => Range(frame) \subseteq SignalsOf(Sender)
    /\ stage \notin {"toClient", "toServer"} => frame = <<>>

\* An end that has not used its parts since they were cleared has them as they
\* were then, whatever the other end did.
UnusedInv ==
    /\ used \subseteq created
    /\ "Create" \in Erasure \/ created = Ends \/ used = {}
    /\ "server" \notin created => stage = "idle"
    /\ "client" \notin created => stage \in {"idle", "toClient"}
    /\ \A s \in Signals : \A e \in Ends \ used : active[e][s] = 0
    /\ \A s \in Signals : Writer[s] \notin used =>
           ~isChanged[s] /\ s \notin Range(frame) /\ written[s] = Value(Cleared(s))
    /\ "server" \notin used =>
           \A s \in SignalsOf("server") : published[s] = Value(Cleared(s))

\* The copy that the reader of a signal has active when it has read the frame.
SentCopy(s) ==
    IF s \in Range(frame) THEN Staging(active[Reader(s)][s]) ELSE active[Reader(s)][s]

\* The writer has that copy active, too, until the signal changes.
CopyInv ==
    Erasure = {} => \A s \in Signals : (active[Writer[s]][s] = SentCopy(s)) <=> ~isChanged[s]

PairInv == PartsInv /\ UnusedInv /\ CopyInv

\* A frame with the values of this end is on its way or was the last one read.
SentBy(e) == stage \in IF e = "client" THEN {"toServer", "stepped"} ELSE {"toClient", "inStep"}

\* The active copy of the writer says what was written last, and the copy the
\* reader goes over to says what was sent.
ValueInv ==
    Erasure = {} =>
        \A s \in Signals :
            /\ Value(copies[s][active[Writer[s]][s]]) = written[s]
            /\ SentBy(Writer[s]) => Value(copies[s][SentCopy(s)]) = published[s]

LEMMA PairTypes ==
    ASSUME LocalSignalAssumption, PartsInv
    PROVE  /\ \A s \in Signals :
                 /\ isChanged[s] \in BOOLEAN /\ SentCopy(s) \in Copies
                 /\ \A e \in Ends : active[e][s] \in Copies
                 /\ written[s] \in Values(s) /\ published[s] \in Values(s)
           /\ frame \in Seq(Signals) /\ stage \in Stages
<1>1. TypeOK
  BY DEF PartsInv
<1>2. active \in [Ends -> [Signals -> Copies]] /\ isChanged \in [Signals -> BOOLEAN]
  BY <1>1 DEF TypeOK
<1>3. ASSUME NEW s \in Signals
      PROVE  SentCopy(s) \in Copies
  <2>1. active[Reader(s)][s] \in Copies
    BY <1>2, SignalTypes DEF Reader
  <2>. QED
    BY <2>1, TwoCopies DEF SentCopy
<1>. QED
  BY <1>1, <1>2, <1>3 DEF TypeOK, Stages

-----------------------------------------------------------------------------
(* The beginning.                                                          *)

\* All copies are cleared.
LEMMA AllAreCleared ==
    ASSUME LocalSignalAssumption, copies = AllCleared
    PROVE  /\ copies = [s \in Signals |-> [k \in Copies |-> copies[s][k]]]
           /\ \A s \in Signals : \A k \in Copies : /\ copies[s][k] = Cleared(s)
                                                   /\ Proper(s, copies[s][k])
<1>1. \A s \in Signals : Proper(s, Cleared(s))
  BY ClearedCopy
<1>. QED
  BY <1>1 DEF AllCleared

LEMMA PairInit ==
    ASSUME LocalSignalAssumption
    PROVE  Init => PairInv /\ ValueInv
<1>. SUFFICES ASSUME Init PROVE PairInv /\ ValueInv
  OBVIOUS
<1>1. /\ active = [e \in Ends |-> LowerActive] /\ isChanged = [s \in Signals |-> FALSE]
      /\ created = {} /\ used = {} /\ stage = "idle" /\ frame = <<>>
      /\ copies = AllCleared /\ published = written
      /\ written = [s \in Signals |-> Value(Cleared(s))]
  BY DEF Init
<1>2. /\ copies = [s \in Signals |-> [k \in Copies |-> copies[s][k]]]
      /\ \A s \in Signals : \A k \in Copies : /\ copies[s][k] = Cleared(s)
                                              /\ Proper(s, copies[s][k])
  BY <1>1, AllAreCleared
<1>3. \A s \in Signals : /\ written[s] = Value(Cleared(s)) /\ published[s] = Value(Cleared(s))
                         /\ written[s] \in Values(s) /\ ~isChanged[s]
                         /\ \A e \in Ends : active[e][s] = 0
  BY <1>1, ClearedCopy DEF LowerActive
<1>4. ASSUME NEW e \in Ends
      PROVE  Holds(changed[e], e, Marked(e))
  <2>1. Marked(e) = {}
    BY <1>3 DEF Marked, SignalsOf
  <2>2. changed[e] = NewRing(Cardinality(SignalsOf(e)), CHOOSE s \in Signals : TRUE)
    BY DEF Init
  <2>. QED
    BY <2>1, <2>2, SignalsOfEnd, NewRingHolds DEF Holds
<1>5. Range(frame) = {} /\ IsInjective(frame) /\ frame \in Seq(Signals)
  BY <1>1 DEF Range, IsInjective
<1>6. TypeOK
  <2>1. active \in [Ends -> [Signals -> Copies]] /\ isChanged \in [Signals -> BOOLEAN]
    BY <1>1 DEF LowerActive, Copies
  <2>2. \A e \in Ends : changed[e] \in Rings(Cardinality(SignalsOf(e)), Signals)
    BY <1>4 DEF Holds, HoldsOnce
  <2>3. \A s \in Signals : \A k \in Copies :
            copies[s][k] \in [currentLength : 0 .. Length[s], data : [1 .. Length[s] -> Data]]
    BY <1>2 DEF Proper
  <2>. QED
    BY <1>1, <1>3, <1>5, <2>1, <2>2, <2>3 DEF TypeOK
<1>7. changed = [e \in Ends |-> changed[e]] /\ written = [s \in Signals |-> written[s]]
  BY DEF Init
<1>8. PartsInv
  BY <1>1, <1>2, <1>4, <1>5, <1>6, <1>7 DEF PartsInv
<1>9. UnusedInv
  BY <1>1, <1>3, <1>5, SignalTypes DEF UnusedInv, SignalsOf
<1>10. \A s \in Signals : SentCopy(s) = 0 /\ active[Writer[s]][s] = 0
  BY <1>3, <1>5, SignalTypes DEF SentCopy, Reader
<1>11. CopyInv
  BY <1>3, <1>10 DEF CopyInv
<1>12. ValueInv
  BY <1>1, <1>2, <1>3, <1>10 DEF ValueInv, SentBy, Copies
<1>. QED
  BY <1>8, <1>9, <1>11, <1>12 DEF PairInv

-----------------------------------------------------------------------------
(* An end creates its parts.                                               *)

LEMMA CreateStep ==
    ASSUME LocalSignalAssumption, PairInv, NEW e \in Ends, Create(e)
    PROVE  PairInv' /\ ValueInv'
<1>1. /\ e \notin created /\ created' = created \cup {e} /\ copies' = AllCleared
      /\ active' = active /\ isChanged' = isChanged /\ changed' = changed
      /\ stage' = stage /\ frame' = frame
      /\ written' = written /\ published' = published /\ used' = used
  BY DEF Create
<1>2. PartsInv /\ UnusedInv /\ CopyInv
  BY DEF PairInv
<1>3. /\ copies' = [s \in Signals |-> [k \in Copies |-> copies'[s][k]]]
      /\ \A s \in Signals : \A k \in Copies : /\ copies'[s][k] = Cleared(s)
                                              /\ Proper(s, copies'[s][k])
  <2>1. \A s \in Signals : Proper(s, Cleared(s))
    BY ClearedCopy
  <2>. QED
    BY <1>1, <2>1 DEF AllCleared
<1>4. \A o \in Ends : Marked(o)' = Marked(o)
  BY <1>1 DEF Marked, SignalsOf
<1>5. TypeOK'
  <2>1. \A s \in Signals : \A k \in Copies :
            copies'[s][k] \in [currentLength : 0 .. Length[s], data : [1 .. Length[s] -> Data]]
    BY <1>3 DEF Proper
  <2>. QED
    BY <1>1, <1>2, <2>1 DEF PartsInv, TypeOK, SignalsOf
<1>6. PartsInv'
  <2>1. Sender' = Sender
    BY <1>1 DEF Sender
  <2>2. \A o \in Ends : Holds(changed'[o], o, Marked(o)')
    BY <1>1, <1>2, <1>4 DEF PartsInv
  <2>3. changed' = [o \in Ends |-> changed'[o]] /\ written' = [s \in Signals |-> written'[s]]
    BY <1>1, <1>2 DEF PartsInv
  <2>4. /\ IsInjective(frame')
        /\ stage' \in {"toClient", "toServer"} => Range(frame') \subseteq SignalsOf(Sender')
        /\ stage' \notin {"toClient", "toServer"} => frame' = <<>>
    BY <1>1, <1>2, <2>1 DEF PartsInv
  <2>. QED
    BY <1>3, <1>5, <2>2, <2>3, <2>4 DEF PartsInv
<1>7. UnusedInv'
  BY <1>1, <1>2 DEF UnusedInv
<1>8. \A s \in Signals : SentCopy(s)' = SentCopy(s)
  BY <1>1 DEF SentCopy
<1>9. CopyInv'
  BY <1>1, <1>2, <1>8 DEF CopyInv
<1>10. ASSUME Erasure = {}, NEW s \in Signals
       PROVE  /\ Value(copies'[s][active'[Writer[s]][s]]) = written'[s]
              /\ SentBy(Writer[s])' => Value(copies'[s][SentCopy(s)']) = published'[s]
  <2>1. used = {}
    BY <1>1, <1>2, <1>10 DEF UnusedInv
  <2>2. written'[s] = Value(Cleared(s))
    BY <1>1, <1>2, <2>1 DEF UnusedInv
  <2>3. SentBy(Writer[s])' => published'[s] = Value(Cleared(s))
    <3>1. CASE Writer[s] = "server"
      BY <1>1, <1>2, <2>1, <3>1 DEF UnusedInv, SignalsOf
    <3>2. CASE Writer[s] = "client"
      BY <1>1, <1>2, <3>2 DEF UnusedInv, SentBy, Ends
    <3>. QED
      BY <3>1, <3>2, SignalTypes DEF Ends
  <2>4. active'[Writer[s]][s] \in Copies /\ SentCopy(s)' \in Copies
    BY <1>1, <1>2, <1>8, PairTypes, SignalTypes
  <2>. QED
    BY <1>3, <2>2, <2>3, <2>4
<1>. QED
  BY <1>6, <1>7, <1>9, <1>10 DEF PairInv, ValueInv

-----------------------------------------------------------------------------
(* An end writes a signal.                                                 *)

\* What Write does: the queue has room for a signal that changes first, and the
\* copy that is written says the value unless a first change is one of the length
\* only.
LEMMA WriteStep ==
    ASSUME LocalSignalAssumption, PartsInv,
           NEW s \in Signals, NEW value \in Values(s), Write(s, value)
    PROVE  \E changes \in BOOLEAN, target \in Copies :
           LET e      == Writer[s]
               source == active[e][s]
           IN  /\ target = IF changes /\ ~isChanged[s] THEN Staging(source) ELSE source
               /\ isChanged' = [isChanged EXCEPT ![s] = @ \/ changes]
               /\ changed' = IF changes /\ ~isChanged[s]
                             THEN [changed EXCEPT ![e] = PushBack(@, s)] ELSE changed
               /\ active' = [active EXCEPT ![e][s] = target]
               /\ \E stored :
                     /\ Proper(s, stored)
                     /\ copies' = IF changes THEN [copies EXCEPT ![s][target] = stored]
                                             ELSE copies
                     /\ LengthOnly = FALSE /\ changes => Value(stored) = value
               /\ ~changes => Value(copies[s][source]) = value
<1>. DEFINE e == Writer[s]
            source == active[e][s]
            before == copies[s][source]
            dataChanges == DataChanges(before, value)
            changes == LengthChanges(before, value) \/ dataChanges
            first == changes /\ ~isChanged[s]
            target == IF first THEN Staging(source) ELSE source
            old == copies[s][target]
            stored == Copy(Len(value), IF dataChanges THEN Overlay(old.data, value)
                                                      ELSE old.data)
<1>1. /\ e \in Ends /\ Holds(changed[e], e, Marked(e)) /\ s \in SignalsOf(e)
      /\ source \in Copies
  BY SignalTypes, PairTypes DEF PartsInv, SignalsOf
<1>2. target \in Copies /\ changes \in BOOLEAN
  BY <1>1, TwoCopies DEF LengthChanges, DataChanges
<1>3. Proper(s, before) /\ Proper(s, old)
  BY <1>1, <1>2 DEF PartsInv
<1>4. first => ~IsFull(changed[e])
  <2>1. Marked(e) \in SUBSET SignalsOf(e)
    BY DEF Marked
  <2>2. first => s \in SignalsOf(e) \ Marked(e)
    BY <1>1 DEF Marked
  <2>. QED
    BY <1>1, <2>1, <2>2, SignalsOfEnd, RoomForAnother DEF Holds
<1>5. /\ isChanged' = [isChanged EXCEPT ![s] = @ \/ changes]
      /\ changed' = IF first THEN [changed EXCEPT ![e] = PushBack(@, s)] ELSE changed
      /\ active' = [active EXCEPT ![e][s] = target]
      /\ copies' = IF changes THEN [copies EXCEPT ![s][target] = stored] ELSE copies
      /\ LengthOnly \/ value = <<>> \/ dataChanges \/ ~first
  BY <1>4 DEF Write, FirstChange
<1>6. ~changes => Value(before) = value
  BY DEF LengthChanges, DataChanges, Value
<1>7. Proper(s, stored) /\ (LengthOnly = FALSE /\ changes => Value(stored) = value)
  <2>1. CASE dataChanges
    BY <1>3, <2>1, StoredCopy
  <2>2. CASE ~dataChanges
    <3>1. stored = Copy(Len(value), old.data)
      BY <2>2
    <3>2. Proper(s, stored)
      BY <1>3, <3>1, StoredLength
    <3>3. CASE value = <<>>
      BY <1>3, <3>1, <3>3, StoredLength
    <3>4. CASE ~first
      <4>1. old = before
        BY <3>4
      <4>. HIDE DEF old, before
      <4>2. ~DataChanges(old, value)
        BY <2>2, <4>1
      <4>. QED
        BY <1>3, <3>1, <4>2, StoredLength
    <3>. QED
      BY <1>5, <2>2, <3>2, <3>3, <3>4
  <2>. QED
    BY <2>1, <2>2
<1>. HIDE DEF changes, target, stored, before, source
<1>. QED
  BY <1>2, <1>5, <1>6, <1>7 DEF target, before, source

\* The same signal by signal: what becomes of the signal, and what of the others.
Written(s, value, changes, target) ==
    LET e      == Writer[s]
        source == active[e][s]
    IN  /\ target = IF changes /\ ~isChanged[s] THEN Staging(source) ELSE source
        /\ isChanged'[s] <=> isChanged[s] \/ changes
        /\ changed' = IF changes /\ ~isChanged[s]
                      THEN [changed EXCEPT ![e] = PushBack(@, s)] ELSE changed
        /\ active'[e][s] = target
        /\ \A k \in Copies : k # target \/ ~changes => copies'[s][k] = copies[s][k]
        /\ LengthOnly = FALSE => Value(copies'[s][target]) = value

OthersStay(s) ==
    /\ \A t \in Signals \ {s} : /\ isChanged'[t] <=> isChanged[t]
                                /\ copies'[t] = copies[t]
                                /\ \A o \in Ends : active'[o][t] = active[o][t]
    /\ \A o \in Ends \ {Writer[s]} : active'[o] = active[o]

LEMMA WriteEffect ==
    ASSUME LocalSignalAssumption, PartsInv,
           NEW s \in Signals, NEW value \in Values(s), Write(s, value)
    PROVE  /\ \E changes \in BOOLEAN, target \in Copies : Written(s, value, changes, target)
           /\ OthersStay(s)
           /\ active' \in [Ends -> [Signals -> Copies]] /\ isChanged' \in [Signals -> BOOLEAN]
           /\ copies' = [t \in Signals |-> [k \in Copies |-> copies'[t][k]]]
           /\ \A t \in Signals : \A k \in Copies : Proper(t, copies'[t][k])
<1>. DEFINE e == Writer[s]
            source == active[e][s]
<1>1. PICK changes \in BOOLEAN, target \in Copies :
          /\ target = IF changes /\ ~isChanged[s] THEN Staging(source) ELSE source
          /\ isChanged' = [isChanged EXCEPT ![s] = @ \/ changes]
          /\ changed' = IF changes /\ ~isChanged[s]
                        THEN [changed EXCEPT ![e] = PushBack(@, s)] ELSE changed
          /\ active' = [active EXCEPT ![e][s] = target]
          /\ \E stored :
                /\ Proper(s, stored)
                /\ copies' = IF changes THEN [copies EXCEPT ![s][target] = stored]
                                        ELSE copies
                /\ LengthOnly = FALSE /\ changes => Value(stored) = value
          /\ ~changes => Value(copies[s][source]) = value
  BY WriteStep
<1>2. PICK stored :
          /\ Proper(s, stored)
          /\ copies' = IF changes THEN [copies EXCEPT ![s][target] = stored] ELSE copies
          /\ LengthOnly = FALSE /\ changes => Value(stored) = value
  BY <1>1
<1>3. /\ e \in Ends /\ source \in Copies
      /\ active \in [Ends -> [Signals -> Copies]] /\ isChanged \in [Signals -> BOOLEAN]
      /\ copies = [t \in Signals |-> [k \in Copies |-> copies[t][k]]]
      /\ \A t \in Signals : \A k \in Copies : Proper(t, copies[t][k])
  BY SignalTypes, PairTypes DEF PartsInv, TypeOK
<1>4. /\ isChanged'[s] <=> isChanged[s] \/ changes
      /\ \A t \in Signals \ {s} : isChanged'[t] <=> isChanged[t]
      /\ isChanged' \in [Signals -> BOOLEAN]
  <2>1. isChanged[s] \/ changes \in BOOLEAN
    OBVIOUS
  <2>2. isChanged' = [isChanged EXCEPT ![s] = isChanged[s] \/ changes]
    BY <1>1
  <2>. QED
    BY <1>3, <2>1, <2>2
<1>5. active'[e][s] = target /\ active' \in [Ends -> [Signals -> Copies]]
  <2>1. active' = [active EXCEPT ![e] = [active[e] EXCEPT ![s] = target]]
    BY <1>1
  <2>2. active[e] \in [Signals -> Copies]
    BY <1>3
  <2>. QED
    BY <1>3, <2>1, <2>2
<1>6. /\ \A t \in Signals \ {s} : \A o \in Ends : active'[o][t] = active[o][t]
      /\ \A o \in Ends \ {e} : active'[o] = active[o]
  BY <1>1, <1>3
<1>7. CASE changes
  <2>1. copies' = [copies EXCEPT ![s] = [copies[s] EXCEPT ![target] = stored]]
    BY <1>2, <1>7
  <2>2. copies[s] = [k \in Copies |-> copies[s][k]]
    BY <1>3
  <2>3. /\ copies'[s] = [copies[s] EXCEPT ![target] = stored]
        /\ \A t \in Signals \ {s} : copies'[t] = copies[t]
        /\ copies' = [t \in Signals |-> copies'[t]]
    BY <1>3, <2>1
  <2>4. /\ copies'[s][target] = stored
        /\ \A k \in Copies \ {target} : copies'[s][k] = copies[s][k]
        /\ copies'[s] = [k \in Copies |-> copies'[s][k]]
    BY <2>2, <2>3
  <2>5. ASSUME NEW t \in Signals
        PROVE  /\ copies'[t] = [k \in Copies |-> copies'[t][k]]
               /\ \A k \in Copies : Proper(t, copies'[t][k])
    <3>1. CASE t = s
      BY <1>2, <1>3, <2>4, <3>1
    <3>2. CASE t # s
      <4>1. copies[t] = [k \in Copies |-> copies[t][k]] /\ copies'[t] = copies[t]
        BY <1>3, <2>3, <3>2
      <4>. QED
        BY <1>3, <4>1
    <3>. QED
      BY <3>1, <3>2
  <2>6. copies' = [t \in Signals |-> [k \in Copies |-> copies'[t][k]]]
    BY <2>3, <2>5
  <2>7. Written(s, value, changes, target)
    BY <1>1, <1>2, <1>4, <1>5, <1>7, <2>4 DEF Written
  <2>8. OthersStay(s)
    BY <1>4, <1>6, <2>3 DEF OthersStay
  <2>. QED
    BY <1>4, <1>5, <2>5, <2>6, <2>7, <2>8
<1>8. CASE ~changes
  <2>1. copies' = copies /\ target = source
    BY <1>1, <1>2, <1>8
  <2>2. Value(copies'[s][target]) = value
    BY <1>1, <1>8, <2>1
  <2>3. /\ copies' = [t \in Signals |-> [k \in Copies |-> copies'[t][k]]]
        /\ \A t \in Signals : \A k \in Copies : Proper(t, copies'[t][k])
    BY <1>3, <2>1
  <2>4. Written(s, value, changes, target)
    BY <1>1, <1>4, <1>5, <1>8, <2>1, <2>2 DEF Written
  <2>5. OthersStay(s)
    BY <1>4, <1>6, <2>1 DEF OthersStay
  <2>. QED
    BY <1>4, <1>5, <2>3, <2>4, <2>5
<1>. QED
  BY <1>7, <1>8

LEMMA WriteKeeps ==
    ASSUME LocalSignalAssumption, PairInv,
           NEW s \in Signals, NEW value \in Values(s), Write(s, value)
    PROVE  PairInv'
<1>. DEFINE e == Writer[s]
            source == active[e][s]
<1>1. PartsInv /\ UnusedInv /\ CopyInv
  BY DEF PairInv
<1>2. PICK changes \in BOOLEAN, target \in Copies : Written(s, value, changes, target)
  BY <1>1, WriteEffect
<1>3. /\ target = IF changes /\ ~isChanged[s] THEN Staging(source) ELSE source
      /\ isChanged'[s] <=> isChanged[s] \/ changes
      /\ changed' = IF changes /\ ~isChanged[s]
                    THEN [changed EXCEPT ![e] = PushBack(@, s)] ELSE changed
      /\ active'[e][s] = target
  BY <1>2 DEF Written
<1>4. /\ \A t \in Signals \ {s} : /\ isChanged'[t] <=> isChanged[t]
                                  /\ \A o \in Ends : active'[o][t] = active[o][t]
      /\ \A o \in Ends \ {e} : active'[o] = active[o]
      /\ active' \in [Ends -> [Signals -> Copies]] /\ isChanged' \in [Signals -> BOOLEAN]
      /\ copies' = [t \in Signals |-> [k \in Copies |-> copies'[t][k]]]
      /\ \A t \in Signals : \A k \in Copies : Proper(t, copies'[t][k])
  BY <1>1, WriteEffect DEF OthersStay
<1>5. /\ written' = [written EXCEPT ![s] = value] /\ used' = used \cup {e}
      /\ created' = created /\ stage' = stage /\ frame' = frame
      /\ published' = published /\ e \in created
      /\ "Create" \in Erasure \/ created = Ends
  BY DEF Write, MayWrite
<1>6. e \in Ends /\ s \in SignalsOf(e) /\ source \in Copies
  BY <1>1, SignalTypes, PairTypes DEF SignalsOf
<1>7. /\ written' = [t \in Signals |-> written'[t]] /\ written'[s] = value
      /\ \A t \in Signals \ {s} : written'[t] = written[t]
      /\ changed' = [o \in Ends |-> changed'[o]]
  BY <1>1, <1>3, <1>5 DEF PartsInv
<1>8. ASSUME NEW o \in Ends
      PROVE  Holds(changed'[o], o, Marked(o)')
  <2>1. Holds(changed[o], o, Marked(o)) /\ Marked(o) \in SUBSET SignalsOf(o)
    BY <1>1 DEF PartsInv, Marked
  <2>2. CASE o = e /\ changes /\ ~isChanged[s]
    <3>1. changed'[o] = PushBack(changed[o], s)
      BY <1>1, <1>3, <2>2 DEF PartsInv
    <3>2. Marked(o)' = Marked(o) \cup {s}
      BY <1>3, <1>4, <1>6, <2>2 DEF Marked, SignalsOf
    <3>3. s \in SignalsOf(o) \ Marked(o)
      BY <1>6, <2>2 DEF Marked
    <3>. QED
      BY <2>1, <3>1, <3>2, <3>3, SignalsOfEnd, HoldsAnother DEF Holds
  <2>3. CASE ~(o = e /\ changes /\ ~isChanged[s])
    <3>1. changed'[o] = changed[o]
      BY <1>1, <1>3, <2>3 DEF PartsInv
    <3>2. Marked(o)' = Marked(o)
      BY <1>3, <1>4, <1>6, <2>3 DEF Marked, SignalsOf
    <3>. QED
      BY <2>1, <3>1, <3>2
  <2>. QED
    BY <2>2, <2>3
<1>9. TypeOK'
  <2>1. \A t \in Signals : \A k \in Copies :
            copies'[t][k] \in [currentLength : 0 .. Length[t], data : [1 .. Length[t] -> Data]]
    BY <1>4 DEF Proper
  <2>2. \A o \in Ends : changed'[o] \in Rings(Cardinality(SignalsOf(o)), Signals)
    BY <1>8 DEF Holds, HoldsOnce
  <2>3. \A t \in Signals : written'[t] \in Values(t) /\ published'[t] \in Values(t)
    BY <1>1, <1>5, <1>7 DEF PartsInv, TypeOK
  <2>4. /\ created' \subseteq Ends /\ used' \subseteq Ends
        /\ stage' \in Stages /\ frame' \in Seq(Signals)
    BY <1>1, <1>5, <1>6 DEF PartsInv, TypeOK, Stages
  <2>. QED
    BY <1>4, <2>1, <2>2, <2>3, <2>4 DEF TypeOK, Stages
<1>10. PartsInv'
  <2>1. Sender' = Sender
    BY <1>5 DEF Sender
  <2>2. /\ IsInjective(frame')
        /\ stage' \in {"toClient", "toServer"} => Range(frame') \subseteq SignalsOf(Sender')
        /\ stage' \notin {"toClient", "toServer"} => frame' = <<>>
    BY <1>1, <1>5, <2>1 DEF PartsInv
  <2>. QED
    BY <1>4, <1>7, <1>8, <1>9, <2>2 DEF PartsInv
<1>11. UnusedInv'
  <2>1. \A t \in Signals : \A o \in Ends \ used' : active'[o][t] = 0
    BY <1>1, <1>4, <1>5 DEF UnusedInv
  <2>2. \A t \in Signals : Writer[t] \notin used' =>
            ~isChanged'[t] /\ t \notin Range(frame') /\ written'[t] = Value(Cleared(t))
    BY <1>1, <1>4, <1>5, <1>7 DEF UnusedInv
  <2>. QED
    BY <1>1, <1>5, <2>1, <2>2 DEF UnusedInv
<1>12. ASSUME NEW t \in Signals
       PROVE  SentCopy(t)' = SentCopy(t)
  <2>1. active'[Reader(t)][t] = active[Reader(t)][t]
    BY <1>4, SignalTypes DEF Reader
  <2>. QED
    BY <1>5, <2>1 DEF SentCopy, Reader
<1>13. ASSUME Erasure = {}, NEW t \in Signals
       PROVE  (active'[Writer[t]][t] = SentCopy(t)') <=> ~isChanged'[t]
  <2>1. (active[Writer[t]][t] = SentCopy(t)) <=> ~isChanged[t]
    BY <1>1, <1>5, <1>13 DEF CopyInv
  <2>2. CASE t = s
    <3>1. source \in Copies /\ SentCopy(s) \in Copies
      BY <1>1, <1>6, PairTypes
    <3>. QED
      BY <1>3, <1>12, <2>1, <2>2, <3>1, TwoCopies
  <2>3. CASE t # s
    BY <1>4, <1>12, <2>1, <2>3, SignalTypes
  <2>. QED
    BY <2>2, <2>3
<1>. QED
  BY <1>10, <1>11, <1>13 DEF PairInv, CopyInv

\* A write leaves the copies alone that the reader has or goes over to.
LEMMA WriteSaysValue ==
    ASSUME LocalSignalAssumption, LengthOnly = FALSE, PairInv, ValueInv,
           NEW s \in Signals, NEW value \in Values(s), Write(s, value)
    PROVE  ValueInv'
<1>. DEFINE e == Writer[s]
            source == active[e][s]
<1>1. PartsInv /\ CopyInv
  BY DEF PairInv
<1>2. PICK changes \in BOOLEAN, target \in Copies : Written(s, value, changes, target)
  BY <1>1, WriteEffect
<1>3. /\ target = IF changes /\ ~isChanged[s] THEN Staging(source) ELSE source
      /\ isChanged'[s] <=> isChanged[s] \/ changes
      /\ active'[e][s] = target
      /\ \A k \in Copies : k # target \/ ~changes => copies'[s][k] = copies[s][k]
      /\ Value(copies'[s][target]) = value
  BY <1>2 DEF Written
<1>4. /\ \A t \in Signals \ {s} : /\ copies'[t] = copies[t]
                                  /\ \A o \in Ends : active'[o][t] = active[o][t]
      /\ \A o \in Ends \ {e} : active'[o] = active[o]
  BY <1>1, WriteEffect DEF OthersStay
<1>5. /\ written' = [written EXCEPT ![s] = value]
      /\ stage' = stage /\ frame' = frame /\ published' = published
  BY DEF Write
<1>6. written'[s] = value /\ \A t \in Signals \ {s} : written'[t] = written[t]
  BY <1>1, <1>5 DEF PartsInv
<1>7. \A t \in Signals : SentBy(Writer[t])' <=> SentBy(Writer[t])
  BY <1>5 DEF SentBy
<1>8. ASSUME NEW t \in Signals
      PROVE  SentCopy(t)' = SentCopy(t)
  <2>1. active'[Reader(t)][t] = active[Reader(t)][t]
    BY <1>4, SignalTypes DEF Reader
  <2>. QED
    BY <1>5, <2>1 DEF SentCopy, Reader
<1>9. ASSUME Erasure = {}, NEW t \in Signals
      PROVE  /\ Value(copies'[t][active'[Writer[t]][t]]) = written'[t]
             /\ SentBy(Writer[t])' => Value(copies'[t][SentCopy(t)']) = published'[t]
  <2>1. /\ (active[Writer[t]][t] = SentCopy(t)) <=> ~isChanged[t]
        /\ Value(copies[t][active[Writer[t]][t]]) = written[t]
        /\ SentBy(Writer[t]) => Value(copies[t][SentCopy(t)]) = published[t]
        /\ SentCopy(t) \in Copies /\ active[Writer[t]][t] \in Copies
    BY <1>1, <1>5, <1>9, PairTypes, SignalTypes DEF CopyInv, ValueInv
  <2>2. CASE t = s
    <3>1. changes => SentCopy(s) # target
      BY <1>3, <2>1, <2>2, TwoCopies
    <3>2. copies'[s][SentCopy(s)] = copies[s][SentCopy(s)]
      BY <1>3, <2>1, <2>2, <3>1
    <3>. QED
      BY <1>3, <1>5, <1>6, <1>7, <1>8, <2>1, <2>2, <3>2
  <2>3. CASE t # s
    BY <1>4, <1>5, <1>6, <1>7, <1>8, <2>1, <2>3, SignalTypes
  <2>. QED
    BY <2>2, <2>3
<1>. QED
  BY <1>9 DEF ValueInv

-----------------------------------------------------------------------------
(* An end sends a frame.                                                   *)

\* The end that sends has its parts, and whoever sends, the server has.
Sends(e) ==
    /\ frame = <<>> /\ "server" \in created /\ e \in created
    /\ stage' = IF e = "server" THEN "toClient" ELSE "toServer"
    /\ Serialize(e)

LEMMA SendIsSends ==
    ASSUME PairInv, SendStep
    PROVE  Sends("server")
  BY DEF PairInv, PartsInv, UnusedInv, SendStep, Sends

LEMMA SendOkIsSends ==
    ASSUME PairInv, SendStepOk
    PROVE  Sends("client")
  BY DEF PairInv, PartsInv, UnusedInv, SendStepOk, Sends

\* What a frame takes along: the signals that are marked, and no values.
LEMMA SendStepEffect ==
    ASSUME LocalSignalAssumption, PartsInv, NEW e \in Ends, Sends(e)
    PROVE  /\ frame' \in Seq(Signals) /\ IsInjective(frame') /\ Range(frame') = Marked(e)
           /\ isChanged' \in [Signals -> BOOLEAN]
           /\ \A s \in Signals : isChanged'[s] <=> isChanged[s] /\ s \notin Marked(e)
<1>1. Holds(changed[e], e, Marked(e))
  BY DEF PartsInv
<1>2. /\ frame' = Contents(changed[e])
      /\ isChanged' = [s \in Signals |-> isChanged[s] /\ s \notin Range(Contents(changed[e]))]
  BY DEF Sends, Serialize, Sent
<1>3. \A s \in Signals : isChanged[s] \in BOOLEAN
  BY PairTypes
<1>. QED
  BY <1>1, <1>2, <1>3, QueueSends

LEMMA SendKeeps ==
    ASSUME LocalSignalAssumption, PairInv, NEW e \in Ends, Sends(e)
    PROVE  PairInv'
<1>1. PartsInv /\ UnusedInv /\ CopyInv
  BY DEF PairInv
<1>2. /\ frame' \in Seq(Signals) /\ IsInjective(frame') /\ Range(frame') = Marked(e)
      /\ isChanged' \in [Signals -> BOOLEAN]
      /\ \A s \in Signals : isChanged'[s] <=> isChanged[s] /\ s \notin Marked(e)
  BY <1>1, SendStepEffect
<1>3. /\ frame = <<>> /\ "server" \in created /\ e \in created
      /\ stage' = IF e = "server" THEN "toClient" ELSE "toServer"
      /\ changed' = [changed EXCEPT ![e] = Drain(@)]
      /\ published' = [s \in Signals |-> IF Writer[s] = e THEN written[s] ELSE published[s]]
      /\ copies' = copies /\ active' = active /\ created' = created
      /\ written' = written /\ used' = used
  BY DEF Sends, Serialize
<1>4. ASSUME NEW o \in Ends
      PROVE  Holds(changed'[o], o, Marked(o)')
  <2>1. Holds(changed[o], o, Marked(o))
    BY <1>1 DEF PartsInv
  <2>2. Marked(o)' = Marked(o) \ Marked(e)
    BY <1>2 DEF Marked, SignalsOf
  <2>3. CASE o = e
    <3>1. Marked(o)' = {}
      BY <2>2, <2>3
    <3>2. changed'[o] = Drain(changed[o])
      BY <1>1, <1>3, <2>3 DEF PartsInv
    <3>. QED
      BY <2>1, <3>1, <3>2, SignalsOfEnd, HoldsNoneMore DEF Holds
  <2>4. CASE o # e
    <3>1. Marked(o)' = Marked(o)
      BY <2>2, <2>4 DEF Marked, SignalsOf
    <3>2. changed'[o] = changed[o]
      BY <1>1, <1>3, <2>4 DEF PartsInv
    <3>. QED
      BY <2>1, <3>1, <3>2
  <2>. QED
    BY <2>3, <2>4
<1>5. TypeOK'
  <2>1. \A o \in Ends : changed'[o] \in Rings(Cardinality(SignalsOf(o)), Signals)
    BY <1>4 DEF Holds, HoldsOnce
  <2>2. \A s \in Signals : written'[s] \in Values(s) /\ published'[s] \in Values(s)
    BY <1>1, <1>3 DEF PartsInv, TypeOK
  <2>. QED
    BY <1>1, <1>2, <1>3, <2>1, <2>2 DEF PartsInv, TypeOK
<1>6. PartsInv'
  <2>1. Sender' = e
    BY <1>3 DEF Sender, Ends
  <2>2. Range(frame') \subseteq SignalsOf(Sender')
    BY <1>2, <2>1 DEF Marked
  <2>3. changed' = [o \in Ends |-> changed'[o]]
    BY <1>1, <1>3 DEF PartsInv
  <2>. QED
    BY <1>1, <1>2, <1>3, <1>4, <1>5, <2>2, <2>3 DEF PartsInv
<1>7. UnusedInv'
  <2>1. \A s \in Signals : Writer[s] \notin used' =>
            ~isChanged'[s] /\ s \notin Range(frame') /\ written'[s] = Value(Cleared(s))
    BY <1>1, <1>2, <1>3 DEF UnusedInv, Marked
  <2>2. "server" \notin used' =>
            \A s \in SignalsOf("server") : published'[s] = Value(Cleared(s))
    BY <1>1, <1>3 DEF UnusedInv, SignalsOf
  <2>3. "client" \notin created' => stage' \in {"idle", "toClient"}
    BY <1>3 DEF Ends
  <2>. QED
    BY <1>1, <1>3, <2>1, <2>2, <2>3 DEF UnusedInv
<1>8. ASSUME Erasure = {}, NEW s \in Signals
      PROVE  (active'[Writer[s]][s] = SentCopy(s)') <=> ~isChanged'[s]
  <2>1. /\ (active[Writer[s]][s] = active[Reader(s)][s]) <=> ~isChanged[s]
        /\ active[Reader(s)][s] \in Copies /\ active[Writer[s]][s] \in Copies
    BY <1>1, <1>3, <1>8, PairTypes, SignalTypes DEF CopyInv, SentCopy, Reader, Range
  <2>2. SentCopy(s)' = IF s \in Marked(e) THEN Staging(active[Reader(s)][s])
                                          ELSE active[Reader(s)][s]
    BY <1>2, <1>3 DEF SentCopy, Reader
  <2>3. s \in Marked(e) => isChanged[s]
    BY DEF Marked
  <2>. QED
    BY <1>2, <1>3, <2>1, <2>2, <2>3, TwoCopies
<1>. QED
  BY <1>6, <1>7, <1>8 DEF PairInv, CopyInv

\* A frame that takes a signal along makes what its writer wrote last what the
\* reader goes over to.
LEMMA SendSaysValue ==
    ASSUME LocalSignalAssumption, PairInv, ValueInv, NEW e \in Ends, Sends(e)
    PROVE  ValueInv'
<1>1. PartsInv /\ CopyInv /\ CopyInv'
  BY SendKeeps DEF PairInv
<1>2. /\ Range(frame') = Marked(e)
      /\ \A s \in Signals : isChanged'[s] <=> isChanged[s] /\ s \notin Marked(e)
  BY <1>1, SendStepEffect
<1>3. /\ stage' = IF e = "server" THEN "toClient" ELSE "toServer"
      /\ published' = [s \in Signals |-> IF Writer[s] = e THEN written[s] ELSE published[s]]
      /\ copies' = copies /\ active' = active /\ written' = written
  BY DEF Sends, Serialize
<1>4. ASSUME Erasure = {}, NEW s \in Signals
      PROVE  /\ Value(copies'[s][active'[Writer[s]][s]]) = written'[s]
             /\ SentBy(Writer[s])' => Value(copies'[s][SentCopy(s)']) = published'[s]
  <2>1. Value(copies[s][active[Writer[s]][s]]) = written[s]
    BY <1>3, <1>4 DEF ValueInv
  <2>2. SentBy(Writer[s])' => Writer[s] = e
    BY <1>3, SignalTypes DEF SentBy, Ends
  <2>3. Writer[s] = e => ~isChanged'[s]
    BY <1>2 DEF Marked, SignalsOf
  <2>4. Writer[s] = e => active'[Writer[s]][s] = SentCopy(s)'
    BY <1>1, <1>4, <2>3 DEF CopyInv
  <2>. QED
    BY <1>3, <2>1, <2>2, <2>4
<1>. QED
  BY <1>4 DEF ValueInv

-----------------------------------------------------------------------------
(* An end reads a frame.                                                   *)

\* Reading a signal makes the copy active that was sent.
LEMMA ReadEffect ==
    ASSUME LocalSignalAssumption, PartsInv, NEW o \in Ends, ReadSignal(o)
    PROVE  /\ Head(frame) \in Signals /\ Reader(Head(frame)) = o
           /\ Writer[Head(frame)] # o /\ Head(frame) \in Range(frame)
           /\ frame' \in Seq(Signals) /\ IsInjective(frame')
           /\ Range(frame') = Range(frame) \ {Head(frame)}
           /\ active' \in [Ends -> [Signals -> Copies]]
           /\ active'[o][Head(frame)] = Staging(active[o][Head(frame)])
           /\ \A s \in Signals \ {Head(frame)} : active'[o][s] = active[o][s]
           /\ \A e \in Ends \ {o} : active'[e] = active[e]
<1>1. /\ frame \in Seq(Signals) /\ frame # <<>> /\ IsInjective(frame) /\ frame' = Tail(frame)
      /\ active' = [active EXCEPT ![o][Head(frame)] = Staging(@)]
      /\ Range(frame) \subseteq SignalsOf(Peer(o))
  BY PairTypes DEF ReadSignal, Reads, PartsInv, Sender, Peer
<1>2. /\ Head(frame) \in Range(frame) /\ Head(frame) \in Signals
      /\ frame' \in Seq(Signals) /\ IsInjective(frame')
      /\ Range(frame') = Range(frame) \ {Head(frame)}
  BY <1>1, RestOfFrame
<1>3. PICK h \in Signals : h = Head(frame)
  BY <1>2
<1>4. Reader(h) = o /\ Writer[h] # o
  BY <1>1, <1>2, <1>3 DEF SignalsOf, Reader, Peer, Ends
<1>5. active \in [Ends -> [Signals -> Copies]] /\ active[o] \in [Signals -> Copies]
  BY DEF PartsInv, TypeOK
<1>6. /\ active' = [active EXCEPT ![o] = [active[o] EXCEPT ![h] = Staging(active[o][h])]]
      /\ Staging(active[o][h]) \in Copies
  BY <1>1, <1>3, <1>5, TwoCopies
<1>7. /\ active' \in [Ends -> [Signals -> Copies]]
      /\ active'[o][h] = Staging(active[o][h])
      /\ \A s \in Signals \ {h} : active'[o][s] = active[o][s]
      /\ \A e \in Ends \ {o} : active'[e] = active[e]
  BY <1>5, <1>6
<1>. QED
  BY <1>2, <1>3, <1>4, <1>7

LEMMA ReadKeeps ==
    ASSUME LocalSignalAssumption, PairInv, NEW o \in Ends, ReadSignal(o)
    PROVE  PairInv' /\ (ValueInv => ValueInv')
<1>1. PartsInv /\ UnusedInv /\ CopyInv
  BY DEF PairInv
<1>2. PICK h \in Signals : h = Head(frame)
  BY <1>1, ReadEffect
<1>3. /\ Reader(h) = o /\ Writer[h] # o /\ h \in Range(frame)
      /\ frame' \in Seq(Signals) /\ IsInjective(frame')
      /\ Range(frame') = Range(frame) \ {h}
      /\ active' \in [Ends -> [Signals -> Copies]]
      /\ active'[o][h] = Staging(active[o][h])
      /\ \A s \in Signals \ {h} : active'[o][s] = active[o][s]
      /\ \A e \in Ends \ {o} : active'[e] = active[e]
  BY <1>1, <1>2, ReadEffect
<1>4. /\ Reads(o) /\ used' = used \cup {o} /\ o \in created
      /\ copies' = copies /\ isChanged' = isChanged /\ changed' = changed
      /\ created' = created /\ stage' = stage /\ written' = written
      /\ published' = published
  BY <1>1 DEF ReadSignal, Reads, UnusedInv
<1>5. \A e \in Ends : Marked(e)' = Marked(e)
  BY <1>4 DEF Marked, SignalsOf
<1>6. TypeOK'
  BY <1>1, <1>3, <1>4 DEF PartsInv, TypeOK
<1>7. PartsInv'
  <2>1. Sender' = Sender
    BY <1>4 DEF Sender
  <2>2. \A e \in Ends : Holds(changed'[e], e, Marked(e)')
    BY <1>1, <1>4, <1>5 DEF PartsInv
  <2>3. /\ stage' \in {"toClient", "toServer"} => Range(frame') \subseteq SignalsOf(Sender')
        /\ stage' \in {"toClient", "toServer"}
    BY <1>1, <1>3, <1>4, <2>1 DEF PartsInv, Reads
  <2>. QED
    BY <1>1, <1>3, <1>4, <1>6, <2>2, <2>3 DEF PartsInv
<1>8. UnusedInv'
  <2>1. \A s \in Signals : \A e \in Ends \ used' : active'[e][s] = 0
    BY <1>1, <1>3, <1>4 DEF UnusedInv
  <2>. QED
    BY <1>1, <1>3, <1>4, <2>1 DEF UnusedInv
<1>9. ASSUME NEW s \in Signals
      PROVE  /\ SentCopy(s)' = SentCopy(s)
             /\ active'[Writer[s]][s] = active[Writer[s]][s]
  <2>1. CASE s = h
    BY <1>3, <2>1, SignalTypes DEF SentCopy, Reader
  <2>2. CASE s # h
    <3>1. \A e \in Ends : active'[e][s] = active[e][s]
      BY <1>3, <2>2
    <3>2. s \in Range(frame') <=> s \in Range(frame)
      BY <1>3, <2>2
    <3>. QED
      BY <3>1, <3>2, SignalTypes DEF SentCopy, Reader
  <2>. QED
    BY <2>1, <2>2
<1>10. CopyInv'
  BY <1>1, <1>4, <1>9 DEF CopyInv
<1>11. ValueInv => ValueInv'
  BY <1>4, <1>9 DEF ValueInv, SentBy
<1>. QED
  BY <1>7, <1>8, <1>10, <1>11 DEF PairInv

LEMMA EndReadKeeps ==
    ASSUME LocalSignalAssumption, PairInv, NEW o \in Ends, EndRead(o)
    PROVE  PairInv' /\ (ValueInv => ValueInv')
<1>1. PartsInv /\ UnusedInv /\ CopyInv
  BY DEF PairInv
<1>2. /\ Reads(o) /\ frame = <<>> /\ stage' = IF o = "client" THEN "inStep" ELSE "stepped"
      /\ copies' = copies /\ active' = active /\ isChanged' = isChanged /\ changed' = changed
      /\ created' = created /\ frame' = frame /\ written' = written
      /\ published' = published /\ used' = used
  BY DEF EndRead, memory, history
<1>3. "client" \in created /\ "server" \in created
  BY <1>1, <1>2 DEF UnusedInv, Reads
<1>4. \A e \in Ends : Marked(e)' = Marked(e)
  BY <1>2 DEF Marked, SignalsOf
<1>5. TypeOK'
  BY <1>1, <1>2 DEF PartsInv, TypeOK
<1>6. PartsInv'
  <2>1. \A e \in Ends : Holds(changed'[e], e, Marked(e)')
    BY <1>1, <1>2, <1>4 DEF PartsInv
  <2>2. stage' \notin {"toClient", "toServer"}
    BY <1>2
  <2>. QED
    BY <1>1, <1>2, <1>5, <2>1, <2>2 DEF PartsInv
<1>7. UnusedInv'
  BY <1>1, <1>2, <1>3 DEF UnusedInv
<1>8. \A s \in Signals : SentCopy(s)' = SentCopy(s)
  BY <1>2 DEF SentCopy
<1>9. CopyInv'
  BY <1>1, <1>2, <1>8 DEF CopyInv
<1>10. \A s \in Signals : SentBy(Writer[s])' => SentBy(Writer[s])
  BY <1>2, SignalTypes DEF SentBy, Reads, Ends
<1>11. ValueInv => ValueInv'
  BY <1>2, <1>8, <1>10 DEF ValueInv
<1>. QED
  BY <1>6, <1>7, <1>9, <1>11 DEF PairInv

-----------------------------------------------------------------------------
(* The client starts the simulation.                                       *)

LEMMA StartKeeps ==
    ASSUME LocalSignalAssumption, PairInv, Start
    PROVE  PairInv' /\ ValueInv'
<1>1. PartsInv /\ UnusedInv /\ CopyInv
  BY DEF PairInv
<1>2. /\ created = Ends /\ stage \in {"idle", "stepped"} /\ stage' = "idle"
      /\ copies' = AllCleared
      /\ active' = [active EXCEPT !["client"] = LowerActive]
      /\ isChanged' = [s \in Signals |-> isChanged[s] /\ Writer[s] # "client"]
      /\ changed' = [changed EXCEPT !["client"] = Clear(@)]
      /\ written' = [s \in Signals |-> IF Writer[s] = "client" THEN Value(Cleared(s))
                                                             ELSE written[s]]
      /\ used' = used \ {"client"}
      /\ "Start" \in Erasure \/ "server" \notin used
      /\ created' = created /\ frame' = frame /\ published' = published
  BY DEF Start, ClearedOrder
<1>3. frame = <<>> /\ Range(frame) = {} /\ used \subseteq Ends
  BY <1>1, <1>2 DEF PartsInv, TypeOK, Range
<1>4. /\ copies' = [s \in Signals |-> [k \in Copies |-> copies'[s][k]]]
      /\ \A s \in Signals : \A k \in Copies : /\ copies'[s][k] = Cleared(s)
                                              /\ Proper(s, copies'[s][k])
  <2>1. \A s \in Signals : Proper(s, Cleared(s))
    BY ClearedCopy
  <2>. QED
    BY <1>2, <2>1 DEF AllCleared
<1>5. ASSUME NEW s \in Signals
      PROVE  /\ isChanged'[s] <=> isChanged[s] /\ Writer[s] = "server"
             /\ active'["client"][s] = 0 /\ active'["server"][s] = active["server"][s]
             /\ written'[s] = IF Writer[s] = "client" THEN Value(Cleared(s)) ELSE written[s]
             /\ written'[s] \in Values(s) /\ published'[s] \in Values(s)
  <2>1. active \in [Ends -> [Signals -> Copies]] /\ isChanged \in [Signals -> BOOLEAN]
    BY <1>1 DEF PartsInv, TypeOK
  <2>2. active'["client"] = LowerActive /\ active'["server"] = active["server"]
    BY <1>2, <2>1 DEF Ends
  <2>3. isChanged'[s] <=> isChanged[s] /\ Writer[s] = "server"
    BY <1>2, <2>1, SignalTypes DEF Ends
  <2>4. written[s] \in Values(s) /\ published[s] \in Values(s) /\ Value(Cleared(s)) \in Values(s)
    BY <1>1, PairTypes, ClearedCopy
  <2>. QED
    BY <1>2, <2>2, <2>3, <2>4 DEF LowerActive
<1>6. active' \in [Ends -> [Signals -> Copies]] /\ isChanged' \in [Signals -> BOOLEAN]
  BY <1>1, <1>2 DEF PartsInv, TypeOK, LowerActive, Copies
<1>7. ASSUME NEW o \in Ends
      PROVE  Holds(changed'[o], o, Marked(o)')
  <2>1. Holds(changed[o], o, Marked(o))
    BY <1>1 DEF PartsInv
  <2>2. CASE o = "client"
    <3>1. Marked(o)' = {}
      BY <1>5, <2>2 DEF Marked, SignalsOf
    <3>2. changed'[o] = Clear(changed[o])
      BY <1>1, <1>2, <2>2 DEF PartsInv
    <3>. QED
      BY <2>1, <3>1, <3>2, SignalsOfEnd, HoldsNoneMore DEF Holds
  <2>3. CASE o = "server"
    <3>1. Marked(o)' = Marked(o)
      BY <1>5, <2>3 DEF Marked, SignalsOf
    <3>2. changed'[o] = changed[o]
      BY <1>1, <1>2, <2>3 DEF PartsInv
    <3>. QED
      BY <2>1, <3>1, <3>2
  <2>. QED
    BY <2>2, <2>3 DEF Ends
<1>8. TypeOK'
  <2>1. \A s \in Signals : \A k \in Copies :
            copies'[s][k] \in [currentLength : 0 .. Length[s], data : [1 .. Length[s] -> Data]]
    BY <1>4 DEF Proper
  <2>2. \A o \in Ends : changed'[o] \in Rings(Cardinality(SignalsOf(o)), Signals)
    BY <1>7 DEF Holds, HoldsOnce
  <2>3. frame' \in Seq(Signals) /\ created' \subseteq Ends
    BY <1>1, <1>2 DEF PartsInv, TypeOK
  <2>4. used' \subseteq Ends
    BY <1>2, <1>3
  <2>. QED
    BY <1>2, <1>5, <1>6, <2>1, <2>2, <2>3, <2>4 DEF TypeOK
<1>9. PartsInv'
  <2>1. changed' = [o \in Ends |-> changed'[o]] /\ written' = [s \in Signals |-> written'[s]]
    BY <1>1, <1>2 DEF PartsInv
  <2>2. IsInjective(frame')
    BY <1>1, <1>2 DEF PartsInv
  <2>. QED
    BY <1>2, <1>3, <1>4, <1>7, <1>8, <2>1, <2>2 DEF PartsInv
<1>10. UnusedInv'
  <2>1. \A s \in Signals : \A e \in Ends \ used' : active'[e][s] = 0
    BY <1>1, <1>2, <1>5 DEF UnusedInv, Ends
  <2>2. \A s \in Signals : Writer[s] \notin used' =>
            ~isChanged'[s] /\ s \notin Range(frame') /\ written'[s] = Value(Cleared(s))
    BY <1>1, <1>2, <1>3, <1>5, SignalTypes DEF UnusedInv, Ends
  <2>3. "client" \in created' /\ "server" \in created'
    BY <1>2 DEF Ends
  <2>. QED
    BY <1>1, <1>2, <2>1, <2>2, <2>3 DEF UnusedInv
<1>11. ASSUME Erasure = {}, NEW s \in Signals
       PROVE  /\ (active'[Writer[s]][s] = SentCopy(s)') <=> ~isChanged'[s]
              /\ Value(copies'[s][active'[Writer[s]][s]]) = written'[s]
              /\ ~SentBy(Writer[s])'
  <2>1. "server" \notin used
    BY <1>2, <1>11
  <2>2. \A e \in Ends : active'[e][s] = 0
    BY <1>1, <1>5, <2>1 DEF UnusedInv, Ends
  <2>3. ~isChanged'[s] /\ written'[s] = Value(Cleared(s))
    BY <1>1, <1>5, <2>1, SignalTypes DEF UnusedInv, Ends
  <2>4. SentCopy(s)' = 0 /\ active'[Writer[s]][s] = 0
    BY <1>2, <1>3, <2>2, SignalTypes DEF SentCopy, Reader
  <2>. QED
    BY <1>2, <1>4, <2>3, <2>4 DEF SentBy, Copies
<1>. QED
  BY <1>9, <1>10, <1>11 DEF PairInv, CopyInv, ValueInv

-----------------------------------------------------------------------------
(* The theorems.                                                           *)

LEMMA PairStutters ==
    ASSUME PairInv, UNCHANGED vars
    PROVE  PairInv' /\ (ValueInv => ValueInv')
<1>1. /\ copies' = copies /\ active' = active /\ isChanged' = isChanged /\ changed' = changed
      /\ created' = created /\ stage' = stage /\ frame' = frame /\ written' = written
      /\ published' = published /\ used' = used
  BY DEF vars, memory, history
<1>2. \A e \in Ends : Marked(e)' = Marked(e)
  BY <1>1 DEF Marked, SignalsOf
<1>3. \A s \in Signals : SentCopy(s)' = SentCopy(s)
  BY <1>1 DEF SentCopy
<1>4. TypeOK'
  BY <1>1 DEF PairInv, PartsInv, TypeOK
<1>5. PartsInv'
  <2>1. Sender' = Sender
    BY <1>1 DEF Sender
  <2>2. \A e \in Ends : Holds(changed'[e], e, Marked(e)')
    BY <1>1, <1>2 DEF PairInv, PartsInv
  <2>. QED
    BY <1>1, <1>4, <2>1, <2>2 DEF PairInv, PartsInv
<1>6. UnusedInv'
  BY <1>1 DEF PairInv, UnusedInv
<1>7. CopyInv'
  BY <1>1, <1>3 DEF PairInv, CopyInv
<1>8. ValueInv => ValueInv'
  BY <1>1, <1>3 DEF ValueInv, SentBy
<1>. QED
  BY <1>5, <1>6, <1>7, <1>8 DEF PairInv

LEMMA PairHolds ==
    ASSUME LocalSignalAssumption
    PROVE  Spec => []PairInv
<1>1. Init => PairInv
  BY PairInit
<1>2. ASSUME PairInv, [Next]_vars
      PROVE  PairInv'
  <2>1. ASSUME NEW e \in Ends, Create(e)
        PROVE  PairInv'
    BY <1>2, <2>1, CreateStep
  <2>2. ASSUME NEW s \in Signals, NEW value \in Values(s), Write(s, value)
        PROVE  PairInv'
    BY <1>2, <2>2, WriteKeeps
  <2>3. CASE SendStep
    BY <1>2, <2>3, SendIsSends, SendKeeps DEF Ends
  <2>4. CASE SendStepOk
    BY <1>2, <2>4, SendOkIsSends, SendKeeps DEF Ends
  <2>5. ASSUME NEW e \in Ends, ReadSignal(e)
        PROVE  PairInv'
    BY <1>2, <2>5, ReadKeeps
  <2>6. ASSUME NEW e \in Ends, EndRead(e)
        PROVE  PairInv'
    BY <1>2, <2>6, EndReadKeeps
  <2>7. CASE Start
    BY <1>2, <2>7, StartKeeps
  <2>8. CASE UNCHANGED vars
    BY <1>2, <2>8, PairStutters
  <2>. QED
    BY <1>2, <2>1, <2>2, <2>3, <2>4, <2>5, <2>6, <2>7, <2>8 DEF Next
<1>. QED
  BY <1>1, <1>2, PTL DEF Spec

LEMMA ValueHolds ==
    ASSUME LocalSignalAssumption, LengthOnly = FALSE
    PROVE  Spec => []ValueInv
<1>1. Init => ValueInv
  BY PairInit
<1>2. ASSUME PairInv, ValueInv, [Next]_vars
      PROVE  ValueInv'
  <2>1. ASSUME NEW e \in Ends, Create(e)
        PROVE  ValueInv'
    BY <1>2, <2>1, CreateStep
  <2>2. ASSUME NEW s \in Signals, NEW value \in Values(s), Write(s, value)
        PROVE  ValueInv'
    BY <1>2, <2>2, WriteSaysValue
  <2>3. CASE SendStep
    BY <1>2, <2>3, SendIsSends, SendSaysValue DEF Ends
  <2>4. CASE SendStepOk
    BY <1>2, <2>4, SendOkIsSends, SendSaysValue DEF Ends
  <2>5. ASSUME NEW e \in Ends, ReadSignal(e)
        PROVE  ValueInv'
    BY <1>2, <2>5, ReadKeeps
  <2>6. ASSUME NEW e \in Ends, EndRead(e)
        PROVE  ValueInv'
    BY <1>2, <2>6, EndReadKeeps
  <2>7. CASE Start
    BY <1>2, <2>7, StartKeeps
  <2>8. CASE UNCHANGED vars
    BY <1>2, <2>8, PairStutters
  <2>. QED
    BY <1>2, <2>1, <2>2, <2>3, <2>4, <2>5, <2>6, <2>7, <2>8 DEF Next
<1>. QED
  BY <1>1, <1>2, PairHolds, PTL DEF Spec

\* The copies, queues and frames of LocalSignalExchange keep their types, and a
\* signal keeps a length it can have.
THEOREM LocalSignalTypes ==
    ASSUME LocalSignalAssumption
    PROVE  Spec => []TypeOK
<1>1. PairInv => TypeOK
  BY DEF PairInv, PartsInv
<1>. QED
  BY <1>1, PairHolds, PTL

\* If no end clears the copies under a part that the other one has used, the ends
\* have different copies of a signal active exactly while the signal waits in a
\* queue or a frame and not in both: no writer stores into the copy its reader has
\* active, except while a frame is on its way.
THEOREM CopiesStayApart ==
    ASSUME LocalSignalAssumption, Erasure = {}
    PROVE  Spec => []CopiesAgree
<1>1. ASSUME PairInv, Erasure = {}, NEW s \in Signals
      PROVE  (active["client"][s] # active["server"][s]) <=>
             ((s \in Range(Contents(changed[Writer[s]]))) # (s \in Range(frame)))
  <2>1. PartsInv /\ CopyInv
    BY <1>1 DEF PairInv
  <2>2. Range(Contents(changed[Writer[s]])) = Marked(Writer[s])
    BY <2>1, QueueSends, SignalTypes DEF PartsInv
  <2>3. s \in Range(Contents(changed[Writer[s]])) <=> isChanged[s]
    BY <2>2 DEF Marked, SignalsOf
  <2>4. /\ (active[Writer[s]][s] = SentCopy(s)) <=> ~isChanged[s]
        /\ active[Writer[s]][s] \in Copies /\ active[Reader(s)][s] \in Copies
    BY <1>1, <2>1, PairTypes, SignalTypes DEF CopyInv, Reader
  <2>5. (active[Writer[s]][s] # active[Reader(s)][s]) <=>
        (isChanged[s] <=> s \notin Range(frame))
    BY <2>4, TwoCopies DEF SentCopy
  <2>6. (active["client"][s] # active["server"][s]) <=>
        (active[Writer[s]][s] # active[Reader(s)][s])
    BY SignalTypes DEF Reader, Peer, Ends
  <2>. QED
    BY <2>3, <2>5, <2>6
<1>2. PairInv => CopiesAgree
  BY <1>1 DEF CopiesAgree
<1>. QED
  BY <1>2, PairHolds, PTL

\* If no end clears the copies under a part that the other one has used, and no
\* first change is one of the length only, the client reads in a step, of every
\* signal of the server, the value it had when the step was sent.  So nobody
\* writes before both ends have their parts, and the client starts the simulation
\* only as long as the server has not written or read.  What the server writes
\* before a start is lost, as MCLocalSignalStart shows, and MCLocalSignalLength
\* shows what changes of the length do.
THEOREM LocalClientReads ==
    ASSUME LocalSignalAssumption, LengthOnly = FALSE, Erasure = {}
    PROVE  Spec => []ClientReadsServerValue
<1>1. PairInv /\ ValueInv => ClientReadsServerValue
  BY DEF PairInv, PartsInv, ValueInv, SentBy, SentCopy, Reader, Peer, SignalsOf, Range,
         ClientReadsServerValue, ActiveValue
<1>. QED
  BY <1>1, PairHolds, ValueHolds, PTL

\* Under the same conditions the server reads after a step, of every signal of
\* the client, the value it had when the client finished the step, whatever
\* another thread of the client has written into shared memory since.
THEOREM LocalServerReads ==
    ASSUME LocalSignalAssumption, LengthOnly = FALSE, Erasure = {}
    PROVE  Spec => []ServerReadsClientValue
<1>1. PairInv /\ ValueInv => ServerReadsClientValue
  BY DEF PairInv, PartsInv, ValueInv, SentBy, SentCopy, Reader, Peer, SignalsOf, Range,
         ServerReadsClientValue, ActiveValue
<1>. QED
  BY <1>1, PairHolds, ValueHolds, PTL
=============================================================================
