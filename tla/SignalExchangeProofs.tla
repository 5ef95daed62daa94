------------------------ MODULE SignalExchangeProofs ------------------------
(***************************************************************************)
(* Proofs about SignalExchange, for every set of signals and every length: *)
(* the queue of a part holds the signals that changed since the last       *)
(* frame, each of them once, and has room for them; and, while the         *)
(* simulation is not started again, an end reads of every signal what the  *)
(* other end had written when it sent the last frame.  At the end, what is *)
(* proved of LocalSignalExchange, as the properties MCSignalExchange       *)
(* checks.                                                                 *)
(***************************************************************************)
EXTENDS MCSignalExchange, RingBufferProofs, FiniteSetTheorems

-----------------------------------------------------------------------------
(* The state of a signal.                                                  *)

\* A state has the length of a value of its signal.
Proper(s, state) ==
    /\ state \in States(s)
    /\ s \notin Variable => state.currentLength = Length[s]

LEMMA SignalTypes ==
    ASSUME NEW s \in Signals
    PROVE  /\ Length[s] \in Nat \ {0}
           /\ Writer[s] \in Ends /\ Peer(Writer[s]) \in Ends
           /\ Peer(Peer(Writer[s])) = Writer[s] /\ Peer(Writer[s]) # Writer[s]
  BY SignalAssumption DEF Ends, Peer

LEMMA ValuesAre ==
    ASSUME NEW s \in Signals, NEW value \in Values(s)
    PROVE  /\ value \in Seq(Data) /\ Len(value) \in 0 .. Length[s]
           /\ value \in [1 .. Len(value) -> Data]
           /\ s \notin Variable => Len(value) = Length[s]
<1>1. PICK n \in Nat : /\ value \in [1 .. n -> Data] /\ n \in 0 .. Length[s]
                       /\ s \notin Variable => n = Length[s]
  <2>1. Length[s] \in Nat
    BY SignalTypes
  <2>. QED
    BY <2>1 DEF Values
<1>2. value \in Seq(Data) /\ Len(value) = n
  <2>1. value \in Seq(Data)
    BY <1>1, SeqDef
  <2>2. DOMAIN value = 1 .. Len(value) /\ Len(value) \in Nat /\ DOMAIN value = 1 .. n
    BY <1>1, <2>1, LenProperties
  <2>. QED
    BY <1>1, <2>1, <2>2
<1>. QED
  BY <1>1, <1>2

LEMMA ValuesHave ==
    ASSUME NEW s \in Signals, NEW value \in Seq(Data), Len(value) \in 0 .. Length[s],
           s \notin Variable => Len(value) = Length[s]
    PROVE  value \in Values(s)
<1>1. value \in [1 .. Len(value) -> Data]
  BY LenProperties
<1>2. CASE s \in Variable
  BY <1>1, <1>2 DEF Values
<1>3. CASE s \notin Variable
  BY <1>1, <1>3 DEF Values
<1>. QED
  BY <1>2, <1>3

\* What a state says is a value of its signal: its buffer up to its length.
LEMMA ValueOfState ==
    ASSUME NEW s \in Signals, NEW state, Proper(s, state)
    PROVE  /\ Value(state) \in Values(s)
           /\ Len(Value(state)) = state.currentLength
           /\ \A i \in 1 .. state.currentLength : Value(state)[i] = state.buffer[i]
<1>. DEFINE n == state.currentLength
<1>1. /\ n \in 0 .. Length[s] /\ n \in Int /\ 1 \in Int /\ Length[s] \in Nat
      /\ state.buffer \in [1 .. Length[s] -> Data]
      /\ s \notin Variable => n = Length[s]
  BY SignalTypes DEF Proper, States
<1>. HIDE DEF n
<1>2. \A i \in 1 .. n : state.buffer[i] \in Data
  BY <1>1
<1>3. /\ Value(state) \in Seq(Data)
      /\ Len(Value(state)) = IF 1 <= n THEN n - 1 + 1 ELSE 0
      /\ \A i \in 1 .. n - 1 + 1 : Value(state)[i] = state.buffer[1 + i - 1]
  BY <1>1, <1>2, SubSeqProperties DEF Value, n
<1>4. Len(Value(state)) = n
  BY <1>1, <1>3
<1>5. \A i \in 1 .. n : i \in 1 .. n - 1 + 1 /\ 1 + i - 1 = i
  BY <1>1
<1>6. \A i \in 1 .. n : Value(state)[i] = state.buffer[i]
  BY <1>3, <1>5
<1>7. Value(state) \in Values(s)
  BY <1>1, <1>3, <1>4, ValuesHave
<1>. QED
  BY <1>4, <1>6, <1>7 DEF n

\* A state into which a value was stored says that value.
LEMMA StoredValue ==
    ASSUME NEW s \in Signals, NEW state, Proper(s, state), NEW value \in Values(s),
           NEW marked \in BOOLEAN
    PROVE  LET next == SignalValueState(Len(value), marked, Overlay(state.buffer, value))
           IN  Proper(s, next) /\ next.isChanged = marked /\ Value(next) = value
<1>. DEFINE next == SignalValueState(Len(value), marked, Overlay(state.buffer, value))
<1>1. /\ value \in Seq(Data) /\ Len(value) \in 0 .. Length[s]
      /\ value \in [1 .. Len(value) -> Data]
      /\ s \notin Variable => Len(value) = Length[s]
  BY ValuesAre
<1>2. state.buffer \in [1 .. Length[s] -> Data] /\ Length[s] \in Nat
  BY SignalTypes DEF Proper, States
<1>3. /\ next.currentLength = Len(value) /\ next.isChanged = marked
      /\ next.buffer = Overlay(state.buffer, value)
      /\ next = [currentLength |-> Len(value), isChanged |-> marked,
                 buffer |-> Overlay(state.buffer, value)]
  BY DEF SignalValueState
<1>4. Overlay(state.buffer, value) \in [1 .. Length[s] -> Data]
  BY <1>1, <1>2 DEF Overlay
<1>. HIDE DEF next
<1>5. Proper(s, next)
  BY <1>1, <1>3, <1>4 DEF Proper, States
<1>6. /\ Value(next) \in Values(s) /\ Len(Value(next)) = Len(value)
      /\ \A i \in 1 .. Len(value) : Value(next)[i] = next.buffer[i]
  BY <1>3, <1>5, ValueOfState
<1>7. \A i \in 1 .. Len(value) : next.buffer[i] = value[i]
  BY <1>1, <1>2, <1>3 DEF Overlay
<1>8. Value(next) \in Seq(Data)
  BY <1>6, ValuesAre
<1>9. Value(next) = value
  BY <1>1, <1>6, <1>7, <1>8, SeqEqual
<1>. QED
  BY <1>3, <1>5, <1>9 DEF next

\* A value that changes neither the length nor the data is the value there was.
LEMMA SameValue ==
    ASSUME NEW s \in Signals, NEW state, Proper(s, state), NEW value \in Values(s),
           ~LengthChanges(state, value), ~DataChanges(state, value)
    PROVE  Value(state) = value
  BY DEF LengthChanges, DataChanges, Value

\* A cleared state.
LEMMA ClearedState ==
    ASSUME NEW s \in Signals
    PROVE  Proper(s, Cleared(s)) /\ ~Cleared(s).isChanged /\ Value(Cleared(s)) \in Values(s)
<1>1. Length[s] \in Nat /\ Zero \in Data
  BY SignalTypes, SignalAssumption
<1>2. [i \in 1 .. Length[s] |-> Zero] \in [1 .. Length[s] -> Data]
  BY <1>1
<1>3. (IF s \in Variable THEN 0 ELSE Length[s]) \in 0 .. Length[s]
  BY <1>1
<1>4. Proper(s, Cleared(s)) /\ ~Cleared(s).isChanged
  BY <1>2, <1>3 DEF Proper, States, Cleared, SignalValueState
<1>. QED
  BY <1>4, ValueOfState

\* A state that was sent says what it said.
LEMMA SentState ==
    ASSUME NEW s \in Signals, NEW state, Proper(s, state)
    PROVE  Proper(s, Sent(state)) /\ ~Sent(state).isChanged /\ Value(Sent(state)) = Value(state)
<1>1. Proper(s, Sent(state))
  BY DEF Proper, States, Sent, SignalValueState
<1>. QED
  BY <1>1 DEF Value, Sent, SignalValueState

-----------------------------------------------------------------------------
(* The queue of a part.                                                    *)

Room(e) == Cardinality(SignalsOf(e))
Marked(e) == {s \in SignalsOf(e) : writeState[s].isChanged}

\* A ring with a slot for every signal of its part, that holds some of them.
Holds(ring, e, marked) == HoldsOnce(ring, Signals, SignalsOf(e), marked)

LEMMA RoomType ==
    ASSUME NEW e
    PROVE  IsFiniteSet(SignalsOf(e)) /\ Room(e) \in Nat /\ SignalsOf(e) \in SUBSET Signals
<1>1. SignalsOf(e) \in SUBSET Signals /\ IsFiniteSet(Signals)
  BY SignalAssumption DEF SignalsOf
<1>. QED
  BY <1>1, FS_Subset, FS_CardinalityType DEF Room

\* A ring that does not hold all signals of its part has room for another one,
\* and queueing it is all that happens.
LEMMA HoldsMore ==
    ASSUME NEW e, NEW ring, NEW marked \in SUBSET SignalsOf(e), Holds(ring, e, marked),
           NEW s \in SignalsOf(e) \ marked
    PROVE  ~IsFull(ring) /\ Holds(PushBack(ring, s), e, marked \cup {s})
  BY RoomType, RoomForAnother, HoldsAnother DEF Holds

LEMMA HoldsNothingMore ==
    ASSUME NEW e, NEW ring, NEW marked, Holds(ring, e, marked)
    PROVE  Holds(Drain(ring), e, {}) /\ Holds(Clear(ring), e, {})
  BY RoomType, HoldsNoneMore DEF Holds

LEMMA NewQueueHolds ==
    ASSUME NEW e
    PROVE  Holds(NewQueue(e, CHOOSE s \in Signals : TRUE), e, {})
  BY RoomType, NewRingHolds DEF Holds, NewQueue

-----------------------------------------------------------------------------
(* The queues hold the changed signals.                                    *)

SignalInv ==
    /\ TypeOK
    /\ changed = [e \in Ends |-> changed[e]]
    /\ written = [s \in Signals |-> written[s]]
    /\ \A s \in Signals : Proper(s, writeState[s]) /\ Proper(s, readState[s])
    /\ \A s \in Signals : Value(writeState[s]) = written[s]
    /\ \A e \in Ends : Holds(changed[e], e, Marked(e))
    /\ \A i \in DOMAIN frame : frame[i].value \in Values(frame[i].signal)

Entries == [signal : Signals, value : UNION {Values(s) : s \in Signals}]

LEMMA SignalInit == Init => SignalInv
<1>. SUFFICES ASSUME Init PROVE SignalInv
  OBVIOUS
<1>1. \A s \in Signals : /\ writeState[s] = Cleared(s) /\ readState[s] = Cleared(s)
                         /\ written[s] = Value(Cleared(s)) /\ published[s] = Value(Cleared(s))
  BY DEF Init
<1>2. \A s \in Signals : /\ Proper(s, writeState[s]) /\ Proper(s, readState[s])
                         /\ ~writeState[s].isChanged
                         /\ Value(writeState[s]) = written[s]
                         /\ written[s] \in Values(s) /\ published[s] \in Values(s)
  BY <1>1, ClearedState
<1>3. ASSUME NEW e \in Ends
      PROVE  Holds(changed[e], e, Marked(e))
  <2>1. Marked(e) = {}
    BY <1>2 DEF Marked, SignalsOf
  <2>2. changed[e] = NewQueue(e, CHOOSE s \in Signals : TRUE)
    BY DEF Init
  <2>. QED
    BY <2>1, <2>2, NewQueueHolds
<1>4. TypeOK
  <2>1. DOMAIN writeState = Signals /\ DOMAIN readState = Signals
    BY DEF Init
  <2>2. \A s \in Signals : writeState[s] \in States(s) /\ readState[s] \in States(s)
    BY <1>2 DEF Proper
  <2>3. \A e \in Ends : changed[e] \in Rings(Cardinality(SignalsOf(e)), Signals)
    BY <1>3 DEF Holds, HoldsOnce, Room
  <2>4. frame \in Seq(Entries) /\ stage = "idle"
    BY DEF Init
  <2>. QED
    BY <1>2, <2>1, <2>2, <2>3, <2>4 DEF TypeOK, Entries
<1>5. changed = [e \in Ends |-> changed[e]] /\ written = [s \in Signals |-> written[s]]
  BY DEF Init
<1>6. DOMAIN frame = {}
  BY DEF Init
<1>. QED
  BY <1>2, <1>3, <1>4, <1>5, <1>6 DEF SignalInv

\* What Write does: the queue has room for a signal that changes first.
LEMMA WriteStep ==
    ASSUME SignalInv, NEW s \in Signals, NEW value \in Values(s), Write(s, value)
    PROVE  LET state == writeState[s]
               changes == LengthChanges(state, value) \/ DataChanges(state, value)
               next == SignalValueState(Len(value), state.isChanged \/ changes,
                                        Overlay(state.buffer, value))
           IN  /\ writeState' = [writeState EXCEPT ![s] = next]
               /\ changed' = IF changes /\ ~state.isChanged
                             THEN [changed EXCEPT ![Writer[s]] = PushBack(@, s)] ELSE changed
               /\ written' = [written EXCEPT ![s] = value]
               /\ Proper(s, next) /\ Value(next) = value
               /\ next.isChanged <=> state.isChanged \/ changes
               /\ ~changes => value = written[s]
<1>. DEFINE state == writeState[s]
            changes == LengthChanges(state, value) \/ DataChanges(state, value)
            marked == state.isChanged \/ changes
            next == SignalValueState(Len(value), marked, Overlay(state.buffer, value))
            e == Writer[s]
<1>1. /\ Proper(s, state) /\ Value(state) = written[s] /\ state.isChanged \in BOOLEAN
      /\ e \in Ends /\ Holds(changed[e], e, Marked(e)) /\ s \in SignalsOf(e)
  BY SignalTypes DEF SignalInv, Proper, States, SignalsOf
<1>2. marked \in BOOLEAN
  BY <1>1 DEF LengthChanges, DataChanges
<1>3. Proper(s, next) /\ next.isChanged = marked /\ Value(next) = value
  <2>. HIDE DEF marked, state
  <2>. QED
    BY <1>1, <1>2, StoredValue
<1>4. ~changes => value = written[s]
  BY <1>1, SameValue
<1>5. ~state.isChanged => ~IsFull(changed[e])
  <2>1. Marked(e) \in SUBSET SignalsOf(e)
    BY DEF Marked
  <2>2. ~state.isChanged => s \in SignalsOf(e) \ Marked(e)
    BY <1>1 DEF Marked
  <2>. QED
    BY <1>1, <2>1, <2>2, HoldsMore
<1>6. /\ writeState' = [writeState EXCEPT ![s] = next]
      /\ changed' = IF changes /\ ~state.isChanged
                    THEN [changed EXCEPT ![e] = PushBack(@, s)] ELSE changed
      /\ written' = [written EXCEPT ![s] = value]
  BY <1>5 DEF Write
<1>. QED
  BY <1>3, <1>4, <1>6

LEMMA SignalWrite ==
    ASSUME SignalInv, NEW s \in Signals, NEW value \in Values(s), Write(s, value)
    PROVE  SignalInv'
<1>. DEFINE state == writeState[s]
            changes == LengthChanges(state, value) \/ DataChanges(state, value)
            next == SignalValueState(Len(value), state.isChanged \/ changes,
                                     Overlay(state.buffer, value))
            e == Writer[s]
<1>1. /\ writeState' = [writeState EXCEPT ![s] = next]
      /\ changed' = IF changes /\ ~state.isChanged
                    THEN [changed EXCEPT ![e] = PushBack(@, s)] ELSE changed
      /\ written' = [written EXCEPT ![s] = value]
      /\ Proper(s, next) /\ Value(next) = value
      /\ next.isChanged <=> state.isChanged \/ changes
  BY WriteStep
<1>2. UNCHANGED <<readState, stage, frame, published>>
  BY DEF Write
<1>3. e \in Ends /\ s \in SignalsOf(e)
  BY SignalTypes DEF SignalsOf
<1>. HIDE DEF next, changes
<1>4. /\ writeState'[s] = next /\ written'[s] = value
      /\ \A t \in Signals \ {s} : writeState'[t] = writeState[t] /\ written'[t] = written[t]
      /\ DOMAIN writeState' = Signals /\ written' = [t \in Signals |-> written'[t]]
  BY <1>1 DEF SignalInv, TypeOK
<1>5. \A t \in Signals : Proper(t, writeState'[t]) /\ Value(writeState'[t]) = written'[t]
  BY <1>1, <1>4 DEF SignalInv
<1>6. changed' = [o \in Ends |-> changed'[o]]
  BY <1>1 DEF SignalInv
<1>7. ASSUME NEW o \in Ends
      PROVE  Holds(changed'[o], o, Marked(o)')
  <2>1. Holds(changed[o], o, Marked(o)) /\ Marked(o) \in SUBSET SignalsOf(o)
    BY DEF SignalInv, Marked
  <2>2. SignalsOf(o)' = SignalsOf(o)
    BY DEF SignalsOf
  <2>3. CASE o = e /\ changes /\ ~state.isChanged
    <3>1. changed'[o] = PushBack(changed[o], s)
      BY <1>1, <2>3 DEF SignalInv
    <3>2. Marked(o)' = Marked(o) \cup {s}
      BY <1>1, <1>3, <1>4, <2>3 DEF Marked, SignalsOf
    <3>3. s \in SignalsOf(o) \ Marked(o)
      BY <1>3, <2>3 DEF Marked
    <3>. QED
      BY <2>1, <3>1, <3>2, <3>3, HoldsMore
  <2>4. CASE ~(o = e /\ changes /\ ~state.isChanged)
    <3>1. changed'[o] = changed[o]
      BY <1>1, <2>4 DEF SignalInv
    <3>2. Marked(o)' = Marked(o)
      <4>1. CASE o = e
        <5>1. next.isChanged <=> state.isChanged
          BY <1>1, <2>4, <4>1
        <5>. QED
          BY <1>4, <5>1 DEF Marked, SignalsOf
      <4>2. CASE o # e
        BY <1>4, <4>2 DEF Marked, SignalsOf
      <4>. QED
        BY <4>1, <4>2
    <3>. QED
      BY <2>1, <3>1, <3>2
  <2>. QED
    BY <2>3, <2>4
<1>8. TypeOK'
  <2>1. \A t \in Signals : writeState'[t] \in States(t) /\ written'[t] \in Values(t)
    BY <1>4, <1>5 DEF Proper, SignalInv, TypeOK
  <2>2. \A o \in Ends : changed'[o] \in Rings(Cardinality(SignalsOf(o)), Signals)
    BY <1>7 DEF Holds, HoldsOnce, Room
  <2>. QED
    BY <1>2, <1>4, <2>1, <2>2 DEF SignalInv, TypeOK
<1>. QED
  BY <1>2, <1>4, <1>5, <1>6, <1>7, <1>8 DEF SignalInv

\* What a frame takes along: of each signal that changed, its value.
LEMMA SerializeStep ==
    ASSUME SignalInv, NEW e \in Ends, Serialize(e)
    PROVE  /\ frame' \in Seq(Entries)
           /\ {frame'[i].signal : i \in DOMAIN frame'} = Marked(e)
           /\ \A i \in DOMAIN frame' : /\ frame'[i].signal \in Marked(e)
                                       /\ frame'[i].value = written[frame'[i].signal]
           /\ writeState' = [s \in Signals |-> IF s \in Marked(e) THEN Sent(writeState[s])
                                                                  ELSE writeState[s]]
<1>. DEFINE queue == Contents(changed[e])
            n == Len(queue)
<1>1. Holds(changed[e], e, Marked(e)) /\ Room(e) \in Nat
  BY RoomType DEF SignalInv
<1>2. queue \in Seq(Signals) /\ Range(queue) = Marked(e)
  BY <1>1, ContentsType DEF Holds, HoldsOnce, Room
<1>3. /\ frame' = [i \in DOMAIN queue |->
                      [signal |-> queue[i], value |-> Value(writeState[queue[i]])]]
      /\ writeState' = [s \in Signals |-> IF s \in Marked(e) THEN Sent(writeState[s])
                                                             ELSE writeState[s]]
  BY <1>2 DEF Serialize
<1>. HIDE DEF queue
<1>4. DOMAIN queue = 1 .. n /\ n \in Nat /\ \A i \in 1 .. n : queue[i] \in Signals
  BY <1>2
<1>. HIDE DEF n
<1>5. \A i \in 1 .. n : /\ frame'[i].signal = queue[i] /\ queue[i] \in Marked(e)
                        /\ frame'[i].value = written[queue[i]]
                        /\ frame'[i] \in Entries
  <2>. SUFFICES ASSUME NEW i \in 1 .. n
                PROVE  /\ frame'[i].signal = queue[i] /\ queue[i] \in Marked(e)
                       /\ frame'[i].value = written[queue[i]]
                       /\ frame'[i] \in Entries
    OBVIOUS
  <2>1. frame'[i] = [signal |-> queue[i], value |-> Value(writeState[queue[i]])]
    BY <1>3, <1>4
  <2>2. /\ queue[i] \in Signals /\ Value(writeState[queue[i]]) = written[queue[i]]
        /\ written[queue[i]] \in Values(queue[i])
    BY <1>4 DEF SignalInv, TypeOK
  <2>3. queue[i] \in Marked(e)
    BY <1>2, <1>4 DEF Range
  <2>. QED
    BY <2>1, <2>2, <2>3 DEF Entries
<1>6. DOMAIN frame' = 1 .. n
  BY <1>3, <1>4
<1>7. frame' \in Seq(Entries)
  <2>1. frame' \in [1 .. n -> Entries]
    BY <1>3, <1>4, <1>5, <1>6
  <2>. QED
    BY <1>4, <2>1, SeqDef
<1>8. {frame'[i].signal : i \in DOMAIN frame'} = Marked(e)
  BY <1>2, <1>4, <1>5, <1>6 DEF Range
<1>. QED
  BY <1>3, <1>5, <1>6, <1>7, <1>8

LEMMA SignalSerialize ==
    ASSUME SignalInv, NEW e \in Ends, Serialize(e),
           stage' \in {"idle", "toClient", "inStep", "toServer", "stepped"}
    PROVE  SignalInv'
<1>1. /\ frame' \in Seq(Entries)
      /\ \A i \in DOMAIN frame' : /\ frame'[i].signal \in Marked(e)
                                  /\ frame'[i].value = written[frame'[i].signal]
      /\ writeState' = [s \in Signals |-> IF s \in Marked(e) THEN Sent(writeState[s])
                                                             ELSE writeState[s]]
  BY SerializeStep
<1>2. /\ changed' = [changed EXCEPT ![e] = Drain(@)]
      /\ published' = [s \in Signals |-> IF Writer[s] = e THEN written[s] ELSE published[s]]
      /\ UNCHANGED <<readState, written>>
  BY DEF Serialize
<1>3. ASSUME NEW s \in Signals
      PROVE  /\ Proper(s, writeState'[s]) /\ Value(writeState'[s]) = written'[s]
             /\ writeState'[s].isChanged <=> s \notin Marked(e) /\ writeState[s].isChanged
             /\ written'[s] \in Values(s) /\ published'[s] \in Values(s)
  <2>1. /\ Proper(s, writeState[s]) /\ Value(writeState[s]) = written[s]
        /\ written[s] \in Values(s) /\ published[s] \in Values(s)
    BY DEF SignalInv, TypeOK
  <2>2. CASE s \in Marked(e)
    <3>1. writeState'[s] = Sent(writeState[s])
      BY <1>1, <2>2
    <3>. QED
      BY <1>2, <2>1, <2>2, <3>1, SentState
  <2>3. CASE s \notin Marked(e)
    <3>1. writeState'[s] = writeState[s]
      BY <1>1, <2>3
    <3>. QED
      BY <1>2, <2>1, <2>3, <3>1
  <2>. QED
    BY <2>2, <2>3
<1>4. ASSUME NEW o \in Ends
      PROVE  Holds(changed'[o], o, Marked(o)')
  <2>1. Holds(changed[o], o, Marked(o))
    BY DEF SignalInv
  <2>2. Marked(o) \in SUBSET Signals /\ Marked(o)' = Marked(o) \ Marked(e)
    BY <1>3 DEF Marked, SignalsOf
  <2>3. CASE o = e
    <3>1. Marked(o)' = {}
      BY <2>2, <2>3
    <3>2. changed'[o] = Drain(changed[o])
      BY <1>2, <2>3 DEF SignalInv
    <3>. QED
      BY <2>1, <3>1, <3>2, HoldsNothingMore
  <2>4. CASE o # e
    <3>1. Marked(o)' = Marked(o)
      BY <2>2, <2>4 DEF Marked, SignalsOf
    <3>2. changed'[o] = changed[o]
      BY <1>2, <2>4 DEF SignalInv
    <3>. QED
      BY <2>1, <3>1, <3>2
  <2>. QED
    BY <2>3, <2>4
<1>5. DOMAIN writeState' = Signals
  BY <1>1
<1>6. TypeOK'
  <2>1. \A s \in Signals : writeState'[s] \in States(s)
    BY <1>3 DEF Proper
  <2>2. \A o \in Ends : changed'[o] \in Rings(Cardinality(SignalsOf(o)), Signals)
    BY <1>4 DEF Holds, HoldsOnce, Room
  <2>3. \A s \in Signals : readState'[s] \in States(s)
    BY <1>2 DEF SignalInv, TypeOK
  <2>4. DOMAIN readState' = Signals
    BY <1>2 DEF SignalInv, TypeOK
  <2>. QED
    BY <1>1, <1>3, <1>5, <2>1, <2>2, <2>3, <2>4 DEF TypeOK, Entries
<1>7. \A i \in DOMAIN frame' : frame'[i].value \in Values(frame'[i].signal)
  <2>1. \A s \in Marked(e) : written[s] \in Values(s)
    BY DEF Marked, SignalsOf, SignalInv, TypeOK
  <2>. QED
    BY <1>1, <2>1
<1>8. changed' = [o \in Ends |-> changed'[o]] /\ written' = [s \in Signals |-> written'[s]]
  BY <1>2 DEF SignalInv
<1>9. \A s \in Signals : Proper(s, readState'[s])
  BY <1>2 DEF SignalInv
<1>. QED
  BY <1>3, <1>4, <1>6, <1>7, <1>8, <1>9 DEF SignalInv

\* What reading an entry of a frame leaves of it.
LEMMA RestOfFrame ==
    ASSUME SignalInv, frame # <<>>
    PROVE  /\ Head(frame).signal \in Signals
           /\ Head(frame).value \in Values(Head(frame).signal)
           /\ Tail(frame) \in Seq(Entries)
           /\ 1 \in DOMAIN frame /\ frame[1] = Head(frame)
           /\ \A i \in DOMAIN Tail(frame) : i + 1 \in DOMAIN frame
                                            /\ Tail(frame)[i] = frame[i + 1]
           /\ \A i \in DOMAIN frame : i # 1 => /\ i - 1 \in DOMAIN Tail(frame)
                                               /\ Tail(frame)[i - 1] = frame[i]
<1>. DEFINE n == Len(frame)
            rest == Tail(frame)
<1>1. frame \in Seq(Entries)
  BY DEF SignalInv, TypeOK, Entries
<1>2. /\ n \in Nat \ {0} /\ DOMAIN frame = 1 .. n
      /\ Head(frame) = frame[1] /\ Head(frame) \in Entries
      /\ rest \in Seq(Entries) /\ DOMAIN rest = 1 .. n - 1
      /\ \A i \in 1 .. n - 1 : rest[i] = frame[i + 1]
  BY <1>1
<1>. HIDE DEF n, rest
<1>3. 1 \in DOMAIN frame /\ \A i \in DOMAIN rest : i + 1 \in DOMAIN frame
  BY <1>2
<1>4. \A i \in DOMAIN frame : i # 1 => i - 1 \in DOMAIN rest /\ rest[i - 1] = frame[i]
  <2>. SUFFICES ASSUME NEW i \in DOMAIN frame, i # 1
                PROVE  i - 1 \in DOMAIN rest /\ rest[i - 1] = frame[i]
    OBVIOUS
  <2>1. i - 1 \in 1 .. n - 1 /\ (i - 1) + 1 = i
    BY <1>2
  <2>. QED
    BY <1>2, <2>1
<1>5. Head(frame).signal \in Signals
  BY <1>2 DEF Entries
<1>6. Head(frame).value \in Values(Head(frame).signal)
  BY <1>2, <1>3 DEF SignalInv
<1>. QED
  BY <1>2, <1>3, <1>4, <1>5, <1>6 DEF rest

\* What the reader of an entry has of its signal then.
LEMMA ReadStep ==
    ASSUME SignalInv, NEW e, ReadSignal(e)
    PROVE  LET t == Head(frame).signal IN
           /\ t \in Signals /\ Proper(t, readState'[t])
           /\ Value(readState'[t]) = Head(frame).value
           /\ \A s \in Signals \ {t} : readState'[s] = readState[s]
           /\ DOMAIN readState' = Signals
<1>. DEFINE t == Head(frame).signal
            value == Head(frame).value
            state == readState[t]
            next == SignalValueState(Len(value), state.isChanged, Overlay(state.buffer, value))
<1>1. t \in Signals /\ value \in Values(t)
  BY RestOfFrame DEF ReadSignal
<1>2. Proper(t, state) /\ state.isChanged \in BOOLEAN
  BY <1>1 DEF SignalInv, Proper, States
<1>3. Proper(t, next) /\ Value(next) = value
  <2>. HIDE DEF state, t, value
  <2>. QED
    BY <1>1, <1>2, StoredValue
<1>4. readState' = [readState EXCEPT ![t] = next]
  BY DEF ReadSignal
<1>5. DOMAIN readState = Signals
  BY DEF SignalInv, TypeOK
<1>. HIDE DEF next, value, t
<1>6. readState'[t] = next /\ \A s \in Signals \ {t} : readState'[s] = readState[s]
  BY <1>1, <1>4, <1>5
<1>7. DOMAIN readState' = Signals
  BY <1>4, <1>5
<1>. QED
  BY <1>1, <1>3, <1>6, <1>7 DEF t, value

LEMMA SignalRead ==
    ASSUME SignalInv, NEW e, ReadSignal(e)
    PROVE  SignalInv'
<1>1. /\ frame # <<>> /\ frame' = Tail(frame)
      /\ UNCHANGED <<writeState, changed, stage, written, published>>
  BY DEF ReadSignal
<1>2. \A s \in Signals : Proper(s, readState'[s])
  BY ReadStep DEF SignalInv
<1>3. frame' \in Seq(Entries) /\ \A i \in DOMAIN frame' : i + 1 \in DOMAIN frame /\ frame'[i] = frame[i + 1]
  BY <1>1, RestOfFrame
<1>4. TypeOK'
  <2>1. DOMAIN readState' = Signals /\ \A s \in Signals : readState'[s] \in States(s)
    BY <1>2, ReadStep DEF Proper
  <2>. QED
    BY <1>1, <1>3, <2>1 DEF SignalInv, TypeOK, Entries
<1>5. \A i \in DOMAIN frame' : frame'[i].value \in Values(frame'[i].signal)
  BY <1>3 DEF SignalInv
<1>6. \A o \in Ends : Holds(changed'[o], o, Marked(o)')
  BY <1>1 DEF SignalInv, Marked, SignalsOf
<1>. QED
  BY <1>1, <1>2, <1>4, <1>5, <1>6 DEF SignalInv

LEMMA SignalEndRead ==
    ASSUME SignalInv, NEW e, EndRead(e)
    PROVE  SignalInv'
<1>1. /\ stage' \in {"inStep", "stepped"}
      /\ UNCHANGED <<writeState, readState, changed, frame, written, published>>
  BY DEF EndRead
<1>2. TypeOK'
  BY <1>1 DEF SignalInv, TypeOK
<1>3. \A o \in Ends : Holds(changed'[o], o, Marked(o)')
  BY <1>1 DEF SignalInv, Marked, SignalsOf
<1>. QED
  BY <1>1, <1>2, <1>3 DEF SignalInv

LEMMA SignalStart ==
    ASSUME SignalInv, Start
    PROVE  SignalInv'
<1>1. /\ stage' = "idle"
      /\ readState' = ClearedPart(readState, "server")
      /\ writeState' = ClearedPart(writeState, "client")
      /\ changed' = [changed EXCEPT !["client"] = Clear(@)]
      /\ written' = [s \in Signals |-> IF Writer[s] = "client" THEN Value(Cleared(s))
                                                             ELSE written[s]]
      /\ UNCHANGED <<frame, published>>
  BY DEF Start
<1>2. ASSUME NEW s \in Signals
      PROVE  /\ Proper(s, writeState'[s]) /\ Value(writeState'[s]) = written'[s]
             /\ writeState'[s].isChanged <=> Writer[s] # "client" /\ writeState[s].isChanged
             /\ Proper(s, readState'[s]) /\ written'[s] \in Values(s)
  <2>1. /\ writeState'[s] = IF Writer[s] = "client" THEN Cleared(s) ELSE writeState[s]
        /\ readState'[s] = IF Writer[s] = "server" THEN Cleared(s) ELSE readState[s]
        /\ written'[s] = IF Writer[s] = "client" THEN Value(Cleared(s)) ELSE written[s]
    BY <1>1 DEF ClearedPart
  <2>2. /\ Proper(s, Cleared(s)) /\ ~Cleared(s).isChanged /\ Value(Cleared(s)) \in Values(s)
    BY ClearedState
  <2>3. /\ Proper(s, writeState[s]) /\ Value(writeState[s]) = written[s]
        /\ Proper(s, readState[s]) /\ written[s] \in Values(s)
    BY DEF SignalInv, TypeOK
  <2>. QED
    BY <2>1, <2>2, <2>3
<1>3. ASSUME NEW o \in Ends
      PROVE  Holds(changed'[o], o, Marked(o)')
  <2>1. Holds(changed[o], o, Marked(o))
    BY DEF SignalInv
  <2>2. CASE o = "client"
    <3>1. Marked(o)' = {}
      BY <1>2, <2>2 DEF Marked, SignalsOf
    <3>2. changed'[o] = Clear(changed[o])
      BY <1>1, <2>2 DEF SignalInv
    <3>. QED
      BY <2>1, <3>1, <3>2, HoldsNothingMore
  <2>3. CASE o # "client"
    <3>1. Marked(o)' = Marked(o)
      BY <1>2, <2>3 DEF Marked, SignalsOf
    <3>2. changed'[o] = changed[o]
      BY <1>1, <2>3 DEF SignalInv
    <3>. QED
      BY <2>1, <3>1, <3>2
  <2>. QED
    BY <2>2, <2>3
<1>4. DOMAIN writeState' = Signals /\ DOMAIN readState' = Signals
  BY <1>1 DEF ClearedPart
<1>5. TypeOK'
  <2>1. \A s \in Signals : writeState'[s] \in States(s) /\ readState'[s] \in States(s)
    BY <1>2 DEF Proper
  <2>2. \A o \in Ends : changed'[o] \in Rings(Cardinality(SignalsOf(o)), Signals)
    BY <1>3 DEF Holds, HoldsOnce, Room
  <2>. QED
    BY <1>1, <1>2, <1>4, <2>1, <2>2 DEF SignalInv, TypeOK
<1>6. changed' = [o \in Ends |-> changed'[o]] /\ written' = [s \in Signals |-> written'[s]]
  BY <1>1 DEF SignalInv
<1>. QED
  BY <1>1, <1>2, <1>3, <1>5, <1>6 DEF SignalInv

LEMMA SignalNext == SignalInv /\ [Next]_vars => SignalInv'
<1>. SUFFICES ASSUME SignalInv, [Next]_vars
              PROVE  SignalInv'
  OBVIOUS
<1>1. ASSUME NEW s \in Signals, NEW value \in Values(s), Write(s, value)
      PROVE  SignalInv'
  BY <1>1, SignalWrite
<1>2. CASE SendStep
  BY <1>2, SignalSerialize DEF SendStep, Ends
<1>3. CASE SendStepOk
  BY <1>3, SignalSerialize DEF SendStepOk, Ends
<1>4. ASSUME NEW e \in Ends, ReadSignal(e)
      PROVE  SignalInv'
  BY <1>4, SignalRead
<1>5. ASSUME NEW e \in Ends, EndRead(e)
      PROVE  SignalInv'
  BY <1>5, SignalEndRead
<1>6. CASE Start
  BY <1>6, SignalStart
<1>7. CASE UNCHANGED vars
  <2>1. UNCHANGED <<writeState, readState, changed, stage, frame, written, published>>
    BY <1>7 DEF vars
  <2>. QED
    BY <2>1 DEF SignalInv, TypeOK, Marked, SignalsOf
<1>. QED
  BY <1>1, <1>2, <1>3, <1>4, <1>5, <1>6, <1>7 DEF Next

LEMMA SignalHolds == Spec => []SignalInv
<1>. QED
  BY SignalInit, SignalNext, PTL DEF Spec

\* Every value stays of its type: a signal has a length it can have, and the
\* frame and the queues are of signals.
THEOREM SignalExchangeTypes == Spec => []TypeOK
<1>1. SignalInv => TypeOK
  BY DEF SignalInv
<1>. QED
  BY <1>1, SignalHolds, PTL

\* The queue of a part holds exactly the signals that changed since the last
\* frame, each of them once, through restarts of the simulation as well.
THEOREM QueueOfChanges == Spec => []QueueHoldsChanged
<1>1. SignalInv => QueueHoldsChanged
  BY DEF SignalInv, QueueHoldsChanged, Holds, HoldsOnce, Marked
<1>. QED
  BY <1>1, SignalHolds, PTL

-----------------------------------------------------------------------------
(* What an end reads, while the simulation is not started again: of a      *)
(* signal the frame still has, the value that the frame took along; of any *)
(* other, the value that the last frame took along.                        *)

Reader(s) == Peer(Writer[s])

InFrame(s) == Reads(Reader(s)) /\ \E i \in DOMAIN frame : frame[i].signal = s

ReadInv ==
    /\ stage = "idle" => \A s \in Signals : published[s] = Value(Cleared(s))
    /\ \A s \in Signals : ~writeState[s].isChanged => written[s] = published[s]
    /\ \A s \in Signals : Value(readState[s]) = published[s] \/ InFrame(s)
    /\ \A e \in Ends : Reads(e) =>
          \A i \in DOMAIN frame : /\ Reader(frame[i].signal) = e
                                  /\ frame[i].value = published[frame[i].signal]

LEMMA ReadInit == Init => ReadInv
<1>. SUFFICES ASSUME Init PROVE ReadInv
  OBVIOUS
<1>1. \A s \in Signals : /\ readState[s] = Cleared(s) /\ published[s] = Value(Cleared(s))
                         /\ written[s] = published[s]
  BY DEF Init
<1>2. DOMAIN frame = {}
  BY DEF Init
<1>. QED
  BY <1>1, <1>2 DEF ReadInv

LEMMA ReadWrite ==
    ASSUME SignalInv, ReadInv, NEW s \in Signals, NEW value \in Values(s), Write(s, value)
    PROVE  ReadInv'
<1>. DEFINE state == writeState[s]
            changes == LengthChanges(state, value) \/ DataChanges(state, value)
            next == SignalValueState(Len(value), state.isChanged \/ changes,
                                     Overlay(state.buffer, value))
<1>1. /\ writeState' = [writeState EXCEPT ![s] = next]
      /\ written' = [written EXCEPT ![s] = value]
      /\ next.isChanged <=> state.isChanged \/ changes
      /\ ~changes => value = written[s]
  BY WriteStep
<1>. HIDE DEF next, changes
<1>2. UNCHANGED <<readState, stage, frame, published>>
  BY DEF Write
<1>3. /\ writeState'[s] = next /\ written'[s] = value
      /\ \A t \in Signals \ {s} : writeState'[t] = writeState[t] /\ written'[t] = written[t]
  BY <1>1 DEF SignalInv, TypeOK
<1>4. \A t \in Signals : ~writeState'[t].isChanged => written'[t] = published'[t]
  BY <1>1, <1>2, <1>3 DEF ReadInv
<1>5. /\ \A t \in Signals : InFrame(t)' = InFrame(t)
      /\ \A e \in Ends : Reads(e)' = Reads(e)
  BY <1>2 DEF InFrame, Reads
<1>. QED
  BY <1>2, <1>4, <1>5 DEF ReadInv, Reader

LEMMA ReadSerialize ==
    ASSUME SignalInv, ReadInv, NEW e \in Ends, Serialize(e),
           stage \in {"idle", "stepped", "inStep"},
           stage' = IF e = "server" THEN "toClient" ELSE "toServer"
    PROVE  ReadInv'
<1>1. /\ {frame'[i].signal : i \in DOMAIN frame'} = Marked(e)
      /\ \A i \in DOMAIN frame' : /\ frame'[i].signal \in Marked(e)
                                  /\ frame'[i].value = written[frame'[i].signal]
      /\ writeState' = [s \in Signals |-> IF s \in Marked(e) THEN Sent(writeState[s])
                                                             ELSE writeState[s]]
  BY SerializeStep
<1>2. /\ published' = [s \in Signals |-> IF Writer[s] = e THEN written[s] ELSE published[s]]
      /\ UNCHANGED <<readState, written>>
  BY DEF Serialize
<1>3. \A o \in Ends : Reads(o)' <=> o = Peer(e)
  BY DEF Reads, Ends, Peer
<1>4. \A s \in Signals : Value(readState[s]) = published[s]
  BY DEF ReadInv, InFrame, Reads
<1>5. ASSUME NEW s \in Signals
      PROVE  /\ ~writeState'[s].isChanged => written'[s] = published'[s]
             /\ Value(readState'[s]) = published'[s] \/ InFrame(s)'
  <2>1. /\ Writer[s] \in Ends /\ Reader(s) \in Ends /\ Reader(s) = Peer(Writer[s])
        /\ Reader(s)' = Reader(s)
    BY SignalTypes DEF Reader
  <2>2. published'[s] = IF Writer[s] = e THEN written[s] ELSE published[s]
    BY <1>2
  <2>3. CASE Writer[s] = e
    <3>1. ~writeState'[s].isChanged => written'[s] = published'[s]
      BY <1>2, <2>2, <2>3
    <3>2. CASE writeState[s].isChanged
      <4>1. s \in Marked(e)
        BY <2>3, <3>2 DEF Marked, SignalsOf
      <4>2. PICK i \in DOMAIN frame' : frame'[i].signal = s
        BY <1>1, <4>1
      <4>3. Reads(Reader(s))'
        BY <1>3, <2>1, <2>3
      <4>4. InFrame(s)'
        BY <2>1, <4>2, <4>3 DEF InFrame
      <4>. QED
        BY <3>1, <4>4
    <3>3. CASE ~writeState[s].isChanged
      <4>1. written[s] = published[s]
        BY <3>3 DEF ReadInv
      <4>. QED
        BY <1>2, <1>4, <2>2, <2>3, <3>1, <4>1
    <3>. QED
      BY <3>2, <3>3
  <2>4. CASE Writer[s] # e
    <3>1. s \notin Marked(e)
      BY <2>4 DEF Marked, SignalsOf
    <3>2. writeState'[s] = writeState[s]
      BY <1>1, <3>1
    <3>. QED
      BY <1>2, <1>4, <2>2, <2>4, <3>2 DEF ReadInv
  <2>. QED
    BY <2>3, <2>4
<1>6. ASSUME NEW o \in Ends, Reads(o)', NEW i \in DOMAIN frame'
      PROVE  /\ Reader(frame'[i].signal) = o
             /\ frame'[i].value = published'[frame'[i].signal]
  <2>1. o = Peer(e)
    BY <1>3, <1>6
  <2>2. /\ frame'[i].signal \in Signals /\ Writer[frame'[i].signal] = e
        /\ frame'[i].value = written[frame'[i].signal]
    BY <1>1 DEF Marked, SignalsOf
  <2>. QED
    BY <1>2, <2>1, <2>2 DEF Reader
<1>7. stage' # "idle"
  OBVIOUS
<1>. QED
  BY <1>5, <1>6, <1>7 DEF ReadInv, Reader

LEMMA ReadRead ==
    ASSUME SignalInv, ReadInv, NEW e \in Ends, ReadSignal(e)
    PROVE  ReadInv'
<1>. DEFINE t == Head(frame).signal
<1>1. /\ Reads(e) /\ frame # <<>> /\ frame' = Tail(frame)
      /\ UNCHANGED <<writeState, changed, stage, written, published>>
  BY DEF ReadSignal
<1>2. /\ t \in Signals /\ Value(readState'[t]) = Head(frame).value
      /\ \A s \in Signals \ {t} : readState'[s] = readState[s]
  BY ReadStep
<1>3. /\ 1 \in DOMAIN frame /\ frame[1] = Head(frame)
      /\ \A i \in DOMAIN frame' : i + 1 \in DOMAIN frame /\ frame'[i] = frame[i + 1]
      /\ \A i \in DOMAIN frame : i # 1 => i - 1 \in DOMAIN frame' /\ frame'[i - 1] = frame[i]
  BY <1>1, RestOfFrame
<1>. HIDE DEF t
<1>4. \A o \in Ends : Reads(o)' = Reads(o)
  BY <1>1 DEF Reads
<1>5. ASSUME NEW s \in Signals
      PROVE  Value(readState'[s]) = published'[s] \/ InFrame(s)'
  <2>1. CASE s = t
    <3>1. Head(frame).value = published[t]
      BY <1>1, <1>3 DEF ReadInv, t
    <3>. QED
      BY <1>1, <1>2, <2>1, <3>1
  <2>2. CASE s # t
    <3>1. CASE InFrame(s)
      <4>1. PICK i \in DOMAIN frame : frame[i].signal = s
        BY <3>1 DEF InFrame
      <4>2. i # 1
        BY <1>3, <2>2, <4>1 DEF t
      <4>3. i - 1 \in DOMAIN frame' /\ frame'[i - 1].signal = s
        BY <1>3, <4>1, <4>2
      <4>4. Reads(Reader(s))'
        BY <1>1, <3>1 DEF InFrame, Reads, Reader
      <4>. QED
        BY <4>3, <4>4 DEF InFrame, Reader
    <3>2. CASE Value(readState[s]) = published[s]
      BY <1>1, <1>2, <2>2, <3>2
    <3>. QED
      BY <3>1, <3>2 DEF ReadInv
  <2>. QED
    BY <2>1, <2>2
<1>6. ASSUME NEW o \in Ends, Reads(o)', NEW i \in DOMAIN frame'
      PROVE  /\ Reader(frame'[i].signal) = o
             /\ frame'[i].value = published'[frame'[i].signal]
  BY <1>1, <1>3, <1>4, <1>6 DEF ReadInv
<1>7. \A s \in Signals : ~writeState'[s].isChanged => written'[s] = published'[s]
  BY <1>1 DEF ReadInv
<1>8. stage' = "idle" => \A s \in Signals : published'[s] = Value(Cleared(s))
  BY <1>1 DEF ReadInv
<1>. QED
  BY <1>5, <1>6, <1>7, <1>8 DEF ReadInv, Reader

LEMMA ReadEndRead ==
    ASSUME SignalInv, ReadInv, NEW e \in Ends, EndRead(e)
    PROVE  ReadInv'
<1>1. /\ frame = <<>> /\ stage' \in {"inStep", "stepped"}
      /\ UNCHANGED <<writeState, readState, changed, frame, written, published>>
  BY DEF EndRead
<1>2. \A s \in Signals : Value(readState[s]) = published[s]
  BY <1>1 DEF ReadInv, InFrame
<1>. QED
  BY <1>1, <1>2 DEF ReadInv, Reads

LEMMA ReadStart ==
    ASSUME SignalInv, ReadInv, Start, Restarts = FALSE
    PROVE  ReadInv'
<1>1. /\ stage = "idle" /\ stage' = "idle"
      /\ readState' = ClearedPart(readState, "server")
      /\ writeState' = ClearedPart(writeState, "client")
      /\ written' = [s \in Signals |-> IF Writer[s] = "client" THEN Value(Cleared(s))
                                                             ELSE written[s]]
      /\ UNCHANGED <<frame, published>>
  BY DEF Start
<1>2. ASSUME NEW s \in Signals
      PROVE  /\ published'[s] = Value(Cleared(s))
             /\ ~writeState'[s].isChanged => written'[s] = published'[s]
             /\ Value(readState'[s]) = published'[s]
  <2>1. /\ writeState'[s] = IF Writer[s] = "client" THEN Cleared(s) ELSE writeState[s]
        /\ readState'[s] = IF Writer[s] = "server" THEN Cleared(s) ELSE readState[s]
        /\ written'[s] = IF Writer[s] = "client" THEN Value(Cleared(s)) ELSE written[s]
    BY <1>1 DEF ClearedPart
  <2>2. /\ published[s] = Value(Cleared(s)) /\ Value(readState[s]) = published[s]
        /\ ~writeState[s].isChanged => written[s] = published[s]
    BY <1>1 DEF ReadInv, InFrame, Reads
  <2>. QED
    BY <1>1, <2>1, <2>2
<1>. QED
  BY <1>1, <1>2 DEF ReadInv, Reads

LEMMA ReadHolds ==
    ASSUME Restarts = FALSE
    PROVE  Spec => []ReadInv
<1>1. ASSUME SignalInv, ReadInv, [Next]_vars
      PROVE  ReadInv'
  <2>1. ASSUME NEW s \in Signals, NEW value \in Values(s), Write(s, value)
        PROVE  ReadInv'
    BY <1>1, <2>1, ReadWrite
  <2>2. CASE SendStep
    BY <1>1, <2>2, ReadSerialize DEF SendStep, Ends
  <2>3. CASE SendStepOk
    BY <1>1, <2>3, ReadSerialize DEF SendStepOk, Ends
  <2>4. ASSUME NEW e \in Ends, ReadSignal(e)
        PROVE  ReadInv'
    BY <1>1, <2>4, ReadRead
  <2>5. ASSUME NEW e \in Ends, EndRead(e)
        PROVE  ReadInv'
    BY <1>1, <2>5, ReadEndRead
  <2>6. CASE Start
    BY <1>1, <2>6, ReadStart
  <2>7. CASE UNCHANGED vars
    <3>1. UNCHANGED <<writeState, readState, changed, stage, frame, written, published>>
      BY <2>7 DEF vars
    <3>. QED
      BY <1>1, <3>1 DEF ReadInv, InFrame, Reads
  <2>. QED
    BY <1>1, <2>1, <2>2, <2>3, <2>4, <2>5, <2>6, <2>7 DEF Next
<1>. QED
  BY <1>1, ReadInit, SignalHolds, PTL DEF Spec

\* While the client works on a step it reads, of every signal of the server, the
\* value the signal had when the step was sent, if the simulation is started
\* once; MCSignalRestart shows what a second start does to it.
THEOREM ClientReads ==
    ASSUME Restarts = FALSE
    PROVE  Spec => []ClientReadsServerValue
<1>1. ReadInv => ClientReadsServerValue
  BY DEF ReadInv, ClientReadsServerValue, InFrame, Reads, Reader, Peer, SignalsOf
<1>. QED
  BY <1>1, ReadHolds, PTL

\* After a step the server reads, of every signal of the client, the value the
\* signal had when the client finished the step, if the simulation is started
\* once.
THEOREM ServerReads ==
    ASSUME Restarts = FALSE
    PROVE  Spec => []ServerReadsClientValue
<1>1. ReadInv => ServerReadsClientValue
  BY DEF ReadInv, ServerReadsClientValue, InFrame, Reads, Reader, Peer, SignalsOf
<1>. QED
  BY <1>1, ReadHolds, PTL

-----------------------------------------------------------------------------
(* The same of a local connection: the theorems of                         *)
(* LocalSignalExchangeProofs, for the exchange as MCSignalExchange takes   *)
(* it.                                                                     *)

\* If no end clears the copies under a part that the other one has used, a writer
\* stores into the copy its reader has active only while a frame is on its way.
THEOREM LocalCopiesStayApart ==
    ASSUME Local!LocalSignalAssumption, Erasure = {} PROVE Local!Spec => []LocalCopiesAgree
  BY Local!CopiesStayApart DEF LocalCopiesAgree

\* Over a local connection, too, the client reads in a step, of every signal of
\* the server, the value it had when the step was sent, if no end clears the
\* copies under a part the other one has used and no first change is one of the
\* length only: what the server writes before a start is not covered, and lost.
THEOREM LocalClientReadsSignals ==
    ASSUME Local!LocalSignalAssumption, LengthOnly = FALSE, Erasure = {}
    PROVE  Local!Spec => []LocalClientReadsServerValue
  BY Local!LocalClientReads DEF LocalClientReadsServerValue

\* Under the same conditions the server reads after a step, of every signal of
\* the client, the value it had when the client finished the step.
THEOREM LocalServerReadsSignals ==
    ASSUME Local!LocalSignalAssumption, LengthOnly = FALSE, Erasure = {}
    PROVE  Local!Spec => []LocalServerReadsClientValue
  BY Local!LocalServerReads DEF LocalServerReadsClientValue
=============================================================================
