--------------------------- MODULE SignalExchange ---------------------------
(***************************************************************************)
(* The exchange of IO signals between the client and the server of a       *)
(* session over a remote connection (RemoteSignalExchangePart).  The end   *)
(* that writes a signal keeps its value, and queues the signal when the    *)
(* value changes; the next step frame or step-ok frame takes the queued    *)
(* signals along.  The end that reads the signal keeps a value of its own. *)
(*                                                                         *)
(* The server's calls come from one thread, and while it waits for an      *)
(* answer it makes none; another thread of the client writes at any time.  *)
(* A rejected Write (a length the signal cannot have) leaves no trace, and *)
(* Read changes nothing.                                                   *)
(***************************************************************************)
EXTENDS Naturals, Sequences, FiniteSets, Functions, RingBuffer

CONSTANTS
    Signals,       \* the IO signals
    Writer,        \* the end that writes a signal
    Length,        \* the length of a signal, the greatest one if it varies
    Variable,      \* the signals of variable size
    Data,          \* what an element of a value can be
    Zero,          \* the element that cleared memory is
    Restarts       \* whether the simulation is started again after steps

Ends == {"client", "server"}
Peer(e) == IF e = "client" THEN "server" ELSE "client"

ASSUME SignalAssumption ==
    /\ IsFiniteSet(Signals) /\ Variable \subseteq Signals
    /\ Writer \in [Signals -> Ends]
    /\ Length \in [Signals -> Nat \ {0}]
    /\ Zero \in Data
    /\ Restarts \in BOOLEAN

VARIABLES
    writeState,   \* the state of each signal at the end that writes it
    readState,    \* and at the end that reads it
    changed,      \* _changedSignalsQueue of the part each end writes
    stage,        \* whose turn it is in the step
    frame,        \* the signals of the frame that are not read yet
    \* history, read by properties only
    written,      \* the value each signal was given last
    published     \* and what that was when a frame last took the signals along

vars == <<writeState, readState, changed, stage, frame, written, published>>

SignalsOf(e) == {s \in Signals : Writer[s] = e}

-----------------------------------------------------------------------------
(* The state of a signal in a part.                                        *)

SignalValueState(currentLength, isChanged, buffer) ==
    [currentLength |-> currentLength, isChanged |-> isChanged, buffer |-> buffer]

Cleared(s) ==
    SignalValueState(IF s \in Variable THEN 0 ELSE Length[s], FALSE,
                     [i \in 1 .. Length[s] |-> Zero])

Value(state) == SubSeq(state.buffer, 1, state.currentLength)

\* Mutant: the last element is not stored.
OverlayButLast(buffer, value) ==
    [i \in DOMAIN buffer |-> IF i < Len(value) THEN value[i] ELSE buffer[i]]

Overlay(buffer, value) ==
    [i \in DOMAIN buffer |-> IF i <= Len(value) THEN value[i] ELSE buffer[i]]

Values(s) == UNION {[1 .. n -> Data] : n \in IF s \in Variable THEN 0 .. Length[s]
                                                               ELSE {Length[s]}}

NewQueue(e, s) == NewRing(Cardinality(SignalsOf(e)), s)

\* Mutant: a value that only got shorter or longer is no change.
LengthNeverChanges(state, value) == FALSE

LengthChanges(state, value) == state.currentLength # Len(value)

DataChanges(state, value) == SubSeq(state.buffer, 1, Len(value)) # value

-----------------------------------------------------------------------------
Init ==
    /\ writeState = [s \in Signals |-> Cleared(s)]
    /\ readState = [s \in Signals |-> Cleared(s)]
    /\ changed = [e \in Ends |-> NewQueue(e, CHOOSE s \in Signals : TRUE)]
    /\ stage = "idle"
    /\ frame = <<>>
    /\ written = [s \in Signals |-> Value(Cleared(s))]
    /\ published = written

\* The server writes between its calls and in its callbacks.
MayWrite(e) == e = "server" => stage \in {"idle", "stepped", "toServer"}

\* When the queue is full, a change of the length is noticed before the value is
\* stored and a change of the data after it.
Write(s, value) ==
    LET state         == writeState[s]
        queue         == changed[Writer[s]]
        lengthChanges == LengthChanges(state, value)
        changes       == lengthChanges \/ DataChanges(state, value)
        firstChange   == changes /\ ~state.isChanged
    IN  /\ MayWrite(Writer[s])
        /\ writeState' = [writeState EXCEPT ![s] =
               IF firstChange /\ lengthChanges /\ IsFull(queue)
               THEN SignalValueState(state.currentLength, TRUE, state.buffer)
               ELSE SignalValueState(Len(value), state.isChanged \/ changes,
                                     Overlay(state.buffer, value))]
        /\ changed' = IF firstChange /\ ~IsFull(queue)
                      THEN [changed EXCEPT ![Writer[s]] = PushBack(@, s)] ELSE changed
        /\ written' = [written EXCEPT ![s] = value]
        /\ UNCHANGED <<readState, stage, frame, published>>

\* Mutant: a signal that was sent stays marked.
SentStaysMarked(state) == state

Sent(state) == SignalValueState(state.currentLength, FALSE, state.buffer)

\* SendStep of the server, SendStepOk of the client.
Serialize(e) ==
    LET queue == Contents(changed[e]) IN
    /\ frame' = [i \in DOMAIN queue |->
                    [signal |-> queue[i], value |-> Value(writeState[queue[i]])]]
    /\ writeState' = [s \in Signals |-> IF s \in Range(queue) THEN Sent(writeState[s])
                                                              ELSE writeState[s]]
    /\ changed' = [changed EXCEPT ![e] = Drain(@)]
    /\ published' = [s \in Signals |-> IF Writer[s] = e THEN written[s]
                                                        ELSE published[s]]
    /\ UNCHANGED <<readState, written>>

SendStep   == stage \in {"idle", "stepped"} /\ stage' = "toClient" /\ Serialize("server")
SendStepOk == stage = "inStep" /\ stage' = "toServer" /\ Serialize("client")

\* The end that reads the frame.
Reads(e) == \/ e = "client" /\ stage = "toClient"
            \/ e = "server" /\ stage = "toServer"

\* One turn of the loop of Deserialize.
ReadSignal(e) ==
    LET entry == Head(frame)
        state == readState[entry.signal]
    IN  /\ Reads(e)
        /\ frame # <<>>
        /\ frame' = Tail(frame)
        /\ readState' = [readState EXCEPT ![entry.signal] =
                            SignalValueState(Len(entry.value), state.isChanged,
                                             Overlay(state.buffer, entry.value))]
        /\ UNCHANGED <<writeState, changed, stage, written, published>>

EndRead(e) ==
    /\ Reads(e)
    /\ frame = <<>>
    /\ stage' = IF e = "client" THEN "inStep" ELSE "stepped"
    /\ UNCHANGED <<writeState, readState, changed, frame, written, published>>

ClearedPart(part, e) == [s \in Signals |-> IF Writer[s] = e THEN Cleared(s) ELSE part[s]]

\* OnStart of the client clears both of its parts; the server clears nothing.
Start ==
    /\ stage = "idle" \/ (Restarts /\ stage = "stepped")
    /\ stage' = "idle"
    /\ readState' = ClearedPart(readState, "server")
    /\ writeState' = ClearedPart(writeState, "client")
    /\ changed' = [changed EXCEPT !["client"] = Clear(@)]
    /\ written' = [s \in Signals |-> IF Writer[s] = "client" THEN Value(Cleared(s))
                                                           ELSE written[s]]
    /\ UNCHANGED <<frame, published>>

Next ==
    \/ \E s \in Signals : \E value \in Values(s) : Write(s, value)
    \/ SendStep
    \/ SendStepOk
    \/ \E e \in Ends : ReadSignal(e) \/ EndRead(e)
    \/ Start

Spec == Init /\ [][Next]_vars

\* A simulation that keeps stepping.
Fairness ==
    /\ WF_vars(SendStep)
    /\ WF_vars(SendStepOk)
    /\ \A e \in Ends : WF_vars(ReadSignal(e) \/ EndRead(e))

FairSpec == Spec /\ Fairness

-----------------------------------------------------------------------------
(* Properties.                                                             *)

States(s) == [currentLength : 0 .. Length[s], isChanged : BOOLEAN,
              buffer : [1 .. Length[s] -> Data]]

TypeOK ==
    /\ DOMAIN writeState = Signals /\ DOMAIN readState = Signals
    /\ \A s \in Signals : writeState[s] \in States(s) /\ readState[s] \in States(s)
    /\ \A e \in Ends : changed[e] \in Rings(Cardinality(SignalsOf(e)), Signals)
    /\ stage \in {"idle", "toClient", "inStep", "toServer", "stepped"}
    /\ frame \in Seq([signal : Signals, value : UNION {Values(s) : s \in Signals}])
    /\ \A s \in Signals : written[s] \in Values(s) /\ published[s] \in Values(s)

\* The queue holds exactly the signals that are marked, each of them once: no
\* change is forgotten, and a queue of as many slots as there are signals never
\* fills up.
QueueHoldsChanged ==
    \A e \in Ends :
        LET queue == Contents(changed[e]) IN
        /\ Range(queue) = {s \in SignalsOf(e) : writeState[s].isChanged}
        /\ IsInjective(queue)

\* While the client works on a step it reads, of every signal, the value that
\* the server had given it when the step was sent.
ClientReadsServerValue ==
    stage = "inStep" => \A s \in SignalsOf("server") : Value(readState[s]) = published[s]

\* After a step the server reads, of every signal, the value that the client had
\* given it when it finished the step.
ServerReadsClientValue ==
    stage = "stepped" => \A s \in SignalsOf("client") : Value(readState[s]) = published[s]

\* A value that stays is read in the end, as long as the simulation steps.
LastValueArrives ==
    \A s \in Signals : \A value \in Values(s) :
        (<>[](written[s] = value)) => (<>[](Value(readState[s]) = value))
=============================================================================
