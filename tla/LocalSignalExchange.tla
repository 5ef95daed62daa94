------------------------- MODULE LocalSignalExchange -------------------------
(***************************************************************************)
(* The exchange of IO signals over the local connection of Windows         *)
(* (LocalSignalExchangePart).  Every signal has two copies in memory that  *)
(* both processes share.  Each end has a part of its own that remembers    *)
(* which of them is active: the end that writes the signal goes over to    *)
(* the other copy at its first change after a frame, the end that reads    *)
(* it follows when a frame names the signal.  Frames carry no values.      *)
(*                                                                         *)
(* As in SignalExchange the server's calls come from one thread that makes *)
(* none while it waits, and another thread of the client writes at any     *)
(* time.  Each end creates its parts when it has a connection; the client  *)
(* may have its own before the server or behind it.                        *)
(***************************************************************************)
EXTENDS Naturals, Sequences, FiniteSets, Functions, RingBuffer

CONSTANTS
    Signals,       \* the IO signals
    Writer,        \* the end that writes a signal
    Length,        \* the length of a signal, the greatest one if it varies
    Variable,      \* the signals of variable size
    Data,          \* what an element of a value can be
    Zero,          \* the element that cleared memory is
    LengthOnly,    \* whether values are written that differ in length only
    Erasure        \* bound: the calls that clear the copies although the other
                   \* end has used its part, "Create" and "Start"; the order and
                   \* the queue of that part stay, so it goes on with wrong ones

Ends == {"client", "server"}
Peer(e) == IF e = "client" THEN "server" ELSE "client"

\* What a user of this module assumes of its constants.
LocalSignalAssumption ==
    /\ IsFiniteSet(Signals) /\ Variable \subseteq Signals
    /\ Writer \in [Signals -> Ends]
    /\ Length \in [Signals -> Nat \ {0}]
    /\ Zero \in Data
    /\ LengthOnly \in BOOLEAN /\ Erasure \subseteq {"Create", "Start"}

VARIABLES
    copies,       \* the two copies of each signal in shared memory
    active,       \* which of them is active in the part of each end
    isChanged,    \* the flag of each signal in the part that writes it
    changed,      \* _changedSignalsQueue of the part each end writes
    created,      \* the ends that have created their parts
    stage,        \* whose turn it is in the step
    frame,        \* the signals the frame names that are not read yet
    \* history, read by properties, and used by the bound Erasure
    written,      \* the value each signal was given last
    published,    \* and what that was when a frame last took the signals along
    used          \* the ends that wrote or read a signal since they last cleared

memory == <<copies, active, isChanged, changed>>
history == <<written, published, used>>
vars == <<memory, created, stage, frame, history>>

SignalsOf(e) == {s \in Signals : Writer[s] = e}

-----------------------------------------------------------------------------
Copy(currentLength, data) == [currentLength |-> currentLength, data |-> data]

\* The copy of the lower offset, and the one of the higher.
Copies == {0, 1}
Staging(copy) == 1 - copy

Cleared(s) ==
    Copy(IF s \in Variable THEN 0 ELSE Length[s], [i \in 1 .. Length[s] |-> Zero])

Value(copy) == SubSeq(copy.data, 1, copy.currentLength)

\* What an end reads.
ActiveValue(e, s) == Value(copies[s][active[e][s]])

Overlay(data, value) ==
    [i \in DOMAIN data |-> IF i <= Len(value) THEN value[i] ELSE data[i]]

Values(s) == UNION {[1 .. n -> Data] : n \in IF s \in Variable THEN 0 .. Length[s]
                                                               ELSE {Length[s]}}

LengthChanges(copy, value) == copy.currentLength # Len(value)

DataChanges(copy, value) == SubSeq(copy.data, 1, Len(value)) # value

AllCleared == [s \in Signals |-> [k \in Copies |-> Cleared(s)]]
LowerActive == [s \in Signals |-> 0]

Init ==
    /\ copies = AllCleared
    /\ active = [e \in Ends |-> LowerActive]
    /\ isChanged = [s \in Signals |-> FALSE]
    /\ changed = [e \in Ends |-> NewRing(Cardinality(SignalsOf(e)),
                                         CHOOSE s \in Signals : TRUE)]
    /\ created = {}
    /\ stage = "idle"
    /\ frame = <<>>
    /\ written = [s \in Signals |-> Value(Cleared(s))]
    /\ published = written
    /\ used = {}

-----------------------------------------------------------------------------
\* Create clears both parts, whatever the other end has done with them before.
Create(e) ==
    /\ e \notin created
    /\ created' = created \cup {e}
    /\ copies' = AllCleared
    /\ UNCHANGED <<active, isChanged, changed, stage, frame, written, published, used>>

\* The server writes between its calls and in its callbacks; an end that writes
\* before the other one has its parts is erased by that one's Create.
MayWrite(e) ==
    /\ e \in created
    /\ "Create" \in Erasure \/ created = Ends
    /\ e = "server" => stage \in {"idle", "stepped", "toServer"}

\* Mutant: a change always goes to the other copy.
AlwaysSwaps(s, changes) == changes

\* Whether a Write is the first change of the signal since it was sent.
FirstChange(s, changes) == changes /\ ~isChanged[s]

\* The data are compared with the active copy before a first change goes over to
\* the other one, and are stored only when they differ from the former.
Write(s, value) ==
    LET e             == Writer[s]
        before        == copies[s][active[e][s]]
        lengthChanges == LengthChanges(before, value)
        dataChanges   == DataChanges(before, value)
        changes       == lengthChanges \/ dataChanges
        first         == FirstChange(s, changes)
        target        == IF first THEN Staging(active[e][s]) ELSE active[e][s]
        stored        == Copy(Len(value), IF dataChanges
                                          THEN Overlay(copies[s][target].data, value)
                                          ELSE copies[s][target].data)
    IN  /\ MayWrite(e)
        /\ LengthOnly \/ value = <<>> \/ dataChanges \/ ~first
        /\ isChanged' = [isChanged EXCEPT ![s] = @ \/ changes]
        /\ IF first /\ IsFull(changed[e])
           THEN UNCHANGED <<copies, active, changed>>
           ELSE /\ changed' = IF first THEN [changed EXCEPT ![e] = PushBack(@, s)]
                                       ELSE changed
                /\ active' = [active EXCEPT ![e][s] = target]
                /\ copies' = IF changes THEN [copies EXCEPT ![s][target] = stored]
                                        ELSE copies
        /\ written' = [written EXCEPT ![s] = value]
        /\ used' = used \cup {e}
        /\ UNCHANGED <<created, stage, frame, published>>

\* Mutant: a signal that was sent stays marked.
SentStayMarked(e) == isChanged

Sent(e) == [s \in Signals |-> isChanged[s] /\ s \notin Range(Contents(changed[e]))]

\* SendStep of the server, SendStepOk of the client.
Serialize(e) ==
    /\ frame' = Contents(changed[e])
    /\ isChanged' = Sent(e)
    /\ changed' = [changed EXCEPT ![e] = Drain(@)]
    /\ published' = [s \in Signals |-> IF Writer[s] = e THEN written[s]
                                                        ELSE published[s]]
    /\ UNCHANGED <<copies, active, created, written, used>>

SendStep ==
    /\ "server" \in created
    /\ stage \in {"idle", "stepped"} /\ stage' = "toClient"
    /\ Serialize("server")

SendStepOk == stage = "inStep" /\ stage' = "toServer" /\ Serialize("client")

\* The end that reads the frame; a client reads none before it has its parts.
Reads(e) == \/ e = "client" /\ stage = "toClient" /\ "client" \in created
            \/ e = "server" /\ stage = "toServer"

\* One turn of the loop of Deserialize.
ReadSignal(e) ==
    /\ Reads(e)
    /\ frame # <<>>
    /\ frame' = Tail(frame)
    /\ active' = [active EXCEPT ![e][Head(frame)] = Staging(@)]
    /\ used' = used \cup {e}
    /\ UNCHANGED <<copies, isChanged, changed, created, stage, written, published>>

EndRead(e) ==
    /\ Reads(e)
    /\ frame = <<>>
    /\ stage' = IF e = "client" THEN "inStep" ELSE "stepped"
    /\ UNCHANGED <<memory, created, frame, history>>

\* Mutant: the order of the copies stays as it is.
OrderStays(e) == active[e]

ClearedOrder(e) == LowerActive

\* OnStart of the client clears its two parts and with them all copies; the
\* server's parts keep their order and their queue.
Start ==
    /\ created = Ends
    /\ "Start" \in Erasure \/ "server" \notin used
    /\ stage \in {"idle", "stepped"} /\ stage' = "idle"
    /\ copies' = AllCleared
    /\ active' = [active EXCEPT !["client"] = ClearedOrder("client")]
    /\ isChanged' = [s \in Signals |-> isChanged[s] /\ Writer[s] # "client"]
    /\ changed' = [changed EXCEPT !["client"] = Clear(@)]
    /\ written' = [s \in Signals |-> IF Writer[s] = "client" THEN Value(Cleared(s))
                                                           ELSE written[s]]
    /\ used' = used \ {"client"}
    /\ UNCHANGED <<created, frame, published>>

Next ==
    \/ \E e \in Ends : Create(e)
    \/ \E s \in Signals : \E value \in Values(s) : Write(s, value)
    \/ SendStep
    \/ SendStepOk
    \/ \E e \in Ends : ReadSignal(e) \/ EndRead(e)
    \/ Start

Spec == Init /\ [][Next]_vars

-----------------------------------------------------------------------------
(* Properties.                                                             *)

TypeOK ==
    /\ \A s \in Signals : \A k \in Copies :
          copies[s][k] \in [currentLength : 0 .. Length[s], data : [1 .. Length[s] -> Data]]
    /\ active \in [Ends -> [Signals -> Copies]]
    /\ isChanged \in [Signals -> BOOLEAN]
    /\ \A e \in Ends : changed[e] \in Rings(Cardinality(SignalsOf(e)), Signals)
    /\ created \subseteq Ends /\ used \subseteq Ends
    /\ stage \in {"idle", "toClient", "inStep", "toServer", "stepped"}
    /\ frame \in Seq(Signals)
    /\ \A s \in Signals : written[s] \in Values(s) /\ published[s] \in Values(s)

\* The properties hold with Erasure = {}: no end clears the copies under a part
\* that the other end has used.  With "Start" in it all three fail, with "Create"
\* the two about values.

\* The two ends have different copies of a signal active exactly while the signal
\* waits in the queue of its writer or in a frame, but not in both: a writer never
\* stores into the copy that its reader has active, except between the sending
\* and the reading of a frame.
CopiesAgree ==
    \A s \in Signals :
        (active["client"][s] # active["server"][s]) <=>
        ((s \in Range(Contents(changed[Writer[s]]))) # (s \in Range(frame)))

\* While the client works on a step it reads, of every signal, the value that
\* the server had given it when the step was sent.
ClientReadsServerValue ==
    stage = "inStep" =>
        \A s \in SignalsOf("server") : ActiveValue("client", s) = published[s]

\* After a step the server reads, of every signal, the value that the client had
\* given it when it finished the step, whatever another thread of the client has
\* written since.
ServerReadsClientValue ==
    stage = "stepped" =>
        \A s \in SignalsOf("client") : ActiveValue("server", s) = published[s]
=============================================================================
