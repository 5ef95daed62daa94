------------------------------- MODULE ShmPipe ------------------------------
(***************************************************************************)
(* One direction of the local channel of Windows: a ring of bytes in       *)
(* memory that the process of the writer and the process of the reader     *)
(* share (ShmPipePart).  Neither takes a lock; each stores one of the two  *)
(* indices after it has copied bytes, each looks at the other one's, and   *)
(* an event wakes who waits, or a millisecond passes.  The indices count   *)
(* modulo 2^32 and are masked to a place in the ring.                      *)
(*                                                                         *)
(* Either process may attach first, disconnect, also from another of its   *)
(* threads while a call is under way, or die.                              *)
(***************************************************************************)
EXTENDS Naturals, FiniteSets

CONSTANTS
    PipeBufferSize,      \* the bytes of the ring
    IndexLimit,          \* 2^32 in the code
    WriteSizes,          \* how many bytes one call of Write is given
    ReadSizes,           \* for how many bytes one call of Read has room
    DetectionLimit       \* ConnectionTimeoutInMilliseconds

\* What a user of this module assumes of its constants.
PipeAssumption ==
    /\ PipeBufferSize \in Nat \ {0} /\ IndexLimit \in Nat
    /\ PipeBufferSize < IndexLimit /\ IndexLimit % PipeBufferSize = 0
    /\ WriteSizes \subseteq Nat \ {0} /\ ReadSizes \subseteq Nat \ {0}
    /\ DetectionLimit \in Nat \ {0}

VARIABLES
    \* in the shared memory
    buffer,         \* the ring
    writeIndex,     \* header.writeIndex
    readIndex,      \* header.readIndex
    pid,            \* whether the pid of an end is set (serverPid, clientPid)
    \* named events
    newData,        \* _newDataEvent is set
    newSpace,       \* _newSpaceEvent is set
    \* each end
    part,           \* "absent", "open", "closed", or "dead" with its process
    handle,         \* _counterPartProcess is valid
    detections,     \* _detectionCounter
    at,             \* where its call of Write, Read or WaitForData is
    ownIndex,       \* the local writeIndex of Write
    remaining,      \* how many bytes Write and Read are still asked for
    \* history, read by properties only
    written,        \* how many bytes were copied in, modulo IndexLimit
    taken,          \* how many were copied out
    misread         \* whether one was not the next one that was written

shared == <<buffer, writeIndex, readIndex, pid>>
events == <<newData, newSpace>>
local  == <<part, handle, detections, at, ownIndex, remaining>>
past   == <<written, taken, misread>>
vars   == <<shared, events, local, past>>

Ends == {"writer", "reader"}
Other(end) == CHOOSE other \in Ends : other # end
Places == 0 .. PipeBufferSize - 1
Indices == 0 .. IndexLimit - 1

LeastOf(a, b) == IF a < b THEN a ELSE b

Advance(index, size) == (index + size) % IndexLimit

MaskIndex(index) == index % PipeBufferSize

\* Mutant: the difference is taken as if no index ever wraps.
AvailableUnwrapped == IF writeIndex >= readIndex THEN writeIndex - readIndex ELSE 0

GetAvailableData == (writeIndex + IndexLimit - readIndex) % IndexLimit

\* Mutant: room for one byte more than the ring has.
SpaceForOneMore == PipeBufferSize + 1 - GetAvailableData

GetAvailableSpace == PipeBufferSize - GetAvailableData

FreshMemory ==
    /\ buffer' = [p \in Places |-> 0]
    /\ writeIndex' = 0 /\ readIndex' = 0
    /\ newData' = FALSE /\ newSpace' = FALSE
    /\ written' = 0 /\ taken' = 0
    /\ UNCHANGED misread

Init ==
    /\ buffer = [p \in Places |-> 0]
    /\ writeIndex = 0 /\ readIndex = 0
    /\ pid = [e \in Ends |-> FALSE]
    /\ newData = FALSE /\ newSpace = FALSE
    /\ part = [e \in Ends |-> "absent"]
    /\ handle = [e \in Ends |-> FALSE]
    /\ detections = [e \in Ends |-> 0]
    /\ at = [e \in Ends |-> "idle"]
    /\ ownIndex = 0
    /\ remaining = [e \in Ends |-> 0]
    /\ written = 0 /\ taken = 0 /\ misread = FALSE

Goto(end, place) == at' = [at EXCEPT ![end] = place]

-----------------------------------------------------------------------------
(* The life of an end.                                                     *)

\* Create: who finds no memory of that name initializes it.
Create(end) ==
    /\ part[end] = "absent"
    /\ part' = [part EXCEPT ![end] = "open"]
    /\ IF part[Other(end)] = "open"
       THEN /\ pid' = [pid EXCEPT ![end] = TRUE]
            /\ UNCHANGED <<buffer, writeIndex, readIndex, events, past>>
       ELSE /\ pid' = [e \in Ends |-> e = end]
            /\ FreshMemory
    /\ UNCHANGED <<handle, detections, at, ownIndex, remaining>>

\* Disconnect, by any thread.
Disconnect(end) ==
    /\ part[end] = "open" /\ pid[end]
    /\ pid' = [pid EXCEPT ![end] = FALSE]
    /\ UNCHANGED <<buffer, writeIndex, readIndex, events, local, past>>

\* The destructor, when no call is under way; who was told that the connection
\* is lost closes its end.
Close(end) ==
    /\ part[end] = "open" /\ at[end] \in {"idle", "failed"}
    /\ part' = [part EXCEPT ![end] = "closed"]
    /\ pid' = [pid EXCEPT ![end] = FALSE]
    /\ Goto(end, "idle")
    /\ UNCHANGED <<buffer, writeIndex, readIndex, events, handle, detections, ownIndex, remaining,
                   past>>

\* The process ends at any moment; what it wrote stays.
Die(end) ==
    /\ part[end] = "open"
    /\ part' = [part EXCEPT ![end] = "dead"]
    /\ UNCHANGED <<shared, events, handle, detections, at, ownIndex, remaining, past>>

\* Nobody holds the memory any more; the next connection starts anew.
Forget ==
    /\ \A e \in Ends : part[e] \in {"closed", "dead"}
    /\ part' = [e \in Ends |-> "absent"]
    /\ pid' = [e \in Ends |-> FALSE]
    /\ handle' = [e \in Ends |-> FALSE]
    /\ detections' = [e \in Ends |-> 0]
    /\ at' = [e \in Ends |-> "idle"]
    /\ ownIndex' = 0
    /\ remaining' = [e \in Ends |-> 0]
    /\ buffer' = [p \in Places |-> 0]
    /\ writeIndex' = 0 /\ readIndex' = 0
    /\ newData' = FALSE /\ newSpace' = FALSE
    /\ written' = 0 /\ taken' = 0
    /\ UNCHANGED misread

-----------------------------------------------------------------------------
(* What an end knows of the other one.                                     *)

\* OpenProcess, which may fail only if the process is gone.
OpensProcess(end) == handle' = [handle EXCEPT ![end] = TRUE]
MayNotOpen(end)   == part[Other(end)] = "dead" /\ UNCHANGED handle

\* EnsureConnected returns Ok.
IsConnected(end) ==
    /\ pid[end]
    /\ \/ pid[Other(end)] = handle[end] /\ UNCHANGED handle
       \/ pid[Other(end)] /\ ~handle[end] /\ OpensProcess(end)

\* Mutant: an end that is not there yet is taken for one that has left.
IsNotConnectedYet(end) ==
    \/ ~pid[end] /\ UNCHANGED handle
    \/ pid[end] /\ ~pid[Other(end)] /\ UNCHANGED handle
    \/ pid[end] /\ pid[Other(end)] /\ ~handle[end] /\ MayNotOpen(end)

\* EnsureConnected returns NotConnected.
IsNotConnected(end) ==
    \/ ~pid[end] /\ UNCHANGED handle
    \/ pid[end] /\ ~pid[Other(end)] /\ handle[end] /\ UNCHANGED handle
    \/ pid[end] /\ pid[Other(end)] /\ ~handle[end] /\ MayNotOpen(end)

\* CheckIfConnectionIsAlive returns Ok ...
IsAlive(end) ==
    /\ pid[end]
    /\ \/ /\ ~pid[Other(end)] /\ ~handle[end]
          /\ detections[end] + 1 < DetectionLimit
          /\ detections' = [detections EXCEPT ![end] = @ + 1]
          /\ UNCHANGED handle
       \/ /\ pid[Other(end)] /\ part[Other(end)] # "dead"
          /\ OpensProcess(end)
          /\ UNCHANGED detections

\* ... or NotConnected or an error.
IsNotAlive(end) ==
    \/ ~pid[end] /\ UNCHANGED <<handle, detections>>
    \/ pid[end] /\ ~pid[Other(end)] /\ handle[end] /\ UNCHANGED <<handle, detections>>
    \/ /\ pid[end] /\ ~pid[Other(end)] /\ ~handle[end]
       /\ detections[end] + 1 = DetectionLimit
       /\ detections' = [detections EXCEPT ![end] = @ + 1]
       /\ UNCHANGED handle
    \/ /\ pid[end] /\ pid[Other(end)] /\ part[Other(end)] = "dead"
       /\ OpensProcess(end) \/ MayNotOpen(end)
       /\ UNCHANGED detections

\* Mutant: nobody looks after the other end.
TimePassesOnly(end) == UNCHANGED <<at, handle, detections>>

\* A millisecond passes without an event.
TimePasses(end) ==
    \/ IsAlive(end) /\ UNCHANGED at
    \/ IsNotAlive(end) /\ Goto(end, "failed")

-----------------------------------------------------------------------------
(* Write.                                                                  *)

BeginWrite(size) ==
    /\ part["writer"] = "open" /\ at["writer"] = "idle"
    /\ \/ IsConnected("writer") /\ Goto("writer", "looking")
       \/ IsNotConnected("writer") /\ Goto("writer", "failed")
    /\ ownIndex' = writeIndex
    /\ remaining' = [remaining EXCEPT !["writer"] = size]
    /\ UNCHANGED <<shared, events, part, detections, past>>

\* A full ring makes the writer wait, after it has woken the reader.
LookForSpace ==
    /\ at["writer"] = "looking" /\ GetAvailableSpace = 0
    /\ newData' = TRUE
    /\ Goto("writer", "waiting")
    /\ UNCHANGED <<shared, newSpace, part, handle, detections, ownIndex, remaining, past>>

\* The two memcpy of Write, up to the end of the ring and from its begin.
CopyIn ==
    /\ at["writer"] = "looking" /\ GetAvailableSpace > 0
    /\ LET size == LeastOf(remaining["writer"], GetAvailableSpace) IN
          /\ buffer' = [p \in Places |->
                LET offset == (p + PipeBufferSize - MaskIndex(ownIndex)) % PipeBufferSize IN
                IF offset < size THEN Advance(written, offset) ELSE buffer[p]]
          /\ ownIndex' = Advance(ownIndex, size)
          /\ remaining' = [remaining EXCEPT !["writer"] = @ - size]
          /\ written' = Advance(written, size)
    /\ Goto("writer", "copied")
    /\ UNCHANGED <<writeIndex, readIndex, pid, events, part, handle, detections, taken, misread>>

PublishWritten ==
    /\ at["writer"] = "copied"
    /\ writeIndex' = ownIndex
    /\ Goto("writer", IF remaining["writer"] = 0 THEN "signalling" ELSE "looking")
    /\ UNCHANGED <<buffer, readIndex, pid, events, part, handle, detections, ownIndex, remaining,
                   past>>

SignalData ==
    /\ at["writer"] = "signalling"
    /\ newData' = TRUE
    /\ Goto("writer", "idle")
    /\ UNCHANGED <<shared, newSpace, part, handle, detections, ownIndex, remaining, past>>

WaitForSpace ==
    /\ at["writer"] = "waiting"
    /\ \/ /\ GetAvailableSpace > 0
          /\ Goto("writer", "looking")
          /\ UNCHANGED <<newSpace, handle, detections>>
       \/ /\ GetAvailableSpace = 0 /\ newSpace
          /\ newSpace' = FALSE
          /\ UNCHANGED <<at, handle, detections>>
       \/ /\ GetAvailableSpace = 0 /\ ~newSpace
          /\ TimePasses("writer")
          /\ UNCHANGED newSpace
    /\ UNCHANGED <<shared, newData, part, ownIndex, remaining, past>>

-----------------------------------------------------------------------------
(* Read and WaitForData.                                                   *)

BeginRead(size) ==
    /\ part["reader"] = "open" /\ at["reader"] \in {"idle", "ready"}
    /\ \/ IsConnected("reader") /\ Goto("reader", "looking")
       \/ IsNotConnected("reader") /\ Goto("reader", "failed")
    /\ remaining' = [remaining EXCEPT !["reader"] = size]
    /\ UNCHANGED <<shared, events, part, detections, ownIndex, past>>

\* An empty ring makes the reader wait, after it has woken the writer.
LookForData ==
    /\ at["reader"] = "looking" /\ GetAvailableData = 0
    /\ newSpace' = TRUE
    /\ Goto("reader", "waiting")
    /\ UNCHANGED <<shared, newData, part, handle, detections, ownIndex, remaining, past>>

CopyOut ==
    /\ at["reader"] = "looking" /\ GetAvailableData > 0
    /\ LET size == LeastOf(remaining["reader"], GetAvailableData) IN
          /\ remaining' = [remaining EXCEPT !["reader"] = size]
          /\ misread' = (misread \/ \E offset \in 0 .. size - 1 :
                 buffer[MaskIndex(Advance(readIndex, offset))] # Advance(taken, offset))
          /\ taken' = Advance(taken, size)
    /\ Goto("reader", "copied")
    /\ UNCHANGED <<shared, events, part, handle, detections, ownIndex, written>>

PublishRead ==
    /\ at["reader"] = "copied"
    /\ readIndex' = Advance(readIndex, remaining["reader"])
    /\ remaining' = [remaining EXCEPT !["reader"] = 0]
    /\ Goto("reader", "signalling")
    /\ UNCHANGED <<buffer, writeIndex, pid, events, part, handle, detections, ownIndex, past>>

SignalSpace ==
    /\ at["reader"] = "signalling"
    /\ newSpace' = TRUE
    /\ Goto("reader", "idle")
    /\ UNCHANGED <<shared, newData, part, handle, detections, ownIndex, remaining, past>>

\* WaitForData: data is there, the event is set, or time passes.
LookAgain(ifData) ==
    \/ /\ GetAvailableData > 0
       /\ Goto("reader", ifData)
       /\ UNCHANGED <<newData, handle, detections>>
    \/ /\ GetAvailableData = 0 /\ newData
       /\ newData' = FALSE
       /\ UNCHANGED <<at, handle, detections>>
    \/ /\ GetAvailableData = 0 /\ ~newData
       /\ TimePasses("reader")
       /\ UNCHANGED newData

WaitForData ==
    /\ at["reader"] = "waiting"
    /\ LookAgain("looking")
    /\ UNCHANGED <<shared, newSpace, part, ownIndex, remaining, past>>

\* The call with a timeout, which a client makes that polls.  It does not ask
\* whether the other end is connected before it waits.
BeginPoll ==
    /\ part["reader"] = "open" /\ at["reader"] = "idle"
    /\ IF GetAvailableData > 0 THEN Goto("reader", "ready") /\ UNCHANGED newSpace
                               ELSE Goto("reader", "polling") /\ newSpace' = TRUE
    /\ UNCHANGED <<shared, newData, part, handle, detections, ownIndex, remaining, past>>

Poll ==
    /\ at["reader"] = "polling"
    /\ \/ LookAgain("ready")
       \/ /\ GetAvailableData = 0
          /\ Goto("reader", "idle")
          /\ UNCHANGED <<newData, handle, detections>>
    /\ UNCHANGED <<shared, newSpace, part, ownIndex, remaining, past>>

-----------------------------------------------------------------------------
Write == \E size \in WriteSizes : BeginWrite(size)
Read  == (\E size \in ReadSizes : BeginRead(size)) \/ BeginPoll

\* A call that is under way goes on.
WriteGoesOn ==
    /\ part["writer"] = "open"
    /\ LookForSpace \/ CopyIn \/ PublishWritten \/ SignalData \/ WaitForSpace

ReadGoesOn ==
    /\ part["reader"] = "open"
    /\ LookForData \/ CopyOut \/ PublishRead \/ SignalSpace \/ WaitForData \/ Poll

Next ==
    \/ \E end \in Ends : Create(end) \/ Disconnect(end) \/ Close(end) \/ Die(end)
    \/ Forget
    \/ Write \/ WriteGoesOn
    \/ Read \/ ReadGoesOn

Spec == Init /\ [][Next]_vars

\* A thread in a call runs on, and the reading end calls again and again; when
\* anything is written, and whether an end stays, is left open.
FairSpec == Spec /\ WF_vars(WriteGoesOn) /\ WF_vars(Read) /\ WF_vars(ReadGoesOn)

-----------------------------------------------------------------------------
(* Properties.                                                             *)

TypeOK ==
    /\ buffer \in [Places -> Indices]
    /\ writeIndex \in Indices /\ readIndex \in Indices /\ ownIndex \in Indices
    /\ pid \in [Ends -> BOOLEAN] /\ handle \in [Ends -> BOOLEAN]
    /\ newData \in BOOLEAN /\ newSpace \in BOOLEAN
    /\ part \in [Ends -> {"absent", "open", "closed", "dead"}]
    /\ detections \in [Ends -> 0 .. DetectionLimit]
    /\ at \in [Ends -> {"idle", "looking", "waiting", "copied", "signalling", "polling", "ready",
                        "failed"}]
    /\ remaining \in [Ends -> Nat]
    /\ written \in Indices /\ taken \in Indices /\ misread \in BOOLEAN

\* The reader takes out the bytes in the order in which the writer put them in,
\* none lost, none twice, none that is overwritten or not yet copied, also when
\* the indices have gone round.
BytesInOrder == ~misread

\* A call fails only for a cause: the own end or the other one is disconnected,
\* or the other process is gone, or it never came.
FailsForCause ==
    [][\A end \in Ends :
          at[end] # "failed" /\ at'[end] = "failed" =>
             \/ ~pid[end]
             \/ part[Other(end)] \in {"closed", "dead"}
             \/ ~pid[Other(end)] /\ (handle[end] \/ detections'[end] = DetectionLimit)]_vars

\* A call that waits for an end that has left or died, or that was cut off by
\* a Disconnect of its own end, comes back, if the other end does not.
Stranded(end) ==
    /\ part[end] = "open" /\ at[end] \in {"looking", "waiting", "polling"}
    /\ ~pid[end] \/ ~pid[Other(end)] \/ part[Other(end)] = "dead"

GoneIsNoticed == \A end \in Ends : Stranded(end) ~> ~Stranded(end)

\* While both ends stay and no call of theirs has failed, every byte that is
\* written is read: again and again the ring is empty or the reader takes more.
EveryByteIsRead ==
    []<>(\/ readIndex = writeIndex
         \/ at["reader"] = "copied"
         \/ \E end \in Ends : ~pid[end] \/ part[end] # "open" \/ at[end] = "failed")
=============================================================================
