------------------------------- MODULE Channel ------------------------------
(***************************************************************************)
(* One direction of a connection: the writer at one end, which gathers     *)
(* what is written and sends it in frames, and the reader at the other,    *)
(* which receives whatever part of the stream has arrived.  The frames of  *)
(* a socket begin with a header that holds their size; the local channel   *)
(* of Windows sends no header (ChannelWriter, ChannelReader and their      *)
(* variants for sockets and for the shared memory pipe).                   *)
(*                                                                         *)
(* A connection is a channel of one kind, a reader that polls before each  *)
(* frame or, when it runs callback-based, reads at once, and the frames    *)
(* the channel carries in this direction.                                  *)
(***************************************************************************)
EXTENDS Naturals, Sequences, FiniteSets, SequencesExt, Protocol

CONSTANTS
    BufferSize,          \* the size of the buffers of writer and reader
    SizeOfHeader,        \* HeaderSize
    DefaultSizeToRead,   \* _defaultSizeToRead of the reader of a socket
    Connections          \* the connections: records of local, polling and frames

\* What a user of this module assumes of its constants.
ChannelAssumption ==
    /\ BufferSize \in Nat /\ SizeOfHeader \in Nat /\ DefaultSizeToRead \in Nat
    /\ 0 < SizeOfHeader /\ SizeOfHeader < BufferSize
    /\ SizeOfHeader <= DefaultSizeToRead /\ DefaultSizeToRead + SizeOfHeader <= BufferSize
    /\ \A c \in Connections : c.local \in BOOLEAN /\ c.polling \in BOOLEAN /\ c.frames # <<>>

VARIABLES
    connection,     \* the connection at hand
    toWrite,        \* the calls the writing end has not made yet
    writeBuffer,    \* what _writeBuffer holds behind the header
    wire,           \* what was sent and is not received yet
    toRead,         \* the frames the reading end has not begun to read
    reading,        \* the calls it has not made yet for the one it reads
    readBuffer,     \* what _readBuffer holds
    readIndex,      \* _readIndex
    endFrameIndex,  \* _endFrameIndex
    sizeToRead,     \* how much BeginRead still wants; 0 when it is not under way
    headerRead,     \* whether BeginRead knows the size of the frame
    polled,         \* what WaitForData said: "nothing", "data" or "timeout"
    \* history, read by properties only
    written,        \* how many bytes were written
    taken,          \* how many were read
    misread         \* whether a byte was read as something it is not

writerVars == <<toWrite, writeBuffer, written>>
bufferVars == <<readBuffer, endFrameIndex, sizeToRead, headerRead>>
vars == <<connection, toWrite, writeBuffer, wire, toRead, reading, readBuffer, readIndex,
          endFrameIndex, sizeToRead, headerRead, polled, written, taken, misread>>

\* Whether the channel is the local one of Windows; whether the reader polls.
Local   == connection.local
Polling == connection.polling

HeaderOf(c) == IF c.local THEN 0 ELSE SizeOfHeader
Header == HeaderOf(connection)

LeastOf(a, b) == IF a < b THEN a ELSE b

\* A byte: what it is part of, and the size in a header or its place among all.
Byte(field, number) == [field |-> field, number |-> number]

\* A frame as it is sent.
Sent(payload) == [i \in 1 .. Header |-> Byte("header", Header + Len(payload))] \o payload

Bytes(fields) == [i \in DOMAIN fields |-> Byte(fields[i], written + i)]

AllCalls(frames) == FlattenSeq([i \in DOMAIN frames |-> SendCalls(frames[i])])

-----------------------------------------------------------------------------
(* What Protocol must see to for the channel to do its part: the calls of  *)
(* the two ends are for the same fields.                                   *)

FieldsOf(calls) == FlattenSeq([i \in DOMAIN calls |-> calls[i].fields])

\* How many fields come before each of the calls ends, start of them before the
\* first call.
Bounds(calls, start) == [i \in 0 .. Len(calls) |-> start + Len(FieldsOf(SubSeq(calls, 1, i)))]

WriteBounds(c) == Bounds(AllCalls(c.frames), 0)

AllReads(frames) == FlattenSeq([i \in DOMAIN frames |-> ReadCalls(frames[i])])
FrameEnds(c)     == [k \in 0 .. Len(c.frames) |-> Len(FieldsOf(AllReads(SubSeq(c.frames, 1, k))))]
ReadBounds(c, k) == Bounds(ReadCalls(c.frames[k]), FrameEnds(c)[k - 1])

\* The calls are for these fields, cut at these bounds.
CutAt(calls, bounds, fields) ==
    /\ calls \in Seq([call : {"block", "raw", "end"}, fields : Seq(STRING)])
    /\ bounds \in [0 .. Len(calls) -> 0 .. Len(fields)]
    /\ \A i, j \in DOMAIN bounds : i <= j => bounds[i] <= bounds[j]
    /\ \A i \in DOMAIN calls :
          /\ calls[i].fields = SubSeq(fields, bounds[i - 1] + 1, bounds[i])
          /\ calls[i].call = "end" <=> bounds[i - 1] = bounds[i]

\* What is written for a connection are its fields; a frame begins with a field,
\* and a block has room in a buffer.
WritesAgree(c, calls, bounds, fields) ==
    /\ fields \in Seq(STRING)
    /\ calls # <<>> /\ CutAt(calls, bounds, fields)
    /\ bounds[0] = 0 /\ bounds[Len(calls)] = Len(fields)
    /\ calls[1].call # "end" /\ calls[Len(calls)].call = "end"
    /\ \A i \in DOMAIN calls :
          /\ calls[i].call = "end" /\ i # Len(calls) => calls[i + 1].call # "end"
          /\ calls[i].call = "block" => HeaderOf(c) + Len(calls[i].fields) <= BufferSize

\* What is read are the same fields, a block of them out of one block, and a frame
\* is left, and its end looked for, where one was written to its end.
ReadsAgree(c, k, calls, bounds, fields) ==
    LET reads == ReadCalls(c.frames[k])
        cuts  == ReadBounds(c, k)
    IN  /\ CutAt(reads, cuts, fields)
        /\ cuts[0] = FrameEnds(c)[k - 1] /\ cuts[Len(reads)] = FrameEnds(c)[k]
        /\ \E j \in DOMAIN calls : calls[j].call = "end" /\ bounds[j] = FrameEnds(c)[k]
        /\ \A i \in DOMAIN reads :
              /\ reads[i].call = "block" => \E j \in DOMAIN calls :
                    calls[j].call = "block" /\ bounds[j - 1] <= cuts[i - 1] /\ cuts[i] <= bounds[j]
              /\ reads[i].call = "end" => \E j \in DOMAIN calls :
                    calls[j].call = "end" /\ bounds[j] = cuts[i]

LayoutAgrees(c) ==
    LET calls  == AllCalls(c.frames)
        fields == FieldsOf(calls)
    IN  /\ c.frames \in Seq({c.frames[k] : k \in DOMAIN c.frames})
        /\ WritesAgree(c, calls, WriteBounds(c), fields)
        /\ FrameEnds(c)[0] = 0 /\ FrameEnds(c)[Len(c.frames)] = Len(fields)
        /\ \A k \in DOMAIN c.frames : ReadsAgree(c, k, calls, WriteBounds(c), fields)

LayoutsAgree == \A c \in Connections : LayoutAgrees(c)

-----------------------------------------------------------------------------

Init ==
    /\ connection \in Connections
    /\ toWrite = AllCalls(connection.frames)
    /\ toRead = connection.frames
    /\ writeBuffer = <<>>
    /\ wire = <<>>
    /\ reading = <<>>
    /\ readBuffer = <<>>
    /\ readIndex = 0
    /\ endFrameIndex = 0
    /\ sizeToRead = 0
    /\ headerRead = FALSE
    /\ polled = "nothing"
    /\ written = 0
    /\ taken = 0
    /\ misread = FALSE

-----------------------------------------------------------------------------
(* The writer.                                                             *)

\* Mutant: the frame is not ended when the block does not fit.
FitsAlways(fields) == TRUE

Fits(fields) == Header + Len(writeBuffer) + Len(fields) <= BufferSize

\* Reserve, and Write of one value.
WriteBlock ==
    LET fields == Head(toWrite).fields IN
    /\ toWrite # <<>> /\ Head(toWrite).call = "block"
    /\ IF Fits(fields)
       THEN writeBuffer' = writeBuffer \o Bytes(fields) /\ UNCHANGED wire
       ELSE writeBuffer' = Bytes(fields) /\ wire' = wire \o Sent(writeBuffer)
    /\ toWrite' = Tail(toWrite)
    /\ written' = written + Len(fields)

\* One turn of the loop of Write: a full buffer is sent, else as much is copied
\* as there is room for.
WriteRaw ==
    LET fields == Head(toWrite).fields
        room   == BufferSize - (Header + Len(writeBuffer))
        chunk  == SubSeq(fields, 1, LeastOf(room, Len(fields)))
        rest   == SubSeq(fields, Len(chunk) + 1, Len(fields))
    IN  /\ toWrite # <<>> /\ Head(toWrite).call = "raw"
        /\ IF room = 0
           THEN /\ wire' = wire \o Sent(writeBuffer)
                /\ writeBuffer' = <<>>
                /\ UNCHANGED <<toWrite, written>>
           ELSE /\ writeBuffer' = writeBuffer \o Bytes(chunk)
                /\ written' = written + Len(chunk)
                /\ toWrite' = IF rest = <<>> THEN Tail(toWrite)
                              ELSE <<[call |-> "raw", fields |-> rest]>> \o Tail(toWrite)
                /\ UNCHANGED wire

\* Mutant: the frame stays in the buffer until the last one is written.
EndWriteGathers ==
    /\ toWrite # <<>> /\ Head(toWrite).call = "end"
    /\ IF Tail(toWrite) = <<>>
       THEN wire' = wire \o Sent(writeBuffer) /\ writeBuffer' = <<>>
       ELSE UNCHANGED <<wire, writeBuffer>>
    /\ toWrite' = Tail(toWrite)
    /\ UNCHANGED written

EndWrite ==
    /\ toWrite # <<>> /\ Head(toWrite).call = "end"
    /\ wire' = wire \o Sent(writeBuffer)
    /\ writeBuffer' = <<>>
    /\ toWrite' = Tail(toWrite)
    /\ UNCHANGED written

Write ==
    /\ WriteBlock \/ WriteRaw \/ EndWrite
    /\ UNCHANGED <<connection, toRead, reading, readIndex, bufferVars, polled, taken, misread>>

-----------------------------------------------------------------------------
(* BeginRead, which fetches the next frame into the buffer.                *)

\* _writeIndex, which the reader of the local channel never sets: it keeps the
\* end of what it has received in _endFrameIndex.
WriteIndex == IF Local THEN 0 ELSE Len(readBuffer)

\* What follows once the buffer holds buffer and wants to receive toReceive more:
\* the size of the frame may now be known, and all of the frame be there.
Fetch(buffer, toReceive, headerKnown) ==
    LET known == headerKnown \/ Len(buffer) >= Header
        end   == IF known THEN buffer[1].number ELSE endFrameIndex
    IN  /\ readBuffer' = buffer
        /\ headerRead' = known
        /\ endFrameIndex' = end
        /\ sizeToRead' = IF ~known THEN toReceive
                         ELSE IF Len(buffer) >= end THEN 0 ELSE end - Len(buffer)

\* Mutant: what was received beyond the frame is thrown away.
RestIsLost == <<>>

\* What was received beyond the frame.
Rest == SubSeq(readBuffer, endFrameIndex + 1, Len(readBuffer))

\* The reader wants more than the frame it reads still has.
Wants ==
    LET available == endFrameIndex - readIndex IN
    /\ reading # <<>> /\ sizeToRead = 0
    /\ \/ Head(reading).call = "block" /\ available < Len(Head(reading).fields)
       \/ Head(reading).call = "raw" /\ available = 0

BeginRead ==
    /\ ~Local
    /\ Wants
    /\ readIndex' = Header
    /\ Fetch(Rest, DefaultSizeToRead, FALSE)
    /\ UNCHANGED <<wire, reading, taken, misread>>

\* One turn of the loop: whatever part of what is wanted has arrived.
Receive ==
    /\ sizeToRead > 0
    /\ \E size \in 1 .. LeastOf(sizeToRead, Len(wire)) :
          /\ Fetch(readBuffer \o SubSeq(wire, 1, size), sizeToRead - size, headerRead)
          /\ wire' = SubSeq(wire, size + 1, Len(wire))
    /\ UNCHANGED <<reading, readIndex, taken, misread>>

\* The reader of the local channel keeps what it has not read and receives once.
BeginReadLocal ==
    /\ Local
    /\ Wants
    /\ LET unread == SubSeq(readBuffer, readIndex + 1, endFrameIndex)
           most   == LeastOf(BufferSize - Len(unread), Len(wire))
       IN  \E size \in 1 .. most :
              /\ readBuffer' = unread \o SubSeq(wire, 1, size)
              /\ endFrameIndex' = Len(unread) + size
              /\ wire' = SubSeq(wire, size + 1, Len(wire))
    /\ readIndex' = 0
    /\ UNCHANGED <<reading, sizeToRead, headerRead, taken, misread>>

-----------------------------------------------------------------------------
(* The reader.                                                             *)

\* Hands out the next bytes as the fields the caller takes them for.
Take(fields) ==
    LET bytes == SubSeq(readBuffer, readIndex + 1, readIndex + Len(fields)) IN
    /\ readIndex' = readIndex + Len(fields)
    /\ taken' = taken + Len(fields)
    /\ misread' = (misread \/ bytes # [i \in DOMAIN fields |-> Byte(fields[i], taken + i)])

Available == IF sizeToRead = 0 THEN endFrameIndex - readIndex ELSE 0

\* ReadBlock, and Read of one value.
ReadBlock ==
    /\ reading # <<>> /\ Head(reading).call = "block"
    /\ Available >= Len(Head(reading).fields)
    /\ Take(Head(reading).fields)
    /\ reading' = Tail(reading)
    /\ UNCHANGED <<wire, bufferVars>>

\* One turn of the loop of Read.
ReadRaw ==
    LET fields == Head(reading).fields
        size   == LeastOf(Available, Len(fields))
        rest   == SubSeq(fields, size + 1, Len(fields))
    IN  /\ reading # <<>> /\ Head(reading).call = "raw"
        /\ Available > 0
        /\ Take(SubSeq(fields, 1, size))
        /\ reading' = IF rest = <<>> THEN Tail(reading)
                      ELSE <<[call |-> "raw", fields |-> rest]>> \o Tail(reading)
        /\ UNCHANGED <<wire, bufferVars>>

\* EndRead throws if the frame has more than was read (EndReadThrows); the local
\* channel does not look.
EndRead ==
    /\ reading # <<>> /\ Head(reading).call = "end"
    /\ Local \/ readIndex = endFrameIndex
    /\ reading' = Tail(reading)
    /\ UNCHANGED <<wire, readIndex, bufferVars, taken, misread>>

Read ==
    /\ BeginRead \/ Receive \/ BeginReadLocal \/ ReadBlock \/ ReadRaw \/ EndRead
    /\ UNCHANGED <<connection, writerVars, toRead, polled>>

\* Mutant: WaitForData asks the socket without a look at the buffer.
SeesDataOnWireOnly == wire # <<>>

\* WaitForData: data that BeginRead left in the buffer, or data that arrives.
SeesData == WriteIndex > endFrameIndex \/ wire # <<>>

BetweenFrames == reading = <<>> /\ toRead # <<>>

\* A poll ends with data, or without when its time is over.
WaitForData ==
    /\ Polling
    /\ BetweenFrames
    /\ polled # "data"
    /\ polled' = IF SeesData THEN "data" ELSE "timeout"
    /\ UNCHANGED <<connection, writerVars, wire, toRead, reading, readIndex, bufferVars,
                   taken, misread>>

BeginFrame ==
    /\ BetweenFrames
    /\ Polling => polled = "data"
    /\ reading' = ReadCalls(Head(toRead))
    /\ toRead' = Tail(toRead)
    /\ polled' = "nothing"
    /\ UNCHANGED <<connection, writerVars, wire, readIndex, bufferVars, taken, misread>>

\* Everything was read; the next connection has a channel of its own.
NewConnection ==
    /\ toWrite = <<>> /\ toRead = <<>> /\ reading = <<>>
    /\ connection' \in Connections
    /\ toWrite' = AllCalls(connection'.frames)
    /\ toRead' = connection'.frames
    /\ readBuffer' = <<>>
    /\ readIndex' = 0
    /\ endFrameIndex' = 0
    /\ sizeToRead' = 0
    /\ headerRead' = FALSE
    /\ polled' = "nothing"
    /\ written' = 0
    /\ taken' = 0
    /\ misread' = FALSE
    /\ UNCHANGED <<writeBuffer, wire, reading>>

Next == Write \/ Read \/ WaitForData \/ BeginFrame \/ NewConnection

Spec == Init /\ [][Next]_vars

\* Both ends go on, the reader for as long as there is something to receive.
FairSpec == Spec /\ WF_vars(Write) /\ WF_vars(Read) /\ WF_vars(WaitForData) /\ WF_vars(BeginFrame)

-----------------------------------------------------------------------------
(* Properties.                                                             *)

\* What the reading end takes for a field is that field: nothing is lost,
\* doubled or taken for something else, however the stream was cut into frames,
\* the frames into packets and the reading into blocks.
ReadsWhatWasWritten == ~misread

\* EndRead finds the frame read to its end.
EndReadNeverThrows ==
    (~Local /\ reading # <<>> /\ Head(reading).call = "end") => readIndex = endFrameIndex

\* Neither buffer is ever written behind its end, and the reader never waits
\* for bytes of a frame for which the buffer has no room.
BuffersHold ==
    /\ Header + Len(writeBuffer) <= BufferSize
    /\ Len(readBuffer) + sizeToRead <= BufferSize

\* A poll that times out overlooked nothing: no byte of the frame it waits for
\* has arrived, neither in the buffer nor on the wire.
TimeoutMeansNoData ==
    [][(polled # "timeout" /\ polled' = "timeout") =>
          (taken = written - Len(writeBuffer))]_vars

\* Every frame that is written is read.
EveryFrameIsRead == (toRead # <<>>) ~> (toRead = <<>> /\ reading = <<>>)
=============================================================================
