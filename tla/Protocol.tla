------------------------------ MODULE Protocol ------------------------------
(***************************************************************************)
(* The layout of the frames (ProtocolV1, ProtocolV2): for every kind of    *)
(* frame, the calls with which SendX hands its fields to the writer of the *)
(* channel and the calls with which ReadX asks the reader for them.  The   *)
(* two differ: what one end reserves as one block the other one may read   *)
(* in pieces.                                                              *)
(*                                                                         *)
(* A field stands for the bytes of one value, a field of a raw call for    *)
(* one byte of a text or of data.  A frame is its kind, the version of the *)
(* protocol, the number of entries of each of its lists and the length of  *)
(* its texts and data.                                                     *)
(***************************************************************************)
EXTENDS Naturals, Sequences, SequencesExt

Frame(kind, version, entries, length) ==
    [kind |-> kind, version |-> version, entries |-> entries, length |-> length]

\* Reserve and ReadBlock, and Write and Read of one value: a block of fields is
\* never split.  Write and Read of a number of bytes, which may be.  EndWrite
\* and EndRead.
Block(fields)    == [call |-> "block", fields |-> fields]
Scalar(field)    == Block(<<field>>)
Raw(field, size) == [call |-> "raw", fields |-> [i \in 1 .. size |-> field]]
End              == [call |-> "end", fields |-> <<>>]

Repeat(entries, calls) == FlattenSeq([i \in 1 .. entries |-> calls])

\* The four buses; a session of version 1 knows nothing of FlexRay.
AllBuses == {"can", "eth", "lin", "fr"}
Buses(version) == IF version >= 2 THEN <<"can", "eth", "lin", "fr">>
                                  ELSE <<"can", "eth", "lin">>

\* The calls of each bus, in their order.
ForBuses(version, callsOf) ==
    FlattenSeq([i \in DOMAIN Buses(version) |-> callsOf[Buses(version)[i]]])

-----------------------------------------------------------------------------
(* Parts that are written and read with the same calls.                    *)

String(field, length) == <<Scalar("size"), Raw(field, length)>>

IoSignalInfo(length) ==
    <<Block(<<"id", "length", "dataType", "sizeKind">>)>> \o String("name", length)

IoSignalInfos(frame) ==
    <<Scalar("size")>> \o Repeat(frame.entries, IoSignalInfo(frame.length))

ControllerFields(bus) ==
    <<"id", "queueSize", "bitsPerSecond">> \o
        CASE bus = "can" -> <<"flexibleDataRateBitsPerSecond">>
          [] bus = "eth" -> <<"macAddress">>
          [] bus = "lin" -> <<"type">>
          [] bus = "fr"  -> <<>>

ControllerInfos(frame) ==
    ForBuses(frame.version, [bus \in AllBuses |->
        <<Scalar("size")>> \o
            Repeat(frame.entries,
                   <<Block(ControllerFields(bus))>>
                       \o String("name", frame.length)
                       \o String("channelName", frame.length)
                       \o String("clusterName", frame.length))])

\* The signals of a step; they are of variable size.
IoData(frame) ==
    <<Scalar("size")>> \o
        Repeat(frame.entries,
               <<Scalar("signalId"), Scalar("length"), Raw("data", frame.length)>>)

-----------------------------------------------------------------------------
(* Messages are written as one block and read as a block and their data.   *)

MessageFields(bus) ==
    IF bus = "eth" THEN <<"timestamp", "controllerId", "flags", "length">>
                   ELSE <<"timestamp", "controllerId", "id", "flags", "length">>

WriteMessage(bus, frame) == <<Block(MessageFields(bus) \o Raw("data", frame.length).fields)>>

ReadMessage(bus, frame) == <<Block(MessageFields(bus)), Raw("data", frame.length)>>

WriteBusMessages(frame) ==
    ForBuses(frame.version, [bus \in AllBuses |->
        <<Scalar("size")>> \o Repeat(frame.entries, WriteMessage(bus, frame))])

ReadBusMessages(frame) ==
    ForBuses(frame.version, [bus \in AllBuses |->
        <<Scalar("size")>> \o Repeat(frame.entries, ReadMessage(bus, frame))])

-----------------------------------------------------------------------------
(* What SendX writes before it ends the frame, and what ReadX reads after  *)
(* ReceiveHeader has read the kind of the frame.  SendOk writes the kind   *)
(* only and ReadOk reads nothing.                                          *)

ReceiveHeader == <<Scalar("frameKind")>>

SendError(frame) == <<Scalar("frameKind")>> \o String("errorMessage", frame.length)
ReadError(frame) == String("errorMessage", frame.length)

\* Version 1 tells no round trip time.
SendPing(frame) == IF frame.version >= 2 THEN <<Block(<<"frameKind", "roundTripTime">>)>>
                                         ELSE <<Scalar("frameKind")>>
ReadPing(frame) == IF frame.version >= 2 THEN <<Scalar("roundTripTime")>> ELSE <<>>

SendPingOk == <<Block(<<"frameKind", "command">>)>>
ReadPingOk == <<Scalar("command")>>

SendConnect(frame) == <<Block(<<"frameKind", "protocolVersion", "clientMode">>)>>
    \o String("serverName", frame.length) \o String("clientName", frame.length)
ReadConnect(frame) == <<Block(<<"protocolVersion", "clientMode">>)>>
    \o String("serverName", frame.length) \o String("clientName", frame.length)

SendConnectOk(frame) ==
    <<Block(<<"frameKind", "protocolVersion", "clientMode", "stepSize", "simulationState">>)>>
        \o IoSignalInfos(frame) \o IoSignalInfos(frame) \o ControllerInfos(frame)

\* The version is read first, to choose the protocol that reads the rest.
ReadConnectOkVersion == <<Scalar("protocolVersion")>>
ReadConnectOk(frame) ==
    ReadConnectOkVersion \o <<Block(<<"clientMode", "stepSize", "simulationState">>)>>
        \o IoSignalInfos(frame) \o IoSignalInfos(frame) \o ControllerInfos(frame)

\* Start, Stop, Pause and Continue.
SendTime == <<Block(<<"frameKind", "simulationTime">>)>>
ReadTime == <<Scalar("simulationTime")>>

SendTerminate == <<Block(<<"frameKind", "simulationTime", "reason">>)>>
ReadTerminate == <<Block(<<"simulationTime", "reason">>)>>

SendStep(frame) == SendTime \o IoData(frame) \o WriteBusMessages(frame)
ReadStep(frame) == ReadTime \o IoData(frame) \o ReadBusMessages(frame)

SendStepOk(frame) == <<Block(<<"frameKind", "simulationTime", "command">>)>>
    \o IoData(frame) \o WriteBusMessages(frame)
ReadStepOk(frame) == <<Block(<<"simulationTime", "command">>)>>
    \o IoData(frame) \o ReadBusMessages(frame)

SendSetPort(frame) == <<Scalar("frameKind")>> \o String("serverName", frame.length)
    \o <<Scalar("port")>>
ReadSetPort(frame) == String("serverName", frame.length) \o <<Scalar("port")>>

\* GetPort and UnsetPort.
SendName(frame) == <<Scalar("frameKind")>> \o String("serverName", frame.length)
ReadName(frame) == String("serverName", frame.length)

SendGetPortOk == <<Block(<<"frameKind", "port">>)>>
ReadGetPortOk == <<Scalar("port")>>

WithTime == {"Start", "Stop", "Pause", "Continue"}
WithName == {"GetPort", "UnsetPort"}

SendFrame(frame) ==
    LET kind == frame.kind IN
    CASE kind = "Ok"          -> <<Scalar("frameKind")>>
      [] kind = "Error"       -> SendError(frame)
      [] kind = "Ping"        -> SendPing(frame)
      [] kind = "PingOk"      -> SendPingOk
      [] kind = "Connect"     -> SendConnect(frame)
      [] kind = "ConnectOk"   -> SendConnectOk(frame)
      [] kind \in WithTime    -> SendTime
      [] kind = "Terminate"   -> SendTerminate
      [] kind = "Step"        -> SendStep(frame)
      [] kind = "StepOk"      -> SendStepOk(frame)
      [] kind = "SetPort"     -> SendSetPort(frame)
      [] kind \in WithName    -> SendName(frame)
      [] kind = "GetPortOk"   -> SendGetPortOk

ReadFrame(frame) ==
    LET kind == frame.kind IN
    CASE kind = "Ok"          -> <<>>
      [] kind = "Error"       -> ReadError(frame)
      [] kind = "Ping"        -> ReadPing(frame)
      [] kind = "PingOk"      -> ReadPingOk
      [] kind = "Connect"     -> ReadConnect(frame)
      [] kind = "ConnectOk"   -> ReadConnectOk(frame)
      [] kind \in WithTime    -> ReadTime
      [] kind = "Terminate"   -> ReadTerminate
      [] kind = "Step"        -> ReadStep(frame)
      [] kind = "StepOk"      -> ReadStepOk(frame)
      [] kind = "SetPort"     -> ReadSetPort(frame)
      [] kind \in WithName    -> ReadName(frame)
      [] kind = "GetPortOk"   -> ReadGetPortOk

\* Calls for no bytes do nothing.
Effective(calls) == SelectSeq(calls, LAMBDA c : c.call = "end" \/ c.fields # <<>>)

SendCalls(frame) == Effective(SendFrame(frame) \o <<End>>)

\* ReadPing of version 1 leaves out EndRead.
ReadCalls(frame) ==
    Effective(ReceiveHeader \o ReadFrame(frame) \o
        IF frame.kind = "Ping" /\ frame.version = 1 THEN <<>> ELSE <<End>>)
=============================================================================
