------------------------------ MODULE MCFrames ------------------------------
(***************************************************************************)
(* The connections with which TLC checks Channel.  The server may send a   *)
(* command right behind its connect-ok frame; every other frame is sent    *)
(* when the one before it was answered, and therefore read.                *)
(***************************************************************************)
EXTENDS Naturals, Protocol

Commands == {"Ping", "Start", "Stop", "Pause", "Continue", "Terminate", "Step"}
\* The other kinds, those whose fields all have their size, and those with a
\* name, a message or data, which may be empty.
Sized  == {"Ok", "PingOk", "GetPortOk"}
Others == {"Error", "Connect", "StepOk", "SetPort", "GetPort", "UnsetPort"}

Answer(kind, version, length) == <<Frame(kind, version, 1, length)>>

Opening(kind, version, entries) ==
    <<Frame("ConnectOk", version, 1, 1), Frame(kind, version, entries, 2)>>

\* The frames whose layout depends on the version are sent in both.
Carried ==
    {Answer(kind, 2, 2) : kind \in Sized}
    \cup {Answer(kind, 2, length) : kind \in Others, length \in {0, 2}}
    \cup {Answer("StepOk", 1, length) : length \in {0, 2}}
    \cup {Opening(kind, 2, 1) : kind \in Commands}
    \cup {Opening(kind, 1, entries) : kind \in {"Ping", "Step"}, entries \in {0, 1}}

\* Sockets with a polling reader, and local channels with one that runs
\* callback-based.
MCConnections ==
    {[local |-> FALSE, polling |-> TRUE, frames |-> frames] : frames \in Carried}
    \cup {[local |-> TRUE, polling |-> FALSE, frames |-> frames] :
             frames \in {Opening("Ping", 1, 1), Answer("Step", 2, 2), Answer("StepOk", 2, 2)}}

\* A local channel with a polling reader.
LocalConnections ==
    {[local |-> TRUE, polling |-> TRUE, frames |-> Opening(kind, 2, 0)] : kind \in Commands}
=============================================================================
