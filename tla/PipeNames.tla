------------------------------ MODULE PipeNames -----------------------------
(***************************************************************************)
(* How a client and a server of the same Windows machine come to share a   *)
(* pipe (ShmPipeListener, ShmPipeClient::TryConnect).  The listener keeps  *)
(* a counter in memory that goes by the server's name; a client that       *)
(* connects takes the next number, and both ends open the memory of that   *)
(* number, which exists as long as some process holds it.  The server      *)
(* accepts the numbers one after the other.  Each listener counts from 0.  *)
(*                                                                         *)
(* The two directions of a pipe are alike and come and go together.  What  *)
(* is written to the pipe is in ShmPipe; here it matters who has attached  *)
(* to it, and whose pid is set.                                            *)
(***************************************************************************)
EXTENDS Naturals

CONSTANTS
    Clients,
    NoClient, NoPipe,
    MaxNumber,     \* bound: the numbers of pipes of one listener
    Lingering      \* whether a client still has its channel of an earlier
                   \* listener when the server listens again

\* What a user of this module assumes of its constants.
PipeNamesAssumption ==
    /\ NoClient \notin Clients
    /\ MaxNumber \in Nat /\ NoPipe \notin 0 .. MaxNumber
    /\ Lingering \in BOOLEAN

VARIABLES
    listening,     \* _localChannelServer is there, and with it the counter
    counter,       \* how many numbers clients have taken
    lastCounter,   \* _lastCounter: how many the server has accepted
    locked,        \* the client that holds the named lock
    number,        \* the number it has taken
    at,            \* what each client is in
    pipe,          \* the pipe of each client's _channel
    serverPipe,    \* the pipe of the server's _channel
    serverPid,     \* the header of each pipe: whether serverPid is set,
    clientPid,     \* whether clientPid is set,
    visits         \* how many clients attached to it since it was initialized

ends   == <<at, pipe, serverPipe>>
header == <<serverPid, clientPid, visits>>
vars   == <<listening, counter, lastCounter, locked, number, ends, header>>

Pipes == 0 .. MaxNumber - 1

Init ==
    /\ listening = FALSE /\ counter = 0 /\ lastCounter = 0
    /\ locked = NoClient /\ number = 0
    /\ at = [c \in Clients |-> "apart"]
    /\ pipe = [c \in Clients |-> NoPipe]
    /\ serverPipe = NoPipe
    /\ serverPid = [n \in Pipes |-> FALSE]
    /\ clientPid = [n \in Pipes |-> FALSE]
    /\ visits = [n \in Pipes |-> 0]

\* The memory of a pipe exists while a process holds it.
Held(n) == serverPipe = n \/ \E c \in Clients : pipe[c] = n

\* Mutant: whoever creates its part initializes the memory.
InitializedByAll(n) == TRUE

\* Create initializes the memory if it opened none of that name.
Initializes(n) == ~Held(n)

Cleared(pids, n) == IF n \in Pipes THEN [pids EXCEPT ![n] = FALSE] ELSE pids

-----------------------------------------------------------------------------
(* The server.                                                             *)

\* What Load, or StartAccepting behind CloseConnection, does last, a step of its
\* own because the listener is created under the named lock.
Listen ==
    /\ ~listening /\ serverPipe = NoPipe /\ locked = NoClient
    /\ Lingering \/ \A c \in Clients : at[c] = "apart"
    /\ listening' = TRUE /\ counter' = 0 /\ lastCounter' = 0
    /\ UNCHANGED <<locked, number, ends, header>>

\* TryAccept of the listener, which takes no part in the lock: the client that
\* took the number may not have created its end yet.
TryAccept ==
    /\ listening /\ serverPipe = NoPipe /\ counter > lastCounter
    /\ lastCounter' = lastCounter + 1
    /\ serverPipe' = lastCounter
    /\ serverPid' = [serverPid EXCEPT ![lastCounter] = TRUE]
    /\ IF Initializes(lastCounter)
       THEN /\ clientPid' = [clientPid EXCEPT ![lastCounter] = FALSE]
            /\ visits' = [visits EXCEPT ![lastCounter] = 0]
       ELSE UNCHANGED <<clientPid, visits>>
    /\ UNCHANGED <<listening, counter, locked, number, at, pipe>>

\* The handshake succeeds, and the server stops to listen.
StopAccepting ==
    /\ listening /\ serverPipe # NoPipe
    /\ listening' = FALSE
    /\ UNCHANGED <<counter, lastCounter, locked, number, ends, header>>

\* The handshake fails, or the session ends: the channel is destroyed.
CloseConnection ==
    /\ serverPipe # NoPipe
    /\ serverPid' = Cleared(serverPid, serverPipe)
    /\ serverPipe' = NoPipe
    /\ UNCHANGED <<listening, counter, lastCounter, locked, number, at, pipe, clientPid, visits>>

Unload ==
    /\ listening' = FALSE
    /\ serverPid' = Cleared(serverPid, serverPipe)
    /\ serverPipe' = NoPipe
    /\ UNCHANGED <<counter, lastCounter, locked, number, at, pipe, clientPid, visits>>

\* The process of the server ends; its pid stays where others hold the memory.
ServerDies ==
    /\ listening' = FALSE
    /\ serverPipe' = NoPipe
    /\ UNCHANGED <<counter, lastCounter, locked, number, at, pipe, header>>

-----------------------------------------------------------------------------
(* A client.                                                               *)

\* Connect disconnects what is left of the session before, and TryConnect takes
\* a number under the named lock.
TakeNumber(c) ==
    /\ at[c] \in {"apart", "disconnected"}
    /\ listening /\ locked = NoClient /\ counter < MaxNumber
    /\ locked' = c
    /\ number' = counter
    /\ counter' = counter + 1
    /\ at' = [at EXCEPT ![c] = "connecting"]
    /\ clientPid' = Cleared(clientPid, pipe[c])
    /\ UNCHANGED <<listening, lastCounter, pipe, serverPipe, serverPid, visits>>

\* It creates its end of the pipe, stores its pid, and its new channel takes the
\* place of the one it still has: the destructor of that one clears the pid in
\* the memory of its own pipe.
CreateEnd(c) ==
    /\ at[c] = "connecting" /\ locked = c
    /\ IF Initializes(number)
       THEN /\ visits' = [visits EXCEPT ![number] = 1]
            /\ serverPid' = [serverPid EXCEPT ![number] = FALSE]
       ELSE /\ visits' = [visits EXCEPT ![number] = IF @ = 0 THEN 1 ELSE 2]
            /\ UNCHANGED serverPid
    /\ clientPid' = Cleared([clientPid EXCEPT ![number] = TRUE], pipe[c])
    /\ at' = [at EXCEPT ![c] = "connected"]
    /\ pipe' = [pipe EXCEPT ![c] = number]
    /\ locked' = NoClient /\ number' = 0
    /\ UNCHANGED <<listening, counter, lastCounter, serverPipe>>

\* Disconnect, and CloseConnection behind an error, keep the channel.
Disconnect(c) ==
    /\ at[c] = "connected"
    /\ at' = [at EXCEPT ![c] = "disconnected"]
    /\ clientPid' = Cleared(clientPid, pipe[c])
    /\ UNCHANGED <<listening, counter, lastCounter, locked, number, pipe, serverPipe, serverPid,
                   visits>>

\* The application destroys the client.
Destroy(c) ==
    /\ at[c] \in {"connected", "disconnected"}
    /\ at' = [at EXCEPT ![c] = "apart"]
    /\ clientPid' = Cleared(clientPid, pipe[c])
    /\ pipe' = [pipe EXCEPT ![c] = NoPipe]
    /\ UNCHANGED <<listening, counter, lastCounter, locked, number, serverPipe, serverPid, visits>>

\* The process of the client ends, outside of TryConnect; its pid stays.
ClientDies(c) ==
    /\ at[c] \in {"connected", "disconnected"}
    /\ at' = [at EXCEPT ![c] = "apart"]
    /\ pipe' = [pipe EXCEPT ![c] = NoPipe]
    /\ UNCHANGED <<listening, counter, lastCounter, locked, number, serverPipe, header>>

-----------------------------------------------------------------------------
Next ==
    \/ Listen \/ TryAccept \/ StopAccepting \/ CloseConnection \/ Unload \/ ServerDies
    \/ \E c \in Clients : \/ TakeNumber(c) \/ CreateEnd(c)
                          \/ Disconnect(c) \/ Destroy(c) \/ ClientDies(c)

Spec == Init /\ [][Next]_vars

-----------------------------------------------------------------------------
(* Properties.                                                             *)

TypeOK ==
    /\ listening \in BOOLEAN
    /\ counter \in 0 .. MaxNumber /\ lastCounter \in 0 .. counter
    /\ locked \in Clients \cup {NoClient} /\ number \in 0 .. MaxNumber
    /\ at \in [Clients -> {"apart", "connecting", "connected", "disconnected"}]
    /\ pipe \in [Clients -> Pipes \cup {NoPipe}] /\ serverPipe \in Pipes \cup {NoPipe}
    /\ serverPid \in [Pipes -> BOOLEAN] /\ clientPid \in [Pipes -> BOOLEAN]
    /\ visits \in [Pipes -> 0 .. 2]

\* A pipe belongs to one connection: a client that is connected finds its pid
\* where it stored it, in memory no other client has used, and the server, whose
\* pid is there too, has at most one client at the other end of the pipe it
\* accepted, whichever end came first and however many clients tried.
PipeIsItsOwn ==
    /\ \A c \in Clients : at[c] = "connected" => clientPid[pipe[c]] /\ visits[pipe[c]] = 1
    /\ serverPipe # NoPipe => serverPid[serverPipe] /\ visits[serverPipe] <= 1
=============================================================================
