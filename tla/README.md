# A formal model of the VEOS CoSim client

This directory holds TLA+ models of the co-simulation protocol of this repository, TLC
configurations that check them on small instances, and theorems about them that TLAPS proves
for every instance. Paths below are relative to the root of the repository; the C++ sources
are in `src/` of it.

1. [The system](#1-the-system)
2. [Its components](#2-its-components)
3. [What is hard about it](#3-what-is-hard-about-it)
4. [The modules and the code](#4-the-modules-and-the-code)
5. [The runs](#5-the-runs)
6. [Where the code and its documentation disagree](#6-where-the-code-and-its-documentation-disagree)
7. [The proofs](#7-the-proofs)
8. [What is not modelled](#8-what-is-not-modelled)
9. [Plan](#9-plan)

## 1. The system

VEOS, a simulator, loads a *co-simulation server* (`CoSimServer`) for each external partner of
a simulation. An application connects a *client* (`CoSimClient`, behind the C functions of
`DsVeosCoSim.h`) to it. From then on the two are in a *session*: every command of the simulator
(start, stop, pause, continue, terminate, step) is sent to the client as a frame, the client
runs callbacks for it, and the server's thread blocks until the client's answer has arrived.
Steps and their answers carry the changed IO signals and the bus messages in both directions.
When the simulator is not stepping, `BackgroundService` pings the client; the answers to pings
and steps may carry a command the application issued for the simulator (start, stop, ...).

```
   simulator (host thread)                                   application
        |                                                        |
   CoSimServer  -- Protocol -- ChannelWriter/Reader --+          | callbacks / PollCommand
        |                                             |     CoSimClient
   SignalExchange, BusExchange      socket, or shared memory     |
   (parts of the server)            pipe (Windows)    |     SignalExchange, BusExchange
        |                                             |     (parts of the client)
   PortMapper <---- name -> port ---------------------+-- Protocol -- ChannelWriter/Reader
```

The server listens while it has no client. The first connection that is accepted and sends a
valid Connect frame becomes the session; then the listener is closed. When the connection is
lost, on whatever path, `CoSimServer::CloseConnection` lets go of it and listens again.

## 2. Its components

| Component | State it keeps | Operations | Correct when | Status |
|---|---|---|---|---|
| **CoSimServer** `CoSimServer.cpp` | `_simulationState`, `_channel`, the two channel servers, `_protocol`, the exchanges | `Load`, `Unload`, `Start` ... `Step`, `BackgroundService`, accepting, the handshake, reading answers, `CloseConnection` | one session at a time; each request ends by its own answer or by the end of the session; without a client it can be reached | modelled: `CoSimSession` |
| **CoSimClient** `CoSimClient.cpp` | `_channel`, `_isConnected`, `_responderMode`, `_currentCommand`, `_nextCommand`, `_simulationState`, `_protocol` | `Connect`, `Disconnect`, `RunCallbackBasedCoSimulation`, `PollCommand(2)`, `FinishCommand`, `Start`() ... `Continue`() | answers each request once, after its callbacks; commands reach the host in order, once; a reconnect forgets the last session | partly: `CoSimSession` (`SetNextSimulationTime` left out) |
| **Frames** `Protocol.cpp` | none | `SendX`/`ReadX` for every frame of protocol 1 and 2 | the reader asks for the fields the writer wrote | partly: `Protocol` (trace output left out) |
| **Channel framing** `Communication/Channel.hpp`, `SocketChannel.cpp`, `LocalChannel.cpp` | `_writeBuffer`, `_readBuffer`, four indices | `Reserve`, `Write`, `EndWrite`, `ReadBlock`, `Read`, `EndRead`, `WaitForData` | every field is found again however the stream is cut; a poll overlooks nothing | partly: `Channel` |
| **Signal exchange, remote** `SignalExchangeRemote.hpp` | value, length, `isChanged` of each signal; queue of the changed ones | `Write`, `Read`, `Serialize`, `Deserialize`, `ClearData` | the reader sees after a step what was last written before it | modelled: `SignalExchange` |
| **Signal exchange, local** `SignalExchangeLocalWin.hpp` (Windows) | two copies of each signal in shared memory; in each process, which one is active | `Create`, `Write`, `Read`, `Serialize`, `Deserialize`, `ClearData` | the same; a writer leaves alone the copy its reader has active | modelled: `LocalSignalExchange` |
| **Bus exchange, remote** `BusExchangeRemote.hpp`, `BusExchangeLocked.hpp` | a ring of messages and a count per controller, for each direction | `Transmit`, `Receive`, `Serialize`, `Deserialize`, `ClearData` | messages in order, once; a controller never takes another one's space | modelled: `BusExchange` |
| **Bus exchange, local** `BusExchangeLocalWin.hpp` (Windows) | the same in shared memory; numbers to announce and to receive in each process | the same | the same | modelled: `LocalBusExchange` |
| **Ring buffers** `Helpers/RingBuffer.hpp`, `RingBufferView.hpp` | items, two indices, a size | `PushBack`, `PopFront`, `RemoveFront`, `Clear` | a bounded queue | modelled: `RingBuffer`; the view in `LocalBusExchange` |
| **Shared memory pipe** `OsAbstraction/OsUtilities.cpp` (Windows) | ring of bytes, two indices, two process ids, two events | `Read`, `Write`, `WaitForData`, `Disconnect`, liveness checks | bytes in order; nobody waits for a process that is gone; a pipe belongs to one connection | modelled: `ShmPipe`; listener and names in `PipeNames` |
| **Sockets** `OsAbstraction/Socket.cpp` | a handle | connect, accept, send, receive, shutdown | - | partly: as the callers see them, in `CoSimSession`, `Channel` and `PortMapper` |
| **Named locks, events, memory** `OsUtilities.cpp` | handles | wrappers of system calls | - | partly: the event and the life of the memory are in `ShmPipe`, the named lock and opening by name in `PipeNames` |
| **Port mapper** `PortMapper.cpp` | map from names to ports | set, get, unset, one client at a time on a thread of its own | a server that listens is found under its name; every call comes back | modelled: `PortMapper`, with the registration by the server and the question of the client |
| **Bus messages** `BusExchangeSpecific.hpp` | none | conversions, checks of lengths and flags | - | not modelled: data without control |
| **C interface** `DsVeosCoSim.cpp` | none | checks arguments, forwards | - | not modelled |
| **Types, formatting**; **Logger, environment**; **test programs** | none | - | - | not modelled |

How they interact: the server and the client share nothing but the connection (and, on
Windows, named shared memory). Inside a process, `CoSimServer`/`CoSimClient` own everything and
call it synchronously; the concurrency inside a process comes from the application: its
callbacks may call back into the client, and other threads may call `Disconnect`, the commands,
`Transmit`, `Receive`, `Write` and `Read` while the co-simulation loop runs. The client's
exchange parts are locked for that; `_isConnected` is a plain `bool`, `_nextCommand` is atomic.

## 3. What is hard about it

`PROJECT.json` lists the hazards with their lines. They fall into these groups:

- **the session**: a client that disconnects in a callback, from another thread, by a crash, or
  whose network breaks, at any point of the exchange of a request; several clients that race
  for the listener; a handshake that fails after the connect-ok frame was sent or read; state
  of the last session (mode, polled command, pending command, protocol version) in the next;
- **waiting**: the host blocks without a timeout; every way a client leaves must end the wait;
- **polling**: a timeout that races the arrival of a frame; timeouts of zero;
- **commands of the application**: stored by one thread, carried by another, across reconnects;
- **framing**: blocks that must not be split, partial receives, a rest that belongs to the next
  frame;
- **queues at their limit**: one ring for all controllers, charged to each of them; a queue of
  changed signals with one place for each;
- **shared memory without locks**: indices modulo 2^32, publication order, a slot released
  before it is read, counts, announcements and active copies kept in two places, processes that
  come late or die;
- **names**: the port mapper keeps what it was told by processes that may end, on one thread
  that reads without a timeout; the names of pipes are counted from 0 by each listener.

## 4. The modules and the code

`PROJECT.json` maps each definition to the lines it stands for. Definitions keep the names of
the source where they can. Definitions with a comment "Mutant:" are what a bug in the definition
below them would look like; no specification uses them. They show that each property of a run
can be violated.

### CoSimSession

The core: `CoSimServer`, any number of `CoSimClient` objects, and the connections between them.

- A *host thread* drives the server. `serverAt` is where its call stands: `idle` between calls,
  `accept` in `TryAcceptChannel`, `hello` reading the Connect frame, `attach` between sending
  connect-ok and the end of `OnHandleConnect`, `wait` in the loop that waits for the answer to
  `request`. One action covers what the code does from one blocking point to the next,
  including the trailing `CloseConnection`, `StopAccepting` or `StartAccepting`.
- A *client thread*: `clientAt` is `hello` in `Connect`, `run` reading in the callback-based
  loop, `callback` in its callbacks, `poll` in `PollCommand`, otherwise `idle`. `Disconnect`
  is an action of its own that may fall anywhere (another thread, or a callback); so are the
  two halves of a command of the application (`CheckCommand` reads `_isConnected`,
  `StoreCommand` stores `_nextCommand`), since nothing locks them together.
- A *connection* is two FIFO queues of frames, a flag `up`, and a place in the `backlog` until
  it is accepted. Whoever closes it, or the network (`BreakConnection`), makes it not `up`; then
  a send fails or is lost and what lies in the queues may be read or not (a reset discards it).
- `Crash` resets a client as if its process had died and started again.
- Frames carry only what the session reads: kind, version, state, command. A command is the
  number under which it was issued, so that order and loss can be told apart.
- `issued`, `issuedBefore` and `delivered` are history and influence nothing.

### CoSimLockStep

The abstract specification of a session: it has at most one request, which is *sent*, *taken*
once by the client, *answered*, or *lost*; a lost request has no answer; only a ping is answered
without having been taken; the request ends with its answer or with the session.
`CoSimSession!ImplementsLockStep` maps the stage to where the request is found: in the queue to
the client, with the client, in the queue to the server, or nowhere.

### RingBuffer, BusExchange, SignalExchange

`RingBuffer` has the operations of `Helpers/RingBuffer.hpp` as operators on records, so that
both exchanges use the ring of the code rather than a sequence.

`BusExchange` is one bus at both ends of a remote session. `stage` is whose turn it is in a
step (`idle`, `toClient`, `inStep`, `toServer`). `Transmit` may fall wherever the code allows
it: for the client anywhere, for the server while it is not waiting, or in the callbacks it runs
when it reads an answer. `ReadMessage` is one turn of the loop of `Deserialize`, with the
callback or the queue. The client's `Receive` waits for the lock that `Deserialize` holds. A
`Start` clears the client's parts (`CoSimClient::OnStart`) and nothing of the server's.

`SignalExchange` is the same for signals of fixed and variable size: `Write` compares length and
data and queues a signal once, `Serialize` drains the queue, `ReadSignal` is one turn of
`Deserialize`. Values are short sequences over `Data`; `Zero` is what cleared memory holds.

### LocalSignalExchange

The same for the local connection of Windows. `copies` are the two copies of each signal in
shared memory, `active` which of them each process takes for the active one. `Write` compares
the value with the active copy, goes over to the other one at the first change since the last
frame (`FirstChange`), and stores length and data only as far as they differed, as the code
does. A frame carries the changed signals and no values; `ReadSignal` follows the writer to the
other copy. `Create` clears the memory, whichever end comes first, and `Start` clears the copies
and the client's parts only. `used` remembers which ends have written or read. Either call may
clear the copies under a part of the other end that is in use, and what was written is lost then;
the bound `Erasure` names the calls that may.

### Protocol, Channel

`Protocol` gives for each kind of frame and both versions the calls with which the sending
function hands its fields to the writer (*blocks*, which are reserved and never split, *raw*
bytes, which are cut where the buffer ends, and *end*) and the calls with which the reading
function asks for them. They are translated from `SendX` and `ReadX` separately, since what one
end reserves as a block the other may read in pieces.

`Channel` runs those calls: one writer, one reader, a stream between them of which a receive
takes any part that has arrived. Frames of a socket begin with a header; the local channel sends
none. Each byte remembers its field, so a byte read as something else sets `misread`.
`LayoutsAgree` says what `Protocol` must see to for that: the calls of the two ends are for the
same fields, a block is read out of one block, a block fits into a buffer, and a frame is left
where one was written to its end. `MCConnections` has TLC evaluate it, as an `ASSUME`, for every
frame that `MCFrames` makes of `Protocol`.

### ShmPipe

One direction of the pipe in shared memory (`ShmPipePart`), at the grain of single loads and
stores of the shared header, copies, events and checks, for a writer and a reader in two
processes that attach in any order, disconnect (also from another thread while a call is under
way) and die. Time is the number of fruitless checks (`detections`). The memory is fresh again
when nobody holds it.

### PipeNames

How the two ends come to share one pipe (`ShmPipeListener`, `ShmPipeClient::TryConnect`): the
counter in the listener's memory, the named lock under which a client takes a number and creates
its end, the server that accepts the numbers one after the other, without the lock, and the
memory of each number, which exists while some process holds it (`Held`) and is initialized by
whoever finds none. Of the pipe itself only the two process ids matter, and how many clients
have attached since it was initialized (`visits`).

### PortMapper

Any number of servers and clients and the one mapper that a server with `startPortMapper` runs.
`thread` is where its loop is: polling for a connection, reading a request, or ended. A
connection with its request waits in `backlog` as soon as the system has completed it; its
caller may have left. `at` is what the host of each server is in; `Load`, `CloseConnection` and
`Unload` include the registration that `StartAccepting` and `StopAccepting` make, and the failure
of either listener. `Crash` ends the process of a server, and with it the mapper if it runs it.
A `Load` that fails behind the creation of its mapper leaves the mapper, and the next `Load`
fails until `Unload`. The thread ends at its first error: a frame it does not know, a caller that
has left, or an accept that fails (`AcceptFails`). `acknowledged`, `orphaned`, `moved` and `erred`
are history.

### LocalBusExchange

One bus over shared memory (Windows): the ring and the counts are shared, each process keeps how
many messages it still has to announce (`toAnnounce`) and to receive (`toReceive`), and a frame
carries only a number. `Pop` releases the slot, `HandOver` reads it, as in the code; the client
transmits at any time, so its messages may be put into the slot in between (`reused`).

### MCBusExchange, MCRings, MCSignalExchange, MCFrames, MCConnections

A run looks at one *subject* in each behaviour. `MCBusExchange` and `MCSignalExchange` choose
the kind of connection, as `BusExchangeSpecific::Create` and `CreateSignalExchange` do: remote
or local, and the other exchange stays as it is. `MCRings` adds the pipe that carries the local
connection, and `MCConnections` puts `PortMapper`, `PipeNames` and `Channel` side by side
(`MCFrames` holds the frames that `Channel` carries). The subjects of a run share no variable
and no action, and nothing in the code leads from one to another but that a connection is there
and carries its bytes in order; a behaviour of one of them is therefore a behaviour of the
subject alone, and the run shows of each what a run of its own would.

`MCBusExchange`, `MCSignalExchange` and `MCRings` instantiate the modules with the proofs about
their local subjects, and `ConnectionProofs` extends `MCConnections`, so that what is proved is
proved of the very formulas that TLC checks. `MCConnections` is parameterised like the modules it
holds; only its configuration gives `Channel` the frames of `MCFrames`.

## 5. The runs

Every bound is a CONSTANT of the configuration. The numbers are the distinct
states TLC finds; each passing run explores all of them.

| Run | Instance | States | Shows |
|---|---|---|---|
| `session` | clients of version 2 and 1, two connections, sockets and exchanges may fail, no commands | 409,706 | `TypeOK`, `NoUnexpectedFrame`, `NoAdvanceDuringCallback`, `OneLiveSession`, `ServerReachable`, `VersionAgreement`, `ImplementsLockStep` |
| `commands` | one client, two connections, two commands, fairness | 57,762 | `CommandsInOrderOnce`, `NoCommandFromEarlierConnect`; `RequestEnds`, `ConnectReturns`, `DeadClientDropped`, `CommandLeaves` |
| `rings` | buses: controllers with queues of 1 and 2, the server has a callback, the client receives; remote: client sends 1, server 4; local: each sends 4, start before the first message only. Pipe: a ring of 2 bytes, indices modulo 4, writes of 3, reads of 2 | 319,480 | `NeverOverflows`, `CountsMatchQueue`, `InOrderOnce`, `NothingVanishes`, `EveryMessageArrives`; `LocalCountsMatchRing`, `LocalInOrderOnce`; `BytesInOrder`, `FailsForCause`, `GoneIsNoticed`, `EveryByteIsRead` |
| `signals` | remote: server: one signal of variable size (0 to 2) and one fixed; client: one fixed; local: without the second, and `Erasure` empty; two data values | 190,690 | `QueueHoldsChanged`, `ClientReadsServerValue`, `ServerReadsClientValue`, `LastValueArrives`; `LocalCopiesAgree`, `LocalClientReadsServerValue`, `LocalServerReadsClientValue` |
| `connections` | mapper: two servers of one name or of two, one runs the mapper, whose accept may fail, a client or a stranger; pipe names: two clients, three numbers; frames: every frame of both versions, buffers of 12 bytes, packets of any size | 213,028 | `EntriesMatchListeners`, `ReachesNamedServer`, `CallsReturn`; `PipeIsItsOwn`; `ReadsWhatWasWritten`, `EndReadNeverThrows`, `BuffersHold`, `TimeoutMeansNoData`, `EveryFrameIsRead` |
| `poll_zero`, `signal_restart`, `local_reader`, `local_bus_restart`, `local_signal_length`, `local_signal_start`, `local_reconnect` | see section 6 | | violated |

Why the bounds are enough:

- `session`: the races need one client attached and another one in the backlog or connecting,
  and a session after a session, which two connections and two clients give. The versions
  differ so that an agreement from the session before would be seen. The requests are `Start`,
  `Step` and `Ping`: all others are answered by an ok frame as `Start` is, and differ from it in
  `StateAfter` only. `Start` is also the request that the server sends right behind connect-ok
  when a client joins a running simulation.
- `commands`: a command may be stored, overwritten, carried, lost with a connection, or stored
  behind the reset of a new connection; two commands over two connections have all of these.
- `rings`, the buses: the ring has three places, so four messages go round it and meet the slot
  that was taken first; one controller's queue is full while the other's is not. `Restarts` is
  FALSE: the client clears the local ring only before messages were sent, see `local_bus_restart`.
- `rings`, the pipe: a write of three into two places must wait for the reader in the middle, and
  with indices modulo 4 every place meets a wrapped index.
- `signals`: two signals at one end show an order in the queue, length 0 to 2 shows growing,
  shrinking and emptying. `Restarts` is FALSE (see `signal_restart`), so is `LengthOnly`: over the
  local connection no value is written that differs from the one before in its length alone (see
  `local_signal_length`). `Erasure` is empty: over the local connection nobody writes before both
  ends have created their parts, and the client starts the simulation only while the server has
  neither written nor read. The code keeps neither rule, and what it loses behind a start is run
  `local_signal_start`.
- `connections`, the mapper: `Namings` gives both servers one name or two, so that an entry is
  overwritten by the other server or not; `PortsOf` leaves one server a fixed port, which the
  other may be given as one of two when it is free, so that a stale entry leads to the wrong
  server; `Casts` lets a client or a stranger take part, not both, whose mixed behaviours add only
  callers that wait longer; `Mortal` are both servers; `MaxBacklog` 2 lets a caller wait behind
  another.
- `connections`, the names: three numbers and two clients give a connection behind a connection
  and two clients that race for one. `Lingering` is FALSE: a client is destroyed before the
  server listens again, see `local_reconnect`.
- `connections`, the frames: a buffer of 12 splits every frame with a list and leaves blocks that
  do not fit. Sizes are in units of a field; a server may send a command right behind connect-ok,
  all other frames follow an answer, as in the session.

Deadlock is checked except in `commands`: there a host waits for a first client
(`isClientOptional` is false, as in `CoSimServer::Start`) which, once the two connections are
used up, cannot come any more. That is the bound, not the code. Exchanges do not fail in `commands`: when one does, the
server is in a session with a client whose `Connect` has failed (`CoSimClient.cpp:543`), and only
that client can end the host's wait, so `RequestEnds` does not hold there. `session` has such
clients.

**Fairness.** `CoSimSession!HostFairness`: the host thread finishes the call it is in (accepting
a waiting connection, the handshake, reading an answer that is there or the loss of the
connection) and calls again; the background service is called periodically, hence strong
fairness of its ping, which is enabled again and again between the other requests.
`ClientFairness`: an application that is connected runs the callback-based loop or polls, its
callbacks end, it finishes what it polled, and the poll with time left finds what is there;
strong fairness for the last, since timeouts come between. Nothing is assumed of connecting,
disconnecting, crashing, issuing commands, or the network. `BusExchange` and `SignalExchange`
assume a simulation that keeps stepping (and, for the bus, an application that keeps receiving),
`Channel` and `ShmPipe` that a call under way goes on and the reading end calls again.
`PortMapper` assumes that the mapper's thread runs; when anything is loaded, connects or leaves
is open. `CallsReturn` excepts a thread that has ended with an error (`erred`) and a silent
stranger, since nobody is answered behind either.

## 6. Where the code and its documentation disagree

Each has a run that checks one property and finds it violated.

| Run | Property | What happens |
|---|---|---|
| `poll_zero` | `ZeroTimeoutSeesCommand` | `PollCommand2` with timeout 0 compares the deadline before it looks at the channel (`CoSimClient.cpp:641`), so it never reports a command that has arrived, unlike the "non-blocking poll" of its documentation. |
| `signal_restart` | `ClientReadsServerValue` | at a second start in a session the client clears its signals and the server does not (`CoSimClient.cpp:730`): a value the server does not change is zero for the client from then on. |
| `local_reader` | `TimeoutMeansNoData` | the reader of the local channel never sets `_writeIndex` (`LocalChannel.cpp:81`): a command received together with connect-ok lies in the buffer while the poll times out. |
| `local_bus_restart` | `LocalInOrderOnce` | `ClearData` of the client empties the shared ring but not the server's count of messages to announce (`BusExchangeLocalWin.hpp:92`): the client pops messages that are not there. |
| `local_signal_length` | `LocalClientReadsServerValue` | a `Write` that changes the length only goes over to the other copy and does not store the data (`SignalExchangeLocalWin.hpp:176`): the client reads the new length with elements of an older value. |
| `local_signal_start` | `LocalClientReadsServerValue` | the client's `ClearData` at a start, the first one of the session included, zeroes both shared copies (`CoSimClient.cpp:730`, `SignalExchangeLocalWin.hpp:111`) while the server keeps the order of its copies and its queue: what the server wrote before the start is announced with the next step, and the client reads the cleared value. Over a remote connection it arrives. |
| `local_reconnect` | `PipeIsItsOwn` | a client keeps its channel behind `Disconnect`, and the new listener counts from 0 (`OsUtilities.cpp:710`): when it connects again it is given the pipe it still holds, with what lies in it, and dropping the old channel clears its pid in the new one. |

The passing runs check the same properties with `Restarts`, `LengthOnly` and `Lingering` FALSE,
with `Erasure` empty, and in `connections` with a local reader that does not poll: they show that
nothing else violates them. `Erasure` empty leaves out one case more that no run reports: an end
that creates its parts behind a write of the other one clears what was written
(`CoSimServer.cpp:475`: the client may create its exchange, and write, before the server does).
With `Erasure = {"Create"}` the two properties about values are violated by that, with
`{"Start"}` also `LocalCopiesAgree`.

Read in the code, and with no run: the client's `_simulationState` is written from the connect-ok
frame only (`CoSimClient.cpp:516`), so that `GetSimulationState` keeps reporting the state of that
moment, while its documentation says "Gets the current simulation state."

The local bus has one more weak point, which `LocalInOrderOnce` sets apart. The server releases
the slot of a message before its callback reads it (`BusExchangeLocalWin.hpp:192`). If the
client transmits at that moment, from another thread or behind `FinishCommand`, and the ring was
full, the callback finds the newer message, and finds it again in its turn. The API documents
transmitting from callbacks, during which the server does not read; the code locks the client's
parts for other threads as well.

## 7. The proofs

TLAPS proves the theorems for every value of the constants that the assumption of each module
allows: any number of clients, of any versions, any set of requests, any number of connections
and commands; any controllers with queues of any size; any signals of any lengths; any servers,
clients and strangers at the port mapper; any number of clients on one Windows machine; pipes of
any size; buffers, headers and packets of any size.

| Module | Theorem | Statement |
|---|---|---|
| `CoSimSessionProofs` | `TypeCorrect` | `Spec => []TypeOK` |
| | `Reachable` | `Spec => []ServerReachable` |
| | `OneSession` | `Spec => []OneLiveSession` |
| | `ExpectedFrames` | `Spec => []NoUnexpectedFrame` |
| | `AwaitsCallback` | `Spec => []NoAdvanceDuringCallback` |
| | `KeepsLockStep` | `Spec => ImplementsLockStep`: the session implements `CoSimLockStep` |
| | `AgreedVersion` | `Spec => []VersionAgreement` |
| | `OrderedCommands` | `Spec => []CommandsInOrderOnce` |
| | `CommandsOfSession` | `Spec => NoCommandFromEarlierConnect`, an action property |
| `BusExchangeProofs` | `BusTypes`, `RingNeverOverflows`, `CountsOfControllers`, `MessagesInOrderOnce`, `MessagesAccountedFor` | `Spec => []` of `TypeOK`, `NeverOverflows`, `CountsMatchQueue`, `InOrderOnce`, `NothingVanishes` |
| `LocalBusExchangeProofs` | `LocalCounts`, `LocalInOrder` | `Spec => []` of `CountsMatchRing`, `InOrderOnce`, if `Restarts = FALSE` |
| | `LocalReadsFind` | `Spec => [](NeverFails /\ NeverOverfull)`, if `Restarts = FALSE`: what a frame announces is in the ring |
| `SignalExchangeProofs` | `SignalExchangeTypes`, `QueueOfChanges` | `Spec => []` of `TypeOK`, `QueueHoldsChanged` |
| | `ClientReads`, `ServerReads` | `Spec => []` of `ClientReadsServerValue`, `ServerReadsClientValue`, if `Restarts = FALSE` |
| `LocalSignalExchangeProofs` | `LocalSignalTypes` | `Spec => []TypeOK` |
| | `CopiesStayApart` | `Spec => []CopiesAgree`, if `Erasure = {}` |
| | `LocalClientReads`, `LocalServerReads` | `Spec => []` of `ClientReadsServerValue`, `ServerReadsClientValue`, if `Erasure = {}` and `LengthOnly = FALSE` |
| `ShmPipeProofs` | `PipeTypes`, `PipeInOrder`, `PipeNeverOverfull` | `Spec => []` of `TypeOK`, `BytesInOrder`, `NeverOverfull` |
| | `PipeFailsForCause` | `Spec => FailsForCause`, an action property |
| `ConnectionProofs`, of `PortMapper` | `PortMapperTypes`, `EntriesAreListeners` | `Spec => []` of `TypeOK`, `EntriesMatchListeners` |
| | `NamedServerReached` | `Spec => ReachesNamedServer`, an action property |
| of `PipeNames` | `OwnPipe` | `Spec => []PipeIsItsOwn`, if `~Lingering` |
| of `Channel` | `FramesReadAsWritten`, `FrameEndsWhereLeft`, `ChannelBuffersHold` | `Spec => []` of `ReadsWhatWasWritten`, `EndReadNeverThrows`, `BuffersHold`, if `LayoutsAgree` |
| | `TimeoutsOverlookNothing` | `Spec => TimeoutMeansNoData`, an action property, if `LayoutsAgree` and no local reader polls |
| `RingBufferProofs` | `NewRingIsEmpty`, `PushBackAppends`, `RemoveFrontTakesHead`, `ClearEmpties`, `DrainEmpties`, `RoomForAnother` | the ring of `RingBuffer.hpp` is a bounded queue for every capacity |

What is proved of a local exchange or of the pipe is stated once more in the terms of the run that
checks it: `LocalCountsOfControllers`, `LocalMessagesInOrderOnce`, `PipeBytesInOrder` and
`PipeCallsFailForCause` in `BusExchangeProofs`, `LocalCopiesStayApart`, `LocalClientReadsSignals`
and `LocalServerReadsSignals` in `SignalExchangeProofs`. So every safety property of a passing run,
invariant or action property, is a theorem.

### Assumptions

`ConstantsAssumption`, `BusAssumption`, `LocalBusAssumption`, `SignalAssumption`,
`LocalSignalAssumption`, `PortMapperAssumption`, `PipeNamesAssumption`, `PipeAssumption` and
`ChannelAssumption` say what kind of values the constants are: sets, naturals, functions between
them; that the roles of the port mapper are different processes; that the counts of a local bus
and the indices of a pipe are wide enough for what they count, the latter a multiple of the size
of the ring; that a header fits into what the reader of a socket asks for first, and that into its
buffer. TLC evaluates each of them on its run. Those of the local exchanges, of the pipe, its
names and the channel are hypotheses of the theorems, since those modules are used through
INSTANCE only.

Some theorems have a hypothesis more, and each is needed: a run of section 6 shows what happens
without it. With `Restarts` the server goes on from values the client has cleared
(`signal_restart`), or announces messages that are gone from the ring (`local_bus_restart`); with
`LengthOnly` a change of the length alone leaves old elements behind (`local_signal_length`); with
`"Start"` in `Erasure` what the server wrote before a start is lost (`local_signal_start`); with
`Lingering` a client meets the pipe it still holds (`local_reconnect`); a reader that polls on the
local channel overlooks what it has buffered (`local_reader`).

The theorems on `Channel` assume `LayoutsAgree` of the connections. It speaks of the calls that
`Protocol` makes and of nothing that moves; that it holds for every list is an induction over data
and stays with TLC, which evaluates it for the frames of `MCFrames`. `QueueHoldsChanged` and
the types need none of them. The three properties of the local exchange need `Erasure = {}`: an
empty set of the calls that clear the copies under a part of the other end that is in use.

### The arguments

Every inductive invariant below was checked with TLC, on the instance of the run that has its
module or a larger one, before it was proved; the one of the channel on those connections of its
run that have at most 22 calls.

**The session**, in layers, each inductive relative to the ones before it.

1. `Types`. `TypeOK` is not inductive: a client that reads a frame must have a connection, and a
   command must not exceed the bound. `Types` adds `CommandBound`, `ServerAttached` and
   `ClientAttached`, which say that a call that waits for a frame has a channel to read it from.
2. `ReachInv` relates `serverAt`, `serverChannel` and `listener`: the server is in the handshake
   with an open listener, attached with a closed one, idle without a client with one that is open
   or failed. `Reachable` follows.
3. `LinkInv`. `OneLiveSession` alone is not inductive, because a client that believes it is
   connected must not be one that still waits to be accepted. `MadeInv` says that a connection
   not yet made is nowhere in use; `HeldInv` that the server's end of a live connection is
   either its channel or in the backlog; `BacklogInv` that a connection waits there once, was
   sent nothing, and that its client is not connected by it. So a client in a session has a
   live connection only if it is the server's.
4. `StepInv` says where the one request of a live session is: behind the connect-ok frame
   (`InHandshake`), alone on its way (`Sent`), with the client (`IsTaken`), or answered
   (`Answered`), or there is none (`NoRequest`). `PristineInv` says that a connection the server
   has read nothing from carries the Connect frame alone, `AnswerInv` that the queue to the
   server holds at most the answer of the expected kind, `QueueInv` that what a client reads is
   of the kind it expects even when the connection is gone. Connections that are dead are left
   out of `SessionInv`, for their ends may disagree about everything. There is one lemma per
   group of actions that move the same state.
5. `SimInv`, for the refinement. The abstract request is found where `CoSimSession` has it, also
   over a connection that is gone and that the server has not noticed yet, of which `StepInv`
   says nothing; `PlaceInv` does: there is at most the request the server waits for, last in the
   queue to the client, owed by it, or answered. `CallsInv` says which call of a client may leave
   which request unanswered (a ping is never handed to the application). Then each action maps to
   *take*, *answer*, *lose*, *end* or to a stutter, stage by stage.
6. `DataInv`, for what the frames carry. `FirstInv`: the first frame names the version of its
   client; `VersionInv`: behind the handshake the connect-ok frame and both ends have one version.
   `PendingsInv` and `ComingInv` order a command by the number under which it was issued: what was
   delivered, what is on its way, and what is pending come in this order, and both of the latter
   behind the number that was current when the connection was made. A command is numbered when it
   is stored, which may be in a session behind the one it was checked in: `CommandsOfSession`
   speaks of the storing.

**The bus exchange.** `NeverOverflows` says that the one ring has room whenever a controller's
count admits a message; `PartInv` says that the ring is well formed, holds as many messages of
each controller as its count says, and no more than it may have. The room then is a matter of
counting over any number of controllers without a sum: `Places` has a place for each message
each controller may have, a message goes to the place of its rank among those of its controller,
which is an injection, and a controller below its limit has a place that is not taken.
`InOrderOnce` and `NothingVanishes` come from `LineInv`: what the reader was handed, its ring, the
frame, and the ring of the sender hold, one behind the other, ascending numbers without a
repetition, and with those given up they are all numbers that were sent.

**The local bus.** The ring of an end lies in shared memory and keeps no size: what it holds is
what the two processes know of, the messages still to announce, those a frame announces, and those
still to receive (`Known`). `RingInv` says that the ring of that size holds, for each controller,
as many messages as its shared count says, and that they are the last ones sent, in order; the
counting is that of the remote bus (`Charged` of `RingBufferProofs`). The slot is released before
it is read: `PoppedInv` says that the message to be handed over is the last one taken, and
`DeliveredInv` that those handed over ascend, but for the ones read from a slot written again
(`reused`). Between `Pop` and the callback the count is already that of the ring without the
message, so the invariant holds at every moment, not between frames only.

**The pipe.** `PipeInv`: the published indices are never further apart than the ring is long, and
the places between them hold the bytes that were written with these numbers (`RingInv`); the writer
in the middle of a call is in front of what it has published by what it has copied, and still not
more than the ring in front of the reader, although it decides by an index of the reader that is
out of date (`WriterInv`); the reader has taken what it has published or is about to publish
(`ReaderInv`); a process that is not there is in no call (`IdleInv`). Distances are modulo the
limit of the indices, and a place of the ring is the index modulo its size: `DistanceIs`,
`AdvancedDistance`, `MaskAdvances` and `OffsetOfPlace` say how these go together, for every size
that divides the limit. An end that dies or leaves between two of its steps leaves what it has
published.

**The channel.** What is on its way, the buffer of the reader and the wire behind it, is a `Chain`
of `Piece`s: each is a header with the size and the next fields, no frame ends inside of it and no
block is cut at its end (`Unbroken`). `WriterInv` says how far the writer is with its calls
(`Left`), that its buffer holds the last fields written (`Gathered`), and that whatever was written
to its end has been sent; `ReaderInv` the same of the reader, with its frames. `SocketIdle` says
that the reader has the rest of a piece at hand and that the chain goes on behind it,
`SocketFetching` that a chain begins at the front of the buffer, whose header may have come only
in part; `LocalReads` that the bytes are there without any headers. Then a block that the reader
asks for lies within one piece, since it was written as part of one block; and at an end nothing
is left of the piece, since none crosses the end of a frame. `FramesInv` is all of these together.

**The signal exchanges.** `SignalInv` (and `PartsInv` for the local one) says that the queue of a
part holds exactly the signals that are marked, each of them once; `HoldsOnce` of
`RingBufferProofs` carries the argument that such a queue with a slot for each signal has room.
For the remote exchange `ReadInv` follows a value: the reader has what was published, or it is in
the frame; and what is not marked was published as it was written. For the local exchange no
value moves. `SentCopy` is the copy the reader will have active when it has read the frame.
`CopyInv` says that the writer has it active, too, until the signal changes, so that a write
never goes into it, and `ValueInv` that it says what was published and the writer's copy what was
written. `UnusedInv` says that an end which has not used its parts finds them as cleared, which is
what lets the two ends create their parts in either order and lets the client start the
simulation. `CopyInv` and `ValueInv` speak of an empty `Erasure` only.

**The port mapper.** `EntriesMatchListeners` looks at moments between calls; a request that waits
in the backlog, of a caller that may have left meanwhile, can still change an entry. `BacklogInv`
says that of the connections of a caller at most the last is still there, and that it holds what
the caller's stage says, so that an old request of a server cannot undo a newer one.
`PortsDiffer`: no two servers listen on one port. `EnteredInv`, `AcknowledgedInv` and
`TakenBackInv` say what is entered before, between and after the two requests of a server, and
`ToldInv` that the port a client was told is still that of a server of the name it asked for,
unless something moved.

**The pipe names.** `PipeIsItsOwn` is strengthened to `NamesInv`: pipes in use have numbers that
were taken (`NumbersTaken`), no two clients have the same (`PipesDiffer`), the number being
connected is nobody's, and nobody has been there if the server has accepted it already
(`NumberIsNew`); a pipe in use has seen one client (`VisitedOnce`). `NumberIsNew` is what the
counter under the named lock is for, and what `~Lingering` saves when a listener sets the counter
back.

**The rings.** The lemmas are stated for every capacity, index wrap included; `Contents` of a ring
is the sequence the exchanges' properties speak of.

### Only model-checked

- Liveness: it rests on fairness and `ENABLED`, which the prover does not handle.
- `LayoutsAgree`, that the reading functions of `Protocol` ask for what the writing ones wrote:
  what the layouts amount to for every list is an induction over data, which the provers cannot do.
- The properties of the runs in section 6, each of which is violated.

The modules with theorems, and those they use, have no RECURSIVE operators.

## 8. What is not modelled

- **SetNextSimulationTime**, simulation times, the round trip time and the thread affinity of
  the first step: values that steer nothing in this code.
- **Bus message conversions, C interface, formatting, logging, environment**: no control of
  their own.
- **Sockets**: address parsing, options and the retry over resolved addresses.
- **Port mapper**: a server that is configured not to register, or that listens on an address
  clients cannot reach.
- **Names on Windows**: two servers of one name on one machine, which would count in the same
  memory; a named lock abandoned by a process that ends while it holds it (a client's process
  ends outside of `TryConnect` only).
- **Time within a frame**: `Channel` has no clock and `CoSimSession` moves whole frames, so that
  a finite poll which blocks in the middle of a frame is seen by neither.
- **A callback that calls `Receive` of the same bus, or reads a signal**: the lock of the part is
  not recursive, so the call would wait for itself. `doc/guides/callbacks-and-buffering.md` tells
  applications not to use both for the same data; the model makes `Receive` wait.
- Rejected arguments leave no trace in any part, and have no action.

## 9. Plan

The order follows what matters most to a simulation that relies on this code.

1. *Done.* The session (`CoSimSession`, `CoSimLockStep`), with its types and the safety of its
   handshake and of its answers proved.
2. *Done.* What a session carries: `BusExchange`, `SignalExchange`, with `RingBuffer` proved.
3. *Done.* What carries it: `Protocol`, `Channel`, `ShmPipe`; and `LocalBusExchange`.
4. *Done.* `LocalSignalExchange`, checked against the same properties as `SignalExchange`; the
   client of `LocalBusExchange` transmits while the server reads.
5. *Done.* How a connection is found and made: `PortMapper`, and `PipeNames` with its property
   proved.
6. `Channel` joined with the poll loop, with a clock, for a finite timeout in mid-frame
   (`CoSimClient.cpp:648`).
7. *Done.* Proofs: the rest of the session with the refinement of `CoSimLockStep`, the buses and
   the signals of a remote connection, the signals of a local one, the port mapper.
8. *Done.* Proofs: `LocalBusExchange`, `ShmPipe`, and `Channel` for frames whose two ends agree.
9. An abstract specification of a connection, a sequence of frames, that `Channel` over `ShmPipe`
   or over a socket implements; `LayoutsAgree` for every list, with a prover that has induction.
