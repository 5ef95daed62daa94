-------------------------- MODULE ConnectionProofs --------------------------
(***************************************************************************)
(* Proofs about PortMapper, for any number of servers, clients and other   *)
(* callers, whatever names and ports they have and whichever processes     *)
(* end: what the mapper has entered is the port of a server that listens,  *)
(* and a client that was told a port reaches a server of the name it asked *)
(* for, except where a process ended without taking its port back.  And    *)
(* about PipeNames, for any number of clients and of connections: a pipe   *)
(* belongs to one connection.  And about Channel, for buffers, headers and *)
(* packets of any size and any frames whose two ends make calls that       *)
(* agree: what is read is what was written.                                *)
(***************************************************************************)
EXTENDS MCConnections, SequenceTheorems, TLAPS

-----------------------------------------------------------------------------
(* The inductive invariant.                                                *)

MapperConnections ==
    [from : Callers, requests : {<<>>} \cup {<<r>> : r \in Requests}, gone : BOOLEAN]

\* No two servers listen on the same port.
PortsDiffer ==
    \A s, t \in Servers : s # t /\ listener[s] # 0 => listener[s] # listener[t]

\* A mapper that is not there knows nothing and serves nobody.
MapperInv ==
    /\ host = NoServer => entries = NoEntries /\ backlog = <<>>
    /\ thread = "reading" => backlog # <<>>

\* A server whose host waits in its loop has no call of the mapper.
IdleInv ==
    \A s \in Servers : at[s] \in {"unloaded", "accepting", "inSession"} => call[s] = "none"

\* What a server sends, and while its connection is there, what it waits for.
FromServer(s, b) ==
    \/ /\ b.requests = <<UnsetPort(name[s])>>
       /\ ~b.gone => at[s] \in {"closing", "unloading"}
    \/ \E port \in Ports :
          /\ b.requests = <<SetPort(name[s], port)>>
          /\ ~b.gone => at[s] = "registering" /\ listener[s] = port

\* What a connection to the mapper holds.
Sound(b) ==
    /\ b \in MapperConnections
    /\ ~b.gone => call[b.from] = "waiting"
    /\ b.from \in Servers => FromServer(b.from, b)
    /\ b.from \in Clients => b.requests = <<GetPort(Wanted[b.from])>>
    /\ b.from \in Strangers => b.requests \in Mishaps

\* Of the connections of a caller at most the last one is there still.
BacklogInv ==
    /\ backlog \in Seq(MapperConnections)
    /\ \A i \in DOMAIN backlog : Sound(backlog[i])
    /\ \A i, j \in DOMAIN backlog :
          i < j /\ backlog[i].from = backlog[j].from => backlog[i].gone

\* What is entered is the port of a server of that name, unless a process ended.
EnteredInv ==
    \A n \in DOMAIN entries \ orphaned :
        \E s \in Servers : name[s] = n /\ listener[s] = entries[n]

\* A server whose port was entered has no request under way that could undo it.
AcknowledgedInv ==
    \A s \in acknowledged :
        /\ at[s] \in {"registering", "accepting"}
        /\ \A i \in DOMAIN backlog : backlog[i].from # s
        /\ (\A t \in Servers \ {s} : name[t] # name[s]) =>
              name[s] \in DOMAIN entries /\ entries[name[s]] = listener[s]

\* A server that has its answer and is about to close its listener is not entered.
TakenBackInv ==
    \A s \in Servers :
        at[s] \in {"closing", "unloading"} /\ call[s] # "waiting" =>
            \A n \in DOMAIN entries \ orphaned : entries[n] # listener[s]

\* The port a client was told is still that of a server of the name it asked for.
ToldInv ==
    \A c \in Clients : told[c] # 0 =>
        /\ call[c] = "answered"
        /\ c \in moved \/ \E s \in Servers : name[s] = Wanted[c] /\ listener[s] = told[c]

PortsInv ==
    /\ TypeOK /\ BacklogInv /\ PortsDiffer /\ MapperInv /\ IdleInv
    /\ EnteredInv /\ AcknowledgedInv /\ TakenBackInv /\ ToldInv

-----------------------------------------------------------------------------
(* Constants, requests and ports.                                          *)

LEMMA CallersDiffer ==
    /\ Servers \subseteq Callers /\ Clients \subseteq Callers /\ Strangers \subseteq Callers
    /\ \A s \in Servers : s \notin Clients /\ s \notin Strangers /\ s # NoServer
    /\ \A c \in Clients : c \notin Strangers
  BY PortMapperAssumption DEF Callers

LEMMA PortsAre ==
    /\ Ports \subseteq Nat /\ 0 \notin Ports
    /\ \A s \in Servers : \A port \in FreePorts(s) :
          port \in Ports /\ port # 0 /\ \A t \in Servers : listener[t] # port
<1>1. \A s \in Servers : PortsOf[s] \subseteq Nat \ {0}
  BY PortMapperAssumption
<1>. QED
  BY <1>1 DEF Ports, FreePorts

LEMMA RequestTypes ==
    /\ \A n \in Names : /\ UnsetPort(n) \in Requests /\ GetPort(n) \in Requests
                        /\ \A port \in Ports : SetPort(n, port) \in Requests
    /\ Unknown \in Requests
  BY DEF UnsetPort, GetPort, SetPort, Requests

LEMMA NamesAre ==
    ASSUME TypeOK
    PROVE  /\ name \in [Servers -> Names] /\ \A s \in Servers : name[s] \in Names
           /\ \A c \in Clients : Wanted[c] \in Names
  BY PortMapperAssumption DEF TypeOK

\* The requests are told apart by their kind.
LEMMA KindsDiffer ==
    ASSUME NEW n, NEW port
    PROVE  /\ SetPort(n, port).kind = "SetPort" /\ SetPort(n, port).name = n
           /\ SetPort(n, port).port = port
           /\ UnsetPort(n).kind = "UnsetPort" /\ UnsetPort(n).name = n
           /\ GetPort(n).kind = "GetPort" /\ GetPort(n).name = n
           /\ Unknown.kind = "unexpected"
  BY DEF SetPort, UnsetPort, GetPort, Unknown

\* The part of TypeOK about the backlog.
LEMMA BacklogTypes ==
    ASSUME BacklogInv
    PROVE  \A i \in DOMAIN backlog :
              /\ backlog[i].from \in Callers /\ backlog[i].gone \in BOOLEAN
              /\ backlog[i].requests \in {<<>>} \cup {<<r>> : r \in Requests}
  BY DEF BacklogInv, Sound, MapperConnections

-----------------------------------------------------------------------------
(* The backlog.                                                            *)

\* What a connection of k says of its caller does not change.
Same(k) ==
    /\ call'[k] = call[k]
    /\ k \in Servers => at'[k] = at[k] /\ listener'[k] = listener[k]

LEMMA StaysSound ==
    ASSUME NEW b, Sound(b), name' = name, ~b.gone => Same(b.from)
    PROVE  Sound(b)'
  BY DEF Sound, FromServer, Same

\* A connection whose caller has left says nothing of it any more.
LEMMA GoneIsSound ==
    ASSUME NEW b, Sound(b), name' = name
    PROVE  Sound([b EXCEPT !.gone = TRUE])'
<1>. DEFINE g == [b EXCEPT !.gone = TRUE]
<1>1. b \in MapperConnections
  BY DEF Sound
<1>2. /\ g \in MapperConnections /\ g.from = b.from /\ g.requests = b.requests /\ g.gone
  BY <1>1 DEF MapperConnections
<1>. HIDE DEF g
<1>3. Sound(g)'
  BY <1>2 DEF Sound, FromServer
<1>. QED
  BY <1>3 DEF g

LEMMA BacklogStays ==
    ASSUME BacklogInv, backlog' = backlog, name' = name,
           \A k \in Callers : call[k] = "waiting" => Same(k)
    PROVE  BacklogInv'
<1>1. ASSUME NEW i \in DOMAIN backlog
      PROVE  Sound(backlog[i])'
  <2>1. PICK b : b = backlog[i]
    OBVIOUS
  <2>2. Sound(b) /\ b.from \in Callers
    BY <2>1 DEF BacklogInv, Sound, MapperConnections
  <2>3. ~b.gone => Same(b.from)
    BY <2>2 DEF Sound
  <2>4. Sound(b)'
    BY <2>2, <2>3, StaysSound
  <2>. QED
    BY <2>1, <2>4 DEF Sound, FromServer
<1>. QED
  BY <1>1 DEF BacklogInv

\* A caller that does not wait for the mapper connects to it.
LEMMA BacklogGrows ==
    ASSUME BacklogInv, NEW k \in Callers, NEW requests, name' = name,
           backlog' = Append(backlog, Connection(k, requests)),
           call[k] # "waiting", Sound(Connection(k, requests))',
           \A j \in Callers : call[j] = "waiting" => Same(j)
    PROVE  BacklogInv'
<1>. DEFINE b == Connection(k, requests)
            n == Len(backlog)
<1>1. b \in MapperConnections /\ b.from = k
  BY DEF Sound, Connection
<1>2. backlog \in Seq(MapperConnections) /\ n \in Nat /\ DOMAIN backlog = 1 .. n
  BY LenProperties DEF BacklogInv
<1>. HIDE DEF b
<1>3. backlog' = Append(backlog, b)
  BY DEF b
<1>4. /\ backlog' \in Seq(MapperConnections) /\ Len(backlog') = n + 1 /\ DOMAIN backlog' = 1 .. n + 1
      /\ backlog'[n + 1] = b /\ \A i \in 1 .. n : backlog'[i] = backlog[i]
  BY <1>1, <1>2, <1>3, AppendProperties, LenProperties
<1>5. \A i \in 1 .. n : Sound(backlog[i]) /\ (backlog[i].from = k => backlog[i].gone)
  BY <1>2 DEF BacklogInv, Sound, MapperConnections
<1>6. ASSUME NEW i \in DOMAIN backlog'
      PROVE  Sound(backlog[i])'
  <2>1. CASE i = n + 1
    <3>1. Sound(b)'
      BY DEF b
    <3>. QED
      BY <1>4, <2>1, <3>1 DEF Sound, FromServer
  <2>2. CASE i # n + 1
    <3>1. i \in 1 .. n
      BY <1>2, <1>4, <2>2
    <3>2. PICK c : c = backlog[i]
      OBVIOUS
    <3>3. Sound(c) /\ c.from \in Callers
      BY <1>5, <3>1, <3>2 DEF Sound, MapperConnections
    <3>4. ~c.gone => Same(c.from)
      BY <3>3 DEF Sound
    <3>5. Sound(c)'
      BY <3>3, <3>4, StaysSound
    <3>. QED
      BY <1>4, <3>1, <3>2, <3>5 DEF Sound, FromServer
  <2>. QED
    BY <2>1, <2>2
<1>7. ASSUME NEW i \in DOMAIN backlog', NEW j \in DOMAIN backlog', i < j,
             backlog'[i].from = backlog'[j].from
      PROVE  backlog'[i].gone
  BY <1>1, <1>2, <1>4, <1>5, <1>7 DEF BacklogInv
<1>. QED
  BY <1>4, <1>6, <1>7 DEF BacklogInv

\* The first connection is served and closed.
LEMMA BacklogServed ==
    ASSUME BacklogInv, backlog # <<>>, name' = name, backlog' = Tail(backlog),
           \A k \in Callers :
              call[k] = "waiting" /\ (Head(backlog).gone \/ k # Head(backlog).from) => Same(k)
    PROVE  /\ BacklogInv'
           /\ ~Head(backlog).gone =>
                 \A i \in DOMAIN backlog' : backlog'[i].from # Head(backlog).from
<1>. DEFINE n == Len(backlog)
<1>1. /\ backlog \in Seq(MapperConnections) /\ n \in Nat /\ n >= 1 /\ DOMAIN backlog = 1 .. n
      /\ Head(backlog) = backlog[1]
  BY LenProperties, EmptySeq, HeadTailProperties DEF BacklogInv
<1>2. /\ backlog' \in Seq(MapperConnections) /\ Len(backlog') = n - 1 /\ DOMAIN backlog' = 1 .. n - 1
      /\ \A i \in 1 .. n - 1 : i + 1 \in 1 .. n /\ backlog'[i] = backlog[i + 1]
  BY <1>1, HeadTailProperties, LenProperties
<1>3. ASSUME NEW i \in DOMAIN backlog', ~Head(backlog).gone
      PROVE  backlog'[i].from # Head(backlog).from
  <2>1. i + 1 \in DOMAIN backlog /\ 1 \in DOMAIN backlog /\ 1 < i + 1
    BY <1>1, <1>2
  <2>. QED
    BY <1>1, <1>2, <1>3, <2>1 DEF BacklogInv
<1>4. ASSUME NEW i \in DOMAIN backlog'
      PROVE  Sound(backlog[i])'
  <2>1. PICK c : c = backlog'[i]
    OBVIOUS
  <2>2. i + 1 \in DOMAIN backlog /\ c = backlog[i + 1]
    BY <1>1, <1>2, <2>1
  <2>3. Sound(c) /\ c.from \in Callers
    BY <2>2 DEF BacklogInv, Sound, MapperConnections
  <2>4. Head(backlog).gone \/ c.from # Head(backlog).from
    BY <1>3, <2>1
  <2>5. ~c.gone => Same(c.from)
    BY <2>3, <2>4 DEF Sound
  <2>6. Sound(c)'
    BY <2>3, <2>5, StaysSound
  <2>. QED
    BY <2>1, <2>6 DEF Sound, FromServer
<1>5. ASSUME NEW i \in DOMAIN backlog', NEW j \in DOMAIN backlog', i < j,
             backlog'[i].from = backlog'[j].from
      PROVE  backlog'[i].gone
  <2>1. i + 1 \in DOMAIN backlog /\ j + 1 \in DOMAIN backlog /\ i + 1 < j + 1
    BY <1>1, <1>2, <1>5
  <2>. QED
    BY <1>2, <1>5, <2>1 DEF BacklogInv
<1>. QED
  BY <1>2, <1>3, <1>4, <1>5 DEF BacklogInv

\* A caller leaves; what it sent stays.
LEMMA BacklogLeft ==
    ASSUME BacklogInv, NEW k \in Callers, name' = name, backlog' = WithoutCaller(backlog, k),
           \A j \in Callers \ {k} : call[j] = "waiting" => Same(j)
    PROVE  /\ BacklogInv'
           /\ DOMAIN backlog' = DOMAIN backlog
           /\ \A i \in DOMAIN backlog : backlog'[i].from = backlog[i].from
<1>. DEFINE Left(b) == IF b.from = k THEN [b EXCEPT !.gone = TRUE] ELSE b
            n == Len(backlog)
<1>1. /\ backlog \in Seq(MapperConnections) /\ n \in Nat /\ DOMAIN backlog = 1 .. n
      /\ \A i \in 1 .. n : backlog[i] \in MapperConnections
  BY LenProperties, ElementOfSeq DEF BacklogInv
<1>2. ASSUME NEW b \in MapperConnections
      PROVE  /\ Left(b) \in MapperConnections /\ Left(b).from = b.from
             /\ Left(b).requests = b.requests /\ Left(b).gone = (b.gone \/ b.from = k)
  BY DEF MapperConnections
<1>3. backlog' = [i \in 1 .. n |-> Left(backlog[i])]
  BY <1>1 DEF WithoutCaller
<1>. HIDE DEF Left
<1>4. /\ backlog' \in Seq(MapperConnections) /\ DOMAIN backlog' = 1 .. n
      /\ \A i \in 1 .. n : backlog'[i] = Left(backlog[i])
  <2>1. backlog' \in [1 .. n -> MapperConnections]
    BY <1>1, <1>2, <1>3
  <2>. QED
    BY <1>1, <1>3, <2>1, SeqDef
<1>5. ASSUME NEW i \in DOMAIN backlog'
      PROVE  Sound(backlog[i])'
  <2>1. PICK b \in MapperConnections : b = backlog[i]
    BY <1>1, <1>4
  <2>2. Sound(b) /\ b.from \in Callers /\ backlog'[i] = Left(b)
    BY <1>1, <1>4, <2>1 DEF BacklogInv, MapperConnections
  <2>3. CASE b.from = k
    <3>1. Sound([b EXCEPT !.gone = TRUE])'
      BY <2>2, GoneIsSound
    <3>2. backlog'[i] = [b EXCEPT !.gone = TRUE]
      BY <2>2, <2>3 DEF Left
    <3>. QED
      BY <3>1, <3>2 DEF Sound, FromServer
  <2>4. CASE b.from # k
    <3>1. ~b.gone => Same(b.from)
      BY <2>2, <2>4 DEF Sound
    <3>2. Sound(b)'
      BY <2>2, <3>1, StaysSound
    <3>3. backlog'[i] = b
      BY <2>2, <2>4 DEF Left
    <3>. QED
      BY <3>2, <3>3 DEF Sound, FromServer
  <2>. QED
    BY <2>3, <2>4
<1>6. ASSUME NEW i \in DOMAIN backlog', NEW j \in DOMAIN backlog', i < j,
             backlog'[i].from = backlog'[j].from
      PROVE  backlog'[i].gone
  <2>1. /\ backlog'[i] = Left(backlog[i]) /\ backlog'[j] = Left(backlog[j])
        /\ backlog[i] \in MapperConnections /\ backlog[j] \in MapperConnections
        /\ i \in DOMAIN backlog /\ j \in DOMAIN backlog
    BY <1>1, <1>4
  <2>2. backlog[i].from = backlog[j].from
    BY <1>2, <1>6, <2>1
  <2>3. backlog[i].gone
    BY <1>6, <2>1, <2>2 DEF BacklogInv
  <2>. QED
    BY <1>2, <2>1, <2>3
<1>7. \A i \in DOMAIN backlog : backlog'[i].from = backlog[i].from
  BY <1>1, <1>2, <1>4
<1>. QED
  BY <1>1, <1>4, <1>5, <1>6, <1>7 DEF BacklogInv

\* Nobody is left in the backlog of a mapper that is no more.
LEMMA BacklogEmpty ==
    ASSUME backlog' = <<>>
    PROVE  BacklogInv'
<1>1. backlog' \in Seq(MapperConnections) /\ DOMAIN backlog' = {}
  BY EmptySeq
<1>. QED
  BY <1>1 DEF BacklogInv

-----------------------------------------------------------------------------
(* Calls of the mapper.                                                    *)

\* What the types say of a step that concerns the call and the stage of one.
LEMMA CallTypes ==
    ASSUME TypeOK, NEW k \in Callers, NEW state \in {"none", "waiting", "answered", "failed"},
           call' = [call EXCEPT ![k] = state]
    PROVE  /\ call' \in [Callers -> {"none", "waiting", "answered", "failed"}]
           /\ call'[k] = state
           /\ \A j \in Callers \ {k} : call'[j] = call[j]
<1>1. call \in [Callers -> {"none", "waiting", "answered", "failed"}]
  BY DEF TypeOK
<1>. QED
  BY <1>1

LEMMA StageTypes ==
    ASSUME TypeOK, NEW s \in Servers,
           NEW stage \in {"unloaded", "registering", "accepting", "closing", "inSession",
                          "unloading"},
           Becomes(s, stage)
    PROVE  /\ at' \in [Servers -> {"unloaded", "registering", "accepting", "closing",
                                   "inSession", "unloading"}]
           /\ at'[s] = stage
           /\ \A t \in Servers \ {s} : at'[t] = at[t]
  BY DEF TypeOK, Becomes

LEMMA CallOf ==
    ASSUME TypeOK, NEW k \in Callers, NEW requests, NEW there \in BOOLEAN,
           Call(k, requests, there)
    PROVE  /\ call' \in [Callers -> {"none", "waiting", "answered", "failed"}]
           /\ \A j \in Callers \ {k} : call'[j] = call[j]
           /\ \/ there /\ call'[k] = "waiting" /\ backlog' = Append(backlog, Connection(k, requests))
              \/ ~there /\ call'[k] = "failed" /\ backlog' = backlog
<1>1. CASE there
  <2>1. call' = [call EXCEPT ![k] = "waiting"] /\ backlog' = Append(backlog, Connection(k, requests))
    BY <1>1 DEF Call
  <2>. QED
    BY <1>1, <2>1, CallTypes
<1>2. CASE ~there
  <2>1. call' = [call EXCEPT ![k] = "failed"] /\ backlog' = backlog
    BY <1>2 DEF Call
  <2>. QED
    BY <1>2, <2>1, CallTypes
<1>. QED
  BY <1>1, <1>2

\* What any caller sends is what a connection to the mapper can hold.
LEMMA CallBacklog ==
    ASSUME TypeOK, BacklogInv, NEW k \in Callers, NEW requests, NEW there \in BOOLEAN,
           Call(k, requests, there), call[k] # "waiting", name' = name,
           requests \in {<<>>} \cup {<<r>> : r \in Requests},
           k \in Servers => FromServer(k, Connection(k, requests))',
           k \in Clients => requests = <<GetPort(Wanted[k])>>,
           k \in Strangers => requests \in Mishaps,
           \A s \in Servers \ {k} : at'[s] = at[s] /\ listener'[s] = listener[s]
    PROVE  /\ BacklogInv'
           /\ ~there => backlog' = backlog
           /\ \A s \in Servers \ {k} :
                 (\A i \in DOMAIN backlog : backlog[i].from # s) =>
                    \A i \in DOMAIN backlog' : backlog'[i].from # s
<1>1. \A j \in Callers : call[j] = "waiting" => Same(j)
  BY CallOf DEF Same
<1>2. CASE there
  <2>1. call'[k] = "waiting" /\ backlog' = Append(backlog, Connection(k, requests))
    BY <1>2, CallOf
  <2>2. PICK b : b = Connection(k, requests)
    OBVIOUS
  <2>3. b \in MapperConnections /\ b.from = k /\ b.requests = requests /\ ~b.gone
    BY <2>2 DEF Connection, MapperConnections
  <2>4. Sound(b)'
    <3>1. k \in Servers => FromServer(k, b)'
      BY <2>2 DEF FromServer
    <3>. QED
      BY <2>1, <2>3, <3>1 DEF Sound
  <2>5. BacklogInv'
    <3>1. Sound(Connection(k, requests))'
      BY <2>2, <2>4
    <3>. QED
      BY <1>1, <2>1, <3>1, BacklogGrows
  <2>6. \A i \in DOMAIN backlog' : \/ i \in DOMAIN backlog /\ backlog'[i] = backlog[i]
                                   \/ backlog'[i] = b
    <3>1. backlog \in Seq(MapperConnections)
      BY DEF BacklogInv
    <3>2. /\ backlog' \in Seq(MapperConnections) /\ Len(backlog') = Len(backlog) + 1
          /\ \A i \in 1 .. Len(backlog) : backlog'[i] = backlog[i]
          /\ backlog'[Len(backlog) + 1] = b
      BY <2>1, <2>2, <2>3, <3>1, AppendProperties
    <3>3. DOMAIN backlog = 1 .. Len(backlog) /\ DOMAIN backlog' = 1 .. Len(backlog') /\ Len(backlog) \in Nat
      BY <3>1, <3>2, LenProperties
    <3>. QED
      BY <3>2, <3>3
  <2>. QED
    BY <1>2, <2>3, <2>5, <2>6
<1>3. CASE ~there
  <2>1. backlog' = backlog
    BY <1>3, CallOf
  <2>. QED
    BY <1>1, <1>3, <2>1, BacklogStays
<1>. QED
  BY <1>2, <1>3

-----------------------------------------------------------------------------
(* What every step shares.                                                 *)

\* The part of TypeOK about the backlog, behind a step.
LEMMA NextBacklogTypes ==
    ASSUME BacklogInv'
    PROVE  \A i \in DOMAIN backlog' :
              /\ backlog'[i].from \in Callers /\ backlog'[i].gone \in BOOLEAN
              /\ backlog'[i].requests \in {<<>>} \cup {<<r>> : r \in Requests}
  BY DEF BacklogInv, Sound, MapperConnections

\* A server that listens goes on doing so; what is entered, and what clients
\* were told, is as true as it was.
LEMMA ListenersStay ==
    ASSUME PortsInv, UNCHANGED <<name, entries, orphaned>>,
           \A s \in Servers : listener[s] # 0 => listener'[s] = listener[s]
    PROVE  /\ EnteredInv'
           /\ (\A c \in Clients : /\ told'[c] # 0 => told'[c] = told[c] /\ call'[c] = call[c]
                                  /\ told'[c] # 0 /\ c \in moved => c \in moved') => ToldInv'
<1>1. \A n \in DOMAIN entries : entries[n] # 0
  BY PortsAre DEF PortsInv, TypeOK
<1>2. EnteredInv'
  BY <1>1 DEF PortsInv, EnteredInv
<1>3. ASSUME \A c \in Clients : /\ told'[c] # 0 => told'[c] = told[c] /\ call'[c] = call[c]
                                /\ told'[c] # 0 /\ c \in moved => c \in moved'
      PROVE  ToldInv'
  BY <1>3 DEF PortsInv, ToldInv
<1>. QED
  BY <1>2, <1>3

\* What the calls of the servers that a step leaves alone say.
Others(s) ==
    \A t \in Servers \ {s} : /\ at'[t] = at[t] /\ listener'[t] = listener[t]
                             /\ call'[t] = call[t]

-----------------------------------------------------------------------------
(* A server that starts to listen, or stops.                               *)

\* StartAccepting finds or makes a listener, and asks the mapper if it made one.
LEMMA StartDoes ==
    ASSUME PortsInv, NEW s \in Servers, NEW ifFails \in {"unloaded", "accepting"},
           NEW there \in BOOLEAN, StartAccepting(s, ifFails, there),
           call[s] = "none", UNCHANGED name
    PROVE  /\ at' \in [Servers -> {"unloaded", "registering", "accepting", "closing",
                                   "inSession", "unloading"}]
           /\ at'[s] \in {"unloaded", "registering", "accepting"}
           /\ listener' \in [Servers -> Ports \cup {0}]
           /\ call' \in [Callers -> {"none", "waiting", "answered", "failed"}]
           /\ \A k \in Callers \ {s} : call'[k] = call[k]
           /\ at'[s] # "registering" => call'[s] = "none"
           /\ Others(s) /\ (listener[s] # 0 => listener'[s] = listener[s])
           /\ PortsDiffer' /\ BacklogInv' /\ IdleInv'
           /\ ~there => backlog' = backlog
           /\ \A t \in Servers \ {s} :
                 (\A i \in DOMAIN backlog : backlog[i].from # t) =>
                    \A i \in DOMAIN backlog' : backlog'[i].from # t
<1>1. /\ TypeOK /\ BacklogInv /\ PortsDiffer /\ IdleInv /\ s \in Callers
      /\ listener \in [Servers -> Ports \cup {0}]
      /\ call \in [Callers -> {"none", "waiting", "answered", "failed"}]
      /\ name[s] \in Names /\ name'[s] = name[s]
  BY CallersDiffer, NamesAre DEF PortsInv, TypeOK
<1>. DEFINE Goal == /\ at' \in [Servers -> {"unloaded", "registering", "accepting", "closing",
                                            "inSession", "unloading"}]
                    /\ at'[s] \in {"unloaded", "registering", "accepting"}
                    /\ listener' \in [Servers -> Ports \cup {0}]
                    /\ call' \in [Callers -> {"none", "waiting", "answered", "failed"}]
                    /\ \A k \in Callers \ {s} : call'[k] = call[k]
                    /\ at'[s] # "registering" => call'[s] = "none"
                    /\ \A t \in Servers \ {s} : at'[t] = at[t] /\ listener'[t] = listener[t]
                    /\ listener[s] # 0 => listener'[s] = listener[s]
                    /\ listener'[s] # 0 /\ listener'[s] # listener[s] =>
                          \A t \in Servers : listener[t] # listener'[s]
                    /\ BacklogInv'
                    /\ ~there => backlog' = backlog
                    /\ \A t \in Servers \ {s} :
                         (\A i \in DOMAIN backlog : backlog[i].from # t) =>
                            \A i \in DOMAIN backlog' : backlog'[i].from # t
<1>2. ASSUME NEW stage \in {"unloaded", "accepting"}, Becomes(s, stage),
             UNCHANGED <<backlog, call>>,
             \/ listener' = listener
             \/ listener[s] = 0 /\ \E port \in FreePorts(s) : listener' = [listener EXCEPT ![s] = port]
      PROVE  Goal
  <2>1. /\ at' \in [Servers -> {"unloaded", "registering", "accepting", "closing",
                                "inSession", "unloading"}]
        /\ at'[s] = stage /\ \A t \in Servers \ {s} : at'[t] = at[t]
    BY <1>1, <1>2, StageTypes
  <2>2. /\ listener' \in [Servers -> Ports \cup {0}]
        /\ \A t \in Servers \ {s} : listener'[t] = listener[t]
        /\ listener[s] # 0 => listener'[s] = listener[s]
        /\ listener'[s] # 0 /\ listener'[s] # listener[s] =>
              \A t \in Servers : listener[t] # listener'[s]
    BY <1>1, <1>2, PortsAre
  <2>3. BacklogInv'
    <3>1. \A k \in Callers : call[k] = "waiting" => Same(k)
      BY <1>2, <2>1, <2>2 DEF Same
    <3>. QED
      BY <1>1, <1>2, <3>1, BacklogStays
  <2>. QED
    BY <1>1, <1>2, <2>1, <2>2, <2>3
<1>3. ASSUME NEW port \in FreePorts(s), listener[s] = 0,
             listener' = [listener EXCEPT ![s] = port], Becomes(s, "registering"),
             Call(s, <<SetPort(name[s], port)>>, there)
      PROVE  Goal
  <2>1. /\ at' \in [Servers -> {"unloaded", "registering", "accepting", "closing",
                                "inSession", "unloading"}]
        /\ at'[s] = "registering" /\ \A t \in Servers \ {s} : at'[t] = at[t]
    BY <1>1, <1>3, StageTypes
  <2>2. /\ port \in Ports /\ port # 0 /\ \A t \in Servers : listener[t] # port
    BY PortsAre
  <2>3. /\ listener' \in [Servers -> Ports \cup {0}] /\ listener'[s] = port
        /\ \A t \in Servers \ {s} : listener'[t] = listener[t]
    BY <1>1, <1>3, <2>2
  <2>4. PICK requests : requests = <<SetPort(name[s], port)>>
    OBVIOUS
  <2>5. requests \in {<<>>} \cup {<<r>> : r \in Requests}
    BY <1>1, <2>2, <2>4, RequestTypes
  <2>6. /\ Call(s, requests, there) /\ s \notin Clients /\ s \notin Strangers
        /\ FromServer(s, Connection(s, requests))'
    <3>1. FromServer(s, Connection(s, requests))'
      BY <1>1, <2>1, <2>2, <2>3, <2>4 DEF FromServer, Connection
    <3>. QED
      BY <1>3, <2>4, <3>1, CallersDiffer
  <2>7. /\ BacklogInv' /\ (~there => backlog' = backlog)
        /\ \A t \in Servers \ {s} :
              (\A i \in DOMAIN backlog : backlog[i].from # t) =>
                 \A i \in DOMAIN backlog' : backlog'[i].from # t
    BY <1>1, <2>1, <2>3, <2>5, <2>6, CallBacklog
  <2>8. /\ call' \in [Callers -> {"none", "waiting", "answered", "failed"}]
        /\ \A k \in Callers \ {s} : call'[k] = call[k]
    BY <1>1, <2>6, CallOf
  <2>9. listener[s] = 0
    BY <1>3
  <2>. QED
    BY <2>1, <2>2, <2>3, <2>7, <2>8, <2>9
<1>4. Goal
  BY <1>2, <1>3 DEF StartAccepting
<1>. HIDE DEF Goal
<1>5. PortsDiffer'
  BY <1>1, <1>4 DEF Goal, PortsDiffer
<1>6. IdleInv'
  <2>1. \A t \in Servers \ {s} : at'[t] = at[t] /\ call'[t] = call[t]
    BY <1>4, CallersDiffer DEF Goal
  <2>2. at'[s] # "registering" => call'[s] = "none"
    BY <1>4 DEF Goal
  <2>. QED
    BY <1>1, <2>1, <2>2 DEF IdleInv
<1>7. Others(s)
  BY <1>1, <1>4, CallersDiffer DEF Goal, Others
<1>. QED
  BY <1>4, <1>5, <1>6, <1>7 DEF Goal

\* CloseConnection, and Load of a server that does not run the mapper.
LEMMA StartKeeps ==
    ASSUME PortsInv, NEW s \in Servers, NEW ifFails \in {"unloaded", "accepting"},
           at[s] \in {"unloaded", "inSession"},
           StartAccepting(s, ifFails, host # NoServer),
           UNCHANGED <<name, present, mapper, client, past>>
    PROVE  PortsInv'
<1>1. call[s] = "none" /\ (host # NoServer) \in BOOLEAN
  BY DEF PortsInv, IdleInv
<1>2. PICK there \in BOOLEAN : there = (host # NoServer)
  BY <1>1
<1>3. /\ UNCHANGED <<name, present, host, thread, entries, told, contact>>
      /\ UNCHANGED <<acknowledged, orphaned, moved, erred>>
  BY DEF mapper, client, past
<1>4. /\ at' \in [Servers -> {"unloaded", "registering", "accepting", "closing",
                              "inSession", "unloading"}]
      /\ at'[s] \in {"unloaded", "registering", "accepting"}
      /\ listener' \in [Servers -> Ports \cup {0}]
      /\ call' \in [Callers -> {"none", "waiting", "answered", "failed"}]
      /\ \A k \in Callers \ {s} : call'[k] = call[k]
      /\ Others(s) /\ (listener[s] # 0 => listener'[s] = listener[s])
      /\ PortsDiffer' /\ BacklogInv' /\ IdleInv'
      /\ ~there => backlog' = backlog
      /\ \A t \in Servers \ {s} :
            (\A i \in DOMAIN backlog : backlog[i].from # t) =>
               \A i \in DOMAIN backlog' : backlog'[i].from # t
  BY <1>1, <1>2, <1>3, StartDoes
<1>5. TypeOK'
  <2>1. \A i \in DOMAIN backlog' :
           /\ backlog'[i].from \in Callers /\ backlog'[i].gone \in BOOLEAN
           /\ backlog'[i].requests \in {<<>>} \cup {<<r>> : r \in Requests}
    BY <1>4, NextBacklogTypes
  <2>. QED
    BY <1>3, <1>4, <2>1 DEF PortsInv, TypeOK
<1>6. EnteredInv' /\ ToldInv'
  <2>1. \A c \in Clients : call'[c] = call[c]
    BY <1>4, CallersDiffer
  <2>2. \A t \in Servers : listener[t] # 0 => listener'[t] = listener[t]
    BY <1>4 DEF Others
  <2>. QED
    BY <1>3, <2>1, <2>2, ListenersStay
<1>7. MapperInv'
  <2>1. host = NoServer => backlog' = backlog
    BY <1>2, <1>4
  <2>2. thread = "reading" => backlog' # <<>>
    <3>1. CASE backlog' = backlog
      BY <3>1 DEF PortsInv, MapperInv
    <3>2. CASE backlog' # backlog
      <4>1. \E k, requests : backlog' = Append(backlog, Connection(k, requests))
        BY <3>2 DEF StartAccepting, Call
      <4>2. backlog \in Seq(MapperConnections)
        BY DEF PortsInv, BacklogInv
      <4>. QED
        BY <4>1, <4>2
    <3>. QED
      BY <3>1, <3>2
  <2>. QED
    BY <1>3, <2>1, <2>2 DEF PortsInv, MapperInv
<1>8. AcknowledgedInv'
  <2>1. s \notin acknowledged
    BY DEF PortsInv, AcknowledgedInv
  <2>2. acknowledged \subseteq Servers
    BY DEF PortsInv, TypeOK
  <2>. QED
    BY <1>3, <1>4, <2>1, <2>2 DEF PortsInv, AcknowledgedInv, Others
<1>9. TakenBackInv'
  BY <1>3, <1>4 DEF PortsInv, TakenBackInv, Others
<1>. QED
  BY <1>4, <1>5, <1>6, <1>7, <1>8, <1>9 DEF PortsInv

\* Load of the server that runs the mapper.
LEMMA LoadMapper ==
    ASSUME PortsInv, NEW s \in Servers, Load(s), s \in StartsMapper
    PROVE  PortsInv'
<1>1. /\ at[s] = "unloaded" /\ host = NoServer /\ StartAccepting(s, "unloaded", TRUE)
      /\ host' = s /\ thread' = "polling" /\ entries' = NoEntries
      /\ acknowledged' = {} /\ orphaned' = {} /\ erred' = FALSE
      /\ UNCHANGED <<name, present, told, contact, moved>>
  <2>1. (s \in StartsMapper \/ host # NoServer) = TRUE
    OBVIOUS
  <2>. QED
    BY <2>1 DEF Load, client
<1>2. call[s] = "none"
  BY <1>1 DEF PortsInv, IdleInv
<1>3. /\ at' \in [Servers -> {"unloaded", "registering", "accepting", "closing",
                              "inSession", "unloading"}]
      /\ listener' \in [Servers -> Ports \cup {0}]
      /\ call' \in [Callers -> {"none", "waiting", "answered", "failed"}]
      /\ \A k \in Callers \ {s} : call'[k] = call[k]
      /\ Others(s) /\ (listener[s] # 0 => listener'[s] = listener[s])
      /\ PortsDiffer' /\ BacklogInv' /\ IdleInv'
  BY <1>1, <1>2, StartDoes
<1>4. DOMAIN entries' = {}
  BY <1>1 DEF NoEntries
<1>5. TypeOK'
  <2>1. \A i \in DOMAIN backlog' :
           /\ backlog'[i].from \in Callers /\ backlog'[i].gone \in BOOLEAN
           /\ backlog'[i].requests \in {<<>>} \cup {<<r>> : r \in Requests}
    BY <1>3, NextBacklogTypes
  <2>. QED
    BY <1>1, <1>3, <1>4, <2>1 DEF PortsInv, TypeOK
<1>6. ToldInv'
  <2>1. \A c \in Clients : call'[c] = call[c]
    BY <1>3, CallersDiffer
  <2>2. \A t \in Servers : listener[t] # 0 => listener'[t] = listener[t]
    BY <1>3 DEF Others
  <2>. QED
    BY <1>1, <2>1, <2>2 DEF PortsInv, ToldInv
<1>7. EnteredInv' /\ AcknowledgedInv' /\ TakenBackInv'
  BY <1>1, <1>4 DEF EnteredInv, AcknowledgedInv, TakenBackInv
<1>8. MapperInv'
  BY <1>1, CallersDiffer DEF MapperInv
<1>. QED
  BY <1>3, <1>5, <1>6, <1>7, <1>8 DEF PortsInv

LEMMA LoadKeeps ==
    ASSUME PortsInv, NEW s \in Servers, Load(s)
    PROVE  PortsInv'
<1>1. CASE s \notin StartsMapper
  <2>1. (s \in StartsMapper \/ host # NoServer) = (host # NoServer)
    BY <1>1
  <2>2. /\ at[s] = "unloaded" /\ StartAccepting(s, "unloaded", host # NoServer)
        /\ UNCHANGED <<name, present, mapper, client, acknowledged, orphaned, erred, moved>>
    BY <1>1, <2>1 DEF Load
  <2>. QED
    BY <2>2, StartKeeps DEF past
<1>. QED
  BY <1>1, LoadMapper

\* StopAccepting, behind an accepted connection and in Unload.
LEMMA StopKeeps ==
    ASSUME PortsInv, NEW s \in Servers, NEW stage \in {"closing", "unloading"},
           at[s] \in {"unloaded", "accepting", "inSession"}, StopAccepting(s, stage),
           UNCHANGED <<name, present, listener, mapper, client, orphaned, moved, erred>>
    PROVE  PortsInv'
<1>1. /\ UNCHANGED <<name, present, listener, host, thread, entries, told, contact>>
      /\ UNCHANGED <<orphaned, moved, erred>> /\ acknowledged' = acknowledged \ {s}
      /\ Becomes(s, stage)
  BY DEF mapper, client, StopAccepting
<1>2. /\ TypeOK /\ BacklogInv /\ s \in Callers /\ call[s] = "none" /\ name[s] \in Names
      /\ s \notin Clients /\ s \notin Strangers
  BY CallersDiffer, NamesAre DEF PortsInv, IdleInv
<1>3. /\ at' \in [Servers -> {"unloaded", "registering", "accepting", "closing",
                              "inSession", "unloading"}]
      /\ at'[s] = stage /\ \A t \in Servers \ {s} : at'[t] = at[t]
  BY <1>1, <1>2, StageTypes
<1>4. PICK there \in BOOLEAN : there = (host # NoServer)
  OBVIOUS
<1>a. PICK requests : requests = <<UnsetPort(name[s])>>
  OBVIOUS
<1>5. Call(s, requests, there)
  BY <1>4, <1>a DEF StopAccepting
<1>6. /\ call' \in [Callers -> {"none", "waiting", "answered", "failed"}]
      /\ \A k \in Callers \ {s} : call'[k] = call[k]
      /\ \/ there /\ call'[s] = "waiting" /\ backlog' = Append(backlog, Connection(s, requests))
         \/ ~there /\ call'[s] = "failed" /\ backlog' = backlog
  BY <1>2, <1>5, CallOf
<1>7. /\ BacklogInv'
      /\ \A t \in Servers \ {s} :
            (\A i \in DOMAIN backlog : backlog[i].from # t) =>
               \A i \in DOMAIN backlog' : backlog'[i].from # t
  <2>1. requests \in {<<>>} \cup {<<r>> : r \in Requests}
    BY <1>2, <1>a, RequestTypes
  <2>2. FromServer(s, Connection(s, requests))'
    BY <1>1, <1>3, <1>a DEF FromServer, Connection
  <2>3. \A t \in Servers \ {s} : at'[t] = at[t] /\ listener'[t] = listener[t]
    BY <1>1, <1>3
  <2>. QED
    BY <1>1, <1>2, <1>5, <2>1, <2>2, <2>3, CallBacklog
<1>8. TypeOK'
  <2>1. \A i \in DOMAIN backlog' :
           /\ backlog'[i].from \in Callers /\ backlog'[i].gone \in BOOLEAN
           /\ backlog'[i].requests \in {<<>>} \cup {<<r>> : r \in Requests}
    BY <1>7, NextBacklogTypes
  <2>. QED
    BY <1>1, <1>2, <1>3, <1>6, <2>1 DEF TypeOK
<1>9. EnteredInv' /\ ToldInv'
  <2>1. \A c \in Clients : call'[c] = call[c]
    BY <1>6, CallersDiffer
  <2>. QED
    BY <1>1, <2>1, ListenersStay
<1>10. PortsDiffer'
  BY <1>1 DEF PortsInv, PortsDiffer
<1>11. MapperInv'
  <2>1. host = NoServer => backlog' = backlog
    BY <1>4, <1>6
  <2>2. backlog # <<>> => backlog' # <<>>
    BY <1>2, <1>6 DEF BacklogInv
  <2>. QED
    BY <1>1, <2>1, <2>2 DEF PortsInv, MapperInv
<1>12. IdleInv'
  <2>1. \A t \in Servers \ {s} : at'[t] = at[t] /\ call'[t] = call[t]
    BY <1>3, <1>6, CallersDiffer
  <2>. QED
    BY <1>3, <2>1 DEF PortsInv, IdleInv
<1>13. AcknowledgedInv'
  BY <1>1, <1>2, <1>3, <1>7 DEF PortsInv, AcknowledgedInv, TypeOK
<1>14. TakenBackInv'
  <2>1. \A t \in Servers \ {s} : at'[t] = at[t] /\ call'[t] = call[t]
    BY <1>3, <1>6, CallersDiffer
  <2>2. call'[s] # "waiting" => DOMAIN entries = {}
    BY <1>4, <1>6 DEF PortsInv, MapperInv, NoEntries
  <2>. QED
    BY <1>1, <2>1, <2>2 DEF PortsInv, TakenBackInv
<1>. QED
  BY <1>7, <1>8, <1>9, <1>10, <1>11, <1>12, <1>13, <1>14 DEF PortsInv

\* The host goes on when the mapper has answered, or cannot.
LEMMA RegisteredKeeps ==
    ASSUME PortsInv, NEW s \in Servers, Registered(s)
    PROVE  PortsInv'
<1>1. /\ at[s] = "registering" /\ call[s] \in {"answered", "failed"} /\ Becomes(s, "accepting")
      /\ call' = [call EXCEPT ![s] = "none"]
      /\ UNCHANGED <<name, present, listener, host, thread, entries, backlog, told, contact>>
      /\ UNCHANGED <<acknowledged, orphaned, moved, erred>>
  BY DEF Registered, mapper, client, past
<1>2. TypeOK /\ s \in Callers /\ s \notin Clients
  BY CallersDiffer DEF PortsInv
<1>3. /\ at' \in [Servers -> {"unloaded", "registering", "accepting", "closing",
                              "inSession", "unloading"}]
      /\ at'[s] = "accepting" /\ \A t \in Servers \ {s} : at'[t] = at[t]
      /\ call' \in [Callers -> {"none", "waiting", "answered", "failed"}]
      /\ call'[s] = "none" /\ \A k \in Callers \ {s} : call'[k] = call[k]
  BY <1>1, <1>2, StageTypes, CallTypes
<1>4. BacklogInv'
  <2>1. \A k \in Callers : call[k] = "waiting" => Same(k)
    BY <1>1, <1>2, <1>3 DEF Same
  <2>. QED
    BY <1>1, <2>1, BacklogStays DEF PortsInv
<1>5. TypeOK'
  BY <1>1, <1>2, <1>3 DEF TypeOK
<1>6. EnteredInv' /\ ToldInv'
  <2>1. \A c \in Clients : call'[c] = call[c]
    BY <1>2, <1>3, CallersDiffer
  <2>. QED
    BY <1>1, <2>1, ListenersStay
<1>7. PortsDiffer' /\ MapperInv'
  BY <1>1 DEF PortsInv, PortsDiffer, MapperInv
<1>8. IdleInv' /\ TakenBackInv'
  <2>1. \A t \in Servers \ {s} : at'[t] = at[t] /\ call'[t] = call[t]
    BY <1>3, CallersDiffer
  <2>. QED
    BY <1>1, <1>3, <2>1 DEF PortsInv, IdleInv, TakenBackInv
<1>9. AcknowledgedInv'
  BY <1>1, <1>2, <1>3 DEF PortsInv, AcknowledgedInv, TypeOK
<1>. QED
  BY <1>4, <1>5, <1>6, <1>7, <1>8, <1>9 DEF PortsInv

-----------------------------------------------------------------------------
(* A listener that is closed.                                              *)

LEMMA ClosedDoes ==
    ASSUME PortsInv, NEW s \in Servers, Closed(s), UNCHANGED name
    PROVE  /\ listener' \in [Servers -> Ports \cup {0}] /\ listener'[s] = 0
           /\ \A t \in Servers \ {s} : listener'[t] = listener[t]
           /\ contact' \in [Clients -> Servers \cup {NoServer}]
           /\ moved \subseteq moved' /\ moved' \subseteq Clients
           /\ \A c \in Clients : Wanted[c] = name[s] /\ call[c] # "none" => c \in moved'
           /\ PortsDiffer'
<1>1. /\ listener' = [listener EXCEPT ![s] = 0]
      /\ contact' = [c \in Clients |-> IF contact[c] = s THEN NoServer ELSE contact[c]]
      /\ moved' = moved \cup {c \in Clients : Wanted[c] = name[s] /\ call[c] # "none"}
  BY DEF Closed
<1>2. /\ listener \in [Servers -> Ports \cup {0}]
      /\ contact \in [Clients -> Servers \cup {NoServer}] /\ moved \subseteq Clients
  BY DEF PortsInv, TypeOK
<1>3. listener'[s] = 0 /\ \A t \in Servers \ {s} : listener'[t] = listener[t]
  BY <1>1, <1>2
<1>4. PortsDiffer'
  BY <1>3 DEF PortsInv, PortsDiffer
<1>. QED
  BY <1>1, <1>2, <1>3, <1>4

\* A client whose answer is there loses it to nobody; the server it leads to is
\* the one that closed, or listens still.
LEMMA ClosedTold ==
    ASSUME PortsInv, NEW s \in Servers, Closed(s), UNCHANGED <<name, told>>,
           \A c \in Clients : call[c] = "answered" => call'[c] = "answered"
    PROVE  ToldInv'
<1>1. /\ \A t \in Servers \ {s} : listener'[t] = listener[t]
      /\ moved \subseteq moved'
      /\ \A c \in Clients : Wanted[c] = name[s] /\ call[c] # "none" => c \in moved'
  BY ClosedDoes
<1>2. ASSUME NEW c \in Clients, told'[c] # 0
      PROVE  /\ call'[c] = "answered"
             /\ c \in moved' \/ \E t \in Servers : name'[t] = Wanted[c] /\ listener'[t] = told'[c]
  <2>1. /\ call[c] = "answered" /\ call'[c] = "answered"
        /\ c \in moved \/ \E t \in Servers : name[t] = Wanted[c] /\ listener[t] = told[c]
    BY <1>2 DEF PortsInv, ToldInv
  <2>. QED
    BY <1>1, <2>1
<1>. QED
  BY <1>2 DEF ToldInv

\* Who loses its connection to a mapper that ends had waited for it.
LEMMA ResetDoes ==
    ASSUME PortsInv, NEW s \in Servers, call' = [ResetCalls(backlog) EXCEPT ![s] = "none"]
    PROVE  /\ call' \in [Callers -> {"none", "waiting", "answered", "failed"}]
           /\ call'[s] = "none"
           /\ \A k \in Callers \ {s} : call[k] # "waiting" => call'[k] = call[k]
<1>1. s \in Callers /\ call \in [Callers -> {"none", "waiting", "answered", "failed"}]
  BY CallersDiffer DEF PortsInv, TypeOK
<1>2. \A i \in DOMAIN backlog : ~backlog[i].gone => call[backlog[i].from] = "waiting"
  BY DEF PortsInv, BacklogInv, Sound
<1>3. /\ ResetCalls(backlog) \in [Callers -> {"none", "waiting", "answered", "failed"}]
      /\ \A k \in Callers : call[k] # "waiting" => ResetCalls(backlog)[k] = call[k]
  BY <1>1, <1>2 DEF ResetCalls
<1>. QED
  BY <1>1, <1>3

\* The end of the server that runs the mapper.
LEMMA MapperGoneKeeps ==
    ASSUME PortsInv, NEW s \in Servers, Becomes(s, "unloaded"), Closed(s), MapperGone,
           acknowledged' = {}, call' = [ResetCalls(backlog) EXCEPT ![s] = "none"],
           UNCHANGED <<name, present, told>>
    PROVE  PortsInv'
<1>1. /\ host' = NoServer /\ thread' = "none" /\ entries' = NoEntries /\ backlog' = <<>>
      /\ orphaned' = {} /\ erred' = FALSE /\ DOMAIN entries' = {} /\ DOMAIN backlog' = {}
  BY DEF MapperGone, NoEntries
<1>2. /\ listener' \in [Servers -> Ports \cup {0}]
      /\ contact' \in [Clients -> Servers \cup {NoServer}]
      /\ moved' \subseteq Clients /\ PortsDiffer'
  BY ClosedDoes
<1>3. /\ call' \in [Callers -> {"none", "waiting", "answered", "failed"}]
      /\ call'[s] = "none"
      /\ \A k \in Callers \ {s} : call[k] # "waiting" => call'[k] = call[k]
  BY ResetDoes
<1>4. /\ at' \in [Servers -> {"unloaded", "registering", "accepting", "closing",
                              "inSession", "unloading"}]
      /\ \A t \in Servers \ {s} : at'[t] = at[t]
  BY StageTypes DEF PortsInv
<1>5. TypeOK'
  BY <1>1, <1>2, <1>3, <1>4 DEF PortsInv, TypeOK
<1>6. BacklogInv'
  BY <1>1, BacklogEmpty
<1>7. MapperInv' /\ EnteredInv' /\ AcknowledgedInv' /\ TakenBackInv'
  BY <1>1 DEF MapperInv, EnteredInv, AcknowledgedInv, TakenBackInv
<1>8. IdleInv'
  BY <1>3, <1>4, CallersDiffer DEF PortsInv, IdleInv
<1>9. ToldInv'
  <2>1. \A c \in Clients : call[c] = "answered" => call'[c] = "answered"
    BY <1>3, CallersDiffer
  <2>. QED
    BY <2>1, ClosedTold
<1>. QED
  BY <1>2, <1>5, <1>6, <1>7, <1>8, <1>9 DEF PortsInv

\* The end of StopAccepting.
LEMMA StoppedKeeps ==
    ASSUME PortsInv, NEW s \in Servers, Stopped(s)
    PROVE  PortsInv'
<1>1. /\ at[s] \in {"closing", "unloading"} /\ call[s] \in {"answered", "failed"}
      /\ Becomes(s, IF at[s] = "closing" THEN "inSession" ELSE "unloaded")
      /\ Closed(s) /\ UNCHANGED <<name, present, told>>
  BY DEF Stopped
<1>2. CASE at[s] = "unloading" /\ host = s
  <2>1. /\ MapperGone /\ acknowledged' = {} /\ Becomes(s, "unloaded")
        /\ call' = [ResetCalls(backlog) EXCEPT ![s] = "none"]
    BY <1>1, <1>2 DEF Stopped
  <2>. QED
    BY <1>1, <2>1, MapperGoneKeeps
<1>3. CASE ~(at[s] = "unloading" /\ host = s)
  <2>1. /\ call' = [call EXCEPT ![s] = "none"]
        /\ UNCHANGED <<host, thread, entries, backlog, acknowledged, orphaned, erred>>
    BY <1>3 DEF Stopped, mapper
  <2>2. TypeOK /\ s \in Callers /\ s \notin Clients
    BY CallersDiffer DEF PortsInv
  <2>3. PICK stage \in {"inSession", "unloaded"} : Becomes(s, stage)
    BY <1>1
  <2>4. /\ at' \in [Servers -> {"unloaded", "registering", "accepting", "closing",
                                "inSession", "unloading"}]
        /\ at'[s] = stage /\ \A t \in Servers \ {s} : at'[t] = at[t]
        /\ call' \in [Callers -> {"none", "waiting", "answered", "failed"}]
        /\ call'[s] = "none" /\ \A k \in Callers \ {s} : call'[k] = call[k]
    <3>1. stage \in {"unloaded", "registering", "accepting", "closing", "inSession",
                     "unloading"}
      BY <2>3
    <3>2. /\ at' \in [Servers -> {"unloaded", "registering", "accepting", "closing",
                                  "inSession", "unloading"}]
          /\ at'[s] = stage /\ \A t \in Servers \ {s} : at'[t] = at[t]
      BY <2>2, <2>3, <3>1, StageTypes
    <3>3. /\ call' \in [Callers -> {"none", "waiting", "answered", "failed"}]
          /\ call'[s] = "none" /\ \A k \in Callers \ {s} : call'[k] = call[k]
      BY <2>1, <2>2, CallTypes
    <3>. QED
      BY <3>2, <3>3
  <2>5. /\ listener' \in [Servers -> Ports \cup {0}]
        /\ \A t \in Servers \ {s} : listener'[t] = listener[t]
        /\ contact' \in [Clients -> Servers \cup {NoServer}]
        /\ moved' \subseteq Clients /\ PortsDiffer'
    BY <1>1, ClosedDoes
  <2>6. BacklogInv'
    <3>1. \A k \in Callers : call[k] = "waiting" => Same(k)
      BY <1>1, <2>2, <2>4, <2>5 DEF Same
    <3>. QED
      BY <1>1, <2>1, <3>1, BacklogStays DEF PortsInv
  <2>7. TypeOK'
    BY <1>1, <2>1, <2>2, <2>4, <2>5 DEF TypeOK
  <2>8. MapperInv'
    BY <2>1 DEF PortsInv, MapperInv
  <2>9. IdleInv' /\ TakenBackInv'
    <3>1. \A t \in Servers \ {s} : at'[t] = at[t] /\ call'[t] = call[t]
      BY <2>4, CallersDiffer
    <3>. QED
      BY <2>1, <2>4, <2>5, <3>1 DEF PortsInv, IdleInv, TakenBackInv
  <2>10. EnteredInv'
    BY <1>1, <2>1, <2>5 DEF PortsInv, EnteredInv, TakenBackInv
  <2>11. AcknowledgedInv'
    <3>1. s \notin acknowledged
      BY <1>1 DEF PortsInv, AcknowledgedInv
    <3>. QED
      BY <1>1, <2>1, <2>2, <2>4, <2>5, <3>1 DEF PortsInv, AcknowledgedInv, TypeOK
  <2>12. ToldInv'
    <3>1. \A c \in Clients : call[c] = "answered" => call'[c] = "answered"
      BY <2>2, <2>4, CallersDiffer
    <3>. QED
      BY <1>1, <3>1, ClosedTold
  <2>. QED
    BY <2>5, <2>6, <2>7, <2>8, <2>9, <2>10, <2>11, <2>12 DEF PortsInv
<1>. QED
  BY <1>2, <1>3

\* A backlog that somebody leaves is as long as it was.
LEMMA LeftBacklog ==
    ASSUME PortsInv, NEW k \in Callers, backlog' = WithoutCaller(backlog, k), UNCHANGED name,
           \A j \in Callers \ {k} : call[j] = "waiting" => Same(j)
    PROVE  /\ BacklogInv'
           /\ DOMAIN backlog' = DOMAIN backlog
           /\ \A i \in DOMAIN backlog : backlog'[i].from = backlog[i].from
           /\ backlog' = <<>> <=> backlog = <<>>
<1>1. /\ BacklogInv' /\ DOMAIN backlog' = DOMAIN backlog
      /\ \A i \in DOMAIN backlog : backlog'[i].from = backlog[i].from
  BY BacklogLeft DEF PortsInv
<1>2. backlog \in Seq(MapperConnections) /\ backlog' \in Seq(MapperConnections)
  BY <1>1 DEF PortsInv, BacklogInv
<1>3. \A q \in Seq(MapperConnections) : DOMAIN q = {} <=> q = <<>>
  <2>1. ASSUME NEW q \in Seq(MapperConnections), DOMAIN q = {}
        PROVE  q = <<>>
    <3>1. DOMAIN q = 1 .. Len(q) /\ Len(q) \in Nat
      BY LenProperties
    <3>2. ~ Len(q) >= 1
      BY <2>1, <3>1
    <3>. QED
      BY <3>1, <3>2, EmptySeq
  <2>. QED
    BY <2>1
<1>. QED
  BY <1>1, <1>2, <1>3

\* The process of a server ends.
LEMMA CrashKeeps ==
    ASSUME PortsInv, NEW s \in Servers, Crash(s)
    PROVE  PortsInv'
<1>1. Becomes(s, "unloaded") /\ Closed(s) /\ UNCHANGED <<name, present, told>>
  BY DEF Crash
<1>2. CASE host = s
  <2>1. /\ MapperGone /\ acknowledged' = {}
        /\ call' = [ResetCalls(backlog) EXCEPT ![s] = "none"]
    BY <1>2 DEF Crash
  <2>. QED
    BY <1>1, <2>1, MapperGoneKeeps
<1>3. CASE host # s
  <2>1. /\ backlog' = WithoutCaller(backlog, s)
        /\ call' = [call EXCEPT ![s] = "none"] /\ acknowledged' = acknowledged \ {s}
        /\ orphaned' = IF name[s] \in DOMAIN entries THEN orphaned \cup {name[s]} ELSE orphaned
        /\ UNCHANGED <<host, thread, entries, erred>>
    BY <1>3 DEF Crash, mapper
  <2>2. TypeOK /\ s \in Callers /\ s \notin Clients /\ name[s] \in Names
    BY CallersDiffer, NamesAre DEF PortsInv
  <2>3. /\ at' \in [Servers -> {"unloaded", "registering", "accepting", "closing",
                                "inSession", "unloading"}]
        /\ at'[s] = "unloaded" /\ \A t \in Servers \ {s} : at'[t] = at[t]
        /\ call' \in [Callers -> {"none", "waiting", "answered", "failed"}]
        /\ call'[s] = "none" /\ \A k \in Callers \ {s} : call'[k] = call[k]
    BY <1>1, <2>1, <2>2, StageTypes, CallTypes
  <2>4. /\ listener' \in [Servers -> Ports \cup {0}]
        /\ \A t \in Servers \ {s} : listener'[t] = listener[t]
        /\ contact' \in [Clients -> Servers \cup {NoServer}]
        /\ moved' \subseteq Clients /\ PortsDiffer'
    BY <1>1, ClosedDoes
  <2>5. /\ BacklogInv' /\ DOMAIN backlog' = DOMAIN backlog
        /\ \A i \in DOMAIN backlog : backlog'[i].from = backlog[i].from
        /\ backlog' = <<>> <=> backlog = <<>>
    <3>1. \A j \in Callers \ {s} : call[j] = "waiting" => Same(j)
      BY <2>3, <2>4 DEF Same
    <3>. QED
      BY <1>1, <2>1, <2>2, <3>1, LeftBacklog
  <2>6. TypeOK'
    <3>1. \A i \in DOMAIN backlog' :
             /\ backlog'[i].from \in Callers /\ backlog'[i].gone \in BOOLEAN
             /\ backlog'[i].requests \in {<<>>} \cup {<<r>> : r \in Requests}
      BY <2>5, NextBacklogTypes
    <3>2. acknowledged' \subseteq Servers /\ orphaned' \subseteq Names
      BY <2>1, <2>2 DEF TypeOK
    <3>. QED
      BY <1>1, <2>1, <2>2, <2>3, <2>4, <3>1, <3>2 DEF TypeOK
  <2>7. MapperInv'
    BY <2>1, <2>5 DEF PortsInv, MapperInv
  <2>8. IdleInv' /\ TakenBackInv'
    <3>1. \A t \in Servers \ {s} : at'[t] = at[t] /\ call'[t] = call[t]
      BY <2>3, CallersDiffer
    <3>2. orphaned \subseteq orphaned'
      BY <2>1
    <3>. QED
      BY <2>1, <2>3, <2>4, <3>1, <3>2 DEF PortsInv, IdleInv, TakenBackInv
  <2>9. EnteredInv'
    BY <1>1, <2>1, <2>4 DEF PortsInv, EnteredInv
  <2>10. AcknowledgedInv'
    BY <1>1, <2>1, <2>2, <2>3, <2>4, <2>5 DEF PortsInv, AcknowledgedInv, TypeOK
  <2>11. ToldInv'
    <3>1. \A c \in Clients : call[c] = "answered" => call'[c] = "answered"
      BY <2>2, <2>3, CallersDiffer
    <3>. QED
      BY <1>1, <3>1, ClosedTold
  <2>. QED
    BY <2>4, <2>5, <2>6, <2>7, <2>8, <2>9, <2>10, <2>11 DEF PortsInv
<1>. QED
  BY <1>2, <1>3

-----------------------------------------------------------------------------
(* The thread of the mapper.                                               *)

\* A connection is served and its caller, if it is there, has its answer.
LEMMA ServedDoes ==
    ASSUME PortsInv, backlog # <<>>, NEW h, h = Head(backlog), backlog' = Tail(backlog),
           UNCHANGED <<name, at, listener>>, NEW result \in {"answered", "failed"},
           call' = IF h.gone THEN call ELSE [call EXCEPT ![h.from] = result]
    PROVE  /\ h \in MapperConnections /\ Sound(h) /\ h.from \in Callers
           /\ call' \in [Callers -> {"none", "waiting", "answered", "failed"}]
           /\ ~h.gone => call[h.from] = "waiting" /\ call'[h.from] = result
           /\ \A k \in Callers : h.gone \/ k # h.from => call'[k] = call[k]
           /\ BacklogInv' /\ IdleInv' /\ PortsDiffer'
           /\ \A s \in acknowledged : /\ s # h.from
                                      /\ \A i \in DOMAIN backlog' : backlog'[i].from # s
           /\ ~h.gone => \A i \in DOMAIN backlog' : backlog'[i].from # h.from
<1>1. TypeOK /\ BacklogInv /\ backlog \in Seq(MapperConnections)
  BY DEF PortsInv, BacklogInv
<1>2. /\ 1 \in DOMAIN backlog /\ h = backlog[1]
      /\ \A i \in DOMAIN backlog' : i + 1 \in DOMAIN backlog /\ backlog'[i] = backlog[i + 1]
  <2>1. /\ DOMAIN backlog = 1 .. Len(backlog) /\ Len(backlog) \in Nat \ {0}
        /\ Head(backlog) = backlog[1]
    BY <1>1, LenProperties, EmptySeq
  <2>2. /\ backlog' \in Seq(MapperConnections) /\ Len(backlog') = Len(backlog) - 1
        /\ DOMAIN backlog' = 1 .. Len(backlog')
        /\ \A i \in 1 .. Len(backlog') : backlog'[i] = backlog[i + 1]
    BY <1>1, HeadTailProperties, LenProperties
  <2>. QED
    BY <2>1, <2>2
<1>3. Sound(h) /\ h \in MapperConnections /\ h.from \in Callers
  BY <1>1, <1>2 DEF BacklogInv, Sound, MapperConnections
<1>4. /\ call' \in [Callers -> {"none", "waiting", "answered", "failed"}]
      /\ ~h.gone => call[h.from] = "waiting" /\ call'[h.from] = result
      /\ \A k \in Callers : h.gone \/ k # h.from => call'[k] = call[k]
  <2>1. CASE h.gone
    BY <1>1, <2>1 DEF TypeOK
  <2>2. CASE ~h.gone
    <3>1. call' = [call EXCEPT ![h.from] = result]
      BY <2>2
    <3>. QED
      BY <1>1, <1>3, <2>2, <3>1, CallTypes DEF Sound
  <2>. QED
    BY <2>1, <2>2
<1>5. /\ BacklogInv'
      /\ ~h.gone => \A i \in DOMAIN backlog' : backlog'[i].from # h.from
  <2>1. \A k \in Callers : call[k] = "waiting" /\ (h.gone \/ k # h.from) => Same(k)
    BY <1>4 DEF Same
  <2>. QED
    BY <1>1, <2>1, BacklogServed
<1>6. IdleInv'
  BY <1>4, CallersDiffer DEF PortsInv, IdleInv
<1>7. PortsDiffer'
  BY DEF PortsInv, PortsDiffer
<1>8. \A s \in acknowledged : /\ s # h.from
                              /\ \A i \in DOMAIN backlog' : backlog'[i].from # s
  BY <1>2 DEF PortsInv, AcknowledgedInv
<1>. QED
  BY <1>3, <1>4, <1>5, <1>6, <1>7, <1>8

\* Who sends which request.
LEMMA RequestOf ==
    ASSUME NEW h, Sound(h), h.requests # <<>>, h.requests # <<Unknown>>
    PROVE  LET r == Head(h.requests)
               s == h.from
           IN  /\ r.kind = "SetPort" =>
                     /\ s \in Servers /\ r.name = name[s] /\ r.port \in Ports
                     /\ ~h.gone => at[s] = "registering" /\ listener[s] = r.port
               /\ r.kind = "UnsetPort" =>
                     /\ s \in Servers /\ r.name = name[s]
                     /\ ~h.gone => at[s] \in {"closing", "unloading"}
               /\ r.kind = "GetPort" => s \in Clients /\ r.name = Wanted[s]
<1>. DEFINE r == Head(h.requests)
            s == h.from
<1>1. s \in Servers \/ s \in Clients
  <2>1. s \in Callers /\ (s \in Strangers => h.requests \in Mishaps)
    BY DEF Sound, MapperConnections
  <2>. QED
    BY <2>1, PortMapperAssumption DEF Callers
<1>2. CASE s \in Clients
  <2>1. h.requests = <<GetPort(Wanted[s])>>
    BY <1>2 DEF Sound
  <2>2. r = GetPort(Wanted[s])
    BY <2>1
  <2>. QED
    BY <1>2, <2>2, KindsDiffer
<1>3. CASE s \in Servers
  <2>1. FromServer(s, h)
    BY <1>3 DEF Sound
  <2>2. CASE /\ h.requests = <<UnsetPort(name[s])>>
             /\ ~h.gone => at[s] \in {"closing", "unloading"}
    <3>1. r = UnsetPort(name[s])
      BY <2>2
    <3>. QED
      BY <1>3, <2>2, <3>1, KindsDiffer
  <2>3. ASSUME NEW port \in Ports, h.requests = <<SetPort(name[s], port)>>,
               ~h.gone => at[s] = "registering" /\ listener[s] = port
        PROVE  r.kind = "SetPort" /\ r.name = name[s] /\ r.port = port
    <3>1. r = SetPort(name[s], port)
      BY <2>3
    <3>. QED
      BY <3>1, KindsDiffer
  <2>. QED
    BY <1>3, <2>1, <2>2, <2>3 DEF FromServer
<1>. QED
  BY <1>1, <1>2, <1>3

\* SetPort enters the port of a server that registers, unless that has ended.
LEMMA SetPortKeeps ==
    ASSUME PortsInv, NEW h, h = Head(backlog), HandleClient, Head(h.requests).kind = "SetPort"
    PROVE  /\ EnteredInv' /\ AcknowledgedInv' /\ TakenBackInv' /\ ToldInv'
           /\ DOMAIN entries' \subseteq Names /\ (\A n \in DOMAIN entries' : entries'[n] \in Ports)
           /\ acknowledged' \subseteq Servers /\ orphaned' \subseteq Names
           /\ UNCHANGED <<told, moved>>
<1>. DEFINE s == h.from
            n == Head(h.requests).name
            port == Head(h.requests).port
<1>1. /\ backlog # <<>> /\ backlog' = Tail(backlog)
      /\ UNCHANGED <<name, at, listener>>
      /\ call' = IF h.gone THEN call ELSE [call EXCEPT ![h.from] = "answered"]
      /\ h.requests # <<>> /\ h.requests # <<Unknown>>
  BY DEF HandleClient, server, PortsInv, MapperInv
<1>2. /\ h \in MapperConnections /\ Sound(h) /\ h.from \in Callers
      /\ ~h.gone => call[h.from] = "waiting" /\ call'[h.from] = "answered"
      /\ \A k \in Callers : h.gone \/ k # h.from => call'[k] = call[k]
      /\ \A t \in acknowledged : /\ t # h.from
                                 /\ \A i \in DOMAIN backlog' : backlog'[i].from # t
      /\ ~h.gone => \A i \in DOMAIN backlog' : backlog'[i].from # h.from
  <2>1. /\ h \in MapperConnections /\ Sound(h) /\ h.from \in Callers
        /\ ~h.gone => call[h.from] = "waiting" /\ call'[h.from] = "answered"
        /\ \A k \in Callers : h.gone \/ k # h.from => call'[k] = call[k]
    BY ZenonT(60), <1>1, ServedDoes
  <2>2. \A t \in acknowledged : /\ t # h.from
                                /\ \A i \in DOMAIN backlog' : backlog'[i].from # t
    BY ZenonT(60), <1>1, ServedDoes
  <2>3. ASSUME ~h.gone, NEW i \in DOMAIN backlog'
        PROVE  backlog'[i].from # h.from
    BY ZenonT(60), <1>1, <2>3, ServedDoes
  <2>. QED
    BY <2>1, <2>2, <2>3
<1>3. /\ s \in Servers /\ n = name[s] /\ port \in Ports
      /\ ~h.gone => at[s] = "registering" /\ listener[s] = port
  BY <1>1, <1>2, RequestOf
<1>4. /\ entries' = Entered(n, port)
      /\ orphaned' = IF h.gone THEN orphaned \cup {n} ELSE orphaned \ {n}
      /\ acknowledged' = IF h.gone THEN acknowledged ELSE acknowledged \cup {s}
      /\ UNCHANGED <<told, moved>>
  BY DEF HandleClient, Handle, HandleSetPort
<1>5. port # 0 /\ n \in Names /\ s \notin Clients
  BY <1>3, PortsAre, NamesAre, CallersDiffer DEF PortsInv
<1>. HIDE DEF s, n, port
<1>6. /\ DOMAIN entries' = DOMAIN entries \cup {n} /\ entries'[n] = port
      /\ \A m \in DOMAIN entries \ {n} : entries'[m] = entries[m]
  BY <1>4 DEF Entered
<1>7. DOMAIN entries' \subseteq Names /\ \A m \in DOMAIN entries' : entries'[m] \in Ports
  BY <1>3, <1>5, <1>6 DEF PortsInv, TypeOK
<1>8. acknowledged' \subseteq Servers /\ orphaned' \subseteq Names
  BY <1>3, <1>4, <1>5 DEF PortsInv, TypeOK
<1>9. EnteredInv'
  BY <1>1, <1>3, <1>4, <1>6 DEF PortsInv, EnteredInv
<1>10. AcknowledgedInv'
  <2>1. ASSUME NEW t \in acknowledged', t # s
        PROVE  /\ at'[t] \in {"registering", "accepting"}
               /\ \A i \in DOMAIN backlog' : backlog'[i].from # t
               /\ (\A u \in Servers \ {t} : name'[u] # name'[t]) =>
                     name'[t] \in DOMAIN entries' /\ entries'[name'[t]] = listener'[t]
    <3>1. t \in acknowledged /\ t \in Servers
      BY <1>4, <1>8, <2>1
    <3>. QED
      BY <1>1, <1>2, <1>3, <1>6, <2>1, <3>1 DEF PortsInv, AcknowledgedInv
  <2>2. s \in acknowledged' => ~h.gone
    BY <1>2, <1>4 DEF s
  <2>3. ~h.gone => \A i \in DOMAIN backlog' : backlog'[i].from # s
    BY <1>2 DEF s
  <2>. QED
    BY <1>1, <1>3, <1>6, <2>1, <2>2, <2>3 DEF AcknowledgedInv
<1>11. TakenBackInv'
  <2>1. ASSUME NEW t \in Servers, at[t] \in {"closing", "unloading"}, call'[t] # "waiting",
               NEW m \in DOMAIN entries' \ orphaned'
        PROVE  entries'[m] # listener[t]
    <3>1. h.gone \/ t # s
      BY <1>3, <2>1
    <3>2. call[t] # "waiting"
      BY <1>2, <2>1, <3>1, CallersDiffer DEF s
    <3>3. CASE m = n
      <4>1. ~h.gone
        BY <1>4, <2>1, <3>3
      <4>2. t # s /\ listener[s] = port /\ entries'[m] = port
        BY <1>3, <1>6, <3>1, <3>3, <4>1
      <4>. QED
        BY <1>3, <1>5, <4>2 DEF PortsInv, PortsDiffer
    <3>4. CASE m # n
      <4>1. m \in DOMAIN entries \ orphaned /\ entries'[m] = entries[m]
        BY <1>4, <1>6, <2>1, <3>4
      <4>. QED
        BY <2>1, <3>2, <4>1 DEF PortsInv, TakenBackInv
    <3>. QED
      BY <3>3, <3>4
  <2>. QED
    BY <1>1, <2>1 DEF TakenBackInv
<1>12. ToldInv'
  <2>1. \A c \in Clients : call'[c] = call[c]
    BY <1>2, <1>5, CallersDiffer DEF s
  <2>. QED
    BY <1>1, <1>4, <2>1 DEF PortsInv, ToldInv
<1>. QED
  BY <1>4, <1>7, <1>8, <1>9, <1>10, <1>11, <1>12

\* UnsetPort erases the name of the server that sent it.
LEMMA UnsetPortKeeps ==
    ASSUME PortsInv, NEW h, h = Head(backlog), HandleClient, Head(h.requests).kind = "UnsetPort"
    PROVE  /\ EnteredInv' /\ AcknowledgedInv' /\ TakenBackInv' /\ ToldInv'
           /\ DOMAIN entries' \subseteq Names /\ (\A n \in DOMAIN entries' : entries'[n] \in Ports)
           /\ acknowledged' \subseteq Servers /\ orphaned' \subseteq Names
           /\ UNCHANGED <<told, moved>>
<1>. DEFINE s == h.from
            n == Head(h.requests).name
<1>1. /\ backlog # <<>> /\ backlog' = Tail(backlog)
      /\ UNCHANGED <<name, at, listener>>
      /\ call' = IF h.gone THEN call ELSE [call EXCEPT ![h.from] = "answered"]
      /\ h.requests # <<>> /\ h.requests # <<Unknown>>
  BY DEF HandleClient, server, PortsInv, MapperInv
<1>2. /\ h \in MapperConnections /\ Sound(h) /\ h.from \in Callers
      /\ \A k \in Callers : h.gone \/ k # h.from => call'[k] = call[k]
      /\ \A t \in acknowledged : /\ t # h.from
                                 /\ \A i \in DOMAIN backlog' : backlog'[i].from # t
  BY ZenonT(60), <1>1, ServedDoes
<1>3. s \in Servers /\ n = name[s]
  BY <1>1, <1>2, RequestOf
<1>4. /\ entries' = Erased(n) /\ orphaned' = orphaned \ {n}
      /\ UNCHANGED <<told, acknowledged, moved>>
  BY DEF HandleClient, Handle, HandleUnsetPort
<1>5. s \notin Clients
  BY <1>3, CallersDiffer
<1>. HIDE DEF s, n
<1>6. /\ DOMAIN entries' = DOMAIN entries \ {n}
      /\ \A m \in DOMAIN entries' : entries'[m] = entries[m]
  BY <1>4 DEF Erased
<1>7. /\ DOMAIN entries' \subseteq Names /\ (\A m \in DOMAIN entries' : entries'[m] \in Ports)
      /\ acknowledged' \subseteq Servers /\ orphaned' \subseteq Names
  BY <1>4, <1>6 DEF PortsInv, TypeOK
<1>8. EnteredInv'
  BY <1>1, <1>4, <1>6 DEF PortsInv, EnteredInv
<1>9. AcknowledgedInv'
  <2>1. ASSUME NEW t \in acknowledged
        PROVE  /\ at'[t] \in {"registering", "accepting"}
               /\ \A i \in DOMAIN backlog' : backlog'[i].from # t
               /\ (\A u \in Servers \ {t} : name'[u] # name'[t]) =>
                     name'[t] \in DOMAIN entries' /\ entries'[name'[t]] = listener'[t]
    <3>1. t # s
      BY <1>2 DEF s
    <3>. QED
      BY <1>1, <1>2, <1>3, <1>6, <3>1 DEF PortsInv, AcknowledgedInv
  <2>. QED
    BY <1>4, <2>1 DEF AcknowledgedInv
<1>10. TakenBackInv'
  <2>1. ASSUME NEW t \in Servers, at[t] \in {"closing", "unloading"}, call'[t] # "waiting",
               NEW m \in DOMAIN entries' \ orphaned'
        PROVE  entries'[m] # listener[t]
    <3>1. m \in DOMAIN entries \ orphaned /\ entries'[m] = entries[m] /\ m # n
      BY <1>4, <1>6
    <3>2. CASE t = s
      <4>1. PICK u \in Servers : name[u] = m /\ listener[u] = entries[m]
        BY <3>1 DEF PortsInv, EnteredInv
      <4>2. u # s /\ entries[m] # 0
        BY <1>3, <3>1, <4>1, PortsAre DEF PortsInv, TypeOK
      <4>. QED
        BY <1>3, <3>1, <3>2, <4>1, <4>2 DEF PortsInv, PortsDiffer
    <3>3. CASE t # s
      <4>1. call[t] # "waiting"
        BY <1>2, <2>1, <3>3, CallersDiffer DEF s
      <4>. QED
        BY <2>1, <3>1, <4>1 DEF PortsInv, TakenBackInv
    <3>. QED
      BY <3>2, <3>3
  <2>. QED
    BY <1>1, <2>1 DEF TakenBackInv
<1>11. ToldInv'
  <2>1. \A c \in Clients : call'[c] = call[c]
    BY <1>2, <1>5, CallersDiffer DEF s
  <2>. QED
    BY <1>1, <1>4, <2>1 DEF PortsInv, ToldInv
<1>. QED
  BY <1>4, <1>7, <1>8, <1>9, <1>10, <1>11

\* GetPort tells a client what is entered under the name it asks for.
LEMMA GetPortKeeps ==
    ASSUME PortsInv, NEW h, h = Head(backlog), HandleClient, Head(h.requests).kind = "GetPort"
    PROVE  /\ EnteredInv' /\ AcknowledgedInv' /\ TakenBackInv' /\ ToldInv'
           /\ told' \in [Clients -> Ports \cup {0}] /\ moved' \subseteq Clients
           /\ UNCHANGED <<entries, acknowledged, orphaned>>
<1>. DEFINE c == h.from
            n == Head(h.requests).name
<1>1. /\ backlog # <<>> /\ backlog' = Tail(backlog)
      /\ UNCHANGED <<name, at, listener>>
      /\ call' = IF h.gone THEN call ELSE [call EXCEPT ![h.from] = "answered"]
      /\ h.requests # <<>> /\ h.requests # <<Unknown>>
  BY DEF HandleClient, server, PortsInv, MapperInv
<1>2. /\ h \in MapperConnections /\ Sound(h) /\ h.from \in Callers
      /\ ~h.gone => call[h.from] = "waiting" /\ call'[h.from] = "answered"
      /\ \A k \in Callers : h.gone \/ k # h.from => call'[k] = call[k]
      /\ \A t \in acknowledged : /\ t # h.from
                                 /\ \A i \in DOMAIN backlog' : backlog'[i].from # t
  BY ZenonT(60), <1>1, ServedDoes
<1>3. c \in Clients /\ n = Wanted[c]
  BY <1>1, <1>2, RequestOf
<1>4. /\ IF ~h.gone /\ n \in DOMAIN entries
         THEN /\ told' = [told EXCEPT ![c] = entries[n]]
              /\ moved' = IF n \in orphaned THEN moved \cup {c} ELSE moved
         ELSE UNCHANGED <<told, moved>>
      /\ UNCHANGED <<entries, acknowledged, orphaned>>
  BY DEF HandleClient, Handle, HandleGetPort
<1>5. \A s \in Servers : call'[s] = call[s]
  BY <1>2, <1>3, CallersDiffer
<1>6. told \in [Clients -> Ports \cup {0}] /\ moved \subseteq Clients
  BY DEF PortsInv, TypeOK
<1>. HIDE DEF c, n
<1>7. told' \in [Clients -> Ports \cup {0}] /\ moved' \subseteq Clients
  <2>1. n \in DOMAIN entries => entries[n] \in Ports
    BY DEF PortsInv, TypeOK
  <2>. QED
    BY <1>3, <1>4, <1>6, <2>1
<1>8. EnteredInv' /\ TakenBackInv'
  BY <1>1, <1>4, <1>5 DEF PortsInv, EnteredInv, TakenBackInv
<1>9. AcknowledgedInv'
  BY <1>1, <1>2, <1>4 DEF PortsInv, AcknowledgedInv
<1>10. ToldInv'
  <2>1. ASSUME NEW d \in Clients, told'[d] # 0
        PROVE  /\ call'[d] = "answered"
               /\ d \in moved' \/ \E s \in Servers : name[s] = Wanted[d] /\ listener[s] = told'[d]
    <3>1. CASE ~h.gone /\ n \in DOMAIN entries /\ d = c
      <4>1. call'[d] = "answered"
        BY <1>2, <3>1 DEF c
      <4>2. told'[d] = entries[n] /\ (n \in orphaned => d \in moved')
        BY <1>3, <1>4, <1>6, <3>1
      <4>3. n \notin orphaned => \E s \in Servers : name[s] = n /\ listener[s] = entries[n]
        BY <3>1 DEF PortsInv, EnteredInv
      <4>. QED
        BY <1>3, <3>1, <4>1, <4>2, <4>3
    <3>2. CASE ~(~h.gone /\ n \in DOMAIN entries /\ d = c)
      <4>1. told'[d] = told[d] /\ moved \subseteq moved'
        BY <1>3, <1>4, <1>6, <3>2
      <4>2. /\ call[d] = "answered"
            /\ d \in moved \/ \E s \in Servers : name[s] = Wanted[d] /\ listener[s] = told[d]
        BY <2>1, <4>1 DEF PortsInv, ToldInv
      <4>3. h.gone \/ d # h.from
        BY <1>2, <4>2
      <4>4. call'[d] = call[d]
        BY <1>2, <4>3, CallersDiffer
      <4>. QED
        BY <4>1, <4>2, <4>4
    <3>. QED
      BY <3>1, <3>2
  <2>. QED
    BY <1>1, <2>1 DEF ToldInv
<1>. QED
  BY <1>4, <1>7, <1>8, <1>9, <1>10

LEMMA HandleClientKeeps ==
    ASSUME PortsInv, HandleClient
    PROVE  PortsInv'
<1>. PICK h : h = Head(backlog)
  OBVIOUS
<1>1. /\ backlog # <<>> /\ backlog' = Tail(backlog) /\ thread' = "polling"
      /\ UNCHANGED <<name, present, at, listener, host, contact, erred>>
      /\ call' = IF h.gone THEN call ELSE [call EXCEPT ![h.from] = "answered"]
      /\ Handle(Head(h.requests), h)
  BY DEF HandleClient, server, PortsInv, MapperInv
<1>2. /\ call' \in [Callers -> {"none", "waiting", "answered", "failed"}]
      /\ BacklogInv' /\ IdleInv' /\ PortsDiffer'
  BY ZenonT(60), <1>1, ServedDoes
<1>3. /\ EnteredInv' /\ AcknowledgedInv' /\ TakenBackInv' /\ ToldInv'
      /\ DOMAIN entries' \subseteq Names /\ (\A n \in DOMAIN entries' : entries'[n] \in Ports)
      /\ acknowledged' \subseteq Servers /\ orphaned' \subseteq Names
      /\ told' \in [Clients -> Ports \cup {0}] /\ moved' \subseteq Clients
  <2>1. CASE Head(h.requests).kind = "SetPort"
    BY <2>1, SetPortKeeps DEF PortsInv, TypeOK
  <2>2. CASE Head(h.requests).kind = "UnsetPort"
    BY <2>2, UnsetPortKeeps DEF PortsInv, TypeOK
  <2>3. CASE Head(h.requests).kind = "GetPort"
    BY <2>3, GetPortKeeps DEF PortsInv, TypeOK
  <2>. QED
    BY <1>1, <2>1, <2>2, <2>3 DEF Handle
<1>4. TypeOK'
  <2>1. \A i \in DOMAIN backlog' :
           /\ backlog'[i].from \in Callers /\ backlog'[i].gone \in BOOLEAN
           /\ backlog'[i].requests \in {<<>>} \cup {<<r>> : r \in Requests}
    BY <1>2, NextBacklogTypes
  <2>. QED
    BY <1>1, <1>2, <1>3, <2>1 DEF PortsInv, TypeOK
<1>5. MapperInv'
  <2>1. host # NoServer
    BY <1>1 DEF PortsInv, MapperInv
  <2>. QED
    BY <1>1, <2>1 DEF MapperInv
<1>. QED
  BY <1>2, <1>3, <1>4, <1>5 DEF PortsInv

\* A connection that carried no request leaves nothing behind.
LEMMA NothingHandled ==
    ASSUME PortsInv, thread = "reading", backlog' = Tail(backlog), NEW h, h = Head(backlog),
           call' = IF h.gone THEN call ELSE [call EXCEPT ![h.from] = "failed"],
           ~h.gone => h.from \notin Servers,
           thread' \in {"polling", "ended"}, erred' \in BOOLEAN,
           UNCHANGED <<server, host, entries, client, acknowledged, orphaned, moved>>
    PROVE  PortsInv'
<1>1. /\ UNCHANGED <<name, present, at, listener, host, entries, told, contact>>
      /\ UNCHANGED <<acknowledged, orphaned, moved>>
      /\ backlog # <<>> /\ host # NoServer
  BY DEF server, client, PortsInv, MapperInv
<1>2. /\ call' \in [Callers -> {"none", "waiting", "answered", "failed"}]
      /\ ~h.gone => call[h.from] = "waiting" /\ call'[h.from] = "failed"
      /\ \A k \in Callers : h.gone \/ k # h.from => call'[k] = call[k]
      /\ BacklogInv' /\ IdleInv' /\ PortsDiffer'
      /\ \A s \in acknowledged : \A i \in DOMAIN backlog' : backlog'[i].from # s
  BY ZenonT(60), <1>1, ServedDoes
<1>3. TypeOK'
  <2>1. \A i \in DOMAIN backlog' :
           /\ backlog'[i].from \in Callers /\ backlog'[i].gone \in BOOLEAN
           /\ backlog'[i].requests \in {<<>>} \cup {<<r>> : r \in Requests}
    BY <1>2, NextBacklogTypes
  <2>. QED
    BY <1>1, <1>2, <2>1 DEF PortsInv, TypeOK
<1>4. MapperInv'
  BY <1>1 DEF MapperInv
<1>5. EnteredInv' /\ AcknowledgedInv'
  BY <1>1, <1>2 DEF PortsInv, EnteredInv, AcknowledgedInv
<1>6. TakenBackInv'
  <2>1. \A s \in Servers : call'[s] = call[s]
    BY <1>2, CallersDiffer
  <2>. QED
    BY <1>1, <2>1 DEF PortsInv, TakenBackInv
<1>7. ToldInv'
  <2>1. \A c \in Clients : call[c] = "answered" => call'[c] = "answered"
    BY <1>2, CallersDiffer
  <2>. QED
    BY <1>1, <2>1 DEF PortsInv, ToldInv
<1>. QED
  BY <1>2, <1>3, <1>4, <1>5, <1>6, <1>7 DEF PortsInv

LEMMA CallerHasLeftKeeps ==
    ASSUME PortsInv, CallerHasLeft
    PROVE  PortsInv'
<1>. PICK h : h = Head(backlog)
  OBVIOUS
<1>1. h.gone /\ thread' \in {"polling", "ended"} /\ erred' \in BOOLEAN
  BY DEF CallerHasLeft, NextTurn, past, PortsInv, TypeOK
<1>. QED
  BY <1>1, NothingHandled DEF CallerHasLeft, past

LEMMA UnexpectedFrameKeeps ==
    ASSUME PortsInv, UnexpectedFrame
    PROVE  PortsInv'
<1>. PICK h : h = Head(backlog)
  OBVIOUS
<1>1. thread' \in {"polling", "ended"} /\ erred' \in BOOLEAN
  BY DEF UnexpectedFrame, NextTurn
<1>2. h.from \notin Servers
  <2>1. thread = "reading" /\ backlog # <<>> /\ h.requests = <<Unknown>>
    BY DEF UnexpectedFrame, PortsInv, MapperInv
  <2>2. Sound(h)
    <3>1. backlog \in Seq(MapperConnections)
      BY DEF PortsInv, BacklogInv
    <3>2. 1 \in DOMAIN backlog /\ h = backlog[1]
      BY <2>1, <3>1, LenProperties, EmptySeq
    <3>. QED
      BY <3>2 DEF PortsInv, BacklogInv
  <2>3. Head(h.requests) = Unknown
    BY <2>1
  <2>4. ASSUME h.from \in Servers
        PROVE  FALSE
    <3>1. \/ h.requests = <<UnsetPort(name[h.from])>>
          \/ \E port \in Ports : h.requests = <<SetPort(name[h.from], port)>>
      BY <2>2, <2>4 DEF Sound, FromServer
    <3>2. \/ Unknown = UnsetPort(name[h.from])
          \/ \E port \in Ports : Unknown = SetPort(name[h.from], port)
      BY <2>3, <3>1
    <3>. QED
      BY <3>2, KindsDiffer
  <2>. QED
    BY <2>4
<1>. QED
  BY <1>1, <1>2, NothingHandled DEF UnexpectedFrame

LEMMA TryAcceptKeeps ==
    ASSUME PortsInv, TryAccept
    PROVE  PortsInv'
<1>1. /\ thread = "polling" /\ backlog # <<>> /\ thread' = "reading"
      /\ UNCHANGED <<name, present, at, listener, host, entries, backlog, call, told, contact>>
      /\ UNCHANGED <<acknowledged, orphaned, moved, erred>>
  BY DEF TryAccept, server, client, past
<1>2. BacklogInv'
  <2>1. \A k \in Callers : call[k] = "waiting" => Same(k)
    BY <1>1 DEF Same
  <2>. QED
    BY <1>1, <2>1, BacklogStays DEF PortsInv
<1>3. TypeOK' /\ MapperInv'
  BY <1>1 DEF PortsInv, TypeOK, MapperInv
<1>4. PortsDiffer' /\ IdleInv' /\ EnteredInv' /\ AcknowledgedInv' /\ TakenBackInv' /\ ToldInv'
  BY <1>1 DEF PortsInv, PortsDiffer, IdleInv, EnteredInv, AcknowledgedInv, TakenBackInv, ToldInv
<1>. QED
  BY <1>2, <1>3, <1>4 DEF PortsInv

LEMMA AcceptFailsKeeps ==
    ASSUME PortsInv, AcceptFails
    PROVE  PortsInv'
<1>1. /\ thread = "polling" /\ backlog # <<>> /\ thread' \in {"polling", "ended"} /\ erred' = TRUE
      /\ UNCHANGED <<name, present, at, listener, host, entries, backlog, call, told, contact>>
      /\ UNCHANGED <<acknowledged, orphaned, moved>>
  BY DEF AcceptFails, NextTurn, server, client
<1>2. BacklogInv'
  <2>1. \A k \in Callers : call[k] = "waiting" => Same(k)
    BY <1>1 DEF Same
  <2>. QED
    BY <1>1, <2>1, BacklogStays DEF PortsInv
<1>3. TypeOK' /\ MapperInv'
  BY <1>1 DEF PortsInv, TypeOK, MapperInv
<1>4. PortsDiffer' /\ IdleInv' /\ EnteredInv' /\ AcknowledgedInv' /\ TakenBackInv' /\ ToldInv'
  BY <1>1 DEF PortsInv, PortsDiffer, IdleInv, EnteredInv, AcknowledgedInv, TakenBackInv, ToldInv
<1>. QED
  BY <1>2, <1>3, <1>4 DEF PortsInv

-----------------------------------------------------------------------------
(* A client, and a stranger.                                               *)

\* Whoever is no server asks the mapper.
LEMMA AskKeeps ==
    ASSUME PortsInv, NEW k \in Callers, k \notin Servers, NEW requests, NEW there \in BOOLEAN,
           there = (host # NoServer), Call(k, requests, there), call[k] = "none",
           requests \in {<<>>} \cup {<<r>> : r \in Requests},
           k \in Clients => requests = <<GetPort(Wanted[k])>>,
           k \in Strangers => requests \in Mishaps,
           UNCHANGED <<server, mapper, client, past>>
    PROVE  PortsInv'
<1>1. /\ UNCHANGED <<name, present, at, listener, host, thread, entries, told, contact>>
      /\ UNCHANGED <<acknowledged, orphaned, moved, erred>>
      /\ TypeOK /\ BacklogInv /\ backlog \in Seq(MapperConnections)
  BY DEF server, mapper, client, past, PortsInv, BacklogInv
<1>2. /\ call' \in [Callers -> {"none", "waiting", "answered", "failed"}]
      /\ \A j \in Callers \ {k} : call'[j] = call[j]
      /\ \/ there /\ call'[k] = "waiting" /\ backlog' = Append(backlog, Connection(k, requests))
         \/ ~there /\ call'[k] = "failed" /\ backlog' = backlog
  BY <1>1, CallOf
<1>3. /\ BacklogInv' /\ (~there => backlog' = backlog)
      /\ \A s \in Servers :
            (\A i \in DOMAIN backlog : backlog[i].from # s) =>
               \A i \in DOMAIN backlog' : backlog'[i].from # s
  BY <1>1, CallBacklog
<1>4. \A s \in Servers : call'[s] = call[s]
  BY <1>2, CallersDiffer
<1>5. TypeOK'
  <2>1. \A i \in DOMAIN backlog' :
           /\ backlog'[i].from \in Callers /\ backlog'[i].gone \in BOOLEAN
           /\ backlog'[i].requests \in {<<>>} \cup {<<r>> : r \in Requests}
    BY <1>3, NextBacklogTypes
  <2>. QED
    BY <1>1, <1>2, <2>1 DEF TypeOK
<1>6. MapperInv'
  <2>1. backlog # <<>> => backlog' # <<>>
    BY <1>1, <1>2
  <2>. QED
    BY <1>1, <1>3, <2>1 DEF PortsInv, MapperInv
<1>7. PortsDiffer' /\ IdleInv' /\ EnteredInv' /\ TakenBackInv'
  BY <1>1, <1>4 DEF PortsInv, PortsDiffer, IdleInv, EnteredInv, TakenBackInv
<1>8. AcknowledgedInv'
  BY <1>1, <1>3 DEF PortsInv, AcknowledgedInv, TypeOK
<1>9. ToldInv'
  <2>1. \A c \in Clients : call[c] = "answered" => call'[c] = "answered"
    BY <1>2, CallersDiffer
  <2>. QED
    BY <1>1, <2>1 DEF PortsInv, ToldInv
<1>. QED
  BY <1>3, <1>5, <1>6, <1>7, <1>8, <1>9 DEF PortsInv

LEMMA ClientAsks ==
    ASSUME PortsInv, NEW c \in Clients, Ask(c)
    PROVE  PortsInv'
<1>1. PICK there \in BOOLEAN : there = (host # NoServer)
  OBVIOUS
<1>2. PICK requests : requests = <<GetPort(Wanted[c])>>
  OBVIOUS
<1>3. /\ c \in Callers /\ c \notin Servers /\ c \notin Strangers
      /\ requests \in {<<>>} \cup {<<r>> : r \in Requests}
  BY <1>2, CallersDiffer, NamesAre, RequestTypes DEF PortsInv
<1>. QED
  BY <1>1, <1>2, <1>3, AskKeeps DEF Ask

LEMMA StrangerAsks ==
    ASSUME PortsInv, NEW k \in Strangers, StrangerConnects(k)
    PROVE  PortsInv'
<1>1. PICK requests \in Mishaps : Call(k, requests, TRUE)
  BY DEF StrangerConnects
<1>2. /\ k \in Callers /\ k \notin Servers /\ k \notin Clients
      /\ requests \in {<<>>} \cup {<<r>> : r \in Requests}
  BY CallersDiffer, RequestTypes, PortMapperAssumption
<1>. QED
  BY <1>1, <1>2, AskKeeps DEF StrangerConnects

\* Who is told a port that somebody listens on connects to whoever that is.
LEMMA ConnectKeeps ==
    ASSUME PortsInv, NEW c \in Clients, RemoteConnect(c)
    PROVE  /\ PortsInv'
           /\ contact'[c] = contact[c] \/ contact'[c] = NoServer
              \/ name[contact'[c]] = Wanted[c] \/ c \in moved
           /\ \A d \in Clients \ {c} : contact'[d] = contact[d]
<1>1. /\ call[c] \in {"answered", "failed"} /\ call' = [call EXCEPT ![c] = "none"]
      /\ told' = [told EXCEPT ![c] = 0] /\ moved' = moved \ {c}
      /\ UNCHANGED <<name, present, at, listener, host, thread, entries, backlog>>
      /\ UNCHANGED <<acknowledged, orphaned, erred>>
  BY DEF RemoteConnect, server, mapper
<1>2. /\ TypeOK /\ c \in Callers /\ c \notin Servers
      /\ told \in [Clients -> Ports \cup {0}] /\ contact \in [Clients -> Servers \cup {NoServer}]
  BY CallersDiffer DEF PortsInv, TypeOK
<1>3. /\ call' \in [Callers -> {"none", "waiting", "answered", "failed"}]
      /\ call'[c] = "none" /\ \A k \in Callers \ {c} : call'[k] = call[k]
  BY <1>1, <1>2, CallTypes
<1>4. /\ contact' \in [Clients -> Servers \cup {NoServer}]
      /\ contact'[c] = contact[c]
         \/ (told[c] # 0 /\ contact'[c] \in Servers /\ listener[contact'[c]] = told[c])
      /\ \A d \in Clients \ {c} : contact'[d] = contact[d]
  <2>1. CASE told[c] # 0 /\ \E s \in Servers : listener[s] = told[c]
    <3>1. PICK t \in Servers : /\ t = CHOOSE s \in Servers : listener[s] = told[c]
                               /\ listener[t] = told[c]
      BY <2>1
    <3>2. contact' = [contact EXCEPT ![c] = t]
      BY <2>1, <3>1 DEF RemoteConnect
    <3>. QED
      BY <1>2, <2>1, <3>1, <3>2
  <2>2. CASE ~(told[c] # 0 /\ \E s \in Servers : listener[s] = told[c])
    <3>1. contact' = contact
      BY <2>2 DEF RemoteConnect
    <3>. QED
      BY <1>2, <3>1
  <2>. QED
    BY <2>1, <2>2
<1>5. BacklogInv'
  <2>1. \A k \in Callers : call[k] = "waiting" => Same(k)
    BY <1>1, <1>2, <1>3 DEF Same
  <2>. QED
    BY <1>1, <2>1, BacklogStays DEF PortsInv
<1>6. TypeOK'
  BY <1>1, <1>2, <1>3, <1>4 DEF TypeOK
<1>7. /\ PortsDiffer' /\ MapperInv' /\ IdleInv' /\ EnteredInv' /\ AcknowledgedInv'
      /\ TakenBackInv'
  <2>1. \A s \in Servers : call'[s] = call[s]
    BY <1>2, <1>3, CallersDiffer
  <2>. QED
    BY <1>1, <2>1 DEF PortsInv, PortsDiffer, MapperInv, IdleInv, EnteredInv, AcknowledgedInv,
                      TakenBackInv
<1>8. ToldInv'
  <2>1. told'[c] = 0 /\ \A d \in Clients \ {c} : told'[d] = told[d]
    BY <1>1, <1>2
  <2>2. \A d \in Clients \ {c} : call'[d] = call[d]
    BY <1>3, CallersDiffer
  <2>. QED
    BY <1>1, <2>1, <2>2 DEF PortsInv, ToldInv
<1>9. ASSUME told[c] # 0, contact'[c] \in Servers, listener[contact'[c]] = told[c], c \notin moved
      PROVE  name[contact'[c]] = Wanted[c]
  <2>1. PICK s \in Servers : name[s] = Wanted[c] /\ listener[s] = told[c]
    BY <1>9 DEF PortsInv, ToldInv
  <2>2. contact'[c] = s
    BY <1>9, <2>1 DEF PortsInv, PortsDiffer
  <2>. QED
    BY <2>1, <2>2
<1>. QED
  BY <1>4, <1>5, <1>6, <1>7, <1>8, <1>9 DEF PortsInv

\* A client or a stranger gives up or ends.
LEMMA LeaveKeeps ==
    ASSUME PortsInv, NEW k \in Clients \cup Strangers, Leave(k)
    PROVE  PortsInv'
<1>1. /\ call' = [call EXCEPT ![k] = "none"] /\ backlog' = WithoutCaller(backlog, k)
      /\ told' = [c \in Clients |-> IF c = k THEN 0 ELSE told[c]] /\ moved' = moved \ {k}
      /\ UNCHANGED <<name, present, at, listener, host, thread, entries, contact>>
      /\ UNCHANGED <<acknowledged, orphaned, erred>>
  BY DEF Leave, server, mapper
<1>2. /\ TypeOK /\ k \in Callers /\ k \notin Servers
      /\ told \in [Clients -> Ports \cup {0}]
  BY CallersDiffer DEF PortsInv, TypeOK
<1>3. /\ call' \in [Callers -> {"none", "waiting", "answered", "failed"}]
      /\ call'[k] = "none" /\ \A j \in Callers \ {k} : call'[j] = call[j]
  BY <1>1, <1>2, CallTypes
<1>4. /\ BacklogInv' /\ DOMAIN backlog' = DOMAIN backlog
      /\ \A i \in DOMAIN backlog : backlog'[i].from = backlog[i].from
      /\ backlog' = <<>> <=> backlog = <<>>
  <2>1. \A j \in Callers \ {k} : call[j] = "waiting" => Same(j)
    BY <1>1, <1>3 DEF Same
  <2>. QED
    BY <1>1, <1>2, <2>1, LeftBacklog
<1>5. TypeOK'
  <2>1. \A i \in DOMAIN backlog' :
           /\ backlog'[i].from \in Callers /\ backlog'[i].gone \in BOOLEAN
           /\ backlog'[i].requests \in {<<>>} \cup {<<r>> : r \in Requests}
    BY <1>4, NextBacklogTypes
  <2>. QED
    BY <1>1, <1>2, <1>3, <2>1 DEF TypeOK
<1>6. PortsDiffer' /\ MapperInv' /\ IdleInv' /\ EnteredInv' /\ TakenBackInv'
  <2>1. \A s \in Servers : call'[s] = call[s]
    BY <1>2, <1>3, CallersDiffer
  <2>. QED
    BY <1>1, <1>4, <2>1 DEF PortsInv, PortsDiffer, MapperInv, IdleInv, EnteredInv, TakenBackInv
<1>7. AcknowledgedInv'
  BY <1>1, <1>4 DEF PortsInv, AcknowledgedInv
<1>8. ToldInv'
  <2>1. \A c \in Clients : told'[c] # 0 => c # k /\ told'[c] = told[c] /\ call'[c] = call[c]
    BY <1>1, <1>2, <1>3, CallersDiffer
  <2>. QED
    BY <1>1, <2>1 DEF PortsInv, ToldInv
<1>. QED
  BY <1>4, <1>5, <1>6, <1>7, <1>8 DEF PortsInv

-----------------------------------------------------------------------------
(* The theorems.                                                           *)

LEMMA PortsInit == Init => PortsInv
<1>. SUFFICES ASSUME Init PROVE PortsInv
  OBVIOUS
<1>1. TypeOK
  <2>1. /\ name \in Namings /\ present \in Casts
        /\ at \in [Servers -> {"unloaded", "registering", "accepting", "closing",
                              "inSession", "unloading"}]
        /\ listener \in [Servers -> Ports \cup {0}]
        /\ host \in Servers \cup {NoServer}
        /\ thread \in {"none", "polling", "reading", "ended"}
    BY DEF Init
  <2>2. call \in [Callers -> {"none", "waiting", "answered", "failed"}]
    BY DEF Init
  <2>3. /\ told \in [Clients -> Ports \cup {0}]
        /\ contact \in [Clients -> Servers \cup {NoServer}]
        /\ acknowledged \subseteq Servers /\ orphaned \subseteq Names
        /\ moved \subseteq Clients /\ erred \in BOOLEAN
    BY DEF Init
  <2>4. DOMAIN entries = {}
    BY DEF Init, NoEntries
  <2>5. backlog = <<>> /\ DOMAIN backlog = {}
    BY EmptySeq DEF Init
  <2>. QED
    BY <2>1, <2>2, <2>3, <2>4, <2>5 DEF TypeOK
<1>2. BacklogInv
  <2>1. backlog = <<>> /\ backlog \in Seq(MapperConnections) /\ DOMAIN backlog = {}
    BY EmptySeq DEF Init
  <2>. QED
    BY <2>1 DEF BacklogInv
<1>3. /\ PortsDiffer /\ MapperInv /\ IdleInv /\ EnteredInv /\ AcknowledgedInv
      /\ TakenBackInv /\ ToldInv
  BY CallersDiffer DEF Init, NoEntries, PortsDiffer, MapperInv, IdleInv, EnteredInv,
                       AcknowledgedInv, TakenBackInv, ToldInv
<1>. QED
  BY <1>1, <1>2, <1>3 DEF PortsInv

LEMMA AcceptKeeps ==
    ASSUME PortsInv, NEW s \in Servers, AcceptChannel(s) \/ Unload(s)
    PROVE  PortsInv'
<1>1. CASE AcceptChannel(s)
  BY <1>1, StopKeeps DEF AcceptChannel
<1>2. CASE Unload(s)
  BY <1>2, StopKeeps DEF Unload
<1>. QED
  BY <1>1, <1>2

LEMMA PortsNext == PortsInv /\ [Next]_vars => PortsInv'
<1>. SUFFICES ASSUME PortsInv, [Next]_vars
              PROVE  PortsInv'
  OBVIOUS
<1>1. CASE MapperThread
  BY <1>1, TryAcceptKeeps, AcceptFailsKeeps, HandleClientKeeps, CallerHasLeftKeeps,
     UnexpectedFrameKeeps
     DEF MapperThread
<1>2. ASSUME NEW s \in Servers, Load(s) \/ Registered(s)
      PROVE  PortsInv'
  BY <1>2, LoadKeeps, RegisteredKeeps
<1>3. ASSUME NEW s \in Servers, AcceptChannel(s) \/ Unload(s)
      PROVE  PortsInv'
  BY <1>3, AcceptKeeps
<1>4. ASSUME NEW s \in Servers, CloseConnection(s)
      PROVE  PortsInv'
  BY <1>4, StartKeeps DEF CloseConnection
<1>5. ASSUME NEW s \in Servers, Stopped(s) \/ Crash(s)
      PROVE  PortsInv'
  BY <1>5, StoppedKeeps, CrashKeeps
<1>6. ASSUME NEW c \in Clients, Ask(c) \/ RemoteConnect(c)
      PROVE  PortsInv'
  BY <1>6, ClientAsks, ConnectKeeps
<1>7. ASSUME NEW k \in Strangers, StrangerConnects(k)
      PROVE  PortsInv'
  BY <1>7, StrangerAsks
<1>8. ASSUME NEW k \in Clients \cup Strangers, Leave(k)
      PROVE  PortsInv'
  BY <1>8, LeaveKeeps
<1>9. CASE UNCHANGED vars
  <2>1. /\ UNCHANGED <<name, present, at, listener, host, thread, entries, backlog, call, told>>
        /\ UNCHANGED <<contact, acknowledged, orphaned, moved, erred>>
    BY <1>9 DEF vars, server, mapper, client, past
  <2>2. BacklogInv'
    <3>1. \A k \in Callers : call[k] = "waiting" => Same(k)
      BY <2>1 DEF Same
    <3>. QED
      BY <2>1, <3>1, BacklogStays DEF PortsInv
  <2>3. TypeOK' /\ MapperInv'
    BY <2>1 DEF PortsInv, TypeOK, MapperInv
  <2>4. PortsDiffer' /\ IdleInv' /\ EnteredInv' /\ AcknowledgedInv' /\ TakenBackInv' /\ ToldInv'
    BY <2>1 DEF PortsInv, PortsDiffer, IdleInv, EnteredInv, AcknowledgedInv, TakenBackInv, ToldInv
  <2>. QED
    BY <2>2, <2>3, <2>4 DEF PortsInv
<1>. QED
  BY <1>1, <1>2, <1>3, <1>4, <1>5, <1>6, <1>7, <1>8, <1>9 DEF Next

LEMMA PortsHold == Spec => []PortsInv
<1>. QED
  BY PortsInit, PortsNext, PTL DEF Spec

\* What servers, callers and the mapper keep stays of its type.
THEOREM PortMapperTypes == Spec => []TypeOK
<1>1. PortsInv => TypeOK
  BY DEF PortsInv
<1>. QED
  BY <1>1, PortsHold, PTL

\* What the mapper has entered is the port of a server of that name that
\* listens, unless a process ended without taking it back, and a server that
\* registered is found as long as no other one has its name.
THEOREM EntriesAreListeners == Spec => []EntriesMatchListeners
<1>1. PortsInv => EntriesMatchListeners
  BY DEF PortsInv, EntriesMatchListeners, EnteredInv, AcknowledgedInv
<1>. QED
  BY <1>1, PortsHold, PTL

\* A client that was told a port and connects reaches a server of the name it
\* asked for, unless that one stopped to listen in between or ended.
THEOREM NamedServerReached == Spec => ReachesNamedServer
<1>1. ASSUME PortsInv, [Next]_vars, NEW c \in Clients,
             contact'[c] # contact[c], contact'[c] # NoServer
      PROVE  name[contact'[c]] = Wanted[c] \/ c \in moved
  <2>1. ASSUME NEW d \in Clients, RemoteConnect(d)
        PROVE  name[contact'[c]] = Wanted[c] \/ c \in moved
    BY <1>1, <2>1, ConnectKeeps
  <2>2. ASSUME NEW s \in Servers, Closed(s)
        PROVE  FALSE
    BY <1>1, <2>2 DEF Closed
  <2>3. contact' # contact
    BY <1>1
  <2>4. CASE MapperThread
    BY <2>3, <2>4
    DEF MapperThread, TryAccept, AcceptFails, HandleClient, CallerHasLeft, UnexpectedFrame, client
  <2>5. ASSUME NEW s \in Servers,
               Load(s) \/ Registered(s) \/ AcceptChannel(s) \/ CloseConnection(s) \/ Unload(s)
        PROVE  FALSE
    BY <2>3, <2>5 DEF Load, Registered, AcceptChannel, CloseConnection, Unload, client
  <2>6. ASSUME NEW s \in Servers, Stopped(s) \/ Crash(s)
        PROVE  FALSE
    BY <2>2, <2>6 DEF Stopped, Crash
  <2>7. ASSUME NEW d \in Clients, Ask(d)
        PROVE  FALSE
    BY <2>3, <2>7 DEF Ask, client
  <2>8. ASSUME NEW k \in Strangers, StrangerConnects(k)
        PROVE  FALSE
    BY <2>3, <2>8 DEF StrangerConnects, client
  <2>9. ASSUME NEW k \in Clients \cup Strangers, Leave(k)
        PROVE  FALSE
    BY <2>3, <2>9 DEF Leave
  <2>10. CASE UNCHANGED vars
    BY <2>3, <2>10 DEF vars, client
  <2>. QED
    BY <1>1, <2>1, <2>4, <2>5, <2>6, <2>7, <2>8, <2>9, <2>10 DEF Next
<1>2. PortsInv /\ [Next]_vars =>
         [\A c \in Clients :
             contact'[c] # contact[c] /\ contact'[c] # NoServer =>
                name[contact'[c]] = Wanted[c] \/ c \in moved]_vars
  BY <1>1
<1>. QED
  BY <1>2, PortsHold, PTL DEF Spec, ReachesNamedServer

-----------------------------------------------------------------------------
(* On one Windows machine: a pipe belongs to one connection, proved for    *)
(* any number of clients and of connections, if no client still has its    *)
(* channel when the server listens again.                                  *)

\* What the theorem is about: constants as PipeNames takes them, and clients
\* that are destroyed before the server listens again.
PipesAssumed == Pipes!PipeNamesAssumption /\ ~Lingering

\* A client that has a channel is not apart, and one that is connected has one.
HasChannel ==
    \A c \in PipeClients : /\ pipe[c] # NoPipe => endAt[c] # "apart"
                           /\ endAt[c] = "connected" => pipe[c] # NoPipe

\* Every pipe has a number that was taken, or accepted.
NumbersTaken ==
    /\ \A c \in PipeClients : pipe[c] # NoPipe => pipe[c] < counter
    /\ serverPipe # NoPipe => serverPipe < lastCounter

\* The number that is being connected is nobody's yet, and if the server has
\* accepted it, nobody has been there.
NumberIsNew ==
    locked # NoClient =>
        /\ number < counter
        /\ \A c \in PipeClients : pipe[c] # number
        /\ serverPipe = number => visits[number] = 0

\* No two clients have the same pipe.
PipesDiffer ==
    \A c, d \in PipeClients : c # d /\ pipe[c] # NoPipe => pipe[c] # pipe[d]

\* The pipe of a client has seen that client only.
VisitedOnce == \A c \in PipeClients : pipe[c] # NoPipe => visits[pipe[c]] = 1

NamesInv ==
    /\ Pipes!TypeOK /\ HasChannel /\ NumbersTaken /\ NumberIsNew
    /\ PipesDiffer /\ VisitedOnce /\ Pipes!PipeIsItsOwn

USE DEF Pipes!Pipes

-----------------------------------------------------------------------------
\* Before anything listens, nobody has a pipe.
LEMMA NamesInit == ASSUME PipesAssumed PROVE Pipes!Init => NamesInv
<1>1. Pipes!Init => Pipes!TypeOK
  <2>1. 0 \in 0 .. MaxNumber /\ 0 \in 0 .. 0 /\ 0 \in 0 .. 2
    BY DEF PipesAssumed, Pipes!PipeNamesAssumption
  <2>. QED
    BY <2>1 DEF Pipes!Init, Pipes!TypeOK
<1>2. Pipes!Init => HasChannel /\ NumbersTaken /\ NumberIsNew
  BY DEF Pipes!Init, HasChannel, NumbersTaken, NumberIsNew
<1>3. Pipes!Init => PipesDiffer /\ VisitedOnce /\ Pipes!PipeIsItsOwn
  BY DEF Pipes!Init, PipesDiffer, VisitedOnce, Pipes!PipeIsItsOwn
<1>. QED
  BY <1>1, <1>2, <1>3 DEF NamesInv

-----------------------------------------------------------------------------
(* The steps of the server.                                                *)

\* Listen finds no pipe in use.
LEMMA ListenKeeps == ASSUME PipesAssumed, NamesInv, Pipes!Listen PROVE NamesInv'
<1>1. \A c \in PipeClients : pipe[c] = NoPipe /\ endAt[c] = "apart"
  BY DEF PipesAssumed, Pipes!Listen, NamesInv, HasChannel
<1>2. Pipes!TypeOK'
  <2>1. /\ listening' = TRUE /\ counter' = 0 /\ lastCounter' = 0
        /\ UNCHANGED <<locked, number, endAt, pipe, serverPipe, serverPid, clientPid, visits>>
    BY DEF Pipes!Listen, Pipes!ends, Pipes!header
  <2>2. 0 \in 0 .. MaxNumber /\ 0 \in 0 .. 0
    BY DEF PipesAssumed, Pipes!PipeNamesAssumption
  <2>. QED
    BY <2>1, <2>2 DEF NamesInv, Pipes!TypeOK
<1>3. (HasChannel /\ NumbersTaken /\ NumberIsNew /\ PipesDiffer)'
  BY <1>1 DEF Pipes!Listen, Pipes!ends, Pipes!header, HasChannel, NumbersTaken,
              NumberIsNew, PipesDiffer
<1>4. (VisitedOnce /\ Pipes!PipeIsItsOwn)'
  BY <1>1 DEF Pipes!Listen, Pipes!ends, Pipes!header, VisitedOnce, Pipes!PipeIsItsOwn
<1>. QED
  BY <1>2, <1>3, <1>4 DEF NamesInv

\* TryAccept takes the next number: the pipe of one client, of the client that
\* is connecting, or of none.
LEMMA AcceptPipeKeeps == ASSUME PipesAssumed, NamesInv, Pipes!TryAccept PROVE NamesInv'
<1>. DEFINE n == lastCounter
<1>1. n \in Pipes!Pipes /\ lastCounter' = n + 1 /\ serverPipe' = n
  BY DEF PipesAssumed, Pipes!PipeNamesAssumption, Pipes!TryAccept, NamesInv, Pipes!TypeOK
<1>2. Pipes!TypeOK'
  <2>1. n + 1 \in 0 .. counter
    BY DEF PipesAssumed, Pipes!PipeNamesAssumption, Pipes!TryAccept, NamesInv, Pipes!TypeOK
  <2>2. clientPid' \in [Pipes!Pipes -> BOOLEAN] /\ visits' \in [Pipes!Pipes -> 0 .. 2]
    <3>1. CASE Pipes!Initializes(n)
      <4>1. /\ clientPid' = [clientPid EXCEPT ![n] = FALSE]
            /\ visits' = [visits EXCEPT ![n] = 0]
        BY <3>1 DEF Pipes!TryAccept
      <4>2. clientPid' \in [Pipes!Pipes -> BOOLEAN]
        BY <4>1 DEF NamesInv, Pipes!TypeOK
      <4>3. visits \in [Pipes!Pipes -> 0 .. 2] /\ 0 \in 0 .. 2
        BY DEF NamesInv, Pipes!TypeOK
      <4>4. visits' \in [Pipes!Pipes -> 0 .. 2]
        BY <4>1, <4>3
      <4>. QED
        BY <4>2, <4>4
    <3>2. CASE ~Pipes!Initializes(n)
      BY <3>2 DEF Pipes!TryAccept, NamesInv, Pipes!TypeOK
    <3>. QED
      BY <3>1, <3>2
  <2>3. serverPid' = [serverPid EXCEPT ![n] = TRUE]
    BY DEF Pipes!TryAccept
  <2>. QED
    BY <1>1, <2>1, <2>2, <2>3 DEF Pipes!TryAccept, NamesInv, Pipes!TypeOK
<1>3. (HasChannel /\ PipesDiffer)'
  BY DEF Pipes!TryAccept, NamesInv, HasChannel, PipesDiffer
<1>4. NumbersTaken'
  BY <1>1 DEF PipesAssumed, Pipes!PipeNamesAssumption, Pipes!TryAccept, NamesInv,
              Pipes!TypeOK, NumbersTaken
<1>5. NumberIsNew'
  <2>. SUFFICES ASSUME locked # NoClient
                PROVE  /\ number < counter
                       /\ \A c \in PipeClients : pipe[c] # number
                       /\ n = number => visits'[number] = 0
    BY <1>1 DEF Pipes!TryAccept, NumberIsNew
  <2>1. number < counter /\ \A c \in PipeClients : pipe[c] # number
    BY DEF NamesInv, NumberIsNew
  <2>2. CASE n = number
    <3>1. Pipes!Initializes(n)
      BY <1>1, <2>1, <2>2 DEF PipesAssumed, Pipes!PipeNamesAssumption, Pipes!TryAccept,
                              Pipes!Initializes, Pipes!Held
    <3>. QED
      BY <1>1, <2>1, <2>2, <3>1 DEF Pipes!TryAccept, NamesInv, Pipes!TypeOK
  <2>. QED
    BY <2>1, <2>2
<1>6. \A c \in PipeClients : pipe[c] # NoPipe => visits'[pipe[c]] = visits[pipe[c]]
                                             /\ clientPid'[pipe[c]] = clientPid[pipe[c]]
  BY <1>1 DEF Pipes!TryAccept, Pipes!Initializes, Pipes!Held, NamesInv, Pipes!TypeOK
<1>7. VisitedOnce'
  BY <1>6 DEF Pipes!TryAccept, NamesInv, VisitedOnce
<1>8. Pipes!PipeIsItsOwn'
  <2>1. \A c \in PipeClients : endAt[c] = "connected" => clientPid'[pipe[c]] /\ visits'[pipe[c]] = 1
    BY <1>6 DEF NamesInv, HasChannel, Pipes!PipeIsItsOwn
  <2>2. serverPid'[n]
    BY <1>1 DEF Pipes!TryAccept, NamesInv, Pipes!TypeOK
  <2>3. visits'[n] <= 1
    <3>1. CASE Pipes!Initializes(n)
      <4>1. visits' = [visits EXCEPT ![n] = 0]
        BY <3>1 DEF Pipes!TryAccept
      <4>. QED
        BY <1>1, <4>1 DEF NamesInv, Pipes!TypeOK
    <3>2. CASE ~Pipes!Initializes(n)
      <4>1. PICK c \in PipeClients : pipe[c] = n
        BY <1>1, <3>2 DEF PipesAssumed, Pipes!PipeNamesAssumption, Pipes!TryAccept,
                          Pipes!Initializes, Pipes!Held
      <4>. QED
        BY <1>1, <1>6, <4>1 DEF PipesAssumed, Pipes!PipeNamesAssumption, NamesInv, VisitedOnce
    <3>. QED
      BY <3>1, <3>2
  <2>. QED
    BY <1>1, <2>1, <2>2, <2>3 DEF Pipes!TryAccept, Pipes!PipeIsItsOwn
<1>. QED
  BY <1>2, <1>3, <1>4, <1>5, <1>7, <1>8 DEF NamesInv

\* StopAccepting moves nothing but the listener.
LEMMA StopAcceptingKeeps == ASSUME NamesInv, Pipes!StopAccepting PROVE NamesInv'
  BY DEF Pipes!StopAccepting, Pipes!ends, Pipes!header, NamesInv, Pipes!TypeOK, HasChannel,
         NumbersTaken, NumberIsNew,
         PipesDiffer, VisitedOnce, Pipes!PipeIsItsOwn

\* The server lets go of its pipe, and clears its pid or does not.
LEMMA LetGoKeeps ==
    ASSUME PipesAssumed, NamesInv,
           serverPipe' = NoPipe, listening' \in BOOLEAN,
           serverPid' \in [Pipes!Pipes -> BOOLEAN],
           UNCHANGED <<counter, lastCounter, locked, number, endAt, pipe, clientPid, visits>>
    PROVE  NamesInv'
<1>1. Pipes!TypeOK'
  BY DEF PipesAssumed, Pipes!PipeNamesAssumption, NamesInv, Pipes!TypeOK
<1>2. (HasChannel /\ PipesDiffer /\ VisitedOnce)'
  BY DEF NamesInv, HasChannel, PipesDiffer, VisitedOnce
<1>3. NumbersTaken'
  BY DEF NamesInv, NumbersTaken
<1>4. NumberIsNew'
  BY DEF PipesAssumed, Pipes!PipeNamesAssumption, NamesInv, Pipes!TypeOK, NumberIsNew
<1>5. Pipes!PipeIsItsOwn'
  BY DEF NamesInv, Pipes!PipeIsItsOwn
<1>. QED
  BY <1>1, <1>2, <1>3, <1>4, <1>5 DEF NamesInv

-----------------------------------------------------------------------------
(* The steps of a client.                                                  *)

\* TakeNumber takes a number above those of all pipes.
LEMMA TakeNumberKeeps ==
    ASSUME PipesAssumed, NamesInv, NEW c \in PipeClients, Pipes!TakeNumber(c)
    PROVE  NamesInv'
<1>1. /\ clientPid' \in [Pipes!Pipes -> BOOLEAN]
      /\ \A m \in Pipes!Pipes : m # pipe[c] => clientPid'[m] = clientPid[m]
  BY DEF Pipes!TakeNumber, Pipes!Cleared, NamesInv, Pipes!TypeOK
<1>2. Pipes!TypeOK'
  BY <1>1 DEF PipesAssumed, Pipes!PipeNamesAssumption, Pipes!TakeNumber, NamesInv, Pipes!TypeOK
<1>3. HasChannel'
  BY DEF Pipes!TakeNumber, NamesInv, Pipes!TypeOK, HasChannel
<1>4. NumbersTaken'
  BY DEF PipesAssumed, Pipes!PipeNamesAssumption, Pipes!TakeNumber, NamesInv, Pipes!TypeOK,
         NumbersTaken
<1>5. NumberIsNew'
  <2>1. number' = counter /\ counter' = counter + 1 /\ counter \in Pipes!Pipes
    BY DEF PipesAssumed, Pipes!PipeNamesAssumption, Pipes!TakeNumber, NamesInv, Pipes!TypeOK
  <2>2. \A d \in PipeClients : pipe[d] # counter
    BY <2>1 DEF PipesAssumed, Pipes!PipeNamesAssumption, NamesInv, Pipes!TypeOK, NumbersTaken
  <2>3. serverPipe # counter
    BY <2>1 DEF PipesAssumed, Pipes!PipeNamesAssumption, NamesInv, Pipes!TypeOK, NumbersTaken
  <2>. QED
    BY <2>1, <2>2, <2>3 DEF Pipes!TakeNumber, NumberIsNew
<1>6. (PipesDiffer /\ VisitedOnce)'
  BY DEF Pipes!TakeNumber, NamesInv, PipesDiffer, VisitedOnce
<1>7. Pipes!PipeIsItsOwn'
  <2>1. ASSUME NEW d \in PipeClients, endAt'[d] = "connected"
        PROVE  clientPid'[pipe[d]] /\ visits[pipe[d]] = 1
    <3>1. d # c /\ endAt[d] = "connected"
      BY <2>1 DEF Pipes!TakeNumber, NamesInv, Pipes!TypeOK
    <3>2. pipe[d] \in Pipes!Pipes /\ pipe[d] # pipe[c]
      BY <3>1 DEF NamesInv, Pipes!TypeOK, HasChannel, PipesDiffer
    <3>. QED
      BY <1>1, <3>1, <3>2 DEF NamesInv, Pipes!PipeIsItsOwn
  <2>. QED
    BY <2>1 DEF Pipes!TakeNumber, NamesInv, Pipes!PipeIsItsOwn
<1>. QED
  BY <1>2, <1>3, <1>4, <1>5, <1>6, <1>7 DEF NamesInv

\* CreateEnd attaches the client, alone, to the pipe of its number.
LEMMA CreateEndKeeps ==
    ASSUME PipesAssumed, NamesInv, NEW c \in PipeClients, Pipes!CreateEnd(c)
    PROVE  NamesInv'
<1>1. /\ locked # NoClient /\ number \in Pipes!Pipes /\ number < counter
      /\ \A d \in PipeClients : pipe[d] # number
      /\ serverPipe = number => visits[number] = 0
  BY DEF PipesAssumed, Pipes!PipeNamesAssumption, Pipes!CreateEnd, NamesInv, Pipes!TypeOK,
         NumberIsNew
<1>2. /\ pipe' = [pipe EXCEPT ![c] = number] /\ endAt' = [endAt EXCEPT ![c] = "connected"]
      /\ locked' = NoClient /\ number' = 0
      /\ UNCHANGED <<listening, counter, lastCounter, serverPipe>>
  BY DEF Pipes!CreateEnd
<1>3. /\ clientPid' \in [Pipes!Pipes -> BOOLEAN]
      /\ clientPid'[number]
      /\ \A m \in Pipes!Pipes : m # pipe[c] /\ m # number => clientPid'[m] = clientPid[m]
  <2>. DEFINE pids == [clientPid EXCEPT ![number] = TRUE]
  <2>1. pids \in [Pipes!Pipes -> BOOLEAN] /\ pids[number]
        /\ \A m \in Pipes!Pipes : m # number => pids[m] = clientPid[m]
    BY <1>1 DEF NamesInv, Pipes!TypeOK
  <2>2. clientPid' = Pipes!Cleared(pids, pipe[c])
    BY DEF Pipes!CreateEnd
  <2>. HIDE DEF pids
  <2>. QED
    BY <1>1, <2>1, <2>2 DEF Pipes!Cleared
<1>4. /\ visits' \in [Pipes!Pipes -> 0 .. 2]
      /\ visits'[number] = 1
      /\ \A m \in Pipes!Pipes : m # number => visits'[m] = visits[m]
  <2>1. CASE Pipes!Initializes(number)
    <3>1. visits' = [visits EXCEPT ![number] = 1]
      BY <2>1 DEF Pipes!CreateEnd
    <3>. QED
      BY <1>1, <3>1 DEF NamesInv, Pipes!TypeOK
  <2>2. CASE ~Pipes!Initializes(number)
    <3>1. visits[number] = 0
      BY <1>1, <2>2 DEF Pipes!Initializes, Pipes!Held
    <3>2. visits' = [visits EXCEPT ![number] = IF @ = 0 THEN 1 ELSE 2]
      BY <2>2 DEF Pipes!CreateEnd
    <3>. QED
      BY <1>1, <3>1, <3>2 DEF NamesInv, Pipes!TypeOK
  <2>. QED
    BY <2>1, <2>2
<1>5. /\ serverPid' \in [Pipes!Pipes -> BOOLEAN]
      /\ serverPipe # NoPipe => serverPid'[serverPipe] = serverPid[serverPipe]
  BY <1>1 DEF Pipes!CreateEnd, Pipes!Initializes, Pipes!Held, NamesInv, Pipes!TypeOK
<1>6. Pipes!TypeOK'
  BY <1>1, <1>2, <1>3, <1>4, <1>5 DEF PipesAssumed, Pipes!PipeNamesAssumption, NamesInv,
                                      Pipes!TypeOK
<1>7. HasChannel'
  BY <1>1, <1>2 DEF PipesAssumed, Pipes!PipeNamesAssumption, NamesInv, Pipes!TypeOK, HasChannel
<1>8. (NumbersTaken /\ NumberIsNew)'
  BY <1>1, <1>2 DEF NamesInv, Pipes!TypeOK, NumbersTaken, NumberIsNew
<1>9. PipesDiffer'
  BY <1>1, <1>2 DEF NamesInv, Pipes!TypeOK, PipesDiffer
<1>10. VisitedOnce'
  BY <1>1, <1>2, <1>4 DEF NamesInv, Pipes!TypeOK, VisitedOnce
<1>11. Pipes!PipeIsItsOwn'
  <2>1. ASSUME NEW d \in PipeClients, endAt'[d] = "connected"
        PROVE  clientPid'[pipe'[d]] /\ visits'[pipe'[d]] = 1
    <3>1. CASE d = c
      BY <1>2, <1>3, <1>4, <3>1 DEF NamesInv, Pipes!TypeOK
    <3>2. CASE d # c
      <4>1. endAt[d] = "connected" /\ pipe'[d] = pipe[d]
        BY <1>2, <2>1, <3>2 DEF NamesInv, Pipes!TypeOK
      <4>2. pipe[d] \in Pipes!Pipes /\ pipe[d] # pipe[c] /\ pipe[d] # number
        BY <1>1, <3>2, <4>1 DEF NamesInv, Pipes!TypeOK, HasChannel, PipesDiffer
      <4>. QED
        BY <1>3, <1>4, <4>1, <4>2 DEF NamesInv, Pipes!PipeIsItsOwn
    <3>. QED
      BY <3>1, <3>2
  <2>2. serverPipe # NoPipe => serverPid'[serverPipe] /\ visits'[serverPipe] <= 1
    BY <1>4, <1>5 DEF NamesInv, Pipes!TypeOK, Pipes!PipeIsItsOwn
  <2>. QED
    BY <1>2, <2>1, <2>2 DEF Pipes!PipeIsItsOwn
<1>. QED
  BY <1>6, <1>7, <1>8, <1>9, <1>10, <1>11 DEF NamesInv

\* A client that is no longer connected gives up its pipe or keeps it, and only
\* the pid in it may change.
LEMMA LeavePipeKeeps ==
    ASSUME PipesAssumed, NamesInv, NEW c \in PipeClients, NEW stage \in {"apart", "disconnected"},
           endAt' = [endAt EXCEPT ![c] = stage],
           \/ stage = "disconnected" /\ pipe' = pipe
           \/ pipe' = [pipe EXCEPT ![c] = NoPipe],
           clientPid' \in [Pipes!Pipes -> BOOLEAN],
           \A m \in Pipes!Pipes : m # pipe[c] => clientPid'[m] = clientPid[m],
           UNCHANGED <<listening, counter, lastCounter, locked, number, serverPipe, serverPid, visits>>
    PROVE  NamesInv'
<1>1. Pipes!TypeOK'
  BY DEF PipesAssumed, Pipes!PipeNamesAssumption, NamesInv, Pipes!TypeOK
<1>2. \A d \in PipeClients : pipe'[d] = pipe[d] \/ (d = c /\ pipe'[d] = NoPipe)
  <2>1. pipe \in [PipeClients -> Pipes!Pipes \cup {NoPipe}]
    BY DEF NamesInv, Pipes!TypeOK
  <2>2. CASE pipe' = pipe
    BY <2>2
  <2>3. CASE pipe' = [pipe EXCEPT ![c] = NoPipe]
    BY <2>1, <2>3
  <2>. QED
    BY <2>2, <2>3
<1>3. HasChannel'
  BY DEF NamesInv, Pipes!TypeOK, HasChannel
<1>4. NumbersTaken'
  BY <1>2 DEF NamesInv, NumbersTaken
<1>5. NumberIsNew'
  BY <1>2 DEF PipesAssumed, Pipes!PipeNamesAssumption, NamesInv, Pipes!TypeOK, NumberIsNew
<1>6. (PipesDiffer /\ VisitedOnce)'
  BY <1>2 DEF NamesInv, PipesDiffer, VisitedOnce
<1>7. Pipes!PipeIsItsOwn'
  <2>1. ASSUME NEW d \in PipeClients, endAt'[d] = "connected"
        PROVE  clientPid'[pipe'[d]] /\ visits[pipe'[d]] = 1
    <3>1. d # c /\ endAt[d] = "connected" /\ pipe'[d] = pipe[d]
      BY <2>1, <1>2 DEF NamesInv, Pipes!TypeOK
    <3>2. pipe[d] \in Pipes!Pipes /\ pipe[d] # pipe[c]
      BY <3>1 DEF NamesInv, Pipes!TypeOK, HasChannel, PipesDiffer
    <3>. QED
      BY <3>1, <3>2 DEF NamesInv, Pipes!PipeIsItsOwn
  <2>. QED
    BY <2>1 DEF NamesInv, Pipes!PipeIsItsOwn
<1>. QED
  BY <1>1, <1>3, <1>4, <1>5, <1>6, <1>7 DEF NamesInv

-----------------------------------------------------------------------------
LEMMA NamesStep == ASSUME PipesAssumed PROVE NamesInv /\ [Pipes!Next]_(Pipes!vars) => NamesInv'
<1>. SUFFICES ASSUME NamesInv, [Pipes!Next]_(Pipes!vars) PROVE NamesInv'
  OBVIOUS
<1>1. CASE Pipes!Listen
  BY <1>1, ListenKeeps
<1>2. CASE Pipes!TryAccept
  BY <1>2, AcceptPipeKeeps
<1>3. CASE Pipes!StopAccepting
  BY <1>3, StopAcceptingKeeps
<1>4. CASE Pipes!CloseConnection
  <2>1. serverPid' \in [Pipes!Pipes -> BOOLEAN] /\ listening' \in BOOLEAN
    BY <1>4 DEF Pipes!CloseConnection, Pipes!Cleared, NamesInv, Pipes!TypeOK
  <2>. QED
    BY <1>4, <2>1, LetGoKeeps DEF Pipes!CloseConnection
<1>5. CASE Pipes!Unload
  <2>1. serverPid' \in [Pipes!Pipes -> BOOLEAN]
    BY <1>5 DEF Pipes!Unload, Pipes!Cleared, NamesInv, Pipes!TypeOK
  <2>. QED
    BY <1>5, <2>1, LetGoKeeps DEF Pipes!Unload
<1>6. CASE Pipes!ServerDies
  <2>1. serverPid' \in [Pipes!Pipes -> BOOLEAN]
    BY <1>6 DEF Pipes!ServerDies, Pipes!header, NamesInv, Pipes!TypeOK
  <2>. QED
    BY <1>6, <2>1, LetGoKeeps DEF Pipes!ServerDies, Pipes!header
<1>7. ASSUME NEW c \in PipeClients, Pipes!TakeNumber(c) PROVE NamesInv'
  BY <1>7, TakeNumberKeeps
<1>8. ASSUME NEW c \in PipeClients, Pipes!CreateEnd(c) PROVE NamesInv'
  BY <1>8, CreateEndKeeps
<1>9. ASSUME NEW c \in PipeClients, Pipes!Disconnect(c) PROVE NamesInv'
  <2>1. /\ clientPid' \in [Pipes!Pipes -> BOOLEAN]
        /\ \A m \in Pipes!Pipes : m # pipe[c] => clientPid'[m] = clientPid[m]
    BY <1>9 DEF Pipes!Disconnect, Pipes!Cleared, NamesInv, Pipes!TypeOK
  <2>. QED
    BY <1>9, <2>1, LeavePipeKeeps DEF Pipes!Disconnect
<1>10. ASSUME NEW c \in PipeClients, Pipes!Destroy(c) PROVE NamesInv'
  <2>1. /\ clientPid' \in [Pipes!Pipes -> BOOLEAN]
        /\ \A m \in Pipes!Pipes : m # pipe[c] => clientPid'[m] = clientPid[m]
    BY <1>10 DEF Pipes!Destroy, Pipes!Cleared, NamesInv, Pipes!TypeOK
  <2>. QED
    BY <1>10, <2>1, LeavePipeKeeps DEF Pipes!Destroy
<1>11. ASSUME NEW c \in PipeClients, Pipes!ClientDies(c) PROVE NamesInv'
  <2>1. clientPid' \in [Pipes!Pipes -> BOOLEAN]
    BY <1>11 DEF Pipes!ClientDies, Pipes!header, NamesInv, Pipes!TypeOK
  <2>. QED
    BY <1>11, <2>1, LeavePipeKeeps DEF Pipes!ClientDies, Pipes!header
<1>12. CASE UNCHANGED Pipes!vars
  BY <1>12 DEF Pipes!vars, Pipes!ends, Pipes!header, NamesInv, Pipes!TypeOK, HasChannel,
               NumbersTaken, NumberIsNew, PipesDiffer, VisitedOnce, Pipes!PipeIsItsOwn
<1>. QED
  BY <1>1, <1>2, <1>3, <1>4, <1>5, <1>6, <1>7, <1>8, <1>9, <1>10, <1>11, <1>12 DEF Pipes!Next

\* A pipe belongs to one connection, whichever end comes first, whoever leaves
\* or dies and however many clients race for the listener, as long as no client
\* keeps its channel until the server listens again.
THEOREM OwnPipe == ASSUME PipesAssumed PROVE Pipes!Spec => []PipeIsItsOwn
<1>1. Pipes!Init => NamesInv
  BY NamesInit
<1>2. NamesInv /\ [Pipes!Next]_(Pipes!vars) => NamesInv'
  BY NamesStep
<1>3. NamesInv => PipeIsItsOwn
  BY DEF NamesInv, PipeIsItsOwn
<1>. QED
  BY <1>1, <1>2, <1>3, PTL DEF Pipes!Spec

-----------------------------------------------------------------------------
(* Frames: what is read is what was written, for every size of the buffers *)
(* and the header and however much a receive returns, if the calls of both *)
(* ends agree.  First a stream that is a chain of frames.                  *)

\* What is sent: bytes of fields and of headers.
Cells == [field : STRING \cup {"header"}, number : Nat]

\* What a connection carries, in calls of the writing end that are cut at cuts.
LayoutOf(c) == [calls  |-> Frames!AllCalls(c.frames),
                cuts   |-> Frames!WriteBounds(c),
                fields |-> Frames!FieldsOf(Frames!AllCalls(c.frames)),
                header |-> Frames!HeaderOf(c)]

\* Behind place the stream holds count fields, the first of them behind from.
Carries(L, stream, place, from, count) ==
    \A j \in 1 .. count : stream[place + j] = Frames!Byte(L.fields[from + j], from + j)

\* No frame is written to its end between from and to, and no block is open at to.
Unbroken(L, from, to) ==
    \A i \in DOMAIN L.calls :
       /\ L.calls[i].call = "end" => ~(from < L.cuts[i] /\ L.cuts[i] < to)
       /\ L.calls[i].call = "block" => ~(L.cuts[i - 1] < to /\ to < L.cuts[i])

\* The stream holds, from start to end, what was sent with the fields from from to to.
Piece(L, stream, start, from, end, to) ==
    /\ from < to
    /\ end = start + L.header + (to - from)
    /\ L.header + (to - from) <= BufferSize
    /\ \A j \in 1 .. L.header :
          stream[start + j] = Frames!Byte("header", L.header + (to - from))
    /\ Carries(L, stream, start + L.header, from, to - from)
    /\ Unbroken(L, from, to)

\* Behind start the stream is a chain of such pieces, with the fields from from to to.
Chain(L, stream, start, from, to) ==
    \E m \in Nat :
       \E place \in [0 .. m -> 0 .. Len(stream)], cut \in [0 .. m -> 0 .. to] :
          /\ place[0] = start /\ cut[0] = from
          /\ place[m] = Len(stream) /\ cut[m] = to
          /\ \A i, j \in 0 .. m : i <= j => place[i] <= place[j]
          /\ \A k \in 1 .. m : Piece(L, stream, place[k - 1], cut[k - 1], place[k], cut[k])

\* A chain of nothing.
LEMMA ChainNothing ==
    ASSUME NEW L, NEW stream \in Seq(Cells), NEW q \in Nat
    PROVE  Chain(L, stream, Len(stream), q, q)
<1>. DEFINE place == [k \in 0 .. 0 |-> Len(stream)]
            cut == [k \in 0 .. 0 |-> q]
<1>1. Len(stream) \in Nat
  OBVIOUS
<1>2. /\ place \in [0 .. 0 -> 0 .. Len(stream)] /\ cut \in [0 .. 0 -> 0 .. q]
      /\ place[0] = Len(stream) /\ cut[0] = q
      /\ \A i, j \in 0 .. 0 : i <= j => place[i] <= place[j]
  BY <1>1
<1>3. \A k \in 1 .. 0 : Piece(L, stream, place[k - 1], cut[k - 1], place[k], cut[k])
  OBVIOUS
<1>. HIDE DEF place, cut
<1>. QED
  BY <1>2, <1>3 DEF Chain

\* Where a chain begins it is not behind its end, nor are its fields.
LEMMA ChainBounds ==
    ASSUME NEW L, L.header \in Nat, NEW stream \in Seq(Cells), NEW start \in Nat,
           NEW from \in Nat, NEW to \in Nat, Chain(L, stream, start, from, to)
    PROVE  /\ start <= Len(stream) /\ from <= to
           /\ start = Len(stream) => from = to
<1>a. PICK m \in Nat : \E place \in [0 .. m -> 0 .. Len(stream)], cut \in [0 .. m -> 0 .. to] :
          /\ place[0] = start /\ cut[0] = from
          /\ place[m] = Len(stream) /\ cut[m] = to
          /\ \A i, j \in 0 .. m : i <= j => place[i] <= place[j]
          /\ \A k \in 1 .. m : Piece(L, stream, place[k - 1], cut[k - 1], place[k], cut[k])
  BY DEF Chain
<1>b. PICK place \in [0 .. m -> 0 .. Len(stream)], cut \in [0 .. m -> 0 .. to] :
          /\ place[0] = start /\ cut[0] = from
          /\ place[m] = Len(stream) /\ cut[m] = to
          /\ \A i, j \in 0 .. m : i <= j => place[i] <= place[j]
          /\ \A k \in 1 .. m : Piece(L, stream, place[k - 1], cut[k - 1], place[k], cut[k])
  BY <1>a
<1>1. 0 \in 0 .. m /\ Len(stream) \in Nat
  OBVIOUS
<1>2. start <= Len(stream) /\ from <= to
  BY <1>1, <1>b
<1>3. ASSUME start = Len(stream), m # 0
      PROVE  FALSE
  <2>1. 1 \in 1 .. m /\ 1 \in 0 .. m /\ 1 - 1 = 0
    BY <1>3
  <2>2. Piece(L, stream, place[0], cut[0], place[1], cut[1])
    BY <2>1, <1>b
  <2>3. place[1] \in 0 .. Len(stream) /\ cut[1] \in 0 .. to
    BY <2>1
  <2>4. place[1] = start + L.header + (cut[1] - from) /\ from < cut[1]
    BY <2>2, <1>b DEF Piece
  <2>. QED
    BY SMTT(30), <1>1, <1>3, <2>3, <2>4
<1>4. m = 0 => from = to
  BY <1>b
<1>. QED
  BY <1>2, <1>3, <1>4

\* The first piece of a chain, and the chain behind it.
LEMMA ChainFirst ==
    ASSUME NEW L, L.header \in Nat, NEW stream \in Seq(Cells), NEW start \in Nat,
           NEW from \in Nat, NEW to \in Nat, Chain(L, stream, start, from, to),
           start # Len(stream)
    PROVE  \E next \in Nat :
              LET end == start + L.header + (next - from) IN
              /\ from < next /\ next <= to /\ end <= Len(stream)
              /\ Piece(L, stream, start, from, end, next)
              /\ Chain(L, stream, end, next, to)
<1>a. PICK m \in Nat : \E place \in [0 .. m -> 0 .. Len(stream)], cut \in [0 .. m -> 0 .. to] :
          /\ place[0] = start /\ cut[0] = from
          /\ place[m] = Len(stream) /\ cut[m] = to
          /\ \A i, j \in 0 .. m : i <= j => place[i] <= place[j]
          /\ \A k \in 1 .. m : Piece(L, stream, place[k - 1], cut[k - 1], place[k], cut[k])
  BY DEF Chain
<1>b. PICK place \in [0 .. m -> 0 .. Len(stream)], cut \in [0 .. m -> 0 .. to] :
          /\ place[0] = start /\ cut[0] = from
          /\ place[m] = Len(stream) /\ cut[m] = to
          /\ \A i, j \in 0 .. m : i <= j => place[i] <= place[j]
          /\ \A k \in 1 .. m : Piece(L, stream, place[k - 1], cut[k - 1], place[k], cut[k])
  BY <1>a
<1>1. m # 0
  <2>1. place[0] # place[m]
    BY <1>b
  <2>. QED
    BY <2>1
<1>2. 1 \in 1 .. m /\ 1 \in 0 .. m /\ 1 - 1 = 0 /\ m - 1 \in Nat
  BY <1>1
<1>. DEFINE next == cut[1]
            end == place[1]
            place2 == [k \in 0 .. m - 1 |-> place[k + 1]]
            cut2 == [k \in 0 .. m - 1 |-> cut[k + 1]]
<1>3. /\ next \in Nat /\ next <= to /\ end \in Nat /\ end <= Len(stream)
      /\ Piece(L, stream, start, from, end, next)
  <2>1. cut[1] \in 0 .. to /\ place[1] \in 0 .. Len(stream)
    BY <1>2
  <2>2. Piece(L, stream, place[1 - 1], cut[1 - 1], place[1], cut[1])
    BY <1>2, <1>b
  <2>. QED
    BY <1>2, <1>b, <2>1, <2>2
<1>4. from < next /\ end = start + L.header + (next - from)
  BY <1>3 DEF Piece
<1>5. \A k \in 0 .. m - 1 : k + 1 \in 0 .. m
  BY <1>2
<1>6. /\ place2 \in [0 .. m - 1 -> 0 .. Len(stream)] /\ cut2 \in [0 .. m - 1 -> 0 .. to]
      /\ place2[0] = end /\ cut2[0] = next
      /\ place2[m - 1] = Len(stream) /\ cut2[m - 1] = to
  <2>1. \A k \in 0 .. m - 1 : place[k + 1] \in 0 .. Len(stream) /\ cut[k + 1] \in 0 .. to
    BY <1>5
  <2>2. 0 \in 0 .. m - 1 /\ m - 1 \in 0 .. m - 1 /\ 0 + 1 = 1 /\ (m - 1) + 1 = m
    BY <1>1, <1>2
  <2>3. place2[0] = end /\ cut2[0] = next /\ place2[m - 1] = place[m] /\ cut2[m - 1] = cut[m]
    BY <2>2
  <2>4. place2 \in [0 .. m - 1 -> 0 .. Len(stream)] /\ cut2 \in [0 .. m - 1 -> 0 .. to]
    BY <2>1
  <2>. HIDE DEF place2, cut2, end, next
  <2>. QED
    BY <1>b, <2>3, <2>4
<1>7. \A i, j \in 0 .. m - 1 : i <= j => place2[i] <= place2[j]
  BY <1>2, <1>5, <1>b
<1>8. ASSUME NEW k \in 1 .. m - 1
      PROVE  Piece(L, stream, place2[k - 1], cut2[k - 1], place2[k], cut2[k])
  <2>1. k + 1 \in 1 .. m /\ (k + 1) - 1 = k /\ k - 1 \in 0 .. m - 1 /\ k \in 0 .. m - 1
        /\ (k - 1) + 1 = k
    BY <1>2
  <2>2. /\ place2[k - 1] = place[k] /\ cut2[k - 1] = cut[k]
        /\ place2[k] = place[k + 1] /\ cut2[k] = cut[k + 1]
    BY <2>1
  <2>3. Piece(L, stream, place[k], cut[k], place[k + 1], cut[k + 1])
    BY <2>1, <1>b
  <2>. QED
    BY <2>2, <2>3
<1>. HIDE DEF place2, cut2
<1>9. Chain(L, stream, end, next, to)
  BY <1>2, <1>6, <1>7, <1>8 DEF Chain
<1>. QED
  BY <1>3, <1>4, <1>9

\* A piece stays where it is when the stream grows.
LEMMA PieceStays ==
    ASSUME NEW L, L.header \in Nat, NEW stream \in Seq(Cells), NEW more \in Seq(Cells),
           NEW start \in Nat, NEW from \in Nat, NEW to \in Nat,
           NEW end \in Nat, end <= Len(stream), Piece(L, stream, start, from, end, to)
    PROVE  Piece(L, stream \o more, start, from, end, to)
<1>1. \A i \in 1 .. Len(stream) : (stream \o more)[i] = stream[i]
  BY ConcatProperties
<1>2. from < to /\ end = start + L.header + (to - from)
  BY DEF Piece
<1>3. ASSUME NEW j \in 1 .. L.header
      PROVE  (stream \o more)[start + j] = Frames!Byte("header", L.header + (to - from))
  <2>1. start + j \in 1 .. Len(stream)
    BY <1>2
  <2>. QED
    BY <1>1, <2>1 DEF Piece
<1>4. ASSUME NEW j \in 1 .. to - from
      PROVE  (stream \o more)[(start + L.header) + j] = Frames!Byte(L.fields[from + j], from + j)
  <2>1. (start + L.header) + j \in 1 .. Len(stream)
    BY SMTT(30), <1>2
  <2>. QED
    BY <1>1, <2>1 DEF Piece, Carries
<1>. QED
  BY <1>2, <1>3, <1>4 DEF Piece, Carries

\* A chain grows by a piece.
LEMMA ChainAppend ==
    ASSUME NEW L, L.header \in Nat, NEW stream \in Seq(Cells), NEW more \in Seq(Cells),
           NEW start \in Nat, NEW from \in Nat, NEW to \in Nat, NEW last \in Nat,
           Chain(L, stream, start, from, to),
           Piece(L, stream \o more, Len(stream), to, Len(stream \o more), last)
    PROVE  Chain(L, stream \o more, start, from, last)
<1>a. PICK m \in Nat : \E place \in [0 .. m -> 0 .. Len(stream)], cut \in [0 .. m -> 0 .. to] :
          /\ place[0] = start /\ cut[0] = from
          /\ place[m] = Len(stream) /\ cut[m] = to
          /\ \A i, j \in 0 .. m : i <= j => place[i] <= place[j]
          /\ \A k \in 1 .. m : Piece(L, stream, place[k - 1], cut[k - 1], place[k], cut[k])
  BY DEF Chain
<1>b. PICK place \in [0 .. m -> 0 .. Len(stream)], cut \in [0 .. m -> 0 .. to] :
          /\ place[0] = start /\ cut[0] = from
          /\ place[m] = Len(stream) /\ cut[m] = to
          /\ \A i, j \in 0 .. m : i <= j => place[i] <= place[j]
          /\ \A k \in 1 .. m : Piece(L, stream, place[k - 1], cut[k - 1], place[k], cut[k])
  BY <1>a
<1>. DEFINE longer == stream \o more
            place2 == [k \in 0 .. m + 1 |-> IF k <= m THEN place[k] ELSE Len(longer)]
            cut2 == [k \in 0 .. m + 1 |-> IF k <= m THEN cut[k] ELSE last]
<1>1. longer \in Seq(Cells) /\ Len(longer) = Len(stream) + Len(more)
      /\ Len(stream) \in Nat /\ Len(more) \in Nat /\ Len(longer) \in Nat
  BY ConcatProperties
<1>2. to < last
  BY DEF Piece
<1>3. \A k \in 0 .. m : k \in 0 .. m + 1 /\ place[k] \in 0 .. Len(longer) /\ cut[k] \in 0 .. last
  <2>. TAKE k \in 0 .. m
  <2>1. place[k] \in 0 .. Len(stream) /\ cut[k] \in 0 .. to
    OBVIOUS
  <2>. QED
    BY SMTT(30), <1>1, <1>2, <2>1
<1>4. place2 \in [0 .. m + 1 -> 0 .. Len(longer)] /\ cut2 \in [0 .. m + 1 -> 0 .. last]
  <2>1. \A k \in 0 .. m + 1 : k <= m => k \in 0 .. m
    OBVIOUS
  <2>. HIDE DEF longer
  <2>. QED
    BY <1>1, <1>3, <2>1
<1>5. /\ \A k \in 0 .. m : place2[k] = place[k] /\ cut2[k] = cut[k]
      /\ place2[m + 1] = Len(longer) /\ cut2[m + 1] = last
  OBVIOUS
<1>. HIDE DEF place2, cut2, longer
<1>6. /\ place2[0] = start /\ cut2[0] = from
  BY <1>5, <1>b
<1>7. ASSUME NEW i \in 0 .. m + 1, NEW j \in 0 .. m + 1, i <= j
      PROVE  place2[i] <= place2[j]
  <2>1. CASE j = m + 1
    <3>1. place2[i] \in 0 .. Len(longer)
      BY <1>4
    <3>. QED
      BY <1>1, <1>5, <2>1, <3>1
  <2>2. CASE j # m + 1
    <3>1. i \in 0 .. m /\ j \in 0 .. m
      BY <1>7, <2>2
    <3>. QED
      BY <1>5, <1>7, <1>b, <3>1
  <2>. QED
    BY <2>1, <2>2
<1>8. ASSUME NEW k \in 1 .. m + 1
      PROVE  Piece(L, longer, place2[k - 1], cut2[k - 1], place2[k], cut2[k])
  <2>1. CASE k = m + 1
    <3>1. k - 1 = m /\ m \in 0 .. m
      BY <2>1
    <3>2. place2[k - 1] = Len(stream) /\ cut2[k - 1] = to
      BY <1>5, <1>b, <3>1
    <3>. QED
      BY <1>5, <2>1, <3>2 DEF longer
  <2>2. CASE k # m + 1
    <3>1. k \in 1 .. m /\ k \in 0 .. m /\ k - 1 \in 0 .. m
      BY <2>2
    <3>2. Piece(L, stream, place[k - 1], cut[k - 1], place[k], cut[k])
      BY <1>b, <3>1
    <3>3. /\ place[k - 1] \in Nat /\ cut[k - 1] \in Nat
          /\ place[k] \in Nat /\ cut[k] \in Nat /\ place[k] <= Len(stream)
      <4>1. place[k - 1] \in 0 .. Len(stream) /\ place[k] \in 0 .. Len(stream)
        BY <3>1
      <4>2. cut[k - 1] \in 0 .. to /\ cut[k] \in 0 .. to
        BY <3>1
      <4>. QED
        BY SMTT(30), <1>1, <4>1, <4>2
    <3>4. Piece(L, longer, place[k - 1], cut[k - 1], place[k], cut[k])
      BY <3>2, <3>3, PieceStays DEF longer
    <3>. QED
      BY <1>5, <3>1, <3>4
  <2>. QED
    BY <2>1, <2>2
<1>9. m + 1 \in Nat
  OBVIOUS
<1>. QED
  BY <1>4, <1>5, <1>6, <1>7, <1>8, <1>9 DEF Chain, longer

\* The rest of a stream, behind start.
Behind(rest, stream, start) ==
    /\ Len(stream) = start + Len(rest)
    /\ \A i \in 1 .. Len(rest) : rest[i] = stream[start + i]

\* A piece of the stream is one of its rest.
LEMMA PieceShift ==
    ASSUME NEW L, L.header \in Nat, NEW stream \in Seq(Cells), NEW rest \in Seq(Cells),
           NEW start \in Nat, NEW a \in Nat, NEW p \in Nat, NEW b \in Nat, NEW q \in Nat,
           Behind(rest, stream, start), start <= a, b <= Len(stream),
           Piece(L, stream, a, p, b, q)
    PROVE  Piece(L, rest, a - start, p, b - start, q)
<1>. DEFINE h == L.header
            size == Len(rest)
<1>1. /\ p < q /\ b = a + h + (q - p) /\ b <= start + size /\ size \in Nat /\ h \in Nat
      /\ h + (q - p) <= BufferSize /\ Unbroken(L, p, q)
  BY DEF Piece, Behind
<1>2. \A i \in 1 .. size : rest[i] = stream[start + i]
  BY DEF Behind
<1>3. /\ \A j \in 1 .. h : stream[a + j] = Frames!Byte("header", h + (q - p))
      /\ \A j \in 1 .. q - p : stream[(a + h) + j] = Frames!Byte(L.fields[p + j], p + j)
  BY DEF Piece, Carries
<1>. HIDE DEF h, size
<1>4. b - start = (a - start) + h + (q - p)
  BY <1>1
<1>5. ASSUME NEW j \in 1 .. h
      PROVE  rest[(a - start) + j] = Frames!Byte("header", h + (q - p))
  <2>1. (a - start) + j \in 1 .. size /\ start + ((a - start) + j) = a + j
    BY <1>1
  <2>. QED
    BY <1>2, <1>3, <2>1
<1>6. ASSUME NEW j \in 1 .. q - p
      PROVE  rest[((a - start) + h) + j] = Frames!Byte(L.fields[p + j], p + j)
  <2>1. ((a - start) + h) + j \in 1 .. size /\ start + (((a - start) + h) + j) = (a + h) + j
    BY <1>1
  <2>. QED
    BY <1>2, <1>3, <2>1
<1>. QED
  BY <1>1, <1>4, <1>5, <1>6 DEF Piece, Carries, h

\* A chain that begins behind start is one from the beginning of what is there.
LEMMA ChainShift ==
    ASSUME NEW L, L.header \in Nat, NEW stream \in Seq(Cells), NEW rest \in Seq(Cells),
           NEW start \in Nat, NEW from \in Nat, NEW to \in Nat,
           Chain(L, stream, start, from, to),
           Behind(rest, stream, start)
    PROVE  Chain(L, rest, 0, from, to)
<1>a. PICK m \in Nat : \E place \in [0 .. m -> 0 .. Len(stream)], cut \in [0 .. m -> 0 .. to] :
          /\ place[0] = start /\ cut[0] = from
          /\ place[m] = Len(stream) /\ cut[m] = to
          /\ \A i, j \in 0 .. m : i <= j => place[i] <= place[j]
          /\ \A k \in 1 .. m : Piece(L, stream, place[k - 1], cut[k - 1], place[k], cut[k])
  BY DEF Chain
<1>b. PICK place \in [0 .. m -> 0 .. Len(stream)], cut \in [0 .. m -> 0 .. to] :
          /\ place[0] = start /\ cut[0] = from
          /\ place[m] = Len(stream) /\ cut[m] = to
          /\ \A i, j \in 0 .. m : i <= j => place[i] <= place[j]
          /\ \A k \in 1 .. m : Piece(L, stream, place[k - 1], cut[k - 1], place[k], cut[k])
  BY <1>a
<1>. DEFINE place2 == [k \in 0 .. m |-> place[k] - start]
<1>1. Len(rest) \in Nat /\ Len(stream) \in Nat /\ 0 \in 0 .. m /\ m \in 0 .. m
      /\ Len(stream) = start + Len(rest)
  BY DEF Behind
<1>2. ASSUME NEW k \in 0 .. m
      PROVE  place[k] \in start .. Len(stream) /\ place2[k] = place[k] - start
             /\ place2[k] \in 0 .. Len(rest)
  <2>1. place[k] \in 0 .. Len(stream) /\ start <= place[k]
    BY <1>1, <1>b
  <2>. QED
    BY SMTT(30), <1>1, <2>1
<1>3. place2 \in [0 .. m -> 0 .. Len(rest)]
  BY <1>2
<1>. HIDE DEF place2
<1>4. place2[0] = 0 /\ place2[m] = Len(rest)
  <2>1. place2[0] = place[0] - start /\ place2[m] = place[m] - start
    BY <1>1, <1>2
  <2>. QED
    BY <1>1, <1>b, <2>1
<1>5. ASSUME NEW i \in 0 .. m, NEW j \in 0 .. m, i <= j
      PROVE  place2[i] <= place2[j]
  <2>1. place[i] <= place[j]
    BY <1>b, <1>5
  <2>. QED
    BY SMTT(30), <1>1, <1>2, <2>1
<1>6. ASSUME NEW k \in 1 .. m
      PROVE  Piece(L, rest, place2[k - 1], cut[k - 1], place2[k], cut[k])
  <2>1. k \in 0 .. m /\ k - 1 \in 0 .. m
    OBVIOUS
  <2>2. Piece(L, stream, place[k - 1], cut[k - 1], place[k], cut[k])
    BY <1>b
  <2>3. cut[k - 1] \in 0 .. to /\ cut[k] \in 0 .. to
    BY <2>1
  <2>4. /\ place[k - 1] \in start .. Len(stream) /\ place2[k - 1] = place[k - 1] - start
        /\ place[k] \in start .. Len(stream) /\ place2[k] = place[k] - start
    BY <1>2, <2>1
  <2>5. /\ place[k - 1] \in Nat /\ cut[k - 1] \in Nat /\ place[k] \in Nat /\ cut[k] \in Nat
        /\ start <= place[k - 1] /\ place[k] <= Len(stream)
    BY <1>1, <2>3, <2>4
  <2>6. Piece(L, rest, place[k - 1] - start, cut[k - 1], place[k] - start, cut[k])
    BY <2>2, <2>5, PieceShift
  <2>. QED
    BY <2>4, <2>6
<1>. QED
  BY <1>3, <1>4, <1>5, <1>6, <1>b DEF Chain

-----------------------------------------------------------------------------
(* The calls of one end, and how far it is with them.                      *)

Calls == [call : {"block", "raw", "end"}, fields : Seq(STRING)]

\* Of the calls, which are for the fields as the cuts say, rest is left to be made,
\* and of the first of rest, if it is a raw one, a part: pos fields are behind the end.
Left(rest, calls, cuts, fields, pos) ==
    LET done == Len(calls) - Len(rest) IN
    /\ rest \in Seq(Calls) /\ Len(rest) <= Len(calls)
    /\ \A i \in 2 .. Len(rest) : rest[i] = calls[done + i]
    /\ rest = <<>> => pos = cuts[Len(calls)]
    /\ rest # <<>> =>
          /\ rest[1].call = calls[done + 1].call
          /\ Len(rest[1].fields) = cuts[done + 1] - pos
          /\ \A i \in 1 .. cuts[done + 1] - pos : rest[1].fields[i] = fields[pos + i]
          /\ pos = cuts[done] \/ (rest[1].call = "raw" /\ cuts[done] <= pos /\ pos < cuts[done + 1])

\* What CutAt says of one call.
LEMMA CutsOfCall ==
    ASSUME NEW calls, NEW cuts, NEW fields \in Seq(STRING), Frames!CutAt(calls, cuts, fields),
           NEW i \in 1 .. Len(calls)
    PROVE  /\ calls \in Seq(Calls) /\ calls[i] \in Calls
           /\ cuts[i - 1] \in 0 .. Len(fields) /\ cuts[i] \in 0 .. Len(fields)
           /\ cuts[i - 1] <= cuts[i]
           /\ Len(calls[i].fields) = cuts[i] - cuts[i - 1]
           /\ \A j \in 1 .. cuts[i] - cuts[i - 1] : calls[i].fields[j] = fields[cuts[i - 1] + j]
           /\ calls[i].call = "end" <=> cuts[i - 1] = cuts[i]
<1>1. /\ calls \in Seq(Calls) /\ cuts \in [0 .. Len(calls) -> 0 .. Len(fields)]
      /\ \A k, j \in DOMAIN cuts : k <= j => cuts[k] <= cuts[j]
      /\ \A k \in DOMAIN calls :
            /\ calls[k].fields = SubSeq(fields, cuts[k - 1] + 1, cuts[k])
            /\ calls[k].call = "end" <=> cuts[k - 1] = cuts[k]
  BY DEF Frames!CutAt, Calls
<1>2. i \in DOMAIN calls /\ i \in 0 .. Len(calls) /\ i - 1 \in 0 .. Len(calls)
  BY <1>1
<1>3. /\ cuts[i - 1] \in 0 .. Len(fields) /\ cuts[i] \in 0 .. Len(fields)
      /\ cuts[i - 1] <= cuts[i]
      /\ calls[i].fields = SubSeq(fields, cuts[i - 1] + 1, cuts[i])
      /\ calls[i].call = "end" <=> cuts[i - 1] = cuts[i]
      /\ calls \in Seq(Calls) /\ calls[i] \in Calls
  BY SMTT(30), <1>1, <1>2
<1>4. /\ Len(calls[i].fields) = cuts[i] - cuts[i - 1]
      /\ \A j \in 1 .. cuts[i] - cuts[i - 1] : calls[i].fields[j] = fields[cuts[i - 1] + j]
  <2>. DEFINE p == cuts[i - 1]
              q == cuts[i]
  <2>1. p \in Nat /\ q \in Nat /\ p <= q /\ q <= Len(fields)
        /\ calls[i].fields = SubSeq(fields, p + 1, q)
    BY <1>3
  <2>. HIDE DEF p, q
  <2>2. \A j \in p + 1 .. q : fields[j] \in STRING
    BY <2>1
  <2>3. /\ Len(SubSeq(fields, p + 1, q)) = IF p + 1 <= q THEN q - (p + 1) + 1 ELSE 0
        /\ \A j \in 1 .. q - (p + 1) + 1 : SubSeq(fields, p + 1, q)[j] = fields[p + 1 + j - 1]
    BY <2>1, <2>2, SubSeqProperties
  <2>4. q - (p + 1) + 1 = q - p
    BY <2>1
  <2>5. Len(calls[i].fields) = q - p
    BY <2>1, <2>3, <2>4
  <2>6. \A j \in 1 .. q - p : calls[i].fields[j] = fields[p + j]
    BY <2>1, <2>3, <2>4
  <2>. QED
    BY <2>5, <2>6 DEF p, q
<1>. QED
  BY <1>3, <1>4

\* The cuts are where CutAt puts them, in order.
LEMMA CutsInOrder ==
    ASSUME NEW calls, NEW cuts, NEW fields \in Seq(STRING), Frames!CutAt(calls, cuts, fields)
    PROVE  /\ calls \in Seq(Calls)
           /\ \A i \in 0 .. Len(calls) : cuts[i] \in 0 .. Len(fields)
           /\ \A i, j \in 0 .. Len(calls) : i <= j => cuts[i] <= cuts[j]
BY DEF Frames!CutAt, Calls

\* Before the first call all of them are left.
LEMMA LeftAll ==
    ASSUME NEW calls, NEW cuts, NEW fields \in Seq(STRING), Frames!CutAt(calls, cuts, fields)
    PROVE  Left(calls, calls, cuts, fields, cuts[0])
<1>1. calls \in Seq(Calls)
  BY CutsInOrder
<1>2. Len(calls) - Len(calls) = 0 /\ Len(calls) \in Nat /\ 0 + 1 = 1 /\ 1 - 1 = 0
  BY <1>1
<1>3. \A i \in 2 .. Len(calls) : 0 + i = i
  BY <1>2
<1>4. calls = <<>> => Len(calls) = 0
  BY <1>1
<1>5. ASSUME calls # <<>>
      PROVE  /\ Len(calls[1].fields) = cuts[1] - cuts[0]
             /\ \A i \in 1 .. cuts[1] - cuts[0] : calls[1].fields[i] = fields[cuts[0] + i]
  <2>1. 1 \in 1 .. Len(calls)
    BY <1>1, <1>5
  <2>. QED
    BY <1>2, <2>1, CutsOfCall
<1>. QED
  BY <1>1, <1>2, <1>3, <1>4, <1>5 DEF Left

\* The call at hand.
LEMMA LeftHead ==
    ASSUME NEW calls, NEW cuts, NEW fields \in Seq(STRING), Frames!CutAt(calls, cuts, fields),
           NEW rest, NEW pos \in Nat, Left(rest, calls, cuts, fields, pos), rest # <<>>
    PROVE  LET done == Len(calls) - Len(rest)
               head == Head(rest)
           IN  /\ done \in Nat /\ done + 1 \in 1 .. Len(calls)
               /\ head \in Calls /\ head.call = calls[done + 1].call
               /\ Len(head.fields) \in Nat /\ pos + Len(head.fields) = cuts[done + 1]
               /\ cuts[done + 1] <= Len(fields) /\ cuts[done] <= pos
               /\ \A i \in 1 .. Len(head.fields) : head.fields[i] = fields[pos + i]
               /\ head.call = "end" <=> Len(head.fields) = 0
               /\ head.call # "raw" => pos = cuts[done] /\ Len(head.fields) = Len(calls[done + 1].fields)
<1>. DEFINE done == Len(calls) - Len(rest)
            n == done + 1
<1>1. calls \in Seq(Calls) /\ rest \in Seq(Calls) /\ Len(rest) <= Len(calls)
  BY CutsInOrder DEF Left
<1>2. Len(rest) \in Nat \ {0} /\ Len(calls) \in Nat
  BY <1>1
<1>3. done \in Nat /\ n \in 1 .. Len(calls) /\ n - 1 = done
  BY <1>1, <1>2
<1>4. /\ rest[1].call = calls[n].call
      /\ Len(rest[1].fields) = cuts[n] - pos
      /\ \A i \in 1 .. cuts[n] - pos : rest[1].fields[i] = fields[pos + i]
      /\ pos = cuts[done] \/ (rest[1].call = "raw" /\ cuts[done] <= pos /\ pos < cuts[n])
  BY DEF Left
<1>5. Head(rest) = rest[1] /\ rest[1] \in Calls
  BY <1>1, <1>2
<1>. HIDE DEF done, n
<1>6. /\ calls[n] \in Calls
      /\ cuts[done] \in 0 .. Len(fields) /\ cuts[n] \in 0 .. Len(fields)
      /\ cuts[done] <= cuts[n]
      /\ Len(calls[n].fields) = cuts[n] - cuts[done]
      /\ calls[n].call = "end" <=> cuts[done] = cuts[n]
  <2>. PICK i \in 1 .. Len(calls) : i = n
    BY <1>3
  <2>1. /\ calls[i] \in Calls
        /\ cuts[i - 1] \in 0 .. Len(fields) /\ cuts[i] \in 0 .. Len(fields)
        /\ cuts[i - 1] <= cuts[i]
        /\ Len(calls[i].fields) = cuts[i] - cuts[i - 1]
        /\ calls[i].call = "end" <=> cuts[i - 1] = cuts[i]
    BY CutsOfCall
  <2>. QED
    BY <1>3, <2>1
<1>7. cuts[done] <= pos /\ pos <= cuts[n]
  BY <1>4, <1>6
<1>9. rest[1].call = "end" <=> cuts[n] - pos = 0
  BY <1>4, <1>6, <1>7
<1>10. rest[1].call # "raw" => pos = cuts[done] /\ Len(rest[1].fields) = Len(calls[n].fields)
  BY <1>4, <1>6
<1>11. cuts[n] - pos \in Nat /\ pos + (cuts[n] - pos) = cuts[n] /\ cuts[n] <= Len(fields)
  BY <1>6, <1>7
<1>. QED
  BY <1>3, <1>4, <1>5, <1>7, <1>9, <1>10, <1>11 DEF n, done

\* The call at hand was made.
LEMMA LeftTail ==
    ASSUME NEW calls, NEW cuts, NEW fields \in Seq(STRING), Frames!CutAt(calls, cuts, fields),
           NEW rest, NEW pos \in Nat, Left(rest, calls, cuts, fields, pos), rest # <<>>
    PROVE  /\ Left(Tail(rest), calls, cuts, fields, cuts[(Len(calls) - Len(rest)) + 1])
           /\ Tail(rest) \in Seq(Calls) /\ Len(Tail(rest)) = Len(rest) - 1
           /\ Len(calls) - Len(Tail(rest)) = (Len(calls) - Len(rest)) + 1
           /\ Tail(rest) # <<>> => Head(Tail(rest)) = calls[(Len(calls) - Len(rest)) + 2]
<1>. DEFINE done == Len(calls) - Len(rest)
            n == done + 1
            tail == Tail(rest)
<1>1. calls \in Seq(Calls) /\ rest \in Seq(Calls) /\ Len(rest) <= Len(calls)
      /\ \A i \in 2 .. Len(rest) : rest[i] = calls[done + i]
  BY CutsInOrder DEF Left
<1>2. Len(rest) \in Nat \ {0} /\ Len(calls) \in Nat
  BY <1>1
<1>3. tail \in Seq(Calls) /\ Len(tail) = Len(rest) - 1
      /\ \A i \in 1 .. Len(tail) : tail[i] = rest[i + 1]
  BY <1>1, HeadTailProperties
<1>4. Len(calls) - Len(tail) = n /\ n \in 1 .. Len(calls) /\ Len(tail) <= Len(calls)
  BY <1>1, <1>2, <1>3
<1>. HIDE DEF tail
<1>5. ASSUME NEW i \in 1 .. Len(tail)
      PROVE  tail[i] = calls[n + i]
  <2>1. i + 1 \in 2 .. Len(rest) /\ done + (i + 1) = n + i
    BY <1>2, <1>3
  <2>. QED
    BY <1>1, <1>3, <2>1
<1>6. tail = <<>> => n = Len(calls)
  <2>1. tail = <<>> => Len(tail) = 0
    OBVIOUS
  <2>. QED
    BY <1>2, <1>4, <2>1
<1>7. ASSUME tail # <<>>
      PROVE  /\ 1 \in 1 .. Len(tail) /\ n + 1 \in 1 .. Len(calls) /\ (n + 1) - 1 = n
             /\ Head(tail) = tail[1] /\ tail[1] = calls[n + 1]
             /\ Len(tail[1].fields) = cuts[n + 1] - cuts[n]
             /\ \A i \in 1 .. cuts[n + 1] - cuts[n] : tail[1].fields[i] = fields[cuts[n] + i]
  <2>1. 1 \in 1 .. Len(tail) /\ n + 1 \in 1 .. Len(calls) /\ (n + 1) - 1 = n
    BY <1>2, <1>3, <1>4, <1>7
  <2>2. /\ Len(calls[n + 1].fields) = cuts[n + 1] - cuts[n]
        /\ \A i \in 1 .. cuts[n + 1] - cuts[n] : calls[n + 1].fields[i] = fields[cuts[n] + i]
    <3>. DEFINE k == n + 1
    <3>1. k \in 1 .. Len(calls) /\ k - 1 = n
      BY <2>1
    <3>. HIDE DEF k
    <3>2. /\ Len(calls[k].fields) = cuts[k] - cuts[k - 1]
          /\ \A i \in 1 .. cuts[k] - cuts[k - 1] : calls[k].fields[i] = fields[cuts[k - 1] + i]
      BY <3>1, CutsOfCall
    <3>. HIDE DEF n
    <3>. QED
      BY <3>1, <3>2 DEF k
  <2>. QED
    BY SMTT(30), <1>3, <1>5, <1>7, <2>1, <2>2
<1>8. Left(tail, calls, cuts, fields, cuts[n])
  <2>1. /\ tail # <<>> =>
              /\ tail[1].call = calls[n + 1].call
              /\ Len(tail[1].fields) = cuts[n + 1] - cuts[n]
              /\ \A i \in 1 .. cuts[n + 1] - cuts[n] : tail[1].fields[i] = fields[cuts[n] + i]
    BY <1>7
  <2>2. \A i \in 2 .. Len(tail) : tail[i] = calls[n + i]
    BY <1>5
  <2>. HIDE DEF n
  <2>. QED
    BY <1>3, <1>4, <1>6, <2>1, <2>2 DEF Left
<1>9. (Len(calls) - Len(rest)) + 2 = n + 1
  BY <1>2
<1>. QED
  BY <1>3, <1>4, <1>7, <1>8, <1>9 DEF tail

\* Of the first of the calls, a raw one, the fields behind size are left.
PartLeft(part, rest, size) ==
    part = <<[call |-> "raw",
              fields |-> SubSeq(Head(rest).fields, size + 1, Len(Head(rest).fields))]>>
           \o Tail(rest)

\* A part of a raw call was made.
LEMMA LeftPart ==
    ASSUME NEW calls, NEW cuts, NEW fields \in Seq(STRING), Frames!CutAt(calls, cuts, fields),
           NEW rest, NEW pos \in Nat, Left(rest, calls, cuts, fields, pos), rest # <<>>,
           Head(rest).call = "raw", NEW size \in 1 .. Len(Head(rest).fields),
           size # Len(Head(rest).fields), NEW part, PartLeft(part, rest, size)
    PROVE  /\ Left(part, calls, cuts, fields, pos + size)
           /\ part # <<>> /\ Head(part).call = "raw" /\ Len(part) = Len(rest)
<1>. DEFINE done == Len(calls) - Len(rest)
            n == done + 1
            tail == Tail(rest)
            head == Head(rest)
            first == [call |-> "raw", fields |-> SubSeq(head.fields, size + 1, Len(head.fields))]
<1>0. part = <<first>> \o tail
  BY DEF PartLeft
<1>1. calls \in Seq(Calls) /\ rest \in Seq(Calls) /\ Len(rest) <= Len(calls)
      /\ \A i \in 2 .. Len(rest) : rest[i] = calls[done + i]
  BY CutsInOrder DEF Left
<1>2. Len(rest) \in Nat \ {0} /\ Len(calls) \in Nat
  BY <1>1
<1>3. tail \in Seq(Calls) /\ Len(tail) = Len(rest) - 1 /\ head = rest[1] /\ head \in Calls
      /\ \A i \in 1 .. Len(tail) : tail[i] = rest[i + 1]
  BY <1>1, HeadTailProperties
<1>4. /\ n \in 1 .. Len(calls) /\ head.call = calls[n].call
      /\ Len(head.fields) \in Nat /\ pos + Len(head.fields) = cuts[n] /\ cuts[n] <= Len(fields)
      /\ cuts[done] <= pos /\ head.fields \in Seq(STRING)
      /\ \A i \in 1 .. Len(head.fields) : head.fields[i] = fields[pos + i]
  <2>1. head.fields \in Seq(STRING)
    BY <1>3 DEF Calls
  <2>2. n \in 1 .. Len(calls) /\ head.call = calls[n].call
    BY LeftHead
  <2>3. Len(head.fields) \in Nat /\ pos + Len(head.fields) = cuts[n] /\ cuts[n] <= Len(fields)
    BY LeftHead
  <2>4. cuts[done] <= pos
        /\ \A i \in 1 .. Len(head.fields) : head.fields[i] = fields[pos + i]
    BY LeftHead
  <2>. QED
    BY <2>1, <2>2, <2>3, <2>4
<1>5. /\ cuts[done] \in 0 .. Len(fields) /\ cuts[n] \in 0 .. Len(fields)
  <2>1. n - 1 = done
    BY <1>2
  <2>. QED
    BY <1>4, <2>1, CutsOfCall
<1>. HIDE DEF n
<1>6. /\ Len(first.fields) = cuts[n] - (pos + size)
      /\ \A i \in 1 .. cuts[n] - (pos + size) : first.fields[i] = fields[(pos + size) + i]
  <2>. DEFINE len == Len(head.fields)
  <2>1. /\ len \in Nat /\ pos + len = cuts[n] /\ size \in 1 .. len /\ cuts[n] \in Nat
        /\ \A i \in size + 1 .. len : head.fields[i] \in STRING
    BY SMTT(30), <1>4, <1>5
  <2>2. /\ Len(SubSeq(head.fields, size + 1, len)) =
              IF size + 1 <= len THEN len - (size + 1) + 1 ELSE 0
        /\ \A i \in 1 .. len - (size + 1) + 1 :
              SubSeq(head.fields, size + 1, len)[i] = head.fields[(size + 1) + i - 1]
    BY <2>1, SubSeqProperties
  <2>3. first.fields = SubSeq(head.fields, size + 1, len)
    BY DEF len
  <2>4. \A i \in 1 .. len : head.fields[i] = fields[pos + i]
    BY <1>4
  <2>a. size # len
    OBVIOUS
  <2>. HIDE DEF len, first, head
  <2>5. cuts[n] - (pos + size) = len - (size + 1) + 1 /\ size + 1 <= len
    BY <2>1, <2>a
  <2>6. Len(first.fields) = cuts[n] - (pos + size)
    BY <2>2, <2>3, <2>5
  <2>7. ASSUME NEW i \in 1 .. cuts[n] - (pos + size)
        PROVE  first.fields[i] = fields[(pos + size) + i]
    <3>1. /\ i \in 1 .. len - (size + 1) + 1 /\ (size + 1) + i - 1 = size + i
          /\ size + i \in 1 .. len /\ pos + (size + i) = (pos + size) + i
      BY <2>1, <2>5
    <3>. QED
      BY <2>2, <2>3, <2>4, <3>1
  <2>. QED
    BY <2>6, <2>7
<1>7. first \in Calls
  <2>1. \A i \in size + 1 .. Len(head.fields) : head.fields[i] \in STRING
    BY <1>4
  <2>2. SubSeq(head.fields, size + 1, Len(head.fields)) \in Seq(STRING)
    BY <1>4, <2>1, SubSeqProperties
  <2>. QED
    BY <2>2 DEF Calls
<1>8. first.call = "raw"
  OBVIOUS
<1>. HIDE DEF first
<1>9. /\ part \in Seq(Calls) /\ Len(part) = Len(rest) /\ part[1] = first
      /\ \A i \in 2 .. Len(rest) : part[i] = rest[i]
  <2>1. <<first>> \in Seq(Calls) /\ Len(<<first>>) = 1 /\ <<first>>[1] = first
    BY <1>7
  <2>2. /\ part \in Seq(Calls) /\ Len(part) = 1 + Len(tail)
        /\ \A i \in 1 .. 1 + Len(tail) :
              part[i] = IF i <= 1 THEN <<first>>[i] ELSE tail[i - 1]
    BY <1>0, <1>3, <2>1, ConcatProperties
  <2>3. Len(part) = Len(rest) /\ part[1] = first
    BY <1>2, <1>3, <2>1, <2>2
  <2>4. ASSUME NEW i \in 2 .. Len(rest)
        PROVE  part[i] = rest[i]
    <3>1. i \in 1 .. 1 + Len(tail) /\ ~(i <= 1) /\ i - 1 \in 1 .. Len(tail) /\ (i - 1) + 1 = i
      BY <1>2, <1>3
    <3>. QED
      BY <1>3, <2>2, <3>1
  <2>. QED
    BY <2>2, <2>3, <2>4
<1>10. part # <<>> /\ Head(part) = first
  BY <1>2, <1>9
<1>11. cuts[done] <= pos + size /\ pos + size < cuts[n]
  BY <1>4, <1>5
<1>12. Left(part, calls, cuts, fields, pos + size)
  <2>1. calls[n].call = "raw"
    BY <1>4
  <2>. HIDE DEF head
  <2>. QED
    BY <1>1, <1>6, <1>8, <1>9, <1>10, <1>11, <2>1 DEF Left, n
<1>. QED
  BY <1>8, <1>9, <1>10, <1>12 DEF first, head, tail

\* Where an end stands, no block is open.
LEMMA LeftOpen ==
    ASSUME NEW calls, NEW cuts, NEW fields \in Seq(STRING), Frames!CutAt(calls, cuts, fields),
           NEW rest, NEW pos \in Nat, Left(rest, calls, cuts, fields, pos), rest # <<>>,
           NEW i \in 1 .. Len(calls), calls[i].call = "block"
    PROVE  ~(cuts[i - 1] < pos /\ pos < cuts[i])
<1>. DEFINE done == Len(calls) - Len(rest)
            n == done + 1
<1>1. /\ done \in Nat /\ n \in 1 .. Len(calls) /\ Head(rest).call = calls[n].call
      /\ cuts[done] <= pos
      /\ Head(rest).call # "raw" => pos = cuts[done]
  BY LeftHead
<1>2. rest # <<>> => pos = cuts[done] \/ (rest[1].call = "raw" /\ pos < cuts[n])
  BY DEF Left
<1>3. Head(rest) = rest[1]
  BY DEF Left
<1>4. Len(calls) \in Nat
  BY CutsInOrder
<1>. HIDE DEF done
<1>5. /\ \A k \in 0 .. Len(calls) : cuts[k] \in 0 .. Len(fields)
      /\ \A k, j \in 0 .. Len(calls) : k <= j => cuts[k] <= cuts[j]
  BY CutsInOrder
<1>6. CASE i <= done
  <2>0. i \in 0 .. Len(calls) /\ done \in 0 .. Len(calls)
    BY <1>1, <1>4, <1>6
  <2>1. cuts[i] <= cuts[done]
    BY <1>5, <1>6, <2>0
  <2>2. cuts[i] \in Nat /\ cuts[done] \in Nat
    BY <1>5, <2>0
  <2>. QED
    BY <1>1, <2>1, <2>2
<1>7. CASE i = n
  <2>1. pos = cuts[done] /\ i - 1 = done
    BY <1>1, <1>7
  <2>2. cuts[done] \in Nat
    BY <1>1, <1>4, <1>5
  <2>. QED
    BY <2>1, <2>2
<1>8. CASE n < i
  <2>1. cuts[n] <= cuts[i - 1] /\ cuts[done] <= cuts[n]
    BY <1>1, <1>4, <1>5, <1>8
  <2>2. cuts[n] \in Nat /\ cuts[i - 1] \in Nat /\ cuts[done] \in Nat
    BY <1>1, <1>4, <1>5
  <2>. QED
    BY <1>2, <2>1, <2>2
<1>. QED
  BY <1>1, <1>6, <1>7, <1>8

-----------------------------------------------------------------------------
(* The state of the channel, and the writing end.                          *)

\* What LayoutAgrees says of the calls of the writing end.
GoodLayout(L) ==
    /\ L.header \in Nat /\ L.header < BufferSize /\ BufferSize \in Nat
    /\ L.fields \in Seq(STRING)
    /\ L.calls \in Seq(Calls) /\ L.calls # <<>>
    /\ Frames!CutAt(L.calls, L.cuts, L.fields)
    /\ L.cuts[0] = 0 /\ L.cuts[Len(L.calls)] = Len(L.fields)
    /\ L.calls[1].call # "end" /\ L.calls[Len(L.calls)].call = "end"
    /\ \A i \in 1 .. Len(L.calls) :
          /\ L.calls[i].call = "end" /\ i # Len(L.calls) => L.calls[i + 1].call # "end"
          /\ L.calls[i].call = "block" => L.header + Len(L.calls[i].fields) <= BufferSize

LEMMA LayoutIsGood ==
    ASSUME Frames!ChannelAssumption, Frames!LayoutsAgree, NEW c \in Connections
    PROVE  GoodLayout(LayoutOf(c))
<1>. DEFINE L == LayoutOf(c)
<1>1. Frames!LayoutAgrees(c)
  BY DEF Frames!LayoutsAgree
<1>2. Frames!WritesAgree(c, L.calls, L.cuts, L.fields)
  BY <1>1 DEF Frames!LayoutAgrees, LayoutOf
<1>3. L.header = Frames!HeaderOf(c)
  BY DEF LayoutOf
<1>. HIDE DEF L
<1>4. L.header \in Nat /\ L.header < BufferSize /\ BufferSize \in Nat
  BY <1>3 DEF Frames!HeaderOf, Frames!ChannelAssumption
<1>5. L.fields \in Seq(STRING) /\ L.calls # <<>> /\ Frames!CutAt(L.calls, L.cuts, L.fields)
  BY <1>2 DEF Frames!WritesAgree
<1>6. L.calls \in Seq(Calls)
  BY <1>5, CutsInOrder
<1>7. \A i \in 1 .. Len(L.calls) :
          /\ L.calls[i].call = "end" /\ i # Len(L.calls) => L.calls[i + 1].call # "end"
          /\ L.calls[i].call = "block" => L.header + Len(L.calls[i].fields) <= BufferSize
  BY <1>2, <1>3, <1>6 DEF Frames!WritesAgree
<1>8. /\ L.cuts[0] = 0 /\ L.cuts[Len(L.calls)] = Len(L.fields)
      /\ L.calls[1].call # "end" /\ L.calls[Len(L.calls)].call = "end"
  BY <1>2 DEF Frames!WritesAgree
<1>9. GoodLayout(L)
  BY <1>4, <1>5, <1>6, <1>7, <1>8 DEF GoodLayout
<1>. QED
  BY <1>9 DEF L

Layout     == LayoutOf(connection)
SentFields == written - Len(writeBuffer)
Stream     == readBuffer \o wire
Unread     == endFrameIndex - readIndex
Begun      == Len(connection.frames) - Len(toRead)

\* The variables of the channel have these types.
FrameTypes ==
    /\ connection \in Connections
    /\ writeBuffer \in Seq(Cells) /\ wire \in Seq(Cells) /\ readBuffer \in Seq(Cells)
    /\ readIndex \in Nat /\ endFrameIndex \in Nat /\ sizeToRead \in Nat
    /\ written \in Nat /\ taken \in Nat /\ headerRead \in BOOLEAN

\* The buffer holds the last of the fields before place pos, and a frame of it is
\* not too long.
Gathered(L, buffer, pos) ==
    /\ Len(buffer) <= pos
    /\ L.header + Len(buffer) <= BufferSize
    /\ Carries(L, buffer, 0, pos - Len(buffer), Len(buffer))

\* What is written waits in the buffer until it is sent; what was written to its
\* end was sent, and there is something to send when a frame is to be ended.
WriterInv ==
    LET done == Len(Layout.calls) - Len(toWrite) IN
    /\ Left(toWrite, Layout.calls, Layout.cuts, Layout.fields, written)
    /\ Gathered(Layout, writeBuffer, written)
    /\ \A i \in 1 .. done : Layout.calls[i].call = "end" => Layout.cuts[i] <= SentFields
    /\ toWrite = <<>> => writeBuffer = <<>>
    /\ toWrite # <<>> /\ Head(toWrite).call = "end" => writeBuffer # <<>>

LEMMA HeaderIs == Frames!Header = Layout.header
BY DEF Frames!Header, Layout, LayoutOf

LEMMA NothingGathered ==
    ASSUME NEW L, GoodLayout(L), NEW pos \in Nat
    PROVE  Gathered(L, <<>>, pos)
<1>1. Len(<<>>) = 0
  OBVIOUS
<1>. QED
  BY <1>1 DEF Gathered, Carries, GoodLayout

\* The buffer takes more fields.
LEMMA GatherMore ==
    ASSUME NEW L, GoodLayout(L), NEW buffer \in Seq(Cells), NEW pos \in Nat,
           Gathered(L, buffer, pos), NEW bytes \in Seq(Cells),
           Carries(L, bytes, 0, pos, Len(bytes)),
           L.header + Len(buffer) + Len(bytes) <= BufferSize
    PROVE  /\ Gathered(L, buffer \o bytes, pos + Len(bytes))
           /\ buffer \o bytes \in Seq(Cells) /\ Len(buffer \o bytes) = Len(buffer) + Len(bytes)
<1>1. /\ buffer \o bytes \in Seq(Cells) /\ Len(buffer \o bytes) = Len(buffer) + Len(bytes)
      /\ \A i \in 1 .. Len(buffer) + Len(bytes) : (buffer \o bytes)[i] =
                     IF i <= Len(buffer) THEN buffer[i] ELSE bytes[i - Len(buffer)]
  BY ConcatProperties
<1>. DEFINE b == Len(buffer)
            n == Len(bytes)
            from == pos - b
<1>2. b \in Nat /\ n \in Nat /\ L.header \in Nat /\ b <= pos
  BY DEF GoodLayout, Gathered
<1>3. /\ \A j \in 1 .. b : buffer[0 + j] = Frames!Byte(L.fields[from + j], from + j)
      /\ \A j \in 1 .. n : bytes[0 + j] = Frames!Byte(L.fields[pos + j], pos + j)
  BY DEF Gathered, Carries
<1>. HIDE DEF b, n
<1>4. ASSUME NEW j \in 1 .. b + n
      PROVE  (buffer \o bytes)[0 + j] = Frames!Byte(L.fields[from + j], from + j)
  <2>1. CASE j <= b
    <3>1. j \in 1 .. b /\ 0 + j = j /\ j \in 1 .. b + n
      BY <1>2, <2>1
    <3>2. buffer[j] = Frames!Byte(L.fields[from + j], from + j)
      BY <1>3, <3>1
    <3>3. (buffer \o bytes)[j] = buffer[j]
      BY <1>1, <2>1, <3>1 DEF b, n
    <3>. QED
      BY <3>1, <3>2, <3>3
  <2>2. CASE ~(j <= b)
    <3>1. j - b \in 1 .. n /\ 0 + (j - b) = j - b /\ pos + (j - b) = from + j /\ 0 + j = j
      BY <1>2, <2>2
    <3>2. bytes[j - b] = Frames!Byte(L.fields[from + j], from + j)
      BY <1>3, <3>1
    <3>3. (buffer \o bytes)[j] = bytes[j - b]
      BY <1>1, <2>2 DEF b, n
    <3>. QED
      BY <3>1, <3>2, <3>3
  <2>. QED
    BY <2>1, <2>2
<1>5. (pos + n) - (b + n) = from /\ b + n <= pos + n
  BY <1>2
<1>6. L.header + (b + n) <= BufferSize
  BY <1>2 DEF b, n
<1>7. Gathered(L, buffer \o bytes, pos + n)
  <2>1. Len(buffer \o bytes) = b + n
    BY <1>1 DEF b, n
  <2>2. Carries(L, buffer \o bytes, 0, from, b + n)
    BY <1>4 DEF Carries
  <2>. HIDE DEF from
  <2>. QED
    BY <1>5, <1>6, <2>1, <2>2 DEF Gathered
<1>. QED
  BY <1>1, <1>7 DEF n

\* What Bytes makes of the next fields.
LEMMA BytesCarry ==
    ASSUME NEW L, written \in Nat, NEW fields \in Seq(STRING),
           \A i \in 1 .. Len(fields) : fields[i] = L.fields[written + i]
    PROVE  /\ Frames!Bytes(fields) \in Seq(Cells) /\ Len(Frames!Bytes(fields)) = Len(fields)
           /\ Carries(L, Frames!Bytes(fields), 0, written, Len(fields))
<1>. DEFINE bytes == Frames!Bytes(fields)
            n == Len(fields)
<1>1. bytes = [i \in 1 .. n |-> Frames!Byte(fields[i], written + i)]
  BY DEF Frames!Bytes
<1>2. n \in Nat /\ \A i \in 1 .. n : fields[i] \in STRING
  OBVIOUS
<1>. HIDE DEF bytes, n
<1>3. \A i \in 1 .. n : Frames!Byte(fields[i], written + i) \in Cells
  BY <1>2 DEF Cells, Frames!Byte
<1>4. bytes \in Seq(Cells) /\ Len(bytes) = n
  BY <1>1, <1>2, <1>3, IsASeq
<1>5. ASSUME NEW j \in 1 .. n
      PROVE  bytes[0 + j] = Frames!Byte(L.fields[written + j], written + j)
  <2>1. 0 + j = j /\ fields[j] = L.fields[written + j]
    BY <1>2 DEF n
  <2>. QED
    BY <1>1, <2>1
<1>. QED
  BY <1>4, <1>5 DEF bytes, n, Carries

\* What is sent is a header with the size of the frame and what was gathered.
LEMMA SentFrame ==
    ASSUME GoodLayout(Layout), FrameTypes
    PROVE  LET sent == Frames!Sent(writeBuffer) IN
           /\ sent \in Seq(Cells) /\ Len(sent) = Layout.header + Len(writeBuffer)
           /\ \A j \in 1 .. Layout.header :
                 sent[j] = Frames!Byte("header", Layout.header + Len(writeBuffer))
           /\ \A j \in 1 .. Len(writeBuffer) : sent[Layout.header + j] = writeBuffer[j]
<1>. DEFINE h == Layout.header
            n == Len(writeBuffer)
            front == [i \in 1 .. h |-> Frames!Byte("header", h + n)]
            sent == Frames!Sent(writeBuffer)
<1>1. h \in Nat /\ n \in Nat /\ writeBuffer \in Seq(Cells)
  BY DEF GoodLayout, FrameTypes
<1>2. sent = front \o writeBuffer
  BY HeaderIs DEF Frames!Sent
<1>. HIDE DEF h, n, sent
<1>3. Frames!Byte("header", h + n) \in Cells
  BY <1>1 DEF Cells, Frames!Byte
<1>4. front \in Seq(Cells) /\ Len(front) = h
      /\ \A j \in 1 .. h : front[j] = Frames!Byte("header", h + n)
  BY <1>1, <1>3, IsASeq
<1>. HIDE DEF front
<1>5. /\ sent \in Seq(Cells) /\ Len(sent) = h + n
      /\ \A i \in 1 .. h + n : sent[i] = IF i <= h THEN front[i] ELSE writeBuffer[i - h]
  <2>1. /\ front \o writeBuffer \in Seq(Cells)
        /\ Len(front \o writeBuffer) = Len(front) + Len(writeBuffer)
        /\ \A i \in 1 .. Len(front) + Len(writeBuffer) :
              (front \o writeBuffer)[i] =
                  IF i <= Len(front) THEN front[i] ELSE writeBuffer[i - Len(front)]
    BY <1>1, <1>4, ConcatProperties
  <2>. QED
    BY <1>2, <1>4, <2>1 DEF n
<1>6. ASSUME NEW j \in 1 .. h
      PROVE  sent[j] = Frames!Byte("header", h + n)
  <2>1. j \in 1 .. h + n /\ j <= h
    BY <1>1
  <2>. QED
    BY <1>4, <1>5, <2>1
<1>7. ASSUME NEW j \in 1 .. n
      PROVE  sent[h + j] = writeBuffer[j]
  <2>1. h + j \in 1 .. h + n /\ ~(h + j <= h) /\ (h + j) - h = j
    BY <1>1
  <2>. QED
    BY <1>5, <2>1
<1>. QED
  BY <1>5, <1>6, <1>7 DEF h, n, sent

\* Sending is possible as long as calls are left.
Sends ==
    /\ toWrite # <<>> /\ writeBuffer # <<>>
    /\ wire' = wire \o Frames!Sent(writeBuffer)
    /\ SentFields' = written

\* The fields that are sent make a piece of whatever stream they are appended to.
LEMMA SendsPiece ==
    ASSUME GoodLayout(Layout), FrameTypes, WriterInv, toWrite # <<>>, writeBuffer # <<>>,
           ~connection.local, NEW stream \in Seq(Cells)
    PROVE  LET sent == Frames!Sent(writeBuffer) IN
           Piece(Layout, stream \o sent, Len(stream), SentFields, Len(stream \o sent), written)
<1>. DEFINE L == Layout
            h == L.header
            n == Len(writeBuffer)
            sent == Frames!Sent(writeBuffer)
            q == Len(stream)
            from == SentFields
            done == Len(L.calls) - Len(toWrite)
<1>1. /\ h \in Nat /\ n \in Nat /\ q \in Nat /\ n # 0 /\ BufferSize \in Nat
      /\ written \in Nat /\ n <= written /\ h + n <= BufferSize
  BY DEF GoodLayout, FrameTypes, WriterInv, Gathered
<1>2. from = written - n
  BY DEF SentFields
<1>3. /\ sent \in Seq(Cells) /\ Len(sent) = h + n
      /\ \A j \in 1 .. h : sent[j] = Frames!Byte("header", h + n)
      /\ \A j \in 1 .. n : sent[h + j] = writeBuffer[j]
  BY SentFrame
<1>4. \A j \in 1 .. n : writeBuffer[0 + j] = Frames!Byte(L.fields[from + j], from + j)
  BY DEF WriterInv, Gathered, Carries, SentFields
<1>5. /\ Frames!CutAt(L.calls, L.cuts, L.fields) /\ L.fields \in Seq(STRING)
      /\ Left(toWrite, L.calls, L.cuts, L.fields, written)
      /\ \A i \in 1 .. done : L.calls[i].call = "end" => L.cuts[i] <= from
  BY DEF GoodLayout, WriterInv
<1>. HIDE DEF L, n, sent, q, from
<1>6. /\ stream \o sent \in Seq(Cells) /\ Len(stream \o sent) = q + h + n
      /\ \A i \in 1 .. h + n : (stream \o sent)[q + i] = sent[i]
  <2>1. /\ stream \o sent \in Seq(Cells) /\ Len(stream \o sent) = Len(stream) + Len(sent)
        /\ \A i \in 1 .. Len(stream) + Len(sent) : (stream \o sent)[i] =
              IF i <= Len(stream) THEN stream[i] ELSE sent[i - Len(stream)]
    BY <1>3, ConcatProperties
  <2>2. ASSUME NEW i \in 1 .. h + n
        PROVE  (stream \o sent)[q + i] = sent[i]
    <3>1. q + i \in 1 .. Len(stream) + Len(sent) /\ ~(q + i <= Len(stream)) /\ (q + i) - q = i
      BY <1>1, <1>3 DEF q
    <3>. QED
      BY <2>1, <3>1 DEF q
  <2>3. Len(stream \o sent) = q + h + n
    BY <1>1, <1>3, <2>1 DEF q
  <2>. QED
    BY <2>1, <2>2, <2>3
<1>7. from < written /\ written - from = n /\ from \in Nat
  BY <1>1, <1>2
<1>8. ASSUME NEW j \in 1 .. h
      PROVE  (stream \o sent)[q + j] = Frames!Byte("header", h + n)
  <2>1. j \in 1 .. h + n
    BY <1>1
  <2>. QED
    BY <1>3, <1>6, <2>1
<1>9. ASSUME NEW j \in 1 .. n
      PROVE  (stream \o sent)[(q + h) + j] = Frames!Byte(L.fields[from + j], from + j)
  <2>1. h + j \in 1 .. h + n /\ q + (h + j) = (q + h) + j /\ 0 + j = j
    BY <1>1
  <2>2. (stream \o sent)[q + (h + j)] = writeBuffer[j]
    BY <1>3, <1>6, <2>1
  <2>. QED
    BY <1>4, <2>1, <2>2
<1>10. Carries(L, stream \o sent, q + h, from, n)
  BY <1>9 DEF Carries
<1>11. ASSUME NEW i \in DOMAIN L.calls
       PROVE  /\ L.calls[i].call = "end" => ~(from < L.cuts[i] /\ L.cuts[i] < written)
              /\ L.calls[i].call = "block" => ~(L.cuts[i - 1] < written /\ written < L.cuts[i])
  <2>1. /\ i \in 1 .. Len(L.calls) /\ Len(L.calls) \in Nat
        /\ \A k \in 0 .. Len(L.calls) : L.cuts[k] \in 0 .. Len(L.fields)
        /\ \A k, j \in 0 .. Len(L.calls) : k <= j => L.cuts[k] <= L.cuts[j]
    BY <1>5, CutsInOrder
  <2>2. L.calls[i].call = "block" => ~(L.cuts[i - 1] < written /\ written < L.cuts[i])
    BY <1>1, <1>5, <2>1, LeftOpen
  <2>3. /\ done \in Nat /\ done + 1 \in 1 .. Len(L.calls)
        /\ written + Len(Head(toWrite).fields) = L.cuts[done + 1]
        /\ Len(Head(toWrite).fields) \in Nat
    BY <1>1, <1>5, LeftHead
  <2>. HIDE DEF done
  <2>4. CASE i <= done
    <3>1. i \in 1 .. done /\ i \in 0 .. Len(L.calls)
      BY <2>1, <2>3, <2>4
    <3>2. L.calls[i].call = "end" => L.cuts[i] <= from
      BY <1>5, <3>1 DEF done
    <3>3. L.cuts[i] \in Nat
      BY <2>1, <3>1
    <3>. QED
      BY <1>7, <2>2, <3>2, <3>3
  <2>5. CASE ~(i <= done)
    <3>1. i \in 0 .. Len(L.calls) /\ done + 1 \in 0 .. Len(L.calls) /\ done + 1 <= i
      BY <2>1, <2>3, <2>5
    <3>2. L.cuts[done + 1] <= L.cuts[i] /\ L.cuts[i] \in Nat /\ L.cuts[done + 1] \in Nat
      BY <2>1, <3>1
    <3>3. written <= L.cuts[done + 1]
      BY <1>1, <2>3, <3>2
    <3>. QED
      BY <1>1, <2>2, <3>2, <3>3
  <2>. QED
    BY <2>4, <2>5
<1>12. Unbroken(L, from, written)
  BY <1>11 DEF Unbroken
<1>13. q + h + n = q + h + (written - from) /\ h + (written - from) <= BufferSize
  BY <1>1, <1>7
<1>14. Piece(L, stream \o sent, q, from, q + h + n, written)
  <2>1. \A j \in 1 .. L.header :
           (stream \o sent)[q + j] = Frames!Byte("header", L.header + (written - from))
    BY <1>7, <1>8
  <2>2. Carries(L, stream \o sent, q + L.header, from, written - from)
    BY <1>7, <1>10
  <2>. QED
    BY <1>7, <1>12, <1>13, <2>1, <2>2 DEF Piece
<1>. QED
  BY <1>6, <1>14 DEF L, q, from, sent

\* Nothing is sent.
Keeps == wire' = wire /\ SentFields' = SentFields

\* What is still to show of a step of the writing end: the calls done, whose ends
\* are sent, and what was gathered.
LEMMA EndsAreSent ==
    ASSUME GoodLayout(Layout), FrameTypes, WriterInv, toWrite # <<>>,
           NEW done2 \in Nat, NEW sent2 \in Nat, SentFields <= sent2,
           LET done == Len(Layout.calls) - Len(toWrite) IN
              \/ done2 = done
              \/ /\ done2 = done + 1
                 /\ Head(toWrite).call = "end" => Layout.cuts[done + 1] <= sent2
    PROVE  \A i \in 1 .. done2 : Layout.calls[i].call = "end" => Layout.cuts[i] <= sent2
<1>. DEFINE L == Layout
            done == Len(L.calls) - Len(toWrite)
<1>1. /\ Frames!CutAt(L.calls, L.cuts, L.fields) /\ L.fields \in Seq(STRING)
      /\ Left(toWrite, L.calls, L.cuts, L.fields, written) /\ written \in Nat
      /\ \A i \in 1 .. done : L.calls[i].call = "end" => L.cuts[i] <= SentFields
      /\ Len(writeBuffer) <= written /\ Len(writeBuffer) \in Nat
  BY DEF GoodLayout, WriterInv, FrameTypes, Gathered
<1>2. SentFields \in Nat
  BY <1>1 DEF SentFields
<1>3. /\ done \in Nat /\ done + 1 \in 1 .. Len(L.calls)
      /\ Head(toWrite).call = L.calls[done + 1].call
  BY <1>1, LeftHead
<1>4. done2 = done \/ (done2 = done + 1 /\ (Head(toWrite).call = "end" => L.cuts[done + 1] <= sent2))
  OBVIOUS
<1>. HIDE DEF L, done
<1>. TAKE i \in 1 .. done2
<1>5. CASE i \in 1 .. done
  <2>1. i \in 0 .. Len(L.calls)
    BY <1>3, <1>5
  <2>2. L.cuts[i] \in 0 .. Len(L.fields)
    BY <1>1, <2>1, CutsInOrder
  <2>3. L.calls[i].call = "end" => L.cuts[i] <= SentFields
    BY <1>1, <1>5
  <2>. QED
    BY <1>2, <2>2, <2>3 DEF L
<1>6. CASE i \notin 1 .. done
  <2>1. i = done + 1 /\ done2 = done + 1
    BY <1>3, <1>4, <1>6
  <2>. QED
    BY <1>3, <1>4, <2>1 DEF L
<1>. QED
  BY <1>5, <1>6

\* The call at hand of the writing end.
LEMMA WriteHead ==
    ASSUME GoodLayout(Layout), FrameTypes, WriterInv, toWrite # <<>>
    PROVE  LET done == Len(Layout.calls) - Len(toWrite)
               head == Head(toWrite)
           IN  /\ done \in Nat /\ done + 1 \in 1 .. Len(Layout.calls)
               /\ head.call = Layout.calls[done + 1].call /\ head.fields \in Seq(STRING)
               /\ Len(head.fields) \in Nat
               /\ written + Len(head.fields) = Layout.cuts[done + 1]
               /\ \A i \in 1 .. Len(head.fields) : head.fields[i] = Layout.fields[written + i]
               /\ head.call = "end" <=> Len(head.fields) = 0
               /\ head.call = "block" => Layout.header + Len(head.fields) <= BufferSize
               /\ head.call # "end" => Len(toWrite) # 1
               /\ head.call = "end" /\ Len(toWrite) # 1 =>
                     Layout.calls[done + 2].call # "end"
<1>. DEFINE L == Layout
            done == Len(L.calls) - Len(toWrite)
            head == Head(toWrite)
<1>1. /\ Frames!CutAt(L.calls, L.cuts, L.fields) /\ L.fields \in Seq(STRING)
      /\ Left(toWrite, L.calls, L.cuts, L.fields, written) /\ written \in Nat
      /\ L.calls[Len(L.calls)].call = "end"
      /\ \A i \in 1 .. Len(L.calls) :
          /\ L.calls[i].call = "end" /\ i # Len(L.calls) => L.calls[i + 1].call # "end"
          /\ L.calls[i].call = "block" => L.header + Len(L.calls[i].fields) <= BufferSize
  BY DEF GoodLayout, WriterInv, FrameTypes
<1>. HIDE DEF L
<1>2. /\ done \in Nat /\ done + 1 \in 1 .. Len(L.calls)
      /\ head \in Calls /\ head.call = L.calls[done + 1].call
      /\ Len(head.fields) \in Nat /\ written + Len(head.fields) = L.cuts[done + 1]
      /\ \A i \in 1 .. Len(head.fields) : head.fields[i] = L.fields[written + i]
      /\ head.call = "end" <=> Len(head.fields) = 0
      /\ head.call # "raw" => Len(head.fields) = Len(L.calls[done + 1].fields)
  <2>1. /\ done \in Nat /\ done + 1 \in 1 .. Len(L.calls)
        /\ head \in Calls /\ head.call = L.calls[done + 1].call
    BY <1>1, LeftHead
  <2>2. /\ Len(head.fields) \in Nat /\ written + Len(head.fields) = L.cuts[done + 1]
        /\ \A i \in 1 .. Len(head.fields) : head.fields[i] = L.fields[written + i]
    BY <1>1, LeftHead
  <2>3. /\ head.call = "end" <=> Len(head.fields) = 0
        /\ head.call # "raw" => Len(head.fields) = Len(L.calls[done + 1].fields)
    BY <1>1, LeftHead
  <2>. QED
    BY <2>1, <2>2, <2>3
<1>3. head.fields \in Seq(STRING)
  BY <1>2 DEF Calls
<1>4. Len(L.calls) \in Nat /\ Len(toWrite) \in Nat
  BY <1>1, CutsInOrder DEF Left
<1>. HIDE DEF head
<1>5. Len(toWrite) = 1 => done + 1 = Len(L.calls)
  BY <1>4
<1>6. Len(toWrite) # 1 => done + 1 # Len(L.calls)
  <2>. PICK n \in Nat : n = Len(L.calls)
    BY <1>4
  <2>. PICK m \in Nat : m = Len(toWrite)
    BY <1>4
  <2>1. done = n - m
    OBVIOUS
  <2>2. m # 1 => (n - m) + 1 # n
    OBVIOUS
  <2>. HIDE DEF done
  <2>. QED
    BY <2>1, <2>2
<1>7. (done + 1) + 1 = done + 2
  BY <1>2
<1>. HIDE DEF done
<1>8. head.call # "end" => Len(toWrite) # 1
  BY <1>1, <1>2, <1>5
<1>9. head.call = "end" /\ Len(toWrite) # 1 => L.calls[done + 2].call # "end"
  BY <1>1, <1>2, <1>6, <1>7
<1>10. head.call = "block" => L.header + Len(head.fields) <= BufferSize
  BY <1>1, <1>2
<1>. QED
  BY <1>2, <1>3, <1>8, <1>9, <1>10 DEF L, head, done

\* A step that makes the call at hand.
LEMMA CallWasMade ==
    ASSUME GoodLayout(Layout), FrameTypes, WriterInv, toWrite # <<>>,
           connection' = connection, toWrite' = Tail(toWrite),
           written' = written + Len(Head(toWrite).fields),
           Gathered(Layout, writeBuffer', written'), writeBuffer' \in Seq(Cells),
           SentFields <= SentFields',
           Head(toWrite).call = "end" => writeBuffer' = <<>>,
           Head(toWrite).call # "end" => writeBuffer' # <<>>
    PROVE  WriterInv' /\ written' \in Nat
<1>. DEFINE L == Layout
            done == Len(L.calls) - Len(toWrite)
            head == Head(toWrite)
<1>1. /\ Frames!CutAt(L.calls, L.cuts, L.fields) /\ L.fields \in Seq(STRING)
      /\ Left(toWrite, L.calls, L.cuts, L.fields, written) /\ written \in Nat
  BY DEF GoodLayout, WriterInv, FrameTypes
<1>2. /\ done \in Nat /\ done + 1 \in 1 .. Len(L.calls)
      /\ Len(head.fields) \in Nat /\ written + Len(head.fields) = L.cuts[done + 1]
      /\ head.call = L.calls[done + 1].call
      /\ head.call # "end" => Len(toWrite) # 1
      /\ head.call = "end" /\ Len(toWrite) # 1 => L.calls[done + 2].call # "end"
  BY WriteHead
<1>3. Layout' = L
  BY DEF Layout
<1>4. written' = L.cuts[done + 1] /\ written' \in Nat
  BY <1>1, <1>2
<1>. HIDE DEF L, head
<1>5. /\ Left(Tail(toWrite), L.calls, L.cuts, L.fields, L.cuts[done + 1])
      /\ Tail(toWrite) \in Seq(Calls) /\ Len(Tail(toWrite)) = Len(toWrite) - 1
      /\ Len(L.calls) - Len(Tail(toWrite)) = done + 1
      /\ Tail(toWrite) # <<>> => Head(Tail(toWrite)) = L.calls[done + 2]
  BY <1>1, LeftTail
<1>6. Len(writeBuffer') <= written' /\ Len(writeBuffer') \in Nat
  BY DEF Gathered
<1>7. SentFields' \in Nat /\ SentFields' = written' - Len(writeBuffer')
  BY <1>4, <1>6 DEF SentFields
<1>8. head.call = "end" => written' <= SentFields'
  <2>1. head.call = "end" => Len(writeBuffer') = 0
    BY DEF head
  <2>. QED
    BY <1>4, <1>7, <2>1
<1>9. \A i \in 1 .. done + 1 : L.calls[i].call = "end" => L.cuts[i] <= SentFields'
  <2>1. done + 1 \in Nat /\ SentFields <= SentFields'
    BY <1>2
  <2>2. Head(toWrite).call = "end" => Layout.cuts[done + 1] <= SentFields'
    BY <1>4, <1>8 DEF L, head
  <2>3. done = Len(Layout.calls) - Len(toWrite)
    BY DEF L
  <2>. HIDE DEF done
  <2>. PICK sent2 \in Nat : sent2 = SentFields'
    BY <1>7
  <2>. PICK done2 \in Nat : done2 = done + 1
    BY <2>1
  <2>4. \A i \in 1 .. done2 : Layout.calls[i].call = "end" => Layout.cuts[i] <= sent2
    BY <2>1, <2>2, <2>3, EndsAreSent
  <2>. QED
    BY <2>4 DEF L
<1>10. toWrite' = <<>> => writeBuffer' = <<>>
  <2>1. Tail(toWrite) = <<>> => Len(toWrite) = 1
    <3>1. Len(toWrite) \in Nat
      BY <1>1 DEF Left
    <3>. DEFINE tail == Tail(toWrite)
    <3>. HIDE DEF tail
    <3>2. tail = <<>> => Len(tail) = 0
      OBVIOUS
    <3>. QED
      BY <1>5, <3>1, <3>2 DEF tail
  <2>. QED
    BY <1>2, <2>1 DEF head
<1>11. toWrite' # <<>> /\ Head(toWrite').call = "end" => writeBuffer' # <<>>
  <2>1. Tail(toWrite) # <<>> => Len(toWrite) # 1
    <3>1. Tail(toWrite) # <<>> => Len(Tail(toWrite)) # 0
      BY SMTT(30), <1>5
    <3>. QED
      BY <1>5, <3>1
  <2>. QED
    BY <1>2, <1>5, <2>1 DEF head
<1>12. Left(toWrite', L.calls, L.cuts, L.fields, written')
  BY <1>4, <1>5
<1>13. Len(L.calls) - Len(toWrite') = done + 1
  BY <1>5
<1>14. Gathered(L, writeBuffer', written')
  BY DEF L
<1>. HIDE DEF done
<1>. QED
  BY <1>3, <1>4, <1>9, <1>10, <1>11, <1>12, <1>13, <1>14 DEF WriterInv

\* What a step of the writing end leaves for the reading end.
WriterDoes ==
    /\ WriterInv' /\ written' \in Nat /\ writeBuffer' \in Seq(Cells)
    /\ Keeps \/ Sends

\* Some of the next fields are gathered.
LEMMA FieldsAreGathered ==
    ASSUME GoodLayout(Layout), FrameTypes, WriterInv, connection' = connection,
           NEW fields \in Seq(STRING),
           \A i \in 1 .. Len(fields) : fields[i] = Layout.fields[written + i],
           Layout.header + Len(writeBuffer) + Len(fields) <= BufferSize,
           writeBuffer' = writeBuffer \o Frames!Bytes(fields),
           written' = written + Len(fields)
    PROVE  /\ Gathered(Layout, writeBuffer', written') /\ writeBuffer' \in Seq(Cells)
           /\ SentFields' = SentFields /\ SentFields \in Nat
           /\ Len(fields) # 0 => writeBuffer' # <<>>
<1>. DEFINE L == Layout
            bytes == Frames!Bytes(fields)
<1>1. written \in Nat /\ writeBuffer \in Seq(Cells) /\ Gathered(L, writeBuffer, written)
  BY DEF FrameTypes, WriterInv
<1>2. bytes \in Seq(Cells) /\ Len(bytes) = Len(fields) /\ Carries(L, bytes, 0, written, Len(fields))
  BY <1>1, BytesCarry
<1>. HIDE DEF bytes
<1>3. /\ Gathered(L, writeBuffer \o bytes, written + Len(bytes))
      /\ writeBuffer \o bytes \in Seq(Cells)
      /\ Len(writeBuffer \o bytes) = Len(writeBuffer) + Len(bytes)
  <2>1. L.header + Len(writeBuffer) + Len(bytes) <= BufferSize
    BY <1>2
  <2>2. Carries(L, bytes, 0, written, Len(bytes))
    BY <1>2
  <2>3. GoodLayout(L)
    OBVIOUS
  <2>. PICK K : K = L
    OBVIOUS
  <2>. PICK pos \in Nat : pos = written
    BY <1>1
  <2>. PICK buffer \in Seq(Cells) : buffer = writeBuffer
    BY <1>1
  <2>. PICK more \in Seq(Cells) : more = bytes
    BY <1>2
  <2>. HIDE DEF L
  <2>4. GoodLayout(K)
    BY <2>3
  <2>5. Gathered(K, buffer, pos)
    BY <1>1
  <2>6. Carries(K, more, 0, pos, Len(more))
    BY <2>2
  <2>7. K.header + Len(buffer) + Len(more) <= BufferSize
    BY <2>1
  <2>8. /\ Gathered(K, buffer \o more, pos + Len(more))
        /\ buffer \o more \in Seq(Cells) /\ Len(buffer \o more) = Len(buffer) + Len(more)
    BY <2>4, <2>5, <2>6, <2>7, GatherMore
  <2>. QED
    BY <2>8
<1>4. writeBuffer' = writeBuffer \o bytes /\ written' = written + Len(bytes)
  BY <1>2 DEF bytes
<1>5. Len(bytes) \in Nat /\ Len(writeBuffer) \in Nat /\ Len(writeBuffer) <= written
  BY <1>1, <1>2 DEF Gathered
<1>6. Len(writeBuffer') = Len(writeBuffer) + Len(bytes)
  BY <1>3, <1>4
<1>7. SentFields' = SentFields /\ SentFields \in Nat
  BY <1>1, <1>4, <1>5, <1>6 DEF SentFields
<1>8. Len(bytes) # 0 => writeBuffer' # <<>>
  BY <1>5, <1>6
<1>. QED
  BY <1>2, <1>3, <1>4, <1>7, <1>8

LEMMA BlockIsWritten ==
    ASSUME GoodLayout(Layout), FrameTypes, WriterInv, connection' = connection, Frames!WriteBlock
    PROVE  WriterDoes
<1>. DEFINE head == Head(toWrite)
            fields == head.fields
<1>1. /\ toWrite # <<>> /\ head.call = "block"
      /\ IF Frames!Fits(fields)
         THEN writeBuffer' = writeBuffer \o Frames!Bytes(fields) /\ wire' = wire
         ELSE /\ writeBuffer' = Frames!Bytes(fields)
              /\ wire' = wire \o Frames!Sent(writeBuffer)
      /\ toWrite' = Tail(toWrite)
      /\ written' = written + Len(fields)
  BY DEF Frames!WriteBlock
<1>2. /\ fields \in Seq(STRING) /\ Len(fields) \in Nat /\ Len(fields) # 0
      /\ \A i \in 1 .. Len(fields) : fields[i] = Layout.fields[written + i]
      /\ Layout.header + Len(fields) <= BufferSize
  BY <1>1, WriteHead
<1>3. /\ written \in Nat /\ writeBuffer \in Seq(Cells) /\ Layout.header \in Nat
      /\ BufferSize \in Nat /\ Len(writeBuffer) <= written /\ Len(writeBuffer) \in Nat
  BY DEF FrameTypes, WriterInv, Gathered, GoodLayout
<1>4. Frames!Fits(fields) <=> Layout.header + Len(writeBuffer) + Len(fields) <= BufferSize
  BY HeaderIs DEF Frames!Fits
<1>5. CASE Frames!Fits(fields)
  <2>. HIDE DEF fields
  <2>1. /\ Gathered(Layout, writeBuffer', written') /\ writeBuffer' \in Seq(Cells)
        /\ SentFields' = SentFields /\ SentFields \in Nat /\ writeBuffer' # <<>>
    BY <1>1, <1>2, <1>4, <1>5, FieldsAreGathered
  <2>2. WriterInv' /\ written' \in Nat
    <3>1. SentFields <= SentFields'
      BY <2>1
    <3>. QED
      BY <1>1, <2>1, <3>1, CallWasMade DEF fields
  <2>. QED
    BY <1>1, <1>5, <2>1, <2>2 DEF WriterDoes, Keeps
<1>6. CASE ~Frames!Fits(fields)
  <2>. DEFINE bytes == Frames!Bytes(fields)
  <2>. HIDE DEF fields
  <2>1. /\ bytes \in Seq(Cells) /\ Len(bytes) = Len(fields)
        /\ Carries(Layout, bytes, 0, written, Len(bytes))
    BY <1>2, <1>3, BytesCarry
  <2>2. writeBuffer' = bytes /\ wire' = wire \o Frames!Sent(writeBuffer)
    BY <1>1, <1>6
  <2>. HIDE DEF bytes
  <2>3. written' = written + Len(bytes) /\ Len(bytes) \in Nat /\ Len(bytes) # 0
    BY <1>1, <1>2, <2>1
  <2>4. SentFields' = written
    BY <1>3, <2>2, <2>3 DEF SentFields
  <2>5. writeBuffer # <<>>
    BY <1>2, <1>3, <1>4, <1>6
  <2>6. Gathered(Layout, writeBuffer', written')
    <3>1. written' - Len(bytes) = written /\ Len(bytes) <= written'
      BY <1>3, <2>3
    <3>2. Layout.header + Len(bytes) <= BufferSize
      BY <1>2, <2>1
    <3>. QED
      BY <2>1, <2>2, <3>1, <3>2 DEF Gathered
  <2>7. SentFields <= SentFields' /\ writeBuffer' # <<>> /\ writeBuffer' \in Seq(Cells)
    <3>1. SentFields <= written
      BY <1>3 DEF SentFields
    <3>. QED
      BY <2>1, <2>2, <2>3, <2>4, <3>1
  <2>8. WriterInv' /\ written' \in Nat
    BY <1>1, <2>6, <2>7, CallWasMade DEF fields
  <2>. QED
    BY <1>1, <2>2, <2>4, <2>5, <2>7, <2>8 DEF WriterDoes, Sends
<1>. QED
  BY <1>5, <1>6

\* The frame is sent; nothing is gathered any more.
LEMMA AllIsSent ==
    ASSUME GoodLayout(Layout), FrameTypes, WriterInv, connection' = connection,
           writeBuffer' = <<>>, written' = written
    PROVE  /\ Gathered(Layout, writeBuffer', written') /\ writeBuffer' \in Seq(Cells)
           /\ SentFields' = written /\ SentFields <= SentFields' /\ written' \in Nat
           /\ SentFields' \in Nat
<1>1. written \in Nat /\ Len(writeBuffer) \in Nat /\ Len(<<>>) = 0
  BY DEF FrameTypes
<1>2. SentFields' = written /\ SentFields <= written
  BY <1>1 DEF SentFields
<1>3. Gathered(Layout, <<>>, written)
  BY <1>1, NothingGathered
<1>. QED
  BY <1>1, <1>2, <1>3

LEMMA RawIsWritten ==
    ASSUME GoodLayout(Layout), FrameTypes, WriterInv, connection' = connection, Frames!WriteRaw
    PROVE  WriterDoes
<1>. DEFINE head == Head(toWrite)
            fields == head.fields
            room == BufferSize - (Frames!Header + Len(writeBuffer))
            size == Frames!LeastOf(room, Len(fields))
            chunk == SubSeq(fields, 1, size)
            rest == SubSeq(fields, Len(chunk) + 1, Len(fields))
            done == Len(Layout.calls) - Len(toWrite)
<1>1. /\ written \in Nat /\ writeBuffer \in Seq(Cells) /\ Layout.header \in Nat
      /\ BufferSize \in Nat /\ Len(writeBuffer) <= written /\ Len(writeBuffer) \in Nat
      /\ Layout.header < BufferSize /\ Layout.header + Len(writeBuffer) <= BufferSize
  BY DEF FrameTypes, WriterInv, Gathered, GoodLayout
<1>2. toWrite # <<>> /\ head.call = "raw"
  BY DEF Frames!WriteRaw
<1>3. /\ fields \in Seq(STRING) /\ Len(fields) \in Nat /\ Len(fields) # 0
      /\ \A i \in 1 .. Len(fields) : fields[i] = Layout.fields[written + i]
      /\ done \in Nat
  BY <1>2, WriteHead
<1>4. room \in Nat /\ room = BufferSize - (Layout.header + Len(writeBuffer))
  BY <1>1, HeaderIs
<1>. HIDE DEF room
<1>5. /\ Len(chunk) = size /\ chunk \in Seq(STRING) /\ size \in 0 .. Len(fields) /\ size <= room
      /\ room # 0 => size # 0
      /\ \A i \in 1 .. size : chunk[i] = fields[i]
  <2>1. /\ size \in 0 .. Len(fields) /\ size <= room
        /\ room # 0 => size # 0
    BY <1>3, <1>4 DEF Frames!LeastOf
  <2>. HIDE DEF size, fields
  <2>2. \A i \in 1 .. size : fields[i] \in STRING
    BY <1>3, <2>1
  <2>3. /\ chunk \in Seq(STRING) /\ Len(chunk) = IF 1 <= size THEN size - 1 + 1 ELSE 0
        /\ \A i \in 1 .. size - 1 + 1 : chunk[i] = fields[1 + i - 1]
    BY <2>1, <2>2, SubSeqProperties
  <2>4. size - 1 + 1 = size /\ \A i \in 1 .. size : 1 + i - 1 = i
    BY <2>1
  <2>. QED
    BY <2>1, <2>3, <2>4
<1>6. IF room = 0
      THEN /\ wire' = wire \o Frames!Sent(writeBuffer) /\ writeBuffer' = <<>>
           /\ toWrite' = toWrite /\ written' = written
      ELSE /\ writeBuffer' = writeBuffer \o Frames!Bytes(chunk)
           /\ written' = written + Len(chunk)
           /\ toWrite' = IF rest = <<>> THEN Tail(toWrite)
                         ELSE <<[call |-> "raw", fields |-> rest]>> \o Tail(toWrite)
           /\ wire' = wire
  BY DEF Frames!WriteRaw, room
<1>. HIDE DEF chunk
<1>7. CASE room = 0
  <2>1. /\ Gathered(Layout, writeBuffer', written') /\ writeBuffer' \in Seq(Cells)
        /\ SentFields' = written /\ SentFields <= SentFields' /\ written' \in Nat
        /\ SentFields' \in Nat
    BY <1>6, <1>7, AllIsSent
  <2>2. writeBuffer # <<>>
    <3>1. Len(writeBuffer) # 0
      BY <1>1, <1>4, <1>7
    <3>. QED
      BY <3>1
  <2>3. Sends
    BY <1>2, <1>6, <1>7, <2>1, <2>2 DEF Sends
  <2>4. \A i \in 1 .. done : Layout.calls[i].call = "end" => Layout.cuts[i] <= SentFields'
    <3>. PICK done2 \in Nat : done2 = done
      BY <1>3
    <3>. PICK sent2 \in Nat : sent2 = SentFields'
      BY <2>1
    <3>1. \A i \in 1 .. done2 : Layout.calls[i].call = "end" => Layout.cuts[i] <= sent2
      BY <1>2, <2>1, EndsAreSent
    <3>. QED
      BY <3>1
  <2>5. Layout' = Layout
    BY DEF Layout
  <2>6. Left(toWrite, Layout.calls, Layout.cuts, Layout.fields, written)
    BY DEF WriterInv
  <2>7. toWrite' = toWrite /\ written' = written
    BY <1>6, <1>7
  <2>8. WriterInv'
    BY <1>2, <2>1, <2>4, <2>5, <2>6, <2>7 DEF WriterInv
  <2>. QED
    BY <2>1, <2>3, <2>8 DEF WriterDoes
<1>8. CASE room # 0
  <2>1. writeBuffer' = writeBuffer \o Frames!Bytes(chunk) /\ written' = written + Len(chunk)
        /\ wire' = wire
        /\ toWrite' = IF rest = <<>> THEN Tail(toWrite)
                      ELSE <<[call |-> "raw", fields |-> rest]>> \o Tail(toWrite)
    BY <1>6, <1>8
  <2>2. /\ \A i \in 1 .. Len(chunk) : chunk[i] = Layout.fields[written + i]
        /\ Layout.header + Len(writeBuffer) + Len(chunk) <= BufferSize
        /\ chunk \in Seq(STRING) /\ Len(chunk) # 0 /\ Len(chunk) \in Nat
    <3>. HIDE DEF size, fields
    <3>1. Len(chunk) \in Nat /\ Len(chunk) # 0 /\ Len(chunk) <= Len(fields)
          /\ Len(chunk) <= room
      BY <1>5, <1>8
    <3>2. \A i \in 1 .. Len(chunk) : chunk[i] = Layout.fields[written + i]
      BY <1>3, <1>5, <3>1
    <3>3. Layout.header + Len(writeBuffer) + Len(chunk) <= BufferSize
      BY <1>1, <1>4, <3>1
    <3>. QED
      BY <1>5, <3>1, <3>2, <3>3
  <2>3. /\ Gathered(Layout, writeBuffer', written') /\ writeBuffer' \in Seq(Cells)
        /\ SentFields' = SentFields /\ SentFields \in Nat /\ writeBuffer' # <<>>
    BY <2>1, <2>2, FieldsAreGathered
  <2>4. Keeps
    BY <2>1, <2>3 DEF Keeps
  <2>5. CASE size = Len(fields)
    <3>1. rest = <<>>
      <4>1. Len(chunk) + 1 \in Int /\ Len(fields) \in Int /\ Len(fields) < Len(chunk) + 1
        BY <1>3, <1>5, <2>5
      <4>. QED
        BY <4>1, SubSeqEmpty
    <3>2. toWrite' = Tail(toWrite) /\ written' = written + Len(Head(toWrite).fields)
      BY <1>5, <2>1, <2>5, <3>1
    <3>3. SentFields <= SentFields'
      BY <2>3
    <3>4. WriterInv' /\ written' \in Nat
      BY <1>2, <2>3, <3>2, <3>3, CallWasMade
    <3>. QED
      BY <2>3, <2>4, <3>4 DEF WriterDoes
  <2>6. CASE size # Len(fields)
    <3>1. size \in 1 .. Len(fields) /\ size \in Nat
      BY <1>3, <1>5, <1>8
    <3>2. rest # <<>>
      <4>. HIDE DEF size, fields
      <4>1. \A i \in size + 1 .. Len(fields) : fields[i] \in STRING
        BY <1>3, <3>1
      <4>0. rest = SubSeq(fields, size + 1, Len(fields))
        BY <1>5
      <4>2. Len(rest) = IF size + 1 <= Len(fields) THEN Len(fields) - (size + 1) + 1 ELSE 0
        <5>1. size + 1 \in Int /\ Len(fields) \in Int
          BY <1>3, <3>1
        <5>. HIDE DEF rest
        <5>. QED
          BY <4>0, <4>1, <5>1, SubSeqProperties
      <4>3. Len(rest) # 0
        BY <1>3, <2>6, <3>1, <4>2
      <4>. HIDE DEF rest
      <4>. QED
        BY <4>3
    <3>. DEFINE part == <<[call |-> "raw", fields |-> rest]>> \o Tail(toWrite)
    <3>3. toWrite' = part
      BY <2>1, <3>2
    <3>4. /\ Frames!CutAt(Layout.calls, Layout.cuts, Layout.fields)
          /\ Layout.fields \in Seq(STRING)
          /\ Left(toWrite, Layout.calls, Layout.cuts, Layout.fields, written)
      BY DEF GoodLayout, WriterInv
    <3>5. /\ Left(part, Layout.calls, Layout.cuts, Layout.fields, written + size)
          /\ part # <<>> /\ Head(part).call = "raw" /\ Len(part) = Len(toWrite)
      <4>. PICK g \in 1 .. Len(Head(toWrite).fields) : g = size
        BY <3>1
      <4>1. g # Len(Head(toWrite).fields)
        BY <2>6
      <4>2. rest = SubSeq(Head(toWrite).fields, g + 1, Len(Head(toWrite).fields))
        BY <1>5
      <4>3. Head(toWrite).call = "raw" /\ written \in Nat
        BY <1>1, <1>2
      <4>. PICK part2 : part2 = part
        OBVIOUS
      <4>4. PartLeft(part2, toWrite, g)
        BY <4>2 DEF PartLeft
      <4>. HIDE DEF part, size
      <4>5. /\ Left(part2, Layout.calls, Layout.cuts, Layout.fields, written + g)
            /\ part2 # <<>> /\ Head(part2).call = "raw" /\ Len(part2) = Len(toWrite)
        BY <1>2, <3>4, <4>1, <4>3, <4>4, LeftPart
      <4>. QED
        BY <4>5
    <3>. HIDE DEF part
    <3>6. written' = written + size /\ written' \in Nat
      BY <1>1, <1>5, <2>1, <3>1
    <3>7. \A i \in 1 .. done : Layout.calls[i].call = "end" => Layout.cuts[i] <= SentFields'
      BY <2>3 DEF WriterInv
    <3>8. Layout' = Layout
      BY DEF Layout
    <3>. HIDE DEF size
    <3>9. WriterInv'
      BY <2>3, <3>3, <3>5, <3>6, <3>7, <3>8 DEF WriterInv
    <3>. QED
      BY <2>3, <2>4, <3>6, <3>9 DEF WriterDoes
  <2>. QED
    BY <2>5, <2>6
<1>. QED
  BY <1>7, <1>8

LEMMA FrameIsEnded ==
    ASSUME GoodLayout(Layout), FrameTypes, WriterInv, connection' = connection, Frames!EndWrite
    PROVE  WriterDoes
<1>1. /\ toWrite # <<>> /\ Head(toWrite).call = "end"
      /\ wire' = wire \o Frames!Sent(writeBuffer)
      /\ writeBuffer' = <<>> /\ toWrite' = Tail(toWrite) /\ written' = written
  BY DEF Frames!EndWrite
<1>2. /\ Gathered(Layout, writeBuffer', written') /\ writeBuffer' \in Seq(Cells)
      /\ SentFields' = written /\ SentFields <= SentFields' /\ written' \in Nat
  BY <1>1, AllIsSent
<1>3. writeBuffer # <<>>
  BY <1>1 DEF WriterInv
<1>4. written' = written + Len(Head(toWrite).fields)
  <2>1. Len(Head(toWrite).fields) = 0
    BY <1>1, WriteHead
  <2>2. written \in Nat
    BY DEF FrameTypes
  <2>3. written + 0 = written
    BY <2>2
  <2>. DEFINE n == Len(Head(toWrite).fields)
  <2>4. n = 0
    BY <2>1
  <2>5. written' = written
    BY <1>1
  <2>. HIDE DEF n
  <2>6. written' = written + n
    BY <2>3, <2>4, <2>5
  <2>. QED
    BY <2>6 DEF n
<1>5. WriterInv' /\ written' \in Nat
  BY <1>1, <1>2, <1>4, CallWasMade
<1>. QED
  BY <1>1, <1>2, <1>3, <1>5 DEF WriterDoes, Sends

-----------------------------------------------------------------------------
(* The calls of the reading end.                                           *)

\* The calls for the frame at hand, and where they cut the fields.
Reads    == Frames!ReadCalls(connection.frames[Begun])
ReadCuts == Frames!ReadBounds(connection, Begun)

\* The calls of both ends agree, for every frame.
GoodFrames(c, L) ==
    /\ c.frames \in Seq({c.frames[k] : k \in DOMAIN c.frames})
    /\ Frames!FrameEnds(c)[0] = 0 /\ Frames!FrameEnds(c)[Len(c.frames)] = Len(L.fields)
    /\ \A k \in 1 .. Len(c.frames) : Frames!ReadsAgree(c, k, L.calls, L.cuts, L.fields)

LEMMA FramesAreGood ==
    ASSUME Frames!LayoutsAgree, NEW c \in Connections
    PROVE  GoodFrames(c, LayoutOf(c))
<1>. DEFINE L == LayoutOf(c)
<1>1. Frames!LayoutAgrees(c)
  BY DEF Frames!LayoutsAgree
<1>2. /\ L.calls = Frames!AllCalls(c.frames) /\ L.cuts = Frames!WriteBounds(c)
      /\ L.fields = Frames!FieldsOf(L.calls)
  BY DEF LayoutOf
<1>. HIDE DEF L
<1>3. /\ c.frames \in Seq({c.frames[k] : k \in DOMAIN c.frames})
      /\ Frames!FrameEnds(c)[0] = 0 /\ Frames!FrameEnds(c)[Len(c.frames)] = Len(L.fields)
      /\ \A k \in DOMAIN c.frames : Frames!ReadsAgree(c, k, L.calls, L.cuts, L.fields)
  BY <1>1, <1>2 DEF Frames!LayoutAgrees
<1>4. DOMAIN c.frames = 1 .. Len(c.frames)
  BY <1>3
<1>5. GoodFrames(c, L)
  BY <1>3, <1>4 DEF GoodFrames
<1>. QED
  BY <1>5 DEF L

\* The frames begun are behind toRead; what was taken are the fields before the
\* calls that are left of the frame at hand.
ReaderInv ==
    /\ toRead \in Seq({connection.frames[k] : k \in DOMAIN connection.frames})
    /\ Len(toRead) <= Len(connection.frames)
    /\ \A i \in 1 .. Len(toRead) : toRead[i] = connection.frames[Begun + i]
    /\ reading = <<>> => taken = Frames!FrameEnds(connection)[Begun]
    /\ reading # <<>> => Begun # 0 /\ Left(reading, Reads, ReadCuts, Layout.fields, taken)

\* What the calls are for, as ReadsAgree has it.
LEMMA ReadsAreGood ==
    ASSUME GoodFrames(connection, Layout), ReaderInv, Begun # 0
    PROVE  /\ Begun \in 1 .. Len(connection.frames)
           /\ Frames!CutAt(Reads, ReadCuts, Layout.fields)
           /\ ReadCuts[0] = Frames!FrameEnds(connection)[Begun - 1]
           /\ ReadCuts[Len(Reads)] = Frames!FrameEnds(connection)[Begun]
           /\ \E j \in DOMAIN Layout.calls : /\ Layout.calls[j].call = "end"
                                             /\ Layout.cuts[j] = Frames!FrameEnds(connection)[Begun]
           /\ \A i \in DOMAIN Reads :
                 /\ Reads[i].call = "block" => \E j \in DOMAIN Layout.calls :
                       /\ Layout.calls[j].call = "block"
                       /\ Layout.cuts[j - 1] <= ReadCuts[i - 1] /\ ReadCuts[i] <= Layout.cuts[j]
                 /\ Reads[i].call = "end" => \E j \in DOMAIN Layout.calls :
                       Layout.calls[j].call = "end" /\ Layout.cuts[j] = ReadCuts[i]
<1>1. Begun \in 1 .. Len(connection.frames)
  <2>1. Len(connection.frames) \in Nat /\ Len(toRead) \in Nat /\ Len(toRead) <= Len(connection.frames)
    BY DEF GoodFrames, ReaderInv
  <2>. QED
    BY <2>1 DEF Begun
<1>2. Frames!ReadsAgree(connection, Begun, Layout.calls, Layout.cuts, Layout.fields)
  BY <1>1 DEF GoodFrames
<1>. QED
  BY <1>1, <1>2, Zenon DEF Frames!ReadsAgree, Reads, ReadCuts

\* The call at hand of the reading end.
LEMMA ReadHead ==
    ASSUME GoodLayout(Layout), GoodFrames(connection, Layout), FrameTypes, ReaderInv,
           reading # <<>>
    PROVE  LET head == Head(reading) IN
           /\ head.fields \in Seq(STRING) /\ Len(head.fields) \in Nat
           /\ \A i \in 1 .. Len(head.fields) : head.fields[i] = Layout.fields[taken + i]
           /\ head.call = "end" <=> Len(head.fields) = 0
           /\ head.call \in {"block", "raw", "end"}
           /\ head.call = "block" => \E j \in DOMAIN Layout.calls :
                 /\ Layout.calls[j].call = "block"
                 /\ Layout.cuts[j - 1] <= taken /\ taken + Len(head.fields) <= Layout.cuts[j]
           /\ head.call = "end" => \E j \in DOMAIN Layout.calls :
                 Layout.calls[j].call = "end" /\ Layout.cuts[j] = taken
<1>. DEFINE head == Head(reading)
            done == Len(Reads) - Len(reading)
<1>1. /\ Begun # 0 /\ Left(reading, Reads, ReadCuts, Layout.fields, taken)
      /\ taken \in Nat /\ Layout.fields \in Seq(STRING)
  BY DEF ReaderInv, FrameTypes, GoodLayout
<1>2. /\ Frames!CutAt(Reads, ReadCuts, Layout.fields)
      /\ \A i \in DOMAIN Reads :
                 /\ Reads[i].call = "block" => \E j \in DOMAIN Layout.calls :
                       /\ Layout.calls[j].call = "block"
                       /\ Layout.cuts[j - 1] <= ReadCuts[i - 1] /\ ReadCuts[i] <= Layout.cuts[j]
                 /\ Reads[i].call = "end" => \E j \in DOMAIN Layout.calls :
                       Layout.calls[j].call = "end" /\ Layout.cuts[j] = ReadCuts[i]
  BY <1>1, ReadsAreGood
<1>3. /\ done \in Nat /\ done + 1 \in 1 .. Len(Reads)
      /\ head \in Calls /\ head.call = Reads[done + 1].call
      /\ Len(head.fields) \in Nat /\ taken + Len(head.fields) = ReadCuts[done + 1]
      /\ \A i \in 1 .. Len(head.fields) : head.fields[i] = Layout.fields[taken + i]
      /\ head.call = "end" <=> Len(head.fields) = 0
      /\ head.call # "raw" => taken = ReadCuts[done]
  BY <1>1, <1>2, LeftHead
<1>4. Reads \in Seq(Calls)
  BY <1>1, <1>2, CutsInOrder
<1>5. done + 1 \in DOMAIN Reads /\ (done + 1) - 1 = done
  BY <1>3, <1>4
<1>6. head.fields \in Seq(STRING) /\ head.call \in {"block", "raw", "end"}
  BY <1>3 DEF Calls
<1>. HIDE DEF head, done
<1>7. head.call = "block" => \E j \in DOMAIN Layout.calls :
                 /\ Layout.calls[j].call = "block"
                 /\ Layout.cuts[j - 1] <= taken /\ taken + Len(head.fields) <= Layout.cuts[j]
  <2>. SUFFICES ASSUME head.call = "block"
                PROVE  \E j \in DOMAIN Layout.calls :
                          /\ Layout.calls[j].call = "block"
                          /\ Layout.cuts[j - 1] <= taken
                          /\ taken + Len(head.fields) <= Layout.cuts[j]
    OBVIOUS
  <2>1. Reads[done + 1].call = "block" /\ taken = ReadCuts[done]
    BY <1>3
  <2>2. PICK j \in DOMAIN Layout.calls :
                       /\ Layout.calls[j].call = "block"
                       /\ Layout.cuts[j - 1] <= ReadCuts[(done + 1) - 1]
                       /\ ReadCuts[done + 1] <= Layout.cuts[j]
    BY <1>2, <1>5, <2>1, Zenon
  <2>. QED
    BY <1>3, <1>5, <2>1, <2>2
<1>8. head.call = "end" => \E j \in DOMAIN Layout.calls :
                 Layout.calls[j].call = "end" /\ Layout.cuts[j] = taken
  <2>. SUFFICES ASSUME head.call = "end"
                PROVE  \E j \in DOMAIN Layout.calls :
                          Layout.calls[j].call = "end" /\ Layout.cuts[j] = taken
    OBVIOUS
  <2>1. Reads[done + 1].call = "end"
    BY <1>3
  <2>2. ReadCuts[done + 1] = taken
    <3>1. Len(head.fields) = 0
      BY <1>3
    <3>. QED
      BY <1>1, <1>3, <3>1
  <2>. QED
    BY <1>2, <1>5, <2>1, <2>2
<1>. QED
  BY <1>3, <1>6, <1>7, <1>8 DEF head

\* The calls of the frame at hand stay the same.
ReadsStay ==
    connection' = connection /\ toRead' = toRead

LEMMA ReadsUnchanged ==
    ASSUME ReadsStay
    PROVE  Layout' = Layout /\ Begun' = Begun /\ Reads' = Reads /\ ReadCuts' = ReadCuts
BY DEF ReadsStay, Layout, Begun, Reads, ReadCuts

\* The reading end makes the call at hand.
LEMMA CallWasRead ==
    ASSUME GoodLayout(Layout), GoodFrames(connection, Layout), FrameTypes, ReaderInv,
           reading # <<>>, ReadsStay, reading' = Tail(reading),
           taken' = taken + Len(Head(reading).fields)
    PROVE  ReaderInv' /\ taken' \in Nat
<1>. DEFINE head == Head(reading)
            done == Len(Reads) - Len(reading)
<1>1. /\ Begun # 0 /\ Left(reading, Reads, ReadCuts, Layout.fields, taken)
      /\ taken \in Nat /\ Layout.fields \in Seq(STRING)
  BY DEF ReaderInv, FrameTypes, GoodLayout
<1>2. /\ Frames!CutAt(Reads, ReadCuts, Layout.fields)
      /\ ReadCuts[Len(Reads)] = Frames!FrameEnds(connection)[Begun]
  BY <1>1, ReadsAreGood
<1>3. /\ Len(head.fields) \in Nat /\ taken + Len(head.fields) = ReadCuts[done + 1]
  BY <1>1, <1>2, LeftHead
<1>4. Left(Tail(reading), Reads, ReadCuts, Layout.fields, ReadCuts[done + 1])
  BY <1>1, <1>2, LeftTail
<1>5. taken' = ReadCuts[done + 1] /\ taken' \in Nat
  BY <1>1, <1>3
<1>6. Left(reading', Reads, ReadCuts, Layout.fields, taken')
  BY <1>4, <1>5
<1>7. reading' = <<>> => taken' = Frames!FrameEnds(connection)[Begun]
  BY <1>2, <1>6 DEF Left
<1>8. /\ Layout' = Layout /\ Begun' = Begun /\ Reads' = Reads /\ ReadCuts' = ReadCuts
      /\ connection' = connection /\ toRead' = toRead
  BY ReadsUnchanged DEF ReadsStay
<1>. QED
  BY <1>1, <1>5, <1>6, <1>7, <1>8 DEF ReaderInv

\* It makes a part of it.
LEMMA PartWasRead ==
    ASSUME GoodLayout(Layout), GoodFrames(connection, Layout), FrameTypes, ReaderInv,
           reading # <<>>, ReadsStay, Head(reading).call = "raw",
           NEW size \in 1 .. Len(Head(reading).fields), size # Len(Head(reading).fields),
           PartLeft(reading', reading, size), taken' = taken + size
    PROVE  ReaderInv' /\ taken' \in Nat /\ reading' # <<>> /\ Head(reading').call = "raw"
<1>1. /\ Begun # 0 /\ Left(reading, Reads, ReadCuts, Layout.fields, taken)
      /\ taken \in Nat /\ Layout.fields \in Seq(STRING)
  BY DEF ReaderInv, FrameTypes, GoodLayout
<1>2. Frames!CutAt(Reads, ReadCuts, Layout.fields)
  BY <1>1, ReadsAreGood
<1>3. Len(Head(reading).fields) \in Nat /\ size \in Nat
  BY ReadHead
<1>. PICK part : part = reading'
  OBVIOUS
<1>4. PartLeft(part, reading, size)
  OBVIOUS
<1>5. /\ Left(part, Reads, ReadCuts, Layout.fields, taken + size)
      /\ part # <<>> /\ Head(part).call = "raw"
  BY <1>1, <1>2, <1>4, LeftPart
<1>6. Left(reading', Reads, ReadCuts, Layout.fields, taken') /\ taken' \in Nat
  BY <1>1, <1>3, <1>5
<1>7. /\ Layout' = Layout /\ Begun' = Begun /\ Reads' = Reads /\ ReadCuts' = ReadCuts
      /\ connection' = connection /\ toRead' = toRead
  BY ReadsUnchanged DEF ReadsStay
<1>8. reading' # <<>> /\ Head(reading').call = "raw"
  BY <1>5
<1>. QED
  BY <1>1, <1>6, <1>7, <1>8 DEF ReaderInv

\* It makes none.
LEMMA NothingWasRead ==
    ASSUME ReaderInv, ReadsStay, UNCHANGED <<reading, taken>>
    PROVE  ReaderInv'
<1>1. /\ Layout' = Layout /\ Begun' = Begun /\ Reads' = Reads /\ ReadCuts' = ReadCuts
      /\ connection' = connection /\ toRead' = toRead
  BY ReadsUnchanged DEF ReadsStay
<1>. QED
  BY <1>1 DEF ReaderInv

\* The next frame is begun.
LEMMA FrameIsBegun ==
    ASSUME GoodLayout(Layout), GoodFrames(connection, Layout), FrameTypes, ReaderInv,
           reading = <<>>, toRead # <<>>, connection' = connection,
           reading' = Frames!ReadCalls(Head(toRead)), toRead' = Tail(toRead), taken' = taken
    PROVE  ReaderInv' /\ Begun' # 0
<1>. DEFINE All == {connection.frames[k] : k \in DOMAIN connection.frames}
            n == Len(connection.frames)
            next == Begun + 1
<1>1. /\ toRead \in Seq(All) /\ Len(toRead) <= n /\ n \in Nat
      /\ \A i \in 1 .. Len(toRead) : toRead[i] = connection.frames[Begun + i]
      /\ taken = Frames!FrameEnds(connection)[Begun]
  BY DEF ReaderInv, GoodFrames
<1>. HIDE DEF All, n
<1>2. Begun = n - Len(toRead) /\ Len(toRead) \in Nat \ {0}
  BY <1>1 DEF Begun, n
<1>3. Begun \in Nat /\ next \in 1 .. n /\ next # 0 /\ next - 1 = Begun
  BY <1>1, <1>2
<1>4. /\ Tail(toRead) \in Seq(All) /\ Len(Tail(toRead)) = Len(toRead) - 1
      /\ \A i \in 1 .. Len(Tail(toRead)) : Tail(toRead)[i] = toRead[i + 1]
  BY <1>1, HeadTailProperties
<1>5. Begun' = next
  <2>1. Begun' = n - Len(Tail(toRead))
    BY DEF Begun, n
  <2>. QED
    BY <1>1, <1>2, <1>4, <2>1
<1>6. Head(toRead) = connection.frames[next]
  BY <1>1, <1>2
<1>. HIDE DEF next
<1>7. /\ Reads' = Frames!ReadCalls(connection.frames[next])
      /\ ReadCuts' = Frames!ReadBounds(connection, next)
      /\ Layout' = Layout
  BY <1>5 DEF Reads, ReadCuts, Layout
<1>8. reading' = Reads'
  BY <1>6, <1>7
<1>9. Frames!ReadsAgree(connection, next, Layout.calls, Layout.cuts, Layout.fields)
  BY <1>3 DEF GoodFrames, n
<1>10. /\ Frames!CutAt(Reads', ReadCuts', Layout.fields)
       /\ ReadCuts'[0] = Frames!FrameEnds(connection)[next - 1]
       /\ ReadCuts'[Len(Reads')] = Frames!FrameEnds(connection)[next]
  BY <1>7, <1>9, Zenon DEF Frames!ReadsAgree
<1>11. ReadCuts'[0] = taken
  BY <1>1, <1>3, <1>10
<1>12. Left(reading', Reads', ReadCuts', Layout.fields, taken')
  <2>1. Left(Reads', Reads', ReadCuts', Layout.fields, ReadCuts'[0])
    <3>1. Layout.fields \in Seq(STRING)
      BY DEF GoodLayout
    <3>. PICK calls : calls = Reads'
      OBVIOUS
    <3>. PICK cuts : cuts = ReadCuts'
      OBVIOUS
    <3>2. Left(calls, calls, cuts, Layout.fields, cuts[0])
      BY <1>10, <3>1, LeftAll
    <3>. QED
      BY <3>2
  <2>. QED
    BY <1>8, <1>11, <2>1
<1>13. reading' = <<>> => taken' = Frames!FrameEnds(connection)[next]
  BY <1>8, <1>10, <1>12 DEF Left
<1>14. /\ toRead' \in Seq(All) /\ Len(toRead') <= n
       /\ \A i \in 1 .. Len(toRead') : toRead'[i] = connection.frames[next + i]
  <2>1. Len(Tail(toRead)) <= n
    BY <1>1, <1>2, <1>4
  <2>2. ASSUME NEW i \in 1 .. Len(Tail(toRead))
        PROVE  Tail(toRead)[i] = connection.frames[next + i]
    <3>1. i + 1 \in 1 .. Len(toRead) /\ Begun + (i + 1) = next + i
      BY <1>2, <1>3, <1>4 DEF next
    <3>. QED
      BY <1>1, <1>4, <3>1
  <2>. QED
    BY <1>4, <2>1, <2>2
<1>. QED
  BY <1>3, <1>5, <1>7, <1>12, <1>13, <1>14 DEF ReaderInv, All, n

-----------------------------------------------------------------------------
(* What the reading end holds.                                             *)

\* The reading end asks for more fields.
Demands == reading # <<>> /\ Head(reading).call # "end"

\* A frame of a socket is at hand: what was not read of it are the next fields, it
\* ends where it was sent to its end and inside no block, and further frames follow.
\* Where one was written to its end, more is at hand only if it was asked for.
SocketIdle ==
    /\ readIndex <= endFrameIndex /\ endFrameIndex <= Len(readBuffer)
    /\ Len(readBuffer) <= BufferSize
    /\ Carries(Layout, readBuffer, readIndex, taken, Unread)
    /\ Unbroken(Layout, taken, taken + Unread)
    /\ Unread # 0 =>
          /\ Begun # 0
          /\ Demands \/ \A i \in DOMAIN Layout.calls :
                           Layout.calls[i].call = "end" => Layout.cuts[i] # taken
    /\ Chain(Layout, Stream, endFrameIndex, taken + Unread, SentFields)

\* The next frame of a socket is being received, for fields that are asked for.
SocketFetching ==
    /\ readIndex = Layout.header /\ Begun # 0 /\ Demands
    /\ Len(readBuffer) + sizeToRead <= BufferSize
    /\ headerRead <=> Layout.header <= Len(readBuffer)
    /\ ~headerRead => Layout.header <= Len(readBuffer) + sizeToRead
    /\ Chain(Layout, Stream, 0, taken, SentFields)

\* The local channel has the next fields at hand, and those behind them on the way.
LocalReads ==
    /\ sizeToRead = 0
    /\ readIndex <= endFrameIndex /\ endFrameIndex = Len(readBuffer)
    /\ Len(readBuffer) <= BufferSize
    /\ taken + (Len(Stream) - readIndex) = SentFields
    /\ Carries(Layout, Stream, readIndex, taken, Len(Stream) - readIndex)

Receives ==
    IF connection.local THEN LocalReads
    ELSE IF sizeToRead = 0 THEN SocketIdle ELSE SocketFetching

\* Fields at the front are passed.
LEMMA CarriesOn ==
    ASSUME NEW L, NEW stream, NEW place \in Nat, NEW from \in Nat, NEW count \in Nat,
           Carries(L, stream, place, from, count), NEW n \in 0 .. count
    PROVE  Carries(L, stream, place + n, from + n, count - n)
<1>. SUFFICES ASSUME NEW j \in 1 .. count - n
              PROVE  stream[(place + n) + j] = Frames!Byte(L.fields[(from + n) + j], (from + n) + j)
  BY DEF Carries
<1>1. n + j \in 1 .. count /\ place + (n + j) = (place + n) + j /\ from + (n + j) = (from + n) + j
  OBVIOUS
<1>. QED
  BY <1>1 DEF Carries

\* The bytes that are handed out are those of the fields they are taken for.
LEMMA TakesFields ==
    ASSUME FrameTypes, NEW L, NEW count \in Nat, Carries(L, readBuffer, readIndex, taken, count),
           NEW fields \in Seq(STRING), Len(fields) <= count,
           readIndex + count <= Len(readBuffer),
           \A i \in 1 .. Len(fields) : fields[i] = L.fields[taken + i],
           Frames!Take(fields), ~misread
    PROVE  ~misread'
<1>. DEFINE n == Len(fields)
            bytes == SubSeq(readBuffer, readIndex + 1, readIndex + n)
            meant == [i \in DOMAIN fields |-> Frames!Byte(fields[i], taken + i)]
<1>1. misread' = (misread \/ bytes # meant)
  BY DEF Frames!Take
<1>2. n \in Nat /\ n <= count /\ readIndex \in Nat /\ taken \in Nat /\ readBuffer \in Seq(Cells)
      /\ readIndex + n <= Len(readBuffer)
  BY DEF FrameTypes
<1>3. DOMAIN fields = 1 .. n
  OBVIOUS
<1>4. \A i \in 1 .. n : fields[i] = L.fields[taken + i] /\ fields[i] \in STRING
  OBVIOUS
<1>. HIDE DEF n
<1>5. \A i \in 1 .. n : Frames!Byte(fields[i], taken + i) \in Cells
  BY <1>2, <1>4 DEF Cells, Frames!Byte
<1>6. /\ meant \in Seq(Cells) /\ Len(meant) = n
      /\ \A i \in 1 .. n : meant[i] = Frames!Byte(fields[i], taken + i)
  BY <1>2, <1>3, <1>5, IsASeq
<1>7. /\ bytes \in Seq(Cells) /\ Len(bytes) = n
      /\ \A i \in 1 .. n : bytes[i] = readBuffer[readIndex + i]
  <2>1. \A i \in readIndex + 1 .. readIndex + n : readBuffer[i] \in Cells
    BY <1>2
  <2>2. /\ bytes \in Seq(Cells)
        /\ Len(bytes) = IF readIndex + 1 <= readIndex + n
                        THEN (readIndex + n) - (readIndex + 1) + 1 ELSE 0
        /\ \A i \in 1 .. (readIndex + n) - (readIndex + 1) + 1 :
              bytes[i] = readBuffer[(readIndex + 1) + i - 1]
    <3>1. readIndex + 1 \in Int /\ readIndex + n \in Int
      BY <1>2
    <3>. QED
      BY <2>1, <3>1, SubSeqProperties
  <2>3. (readIndex + n) - (readIndex + 1) + 1 = n
    BY <1>2
  <2>4. \A i \in 1 .. n : (readIndex + 1) + i - 1 = readIndex + i
    BY <1>2
  <2>. HIDE DEF bytes
  <2>5. Len(bytes) = n
    BY <1>2, <2>2, <2>3
  <2>. QED
    BY <2>2, <2>3, <2>4, <2>5
<1>8. \A i \in 1 .. n : readBuffer[readIndex + i] = Frames!Byte(L.fields[taken + i], taken + i)
  BY <1>2 DEF Carries
<1>. HIDE DEF bytes, meant
<1>9. bytes = meant
  <2>1. \A i \in 1 .. Len(bytes) : bytes[i] = meant[i]
    BY <1>4, <1>6, <1>7, <1>8
  <2>. QED
    BY <1>6, <1>7, <2>1, SeqEqual
<1>. QED
  BY <1>1, <1>9

\* An end is looked for where the frame at hand was read to its end.
LEMMA ReadToItsEnd ==
    ASSUME GoodLayout(Layout), GoodFrames(connection, Layout), FrameTypes, ReaderInv, SocketIdle,
           reading # <<>>, Head(reading).call = "end"
    PROVE  Unread = 0
<1>1. PICK j \in DOMAIN Layout.calls : Layout.calls[j].call = "end" /\ Layout.cuts[j] = taken
  BY ReadHead
<1>2. ~Demands
  BY DEF Demands
<1>. QED
  BY <1>1, <1>2 DEF SocketIdle

\* So it is when no frame is being read.
LEMMA NothingBetweenFrames ==
    ASSUME GoodFrames(connection, Layout), ReaderInv, SocketIdle, reading = <<>>
    PROVE  Unread = 0
<1>. SUFFICES ASSUME Unread # 0
              PROVE  FALSE
  OBVIOUS
<1>1. Begun # 0 /\ taken = Frames!FrameEnds(connection)[Begun]
  BY DEF SocketIdle, ReaderInv
<1>2. \E j \in DOMAIN Layout.calls : /\ Layout.calls[j].call = "end"
                                     /\ Layout.cuts[j] = Frames!FrameEnds(connection)[Begun]
  BY <1>1, ReadsAreGood
<1>3. ~Demands
  BY DEF Demands
<1>. QED
  BY <1>1, <1>2, <1>3 DEF SocketIdle

\* More is wanted only when the frame at hand was read to its end: a block is never
\* cut by the end of a frame.
LEMMA WantsWhenRead ==
    ASSUME GoodLayout(Layout), GoodFrames(connection, Layout), FrameTypes, ReaderInv, SocketIdle,
           Frames!Wants
    PROVE  Unread = 0 /\ Demands
<1>1. /\ reading # <<>>
      /\ \/ Head(reading).call = "block" /\ Unread < Len(Head(reading).fields)
         \/ Head(reading).call = "raw" /\ Unread = 0
  BY DEF Frames!Wants, Unread
<1>2. Demands
  BY <1>1 DEF Demands
<1>3. CASE Head(reading).call = "block"
  <2>. DEFINE n == Len(Head(reading).fields)
  <2>1. n \in Nat /\ Unread < n
    BY <1>1, <1>3, ReadHead
  <2>2. PICK j \in DOMAIN Layout.calls :
           /\ Layout.calls[j].call = "block"
           /\ Layout.cuts[j - 1] <= taken /\ taken + n <= Layout.cuts[j]
    BY <1>1, <1>3, ReadHead
  <2>. HIDE DEF n
  <2>3. Unread \in Nat /\ taken \in Nat
    BY DEF SocketIdle, FrameTypes, Unread
  <2>4. ~(Layout.cuts[j - 1] < taken + Unread /\ taken + Unread < Layout.cuts[j])
    BY <2>2 DEF SocketIdle, Unbroken
  <2>5. Layout.cuts[j - 1] \in Nat /\ Layout.cuts[j] \in Nat
    <3>1. /\ Frames!CutAt(Layout.calls, Layout.cuts, Layout.fields)
          /\ Layout.fields \in Seq(STRING) /\ Layout.calls \in Seq(Calls)
      BY DEF GoodLayout
    <3>2. j \in 1 .. Len(Layout.calls)
      BY <3>1
    <3>3. /\ Layout.cuts[j - 1] \in 0 .. Len(Layout.fields)
          /\ Layout.cuts[j] \in 0 .. Len(Layout.fields)
      BY <3>1, <3>2, CutsOfCall
    <3>. QED
      BY <3>3
  <2>6. taken + Unread < Layout.cuts[j]
    BY <2>1, <2>2, <2>3, <2>5
  <2>7. Unread # 0 => Layout.cuts[j - 1] < taken + Unread
    BY <2>2, <2>3, <2>5
  <2>. QED
    BY <1>2, <2>4, <2>6, <2>7
<1>. QED
  BY <1>1, <1>2, <1>3

\* What a step of the reading end leaves alone.
OnlyReads ==
    /\ ReadsStay
    /\ UNCHANGED <<toWrite, writeBuffer, written>>

LEMMA SentUnchanged ==
    ASSUME OnlyReads
    PROVE  SentFields' = SentFields
BY DEF OnlyReads, SentFields

\* Fields of the frame at hand are read.
LEMMA FieldsAreRead ==
    ASSUME GoodLayout(Layout), FrameTypes, ~misread, SocketIdle, OnlyReads,
           NEW fields \in Seq(STRING), Len(fields) # 0, Len(fields) <= Unread,
           \A i \in 1 .. Len(fields) : fields[i] = Layout.fields[taken + i],
           Frames!Take(fields),
           UNCHANGED <<wire, readBuffer, endFrameIndex, sizeToRead, headerRead>>
    PROVE  SocketIdle' /\ ~misread' /\ readIndex' \in Nat
<1>. DEFINE n == Len(fields)
            L == Layout
            end == taken + Unread
<1>1. /\ n \in Nat \ {0} /\ n <= Unread /\ Unread \in Nat /\ taken \in Nat /\ readIndex \in Nat
      /\ endFrameIndex \in Nat /\ readIndex + Unread = endFrameIndex
      /\ endFrameIndex <= Len(readBuffer) /\ Len(readBuffer) \in Nat
  BY DEF SocketIdle, FrameTypes, Unread
<1>2. readIndex' = readIndex + n /\ taken' = taken + n
  BY DEF Frames!Take
<1>3. Carries(L, readBuffer, readIndex, taken, Unread)
  BY DEF SocketIdle
<1>4. ~misread'
  <2>1. readIndex + Unread <= Len(readBuffer)
    BY <1>1
  <2>. QED
    BY <1>1, <1>3, <2>1, TakesFields
<1>. HIDE DEF n, end
<1>5. Unread' = Unread - n /\ taken' + Unread' = end
  BY <1>1, <1>2 DEF Unread, end
<1>6. Layout' = L /\ Begun' = Begun /\ SentFields' = SentFields /\ Stream' = Stream
  BY ReadsUnchanged, SentUnchanged DEF OnlyReads, Stream
<1>7. Carries(L, readBuffer', readIndex', taken', Unread')
  <2>1. n \in 0 .. Unread
    BY <1>1
  <2>2. Carries(L, readBuffer, readIndex + n, taken + n, Unread - n)
    BY <1>1, <1>3, <2>1, CarriesOn
  <2>. QED
    BY <1>2, <1>5, <2>2
<1>8. \A i \in DOMAIN L.calls :
         /\ L.calls[i].call = "end" => ~(taken < L.cuts[i] /\ L.cuts[i] < end)
         /\ L.calls[i].call = "block" => ~(L.cuts[i - 1] < end /\ end < L.cuts[i])
  BY DEF SocketIdle, Unbroken, end
<1>9. \A i \in DOMAIN L.calls : L.cuts[i] \in Nat
  <2>1. /\ Frames!CutAt(L.calls, L.cuts, L.fields) /\ L.fields \in Seq(STRING)
        /\ L.calls \in Seq(Calls)
    BY DEF GoodLayout
  <2>. HIDE DEF L
  <2>2. \A i \in DOMAIN L.calls : i \in 0 .. Len(L.calls)
    BY <2>1
  <2>3. \A i \in 0 .. Len(L.calls) : L.cuts[i] \in 0 .. Len(L.fields)
    BY <2>1, CutsInOrder
  <2>. QED
    BY <2>2, <2>3
<1>. HIDE DEF L
<1>10. Unbroken(L, taken', end)
  <2>1. \A i \in DOMAIN L.calls : taken' < L.cuts[i] => taken < L.cuts[i]
    BY <1>1, <1>2, <1>9
  <2>. QED
    BY <1>8, <2>1 DEF Unbroken
<1>11. Unread' # 0 => Begun # 0 /\ \A i \in DOMAIN L.calls :
                                    L.calls[i].call = "end" => L.cuts[i] # taken'
  <2>. SUFFICES ASSUME Unread' # 0
                PROVE  Begun # 0 /\ \A i \in DOMAIN L.calls :
                                       L.calls[i].call = "end" => L.cuts[i] # taken'
    OBVIOUS
  <2>1. Begun # 0
    BY <1>1 DEF SocketIdle
  <2>2. taken < taken' /\ taken' < end
    BY <1>1, <1>2, <1>5 DEF end
  <2>. QED
    BY <1>8, <2>1, <2>2
<1>12. Chain(L, Stream, endFrameIndex, end, SentFields)
  BY DEF SocketIdle, L, end
<1>13. /\ readIndex' <= endFrameIndex' /\ endFrameIndex' <= Len(readBuffer')
       /\ Len(readBuffer') <= BufferSize /\ readIndex' \in Nat
  <2>1. Len(readBuffer) <= BufferSize
    BY DEF SocketIdle
  <2>2. readIndex + n <= endFrameIndex /\ readIndex + n \in Nat
    BY <1>1
  <2>. QED
    BY <1>1, <1>2, <2>1, <2>2
<1>14. SocketIdle'
  <2>1. endFrameIndex' = endFrameIndex
    OBVIOUS
  <2>. QED
    BY <1>5, <1>6, <1>7, <1>10, <1>11, <1>12, <1>13, <2>1 DEF SocketIdle
<1>. QED
  BY <1>4, <1>13, <1>14

\* The header at the beginning of a chain holds the size of the first frame.
LEMMA HeaderTellsSize ==
    ASSUME NEW L, GoodLayout(L), L.header # 0, NEW buffer \in Seq(Cells), NEW more \in Seq(Cells),
           L.header <= Len(buffer), NEW from \in Nat, NEW to \in Nat,
           Chain(L, buffer \o more, 0, from, to)
    PROVE  \E next \in Nat :
              LET end == L.header + (next - from) IN
              /\ buffer[1].number = end /\ end <= BufferSize
              /\ from < next /\ Unbroken(L, from, next)
              /\ end <= Len(buffer) => Carries(L, buffer, L.header, from, next - from)
              /\ Chain(L, buffer \o more, end, next, to)
<1>. DEFINE stream == buffer \o more
            h == L.header
            b == Len(buffer)
<1>1. h \in Nat /\ h # 0 /\ b \in Nat /\ h <= b
  BY DEF GoodLayout
<1>2. /\ stream \in Seq(Cells) /\ Len(stream) = b + Len(more) /\ Len(more) \in Nat
      /\ \A i \in 1 .. b : stream[i] = buffer[i]
  <2>1. /\ stream \in Seq(Cells) /\ Len(stream) = b + Len(more) /\ Len(more) \in Nat
        /\ \A i \in 1 .. b + Len(more) : stream[i] = IF i <= b THEN buffer[i] ELSE more[i - b]
    BY ConcatProperties
  <2>2. \A i \in 1 .. b : i \in 1 .. b + Len(more) /\ i <= b
    BY <1>1, <2>1
  <2>. HIDE DEF stream
  <2>. QED
    BY <2>1, <2>2
<1>3. Chain(L, stream, 0, from, to)
  OBVIOUS
<1>. HIDE DEF stream, b
<1>4. PICK next \in Nat :
              /\ from < next /\ next <= to /\ 0 + h + (next - from) <= Len(stream)
              /\ Piece(L, stream, 0, from, 0 + h + (next - from), next)
              /\ Chain(L, stream, 0 + h + (next - from), next, to)
  <2>1. 0 # Len(stream)
    BY <1>1, <1>2
  <2>. QED
    BY <1>1, <1>2, <1>3, <2>1, ChainFirst
<1>. DEFINE end == h + (next - from)
<1>5. 0 + h + (next - from) = end /\ end \in Nat /\ next - from \in Nat /\ 0 + h = h
  BY <1>1, <1>4
<1>6. /\ end <= BufferSize /\ Unbroken(L, from, next)
      /\ \A j \in 1 .. h : stream[0 + j] = Frames!Byte("header", end)
      /\ \A j \in 1 .. next - from : stream[h + j] = Frames!Byte(L.fields[from + j], from + j)
  <2>1. Piece(L, stream, 0, from, end, next)
    BY <1>4, <1>5
  <2>. QED
    BY <1>5, <2>1 DEF Piece, Carries
<1>7. buffer[1].number = end
  <2>1. 1 \in 1 .. h /\ 1 \in 1 .. b /\ 0 + 1 = 1
    BY <1>1
  <2>2. buffer[1] = Frames!Byte("header", end)
    BY <1>2, <1>6, <2>1
  <2>. QED
    BY <2>2 DEF Frames!Byte
<1>8. end <= b => Carries(L, buffer, h, from, next - from)
  <2>. SUFFICES ASSUME end <= b, NEW j \in 1 .. next - from
                PROVE  buffer[h + j] = Frames!Byte(L.fields[from + j], from + j)
    BY DEF Carries
  <2>1. h + j \in 1 .. b
    BY <1>1, <1>5
  <2>. QED
    BY <1>2, <1>6, <2>1
<1>9. Chain(L, stream, end, next, to)
  BY <1>4, <1>5
<1>. QED
  BY <1>4, <1>6, <1>7, <1>8, <1>9 DEF stream, b

\* What BeginRead comes to once it has looked at what arrived: the frame is at hand,
\* or there is room for what is missing of it.
LEMMA FetchGoesOn ==
    ASSUME GoodLayout(Layout), Layout.header # 0, FrameTypes, ReaderInv, OnlyReads,
           NEW buffer \in Seq(Cells), NEW toReceive \in Nat, NEW known \in BOOLEAN,
           Frames!Fetch(buffer, toReceive, known),
           wire' \in Seq(Cells), UNCHANGED <<reading, taken>>,
           readIndex' = Layout.header, Demands, SentFields \in Nat,
           Len(buffer) <= BufferSize,
           known => Layout.header <= Len(buffer),
           Len(buffer) < Layout.header =>
              Layout.header <= Len(buffer) + toReceive /\ Len(buffer) + toReceive <= BufferSize,
           Chain(Layout, buffer \o wire', 0, taken, SentFields)
    PROVE  /\ IF sizeToRead' = 0 THEN SocketIdle' ELSE SocketFetching'
           /\ readBuffer' \in Seq(Cells) /\ endFrameIndex' \in Nat /\ sizeToRead' \in Nat
           /\ headerRead' \in BOOLEAN
<1>. DEFINE L == Layout
            h == L.header
            b == Len(buffer)
<1>1. /\ h \in Nat /\ b \in Nat /\ taken \in Nat /\ endFrameIndex \in Nat /\ b <= BufferSize
      /\ h # 0 /\ BufferSize \in Nat
  BY DEF GoodLayout, FrameTypes
<1>2. /\ readBuffer' = buffer
      /\ headerRead' = (known \/ b >= h)
      /\ endFrameIndex' = IF known \/ b >= h THEN buffer[1].number ELSE endFrameIndex
      /\ sizeToRead' = IF ~(known \/ b >= h) THEN toReceive
                       ELSE IF b >= endFrameIndex' THEN 0 ELSE endFrameIndex' - b
  BY HeaderIs DEF Frames!Fetch
<1>3. (known \/ b >= h) <=> h <= b
  BY <1>1
<1>4. /\ Layout' = L /\ Begun' = Begun /\ SentFields' = SentFields /\ Demands' /\ Begun # 0
      /\ Stream' = buffer \o wire'
  <2>1. /\ Layout' = L /\ Begun' = Begun /\ SentFields' = SentFields
    BY ReadsUnchanged, SentUnchanged DEF OnlyReads
  <2>2. Demands' /\ Begun # 0
    BY DEF Demands, ReaderInv
  <2>. QED
    BY <1>2, <2>1, <2>2 DEF Stream
<1>5. Chain(L, buffer \o wire', 0, taken, SentFields)
  OBVIOUS
<1>6. GoodLayout(L)
  OBVIOUS
<1>. HIDE DEF L, b
<1>7. CASE h <= b
  <2>. PICK more \in Seq(Cells) : more = wire'
    OBVIOUS
  <2>. PICK from \in Nat : from = taken
    BY <1>1
  <2>. PICK to \in Nat : to = SentFields
    OBVIOUS
  <2>1. Chain(L, buffer \o more, 0, from, to) /\ h <= Len(buffer)
    BY <1>5, <1>7 DEF b
  <2>2. PICK next \in Nat :
              /\ buffer[1].number = h + (next - from) /\ h + (next - from) <= BufferSize
              /\ from < next /\ Unbroken(L, from, next)
              /\ h + (next - from) <= Len(buffer) => Carries(L, buffer, h, from, next - from)
              /\ Chain(L, buffer \o more, h + (next - from), next, to)
    BY <1>1, <1>6, <2>1, HeaderTellsSize
  <2>. DEFINE end == h + (next - from)
  <2>3. end \in Nat /\ h <= end /\ end - h = next - from /\ from + (next - from) = next
        /\ next - from \in Nat
    <3>1. from < next
      BY <2>2
    <3>. QED
      BY <1>1, <3>1
  <2>4. endFrameIndex' = end /\ headerRead'
        /\ sizeToRead' = IF b >= end THEN 0 ELSE end - b
    BY <1>2, <1>3, <1>7, <2>2
  <2>5. Unread' = next - from
    BY <2>3, <2>4 DEF Unread, L
  <2>6. CASE b >= end
    <3>1. sizeToRead' = 0
      BY <2>4, <2>6
    <3>2. Carries(L, buffer, h, from, next - from)
      BY <1>1, <2>2, <2>3, <2>6 DEF b
    <3>3. /\ readIndex' <= endFrameIndex' /\ endFrameIndex' <= Len(readBuffer')
          /\ Len(readBuffer') <= BufferSize
      BY <1>1, <1>2, <2>3, <2>4, <2>6 DEF L, b
    <3>4. Carries(L, readBuffer', readIndex', taken', Unread')
      BY <1>2, <2>5, <3>2 DEF L
    <3>5. Unbroken(L, taken', taken' + Unread')
      BY <2>2, <2>3, <2>5
    <3>6. Chain(L, Stream', endFrameIndex', taken' + Unread', SentFields')
      BY <1>4, <2>2, <2>3, <2>4, <2>5
    <3>7. SocketIdle'
      BY <1>4, <3>3, <3>4, <3>5, <3>6 DEF SocketIdle
    <3>. QED
      BY <1>2, <2>3, <2>4, <3>1, <3>7
  <2>7. CASE ~(b >= end)
    <3>1. sizeToRead' = end - b /\ end - b # 0 /\ end - b \in Nat
      BY SMTT(30), <1>1, <2>3, <2>4, <2>7
    <3>2. Len(readBuffer') + sizeToRead' <= BufferSize
      BY SMTT(30), <1>1, <1>2, <2>2, <2>3, <3>1 DEF b
    <3>3. Chain(L, Stream', 0, taken', SentFields')
      BY <1>4, <1>5
    <3>4. headerRead' /\ h <= Len(readBuffer')
      BY <1>2, <1>7, <2>4 DEF b
    <3>5. SocketFetching'
      BY <1>4, <3>2, <3>3, <3>4 DEF SocketFetching, L
    <3>. QED
      BY <1>2, <2>3, <2>4, <3>1, <3>5
  <2>. QED
    BY <2>6, <2>7
<1>8. CASE ~(h <= b)
  <2>1. ~headerRead' /\ endFrameIndex' = endFrameIndex /\ sizeToRead' = toReceive
    BY <1>2, <1>3, <1>8
  <2>2. h <= b + toReceive /\ b + toReceive <= BufferSize
    BY <1>1, <1>8 DEF L, b
  <2>3. toReceive # 0
    BY <1>1, <1>8, <2>2
  <2>4. Chain(L, Stream', 0, taken', SentFields')
    BY <1>4, <1>5
  <2>5. ~(h <= Len(readBuffer')) /\ h <= Len(readBuffer') + sizeToRead'
        /\ Len(readBuffer') + sizeToRead' <= BufferSize
    BY <1>2, <1>8, <2>1, <2>2 DEF b
  <2>6. SocketFetching'
    BY <1>4, <2>1, <2>4, <2>5 DEF SocketFetching, L
  <2>. QED
    BY <1>1, <1>2, <2>1, <2>3, <2>6
<1>. QED
  BY <1>7, <1>8

\* What the whole state keeps to.
FramesInv ==
    /\ FrameTypes
    /\ WriterInv
    /\ ReaderInv
    /\ Receives
    /\ ~misread

\* What is assumed of the connections, for the one at hand.
Assumed ==
    /\ GoodLayout(Layout) /\ GoodFrames(connection, Layout)
    /\ connection.local \in BOOLEAN
    /\ Layout.header = IF connection.local THEN 0 ELSE SizeOfHeader
    /\ SizeOfHeader \in Nat \ {0} /\ DefaultSizeToRead \in Nat
    /\ SizeOfHeader <= DefaultSizeToRead /\ DefaultSizeToRead + SizeOfHeader <= BufferSize

LEMMA ConnectionAssumed ==
    ASSUME Frames!ChannelAssumption, Frames!LayoutsAgree, connection \in Connections
    PROVE  Assumed
<1>1. GoodLayout(Layout) /\ GoodFrames(connection, Layout)
  BY LayoutIsGood, FramesAreGood DEF Layout
<1>2. connection.local \in BOOLEAN
  BY DEF Frames!ChannelAssumption
<1>3. Layout.header = IF connection.local THEN 0 ELSE SizeOfHeader
  BY DEF Layout, LayoutOf, Frames!HeaderOf
<1>4. /\ SizeOfHeader \in Nat \ {0} /\ DefaultSizeToRead \in Nat
      /\ SizeOfHeader <= DefaultSizeToRead /\ DefaultSizeToRead + SizeOfHeader <= BufferSize
  BY DEF Frames!ChannelAssumption
<1>. QED
  BY <1>1, <1>2, <1>3, <1>4 DEF Assumed

LEMMA SentIsNat ==
    ASSUME FrameTypes, WriterInv
    PROVE  SentFields \in Nat /\ SentFields <= written
<1>1. Len(writeBuffer) <= written /\ Len(writeBuffer) \in Nat /\ written \in Nat
  BY DEF FrameTypes, WriterInv, Gathered
<1>. QED
  BY <1>1 DEF SentFields

\* The writing end is as it was when only the reading end goes on.
LEMMA WriterWaits ==
    ASSUME WriterInv, OnlyReads
    PROVE  WriterInv'
<1>1. Layout' = Layout /\ SentFields' = SentFields
  BY ReadsUnchanged, SentUnchanged DEF OnlyReads
<1>. QED
  BY <1>1 DEF WriterInv, OnlyReads

-----------------------------------------------------------------------------
(* The steps of the reading end.                                           *)

\* What was received beyond the frame, and what follows, is the rest of the stream.
LEMMA RestIsBehind ==
    ASSUME NEW buffer \in Seq(Cells), NEW more \in Seq(Cells),
           NEW start \in Nat, NEW end \in Nat, start <= end, end <= Len(buffer),
           end = Len(buffer)
    PROVE  LET rest == SubSeq(buffer, start + 1, end) IN
           /\ rest \in Seq(Cells) /\ Len(rest) = end - start
           /\ rest \o more \in Seq(Cells) /\ Behind(rest \o more, buffer \o more, start)
<1>. DEFINE rest == SubSeq(buffer, start + 1, end)
            n == end - start
<1>1. Len(buffer) \in Nat /\ Len(more) \in Nat /\ n \in Nat /\ start + n = end
  OBVIOUS
<1>. HIDE DEF n
<1>2. /\ rest \in Seq(Cells) /\ Len(rest) = n
      /\ \A i \in 1 .. n : rest[i] = buffer[start + i]
  <2>1. \A i \in start + 1 .. end : buffer[i] \in Cells
    BY <1>1
  <2>2. /\ rest \in Seq(Cells)
        /\ Len(rest) = IF start + 1 <= end THEN end - (start + 1) + 1 ELSE 0
        /\ \A i \in 1 .. end - (start + 1) + 1 : rest[i] = buffer[(start + 1) + i - 1]
    <3>1. start + 1 \in Int /\ end \in Int
      BY <1>1
    <3>. QED
      BY <2>1, <3>1, SubSeqProperties
  <2>3. end - (start + 1) + 1 = n /\ \A i \in 1 .. n : (start + 1) + i - 1 = start + i
    BY <1>1
  <2>. HIDE DEF rest
  <2>4. Len(rest) = n
    BY <1>1, <2>2, <2>3
  <2>. QED
    BY <2>2, <2>3, <2>4
<1>. HIDE DEF rest
<1>3. /\ rest \o more \in Seq(Cells) /\ Len(rest \o more) = n + Len(more)
      /\ \A i \in 1 .. n + Len(more) :
            (rest \o more)[i] = IF i <= n THEN rest[i] ELSE more[i - n]
  BY <1>2, ConcatProperties
<1>4. /\ Len(buffer \o more) = end + Len(more)
      /\ \A i \in 1 .. end + Len(more) :
            (buffer \o more)[i] = IF i <= end THEN buffer[i] ELSE more[i - end]
  BY ConcatProperties
<1>5. ASSUME NEW i \in 1 .. n + Len(more)
      PROVE  (rest \o more)[i] = (buffer \o more)[start + i]
  <2>1. start + i \in 1 .. end + Len(more)
    BY <1>1
  <2>2. CASE i <= n
    <3>1. start + i <= end /\ i \in 1 .. n
      BY <1>1, <2>2
    <3>. QED
      BY <1>2, <1>3, <1>4, <2>1, <2>2, <3>1
  <2>3. CASE ~(i <= n)
    <3>1. ~(start + i <= end) /\ (start + i) - end = i - n
      BY <1>1, <2>3
    <3>. QED
      BY <1>3, <1>4, <2>1, <2>3, <3>1
  <2>. QED
    BY <2>2, <2>3
<1>6. end + Len(more) = start + (n + Len(more))
  BY <1>1
<1>7. Behind(rest \o more, buffer \o more, start)
  BY <1>3, <1>4, <1>5, <1>6 DEF Behind
<1>. QED
  BY <1>2, <1>3, <1>7 DEF rest, n

\* Receiving takes what it adds to the buffer off the wire.
LEMMA StreamStays ==
    ASSUME NEW buffer \in Seq(Cells), NEW more \in Seq(Cells), NEW size \in 1 .. Len(more)
    PROVE  LET front == SubSeq(more, 1, size)
               back  == SubSeq(more, size + 1, Len(more))
           IN  /\ front \in Seq(Cells) /\ back \in Seq(Cells)
               /\ Len(front) = size /\ Len(back) = Len(more) - size
               /\ buffer \o front \in Seq(Cells) /\ Len(buffer \o front) = Len(buffer) + size
               /\ (buffer \o front) \o back = buffer \o more
<1>. DEFINE front == SubSeq(more, 1, size)
            back == SubSeq(more, size + 1, Len(more))
            m == Len(more)
<1>1. m \in Nat /\ size \in 1 .. m /\ size \in Nat
  OBVIOUS
<1>2. /\ front \in Seq(Cells) /\ Len(front) = size
      /\ \A i \in 1 .. size : front[i] = more[i]
  <2>1. \A i \in 1 .. size : more[i] \in Cells
    BY <1>1
  <2>2. /\ front \in Seq(Cells) /\ Len(front) = IF 1 <= size THEN size - 1 + 1 ELSE 0
        /\ \A i \in 1 .. size - 1 + 1 : front[i] = more[1 + i - 1]
    BY <1>1, <2>1, SubSeqProperties
  <2>3. size - 1 + 1 = size /\ \A i \in 1 .. size : 1 + i - 1 = i
    BY <1>1
  <2>. HIDE DEF front
  <2>4. Len(front) = size
    BY <1>1, <2>2, <2>3
  <2>. QED
    BY <2>2, <2>3, <2>4
<1>3. /\ back \in Seq(Cells) /\ Len(back) = m - size
      /\ \A i \in 1 .. m - size : back[i] = more[size + i]
  <2>1. \A i \in size + 1 .. m : more[i] \in Cells
    BY <1>1
  <2>2. /\ back \in Seq(Cells) /\ Len(back) = IF size + 1 <= m THEN m - (size + 1) + 1 ELSE 0
        /\ \A i \in 1 .. m - (size + 1) + 1 : back[i] = more[(size + 1) + i - 1]
    <3>1. size + 1 \in Int /\ m \in Int
      BY <1>1
    <3>. QED
      BY <2>1, <3>1, SubSeqProperties
  <2>3. /\ m - (size + 1) + 1 = m - size
        /\ \A i \in 1 .. m - size : (size + 1) + i - 1 = size + i
    BY <1>1
  <2>. HIDE DEF back, m
  <2>4. Len(back) = m - size
    BY <1>1, <2>2, <2>3
  <2>. QED
    BY <2>2, <2>3, <2>4
<1>. HIDE DEF front, back, m
<1>4. front \o back = more
  <2>2. size + (m - size) = m
    BY <1>1
  <2>1. /\ front \o back \in Seq(Cells) /\ Len(front \o back) = m
        /\ \A i \in 1 .. m : (front \o back)[i] = IF i <= size THEN front[i] ELSE back[i - size]
    <3>1. /\ front \o back \in Seq(Cells) /\ Len(front \o back) = Len(front) + Len(back)
          /\ \A i \in 1 .. Len(front) + Len(back) : (front \o back)[i] =
                IF i <= Len(front) THEN front[i] ELSE back[i - Len(front)]
      BY <1>2, <1>3, ConcatProperties
    <3>. QED
      BY <1>2, <1>3, <2>2, <3>1
  <2>3. ASSUME NEW i \in 1 .. m
        PROVE  (front \o back)[i] = more[i]
    <3>1. CASE i <= size
      BY <1>2, <2>1, <2>2, <3>1
    <3>2. CASE ~(i <= size)
      <4>1. i - size \in 1 .. m - size /\ size + (i - size) = i
        BY <1>1, <3>2
      <4>. QED
        BY <1>3, <2>1, <2>2, <3>2, <4>1
    <3>. QED
      BY <3>1, <3>2
  <2>4. Len(front \o back) = Len(more)
    BY <2>1, <2>2 DEF m
  <2>5. \A i \in 1 .. Len(front \o back) : (front \o back)[i] = more[i]
    BY <2>3, <2>4 DEF m
  <2>. QED
    BY <2>1, <2>4, <2>5, SeqEqual
<1>5. buffer \o front \in Seq(Cells) /\ Len(buffer \o front) = Len(buffer) + size
  BY <1>2, ConcatProperties
<1>6. (buffer \o front) \o back = buffer \o more
  <2>1. (buffer \o front) \o back = buffer \o (front \o back)
    <3>. PICK s \in Seq(Cells) : s = front
      BY <1>2
    <3>. PICK t \in Seq(Cells) : t = back
      BY <1>3
    <3>1. (buffer \o s) \o t = buffer \o (s \o t)
      BY SMT
    <3>. QED
      BY <3>1
  <2>. QED
    BY <1>4, <2>1
<1>. QED
  BY <1>2, <1>3, <1>5, <1>6 DEF front, back, m

\* What a step of the reading end comes to.
ReaderDoes ==
    /\ ReaderInv' /\ Receives' /\ ~misread'
    /\ wire' \in Seq(Cells) /\ readBuffer' \in Seq(Cells)
    /\ readIndex' \in Nat /\ endFrameIndex' \in Nat /\ sizeToRead' \in Nat
    /\ taken' \in Nat /\ headerRead' \in BOOLEAN

LEMMA FetchBegins ==
    ASSUME Assumed, FramesInv, OnlyReads, Frames!BeginRead
    PROVE  ReaderDoes
<1>1. /\ ~connection.local /\ Frames!Wants /\ sizeToRead = 0
      /\ readIndex' = Layout.header /\ Frames!Fetch(Frames!Rest, DefaultSizeToRead, FALSE)
      /\ UNCHANGED <<wire, reading, taken, misread>>
  BY HeaderIs DEF Frames!BeginRead, Frames!Local, Frames!Wants
<1>2. /\ GoodLayout(Layout) /\ GoodFrames(connection, Layout)
      /\ Layout.header = SizeOfHeader
      /\ SizeOfHeader \in Nat /\ SizeOfHeader # 0 /\ DefaultSizeToRead \in Nat
      /\ SizeOfHeader <= DefaultSizeToRead /\ DefaultSizeToRead + SizeOfHeader <= BufferSize
      /\ BufferSize \in Nat
  BY <1>1 DEF Assumed, GoodLayout
<1>3. FrameTypes /\ ReaderInv /\ SocketIdle /\ ~misread /\ WriterInv
  BY <1>1 DEF FramesInv, Receives
<1>4. Unread = 0 /\ Demands
  BY <1>1, <1>2, <1>3, WantsWhenRead
<1>5. /\ wire \in Seq(Cells) /\ readBuffer \in Seq(Cells) /\ endFrameIndex \in Nat
      /\ taken \in Nat /\ endFrameIndex <= Len(readBuffer) /\ Len(readBuffer) <= BufferSize
  BY <1>3 DEF FrameTypes, SocketIdle
<1>6. SentFields \in Nat
  BY <1>3, SentIsNat
<1>7. Chain(Layout, Stream, endFrameIndex, taken, SentFields)
  <2>1. taken + Unread = taken
    BY <1>4, <1>5
  <2>. QED
    BY <1>3, <2>1 DEF SocketIdle
<1>8. /\ Frames!Rest \in Seq(Cells) /\ Len(Frames!Rest) = Len(readBuffer) - endFrameIndex
      /\ Frames!Rest \o wire \in Seq(Cells) /\ Behind(Frames!Rest \o wire, Stream, endFrameIndex)
  <2>. PICK end \in Nat : end = Len(readBuffer)
    BY <1>5
  <2>1. Frames!Rest = SubSeq(readBuffer, endFrameIndex + 1, end)
    BY DEF Frames!Rest
  <2>2. LET rest == SubSeq(readBuffer, endFrameIndex + 1, end) IN
        /\ rest \in Seq(Cells) /\ Len(rest) = end - endFrameIndex
        /\ rest \o wire \in Seq(Cells) /\ Behind(rest \o wire, readBuffer \o wire, endFrameIndex)
    BY <1>5, RestIsBehind
  <2>. QED
    BY <2>1, <2>2 DEF Stream
<1>. PICK rest \in Seq(Cells) : rest = Frames!Rest
  BY <1>8
<1>9. Len(rest) \in Nat /\ Len(rest) <= BufferSize
  BY <1>2, <1>5, <1>8
<1>10. Chain(Layout, rest \o wire', 0, taken, SentFields)
  <2>1. Stream \in Seq(Cells)
    BY <1>5, ConcatProperties DEF Stream
  <2>2. Layout.header \in Nat
    BY <1>2
  <2>. PICK all \in Seq(Cells) : all = Stream
    BY <2>1
  <2>. PICK tail \in Seq(Cells) : tail = rest \o wire
    BY <1>8
  <2>3. Chain(Layout, all, endFrameIndex, taken, SentFields) /\ Behind(tail, all, endFrameIndex)
    BY <1>7, <1>8
  <2>4. Chain(Layout, tail, 0, taken, SentFields)
    BY <1>5, <1>6, <2>2, <2>3, ChainShift
  <2>. QED
    BY <1>1, <2>4
<1>11. Len(rest) < Layout.header =>
          /\ Layout.header <= Len(rest) + DefaultSizeToRead
          /\ Len(rest) + DefaultSizeToRead <= BufferSize
  BY <1>2, <1>9
<1>12. Frames!Fetch(rest, DefaultSizeToRead, FALSE)
  BY <1>1
<1>13. /\ IF sizeToRead' = 0 THEN SocketIdle' ELSE SocketFetching'
       /\ readBuffer' \in Seq(Cells) /\ endFrameIndex' \in Nat /\ sizeToRead' \in Nat
       /\ headerRead' \in BOOLEAN
  <2>. PICK toReceive \in Nat : toReceive = DefaultSizeToRead
    BY <1>2
  <2>. PICK known \in BOOLEAN : known = FALSE
    OBVIOUS
  <2>1. wire' \in Seq(Cells) /\ reading' = reading /\ taken' = taken
        /\ readIndex' = Layout.header /\ Layout.header # 0
    BY <1>1, <1>2, <1>5
  <2>2. Frames!Fetch(rest, toReceive, known)
    BY <1>12
  <2>3. known => Layout.header <= Len(rest)
    OBVIOUS
  <2>4. Len(rest) < Layout.header =>
          Layout.header <= Len(rest) + toReceive /\ Len(rest) + toReceive <= BufferSize
    BY <1>11
  <2>. QED
    BY <1>2, <1>3, <1>4, <1>6, <1>9, <1>10, <2>1, <2>2, <2>3, <2>4, FetchGoesOn
<1>14. ReaderInv'
  BY <1>1, <1>3, NothingWasRead DEF OnlyReads
<1>15. Receives'
  <2>1. connection' = connection
    BY DEF OnlyReads, ReadsStay
  <2>. QED
    BY <1>1, <1>13, <2>1 DEF Receives
<1>16. readIndex' \in Nat /\ ~misread' /\ taken' \in Nat /\ wire' \in Seq(Cells)
  BY <1>1, <1>2, <1>3, <1>5
<1>. QED
  BY <1>13, <1>14, <1>15, <1>16 DEF ReaderDoes

LEMMA FetchContinues ==
    ASSUME Assumed, FramesInv, OnlyReads, Frames!Receive
    PROVE  ReaderDoes
<1>1. /\ sizeToRead > 0
      /\ UNCHANGED <<reading, readIndex, taken, misread>>
  BY DEF Frames!Receive
<1>a. PICK size \in 1 .. Frames!LeastOf(sizeToRead, Len(wire)) :
          /\ Frames!Fetch(readBuffer \o SubSeq(wire, 1, size), sizeToRead - size, headerRead)
          /\ wire' = SubSeq(wire, size + 1, Len(wire))
  BY DEF Frames!Receive
<1>2. FrameTypes /\ ReaderInv /\ ~misread /\ WriterInv /\ Receives
  BY DEF FramesInv
<1>3. /\ wire \in Seq(Cells) /\ readBuffer \in Seq(Cells) /\ sizeToRead \in Nat
      /\ taken \in Nat /\ headerRead \in BOOLEAN /\ sizeToRead # 0 /\ readIndex \in Nat
  BY <1>1, <1>2 DEF FrameTypes
<1>4. ~connection.local /\ SocketFetching
  BY <1>2, <1>3 DEF Receives, LocalReads
<1>5. /\ GoodLayout(Layout) /\ GoodFrames(connection, Layout)
      /\ Layout.header = SizeOfHeader /\ Layout.header \in Nat /\ Layout.header # 0
      /\ BufferSize \in Nat
  BY <1>4 DEF Assumed, GoodLayout
<1>6. SentFields \in Nat
  BY <1>2, SentIsNat
<1>7. size \in 1 .. sizeToRead /\ size \in 1 .. Len(wire) /\ sizeToRead - size \in Nat
  BY <1>3 DEF Frames!LeastOf
<1>. DEFINE longer == readBuffer \o SubSeq(wire, 1, size)
<1>8. /\ longer \in Seq(Cells) /\ Len(longer) = Len(readBuffer) + size
      /\ wire' \in Seq(Cells) /\ longer \o wire' = Stream
  <2>1. LET front == SubSeq(wire, 1, size)
            back  == SubSeq(wire, size + 1, Len(wire))
        IN  /\ front \in Seq(Cells) /\ back \in Seq(Cells)
            /\ readBuffer \o front \in Seq(Cells)
            /\ Len(readBuffer \o front) = Len(readBuffer) + size
            /\ (readBuffer \o front) \o back = readBuffer \o wire
    BY <1>3, <1>7, StreamStays
  <2>. QED
    BY <1>a, <2>1 DEF Stream
<1>9. Frames!Fetch(longer, sizeToRead - size, headerRead)
  BY <1>a
<1>. HIDE DEF longer
<1>10. /\ readIndex = Layout.header /\ Demands
       /\ Len(readBuffer) + sizeToRead <= BufferSize
       /\ headerRead <=> Layout.header <= Len(readBuffer)
       /\ ~headerRead => Layout.header <= Len(readBuffer) + sizeToRead
       /\ Chain(Layout, Stream, 0, taken, SentFields)
  BY <1>4 DEF SocketFetching
<1>11. /\ Len(longer) <= BufferSize
       /\ headerRead => Layout.header <= Len(longer)
       /\ Len(longer) < Layout.header =>
             /\ Layout.header <= Len(longer) + (sizeToRead - size)
             /\ Len(longer) + (sizeToRead - size) <= BufferSize
  <2>. PICK b \in Nat : b = Len(readBuffer)
    BY <1>3
  <2>1. Len(longer) = b + size /\ b + sizeToRead <= BufferSize
    BY <1>8, <1>10
  <2>2. Len(longer) + (sizeToRead - size) = b + sizeToRead
    BY <1>3, <1>7, <2>1
  <2>3. Len(longer) < Layout.header => ~headerRead
    BY <1>5, <1>7, <1>10, <2>1
  <2>. QED
    BY <1>3, <1>5, <1>7, <1>10, <2>1, <2>2, <2>3
<1>12. /\ IF sizeToRead' = 0 THEN SocketIdle' ELSE SocketFetching'
       /\ readBuffer' \in Seq(Cells) /\ endFrameIndex' \in Nat /\ sizeToRead' \in Nat
       /\ headerRead' \in BOOLEAN
  <2>. PICK toReceive \in Nat : toReceive = sizeToRead - size
    BY <1>7
  <2>. PICK known \in BOOLEAN : known = headerRead
    BY <1>3
  <2>. PICK buffer \in Seq(Cells) : buffer = longer
    BY <1>8
  <2>1. wire' \in Seq(Cells) /\ reading' = reading /\ taken' = taken
        /\ readIndex' = Layout.header
    BY <1>1, <1>8, <1>10
  <2>2. Frames!Fetch(buffer, toReceive, known)
    BY <1>9
  <2>3. known => Layout.header <= Len(buffer)
    BY <1>11
  <2>4. Len(buffer) < Layout.header =>
          Layout.header <= Len(buffer) + toReceive /\ Len(buffer) + toReceive <= BufferSize
    BY <1>11
  <2>5. Chain(Layout, buffer \o wire', 0, taken, SentFields)
    BY <1>8, <1>10
  <2>6. Len(buffer) <= BufferSize /\ Demands
    BY <1>10, <1>11
  <2>. QED
    BY <1>2, <1>5, <1>6, <2>1, <2>2, <2>3, <2>4, <2>5, <2>6, FetchGoesOn
<1>13. ReaderInv'
  BY <1>1, <1>2, NothingWasRead DEF OnlyReads
<1>14. Receives'
  <2>1. connection' = connection
    BY DEF OnlyReads, ReadsStay
  <2>. QED
    BY <1>4, <1>12, <2>1 DEF Receives
<1>15. readIndex' \in Nat /\ ~misread' /\ taken' \in Nat
  BY <1>1, <1>2, <1>3
<1>. QED
  BY <1>8, <1>12, <1>13, <1>14, <1>15 DEF ReaderDoes

\* Fields of the local channel are read.
LEMMA LocalFieldsAreRead ==
    ASSUME FrameTypes, ~misread, LocalReads, OnlyReads,
           NEW fields \in Seq(STRING), Len(fields) <= Unread,
           \A i \in 1 .. Len(fields) : fields[i] = Layout.fields[taken + i],
           Frames!Take(fields),
           UNCHANGED <<wire, readBuffer, endFrameIndex, sizeToRead, headerRead>>
    PROVE  LocalReads' /\ ~misread' /\ readIndex' \in Nat
<1>. DEFINE n == Len(fields)
            rest == Len(Stream) - readIndex
<1>1. /\ readBuffer \in Seq(Cells) /\ wire \in Seq(Cells) /\ Len(readBuffer) \in Nat
      /\ readIndex \in Nat /\ taken \in Nat /\ endFrameIndex = Len(readBuffer)
      /\ readIndex <= endFrameIndex /\ n \in Nat /\ n <= Unread /\ Len(wire) \in Nat
  BY DEF FrameTypes, LocalReads
<1>2. /\ Len(Stream) = Len(readBuffer) + Len(wire)
      /\ \A i \in 1 .. Len(readBuffer) : Stream[i] = readBuffer[i]
  BY <1>1, ConcatProperties DEF Stream
<1>3. Carries(Layout, Stream, readIndex, taken, rest)
  BY DEF LocalReads
<1>4. Unread \in Nat /\ rest \in Nat /\ readIndex + Unread = Len(readBuffer) /\ Unread <= rest
  BY <1>1, <1>2 DEF Unread
<1>. HIDE DEF n, rest
<1>5. Carries(Layout, readBuffer, readIndex, taken, Unread)
  <2>. SUFFICES ASSUME NEW j \in 1 .. Unread
                PROVE  readBuffer[readIndex + j] = Frames!Byte(Layout.fields[taken + j], taken + j)
    BY DEF Carries
  <2>1. readIndex + j \in 1 .. Len(readBuffer) /\ j \in 1 .. rest
    BY <1>1, <1>4
  <2>. QED
    BY <1>2, <1>3, <2>1 DEF Carries
<1>6. ~misread'
  <2>1. readIndex + Unread <= Len(readBuffer)
    BY <1>1, <1>4
  <2>. QED
    BY <1>4, <1>5, <2>1, TakesFields
<1>7. readIndex' = readIndex + n /\ taken' = taken + n
  BY DEF Frames!Take, n
<1>8. Layout' = Layout /\ SentFields' = SentFields /\ Stream' = Stream
  BY ReadsUnchanged, SentUnchanged DEF OnlyReads, Stream
<1>9. Carries(Layout, Stream, readIndex + n, taken + n, rest - n)
  <2>1. n \in 0 .. rest
    BY <1>1, <1>4
  <2>. QED
    BY <1>1, <1>3, <1>4, <2>1, CarriesOn
<1>10. Len(Stream') - readIndex' = rest - n /\ taken' + (rest - n) = taken + rest
  BY <1>1, <1>2, <1>4, <1>7, <1>8 DEF rest
<1>11. readIndex' <= endFrameIndex' /\ readIndex' \in Nat
  BY <1>1, <1>4, <1>7
<1>12. taken' + (Len(Stream') - readIndex') = SentFields'
  BY <1>8, <1>10 DEF LocalReads, rest
<1>13. Carries(Layout', Stream', readIndex', taken', Len(Stream') - readIndex')
  BY <1>7, <1>8, <1>9, <1>10
<1>14. /\ sizeToRead' = 0 /\ endFrameIndex' = Len(readBuffer') /\ Len(readBuffer') <= BufferSize
  BY DEF LocalReads
<1>. QED
  BY <1>6, <1>11, <1>12, <1>13, <1>14 DEF LocalReads

\* Fields are read from what is at hand.
LEMMA SomeAreRead ==
    ASSUME Assumed, FramesInv, OnlyReads,
           NEW fields \in Seq(STRING), Len(fields) # 0, Len(fields) <= Frames!Available,
           \A i \in 1 .. Len(fields) : fields[i] = Layout.fields[taken + i],
           Frames!Take(fields), UNCHANGED <<wire, Frames!bufferVars>>
    PROVE  Receives' /\ ~misread' /\ readIndex' \in Nat
<1>1. FrameTypes /\ ~misread /\ Receives /\ GoodLayout(Layout)
  BY DEF FramesInv, Assumed
<1>2. UNCHANGED <<wire, readBuffer, endFrameIndex, sizeToRead, headerRead>>
  BY DEF Frames!bufferVars
<1>3. sizeToRead = 0 /\ Len(fields) <= Unread
  <2>1. Len(fields) \in Nat
    OBVIOUS
  <2>. QED
    BY <2>1 DEF Frames!Available, Unread
<1>4. connection' = connection
  BY DEF OnlyReads, ReadsStay
<1>5. CASE connection.local
  <2>1. LocalReads
    BY <1>1, <1>5 DEF Receives
  <2>2. LocalReads' /\ ~misread' /\ readIndex' \in Nat
    BY <1>1, <1>2, <1>3, <2>1, LocalFieldsAreRead
  <2>. QED
    BY <1>4, <1>5, <2>2 DEF Receives
<1>6. CASE ~connection.local
  <2>1. SocketIdle
    BY <1>1, <1>3, <1>6 DEF Receives
  <2>2. SocketIdle' /\ ~misread' /\ readIndex' \in Nat
    BY <1>1, <1>2, <1>3, <2>1, FieldsAreRead
  <2>. QED
    BY <1>2, <1>3, <1>4, <1>6, <2>2 DEF Receives
<1>. QED
  BY <1>5, <1>6

\* What a step that takes nothing off the wire leaves as it is.
LEMMA BufferTypes ==
    ASSUME FrameTypes, UNCHANGED <<wire, Frames!bufferVars>>
    PROVE  /\ wire' \in Seq(Cells) /\ readBuffer' \in Seq(Cells)
           /\ endFrameIndex' \in Nat /\ sizeToRead' \in Nat /\ headerRead' \in BOOLEAN
BY DEF FrameTypes, Frames!bufferVars

LEMMA BlockIsRead ==
    ASSUME Assumed, FramesInv, OnlyReads, Frames!ReadBlock
    PROVE  ReaderDoes
<1>. DEFINE fields == Head(reading).fields
<1>1. /\ reading # <<>> /\ Head(reading).call = "block"
      /\ Frames!Available >= Len(fields)
      /\ Frames!Take(fields) /\ reading' = Tail(reading)
      /\ UNCHANGED <<wire, Frames!bufferVars>>
  BY DEF Frames!ReadBlock
<1>2. FrameTypes /\ ReaderInv /\ GoodLayout(Layout) /\ GoodFrames(connection, Layout)
  BY DEF FramesInv, Assumed
<1>3. /\ fields \in Seq(STRING) /\ Len(fields) \in Nat /\ Len(fields) # 0
      /\ \A i \in 1 .. Len(fields) : fields[i] = Layout.fields[taken + i]
  BY <1>1, <1>2, ReadHead
<1>4. taken' = taken + Len(Head(reading).fields) /\ ReadsStay
  BY <1>1 DEF Frames!Take, OnlyReads
<1>5. ReaderInv' /\ taken' \in Nat
  BY <1>1, <1>2, <1>4, CallWasRead
<1>. HIDE DEF fields
<1>6. Len(fields) <= Frames!Available
  <2>1. Frames!Available \in Int
    BY <1>2 DEF Frames!Available, FrameTypes
  <2>. QED
    BY <1>1, <1>3, <2>1
<1>7. Receives' /\ ~misread' /\ readIndex' \in Nat
  BY <1>1, <1>3, <1>6, SomeAreRead
<1>. QED
  BY <1>1, <1>2, <1>5, <1>7, BufferTypes DEF ReaderDoes

LEMMA RawIsRead ==
    ASSUME Assumed, FramesInv, OnlyReads, Frames!ReadRaw
    PROVE  ReaderDoes
<1>. DEFINE fields == Head(reading).fields
            size == Frames!LeastOf(Frames!Available, Len(fields))
            first == SubSeq(fields, 1, size)
            rest == SubSeq(fields, size + 1, Len(fields))
            part == <<[call |-> "raw", fields |-> rest]>> \o Tail(reading)
<1>1. /\ reading # <<>> /\ Head(reading).call = "raw"
      /\ Frames!Available > 0 /\ Frames!Take(first)
      /\ reading' = IF rest = <<>> THEN Tail(reading) ELSE part
      /\ UNCHANGED <<wire, Frames!bufferVars>>
  BY DEF Frames!ReadRaw
<1>2. FrameTypes /\ ReaderInv /\ GoodLayout(Layout) /\ GoodFrames(connection, Layout)
  BY DEF FramesInv, Assumed
<1>3. /\ fields \in Seq(STRING) /\ Len(fields) \in Nat /\ Len(fields) # 0
      /\ \A i \in 1 .. Len(fields) : fields[i] = Layout.fields[taken + i]
  BY <1>1, <1>2, ReadHead
<1>4. Frames!Available \in Int
  BY <1>2 DEF Frames!Available, FrameTypes
<1>5. /\ size \in 1 .. Len(fields) /\ size <= Frames!Available /\ size # 0 /\ size \in Nat
  BY <1>1, <1>3, <1>4 DEF Frames!LeastOf
<1>. HIDE DEF size, fields
<1>6. /\ Len(first) = size /\ first \in Seq(STRING)
      /\ \A i \in 1 .. size : first[i] = fields[i]
  <2>1. \A i \in 1 .. size : fields[i] \in STRING
    BY <1>3, <1>5
  <2>2. /\ first \in Seq(STRING) /\ Len(first) = IF 1 <= size THEN size - 1 + 1 ELSE 0
        /\ \A i \in 1 .. size - 1 + 1 : first[i] = fields[1 + i - 1]
    BY <1>5, <2>1, SubSeqProperties
  <2>3. size - 1 + 1 = size /\ \A i \in 1 .. size : 1 + i - 1 = i
    BY <1>5
  <2>. HIDE DEF first
  <2>4. Len(first) = size
    BY <1>5, <2>2, <2>3
  <2>. QED
    BY <2>2, <2>3, <2>4
<1>7. rest = <<>> <=> size = Len(fields)
  <2>1. \A i \in size + 1 .. Len(fields) : fields[i] \in STRING
    BY <1>3, <1>5
  <2>2. /\ rest \in Seq(STRING)
        /\ Len(rest) = IF size + 1 <= Len(fields) THEN Len(fields) - (size + 1) + 1 ELSE 0
    <3>1. size + 1 \in Int /\ Len(fields) \in Int
      BY <1>3, <1>5
    <3>. QED
      BY <2>1, <3>1, SubSeqProperties
  <2>. HIDE DEF rest
  <2>3. size = Len(fields) <=> Len(rest) = 0
    BY <1>3, <1>5, <2>2
  <2>4. rest = <<>> <=> Len(rest) = 0
    BY <2>2
  <2>. QED
    BY <2>3, <2>4
<1>. HIDE DEF first
<1>8. Receives' /\ ~misread' /\ readIndex' \in Nat
  <2>. PICK some \in Seq(STRING) : some = first
    BY <1>6
  <2>1. /\ Len(some) # 0 /\ Len(some) <= Frames!Available
        /\ \A i \in 1 .. Len(some) : some[i] = Layout.fields[taken + i]
    BY <1>3, <1>5, <1>6
  <2>2. Frames!Take(some)
    BY <1>1
  <2>. QED
    BY <1>1, <2>1, <2>2, SomeAreRead
<1>9. taken' = taken + size /\ ReadsStay
  BY <1>1, <1>6 DEF Frames!Take, OnlyReads
<1>10. ReaderInv' /\ taken' \in Nat
  <2>1. CASE size = Len(fields)
    <3>1. reading' = Tail(reading) /\ taken' = taken + Len(Head(reading).fields)
      BY <1>1, <1>7, <1>9, <2>1 DEF fields
    <3>. QED
      BY <1>1, <1>2, <1>9, <3>1, CallWasRead
  <2>2. CASE size # Len(fields)
    <3>. PICK g \in 1 .. Len(Head(reading).fields) : g = size
      BY <1>5 DEF fields
    <3>1. g # Len(Head(reading).fields)
      BY <2>2 DEF fields
    <3>2. reading' = part
      BY <1>1, <1>7, <2>2
    <3>3. PartLeft(reading', reading, g)
      BY <3>2 DEF PartLeft, fields
    <3>4. taken' = taken + g
      BY <1>9
    <3>. QED
      BY <1>1, <1>2, <1>9, <3>1, <3>3, <3>4, PartWasRead
  <2>. QED
    BY <2>1, <2>2
<1>. QED
  BY <1>1, <1>2, <1>8, <1>10, BufferTypes DEF ReaderDoes

\* With nothing of the frame at hand left to read, no step but a receiving one
\* makes a difference to what is held.
LEMMA IdleStays ==
    ASSUME FrameTypes, SocketIdle, Unread = 0, connection' = connection,
           UNCHANGED <<writeBuffer, written, wire, readIndex, taken, Frames!bufferVars>>
    PROVE  SocketIdle'
<1>1. /\ Layout' = Layout /\ SentFields' = SentFields /\ Stream' = Stream /\ Unread' = Unread
      /\ readIndex' = readIndex /\ endFrameIndex' = endFrameIndex
      /\ readBuffer' = readBuffer /\ taken' = taken
  BY DEF Layout, SentFields, Stream, Unread, Frames!bufferVars
<1>2. Carries(Layout, readBuffer, readIndex, taken, Unread)
      /\ Unbroken(Layout, taken, taken + Unread)
      /\ Chain(Layout, Stream, endFrameIndex, taken + Unread, SentFields)
      /\ readIndex <= endFrameIndex /\ endFrameIndex <= Len(readBuffer)
      /\ Len(readBuffer) <= BufferSize
  BY DEF SocketIdle
<1>. QED
  BY <1>1, <1>2 DEF SocketIdle

LEMMA LocalStays ==
    ASSUME LocalReads, connection' = connection,
           UNCHANGED <<writeBuffer, written, wire, readIndex, taken, Frames!bufferVars>>
    PROVE  LocalReads'
<1>1. /\ Layout' = Layout /\ SentFields' = SentFields /\ Stream' = Stream
      /\ readIndex' = readIndex /\ endFrameIndex' = endFrameIndex
      /\ readBuffer' = readBuffer /\ taken' = taken /\ sizeToRead' = sizeToRead
  BY DEF Layout, SentFields, Stream, Frames!bufferVars
<1>. QED
  BY <1>1 DEF LocalReads

\* When no fields are asked for, the frame at hand was read to its end.
LEMMA NothingIsLeft ==
    ASSUME Assumed, FramesInv, ~connection.local,
           reading # <<>> => Head(reading).call = "end"
    PROVE  sizeToRead = 0 /\ SocketIdle /\ Unread = 0
<1>1. /\ FrameTypes /\ ReaderInv /\ Receives /\ GoodLayout(Layout)
      /\ GoodFrames(connection, Layout)
  BY DEF FramesInv, Assumed
<1>2. ~Demands
  BY DEF Demands
<1>3. sizeToRead = 0 /\ SocketIdle
  BY <1>1, <1>2 DEF Receives, SocketFetching
<1>. QED
  BY <1>1, <1>3, ReadToItsEnd, NothingBetweenFrames

\* So nothing that is held changes in a step that reads no fields.
LEMMA HoldsWhatItHad ==
    ASSUME Assumed, FramesInv, reading # <<>> => Head(reading).call = "end",
           connection' = connection,
           UNCHANGED <<writeBuffer, written, wire, readIndex, taken, Frames!bufferVars>>
    PROVE  Receives'
<1>1. FrameTypes /\ Receives /\ connection' = connection /\ sizeToRead' = sizeToRead
  BY DEF FramesInv, Frames!bufferVars
<1>2. CASE connection.local
  <2>1. LocalReads
    BY <1>1, <1>2 DEF Receives
  <2>2. LocalReads'
    BY <2>1, LocalStays
  <2>. QED
    BY <1>1, <1>2, <2>2 DEF Receives
<1>3. CASE ~connection.local
  <2>1. sizeToRead = 0 /\ SocketIdle /\ Unread = 0
    BY <1>3, NothingIsLeft
  <2>2. SocketIdle'
    BY <1>1, <2>1, IdleStays
  <2>. QED
    BY <1>1, <1>3, <2>1, <2>2 DEF Receives
<1>. QED
  BY <1>2, <1>3

LEMMA FrameIsLeft ==
    ASSUME Assumed, FramesInv, OnlyReads, Frames!EndRead
    PROVE  ReaderDoes
<1>1. /\ reading # <<>> /\ Head(reading).call = "end" /\ reading' = Tail(reading)
      /\ UNCHANGED <<wire, readIndex, Frames!bufferVars, taken, misread>>
  BY DEF Frames!EndRead
<1>2. FrameTypes /\ ReaderInv /\ ~misread /\ GoodLayout(Layout) /\ GoodFrames(connection, Layout)
  BY DEF FramesInv, Assumed
<1>3. connection' = connection /\ ReadsStay /\ UNCHANGED <<writeBuffer, written>>
  BY DEF OnlyReads, ReadsStay
<1>4. Receives'
  BY <1>1, <1>3, HoldsWhatItHad
<1>5. ReaderInv' /\ taken' \in Nat
  <2>. PICK n \in Nat : n = Len(Head(reading).fields)
    BY <1>1, <1>2, ReadHead
  <2>1. n = 0
    BY <1>1, <1>2, ReadHead
  <2>2. taken' = taken /\ taken \in Nat
    BY <1>1, <1>2 DEF FrameTypes
  <2>3. taken' = taken + n
    BY <2>1, <2>2
  <2>4. taken' = taken + Len(Head(reading).fields)
    BY <2>3
  <2>. QED
    BY <1>1, <1>2, <1>3, <2>4, CallWasRead
<1>6. readIndex' \in Nat /\ ~misread'
  BY <1>1, <1>2 DEF FrameTypes
<1>. QED
  BY <1>1, <1>2, <1>4, <1>5, <1>6, BufferTypes DEF ReaderDoes

LEMMA NextIsBegun ==
    ASSUME Assumed, FramesInv, Frames!BeginFrame
    PROVE  ReaderDoes
<1>1. /\ reading = <<>> /\ toRead # <<>> /\ connection' = connection
      /\ reading' = Frames!ReadCalls(Head(toRead)) /\ toRead' = Tail(toRead)
      /\ UNCHANGED <<writeBuffer, written, wire, readIndex, Frames!bufferVars, taken, misread>>
  BY DEF Frames!BeginFrame, Frames!BetweenFrames, Frames!writerVars
<1>2. FrameTypes /\ ReaderInv /\ ~misread /\ GoodLayout(Layout) /\ GoodFrames(connection, Layout)
  BY DEF FramesInv, Assumed
<1>3. Receives'
  BY <1>1, HoldsWhatItHad
<1>4. ReaderInv'
  BY <1>1, <1>2, FrameIsBegun
<1>5. readIndex' \in Nat /\ ~misread' /\ taken' \in Nat
  BY <1>1, <1>2 DEF FrameTypes
<1>. QED
  BY <1>1, <1>2, <1>3, <1>4, <1>5, BufferTypes DEF ReaderDoes

LEMMA LocalFetches ==
    ASSUME Assumed, FramesInv, OnlyReads, Frames!BeginReadLocal
    PROVE  ReaderDoes
<1>. DEFINE unread == SubSeq(readBuffer, readIndex + 1, endFrameIndex)
<1>1. /\ connection.local /\ readIndex' = 0
      /\ UNCHANGED <<reading, sizeToRead, headerRead, taken, misread>>
  BY DEF Frames!BeginReadLocal, Frames!Local
<1>a. PICK size \in 1 .. Frames!LeastOf(BufferSize - Len(unread), Len(wire)) :
          /\ readBuffer' = unread \o SubSeq(wire, 1, size)
          /\ endFrameIndex' = Len(unread) + size
          /\ wire' = SubSeq(wire, size + 1, Len(wire))
  BY DEF Frames!BeginReadLocal
<1>2. FrameTypes /\ ReaderInv /\ ~misread /\ LocalReads /\ BufferSize \in Nat
  BY <1>1 DEF FramesInv, Receives, Assumed, GoodLayout
<1>3. /\ wire \in Seq(Cells) /\ readBuffer \in Seq(Cells) /\ readIndex \in Nat
      /\ endFrameIndex \in Nat /\ taken \in Nat /\ sizeToRead \in Nat /\ headerRead \in BOOLEAN
      /\ readIndex <= endFrameIndex /\ endFrameIndex = Len(readBuffer) /\ sizeToRead = 0
      /\ Len(readBuffer) <= BufferSize
  BY <1>2 DEF FrameTypes, LocalReads
<1>4. /\ unread \in Seq(Cells) /\ Len(unread) = endFrameIndex - readIndex
      /\ unread \o wire \in Seq(Cells) /\ Behind(unread \o wire, Stream, readIndex)
  <2>1. LET rest == SubSeq(readBuffer, readIndex + 1, endFrameIndex) IN
        /\ rest \in Seq(Cells) /\ Len(rest) = endFrameIndex - readIndex
        /\ rest \o wire \in Seq(Cells) /\ Behind(rest \o wire, readBuffer \o wire, readIndex)
    BY <1>3, RestIsBehind
  <2>. QED
    BY <2>1 DEF Stream
<1>. HIDE DEF unread
<1>5. Len(unread) \in Nat /\ Len(unread) <= BufferSize
  BY <1>2, <1>3, <1>4
<1>6. size \in 1 .. Len(wire) /\ Len(unread) + size <= BufferSize /\ size \in Nat
  BY <1>2, <1>3, <1>5 DEF Frames!LeastOf
<1>7. /\ readBuffer' \in Seq(Cells) /\ Len(readBuffer') = Len(unread) + size
      /\ wire' \in Seq(Cells) /\ Stream' = unread \o wire
  <2>1. LET front == SubSeq(wire, 1, size)
            back  == SubSeq(wire, size + 1, Len(wire))
        IN  /\ front \in Seq(Cells) /\ back \in Seq(Cells)
            /\ unread \o front \in Seq(Cells)
            /\ Len(unread \o front) = Len(unread) + size
            /\ (unread \o front) \o back = unread \o wire
    BY <1>3, <1>4, <1>6, StreamStays
  <2>. QED
    BY <1>a, <2>1 DEF Stream
<1>8. Layout' = Layout /\ SentFields' = SentFields
  BY ReadsUnchanged, SentUnchanged DEF OnlyReads
<1>. DEFINE rest == Len(Stream) - readIndex
<1>9. Len(Stream') = rest /\ \A j \in 1 .. rest : Stream'[j] = Stream[readIndex + j]
  <2>1. Len(unread \o wire) \in Nat
    BY <1>4
  <2>2. /\ Len(Stream) = readIndex + Len(unread \o wire)
        /\ \A i \in 1 .. Len(unread \o wire) : (unread \o wire)[i] = Stream[readIndex + i]
    BY <1>4 DEF Behind
  <2>3. rest = Len(unread \o wire)
    BY <1>3, <2>1, <2>2
  <2>. QED
    BY <1>7, <2>2, <2>3
<1>10. taken + rest = SentFields /\ Carries(Layout, Stream, readIndex, taken, rest)
  BY <1>2 DEF LocalReads
<1>11. rest \in Nat
  <2>1. Stream' \in Seq(Cells)
    BY <1>4, <1>7
  <2>2. Len(Stream') \in Nat
    BY <2>1
  <2>. QED
    BY <1>9, <2>2
<1>. HIDE DEF rest
<1>12. Carries(Layout, Stream', 0, taken, rest)
  <2>. SUFFICES ASSUME NEW j \in 1 .. rest
                PROVE  Stream'[0 + j] = Frames!Byte(Layout.fields[taken + j], taken + j)
    BY DEF Carries
  <2>1. 0 + j = j
    BY <1>11
  <2>. QED
    BY <1>9, <1>10, <2>1 DEF Carries
<1>13. rest - 0 = rest
  BY <1>11
<1>14. LocalReads'
  <2>1. Len(Stream') - readIndex' = rest
    BY <1>1, <1>9, <1>13
  <2>2. taken' = taken /\ readIndex' = 0 /\ sizeToRead' = 0
    BY <1>1, <1>3
  <2>3. readIndex' <= endFrameIndex' /\ endFrameIndex' = Len(readBuffer')
        /\ Len(readBuffer') <= BufferSize
    BY <1>a, <1>1, <1>5, <1>6, <1>7
  <2>4. taken' + (Len(Stream') - readIndex') = SentFields'
    BY <1>8, <1>10, <2>1, <2>2
  <2>5. Carries(Layout', Stream', readIndex', taken', Len(Stream') - readIndex')
    BY <1>8, <1>12, <2>1, <2>2
  <2>. QED
    BY <2>2, <2>3, <2>4, <2>5 DEF LocalReads
<1>15. Receives'
  <2>1. connection' = connection
    BY DEF OnlyReads, ReadsStay
  <2>. QED
    BY <1>1, <1>14, <2>1 DEF Receives
<1>16. ReaderInv'
  BY <1>1, <1>2, NothingWasRead DEF OnlyReads
<1>17. /\ readIndex' \in Nat /\ endFrameIndex' \in Nat /\ sizeToRead' \in Nat
       /\ taken' \in Nat /\ headerRead' \in BOOLEAN /\ ~misread'
  BY <1>a, <1>1, <1>2, <1>3, <1>5, <1>6
<1>. QED
  BY <1>7, <1>15, <1>16, <1>17 DEF ReaderDoes

-----------------------------------------------------------------------------
(* What the steps of the writing end mean to the reading one.              *)

\* What a step of the writing end leaves alone.
OnlyWrites ==
    UNCHANGED <<connection, toRead, reading, readIndex, Frames!bufferVars, taken, misread>>

LEMMA StreamGrows ==
    ASSUME GoodLayout(Layout), FrameTypes, Sends, readBuffer' = readBuffer
    PROVE  LET sent == Frames!Sent(writeBuffer) IN
           /\ sent \in Seq(Cells) /\ Stream \in Seq(Cells) /\ wire' \in Seq(Cells)
           /\ Stream' = Stream \o sent
<1>1. /\ wire \in Seq(Cells) /\ readBuffer \in Seq(Cells) /\ wire' = wire \o Frames!Sent(writeBuffer)
  BY DEF FrameTypes, Sends
<1>2. Frames!Sent(writeBuffer) \in Seq(Cells)
  BY SentFrame
<1>. PICK s \in Seq(Cells) : s = readBuffer
  BY <1>1
<1>. PICK t \in Seq(Cells) : t = wire
  BY <1>1
<1>. PICK u \in Seq(Cells) : u = Frames!Sent(writeBuffer)
  BY <1>2
<1>3. (s \o t) \o u = s \o (t \o u)
  BY SMT
<1>4. t \o u \in Seq(Cells) /\ s \o t \in Seq(Cells)
  BY ConcatProperties
<1>. QED
  BY <1>1, <1>2, <1>3, <1>4 DEF Stream

\* A frame more is on the way in a socket.
LEMMA SocketIsSent ==
    ASSUME Assumed, FramesInv, ~connection.local, OnlyWrites, toWrite # <<>>, Sends
    PROVE  Receives'
<1>1. /\ GoodLayout(Layout) /\ FrameTypes /\ WriterInv /\ Receives
      /\ writeBuffer # <<>> /\ SentFields' = written
      /\ readBuffer' = readBuffer /\ endFrameIndex' = endFrameIndex /\ sizeToRead' = sizeToRead
      /\ headerRead' = headerRead /\ readIndex' = readIndex /\ taken' = taken
      /\ reading' = reading /\ connection' = connection
  BY DEF Assumed, FramesInv, OnlyWrites, Sends, Frames!bufferVars
<1>2. /\ Layout' = Layout /\ Begun' = Begun /\ Unread' = Unread /\ (Demands' <=> Demands)
  <2>1. toRead' = toRead
    BY DEF OnlyWrites
  <2>. QED
    BY <1>1, <2>1 DEF Layout, Begun, Unread, Demands
<1>. PICK sent \in Seq(Cells) : sent = Frames!Sent(writeBuffer)
  BY <1>1, SentFrame
<1>3. Stream \in Seq(Cells) /\ Stream' = Stream \o sent
  BY <1>1, StreamGrows
<1>. PICK stream \in Seq(Cells) : stream = Stream
  BY <1>3
<1>4. Piece(Layout, stream \o sent, Len(stream), SentFields, Len(stream \o sent), written)
  BY <1>1, SendsPiece
<1>5. /\ SentFields \in Nat /\ written \in Nat /\ taken \in Nat /\ endFrameIndex \in Nat
      /\ readIndex \in Nat /\ Layout.header \in Nat
  BY <1>1, SentIsNat DEF FrameTypes, GoodLayout
<1>6. CASE sizeToRead = 0
  <2>1. SocketIdle
    BY <1>1, <1>6 DEF Receives
  <2>2. taken + Unread \in Nat
    BY <1>5, <2>1 DEF SocketIdle, Unread
  <2>3. Chain(Layout, stream, endFrameIndex, taken + Unread, SentFields)
    BY <2>1 DEF SocketIdle
  <2>4. Chain(Layout, stream \o sent, endFrameIndex, taken + Unread, written)
    <3>. PICK from \in Nat : from = taken + Unread
      BY <2>2
    <3>. PICK to \in Nat : to = SentFields
      BY <1>5
    <3>1. Chain(Layout, stream, endFrameIndex, from, to)
      BY <2>3
    <3>2. Piece(Layout, stream \o sent, Len(stream), to, Len(stream \o sent), written)
      BY <1>4
    <3>3. Chain(Layout, stream \o sent, endFrameIndex, from, written)
      BY <1>5, <3>1, <3>2, ChainAppend
    <3>. QED
      BY <3>3
  <2>5. SocketIdle'
    BY <1>1, <1>2, <1>3, <2>1, <2>4 DEF SocketIdle
  <2>. QED
    BY <1>1, <1>6, <2>5 DEF Receives
<1>7. CASE sizeToRead # 0
  <2>1. SocketFetching
    BY <1>1, <1>7 DEF Receives
  <2>2. Chain(Layout, stream, 0, taken, SentFields)
    BY <2>1 DEF SocketFetching
  <2>3. Chain(Layout, stream \o sent, 0, taken, written)
    <3>. PICK to \in Nat : to = SentFields
      BY <1>5
    <3>. PICK start \in Nat : start = 0
      OBVIOUS
    <3>1. Chain(Layout, stream, start, taken, to)
      BY <2>2
    <3>2. Piece(Layout, stream \o sent, Len(stream), to, Len(stream \o sent), written)
      BY <1>4
    <3>3. Chain(Layout, stream \o sent, start, taken, written)
      BY <1>5, <3>1, <3>2, ChainAppend
    <3>. QED
      BY <3>3
  <2>4. SocketFetching'
    BY <1>1, <1>2, <1>3, <2>1, <2>3 DEF SocketFetching
  <2>. QED
    BY <1>1, <1>7, <2>4 DEF Receives
<1>. QED
  BY <1>6, <1>7

\* The next fields are on the way in the local channel.
LEMMA LocalIsSent ==
    ASSUME Assumed, FramesInv, connection.local, OnlyWrites, Sends
    PROVE  Receives'
<1>1. /\ GoodLayout(Layout) /\ FrameTypes /\ WriterInv /\ LocalReads
      /\ SentFields' = written
      /\ readBuffer' = readBuffer /\ endFrameIndex' = endFrameIndex /\ sizeToRead' = sizeToRead
      /\ readIndex' = readIndex /\ taken' = taken /\ connection' = connection
      /\ Layout.header = 0
  BY DEF Assumed, FramesInv, Receives, OnlyWrites, Sends, Frames!bufferVars
<1>2. Layout' = Layout
  BY <1>1 DEF Layout
<1>. DEFINE n == Len(writeBuffer)
            rest == Len(Stream) - readIndex
<1>. PICK sent \in Seq(Cells) : sent = Frames!Sent(writeBuffer)
  BY <1>1, SentFrame
<1>3. Stream \in Seq(Cells) /\ Stream' = Stream \o sent
  BY <1>1, StreamGrows
<1>. PICK stream \in Seq(Cells) : stream = Stream
  BY <1>3
<1>4. n \in Nat /\ Len(sent) = n /\ \A j \in 1 .. n : sent[j] = writeBuffer[j]
  <2>1. n \in Nat
    BY <1>1 DEF FrameTypes
  <2>2. /\ Len(sent) = 0 + n /\ \A j \in 1 .. n : sent[0 + j] = writeBuffer[j]
    BY <1>1, SentFrame
  <2>3. \A j \in 1 .. n : 0 + j = j
    BY <2>1
  <2>. HIDE DEF n
  <2>. QED
    BY <2>1, <2>2, <2>3
<1>5. /\ SentFields \in Nat /\ SentFields + n = written /\ taken \in Nat /\ readIndex \in Nat
      /\ readIndex <= Len(readBuffer) /\ Len(readBuffer) <= Len(Stream) /\ Len(Stream) \in Nat
  <2>1. SentFields \in Nat /\ written \in Nat
    BY <1>1, SentIsNat DEF FrameTypes
  <2>2. SentFields + n = written
    BY <1>4, <2>1 DEF SentFields
  <2>3. Len(Stream) = Len(readBuffer) + Len(wire) /\ Len(wire) \in Nat /\ Len(readBuffer) \in Nat
    BY <1>1, ConcatProperties DEF Stream, FrameTypes
  <2>. QED
    BY <1>1, <2>1, <2>2, <2>3 DEF LocalReads, FrameTypes
<1>6. \A j \in 1 .. n : writeBuffer[0 + j] = Frames!Byte(Layout.fields[SentFields + j], SentFields + j)
  BY <1>1 DEF WriterInv, Gathered, Carries, SentFields
<1>7. taken + rest = SentFields /\ Carries(Layout, Stream, readIndex, taken, rest) /\ rest \in Nat
  BY <1>1, <1>5 DEF LocalReads
<1>8. /\ Len(stream \o sent) = Len(stream) + n
      /\ \A i \in 1 .. Len(stream) + n : (stream \o sent)[i] =
                IF i <= Len(stream) THEN stream[i] ELSE sent[i - Len(stream)]
  BY <1>4, ConcatProperties
<1>. HIDE DEF n, rest
<1>9. Len(stream) = readIndex + rest
  BY <1>5, <1>7 DEF rest
<1>10. Carries(Layout, stream \o sent, readIndex, taken, rest + n)
  <2>. SUFFICES ASSUME NEW j \in 1 .. rest + n
                PROVE  (stream \o sent)[readIndex + j]
                          = Frames!Byte(Layout.fields[taken + j], taken + j)
    BY DEF Carries
  <2>1. readIndex + j \in 1 .. Len(stream) + n
    BY <1>4, <1>5, <1>7, <1>9
  <2>2. CASE j <= rest
    <3>1. j \in 1 .. rest /\ readIndex + j <= Len(stream)
      BY <1>5, <1>7, <1>9, <2>2
    <3>2. (stream \o sent)[readIndex + j] = stream[readIndex + j]
      BY <1>8, <2>1, <3>1
    <3>. QED
      BY <1>7, <3>1, <3>2 DEF Carries
  <2>3. CASE ~(j <= rest)
    <3>. PICK k \in 1 .. n : k = j - rest
      BY <1>4, <1>7, <2>3
    <3>1. /\ ~(readIndex + j <= Len(stream)) /\ (readIndex + j) - Len(stream) = k
          /\ taken + j = SentFields + k /\ 0 + k = k
      BY <1>4, <1>5, <1>7, <1>9, <2>3
    <3>2. (stream \o sent)[readIndex + j] = sent[k]
      BY <1>8, <2>1, <3>1
    <3>3. writeBuffer[k] = Frames!Byte(Layout.fields[SentFields + k], SentFields + k)
      BY <1>6, <3>1
    <3>. QED
      BY <1>4, <3>1, <3>2, <3>3
  <2>. QED
    BY <2>2, <2>3
<1>11. Len(Stream') - readIndex' = rest + n /\ taken' + (rest + n) = SentFields'
  <2>1. Len(Stream') = Len(stream) + n
    BY <1>3, <1>8
  <2>2. Len(Stream') = (readIndex + rest) + n
    BY <1>9, <2>1
  <2>3. ((readIndex + rest) + n) - readIndex = rest + n
    BY <1>4, <1>5, <1>7
  <2>4. taken + (rest + n) = written
    BY <1>4, <1>5, <1>7
  <2>. QED
    BY <1>1, <2>2, <2>3, <2>4
<1>12. Carries(Layout', Stream', readIndex', taken', Len(Stream') - readIndex')
  <2>1. Stream' = stream \o sent
    BY <1>3
  <2>. QED
    BY <1>1, <1>2, <1>10, <1>11, <2>1
<1>13. taken' + (Len(Stream') - readIndex') = SentFields'
  BY <1>11
<1>14. LocalReads'
  BY <1>1, <1>12, <1>13 DEF LocalReads
<1>. QED
  BY <1>1, <1>14 DEF Receives

\* Nothing more is on the way.
LEMMA NothingIsSent ==
    ASSUME Receives, OnlyWrites, Keeps
    PROVE  Receives'
<1>1. /\ SentFields' = SentFields /\ wire' = wire
      /\ readBuffer' = readBuffer /\ endFrameIndex' = endFrameIndex /\ sizeToRead' = sizeToRead
      /\ headerRead' = headerRead /\ readIndex' = readIndex /\ taken' = taken
      /\ reading' = reading /\ connection' = connection
  BY DEF OnlyWrites, Keeps, Frames!bufferVars
<1>2. /\ Layout' = Layout /\ Begun' = Begun /\ Unread' = Unread /\ (Demands' <=> Demands)
      /\ Stream' = Stream
  BY <1>1 DEF OnlyWrites, Layout, Begun, Unread, Demands, Stream
<1>3. LocalReads => LocalReads'
  BY <1>1, <1>2 DEF LocalReads
<1>4. SocketIdle => SocketIdle'
  BY <1>1, <1>2 DEF SocketIdle
<1>5. SocketFetching => SocketFetching'
  BY <1>1, <1>2 DEF SocketFetching
<1>. QED
  BY <1>1, <1>3, <1>4, <1>5 DEF Receives

LEMMA CallIsWritten ==
    ASSUME Assumed, FramesInv, Frames!Write
    PROVE  FramesInv'
<1>1. /\ OnlyWrites /\ connection' = connection /\ toWrite # <<>>
      /\ Frames!WriteBlock \/ Frames!WriteRaw \/ Frames!EndWrite
  BY DEF Frames!Write, OnlyWrites, Frames!WriteBlock, Frames!WriteRaw, Frames!EndWrite
<1>2. GoodLayout(Layout) /\ FrameTypes /\ WriterInv /\ ReaderInv /\ Receives /\ ~misread
  BY DEF Assumed, FramesInv
<1>3. WriterDoes
  BY <1>1, <1>2, BlockIsWritten, RawIsWritten, FrameIsEnded
<1>4. wire' \in Seq(Cells)
  <2>1. wire' = wire \/ Sends
    BY <1>3 DEF WriterDoes, Keeps
  <2>2. readBuffer' = readBuffer
    BY <1>1 DEF OnlyWrites, Frames!bufferVars
  <2>. QED
    BY <1>2, <2>1, <2>2, StreamGrows DEF FrameTypes
<1>5. Receives'
  BY <1>1, <1>2, <1>3, NothingIsSent, SocketIsSent, LocalIsSent DEF WriterDoes
<1>6. ReaderInv'
  BY <1>1, <1>2, NothingWasRead DEF OnlyWrites, ReadsStay
<1>7. FrameTypes'
  BY <1>1, <1>2, <1>3, <1>4 DEF FrameTypes, WriterDoes, OnlyWrites, Frames!bufferVars
<1>8. WriterInv' /\ ~misread'
  BY <1>1, <1>2, <1>3 DEF WriterDoes, OnlyWrites
<1>. QED
  BY <1>5, <1>6, <1>7, <1>8 DEF FramesInv

-----------------------------------------------------------------------------
(* The whole of it.                                                        *)

LEMMA FreshChannel ==
    ASSUME Frames!ChannelAssumption, Frames!LayoutsAgree
    PROVE  Frames!Init => FramesInv
<1>. SUFFICES ASSUME Frames!Init
              PROVE  FramesInv
  OBVIOUS
<1>. DEFINE L == Layout
            none == <<>>
<1>1. /\ connection \in Connections /\ toWrite = Frames!AllCalls(connection.frames)
      /\ toRead = connection.frames /\ writeBuffer = none /\ wire = none /\ reading = none
      /\ readBuffer = none /\ readIndex = 0 /\ endFrameIndex = 0 /\ sizeToRead = 0
      /\ headerRead = FALSE /\ written = 0 /\ taken = 0 /\ misread = FALSE
  BY DEF Frames!Init
<1>2. Assumed
  BY <1>1, ConnectionAssumed
<1>3. none \in Seq(Cells) /\ Len(none) = 0 /\ none \o none = none
  OBVIOUS
<1>4. FrameTypes
  BY <1>1, <1>3 DEF FrameTypes
<1>. HIDE DEF none
<1>5. /\ GoodLayout(L) /\ Frames!CutAt(L.calls, L.cuts, L.fields) /\ L.fields \in Seq(STRING)
      /\ L.calls \in Seq(Calls) /\ L.calls # <<>> /\ L.calls[1].call # "end"
      /\ L.cuts[0] = 0 /\ L.header \in Nat /\ BufferSize \in Nat
  BY <1>2 DEF Assumed, GoodLayout
<1>6. GoodFrames(connection, L)
  BY <1>2 DEF Assumed
<1>7. toWrite = L.calls
  BY <1>1 DEF Layout, LayoutOf
<1>8. SentFields = 0
  BY <1>1, <1>3 DEF SentFields
<1>9. WriterInv
  <2>1. Left(L.calls, L.calls, L.cuts, L.fields, L.cuts[0])
    BY <1>5, LeftAll
  <2>2. Gathered(L, <<>>, 0)
    BY <1>5, NothingGathered
  <2>3. Len(L.calls) - Len(toWrite) = 0
    BY <1>5, <1>7
  <2>4. Head(L.calls) = L.calls[1]
    BY <1>5
  <2>. HIDE DEF L
  <2>5. \A i \in 1 .. 0 : L.calls[i].call = "end" => L.cuts[i] <= SentFields
    OBVIOUS
  <2>. QED
    BY <1>1, <1>5, <1>7, <2>1, <2>2, <2>3, <2>4, <2>5 DEF WriterInv, L, none
<1>10. ReaderInv
  <2>1. /\ toRead \in Seq({connection.frames[k] : k \in DOMAIN connection.frames})
        /\ Frames!FrameEnds(connection)[0] = 0 /\ Len(toRead) \in Nat
    BY <1>1, <1>6 DEF GoodFrames
  <2>2. Begun = 0
    BY <1>1, <2>1 DEF Begun
  <2>3. \A i \in 1 .. Len(toRead) : toRead[i] = connection.frames[0 + i]
    BY <1>1, <2>1
  <2>4. Len(toRead) <= Len(connection.frames)
    BY <1>1, <2>1
  <2>. QED
    BY <1>1, <2>1, <2>2, <2>3, <2>4 DEF ReaderInv, none
<1>11. Stream = none /\ Unread = 0 /\ Len(Stream) = 0
  BY <1>1, <1>3 DEF Stream, Unread
<1>12. \A place : Carries(L, none, place, 0, 0)
  BY DEF Carries
<1>13. ASSUME connection.local
       PROVE  Receives
  <2>1. LocalReads
    <3>1. Len(Stream) - readIndex = 0 /\ 0 + 0 = 0 /\ Len(readBuffer) = 0
      BY <1>1, <1>3, <1>11
    <3>. QED
      BY <1>1, <1>5, <1>8, <1>11, <1>12, <3>1 DEF LocalReads
  <2>. QED
    BY <1>13, <2>1 DEF Receives
<1>14. ASSUME ~connection.local
       PROVE  Receives
  <2>1. Unbroken(L, 0, 0)
    <3>1. \A i \in DOMAIN L.calls : i \in 0 .. Len(L.calls)
      BY <1>5
    <3>2. \A i \in 0 .. Len(L.calls) : L.cuts[i] \in 0 .. Len(L.fields)
      BY <1>5, CutsInOrder
    <3>. HIDE DEF L
    <3>3. \A i \in DOMAIN L.calls : ~(0 < L.cuts[i] /\ L.cuts[i] < 0)
      BY <3>1, <3>2
    <3>4. \A i \in DOMAIN L.calls : ~(L.cuts[i - 1] < 0 /\ 0 < L.cuts[i])
      <4>1. \A i \in DOMAIN L.calls : i - 1 \in 0 .. Len(L.calls)
        BY <1>5
      <4>. QED
        BY <3>2, <4>1
    <3>. QED
      BY <3>3, <3>4 DEF Unbroken
  <2>2. Chain(L, none, 0, 0, 0)
    <3>. PICK stream \in Seq(Cells) : stream = none
      BY <1>3
    <3>1. Chain(L, stream, Len(stream), 0, 0)
      BY ChainNothing
    <3>. QED
      BY <1>3, <3>1
  <2>3. SocketIdle
    <3>1. 0 + 0 = 0 /\ Len(readBuffer) = 0
      BY <1>1, <1>3
    <3>. QED
      BY <1>1, <1>5, <1>8, <1>11, <1>12, <2>1, <2>2, <3>1 DEF SocketIdle
  <2>. QED
    BY <1>1, <1>14, <2>3 DEF Receives
<1>. QED
  BY <1>1, <1>4, <1>9, <1>10, <1>13, <1>14 DEF FramesInv

LEMMA FreshChannelNext ==
    ASSUME Frames!ChannelAssumption, Frames!LayoutsAgree
    PROVE  (Frames!Init => FramesInv)'
<1>1. Frames!Init => FramesInv
  BY FreshChannel
<1>. QED
  BY <1>1, PTL

\* When both ends have made their calls, nothing is on the way.
LEMMA NothingOnTheWay ==
    ASSUME Assumed, FramesInv, toWrite = <<>>, toRead = <<>>, reading = <<>>
    PROVE  writeBuffer = <<>> /\ wire = <<>>
<1>1. /\ FrameTypes /\ WriterInv /\ ReaderInv /\ Receives
      /\ GoodLayout(Layout) /\ GoodFrames(connection, Layout)
  BY DEF Assumed, FramesInv
<1>2. writeBuffer = <<>>
  BY <1>1 DEF WriterInv
<1>3. written = Len(Layout.fields)
  BY <1>1 DEF WriterInv, Left, GoodLayout
<1>4. taken = Len(Layout.fields)
  <2>1. Begun = Len(connection.frames)
    <3>1. Len(connection.frames) \in Nat /\ Len(toRead) = 0
      BY <1>1 DEF GoodFrames
    <3>. QED
      BY <3>1 DEF Begun
  <2>. QED
    BY <1>1, <2>1 DEF ReaderInv, GoodFrames
<1>5. /\ wire \in Seq(Cells) /\ readBuffer \in Seq(Cells) /\ written \in Nat /\ taken \in Nat
      /\ readIndex \in Nat /\ endFrameIndex \in Nat
  BY <1>1 DEF FrameTypes
<1>6. SentFields = taken
  <2>1. Len(writeBuffer) = 0
    BY <1>2
  <2>. QED
    BY <1>3, <1>4, <1>5, <2>1 DEF SentFields
<1>7. /\ Stream \in Seq(Cells) /\ Len(Stream) = Len(readBuffer) + Len(wire)
      /\ Len(wire) \in Nat /\ Len(readBuffer) \in Nat
  BY <1>5, ConcatProperties DEF Stream
<1>8. CASE connection.local
  <2>1. /\ readIndex <= endFrameIndex /\ endFrameIndex = Len(readBuffer)
        /\ taken + (Len(Stream) - readIndex) = taken
    BY <1>1, <1>6, <1>8 DEF Receives, LocalReads
  <2>2. Len(wire) = 0
    BY <1>5, <1>7, <2>1
  <2>. QED
    BY <1>2, <1>5, <2>2
<1>9. CASE ~connection.local
  <2>1. SocketIdle /\ Unread = 0
    BY <1>9, NothingIsLeft
  <2>2. taken + Unread = taken
    BY <1>5, <2>1
  <2>3. Chain(Layout, Stream, endFrameIndex, taken, taken) /\ endFrameIndex <= Len(readBuffer)
    BY <1>6, <2>1, <2>2 DEF SocketIdle
  <2>4. endFrameIndex = Len(Stream)
    <3>. SUFFICES ASSUME endFrameIndex # Len(Stream)
                  PROVE  FALSE
      OBVIOUS
    <3>. PICK stream \in Seq(Cells) : stream = Stream
      BY <1>7
    <3>1. Layout.header \in Nat
      BY <1>1 DEF GoodLayout
    <3>2. Chain(Layout, stream, endFrameIndex, taken, taken) /\ endFrameIndex # Len(stream)
      BY <2>3
    <3>3. PICK next \in Nat : taken < next /\ next <= taken
      BY <1>5, <3>1, <3>2, ChainFirst
    <3>. QED
      BY <1>5, <3>3
  <2>5. Len(wire) = 0
    BY <1>5, <1>7, <2>3, <2>4
  <2>. QED
    BY <1>2, <1>5, <2>5
<1>. QED
  BY <1>8, <1>9

LEMMA ChannelIsReplaced ==
    ASSUME Frames!ChannelAssumption, Frames!LayoutsAgree, Assumed, FramesInv,
           Frames!NewConnection
    PROVE  FramesInv'
<1>1. writeBuffer = <<>> /\ wire = <<>> /\ reading = <<>>
  BY NothingOnTheWay DEF Frames!NewConnection
<1>2. Frames!Init'
  BY <1>1 DEF Frames!NewConnection, Frames!Init
<1>. QED
  BY <1>2, FreshChannelNext

LEMMA FramesSafety ==
    ASSUME Frames!ChannelAssumption, Frames!LayoutsAgree
    PROVE  Frames!Spec => [](Assumed /\ FramesInv)
<1>1. Frames!Init => Assumed /\ FramesInv
  BY FreshChannel, ConnectionAssumed DEF Frames!Init
<1>2. ASSUME Assumed, FramesInv, [Frames!Next]_(Frames!vars)
      PROVE  FramesInv'
  <2>0. FrameTypes /\ WriterInv /\ ReaderInv /\ Receives /\ ~misread
    BY <1>2 DEF FramesInv
  <2>1. CASE Frames!Write
    BY <1>2, <2>1, CallIsWritten
  <2>2. CASE Frames!Read
    <3>1. /\ OnlyReads /\ UNCHANGED <<toWrite, writeBuffer, written>> /\ connection' = connection
          /\ \/ Frames!BeginRead \/ Frames!Receive \/ Frames!BeginReadLocal
             \/ Frames!ReadBlock \/ Frames!ReadRaw \/ Frames!EndRead
      BY <2>2 DEF Frames!Read, OnlyReads, ReadsStay, Frames!writerVars
    <3>2. ReaderDoes
      BY <1>2, <3>1, FetchBegins, FetchContinues, LocalFetches, BlockIsRead, RawIsRead,
         FrameIsLeft
    <3>3. WriterInv'
      BY <2>0, <3>1, WriterWaits
    <3>. QED
      BY <2>0, <3>1, <3>2, <3>3 DEF FramesInv, ReaderDoes, FrameTypes
  <2>3. CASE Frames!WaitForData
    <3>1. /\ OnlyReads /\ connection' = connection /\ reading = <<>>
          /\ UNCHANGED <<writeBuffer, written, wire, reading, readIndex, taken, misread,
                         Frames!bufferVars>>
      BY <2>3 DEF Frames!WaitForData, Frames!BetweenFrames, OnlyReads, ReadsStay,
                  Frames!writerVars
    <3>2. Receives'
      BY <1>2, <3>1, HoldsWhatItHad
    <3>3. WriterInv' /\ ReaderInv'
      BY <2>0, <3>1, WriterWaits, NothingWasRead DEF OnlyReads
    <3>4. FrameTypes' /\ ~misread'
      BY <2>0, <3>1 DEF FrameTypes, Frames!bufferVars
    <3>. QED
      BY <3>2, <3>3, <3>4 DEF FramesInv
  <2>4. CASE Frames!BeginFrame
    <3>1. /\ connection' = connection /\ UNCHANGED <<toWrite, writeBuffer, written>>
      BY <2>4 DEF Frames!BeginFrame, Frames!writerVars
    <3>2. ReaderDoes
      BY <1>2, <2>4, NextIsBegun
    <3>3. WriterInv'
      <4>1. Layout' = Layout /\ SentFields' = SentFields
        BY <3>1 DEF Layout, SentFields
      <4>. QED
        BY <2>0, <3>1, <4>1 DEF WriterInv
    <3>. QED
      BY <2>0, <3>1, <3>2, <3>3 DEF FramesInv, ReaderDoes, FrameTypes
  <2>5. CASE Frames!NewConnection
    BY <1>2, <2>5, ChannelIsReplaced
  <2>6. CASE UNCHANGED Frames!vars
    <3>1. /\ OnlyReads /\ UNCHANGED <<reading, taken, wire>>
          /\ UNCHANGED <<connection, readBuffer, readIndex, endFrameIndex, sizeToRead,
                         headerRead, misread, written, writeBuffer>>
      BY <2>6 DEF Frames!vars, OnlyReads, ReadsStay
    <3>2. WriterInv' /\ ReaderInv'
      BY <2>0, <3>1, WriterWaits, NothingWasRead DEF OnlyReads
    <3>3. Receives'
      <4>1. OnlyWrites /\ Keeps
        BY <3>1, SentUnchanged DEF OnlyWrites, Keeps, OnlyReads, ReadsStay, Frames!bufferVars
      <4>. QED
        BY <2>0, <4>1, NothingIsSent
    <3>4. FrameTypes' /\ ~misread'
      BY <2>0, <3>1 DEF FrameTypes
    <3>. QED
      BY <3>2, <3>3, <3>4 DEF FramesInv
  <2>. QED
    BY <1>2, <2>1, <2>2, <2>3, <2>4, <2>5, <2>6 DEF Frames!Next
<1>3. connection \in Connections => Assumed
  BY ConnectionAssumed
<1>4. FramesInv => connection \in Connections
  BY DEF FramesInv, FrameTypes
<1>5. Assumed /\ FramesInv /\ [Frames!Next]_(Frames!vars) => FramesInv'
  BY <1>2
<1>. QED
  BY <1>1, <1>3, <1>4, <1>5, PTL DEF Frames!Spec

\* What the reading end takes for a field is that field, for every connection whose
\* two ends make calls that agree (ReadsWhatWasWritten).
THEOREM FramesReadAsWritten ==
    ASSUME Frames!ChannelAssumption, Frames!LayoutsAgree
    PROVE  Frames!Spec => []ReadsWhatWasWritten
<1>1. FramesInv => ReadsWhatWasWritten
  BY DEF FramesInv, ReadsWhatWasWritten, Frames!ReadsWhatWasWritten
<1>. QED
  BY <1>1, FramesSafety, PTL

\* EndRead finds the frame read to its end, and does not throw (EndReadNeverThrows).
THEOREM FrameEndsWhereLeft ==
    ASSUME Frames!ChannelAssumption, Frames!LayoutsAgree
    PROVE  Frames!Spec => []EndReadNeverThrows
<1>1. Assumed /\ FramesInv => EndReadNeverThrows
  <2>. SUFFICES ASSUME Assumed, FramesInv, ~connection.local, reading # <<>>,
                       Head(reading).call = "end"
                PROVE  readIndex = endFrameIndex
    BY DEF EndReadNeverThrows, Frames!EndReadNeverThrows, Frames!Local
  <2>1. Unread = 0
    BY NothingIsLeft
  <2>2. readIndex \in Nat /\ endFrameIndex \in Nat
    BY DEF FramesInv, FrameTypes
  <2>. QED
    BY <2>1, <2>2 DEF Unread
<1>. QED
  BY <1>1, FramesSafety, PTL

\* Neither end writes behind its buffer, and the reading one never waits for more than
\* there is room for (BuffersHold).
THEOREM ChannelBuffersHold ==
    ASSUME Frames!ChannelAssumption, Frames!LayoutsAgree
    PROVE  Frames!Spec => []BuffersHold
<1>1. Assumed /\ FramesInv => BuffersHold
  <2>. SUFFICES ASSUME Assumed, FramesInv
                PROVE  /\ Layout.header + Len(writeBuffer) <= BufferSize
                       /\ Len(readBuffer) + sizeToRead <= BufferSize
    BY HeaderIs DEF BuffersHold, Frames!BuffersHold
  <2>1. Layout.header + Len(writeBuffer) <= BufferSize
    BY DEF FramesInv, WriterInv, Gathered
  <2>2. Receives /\ readBuffer \in Seq(Cells)
    BY DEF FramesInv, FrameTypes
  <2>3. (LocalReads \/ (sizeToRead = 0 /\ SocketIdle)) \/ SocketFetching
    BY <2>2 DEF Receives
  <2>4. LocalReads \/ (sizeToRead = 0 /\ SocketIdle) => Len(readBuffer) + sizeToRead <= BufferSize
    BY <2>2 DEF LocalReads, SocketIdle
  <2>5. SocketFetching => Len(readBuffer) + sizeToRead <= BufferSize
    BY DEF SocketFetching
  <2>. QED
    BY <2>1, <2>3, <2>4, <2>5
<1>. QED
  BY <1>1, FramesSafety, PTL

\* A poll that times out overlooked nothing, if no reader of a local channel polls: for
\* that one it is not so (TimeoutMeansNoData).
THEOREM TimeoutsOverlookNothing ==
    ASSUME Frames!ChannelAssumption, Frames!LayoutsAgree,
           \A c \in Connections : ~(c.local /\ c.polling)
    PROVE  Frames!Spec => TimeoutMeansNoData
<1>1. ASSUME Assumed, FramesInv, [Frames!Next]_(Frames!vars),
             polled # "timeout", polled' = "timeout"
      PROVE  taken = written - Len(writeBuffer)
  <2>1. Frames!WaitForData
    BY <1>1 DEF Frames!Next, Frames!vars, Frames!Write, Frames!Read, Frames!BeginFrame,
                Frames!NewConnection
  <2>2. ~Frames!SeesData /\ connection.polling /\ reading = <<>>
    BY <1>1, <2>1 DEF Frames!WaitForData, Frames!Polling, Frames!BetweenFrames
  <2>3. ~connection.local
    BY <1>1, <2>2 DEF FramesInv, FrameTypes
  <2>4. SocketIdle /\ Unread = 0
    BY <1>1, <2>2, <2>3, NothingIsLeft
  <2>5. /\ readBuffer \in Seq(Cells) /\ taken \in Nat /\ endFrameIndex \in Nat
        /\ SentFields \in Nat /\ Layout.header \in Nat
    BY <1>1, SentIsNat DEF FramesInv, FrameTypes, Assumed, GoodLayout
  <2>6. wire = <<>> /\ ~(Len(readBuffer) > endFrameIndex)
    BY <2>2, <2>3 DEF Frames!SeesData, Frames!WriteIndex, Frames!Local
  <2>7. Stream = readBuffer
    BY <2>5, <2>6 DEF Stream
  <2>8. endFrameIndex = Len(readBuffer)
    BY <2>4, <2>5, <2>6 DEF SocketIdle
  <2>9. taken + Unread = taken
    BY <2>4, <2>5
  <2>10. Chain(Layout, readBuffer, endFrameIndex, taken, SentFields)
    BY <2>4, <2>7, <2>9 DEF SocketIdle
  <2>11. taken = SentFields
    BY <2>5, <2>8, <2>10, ChainBounds
  <2>. QED
    BY <2>11 DEF SentFields
<1>2. Assumed /\ FramesInv /\ [Frames!Next]_(Frames!vars) =>
         [(polled # "timeout" /\ polled' = "timeout") =>
             (taken = written - Len(writeBuffer))]_(Frames!vars)
  BY <1>1
<1>. QED
  BY <1>2, FramesSafety, PTL DEF TimeoutMeansNoData, Frames!TimeoutMeansNoData, Frames!Spec
=============================================================================
