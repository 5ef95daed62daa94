-------------------------- MODULE MCSignalExchange --------------------------
(***************************************************************************)
(* The exchange of signals for TLC.  The kind of the connection decides,   *)
(* as in CreateSignalExchange, whether a session exchanges signals by      *)
(* SignalExchange or by LocalSignalExchange; the other one stays as it is. *)
(*                                                                         *)
(* The server writes a signal of variable size and, over a remote          *)
(* connection, one of fixed size; the client writes one of fixed size.     *)
(*                                                                         *)
(* With Erasure = {} nobody writes over a local connection before both     *)
(* ends have created their parts, and the client does not start the        *)
(* simulation once the server has written or read.  MCLocalSignalStart     *)
(* allows that start.                                                      *)
(***************************************************************************)
EXTENDS SignalExchange, TLC

CONSTANTS
    s1, s2, s3,
    ConnectionKinds,   \* the kinds of connection a run looks at
    LocalSignals,      \* those of the signals that a local connection exchanges
    LengthOnly,        \* as in LocalSignalExchange
    Erasure            \* as in LocalSignalExchange

MCSignals  == {s1, s2, s3}
MCWriter   == (s1 :> "server") @@ (s2 :> "server") @@ (s3 :> "client")
MCLength   == (s1 :> 2) @@ (s2 :> 1) @@ (s3 :> 1)
MCVariable == {s1}

MCLocalSignals == {s1, s3}

VARIABLES
    connectionKind,
    copies, active, isChanged, localChanged, created, localStage, localFrame,
    localWritten, localPublished, used

localVars == <<copies, active, isChanged, localChanged, created, localStage,
               localFrame, localWritten, localPublished, used>>

\* With it comes what LocalSignalExchangeProofs proves about it.
Local == INSTANCE LocalSignalExchangeProofs WITH
    Signals   <- LocalSignals,
    Writer    <- [s \in LocalSignals |-> Writer[s]],
    Length    <- [s \in LocalSignals |-> Length[s]],
    changed   <- localChanged,
    stage     <- localStage,
    frame     <- localFrame,
    written   <- localWritten,
    published <- localPublished

ASSUME Local!LocalSignalAssumption

MCInit ==
    /\ connectionKind \in ConnectionKinds
    /\ Init
    /\ Local!Init

Remotely == connectionKind = "remote" /\ UNCHANGED <<connectionKind, localVars>>
Locally  == connectionKind = "local" /\ UNCHANGED <<connectionKind, vars>>

MCNext ==
    \/ Remotely /\ \E s \in Signals : \E value \in Values(s) : Write(s, value)
    \/ Remotely /\ SendStep
    \/ Remotely /\ SendStepOk
    \/ Remotely /\ \E e \in Ends : ReadSignal(e)
    \/ Remotely /\ \E e \in Ends : EndRead(e)
    \/ Remotely /\ Start
    \/ Locally /\ \E e \in Ends : Local!Create(e)
    \/ Locally /\ \E s \in LocalSignals : \E value \in Values(s) : Local!Write(s, value)
    \/ Locally /\ Local!SendStep
    \/ Locally /\ Local!SendStepOk
    \/ Locally /\ \E e \in Ends : Local!ReadSignal(e)
    \/ Locally /\ \E e \in Ends : Local!EndRead(e)
    \/ Locally /\ Local!Start

\* Fairness of SignalExchange, for a remote connection.
MCFairness ==
    /\ WF_vars(connectionKind = "remote" /\ SendStep)
    /\ WF_vars(connectionKind = "remote" /\ SendStepOk)
    /\ \A e \in Ends : WF_vars(connectionKind = "remote" /\ (ReadSignal(e) \/ EndRead(e)))

MCSpec == MCInit /\ [][MCNext]_<<connectionKind, vars, localVars>> /\ MCFairness

-----------------------------------------------------------------------------
(* The properties of LocalSignalExchange, stated there.                    *)

\* Over a local connection the ends agree on the copies of each signal, if neither
\* clears them under a part the other has used: a writer stores into the copy its
\* reader has active only while a frame is on its way.
LocalCopiesAgree == Local!CopiesAgree

\* Over a local connection, too, the client reads in a step what the server had
\* last given each signal when it sent the step, under the same condition: what
\* the server wrote before a start is lost, as MCLocalSignalStart shows.
LocalClientReadsServerValue == Local!ClientReadsServerValue

\* Over a local connection, too, the server reads after a step what the client
\* had last given each signal when it finished the step, under the same condition.
LocalServerReadsClientValue == Local!ServerReadsClientValue
=============================================================================
