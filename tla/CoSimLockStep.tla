---------------------------- MODULE CoSimLockStep ----------------------------
(***************************************************************************)
(* What a co-simulation session promises the simulator: a session has at   *)
(* most one request at a time; the client takes it once, its callbacks run *)
(* between taking and answering it, and the request ends by that answer or *)
(* by the end of the session.  A request that was lost has no answer.      *)
(* Only a ping is answered without callbacks.                              *)
(***************************************************************************)
EXTENDS Naturals

VARIABLES
    session,  \* the connection of the session, 0 when there is none
    request,  \* the request in progress, or "None"
    stage     \* what became of it: "none", "sent", "taken", "answered", "lost"

vars == <<session, request, stage>>

Init == session = 0 /\ request = "None" /\ stage = "none"

\* A client is attached; the first request may follow at once.
Attach ==
    /\ session = 0
    /\ session' # 0
    /\ \/ request' = "None" /\ stage' = "none"
       \/ request' = "Start" /\ stage' \in {"sent", "lost"}

Request ==
    /\ session # 0 /\ request = "None"
    /\ request' # "None"
    /\ stage' \in {"sent", "lost"}
    /\ UNCHANGED session

Take ==
    /\ stage = "sent" /\ request # "Ping"
    /\ stage' = "taken"
    /\ UNCHANGED <<session, request>>

Answer ==
    /\ stage = "taken" \/ (stage = "sent" /\ request = "Ping")
    /\ stage' = "answered"
    /\ UNCHANGED <<session, request>>

Lose ==
    /\ stage \in {"sent", "taken"}
    /\ stage' = "lost"
    /\ UNCHANGED <<session, request>>

End ==
    /\ stage = "answered"
    /\ stage' = "none" /\ request' = "None"
    /\ UNCHANGED session

Detach ==
    /\ session # 0
    /\ session' = 0 /\ request' = "None" /\ stage' = "none"

Next == Attach \/ Request \/ Take \/ Answer \/ Lose \/ End \/ Detach

Spec == Init /\ [][Next]_vars
=============================================================================
