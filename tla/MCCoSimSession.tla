--------------------------- MODULE MCCoSimSession ---------------------------
(***************************************************************************)
(* Instances of CoSimSession for TLC.                                      *)
(***************************************************************************)
EXTENDS CoSimSession, TLC

CONSTANTS a, b

MCClients == {a, b}
\* One client of the current version, one of the version before.
MCClientVersion == [c \in Clients |-> IF c = a THEN 2 ELSE 1]
=============================================================================
