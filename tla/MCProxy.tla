------------------------------ MODULE MCProxy -------------------------------
(* Model-checking instance of Proxy: two client addresses, two sessions,   *)
(* one connection ID per backend, one backend for simple-router.          *)
EXTENDS Proxy

CONSTANTS c1, c2, x1, x2, b1, n1

MCClients == {c1, c2}
MCOneClient == {c1}
MCCIDs == {x1, x2}
\* Each backend picks its own connection ID.
MCServerCIDs == [s \in 1..2 |-> IF s = 1 THEN {x1} ELSE {x2}]
MCBackends == <<b1>>
\* One server name, so that two sessions can share a terminator entry.
MCSNIs == {n1}
=============================================================================
