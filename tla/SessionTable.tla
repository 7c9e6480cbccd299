---------------------------- MODULE SessionTable ----------------------------
(***************************************************************************)
(* The proxy's session index (spec 4.3): a primary map from client address *)
(* to session and a secondary map from QUIC connection ID to session,      *)
(* plus the O(1) session count the rate limiter reads.  Sessions are named *)
(* by their numeric ID.  The proxy's table code is not part of the         *)
(* repository's sources; every operator here follows the spec.            *)
(***************************************************************************)
EXTENDS Naturals, FiniteSets

CONSTANTS
    Clients,    \* client UDP addresses (model values)
    CIDs,       \* connection IDs a backend may choose (model values)
    MaxSessions,\* bound on the IDs ForwarderHandler.sessionCounter hands out
    None        \* "no session"

VARIABLES
    byClient,   \* client address -> session ID or None
    byCID,      \* connection ID  -> session ID or None
    count       \* the table's session count, read as _session_count

tableVars == <<byClient, byCID, count>>

\* sessionCounter.Add(1) numbers sessions from 1.
Ids == 1..MaxSessions

InTable(s) == \E c \in Clients : byClient[c] = s

TableInit ==
    /\ byClient = [c \in Clients |-> None]
    /\ byCID = [x \in CIDs |-> None]
    /\ count = 0

\* insert(session): index a new session under its client address.
Insert(c, s) ==
    /\ byClient' = [byClient EXCEPT ![c] = s]
    /\ count' = count + 1
    /\ UNCHANGED byCID

\* The extra primary mapping the dispatcher adds when a short-header
\* packet from an unknown address was routed by its DCID.
AddClientKey(c, s) ==
    /\ byClient' = [byClient EXCEPT ![c] = s]
    /\ UNCHANGED <<byCID, count>>

\* index_cid(cid, session): idempotent, last writer wins.
IndexCID(x, s) ==
    /\ byCID' = [byCID EXCEPT ![x] = s]
    /\ UNCHANGED <<byClient, count>>

\* remove(session): drop every primary and secondary key; idempotent.
Remove(s) ==
    /\ byClient' = [c \in Clients |-> IF byClient[c] = s THEN None ELSE byClient[c]]
    /\ byCID' = [x \in CIDs |-> IF byCID[x] = s THEN None ELSE byCID[x]]
    /\ count' = IF InTable(s) THEN count - 1 ELSE count
=============================================================================
