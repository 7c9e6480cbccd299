-------------------------- MODULE TerminatorHandler --------------------------
(***************************************************************************)
(* The terminator handler's backend map (spec 2, C9; its code is not part  *)
(* of the repository's sources).  OnConnect records, per SNI, the backend  *)
(* the router chose and redirects ctx["backend"] to the terminator's       *)
(* internal QUIC server; each entry counts the connections using it and is *)
(* deleted when the last one disconnects.  The operations follow           *)
(* TestTerminatorHandler_OnConnect and _RefCounting (config.ts 381-524).   *)
(* Backend addresses are left out: the map is modelled by its keys and     *)
(* counts.                                                                 *)
(***************************************************************************)
EXTENDS Naturals

CONSTANT SNIs       \* server names of terminated connections

VARIABLES
    refs,           \* refs[sni]: backendEntry.refCount
    entries         \* the SNIs th.backends holds an entry for

termVars == <<refs, entries>>

TermInit ==
    /\ refs = [x \in SNIs |-> 0]
    /\ entries = {}

\* OnConnect with an SNI and a backend: the SNI's entry is loaded or
\* stored, and its count goes up by one; ctx["backend"] becomes the
\* internal address and the walk continues.
TermOnConnect(sni) ==
    /\ entries' = entries \cup {sni}
    /\ refs' = [refs EXCEPT ![sni] = @ + 1]

\* OnDisconnect: the SNI's count goes down by one and the entry is deleted
\* when it reaches 0; with no entry for the SNI there is nothing to do.
TermOnDisconnect(sni) ==
    IF sni \in entries
    THEN /\ refs' = [refs EXCEPT ![sni] = @ - 1]
         /\ entries' = IF refs[sni] - 1 = 0 THEN entries \ {sni} ELSE entries
    ELSE UNCHANGED termVars
=============================================================================
