------------------------------ MODULE SniRouter ------------------------------
(***************************************************************************)
(* Backend selection of the sni-router handler (DynamicHandler): the SNI   *)
(* of the ClientHello picks a route, and each route round-robins over its  *)
(* own backend list with its own atomic counter (route.next).  Each route  *)
(* is an instance of RoundRobin; tallies[r] is the history of route r.    *)
(***************************************************************************)
EXTENDS Naturals, Sequences

CONSTANTS
    Routes,     \* h.routes: SNI -> non-empty backend list
    Offered,    \* the SNIs clients send: routed ones, unknown ones and ""
    Width,      \* bit width of route.counter (64 in the code)
    NoHello     \* ctx.Hello = nil: the Initial carried no parsable ClientHello

ASSUME \A r \in DOMAIN Routes : Len(Routes[r]) > 0
ASSUME NoHello \notin Offered

VARIABLES counters, tallies

vars == <<counters, tallies>>

R(r) == INSTANCE RoundRobin WITH Backends <- Routes[r],
                                 counter <- counters[r], tally <- tallies[r]

Init ==
    /\ counters = [r \in DOMAIN Routes |-> 0]
    /\ tallies = [r \in DOMAIN Routes |-> [i \in DOMAIN Routes[r] |-> 0]]

\* OnConnect drops: no ClientHello, an empty SNI, or an SNI with no route.
OnConnectDrop(sni) ==
    /\ \/ sni = NoHello
       \/ sni = ""
       \/ sni \notin DOMAIN Routes
    /\ UNCHANGED vars

\* A mutant of OnConnectRouted: one handler-wide counter shared by all
\* routes, advanced by every routed connection.
OnConnectRoutedShared(sni) ==
    /\ sni \in DOMAIN Routes
    /\ counters' = [r \in DOMAIN Routes |-> R(r)!Add1(counters[r])]
    /\ tallies' = [tallies EXCEPT ![sni] =
                     R(sni)!Tally(@, R(sni)!Selected(R(sni)!Index(counters[sni])))]

\* OnConnect with a routed SNI: ctx.Set("backend", r.next()), Continue.
OnConnectRouted(sni) ==
    /\ sni \in DOMAIN Routes
    /\ counters' = [counters EXCEPT ![sni] = R(sni)!Add1(@)]
    /\ tallies' = [tallies EXCEPT ![sni] =
                     R(sni)!Tally(@, R(sni)!Selected(R(sni)!Index(counters[sni])))]

Next ==
    \E sni \in Offered \cup {NoHello} :
        OnConnectDrop(sni) \/ OnConnectRouted(sni)

Spec == Init /\ [][Next]_vars

TypeOK ==
    /\ counters \in [DOMAIN Routes -> 0..(2^Width - 1)]
    /\ \A r \in DOMAIN Routes : tallies[r] \in [DOMAIN Routes[r] -> Nat]

(***************************************************************************)
(* Per-route rotation: however connections for different SNIs interleave,  *)
(* every backend of every route has been selected within one of every     *)
(* other backend of the same route.  It is about route.next keeping one   *)
(* counter per route rather than one per handler.                         *)
(***************************************************************************)
RoutesBalanced == \A r \in DOMAIN Routes : R(r)!Balanced
=============================================================================
