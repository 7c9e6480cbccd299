----------------------------- MODULE RoundRobin -----------------------------
(***************************************************************************)
(* Backend selection of the simple-router handler (StaticHandler).         *)
(*                                                                         *)
(*   idx := h.counter.Add(1) - 1                                           *)
(*   backend := h.backends[idx % uint64(len(h.backends))]                  *)
(*                                                                         *)
(* The counter is an atomic.Uint64; Width is its bit width, so the model   *)
(* can take the counter through its wrap-around.  `tally` is a history    *)
(* variable: how many more selections each backend has received than the  *)
(* least-selected one.  Keeping only the differences keeps the state space *)
(* finite without bounding the number of connections.                     *)
(***************************************************************************)
EXTENDS Naturals, Sequences, FiniteSetsExt, Functions

CONSTANTS
    Backends,   \* h.backends: the configured, non-empty backend list
    Width       \* bit width of h.counter (64 in the code)

ASSUME Len(Backends) > 0
ASSUME Width \in Nat \ {0}

VARIABLES counter, tally

vars == <<counter, tally>>

Wrap == 2^Width

Positions == DOMAIN Backends

\* A mutant of Add1: the counter's width is ignored.
Add1Unbounded(c) == c + 1

\* h.counter.Add(1): the new value, modulo the counter's width.
Add1(c) == (c + 1) % Wrap

\* idx := h.counter.Add(1) - 1, evaluated in uint64 arithmetic.
Index(c) == (Add1(c) - 1) % Wrap

\* The position in h.backends that idx % len(h.backends) selects.
Selected(idx) == (idx % Len(Backends)) + 1

\* Record one selection of position i, then subtract the common minimum.
Tally(t, i) ==
    LET t1 == [t EXCEPT ![i] = @ + 1]
        m  == Min(Range(t1))
    IN  [j \in Positions |-> t1[j] - m]

Init ==
    /\ counter = 0
    /\ tally = [i \in Positions |-> 0]

\* A mutant of OnConnect: the counter is read but never advanced.
OnConnectNoAdvance ==
    /\ counter' = counter
    /\ tally' = Tally(tally, Selected(counter))

\* StaticHandler.OnConnect: one connection picks a backend.
OnConnect ==
    /\ counter' = Add1(counter)
    /\ tally' = Tally(tally, Selected(Index(counter)))

Next == OnConnect

Spec == Init /\ [][Next]_vars

TypeOK ==
    /\ counter \in 0..(Wrap - 1)
    /\ tally \in [Positions -> Nat]

(***************************************************************************)
(* Round-robin fairness (spec P4): over any number of connections, every   *)
(* backend of the list has been selected within one of every other.  This  *)
(* is about StaticHandler.OnConnect's idx computation, including the step  *)
(* at which h.counter wraps around.                                        *)
(***************************************************************************)
Balanced == \A i, j \in Positions : tally[i] - tally[j] <= 1
=============================================================================
