-------------------------- MODULE SessionLifecycle --------------------------
(***************************************************************************)
(* What a session promises (spec 4.4, "State machine of a session"), with  *)
(* nothing about who closes it or why.  A session is created active, or    *)
(* aborted at once when the initial packet cannot be forwarded; an active  *)
(* session begins to close (idle sweep, Drop, shutdown); the close is      *)
(* finished exactly once, and it is always finished.                      *)
(***************************************************************************)
CONSTANT Sessions

VARIABLE phase

Phases == {"none", "active", "closing", "closed"}

Init == phase = [s \in Sessions |-> "none"]

Step(s, from, to) ==
    /\ phase[s] = from
    /\ phase' = [phase EXCEPT ![s] = to]

Open(s) == Step(s, "none", "active")
Abort(s) == Step(s, "none", "closed")
BeginClose(s) == Step(s, "active", "closing")
FinishClose(s) == Step(s, "closing", "closed")

Next ==
    \E s \in Sessions :
        Open(s) \/ Abort(s) \/ BeginClose(s) \/ FinishClose(s)

Spec == Init /\ [][Next]_phase /\ \A s \in Sessions : WF_phase(FinishClose(s))
=============================================================================
