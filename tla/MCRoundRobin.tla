---------------------------- MODULE MCRoundRobin ----------------------------
(* Model-checking instances of RoundRobin: backend lists given by model    *)
(* values, a 2-bit counter so that its wrap-around is reached.             *)
EXTENDS RoundRobin

CONSTANTS b1, b2, b3, b4

\* A list whose length divides 2^Width.
TwoBackends == <<b1, b2>>
FourBackends == <<b1, b2, b3, b4>>
\* A list whose length does not divide 2^Width.
ThreeBackends == <<b1, b2, b3>>
=============================================================================
