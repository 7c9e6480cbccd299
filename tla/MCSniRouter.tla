---------------------------- MODULE MCSniRouter -----------------------------
(* Two routes of two and four backends, an unknown SNI and the empty SNI.  *)
EXTENDS SniRouter, TLC

CONSTANTS a, b, u, b1, b2, b3, b4

MCRoutes == (a :> <<b1, b2>>) @@ (b :> <<b1, b2, b3, b4>>)
MCOffered == {a, b, u, ""}
=============================================================================
