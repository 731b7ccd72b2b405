-------------------------- MODULE MCLivenessCheck --------------------------
(* Two checks that share the API connection: one of a connection with two  *)
(* destinations, one with a single destination; a third has no addresses.  *)
EXTENDS LivenessCheck, TLC

CONSTANTS k1, k2, k3, p1, p2, q1

MCChecks == {k1, k2, k3}
MCPings == {p1, p2, q1}
MCCheckOf == (p1 :> k1) @@ (p2 :> k1) @@ (q1 :> k2)
=============================================================================
