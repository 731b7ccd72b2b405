------------------------------- MODULE MCVl3lb -------------------------------
(* Connection c0 does not match the selector. *)
EXTENDS Vl3lb, TLC

CONSTANTS n1, n2, c0, c1, c2, a, b

MCNSEs == {n1, n2}
MCConns == {c0, c1, c2}
MCSelected == {c1, c2}
MCIPs == {a, b}

(* A single goroutine; one for each of two NSEs; one for each of two       *)
(* sessions.                                                               *)
MCEnvs ==
    {[nses |-> {n1}, conns |-> {c0, c1, c2}, ips |-> {a, b}, sessions |-> 1,
      changes |-> 4, faults |-> {"break"}],
     [nses |-> {n1, n2}, conns |-> {c1, c2}, ips |-> {a}, sessions |-> 1,
      changes |-> 3, faults |-> {"break", "call"}],
     [nses |-> {n1}, conns |-> {c1, c2}, ips |-> {a}, sessions |-> 2,
      changes |-> 3, faults |-> {"break", "call"}]}
=============================================================================
