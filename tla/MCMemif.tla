------------------------------- MODULE MCMemif -------------------------------
(* c1 has memif on its server side, c2 has not. *)
EXTENDS Memif, TLC

CONSTANTS c1, c2, n1, n2, i1, i2, s1, s2, s3

MCConns == {c1, c2}
MCMemifServer == {c1}
MCNames == {n1, n2}
MCIfs == {i1, i2}
MCSockets == {s1, s2, s3}

(* Refreshes find what they found before, and VPP reuses socket ids; they  *)
(* find other names, and it does not; then a single connection that is     *)
(* direct or becomes so, with clients, and with calls of the proxy that    *)
(* fail.                                                                   *)
MCEnvs == {[faults |-> {"next", "name", "create", "watch", "mode", "up"}, failures |-> 2, reuse |-> TRUE, moves |-> FALSE,
            direct |-> TRUE, conns |-> MCConns, slots |-> {1}, pipes |-> 0],
           [faults |-> {"create", "delete", "up"}, failures |-> 1, reuse |-> FALSE, moves |-> TRUE,
            direct |-> FALSE, conns |-> MCConns, slots |-> {1}, pipes |-> 0],
           [faults |-> {"watch", "accept"}, failures |-> 2, reuse |-> FALSE, moves |-> FALSE,
            direct |-> TRUE, conns |-> {c1}, slots |-> {1, 2}, pipes |-> 2],
           [faults |-> {"create", "dial"}, failures |-> 1, reuse |-> FALSE, moves |-> TRUE,
            direct |-> TRUE, conns |-> {c1}, slots |-> {1, 2}, pipes |-> 1]}

Symmetry == Permutations(MCIfs) \cup Permutations(MCSockets) \cup Permutations(MCNames)
=============================================================================
