---------------------------- MODULE MCWireguard ----------------------------
(* Connections between one client and one server. *)
EXTENDS Wireguard, TLC

CONSTANTS c1, c2, i1, i2, i3, p1, p2, p3

MCConns == {c1, c2}
MCIfs == {i1, i2, i3}
MCPeers == {p1, p2, p3}

(* Calls fail, which is enough for every kind of damage; with Closes that  *)
(* are lost or come by themselves; with deletions that fail as well.       *)
MCEnvs == {[conns |-> {c1, c2}, keys |-> 5, faults |-> {"call"}],
           [conns |-> {c1, c2}, keys |-> 4, faults |-> {"call", "lost", "expire"}],
           [conns |-> {c1}, keys |-> 4, faults |-> FaultKinds]}

Symmetry == Permutations(MCIfs) \cup Permutations(MCPeers)
=============================================================================
