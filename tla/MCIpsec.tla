------------------------------- MODULE MCIpsec -------------------------------
(* Two connections between one client and one server. *)
EXTENDS Ipsec, TLC

CONSTANTS c1, c2, t1, t2, t3

MCConns == {c1, c2}
MCTunnels == {t1, t2, t3}

(* Calls fail; closes are lost and connections expire too; deleting fails  *)
(* as well.                                                                *)
MCEnvs == {[faults |-> {"call"}, certs |-> 5],
           [faults |-> {"call", "lost", "expire"}, certs |-> 4],
           [faults |-> {"call", "delete", "lost", "expire"}, certs |-> 4]}

Symmetry == Permutations(MCTunnels)
=============================================================================
