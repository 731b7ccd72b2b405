--------------------------- MODULE MCBridgeDomain ---------------------------
(* c1 and c2 have vlan 5 of d1, c3 has vlan 5 of d2, c4 has d1 itself.     *)
EXTENDS BridgeDomain, TLC

CONSTANTS c1, c2, c3, c4, d1, d2, i1, i2, i3, i4, i5, b1, b2

MCConns == {c1, c2, c3, c4}
MCDevices == {d1, d2}
MCDeviceOf == c1 :> d1 @@ c2 :> d1 @@ c3 :> d2 @@ c4 :> d1
MCMatching == d1 :> {d1} @@ d2 :> {d2}
MCVlans == {0, 5}
MCVlanOf == c1 :> 5 @@ c2 :> 5 @@ c3 :> 5 @@ c4 :> 0
MCIfs == {i1, i2, i3, i4, i5}
MCBds == {b1, b2}

(* A shared vlan, and the same vlan of another device; a shared vlan next  *)
(* to its device, whose handlers overlap; any call fails.                  *)
MCEnvs == {[conns |-> {c1, c2, c3}, faults |-> {"subif", "mtu", "mech", "attach"}],
           [conns |-> {c1, c2, c4}, faults |-> {"attach"}],
           [conns |-> {c1, c2, c3}, faults |-> {"subif", "vtr", "mech", "attach", "detach"}]}

Symmetry == Permutations(MCIfs) \cup Permutations(MCBds)
=============================================================================
