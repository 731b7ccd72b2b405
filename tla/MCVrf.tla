------------------------------- MODULE MCVrf -------------------------------
(* Two services; the red one has a server and a client connection. *)
EXTENDS Vrf, TLC

CONSTANTS s1, c1, c2,      \* connections
          red, blue,       \* network services
          i1, i2, i3,      \* mechanism interfaces
          lr, lb,          \* loopbacks
          t1, t2           \* table ids

MCServers == {s1}
MCClients == {c1, c2}
MCServices == {red, blue}
MCServiceOf == (s1 :> red) @@ (c1 :> red) @@ (c2 :> blue)
MCMechs == {i1, i2, i3}
MCLoopOf == (red :> lr) @@ (blue :> lb)
MCIds == {t1, t2}

(* Two services whose handlers interleave, where allocating and attaching  *)
(* fail; two connections of one service whose handlers overlap; the two    *)
(* one after the other, where any call fails.                              *)
MCEnvs == {[conns |-> {s1, c1, c2}, faults |-> {"attach", "create"}, overlap |-> FALSE],
           [conns |-> {s1, c1}, faults |-> {"next"}, overlap |-> TRUE],
           [conns |-> {s1, c1}, faults |-> {"create", "next", "attach", "delete"}, overlap |-> FALSE]}

MCSymmetry == Permutations(MCMechs) \cup Permutations(MCIds)
=============================================================================
