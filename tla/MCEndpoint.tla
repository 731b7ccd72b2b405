----------------------------- MODULE MCEndpoint -----------------------------
(* Three connections of one service, one of them a client, and a fourth of *)
(* another service.  Two loopback indices are enough for one to leak and   *)
(* for two services; four ACL indices for an ACL made by one request to be *)
(* deleted by the close of another connection.                             *)
EXTENDS Endpoint, TLC

CONSTANTS s1, s2, c1, c2,   \* connections
          red, blue,        \* network services
          i1, i2,           \* loopback indices
          p1, p2, p3        \* interface indices

MCServers == {s1, s2}
MCClients == {c1, c2}
MCServices == {red, blue}
MCServiceOf == (s1 :> red) @@ (s2 :> red) @@ (c1 :> red) @@ (c2 :> blue)
MCInterfaces == {i1, i2}
MCPorts == {p1, p2, p3}

Env(conns, faults, filter) == [conns |-> conns, faults |-> faults, filter |-> filter]

MCEnvs == {Env({s1, c1}, {"next", "unnumbered", "address", "route", "unroute"}, FALSE),
           Env({s1, s2}, {"acl"}, TRUE),
           Env({s1}, FaultKinds \ {"unroute"}, TRUE),
           Env({s1}, {"next", "acl", "unroute"}, TRUE),
           Env({s1, s2}, {"refresh"}, FALSE),
           Env({s1, s2, c1}, {}, FALSE),
           Env({s1, c2}, {"unroute"}, TRUE)}

(* The indices of interfaces are interchangeable. *)
MCSymmetry == Permutations(MCInterfaces) \cup Permutations(MCPorts)
=============================================================================
