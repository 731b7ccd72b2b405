------------------------------ MODULE MCPinhole ------------------------------
(* A server and a client element that share a mutex; requests with the     *)
(* same IPPort, with another port of the same IP, and with an extra port   *)
(* (the IKE port of ipsec); one interface filters both ways, one neither;  *)
(* one IP is on no interface, one key has no port.                         *)
EXTENDS Pinhole, TLC

CONSTANTS r1, r2, r3, server, client, a, b, lost, eth, host

MCRequests == {r1, r2, r3}
MCElements == {server, client}
MCElementOf == (r1 :> server) @@ (r2 :> client) @@ (r3 :> server)
SharedMutex == (server :> 1) @@ (client :> 1)
MCIPs == {a, b, lost}
MCPorts == {0, 1, 2}
MCInterfaces == {eth, host}
MCOwner == (a :> eth) @@ (b :> host) @@ (lost :> NoInterface)
MCFiltered == (eth :> [in |-> TRUE, out |-> TRUE]) @@ (host :> [in |-> FALSE, out |-> FALSE])

K(i, p) == [ip |-> i, port |-> p]
MCKeysOf == (r1 :> <<K(a, 1), K(a, 2)>>) @@ (r2 :> <<K(a, 1), K(b, 0)>>) @@ (r3 :> <<K(b, 1), K(lost, 2)>>)
=============================================================================
