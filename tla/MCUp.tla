-------------------------------- MODULE MCUp --------------------------------
(* Two requests race for the initialisation of the client element: a       *)
(* wireguard one, and an ipsec one that waits twice, as a server request   *)
(* does for its two interfaces.  A third, for a memif, has an element of   *)
(* its own and waits for an interface that another request uses too.       *)
EXTENDS Up, TLC

CONSTANTS rw, ri, rm,     \* requests
          ec, em,         \* elements
          l1, p1          \* a link and a peer

MCLinks == {l1}
MCPeers == {p1}

Up_(l, w) == [kind |-> "up", of |-> l, wait |-> w]
PeerUp(p) == [kind |-> "peerup", of |-> p, wait |-> TRUE]
IPsecUp(l) == [kind |-> "ipsecup", of |-> l, wait |-> TRUE]

MCRequests == {rw, ri, rm}
MCElements == {ec, em}
MCElementOf == (rw :> ec) @@ (ri :> ec) @@ (rm :> em)
MCPlan == (rw :> <<Up_(l1, FALSE), PeerUp(p1)>>)
       @@ (ri :> <<IPsecUp(l1), Up_(l1, TRUE)>>)
       @@ (rm :> <<Up_(l1, TRUE)>>)
=============================================================================
