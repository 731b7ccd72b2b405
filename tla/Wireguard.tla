------------------------------ MODULE Wireguard ------------------------------
(***************************************************************************)
(* pkg/networkservice/mechanisms/wireguard and its peer subpackage: a      *)
(* wireguard tunnel between the VPP of the client and the VPP of the       *)
(* server of a connection.                                                 *)
(*                                                                         *)
(* Each side has one interface for a connection, with a private key of its *)
(* own, and on it a peer: the public key of the other side.  The public    *)
(* keys travel in the mechanism.  The interface element remembers the      *)
(* interface and its public key, the peer element, which is outside of it  *)
(* in the chain, the peer under its public key.                            *)
(*                                                                         *)
(* A key pair is its number; only pairs that are used get one.  Requests   *)
(* that are not for wireguard change nothing here and are left out.        *)
(***************************************************************************)
EXTENDS Naturals, FiniteSets

CONSTANTS Conns,    \* connection ids
          Ifs,      \* the indices VPP can give to wireguard interfaces
          Peers,    \* the indices VPP can give to peers
          None,
          MaxKeys,  \* bound: key pairs used
          Envs      \* the environments to consider

Sides == {"client", "server"}

(* call: a call that creates something fails, or another element of a      *)
(* chain; delete: a deletion fails; lost: a Close does not reach the       *)
(* server; expire: the server closes a connection by itself.               *)
FaultKinds == {"call", "delete", "lost", "expire"}

ASSUME WireguardAssumption == /\ None \notin Ifs \cup Peers \cup [if : Ifs, key : 1..MaxKeys]
                              /\ IsFiniteSet(Ifs)
                              /\ MaxKeys \in Nat
                              /\ Envs \subseteq [conns : SUBSET Conns, keys : 0..MaxKeys,
                                                 faults : SUBSET FaultKinds]

VARIABLES
    env,      \* the connections of this behaviour, the key pairs it may use
              \* and what may go wrong in it
    keys,     \* key pairs used so far
    mech,     \* mech[e][c]: the public keys of the last connection that was
              \* established, as side e has it
    req,      \* req[c]: the public keys in the request on its way
    own,      \* own[c]: the private key the client has generated for it
    pubKey,   \* pubKey[e][c]: metadata, the public key of the interface
    ifindex,  \* ifindex[e][c]: metadata, the interface
    peerIdx,  \* peerIdx[e][c][k]: metadata, the peer with public key k
    ifs,      \* ifs[e][i]: VPP, the private key of interface i, 0 if none
    peers,    \* peers[e][p]: VPP, the interface and public key of peer p
    failed,   \* failed[e]: interfaces that could not be deleted
    undone,   \* ghost: connections whose client has deleted the interface
              \* after a failure and kept the mechanism
    outlived, \* ghost: <<e, c>>, if the interface of c at side e has stayed
              \* while the other side deleted its own
    stale,    \* ghost: a failure has left the index of a peer in the metadata
              \* whose interface was deleted
    pc        \* where the request or close of each connection is

vars == <<env, keys, mech, req, own, pubKey, ifindex, peerIdx, ifs, peers, failed, undone, outlived, stale, pc>>
metadata == <<pubKey, ifindex, peerIdx>>
vpp == <<ifs, peers, failed>>
history == <<undone, outlived, stale>>

Faults == env.faults

Keys == 1..MaxKeys
Mechanism == [src : 0..MaxKeys, dst : 0..MaxKeys]
NoMechanism == [src |-> 0, dst |-> 0]
NoPeers == [k \in Keys |-> None]

Steps == {"ready", "interface", "peer"} \cup
         {"server", "serverpeer", "serverundo", "serverclose", "serverclosed"} \cup
         {"peerundo", "undo", "close", "serverpeerundo"}

TypeOK == /\ env \in Envs
          /\ keys \in 0..MaxKeys
          /\ mech \in [Sides -> [Conns -> Mechanism]]
          /\ req \in [Conns -> Mechanism]
          /\ own \in [Conns -> 0..MaxKeys]
          /\ pubKey \in [Sides -> [Conns -> 0..MaxKeys]]
          /\ ifindex \in [Sides -> [Conns -> Ifs \cup {None}]]
          /\ peerIdx \in [Sides -> [Conns -> [Keys -> Peers \cup {None}]]]
          /\ ifs \in [Sides -> [Ifs -> 0..MaxKeys]]
          /\ peers \in [Sides -> [Peers -> [if : Ifs, key : Keys] \cup {None}]]
          /\ failed \in [Sides -> Nat]
          /\ undone \subseteq Conns /\ outlived \subseteq Sides \X Conns /\ stale \in BOOLEAN
          /\ pc \in [Conns -> Steps]

Init == /\ env \in Envs
        /\ keys = 0
        /\ mech = [e \in Sides |-> [c \in Conns |-> NoMechanism]]
        /\ req = [c \in Conns |-> NoMechanism]
        /\ own = [c \in Conns |-> 0]
        /\ pubKey = [e \in Sides |-> [c \in Conns |-> 0]]
        /\ ifindex = [e \in Sides |-> [c \in Conns |-> None]]
        /\ peerIdx = [e \in Sides |-> [c \in Conns |-> NoPeers]]
        /\ ifs = [e \in Sides |-> [i \in Ifs |-> 0]]
        /\ peers = [e \in Sides |-> [p \in Peers |-> None]]
        /\ failed = [e \in Sides |-> 0]
        /\ undone = {} /\ outlived = {} /\ stale = FALSE
        /\ pc = [c \in Conns |-> "ready"]

Goto(c, step) == pc' = [pc EXCEPT ![c] = step]

GeneratePrivateKey == keys < env.keys /\ keys' = keys + 1

-----------------------------------------------------------------------------
(* common.go *)

(* An interface with private key k, unless the connection has one. *)
createInterface(e, c, k) ==
    /\ pubKey[e][c] = 0
    /\ \E i \in Ifs : /\ ifs[e][i] = 0
                      /\ ifs' = [ifs EXCEPT ![e][i] = k]
                      /\ ifindex' = [ifindex EXCEPT ![e][c] = i]
                      /\ pubKey' = [pubKey EXCEPT ![e][c] = k]

(* VPP removes the peers of an interface with it. *)
InterfaceDelete(e, i) ==
    /\ ifs' = [ifs EXCEPT ![e][i] = 0]
    /\ peers' = [peers EXCEPT ![e] = [p \in Peers |->
                    IF @[p] # None /\ @[p].if = i THEN None ELSE @[p]]]
    /\ UNCHANGED failed

(* Mutant of delInterface: the interface is deleted and still remembered. *)
delInterface_load(e, c) ==
    /\ UNCHANGED <<pubKey, ifindex>>
    /\ \/ ifindex[e][c] = None /\ UNCHANGED vpp
       \/ ifindex[e][c] # None /\ InterfaceDelete(e, ifindex[e][c])

(* The interface that is remembered, if any, is forgotten and deleted; the *)
(* error is ignored by the callers.                                        *)
delInterface(e, c) ==
    /\ pubKey' = [pubKey EXCEPT ![e][c] = 0]
    /\ ifindex' = [ifindex EXCEPT ![e][c] = None]
    /\ \/ pubKey[e][c] = 0 /\ UNCHANGED vpp
       \/ pubKey[e][c] # 0 /\ InterfaceDelete(e, ifindex[e][c])
       \/ /\ pubKey[e][c] # 0 /\ "delete" \in Faults
          /\ failed' = [failed EXCEPT ![e] = @ + 1]
          /\ UNCHANGED <<ifs, peers>>

-----------------------------------------------------------------------------
(* peer/common.go *)

(* The public key of the other side. *)
getKey(m, e) == IF e = "client" THEN m.dst ELSE m.src

(* A peer with public key k on the interface of the connection, unless one *)
(* is remembered under this key.  The interface is there: its element is   *)
(* done when the element of the peer gets the reply.                       *)
createPeer(e, c, k) ==
    /\ \/ peerIdx[e][c][k] # None /\ UNCHANGED <<peers, peerIdx>>
       \/ /\ peerIdx[e][c][k] = None
          /\ \E p \in Peers :
                /\ peers[e][p] = None
                /\ peers' = [peers EXCEPT ![e][p] = [if |-> ifindex[e][c], key |-> k]]
                /\ peerIdx' = [peerIdx EXCEPT ![e][c][k] = p]
    /\ UNCHANGED <<pubKey, ifindex, ifs, failed>>

createPeerFails(e, c, k) == peerIdx[e][c][k] = None /\ "call" \in Faults

(* Mutant of delPeer: it is not looked whether a peer was remembered, and  *)
(* the zero value of the index may be the index of any peer.               *)
delPeer_unchecked(e, c, k) ==
    /\ peerIdx' = [peerIdx EXCEPT ![e][c][k] = None]
    /\ \E q \in Peers : /\ peerIdx[e][c][k] \in {q, None}
                        /\ peers' = [peers EXCEPT ![e][q] = None]
    /\ UNCHANGED <<pubKey, ifindex, ifs, failed>>

(* The peer remembered under k, if any, is forgotten and removed; removing *)
(* one that VPP does not have changes nothing, and the error is ignored.   *)
delPeer(e, c, k) ==
    /\ peerIdx' = [peerIdx EXCEPT ![e][c][k] = None]
    /\ \/ peers' = [peers EXCEPT ![e] = [p \in Peers |-> IF p = peerIdx[e][c][k] THEN None ELSE @[p]]]
       \/ "delete" \in Faults /\ UNCHANGED peers
    /\ UNCHANGED <<pubKey, ifindex, ifs, failed>>

(* What the ghosts record when side e deletes its interface: the interface *)
(* of side f, if there is one, outlives it.                                *)
Outlives(e, f, c) ==
    outlived' = (outlived \ {<<e, c>>}) \cup (IF pubKey[f][c] # 0 THEN {<<f, c>>} ELSE {})

(* ... and so do the indices of peers that were not removed before it, if  *)
(* the metadata stays.                                                     *)
LeavesPeers(e, c) == stale' = (stale \/ peerIdx[e][c] # NoPeers)

-----------------------------------------------------------------------------
(* client.go, peer/client.go *)

(* A private key is generated.  Its public key is offered, or the one that *)
(* the mechanism of the connection has; the server may fail before its     *)
(* interface.                                                              *)
ClientRequest(c) ==
    /\ pc[c] = "ready"
    /\ \/ /\ mech["client"][c].src = 0
          /\ GeneratePrivateKey
          /\ own' = [own EXCEPT ![c] = keys + 1]
          /\ req' = [req EXCEPT ![c] = [src |-> keys + 1, dst |-> 0]]
          /\ Goto(c, "server")
       \/ /\ mech["client"][c].src # 0
          /\ req' = [req EXCEPT ![c] = mech["client"][c]]
          /\ Goto(c, "server")
          /\ UNCHANGED <<keys, own>>
    /\ UNCHANGED <<mech, metadata, vpp, history>>

(* The reply has come: the interface, with the private key generated for   *)
(* this request.                                                           *)
ClientInterface(c) ==
    /\ pc[c] = "interface"
    /\ \/ /\ pubKey["client"][c] # 0
          /\ Goto(c, "peer")
          /\ UNCHANGED <<keys, metadata, vpp>>
       \/ /\ own[c] # 0 /\ createInterface("client", c, own[c])
          /\ Goto(c, "peer")
          /\ UNCHANGED <<keys, peerIdx, peers, failed>>
       \/ /\ own[c] = 0 /\ GeneratePrivateKey /\ createInterface("client", c, keys + 1)
          /\ Goto(c, "peer")
          /\ UNCHANGED <<peerIdx, peers, failed>>
       \/ /\ pubKey["client"][c] = 0 /\ "call" \in Faults
          /\ Goto(c, "undo")
          /\ UNCHANGED <<keys, metadata, vpp>>
    /\ UNCHANGED <<mech, req, own, history>>

Answered(c) == own' = [own EXCEPT ![c] = 0] /\ req' = [req EXCEPT ![c] = NoMechanism]

(* The peer; when it fails, Close of its element and of those behind it,   *)
(* and also when an element in front of it fails.                          *)
ClientPeer(c) ==
    /\ pc[c] = "peer"
    /\ \/ /\ createPeer("client", c, getKey(req[c], "client"))
          /\ mech' = [mech EXCEPT !["client"][c] = req[c]]
          /\ Answered(c)
          /\ Goto(c, "ready")
       \/ /\ createPeer("client", c, getKey(req[c], "client"))
          /\ "call" \in Faults
          /\ Goto(c, "peerundo")
          /\ UNCHANGED <<mech, req, own>>
       \/ /\ createPeerFails("client", c, getKey(req[c], "client"))
          /\ Goto(c, "peerundo")
          /\ UNCHANGED <<mech, req, own, metadata, vpp>>
    /\ UNCHANGED <<keys, history>>

ToServer(c) == \/ Goto(c, "serverclose")
               \/ "lost" \in Faults /\ Goto(c, "ready")

ClientPeerUndo(c) ==
    /\ pc[c] = "peerundo"
    /\ delPeer("client", c, getKey(req[c], "client"))
    /\ Goto(c, "undo")
    /\ UNCHANGED <<keys, mech, req, own, history>>

(* The close after a failure.  The connection, if it was established once, *)
(* keeps its mechanism and its metadata.                                   *)
ClientUndo(c) ==
    /\ pc[c] = "undo"
    /\ delInterface("client", c)
    /\ Answered(c)
    /\ ToServer(c)
    /\ undone' = IF mech["client"][c] = NoMechanism THEN undone ELSE undone \cup {c}
    /\ Outlives("client", "server", c)
    /\ LeavesPeers("client", c)
    /\ UNCHANGED <<keys, mech, peerIdx>>

(* Close: the peer, ... *)
ClientClose(c) ==
    /\ pc[c] = "ready" /\ mech["client"][c] # NoMechanism
    /\ delPeer("client", c, getKey(mech["client"][c], "client"))
    /\ Goto(c, "close")
    /\ UNCHANGED <<keys, mech, req, own, history>>

(* ... the interface and the server; the metadata goes with the connection. *)
ClientCloseInterface(c) ==
    /\ pc[c] = "close"
    /\ delInterface("client", c)
    /\ peerIdx' = [peerIdx EXCEPT !["client"][c] = NoPeers]
    /\ mech' = [mech EXCEPT !["client"][c] = NoMechanism]
    /\ ToServer(c)
    /\ undone' = undone \ {c}
    /\ Outlives("client", "server", c)
    /\ UNCHANGED <<keys, req, own, stale>>

(* An element between the two sides fails after the reply has passed it:   *)
(* it closes the server, and the client only gets the error.               *)
BetweenFails(c) ==
    /\ pc[c] = "interface" /\ "call" \in Faults
    /\ Answered(c)
    /\ Goto(c, "serverclose")
    /\ UNCHANGED <<keys, mech, metadata, vpp, history>>

-----------------------------------------------------------------------------
(* server.go, peer/server.go *)

(* Mutant of ServerInterface: the public key of the new private key is put *)
(* into the reply although the interface is kept.                          *)
ServerInterface_new(c) ==
    /\ pc[c] = "server"
    /\ GeneratePrivateKey
    /\ req' = [req EXCEPT ![c].dst = keys + 1]
    /\ Goto(c, "serverpeer")
    /\ \/ pubKey["server"][c] # 0 /\ UNCHANGED <<metadata, vpp>>
       \/ createInterface("server", c, keys + 1) /\ UNCHANGED <<peerIdx, peers, failed>>
    /\ UNCHANGED <<mech, own, history>>

(* The public key of the interface, which may be an old one, is put into   *)
(* the mechanism.                                                          *)
ServerInterface(c) ==
    /\ pc[c] = "server"
    /\ \/ /\ pubKey["server"][c] # 0
          /\ req' = [req EXCEPT ![c].dst = pubKey["server"][c]]
          /\ Goto(c, "serverpeer")
          /\ UNCHANGED <<keys, metadata, vpp>>
       \/ /\ GeneratePrivateKey /\ createInterface("server", c, keys + 1)
          /\ req' = [req EXCEPT ![c].dst = keys + 1]
          /\ Goto(c, "serverpeer")
          /\ UNCHANGED <<peerIdx, peers, failed>>
    /\ UNCHANGED <<mech, own, history>>

(* An element behind fails, or the interface, which leaves nothing. *)
ServerFails(c) ==
    /\ pc[c] = "server" /\ "call" \in Faults
    /\ Answered(c)
    /\ Goto(c, "ready")
    /\ UNCHANGED <<keys, mech, metadata, vpp, history>>

(* The peer; that it fails, or an element in front of it, closes here as   *)
(* it does at the client.                                                  *)
ServerPeer(c) ==
    /\ pc[c] = "serverpeer"
    /\ \/ /\ createPeer("server", c, getKey(req[c], "server"))
          /\ mech' = [mech EXCEPT !["server"][c] = req[c]]
          /\ Goto(c, "interface")
       \/ /\ createPeer("server", c, getKey(req[c], "server"))
          /\ "call" \in Faults
          /\ Goto(c, "serverpeerundo")
          /\ UNCHANGED mech
       \/ /\ createPeerFails("server", c, getKey(req[c], "server"))
          /\ Goto(c, "serverpeerundo")
          /\ UNCHANGED <<mech, metadata, vpp>>
    /\ UNCHANGED <<keys, req, own, history>>

(* The close after a failure. *)
ServerPeerUndo(c) ==
    /\ pc[c] = "serverpeerundo"
    /\ delPeer("server", c, getKey(req[c], "server"))
    /\ Goto(c, "serverundo")
    /\ UNCHANGED <<keys, mech, req, own, history>>

ServerUndo(c) ==
    /\ pc[c] = "serverundo"
    /\ delInterface("server", c)
    /\ Answered(c)
    /\ Goto(c, "ready")
    /\ Outlives("server", "client", c)
    /\ LeavesPeers("server", c)
    /\ UNCHANGED <<keys, mech, peerIdx, undone>>

(* Close by the client, or by the server itself when the connection is not *)
(* refreshed in time.  It is for the last connection that was established. *)
ServerClose(c) ==
    /\ \/ pc[c] = "serverclose"
       \/ pc[c] = "ready" /\ "expire" \in Faults /\ mech["server"][c] # NoMechanism
    /\ \/ /\ mech["server"][c] # NoMechanism
          /\ delPeer("server", c, getKey(mech["server"][c], "server"))
          /\ Goto(c, "serverclosed")
       \/ /\ mech["server"][c] = NoMechanism
          /\ Goto(c, "ready")
          /\ UNCHANGED <<metadata, vpp>>
    /\ UNCHANGED <<keys, mech, req, own, history>>

ServerCloseInterface(c) ==
    /\ pc[c] = "serverclosed"
    /\ delInterface("server", c)
    /\ peerIdx' = [peerIdx EXCEPT !["server"][c] = NoPeers]
    /\ mech' = [mech EXCEPT !["server"][c] = NoMechanism]
    /\ Goto(c, "ready")
    /\ Outlives("server", "client", c)
    /\ UNCHANGED <<keys, req, own, undone, stale>>

Client(c) == \/ ClientRequest(c) \/ ClientInterface(c) \/ ClientPeer(c)
             \/ ClientPeerUndo(c) \/ ClientUndo(c) \/ ClientClose(c) \/ ClientCloseInterface(c)

Server(c) == \/ ServerInterface(c) \/ ServerFails(c) \/ ServerPeer(c)
             \/ ServerPeerUndo(c) \/ ServerUndo(c) \/ ServerClose(c) \/ ServerCloseInterface(c)

Next == /\ \E c \in env.conns : Client(c) \/ Server(c) \/ BetweenFails(c)
        /\ UNCHANGED env

Spec == Init /\ [][Next]_vars

-----------------------------------------------------------------------------
(* Properties *)

PeersOf(e, c) == {p \in Peers : peers[e][p] # None /\ peers[e][p].if = ifindex[e][c]}

KeyOf(e, c) == ifs[e][ifindex[e][c]]

(* Side e has a peer for the key of the interface of side f. *)
Knows(e, f, c) == \E p \in PeersOf(e, c) : peers[e][p].key = KeyOf(f, c)

Tunnel(c) == /\ ifindex["client"][c] # None /\ ifindex["server"][c] # None
             /\ Knows("client", "server", c) /\ Knows("server", "client", c)

(* When a request is granted, each side has a peer for the key of the      *)
(* interface that the other one really has: also for a refresh that finds  *)
(* its interface, and after the other side lost or replaced its own.       *)
(* Whatever fails, with two exceptions: a client that has deleted its      *)
(* interface goes on to offer the key that the mechanism has               *)
(* (client.go:70), and a peer whose index another connection still has is  *)
(* removed with the other one (peer/common.go:101).                        *)
GrantedIsTunnel ==
    [][\A c \in Conns \ undone : pc[c] = "peer" /\ pc'[c] = "ready" /\ ~stale => Tunnel(c)']_vars

(* An interface has one peer, unless it outlives that of the other side:   *)
(* all its peers are allowed every address, so a second one competes for   *)
(* the traffic of the first.                                               *)
OnePeer == \A e \in Sides, c \in Conns :
    ifindex[e][c] # None /\ <<e, c>> \notin outlived => Cardinality(PeersOf(e, c)) <= 1

(* An interface that is remembered exists with the key that is remembered. *)
RememberedExists == \A e \in Sides, c \in Conns :
    /\ (pubKey[e][c] = 0) = (ifindex[e][c] = None)
    /\ ifindex[e][c] # None => KeyOf(e, c) = pubKey[e][c]

(* VPP has no more interfaces that nobody remembers than deletions failed. *)
LeaksAreFailures == \A e \in Sides :
    Cardinality({i \in Ifs : ifs[e][i] # 0 /\ \A c \in Conns : ifindex[e][c] # i}) <= failed[e]

(* Whatever fails, the metadata and VPP agree. *)
StateMatchesVPP == TypeOK /\ RememberedExists /\ LeaksAreFailures /\ OnePeer

(* A step of one connection never removes the peer of another one that is  *)
(* in use there, as long as no failure has left an index behind.           *)
PeersAreOwn == [][~stale => \A e \in Sides, c \in Conns :
    pc[c] = pc'[c] /\ ifindex[e][c] # None => PeersOf(e, c) \subseteq PeersOf(e, c)']_vars
=============================================================================
