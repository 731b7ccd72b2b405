-------------------------------- MODULE Ipsec --------------------------------
(***************************************************************************)
(* pkg/networkservice/mechanisms/ipsec: an IPsec tunnel between the VPP of *)
(* the client and the VPP of the server of a connection, keyed by IKEv2.   *)
(*                                                                         *)
(* Each side creates a tunnel interface and a profile that protects it,    *)
(* and remembers the interface in its metadata (ifindex) at the very end.  *)
(* The certificates travel in the mechanism: the client offers its own in  *)
(* the request, the server puts a new one into every reply.                *)
(*                                                                         *)
(* A request goes from the client to the server and back; the requests and *)
(* closes of one connection are serialised (begin), those of different     *)
(* connections interleave.  The VPP calls of one create are on objects of  *)
(* one connection, so they are one step, up to the call that fails.        *)
(*                                                                         *)
(* The other elements of the two chains take part by their failures: one   *)
(* that fails once it has its reply closes what is behind it, which are    *)
(* both ends, or the end of the server alone, also on a refresh.           *)
(***************************************************************************)
EXTENDS Naturals, FiniteSets, Sequences

CONSTANTS Conns,      \* connection ids
          Tunnels,    \* the indices VPP can give to ipsec interfaces
          NoTunnel,
          MaxCerts,   \* bound: certificates created
          Envs        \* the environments to consider

Sides == {"client", "server"}

(* call: a call of Request or create, or another element of the chains,    *)
(* fails; delete: a call of delInterface fails; lost: a Close does not     *)
(* reach the server; expire: the server closes a connection by itself.     *)
FaultKinds == {"call", "delete", "lost", "expire"}

ASSUME IpsecAssumption == /\ NoTunnel \notin Tunnels
                          /\ IsFiniteSet(Tunnels)
                          /\ MaxCerts \in Nat
                          /\ Envs \subseteq [faults : SUBSET FaultKinds, certs : 0..MaxCerts]

VARIABLES
    env,       \* what may go wrong in this behaviour, and its bound of certs
    localKey,  \* localKey[e]: VPP has the private key of side e
    onceInit,  \* onceInit[e]: the sync.Once of the element has run
    certs,     \* certificates created so far; a certificate is its number
    mech,      \* mech[c]: the certificates in the mechanism of c
    established,  \* the connections with a request that has succeeded
    parted,    \* the connections whose client keeps the tunnel to one that an
               \* element has closed at the server
    ifindex,   \* ifindex[e][c]: the tunnel in the metadata
    tunnels,   \* tunnels[e]: the ipsec interfaces of VPP
    profiles,  \* profiles[e][c]: the IKEv2 profile "e-c" of VPP, or NoProfile
    failed,    \* failed[e]: creates that failed after their first call, and
               \* tunnels that could not be deleted
    pc         \* where the request of each connection is

vars == <<env, localKey, onceInit, certs, mech, established, parted,
          ifindex, tunnels, profiles, failed, pc>>

Faults == env.faults

Certs == 0..MaxCerts   \* 0: none
Mechanism == [src : Certs, dst : Certs]
NoMechanism == [src |-> 0, dst |-> 0]

Profile == [encap : BOOLEAN, auth : Certs, local : Certs, remote : Certs,
            ts : {"none", "src", "dst"}, tunnel : Tunnels \cup {NoTunnel},
            responder : BOOLEAN, transforms : BOOLEAN, lifetime : BOOLEAN, started : BOOLEAN]
NewProfile == [encap |-> FALSE, auth |-> 0, local |-> 0, remote |-> 0,
               ts |-> "none", tunnel |-> NoTunnel,
               responder |-> FALSE, transforms |-> FALSE, lifetime |-> FALSE, started |-> FALSE]
NoProfile == [name |-> "none"]

TypeOK == /\ env \in Envs
          /\ localKey \in [Sides -> BOOLEAN]
          /\ onceInit \in [Sides -> BOOLEAN]
          /\ certs \in Certs
          /\ mech \in [Conns -> Mechanism]
          /\ established \subseteq Conns /\ parted \subseteq Conns
          /\ ifindex \in [Sides -> [Conns -> Tunnels \cup {NoTunnel}]]
          /\ tunnels \in [Sides -> SUBSET Tunnels]
          /\ \A e \in Sides, c \in Conns : profiles[e][c] \in Profile \cup {NoProfile}
          /\ failed \in [Sides -> Nat]
          /\ pc \in [Conns -> {"ready", "server", "reply", "undo", "undoserver"}]

Init == /\ env \in Envs
        /\ localKey = [e \in Sides |-> FALSE]
        /\ onceInit = [e \in Sides |-> FALSE]
        /\ certs = 0
        /\ mech = [c \in Conns |-> NoMechanism]
        /\ established = {} /\ parted = {}
        /\ ifindex = [e \in Sides |-> [c \in Conns |-> NoTunnel]]
        /\ tunnels = [e \in Sides |-> {}]
        /\ profiles = [e \in Sides |-> [c \in Conns |-> NoProfile]]
        /\ failed = [e \in Sides |-> 0]
        /\ pc = [c \in Conns |-> "ready"]

Goto(c, step) == pc' = [pc EXCEPT ![c] = step]

-----------------------------------------------------------------------------
(* common.go: what each call makes of a profile *)

setUDPEncap(p) == [p EXCEPT !.encap = TRUE]

(* The certificate of the peer. *)
setKeys(p, e, m) == [p EXCEPT !.auth = IF e = "client" THEN m.dst ELSE m.src]

(* Mutant of setFQDN: the server forgets to swap the names. *)
setFQDN_same(p, e, m) == [p EXCEPT !.local = m.src, !.remote = m.dst]

(* The certificates are also the names of the two ends. *)
setFQDN(p, e, m) == [p EXCEPT !.local = IF e = "client" THEN m.src ELSE m.dst,
                              !.remote = IF e = "client" THEN m.dst ELSE m.src]

(* Which addresses of the connection are the local ones. *)
setTrafficSelector(p, e) == [p EXCEPT !.ts = IF e = "client" THEN "src" ELSE "dst"]

protectTunnel(p, t) == [p EXCEPT !.tunnel = t]

setResponder(p) == [p EXCEPT !.responder = TRUE]

setTransforms(p) == [p EXCEPT !.transforms = TRUE]

setSaLifetime(p) == [p EXCEPT !.lifetime = TRUE]

(* VPP starts the negotiation. *)
saInit(p) == [p EXCEPT !.started = TRUE]

(* The steps of the client, which starts; looking up the interface of the  *)
(* responder changes nothing.                                              *)
initiate(p) == LET p1 == setResponder(p)
                   p2 == setTransforms(p1)
                   p3 == setSaLifetime(p2)
               IN  <<p, p1, p2, p3, saInit(p3)>>

(* The profile after each call of create, in order. *)
Stages(e, m, t) ==
    LET p1 == setUDPEncap(NewProfile)
        p2 == setKeys(p1, e, m)
        p3 == setFQDN(p2, e, m)
        p4 == setTrafficSelector(p3, e)
        p5 == protectTunnel(p4, t)
    IN  <<NewProfile, p1, p2, [p2 EXCEPT !.local = p3.local], p3, p4>>
        \o IF e = "client" THEN initiate(p5) ELSE <<p5>>

Finished(e, m, t) == Stages(e, m, t)[Len(Stages(e, m, t))]

(* A connection that has a tunnel keeps it; otherwise the tunnel and then  *)
(* the profile are created, and the tunnel is remembered.                  *)
create(e, c, m) ==
    \/ /\ ifindex[e][c] # NoTunnel
       /\ UNCHANGED <<ifindex, tunnels, profiles, failed>>
    \/ /\ ifindex[e][c] = NoTunnel /\ profiles[e][c] = NoProfile
       /\ \E t \in Tunnels \ tunnels[e] :
             /\ tunnels' = [tunnels EXCEPT ![e] = @ \cup {t}]
             /\ profiles' = [profiles EXCEPT ![e][c] = Finished(e, m, t)]
             /\ ifindex' = [ifindex EXCEPT ![e][c] = t]
       /\ UNCHANGED failed

(* A call fails: the first one, adding the profile (it may exist), or a    *)
(* later one.                                                              *)
createFails(e, c, m) ==
    /\ ifindex[e][c] = NoTunnel
    /\ \/ /\ "call" \in Faults \/ tunnels[e] = Tunnels
          /\ UNCHANGED <<ifindex, tunnels, profiles, failed>>
       \/ \E t \in Tunnels \ tunnels[e] :
             /\ tunnels' = [tunnels EXCEPT ![e] = @ \cup {t}]
             /\ failed' = [failed EXCEPT ![e] = @ + 1]
             /\ \/ /\ "call" \in Faults \/ profiles[e][c] # NoProfile
                   /\ UNCHANGED profiles
                \/ /\ "call" \in Faults /\ profiles[e][c] = NoProfile
                   /\ \E j \in 1..Len(Stages(e, m, t)) - 1 :
                         profiles' = [profiles EXCEPT ![e][c] = Stages(e, m, t)[j]]
             /\ UNCHANGED ifindex

(* Mutant of delInterface: the tunnel is deleted and still remembered. *)
delInterface_load(e, c) ==
    /\ profiles' = [profiles EXCEPT ![e][c] = NoProfile]
    /\ tunnels' = [tunnels EXCEPT ![e] = @ \ {ifindex[e][c]}]
    /\ UNCHANGED <<ifindex, failed>>

(* The tunnel that is remembered, if any, is forgotten and deleted. *)
delIPSecTunnel(e, c) ==
    /\ ifindex' = [ifindex EXCEPT ![e][c] = NoTunnel]
    /\ \/ /\ tunnels' = [tunnels EXCEPT ![e] = @ \ {ifindex[e][c]}]
          /\ UNCHANGED failed
       \/ /\ "delete" \in Faults /\ ifindex[e][c] # NoTunnel
          /\ failed' = [failed EXCEPT ![e] = @ + 1]
          /\ UNCHANGED tunnels

(* The profile is deleted, then the tunnel; errors are ignored. *)
delInterface(e, c) ==
    /\ \/ profiles' = [profiles EXCEPT ![e][c] = NoProfile]
       \/ "delete" \in Faults /\ UNCHANGED profiles
    /\ delIPSecTunnel(e, c)

(* Once per element; only the request that runs it sees the error. *)
setIKEv2LocalKey(e) ==
    \/ /\ onceInit[e]
       /\ UNCHANGED <<localKey, onceInit>>
    \/ /\ ~onceInit[e]
       /\ onceInit' = [onceInit EXCEPT ![e] = TRUE]
       /\ localKey' = [localKey EXCEPT ![e] = TRUE]

setIKEv2LocalKeyFails(e) == /\ "call" \in Faults /\ ~onceInit[e]
                            /\ onceInit' = [onceInit EXCEPT ![e] = TRUE]
                            /\ UNCHANGED localKey

createCertBase64 == /\ certs < env.certs
                    /\ certs' = certs + 1

-----------------------------------------------------------------------------
(* client.go *)

(* After a failure the client has the mechanism of its last reply, if any. *)
(* Its certificate of the server is not used: every reply has a new one.   *)
Forget(c) == mech' = IF c \in established THEN mech ELSE [mech EXCEPT ![c] = NoMechanism]

(* The certificate of the mechanism is used again; else a new one is       *)
(* offered.                                                                *)
ClientRequest(c) ==
    /\ pc[c] = "ready"
    /\ \/ /\ setIKEv2LocalKey("client")
          /\ Goto(c, "server")
          /\ \/ mech[c].src # 0 /\ UNCHANGED <<certs, mech>>
             \/ mech[c].src = 0 /\ createCertBase64 /\ mech' = [mech EXCEPT ![c].src = certs + 1]
       \/ setIKEv2LocalKeyFails("client") /\ UNCHANGED <<certs, mech, pc>>
    /\ UNCHANGED <<established, parted, ifindex, tunnels, profiles, failed>>

(* The reply has come.  After create an element in front, like up, mtu or  *)
(* tag, may fail, also when this is a refresh.                             *)
ClientCreate(c) ==
    /\ pc[c] = "reply"
    /\ \/ /\ create("client", c, mech[c])
          /\ established' = established \cup {c}
          /\ Goto(c, "ready")
       \/ /\ create("client", c, mech[c]) /\ "call" \in Faults
          /\ Goto(c, "undo")
          /\ UNCHANGED established
       \/ /\ createFails("client", c, mech[c])
          /\ Goto(c, "undo")
          /\ UNCHANGED established
    /\ UNCHANGED <<localKey, onceInit, certs, mech, parted>>

(* Close deletes the tunnel of the client and goes on to the server, which *)
(* it may not reach.  After a failure the connection is kept if it was     *)
(* established.                                                            *)
Close(c) ==
    /\ \/ pc[c] = "undo" /\ Forget(c) /\ UNCHANGED established
       \/ /\ pc[c] = "ready" /\ c \in established
          /\ mech' = [mech EXCEPT ![c] = NoMechanism]
          /\ established' = established \ {c}
    /\ delInterface("client", c)
    /\ parted' = parted \ {c}
    /\ \/ Goto(c, "undoserver")
       \/ "lost" \in Faults /\ Goto(c, "ready")
    /\ UNCHANGED <<localKey, onceInit, certs>>

-----------------------------------------------------------------------------
(* server.go *)

(* A new certificate of the server is put into the mechanism, though a     *)
(* tunnel that exists is kept as it is.                                    *)
ServerRequest(c) ==
    /\ pc[c] = "server"
    /\ setIKEv2LocalKey("server")
    /\ createCertBase64
    /\ \/ /\ mech' = [mech EXCEPT ![c].dst = certs + 1]
          /\ create("server", c, mech'[c])
          /\ Goto(c, "reply")
       \/ /\ createFails("server", c, [mech[c] EXCEPT !.dst = certs + 1])
          /\ Goto(c, "undoserver")
          /\ Forget(c)
    /\ UNCHANGED <<established, parted>>

(* The key, the certificate or an element behind fails before create. *)
ServerFails(c) ==
    /\ pc[c] = "server" /\ "call" \in Faults
    /\ setIKEv2LocalKeyFails("server") \/ setIKEv2LocalKey("server")
    /\ Goto(c, "ready")
    /\ Forget(c)
    /\ UNCHANGED <<certs, established, parted, ifindex, tunnels, profiles, failed>>

(* An element between the two ends fails once it has the reply of the      *)
(* server: mtu, tag, xconnect or up in front of the server, or one behind  *)
(* the client.  The client learns of an error only and keeps its tunnel,   *)
(* if this was a refresh.                                                  *)
BetweenFails(c) ==
    /\ pc[c] = "reply" /\ "call" \in Faults
    /\ Goto(c, "undoserver")
    /\ Forget(c)
    /\ parted' = IF ifindex["client"][c] = NoTunnel THEN parted ELSE parted \cup {c}
    /\ UNCHANGED <<localKey, onceInit, certs, established, ifindex, tunnels, profiles, failed>>

(* Close at the server, for the client or after a failure. *)
ServerClose(c) ==
    /\ pc[c] = "undoserver"
    /\ delInterface("server", c)
    /\ Goto(c, "ready")
    /\ UNCHANGED <<localKey, onceInit, certs, mech, established, parted>>

(* The server closes a connection that was not refreshed in time. *)
Expire(c) ==
    /\ pc[c] = "ready" /\ "expire" \in Faults
    /\ ifindex["server"][c] # NoTunnel
    /\ delInterface("server", c)
    /\ UNCHANGED <<localKey, onceInit, certs, mech, established, parted, pc>>

Next == /\ \E c \in Conns :
              \/ ClientRequest(c) \/ ClientCreate(c) \/ Close(c)
              \/ ServerRequest(c) \/ ServerFails(c) \/ BetweenFails(c)
              \/ ServerClose(c) \/ Expire(c)
        /\ UNCHANGED env

Spec == Init /\ [][Next]_vars

-----------------------------------------------------------------------------
(* Properties *)

(* The certificates a profile of side e was made from. *)
CertsOf(e, p) == IF e = "client" THEN [src |-> p.local, dst |-> p.auth]
                                 ELSE [src |-> p.auth, dst |-> p.local]

(* A tunnel that is remembered exists, and its profile has been through    *)
(* every call of create and protects this very tunnel.                     *)
RememberedIsComplete ==
    \A e \in Sides, c \in Conns : ifindex[e][c] # NoTunnel =>
        /\ ifindex[e][c] \in tunnels[e]
        /\ profiles[e][c] # NoProfile
        /\ profiles[e][c] = Finished(e, CertsOf(e, profiles[e][c]), ifindex[e][c])
        /\ profiles[e][c].auth # 0 /\ profiles[e][c].local # 0

(* The two ends of a connection at rest speak to each other: each knows    *)
(* the other by the name and the certificate it has, whatever failed       *)
(* before, if every Close is heard.  Only if an element between the ends   *)
(* has failed on a refresh does the client keep a tunnel that the server   *)
(* closes, and so do further refreshes, for which the server has a new     *)
(* certificate, until the client closes its own.                           *)
Matching(p, q) == /\ p.local = q.remote /\ p.auth = q.local /\ p.ts # q.ts
EndsAgree ==
    Faults \subseteq {"call"} =>
        \A c \in Conns \ parted : pc[c] = "ready" /\ ifindex["client"][c] # NoTunnel =>
            /\ ifindex["server"][c] # NoTunnel
            /\ Matching(profiles["client"][c], profiles["server"][c])
            /\ Matching(profiles["server"][c], profiles["client"][c])

Protects(e, c) == profiles[e][c] # NoProfile /\ profiles[e][c].tunnel # NoTunnel

(* A profile protects a tunnel that exists, and no two protect the same,   *)
(* as long as profiles can be deleted.                                     *)
ProtectedOnce ==
    "delete" \notin Faults => \A e \in Sides : \A c, d \in Conns :
        Protects(e, c) =>
            /\ profiles[e][c].tunnel \in tunnels[e]
            /\ Protects(e, d) /\ c # d => profiles[e][d].tunnel # profiles[e][c].tunnel

(* VPP has no more tunnels that nobody remembers than calls have failed:   *)
(* refreshes and closes leave none.                                        *)
LeaksAreFailures ==
    \A e \in Sides :
        Cardinality(tunnels[e] \ {ifindex[e][c] : c \in Conns}) <= failed[e]

(* Whatever fails, what VPP has is known: finished tunnels are remembered, *)
(* others are protected by no two profiles, and leaks are counted.         *)
StateMatchesVPP == TypeOK /\ RememberedIsComplete /\ ProtectedOnce /\ LeaksAreFailures
=============================================================================
