-------------------------- MODULE WireguardProofs --------------------------
(***************************************************************************)
(* Proofs about Wireguard: for any connections, interfaces, peers and key  *)
(* pairs, and whatever fails.                                              *)
(***************************************************************************)
EXTENDS Wireguard, FiniteSetTheorems, TLAPS

-----------------------------------------------------------------------------
(* The inductive invariant *)

(* A connection that was established has both keys. *)
Complete(c) == \A e \in Sides :
    mech[e][c] # NoMechanism => mech[e][c].src # 0 /\ mech[e][c].dst # 0

(* Where a request is, it has the keys that it needs there, and a refresh  *)
(* offers the key that the connection was established with.                *)
Filled(c) ==
    /\ pc[c] \in {"server", "serverpeer", "serverpeerundo", "interface", "peer", "peerundo"} =>
          /\ req[c].src # 0
          /\ mech["client"][c] # NoMechanism => req[c].src = mech["client"][c].src
    /\ pc[c] \in {"serverpeer", "serverpeerundo", "interface", "peer", "peerundo"} => req[c].dst # 0
    /\ pc[c] \in {"serverpeer", "interface", "peer"} => pubKey["server"][c] = req[c].dst
    /\ pc[c] \in {"interface", "peer"} => peerIdx["server"][c][req[c].src] # None
    /\ pc[c] = "interface" => mech["server"][c] # NoMechanism
    /\ pc[c] = "peer" => pubKey["client"][c] # 0

(* The interface of the server, if there is one, has outlived the client's. *)
Left(c) == pubKey["server"][c] # 0 => <<"server", c>> \in outlived

(* A server has no other interface when its client has no mechanism, and   *)
(* loses it with the close of the connection.                              *)
Closed(c) ==
    /\ pc[c] \in {"ready", "server"} /\ mech["client"][c] = NoMechanism => Left(c)
    /\ pc[c] = "serverclose" /\ mech["server"][c] = NoMechanism => Left(c)

(* The key of the client's interface, or of the one it will have, is the   *)
(* key in the mechanism.                                                   *)
KeysAgree(c) ==
    /\ mech["client"][c] # NoMechanism \/ pc[c] \notin {"peer", "peerundo", "undo"} =>
          pubKey["client"][c] = mech["client"][c].src
    /\ pc[c] \in {"server", "serverpeer", "interface", "peer"} =>
          IF pubKey["client"][c] = 0 THEN own[c] = req[c].src ELSE pubKey["client"][c] = req[c].src

(* Where side e is about to delete its interface. *)
Dying(e) == IF e = "client" THEN {"undo", "close"} ELSE {"serverundo", "serverclose", "serverclosed"}

(* The key of the peer that side e has, 0 if it has none. *)
PeerKey(e, c) == IF e = "client" THEN pubKey["server"][c]
                 ELSE IF mech["client"][c] # NoMechanism THEN mech["client"][c].src ELSE req[c].src

(* The peer of an interface is the one remembered under this key. *)
Single(e, c) == ifindex[e][c] # None /\ <<e, c>> \notin outlived =>
    IF pc[c] \in Dying(e) THEN \A p, q \in PeersOf(e, c) : p = q
    ELSE \A p \in PeersOf(e, c) : PeerKey(e, c) # 0 /\ p = peerIdx[e][c][PeerKey(e, c)]

(* Two connections never remember the same interface. *)
OwnInterface(e) == \A c, d \in Conns : ifindex[e][c] # None /\ ifindex[e][c] = ifindex[e][d] => c = d

(* A peer is on an interface that exists. *)
PeersOnIfs(e) == \A p \in Peers : peers[e][p] # None => ifs[e][peers[e][p].if] # 0

(* A peer that is remembered under a key exists with this key on the       *)
(* interface of the connection.                                            *)
PeerExists(e) == \A c \in Conns, k \in Keys : peerIdx[e][c][k] # None =>
    /\ ifindex[e][c] # None
    /\ peers[e][peerIdx[e][c][k]] = [if |-> ifindex[e][c], key |-> k]

NoPeer(e, c) == \A j \in Keys : peerIdx[e][c][j] = None

-----------------------------------------------------------------------------
(* The operations on VPP and on the metadata *)

(* The types of what the operations change. *)
TypeVpp == /\ pubKey \in [Sides -> [Conns -> 0..MaxKeys]]
           /\ ifindex \in [Sides -> [Conns -> Ifs \cup {None}]]
           /\ peerIdx \in [Sides -> [Conns -> [Keys -> Peers \cup {None}]]]
           /\ ifs \in [Sides -> [Ifs -> 0..MaxKeys]]
           /\ peers \in [Sides -> [Peers -> [if : Ifs, key : Keys] \cup {None}]]
           /\ failed \in [Sides -> Nat]

(* What the operations keep whatever fails, and as long as no index of a   *)
(* peer is left behind.                                                    *)
VppInv == TypeVpp /\ RememberedExists /\ LeaksAreFailures /\ \A e \in Sides : OwnInterface(e) /\ PeersOnIfs(e)
PeerInv == \A e \in Sides : PeerExists(e)

(* The interfaces of side e that nobody remembers. *)
Leaked(e) == {i \in Ifs : ifs[e][i] # 0 /\ \A c \in Conns : ifindex[e][c] # i}

(* The types of the rest. *)
TypeCtl == /\ env \in Envs
           /\ keys \in 0..MaxKeys
           /\ mech \in [Sides -> [Conns -> Mechanism]]
           /\ req \in [Conns -> Mechanism]
           /\ own \in [Conns -> 0..MaxKeys]
           /\ undone \subseteq Conns /\ outlived \subseteq Sides \X Conns /\ stale \in BOOLEAN
           /\ pc \in [Conns -> Steps]

(* What holds of a connection. *)
CtlInv(c) == /\ Filled(c) /\ Complete(c) /\ Closed(c)
             /\ c \notin undone => KeysAgree(c)
             /\ \A e \in Sides : Single(e, c)

(* The inductive invariant. *)
IInv == /\ TypeCtl /\ VppInv
        /\ ~stale => PeerInv
        /\ \A c \in Conns : CtlInv(c)

(* Side f keeps what it has for connection d, and gets no more peers. *)
Same(f, d) == /\ pubKey'[f][d] = pubKey[f][d] /\ ifindex'[f][d] = ifindex[f][d]
              /\ peerIdx'[f][d] = peerIdx[f][d]
              /\ ifindex[f][d] # None => PeersOf(f, d)' \subseteq PeersOf(f, d)

(* Only what side e has for connection c changes. *)
Only(e, c) == \A f \in Sides, d \in Conns : f # e \/ d # c => Same(f, d)

(* Sets of interfaces are finite: bounds on them are kept by subsets, and  *)
(* grow by one with one more interface.                                    *)
LEMMA Bounded == ASSUME NEW S \in SUBSET Ifs, NEW T \in SUBSET Ifs, NEW n \in Nat, NEW i,
                        Cardinality(S) <= n
                 PROVE  /\ T \subseteq S => Cardinality(T) <= n
                        /\ T \subseteq S \cup {i} => Cardinality(T) <= n + 1
<1>1. IsFiniteSet(S) /\ IsFiniteSet(T) /\ Cardinality(S) \in Nat /\ Cardinality(T) \in Nat
  BY WireguardAssumption, FS_Subset, FS_CardinalityType
<1>2. /\ IsFiniteSet(S \cup {i}) /\ Cardinality(S \cup {i}) \in Nat
      /\ Cardinality(S \cup {i}) = Cardinality(S) \/ Cardinality(S \cup {i}) = Cardinality(S) + 1
  BY <1>1, FS_AddElement, FS_CardinalityType
<1>3. T \subseteq S => Cardinality(T) <= Cardinality(S)
  BY <1>1, FS_Subset
<1>4. T \subseteq S \cup {i} => Cardinality(T) <= Cardinality(S \cup {i})
  BY <1>2, FS_Subset
<1>5. QED
  BY <1>1, <1>2, <1>3, <1>4

(* createInterface: the connection gets an interface that nobody has.      *)
LEMMA CreateInterfaceVpp ==
    ASSUME VppInv, NEW e \in Sides, NEW c \in Conns, NEW k \in Keys,
           createInterface(e, c, k), UNCHANGED <<peerIdx, peers, failed>>
    PROVE  /\ VppInv'
           /\ PeerInv => PeerInv'
           /\ Only(e, c) /\ pubKey[e][c] = 0 /\ pubKey'[e][c] = k
           /\ PeersOf(e, c)' = {}
<1> USE WireguardAssumption DEF Keys
<1>1. PICK i \in Ifs : /\ ifs[e][i] = 0
                       /\ ifs' = [ifs EXCEPT ![e][i] = k]
                       /\ ifindex' = [ifindex EXCEPT ![e][c] = i]
                       /\ pubKey' = [pubKey EXCEPT ![e][c] = k]
  BY DEF createInterface
<1>2. pubKey[e][c] = 0 /\ ifindex[e][c] = None
  BY DEF createInterface, VppInv, RememberedExists
<1>3. TypeVpp'
  BY <1>1 DEF VppInv, TypeVpp
<1>4. \A d \in Conns : ifindex[e][d] # i
  <2> SUFFICES ASSUME NEW d \in Conns, ifindex[e][d] = i PROVE FALSE
    OBVIOUS
  <2>1. i # None /\ (pubKey[e][d] = 0) = (ifindex[e][d] = None)
    BY DEF VppInv, RememberedExists
  <2>2. ifs[e][i] = pubKey[e][d]
    BY <2>1 DEF VppInv, RememberedExists, KeyOf
  <2>3. QED
    BY <1>1, <2>1, <2>2
<1>5. /\ \A f \in Sides, d \in Conns : f # e \/ d # c =>
            pubKey'[f][d] = pubKey[f][d] /\ ifindex'[f][d] = ifindex[f][d]
      /\ pubKey'[e][c] = k /\ ifindex'[e][c] = i
      /\ \A f \in Sides, j \in Ifs : f # e \/ j # i => ifs'[f][j] = ifs[f][j]
      /\ ifs'[e][i] = k
  BY <1>1 DEF VppInv, TypeVpp
<1>6. RememberedExists'
  <2> SUFFICES ASSUME NEW f \in Sides, NEW d \in Conns
               PROVE  /\ (pubKey'[f][d] = 0) = (ifindex'[f][d] = None)
                      /\ ifindex'[f][d] # None => ifs'[f][ifindex'[f][d]] = pubKey'[f][d]
    BY DEF RememberedExists, KeyOf
  <2>1. CASE f = e /\ d = c
    BY <1>5, <2>1
  <2>2. CASE ~ (f = e /\ d = c)
    <3>1. ifindex[f][d] \in Ifs \cup {None} /\ (f = e => ifindex[f][d] # i)
      BY <1>4 DEF VppInv, TypeVpp
    <3>2. QED
      BY <1>5, <2>2, <3>1 DEF VppInv, RememberedExists, KeyOf
  <2>3. QED
    BY <2>1, <2>2
<1>7. \A f \in Sides : OwnInterface(f)'
  <2>1. \A f \in Sides : OwnInterface(f)
    BY DEF VppInv
  <2>2. QED
    BY <1>4, <1>5, <2>1 DEF OwnInterface
<1>8. LeaksAreFailures'
  <2> SUFFICES ASSUME NEW f \in Sides
               PROVE  Cardinality(Leaked(f)') <= failed'[f]
    BY DEF LeaksAreFailures, Leaked
  <2>1. Leaked(f)' \subseteq Leaked(f)
    BY <1>2, <1>5 DEF Leaked
  <2>2. Leaked(f) \in SUBSET Ifs /\ Leaked(f)' \in SUBSET Ifs /\ failed[f] \in Nat
    BY DEF Leaked, VppInv, TypeVpp
  <2>3. Cardinality(Leaked(f)) <= failed[f]
    BY DEF VppInv, LeaksAreFailures, Leaked
  <2>4. QED
    BY <2>1, <2>2, <2>3, Bounded
<1>9. ASSUME PeerInv PROVE PeerInv'
  <2> SUFFICES ASSUME NEW f \in Sides, NEW d \in Conns, NEW j \in Keys, peerIdx'[f][d][j] # None
               PROVE  /\ ifindex'[f][d] # None
                      /\ peers'[f][peerIdx'[f][d][j]] = [if |-> ifindex'[f][d], key |-> j]
    BY DEF PeerInv, PeerExists
  <2>1. /\ ifindex[f][d] # None
        /\ peers[f][peerIdx[f][d][j]] = [if |-> ifindex[f][d], key |-> j]
    BY <1>9 DEF PeerInv, PeerExists
  <2>2. ifindex'[f][d] = ifindex[f][d]
    BY <1>2, <1>5, <2>1
  <2>3. QED
    BY <2>1, <2>2
<1>10. \A f \in Sides : PeersOnIfs(f)'
  <2> SUFFICES ASSUME NEW f \in Sides, NEW p \in Peers, peers[f][p] # None
               PROVE  ifs'[f][peers[f][p].if] # 0
    BY DEF PeersOnIfs
  <2>1. peers[f][p].if \in Ifs /\ ifs[f][peers[f][p].if] # 0
    BY DEF VppInv, TypeVpp, PeersOnIfs
  <2>2. QED
    BY <1>5, <2>1
<1>11. PeersOf(e, c)' = {}
  <2> SUFFICES ASSUME NEW p \in Peers, peers[e][p] # None, peers[e][p].if = i PROVE FALSE
    BY <1>5 DEF PeersOf
  <2>1. ifs[e][peers[e][p].if] # 0
    BY DEF VppInv, PeersOnIfs
  <2>2. QED
    BY <1>1, <2>1
<1>12. Only(e, c)
  BY <1>5 DEF Only, Same, PeersOf
<1>13. QED
  BY <1>2, <1>3, <1>5, <1>6, <1>7, <1>8, <1>9, <1>10, <1>11, <1>12 DEF VppInv

(* delInterface: the interface is forgotten, and gone unless the deletion  *)
(* fails.  The peers of the connection are forgotten before or with it.    *)
LEMMA DelInterfaceVpp ==
    ASSUME VppInv, NEW e \in Sides, NEW c \in Conns, delInterface(e, c),
           peerIdx' \in [Sides -> [Conns -> [Keys -> Peers \cup {None}]]],
           \A f \in Sides, d \in Conns : f # e \/ d # c => peerIdx'[f][d] = peerIdx[f][d]
    PROVE  /\ VppInv'
           /\ PeerInv /\ NoPeer(e, c)' => PeerInv'
           /\ Only(e, c) /\ pubKey'[e][c] = 0 /\ ifindex'[e][c] = None
<1> USE WireguardAssumption
<1> DEFINE i == ifindex[e][c]
<1>1. /\ pubKey' = [pubKey EXCEPT ![e][c] = 0]
      /\ ifindex' = [ifindex EXCEPT ![e][c] = None]
  BY DEF delInterface
<1>2. /\ \A f \in Sides, d \in Conns : f # e \/ d # c =>
            pubKey'[f][d] = pubKey[f][d] /\ ifindex'[f][d] = ifindex[f][d]
      /\ pubKey'[e][c] = 0 /\ ifindex'[e][c] = None
      /\ pubKey' \in [Sides -> [Conns -> 0..MaxKeys]]
      /\ ifindex' \in [Sides -> [Conns -> Ifs \cup {None}]]
  BY <1>1 DEF VppInv, TypeVpp
<1>3. \/ i = None /\ UNCHANGED vpp
      \/ i \in Ifs /\ InterfaceDelete(e, i)
      \/ /\ i \in Ifs /\ "delete" \in Faults
         /\ failed' = [failed EXCEPT ![e] = @ + 1] /\ UNCHANGED <<ifs, peers>>
  <2>1. (pubKey[e][c] = 0) = (i = None) /\ i \in Ifs \cup {None}
    BY DEF VppInv, TypeVpp, RememberedExists
  <2>2. QED
    BY <2>1 DEF delInterface
<1> HIDE DEF i
<1>4. /\ ifs' \in [Sides -> [Ifs -> 0..MaxKeys]]
      /\ peers' \in [Sides -> [Peers -> [if : Ifs, key : Keys] \cup {None}]]
      /\ failed' \in [Sides -> Nat]
  <2>1. CASE i = None /\ UNCHANGED vpp
    BY <2>1 DEF VppInv, TypeVpp, vpp
  <2>2. CASE i \in Ifs /\ InterfaceDelete(e, i)
    BY <2>2 DEF VppInv, TypeVpp, InterfaceDelete
  <2>3. CASE /\ i \in Ifs
             /\ failed' = [failed EXCEPT ![e] = @ + 1] /\ UNCHANGED <<ifs, peers>>
    BY <2>3 DEF VppInv, TypeVpp
  <2>4. QED
    BY <1>3, <2>1, <2>2, <2>3
<1>5. TypeVpp'
  BY <1>2, <1>4 DEF TypeVpp
<1>6. /\ \A f \in Sides, j \in Ifs : f # e \/ j # i => ifs'[f][j] = ifs[f][j]
      /\ \A f \in Sides \ {e} : failed'[f] = failed[f]
      /\ i = None => failed'[e] = failed[e]
      /\ i # None => \/ ifs'[e][i] = 0 /\ failed'[e] = failed[e]
                     \/ failed'[e] = failed[e] + 1
  <2>1. CASE i = None /\ UNCHANGED vpp
    BY <2>1 DEF vpp
  <2>2. CASE i \in Ifs /\ InterfaceDelete(e, i)
    BY <2>2 DEF VppInv, TypeVpp, InterfaceDelete
  <2>3. CASE /\ i \in Ifs
             /\ failed' = [failed EXCEPT ![e] = @ + 1] /\ UNCHANGED <<ifs, peers>>
    BY <2>3 DEF VppInv, TypeVpp
  <2>4. QED
    BY <1>3, <2>1, <2>2, <2>3
<1>7. \A d \in Conns \ {c} : i # None => ifindex[e][d] # i
  BY DEF VppInv, OwnInterface, i
<1>8. RememberedExists'
  <2> SUFFICES ASSUME NEW f \in Sides, NEW d \in Conns
               PROVE  /\ (pubKey'[f][d] = 0) = (ifindex'[f][d] = None)
                      /\ ifindex'[f][d] # None => ifs'[f][ifindex'[f][d]] = pubKey'[f][d]
    BY DEF RememberedExists, KeyOf
  <2>1. CASE f = e /\ d = c
    BY <1>2, <2>1
  <2>2. CASE ~ (f = e /\ d = c)
    <3>1. pubKey'[f][d] = pubKey[f][d] /\ ifindex'[f][d] = ifindex[f][d]
      BY <1>2, <2>2
    <3>2. ifindex[f][d] \in Ifs \cup {None} /\ (f = e /\ i # None => ifindex[f][d] # i)
      BY <1>7, <2>2 DEF VppInv, TypeVpp
    <3>3. ifindex[f][d] # None => ifs'[f][ifindex[f][d]] = ifs[f][ifindex[f][d]]
      BY <1>6, <3>2
    <3>4. /\ (pubKey[f][d] = 0) = (ifindex[f][d] = None)
          /\ ifindex[f][d] # None => ifs[f][ifindex[f][d]] = pubKey[f][d]
      BY DEF VppInv, RememberedExists, KeyOf
    <3>5. QED
      BY <3>1, <3>3, <3>4
  <2>3. QED
    BY <2>1, <2>2
<1>9. \A f \in Sides : OwnInterface(f)'
  <2> SUFFICES ASSUME NEW f \in Sides, NEW d \in Conns, NEW b \in Conns,
                      ifindex'[f][d] # None, ifindex'[f][d] = ifindex'[f][b]
               PROVE  d = b
    BY DEF OwnInterface
  <2>1. ifindex'[f][d] = ifindex[f][d] /\ ifindex'[f][b] = ifindex[f][b]
    BY <1>2
  <2>2. OwnInterface(f) /\ ifindex[f][d] # None /\ ifindex[f][d] = ifindex[f][b]
    BY <2>1 DEF VppInv
  <2>3. QED
    BY <2>2, Zenon DEF OwnInterface
<1>10. LeaksAreFailures'
  <2> SUFFICES ASSUME NEW f \in Sides
               PROVE  Cardinality(Leaked(f)') <= failed'[f]
    BY DEF LeaksAreFailures, Leaked
  <2>1. \/ Leaked(f)' \subseteq Leaked(f) /\ failed'[f] = failed[f]
        \/ Leaked(f)' \subseteq Leaked(f) \cup {i} /\ failed'[f] = failed[f] + 1
    <3>1. CASE f # e
      BY <1>2, <1>6, <3>1 DEF Leaked
    <3>2. CASE f = e /\ i = None
      <4>1. \A j \in Ifs : ifs'[e][j] = ifs[e][j] /\ j # None
        BY <1>6, <3>2
      <4>2. \A d \in Conns : ifindex'[e][d] = ifindex[e][d]
        BY <1>2, <3>2 DEF i
      <4>3. QED
        BY <1>6, <3>2, <4>1, <4>2 DEF Leaked
    <3>3. CASE f = e /\ i # None
      <4>1. Leaked(f)' \subseteq Leaked(f) \cup {i}
        BY <1>2, <1>6, <3>3 DEF Leaked, i
      <4>2. ifs'[e][i] = 0 => i \notin Leaked(f)'
        BY <3>3 DEF Leaked
      <4>3. QED
        BY <1>6, <3>3, <4>1, <4>2
    <3>4. QED
      BY <3>1, <3>2, <3>3
  <2>2. Leaked(f) \in SUBSET Ifs /\ Leaked(f)' \in SUBSET Ifs /\ failed[f] \in Nat
    BY DEF Leaked, VppInv, TypeVpp
  <2>3. Cardinality(Leaked(f)) <= failed[f]
    BY DEF VppInv, LeaksAreFailures, Leaked
  <2>4. CASE Leaked(f)' \subseteq Leaked(f) /\ failed'[f] = failed[f]
    <3>1. Cardinality(Leaked(f)') <= failed[f]
      BY <2>2, <2>3, <2>4, Bounded
    <3>2. QED
      BY <2>4, <3>1
  <2>5. CASE Leaked(f)' \subseteq Leaked(f) \cup {i} /\ failed'[f] = failed[f] + 1
    <3>1. Cardinality(Leaked(f)') <= failed[f] + 1
      BY <2>2, <2>3, <2>5, Bounded
    <3>2. QED
      BY <2>5, <3>1
  <2>6. QED
    BY <2>1, <2>4, <2>5
<1>11. \A f \in Sides, p \in Peers :
          /\ peers'[f][p] # None => peers'[f][p] = peers[f][p]
          /\ f # e \/ (peers[f][p] # None /\ peers[f][p].if # i) => peers'[f][p] = peers[f][p]
          /\ f = e /\ i # None /\ ifs'[e][i] = 0 /\ ifs[e][i] # 0 /\ peers'[e][p] # None => peers[e][p].if # i
  <2>1. CASE i = None /\ UNCHANGED vpp
    BY <2>1 DEF vpp
  <2>2. CASE i \in Ifs /\ InterfaceDelete(e, i)
    BY <2>2 DEF VppInv, TypeVpp, InterfaceDelete
  <2>3. CASE /\ i \in Ifs
             /\ failed' = [failed EXCEPT ![e] = @ + 1] /\ UNCHANGED <<ifs, peers>>
    BY <2>3
  <2>4. QED
    BY <1>3, <2>1, <2>2, <2>3
<1>12. ASSUME PeerInv, NoPeer(e, c)' PROVE PeerInv'
  <2> SUFFICES ASSUME NEW f \in Sides, NEW d \in Conns, NEW k \in Keys, peerIdx'[f][d][k] # None
               PROVE  /\ ifindex'[f][d] # None
                      /\ peers'[f][peerIdx'[f][d][k]] = [if |-> ifindex'[f][d], key |-> k]
    BY DEF PeerInv, PeerExists
  <2>1. f # e \/ d # c
    BY <1>12 DEF NoPeer
  <2>2. peerIdx'[f][d] = peerIdx[f][d] /\ ifindex'[f][d] = ifindex[f][d]
    BY <1>2, <2>1
  <2>3. PICK q \in Peers : q = peerIdx[f][d][k]
    BY <2>2 DEF VppInv, TypeVpp
  <2>4. ifindex[f][d] # None /\ peers[f][q] = [if |-> ifindex[f][d], key |-> k]
    BY <1>12, <2>2, <2>3 DEF PeerInv, PeerExists
  <2>5. f = e => ifindex[f][d] # i
    BY <1>7, <2>1, <2>4
  <2>6. peers[f][q] # None
    <3>1. ifindex[f][d] \in Ifs
      BY <2>4 DEF VppInv, TypeVpp
    <3>2. QED
      BY <2>4, <3>1 DEF Keys
  <2>7. peers'[f][q] = peers[f][q]
    BY <1>11, <2>4, <2>5, <2>6
  <2>8. QED
    BY <2>2, <2>3, <2>4, <2>7
<1>13. \A f \in Sides : PeersOnIfs(f)'
  <2> SUFFICES ASSUME NEW f \in Sides, NEW p \in Peers, peers'[f][p] # None
               PROVE  ifs'[f][peers'[f][p].if] # 0
    BY DEF PeersOnIfs
  <2>1. peers'[f][p] = peers[f][p] /\ peers[f][p].if \in Ifs /\ ifs[f][peers[f][p].if] # 0
    BY <1>11 DEF VppInv, TypeVpp, PeersOnIfs
  <2>2. CASE f # e \/ peers[f][p].if # i
    BY <1>6, <2>1, <2>2
  <2>3. CASE f = e /\ peers[f][p].if = i
    <3>1. i # None /\ ifs[e][i] # 0
      BY <2>1, <2>3
    <3>2. ifs'[e][i] # 0
      BY <1>11, <2>3, <3>1
    <3>3. QED
      BY <2>1, <2>3, <3>2
  <2>4. QED
    BY <2>2, <2>3
<1>14. Only(e, c)
  <2> SUFFICES ASSUME NEW f \in Sides, NEW d \in Conns, f # e \/ d # c PROVE Same(f, d)
    BY DEF Only
  <2>1. pubKey'[f][d] = pubKey[f][d] /\ ifindex'[f][d] = ifindex[f][d]
    BY <1>2
  <2>2. PeersOf(f, d)' \subseteq PeersOf(f, d)
    BY <1>11, <2>1 DEF PeersOf
  <2>3. QED
    BY <2>1, <2>2 DEF Same
<1>15. QED
  BY <1>2, <1>5, <1>8, <1>9, <1>10, <1>12, <1>13, <1>14 DEF VppInv

(* A key that is not 0. *)
LEMMA IsKey == ASSUME NEW k \in 0..MaxKeys, k # 0 PROVE k \in Keys
BY WireguardAssumption DEF Keys

(* createPeer: afterwards the connection remembers a peer with key k.      *)
LEMMA CreatePeerVpp ==
    ASSUME VppInv, NEW e \in Sides, NEW c \in Conns, NEW k \in Keys,
           pubKey[e][c] # 0, createPeer(e, c, k)
    PROVE  /\ VppInv'
           /\ PeerInv => PeerInv'
           /\ Only(e, c) /\ UNCHANGED <<pubKey, ifindex>>
           /\ peerIdx'[e][c][k] # None
           /\ peerIdx[e][c][k] # None => peerIdx'[e][c][k] = peerIdx[e][c][k]
           /\ PeersOf(e, c)' \subseteq PeersOf(e, c) \cup {peerIdx'[e][c][k]}
<1> USE WireguardAssumption
<1>1. UNCHANGED <<pubKey, ifindex, ifs, failed>>
  BY DEF createPeer
<1>2. RememberedExists' /\ LeaksAreFailures' /\ \A f \in Sides : OwnInterface(f)'
  BY <1>1 DEF VppInv, RememberedExists, KeyOf, LeaksAreFailures, OwnInterface
<1>3. CASE peerIdx[e][c][k] # None /\ UNCHANGED <<peers, peerIdx>>
  <2>1. TypeVpp' /\ (PeerInv => PeerInv') /\ \A f \in Sides : PeersOnIfs(f)'
    BY <1>1, <1>3 DEF VppInv, TypeVpp, PeerInv, PeerExists, PeersOnIfs
  <2>2. \A f \in Sides, d \in Conns : PeersOf(f, d)' = PeersOf(f, d)
    BY <1>1, <1>3 DEF PeersOf
  <2>3. QED
    BY <1>1, <1>2, <1>3, <2>1, <2>2 DEF VppInv, Only, Same
<1>4. CASE /\ peerIdx[e][c][k] = None
           /\ \E p \in Peers :
                /\ peers[e][p] = None
                /\ peers' = [peers EXCEPT ![e][p] = [if |-> ifindex[e][c], key |-> k]]
                /\ peerIdx' = [peerIdx EXCEPT ![e][c][k] = p]
  <2>1. PICK p \in Peers :
                /\ peers[e][p] = None
                /\ peers' = [peers EXCEPT ![e][p] = [if |-> ifindex[e][c], key |-> k]]
                /\ peerIdx' = [peerIdx EXCEPT ![e][c][k] = p]
    BY <1>4
  <2>2. PICK i \in Ifs : i = ifindex[e][c] /\ i # None /\ ifs[e][i] # 0
    <3>1. /\ (pubKey[e][c] = 0) = (ifindex[e][c] = None)
          /\ ifindex[e][c] # None => ifs[e][ifindex[e][c]] = pubKey[e][c]
      BY DEF VppInv, RememberedExists, KeyOf
    <3>2. QED
      BY <3>1 DEF VppInv, TypeVpp
  <2>3. peers' \in [Sides -> [Peers -> [if : Ifs, key : Keys] \cup {None}]]
    BY <2>1, <2>2 DEF VppInv, TypeVpp
  <2>4. peerIdx' \in [Sides -> [Conns -> [Keys -> Peers \cup {None}]]]
    BY <2>1 DEF VppInv, TypeVpp
  <2>5. /\ \A f \in Sides, d \in Conns : f # e \/ d # c => peerIdx'[f][d] = peerIdx[f][d]
        /\ \A j \in Keys \ {k} : peerIdx'[e][c][j] = peerIdx[e][c][j]
        /\ peerIdx'[e][c][k] = p
    BY <2>1 DEF VppInv, TypeVpp
  <2>6. /\ \A f \in Sides, q \in Peers : f # e \/ q # p => peers'[f][q] = peers[f][q]
        /\ peers'[e][p] = [if |-> i, key |-> k] /\ peers'[e][p].if = i
    BY <2>1, <2>2 DEF VppInv, TypeVpp
  <2>7. ASSUME PeerInv PROVE PeerInv'
    <3> SUFFICES ASSUME NEW f \in Sides, NEW d \in Conns, NEW j \in Keys, peerIdx'[f][d][j] # None
                 PROVE  /\ ifindex[f][d] # None
                        /\ peers'[f][peerIdx'[f][d][j]] = [if |-> ifindex[f][d], key |-> j]
      BY <1>1 DEF PeerInv, PeerExists
    <3>1. CASE f = e /\ d = c /\ j = k
      BY <2>2, <2>5, <2>6, <3>1
    <3>2. CASE ~ (f = e /\ d = c /\ j = k)
      <4>1. peerIdx'[f][d][j] = peerIdx[f][d][j]
        BY <2>5, <3>2
      <4>2. PICK q \in Peers : q = peerIdx[f][d][j]
        BY <4>1 DEF VppInv, TypeVpp
      <4>3. ifindex[f][d] # None /\ peers[f][q] = [if |-> ifindex[f][d], key |-> j]
        BY <2>7, <4>1, <4>2 DEF PeerInv, PeerExists
      <4>4. peers[f][q] # None
        BY <4>3 DEF VppInv, TypeVpp, Keys
      <4>5. peers'[f][q] = peers[f][q]
        BY <2>1, <2>6, <4>4
      <4>6. QED
        BY <4>1, <4>2, <4>3, <4>5
    <3>3. QED
      BY <3>1, <3>2
  <2>8. \A f \in Sides : PeersOnIfs(f)'
    <3> SUFFICES ASSUME NEW f \in Sides, NEW q \in Peers, peers'[f][q] # None
                 PROVE  ifs[f][peers'[f][q].if] # 0
      BY <1>1 DEF PeersOnIfs
    <3>1. CASE f = e /\ q = p
      BY <2>2, <2>6, <3>1
    <3>2. CASE ~ (f = e /\ q = p)
      BY <2>6, <3>2 DEF VppInv, PeersOnIfs
    <3>3. QED
      BY <3>1, <3>2
  <2>9. TypeVpp'
    BY <1>1, <2>3, <2>4 DEF VppInv, TypeVpp
  <2>10. Only(e, c)
    <3> SUFFICES ASSUME NEW f \in Sides, NEW d \in Conns, f # e \/ d # c, ifindex[f][d] # None,
                        NEW q \in PeersOf(f, d)'
                 PROVE  q \in PeersOf(f, d)
      BY <1>1, <2>5 DEF Only, Same
    <3>1. q \in Peers /\ peers'[f][q] # None /\ peers'[f][q].if = ifindex[f][d]
      BY <1>1 DEF PeersOf
    <3>2. f = e => ifindex[f][d] # i
      BY <2>2 DEF VppInv, OwnInterface
    <3>3. peers'[f][q] = peers[f][q]
      BY <2>6, <3>1, <3>2
    <3>4. QED
      BY <3>1, <3>3 DEF PeersOf
  <2>11. PeersOf(e, c)' \subseteq PeersOf(e, c) \cup {p}
    BY <1>1, <2>6 DEF PeersOf
  <2>12. QED
    BY <1>1, <1>2, <1>4, <2>5, <2>7, <2>8, <2>9, <2>10, <2>11 DEF VppInv
<1>5. QED
  BY <1>3, <1>4 DEF createPeer

(* delPeer: the peer under k is forgotten, and no other. *)
LEMMA DelPeerVpp ==
    ASSUME VppInv, NEW e \in Sides, NEW c \in Conns, NEW k \in Keys, delPeer(e, c, k)
    PROVE  /\ VppInv'
           /\ PeerInv => PeerInv'
           /\ Only(e, c) /\ UNCHANGED <<pubKey, ifindex>>
           /\ PeersOf(e, c)' \subseteq PeersOf(e, c)
<1> USE WireguardAssumption
<1>1. UNCHANGED <<pubKey, ifindex, ifs, failed>> /\ peerIdx' = [peerIdx EXCEPT ![e][c][k] = None]
  BY DEF delPeer
<1>2. RememberedExists' /\ LeaksAreFailures' /\ \A f \in Sides : OwnInterface(f)'
  BY <1>1 DEF VppInv, RememberedExists, KeyOf, LeaksAreFailures, OwnInterface
<1>3. peerIdx' \in [Sides -> [Conns -> [Keys -> Peers \cup {None}]]]
  BY <1>1 DEF VppInv, TypeVpp
<1>4. /\ \A f \in Sides, d \in Conns : f # e \/ d # c => peerIdx'[f][d] = peerIdx[f][d]
      /\ \A j \in Keys \ {k} : peerIdx'[e][c][j] = peerIdx[e][c][j]
      /\ peerIdx'[e][c][k] = None
  BY <1>1 DEF VppInv, TypeVpp
<1>5. peers' \in [Sides -> [Peers -> [if : Ifs, key : Keys] \cup {None}]]
  <2>1. peers \in [Sides -> [Peers -> [if : Ifs, key : Keys] \cup {None}]]
    BY DEF VppInv, TypeVpp
  <2>2. CASE peers' = [peers EXCEPT ![e] = [p \in Peers |-> IF p = peerIdx[e][c][k] THEN None ELSE @[p]]]
    <3>1. \A p \in Peers : peers[e][p] \in [if : Ifs, key : Keys] \cup {None}
      BY <2>1
    <3>2. [p \in Peers |-> IF p = peerIdx[e][c][k] THEN None ELSE peers[e][p]]
             \in [Peers -> [if : Ifs, key : Keys] \cup {None}]
      BY <3>1
    <3>3. QED
      BY <2>1, <2>2, <3>2
  <2>3. QED
    BY <2>1, <2>2 DEF delPeer
<1>6. TypeVpp'
  BY <1>1, <1>3, <1>5 DEF VppInv, TypeVpp
<1>7. \A f \in Sides, q \in Peers :
          /\ peers'[f][q] # None => peers'[f][q] = peers[f][q]
          /\ ~ (f = e /\ q = peerIdx[e][c][k]) => peers'[f][q] = peers[f][q]
  BY DEF delPeer, VppInv, TypeVpp
<1>8. ASSUME PeerInv PROVE PeerInv'
  <2> SUFFICES ASSUME NEW f \in Sides, NEW d \in Conns, NEW j \in Keys, peerIdx'[f][d][j] # None
               PROVE  /\ ifindex[f][d] # None
                      /\ peers'[f][peerIdx'[f][d][j]] = [if |-> ifindex[f][d], key |-> j]
    BY <1>1 DEF PeerInv, PeerExists
  <2>1. ~ (f = e /\ d = c /\ j = k) /\ peerIdx'[f][d][j] = peerIdx[f][d][j]
    BY <1>4
  <2>2. PICK q \in Peers : q = peerIdx[f][d][j]
    BY <2>1 DEF VppInv, TypeVpp
  <2>3. ifindex[f][d] # None /\ peers[f][q] = [if |-> ifindex[f][d], key |-> j]
    BY <1>8, <2>1, <2>2 DEF PeerInv, PeerExists
  <2>4. f = e => q # peerIdx[e][c][k]
    <3> SUFFICES ASSUME f = e, q = peerIdx[e][c][k] PROVE FALSE
      OBVIOUS
    <3>1. ifindex[e][c] # None /\ peers[e][q] = [if |-> ifindex[e][c], key |-> k]
      BY <1>8 DEF PeerInv, PeerExists
    <3>2. ifindex[e][c] = ifindex[e][d] /\ j = k
      BY <2>3, <3>1
    <3>3. OwnInterface(e)
      BY DEF VppInv
    <3>4. c = d
      BY <3>1, <3>2, <3>3, Zenon DEF OwnInterface
    <3>5. QED
      BY <2>1, <3>2, <3>4
  <2>5. QED
    BY <1>7, <2>1, <2>2, <2>3, <2>4
<1>9. \A f \in Sides : PeersOnIfs(f)'
  BY <1>1, <1>7 DEF VppInv, PeersOnIfs
<1>10. \A f \in Sides, d \in Conns : PeersOf(f, d)' \subseteq PeersOf(f, d)
  BY <1>1, <1>7 DEF PeersOf
<1>11. QED
  BY <1>1, <1>2, <1>4, <1>6, <1>8, <1>9, <1>10 DEF VppInv, Only, Same

-----------------------------------------------------------------------------
(* The steps of a connection *)

(* Only what is kept of the request and of connection c changes. *)
CtlOnly(c) == \A d \in Conns \ {c} : /\ pc'[d] = pc[d] /\ req'[d] = req[d] /\ own'[d] = own[d]
                                     /\ d \in undone' <=> d \in undone
                                     /\ \A e \in Sides : /\ mech'[e][d] = mech[e][d]
                                                         /\ <<e, d>> \in outlived' <=> <<e, d>> \in outlived

MetaOnly(c) == \A e \in Sides, d \in Conns \ {c} : Same(e, d)

(* The one peer of an interface is kept: the key stays the same, or there  *)
(* was none yet, or the interface is about to be deleted.                  *)
LEMMA SingleKept ==
    ASSUME NEW f \in Sides, NEW d \in Conns, Single(f, d), ifindex'[f][d] = ifindex[f][d],
           <<f, d>> \in outlived => <<f, d>> \in outlived',
           ifindex[f][d] # None => PeersOf(f, d)' \subseteq PeersOf(f, d),
           pc[d] \in Dying(f) => pc'[d] \in Dying(f),
           \/ PeerKey(f, d) = 0
           \/ PeerKey(f, d)' = PeerKey(f, d) /\ peerIdx'[f][d] = peerIdx[f][d]
           \/ pc'[d] \in Dying(f)
    PROVE  Single(f, d)'
<1> SUFFICES ASSUME ifindex'[f][d] # None, <<f, d>> \notin outlived'
             PROVE  IF pc'[d] \in Dying(f) THEN \A p, q \in PeersOf(f, d)' : p = q
                    ELSE \A p \in PeersOf(f, d)' :
                            PeerKey(f, d)' # 0 /\ p = peerIdx'[f][d][PeerKey(f, d)']
  BY DEF Single, Dying
<1>1. PeersOf(f, d)' \subseteq PeersOf(f, d)
  OBVIOUS
<1>2. IF pc[d] \in Dying(f) THEN \A p, q \in PeersOf(f, d) : p = q
      ELSE \A p \in PeersOf(f, d) : PeerKey(f, d) # 0 /\ p = peerIdx[f][d][PeerKey(f, d)]
  BY DEF Single
<1>3. CASE pc'[d] \in Dying(f)
  BY <1>1, <1>2, <1>3
<1>4. CASE pc'[d] \notin Dying(f)
  BY <1>1, <1>2, <1>4
<1>5. QED
  BY <1>3, <1>4

(* ... and it is the one that createPeer has made.                         *)
LEMMA SinglePeer ==
    ASSUME VppInv, NEW f \in Sides, NEW d \in Conns, NEW k \in Keys, Single(f, d), ifindex'[f][d] = ifindex[f][d],
           <<f, d>> \in outlived => <<f, d>> \in outlived',
           PeersOf(f, d)' \subseteq PeersOf(f, d) \cup {peerIdx'[f][d][k]},
           peerIdx[f][d][k] # None => peerIdx'[f][d][k] = peerIdx[f][d][k],
           pc[d] \notin Dying(f), pc'[d] \notin Dying(f),
           PeerKey(f, d) = k, PeerKey(f, d)' = k
    PROVE  Single(f, d)'
<1> SUFFICES ASSUME ifindex'[f][d] # None, <<f, d>> \notin outlived', NEW p \in PeersOf(f, d)'
             PROVE  k # 0 /\ p = peerIdx'[f][d][k]
  BY DEF Single, Dying
<1>1. k # 0
  BY WireguardAssumption DEF Keys
<1>2. CASE p \in PeersOf(f, d)
  <2>1. p = peerIdx[f][d][k]
    BY <1>2 DEF Single
  <2>2. p \in Peers /\ p # None
    BY <1>2, WireguardAssumption DEF PeersOf
  <2>3. QED
    BY <1>1, <2>1, <2>2
<1>3. QED
  BY <1>1, <1>2

(* A step of c that keeps the invariant of c keeps the one of all.         *)
LEMMA StepIInv ==
    ASSUME IInv, NEW c \in Conns, UNCHANGED env, CtlOnly(c), MetaOnly(c),
           TypeCtl', VppInv', ~stale' => PeerInv',
           Filled(c)', Complete(c)', Closed(c)', c \notin undone' => KeysAgree(c)',
           \A e \in Sides : Single(e, c)'
    PROVE  IInv'
<1>1. ASSUME NEW d \in Conns \ {c} PROVE CtlInv(d)'
  <2>1. /\ pc'[d] = pc[d] /\ req'[d] = req[d] /\ own'[d] = own[d] /\ (d \in undone' <=> d \in undone)
        /\ \A e \in Sides : /\ mech'[e][d] = mech[e][d] /\ Same(e, d)
                            /\ <<e, d>> \in outlived' <=> <<e, d>> \in outlived
    BY DEF CtlOnly, MetaOnly
  <2>2. /\ mech'["client"][d] = mech["client"][d] /\ mech'["server"][d] = mech["server"][d]
        /\ pubKey'["client"][d] = pubKey["client"][d] /\ pubKey'["server"][d] = pubKey["server"][d]
        /\ peerIdx'["client"][d] = peerIdx["client"][d] /\ peerIdx'["server"][d] = peerIdx["server"][d]
        /\ <<"server", d>> \in outlived' <=> <<"server", d>> \in outlived
    BY <2>1 DEF Same, Sides
  <2>3. CtlInv(d)
    BY DEF IInv
  <2>4. Filled(d)' /\ Complete(d)' /\ Closed(d)'
    BY <2>1, <2>2, <2>3 DEF CtlInv, Filled, Complete, Closed, Left, Sides
  <2>5. d \notin undone' => KeysAgree(d)'
    BY <2>1, <2>2, <2>3 DEF CtlInv, KeysAgree
  <2>6. ASSUME NEW e \in Sides PROVE Single(e, d)'
    <3>1. PeerKey(e, d)' = PeerKey(e, d)
      BY <2>1, <2>2 DEF PeerKey, Sides
    <3>2. Single(e, d)
      BY <2>3 DEF CtlInv
    <3>3. QED
      BY <2>1, <3>1, <3>2, SingleKept DEF Same, Dying
  <2>7. QED
    BY <2>4, <2>5, <2>6 DEF CtlInv
<1>2. CtlInv(c)'
  BY DEF CtlInv
<1>3. QED
  BY <1>1, <1>2 DEF IInv

(* A step that leaves VPP and the metadata alone. *)
LEMMA SameVpp == ASSUME IInv, UNCHANGED <<metadata, vpp>>
                 PROVE  /\ VppInv' /\ (PeerInv => PeerInv')
                        /\ UNCHANGED <<pubKey, ifindex, peerIdx>>
                        /\ \A e \in Sides, c \in Conns : Same(e, c)
<1>1. UNCHANGED <<pubKey, ifindex, peerIdx, ifs, peers, failed>>
  BY DEF metadata, vpp
<1>2. TypeVpp' /\ RememberedExists' /\ \A e \in Sides : OwnInterface(e)' /\ PeersOnIfs(e)'
  BY <1>1 DEF IInv, VppInv, TypeVpp, RememberedExists, KeyOf, OwnInterface, PeersOnIfs
<1>3. LeaksAreFailures'
  BY <1>1 DEF IInv, VppInv, LeaksAreFailures
<1>4. PeerInv => PeerInv'
  BY <1>1 DEF PeerInv, PeerExists
<1>5. \A e \in Sides, c \in Conns : Same(e, c)
  BY <1>1 DEF Same, PeersOf
<1>6. QED
  BY <1>1, <1>2, <1>3, <1>4, <1>5 DEF VppInv

(* What the invariant says of connection c. *)
LEMMA Here == ASSUME IInv, NEW c \in Conns
              PROVE  /\ Filled(c) /\ Complete(c) /\ Closed(c)
                     /\ c \notin undone => KeysAgree(c)
                     /\ Single("client", c) /\ Single("server", c)
                     /\ req[c] \in Mechanism /\ own[c] \in 0..MaxKeys
                     /\ mech["client"][c] \in Mechanism /\ mech["server"][c] \in Mechanism
                     /\ req[c].src \in 0..MaxKeys /\ req[c].dst \in 0..MaxKeys
                     /\ NoMechanism \in Mechanism /\ NoMechanism.src = 0 /\ NoMechanism.dst = 0
                     /\ pubKey["client"][c] \in 0..MaxKeys /\ pubKey["server"][c] \in 0..MaxKeys
                     /\ \A e \in Sides : (pubKey[e][c] = 0) = (ifindex[e][c] = None)
                     /\ VppInv /\ (~stale => PeerInv)
<1>1. CtlInv(c) /\ VppInv /\ (~stale => PeerInv)
  BY DEF IInv
<1>2. NoMechanism \in Mechanism /\ NoMechanism.src = 0 /\ NoMechanism.dst = 0
  BY WireguardAssumption DEF NoMechanism, Mechanism
<1>3. /\ req[c] \in Mechanism /\ own[c] \in 0..MaxKeys
      /\ mech["client"][c] \in Mechanism /\ mech["server"][c] \in Mechanism
  BY DEF IInv, TypeCtl, Sides
<1>4. pubKey["client"][c] \in 0..MaxKeys /\ pubKey["server"][c] \in 0..MaxKeys
  BY DEF IInv, VppInv, TypeVpp, Sides
<1>5. req[c].src \in 0..MaxKeys /\ req[c].dst \in 0..MaxKeys
  BY <1>3 DEF Mechanism
<1>6. \A e \in Sides : (pubKey[e][c] = 0) = (ifindex[e][c] = None)
  BY <1>1 DEF VppInv, RememberedExists
<1>7. QED
  BY <1>1, <1>2, <1>3, <1>4, <1>5, <1>6 DEF CtlInv, Sides

(* The keys of a mechanism. *)
LEMMA MechanismKeys == ASSUME NEW m \in Mechanism
                       PROVE  m.src \in 0..MaxKeys /\ m.dst \in 0..MaxKeys
BY DEF Mechanism

(* A move of c in its request or close. *)
LEMMA Moves == ASSUME IInv, NEW c \in Conns, NEW s \in Steps, Goto(c, s)
               PROVE  /\ pc' \in [Conns -> Steps] /\ pc'[c] = s
                      /\ \A d \in Conns \ {c} : pc'[d] = pc[d]
BY DEF Goto, IInv, TypeCtl

(* The end of a request. *)
LEMMA Ends == ASSUME IInv, NEW c \in Conns, Answered(c)
              PROVE  /\ req' \in [Conns -> Mechanism] /\ req'[c] = NoMechanism
                     /\ own' \in [Conns -> 0..MaxKeys] /\ own'[c] = 0
                     /\ \A d \in Conns \ {c} : req'[d] = req[d] /\ own'[d] = own[d]
<1>1. NoMechanism \in Mechanism /\ 0 \in 0..MaxKeys
  BY Here, WireguardAssumption
<1>2. QED
  BY <1>1 DEF Answered, IInv, TypeCtl

(* A step that changes one side only, and there only what c has.           *)
LEMMA OneSide == ASSUME NEW e \in Sides, NEW c \in Conns, Only(e, c)
                 PROVE  /\ MetaOnly(c)
                        /\ \A f \in Sides \ {e} : Same(f, c)
BY DEF Only, MetaOnly

(* A side without interface, or with one that has outlived the other.      *)
LEMMA NoneSingle == ASSUME VppInv', NEW e \in Sides, NEW c \in Conns,
                           pubKey'[e][c] = 0 \/ <<e, c>> \in outlived'
                    PROVE  Single(e, c)'
<1>1. (pubKey'[e][c] = 0) = (ifindex'[e][c] = None)
  BY DEF VppInv, RememberedExists
<1>2. QED
  BY <1>1 DEF Single

(* The interface of the other side, if there is one, outlives this one.    *)
LEMMA OutlivesIs == ASSUME IInv, NEW e \in Sides, NEW f \in Sides, e # f, NEW c \in Conns, Outlives(e, f, c)
                    PROVE  /\ outlived' \subseteq Sides \X Conns
                           /\ pubKey[f][c] # 0 => <<f, c>> \in outlived'
                           /\ \A d \in Conns \ {c}, g \in Sides : <<g, d>> \in outlived' <=> <<g, d>> \in outlived
BY DEF Outlives, IInv, TypeCtl

(* A request of the client. *)
LEMMA ClientRequestIInv == ASSUME IInv, UNCHANGED env, NEW c \in Conns, ClientRequest(c) PROVE IInv'
<1> USE WireguardAssumption
<1>1. /\ pc[c] = "ready" /\ Goto(c, "server")
      /\ UNCHANGED <<mech, metadata, vpp, undone, outlived, stale>>
  BY DEF ClientRequest, history
<1>2. /\ keys \in Nat /\ env.keys \in 0..MaxKeys /\ mech["client"][c] \in Mechanism
  BY DEF IInv, TypeCtl, Sides
<1>3. \/ /\ mech["client"][c].src = 0 /\ mech["client"][c] = NoMechanism
         /\ keys + 1 \in 1..MaxKeys /\ keys' = keys + 1
         /\ own' = [own EXCEPT ![c] = keys + 1] /\ req' = [req EXCEPT ![c] = [src |-> keys + 1, dst |-> 0]]
      \/ /\ mech["client"][c].src # 0 /\ mech["client"][c] # NoMechanism
         /\ req' = [req EXCEPT ![c] = mech["client"][c]] /\ UNCHANGED <<keys, own>>
  BY <1>2, Here DEF ClientRequest, GeneratePrivateKey, Complete, Sides
<1>4. [src |-> keys + 1, dst |-> 0] \in Mechanism \/ UNCHANGED <<keys, own>>
  BY <1>3 DEF Mechanism
<1>5. pc' \in [Conns -> Steps] /\ pc'[c] = "server" /\ \A d \in Conns \ {c} : pc'[d] = pc[d]
  BY <1>1, Moves DEF Steps
<1>6. TypeCtl' /\ CtlOnly(c)
  BY <1>1, <1>2, <1>3, <1>4, <1>5 DEF IInv, TypeCtl, CtlOnly
<1>7. /\ VppInv' /\ (PeerInv => PeerInv') /\ UNCHANGED <<pubKey, ifindex, peerIdx>>
      /\ Same("client", c) /\ Same("server", c) /\ MetaOnly(c)
  BY <1>1, SameVpp DEF MetaOnly, Sides
<1>8. \/ /\ mech["client"][c] = NoMechanism
         /\ own'[c] = keys + 1 /\ req'[c] = [src |-> keys + 1, dst |-> 0] /\ keys + 1 # 0
      \/ /\ mech["client"][c].src # 0 /\ mech["client"][c] # NoMechanism
         /\ req'[c] = mech["client"][c] /\ own'[c] = own[c]
  BY <1>2, <1>3 DEF IInv, TypeCtl
<1>9. Filled(c)' /\ Complete(c)' /\ Closed(c)'
  BY <1>1, <1>5, <1>7, <1>8, Here DEF Filled, Complete, Closed, Left
<1>10. c \notin undone' => KeysAgree(c)'
  BY <1>1, <1>5, <1>7, <1>8, Here DEF KeysAgree
<1>11. Single("client", c)'
  BY <1>1, <1>5, <1>7, Here, SingleKept DEF Same, Dying, PeerKey, Sides
<1>12. Single("server", c)'
  <2>1. CASE mech["client"][c] = NoMechanism
    BY <1>1, <1>7, <2>1, Here, NoneSingle DEF Closed, Left, Sides
  <2>2. CASE mech["client"][c] # NoMechanism
    BY <1>1, <1>5, <1>7, <2>2, Here, SingleKept DEF Same, Dying, PeerKey, Sides
  <2>3. QED
    BY <2>1, <2>2
<1>13. QED
  BY <1>1, <1>6, <1>7, <1>9, <1>10, <1>11, <1>12, Here, StepIInv DEF Sides

(* The interface of the client. *)
LEMMA ClientInterfaceIInv == ASSUME IInv, UNCHANGED env, NEW c \in Conns, ClientInterface(c) PROVE IInv'
<1> USE WireguardAssumption
<1>1. pc[c] = "interface" /\ UNCHANGED <<mech, req, own, undone, outlived, stale>>
  BY DEF ClientInterface, history
<1>2. ASSUME NEW s \in {"peer", "undo"}, Goto(c, s), UNCHANGED <<keys, metadata, vpp>>,
             s = "peer" <=> pubKey["client"][c] # 0
      PROVE  IInv'
  <2>1. /\ VppInv' /\ (PeerInv => PeerInv') /\ UNCHANGED <<pubKey, ifindex, peerIdx>>
        /\ Same("client", c) /\ Same("server", c) /\ MetaOnly(c)
    BY <1>2, SameVpp DEF MetaOnly, Sides
  <2>2. pc' \in [Conns -> Steps] /\ pc'[c] = s /\ \A d \in Conns \ {c} : pc'[d] = pc[d]
    BY <1>2, Moves DEF Steps
  <2>3. TypeCtl' /\ CtlOnly(c)
    BY <1>1, <1>2, <2>2 DEF IInv, TypeCtl, CtlOnly
  <2>4. Filled(c)' /\ Complete(c)' /\ Closed(c)'
    BY <1>1, <1>2, <2>1, <2>2, Here DEF Filled, Complete, Closed
  <2>5. c \notin undone' => KeysAgree(c)'
    BY <1>1, <1>2, <2>1, <2>2, Here DEF KeysAgree
  <2>6. Single("client", c)' /\ Single("server", c)'
    BY <1>1, <2>1, <2>2, Here, SingleKept DEF Same, Dying, PeerKey, Sides
  <2>7. QED
    BY <1>1, <2>1, <2>3, <2>4, <2>5, <2>6, Here, StepIInv DEF Sides
<1>3. ASSUME NEW k \in Keys, createInterface("client", c, k), UNCHANGED <<peerIdx, peers, failed>>,
             Goto(c, "peer"), keys' \in 0..MaxKeys, k = own[c] \/ own[c] = 0
      PROVE  IInv'
  <2>1. /\ VppInv' /\ (PeerInv => PeerInv') /\ Only("client", c)
        /\ pubKey["client"][c] = 0 /\ pubKey'["client"][c] = k /\ k # 0
        /\ PeersOf("client", c)' = {}
    BY <1>3, Here, CreateInterfaceVpp DEF Sides, Keys
  <2>2. pc' \in [Conns -> Steps] /\ pc'[c] = "peer" /\ \A d \in Conns \ {c} : pc'[d] = pc[d]
    BY <1>3, Moves DEF Steps
  <2>3. MetaOnly(c) /\ Same("server", c) /\ pubKey'["server"][c] = pubKey["server"][c]
        /\ peerIdx'["server"][c] = peerIdx["server"][c]
    BY <2>1, OneSide DEF Sides, Same
  <2>4. TypeCtl' /\ CtlOnly(c)
    BY <1>1, <1>3, <2>2 DEF IInv, TypeCtl, CtlOnly
  <2>5. Filled(c)' /\ Complete(c)' /\ Closed(c)'
    BY <1>1, <2>1, <2>2, <2>3, Here DEF Filled, Complete, Closed
  <2>6. c \notin undone' => KeysAgree(c)'
    <3>1. c \notin undone => k = req[c].src /\ mech["client"][c] = NoMechanism
      BY <1>1, <1>3, <2>1, Here DEF KeysAgree, Filled, Complete, Sides
    <3>2. QED
      BY <1>1, <2>1, <2>2, <3>1 DEF KeysAgree
  <2>7. Single("client", c)'
    BY <2>1 DEF Single
  <2>8. Single("server", c)'
    BY <1>1, <2>2, <2>3, Here, SingleKept DEF Same, Dying, PeerKey, Sides
  <2>9. QED
    BY <1>1, <2>1, <2>3, <2>4, <2>5, <2>6, <2>7, <2>8, Here, StepIInv DEF Sides
<1>4. QED
  <2>1. ASSUME own[c] # 0, createInterface("client", c, own[c]),
               Goto(c, "peer"), UNCHANGED <<keys, peerIdx, peers, failed>>
        PROVE  IInv'
    <3>1. own[c] \in Keys /\ keys' \in 0..MaxKeys
      BY <2>1, Here DEF Keys, IInv, TypeCtl
    <3>2. QED
      BY <1>3, <2>1, <3>1
  <2>2. ASSUME own[c] = 0, GeneratePrivateKey, createInterface("client", c, keys + 1),
               Goto(c, "peer"), UNCHANGED <<peerIdx, peers, failed>>
        PROVE  IInv'
    <3>1. keys + 1 \in Keys /\ keys' \in 0..MaxKeys
      BY <2>2 DEF Keys, IInv, TypeCtl, GeneratePrivateKey
    <3>2. QED
      BY <1>3, <2>2, <3>1
  <2>3. QED
    BY <1>2, <2>1, <2>2 DEF ClientInterface

(* The peer of the client. *)
LEMMA ClientPeerIInv == ASSUME IInv, UNCHANGED env, NEW c \in Conns, ClientPeer(c) PROVE IInv'
<1> USE WireguardAssumption
<1>1. pc[c] = "peer" /\ UNCHANGED <<keys, undone, outlived, stale>>
  BY DEF ClientPeer, history
<1>2. PICK k \in Keys : k = req[c].dst /\ getKey(req[c], "client") = k /\ k # 0
  BY <1>1, Here, IsKey DEF Filled, getKey
<1>3. /\ req[c].src # 0 /\ pubKey["client"][c] # 0 /\ pubKey["server"][c] = k /\ req[c] # NoMechanism
      /\ mech["client"][c] # NoMechanism => req[c].src = mech["client"][c].src
  BY <1>1, <1>2, Here DEF Filled
<1>4. ASSUME createPeer("client", c, k)
      PROVE  /\ VppInv' /\ (PeerInv => PeerInv') /\ MetaOnly(c) /\ Same("server", c)
             /\ UNCHANGED <<pubKey, ifindex>> /\ peerIdx'["server"][c] = peerIdx["server"][c]
             /\ peerIdx["client"][c][k] # None => peerIdx'["client"][c][k] = peerIdx["client"][c][k]
             /\ PeersOf("client", c)' \subseteq PeersOf("client", c) \cup {peerIdx'["client"][c][k]}
  BY <1>3, <1>4, Here, CreatePeerVpp, OneSide DEF Sides, Same
<1>5. ASSUME createPeer("client", c, k), pc'[c] \in {"ready", "peerundo"} PROVE Single("client", c)'
  <2>1. PeerKey("client", c) = k /\ PeerKey("client", c)' = k
    BY <1>3, <1>4, <1>5 DEF PeerKey
  <2>2. QED
    BY <1>1, <1>4, <1>5, <2>1, Here, SinglePeer DEF Dying, Sides
<1>6. CASE /\ createPeer("client", c, k)
           /\ mech' = [mech EXCEPT !["client"][c] = req[c]] /\ Answered(c) /\ Goto(c, "ready")
  <2>1. pc' \in [Conns -> Steps] /\ pc'[c] = "ready" /\ \A d \in Conns \ {c} : pc'[d] = pc[d]
    BY <1>6, Moves DEF Steps
  <2>2. /\ mech' \in [Sides -> [Conns -> Mechanism]] /\ mech'["client"][c] = req[c]
        /\ mech'["server"][c] = mech["server"][c]
        /\ \A d \in Conns \ {c}, e \in Sides : mech'[e][d] = mech[e][d]
    BY <1>6, Here DEF IInv, TypeCtl, Sides
  <2>3. TypeCtl' /\ CtlOnly(c)
    BY <1>1, <1>6, <2>1, <2>2, Ends DEF IInv, TypeCtl, CtlOnly
  <2>4. Filled(c)' /\ Complete(c)' /\ Closed(c)'
    BY <1>2, <1>3, <2>1, <2>2, Here DEF Filled, Complete, Closed, Sides
  <2>5. c \notin undone' => KeysAgree(c)'
    BY <1>1, <1>3, <1>4, <1>6, <2>1, <2>2, Here DEF KeysAgree
  <2>6. Single("server", c)'
    <3>1. PeerKey("server", c)' = PeerKey("server", c)
      BY <1>3, <2>2 DEF PeerKey
    <3>2. QED
      BY <1>1, <1>4, <1>6, <2>1, <3>1, Here, SingleKept DEF Same, Dying, Sides
  <2>7. QED
    BY <1>1, <1>4, <1>5, <1>6, <2>1, <2>3, <2>4, <2>5, <2>6, Here, StepIInv DEF Sides
<1>7. CASE createPeer("client", c, k) /\ Goto(c, "peerundo") /\ UNCHANGED <<mech, req, own>>
  <2>1. pc' \in [Conns -> Steps] /\ pc'[c] = "peerundo" /\ \A d \in Conns \ {c} : pc'[d] = pc[d]
    BY <1>7, Moves DEF Steps
  <2>2. TypeCtl' /\ CtlOnly(c)
    BY <1>1, <1>7, <2>1 DEF IInv, TypeCtl, CtlOnly
  <2>3. Filled(c)' /\ Complete(c)' /\ Closed(c)'
    BY <1>1, <1>7, <2>1, Here DEF Filled, Complete, Closed
  <2>4. c \notin undone' => KeysAgree(c)'
    BY <1>1, <1>4, <1>7, <2>1, Here DEF KeysAgree
  <2>5. Single("server", c)'
    BY <1>1, <1>4, <1>7, <2>1, Here, SingleKept DEF Same, Dying, PeerKey, Sides
  <2>6. QED
    BY <1>1, <1>4, <1>5, <1>7, <2>1, <2>2, <2>3, <2>4, <2>5, Here, StepIInv DEF Sides
<1>8. CASE Goto(c, "peerundo") /\ UNCHANGED <<mech, req, own, metadata, vpp>>
  <2>1. /\ VppInv' /\ (PeerInv => PeerInv') /\ UNCHANGED <<pubKey, ifindex, peerIdx>>
        /\ Same("client", c) /\ Same("server", c) /\ MetaOnly(c)
    BY <1>8, SameVpp DEF MetaOnly, Sides
  <2>2. pc' \in [Conns -> Steps] /\ pc'[c] = "peerundo" /\ \A d \in Conns \ {c} : pc'[d] = pc[d]
    BY <1>8, Moves DEF Steps
  <2>3. TypeCtl' /\ CtlOnly(c)
    BY <1>1, <1>8, <2>2 DEF IInv, TypeCtl, CtlOnly
  <2>4. Filled(c)' /\ Complete(c)' /\ Closed(c)'
    BY <1>1, <1>8, <2>1, <2>2, Here DEF Filled, Complete, Closed
  <2>5. c \notin undone' => KeysAgree(c)'
    BY <1>1, <1>8, <2>1, <2>2, Here DEF KeysAgree
  <2>6. Single("client", c)' /\ Single("server", c)'
    BY <1>1, <1>8, <2>1, <2>2, Here, SingleKept DEF Same, Dying, PeerKey, Sides
  <2>7. QED
    BY <1>1, <2>1, <2>3, <2>4, <2>5, <2>6, Here, StepIInv DEF Sides
<1>9. QED
  BY <1>2, <1>6, <1>7, <1>8 DEF ClientPeer

(* The peer that failed is forgotten. *)
LEMMA ClientPeerUndoIInv == ASSUME IInv, UNCHANGED env, NEW c \in Conns, ClientPeerUndo(c) PROVE IInv'
<1> USE WireguardAssumption
<1>1. /\ pc[c] = "peerundo" /\ Goto(c, "undo")
      /\ UNCHANGED <<keys, mech, req, own, undone, outlived, stale>>
  BY DEF ClientPeerUndo, history
<1>2. getKey(req[c], "client") \in Keys
  BY <1>1, Here, IsKey DEF Filled, getKey
<1>3. /\ VppInv' /\ (PeerInv => PeerInv') /\ Only("client", c) /\ UNCHANGED <<pubKey, ifindex>>
      /\ PeersOf("client", c)' \subseteq PeersOf("client", c)
  BY <1>2, Here, DelPeerVpp DEF ClientPeerUndo, Sides
<1>4. pc' \in [Conns -> Steps] /\ pc'[c] = "undo" /\ \A d \in Conns \ {c} : pc'[d] = pc[d]
  BY <1>1, Moves DEF Steps
<1>5. MetaOnly(c) /\ Same("server", c)
  BY <1>3, OneSide DEF Sides
<1>6. TypeCtl' /\ CtlOnly(c)
  BY <1>1, <1>4 DEF IInv, TypeCtl, CtlOnly
<1>7. Filled(c)' /\ Complete(c)' /\ Closed(c)'
  BY <1>1, <1>3, <1>4, Here DEF Filled, Complete, Closed
<1>8. c \notin undone' => KeysAgree(c)'
  BY <1>1, <1>3, <1>4, Here DEF KeysAgree
<1>9. Single("client", c)'
  BY <1>1, <1>3, <1>4, Here, SingleKept DEF Dying, Sides
<1>10. Single("server", c)'
  BY <1>1, <1>3, <1>4, <1>5, Here, SingleKept DEF Same, Dying, PeerKey, Sides
<1>11. QED
  BY <1>1, <1>3, <1>5, <1>6, <1>7, <1>8, <1>9, <1>10, Here, StepIInv DEF Sides

(* Where the client goes with a Close. *)
LEMMA ToServerMoves == ASSUME IInv, NEW c \in Conns, ToServer(c)
                       PROVE  /\ pc' \in [Conns -> Steps]
                              /\ pc'[c] \in {"serverclose", "ready"}
                              /\ \A d \in Conns \ {c} : pc'[d] = pc[d]
BY Moves DEF ToServer, Steps

(* The close after a failure at the client. *)
LEMMA ClientUndoIInv == ASSUME IInv, UNCHANGED env, NEW c \in Conns, ClientUndo(c) PROVE IInv'
<1> USE WireguardAssumption
<1>1. /\ pc[c] = "undo" /\ UNCHANGED <<keys, mech, peerIdx>> /\ Answered(c)
      /\ undone' = IF mech["client"][c] = NoMechanism THEN undone ELSE undone \cup {c}
      /\ stale' = (stale \/ peerIdx["client"][c] # NoPeers)
  BY DEF ClientUndo, LeavesPeers
<1>2. /\ pc' \in [Conns -> Steps] /\ \A d \in Conns \ {c} : pc'[d] = pc[d]
      /\ pc'[c] \in {"serverclose", "ready"}
  BY ToServerMoves DEF ClientUndo
<1>3. /\ outlived' \subseteq Sides \X Conns
      /\ pubKey["server"][c] # 0 => <<"server", c>> \in outlived'
      /\ \A d \in Conns \ {c}, g \in Sides : <<g, d>> \in outlived' <=> <<g, d>> \in outlived
  BY OutlivesIs DEF ClientUndo, Sides
<1>4. /\ VppInv' /\ (PeerInv /\ NoPeer("client", c)' => PeerInv')
      /\ Only("client", c) /\ pubKey'["client"][c] = 0
  <2>1. peerIdx' \in [Sides -> [Conns -> [Keys -> Peers \cup {None}]]]
    BY <1>1 DEF IInv, VppInv, TypeVpp
  <2>2. QED
    BY <1>1, <2>1, Here, DelInterfaceVpp DEF ClientUndo, Sides
<1>5. ~stale' => PeerInv'
  <2>1. ~stale' => ~stale /\ NoPeer("client", c)'
    BY <1>1 DEF NoPeer, NoPeers
  <2>2. QED
    BY <1>4, <2>1, Here
<1>6. MetaOnly(c) /\ pubKey'["server"][c] = pubKey["server"][c]
  BY <1>4, OneSide DEF Sides, Same
<1>7. TypeCtl' /\ CtlOnly(c)
  BY <1>1, <1>2, <1>3, Ends DEF IInv, TypeCtl, CtlOnly
<1>8. Filled(c)' /\ Complete(c)' /\ Closed(c)'
  BY <1>1, <1>2, <1>3, <1>6, Here DEF Filled, Complete, Closed, Left
<1>9. c \notin undone' => KeysAgree(c)'
  BY <1>1, <1>2, <1>4, Here DEF KeysAgree
<1>10. Single("client", c)' /\ Single("server", c)'
  BY <1>3, <1>4, <1>6, NoneSingle DEF Sides
<1>11. QED
  BY <1>1, <1>4, <1>5, <1>6, <1>7, <1>8, <1>9, <1>10, StepIInv DEF Sides

(* A close by the client begins. *)
LEMMA ClientCloseIInv == ASSUME IInv, UNCHANGED env, NEW c \in Conns, ClientClose(c) PROVE IInv'
<1> USE WireguardAssumption
<1>1. /\ pc[c] = "ready" /\ mech["client"][c] # NoMechanism /\ Goto(c, "close")
      /\ UNCHANGED <<keys, mech, req, own, undone, outlived, stale>>
  BY DEF ClientClose, history
<1>2. getKey(mech["client"][c], "client") \in Keys
  <2>1. mech["client"][c].dst # 0 /\ mech["client"][c].dst \in 0..MaxKeys
    BY <1>1, Here, MechanismKeys DEF Complete, Sides
  <2>2. QED
    BY <2>1, IsKey DEF getKey
<1>3. /\ VppInv' /\ (PeerInv => PeerInv') /\ Only("client", c) /\ UNCHANGED <<pubKey, ifindex>>
      /\ PeersOf("client", c)' \subseteq PeersOf("client", c)
  BY <1>2, Here, DelPeerVpp DEF ClientClose, Sides
<1>4. pc' \in [Conns -> Steps] /\ pc'[c] = "close" /\ \A d \in Conns \ {c} : pc'[d] = pc[d]
  BY <1>1, Moves DEF Steps
<1>5. MetaOnly(c) /\ Same("server", c)
  BY <1>3, OneSide DEF Sides
<1>6. TypeCtl' /\ CtlOnly(c)
  BY <1>1, <1>4 DEF IInv, TypeCtl, CtlOnly
<1>7. Filled(c)' /\ Complete(c)' /\ Closed(c)'
  BY <1>1, <1>3, <1>4, Here DEF Filled, Complete, Closed
<1>8. c \notin undone' => KeysAgree(c)'
  BY <1>1, <1>3, <1>4, Here DEF KeysAgree
<1>9. Single("client", c)'
  BY <1>1, <1>3, <1>4, Here, SingleKept DEF Dying, Sides
<1>10. Single("server", c)'
  BY <1>1, <1>3, <1>4, <1>5, Here, SingleKept DEF Same, Dying, PeerKey, Sides
<1>11. QED
  BY <1>1, <1>3, <1>5, <1>6, <1>7, <1>8, <1>9, <1>10, Here, StepIInv DEF Sides

(* The metadata of c on side e are dropped. *)
LEMMA Dropped == ASSUME IInv, NEW e \in Sides, NEW c \in Conns,
                        peerIdx' = [peerIdx EXCEPT ![e][c] = NoPeers],
                        mech' = [mech EXCEPT ![e][c] = NoMechanism]
                 PROVE  /\ peerIdx' \in [Sides -> [Conns -> [Keys -> Peers \cup {None}]]]
                        /\ \A f \in Sides, d \in Conns : f # e \/ d # c => /\ peerIdx'[f][d] = peerIdx[f][d]
                                                                           /\ mech'[f][d] = mech[f][d]
                        /\ NoPeer(e, c)' /\ mech'[e][c] = NoMechanism
                        /\ mech' \in [Sides -> [Conns -> Mechanism]]
<1>1. NoPeers \in [Keys -> Peers \cup {None}] /\ \A k \in Keys : NoPeers[k] = None
  BY DEF NoPeers
<1>2. peerIdx \in [Sides -> [Conns -> [Keys -> Peers \cup {None}]]] /\ mech \in [Sides -> [Conns -> Mechanism]]
  BY DEF IInv, VppInv, TypeVpp, TypeCtl
<1>3. peerIdx'[e][c] = NoPeers
  BY <1>2
<1>4. QED
  BY <1>1, <1>2, <1>3, Here DEF NoPeer

(* ... and goes on to the interface and the server. *)
LEMMA ClientCloseInterfaceIInv ==
    ASSUME IInv, UNCHANGED env, NEW c \in Conns, ClientCloseInterface(c) PROVE IInv'
<1> USE WireguardAssumption
<1>1. pc[c] = "close" /\ UNCHANGED <<keys, req, own, stale>> /\ undone' = undone \ {c}
  BY DEF ClientCloseInterface
<1>2. /\ pc' \in [Conns -> Steps] /\ \A d \in Conns \ {c} : pc'[d] = pc[d]
      /\ pc'[c] \in {"serverclose", "ready"}
  BY ToServerMoves DEF ClientCloseInterface
<1>3. /\ peerIdx' \in [Sides -> [Conns -> [Keys -> Peers \cup {None}]]]
      /\ \A f \in Sides, d \in Conns : f # "client" \/ d # c => /\ peerIdx'[f][d] = peerIdx[f][d]
                                                                /\ mech'[f][d] = mech[f][d]
      /\ NoPeer("client", c)' /\ mech'["client"][c] = NoMechanism
      /\ mech' \in [Sides -> [Conns -> Mechanism]]
  BY Dropped DEF ClientCloseInterface, Sides
<1>4. /\ outlived' \subseteq Sides \X Conns
      /\ pubKey["server"][c] # 0 => <<"server", c>> \in outlived'
      /\ \A d \in Conns \ {c}, g \in Sides : <<g, d>> \in outlived' <=> <<g, d>> \in outlived
  BY OutlivesIs DEF ClientCloseInterface, Sides
<1>5. VppInv' /\ (PeerInv => PeerInv') /\ Only("client", c) /\ pubKey'["client"][c] = 0
  BY <1>3, Here, DelInterfaceVpp DEF ClientCloseInterface, Sides
<1>6. /\ MetaOnly(c) /\ pubKey'["server"][c] = pubKey["server"][c]
      /\ mech'["server"][c] = mech["server"][c]
  BY <1>3, <1>5, OneSide DEF Sides, Same
<1>7. TypeCtl' /\ CtlOnly(c)
  BY <1>1, <1>2, <1>3, <1>4 DEF IInv, TypeCtl, CtlOnly
<1>8. Filled(c)' /\ Complete(c)' /\ Closed(c)'
  BY <1>2, <1>3, <1>4, <1>6, Here DEF Filled, Complete, Closed, Left, Sides
<1>9. c \notin undone' => KeysAgree(c)'
  BY <1>2, <1>3, <1>5, Here DEF KeysAgree
<1>10. Single("client", c)' /\ Single("server", c)'
  BY <1>4, <1>5, <1>6, NoneSingle DEF Sides
<1>11. QED
  BY <1>1, <1>5, <1>6, <1>7, <1>8, <1>9, <1>10, Here, StepIInv DEF Sides

(* An element between the two sides fails. *)
LEMMA BetweenFailsIInv == ASSUME IInv, UNCHANGED env, NEW c \in Conns, BetweenFails(c) PROVE IInv'
<1> USE WireguardAssumption
<1>1. /\ pc[c] = "interface" /\ Answered(c) /\ Goto(c, "serverclose")
      /\ UNCHANGED <<keys, mech, metadata, vpp, undone, outlived, stale>>
  BY DEF BetweenFails, history
<1>2. /\ VppInv' /\ (PeerInv => PeerInv') /\ UNCHANGED <<pubKey, ifindex, peerIdx>>
      /\ Same("client", c) /\ Same("server", c) /\ MetaOnly(c)
  BY <1>1, SameVpp DEF MetaOnly, Sides
<1>3. pc' \in [Conns -> Steps] /\ pc'[c] = "serverclose" /\ \A d \in Conns \ {c} : pc'[d] = pc[d]
  BY <1>1, Moves DEF Steps
<1>4. TypeCtl' /\ CtlOnly(c)
  BY <1>1, <1>3, Ends DEF IInv, TypeCtl, CtlOnly
<1>5. Filled(c)' /\ Complete(c)' /\ Closed(c)'
  BY <1>1, <1>3, Here DEF Filled, Complete, Closed
<1>6. c \notin undone' => KeysAgree(c)'
  BY <1>1, <1>2, <1>3, Here DEF KeysAgree
<1>7. Single("client", c)'
  BY <1>1, <1>2, <1>3, Here, SingleKept DEF Same, Dying, PeerKey, Sides
<1>8. Single("server", c)'
  BY <1>1, <1>2, <1>3, Here, SingleKept DEF Same, Dying, Sides
<1>9. QED
  BY <1>1, <1>2, <1>4, <1>5, <1>6, <1>7, <1>8, Here, StepIInv DEF Sides

(* The interface of the server. *)
LEMMA ServerInterfaceIInv == ASSUME IInv, UNCHANGED env, NEW c \in Conns, ServerInterface(c) PROVE IInv'
<1> USE WireguardAssumption
<1>1. /\ pc[c] = "server" /\ UNCHANGED <<mech, own, undone, outlived, stale>>
      /\ Goto(c, "serverpeer") /\ req[c].src # 0
  BY Here DEF ServerInterface, Filled, history
<1>2. pc' \in [Conns -> Steps] /\ pc'[c] = "serverpeer" /\ \A d \in Conns \ {c} : pc'[d] = pc[d]
  BY <1>1, Moves DEF Steps
<1>3. ASSUME NEW k \in Keys, req' = [req EXCEPT ![c].dst = k]
      PROVE  /\ req' \in [Conns -> Mechanism] /\ req'[c] = [src |-> req[c].src, dst |-> k]
             /\ \A d \in Conns \ {c} : req'[d] = req[d]
  BY <1>3 DEF IInv, TypeCtl, Mechanism, Keys
<1>4. CASE /\ pubKey["server"][c] # 0
           /\ req' = [req EXCEPT ![c].dst = pubKey["server"][c]] /\ UNCHANGED <<keys, metadata, vpp>>
  <2>1. /\ VppInv' /\ (PeerInv => PeerInv') /\ UNCHANGED <<pubKey, ifindex, peerIdx>>
        /\ Same("client", c) /\ Same("server", c) /\ MetaOnly(c)
    BY <1>4, SameVpp DEF MetaOnly, Sides
  <2>2. PICK k \in Keys : k = pubKey["server"][c] /\ k # 0
    BY <1>4, Here, IsKey
  <2>3. /\ req' \in [Conns -> Mechanism] /\ req'[c] = [src |-> req[c].src, dst |-> k]
        /\ \A d \in Conns \ {c} : req'[d] = req[d]
    BY <1>3, <1>4, <2>2
  <2>4. TypeCtl' /\ CtlOnly(c)
    BY <1>1, <1>2, <1>4, <2>3 DEF IInv, TypeCtl, CtlOnly
  <2>5. Filled(c)' /\ Complete(c)' /\ Closed(c)'
    BY <1>1, <1>2, <2>1, <2>2, <2>3, Here DEF Filled, Complete, Closed
  <2>6. c \notin undone' => KeysAgree(c)'
    BY <1>1, <1>2, <2>1, <2>3, Here DEF KeysAgree
  <2>7. Single("client", c)'
    BY <1>1, <1>2, <2>1, Here, SingleKept DEF Same, Dying, PeerKey, Sides
  <2>8. Single("server", c)'
    <3>1. PeerKey("server", c)' = PeerKey("server", c)
      BY <1>1, <2>3 DEF PeerKey
    <3>2. QED
      BY <1>1, <1>2, <2>1, <3>1, Here, SingleKept DEF Same, Dying, Sides
  <2>9. QED
    BY <1>1, <2>1, <2>4, <2>5, <2>6, <2>7, <2>8, Here, StepIInv DEF Sides
<1>5. CASE /\ GeneratePrivateKey /\ createInterface("server", c, keys + 1)
           /\ req' = [req EXCEPT ![c].dst = keys + 1] /\ UNCHANGED <<peerIdx, peers, failed>>
  <2>1. PICK k \in Keys : k = keys + 1 /\ k # 0 /\ keys' = k /\ k \in 0..MaxKeys
    BY <1>5 DEF GeneratePrivateKey, IInv, TypeCtl, Keys
  <2>2. /\ VppInv' /\ (PeerInv => PeerInv') /\ Only("server", c)
        /\ pubKey["server"][c] = 0 /\ pubKey'["server"][c] = k
        /\ PeersOf("server", c)' = {}
    BY <1>5, <2>1, Here, CreateInterfaceVpp DEF Sides
  <2>3. /\ req' \in [Conns -> Mechanism] /\ req'[c] = [src |-> req[c].src, dst |-> k]
        /\ \A d \in Conns \ {c} : req'[d] = req[d]
    BY <1>3, <1>5, <2>1
  <2>4. MetaOnly(c) /\ Same("client", c) /\ pubKey'["client"][c] = pubKey["client"][c]
    BY <2>2, OneSide DEF Sides, Same
  <2>5. TypeCtl' /\ CtlOnly(c)
    BY <1>1, <1>2, <2>1, <2>3 DEF IInv, TypeCtl, CtlOnly
  <2>6. Filled(c)' /\ Complete(c)' /\ Closed(c)'
    BY <1>1, <1>2, <2>1, <2>2, <2>3, Here DEF Filled, Complete, Closed
  <2>7. c \notin undone' => KeysAgree(c)'
    BY <1>1, <1>2, <2>3, <2>4, Here DEF KeysAgree
  <2>8. Single("client", c)'
    BY <1>1, <1>2, <2>2, <2>4, Here, SingleKept DEF Same, Dying, PeerKey, Sides
  <2>9. Single("server", c)'
    BY <2>2 DEF Single
  <2>10. QED
    BY <1>1, <2>2, <2>4, <2>5, <2>6, <2>7, <2>8, <2>9, Here, StepIInv DEF Sides
<1>6. QED
  BY <1>4, <1>5 DEF ServerInterface

(* The server fails before its interface. *)
LEMMA ServerFailsIInv == ASSUME IInv, UNCHANGED env, NEW c \in Conns, ServerFails(c) PROVE IInv'
<1> USE WireguardAssumption
<1>1. /\ pc[c] = "server" /\ Answered(c) /\ Goto(c, "ready")
      /\ UNCHANGED <<keys, mech, metadata, vpp, undone, outlived, stale>>
  BY DEF ServerFails, history
<1>2. /\ VppInv' /\ (PeerInv => PeerInv') /\ UNCHANGED <<pubKey, ifindex, peerIdx>>
      /\ Same("client", c) /\ Same("server", c) /\ MetaOnly(c)
  BY <1>1, SameVpp DEF MetaOnly, Sides
<1>3. pc' \in [Conns -> Steps] /\ pc'[c] = "ready" /\ \A d \in Conns \ {c} : pc'[d] = pc[d]
  BY <1>1, Moves DEF Steps
<1>4. TypeCtl' /\ CtlOnly(c)
  BY <1>1, <1>3, Ends DEF IInv, TypeCtl, CtlOnly
<1>5. Filled(c)' /\ Complete(c)' /\ Closed(c)'
  BY <1>1, <1>2, <1>3, Here DEF Filled, Complete, Closed, Left
<1>6. c \notin undone' => KeysAgree(c)'
  BY <1>1, <1>2, <1>3, Here DEF KeysAgree
<1>7. Single("client", c)'
  BY <1>1, <1>2, <1>3, Here, SingleKept DEF Same, Dying, PeerKey, Sides
<1>8. Single("server", c)'
  <2>1. CASE mech["client"][c] = NoMechanism
    BY <1>1, <1>2, <2>1, Here, NoneSingle DEF Closed, Left, Sides
  <2>2. CASE mech["client"][c] # NoMechanism
    BY <1>1, <1>2, <1>3, <2>2, Here, SingleKept DEF Same, Dying, PeerKey, Sides
  <2>3. QED
    BY <2>1, <2>2
<1>9. QED
  BY <1>1, <1>2, <1>4, <1>5, <1>6, <1>7, <1>8, Here, StepIInv DEF Sides

(* The peer of the server. *)
LEMMA ServerPeerIInv == ASSUME IInv, UNCHANGED env, NEW c \in Conns, ServerPeer(c) PROVE IInv'
<1> USE WireguardAssumption
<1>1. pc[c] = "serverpeer" /\ UNCHANGED <<keys, req, own, undone, outlived, stale>>
  BY DEF ServerPeer, history
<1>2. PICK k \in Keys : k = req[c].src /\ getKey(req[c], "server") = k /\ k # 0
  BY <1>1, Here, IsKey DEF Filled, getKey
<1>3. /\ req[c].dst # 0 /\ pubKey["server"][c] = req[c].dst /\ req[c] # NoMechanism
      /\ mech["client"][c] # NoMechanism => k = mech["client"][c].src
  BY <1>1, <1>2, Here DEF Filled
<1>4. ASSUME createPeer("server", c, k)
      PROVE  /\ VppInv' /\ (PeerInv => PeerInv') /\ MetaOnly(c) /\ Same("client", c)
             /\ UNCHANGED <<pubKey, ifindex>> /\ peerIdx'["server"][c][k] # None
             /\ peerIdx["server"][c][k] # None => peerIdx'["server"][c][k] = peerIdx["server"][c][k]
             /\ PeersOf("server", c)' \subseteq PeersOf("server", c) \cup {peerIdx'["server"][c][k]}
  BY <1>3, <1>4, Here, CreatePeerVpp, OneSide DEF Sides
<1>5. ASSUME createPeer("server", c, k), mech'["client"][c] = mech["client"][c],
             pc'[c] \in {"interface", "serverpeerundo"}
      PROVE  Single("client", c)' /\ Single("server", c)'
  <2>1. PeerKey("server", c) = k /\ PeerKey("server", c)' = k
    BY <1>1, <1>2, <1>3, <1>5 DEF PeerKey
  <2>2. Single("server", c)'
    BY <1>1, <1>4, <1>5, <2>1, Here, SinglePeer DEF Dying, Sides
  <2>3. Single("client", c)'
    BY <1>1, <1>4, <1>5, Here, SingleKept DEF Same, Dying, PeerKey, Sides
  <2>4. QED
    BY <2>2, <2>3
<1>6. CASE /\ createPeer("server", c, k)
           /\ mech' = [mech EXCEPT !["server"][c] = req[c]] /\ Goto(c, "interface")
  <2>1. pc' \in [Conns -> Steps] /\ pc'[c] = "interface" /\ \A d \in Conns \ {c} : pc'[d] = pc[d]
    BY <1>6, Moves DEF Steps
  <2>2. /\ mech' \in [Sides -> [Conns -> Mechanism]] /\ mech'["server"][c] = req[c]
        /\ mech'["client"][c] = mech["client"][c]
        /\ \A d \in Conns \ {c}, e \in Sides : mech'[e][d] = mech[e][d]
    BY <1>6, Here DEF IInv, TypeCtl, Sides
  <2>3. TypeCtl' /\ CtlOnly(c)
    BY <1>1, <2>1, <2>2 DEF IInv, TypeCtl, CtlOnly
  <2>4. Filled(c)' /\ Complete(c)' /\ Closed(c)'
    BY <1>1, <1>2, <1>3, <1>4, <1>6, <2>1, <2>2, Here DEF Filled, Complete, Closed, Sides
  <2>5. c \notin undone' => KeysAgree(c)'
    BY <1>1, <1>4, <1>6, <2>1, <2>2, Here DEF KeysAgree
  <2>6. QED
    BY <1>1, <1>4, <1>5, <1>6, <2>1, <2>2, <2>3, <2>4, <2>5, Here, StepIInv DEF Sides
<1>7. CASE createPeer("server", c, k) /\ Goto(c, "serverpeerundo") /\ UNCHANGED mech
  <2>1. pc' \in [Conns -> Steps] /\ pc'[c] = "serverpeerundo" /\ \A d \in Conns \ {c} : pc'[d] = pc[d]
    BY <1>7, Moves DEF Steps
  <2>2. TypeCtl' /\ CtlOnly(c)
    BY <1>1, <1>7, <2>1 DEF IInv, TypeCtl, CtlOnly
  <2>3. Filled(c)' /\ Complete(c)' /\ Closed(c)'
    BY <1>1, <1>7, <2>1, Here DEF Filled, Complete, Closed
  <2>4. c \notin undone' => KeysAgree(c)'
    BY <1>1, <1>4, <1>7, <2>1, Here DEF KeysAgree
  <2>5. QED
    BY <1>1, <1>4, <1>5, <1>7, <2>1, <2>2, <2>3, <2>4, Here, StepIInv DEF Sides
<1>8. CASE Goto(c, "serverpeerundo") /\ UNCHANGED <<mech, metadata, vpp>>
  <2>1. /\ VppInv' /\ (PeerInv => PeerInv') /\ UNCHANGED <<pubKey, ifindex, peerIdx>>
        /\ Same("client", c) /\ Same("server", c) /\ MetaOnly(c)
    BY <1>8, SameVpp DEF MetaOnly, Sides
  <2>2. pc' \in [Conns -> Steps] /\ pc'[c] = "serverpeerundo" /\ \A d \in Conns \ {c} : pc'[d] = pc[d]
    BY <1>8, Moves DEF Steps
  <2>3. TypeCtl' /\ CtlOnly(c)
    BY <1>1, <1>8, <2>2 DEF IInv, TypeCtl, CtlOnly
  <2>4. Filled(c)' /\ Complete(c)' /\ Closed(c)'
    BY <1>1, <1>8, <2>1, <2>2, Here DEF Filled, Complete, Closed
  <2>5. c \notin undone' => KeysAgree(c)'
    BY <1>1, <1>8, <2>1, <2>2, Here DEF KeysAgree
  <2>6. Single("client", c)' /\ Single("server", c)'
    BY <1>1, <1>8, <2>1, <2>2, Here, SingleKept DEF Same, Dying, PeerKey, Sides
  <2>7. QED
    BY <1>1, <2>1, <2>3, <2>4, <2>5, <2>6, Here, StepIInv DEF Sides
<1>9. QED
  BY <1>2, <1>6, <1>7, <1>8 DEF ServerPeer

(* The peer of the server that failed is forgotten. *)
LEMMA ServerPeerUndoIInv == ASSUME IInv, UNCHANGED env, NEW c \in Conns, ServerPeerUndo(c) PROVE IInv'
<1> USE WireguardAssumption
<1>1. /\ pc[c] = "serverpeerundo" /\ Goto(c, "serverundo")
      /\ UNCHANGED <<keys, mech, req, own, undone, outlived, stale>>
  BY DEF ServerPeerUndo, history
<1>2. getKey(req[c], "server") \in Keys
  BY <1>1, Here, IsKey DEF Filled, getKey
<1>3. /\ VppInv' /\ (PeerInv => PeerInv') /\ Only("server", c) /\ UNCHANGED <<pubKey, ifindex>>
      /\ PeersOf("server", c)' \subseteq PeersOf("server", c)
  BY <1>2, Here, DelPeerVpp DEF ServerPeerUndo, Sides
<1>4. pc' \in [Conns -> Steps] /\ pc'[c] = "serverundo" /\ \A d \in Conns \ {c} : pc'[d] = pc[d]
  BY <1>1, Moves DEF Steps
<1>5. MetaOnly(c) /\ Same("client", c)
  BY <1>3, OneSide DEF Sides
<1>6. TypeCtl' /\ CtlOnly(c)
  BY <1>1, <1>4 DEF IInv, TypeCtl, CtlOnly
<1>7. Filled(c)' /\ Complete(c)' /\ Closed(c)'
  BY <1>1, <1>3, <1>4, Here DEF Filled, Complete, Closed
<1>8. c \notin undone' => KeysAgree(c)'
  BY <1>1, <1>3, <1>4, Here DEF KeysAgree
<1>9. Single("server", c)'
  BY <1>1, <1>3, <1>4, Here, SingleKept DEF Dying, Sides
<1>10. Single("client", c)'
  BY <1>1, <1>3, <1>4, <1>5, Here, SingleKept DEF Same, Dying, PeerKey, Sides
<1>11. QED
  BY <1>1, <1>3, <1>5, <1>6, <1>7, <1>8, <1>9, <1>10, Here, StepIInv DEF Sides

(* The close after a failure at the server. *)
LEMMA ServerUndoIInv == ASSUME IInv, UNCHANGED env, NEW c \in Conns, ServerUndo(c) PROVE IInv'
<1> USE WireguardAssumption
<1>1. /\ pc[c] = "serverundo" /\ UNCHANGED <<keys, mech, peerIdx, undone>> /\ Answered(c) /\ Goto(c, "ready")
      /\ stale' = (stale \/ peerIdx["server"][c] # NoPeers)
  BY DEF ServerUndo, LeavesPeers
<1>2. pc' \in [Conns -> Steps] /\ pc'[c] = "ready" /\ \A d \in Conns \ {c} : pc'[d] = pc[d]
  BY <1>1, Moves DEF Steps
<1>3. /\ outlived' \subseteq Sides \X Conns
      /\ pubKey["client"][c] # 0 => <<"client", c>> \in outlived'
      /\ \A d \in Conns \ {c}, g \in Sides : <<g, d>> \in outlived' <=> <<g, d>> \in outlived
  BY OutlivesIs DEF ServerUndo, Sides
<1>4. /\ VppInv' /\ (PeerInv /\ NoPeer("server", c)' => PeerInv')
      /\ Only("server", c) /\ pubKey'["server"][c] = 0
  <2>1. peerIdx' \in [Sides -> [Conns -> [Keys -> Peers \cup {None}]]]
    BY <1>1 DEF IInv, VppInv, TypeVpp
  <2>2. QED
    BY <1>1, <2>1, Here, DelInterfaceVpp DEF ServerUndo, Sides
<1>5. ~stale' => PeerInv'
  <2>1. ~stale' => ~stale /\ NoPeer("server", c)'
    BY <1>1 DEF NoPeer, NoPeers
  <2>2. QED
    BY <1>4, <2>1, Here
<1>6. MetaOnly(c) /\ pubKey'["client"][c] = pubKey["client"][c]
  BY <1>4, OneSide DEF Sides, Same
<1>7. TypeCtl' /\ CtlOnly(c)
  BY <1>1, <1>2, <1>3, Ends DEF IInv, TypeCtl, CtlOnly
<1>8. Filled(c)' /\ Complete(c)' /\ Closed(c)'
  BY <1>1, <1>2, <1>4, Here DEF Filled, Complete, Closed, Left
<1>9. c \notin undone' => KeysAgree(c)'
  BY <1>1, <1>2, <1>6, Here DEF KeysAgree
<1>10. Single("client", c)' /\ Single("server", c)'
  BY <1>3, <1>4, <1>6, NoneSingle DEF Sides
<1>11. QED
  BY <1>1, <1>4, <1>5, <1>6, <1>7, <1>8, <1>9, <1>10, StepIInv DEF Sides

(* The server closes a connection, for the client or by itself. *)
LEMMA ServerCloseIInv == ASSUME IInv, UNCHANGED env, NEW c \in Conns, ServerClose(c) PROVE IInv'
<1> USE WireguardAssumption
<1>1. /\ UNCHANGED <<keys, mech, req, own, undone, outlived, stale>>
      /\ \/ pc[c] = "serverclose"
         \/ pc[c] = "ready" /\ mech["server"][c] # NoMechanism
  BY DEF ServerClose, history
<1>2. CASE /\ mech["server"][c] # NoMechanism
           /\ delPeer("server", c, getKey(mech["server"][c], "server")) /\ Goto(c, "serverclosed")
  <2>1. getKey(mech["server"][c], "server") \in Keys
    <3>1. mech["server"][c].src # 0 /\ mech["server"][c].src \in 0..MaxKeys
      BY <1>2, Here, MechanismKeys DEF Complete, Sides
    <3>2. QED
      BY <3>1, IsKey DEF getKey
  <2>2. /\ VppInv' /\ (PeerInv => PeerInv') /\ Only("server", c) /\ UNCHANGED <<pubKey, ifindex>>
        /\ PeersOf("server", c)' \subseteq PeersOf("server", c)
    BY <1>2, <2>1, Here, DelPeerVpp DEF Sides
  <2>3. pc' \in [Conns -> Steps] /\ pc'[c] = "serverclosed" /\ \A d \in Conns \ {c} : pc'[d] = pc[d]
    BY <1>2, Moves DEF Steps
  <2>4. MetaOnly(c) /\ Same("client", c)
    BY <2>2, OneSide DEF Sides
  <2>5. TypeCtl' /\ CtlOnly(c)
    BY <1>1, <2>3 DEF IInv, TypeCtl, CtlOnly
  <2>6. Filled(c)' /\ Complete(c)' /\ Closed(c)'
    BY <1>1, <2>2, <2>3, Here DEF Filled, Complete, Closed
  <2>7. c \notin undone' => KeysAgree(c)'
    BY <1>1, <2>2, <2>3, Here DEF KeysAgree
  <2>8. Single("server", c)'
    BY <1>1, <2>2, <2>3, Here, SingleKept DEF Dying, Sides
  <2>9. Single("client", c)'
    BY <1>1, <2>2, <2>3, <2>4, Here, SingleKept DEF Same, Dying, PeerKey, Sides
  <2>10. QED
    BY <1>1, <2>2, <2>4, <2>5, <2>6, <2>7, <2>8, <2>9, Here, StepIInv DEF Sides
<1>3. CASE mech["server"][c] = NoMechanism /\ Goto(c, "ready") /\ UNCHANGED <<metadata, vpp>>
  <2>1. /\ VppInv' /\ (PeerInv => PeerInv') /\ UNCHANGED <<pubKey, ifindex, peerIdx>>
        /\ Same("client", c) /\ Same("server", c) /\ MetaOnly(c)
    BY <1>3, SameVpp DEF MetaOnly, Sides
  <2>2. pc' \in [Conns -> Steps] /\ pc'[c] = "ready" /\ \A d \in Conns \ {c} : pc'[d] = pc[d]
    BY <1>3, Moves DEF Steps
  <2>3. TypeCtl' /\ CtlOnly(c)
    BY <1>1, <2>2 DEF IInv, TypeCtl, CtlOnly
  <2>4. Left(c) /\ pc[c] = "serverclose"
    BY <1>1, <1>3, Here DEF Closed
  <2>5. Filled(c)' /\ Complete(c)' /\ Closed(c)'
    BY <1>1, <2>1, <2>2, <2>4, Here DEF Filled, Complete, Closed, Left
  <2>6. c \notin undone' => KeysAgree(c)'
    BY <1>1, <2>1, <2>2, <2>4, Here DEF KeysAgree
  <2>7. Single("client", c)'
    BY <1>1, <2>1, <2>2, <2>4, Here, SingleKept DEF Same, Dying, PeerKey, Sides
  <2>8. Single("server", c)'
    BY <1>1, <2>1, <2>4, NoneSingle DEF Left, Sides
  <2>9. QED
    BY <1>1, <2>1, <2>3, <2>5, <2>6, <2>7, <2>8, Here, StepIInv DEF Sides
<1>4. QED
  BY <1>2, <1>3 DEF ServerClose

(* ... and goes on to the interface. *)
LEMMA ServerCloseInterfaceIInv ==
    ASSUME IInv, UNCHANGED env, NEW c \in Conns, ServerCloseInterface(c) PROVE IInv'
<1> USE WireguardAssumption
<1>1. pc[c] = "serverclosed" /\ UNCHANGED <<keys, req, own, undone, stale>> /\ Goto(c, "ready")
  BY DEF ServerCloseInterface
<1>2. pc' \in [Conns -> Steps] /\ pc'[c] = "ready" /\ \A d \in Conns \ {c} : pc'[d] = pc[d]
  BY <1>1, Moves DEF Steps
<1>3. /\ peerIdx' \in [Sides -> [Conns -> [Keys -> Peers \cup {None}]]]
      /\ \A f \in Sides, d \in Conns : f # "server" \/ d # c => /\ peerIdx'[f][d] = peerIdx[f][d]
                                                                /\ mech'[f][d] = mech[f][d]
      /\ NoPeer("server", c)' /\ mech'["server"][c] = NoMechanism
      /\ mech' \in [Sides -> [Conns -> Mechanism]]
  BY Dropped DEF ServerCloseInterface, Sides
<1>4. /\ outlived' \subseteq Sides \X Conns
      /\ pubKey["client"][c] # 0 => <<"client", c>> \in outlived'
      /\ \A d \in Conns \ {c}, g \in Sides : <<g, d>> \in outlived' <=> <<g, d>> \in outlived
  BY OutlivesIs DEF ServerCloseInterface, Sides
<1>5. VppInv' /\ (PeerInv => PeerInv') /\ Only("server", c) /\ pubKey'["server"][c] = 0
  BY <1>3, Here, DelInterfaceVpp DEF ServerCloseInterface, Sides
<1>6. /\ MetaOnly(c) /\ pubKey'["client"][c] = pubKey["client"][c]
      /\ mech'["client"][c] = mech["client"][c]
  BY <1>3, <1>5, OneSide DEF Sides, Same
<1>7. TypeCtl' /\ CtlOnly(c)
  BY <1>1, <1>2, <1>3, <1>4 DEF IInv, TypeCtl, CtlOnly
<1>8. Filled(c)' /\ Complete(c)' /\ Closed(c)'
  <2>1. Filled(c)' /\ Closed(c)'
    BY <1>2, <1>5 DEF Filled, Closed, Left
  <2>2. Complete(c)'
    BY <1>3, <1>6, Here DEF Complete, Sides
  <2>3. QED
    BY <2>1, <2>2
<1>9. c \notin undone' => KeysAgree(c)'
  BY <1>1, <1>2, <1>6, Here DEF KeysAgree
<1>10. Single("client", c)' /\ Single("server", c)'
  BY <1>4, <1>5, <1>6, NoneSingle DEF Sides
<1>11. QED
  BY <1>1, <1>5, <1>6, <1>7, <1>8, <1>9, <1>10, Here, StepIInv DEF Sides

-----------------------------------------------------------------------------
(* The theorems *)

(* At first there is nothing. *)
LEMMA InitIInv == Init => IInv
<1> SUFFICES ASSUME Init PROVE IInv
  OBVIOUS
<1> USE WireguardAssumption DEF Init
<1>1. NoMechanism \in Mechanism /\ NoPeers \in [Keys -> Peers \cup {None}] /\ \A k \in Keys : NoPeers[k] = None
  BY DEF NoMechanism, Mechanism, NoPeers
<1>2. TypeCtl
  <2>1. undone \subseteq Conns /\ outlived \subseteq Sides \X Conns /\ stale \in BOOLEAN
    OBVIOUS
  <2>2. env \in Envs /\ keys \in 0..MaxKeys /\ pc \in [Conns -> Steps]
    BY DEF Steps
  <2>3. /\ mech \in [Sides -> [Conns -> Mechanism]] /\ req \in [Conns -> Mechanism]
        /\ own \in [Conns -> 0..MaxKeys]
    BY <1>1
  <2>4. QED
    BY <2>1, <2>2, <2>3 DEF TypeCtl
<1>3. TypeVpp
  BY <1>1 DEF TypeVpp
<1>4. RememberedExists /\ \A e \in Sides : OwnInterface(e) /\ PeersOnIfs(e)
  BY DEF RememberedExists, OwnInterface, PeersOnIfs
<1>5. LeaksAreFailures
  <2> SUFFICES ASSUME NEW e \in Sides PROVE Cardinality(Leaked(e)) <= failed[e]
    BY DEF LeaksAreFailures, Leaked
  <2>1. Leaked(e) = {}
    BY DEF Leaked
  <2>2. QED
    BY <2>1, FS_EmptySet
<1>6. PeerInv
  BY <1>1 DEF PeerInv, PeerExists
<1>7. ASSUME NEW c \in Conns PROVE CtlInv(c)
  <2>1. /\ pc[c] = "ready" /\ mech["client"][c] = NoMechanism /\ mech["server"][c] = NoMechanism
        /\ pubKey["client"][c] = 0 /\ pubKey["server"][c] = 0 /\ NoMechanism.src = 0
        /\ \A e \in Sides : ifindex[e][c] = None
    BY <1>1 DEF Sides, NoMechanism
  <2>2. Filled(c) /\ Complete(c) /\ Closed(c) /\ KeysAgree(c)
    BY <2>1 DEF Filled, Complete, Closed, Left, KeysAgree, Sides
  <2>3. \A e \in Sides : Single(e, c)
    BY <2>1 DEF Single
  <2>4. QED
    BY <2>2, <2>3 DEF CtlInv
<1>8. QED
  BY <1>2, <1>3, <1>4, <1>5, <1>6, <1>7 DEF IInv, VppInv

(* Every step keeps the invariant. *)
LEMMA NextIInv == IInv /\ [Next]_vars => IInv'
<1> SUFFICES ASSUME IInv, [Next]_vars PROVE IInv'
  OBVIOUS
<1>1. CASE UNCHANGED vars
  <2>1. VppInv' /\ (PeerInv => PeerInv') /\ \A e \in Sides, c \in Conns : Same(e, c)
    BY <1>1, SameVpp DEF vars, metadata, vpp
  <2>2. TypeCtl' /\ (~stale' => PeerInv')
    BY <1>1, <2>1 DEF vars, IInv, TypeCtl
  <2>3. ASSUME NEW c \in Conns PROVE CtlInv(c)'
    <3>1. CtlInv(c)
      BY DEF IInv
    <3>2. QED
      BY <1>1, <3>1 DEF vars, CtlInv, Filled, Complete, Closed, Left, KeysAgree, Single, Dying, PeerKey, PeersOf
  <2>4. QED
    BY <2>1, <2>2, <2>3 DEF IInv
<1>2. CASE Next
  <2>1. PICK c \in Conns : Client(c) \/ Server(c) \/ BetweenFails(c)
    BY <1>2, WireguardAssumption DEF Next, IInv, TypeCtl
  <2>2. UNCHANGED env
    BY <1>2 DEF Next
  <2>3. CASE Client(c)
    BY <2>2, <2>3, ClientRequestIInv, ClientInterfaceIInv, ClientPeerIInv, ClientPeerUndoIInv, ClientUndoIInv,
       ClientCloseIInv, ClientCloseInterfaceIInv DEF Client
  <2>4. CASE Server(c)
    BY <2>2, <2>4, ServerInterfaceIInv, ServerFailsIInv, ServerPeerIInv, ServerPeerUndoIInv, ServerUndoIInv,
       ServerCloseIInv, ServerCloseInterfaceIInv DEF Server
  <2>5. QED
    BY <2>1, <2>2, <2>3, <2>4, BetweenFailsIInv
<1>3. QED
  BY <1>1, <1>2

(* The invariant holds throughout. *)
LEMMA SpecIInv == Spec => []IInv
BY InitIInv, NextIInv, PTL DEF Spec

(* An interface that has not outlived the other has one peer.              *)
LEMMA IInvOnePeer == IInv => OnePeer
<1> SUFFICES ASSUME IInv, NEW e \in Sides, NEW c \in Conns, ifindex[e][c] # None, <<e, c>> \notin outlived
             PROVE  Cardinality(PeersOf(e, c)) <= 1
  BY DEF OnePeer
<1>1. Single(e, c)
  BY DEF IInv, CtlInv
<1>2. \A p, q \in PeersOf(e, c) : p = q
  BY <1>1 DEF Single
<1>3. PeersOf(e, c) = {} \/ \E p : PeersOf(e, c) = {p}
  BY <1>2
<1>4. Cardinality({}) = 0 /\ \A p : Cardinality({p}) = 1
  BY FS_EmptySet, FS_Singleton
<1>5. Cardinality(PeersOf(e, c)) = 0 \/ Cardinality(PeersOf(e, c)) = 1
  BY <1>3, <1>4
<1>6. QED
  BY <1>5

(* Whatever fails, the metadata of the wireguard and of the peer elements  *)
(* and VPP agree: an interface that is remembered exists with its key,     *)
(* interfaces leak only when a deletion fails, and an interface has one    *)
(* peer unless it has outlived that of the other side.                     *)
THEOREM WireguardStateMatchesVPP == Spec => []StateMatchesVPP
<1>1. IInv => StateMatchesVPP
  BY IInvOnePeer DEF IInv, VppInv, TypeCtl, TypeVpp, TypeOK, StateMatchesVPP
<1>2. QED
  BY <1>1, SpecIInv, PTL

(* A request is granted by the peer of the client.                         *)
LEMMA GrantStep == ASSUME IInv, Next, NEW c \in Conns, pc[c] = "peer", pc'[c] = "ready"
                   PROVE  createPeer("client", c, getKey(req[c], "client")) /\ UNCHANGED <<undone, stale>>
<1>1. PICK d \in Conns : Client(d) \/ Server(d) \/ BetweenFails(d)
  BY WireguardAssumption DEF Next, IInv, TypeCtl
<1>2. d = c
  BY <1>1 DEF Client, Server, ClientRequest, ClientInterface, ClientPeer, ClientPeerUndo, ClientUndo, ClientClose,
     ClientCloseInterface, ServerInterface, ServerFails, ServerPeer, ServerPeerUndo, ServerUndo, ServerClose,
     ServerCloseInterface, BetweenFails, ToServer, Goto, IInv, TypeCtl
<1>3. ClientPeer(c)
  BY <1>1, <1>2 DEF Client, Server, ClientRequest, ClientInterface, ClientPeerUndo, ClientUndo, ClientClose,
     ClientCloseInterface, ServerInterface, ServerFails, ServerPeer, ServerPeerUndo, ServerUndo, ServerClose,
     ServerCloseInterface, BetweenFails
<1>4. QED
  BY <1>3 DEF ClientPeer, Goto, IInv, TypeCtl, history

(* After it both ends know each other. *)
LEMMA GrantIsTunnel == ASSUME IInv, Next, NEW c \in Conns \ undone, ~stale, pc[c] = "peer", pc'[c] = "ready"
                       PROVE  Tunnel(c)'
<1> USE WireguardAssumption
<1>1. createPeer("client", c, getKey(req[c], "client")) /\ UNCHANGED <<undone, stale>> /\ IInv'
  BY GrantStep, NextIInv
<1>2. PICK s \in Keys, k \in Keys : s = req[c].src /\ k = req[c].dst /\ getKey(req[c], "client") = k /\ s # 0 /\ k # 0
  BY Here, IsKey DEF Filled, getKey
<1>3. /\ pubKey["client"][c] = s /\ pubKey["server"][c] = k /\ peerIdx["server"][c][s] # None
  BY <1>2, Here DEF KeysAgree, Filled
<1>4. /\ UNCHANGED pubKey /\ Only("client", c) /\ peerIdx'["client"][c][k] # None
  BY <1>1, <1>2, <1>3, Here, CreatePeerVpp DEF Sides
<1>5. peerIdx'["server"][c][s] # None
  BY <1>3, <1>4, OneSide DEF Sides, Same
<1>6. PeerInv' /\ VppInv'
  BY <1>1 DEF IInv
<1>7. ASSUME NEW e \in Sides PROVE ifindex'[e][c] # None /\ KeyOf(e, c)' = pubKey'[e][c]
  BY <1>2, <1>3, <1>4, <1>6 DEF VppInv, RememberedExists, Sides
<1>8. ASSUME NEW e \in Sides, NEW j \in Keys, peerIdx'[e][c][j] # None
      PROVE  \E p \in PeersOf(e, c)' : peers'[e][p].key = j
  <2>1. PICK p \in Peers : p = peerIdx'[e][c][j]
    BY <1>6, <1>8 DEF VppInv, TypeVpp
  <2>2. peers'[e][p] = [if |-> ifindex'[e][c], key |-> j] /\ ifindex'[e][c] \in Ifs
    BY <1>6, <1>7, <1>8, <2>1 DEF PeerInv, PeerExists, VppInv, TypeVpp
  <2>3. peers'[e][p] # None /\ peers'[e][p].if = ifindex'[e][c] /\ peers'[e][p].key = j
    BY <2>2 DEF Keys
  <2>4. QED
    BY <2>3 DEF PeersOf
<1>9. Knows("client", "server", c)' /\ Knows("server", "client", c)'
  BY <1>3, <1>4, <1>5, <1>7, <1>8 DEF Knows, Sides
<1>10. QED
  BY <1>7, <1>9 DEF Tunnel, Sides

(* When the wireguard elements grant a request, each side has a peer for   *)
(* the key of the interface that the other one really has: in a refresh    *)
(* too, after the other side has lost or replaced its interface, and       *)
(* whatever has failed, unless the client goes on to offer the key of an   *)
(* interface that it has deleted or the index of a peer is left behind.    *)
THEOREM WireguardGrantedIsTunnel == Spec => GrantedIsTunnel
<1>1. IInv /\ [Next]_vars =>
        [\A c \in Conns \ undone : pc[c] = "peer" /\ pc'[c] = "ready" /\ ~stale => Tunnel(c)']_vars
  BY GrantIsTunnel
<1>2. QED
  BY <1>1, SpecIInv, PTL DEF Spec, GrantedIsTunnel

-----------------------------------------------------------------------------
(* The peers of other connections *)

(* The other connections keep their interfaces and the peers on them.      *)
Keeps(d) == \A f \in Sides, c \in Conns \ {d} : ifindex[f][c] # None =>
    /\ ifindex'[f][c] = ifindex[f][c]
    /\ \A p \in Peers : peers[f][p] # None /\ peers[f][p].if = ifindex[f][c] => peers'[f][p] = peers[f][p]

(* Creating and deleting an interface. *)
LEMMA InterfaceKeeps ==
    ASSUME VppInv, NEW e \in Sides, NEW d \in Conns,
           \/ \E k \in Keys : createInterface(e, d, k) /\ UNCHANGED peers
           \/ delInterface(e, d)
    PROVE  Keeps(d)
<1>1. CASE \E k \in Keys : createInterface(e, d, k) /\ UNCHANGED peers
  BY <1>1 DEF createInterface, Keeps, VppInv, TypeVpp
<1>2. CASE delInterface(e, d)
  <2>1. \A f \in Sides, c \in Conns \ {d} : ifindex'[f][c] = ifindex[f][c]
    BY <1>2 DEF delInterface, VppInv, TypeVpp
  <2>2. CASE UNCHANGED peers
    BY <2>1, <2>2 DEF Keeps
  <2>3. CASE InterfaceDelete(e, ifindex[e][d])
    <3>1. \A f \in Sides, p \in Peers : f # e \/ peers[f][p].if # ifindex[e][d] => peers'[f][p] = peers[f][p]
      BY <2>3 DEF InterfaceDelete, VppInv, TypeVpp
    <3>2. \A c \in Conns \ {d} : ifindex[e][c] # None => ifindex[e][c] # ifindex[e][d]
      BY DEF VppInv, OwnInterface
    <3>3. QED
      BY <2>1, <3>1, <3>2 DEF Keeps
  <2>4. QED
    BY <1>2, <2>2, <2>3 DEF delInterface, vpp
<1>3. QED
  BY <1>1, <1>2

(* Creating and removing a peer: the one removed is on the interface of    *)
(* its connection.                                                         *)
LEMMA PeerKeeps ==
    ASSUME VppInv, PeerInv, NEW e \in Sides, NEW d \in Conns, NEW k \in Keys,
           createPeer(e, d, k) \/ delPeer(e, d, k)
    PROVE  Keeps(d)
<1>1. UNCHANGED ifindex
  BY DEF createPeer, delPeer
<1>2. CASE createPeer(e, d, k)
  <2>1. \A f \in Sides, p \in Peers : peers[f][p] # None => peers'[f][p] = peers[f][p]
    <3>1. CASE UNCHANGED peers
      BY <3>1
    <3>2. CASE \E q \in Peers : /\ peers[e][q] = None
                                /\ peers' = [peers EXCEPT ![e][q] = [if |-> ifindex[e][d], key |-> k]]
      BY <3>2 DEF VppInv, TypeVpp
    <3>3. QED
      BY <1>2, <3>1, <3>2 DEF createPeer
  <2>2. QED
    BY <1>1, <2>1 DEF Keeps
<1>3. CASE delPeer(e, d, k)
  <2>1. \A f \in Sides, p \in Peers : f # e \/ p # peerIdx[e][d][k] => peers'[f][p] = peers[f][p]
    BY <1>3 DEF delPeer, VppInv, TypeVpp
  <2>2. ASSUME NEW c \in Conns \ {d}, ifindex[e][c] # None, NEW p \in Peers, peers[e][p].if = ifindex[e][c]
        PROVE  p # peerIdx[e][d][k]
    <3> SUFFICES ASSUME p = peerIdx[e][d][k] PROVE FALSE
      OBVIOUS
    <3>1. p # None
      BY WireguardAssumption
    <3>2. peers[e][p] = [if |-> ifindex[e][d], key |-> k]
      BY <3>1 DEF PeerInv, PeerExists
    <3>3. ifindex[e][d] = ifindex[e][c]
      BY <2>2, <3>2
    <3>4. QED
      BY <2>2, <3>3 DEF VppInv, OwnInterface
  <2>3. QED
    BY <1>1, <2>1, <2>2 DEF Keeps
<1>4. QED
  BY <1>2, <1>3

(* Every step of a connection moves it, and keeps what the others have.    *)
LEMMA StepKeeps == ASSUME IInv, ~stale, NEW d \in Conns, Client(d) \/ Server(d) \/ BetweenFails(d)
                   PROVE  pc'[d] # pc[d] /\ Keeps(d)
<1> USE WireguardAssumption
<1>1. VppInv /\ PeerInv
  BY Here
<1>2. UNCHANGED <<metadata, vpp>> => Keeps(d)
  BY DEF metadata, vpp, Keeps
<1>3. pc'[d] # pc[d]
  BY DEF Client, Server, ClientRequest, ClientInterface, ClientPeer, ClientPeerUndo, ClientUndo, ClientClose,
     ClientCloseInterface, ServerInterface, ServerFails, ServerPeer, ServerPeerUndo, ServerUndo, ServerClose,
     ServerCloseInterface, BetweenFails, ToServer, Goto, IInv, TypeCtl
<1>4. CASE ClientRequest(d) \/ ServerFails(d) \/ BetweenFails(d)
  BY <1>3, <1>2, <1>4 DEF ClientRequest, ServerFails, BetweenFails
<1>5. CASE ClientUndo(d) \/ ClientCloseInterface(d) \/ ServerUndo(d) \/ ServerCloseInterface(d)
  BY <1>3, <1>1, <1>5, InterfaceKeeps DEF ClientUndo, ClientCloseInterface, ServerUndo, ServerCloseInterface, Sides
<1>6. CASE ClientInterface(d) \/ ServerInterface(d)
  <2>1. own[d] # 0 => own[d] \in Keys
    BY Here, IsKey
  <2>2. GeneratePrivateKey => keys + 1 \in Keys
    BY DEF GeneratePrivateKey, IInv, TypeCtl, Keys
  <2>3. QED
    BY <1>3, <1>1, <1>2, <1>6, <2>1, <2>2, InterfaceKeeps DEF ClientInterface, ServerInterface, Sides
<1>7. ASSUME NEW m \in Mechanism, NEW e \in Sides, m.src # 0, m.dst # 0 PROVE getKey(m, e) \in Keys
  BY <1>7, IsKey, MechanismKeys DEF getKey
<1>8. CASE ClientPeer(d) \/ ClientPeerUndo(d) \/ ServerPeer(d) \/ ServerPeerUndo(d)
  <2>1. req[d] \in Mechanism /\ req[d].src # 0 /\ req[d].dst # 0
    BY <1>8, Here DEF Filled, ClientPeer, ClientPeerUndo, ServerPeer, ServerPeerUndo
  <2>2. getKey(req[d], "client") \in Keys /\ getKey(req[d], "server") \in Keys
    BY <1>7, <2>1 DEF Sides
  <2>3. QED
    BY <1>3, <1>1, <1>2, <1>8, <2>2, PeerKeeps DEF ClientPeer, ClientPeerUndo, ServerPeer, ServerPeerUndo, Sides
<1>9. CASE ClientClose(d)
  BY <1>3, <1>1, <1>7, <1>9, Here, PeerKeeps DEF ClientClose, Complete, Sides
<1>10. CASE ServerClose(d)
  BY <1>3, <1>1, <1>2, <1>7, <1>10, Here, PeerKeeps DEF ServerClose, Complete, Sides
<1>11. QED
  BY <1>3, <1>4, <1>5, <1>6, <1>8, <1>9, <1>10 DEF Client, Server

(* One step. *)
LEMMA OwnStep == ASSUME IInv, Next, ~stale, NEW e \in Sides, NEW c \in Conns, pc[c] = pc'[c], ifindex[e][c] # None
                 PROVE  PeersOf(e, c) \subseteq PeersOf(e, c)'
<1>1. PICK d \in Conns : Client(d) \/ Server(d) \/ BetweenFails(d)
  BY WireguardAssumption DEF Next, IInv, TypeCtl
<1>2. d # c /\ Keeps(d)
  BY <1>1, StepKeeps
<1>3. QED
  BY <1>2 DEF Keeps, PeersOf

(* A step of one connection never removes the peer of another one: delPeer *)
(* and the deletion of an interface touch what their connection made, as   *)
(* long as no failure has left the index of a peer behind.                 *)
THEOREM WireguardPeersAreOwn == Spec => PeersAreOwn
<1>1. IInv /\ [Next]_vars =>
        [~stale => \A e \in Sides, c \in Conns :
            pc[c] = pc'[c] /\ ifindex[e][c] # None => PeersOf(e, c) \subseteq PeersOf(e, c)']_vars
  BY OwnStep
<1>2. QED
  BY <1>1, SpecIInv, PTL DEF Spec, PeersAreOwn
=============================================================================
