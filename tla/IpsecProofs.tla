---------------------------- MODULE IpsecProofs ----------------------------
(***************************************************************************)
(* Proofs about Ipsec: for any connections, tunnels and certificates.      *)
(***************************************************************************)
EXTENDS Ipsec, FiniteSetTheorems, SequenceTheorems, TLAPS

-----------------------------------------------------------------------------
(* The inductive invariant *)

(* The types of the metadata and of VPP, and of the rest. *)
TypeVpp == /\ ifindex \in [Sides -> [Conns -> Tunnels \cup {NoTunnel}]]
           /\ tunnels \in [Sides -> SUBSET Tunnels]
           /\ profiles \in [Sides -> [Conns -> Profile \cup {NoProfile}]]
           /\ failed \in [Sides -> Nat]

TypeCtl == /\ env \in Envs
           /\ localKey \in [Sides -> BOOLEAN]
           /\ onceInit \in [Sides -> BOOLEAN]
           /\ certs \in Certs
           /\ mech \in [Conns -> Mechanism]
           /\ established \subseteq Conns /\ parted \subseteq Conns
           /\ pc \in [Conns -> {"ready", "server", "reply", "undo", "undoserver"}]

(* Two connections never remember the same tunnel. *)
OwnTunnel(e) == \A c, d \in Conns : ifindex[e][c] # NoTunnel /\ ifindex[e][c] = ifindex[e][d] => c = d

VppInv == TypeVpp /\ RememberedIsComplete /\ LeaksAreFailures /\ ProtectedOnce /\ \A e \in Sides : OwnTunnel(e)

(* Where a request is, it has the certificates that it needs there.        *)
Filled(c) == /\ pc[c] \in {"server", "reply"} \/ mech[c].dst # 0 => mech[c].src # 0
             /\ pc[c] = "reply" => mech[c].dst # 0

(* Both ends of a connection have a tunnel, made from the same             *)
(* certificates.                                                           *)
Joined(c) == /\ ifindex["client"][c] # NoTunnel /\ ifindex["server"][c] # NoTunnel
             /\ CertsOf("client", profiles["client"][c]) = CertsOf("server", profiles["server"][c])

(* When only calls fail, the ends of a connection that are not parted are  *)
(* joined or both without a tunnel, except while a request or a close is   *)
(* between them: the server is the first to have a tunnel, made from what  *)
(* it answers, and the last to lose it.                                    *)
Ends(c) == /\ ifindex["client"][c] # NoTunnel /\ c \notin parted =>
                 Joined(c) /\ pc[c] \in {"ready", "server", "reply", "undo"}
           /\ ifindex["client"][c] = NoTunnel =>
                 /\ pc[c] \in {"ready", "server"} => ifindex["server"][c] = NoTunnel
                 /\ pc[c] = "reply" => /\ ifindex["server"][c] # NoTunnel
                                       /\ CertsOf("server", profiles["server"][c]) = mech[c]

CallsFail == Faults \subseteq {"call"}

(* The inductive invariant. *)
IInv == /\ TypeCtl /\ VppInv
        /\ \A c \in Conns : Filled(c) /\ (CallsFail => Ends(c))
-----------------------------------------------------------------------------
(* The profiles *)

(* A profile is not the absence of one. *)
LEMMA ProfileIsSome == ASSUME NEW p \in Profile PROVE p # NoProfile
<1>1. "encap" \in DOMAIN p
  BY DEF Profile
<1>2. "encap" \notin DOMAIN NoProfile
  BY DEF NoProfile
<1>3. QED
  BY <1>1, <1>2

(* The certificates of the two ends, as side e sees them. *)
OwnCert(e, m) == IF e = "client" THEN m.src ELSE m.dst
PeerCert(e, m) == IF e = "client" THEN m.dst ELSE m.src

(* The fields that tell profiles apart. *)
Has(p, auth, local, remote, ts, tunnel) ==
    /\ p \in Profile
    /\ p.auth = auth /\ p.local = local /\ p.remote = remote /\ p.ts = ts /\ p.tunnel = tunnel

(* A new profile has none of them. *)
LEMMA NewHas == Has(NewProfile, 0, 0, 0, "none", NoTunnel)
BY IpsecAssumption DEF Has, NewProfile, Profile, Certs

(* What each call sets, and that it leaves the rest. *)
LEMMA SetHas ==
    ASSUME NEW e, NEW m, NEW t \in Tunnels, OwnCert(e, m) \in Certs, PeerCert(e, m) \in Certs,
           NEW p, NEW a, NEW l, NEW r, NEW s, NEW u, Has(p, a, l, r, s, u)
    PROVE  /\ Has(setUDPEncap(p), a, l, r, s, u)
           /\ Has(setKeys(p, e, m), PeerCert(e, m), l, r, s, u)
           /\ Has(setFQDN(p, e, m), a, OwnCert(e, m), PeerCert(e, m), s, u)
           /\ Has([p EXCEPT !.local = OwnCert(e, m)], a, OwnCert(e, m), r, s, u)
           /\ Has(setTrafficSelector(p, e), a, l, r, IF e = "client" THEN "src" ELSE "dst", u)
           /\ Has(protectTunnel(p, t), a, l, r, s, t)
           /\ Has(setResponder(p), a, l, r, s, u) /\ Has(setTransforms(p), a, l, r, s, u)
           /\ Has(setSaLifetime(p), a, l, r, s, u) /\ Has(saInit(p), a, l, r, s, u)
<1>1. /\ Has(setUDPEncap(p), a, l, r, s, u) /\ Has(setResponder(p), a, l, r, s, u)
      /\ Has(setTransforms(p), a, l, r, s, u)
      /\ Has(setSaLifetime(p), a, l, r, s, u) /\ Has(saInit(p), a, l, r, s, u)
  BY DEF Has, Profile, setUDPEncap, setResponder, setTransforms, setSaLifetime, saInit
<1>2. Has(setKeys(p, e, m), PeerCert(e, m), l, r, s, u)
  BY DEF Has, Profile, setKeys, PeerCert
<1>3. /\ Has(setFQDN(p, e, m), a, OwnCert(e, m), PeerCert(e, m), s, u)
      /\ Has([p EXCEPT !.local = OwnCert(e, m)], a, OwnCert(e, m), r, s, u)
  BY DEF Has, Profile, setFQDN, OwnCert, PeerCert
<1>4. /\ Has(setTrafficSelector(p, e), a, l, r, IF e = "client" THEN "src" ELSE "dst", u)
      /\ Has(protectTunnel(p, t), a, l, r, s, t)
  BY DEF Has, Profile, setTrafficSelector, protectTunnel
<1>5. QED
  BY <1>1, <1>2, <1>3, <1>4

(* The last profile of create knows both ends and protects the tunnel, and *)
(* every profile on the way protects no tunnel or this one.                *)
LEMMA StagesProfiles ==
    ASSUME NEW e \in Sides, NEW m \in Mechanism, NEW t \in Tunnels
    PROVE  /\ Has(Finished(e, m, t), PeerCert(e, m), OwnCert(e, m), PeerCert(e, m),
                  IF e = "client" THEN "src" ELSE "dst", t)
           /\ \A j \in 1..Len(Stages(e, m, t)) : /\ Stages(e, m, t)[j] \in Profile
                                                 /\ Stages(e, m, t)[j].tunnel \in {t, NoTunnel}
<1> DEFINE p1 == setUDPEncap(NewProfile)
           p2 == setKeys(p1, e, m)
           p3 == setFQDN(p2, e, m)
           n == [p2 EXCEPT !.local = p3.local]
           p4 == setTrafficSelector(p3, e)
           p5 == protectTunnel(p4, t)
           p6 == setResponder(p5)
           p7 == setTransforms(p6)
           p8 == setSaLifetime(p7)
           p9 == saInit(p8)
           a == PeerCert(e, m)
           l == OwnCert(e, m)
           s == IF e = "client" THEN "src" ELSE "dst"
           PS == {p \in Profile : p.tunnel \in {t, NoTunnel}}
<1>1. Stages(e, m, t) = <<NewProfile, p1, p2, n, p3, p4>>
                          \o IF e = "client" THEN <<p5, p6, p7, p8, p9>> ELSE <<p5>>
  BY DEF Stages, initiate
<1>2. a \in Certs /\ l \in Certs
  BY DEF Mechanism, PeerCert, OwnCert
<1> HIDE DEF p1, p2, p3, n, p4, p5, p6, p7, p8, p9, a, l, s
<1>3. Has(p1, 0, 0, 0, "none", NoTunnel)
  BY <1>2, NewHas, SetHas DEF p1, a, l
<1>4. Has(p2, a, 0, 0, "none", NoTunnel)
  BY <1>2, <1>3, SetHas DEF p2, a, l
<1>5. Has(p3, a, l, a, "none", NoTunnel)
  BY <1>2, <1>4, SetHas DEF p3, a, l
<1>6. Has(n, a, l, 0, "none", NoTunnel)
  <2>1. p3.local = l
    BY <1>5 DEF Has
  <2>2. n = [p2 EXCEPT !.local = l]
    BY <2>1 DEF n
  <2>3. QED
    BY <1>2, <1>4, <2>2, SetHas DEF a, l
<1>7. Has(p4, a, l, a, s, NoTunnel)
  BY <1>2, <1>5, SetHas DEF p4, a, l, s
<1>8. Has(p5, a, l, a, s, t)
  BY <1>2, <1>7, SetHas DEF p5, a, l
<1>9. Has(p6, a, l, a, s, t)
  BY <1>2, <1>8, SetHas DEF p6, a, l
<1>10. Has(p7, a, l, a, s, t)
  BY <1>2, <1>9, SetHas DEF p7, a, l
<1>11. Has(p8, a, l, a, s, t)
  BY <1>2, <1>10, SetHas DEF p8, a, l
<1>12. Has(p9, a, l, a, s, t)
  BY <1>2, <1>11, SetHas DEF p9, a, l
<1>13. /\ NewProfile \in PS /\ p1 \in PS /\ p2 \in PS /\ n \in PS /\ p3 \in PS /\ p4 \in PS /\ p5 \in PS
       /\ p6 \in PS /\ p7 \in PS /\ p8 \in PS /\ p9 \in PS
  BY <1>3, <1>4, <1>5, <1>6, <1>7, <1>8, <1>9, <1>10, <1>11, <1>12, NewHas DEF Has
<1> HIDE DEF PS
<1> DEFINE v == <<NewProfile, p1, p2, n, p3, p4>>
<1>14. ASSUME NEW u \in Seq(PS), Len(u) > 0, Stages(e, m, t) = v \o u
       PROVE  /\ Finished(e, m, t) = u[Len(u)]
              /\ \A j \in 1..Len(Stages(e, m, t)) : /\ Stages(e, m, t)[j] \in Profile
                                                    /\ Stages(e, m, t)[j].tunnel \in {t, NoTunnel}
  <2>1. v \in Seq(PS) /\ Len(v) = 6
    BY <1>13
  <2> HIDE DEF v
  <2>2. v \o u \in Seq(PS) /\ Len(v \o u) = Len(v) + Len(u)
    BY <2>1, ConcatProperties
  <2>3. (v \o u)[Len(v \o u)] = u[Len(u)]
    BY <1>14, <2>1, <2>2, ConcatProperties, LenProperties
  <2>4. \A j \in 1..Len(v \o u) : (v \o u)[j] \in PS
    BY <2>2, ElementOfSeq
  <2>5. QED
    BY <1>14, <2>3, <2>4 DEF Finished, PS
<1>15. CASE e = "client"
  <2>1. PICK u : u = <<p5, p6, p7, p8, p9>>
    OBVIOUS
  <2>2. u \in Seq(PS) /\ Len(u) = 5 /\ u[5] = p9
    BY <1>13, <2>1
  <2>3. Stages(e, m, t) = v \o u
    BY <1>1, <1>15, <2>1
  <2>4. Len(u) > 0 /\ u[Len(u)] = p9
    BY <2>2
  <2>5. QED
    BY <1>12, <1>14, <2>2, <2>3, <2>4 DEF a, l, s
<1>16. CASE e = "server"
  <2>1. PICK u : u = <<p5>>
    OBVIOUS
  <2>2. u \in Seq(PS) /\ Len(u) = 1 /\ u[1] = p5
    BY <1>13, <2>1
  <2>3. Stages(e, m, t) = v \o u
    BY <1>1, <1>16, <2>1
  <2>4. Len(u) > 0 /\ u[Len(u)] = p5
    BY <2>2
  <2>5. QED
    BY <1>8, <1>14, <2>2, <2>3, <2>4 DEF a, l, s
<1>17. QED
  BY <1>15, <1>16 DEF Sides
(* What is known of the profile that create leaves. *)
LEMMA FinishedFacts ==
    ASSUME NEW e \in Sides, NEW m \in Mechanism, NEW t \in Tunnels
    PROVE  /\ Finished(e, m, t) \in Profile /\ Finished(e, m, t) # NoProfile
           /\ Finished(e, m, t).tunnel = t
           /\ CertsOf(e, Finished(e, m, t)) = m
           /\ Finished(e, m, t).auth = PeerCert(e, m) /\ Finished(e, m, t).local = OwnCert(e, m)
           /\ Finished(e, m, t).remote = PeerCert(e, m)
           /\ Finished(e, m, t).ts = IF e = "client" THEN "src" ELSE "dst"
<1> DEFINE F == Finished(e, m, t)
<1>1. Has(F, PeerCert(e, m), OwnCert(e, m), PeerCert(e, m), IF e = "client" THEN "src" ELSE "dst", t)
  BY StagesProfiles
<1> HIDE DEF F
<1>2. m = [src |-> m.src, dst |-> m.dst]
  BY DEF Mechanism
<1>3. CertsOf(e, F) = m
  BY <1>1, <1>2 DEF Has, CertsOf, PeerCert, OwnCert
<1>4. F # NoProfile
  BY <1>1, ProfileIsSome DEF Has
<1>5. QED
  BY <1>1, <1>3, <1>4 DEF Has, F

-----------------------------------------------------------------------------
(* The operations on VPP and on the metadata *)

(* Only connection c on side e changes. *)
Only(e, c) == \A f \in Sides, d \in Conns : f # e \/ d # c =>
    ifindex'[f][d] = ifindex[f][d] /\ profiles'[f][d] = profiles[f][d]

(* The tunnels of side e that nobody remembers. *)
Leaked(e) == tunnels[e] \ {ifindex[e][c] : c \in Conns}

(* What is remembered of side e and connection c is complete. *)
CompleteHere(e, c) ==
    /\ ifindex[e][c] \in tunnels[e]
    /\ profiles[e][c] # NoProfile
    /\ profiles[e][c] = Finished(e, CertsOf(e, profiles[e][c]), ifindex[e][c])
    /\ profiles[e][c].auth # 0 /\ profiles[e][c].local # 0

(* Sets of tunnels are finite: bounds on them are kept by subsets, and     *)
(* grow by one with one more tunnel.                                       *)
LEMMA Bounded == ASSUME NEW S \in SUBSET Tunnels, NEW T \in SUBSET Tunnels, NEW n \in Nat, NEW t,
                        Cardinality(S) <= n
                 PROVE  /\ T \subseteq S => Cardinality(T) <= n
                        /\ T \subseteq S \cup {t} => Cardinality(T) <= n + 1
<1>1. IsFiniteSet(S) /\ IsFiniteSet(T) /\ Cardinality(S) \in Nat /\ Cardinality(T) \in Nat
  BY IpsecAssumption, FS_Subset, FS_CardinalityType
<1>2. /\ IsFiniteSet(S \cup {t}) /\ Cardinality(S \cup {t}) \in Nat
      /\ Cardinality(S \cup {t}) = Cardinality(S) \/ Cardinality(S \cup {t}) = Cardinality(S) + 1
  BY <1>1, FS_AddElement, FS_CardinalityType
<1>3. T \subseteq S => Cardinality(T) <= Cardinality(S)
  BY <1>1, FS_Subset
<1>4. T \subseteq S \cup {t} => Cardinality(T) <= Cardinality(S \cup {t})
  BY <1>2, FS_Subset
<1>5. QED
  BY <1>1, <1>2, <1>3, <1>4

(* Leaks stay counted if every new one is a failure. *)
LEMMA Counted == ASSUME VppInv, failed' \in [Sides -> Nat], tunnels' \in [Sides -> SUBSET Tunnels],
                        \A f \in Sides : \/ Leaked(f)' \subseteq Leaked(f) /\ failed'[f] = failed[f]
                                         \/ \E t : /\ Leaked(f)' \subseteq Leaked(f) \cup {t}
                                                   /\ failed'[f] = failed[f] + 1
                 PROVE  LeaksAreFailures'
<1> SUFFICES ASSUME NEW f \in Sides PROVE Cardinality(Leaked(f)') <= failed'[f]
  BY DEF LeaksAreFailures, Leaked
<1>1. Leaked(f) \in SUBSET Tunnels /\ Leaked(f)' \in SUBSET Tunnels /\ failed[f] \in Nat
  BY DEF Leaked, VppInv, TypeVpp
<1>2. Cardinality(Leaked(f)) <= failed[f]
  BY DEF VppInv, LeaksAreFailures, Leaked
<1>3. CASE Leaked(f)' \subseteq Leaked(f) /\ failed'[f] = failed[f]
  <2>1. Cardinality(Leaked(f)') <= failed[f]
    BY <1>1, <1>2, <1>3, Bounded
  <2>2. QED
    BY <1>3, <2>1
<1>4. CASE \E t : Leaked(f)' \subseteq Leaked(f) \cup {t} /\ failed'[f] = failed[f] + 1
  <2>1. Cardinality(Leaked(f)') <= failed[f] + 1
    BY <1>1, <1>2, <1>4, Bounded
  <2>2. QED
    BY <1>4, <2>1
<1>5. QED
  BY <1>3, <1>4

(* Tunnel t is added: i is remembered, and the profile is p. *)
Adds(e, c, t, i, p) ==
    /\ ifindex[e][c] = NoTunnel
    /\ tunnels' = [tunnels EXCEPT ![e] = @ \cup {t}]
    /\ ifindex' = [ifindex EXCEPT ![e][c] = i]
    /\ profiles' = [profiles EXCEPT ![e][c] = p]
    /\ failed' = IF i = t THEN failed ELSE [failed EXCEPT ![e] = @ + 1]
    /\ p = profiles[e][c] \/ (p \in Profile /\ p.tunnel \in {t, NoTunnel})
    /\ i = t => /\ p # NoProfile /\ p = Finished(e, CertsOf(e, p), t)
                /\ p.auth # 0 /\ p.local # 0

(* A new tunnel: it is remembered with its profile, or a failure.          *)
LEMMA AddTunnel ==
    ASSUME VppInv, UNCHANGED env, NEW e \in Sides, NEW c \in Conns, NEW t \in Tunnels \ tunnels[e],
           NEW i \in {t, NoTunnel}, NEW p \in Profile \cup {NoProfile}, Adds(e, c, t, i, p)
    PROVE  VppInv' /\ Only(e, c) /\ ifindex'[e][c] = i /\ profiles'[e][c] = p
<1>0. /\ ifindex[e][c] = NoTunnel
      /\ tunnels' = [tunnels EXCEPT ![e] = @ \cup {t}]
      /\ ifindex' = [ifindex EXCEPT ![e][c] = i]
      /\ profiles' = [profiles EXCEPT ![e][c] = p]
      /\ failed' = IF i = t THEN failed ELSE [failed EXCEPT ![e] = @ + 1]
      /\ p = profiles[e][c] \/ (p \in Profile /\ p.tunnel \in {t, NoTunnel})
      /\ i = t => /\ p # NoProfile /\ p = Finished(e, CertsOf(e, p), t)
                  /\ p.auth # 0 /\ p.local # 0
  BY DEF Adds
<1> USE <1>0
<1> USE IpsecAssumption
<1>1. ifindex' \in [Sides -> [Conns -> Tunnels \cup {NoTunnel}]] /\ tunnels' \in [Sides -> SUBSET Tunnels]
  BY DEF VppInv, TypeVpp
<1>2. profiles' \in [Sides -> [Conns -> Profile \cup {NoProfile}]] /\ failed' \in [Sides -> Nat]
  BY DEF VppInv, TypeVpp
<1>3. Only(e, c) /\ ifindex'[e][c] = i /\ profiles'[e][c] = p
  BY DEF VppInv, TypeVpp, Only
<1>4. /\ \A f \in Sides \ {e} : tunnels'[f] = tunnels[f] /\ failed'[f] = failed[f]
      /\ tunnels'[e] = tunnels[e] \cup {t}
      /\ failed'[e] = IF i = t THEN failed[e] ELSE failed[e] + 1
  BY DEF VppInv, TypeVpp
<1>5. \A d \in Conns : ifindex[e][d] # t
  BY DEF VppInv, RememberedIsComplete
<1>6. RememberedIsComplete'
  <2> SUFFICES ASSUME NEW f \in Sides, NEW d \in Conns, ifindex'[f][d] # NoTunnel PROVE CompleteHere(f, d)'
    BY DEF RememberedIsComplete, CompleteHere
  <2>1. CASE f = e /\ d = c
    BY <1>3, <1>4, <2>1 DEF CompleteHere
  <2>2. CASE ~ (f = e /\ d = c)
    <3>1. ifindex'[f][d] = ifindex[f][d] /\ profiles'[f][d] = profiles[f][d] /\ tunnels[f] \subseteq tunnels'[f]
      BY <1>3, <1>4, <2>2 DEF Only
    <3>2. CompleteHere(f, d)
      BY <3>1 DEF VppInv, RememberedIsComplete, CompleteHere
    <3>3. QED
      BY <3>1, <3>2 DEF CompleteHere
  <2>3. QED
    BY <2>1, <2>2
<1>7. \A f \in Sides : OwnTunnel(f)'
  BY <1>3, <1>5 DEF VppInv, OwnTunnel, Only
<1>8. LeaksAreFailures'
  <2>1. \A f \in Sides : \/ Leaked(f)' \subseteq Leaked(f) /\ failed'[f] = failed[f]
                         \/ Leaked(f)' \subseteq Leaked(f) \cup {t} /\ failed'[f] = failed[f] + 1
    <3> SUFFICES ASSUME NEW f \in Sides
                 PROVE  \/ Leaked(f)' \subseteq Leaked(f) /\ failed'[f] = failed[f]
                        \/ Leaked(f)' \subseteq Leaked(f) \cup {t} /\ failed'[f] = failed[f] + 1
      OBVIOUS
    <3>1. CASE f # e
      BY <1>3, <1>4, <3>1 DEF Leaked, Only
    <3>2. CASE f = e
      <4>1. Leaked(e)' \subseteq Leaked(e) \cup {t}
        <5> SUFFICES ASSUME NEW x \in Leaked(e)', x # t PROVE x \in Leaked(e)
          OBVIOUS
        <5>1. x \in tunnels[e] /\ \A d \in Conns : ifindex'[e][d] # x
          BY <1>4 DEF Leaked
        <5>2. x # NoTunnel
          BY <5>1 DEF VppInv, TypeVpp
        <5>3. \A d \in Conns : ifindex[e][d] # x
          BY <1>3, <5>1, <5>2 DEF Only
        <5>4. QED
          BY <5>1, <5>3 DEF Leaked
      <4>2. i = t => t \notin Leaked(e)'
        BY <1>3 DEF Leaked
      <4>3. QED
        BY <1>4, <3>2, <4>1, <4>2
    <3>3. QED
      BY <3>1, <3>2
  <2>2. QED
    BY <1>1, <1>2, <2>1, Counted
<1>9. ProtectedOnce'
  <2> SUFFICES ASSUME "delete" \notin Faults, NEW f \in Sides, NEW b \in Conns, NEW d \in Conns, Protects(f, b)'
               PROVE  /\ profiles'[f][b].tunnel \in tunnels'[f]
                      /\ Protects(f, d)' /\ b # d => profiles'[f][d].tunnel # profiles'[f][b].tunnel
    BY DEF ProtectedOnce, Faults
  <2>1. ASSUME NEW q \in Conns, Protects(f, q)'
        PROVE  \/ Protects(f, q) /\ profiles'[f][q].tunnel = profiles[f][q].tunnel
               \/ f = e /\ q = c /\ profiles'[f][q].tunnel = t
    <3>1. CASE f # e \/ q # c \/ p = profiles[e][c]
      BY <1>3, <2>1, <3>1 DEF Only, Protects
    <3>2. CASE f = e /\ q = c /\ p \in Profile /\ p.tunnel \in {t, NoTunnel}
      BY <1>3, <2>1, <3>2 DEF Protects
    <3>3. QED
      BY <3>1, <3>2
  <2>2. \A q, r \in Conns : Protects(f, q) => /\ profiles[f][q].tunnel \in tunnels[f]
                                              /\ Protects(f, r) /\ q # r => profiles[f][r].tunnel # profiles[f][q].tunnel
    BY DEF VppInv, ProtectedOnce
  <2>3. tunnels[f] \subseteq tunnels'[f] /\ (f = e => t \notin tunnels[f] /\ t \in tunnels'[f])
    BY <1>4
  <2>4. profiles'[f][b].tunnel \in tunnels'[f]
    BY <2>1, <2>2, <2>3
  <2>5. ASSUME Protects(f, d)', b # d PROVE profiles'[f][d].tunnel # profiles'[f][b].tunnel
    BY <2>1, <2>2, <2>3, <2>5
  <2>6. QED
    BY <2>4, <2>5
<1>10. QED
  BY <1>1, <1>2, <1>3, <1>6, <1>7, <1>8, <1>9 DEF VppInv, TypeVpp
(* A step that leaves VPP and the metadata alone. *)
LEMMA SameVpp == ASSUME VppInv, UNCHANGED <<env, ifindex, tunnels, profiles, failed>>
                 PROVE  VppInv' /\ \A e \in Sides, c \in Conns : Only(e, c)
<1>1. TypeVpp' /\ \A e \in Sides : OwnTunnel(e)'
  BY DEF VppInv, TypeVpp, OwnTunnel
<1>2. RememberedIsComplete'
  <2> SUFFICES ASSUME NEW f \in Sides, NEW d \in Conns, ifindex'[f][d] # NoTunnel PROVE CompleteHere(f, d)'
    BY DEF RememberedIsComplete, CompleteHere
  <2>1. CompleteHere(f, d)
    BY DEF VppInv, RememberedIsComplete, CompleteHere
  <2>2. QED
    BY <2>1 DEF CompleteHere
<1>3. LeaksAreFailures' /\ ProtectedOnce'
  BY DEF VppInv, LeaksAreFailures, ProtectedOnce, Protects, Faults
<1>4. QED
  BY <1>1, <1>2, <1>3 DEF VppInv, Only

(* create: the connection has a tunnel, its own or a new one with the      *)
(* certificates of the mechanism.                                          *)
LEMMA CreateVpp ==
    ASSUME VppInv, UNCHANGED env, NEW e \in Sides, NEW c \in Conns, NEW m \in Mechanism, m.src # 0, m.dst # 0,
           create(e, c, m)
    PROVE  /\ VppInv' /\ Only(e, c) /\ ifindex'[e][c] # NoTunnel
           /\ ifindex[e][c] # NoTunnel => UNCHANGED <<ifindex, profiles>>
           /\ ifindex[e][c] = NoTunnel => CertsOf(e, profiles'[e][c]) = m
<1>1. CASE ifindex[e][c] # NoTunnel /\ UNCHANGED <<ifindex, tunnels, profiles, failed>>
  BY <1>1, SameVpp
<1>2. CASE /\ ifindex[e][c] = NoTunnel
           /\ \E t \in Tunnels \ tunnels[e] :
                 /\ tunnels' = [tunnels EXCEPT ![e] = @ \cup {t}]
                 /\ profiles' = [profiles EXCEPT ![e][c] = Finished(e, m, t)]
                 /\ ifindex' = [ifindex EXCEPT ![e][c] = t]
           /\ UNCHANGED failed
  <2>1. PICK t \in Tunnels \ tunnels[e] :
                 /\ tunnels' = [tunnels EXCEPT ![e] = @ \cup {t}]
                 /\ profiles' = [profiles EXCEPT ![e][c] = Finished(e, m, t)]
                 /\ ifindex' = [ifindex EXCEPT ![e][c] = t]
    BY <1>2
  <2>2. PICK p \in Profile : /\ p = Finished(e, m, t) /\ p # NoProfile /\ p.tunnel = t /\ CertsOf(e, p) = m
                             /\ p.auth # 0 /\ p.local # 0
    BY FinishedFacts DEF PeerCert, OwnCert
  <2>3. VppInv' /\ Only(e, c) /\ ifindex'[e][c] = t /\ profiles'[e][c] = p
    <3>1. PICK i \in {t, NoTunnel} : i = t
      OBVIOUS
    <3>2. Adds(e, c, t, i, p)
      BY <1>2, <2>1, <2>2, <3>1 DEF Adds
    <3>3. p \in Profile \cup {NoProfile}
      OBVIOUS
    <3>4. VppInv' /\ Only(e, c) /\ ifindex'[e][c] = i /\ profiles'[e][c] = p
      BY <3>2, <3>3, AddTunnel
    <3>5. QED
      BY <3>1, <3>4
  <2>4. QED
    BY <1>2, <2>2, <2>3, IpsecAssumption
<1>3. QED
  BY <1>1, <1>2 DEF create

(* A create that fails leaves the metadata without a tunnel. *)
LEMMA CreateFailsVpp ==
    ASSUME VppInv, UNCHANGED env, NEW e \in Sides, NEW c \in Conns, NEW m \in Mechanism, createFails(e, c, m)
    PROVE  VppInv' /\ Only(e, c) /\ ifindex[e][c] = NoTunnel /\ ifindex'[e][c] = NoTunnel
<1> USE IpsecAssumption
<1>1. ifindex[e][c] = NoTunnel /\ UNCHANGED ifindex
  BY DEF createFails
<1>2. CASE UNCHANGED <<ifindex, tunnels, profiles, failed>>
  BY <1>1, <1>2, SameVpp
<1>3. ASSUME NEW t \in Tunnels \ tunnels[e], NEW p \in Profile \cup {NoProfile},
             tunnels' = [tunnels EXCEPT ![e] = @ \cup {t}],
             failed' = [failed EXCEPT ![e] = @ + 1],
             profiles' = [profiles EXCEPT ![e][c] = p],
             p = profiles[e][c] \/ (p \in Profile /\ p.tunnel \in {t, NoTunnel})
      PROVE  VppInv' /\ Only(e, c)
  <2>1. ifindex' = [ifindex EXCEPT ![e][c] = NoTunnel] /\ NoTunnel # t
    BY <1>1 DEF VppInv, TypeVpp
  <2>2. PICK i \in {t, NoTunnel} : i = NoTunnel
    OBVIOUS
  <2>3. Adds(e, c, t, i, p)
    BY <1>1, <1>3, <2>1, <2>2 DEF Adds
  <2>4. QED
    BY <2>3, AddTunnel
<1>4. CASE \E t \in Tunnels \ tunnels[e] :
             /\ tunnels' = [tunnels EXCEPT ![e] = @ \cup {t}]
             /\ failed' = [failed EXCEPT ![e] = @ + 1]
             /\ \/ UNCHANGED profiles
                \/ \E j \in 1..Len(Stages(e, m, t)) - 1 :
                         profiles' = [profiles EXCEPT ![e][c] = Stages(e, m, t)[j]]
  <2>1. PICK t \in Tunnels \ tunnels[e] :
             /\ tunnels' = [tunnels EXCEPT ![e] = @ \cup {t}]
             /\ failed' = [failed EXCEPT ![e] = @ + 1]
             /\ \/ UNCHANGED profiles
                \/ \E j \in 1..Len(Stages(e, m, t)) - 1 :
                         profiles' = [profiles EXCEPT ![e][c] = Stages(e, m, t)[j]]
    BY <1>4
  <2>2. CASE UNCHANGED profiles
    <3>1. profiles' = [profiles EXCEPT ![e][c] = profiles[e][c]] /\ profiles[e][c] \in Profile \cup {NoProfile}
      BY <2>2 DEF VppInv, TypeVpp
    <3>2. QED
      BY <1>1, <1>3, <2>1, <3>1
  <2>3. CASE \E j \in 1..Len(Stages(e, m, t)) - 1 : profiles' = [profiles EXCEPT ![e][c] = Stages(e, m, t)[j]]
    <3>1. PICK j \in 1..Len(Stages(e, m, t)) - 1 : profiles' = [profiles EXCEPT ![e][c] = Stages(e, m, t)[j]]
      BY <2>3
    <3>2. \A k \in 1..Len(Stages(e, m, t)) : /\ Stages(e, m, t)[k] \in Profile
                                             /\ Stages(e, m, t)[k].tunnel \in {t, NoTunnel}
      BY StagesProfiles
    <3>3. Len(Stages(e, m, t)) \in Int
      BY DEF Stages
    <3>4. j \in 1..Len(Stages(e, m, t))
      BY <3>3
    <3>5. PICK p \in Profile : p = Stages(e, m, t)[j] /\ p.tunnel \in {t, NoTunnel}
      BY <3>2, <3>4
    <3>6. QED
      BY <1>1, <1>3, <2>1, <3>1, <3>5
  <2>4. QED
    BY <2>1, <2>2, <2>3
<1>5. QED
  BY <1>2, <1>4 DEF createFails

(* delInterface: the tunnel is forgotten, and gone unless the deletion     *)
(* fails.                                                                  *)
LEMMA DelInterfaceVpp ==
    ASSUME VppInv, UNCHANGED env, NEW e \in Sides, NEW c \in Conns, delInterface(e, c)
    PROVE  VppInv' /\ Only(e, c) /\ ifindex'[e][c] = NoTunnel
<1> USE IpsecAssumption
<1> DEFINE t == ifindex[e][c]
<1>1. /\ ifindex' = [ifindex EXCEPT ![e][c] = NoTunnel]
      /\ \/ profiles' = [profiles EXCEPT ![e][c] = NoProfile]
         \/ "delete" \in Faults /\ UNCHANGED profiles
      /\ \/ tunnels' = [tunnels EXCEPT ![e] = @ \ {t}] /\ UNCHANGED failed
         \/ /\ "delete" \in Faults /\ failed' = [failed EXCEPT ![e] = @ + 1] /\ UNCHANGED tunnels
  BY DEF delInterface, delIPSecTunnel
<1>2. /\ ifindex' \in [Sides -> [Conns -> Tunnels \cup {NoTunnel}]] /\ tunnels' \in [Sides -> SUBSET Tunnels]
      /\ failed' \in [Sides -> Nat]
  <2>1. ifindex' \in [Sides -> [Conns -> Tunnels \cup {NoTunnel}]]
    BY <1>1 DEF VppInv, TypeVpp
  <2>2. tunnels \in [Sides -> SUBSET Tunnels] /\ failed \in [Sides -> Nat]
    BY DEF VppInv, TypeVpp
  <2> HIDE DEF t
  <2>3. tunnels' \in [Sides -> SUBSET Tunnels] /\ failed' \in [Sides -> Nat]
    BY <1>1, <2>2
  <2>4. QED
    BY <2>1, <2>3
<1>3. profiles' \in [Sides -> [Conns -> Profile \cup {NoProfile}]]
  <2>1. profiles \in [Sides -> [Conns -> Profile \cup {NoProfile}]]
    BY DEF VppInv, TypeVpp
  <2>2. profiles' = profiles \/ profiles' = [profiles EXCEPT ![e][c] = NoProfile]
    BY <1>1
  <2>3. QED
    BY <2>1, <2>2
<1>4. Only(e, c) /\ ifindex'[e][c] = NoTunnel /\ ("delete" \notin Faults => profiles'[e][c] = NoProfile)
  BY <1>1 DEF VppInv, TypeVpp, Only
<1>5. /\ \A f \in Sides \ {e} : tunnels'[f] = tunnels[f] /\ failed'[f] = failed[f]
      /\ \/ tunnels'[e] = tunnels[e] \ {t} /\ failed'[e] = failed[e]
         \/ "delete" \in Faults /\ tunnels'[e] = tunnels[e] /\ failed'[e] = failed[e] + 1
  BY <1>1 DEF VppInv, TypeVpp
<1>6. \A d \in Conns \ {c} : ifindex[e][d] # NoTunnel => ifindex[e][d] # t
  BY DEF VppInv, OwnTunnel
<1> HIDE DEF t
<1>7. RememberedIsComplete'
  <2> SUFFICES ASSUME NEW f \in Sides, NEW d \in Conns, ifindex'[f][d] # NoTunnel PROVE CompleteHere(f, d)'
    BY DEF RememberedIsComplete, CompleteHere
  <2>1. ~ (f = e /\ d = c)
    BY <1>4
  <2>2. ifindex'[f][d] = ifindex[f][d] /\ profiles'[f][d] = profiles[f][d]
    BY <1>4, <2>1 DEF Only
  <2>3. CompleteHere(f, d)
    BY <2>2 DEF VppInv, RememberedIsComplete, CompleteHere
  <2>4. ifindex[f][d] \in tunnels'[f]
    BY <1>5, <1>6, <2>1, <2>2, <2>3 DEF CompleteHere
  <2>5. QED
    BY <2>2, <2>3, <2>4 DEF CompleteHere
<1>8. \A f \in Sides : OwnTunnel(f)'
  BY <1>4 DEF VppInv, OwnTunnel, Only
<1>9. LeaksAreFailures'
  <2>1. \A f \in Sides : \/ Leaked(f)' \subseteq Leaked(f) /\ failed'[f] = failed[f]
                         \/ Leaked(f)' \subseteq Leaked(f) \cup {t} /\ failed'[f] = failed[f] + 1
    <3> SUFFICES ASSUME NEW f \in Sides
                 PROVE  \/ Leaked(f)' \subseteq Leaked(f) /\ failed'[f] = failed[f]
                        \/ Leaked(f)' \subseteq Leaked(f) \cup {t} /\ failed'[f] = failed[f] + 1
      OBVIOUS
    <3>1. CASE f # e
      BY <1>4, <1>5, <3>1 DEF Leaked, Only
    <3>2. CASE f = e
      <4>1. Leaked(e)' \subseteq Leaked(e) \cup {t}
        <5> SUFFICES ASSUME NEW x \in Leaked(e)', x # t PROVE x \in Leaked(e)
          OBVIOUS
        <5>1. x \in tunnels[e] /\ \A d \in Conns : ifindex'[e][d] # x
          BY <1>5 DEF Leaked
        <5>2. \A d \in Conns : ifindex[e][d] # x
          BY <1>4, <5>1 DEF Only, t
        <5>3. QED
          BY <5>1, <5>2 DEF Leaked
      <4>2. tunnels'[e] = tunnels[e] \ {t} => t \notin Leaked(e)'
        BY DEF Leaked
      <4>3. QED
        BY <1>5, <3>2, <4>1, <4>2
    <3>3. QED
      BY <3>1, <3>2
  <2>2. QED
    BY <1>2, <2>1, Counted
<1>10. ProtectedOnce'
  <2> SUFFICES ASSUME "delete" \notin Faults, NEW f \in Sides, NEW b \in Conns, NEW d \in Conns, Protects(f, b)'
               PROVE  /\ profiles'[f][b].tunnel \in tunnels'[f]
                      /\ Protects(f, d)' /\ b # d => profiles'[f][d].tunnel # profiles'[f][b].tunnel
    BY DEF ProtectedOnce, Faults
  <2>1. ASSUME NEW q \in Conns, Protects(f, q)'
        PROVE  /\ ~ (f = e /\ q = c)
               /\ Protects(f, q) /\ profiles'[f][q].tunnel = profiles[f][q].tunnel
    BY <1>4, <2>1 DEF Only, Protects
  <2>2. \A q, r \in Conns : Protects(f, q) => /\ profiles[f][q].tunnel \in tunnels[f]
                                              /\ Protects(f, r) /\ q # r => profiles[f][r].tunnel # profiles[f][q].tunnel
    BY DEF VppInv, ProtectedOnce
  <2>3. profiles'[f][b].tunnel \in tunnels'[f]
    <3>1. CASE f # e
      BY <1>5, <2>1, <2>2, <3>1
    <3>2. CASE f = e
      <4>1. t # NoTunnel => Protects(e, c) /\ profiles[e][c].tunnel = t
        <5> SUFFICES ASSUME t # NoTunnel PROVE Protects(e, c) /\ profiles[e][c].tunnel = t
          OBVIOUS
        <5>1. /\ CompleteHere(e, c) /\ t \in Tunnels
          BY DEF VppInv, TypeVpp, RememberedIsComplete, CompleteHere, t
        <5>2. CertsOf(e, profiles[e][c]) \in Mechanism
          BY <5>1 DEF CompleteHere, VppInv, TypeVpp, Profile, CertsOf, Mechanism
        <5>3. profiles[e][c] = Finished(e, CertsOf(e, profiles[e][c]), t)
          BY <5>1 DEF CompleteHere, t
        <5>4. profiles[e][c].tunnel = t
          BY <5>1, <5>2, <5>3, FinishedFacts
        <5>5. QED
          BY <5>1, <5>4 DEF Protects, CompleteHere
      <4>2. profiles[f][b].tunnel # t
        BY <2>1, <2>2, <3>2, <4>1 DEF Protects
      <4>3. QED
        BY <1>5, <2>1, <2>2, <3>2, <4>2
    <3>3. QED
      BY <3>1, <3>2
  <2>4. ASSUME Protects(f, d)', b # d PROVE profiles'[f][d].tunnel # profiles'[f][b].tunnel
    BY <2>1, <2>2, <2>4
  <2>5. QED
    BY <2>3, <2>4
<1>11. QED
  BY <1>2, <1>3, <1>4, <1>7, <1>8, <1>9, <1>10 DEF VppInv, TypeVpp
-----------------------------------------------------------------------------
(* The steps *)

(* What the invariant says of the connection of a step. *)
LEMMA Here ==
    ASSUME IInv, NEW c \in Conns
    PROVE  /\ VppInv /\ Filled(c) /\ (CallsFail => Ends(c))
           /\ mech[c] \in Mechanism /\ mech[c] = [src |-> mech[c].src, dst |-> mech[c].dst]
           /\ pc[c] \in {"ready", "server", "reply", "undo", "undoserver"}
           /\ CallsFail => Faults \cap {"delete", "lost", "expire"} = {}
BY DEF IInv, TypeCtl, Mechanism, CallsFail

(* The request of c goes on. *)
LEMMA Moves == ASSUME IInv, NEW c \in Conns, NEW s \in {"ready", "server", "reply", "undo", "undoserver"}, Goto(c, s)
               PROVE  /\ pc' \in [Conns -> {"ready", "server", "reply", "undo", "undoserver"}]
                      /\ pc'[c] = s /\ \A d \in Conns \ {c} : pc'[d] = pc[d]
BY DEF IInv, TypeCtl, Goto

(* The mechanism of c becomes m. *)
MechIs(c, m) == /\ mech' \in [Conns -> Mechanism] /\ mech'[c] = m
                /\ \A d \in Conns \ {c} : mech'[d] = mech[d]

(* The ways in which it does. *)
LEMMA Mechanisms ==
    ASSUME IInv, NEW c \in Conns
    PROVE  /\ UNCHANGED mech => MechIs(c, mech[c])
           /\ \A k \in Certs : mech' = [mech EXCEPT ![c].src = k] => MechIs(c, [src |-> k, dst |-> mech[c].dst])
           /\ \A k \in Certs : mech' = [mech EXCEPT ![c].dst = k] => MechIs(c, [src |-> mech[c].src, dst |-> k])
           /\ mech' = [mech EXCEPT ![c] = NoMechanism] => MechIs(c, NoMechanism)
           /\ Forget(c) => MechIs(c, IF c \in established THEN mech[c] ELSE NoMechanism)
<1>1. mech \in [Conns -> Mechanism] /\ NoMechanism \in Mechanism
  BY IpsecAssumption DEF IInv, TypeCtl, NoMechanism, Mechanism, Certs
<1>2. /\ UNCHANGED mech => MechIs(c, mech[c])
      /\ mech' = [mech EXCEPT ![c] = NoMechanism] => MechIs(c, NoMechanism)
  BY <1>1 DEF MechIs
<1>3. Forget(c) => MechIs(c, IF c \in established THEN mech[c] ELSE NoMechanism)
  BY <1>2 DEF Forget
<1>4. ASSUME NEW k \in Certs, mech' = [mech EXCEPT ![c].src = k]
      PROVE  MechIs(c, [src |-> k, dst |-> mech[c].dst])
  BY <1>1, <1>4 DEF MechIs, Mechanism
<1>5. ASSUME NEW k \in Certs, mech' = [mech EXCEPT ![c].dst = k]
      PROVE  MechIs(c, [src |-> mech[c].src, dst |-> k])
  BY <1>1, <1>5 DEF MechIs, Mechanism
<1>6. QED
  BY <1>2, <1>3, <1>4, <1>5

(* The types of the keys and of the number of certificates. *)
TypeKeys == /\ localKey \in [Sides -> BOOLEAN] /\ onceInit \in [Sides -> BOOLEAN]
            /\ certs \in Certs

(* A key that is set and a certificate that is created are of their types. *)
LEMMA KeySteps ==
    ASSUME IInv, UNCHANGED env, NEW e \in Sides
    PROVE  /\ setIKEv2LocalKey(e) \/ setIKEv2LocalKeyFails(e) \/ UNCHANGED <<localKey, onceInit>>
                => localKey' \in [Sides -> BOOLEAN] /\ onceInit' \in [Sides -> BOOLEAN]
           /\ createCertBase64 => certs + 1 \in Certs /\ certs + 1 # 0 /\ certs' \in Certs
           /\ UNCHANGED certs => certs' \in Certs
<1>1. localKey \in [Sides -> BOOLEAN] /\ onceInit \in [Sides -> BOOLEAN]
  BY DEF IInv, TypeCtl
<1>2. UNCHANGED <<localKey, onceInit>> => localKey' \in [Sides -> BOOLEAN] /\ onceInit' \in [Sides -> BOOLEAN]
  BY <1>1
<1>3. setIKEv2LocalKey(e) => localKey' \in [Sides -> BOOLEAN] /\ onceInit' \in [Sides -> BOOLEAN]
  BY <1>1 DEF setIKEv2LocalKey
<1>4. setIKEv2LocalKeyFails(e) => localKey' \in [Sides -> BOOLEAN] /\ onceInit' \in [Sides -> BOOLEAN]
  BY <1>1 DEF setIKEv2LocalKeyFails
<1>5. /\ createCertBase64 => certs + 1 \in Certs /\ certs + 1 # 0 /\ certs' \in Certs
      /\ UNCHANGED certs => certs' \in Certs
  BY IpsecAssumption DEF createCertBase64, IInv, TypeCtl, Certs
<1>6. QED
  BY <1>2, <1>3, <1>4, <1>5

(* A step of c says of no other connection that its ends are parted. *)
Marks(c) == /\ established' \subseteq Conns /\ parted' \subseteq Conns
            /\ \A d \in Conns \ {c} : d \in parted' <=> d \in parted

(* The ways in which it marks its own. *)
LEMMA Marking ==
    ASSUME IInv, NEW c \in Conns,
           established' \in {established, established \cup {c}, established \ {c}},
           parted' \in {parted, parted \cup {c}, parted \ {c}}
    PROVE  Marks(c)
BY DEF IInv, TypeCtl, Marks

(* A step of c on one side keeps the invariant if it keeps it at c. *)
LEMMA StepIInv ==
    ASSUME IInv, UNCHANGED env, NEW c \in Conns, NEW e \in Sides, TypeKeys', VppInv', Only(e, c),
           NEW m, MechIs(c, m), Marks(c),
           pc' \in [Conns -> {"ready", "server", "reply", "undo", "undoserver"}],
           \A d \in Conns \ {c} : pc'[d] = pc[d],
           Filled(c)', CallsFail => Ends(c)'
    PROVE  IInv'
<1>1. TypeCtl'
  BY DEF IInv, TypeCtl, TypeKeys, MechIs, Marks
<1>2. ASSUME NEW d \in Conns PROVE Filled(d)' /\ (CallsFail' => Ends(d)')
  <2>1. CASE d = c
    BY <2>1 DEF CallsFail, Faults
  <2>2. CASE d # c
    <3>1. /\ mech'[d] = mech[d] /\ pc'[d] = pc[d] /\ (d \in parted' <=> d \in parted)
          /\ \A f \in Sides : ifindex'[f][d] = ifindex[f][d] /\ profiles'[f][d] = profiles[f][d]
      BY <2>2 DEF MechIs, Only, Marks
    <3>2. Filled(d) /\ (CallsFail => Ends(d))
      BY DEF IInv
    <3>3. QED
      BY <3>1, <3>2 DEF Filled, Ends, Joined, CallsFail, Faults, Sides
  <2>3. QED
    BY <2>1, <2>2
<1>3. QED
  BY <1>1, <1>2 DEF IInv

(* The other side of c keeps its tunnel. *)
LEMMA OtherSide ==
    ASSUME NEW c \in Conns
    PROVE  /\ Only("client", c) => /\ ifindex'["server"][c] = ifindex["server"][c]
                                   /\ profiles'["server"][c] = profiles["server"][c]
           /\ Only("server", c) => /\ ifindex'["client"][c] = ifindex["client"][c]
                                   /\ profiles'["client"][c] = profiles["client"][c]
BY DEF Only, Sides

(* The client asks, with a certificate of its own. *)
LEMMA ClientRequestIInv == ASSUME IInv, UNCHANGED env, NEW c \in Conns, ClientRequest(c) PROVE IInv'
<1>1. pc[c] = "ready" /\ UNCHANGED <<ifindex, tunnels, profiles, failed>>
  BY DEF ClientRequest
<1>2. VppInv' /\ Only("client", c) /\ "client" \in Sides
  BY <1>1, Here, SameVpp DEF Sides
<1>3. Marks(c) /\ UNCHANGED parted
  BY Marking DEF ClientRequest
<1>4. CASE /\ setIKEv2LocalKey("client") /\ Goto(c, "server")
           /\ \/ mech[c].src # 0 /\ UNCHANGED <<certs, mech>>
              \/ mech[c].src = 0 /\ createCertBase64 /\ mech' = [mech EXCEPT ![c].src = certs + 1]
  <2>1. TypeKeys' /\ (createCertBase64 => certs + 1 \in Certs /\ certs + 1 # 0)
    BY <1>2, <1>4, KeySteps DEF TypeKeys
  <2>2. PICK m : MechIs(c, m) /\ m.src # 0 /\ (m.dst # 0 => mech[c].dst # 0)
    <3>1. CASE UNCHANGED mech /\ mech[c].src # 0
      BY <3>1, Mechanisms
    <3>2. CASE createCertBase64 /\ mech' = [mech EXCEPT ![c].src = certs + 1]
      <4>1. MechIs(c, [src |-> certs + 1, dst |-> mech[c].dst])
        BY <2>1, <3>2, Mechanisms
      <4>2. QED
        BY <2>1, <3>2, <4>1
    <3>3. QED
      BY <1>4, <3>1, <3>2
  <2>3. /\ pc' \in [Conns -> {"ready", "server", "reply", "undo", "undoserver"}]
        /\ pc'[c] = "server" /\ \A d \in Conns \ {c} : pc'[d] = pc[d]
    BY <1>4, Moves
  <2>4. Filled(c)'
    BY <2>2, <2>3 DEF Filled, MechIs
  <2>5. CallsFail => Ends(c)'
    BY <1>1, <1>3, <2>3, Here DEF Ends, Joined
  <2>6. QED
    BY <1>2, <1>3, <2>1, <2>2, <2>3, <2>4, <2>5, StepIInv
<1>5. CASE setIKEv2LocalKeyFails("client") /\ UNCHANGED <<certs, mech, pc>>
  <2>1. TypeKeys' /\ MechIs(c, mech[c])
    BY <1>2, <1>5, KeySteps, Mechanisms DEF TypeKeys
  <2>2. /\ pc' \in [Conns -> {"ready", "server", "reply", "undo", "undoserver"}]
        /\ pc'[c] = "ready" /\ \A d \in Conns \ {c} : pc'[d] = pc[d]
    BY <1>1, <1>5 DEF IInv, TypeCtl
  <2>3. Filled(c)' /\ (CallsFail => Ends(c)')
    BY <1>1, <1>5, <1>3, <2>2, Here DEF Filled, Ends, Joined
  <2>4. QED
    BY <1>2, <1>3, <2>1, <2>2, <2>3, StepIInv
<1>6. QED
  BY <1>4, <1>5 DEF ClientRequest

(* The client creates its tunnel from the reply. *)
LEMMA ClientCreateIInv == ASSUME IInv, UNCHANGED env, NEW c \in Conns, ClientCreate(c) PROVE IInv'
<1>1. /\ pc[c] = "reply" /\ UNCHANGED <<localKey, onceInit, certs, mech, parted>>
      /\ "client" \in Sides /\ Marks(c)
  BY Marking DEF ClientCreate, Sides
<1>2. TypeKeys' /\ MechIs(c, mech[c]) /\ mech'[c] = mech[c]
  BY <1>1, KeySteps, Mechanisms DEF TypeKeys
<1>3. mech[c] \in Mechanism /\ mech[c].src # 0 /\ mech[c].dst # 0 /\ VppInv
  BY <1>1, Here DEF Filled
<1>4. CASE create("client", c, mech[c]) /\ (Goto(c, "ready") \/ Goto(c, "undo"))
  <2>1. /\ VppInv' /\ Only("client", c) /\ ifindex'["client"][c] # NoTunnel
        /\ ifindex["client"][c] # NoTunnel => UNCHANGED <<ifindex, profiles>>
        /\ ifindex["client"][c] = NoTunnel => CertsOf("client", profiles'["client"][c]) = mech[c]
    BY <1>1, <1>3, <1>4, CreateVpp
  <2>2. /\ pc' \in [Conns -> {"ready", "server", "reply", "undo", "undoserver"}]
        /\ pc'[c] \in {"ready", "undo"} /\ \A d \in Conns \ {c} : pc'[d] = pc[d]
    BY <1>4, Moves
  <2>3. Filled(c)'
    BY <1>2, <1>3, <2>2 DEF Filled
  <2>4. CallsFail => Ends(c)'
    <3>1. CASE ifindex["client"][c] # NoTunnel
      BY <1>1, <2>1, <2>2, <3>1, Here DEF Ends, Joined
    <3>2. CASE ifindex["client"][c] = NoTunnel
      <4>1. CallsFail => /\ ifindex["server"][c] # NoTunnel
                         /\ CertsOf("server", profiles["server"][c]) = mech[c]
        BY <1>1, <3>2, Here DEF Ends
      <4>2. /\ ifindex'["server"][c] = ifindex["server"][c]
            /\ profiles'["server"][c] = profiles["server"][c]
        BY <2>1, OtherSide
      <4>3. CallsFail => Joined(c)'
        BY <2>1, <3>2, <4>1, <4>2 DEF Joined
      <4>4. QED
        BY <2>1, <2>2, <4>3 DEF Ends
    <3>3. QED
      BY <3>1, <3>2
  <2>5. QED
    BY <1>1, <1>2, <2>1, <2>2, <2>3, <2>4, StepIInv
<1>5. CASE createFails("client", c, mech[c]) /\ Goto(c, "undo")
  <2>1. VppInv' /\ Only("client", c) /\ ifindex'["client"][c] = NoTunnel
    BY <1>1, <1>3, <1>5, CreateFailsVpp
  <2>2. /\ pc' \in [Conns -> {"ready", "server", "reply", "undo", "undoserver"}]
        /\ pc'[c] = "undo" /\ \A d \in Conns \ {c} : pc'[d] = pc[d]
    BY <1>5, Moves
  <2>3. Filled(c)' /\ Ends(c)'
    BY <1>2, <1>3, <2>1, <2>2 DEF Filled, Ends
  <2>4. QED
    BY <1>1, <1>2, <2>1, <2>2, <2>3, StepIInv
<1>6. QED
  BY <1>4, <1>5 DEF ClientCreate

(* A close deletes the tunnel of the client. *)
LEMMA CloseIInv == ASSUME IInv, UNCHANGED env, NEW c \in Conns, Close(c) PROVE IInv'
<1>1. UNCHANGED <<localKey, onceInit, certs>> /\ "client" \in Sides /\ Marks(c)
  BY Marking DEF Close, Sides
<1>2. TypeKeys' /\ \E m \in {mech[c], NoMechanism} : MechIs(c, m)
  BY <1>1, KeySteps, Mechanisms DEF TypeKeys, Close
<1>3. VppInv' /\ Only("client", c) /\ ifindex'["client"][c] = NoTunnel
  BY <1>1, Here, DelInterfaceVpp DEF Close
<1>4. /\ pc' \in [Conns -> {"ready", "server", "reply", "undo", "undoserver"}]
      /\ pc'[c] = "undoserver" \/ (pc'[c] = "ready" /\ "lost" \in Faults)
      /\ \A d \in Conns \ {c} : pc'[d] = pc[d]
  BY Moves DEF Close
<1>5. Filled(c)'
  <2>1. PICK n \in {mech[c], NoMechanism} : mech'[c] = n
    BY <1>2 DEF MechIs
  <2>2. mech[c].dst # 0 => mech[c].src # 0
    BY Here DEF Filled
  <2>3. n.dst # 0 => n.src # 0
    <3>1. n = mech[c] \/ n.dst = 0
      BY DEF NoMechanism
    <3>2. QED
      BY <2>2, <3>1
  <2>4. QED
    BY <1>4, <2>1, <2>3 DEF Filled
<1>6. CallsFail => Ends(c)'
  BY <1>3, <1>4, Here DEF Ends
<1>7. QED
  BY <1>1, <1>2, <1>3, <1>4, <1>5, <1>6, StepIInv

(* The server answers with a certificate of its own, or fails to create    *)
(* its tunnel.                                                             *)
LEMMA ServerRequestIInv == ASSUME IInv, UNCHANGED env, NEW c \in Conns, ServerRequest(c) PROVE IInv'
<1>1. /\ pc[c] = "server" /\ setIKEv2LocalKey("server") /\ createCertBase64 /\ "server" \in Sides
      /\ Marks(c) /\ UNCHANGED parted
  BY Marking DEF ServerRequest, Sides
<1>2. TypeKeys'
  BY <1>1, KeySteps DEF TypeKeys
<1>3. PICK k \in Certs : k = certs + 1 /\ k # 0
  BY <1>1, KeySteps
<1>4. PICK m \in Mechanism : m = [src |-> mech[c].src, dst |-> k]
  BY Here DEF Mechanism
<1>5. m.src # 0 /\ m.dst # 0 /\ VppInv
  BY <1>1, <1>3, <1>4, Here DEF Filled
<1>6. CASE /\ mech' = [mech EXCEPT ![c].dst = certs + 1]
           /\ create("server", c, mech'[c]) /\ Goto(c, "reply")
  <2>1. MechIs(c, m) /\ mech'[c] = m
    BY <1>3, <1>4, <1>6, Mechanisms DEF MechIs
  <2>2. /\ VppInv' /\ Only("server", c) /\ ifindex'["server"][c] # NoTunnel
        /\ ifindex["server"][c] # NoTunnel => UNCHANGED <<ifindex, profiles>>
        /\ ifindex["server"][c] = NoTunnel => CertsOf("server", profiles'["server"][c]) = m
    BY <1>1, <1>5, <1>6, <2>1, CreateVpp
  <2>3. /\ pc' \in [Conns -> {"ready", "server", "reply", "undo", "undoserver"}]
        /\ pc'[c] = "reply" /\ \A d \in Conns \ {c} : pc'[d] = pc[d]
    BY <1>6, Moves
  <2>4. Filled(c)'
    BY <1>5, <2>1, <2>3 DEF Filled
  <2>5. /\ ifindex'["client"][c] = ifindex["client"][c]
        /\ profiles'["client"][c] = profiles["client"][c]
    BY <2>2, OtherSide
  <2>6. CallsFail => Ends(c)'
    <3>1. CASE ifindex["client"][c] # NoTunnel
      BY <1>1, <2>2, <2>3, <2>5, <3>1, Here DEF Ends, Joined
    <3>2. CASE ifindex["client"][c] = NoTunnel
      <4>1. CallsFail => ifindex["server"][c] = NoTunnel
        BY <1>1, <3>2, Here DEF Ends
      <4>2. QED
        BY <2>1, <2>2, <2>3, <2>5, <3>2, <4>1 DEF Ends
    <3>3. QED
      BY <3>1, <3>2
  <2>7. QED
    BY <1>1, <1>2, <2>1, <2>2, <2>3, <2>4, <2>6, StepIInv
<1>7. CASE /\ createFails("server", c, [mech[c] EXCEPT !.dst = certs + 1])
           /\ Goto(c, "undoserver") /\ Forget(c)
  <2>1. [mech[c] EXCEPT !.dst = certs + 1] = m
    <3>1. PICK r \in Mechanism : r = mech[c]
      BY Here
    <3>2. [r EXCEPT !.dst = k] = [src |-> r.src, dst |-> k]
      BY DEF Mechanism
    <3>3. QED
      BY <1>3, <1>4, <3>1, <3>2
  <2>2. VppInv' /\ Only("server", c) /\ ifindex["server"][c] = NoTunnel
    BY <1>1, <1>5, <1>7, <2>1, CreateFailsVpp
  <2>3. /\ pc' \in [Conns -> {"ready", "server", "reply", "undo", "undoserver"}]
        /\ pc'[c] = "undoserver" /\ \A d \in Conns \ {c} : pc'[d] = pc[d]
    BY <1>7, Moves
  <2>4. PICK n : MechIs(c, n) /\ n = IF c \in established THEN mech[c] ELSE NoMechanism
    BY <1>7, Mechanisms
  <2>5. Filled(c)'
    <3>1. mech'[c] = n /\ (mech[c].dst # 0 => mech[c].src # 0)
      BY <2>4, Here DEF Filled, MechIs
    <3>2. n.dst # 0 => n.src # 0
      BY <2>4, <3>1 DEF NoMechanism
    <3>3. QED
      BY <2>3, <3>1, <3>2 DEF Filled
  <2>6. CallsFail => Ends(c)'
    <3>1. CallsFail => ifindex["client"][c] = NoTunnel \/ c \in parted'
      BY <1>1, <2>2, Here DEF Ends, Joined
    <3>2. ifindex'["client"][c] = ifindex["client"][c]
      BY <2>2, OtherSide
    <3>3. QED
      BY <2>3, <3>1, <3>2 DEF Ends
  <2>7. QED
    BY <1>1, <1>2, <2>2, <2>3, <2>4, <2>5, <2>6, StepIInv
<1>8. QED
  BY <1>6, <1>7 DEF ServerRequest

(* The server fails before its tunnel. *)
LEMMA ServerFailsIInv == ASSUME IInv, UNCHANGED env, NEW c \in Conns, ServerFails(c) PROVE IInv'
<1>1. /\ pc[c] = "server" /\ UNCHANGED <<certs, parted, ifindex, tunnels, profiles, failed>>
      /\ Goto(c, "ready") /\ "server" \in Sides /\ Marks(c)
  BY Marking DEF ServerFails, Sides
<1>2. TypeKeys'
  BY <1>1, KeySteps DEF ServerFails, TypeKeys
<1>3. VppInv' /\ Only("server", c)
  BY <1>1, Here, SameVpp
<1>4. /\ pc' \in [Conns -> {"ready", "server", "reply", "undo", "undoserver"}]
      /\ pc'[c] = "ready" /\ \A d \in Conns \ {c} : pc'[d] = pc[d]
  BY <1>1, Moves
<1>5. PICK n : MechIs(c, n) /\ n = IF c \in established THEN mech[c] ELSE NoMechanism
  BY Mechanisms DEF ServerFails
<1>6. Filled(c)'
  <2>1. mech'[c] = n /\ (mech[c].dst # 0 => mech[c].src # 0)
    BY <1>5, Here DEF Filled, MechIs
  <2>2. n.dst # 0 => n.src # 0
    BY <1>5, <2>1 DEF NoMechanism
  <2>3. QED
    BY <1>4, <2>1, <2>2 DEF Filled
<1>7. CallsFail => Ends(c)'
  BY <1>1, <1>4, Here DEF Ends, Joined
<1>8. QED
  BY <1>1, <1>2, <1>3, <1>4, <1>5, <1>6, <1>7, StepIInv

(* An element between the ends fails: the server is to close its tunnel.   *)
LEMMA BetweenFailsIInv == ASSUME IInv, UNCHANGED env, NEW c \in Conns, BetweenFails(c) PROVE IInv'
<1>1. /\ pc[c] = "reply" /\ UNCHANGED <<localKey, onceInit, certs, ifindex, tunnels, profiles, failed>>
      /\ Goto(c, "undoserver") /\ "server" \in Sides /\ Marks(c)
      /\ ifindex["client"][c] # NoTunnel => c \in parted'
  BY Marking DEF BetweenFails, Sides
<1>2. TypeKeys'
  BY <1>1, KeySteps DEF TypeKeys
<1>3. VppInv' /\ Only("server", c)
  BY <1>1, Here, SameVpp
<1>4. /\ pc' \in [Conns -> {"ready", "server", "reply", "undo", "undoserver"}]
      /\ pc'[c] = "undoserver" /\ \A d \in Conns \ {c} : pc'[d] = pc[d]
  BY <1>1, Moves
<1>5. PICK n \in {mech[c], NoMechanism} : MechIs(c, n)
  BY Mechanisms DEF BetweenFails
<1>6. Filled(c)'
  <2>1. mech'[c] = n /\ (mech[c].dst # 0 => mech[c].src # 0)
    BY <1>5, Here DEF Filled, MechIs
  <2>2. n.dst # 0 => n.src # 0
    <3>1. n = mech[c] \/ n.dst = 0
      BY DEF NoMechanism
    <3>2. QED
      BY <2>1, <3>1
  <2>3. QED
    BY <1>4, <2>1, <2>2 DEF Filled
<1>7. Ends(c)'
  BY <1>1, <1>4 DEF Ends
<1>8. QED
  BY <1>1, <1>2, <1>3, <1>4, <1>5, <1>6, <1>7, StepIInv

(* The server deletes its tunnel, for the client or by itself. *)
LEMMA ServerCloseIInv == ASSUME IInv, UNCHANGED env, NEW c \in Conns, ServerClose(c) \/ Expire(c) PROVE IInv'
<1>1. /\ UNCHANGED <<localKey, onceInit, certs, mech, parted>> /\ Marks(c) /\ delInterface("server", c) /\ "server" \in Sides
      /\ pc[c] = "undoserver" \/ "expire" \in Faults
      /\ Goto(c, "ready") \/ (UNCHANGED pc /\ pc[c] = "ready")
  BY Marking DEF ServerClose, Expire, Sides
<1>2. TypeKeys' /\ MechIs(c, mech[c]) /\ mech'[c] = mech[c]
  BY <1>1, KeySteps, Mechanisms DEF TypeKeys
<1>3. VppInv' /\ Only("server", c) /\ ifindex'["server"][c] = NoTunnel
  BY <1>1, Here, DelInterfaceVpp
<1>4. /\ pc' \in [Conns -> {"ready", "server", "reply", "undo", "undoserver"}]
      /\ pc'[c] = "ready" /\ \A d \in Conns \ {c} : pc'[d] = pc[d]
  BY <1>1, Moves DEF IInv, TypeCtl
<1>5. Filled(c)'
  BY <1>2, <1>4, Here DEF Filled
<1>6. CallsFail => Ends(c)'
  <2>1. CallsFail => ifindex["client"][c] = NoTunnel \/ c \in parted'
    BY <1>1, Here DEF Ends
  <2>2. ifindex'["client"][c] = ifindex["client"][c]
    BY <1>3, OtherSide
  <2>3. QED
    BY <1>3, <1>4, <2>1, <2>2 DEF Ends
<1>7. QED
  BY <1>1, <1>2, <1>3, <1>4, <1>5, <1>6, StepIInv

(* It holds when nothing has been asked for. *)
LEMMA InitIInv == Init => IInv
<1> SUFFICES ASSUME Init PROVE IInv
  OBVIOUS
<1>1. TypeCtl
  BY IpsecAssumption DEF Init, TypeCtl, Certs, Mechanism, NoMechanism
<1>2. TypeVpp
  BY DEF Init, TypeVpp
<1>3. RememberedIsComplete /\ ProtectedOnce /\ \A e \in Sides : OwnTunnel(e)
  BY DEF Init, RememberedIsComplete, ProtectedOnce, Protects, OwnTunnel
<1>4. LeaksAreFailures
  <2>1. \A e \in Sides : tunnels[e] \ {ifindex[e][c] : c \in Conns} = {} /\ failed[e] = 0
    BY DEF Init
  <2>2. QED
    BY <2>1, FS_EmptySet DEF LeaksAreFailures
<1>5. \A c \in Conns : Filled(c) /\ Ends(c)
  BY DEF Init, Filled, Ends, NoMechanism, Sides
<1>6. QED
  BY <1>1, <1>2, <1>3, <1>4, <1>5 DEF IInv, VppInv

(* Every step keeps it. *)
LEMMA NextIInv == IInv /\ [Next]_vars => IInv'
<1>1. ASSUME IInv, Next PROVE IInv'
  BY <1>1, ClientRequestIInv, ClientCreateIInv, CloseIInv, ServerRequestIInv, ServerFailsIInv,
     BetweenFailsIInv, ServerCloseIInv DEF Next
<1>2. ASSUME IInv, UNCHANGED vars PROVE IInv'
  <2>1. VppInv'
    BY <1>2, SameVpp DEF vars, IInv
  <2>2. TypeCtl' /\ \A c \in Conns : Filled(c)' /\ (CallsFail' => Ends(c)')
    BY <1>2 DEF vars, IInv, TypeCtl, Filled, Ends, Joined, CallsFail, Faults
  <2>3. QED
    BY <2>1, <2>2 DEF IInv
<1>3. QED
  BY <1>1, <1>2

(* It always holds. *)
LEMMA SpecIInv == Spec => []IInv
BY InitIInv, NextIInv, PTL DEF Spec

-----------------------------------------------------------------------------
(* The theorems *)

(* In every behaviour, whatever calls fail or are lost and whatever the    *)
(* server lets expire, what VPP has is known: a tunnel that is remembered  *)
(* exists and its profile has been through every call of create, profiles  *)
(* protect tunnels that exist and no two the same, and VPP has no more     *)
(* forgotten tunnels than calls failed.                                    *)
THEOREM IpsecStateMatchesVPP == Spec => []StateMatchesVPP
<1>1. IInv => StateMatchesVPP
  BY DEF IInv, VppInv, TypeVpp, TypeCtl, StateMatchesVPP, TypeOK
<1>2. QED
  BY <1>1, SpecIInv, PTL

(* A remembered tunnel has a profile made from its certificates. *)
LEMMA RememberedFacts ==
    ASSUME VppInv, NEW e \in Sides, NEW c \in Conns, ifindex[e][c] # NoTunnel
    PROVE  LET p == profiles[e][c]
               m == CertsOf(e, p)
           IN  /\ p.auth = PeerCert(e, m) /\ p.local = OwnCert(e, m) /\ p.remote = PeerCert(e, m)
               /\ p.ts = IF e = "client" THEN "src" ELSE "dst"
<1> DEFINE p == profiles[e][c]
           m == CertsOf(e, p)
<1>1. CompleteHere(e, c) /\ ifindex[e][c] \in Tunnels
  BY DEF VppInv, TypeVpp, RememberedIsComplete, CompleteHere
<1>2. m \in Mechanism
  BY <1>1 DEF CompleteHere, VppInv, TypeVpp, Profile, CertsOf, Mechanism
<1>3. p = Finished(e, m, ifindex[e][c])
  BY <1>1 DEF CompleteHere
<1> HIDE DEF m, p
<1>4. /\ p.auth = PeerCert(e, m) /\ p.local = OwnCert(e, m) /\ p.remote = PeerCert(e, m)
      /\ p.ts = IF e = "client" THEN "src" ELSE "dst"
  BY <1>1, <1>2, <1>3, FinishedFacts
<1>5. QED
  BY <1>4 DEF m, p

(* In every behaviour in which every Close is heard and every deletion     *)
(* succeeds, whatever else fails: at rest, the server has a tunnel for     *)
(* every tunnel of the client, and each end has the name and the           *)
(* certificate that the other expects, except for the connections that an  *)
(* element between the ends has parted.                                    *)
THEOREM IpsecEndsAgree == Spec => []EndsAgree
<1>1. ASSUME IInv PROVE EndsAgree
  <2> SUFFICES ASSUME CallsFail, NEW c \in Conns \ parted, pc[c] = "ready", ifindex["client"][c] # NoTunnel
               PROVE  /\ ifindex["server"][c] # NoTunnel
                      /\ Matching(profiles["client"][c], profiles["server"][c])
                      /\ Matching(profiles["server"][c], profiles["client"][c])
    BY DEF EndsAgree, CallsFail
  <2>1. Joined(c) /\ VppInv
    BY <1>1, Here DEF Ends
  <2>2. PICK p : p = profiles["client"][c]
    OBVIOUS
  <2>3. PICK q : q = profiles["server"][c]
    OBVIOUS
  <2>4. PICK m : m = CertsOf("client", p) /\ m = CertsOf("server", q)
    BY <2>1, <2>2, <2>3 DEF Joined
  <2>5. /\ p.auth = m.dst /\ p.local = m.src /\ p.remote = m.dst /\ p.ts = "src"
    BY <2>1, <2>2, <2>4, RememberedFacts DEF Sides, PeerCert, OwnCert
  <2>6. /\ q.auth = m.src /\ q.local = m.dst /\ q.remote = m.src /\ q.ts = "dst"
    BY <2>1, <2>3, <2>4, RememberedFacts DEF Sides, PeerCert, OwnCert, Joined
  <2>7. QED
    BY <2>1, <2>2, <2>3, <2>5, <2>6 DEF Joined, Matching
<1>2. QED
  BY <1>1, SpecIInv, PTL
=============================================================================
