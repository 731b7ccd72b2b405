------------------------ MODULE PinholeBridgeProofs ------------------------
(***************************************************************************)
(* Two elements of the forwarder that write what others have in VPP.       *)
(*                                                                         *)
(* Pinhole for any number of requests, elements, interfaces and keys: the  *)
(* read-modify-write of the lists of ACLs is safe if the elements share    *)
(* their mutex, and the lookup by tag is if no two tunnel IPs are on one   *)
(* interface.                                                              *)
(*                                                                         *)
(* BridgeDomain for any number of connections, devices, vlans, interfaces  *)
(* and bridges: what is granted is bridged right, and the maps match VPP,  *)
(* if no device has a name that contains the name of another.              *)
(***************************************************************************)
EXTENDS Pinhole, BridgeDomain, TLAPS

(* What the forwarder does: it gives one mutex to its pinhole elements     *)
(* (chains/forwarder/server.go:122).                                       *)
MutexIsShared == \A e, f \in Elements : MutexOf[e] = MutexOf[f]

(* What the tag asks for: an interface has one tunnel IP. *)
OneIPEach == \A i, j \in IPs : Owner[i] = Owner[j] /\ Owner[i] # NoInterface => i = j

(* The steps under the mutex, and those that follow the dump. *)
Locked == {"recheck", "dump", "addIn", "addOut", "set", "unlock", "fail"}
Extending == {"addIn", "addOut", "set"}

(* A request under the mutex holds it. *)
HoldsMutex == \A r \in Requests : pc[r] \in Locked => mutex[MyMutex(r)] = r

(* A request is at one of its keys, or past them when it looks for more.   *)
AtKey == \A r \in Requests :
    /\ at[r] # 0
    /\ pc[r] \in Locked \cup {"lock"} => at[r] <= Len(KeysOf[r])

(* Lists are extended for a port, on an interface of VPP. *)
OnInterface == \A r \in Requests :
    pc[r] \in Extending => CurrentKey(r).port # 0 /\ tunnelIPSwIfIndex(r) \in Interfaces

(* What may be in front of the first ACL of interface i. *)
PinholesOf(i) == {k \in Key : k.port # 0 /\ Owner[k.ip] = i}

(* A list of interface i in direction d, over the ACLs A: empty if the     *)
(* interface does not filter, with no ACL but pinholes of the interface    *)
(* and what was there before, and with one ACL of a tag.                   *)
ListOK(A, i, d, l) ==
    /\ l \in Seq(1..Len(A))
    /\ l = <<>> <=> ~Filtered[i][d]
    /\ \A j \in 1..Len(l) : A[l[j]] \in PinholesOf(i) \cup {Other}
    /\ \A j, k \in 1..Len(l) : Tag(A[l[j]]) = Tag(A[l[k]]) => j = k

ListsOK == \A i \in Interfaces, d \in Directions : ListOK(acls, i, d, lists[i][d])

(* l is m, or m behind one more ACL. *)
Extends(l, m) == l = m \/ (l # <<>> /\ Tail(l) = m)

(* l, a list over the ACLs A, has an ACL for key k unless it is empty: if  *)
(* the tag tells the keys of an interface apart.                           *)
Opens(A, l, k) == OneIPEach /\ l # <<>> => \E j \in 1..Len(l) : A[l[j]] = k

(* What a request works on is the list of its interface as it is now, and  *)
(* extended by what the request needs once it has been there.              *)
Fresh(r, d) == dump[r][d] = lists[tunnelIPSwIfIndex(r)][d]

Extended(r, d) == LET i == tunnelIPSwIfIndex(r) IN
    /\ ListOK(acls, i, d, dump[r][d])
    /\ Extends(dump[r][d], lists[i][d])
    /\ Opens(acls, dump[r][d], CurrentKey(r))

DumpFresh == \A r \in Requests : pc[r] \in Extending =>
    /\ IF pc[r] = "addIn" THEN Fresh(r, "in") ELSE Extended(r, "in")
    /\ IF pc[r] = "set" THEN Extended(r, "out") ELSE Fresh(r, "out")

(* A key that an element remembers is open on its interface.               *)
RememberedOpen == \A e \in Elements : \A k \in ipPortMap[e] : k.port # 0 =>
    /\ Owner[k.ip] \in Interfaces
    /\ \A d \in Directions : Opens(acls, lists[Owner[k.ip]][d], k)

(* The ports of a request up to the key it is at, and all of them when it  *)
(* has returned, are in the map of the XDP program.                        *)
PortIn(k) == k.port \in xdpPinhole \cup {0}

XdpSoFar == \A r \in Requests :
    /\ pc[r] = "xdp" => \A j \in 1..Len(KeysOf[r]) : j < at[r] => PortIn(KeysOf[r][j])
    /\ afXdp /\ result[r] = "ok" => \A j \in 1..Len(KeysOf[r]) : PortIn(KeysOf[r][j])

TInv == TypeOK /\ AtKey

ListInv == HoldsMutex /\ OnInterface /\ ListsOK /\ DumpFresh /\ RememberedOpen

IInv == TInv /\ ListInv /\ XdpSoFar

-----------------------------------------------------------------------------
(* Lists of ACLs *)

(* What putting an element in front of a sequence gives. *)
LEMMA Prepend ==
    ASSUME NEW S, NEW n \in S, NEW l \in Seq(S)
    PROVE  /\ <<n>> \o l \in Seq(S)
           /\ <<n>> \o l # <<>>
           /\ Len(<<n>> \o l) = Len(l) + 1
           /\ (<<n>> \o l)[1] = n
           /\ \A j \in 2..Len(l) + 1 : (<<n>> \o l)[j] = l[j - 1]
           /\ Tail(<<n>> \o l) = l
<1>1. /\ <<n>> \o l \in Seq(S)
      /\ Len(<<n>> \o l) = Len(l) + 1
      /\ (<<n>> \o l)[1] = n
      /\ \A j \in 2..Len(l) + 1 : (<<n>> \o l)[j] = l[j - 1]
  OBVIOUS
<1>2. <<n>> \o l # <<>>
  BY <1>1
<1>3. Tail(<<n>> \o l) = l
  <2> DEFINE t == Tail(<<n>> \o l)
  <2>1. t \in Seq(S) /\ Len(t) = Len(l)
    BY <1>1, <1>2
  <2>2. \A j \in 1..Len(l) : t[j] = l[j]
    BY <1>1, <1>2
  <2>3. QED
    BY <2>1, <2>2
<1>4. QED
  BY <1>1, <1>2, <1>3

(* A list that extends another has it as a suffix. *)
LEMMA ExtendsSuffix ==
    ASSUME NEW S, NEW l \in Seq(S), NEW m \in Seq(S), Extends(l, m)
    PROVE  IsSuffix(m, l)
<1>1. Len(m) <= Len(l) /\ \A j \in 1..Len(m) : m[Len(m) - j + 1] = l[Len(l) - j + 1]
  <2>1. CASE l = m
    BY <2>1
  <2>2. CASE l # <<>> /\ Tail(l) = m
    <3>1. Len(l) = Len(m) + 1 /\ \A j \in 1..Len(m) : m[j] = l[j + 1]
      BY <2>2
    <3>2. ASSUME NEW j \in 1..Len(m) PROVE m[Len(m) - j + 1] = l[Len(l) - j + 1]
      <4>1. Len(m) - j + 1 \in 1..Len(m)
        OBVIOUS
      <4>2. QED
        BY <3>1, <4>1
    <3>3. QED
      BY <3>1, <3>2
  <2>3. QED
    BY <2>1, <2>2 DEF Extends
<1> DEFINE a == Reverse(m)
           b == Reverse(l)
<1>2. /\ a \in Seq(S) /\ Len(a) = Len(m) /\ \A j \in 1..Len(m) : a[j] = m[Len(m) - j + 1]
      /\ b \in Seq(S) /\ Len(b) = Len(l) /\ \A j \in 1..Len(l) : b[j] = l[Len(l) - j + 1]
  BY DEF Reverse
<1> HIDE DEF a, b
<1>3. ASSUME NEW j \in 1..Len(m) PROVE a[j] = b[j]
  <2>1. j \in 1..Len(l)
    BY <1>1
  <2>2. QED
    BY <1>1, <1>2, <2>1
<1>4. SubSeq(a, 1, Len(a)) = SubSeq(b, 1, Len(a))
  <2> DEFINE n == Len(a)
  <2>1. n \in Nat /\ n <= Len(b) /\ n = Len(m)
    BY <1>1, <1>2
  <2>2. SubSeq(a, 1, n) \in Seq(S) /\ Len(SubSeq(a, 1, n)) = n
        /\ \A j \in 1..n : SubSeq(a, 1, n)[j] = a[j]
    BY <1>2, <2>1
  <2>3. SubSeq(b, 1, n) \in Seq(S) /\ Len(SubSeq(b, 1, n)) = n
        /\ \A j \in 1..n : SubSeq(b, 1, n)[j] = b[j]
    BY <1>2, <2>1
  <2> QED
    BY <1>3, <2>1, <2>2, <2>3
<1>5. QED
  BY <1>1, <1>2, <1>4 DEF IsSuffix, IsPrefix, a, b

(* New ACLs of VPP change nothing about the lists there are. *)
LEMMA MoreACLs ==
    ASSUME NEW A \in Seq(ACL), NEW B \in Seq(ACL), Len(A) <= Len(B),
           \A j \in 1..Len(A) : B[j] = A[j],
           NEW l \in Seq(1..Len(A))
    PROVE  /\ l \in Seq(1..Len(B))
           /\ \A j \in 1..Len(l) : B[l[j]] = A[l[j]]
           /\ \A i, d : ListOK(A, i, d, l) => ListOK(B, i, d, l)
           /\ \A k : Opens(A, l, k) => Opens(B, l, k)
<1>1. l \in Seq(1..Len(B))
  OBVIOUS
<1>2. ASSUME NEW j \in 1..Len(l) PROVE B[l[j]] = A[l[j]]
  <2>1. l[j] \in 1..Len(A)
    OBVIOUS
  <2>2. QED
    BY <2>1
<1>3. ASSUME NEW i, NEW d, ListOK(A, i, d, l) PROVE ListOK(B, i, d, l)
  BY <1>1, <1>2, <1>3 DEF ListOK
<1>4. ASSUME NEW k, Opens(A, l, k) PROVE Opens(B, l, k)
  BY <1>2, <1>4 DEF Opens
<1>5. QED
  BY <1>1, <1>2, <1>3, <1>4

(* An ACL whose tag is not in the list may come first. *)
LEMMA AddedRight ==
    ASSUME NEW A \in Seq(ACL), NEW i, NEW d, NEW l, ListOK(A, i, d, l), l # <<>>,
           NEW k \in PinholesOf(i),
           \A j \in 1..Len(l) : Tag(A[l[j]]) # k.port
    PROVE  LET B == Append(A, k)
               m == <<Len(A) + 1>> \o l
           IN  B \in Seq(ACL) /\ ListOK(B, i, d, m) /\ Opens(B, m, k) /\ Extends(m, l)
<1> DEFINE B == Append(A, k)
           m == <<Len(A) + 1>> \o l
<1>1. /\ k \in ACL /\ Tag(k) = k.port
      /\ B \in Seq(ACL) /\ Len(B) = Len(A) + 1 /\ B[Len(A) + 1] = k
      /\ \A j \in 1..Len(A) : B[j] = A[j]
  BY DEF PinholesOf, ACL, Tag
<1>2. l \in Seq(1..Len(B)) /\ ListOK(B, i, d, l) /\ \A j \in 1..Len(l) : B[l[j]] = A[l[j]]
  BY <1>1, MoreACLs DEF ListOK
<1>3. /\ m \in Seq(1..Len(B)) /\ m # <<>> /\ Len(m) = Len(l) + 1 /\ m[1] = Len(A) + 1
      /\ \A j \in 2..Len(l) + 1 : m[j] = l[j - 1]
      /\ Tail(m) = l
  BY <1>1, <1>2, Prepend
<1> HIDE DEF B, m
<1>4. /\ B[m[1]] = k
      /\ \A j \in 2..Len(m) : j - 1 \in 1..Len(l) /\ B[m[j]] = B[l[j - 1]]
  BY <1>1, <1>2, <1>3
<1>5. ListOK(B, i, d, m)
  <2>1. m # <<>> /\ Filtered[i][d]
    BY <1>2, <1>3 DEF ListOK
  <2>2. ASSUME NEW j \in 1..Len(m) PROVE B[m[j]] \in PinholesOf(i) \cup {Other}
    <3>1. CASE j = 1
      BY <1>4, <3>1
    <3>2. CASE j \in 2..Len(m)
      BY <1>2, <1>4, <3>2 DEF ListOK
    <3>3. QED
      BY <1>3, <3>1, <3>2
  <2>3. ASSUME NEW j \in 1..Len(m), NEW h \in 1..Len(m), Tag(B[m[j]]) = Tag(B[m[h]])
        PROVE  j = h
    <3>1. ASSUME NEW x \in 2..Len(m) PROVE Tag(B[m[x]]) # Tag(k)
      <4>1. x - 1 \in 1..Len(l) /\ B[m[x]] = A[l[x - 1]]
        BY <1>2, <1>4
      <4>2. QED
        BY <1>1, <4>1
    <3>2. CASE j \in 2..Len(m) /\ h \in 2..Len(m)
      <4>1. Tag(B[l[j - 1]]) = Tag(B[l[h - 1]]) /\ j - 1 \in 1..Len(l) /\ h - 1 \in 1..Len(l)
        BY <1>4, <2>3, <3>2
      <4>2. j - 1 = h - 1
        BY <1>2, <4>1 DEF ListOK
      <4>3. QED
        BY <4>2
    <3>3. CASE j = 1 \/ h = 1
      BY <1>3, <1>4, <2>3, <3>1, <3>3
    <3>4. QED
      BY <1>3, <3>2, <3>3
  <2>4. QED
    BY <1>3, <2>1, <2>2, <2>3 DEF ListOK
<1>6. Opens(B, m, k)
  BY <1>3, <1>4 DEF Opens
<1>7. Extends(m, l)
  BY <1>3 DEF Extends
<1>8. QED
  BY <1>1, <1>5, <1>6, <1>7 DEF B, m

(* An ACL found by its tag is the one looked for: the tag has the port,    *)
(* and the interface has one IP.                                           *)
LEMMA FoundByTag ==
    ASSUME NEW A, NEW i \in Interfaces, NEW d, NEW l, ListOK(A, i, d, l),
           NEW k \in PinholesOf(i),
           NEW j \in 1..Len(l), Tag(A[l[j]]) = k.port
    PROVE  Opens(A, l, k)
<1> SUFFICES ASSUME OneIPEach PROVE A[l[j]] = k
  BY DEF Opens
<1>1. A[l[j]] \in PinholesOf(i)
  BY DEF ListOK, PinholesOf, Tag, Other
<1>2. A[l[j]].port = k.port /\ A[l[j]].ip \in IPs /\ k.ip \in IPs /\ Owner[A[l[j]].ip] = Owner[k.ip]
  BY <1>1 DEF PinholesOf, Key, Tag
<1>3. A[l[j]].ip = k.ip
  BY <1>2, PinholeAssumption DEF OneIPEach, PinholesOf
<1>4. QED
  BY <1>1, <1>2, <1>3 DEF PinholesOf, Key

-----------------------------------------------------------------------------
(* Types *)

(* The key a request works on, its element and the mutex of that. *)
LEMMA KeyType ==
    ASSUME TInv, NEW r \in Requests, at[r] <= Len(KeysOf[r])
    PROVE  /\ at[r] \in 1..Len(KeysOf[r])
           /\ CurrentKey(r) \in Key /\ CurrentKey(r).ip \in IPs /\ CurrentKey(r).port \in Ports
           /\ ElementOf[r] \in Elements /\ MyMutex(r) \in Mutexes
           /\ tunnelIPSwIfIndex(r) \in Interfaces \cup {NoInterface}
<1>1. at[r] \in 1..Len(KeysOf[r]) /\ KeysOf[r] \in Seq(Key)
  BY PinholeAssumption DEF TInv, TypeOK, AtKey
<1>2. CurrentKey(r) \in Key
  BY <1>1 DEF CurrentKey
<1>3. CurrentKey(r).ip \in IPs /\ CurrentKey(r).port \in Ports
  BY <1>2 DEF Key
<1>4. QED
  BY <1>1, <1>2, <1>3, PinholeAssumption DEF MyMutex, Mutexes, tunnelIPSwIfIndex

(* A step that leaves the ACLs and the lists alone, and goes to a step     *)
(* where it has a key or needs none.                                       *)
LEMMA Moves ==
    ASSUME TInv, NEW r \in Requests, Step(r),
           ~interfacesACLDetails(r), ~AddIngress(r), ~AddEgress(r), ~create(r)
    PROVE  /\ UNCHANGED <<acls, lists>>
           /\ \A q \in Requests \ {r} : pc'[q] = pc[q] /\ at'[q] = at[q] /\ dump'[q] = dump[q] /\ result'[q] = result[q]
           /\ dump' = dump \/ dump' = [dump EXCEPT ![r] = NoLists]
           /\ pc'[r] \notin Extending
           /\ pc'[r] \in Locked \cup {"lock"} => at'[r] <= Len(KeysOf[r])
           /\ at' \in [Requests -> Nat] /\ at'[r] # 0
           /\ pc' \in [Requests -> Steps]
           /\ result' \in [Requests -> {"none", "ok", "error"}]
<1>1. /\ at[r] \in Nat /\ at[r] # 0 /\ Len(KeysOf[r]) \in Nat
      /\ [at EXCEPT ![r] = at[r] + 1] \in [Requests -> Nat]
      /\ [at EXCEPT ![r] = 1] \in [Requests -> Nat]
      /\ at \in [Requests -> Nat]
      /\ pc \in [Requests -> Steps]
      /\ result \in [Requests -> {"none", "ok", "error"}]
      /\ DOMAIN dump = Requests
      /\ pc[r] \in Locked \cup {"lock"} => at[r] <= Len(KeysOf[r])
  BY PinholeAssumption DEF TInv, TypeOK, AtKey
<1> USE <1>1 DEF Steps, Locked, Extending, Goto
<1>2. CASE createFails(r)
  BY <1>2 DEF createFails
<1>3. CASE CallNext(r) \/ Close(r)
  BY <1>3 DEF CallNext, Close
<1>4. CASE Check(r)
  <2>1. CASE Known(r)
    BY <1>4, <2>1 DEF Check, NextKey
  <2>2. CASE ~Known(r)
    BY <1>4, <2>2 DEF Check
  <2>3. QED
    BY <2>1, <2>2
<1>5. CASE Return(r)
  <2>1. CASE afXdp
    BY <1>5, <2>1 DEF Return
  <2>2. CASE ~afXdp
    BY <1>5, <2>2 DEF Return
  <2>3. QED
    BY <2>1, <2>2
<1>6. CASE Lock(r) \/ Recheck(r)
  BY <1>6 DEF Lock, Recheck
<1>7. CASE createNothing(r)
  BY <1>7 DEF createNothing
<1>8. CASE Unlock(r)
  BY <1>8 DEF Unlock, NextKey
<1>9. CASE UnlockFailed(r)
  BY <1>9 DEF UnlockFailed
<1>10. CASE RequestXdp(r)
  <2>1. CASE updateXdpPinhole(r)
    BY <1>10, <2>1 DEF RequestXdp, updateXdpPinhole
  <2>2. CASE updateXdpPinholeFails(r) \/ XdpReturn(r)
    BY <1>10, <2>2 DEF RequestXdp, updateXdpPinholeFails, XdpReturn
  <2>3. QED
    BY <1>10, <2>1, <2>2 DEF RequestXdp
<1>11. QED
  BY <1>2, <1>3, <1>4, <1>5, <1>6, <1>7, <1>8, <1>9, <1>10 DEF Step, Request

(* The maps of the elements, the mutexes and the map of the XDP program.   *)
LEMMA MapsType ==
    ASSUME TInv, NEW r \in Requests, Step(r)
    PROVE  /\ ipPortMap' \in [Elements -> SUBSET Key]
           /\ mutex' \in [Mutexes -> Requests \cup {Nobody}]
           /\ afXdp' = afXdp
           /\ xdpPinhole' \subseteq Ports /\ xdpPinhole \subseteq xdpPinhole'
<1>1. /\ ipPortMap \in [Elements -> SUBSET Key]
      /\ mutex \in [Mutexes -> Requests \cup {Nobody}]
      /\ xdpPinhole \subseteq Ports
  BY DEF TInv, TypeOK
<1>2. CASE Request(r) /\ UNCHANGED xdpVars
  <2>1. ipPortMap' = ipPortMap \/ (Remember(r) /\ pc[r] \in Locked)
    BY <1>2 DEF Request, CallNext, Check, Return, Lock, Recheck, interfacesACLDetails, AddIngress,
                AddEgress, create, createNothing, createFails, Unlock, UnlockFailed, Close, Locked
  <2>2. ipPortMap' \in [Elements -> SUBSET Key]
    <3>1. CASE Remember(r) /\ pc[r] \in Locked
      <4>1. ElementOf[r] \in Elements /\ CurrentKey(r) \in Key
        BY <3>1, KeyType DEF TInv, AtKey
      <4>2. QED
        BY <1>1, <3>1, <4>1 DEF Remember
    <3>2. QED
      BY <1>1, <2>1, <3>1
  <2>3. \/ mutex' = mutex
        \/ mutex' = [mutex EXCEPT ![MyMutex(r)] = r]
        \/ mutex' = [mutex EXCEPT ![MyMutex(r)] = Nobody]
    BY <1>2 DEF Request, CallNext, Check, Return, Lock, Recheck, interfacesACLDetails, AddIngress,
                AddEgress, create, createNothing, createFails, Unlock, UnlockFailed, Close
  <2>4. mutex' \in [Mutexes -> Requests \cup {Nobody}]
    BY <1>1, <2>3
  <2>5. QED
    BY <1>1, <1>2, <2>2, <2>4 DEF xdpVars
<1>3. CASE RequestXdp(r) /\ UNCHANGED afXdp
  <2>1. UNCHANGED <<ipPortMap, mutex>>
    BY <1>3 DEF RequestXdp
  <2>2. CASE updateXdpPinhole(r)
    <3>1. CurrentKey(r).port \in Ports
      BY <2>2, KeyType DEF updateXdpPinhole
    <3>2. QED
      BY <1>1, <1>3, <2>1, <2>2, <3>1 DEF updateXdpPinhole
  <2>3. CASE updateXdpPinholeFails(r) \/ XdpReturn(r)
    BY <1>1, <1>3, <2>1, <2>3 DEF updateXdpPinholeFails, XdpReturn
  <2>4. QED
    BY <1>3, <2>2, <2>3 DEF RequestXdp
<1>4. QED
  BY <1>2, <1>3 DEF Step

(* A list grows into a list when ACLs are added to VPP. *)
LEMMA ListsType ==
    ASSUME NEW A \in Seq(ACL), NEW k \in ACL
    PROVE  [Directions -> Seq(1..Len(A))] \subseteq [Directions -> Seq(1..Len(Append(A, k)))]
<1>1. Len(A) \in Nat /\ Len(Append(A, k)) = Len(A) + 1
  OBVIOUS
<1>2. \A l \in Seq(1..Len(A)) : l \in Seq(1..Len(A) + 1)
  BY <1>1
<1>3. QED
  BY <1>1, <1>2

(* addToACLToACLListIfNeeded leaves lists of ACLs of VPP. *)
LEMMA AddType ==
    ASSUME TInv, NEW r \in Requests, at[r] <= Len(KeysOf[r]), NEW d \in Directions,
           addToACLToACLListIfNeeded(r, d), UNCHANGED lists
    PROVE  /\ acls' \in Seq(ACL)
           /\ lists' \in [Interfaces -> ACLLists']
           /\ dump' \in [Requests -> ACLLists']
           /\ \A q \in Requests \ {r} : dump'[q] = dump[q]
           /\ Len(acls) <= Len(acls') /\ \A j \in 1..Len(acls) : acls'[j] = acls[j]
<1>1. acls \in Seq(ACL) /\ lists \in [Interfaces -> ACLLists] /\ dump \in [Requests -> ACLLists]
  BY DEF TInv, TypeOK
<1>2. CASE ~Needed(dump[r][d], CurrentKey(r))
  BY <1>1, <1>2 DEF addToACLToACLListIfNeeded, ACLLists
<1>3. CASE Needed(dump[r][d], CurrentKey(r))
  <2> DEFINE k == CurrentKey(r)
  <2>1. k \in ACL
    BY KeyType DEF ACL
  <2>2. /\ acls' = Append(acls, k)
        /\ dump' = [dump EXCEPT ![r][d] = <<Len(acls) + 1>> \o dump[r][d]]
    BY <1>3 DEF addToACLToACLListIfNeeded, createACLAddReplace
  <2> HIDE DEF k
  <2>3. /\ acls' \in Seq(ACL) /\ Len(acls') = Len(acls) + 1 /\ Len(acls) \in Nat
        /\ \A j \in 1..Len(acls) : acls'[j] = acls[j]
    BY <1>1, <2>1, <2>2
  <2>4. ACLLists \subseteq ACLLists'
    BY <1>1, <2>1, <2>2, ListsType DEF ACLLists
  <2>5. dump[r] \in ACLLists' /\ dump[r][d] \in Seq(1..Len(acls'))
    BY <1>1, <2>4 DEF ACLLists
  <2>6. <<Len(acls) + 1>> \o dump[r][d] \in Seq(1..Len(acls'))
    BY <2>3, <2>5, Prepend
  <2>7. [dump[r] EXCEPT ![d] = <<Len(acls) + 1>> \o dump[r][d]] \in ACLLists'
    BY <2>5, <2>6 DEF ACLLists
  <2>8. \A q \in Requests : dump'[q] = IF q = r THEN [dump[r] EXCEPT ![d] = <<Len(acls) + 1>> \o dump[r][d]] ELSE dump[q]
    BY <1>1, <2>2
  <2>9. dump' \in [Requests -> ACLLists']
    <3>1. DOMAIN dump' = Requests /\ dump' = [q \in Requests |-> dump'[q]]
      BY <1>1, <2>2
    <3>2. \A q \in Requests : dump'[q] \in ACLLists'
      BY <1>1, <2>4, <2>7, <2>8
    <3>3. QED
      BY <3>1, <3>2
  <2>10. lists' \in [Interfaces -> ACLLists']
    BY <1>1, <2>4
  <2>11. QED
    BY <2>3, <2>8, <2>9, <2>10
<1>4. QED
  BY <1>2, <1>3

(* The step from a request's step to its next one in create. *)
LEMMA Creates ==
    ASSUME TInv, NEW r \in Requests,
           interfacesACLDetails(r) \/ AddIngress(r) \/ AddEgress(r) \/ create(r)
    PROVE  /\ UNCHANGED <<at, mutex, result>>
           /\ pc[r] \in Locked /\ pc'[r] \in Locked /\ at[r] <= Len(KeysOf[r])
           /\ pc' \in [Requests -> Steps]
           /\ \A q \in Requests \ {r} : pc'[q] = pc[q]
<1>1. pc \in [Requests -> Steps]
  BY DEF TInv, TypeOK
<1>2. UNCHANGED <<at, mutex, result>> /\ pc[r] \in {"dump", "addIn", "addOut", "set"}
  BY DEF interfacesACLDetails, AddIngress, AddEgress, create
<1>3. \E s \in {"addIn", "addOut", "set", "unlock"} : pc' = [pc EXCEPT ![r] = s]
  BY DEF interfacesACLDetails, AddIngress, AddEgress, create, Goto
<1>4. QED
  BY <1>1, <1>2, <1>3 DEF Locked, Steps, TInv, AtKey

(* Every step keeps the types. *)
LEMMA StepTInv ==
    ASSUME TInv, NEW r \in Requests, Step(r)
    PROVE  TInv'
<1>1. /\ acls \in Seq(ACL) /\ lists \in [Interfaces -> ACLLists] /\ dump \in [Requests -> ACLLists]
      /\ at \in [Requests -> Nat] /\ pc \in [Requests -> Steps] /\ afXdp \in BOOLEAN
      /\ result \in [Requests -> {"none", "ok", "error"}]
  BY DEF TInv, TypeOK
<1>2. NoLists \in ACLLists
  BY DEF NoLists, ACLLists
<1>3. /\ acls' \in Seq(ACL)
      /\ lists' \in [Interfaces -> ACLLists']
      /\ dump' \in [Requests -> ACLLists']
  <2>1. CASE interfacesACLDetails(r)
    <3>1. tunnelIPSwIfIndex(r) \in Interfaces
      BY <2>1, Creates, KeyType DEF interfacesACLDetails
    <3>2. lists[tunnelIPSwIfIndex(r)] \in ACLLists
      BY <1>1, <3>1
    <3>3. /\ UNCHANGED <<acls, lists>> /\ ACLLists' = ACLLists
          /\ dump' = [dump EXCEPT ![r] = lists[tunnelIPSwIfIndex(r)]]
      BY <2>1 DEF interfacesACLDetails, ACLLists
    <3>4. QED
      BY <1>1, <3>2, <3>3
  <2>2. CASE AddIngress(r)
    <3>1. at[r] <= Len(KeysOf[r]) /\ addToACLToACLListIfNeeded(r, "in") /\ UNCHANGED lists
      BY <2>2, Creates DEF AddIngress
    <3>2. QED
      BY <3>1, AddType DEF Directions
  <2>3. CASE AddEgress(r)
    <3>1. at[r] <= Len(KeysOf[r]) /\ addToACLToACLListIfNeeded(r, "out") /\ UNCHANGED lists
      BY <2>3, Creates DEF AddEgress
    <3>2. QED
      BY <3>1, AddType DEF Directions
  <2>4. CASE create(r)
    <3>1. /\ UNCHANGED <<acls, dump>> /\ ACLLists' = ACLLists
          /\ lists' = [lists EXCEPT ![tunnelIPSwIfIndex(r)] = dump[r]]
      BY <2>4 DEF create, ACLLists
    <3>2. QED
      BY <1>1, <3>1
  <2>5. CASE ~(interfacesACLDetails(r) \/ AddIngress(r) \/ AddEgress(r) \/ create(r))
    <3>1. UNCHANGED <<acls, lists>> /\ (dump' = dump \/ dump' = [dump EXCEPT ![r] = NoLists])
      BY <2>5, Moves
    <3>2. ACLLists' = ACLLists
      BY <3>1 DEF ACLLists
    <3>3. QED
      BY <1>1, <1>2, <3>1, <3>2
  <2>6. QED
    BY <2>1, <2>2, <2>3, <2>4, <2>5
<1>4. /\ at' \in [Requests -> Nat] /\ pc' \in [Requests -> Steps]
      /\ result' \in [Requests -> {"none", "ok", "error"}]
      /\ AtKey'
  <2>1. CASE interfacesACLDetails(r) \/ AddIngress(r) \/ AddEgress(r) \/ create(r)
    BY <1>1, <2>1, Creates DEF TInv, AtKey
  <2>2. CASE ~(interfacesACLDetails(r) \/ AddIngress(r) \/ AddEgress(r) \/ create(r))
    BY <1>1, <2>2, Moves DEF TInv, AtKey
  <2>3. QED
    BY <2>1, <2>2
<1>5. TypeOK'
  BY <1>1, <1>3, <1>4, MapsType DEF TypeOK
<1>6. QED
  BY <1>4, <1>5 DEF TInv

(* The types at the start. *)
LEMMA InitTInv == Init => TInv
<1> SUFFICES ASSUME Init PROVE TInv
  OBVIOUS
<1>1. acls = <<Other>> /\ acls \in Seq(ACL) /\ Len(acls) = 1
  BY DEF Init, ACL
<1>2. <<>> \in Seq(1..Len(acls)) /\ <<1>> \in Seq(1..Len(acls))
  BY <1>1
<1>3. lists \in [Interfaces -> ACLLists] /\ dump \in [Requests -> ACLLists]
  BY <1>2 DEF Init, ACLLists, NoLists
<1>4. /\ ipPortMap \in [Elements -> SUBSET Key]
      /\ mutex \in [Mutexes -> Requests \cup {Nobody}]
      /\ at \in [Requests -> Nat] /\ pc \in [Requests -> Steps]
      /\ result \in [Requests -> {"none", "ok", "error"}]
      /\ afXdp \in BOOLEAN /\ xdpPinhole \subseteq Ports
  BY DEF Init, Steps
<1>5. AtKey
  BY DEF Init, AtKey, Locked
<1>6. QED
  BY <1>1, <1>3, <1>4, <1>5 DEF TInv, TypeOK

(* A step that changes nothing keeps the types. *)
LEMMA StutterTInv == TInv /\ UNCHANGED vars => TInv'
  BY DEF TInv, TypeOK, AtKey, ACLLists, vars, xdpVars

(* The lists of an interface, and what a request works on, are lists of    *)
(* ACLs that VPP has, whatever fails and whoever shares a mutex.           *)
THEOREM PinholeTypeOK == Spec => []TypeOK
<1>1. TInv /\ [Next]_vars => TInv'
  BY StepTInv, StutterTInv DEF Next
<1>2. QED
  BY <1>1, InitTInv, PTL DEF Spec, TInv

-----------------------------------------------------------------------------
(* The mutex *)

(* The mutex is released by the request that holds it. *)
LEMMA StepHolds ==
    ASSUME TInv, HoldsMutex, NEW r \in Requests, Step(r)
    PROVE  HoldsMutex'
<1>1. /\ mutex \in [Mutexes -> Requests \cup {Nobody}] /\ pc \in [Requests -> Steps]
      /\ \A q \in Requests : MyMutex(q) \in Mutexes
      /\ Nobody \notin Requests
  BY PinholeAssumption DEF TInv, TypeOK, MyMutex, Mutexes
<1>2. \A q \in Requests \ {r} : pc'[q] = pc[q]
  BY Creates, Moves
<1>3. CASE Lock(r)
  <2>1. mutex[MyMutex(r)] = Nobody /\ mutex' = [mutex EXCEPT ![MyMutex(r)] = r]
    BY <1>3 DEF Lock
  <2>2. QED
    BY <1>1, <1>2, <2>1 DEF HoldsMutex, MyMutex
<1>4. CASE Unlock(r) \/ UnlockFailed(r)
  <2>1. /\ mutex' = [mutex EXCEPT ![MyMutex(r)] = Nobody]
        /\ pc[r] \in Locked /\ pc'[r] \notin Locked
    BY <1>1, <1>4 DEF Unlock, UnlockFailed, NextKey, Goto, Locked
  <2>2. QED
    BY <1>1, <1>2, <2>1 DEF HoldsMutex, MyMutex
<1>5. CASE ~(Lock(r) \/ Unlock(r) \/ UnlockFailed(r))
  <2>1. mutex' = mutex
    BY <1>5 DEF Step, Request, RequestXdp, CallNext, Check, Return, Recheck, interfacesACLDetails,
                AddIngress, AddEgress, create, createNothing, createFails, Close
  <2>2. pc'[r] \in Locked => pc[r] \in Locked
    <3>1. CASE interfacesACLDetails(r) \/ AddIngress(r) \/ AddEgress(r) \/ create(r)
      BY <3>1, Creates
    <3>2. CASE Recheck(r) \/ createNothing(r) \/ createFails(r)
      BY <1>1, <3>2 DEF Recheck, createNothing, createFails, Goto, Locked
    <3>3. CASE CallNext(r) \/ Check(r) \/ Return(r) \/ Close(r)
      BY <1>1, <3>3 DEF CallNext, Check, NextKey, Return, Close, Goto, Locked
    <3>4. CASE RequestXdp(r)
      BY <1>1, <3>4 DEF RequestXdp, updateXdpPinhole, updateXdpPinholeFails, XdpReturn, Goto, Locked
    <3>5. QED
      BY <1>5, <3>1, <3>2, <3>3, <3>4 DEF Step, Request
  <2>3. QED
    BY <1>2, <2>1, <2>2 DEF HoldsMutex, MyMutex
<1>6. QED
  BY <1>3, <1>4, <1>5

(* With one mutex, one request at a time is past the lock. *)
LEMMA Excludes ==
    ASSUME MutexIsShared, HoldsMutex,
           NEW q \in Requests, NEW r \in Requests, pc[q] \in Locked, pc[r] \in Locked
    PROVE  q = r
<1>1. MyMutex(q) = MyMutex(r)
  BY PinholeAssumption DEF MutexIsShared, MyMutex
<1>2. QED
  BY <1>1 DEF HoldsMutex

-----------------------------------------------------------------------------
(* The lists *)

(* What a list permits, the list extended permits. *)
LEMMA StillOpens ==
    ASSUME NEW A, NEW i, NEW d, NEW l, NEW m, NEW k,
           ListOK(A, i, d, l), ListOK(A, i, d, m), Extends(m, l), Opens(A, l, k)
    PROVE  Opens(A, m, k)
<1> SUFFICES ASSUME OneIPEach PROVE Opens(A, m, k)
  BY DEF Opens
<1>1. CASE m = l
  BY <1>1
<1>2. CASE m # <<>> /\ Tail(m) = l
  <2>1. m \in Seq(1..Len(A)) /\ l # <<>>
    BY <1>2 DEF ListOK
  <2>2. PICK j \in 1..Len(l) : A[l[j]] = k
    BY <2>1 DEF Opens
  <2>3. j + 1 \in 1..Len(m) /\ m[j + 1] = l[j]
    BY <1>2, <2>1
  <2>4. QED
    BY <2>2, <2>3 DEF Opens
<1>3. QED
  BY <1>1, <1>2 DEF Extends

(* A step outside create leaves the lists as they are. *)
LEMMA MovesListInv ==
    ASSUME TInv, ListInv, NEW r \in Requests, Step(r),
           ~interfacesACLDetails(r), ~AddIngress(r), ~AddEgress(r), ~create(r)
    PROVE  OnInterface' /\ ListsOK' /\ DumpFresh' /\ RememberedOpen'
<1> USE DEF ListInv
<1>1. /\ UNCHANGED <<acls, lists>>
      /\ \A q \in Requests : pc'[q] \in Extending =>
            pc'[q] = pc[q] /\ at'[q] = at[q] /\ dump'[q] = dump[q]
  BY Moves
<1>2. OnInterface'
  BY <1>1 DEF OnInterface, CurrentKey, tunnelIPSwIfIndex
<1>3. ListsOK'
  BY <1>1 DEF ListsOK
<1>4. DumpFresh'
  BY <1>1 DEF DumpFresh, Fresh, Extended, CurrentKey, tunnelIPSwIfIndex
<1>5. \A e \in Elements : \A k \in ipPortMap'[e] : k.port # 0 => k \in ipPortMap[e]
  <2>1. CASE createNothing(r)
    <3>1. /\ ipPortMap' = [ipPortMap EXCEPT ![ElementOf[r]] = @ \cup {CurrentKey(r)}]
          /\ CurrentKey(r).port = 0
      BY <2>1 DEF createNothing, Remember
    <3>2. ipPortMap \in [Elements -> SUBSET Key]
      BY DEF TInv, TypeOK
    <3>3. QED
      BY <3>1, <3>2
  <2>2. CASE ~createNothing(r)
    <3>1. ipPortMap' = ipPortMap
      BY <2>2 DEF Step, Request, RequestXdp, CallNext, Check, Return, Lock, Recheck,
                  createFails, Unlock, UnlockFailed, Close
    <3>2. QED
      BY <3>1
  <2>3. QED
    BY <2>1, <2>2
<1>6. RememberedOpen'
  BY <1>1, <1>5 DEF RememberedOpen
<1>7. QED
  BY <1>2, <1>3, <1>4, <1>6

(* A request under the mutex whose dump was just read. *)
LEMMA DumpListInv ==
    ASSUME MutexIsShared, TInv, ListInv, NEW r \in Requests, interfacesACLDetails(r)
    PROVE  OnInterface' /\ ListsOK' /\ DumpFresh' /\ RememberedOpen'
<1> USE DEF ListInv
<1> DEFINE i == tunnelIPSwIfIndex(r)
<1>1. /\ pc[r] \in Locked /\ pc' = [pc EXCEPT ![r] = "addIn"]
      /\ dump' = [dump EXCEPT ![r] = lists[i]]
      /\ UNCHANGED <<ipPortMap, acls, lists, at>>
      /\ CurrentKey(r).port # 0 /\ i # NoInterface
  BY DEF interfacesACLDetails, Goto, Locked
<1>2. i \in Interfaces
  BY <1>1, Creates, KeyType
<1>3. /\ pc'[r] = "addIn" /\ dump'[r] = lists[i]
      /\ \A q \in Requests \ {r} : pc'[q] \notin Extending
  BY <1>1, Excludes DEF TInv, TypeOK, Locked, Extending
<1>4. OnInterface'
  BY <1>1, <1>2, <1>3 DEF OnInterface, CurrentKey, tunnelIPSwIfIndex
<1>5. ListsOK'
  BY <1>1 DEF ListsOK
<1>6. \A d \in Directions : Fresh(r, d)'
  BY <1>1, <1>3 DEF Fresh, tunnelIPSwIfIndex, CurrentKey
<1>7. DumpFresh'
  BY <1>3, <1>6 DEF DumpFresh, Directions
<1>8. RememberedOpen'
  BY <1>1 DEF RememberedOpen
<1>9. QED
  BY <1>4, <1>5, <1>7, <1>8

(* addToACLToACLListIfNeeded for one direction: the list that is extended  *)
(* opens the key, and the other lists are what they were.                  *)
LEMMA AddOpens ==
    ASSUME TInv, OnInterface, ListsOK, RememberedOpen,
           NEW r \in Requests, pc[r] \in Extending, NEW d \in Directions, Fresh(r, d),
           addToACLToACLListIfNeeded(r, d), UNCHANGED <<ipPortMap, lists, at>>
    PROVE  /\ Extended(r, d)'
           /\ \A e \in Directions \ {d} :
                 (Fresh(r, e) => Fresh(r, e)') /\ (Extended(r, e) => Extended(r, e)')
           /\ ListsOK' /\ RememberedOpen'
<1> DEFINE k == CurrentKey(r)
           i == tunnelIPSwIfIndex(r)
           l == lists[i][d]
<1>1. at[r] <= Len(KeysOf[r])
  BY DEF TInv, AtKey, Extending, Locked
<1>2. /\ acls \in Seq(ACL) /\ acls' \in Seq(ACL)
      /\ lists \in [Interfaces -> ACLLists] /\ dump \in [Requests -> ACLLists]
      /\ Len(acls) <= Len(acls') /\ \A j \in 1..Len(acls) : acls'[j] = acls[j]
  BY <1>1, AddType DEF TInv, TypeOK
<1>3. /\ CurrentKey(r)' = k /\ tunnelIPSwIfIndex(r)' = i
      /\ i \in Interfaces /\ k \in PinholesOf(i)
  BY <1>1, KeyType DEF OnInterface, PinholesOf, tunnelIPSwIfIndex, CurrentKey
<1>4. ASSUME NEW m \in Seq(1..Len(acls))
      PROVE  /\ \A j, e : ListOK(acls, j, e, m) => ListOK(acls', j, e, m)
             /\ \A c : Opens(acls, m, c) => Opens(acls', m, c)
  BY <1>2, MoreACLs
<1>5. \A j \in Interfaces, e \in Directions : lists[j][e] \in Seq(1..Len(acls))
  BY <1>2 DEF ACLLists
<1>6. ListsOK'
  BY <1>4, <1>5 DEF ListsOK
<1>7. RememberedOpen'
  BY <1>4, <1>5 DEF RememberedOpen
<1>8. dump[r][d] = l /\ ListOK(acls, i, d, l)
  BY <1>3 DEF Fresh, ListsOK
<1>9. /\ ListOK(acls', i, d, dump'[r][d]) /\ Extends(dump'[r][d], l)
      /\ Opens(acls', dump'[r][d], k)
  <2>1. CASE Needed(l, k)
    <3>1. /\ acls' = Append(acls, k)
          /\ dump' = [dump EXCEPT ![r][d] = <<Len(acls) + 1>> \o dump[r][d]]
      BY <1>8, <2>1 DEF addToACLToACLListIfNeeded, createACLAddReplace
    <3>2. dump'[r][d] = <<Len(acls) + 1>> \o l
      BY <1>2, <1>8, <3>1 DEF ACLLists
    <3>3. l # <<>> /\ \A j \in 1..Len(l) : Tag(acls[l[j]]) # k.port
      BY <2>1 DEF Needed
    <3> HIDE DEF k, i, l
    <3>4. QED
      BY <1>2, <1>3, <1>8, <3>1, <3>2, <3>3, AddedRight
  <2>2. CASE ~Needed(l, k)
    <3>1. acls' = acls /\ dump' = dump
      BY <1>8, <2>2 DEF addToACLToACLListIfNeeded
    <3>2. Opens(acls, l, k)
      <4>1. CASE l = <<>>
        BY <4>1 DEF Opens
      <4>2. CASE l # <<>>
        <5>1. PICK j \in 1..Len(l) : Tag(acls[l[j]]) = k.port
          BY <2>2, <4>2 DEF Needed
        <5> HIDE DEF k, i, l
        <5>2. QED
          BY <1>3, <1>8, <5>1, FoundByTag
      <4>3. QED
        BY <4>1, <4>2
    <3>3. QED
      BY <1>8, <3>1, <3>2 DEF Extends
  <2>3. QED
    BY <2>1, <2>2
<1>10. ASSUME NEW e \in Directions \ {d} PROVE dump'[r][e] = dump[r][e] /\ dump[r][e] \in Seq(1..Len(acls))
  BY <1>2 DEF addToACLToACLListIfNeeded, ACLLists
<1>11. Extended(r, d)'
  BY <1>3, <1>9 DEF Extended
<1>12. ASSUME NEW e \in Directions \ {d}, Fresh(r, e) PROVE Fresh(r, e)'
  BY <1>3, <1>10, <1>12 DEF Fresh
<1>13. ASSUME NEW e \in Directions \ {d}, Extended(r, e) PROVE Extended(r, e)'
  BY <1>3, <1>4, <1>10, <1>13 DEF Extended
<1>14. QED
  BY <1>6, <1>7, <1>11, <1>12, <1>13

(* A new ACL for one direction keeps what is known of the lists. *)
LEMMA AddListInv ==
    ASSUME MutexIsShared, TInv, ListInv, NEW r \in Requests, AddIngress(r) \/ AddEgress(r)
    PROVE  OnInterface' /\ ListsOK' /\ DumpFresh' /\ RememberedOpen'
<1> USE DEF ListInv
<1>1. /\ UNCHANGED <<ipPortMap, mutex, lists, at>> /\ pc[r] \in Locked /\ pc[r] \in Extending
      /\ pc \in [Requests -> Steps]
  BY DEF AddIngress, AddEgress, Extending, Locked, TInv, TypeOK
<1>2. \A q \in Requests \ {r} : pc'[q] \notin Extending
  BY <1>1, Creates, Excludes DEF Locked, Extending
<1>3. OnInterface'
  BY <1>1, <1>2 DEF OnInterface, CurrentKey, tunnelIPSwIfIndex
<1>4. CASE AddIngress(r)
  <2>1. pc[r] = "addIn" /\ pc'[r] = "addOut" /\ addToACLToACLListIfNeeded(r, "in")
    BY <1>1, <1>4 DEF AddIngress, Goto
  <2>2. Fresh(r, "in") /\ Fresh(r, "out")
    BY <1>1, <2>1 DEF DumpFresh
  <2>3. Extended(r, "in")' /\ Fresh(r, "out")' /\ ListsOK' /\ RememberedOpen'
    BY <1>1, <2>1, <2>2, AddOpens DEF Directions
  <2>4. QED
    BY <1>2, <1>3, <2>1, <2>3 DEF DumpFresh
<1>5. CASE AddEgress(r)
  <2>1. pc[r] = "addOut" /\ pc'[r] = "set" /\ addToACLToACLListIfNeeded(r, "out")
    BY <1>1, <1>5 DEF AddEgress, Goto
  <2>2. Extended(r, "in") /\ Fresh(r, "out")
    BY <1>1, <2>1 DEF DumpFresh
  <2>3. Extended(r, "in")' /\ Extended(r, "out")' /\ ListsOK' /\ RememberedOpen'
    BY <1>1, <2>1, <2>2, AddOpens DEF Directions
  <2>4. QED
    BY <1>2, <1>3, <2>1, <2>3 DEF DumpFresh
<1>6. QED
  BY <1>4, <1>5

(* The extended lists replace those of the interface, and the key is       *)
(* remembered: what was open stays open.                                   *)
LEMMA CreateListInv ==
    ASSUME MutexIsShared, TInv, ListInv, NEW r \in Requests, create(r)
    PROVE  OnInterface' /\ ListsOK' /\ DumpFresh' /\ RememberedOpen'
<1> USE DEF ListInv
<1> DEFINE i == tunnelIPSwIfIndex(r)
<1>1. /\ pc[r] = "set" /\ pc' = [pc EXCEPT ![r] = "unlock"]
      /\ lists' = [lists EXCEPT ![i] = dump[r]]
      /\ ipPortMap' = [ipPortMap EXCEPT ![ElementOf[r]] = @ \cup {CurrentKey(r)}]
      /\ UNCHANGED <<acls, dump, at>>
  BY DEF create, Goto, Remember
<1>2. pc \in [Requests -> Steps] /\ lists \in [Interfaces -> ACLLists] /\ ipPortMap \in [Elements -> SUBSET Key]
  BY DEF TInv, TypeOK
<1>3. \A q \in Requests : pc'[q] \notin Extending
  BY <1>1, <1>2, Excludes DEF Locked, Extending
<1>4. i \in Interfaces /\ \A d \in Directions : Extended(r, d)
  BY <1>1 DEF OnInterface, DumpFresh, Extending, Directions
<1>5. \A j \in Interfaces, d \in Directions : lists'[j][d] = IF j = i THEN dump[r][d] ELSE lists[j][d]
  BY <1>1, <1>2
<1>6. ListsOK'
  BY <1>1, <1>4, <1>5 DEF ListsOK, Extended
<1>7. ASSUME NEW j \in Interfaces, NEW d \in Directions, NEW k, Opens(acls, lists[j][d], k)
      PROVE  Opens(acls, lists'[j][d], k)
  <2>1. CASE j = i
    BY <1>4, <1>5, <1>7, <2>1, StillOpens DEF Extended, ListsOK
  <2>2. CASE j # i
    BY <1>5, <1>7, <2>2
  <2>3. QED
    BY <2>1, <2>2
<1>8. \A d \in Directions : Opens(acls, lists'[i][d], CurrentKey(r))
  BY <1>4, <1>5 DEF Extended
<1>9. RememberedOpen'
  <2>1. \A e \in Elements : \A k \in ipPortMap'[e] : k \in ipPortMap[e] \/ k = CurrentKey(r)
    BY <1>1, <1>2
  <2>2. i = Owner[CurrentKey(r).ip]
    BY DEF tunnelIPSwIfIndex
  <2> HIDE DEF i
  <2>3. QED
    BY <1>1, <1>4, <1>7, <1>8, <2>1, <2>2 DEF RememberedOpen
<1>10. QED
  BY <1>3, <1>6, <1>9 DEF OnInterface, DumpFresh

(* Every step keeps what is known of the lists. *)
LEMMA StepListInv ==
    ASSUME MutexIsShared, TInv, ListInv, NEW r \in Requests, Step(r)
    PROVE  ListInv'
<1>1. HoldsMutex'
  BY StepHolds DEF ListInv
<1>2. OnInterface' /\ ListsOK' /\ DumpFresh' /\ RememberedOpen'
  BY MovesListInv, DumpListInv, AddListInv, CreateListInv
<1>3. QED
  BY <1>1, <1>2 DEF ListInv

-----------------------------------------------------------------------------
(* The map of the XDP program *)

(* Every step keeps the port of a key that is done in the map. *)
LEMMA StepXdp ==
    ASSUME TInv, XdpSoFar, NEW r \in Requests, Step(r)
    PROVE  XdpSoFar'
<1>1. /\ at \in [Requests -> Nat] /\ pc \in [Requests -> Steps]
      /\ result \in [Requests -> {"none", "ok", "error"}] /\ Len(KeysOf[r]) \in Nat
  BY PinholeAssumption DEF TInv, TypeOK
<1>2. /\ \A k : PortIn(k) => PortIn(k)'
      /\ afXdp' = afXdp
  BY MapsType DEF PortIn
<1>3. \A q \in Requests \ {r} : pc'[q] = pc[q] /\ at'[q] = at[q] /\ result'[q] = result[q]
  BY Creates, Moves
<1>4. /\ pc'[r] = "xdp" => \A j \in 1..Len(KeysOf[r]) : j < at'[r] => PortIn(KeysOf[r][j])'
      /\ afXdp /\ result'[r] = "ok" => \A j \in 1..Len(KeysOf[r]) : PortIn(KeysOf[r][j])'
  <2>1. CASE Return(r)
    <3>1. CASE afXdp
      BY <1>1, <1>2, <2>1, <3>1 DEF Return, Goto, XdpSoFar
    <3>2. CASE ~afXdp
      BY <1>1, <2>1, <3>2 DEF Return, Goto
    <3>3. QED
      BY <3>1, <3>2
  <2>2. CASE updateXdpPinhole(r)
    <3>1. /\ pc[r] = "xdp" /\ at'[r] = at[r] + 1 /\ result' = result
          /\ xdpPinhole' = xdpPinhole \cup ({CurrentKey(r).port} \ {0})
      BY <1>1, <2>2 DEF updateXdpPinhole
    <3>2. ASSUME NEW j \in 1..Len(KeysOf[r]), j < at'[r] PROVE PortIn(KeysOf[r][j])'
      <4>1. CASE j = at[r]
        BY <3>1, <4>1 DEF CurrentKey, PortIn
      <4>2. CASE j < at[r]
        BY <1>2, <3>1, <4>2 DEF XdpSoFar
      <4>3. QED
        BY <1>1, <3>1, <3>2, <4>1, <4>2
    <3>3. QED
      BY <1>2, <3>1, <3>2 DEF XdpSoFar
  <2>3. CASE XdpReturn(r)
    BY <1>1, <1>2, <2>3 DEF XdpReturn, Goto, XdpSoFar
  <2>4. CASE updateXdpPinholeFails(r)
    BY <1>1, <1>2, <2>4 DEF updateXdpPinholeFails, Goto, XdpSoFar
  <2>5. CASE Request(r) /\ ~Return(r)
    <3>1. pc'[r] # "xdp" /\ (result'[r] = "ok" => result[r] = "ok")
      <4>1. CASE CallNext(r) \/ Check(r) \/ Close(r)
        BY <1>1, <4>1 DEF CallNext, Check, NextKey, Close, Goto
      <4>2. CASE Lock(r) \/ Recheck(r) \/ createNothing(r) \/ createFails(r)
        BY <1>1, <4>2 DEF Lock, Recheck, createNothing, createFails, Goto
      <4>3. CASE Unlock(r) \/ UnlockFailed(r)
        BY <1>1, <4>3 DEF Unlock, UnlockFailed, NextKey, Goto
      <4>4. CASE interfacesACLDetails(r) \/ AddIngress(r) \/ AddEgress(r) \/ create(r)
        BY <4>4, Creates DEF Locked
      <4>5. QED
        BY <2>5, <4>1, <4>2, <4>3, <4>4 DEF Request
    <3>2. QED
      BY <1>2, <3>1 DEF XdpSoFar
  <2>6. QED
    BY <2>1, <2>2, <2>3, <2>4, <2>5 DEF Step, RequestXdp
<1>5. QED
  BY <1>2, <1>3, <1>4 DEF XdpSoFar

-----------------------------------------------------------------------------
(* What the pinholes are for *)

(* The invariant holds at the start. *)
LEMMA InitIInv == Init => IInv
<1> SUFFICES ASSUME Init PROVE ListInv /\ XdpSoFar
  BY InitTInv DEF IInv
<1>1. /\ acls = <<Other>> /\ Len(acls) = 1 /\ acls[1] = Other
      /\ \A i \in Interfaces, d \in Directions : lists[i][d] = IF Filtered[i][d] THEN <<1>> ELSE <<>>
  BY DEF Init
<1>2. ListsOK
  <2> SUFFICES ASSUME NEW i \in Interfaces, NEW d \in Directions PROVE ListOK(acls, i, d, lists[i][d])
    BY DEF ListsOK
  <2>1. Filtered[i][d] \in BOOLEAN
    BY PinholeAssumption
  <2>2. CASE Filtered[i][d]
    <3>1. lists[i][d] = <<1>>
      BY <1>1, <2>2
    <3>2. <<1>> \in Seq(1..1) /\ Len(<<1>>) = 1 /\ <<1>>[1] = 1 /\ <<1>> # <<>>
      OBVIOUS
    <3>3. \A j \in 1..Len(<<1>>) : j = 1
      BY <3>2
    <3>4. QED
      BY <1>1, <2>2, <3>1, <3>2, <3>3 DEF ListOK
  <2>3. CASE ~Filtered[i][d]
    <3>1. lists[i][d] = <<>> /\ <<>> \in Seq(1..1) /\ 1..Len(<<>>) = {}
      BY <1>1, <2>3
    <3>2. QED
      BY <1>1, <2>3, <3>1 DEF ListOK
  <2>4. QED
    BY <2>1, <2>2, <2>3
<1>3. HoldsMutex /\ OnInterface /\ DumpFresh /\ RememberedOpen /\ XdpSoFar
  BY DEF Init, HoldsMutex, OnInterface, DumpFresh, RememberedOpen, XdpSoFar, Locked, Extending
<1>4. QED
  BY <1>2, <1>3 DEF ListInv

(* Every step keeps the invariant. *)
LEMMA NextIInv ==
    ASSUME MutexIsShared, IInv, [Next]_vars
    PROVE  IInv'
<1>1. CASE Next
  BY <1>1, StepTInv, StepListInv, StepXdp DEF IInv, Next
<1>2. CASE UNCHANGED vars
  <2>1. TInv' /\ UNCHANGED <<ipPortMap, mutex, acls, lists, dump, at, pc, result, afXdp, xdpPinhole>>
    BY <1>2, StutterTInv DEF IInv, vars, xdpVars
  <2>2. HoldsMutex' /\ OnInterface' /\ ListsOK' /\ RememberedOpen'
    BY <2>1 DEF IInv, ListInv, HoldsMutex, MyMutex, OnInterface, CurrentKey, tunnelIPSwIfIndex, ListsOK, RememberedOpen
  <2>3. DumpFresh' /\ XdpSoFar'
    BY <2>1 DEF IInv, ListInv, DumpFresh, Fresh, Extended, CurrentKey, tunnelIPSwIfIndex, XdpSoFar, PortIn
  <2>4. QED
    BY <2>1, <2>2, <2>3 DEF IInv, ListInv
<1>3. QED
  BY <1>1, <1>2

(* What the pinholes are for follows from the invariant. *)
LEMMA IInvExact ==
    ASSUME OneIPEach, IInv
    PROVE  PinholesExact
<1> USE DEF IInv, ListInv
<1>1. PinholeOpen
  <2> SUFFICES ASSUME NEW e \in Elements, NEW k \in ipPortMap[e], k.port # 0,
                      NEW d \in Directions, Filtered[Owner[k.ip]][d]
               PROVE  Permits(Owner[k.ip], d, k)
    BY DEF PinholeOpen
  <2>1. Owner[k.ip] \in Interfaces /\ Opens(acls, lists[Owner[k.ip]][d], k)
    BY DEF RememberedOpen
  <2>2. lists[Owner[k.ip]][d] # <<>>
    BY <2>1 DEF ListsOK, ListOK
  <2>3. QED
    BY <2>1, <2>2 DEF Opens, Permits
<1>2. NothingElse
  BY DEF NothingElse, ListsOK, ListOK
<1>3. XdpOpen
  BY DEF XdpOpen, XdpSoFar, PortIn
<1>4. QED
  BY <1>1, <1>2, <1>3 DEF PinholesExact

(* No step takes an ACL off an interface. *)
LEMMA NextGrows ==
    ASSUME IInv, [Next]_vars, NEW i \in Interfaces, NEW d \in Directions
    PROVE  IsSuffix(lists[i][d], lists'[i][d])
<1> USE DEF IInv, ListInv
<1>1. lists \in [Interfaces -> ACLLists] /\ dump \in [Requests -> ACLLists] /\ lists[i][d] \in Seq(1..Len(acls))
  BY DEF TInv, TypeOK, ACLLists
<1>2. lists'[i][d] \in Seq(1..Len(acls)) /\ Extends(lists'[i][d], lists[i][d])
  <2>1. CASE UNCHANGED lists
    BY <1>1, <2>1 DEF Extends
  <2>2. ASSUME NEW r \in Requests, create(r)
        PROVE  lists'[i][d] \in Seq(1..Len(acls)) /\ Extends(lists'[i][d], lists[i][d])
    <3>1. pc[r] = "set" /\ lists' = [lists EXCEPT ![tunnelIPSwIfIndex(r)] = dump[r]]
      BY <2>2 DEF create
    <3>2. Extended(r, d)
      BY <3>1 DEF DumpFresh, Extending, Directions
    <3>3. dump[r][d] \in Seq(1..Len(acls))
      BY <1>1 DEF ACLLists
    <3>4. CASE i = tunnelIPSwIfIndex(r)
      BY <1>1, <3>1, <3>2, <3>3, <3>4 DEF Extended
    <3>5. CASE i # tunnelIPSwIfIndex(r)
      BY <1>1, <3>1, <3>5 DEF Extends
    <3>6. QED
      BY <3>4, <3>5
  <2>3. ASSUME NEW r \in Requests, Step(r), ~create(r) PROVE UNCHANGED lists
    BY <2>3, Moves DEF interfacesACLDetails, AddIngress, AddEgress
  <2>4. QED
    BY <2>1, <2>2, <2>3 DEF Next, vars
<1>3. QED
  BY <1>1, <1>2, ExtendsSuffix

(* The elements of a forwarder, which share a mutex, open the pinholes     *)
(* that successful requests need and no others, whatever fails, if no two  *)
(* tunnel IPs are on one interface (the tag has the port and not the IP).  *)
THEOREM PinholesRight ==
    ASSUME MutexIsShared, OneIPEach
    PROVE  Spec => []PinholesExact
<1>1. IInv /\ [Next]_vars => IInv'
  BY NextIInv
<1>2. QED
  BY <1>1, InitIInv, IInvExact, PTL DEF Spec

(* With a shared mutex the read-modify-write of a list drops no ACL that   *)
(* another request has put there, however many IPs an interface has.       *)
THEOREM PinholeListsGrow ==
    ASSUME MutexIsShared
    PROVE  Spec => ListsOnlyGrow
<1>1. IInv /\ [Next]_vars => IInv'
  BY NextIInv
<1>2. IInv /\ [Next]_vars => [\A i \in Interfaces, d \in Directions : IsSuffix(lists[i][d], lists'[i][d])]_vars
  BY NextGrows
<1>3. QED
  BY <1>1, <1>2, InitIInv, PTL DEF Spec, ListsOnlyGrow

-----------------------------------------------------------------------------
(***************************************************************************)
(* BridgeDomain.  The inductive invariant says where a connection stands   *)
(* (PlaceOK), what it knows of its bridge (TableOK), and how the map and   *)
(* the interfaces of VPP hang together; what holds only if no deletion     *)
(* fails (PortOK, Exact, KeyLive) is a part of its own.                    *)
(***************************************************************************)

(* The look for a sub-interface by a part of its name finds that of the    *)
(* device, for the name of no device contains that of another.             *)
NamesApart == \A d \in Devices : Matching[d] = {d}

(* The interface towards the vlan of a connection, if it exists, and the   *)
(* key of its bridge.                                                      *)
Client(c) == IF VlanOf[c] = 0 THEN DeviceOf[c] ELSE sub[DeviceOf[c]][VlanOf[c]]
Own(c) == <<VlanOf[c], Client(c)>>

(* The metadata of a connection has what is its own. *)
HasClient(c) == clientIf[c] = Client(c) /\ Client(c) # NoIf /\ vlanID[c] = VlanOf[c]

(* The stages that need the metadata, those that bridge it, and those with *)
(* the key of the connection or its bridge.                                *)
Bridging == {"load", "newbridge", "attachserver", "attachclient"}
Attaching == {"newbridge", "attachserver", "attachclient"}
Detaching == {"detachserver", "last", "detachclient", "delsubif"}
Working == {"vtr", "mtu", "mech"} \cup Bridging \cup Detaching
WithBridge == {"attachserver", "attachclient", "delbridge"} \cup Detaching

(* The handlers of one vlan do not overlap. *)
Serial == \A c, d \in Conns :
    VlanOf[c] = VlanOf[d] /\ stage[c] # "ready" /\ stage[d] # "ready" => c = d

(* A connection has its own port. *)
OwnPort == /\ \A c \in Conns : serverIf[c] # NoIf => serverIf[c] \in ports
           /\ \A c, d \in Conns : serverIf[c] = serverIf[d] /\ serverIf[c] # NoIf => c = d

(* VPP gives an index to one interface at a time. *)
SubsApart ==
    /\ \A d \in Devices, v \in Vlans : sub[d][v] # NoIf => v # 0 /\ sub[d][v] \notin ports
    /\ \A d, e \in Devices, v, w \in Vlans :
           sub[d][v] = sub[e][w] /\ sub[d][v] # NoIf => d = e /\ v = w

(* The map has every bridge of VPP, under one key. *)
BridgesOK ==
    /\ \A k \in bridgeDomainKey : bridges[k] # NoBd => bridges[k] \in bds
    /\ \A k, l \in bridgeDomainKey : bridges[k] = bridges[l] /\ bridges[k] # NoBd => k = l
    /\ \A b \in bds : \E k \in bridgeDomainKey : bridges[k] = b

(* What is in a bridge exists, and is in the attached map. *)
MembersOK == \A i \in SwIfs : member[i] # NoBd =>
    Exists(i) /\ member[i] \in bds /\ i \in attached[member[i]]

(* Beside ports, a bridge has only the interface of its key. *)
PortOrClient == \A i \in SwIfs, k \in bridgeDomainKey :
    member[i] = bridges[k] /\ bridges[k] # NoBd /\ i \notin ports => k[2] = i

(* The port of a connection is in no bridge but its own. *)
InOwn == \A c \in Conns : serverIf[c] # NoIf /\ member[serverIf[c]] # NoBd =>
    Client(c) # NoIf /\ bridges[Own(c)] = member[serverIf[c]]

(* What a connection has at its stage. *)
PlaceOK(c) ==
    /\ stage[c] = "subif" => clientIf[c] = NoIf /\ VlanOf[c] # 0
    /\ stage[c] \in Working => HasClient(c)
    /\ stage[c] \in {"ready", "del"} /\ clientIf[c] # NoIf => HasClient(c)
    /\ stage[c] = "ready" /\ clientIf[c] # NoIf => granted[c]
    /\ granted[c] => stage[c] = "ready" /\ HasClient(c)
    /\ granted[c] \/ stage[c] \in Bridging => serverIf[c] # NoIf
    /\ serverIf[c] # NoIf \/ stage[c] = "mech" => DeviceOf[c] \in mtus
    /\ VlanOf[c] # 0 /\ (granted[c] \/ stage[c] \in {"mtu", "mech"} \cup Bridging) => clientIf[c] \in popped

(* What it knows about its bridge. *)
TableOK(c) ==
    /\ stage[c] \in Attaching \cup Detaching => key[c] = Own(c)
    /\ stage[c] = "newbridge" => bridges[key[c]] = NoBd
    /\ stage[c] \in WithBridge => /\ key[c] \in bridgeDomainKey /\ key[c][1] = VlanOf[c]
                                  /\ l2Bridge[c] \in Bds /\ bridges[key[c]] = l2Bridge[c]
    /\ stage[c] = "attachclient" => serverIf[c] \in attached[l2Bridge[c]]
    /\ stage[c] \in {"detachclient", "delsubif"} => attached[l2Bridge[c]] = {key[c][2]}
    /\ stage[c] = "delsubif" => member[key[c][2]] = NoBd
    /\ stage[c] = "delbridge" => attached[l2Bridge[c]] = {}
    /\ granted[c] => /\ bridges[Own(c)] # NoBd
                     /\ serverIf[c] \in attached[bridges[Own(c)]]
                     /\ clientIf[c] \in attached[bridges[Own(c)]]

(* Without failures of a deletion: a port is there with the metadata, and  *)
(* out of its bridge before it goes. *)
PortOK(c) == serverIf[c] # NoIf =>
    /\ stage[c] \notin {"delbridge", "closenext"} => clientIf[c] # NoIf
    /\ stage[c] \in {"last", "detachclient", "delsubif", "delbridge", "closenext"} => member[serverIf[c]] = NoBd

(* The attached maps are exact, but for the interface that is about to be  *)
(* deleted. *)
Exact == \A k \in bridgeDomainKey, i \in SwIfs :
    bridges[k] # NoBd /\ i \in attached[bridges[k]] =>
        \/ member[i] = bridges[k]
        \/ \E c \in Conns : stage[c] = "delsubif" /\ key[c] = k /\ k[2] = i

(* A key with a bridge is that of an interface that exists, or its bridge  *)
(* is about to be deleted. *)
KeyLive == \A k \in bridgeDomainKey : bridges[k] # NoBd =>
    \/ k[1] = 0 /\ k[2] \in Devices
    \/ \E d \in Devices : sub[d][k[1]] = k[2]
    \/ \E c \in Conns : stage[c] = "delbridge" /\ key[c] = k

BridgeInv == /\ BridgeTypeOK /\ Serial /\ OwnPort /\ SubsApart
             /\ BridgesOK /\ MembersOK /\ PortOrClient /\ InOwn
             /\ \A c \in Conns : PlaceOK(c)
             /\ \A c \in Conns : TableOK(c)
             /\ Undone => (\A c \in Conns : PortOK(c)) /\ Exact /\ KeyLive
-----------------------------------------------------------------------------
(* The interface of a connection and its key are in the types of the       *)
(* model.                                                                  *)
LEMMA BridgeOwn ==
    ASSUME BridgeTypeOK, NEW c \in Conns
    PROVE  /\ DeviceOf[c] \in Devices /\ VlanOf[c] \in Vlans
           /\ Client(c) \in SwIfs \cup {NoIf}
           /\ Client(c) # NoIf => Own(c) \in bridgeDomainKey
           /\ Own(c)[1] = VlanOf[c] /\ Own(c)[2] = Client(c)
BY BridgeAssumption DEF BridgeTypeOK, Client, Own, bridgeDomainKey, SwIfs

(* The keys of the map are pairs. *)
LEMMA BridgeKeys ==
    ASSUME NEW k \in bridgeDomainKey
    PROVE  k[1] \in Vlans /\ k[2] \in SwIfs /\ k = <<k[1], k[2]>>
BY DEF bridgeDomainKey

(* Connections with one interface have the same vlan of the same device,   *)
(* and the interface exists and is no port.                                *)
LEMMA BridgeClients ==
    ASSUME BridgeTypeOK, SubsApart, NEW c \in Conns, Client(c) # NoIf
    PROVE  /\ Client(c) \in SwIfs /\ Client(c) \notin ports /\ Exists(Client(c))
           /\ VlanOf[c] = 0 => Client(c) \in Devices
           /\ VlanOf[c] # 0 => Client(c) \in SubIfs
           /\ \A d \in Conns : Client(d) = Client(c) => VlanOf[d] = VlanOf[c] /\ DeviceOf[d] = DeviceOf[c]
<1> USE BridgeAssumption
<1>1. DeviceOf[c] \in Devices /\ VlanOf[c] \in Vlans /\ Client(c) \in SwIfs
  BY BridgeOwn DEF SwIfs
<1>2. CASE VlanOf[c] = 0
  <2>1. Client(c) \in Devices
    BY <1>1, <1>2 DEF Client
  <2>2. \A d \in Conns : Client(d) = Client(c) => VlanOf[d] = VlanOf[c] /\ DeviceOf[d] = DeviceOf[c]
    BY <1>2, <2>1 DEF Client, BridgeTypeOK
  <2> QED
    BY <1>1, <1>2, <2>1, <2>2 DEF Exists, BridgeTypeOK
<1>3. CASE VlanOf[c] # 0
  <2>1. Client(c) = sub[DeviceOf[c]][VlanOf[c]] /\ Client(c) \in Ifs
    BY <1>1, <1>3 DEF Client, BridgeTypeOK
  <2>2. Client(c) \in SubIfs /\ Client(c) \notin ports
    BY <1>1, <2>1 DEF SubIfs, SubsApart
  <2>3. ASSUME NEW d \in Conns, Client(d) = Client(c)
        PROVE  VlanOf[d] = VlanOf[c] /\ DeviceOf[d] = DeviceOf[c]
    <3>1. VlanOf[d] # 0 /\ DeviceOf[d] \in Devices /\ VlanOf[d] \in Vlans
      BY <2>1, <2>3 DEF Client
    <3>2. sub[DeviceOf[d]][VlanOf[d]] = sub[DeviceOf[c]][VlanOf[c]]
      BY <2>1, <2>3, <3>1 DEF Client
    <3> QED
      BY <1>1, <2>1, <3>1, <3>2 DEF SubsApart
  <2> QED
    BY <1>1, <1>3, <2>2, <2>3 DEF Exists
<1> QED
  BY <1>2, <1>3

(* A step of connection c leaves the metadata and the handlers of the      *)
(* others alone.                                                           *)
OthersKeep(c) == \A e \in Conns : e # c =>
    /\ clientIf'[e] = clientIf[e] /\ serverIf'[e] = serverIf[e] /\ vlanID'[e] = vlanID[e]
    /\ key'[e] = key[e] /\ l2Bridge'[e] = l2Bridge[e]
    /\ granted'[e] = granted[e] /\ stage'[e] = stage[e]

(* A step of connection c takes nothing from another one that has its      *)
(* interface, and keeps what the place of that one needs.                  *)
LEMMA PlaceFrame ==
    ASSUME BridgeInv, NEW c \in Conns, OthersKeep(c), mtus \subseteq mtus',
           NEW e \in Conns, e # c,
           HasClient(e) => Client(e)' = Client(e) /\ (clientIf[e] \in popped => clientIf[e] \in popped')
    PROVE  PlaceOK(e)'
<1>1. PlaceOK(e)
  BY DEF BridgeInv
<1>2. UNCHANGED <<clientIf[e], serverIf[e], vlanID[e], granted[e], stage[e]>>
  BY DEF OthersKeep
<1>3. HasClient(e) => HasClient(e)'
  BY <1>2 DEF HasClient
<1> QED
  BY <1>1, <1>2, <1>3 DEF PlaceOK, Working, Bridging, Detaching

(* A handler that runs has a vlan that no other running one has, so that   *)
(* it can work on the bridge of its key alone.                             *)
LEMMA TableFrame ==
    ASSUME BridgeInv, NEW c \in Conns, OthersKeep(c), stage[c] # "ready",
           NEW kc \in bridgeDomainKey, kc[1] = VlanOf[c],
           NEW e \in Conns, e # c,
           HasClient(e) => Client(e)' = Client(e),
           \A k \in bridgeDomainKey : k # kc => bridges'[k] = bridges[k],
           \A k \in bridgeDomainKey : k # kc /\ bridges[k] # NoBd =>
               attached'[bridges[k]] = attached[bridges[k]],
           granted[e] /\ Own(e) = kc =>
               /\ bridges'[kc] = bridges[kc]
               /\ serverIf[e] \in attached'[bridges[kc]] /\ clientIf[e] \in attached'[bridges[kc]],
           stage[e] = "delsubif" => member'[key[e][2]] = member[key[e][2]]
    PROVE  TableOK(e)'
<1>1. TableOK(e) /\ PlaceOK(e) /\ BridgeTypeOK /\ Serial
  BY DEF BridgeInv
<1>2. UNCHANGED <<clientIf[e], serverIf[e], key[e], l2Bridge[e], granted[e], stage[e]>>
  BY DEF OthersKeep
<1>3. HasClient(e) => Own(e)' = Own(e) /\ Own(e) \in bridgeDomainKey
  BY <1>1, BridgeOwn DEF Own, HasClient
<1>4. CASE stage[e] \in Attaching \cup WithBridge
  <2>1. key[e] \in bridgeDomainKey /\ key[e][1] = VlanOf[e]
    BY <1>1, <1>3, <1>4, BridgeOwn DEF TableOK, PlaceOK, Attaching, WithBridge, Detaching, Working, Bridging
  <2>2. key[e] # kc
    <3>1. VlanOf[e] # VlanOf[c]
      BY <1>1, <1>4 DEF Serial, Attaching, WithBridge, Detaching
    <3> QED
      BY <2>1, <3>1
  <2>3. bridges'[key[e]] = bridges[key[e]]
    BY <2>1, <2>2
  <2>4. bridges[key[e]] # NoBd => attached'[bridges[key[e]]] = attached[bridges[key[e]]]
    BY <2>1, <2>2
  <2>5. l2Bridge[e] \in Bds => l2Bridge[e] # NoBd
    BY BridgeAssumption
  <2>6. ~granted[e]
    BY <1>1, <1>4 DEF PlaceOK, Attaching, WithBridge, Detaching
  <2> QED
    BY <1>1, <1>2, <1>3, <1>4, <2>1, <2>3, <2>4, <2>5, <2>6
       DEF TableOK, PlaceOK, Attaching, WithBridge, Detaching, Working, Bridging
<1>5. CASE stage[e] \notin Attaching \cup WithBridge
  <2>1. ASSUME granted[e]
        PROVE  /\ bridges'[Own(e)'] # NoBd
               /\ serverIf[e] \in attached'[bridges'[Own(e)']]
               /\ clientIf[e] \in attached'[bridges'[Own(e)']]
    <3>1. Own(e)' = Own(e) /\ Own(e) \in bridgeDomainKey
      BY <1>1, <1>3, <2>1 DEF PlaceOK
    <3>2. bridges[Own(e)] # NoBd /\ serverIf[e] \in attached[bridges[Own(e)]]
          /\ clientIf[e] \in attached[bridges[Own(e)]]
      BY <1>1, <2>1 DEF TableOK
    <3>3. CASE Own(e) = kc
      BY <2>1, <3>1, <3>2, <3>3
    <3>4. CASE Own(e) # kc
      BY <3>1, <3>2, <3>4
    <3> QED
      BY <3>3, <3>4
  <2> QED
    BY <1>2, <1>5, <2>1 DEF TableOK, Attaching, WithBridge, Detaching
<1> QED
  BY <1>4, <1>5
(* Connection c starts a handler or goes on with one. *)
LEMMA SerialFrame ==
    ASSUME BridgeTypeOK, Serial, NEW c \in Conns, OthersKeep(c), stage[c] # "ready" \/ Start(c)
    PROVE  Serial'
<1> SUFFICES ASSUME NEW d \in Conns, NEW e \in Conns, VlanOf[d] = VlanOf[e],
                    stage'[d] # "ready", stage'[e] # "ready", d # e
             PROVE  FALSE
  BY DEF Serial
<1>1. CASE d # c /\ e # c
  BY <1>1 DEF Serial, OthersKeep
<1>2. CASE d = c
  BY <1>2 DEF Serial, OthersKeep, Start
<1>3. CASE e = c
  BY <1>3 DEF Serial, OthersKeep, Start
<1> QED
  BY <1>1, <1>2, <1>3

(* A step of c that leaves the bridges, the interfaces and VPP's record of *)
(* both alone: it keeps the invariant if it does for c itself.             *)
LEMMA BridgeQuiet ==
    ASSUME BridgeInv, NEW c \in Conns, OthersKeep(c), stage[c] # "ready" \/ Start(c),
           UNCHANGED <<env, sub, ports, bds, member, serverIf, bridges, attached>>,
           mtus \subseteq mtus', popped \subseteq popped',
           Undone => stage[c] \notin {"delsubif", "delbridge"},
           BridgeTypeOK', PlaceOK(c)', TableOK(c)', Undone => PortOK(c)'
    PROVE  BridgeInv'
<1>1. \A e \in Conns : Client(e)' = Client(e) /\ Own(e)' = Own(e)
  BY DEF Client, Own
<1>2. Serial'
  BY SerialFrame DEF BridgeInv
<1>3. OwnPort' /\ SubsApart' /\ BridgesOK' /\ PortOrClient'
  BY DEF BridgeInv, OwnPort, SubsApart, BridgesOK, PortOrClient
<1>4. MembersOK' /\ InOwn'
  BY <1>1 DEF BridgeInv, MembersOK, InOwn, Exists, SubIfs
<1>5. ASSUME NEW e \in Conns, e # c
      PROVE  PlaceOK(e)'
  BY <1>1, <1>5, PlaceFrame
<1>6. ASSUME NEW e \in Conns, e # c
      PROVE  TableOK(e)' /\ (Undone => PortOK(e)')
  <2>1. TableOK(e) /\ (Undone => PortOK(e))
    BY DEF BridgeInv
  <2>2. UNCHANGED <<clientIf[e], serverIf[e], key[e], l2Bridge[e], granted[e], stage[e]>>
    BY <1>6 DEF OthersKeep
  <2> QED
    BY <1>1, <2>1, <2>2 DEF TableOK, PortOK
<1>7. Undone' <=> Undone
  BY DEF Undone, Faults
<1>8. ASSUME Undone
      PROVE  Exact' /\ KeyLive'
  <2>1. Exact /\ KeyLive
    BY <1>8 DEF BridgeInv
  <2>2. \A e \in Conns : stage[e] \in {"delsubif", "delbridge"} => stage'[e] = stage[e] /\ key'[e] = key[e]
    BY <1>8 DEF OthersKeep
  <2>3. Exact'
    BY <2>1, <2>2 DEF Exact
  <2>4. KeyLive'
    BY <2>1, <2>2 DEF KeyLive
  <2> QED
    BY <2>3, <2>4
<1> QED
  BY <1>2, <1>3, <1>4, <1>5, <1>6, <1>7, <1>8 DEF BridgeInv

-----------------------------------------------------------------------------
(* A request begins: it has its interface, finds it, or has to create it.  *)
LEMMA BridgeAddSubIf ==
    ASSUME NamesApart, BridgeInv, NEW c \in Conns, addSubIf(c), UNCHANGED <<env, mtus>>
    PROVE  BridgeInv'
<1> USE DEF table, local, vpp, meta, GoOn
<1>1. BridgeTypeOK /\ PlaceOK(c) /\ TableOK(c) /\ (Undone => PortOK(c)) /\ SubsApart
  BY DEF BridgeInv
<1>2. stage[c] = "ready" /\ Start(c)
  BY DEF addSubIf, Start
<1>3. UNCHANGED <<sub, ports, bds, member, serverIf, bridges, attached, popped, key, l2Bridge>>
  BY DEF addSubIf
<1>4. Client(c)' = Client(c)
  BY <1>3 DEF Client
<1>5. ASSUME NEW i \in getHostOrVlanInterface(c)
      PROVE  i = Client(c) /\ i # NoIf /\ i \in SwIfs
  <2>1. DeviceOf[c] \in Devices /\ VlanOf[c] \in Vlans
    BY <1>1, BridgeOwn
  <2> QED
    BY <1>1, <1>5, <2>1, BridgeAssumption
       DEF getHostOrVlanInterface, NamesApart, Client, SwIfs, BridgeTypeOK
<1>6. /\ stage' = [stage EXCEPT ![c] = stage'[c]] /\ granted' = [granted EXCEPT ![c] = FALSE]
      /\ \/ /\ stage'[c] = "vtr" /\ clientIf[c] # NoIf /\ UNCHANGED <<clientIf, vlanID>>
         \/ /\ stage'[c] = "vtr" /\ StoreMeta(c, Client(c)) /\ Client(c) # NoIf
            /\ Client(c) \in SwIfs /\ clientIf[c] = NoIf
         \/ /\ stage'[c] = "subif" /\ clientIf[c] = NoIf /\ VlanOf[c] # 0
            /\ UNCHANGED <<clientIf, vlanID>>
  <2>1. CASE clientIf[c] # NoIf /\ GoOn(c, "vtr") /\ UNCHANGED meta
    BY <1>1, <2>1 DEF addSubIf, BridgeTypeOK
  <2>2. CASE clientIf[c] = NoIf /\ GoOn(c, "vtr") /\ \E i \in getHostOrVlanInterface(c) : StoreMeta(c, i)
    BY <1>1, <1>5, <2>2 DEF addSubIf, BridgeTypeOK
  <2>3. CASE clientIf[c] = NoIf /\ GoOn(c, "subif") /\ getHostOrVlanInterface(c) = {} /\ UNCHANGED <<clientIf, vlanID>>
    BY <1>1, <2>3 DEF addSubIf, BridgeTypeOK, getHostOrVlanInterface
  <2> QED
    BY <2>1, <2>2, <2>3 DEF addSubIf
<1>7. BridgeTypeOK'
  <2>1. clientIf' \in [Conns -> SwIfs \cup {NoIf}]
    BY <1>1, <1>6 DEF BridgeTypeOK, StoreMeta
  <2>2. vlanID' \in [Conns -> Vlans \cup {NoVlan}]
    BY <1>1, <1>6, BridgeOwn DEF BridgeTypeOK, StoreMeta
  <2>3. stage' \in [Conns -> BridgeStages] /\ granted' \in [Conns -> BOOLEAN]
    BY <1>1, <1>6 DEF BridgeTypeOK, BridgeStages
  <2> QED
    BY <1>1, <1>3, <2>1, <2>2, <2>3 DEF BridgeTypeOK, BridgeStages
<1>8. OthersKeep(c)
  BY <1>1, <1>3, <1>6 DEF OthersKeep, StoreMeta, BridgeTypeOK
<1>9. PlaceOK(c)'
  BY <1>1, <1>2, <1>3, <1>4, <1>6
     DEF PlaceOK, HasClient, StoreMeta, BridgeTypeOK, Working, Bridging, Detaching
<1>10. TableOK(c)'
  BY <1>1, <1>6 DEF TableOK, BridgeTypeOK, Attaching, WithBridge, Detaching
<1>11. ASSUME Undone PROVE PortOK(c)'
  BY <1>1, <1>2, <1>3, <1>6, <1>11 DEF PortOK, StoreMeta, BridgeTypeOK
<1> QED
  BY <1>2, <1>3, <1>7, <1>8, <1>9, <1>10, <1>11, BridgeQuiet
(* A handler goes on to another stage and keeps the metadata, or drops it. *)
LEMMA BridgeMetaType ==
    ASSUME BridgeTypeOK, NEW c \in Conns, NEW s \in BridgeStages, GoOn(c, s),
           UNCHANGED <<clientIf, vlanID>> \/ delSubIf(c),
           UNCHANGED <<env, serverIf, bridges, attached, key, l2Bridge, granted, sub, ports, bds, member>>,
           popped' \subseteq Ifs, mtus' \subseteq Devices
    PROVE  BridgeTypeOK' /\ OthersKeep(c) /\ stage'[c] = s
<1>1. stage' \in [Conns -> BridgeStages] /\ stage'[c] = s
  BY DEF BridgeTypeOK, GoOn
<1>2. clientIf' \in [Conns -> SwIfs \cup {NoIf}] /\ vlanID' \in [Conns -> Vlans \cup {NoVlan}]
  BY DEF BridgeTypeOK, delSubIf
<1>3. OthersKeep(c)
  BY DEF BridgeTypeOK, OthersKeep, GoOn, delSubIf
<1> QED
  BY <1>1, <1>2, <1>3 DEF BridgeTypeOK

(* The tag rewrite of the interface is set, or the metadata dropped. *)
LEMMA BridgeEnableVtr ==
    ASSUME BridgeInv, NEW c \in Conns, enableVtr(c), UNCHANGED <<env, mtus>>
    PROVE  BridgeInv'
<1> USE DEF table, local
<1>1. BridgeTypeOK /\ PlaceOK(c) /\ TableOK(c) /\ (Undone => PortOK(c)) /\ SubsApart
  BY DEF BridgeInv
<1>2. stage[c] = "vtr" /\ HasClient(c) /\ ~granted[c]
  BY <1>1 DEF enableVtr, PlaceOK, Working
<1>3. UNCHANGED <<sub, ports, bds, member, serverIf, bridges, attached, key, l2Bridge, granted>>
  BY DEF enableVtr
<1>4. Client(c)' = Client(c)
  BY <1>3 DEF Client
<1>5. CASE GoOn(c, "mtu") /\ UNCHANGED <<clientIf, vlanID>> /\ popped' = popped \cup ({clientIf[c]} \ Devices)
  <2>1. clientIf[c] \in SwIfs /\ popped' \subseteq Ifs
    BY <1>1, <1>2, <1>5, BridgeOwn DEF BridgeTypeOK, SwIfs, HasClient
  <2>2. BridgeTypeOK' /\ OthersKeep(c) /\ stage'[c] = "mtu"
    BY <1>1, <1>3, <1>5, <2>1, BridgeMetaType DEF BridgeStages, BridgeTypeOK
  <2>3. VlanOf[c] # 0 => clientIf[c] \in popped'
    <3>1. VlanOf[c] # 0 => clientIf[c] \in Ifs
      BY <1>1, <1>2, BridgeOwn, BridgeAssumption DEF HasClient, Client, BridgeTypeOK
    <3> QED
      BY <1>5, <3>1, BridgeAssumption
  <2>4. PlaceOK(c)'
    BY <1>1, <1>2, <1>3, <1>4, <1>5, <2>2, <2>3 DEF PlaceOK, HasClient, Working, Bridging, Detaching
  <2>5. TableOK(c)'
    BY <1>1, <1>2, <1>3, <2>2 DEF TableOK, Attaching, WithBridge, Detaching
  <2>6. ASSUME Undone PROVE PortOK(c)'
    BY <1>1, <1>2, <1>3, <1>5, <2>2, <2>6 DEF PortOK
  <2> QED
    BY <1>2, <1>3, <1>5, <2>2, <2>4, <2>5, <2>6, BridgeQuiet
<1>6. CASE VtrFails(c) /\ UNCHANGED popped
  <2>1. BridgeTypeOK' /\ OthersKeep(c) /\ stage'[c] = "ready"
    BY <1>1, <1>3, <1>6, BridgeMetaType DEF BridgeStages, VtrFails, BridgeTypeOK
  <2>2. clientIf'[c] = NoIf
    BY <1>1, <1>6 DEF VtrFails, delSubIf, BridgeTypeOK
  <2>3. PlaceOK(c)'
    BY <1>1, <1>2, <1>3, <1>4, <2>1, <2>2 DEF PlaceOK, HasClient, Working, Bridging, Detaching
  <2>4. TableOK(c)'
    BY <1>1, <1>2, <1>3, <2>1 DEF TableOK, Attaching, WithBridge, Detaching
  <2>5. ~Undone
    <3>1. Exists(clientIf[c])
      BY <1>1, <1>2, BridgeClients DEF HasClient
    <3> QED
      BY <1>6, <3>1 DEF VtrFails, Undone
  <2> QED
    BY <1>2, <1>3, <1>6, <2>1, <2>3, <2>4, <2>5, BridgeQuiet
<1> QED
  BY <1>5, <1>6 DEF enableVtr

(* The MTU of the device is found: that of a connection with a port is     *)
(* known.                                                                  *)
LEMMA BridgeGetMTU ==
    ASSUME BridgeInv, NEW c \in Conns, getMTU(c), UNCHANGED env
    PROVE  BridgeInv'
<1> USE DEF table, local, vpp
<1>1. BridgeTypeOK /\ PlaceOK(c) /\ TableOK(c) /\ (Undone => PortOK(c)) /\ SubsApart
  BY DEF BridgeInv
<1>2. stage[c] = "mtu" /\ HasClient(c) /\ ~granted[c] /\ (VlanOf[c] # 0 => clientIf[c] \in popped)
  BY <1>1 DEF getMTU, PlaceOK, Working
<1>3. UNCHANGED <<sub, ports, popped, bds, member, serverIf, bridges, attached, key, l2Bridge, granted>>
  BY DEF getMTU
<1>4. Client(c)' = Client(c)
  BY <1>3 DEF Client
<1>5. CASE GoOn(c, "mech") /\ UNCHANGED <<clientIf, vlanID>> /\ mtus' = mtus \cup {DeviceOf[c]}
  <2>1. BridgeTypeOK' /\ OthersKeep(c) /\ stage'[c] = "mech"
    BY <1>1, <1>3, <1>5, BridgeOwn, BridgeMetaType DEF BridgeStages, BridgeTypeOK
  <2>2. PlaceOK(c)'
    BY <1>1, <1>2, <1>3, <1>4, <1>5, <2>1 DEF PlaceOK, HasClient, Working, Bridging, Detaching
  <2>3. TableOK(c)'
    BY <1>1, <1>2, <1>3, <2>1 DEF TableOK, Attaching, WithBridge, Detaching
  <2>4. ASSUME Undone PROVE PortOK(c)'
    BY <1>1, <1>2, <1>3, <1>5, <2>1, <2>4 DEF PortOK
  <2> QED
    BY <1>2, <1>3, <1>5, <2>1, <2>2, <2>3, <2>4, BridgeQuiet
<1>6. CASE DeviceOf[c] \notin mtus /\ delSubIf(c) /\ GoOn(c, "ready") /\ UNCHANGED mtus
  <2>1. BridgeTypeOK' /\ OthersKeep(c) /\ stage'[c] = "ready"
    BY <1>1, <1>3, <1>6, BridgeMetaType DEF BridgeStages, BridgeTypeOK
  <2>2. clientIf'[c] = NoIf /\ serverIf[c] = NoIf
    BY <1>1, <1>6 DEF delSubIf, BridgeTypeOK, PlaceOK
  <2>3. PlaceOK(c)'
    BY <1>1, <1>2, <1>3, <1>4, <2>1, <2>2 DEF PlaceOK, HasClient, Working, Bridging, Detaching
  <2>4. TableOK(c)'
    BY <1>1, <1>2, <1>3, <2>1 DEF TableOK, Attaching, WithBridge, Detaching
  <2>5. PortOK(c)'
    BY <1>3, <2>2 DEF PortOK
  <2> QED
    BY <1>2, <1>3, <1>6, <2>1, <2>3, <2>4, <2>5, BridgeQuiet
<1> QED
  BY <1>5, <1>6 DEF getMTU
(* A handler takes up the key of its connection, or keeps what it has. *)
LEMMA BridgeLocalType ==
    ASSUME BridgeTypeOK, NEW c \in Conns, NEW s \in BridgeStages, GoOn(c, s),
           \/ UNCHANGED <<key, l2Bridge>>
           \/ \E k \in bridgeDomainKey : /\ key' = [key EXCEPT ![c] = k]
                                         /\ l2Bridge' = [l2Bridge EXCEPT ![c] = bridges[k]],
           UNCHANGED granted \/ granted' = [granted EXCEPT ![c] = FALSE],
           UNCHANGED <<env, clientIf, serverIf, vlanID, bridges, attached, sub, popped, ports,
                       bds, member, mtus>>
    PROVE  BridgeTypeOK' /\ OthersKeep(c) /\ stage'[c] = s
<1>1. stage' \in [Conns -> BridgeStages] /\ stage'[c] = s
  BY DEF BridgeTypeOK, GoOn
<1>2. key' \in [Conns -> bridgeDomainKey \cup {NoKey}] /\ l2Bridge' \in [Conns -> Bds \cup {NoBd}]
  BY DEF BridgeTypeOK
<1>3. granted' \in [Conns -> BOOLEAN]
  BY DEF BridgeTypeOK
<1>4. OthersKeep(c)
  BY DEF BridgeTypeOK, OthersKeep, GoOn
<1> QED
  BY <1>1, <1>2, <1>3, <1>4 DEF BridgeTypeOK

(* The bridge of the key is looked up. *)
LEMMA BridgeLoad ==
    ASSUME BridgeInv, NEW c \in Conns, LoadBridge(c), UNCHANGED <<env, mtus>>
    PROVE  BridgeInv'
<1> USE DEF table, vpp, meta
<1>1. BridgeTypeOK /\ PlaceOK(c) /\ TableOK(c) /\ (Undone => PortOK(c))
  BY DEF BridgeInv
<1>2. stage[c] = "load" /\ HasClient(c) /\ ~granted[c] /\ serverIf[c] # NoIf
  BY <1>1 DEF LoadBridge, PlaceOK, Working, Bridging
<1>3. UNCHANGED <<clientIf, vlanID, serverIf, bridges, attached, granted, sub, popped, ports, bds, member>>
  BY DEF LoadBridge
<1>4. Own(c) = <<vlanID[c], clientIf[c]>> /\ Own(c) \in bridgeDomainKey /\ Own(c)[1] = VlanOf[c]
  BY <1>1, <1>2, BridgeOwn DEF HasClient, Own
<1>5. Client(c)' = Client(c) /\ Own(c)' = Own(c)
  BY <1>3 DEF Client, Own
<1> DEFINE s == IF bridges[Own(c)] = NoBd THEN "newbridge" ELSE "attachserver"
<1>6. /\ key' = [key EXCEPT ![c] = Own(c)] /\ l2Bridge' = [l2Bridge EXCEPT ![c] = bridges[Own(c)]]
      /\ GoOn(c, s) /\ s \in BridgeStages
  BY <1>4 DEF LoadBridge, BridgeStages
<1>7. BridgeTypeOK' /\ OthersKeep(c) /\ stage'[c] = s
  BY <1>1, <1>3, <1>4, <1>6, BridgeLocalType
<1>8. key'[c] = Own(c) /\ l2Bridge'[c] = bridges[Own(c)]
  BY <1>1, <1>6 DEF BridgeTypeOK
<1>9. PlaceOK(c)'
  BY <1>1, <1>2, <1>3, <1>5, <1>7 DEF PlaceOK, HasClient, Working, Bridging, Detaching
<1>10. TableOK(c)'
  BY <1>1, <1>2, <1>3, <1>4, <1>5, <1>7, <1>8
     DEF TableOK, Attaching, WithBridge, Detaching, BridgeTypeOK
<1>11. ASSUME Undone PROVE PortOK(c)'
  BY <1>1, <1>2, <1>3, <1>7, <1>11 DEF PortOK
<1> QED
  BY <1>2, <1>3, <1>7, <1>9, <1>10, <1>11, BridgeQuiet

(* A Close begins. *)
LEMMA BridgeBeginClose ==
    ASSUME BridgeInv, NEW c \in Conns, BeginClose(c), UNCHANGED <<env, mtus>>
    PROVE  BridgeInv'
<1> USE DEF table, local, vpp, meta
<1>1. BridgeTypeOK /\ PlaceOK(c) /\ TableOK(c) /\ (Undone => PortOK(c))
  BY DEF BridgeInv
<1>2. stage[c] = "ready" /\ Start(c)
  BY DEF BeginClose, Start
<1>3. UNCHANGED <<clientIf, vlanID, serverIf, bridges, attached, key, l2Bridge, sub, popped, ports, bds, member>>
  BY DEF BeginClose
<1>4. Client(c)' = Client(c)
  BY <1>3 DEF Client
<1>5. BridgeTypeOK' /\ OthersKeep(c) /\ stage'[c] = "del"
  BY <1>1, <1>3, BridgeLocalType DEF BeginClose, BridgeStages
<1>6. ~granted'[c]
  BY <1>1 DEF BeginClose, BridgeTypeOK
<1>7. PlaceOK(c)'
  BY <1>1, <1>2, <1>3, <1>4, <1>5, <1>6 DEF PlaceOK, HasClient, Working, Bridging, Detaching
<1>8. TableOK(c)'
  BY <1>1, <1>5, <1>6 DEF TableOK, Attaching, WithBridge, Detaching
<1>9. ASSUME Undone PROVE PortOK(c)'
  BY <1>1, <1>2, <1>3, <1>5, <1>9 DEF PortOK
<1> QED
  BY <1>2, <1>3, <1>5, <1>7, <1>8, <1>9, BridgeQuiet

(* The bridge of a connection that is closed is looked up.  Without the    *)
(* metadata, or without a bridge, its port is in no bridge.                *)
LEMMA BridgeDel ==
    ASSUME BridgeInv, NEW c \in Conns, delBridgeDomain(c), UNCHANGED <<env, mtus>>
    PROVE  BridgeInv'
<1> USE DEF table, local, vpp, meta
<1> DEFINE k == <<vlanID[c], clientIf[c]>>
<1>1. BridgeTypeOK /\ PlaceOK(c) /\ TableOK(c) /\ (Undone => PortOK(c)) /\ InOwn
  BY DEF BridgeInv
<1>2. stage[c] = "del" /\ ~granted[c] /\ (clientIf[c] # NoIf => HasClient(c))
  BY <1>1 DEF delBridgeDomain, PlaceOK
<1>3. UNCHANGED <<clientIf, vlanID, serverIf, bridges, attached, granted, sub, popped, ports, bds, member>>
  BY DEF delBridgeDomain
<1>4. Client(c)' = Client(c) /\ Own(c)' = Own(c)
  BY <1>3 DEF Client, Own
<1>5. CASE /\ k \in bridgeDomainKey /\ bridges[k] # NoBd
           /\ key' = [key EXCEPT ![c] = k] /\ l2Bridge' = [l2Bridge EXCEPT ![c] = bridges[k]]
           /\ GoOn(c, "detachserver")
  <2>1. HasClient(c)
    BY <1>2, <1>5, BridgeAssumption DEF bridgeDomainKey, SwIfs
  <2>2. k = Own(c) /\ Own(c)[1] = VlanOf[c]
    BY <1>1, <2>1, BridgeOwn DEF HasClient, Own
  <2>3. BridgeTypeOK' /\ OthersKeep(c) /\ stage'[c] = "detachserver"
    BY <1>1, <1>3, <1>5, BridgeLocalType DEF BridgeStages
  <2>4. key'[c] = Own(c) /\ l2Bridge'[c] = bridges[Own(c)] /\ l2Bridge'[c] \in Bds
    BY <1>1, <1>5, <2>2 DEF BridgeTypeOK
  <2>5. PlaceOK(c)'
    BY <1>1, <1>2, <1>3, <1>4, <2>1, <2>3 DEF PlaceOK, HasClient, Working, Bridging, Detaching
  <2>6. TableOK(c)'
    BY <1>2, <1>3, <1>4, <1>5, <2>2, <2>3, <2>4 DEF TableOK, Attaching, WithBridge, Detaching
  <2>7. ASSUME Undone PROVE PortOK(c)'
    BY <1>1, <1>2, <1>3, <2>3, <2>7 DEF PortOK
  <2> QED
    BY <1>2, <1>3, <2>3, <2>5, <2>6, <2>7, BridgeQuiet
<1>6. CASE (k \in bridgeDomainKey => bridges[k] = NoBd) /\ GoOn(c, "closenext") /\ UNCHANGED local
  <2>1. BridgeTypeOK' /\ OthersKeep(c) /\ stage'[c] = "closenext"
    BY <1>1, <1>3, <1>6, BridgeLocalType DEF BridgeStages
  <2>2. PlaceOK(c)'
    BY <1>1, <1>2, <1>3, <1>4, <2>1 DEF PlaceOK, HasClient, Working, Bridging, Detaching
  <2>3. TableOK(c)'
    BY <1>2, <1>3, <2>1 DEF TableOK, Attaching, WithBridge, Detaching
  <2>4. ASSUME Undone, serverIf[c] # NoIf
        PROVE  member[serverIf[c]] = NoBd
    <3>1. HasClient(c)
      BY <1>1, <1>2, <2>4 DEF PortOK
    <3>2. k = Own(c) /\ Own(c) \in bridgeDomainKey
      BY <1>1, <3>1, BridgeOwn DEF HasClient, Own
    <3> QED
      BY <1>1, <1>6, <2>4, <3>2 DEF InOwn
  <2>5. ASSUME Undone PROVE PortOK(c)'
    BY <1>3, <2>1, <2>4, <2>5 DEF PortOK
  <2> QED
    BY <1>2, <1>3, <2>1, <2>2, <2>3, <2>5, BridgeQuiet
<1> QED
  BY <1>5, <1>6 DEF delBridgeDomain

(* The bridge is deleted only if the interface of the key is left. *)
LEMMA BridgeLast ==
    ASSUME BridgeInv, NEW c \in Conns, LastInterface(c), UNCHANGED <<env, mtus>>
    PROVE  BridgeInv'
<1> USE DEF table, local, vpp, meta
<1>1. BridgeTypeOK /\ PlaceOK(c) /\ TableOK(c) /\ (Undone => PortOK(c))
  BY DEF BridgeInv
<1>2. stage[c] = "last" /\ ~granted[c] /\ HasClient(c)
  BY <1>1 DEF LastInterface, PlaceOK, Working, Detaching
<1>3. key[c] = Own(c) /\ key[c] \in bridgeDomainKey /\ bridges[key[c]] = l2Bridge[c]
  BY <1>1, <1>2 DEF TableOK, Detaching, WithBridge
<1>4. UNCHANGED <<clientIf, vlanID, serverIf, bridges, attached, key, l2Bridge, granted, sub, popped, ports, bds, member>>
  <2>1. [bridges EXCEPT ![key[c]] = l2Bridge[c]] = bridges
    BY <1>1, <1>3 DEF BridgeTypeOK
  <2> QED
    BY <2>1 DEF LastInterface
<1>5. Client(c)' = Client(c) /\ Own(c)' = Own(c)
  BY <1>4 DEF Client, Own
<1>6. CASE attached[l2Bridge[c]] = {key[c][2]} /\ GoOn(c, "detachclient")
  <2>1. BridgeTypeOK' /\ OthersKeep(c) /\ stage'[c] = "detachclient"
    BY <1>1, <1>4, <1>6, BridgeLocalType DEF BridgeStages
  <2>2. PlaceOK(c)'
    BY <1>1, <1>2, <1>4, <1>5, <2>1 DEF PlaceOK, HasClient, Working, Bridging, Detaching
  <2>3. TableOK(c)'
    BY <1>1, <1>2, <1>4, <1>5, <1>6, <2>1 DEF TableOK, Attaching, WithBridge, Detaching
  <2>4. ASSUME Undone PROVE PortOK(c)'
    BY <1>1, <1>2, <1>4, <2>1, <2>4 DEF PortOK
  <2> QED
    BY <1>2, <1>4, <2>1, <2>2, <2>3, <2>4, BridgeQuiet
<1>7. CASE GoOn(c, "closenext")
  <2>1. BridgeTypeOK' /\ OthersKeep(c) /\ stage'[c] = "closenext"
    BY <1>1, <1>4, <1>7, BridgeLocalType DEF BridgeStages
  <2>2. PlaceOK(c)'
    BY <1>1, <1>2, <1>4, <1>5, <2>1 DEF PlaceOK, HasClient, Working, Bridging, Detaching
  <2>3. TableOK(c)'
    BY <1>2, <1>4, <2>1 DEF TableOK, Attaching, WithBridge, Detaching
  <2>4. ASSUME Undone PROVE PortOK(c)'
    BY <1>1, <1>2, <1>4, <2>1, <2>4 DEF PortOK
  <2> QED
    BY <1>2, <1>4, <2>1, <2>2, <2>3, <2>4, BridgeQuiet
<1> QED
  BY <1>6, <1>7 DEF LastInterface

(* The handler gives up: only where deletions fail. *)
LEMMA BridgeGiveUp ==
    ASSUME BridgeInv, NEW c \in Conns, stage[c] \in Detaching \cup {"delbridge"}, GoOn(c, "closenext"),
           Undone => stage[c] \notin {"detachserver", "delsubif", "delbridge"},
           UNCHANGED <<env, mtus, clientIf, vlanID, serverIf, bridges, attached, key, l2Bridge,
                       granted, sub, popped, ports, bds, member>>
    PROVE  BridgeInv'
<1>1. BridgeTypeOK /\ PlaceOK(c) /\ TableOK(c) /\ (Undone => PortOK(c))
  BY DEF BridgeInv
<1>2. ~granted[c] /\ stage[c] # "ready"
  BY <1>1 DEF PlaceOK, Detaching
<1>3. BridgeTypeOK' /\ OthersKeep(c) /\ stage'[c] = "closenext"
  BY <1>1, BridgeLocalType DEF BridgeStages
<1>4. PlaceOK(c)'
  BY <1>1, <1>2, <1>3 DEF PlaceOK, Working, Bridging, Detaching
<1>5. TableOK(c)'
  BY <1>2, <1>3 DEF TableOK, Attaching, WithBridge, Detaching
<1>6. ASSUME Undone PROVE PortOK(c)'
  BY <1>1, <1>3, <1>6 DEF PortOK, Detaching
<1> QED
  BY <1>2, <1>3, <1>4, <1>5, <1>6, BridgeQuiet

(* The sub-interface of a key exists as long as nobody has deleted it. *)
LEMMA BridgeDelSubIfFails ==
    ASSUME BridgeInv, NEW c \in Conns, delVppSubIfFails(c), UNCHANGED <<env, mtus>>
    PROVE  BridgeInv'
<1> USE DEF table, local, vpp, meta
<1>1. BridgeTypeOK /\ PlaceOK(c) /\ TableOK(c) /\ SubsApart
  BY DEF BridgeInv
<1>2. stage[c] = "delsubif" /\ HasClient(c) /\ key[c] = Own(c) /\ key[c][1] # 0 /\ GoOn(c, "closenext")
  BY <1>1 DEF delVppSubIfFails, Fails, PlaceOK, TableOK, Working, Detaching
<1>3. key[c][2] \in SubIfs
  BY <1>1, <1>2, BridgeOwn, BridgeClients DEF HasClient
<1>4. ~Undone
  BY <1>3 DEF delVppSubIfFails, Fails, Undone
<1> QED
  BY <1>2, <1>4, BridgeGiveUp DEF delVppSubIfFails, Detaching
-----------------------------------------------------------------------------
(* The interface that a handler is about to delete is its own: no port,    *)
(* and not the interface of another connection whose handler runs.         *)
LEMMA AtDelSubIf ==
    ASSUME BridgeInv, NEW e \in Conns, stage[e] = "delsubif"
    PROVE  /\ key[e][2] = Client(e) /\ Client(e) # NoIf
           /\ key[e][2] \notin ports
           /\ \A c \in Conns : Client(c) = key[e][2] /\ stage[c] # "ready" => c = e
<1>1. BridgeTypeOK /\ SubsApart /\ Serial /\ PlaceOK(e) /\ TableOK(e)
  BY DEF BridgeInv
<1>2. HasClient(e) /\ key[e] = Own(e)
  BY <1>1 DEF PlaceOK, TableOK, Working, Detaching
<1>3. key[e][2] = Client(e) /\ Client(e) # NoIf
  BY <1>1, <1>2, BridgeOwn DEF HasClient
<1> QED
  BY <1>1, <1>3, BridgeClients DEF Serial

(* A sub-interface is created with an index that nothing has. *)
LEMMA BridgeVppAddSubIf ==
    ASSUME BridgeInv, NEW c \in Conns, vppAddSubIf(c), UNCHANGED <<env, mtus>>
    PROVE  BridgeInv'
<1> USE DEF table, local
<1>1. BridgeTypeOK /\ PlaceOK(c) /\ TableOK(c) /\ (Undone => PortOK(c)) /\ SubsApart
  BY DEF BridgeInv
<1>2. stage[c] = "subif" /\ ~granted[c] /\ clientIf[c] = NoIf /\ VlanOf[c] # 0
  BY <1>1 DEF vppAddSubIf, PlaceOK
<1>3. UNCHANGED <<serverIf, bridges, attached, key, l2Bridge, granted, popped, ports, bds, member>>
  BY DEF vppAddSubIf
<1> DEFINE D == DeviceOf[c]
           V == VlanOf[c]
<1>4. D \in Devices /\ V \in Vlans
  BY <1>1, BridgeOwn
<1>5. ASSUME NEW i \in FreeIfs, sub[D][V] = NoIf, sub' = [sub EXCEPT ![D][V] = i],
             StoreMeta(c, i), GoOn(c, "vtr")
      PROVE  BridgeInv'
  <2>1. i \in Ifs /\ i \notin SubIfs /\ i \notin ports /\ i # NoIf
    BY <1>5, BridgeAssumption DEF FreeIfs
  <2>2. \A d \in Devices, v \in Vlans : sub'[d][v] = IF d = D /\ v = V THEN i ELSE sub[d][v]
    BY <1>1, <1>4, <1>5 DEF BridgeTypeOK
  <2>3. clientIf'[c] = i /\ vlanID'[c] = V /\ stage'[c] = "vtr"
    BY <1>1, <1>5 DEF StoreMeta, GoOn, BridgeTypeOK
  <2>4. OthersKeep(c)
    BY <1>1, <1>3, <1>5 DEF OthersKeep, StoreMeta, GoOn, BridgeTypeOK
  <2>5. BridgeTypeOK'
    <3>1. sub' \in [Devices -> [Vlans -> Ifs \cup {NoIf}]]
      BY <1>1, <1>4, <1>5, <2>1 DEF BridgeTypeOK
    <3>2. clientIf' \in [Conns -> SwIfs \cup {NoIf}] /\ vlanID' \in [Conns -> Vlans \cup {NoVlan}]
      BY <1>1, <1>4, <1>5, <2>1 DEF BridgeTypeOK, StoreMeta, SwIfs
    <3>3. stage' \in [Conns -> BridgeStages]
      BY <1>1, <1>5 DEF BridgeTypeOK, GoOn, BridgeStages
    <3> QED
      BY <1>1, <1>3, <3>1, <3>2, <3>3 DEF BridgeTypeOK
  <2>6. \A e \in Conns : Client(e) # NoIf => Client(e)' = Client(e) /\ Own(e)' = Own(e)
    <3> SUFFICES ASSUME NEW e \in Conns, Client(e) # NoIf
                 PROVE  Client(e)' = Client(e)
      BY DEF Own
    <3>1. DeviceOf[e] \in Devices /\ VlanOf[e] \in Vlans
      BY <1>1, BridgeOwn
    <3> QED
      BY <1>5, <2>2, <3>1 DEF Client
  <2>7. Serial'
    BY <1>2, <2>4, SerialFrame DEF BridgeInv
  <2>8. OwnPort' /\ BridgesOK' /\ PortOrClient'
    BY <1>3 DEF BridgeInv, OwnPort, BridgesOK, PortOrClient
  <2>9. SubsApart'
    <3>1. \A d \in Devices, v \in Vlans : sub[d][v] # i
      BY <2>1 DEF SubIfs
    <3> QED
      BY <1>1, <1>2, <1>3, <2>1, <2>2, <3>1 DEF SubsApart
  <2>10. MembersOK'
    <3>1. SubIfs \subseteq SubIfs'
      BY <1>4, <1>5, <2>2 DEF SubIfs
    <3> QED
      BY <1>3, <3>1 DEF BridgeInv, MembersOK, Exists
  <2>11. InOwn'
    BY <1>3, <2>6 DEF BridgeInv, InOwn
  <2>12. PlaceOK(c)'
    <3>1. Client(c)' = i
      BY <1>2, <1>4, <2>2 DEF Client
    <3> QED
      BY <1>1, <1>2, <1>3, <2>1, <2>3, <3>1 DEF PlaceOK, HasClient, Working, Bridging, Detaching
  <2>13. TableOK(c)'
    BY <1>2, <1>3, <2>3 DEF TableOK, Attaching, WithBridge, Detaching
  <2>14. ASSUME NEW e \in Conns, e # c
         PROVE  PlaceOK(e)' /\ TableOK(e)'
    <3>1. PlaceOK(e)'
      BY <1>3, <2>4, <2>6, <2>14, PlaceFrame DEF HasClient
    <3>2. <<V, i>> \in bridgeDomainKey /\ <<V, i>>[1] = V
      BY <1>4, <2>1 DEF bridgeDomainKey, SwIfs
    <3>3. granted[e] /\ Own(e) = <<V, i>> =>
             serverIf[e] \in attached[bridges[<<V, i>>]] /\ clientIf[e] \in attached[bridges[<<V, i>>]]
      BY DEF BridgeInv, TableOK
    <3>4. TableOK(e)'
      BY <1>2, <1>3, <2>4, <2>6, <2>14, <3>2, <3>3, TableFrame DEF HasClient
    <3> QED
      BY <3>1, <3>4
  <2>15. Undone' <=> Undone
    BY DEF Undone, Faults
  <2>16. ASSUME Undone
         PROVE  (\A e \in Conns : PortOK(e)') /\ Exact' /\ KeyLive'
    <3>1. (\A e \in Conns : PortOK(e)) /\ Exact /\ KeyLive
      BY <2>16 DEF BridgeInv
    <3>2. ASSUME NEW e \in Conns PROVE PortOK(e)'
      <4>1. PortOK(e)
        BY <3>1
      <4> QED
        BY <1>2, <1>3, <2>1, <2>3, <2>4, <4>1 DEF PortOK, OthersKeep
    <3>3. \A e \in Conns : stage[e] \in {"delsubif", "delbridge"} => stage'[e] = stage[e] /\ key'[e] = key[e]
      BY <1>2, <2>4 DEF OthersKeep
    <3>4. Exact'
      BY <1>3, <3>1, <3>3 DEF Exact
    <3>5. KeyLive'
      <4>1. \A k \in bridgeDomainKey, d \in Devices : sub[d][k[1]] = k[2] => sub'[d][k[1]] = k[2]
        BY <1>5, <2>2, BridgeKeys, BridgeAssumption DEF SwIfs
      <4> QED
        BY <1>3, <3>1, <3>3, <4>1 DEF KeyLive
    <3> QED
      BY <3>2, <3>4, <3>5
  <2> QED
    BY <2>5, <2>7, <2>8, <2>9, <2>10, <2>11, <2>12, <2>13, <2>14, <2>15, <2>16 DEF BridgeInv
<1>6. CASE GoOn(c, "ready") /\ UNCHANGED <<sub, clientIf, vlanID>>
  <2>1. BridgeTypeOK' /\ OthersKeep(c) /\ stage'[c] = "ready"
    BY <1>1, <1>3, <1>6, BridgeMetaType DEF BridgeStages, BridgeTypeOK
  <2>2. PlaceOK(c)'
    BY <1>1, <1>2, <1>3, <1>6, <2>1 DEF PlaceOK, Working, Bridging, Detaching
  <2>3. TableOK(c)'
    BY <1>2, <1>3, <2>1 DEF TableOK, Attaching, WithBridge, Detaching
  <2>4. ASSUME Undone PROVE PortOK(c)'
    BY <1>1, <1>2, <1>3, <1>6, <2>1, <2>4 DEF PortOK
  <2> QED
    BY <1>2, <1>3, <1>6, <2>1, <2>2, <2>3, <2>4, BridgeQuiet
<1> QED
  BY <1>5, <1>6 DEF vppAddSubIf
(* The port is there, or is created with an index that nothing has. *)
LEMMA BridgeCreatePort ==
    ASSUME BridgeInv, NEW c \in Conns, CreatePort(c), UNCHANGED <<env, mtus>>
    PROVE  BridgeInv'
<1> USE DEF table, local, meta
<1>1. BridgeTypeOK /\ PlaceOK(c) /\ TableOK(c) /\ (Undone => PortOK(c)) /\ SubsApart
  BY DEF BridgeInv
<1>2. /\ stage[c] = "mech" /\ ~granted[c] /\ HasClient(c) /\ DeviceOf[c] \in mtus
      /\ VlanOf[c] # 0 => clientIf[c] \in popped
  BY <1>1 DEF CreatePort, PlaceOK, Working
<1>3. UNCHANGED <<bridges, attached, key, l2Bridge, granted, sub, popped, bds, member>>
  BY DEF CreatePort
<1>4. \A e \in Conns : Client(e)' = Client(e) /\ Own(e)' = Own(e)
  BY <1>3 DEF Client, Own
<1>5. CASE serverIf[c] # NoIf /\ GoOn(c, "load") /\ UNCHANGED <<meta, ports>>
  <2>1. BridgeTypeOK' /\ OthersKeep(c) /\ stage'[c] = "load"
    BY <1>1, <1>3, <1>5, BridgeMetaType DEF BridgeStages, BridgeTypeOK
  <2>2. PlaceOK(c)'
    BY <1>1, <1>2, <1>3, <1>4, <1>5, <2>1 DEF PlaceOK, HasClient, Working, Bridging, Detaching
  <2>3. TableOK(c)'
    BY <1>2, <1>3, <2>1 DEF TableOK, Attaching, WithBridge, Detaching
  <2>4. ASSUME Undone PROVE PortOK(c)'
    BY <1>1, <1>2, <1>3, <1>5, <2>1, <2>4 DEF PortOK
  <2> QED
    BY <1>2, <1>3, <1>5, <2>1, <2>2, <2>3, <2>4, BridgeQuiet
<1>6. CASE serverIf[c] = NoIf /\ delSubIf(c) /\ GoOn(c, "ready") /\ UNCHANGED <<serverIf, ports>>
  <2>1. BridgeTypeOK' /\ OthersKeep(c) /\ stage'[c] = "ready"
    BY <1>1, <1>3, <1>6, BridgeMetaType DEF BridgeStages, BridgeTypeOK
  <2>2. clientIf'[c] = NoIf
    BY <1>1, <1>6 DEF delSubIf, BridgeTypeOK
  <2>3. PlaceOK(c)'
    BY <1>1, <1>2, <1>3, <1>4, <1>6, <2>1, <2>2 DEF PlaceOK, HasClient, Working, Bridging, Detaching
  <2>4. TableOK(c)'
    BY <1>2, <1>3, <2>1 DEF TableOK, Attaching, WithBridge, Detaching
  <2>5. PortOK(c)'
    BY <1>6 DEF PortOK
  <2> QED
    BY <1>2, <1>3, <1>6, <2>1, <2>3, <2>4, <2>5, BridgeQuiet
<1>7. ASSUME NEW i \in FreeIfs, serverIf[c] = NoIf, serverIf' = [serverIf EXCEPT ![c] = i],
             ports' = ports \cup {i}, GoOn(c, "load"), UNCHANGED <<clientIf, vlanID>>
      PROVE  BridgeInv'
  <2>1. i \in Ifs /\ i \notin SubIfs /\ i \notin ports /\ i # NoIf /\ i \notin Devices /\ i \in SwIfs
    BY <1>7, BridgeAssumption DEF FreeIfs, SwIfs
  <2>2. serverIf'[c] = i /\ stage'[c] = "load" /\ OthersKeep(c)
    BY <1>1, <1>3, <1>7 DEF GoOn, OthersKeep, BridgeTypeOK
  <2>3. BridgeTypeOK'
    <3>1. serverIf' \in [Conns -> Ifs \cup {NoIf}] /\ ports' \subseteq Ifs
      BY <1>1, <1>7, <2>1 DEF BridgeTypeOK
    <3>2. stage' \in [Conns -> BridgeStages]
      BY <1>1, <1>7 DEF BridgeTypeOK, GoOn, BridgeStages
    <3> QED
      BY <1>1, <1>3, <1>7, <3>1, <3>2 DEF BridgeTypeOK
  <2>4. Serial'
    BY <1>2, <2>2, SerialFrame DEF BridgeInv
  <2>5. member[i] = NoBd
    BY <2>1 DEF BridgeInv, MembersOK, Exists
  <2>6. OwnPort'
    <3>1. OwnPort
      BY DEF BridgeInv
    <3>2. \A e \in Conns : serverIf[e] # i
      BY <2>1, <3>1 DEF OwnPort
    <3> QED
      BY <1>7, <2>2, <3>1, <3>2 DEF OwnPort, OthersKeep
  <2>7. SubsApart'
    <3>1. \A d \in Devices, v \in Vlans : sub[d][v] # i
      BY <2>1 DEF SubIfs
    <3> QED
      BY <1>1, <1>3, <1>7, <3>1 DEF SubsApart
  <2>8. BridgesOK' /\ PortOrClient'
    BY <1>3, <1>7 DEF BridgeInv, BridgesOK, PortOrClient
  <2>9. MembersOK'
    BY <1>3, <1>7 DEF BridgeInv, MembersOK, Exists, SubIfs
  <2>10. InOwn'
    BY <1>3, <1>4, <2>2, <2>5 DEF BridgeInv, InOwn, OthersKeep
  <2>11. PlaceOK(c)'
    BY <1>1, <1>2, <1>3, <1>4, <1>7, <2>1, <2>2 DEF PlaceOK, HasClient, Working, Bridging, Detaching
  <2>12. TableOK(c)'
    BY <1>2, <1>3, <2>2 DEF TableOK, Attaching, WithBridge, Detaching
  <2>13. ASSUME NEW e \in Conns, e # c
         PROVE  PlaceOK(e)' /\ TableOK(e)'
    <3>1. PlaceOK(e)'
      BY <1>3, <1>4, <2>2, <2>13, PlaceFrame
    <3>2. Own(c) \in bridgeDomainKey /\ Own(c)[1] = VlanOf[c]
      BY <1>1, <1>2, BridgeOwn DEF HasClient
    <3>3. granted[e] => serverIf[e] \in attached[bridges[Own(e)]] /\ clientIf[e] \in attached[bridges[Own(e)]]
      BY DEF BridgeInv, TableOK
    <3>4. TableOK(e)'
      BY <1>2, <1>3, <1>4, <2>2, <2>13, <3>2, <3>3, TableFrame
    <3> QED
      BY <3>1, <3>4
  <2>14. Undone' <=> Undone
    BY DEF Undone, Faults
  <2>15. ASSUME Undone
         PROVE  (\A e \in Conns : PortOK(e)') /\ Exact' /\ KeyLive'
    <3>1. (\A e \in Conns : PortOK(e)) /\ Exact /\ KeyLive
      BY <2>15 DEF BridgeInv
    <3>2. ASSUME NEW e \in Conns PROVE PortOK(e)'
      <4>1. CASE e = c
        BY <1>2, <1>7, <2>2, <4>1 DEF PortOK, HasClient
      <4>2. CASE e # c
        BY <1>3, <2>2, <3>1, <4>2 DEF PortOK, OthersKeep
      <4> QED
        BY <4>1, <4>2
    <3>3. \A e \in Conns : stage[e] \in {"delsubif", "delbridge"} => stage'[e] = stage[e] /\ key'[e] = key[e]
      BY <1>2, <2>2 DEF OthersKeep
    <3>4. Exact' /\ KeyLive'
      BY <1>3, <3>1, <3>3 DEF Exact, KeyLive
    <3> QED
      BY <3>2, <3>4
  <2> QED
    BY <2>3, <2>4, <2>6, <2>7, <2>8, <2>9, <2>10, <2>11, <2>12, <2>13, <2>14, <2>15 DEF BridgeInv
<1> QED
  BY <1>5, <1>6, <1>7 DEF CreatePort

(* The key gets a new bridge, which is empty. *)
LEMMA BridgeNew ==
    ASSUME BridgeInv, NEW c \in Conns, NewBridge(c), UNCHANGED <<env, mtus>>
    PROVE  BridgeInv'
<1> USE DEF table, meta
<1>1. BridgeTypeOK /\ PlaceOK(c) /\ TableOK(c) /\ (Undone => PortOK(c)) /\ SubsApart
      /\ BridgesOK /\ MembersOK
  BY DEF BridgeInv
<1>2. /\ stage[c] = "newbridge" /\ ~granted[c] /\ HasClient(c) /\ serverIf[c] # NoIf
      /\ key[c] = Own(c) /\ bridges[key[c]] = NoBd
  BY <1>1 DEF NewBridge, PlaceOK, TableOK, Working, Bridging, Attaching
<1>3. UNCHANGED <<clientIf, vlanID, serverIf, key, granted, sub, popped, ports, member>>
  BY DEF NewBridge
<1>4. \A e \in Conns : Client(e)' = Client(e) /\ Own(e)' = Own(e)
  BY <1>3 DEF Client, Own
<1>5. key[c] \in bridgeDomainKey /\ key[c][1] = VlanOf[c] /\ key[c][2] = Client(c)
  BY <1>1, <1>2, BridgeOwn DEF HasClient
<1>6. CASE GoOn(c, "del") /\ UNCHANGED <<bds, table, l2Bridge>>
  <2>1. BridgeTypeOK' /\ OthersKeep(c) /\ stage'[c] = "del"
    BY <1>1, <1>3, <1>6, BridgeMetaType DEF BridgeStages, BridgeTypeOK
  <2>2. PlaceOK(c)'
    BY <1>1, <1>2, <1>3, <1>4, <2>1 DEF PlaceOK, HasClient, Working, Bridging, Detaching
  <2>3. TableOK(c)'
    BY <1>2, <1>3, <2>1 DEF TableOK, Attaching, WithBridge, Detaching
  <2>4. ASSUME Undone PROVE PortOK(c)'
    BY <1>1, <1>2, <1>3, <2>1, <2>4 DEF PortOK
  <2> QED
    BY <1>2, <1>3, <1>6, <2>1, <2>2, <2>3, <2>4, BridgeQuiet
<1>7. ASSUME NEW b \in Bds \ bds, bds' = bds \cup {b}, attached' = [attached EXCEPT ![b] = {}],
             bridges' = [bridges EXCEPT ![key[c]] = b], l2Bridge' = [l2Bridge EXCEPT ![c] = b],
             GoOn(c, "attachserver")
      PROVE  BridgeInv'
  <2>1. b # NoBd /\ \A k \in bridgeDomainKey : bridges[k] # b
    BY <1>1, <1>7, BridgeAssumption DEF BridgesOK
  <2>2. /\ \A k \in bridgeDomainKey : bridges'[k] = IF k = key[c] THEN b ELSE bridges[k]
        /\ attached'[b] = {} /\ \A x \in Bds : x # b => attached'[x] = attached[x]
    BY <1>1, <1>5, <1>7 DEF BridgeTypeOK
  <2>3. OthersKeep(c) /\ stage'[c] = "attachserver" /\ l2Bridge'[c] = b
    BY <1>1, <1>3, <1>7 DEF GoOn, OthersKeep, BridgeTypeOK
  <2>4. BridgeTypeOK'
    <3>1. /\ bridges' \in [bridgeDomainKey -> Bds \cup {NoBd}] /\ attached' \in [Bds -> SUBSET SwIfs]
          /\ l2Bridge' \in [Conns -> Bds \cup {NoBd}] /\ bds' \subseteq Bds
      BY <1>1, <1>7 DEF BridgeTypeOK
    <3>2. stage' \in [Conns -> BridgeStages]
      BY <1>1, <1>7 DEF BridgeTypeOK, GoOn, BridgeStages
    <3> QED
      BY <1>1, <1>3, <3>1, <3>2 DEF BridgeTypeOK
  <2>5. \A k \in bridgeDomainKey : k # key[c] /\ bridges[k] # NoBd => attached'[bridges[k]] = attached[bridges[k]]
    BY <1>1, <2>1, <2>2 DEF BridgeTypeOK
  <2>6. Serial'
    BY <1>2, <2>3, SerialFrame DEF BridgeInv
  <2>7. OwnPort' /\ SubsApart'
    BY <1>3 DEF BridgeInv, OwnPort, SubsApart
  <2>8. BridgesOK'
    <3>1. \A k \in bridgeDomainKey : bridges'[k] # NoBd => bridges'[k] \in bds'
      BY <1>1, <1>7, <2>2 DEF BridgesOK
    <3>2. \A k, l \in bridgeDomainKey : bridges'[k] = bridges'[l] /\ bridges'[k] # NoBd => k = l
      BY <1>1, <2>1, <2>2 DEF BridgesOK
    <3>3. ASSUME NEW x \in bds' PROVE \E k \in bridgeDomainKey : bridges'[k] = x
      <4>1. CASE x = b
        BY <1>5, <2>2, <4>1
      <4>2. CASE x # b
        <5>1. PICK k \in bridgeDomainKey : bridges[k] = x
          BY <1>1, <1>7, <3>3, <4>2 DEF BridgesOK
        <5>2. x # NoBd
          BY <1>1, <1>7, <3>3, BridgeAssumption DEF BridgeTypeOK
        <5> QED
          BY <1>2, <2>2, <5>1, <5>2
      <4> QED
        BY <4>1, <4>2
    <3> QED
      BY <3>1, <3>2, <3>3 DEF BridgesOK
  <2>9. MembersOK'
    BY <1>1, <1>3, <1>7, <2>2 DEF MembersOK, Exists, SubIfs, BridgeTypeOK
  <2>10. PortOrClient'
    <3>1. \A j \in SwIfs : member[j] # b
      BY <1>1, <1>7, <2>1 DEF MembersOK
    <3> QED
      BY <1>3, <2>2, <3>1 DEF BridgeInv, PortOrClient
  <2>11. InOwn'
    <3> SUFFICES ASSUME NEW e \in Conns, serverIf[e] # NoIf, member[serverIf[e]] # NoBd
                 PROVE  Client(e) # NoIf /\ bridges'[Own(e)] = member[serverIf[e]]
      BY <1>3, <1>4 DEF InOwn
    <3>1. Client(e) # NoIf /\ bridges[Own(e)] = member[serverIf[e]]
      BY DEF BridgeInv, InOwn
    <3> QED
      BY <1>1, <1>2, <2>2, <3>1, BridgeOwn
  <2>12. PlaceOK(c)'
    BY <1>1, <1>2, <1>3, <1>4, <2>3 DEF PlaceOK, HasClient, Working, Bridging, Detaching
  <2>13. TableOK(c)'
    BY <1>2, <1>3, <1>4, <1>5, <2>2, <2>3 DEF TableOK, Attaching, WithBridge, Detaching
  <2>14. ASSUME NEW e \in Conns, e # c
         PROVE  PlaceOK(e)' /\ TableOK(e)'
    <3>1. PlaceOK(e)'
      BY <1>3, <1>4, <2>3, <2>14, PlaceFrame
    <3>2. granted[e] => Own(e) # key[c]
      BY <1>2 DEF BridgeInv, TableOK
    <3>3. TableOK(e)'
      BY <1>2, <1>3, <1>4, <1>5, <2>2, <2>3, <2>5, <2>14, <3>2, TableFrame
    <3> QED
      BY <3>1, <3>3
  <2>15. Undone' <=> Undone
    BY DEF Undone, Faults
  <2>16. ASSUME Undone
         PROVE  (\A e \in Conns : PortOK(e)') /\ Exact' /\ KeyLive'
    <3>1. (\A e \in Conns : PortOK(e)) /\ Exact /\ KeyLive
      BY <2>16 DEF BridgeInv
    <3>2. ASSUME NEW e \in Conns PROVE PortOK(e)'
      <4>1. CASE e = c
        BY <1>2, <1>3, <2>3, <4>1 DEF PortOK, HasClient
      <4>2. CASE e # c
        BY <1>3, <2>3, <3>1, <4>2 DEF PortOK, OthersKeep
      <4> QED
        BY <4>1, <4>2
    <3>3. \A e \in Conns : stage[e] \in {"delsubif", "delbridge"} => stage'[e] = stage[e] /\ key'[e] = key[e]
      BY <1>2, <2>3 DEF OthersKeep
    <3>4. Exact'
      BY <1>3, <2>2, <2>5, <3>1, <3>3 DEF Exact
    <3>5. KeyLive'
      <4>1. \/ key[c][1] = 0 /\ key[c][2] \in Devices
            \/ \E d \in Devices : sub[d][key[c][1]] = key[c][2]
        BY <1>1, <1>5, BridgeOwn DEF Client
      <4> QED
        BY <1>3, <2>2, <3>1, <3>3, <4>1 DEF KeyLive
    <3> QED
      BY <3>2, <3>4, <3>5
  <2> QED
    BY <2>4, <2>6, <2>7, <2>8, <2>9, <2>10, <2>11, <2>12, <2>13, <2>14, <2>15, <2>16 DEF BridgeInv
<1> QED
  BY <1>6, <1>7 DEF NewBridge, addDelVppBridgeDomain
(* A key with a bridge that has the interface of a connection is the key   *)
(* of the connection.                                                      *)
LEMMA KeyOfClient ==
    ASSUME BridgeInv, Undone, NEW c \in Conns, Client(c) # NoIf,
           NEW k \in bridgeDomainKey, bridges[k] # NoBd, k[2] = Client(c),
           attached[bridges[k]] # {}
    PROVE  k = Own(c)
<1>1. BridgeTypeOK /\ SubsApart /\ KeyLive /\ BridgesOK
  BY DEF BridgeInv
<1>2. DeviceOf[c] \in Devices /\ VlanOf[c] \in Vlans /\ k[1] \in Vlans /\ k = <<k[1], k[2]>>
  BY <1>1, BridgeOwn, BridgeKeys
<1>3. \A e \in Conns : ~(stage[e] = "delbridge" /\ key[e] = k)
  BY DEF BridgeInv, TableOK, WithBridge
<1>4. CASE k[1] = 0 /\ k[2] \in Devices
  <2>1. VlanOf[c] = 0
    BY <1>1, <1>2, <1>4, BridgeAssumption DEF Client, BridgeTypeOK
  <2> QED
    BY <1>2, <1>4, <2>1 DEF Own
<1>5. CASE \E d \in Devices : sub[d][k[1]] = k[2]
  <2>1. PICK d \in Devices : sub[d][k[1]] = k[2]
    BY <1>5
  <2>2. VlanOf[c] # 0
    BY <1>1, <1>2, <2>1, BridgeAssumption DEF Client, BridgeTypeOK
  <2>3. sub[d][k[1]] = sub[DeviceOf[c]][VlanOf[c]] /\ sub[d][k[1]] # NoIf
    BY <2>1, <2>2 DEF Client
  <2>4. k[1] = VlanOf[c]
    BY <1>1, <1>2, <2>3 DEF SubsApart
  <2> QED
    BY <1>2, <2>4 DEF Own
<1> QED
  BY <1>1, <1>3, <1>4, <1>5 DEF KeyLive

(* An interface of the connection is put into the bridge of its key.       *)
LEMMA BridgeAttachIf ==
    ASSUME BridgeInv, NEW c \in Conns, stage[c] \in {"attachserver", "attachclient"}, OthersKeep(c),
           NEW i, i = serverIf[c] \/ i = clientIf[c],
           i \notin attached[l2Bridge[c]], Exists(i), l2Bridge[c] \in bds,
           member' = [member EXCEPT ![i] = l2Bridge[c]],
           attached' = [attached EXCEPT ![l2Bridge[c]] = @ \cup {i}],
           UNCHANGED <<env, mtus, clientIf, vlanID, serverIf, bridges, key, l2Bridge, sub, popped, ports, bds>>,
           BridgeTypeOK', stage'[c] \notin {"delsubif", "delbridge"},
           PlaceOK(c)', TableOK(c)', Undone => PortOK(c)'
    PROVE  BridgeInv'
<1> DEFINE b == l2Bridge[c]
<1>1. BridgeTypeOK /\ PlaceOK(c) /\ TableOK(c) /\ SubsApart /\ Serial /\ OwnPort
      /\ BridgesOK /\ MembersOK /\ PortOrClient /\ InOwn
  BY DEF BridgeInv
<1>2. HasClient(c) /\ serverIf[c] # NoIf /\ stage[c] # "ready"
  BY <1>1 DEF PlaceOK, Working, Bridging
<1>3. /\ key[c] = Own(c) /\ key[c] \in bridgeDomainKey /\ key[c][1] = VlanOf[c]
      /\ b \in Bds /\ bridges[key[c]] = b
  BY <1>1 DEF TableOK, Attaching, WithBridge
<1>4. key[c][2] = Client(c) /\ Client(c) \in SwIfs /\ Client(c) \notin ports /\ Client(c) # NoIf
  BY <1>1, <1>2, <1>3, BridgeOwn, BridgeClients DEF HasClient
<1>5. serverIf[c] \in ports /\ i \in SwIfs
  BY <1>1, <1>2, <1>4 DEF OwnPort, HasClient, BridgeTypeOK, SwIfs
<1>6. /\ \A j \in SwIfs : member'[j] = IF j = i THEN b ELSE member[j]
      /\ attached'[b] = attached[b] \cup {i}
      /\ \A x \in Bds : x # b => attached'[x] = attached[x]
  BY <1>1, <1>3, <1>5 DEF BridgeTypeOK
<1>7. \A e \in Conns : Client(e)' = Client(e) /\ Own(e)' = Own(e)
  BY DEF Client, Own
<1>8. b # NoBd
  BY <1>3, BridgeAssumption
<1>9. Serial'
  BY <1>1, <1>2, SerialFrame
<1>10. OwnPort' /\ SubsApart' /\ BridgesOK'
  BY <1>1 DEF OwnPort, SubsApart, BridgesOK
<1>11. MembersOK'
  <2>1. ASSUME NEW j \in SwIfs, member'[j] # NoBd
        PROVE  Exists(j) /\ member'[j] \in bds /\ j \in attached'[member'[j]]
    <3>1. CASE j = i
      BY <1>6, <3>1
    <3>2. CASE j # i
      <4>1. Exists(j) /\ member[j] \in bds /\ j \in attached[member[j]] /\ member'[j] = member[j]
        BY <1>1, <1>6, <2>1, <3>2 DEF MembersOK
      <4> QED
        BY <1>1, <1>6, <4>1 DEF BridgeTypeOK
    <3> QED
      BY <3>1, <3>2
  <2> QED
    BY <2>1 DEF MembersOK, Exists, SubIfs
<1>12. PortOrClient'
  <2> SUFFICES ASSUME NEW j \in SwIfs, NEW k \in bridgeDomainKey, member'[j] = bridges[k],
                      bridges[k] # NoBd, j \notin ports
               PROVE  k[2] = j
    BY DEF PortOrClient
  <2>1. CASE j = i
    <3>1. k = key[c]
      BY <1>1, <1>3, <1>6, <1>8, <2>1 DEF BridgesOK
    <3> QED
      BY <1>2, <1>4, <1>5, <2>1, <3>1 DEF HasClient
  <2>2. CASE j # i
    BY <1>1, <1>6, <2>2 DEF PortOrClient
  <2> QED
    BY <2>1, <2>2
<1>13. InOwn'
  <2> SUFFICES ASSUME NEW e \in Conns, serverIf[e] # NoIf, member'[serverIf[e]] # NoBd
               PROVE  Client(e) # NoIf /\ bridges[Own(e)] = member'[serverIf[e]]
    BY <1>7 DEF InOwn
  <2>1. serverIf[e] \in ports /\ serverIf[e] \in SwIfs
    BY <1>1 DEF OwnPort, BridgeTypeOK, SwIfs
  <2>2. CASE serverIf[e] = i
    <3>1. e = c
      BY <1>1, <1>2, <1>4, <2>1, <2>2 DEF OwnPort, HasClient
    <3> QED
      BY <1>3, <1>4, <1>6, <2>1, <2>2, <3>1
  <2>3. CASE serverIf[e] # i
    BY <1>1, <1>6, <2>1, <2>3 DEF InOwn
  <2> QED
    BY <2>2, <2>3
<1>14. ASSUME NEW e \in Conns, e # c, stage[e] = "delsubif"
       PROVE  key[e][2] # i
  <2>1. key[e][2] \notin ports /\ (Client(c) = key[e][2] => c = e)
    BY <1>2, <1>14, AtDelSubIf
  <2> QED
    BY <1>2, <1>5, <1>14, <2>1 DEF HasClient
<1>15. ASSUME NEW e \in Conns, e # c
       PROVE  PlaceOK(e)' /\ TableOK(e)'
  <2>1. PlaceOK(e)'
    BY <1>7, <1>15, PlaceFrame
  <2>2. PlaceOK(e) /\ TableOK(e)
    BY DEF BridgeInv
  <2>3. \A k \in bridgeDomainKey : k # key[c] /\ bridges[k] # NoBd => attached'[bridges[k]] = attached[bridges[k]]
    BY <1>1, <1>3, <1>6, <1>8 DEF BridgesOK, BridgeTypeOK
  <2>4. granted[e] /\ Own(e) = key[c] =>
           serverIf[e] \in attached'[bridges[key[c]]] /\ clientIf[e] \in attached'[bridges[key[c]]]
    BY <1>3, <1>6, <2>2 DEF TableOK
  <2>5. stage[e] = "delsubif" => member'[key[e][2]] = member[key[e][2]]
    <3> SUFFICES ASSUME stage[e] = "delsubif" PROVE member'[key[e][2]] = member[key[e][2]]
      OBVIOUS
    <3>1. key[e][2] = Client(e) /\ Client(e) # NoIf
      BY AtDelSubIf
    <3>2. key[e][2] \in SwIfs
      BY <1>1, <3>1, BridgeClients
    <3> QED
      BY <1>6, <1>14, <1>15, <3>2
  <2>6. TableOK(e)'
    BY <1>2, <1>3, <1>7, <1>15, <2>3, <2>4, <2>5, TableFrame
  <2> QED
    BY <2>1, <2>6
<1>16. Undone' <=> Undone
  BY DEF Undone, Faults
<1>17. ASSUME Undone
       PROVE  (\A e \in Conns : PortOK(e)') /\ Exact' /\ KeyLive'
  <2>1. (\A e \in Conns : PortOK(e)) /\ Exact /\ KeyLive
    BY <1>17 DEF BridgeInv
  <2>2. ASSUME NEW e \in Conns, e # c PROVE PortOK(e)'
    <3> SUFFICES ASSUME serverIf[e] # NoIf PROVE PortOK(e)'
      BY DEF PortOK
    <3>1. serverIf[e] # i /\ serverIf[e] \in SwIfs
      BY <1>1, <1>2, <1>4, <2>2 DEF OwnPort, HasClient, BridgeTypeOK, SwIfs
    <3>2. member'[serverIf[e]] = member[serverIf[e]]
      BY <1>6, <3>1
    <3> QED
      BY <2>1, <2>2, <3>2 DEF PortOK, OthersKeep
  <2>3. \A e \in Conns : stage[e] \in {"delsubif", "delbridge"} => stage'[e] = stage[e] /\ key'[e] = key[e]
    BY DEF OthersKeep
  <2>4. ASSUME NEW k \in bridgeDomainKey, bridges[k] # NoBd, bridges[k] # b, i \in attached[bridges[k]]
        PROVE  FALSE
    <3>1. ~(\E e \in Conns : stage[e] = "delsubif" /\ key[e] = k /\ k[2] = i)
      BY <1>14
    <3>2. member[i] = bridges[k]
      BY <1>5, <2>1, <2>4, <3>1 DEF Exact
    <3>3. CASE i = serverIf[c]
      BY <1>1, <1>2, <1>3, <2>4, <3>2, <3>3 DEF InOwn
    <3>4. CASE i = clientIf[c]
      <4>1. i = Client(c) /\ i \notin ports
        BY <1>2, <1>4, <3>4 DEF HasClient
      <4>2. k[2] = Client(c)
        BY <1>1, <1>5, <2>4, <3>2, <4>1 DEF PortOrClient
      <4>3. k = Own(c)
        BY <1>4, <1>17, <2>4, <4>2, KeyOfClient
      <4> QED
        BY <1>3, <2>4, <4>3
    <3> QED
      BY <3>3, <3>4
  <2>5. Exact'
    <3> SUFFICES ASSUME NEW k \in bridgeDomainKey, NEW j \in SwIfs, bridges[k] # NoBd,
                        j \in attached'[bridges[k]]
                 PROVE  \/ member'[j] = bridges[k]
                        \/ \E e \in Conns : stage'[e] = "delsubif" /\ key'[e] = k /\ k[2] = j
      BY DEF Exact
    <3>1. bridges[k] \in Bds
      BY <1>1 DEF BridgeTypeOK
    <3>2. CASE j = i
      BY <1>6, <2>4, <3>1, <3>2
    <3>3. CASE j # i
      <4>1. j \in attached[bridges[k]] /\ member'[j] = member[j]
        BY <1>6, <3>1, <3>3
      <4> QED
        BY <2>1, <2>3, <4>1 DEF Exact
    <3> QED
      BY <3>2, <3>3
  <2>6. KeyLive'
    BY <2>1, <2>3 DEF KeyLive
  <2> QED
    BY <1>17, <2>2, <2>5, <2>6
<1> QED
  BY <1>9, <1>10, <1>11, <1>12, <1>13, <1>15, <1>16, <1>17 DEF BridgeInv
(* The stage and the grant of a handler that attaches. *)
LEMMA BridgeAttachType ==
    ASSUME BridgeInv, NEW c \in Conns, NEW s \in BridgeStages, GoOn(c, s),
           UNCHANGED granted \/ granted' = [granted EXCEPT ![c] = (stage'[c] = "ready")],
           NEW i \in SwIfs, stage[c] \in {"attachserver", "attachclient"},
           \/ UNCHANGED <<attached, member>>
           \/ /\ member' = [member EXCEPT ![i] = l2Bridge[c]]
              /\ attached' = [attached EXCEPT ![l2Bridge[c]] = @ \cup {i}],
           UNCHANGED <<env, mtus, clientIf, vlanID, serverIf, bridges, key, l2Bridge, sub, popped, ports, bds>>
    PROVE  BridgeTypeOK' /\ OthersKeep(c) /\ stage'[c] = s
<1>1. BridgeTypeOK /\ l2Bridge[c] \in Bds
  BY DEF BridgeInv, TableOK, WithBridge
<1>2. stage' \in [Conns -> BridgeStages] /\ stage'[c] = s
  BY <1>1 DEF BridgeTypeOK, GoOn
<1>3. granted' \in [Conns -> BOOLEAN]
  BY <1>1 DEF BridgeTypeOK
<1>4. member' \in [SwIfs -> Bds \cup {NoBd}] /\ attached' \in [Bds -> SUBSET SwIfs]
  BY <1>1 DEF BridgeTypeOK
<1>5. OthersKeep(c)
  BY <1>1 DEF BridgeTypeOK, OthersKeep, GoOn
<1> QED
  BY <1>1, <1>2, <1>3, <1>4, <1>5 DEF BridgeTypeOK

(* The port is put into the bridge. *)
LEMMA BridgeAttachServer ==
    ASSUME BridgeInv, NEW c \in Conns, AttachServer(c), UNCHANGED <<env, mtus>>
    PROVE  BridgeInv'
<1> USE DEF table, meta, local
<1> DEFINE b == l2Bridge[c]
           i == serverIf[c]
<1>1. BridgeTypeOK /\ PlaceOK(c) /\ TableOK(c) /\ (Undone => PortOK(c)) /\ OwnPort
  BY DEF BridgeInv
<1>2. stage[c] = "attachserver" /\ ~granted[c] /\ HasClient(c) /\ serverIf[c] # NoIf
  BY <1>1 DEF AttachServer, PlaceOK, Working, Bridging
<1>3. /\ key[c] = Own(c) /\ key[c] \in bridgeDomainKey /\ key[c][1] = VlanOf[c]
      /\ b \in Bds /\ bridges[key[c]] = b
  BY <1>1, <1>2 DEF TableOK, Attaching, WithBridge
<1>4. [bridges EXCEPT ![key[c]] = b] = bridges
  BY <1>1, <1>3 DEF BridgeTypeOK
<1>5. UNCHANGED <<clientIf, vlanID, serverIf, bridges, key, l2Bridge, granted, sub, popped, ports, bds>>
  BY <1>4 DEF AttachServer, Attach
<1>6. \A e \in Conns : Client(e)' = Client(e) /\ Own(e)' = Own(e)
  BY <1>5 DEF Client, Own
<1>7. i \in SwIfs
  BY <1>1, <1>2 DEF BridgeTypeOK, SwIfs
<1>8. CASE i \in attached[b] /\ GoOn(c, "attachclient") /\ UNCHANGED <<attached, member>>
  <2>1. BridgeTypeOK' /\ OthersKeep(c) /\ stage'[c] = "attachclient"
    BY <1>2, <1>5, <1>7, <1>8, BridgeAttachType DEF BridgeStages
  <2>2. PlaceOK(c)'
    BY <1>1, <1>2, <1>5, <1>6, <2>1 DEF PlaceOK, HasClient, Working, Bridging, Detaching
  <2>3. TableOK(c)'
    BY <1>2, <1>3, <1>5, <1>6, <1>8, <2>1 DEF TableOK, Attaching, WithBridge, Detaching
  <2>4. ASSUME Undone PROVE PortOK(c)'
    BY <1>1, <1>2, <1>5, <2>1, <2>4 DEF PortOK
  <2> QED
    BY <1>2, <1>5, <1>8, <2>1, <2>2, <2>3, <2>4, BridgeQuiet
<1>9. CASE /\ i \notin attached[b] /\ Exists(i) /\ b \in bds /\ GoOn(c, "attachclient")
           /\ member' = [member EXCEPT ![i] = b]
           /\ attached' = [attached EXCEPT ![b] = @ \cup {i}]
  <2>1. BridgeTypeOK' /\ OthersKeep(c) /\ stage'[c] = "attachclient"
    BY <1>2, <1>5, <1>7, <1>9, BridgeAttachType DEF BridgeStages
  <2>2. i \in attached'[b]
    BY <1>1, <1>3, <1>9 DEF BridgeTypeOK
  <2>3. PlaceOK(c)'
    BY <1>1, <1>2, <1>5, <1>6, <2>1 DEF PlaceOK, HasClient, Working, Bridging, Detaching
  <2>4. TableOK(c)'
    BY <1>2, <1>3, <1>5, <1>6, <2>1, <2>2 DEF TableOK, Attaching, WithBridge, Detaching
  <2>5. ASSUME Undone PROVE PortOK(c)'
    BY <1>1, <1>2, <1>5, <2>1, <2>5 DEF PortOK
  <2> QED
    BY <1>2, <1>5, <1>9, <2>1, <2>3, <2>4, <2>5, BridgeAttachIf
<1>10. CASE GoOn(c, "del") /\ UNCHANGED <<attached, member>>
  <2>1. BridgeTypeOK' /\ OthersKeep(c) /\ stage'[c] = "del"
    BY <1>2, <1>5, <1>7, <1>10, BridgeAttachType DEF BridgeStages
  <2>2. PlaceOK(c)'
    BY <1>1, <1>2, <1>5, <1>6, <2>1 DEF PlaceOK, HasClient, Working, Bridging, Detaching
  <2>3. TableOK(c)'
    BY <1>2, <1>5, <2>1 DEF TableOK, Attaching, WithBridge, Detaching
  <2>4. ASSUME Undone PROVE PortOK(c)'
    BY <1>1, <1>2, <1>5, <2>1, <2>4 DEF PortOK
  <2> QED
    BY <1>2, <1>5, <1>10, <2>1, <2>2, <2>3, <2>4, BridgeQuiet
<1> QED
  BY <1>8, <1>9, <1>10 DEF AttachServer, Attach, addDelVppInterfaceBridgeDomain

(* The interface of the vlan is put into the bridge: the request is        *)
(* granted.                                                                *)
LEMMA BridgeAttachClient ==
    ASSUME BridgeInv, NEW c \in Conns, AttachClient(c), UNCHANGED <<env, mtus>>
    PROVE  BridgeInv'
<1> USE DEF table, meta, local
<1> DEFINE b == l2Bridge[c]
           i == clientIf[c]
<1>1. BridgeTypeOK /\ PlaceOK(c) /\ TableOK(c) /\ (Undone => PortOK(c))
  BY DEF BridgeInv
<1>2. /\ stage[c] = "attachclient" /\ ~granted[c] /\ HasClient(c) /\ serverIf[c] # NoIf
      /\ serverIf[c] \in attached[b]
  BY <1>1 DEF AttachClient, PlaceOK, TableOK, Working, Bridging
<1>3. /\ key[c] = Own(c) /\ key[c] \in bridgeDomainKey /\ key[c][1] = VlanOf[c]
      /\ b \in Bds /\ bridges[key[c]] = b
  BY <1>1, <1>2 DEF TableOK, Attaching, WithBridge
<1>4. [bridges EXCEPT ![key[c]] = b] = bridges
  BY <1>1, <1>3 DEF BridgeTypeOK
<1>5. UNCHANGED <<clientIf, vlanID, serverIf, bridges, key, l2Bridge, sub, popped, ports, bds>>
  BY <1>4 DEF AttachClient, Attach
<1>6. granted' = [granted EXCEPT ![c] = (stage'[c] = "ready")] /\ granted'[c] = (stage'[c] = "ready")
  BY <1>1 DEF AttachClient, BridgeTypeOK
<1>7. \A e \in Conns : Client(e)' = Client(e) /\ Own(e)' = Own(e)
  BY <1>5 DEF Client, Own
<1>8. i \in SwIfs /\ b # NoBd
  BY <1>1, <1>2, <1>3, BridgeAssumption DEF BridgeTypeOK, HasClient
<1>9. ASSUME stage'[c] = "ready", granted'[c], i \in attached'[b], serverIf[c] \in attached'[b]
      PROVE  PlaceOK(c)' /\ TableOK(c)' /\ (Undone => PortOK(c)')
  <2>1. PlaceOK(c)'
    BY <1>1, <1>2, <1>5, <1>7, <1>9 DEF PlaceOK, HasClient, Working, Bridging, Detaching
  <2>2. TableOK(c)'
    BY <1>3, <1>5, <1>7, <1>8, <1>9 DEF TableOK, Attaching, WithBridge, Detaching
  <2>3. ASSUME Undone PROVE PortOK(c)'
    BY <1>1, <1>2, <1>5, <1>9, <2>3 DEF PortOK
  <2> QED
    BY <2>1, <2>2, <2>3
<1>10. CASE i \in attached[b] /\ GoOn(c, "ready") /\ UNCHANGED <<attached, member>>
  <2>1. BridgeTypeOK' /\ OthersKeep(c) /\ stage'[c] = "ready"
    BY <1>2, <1>5, <1>6, <1>8, <1>10, BridgeAttachType DEF BridgeStages
  <2>2. PlaceOK(c)' /\ TableOK(c)' /\ (Undone => PortOK(c)')
    BY <1>2, <1>6, <1>9, <1>10, <2>1
  <2> QED
    BY <1>2, <1>5, <1>10, <2>1, <2>2, BridgeQuiet
<1>11. CASE /\ i \notin attached[b] /\ Exists(i) /\ b \in bds /\ GoOn(c, "ready")
            /\ member' = [member EXCEPT ![i] = b]
            /\ attached' = [attached EXCEPT ![b] = @ \cup {i}]
  <2>1. BridgeTypeOK' /\ OthersKeep(c) /\ stage'[c] = "ready"
    BY <1>2, <1>5, <1>6, <1>8, <1>11, BridgeAttachType DEF BridgeStages
  <2>2. i \in attached'[b] /\ serverIf[c] \in attached'[b]
    BY <1>1, <1>2, <1>3, <1>11 DEF BridgeTypeOK
  <2>3. PlaceOK(c)' /\ TableOK(c)' /\ (Undone => PortOK(c)')
    BY <1>6, <1>9, <2>1, <2>2
  <2> QED
    BY <1>2, <1>5, <1>11, <2>1, <2>3, BridgeAttachIf
<1>12. CASE GoOn(c, "del") /\ UNCHANGED <<attached, member>>
  <2>1. BridgeTypeOK' /\ OthersKeep(c) /\ stage'[c] = "del"
    BY <1>2, <1>5, <1>6, <1>8, <1>12, BridgeAttachType DEF BridgeStages
  <2>2. PlaceOK(c)'
    BY <1>1, <1>2, <1>5, <1>6, <1>7, <2>1 DEF PlaceOK, HasClient, Working, Bridging, Detaching
  <2>3. TableOK(c)'
    BY <1>6, <2>1 DEF TableOK, Attaching, WithBridge, Detaching
  <2>4. ASSUME Undone PROVE PortOK(c)'
    BY <1>1, <1>2, <1>5, <2>1, <2>4 DEF PortOK
  <2> QED
    BY <1>2, <1>5, <1>12, <2>1, <2>2, <2>3, <2>4, BridgeQuiet
<1> QED
  BY <1>10, <1>11, <1>12 DEF AttachClient, Attach, addDelVppInterfaceBridgeDomain
(* What a running handler of c may do to the bridge of its key, it does to *)
(* no other.                                                               *)
LEMMA BridgeAlone ==
    ASSUME BridgeInv, NEW c \in Conns, key[c] \in bridgeDomainKey, bridges[key[c]] = l2Bridge[c],
           l2Bridge[c] \in Bds,
           \A x \in Bds : x # l2Bridge[c] => attached'[x] = attached[x],
           NEW k \in bridgeDomainKey, k # key[c], bridges[k] # NoBd
    PROVE  attached'[bridges[k]] = attached[bridges[k]] /\ bridges[k] # l2Bridge[c]
<1>1. BridgesOK /\ BridgeTypeOK
  BY DEF BridgeInv
<1>2. bridges[k] # l2Bridge[c]
  BY <1>1 DEF BridgesOK
<1>3. bridges[k] \in Bds
  BY <1>1 DEF BridgeTypeOK
<1> QED
  BY <1>2, <1>3

(* The port leaves the bridge. *)
LEMMA BridgeDetachServer ==
    ASSUME BridgeInv, NEW c \in Conns, DetachServer(c), UNCHANGED <<env, mtus>>
    PROVE  BridgeInv'
<1> USE DEF table, meta, local
<1> DEFINE b == l2Bridge[c]
           i == serverIf[c]
<1>1. BridgeTypeOK /\ PlaceOK(c) /\ TableOK(c) /\ (Undone => PortOK(c)) /\ OwnPort /\ InOwn
      /\ MembersOK /\ PortOrClient /\ SubsApart
  BY DEF BridgeInv
<1>2. stage[c] = "detachserver" /\ ~granted[c] /\ HasClient(c)
  BY <1>1 DEF DetachServer, PlaceOK, Working, Detaching
<1>3. /\ key[c] = Own(c) /\ key[c] \in bridgeDomainKey /\ key[c][1] = VlanOf[c]
      /\ b \in Bds /\ bridges[key[c]] = b
  BY <1>1, <1>2 DEF TableOK, Detaching, WithBridge
<1>4. UNCHANGED <<clientIf, vlanID, serverIf, bridges, key, l2Bridge, granted, sub, popped, ports, bds>>
  BY DEF DetachServer
<1>5. \A e \in Conns : Client(e)' = Client(e) /\ Own(e)' = Own(e)
  BY <1>4 DEF Client, Own
<1>6. CASE i \notin attached[b] /\ GoOn(c, "last") /\ UNCHANGED <<attached, member>>
  <2>1. BridgeTypeOK' /\ OthersKeep(c) /\ stage'[c] = "last"
    BY <1>1, <1>4, <1>6, BridgeMetaType DEF BridgeStages, BridgeTypeOK
  <2>2. PlaceOK(c)'
    BY <1>1, <1>2, <1>4, <1>5, <2>1 DEF PlaceOK, HasClient, Working, Bridging, Detaching
  <2>3. TableOK(c)'
    BY <1>2, <1>3, <1>4, <1>5, <1>6, <2>1 DEF TableOK, Attaching, WithBridge, Detaching
  <2>4. i # NoIf => member[i] = NoBd
    <3> SUFFICES ASSUME i # NoIf, member[i] # NoBd PROVE FALSE
      OBVIOUS
    <3>1. member[i] = b /\ i \in SwIfs
      BY <1>1, <1>3 DEF InOwn, BridgeTypeOK, SwIfs
    <3> QED
      BY <1>1, <1>6, <3>1 DEF MembersOK
  <2>5. ASSUME Undone PROVE PortOK(c)'
    BY <1>1, <1>2, <1>4, <1>6, <2>1, <2>4, <2>5 DEF PortOK
  <2> QED
    BY <1>2, <1>4, <1>6, <2>1, <2>2, <2>3, <2>5, BridgeQuiet
<1>7. CASE GoOn(c, "closenext") /\ Fails(c, FALSE) /\ UNCHANGED <<attached, member>>
  <2>1. ~Undone
    BY <1>7 DEF Fails, Undone
  <2> QED
    BY <1>2, <1>4, <1>7, <2>1, BridgeGiveUp DEF Detaching
<1>8. CASE /\ i \in attached[b] /\ member' = [member EXCEPT ![i] = NoBd]
           /\ attached' = [attached EXCEPT ![b] = @ \ {i}] /\ GoOn(c, "last")
  <2>1. i \in SwIfs /\ i # NoIf /\ i \in ports
    <3>1. i \in SwIfs
      BY <1>1, <1>3, <1>8 DEF BridgeTypeOK
    <3> QED
      BY <1>1, <3>1, BridgeAssumption DEF OwnPort, SwIfs
  <2>2. /\ \A j \in SwIfs : member'[j] = IF j = i THEN NoBd ELSE member[j]
        /\ attached'[b] = attached[b] \ {i}
        /\ \A x \in Bds : x # b => attached'[x] = attached[x]
    BY <1>1, <1>3, <1>8, <2>1 DEF BridgeTypeOK
  <2>3. OthersKeep(c) /\ stage'[c] = "last"
    BY <1>1, <1>4, <1>8 DEF GoOn, OthersKeep, BridgeTypeOK
  <2>4. BridgeTypeOK'
    <3>1. member' \in [SwIfs -> Bds \cup {NoBd}] /\ attached' \in [Bds -> SUBSET SwIfs]
      BY <1>1, <1>8 DEF BridgeTypeOK
    <3>2. stage' \in [Conns -> BridgeStages]
      BY <1>1, <1>8 DEF BridgeTypeOK, GoOn, BridgeStages
    <3> QED
      BY <1>1, <1>4, <3>1, <3>2 DEF BridgeTypeOK
  <2>5. Serial'
    BY <1>2, <2>3, SerialFrame DEF BridgeInv
  <2>6. OwnPort' /\ SubsApart' /\ BridgesOK'
    BY <1>4 DEF BridgeInv, OwnPort, SubsApart, BridgesOK
  <2>7. MembersOK'
    <3> SUFFICES ASSUME NEW j \in SwIfs, member'[j] # NoBd
                 PROVE  Exists(j) /\ member'[j] \in bds /\ j \in attached'[member'[j]]
      BY <1>4 DEF MembersOK, Exists, SubIfs
    <3>1. j # i /\ member'[j] = member[j]
      BY <2>2
    <3>2. Exists(j) /\ member[j] \in bds /\ j \in attached[member[j]]
      BY <1>1, <3>1 DEF MembersOK
    <3> QED
      BY <1>1, <2>2, <3>1, <3>2 DEF BridgeTypeOK
  <2>8. PortOrClient'
    BY <1>1, <1>4, <2>2 DEF PortOrClient
  <2>9. \A e \in Conns : e # c /\ serverIf[e] # NoIf => serverIf[e] # i /\ member'[serverIf[e]] = member[serverIf[e]]
    <3> SUFFICES ASSUME NEW e \in Conns, e # c, serverIf[e] # NoIf
                 PROVE  serverIf[e] # i /\ member'[serverIf[e]] = member[serverIf[e]]
      OBVIOUS
    <3>1. serverIf[e] # i /\ serverIf[e] \in SwIfs
      BY <1>1, <2>1 DEF OwnPort, BridgeTypeOK, SwIfs
    <3> QED
      BY <2>2, <3>1
  <2>10. InOwn'
    BY <1>1, <1>4, <1>5, <2>1, <2>2, <2>9 DEF InOwn
  <2>11. PlaceOK(c)'
    BY <1>1, <1>2, <1>4, <1>5, <2>3 DEF PlaceOK, HasClient, Working, Bridging, Detaching
  <2>12. TableOK(c)'
    BY <1>2, <1>3, <1>4, <1>5, <2>3 DEF TableOK, Attaching, WithBridge, Detaching
  <2>13. ASSUME NEW e \in Conns, stage[e] = "delsubif"
         PROVE  key[e][2] # i /\ member'[key[e][2]] = member[key[e][2]]
    <3>1. key[e][2] \notin ports /\ key[e][2] = Client(e) /\ Client(e) # NoIf
      BY <2>13, AtDelSubIf
    <3>2. key[e][2] \in SwIfs
      BY <1>1, <3>1, BridgeClients
    <3> QED
      BY <2>1, <2>2, <3>1, <3>2
  <2>14. ASSUME NEW e \in Conns, e # c
         PROVE  PlaceOK(e)' /\ TableOK(e)'
    <3>1. PlaceOK(e)'
      BY <1>4, <1>5, <2>3, <2>14, PlaceFrame
    <3>2. \A k \in bridgeDomainKey : k # key[c] /\ bridges[k] # NoBd => attached'[bridges[k]] = attached[bridges[k]]
      BY <1>3, <2>2, BridgeAlone
    <3>3. PlaceOK(e) /\ TableOK(e)
      BY DEF BridgeInv
    <3>4. ASSUME granted[e], Own(e) = key[c]
          PROVE  serverIf[e] \in attached'[b] /\ clientIf[e] \in attached'[b]
      <4>1. HasClient(e) /\ serverIf[e] # NoIf /\ serverIf[e] \in attached[b] /\ clientIf[e] \in attached[b]
        BY <1>3, <3>3, <3>4 DEF PlaceOK, TableOK
      <4>2. clientIf[e] # i
        BY <1>1, <2>1, <4>1, BridgeClients DEF HasClient
      <4> QED
        BY <2>2, <2>9, <2>14, <4>1, <4>2
    <3>5. TableOK(e)'
      BY <1>2, <1>3, <1>4, <1>5, <2>3, <2>13, <2>14, <3>2, <3>4, TableFrame
    <3> QED
      BY <3>1, <3>5
  <2>15. Undone' <=> Undone
    BY <1>4 DEF Undone, Faults
  <2>16. ASSUME Undone
         PROVE  (\A e \in Conns : PortOK(e)') /\ Exact' /\ KeyLive'
    <3>1. (\A e \in Conns : PortOK(e)) /\ Exact /\ KeyLive
      BY <2>16 DEF BridgeInv
    <3>2. ASSUME NEW e \in Conns PROVE PortOK(e)'
      <4>1. CASE e = c
        BY <1>2, <1>4, <2>1, <2>2, <2>3, <4>1 DEF PortOK, HasClient
      <4>2. CASE e # c
        BY <1>4, <2>3, <2>9, <3>1, <4>2 DEF PortOK, OthersKeep
      <4> QED
        BY <4>1, <4>2
    <3>3. \A e \in Conns : stage[e] \in {"delsubif", "delbridge"} => stage'[e] = stage[e] /\ key'[e] = key[e]
      BY <1>2, <2>3 DEF OthersKeep
    <3>4. ASSUME NEW k \in bridgeDomainKey, NEW j \in SwIfs, bridges[k] # NoBd, j \in attached'[bridges[k]]
          PROVE  j # i /\ j \in attached[bridges[k]]
      <4>1. bridges[k] \in Bds /\ j \in attached[bridges[k]]
        BY <1>1, <2>2, <3>4 DEF BridgeTypeOK
      <4>2. ASSUME j = i PROVE FALSE
        <5>1. bridges[k] # b
          BY <2>2, <3>4, <4>2
        <5>2. \A l \in bridgeDomainKey : bridges[l] # NoBd /\ i \in attached[bridges[l]] => member[i] = bridges[l]
          BY <2>1, <2>13, <3>1 DEF Exact
        <5>3. b # NoBd
          BY <1>3, BridgeAssumption
        <5> QED
          BY <1>3, <1>8, <3>4, <4>1, <4>2, <5>1, <5>2, <5>3
      <4> QED
        BY <4>1, <4>2
    <3>5. Exact'
      BY <1>4, <2>2, <3>1, <3>3, <3>4 DEF Exact
    <3>6. KeyLive'
      BY <1>4, <3>1, <3>3 DEF KeyLive
    <3> QED
      BY <3>2, <3>5, <3>6
  <2> QED
    BY <2>4, <2>5, <2>6, <2>7, <2>8, <2>10, <2>11, <2>12, <2>14, <2>15, <2>16 DEF BridgeInv
<1> QED
  BY <1>6, <1>7, <1>8 DEF DetachServer, addDelVppInterfaceBridgeDomain, Fails
(* The last interface leaves the bridge. *)
LEMMA BridgeDetachClient ==
    ASSUME BridgeInv, NEW c \in Conns, DetachClient(c), UNCHANGED <<env, mtus>>
    PROVE  BridgeInv'
<1> USE DEF table, meta, local
<1> DEFINE b == l2Bridge[c]
           i == key[c][2]
<1>1. BridgeTypeOK /\ PlaceOK(c) /\ TableOK(c) /\ (Undone => PortOK(c)) /\ OwnPort /\ InOwn
      /\ MembersOK /\ PortOrClient /\ SubsApart /\ Serial
  BY DEF BridgeInv
<1>2. stage[c] = "detachclient" /\ ~granted[c] /\ HasClient(c) /\ attached[b] = {i}
  BY <1>1 DEF DetachClient, PlaceOK, TableOK, Working, Detaching
<1>3. /\ key[c] = Own(c) /\ key[c] \in bridgeDomainKey /\ key[c][1] = VlanOf[c]
      /\ b \in Bds /\ bridges[key[c]] = b
  BY <1>1, <1>2 DEF TableOK, Detaching, WithBridge
<1>4. UNCHANGED <<clientIf, vlanID, serverIf, bridges, attached, key, l2Bridge, granted, sub, popped, ports, bds>>
  BY DEF DetachClient
<1>5. \A e \in Conns : Client(e)' = Client(e) /\ Own(e)' = Own(e)
  BY <1>4 DEF Client, Own
<1>6. i = Client(c) /\ i \in SwIfs /\ i \notin ports /\ Exists(i)
  BY <1>1, <1>2, <1>3, BridgeOwn, BridgeClients DEF HasClient
<1>7. CASE Fails(c, ~Exists(i)) /\ UNCHANGED member
  <2>1. ~Undone /\ GoOn(c, "closenext")
    BY <1>6, <1>7 DEF Fails, Undone
  <2> QED
    BY <1>2, <1>4, <1>7, <2>1, BridgeGiveUp DEF Detaching
<1>8. CASE member' = [member EXCEPT ![i] = NoBd] /\ GoOn(c, "delsubif")
  <2>1. \A j \in SwIfs : member'[j] = IF j = i THEN NoBd ELSE member[j]
    BY <1>1, <1>6, <1>8 DEF BridgeTypeOK
  <2>2. OthersKeep(c) /\ stage'[c] = "delsubif"
    BY <1>1, <1>4, <1>8 DEF GoOn, OthersKeep, BridgeTypeOK
  <2>3. BridgeTypeOK'
    <3>1. member' \in [SwIfs -> Bds \cup {NoBd}]
      BY <1>1, <1>8 DEF BridgeTypeOK
    <3>2. stage' \in [Conns -> BridgeStages]
      BY <1>1, <1>8 DEF BridgeTypeOK, GoOn, BridgeStages
    <3> QED
      BY <1>1, <1>4, <3>1, <3>2 DEF BridgeTypeOK
  <2>4. Serial'
    BY <1>2, <2>2, SerialFrame DEF BridgeInv
  <2>5. OwnPort' /\ SubsApart' /\ BridgesOK'
    BY <1>4 DEF BridgeInv, OwnPort, SubsApart, BridgesOK
  <2>6. MembersOK' /\ PortOrClient'
    BY <1>1, <1>4, <2>1 DEF MembersOK, PortOrClient, Exists, SubIfs
  <2>7. \A e \in Conns : serverIf[e] # NoIf => member'[serverIf[e]] = member[serverIf[e]]
    <3> SUFFICES ASSUME NEW e \in Conns, serverIf[e] # NoIf
                 PROVE  member'[serverIf[e]] = member[serverIf[e]]
      OBVIOUS
    <3>1. serverIf[e] # i /\ serverIf[e] \in SwIfs
      BY <1>1, <1>6 DEF OwnPort, BridgeTypeOK, SwIfs
    <3> QED
      BY <2>1, <3>1
  <2>8. InOwn'
    BY <1>1, <1>4, <1>5, <2>7 DEF InOwn
  <2>9. PlaceOK(c)'
    BY <1>1, <1>2, <1>4, <1>5, <2>2 DEF PlaceOK, HasClient, Working, Bridging, Detaching
  <2>10. TableOK(c)'
    BY <1>2, <1>3, <1>4, <1>5, <1>6, <2>1, <2>2 DEF TableOK, Attaching, WithBridge, Detaching
  <2>11. ASSUME NEW e \in Conns, stage[e] = "delsubif"
         PROVE  key[e][2] # i /\ member'[key[e][2]] = member[key[e][2]]
    <3>1. key[e][2] = Client(e) /\ Client(e) # NoIf /\ (Client(c) = key[e][2] => c = e)
      BY <1>2, <2>11, AtDelSubIf
    <3>2. key[e][2] \in SwIfs
      BY <1>1, <3>1, BridgeClients
    <3> QED
      BY <1>2, <1>6, <2>1, <2>11, <3>1, <3>2
  <2>12. ASSUME NEW e \in Conns, e # c
         PROVE  PlaceOK(e)' /\ TableOK(e)'
    <3>1. PlaceOK(e)'
      BY <1>4, <1>5, <2>2, <2>12, PlaceFrame
    <3>2. granted[e] => serverIf[e] \in attached[bridges[Own(e)]] /\ clientIf[e] \in attached[bridges[Own(e)]]
      BY DEF BridgeInv, TableOK
    <3>3. TableOK(e)'
      BY <1>2, <1>3, <1>4, <1>5, <2>2, <2>11, <2>12, <3>2, TableFrame
    <3> QED
      BY <3>1, <3>3
  <2>13. Undone' <=> Undone
    BY DEF Undone, Faults
  <2>14. ASSUME Undone
         PROVE  (\A e \in Conns : PortOK(e)') /\ Exact' /\ KeyLive'
    <3>1. (\A e \in Conns : PortOK(e)) /\ Exact /\ KeyLive
      BY <2>14 DEF BridgeInv
    <3>2. ASSUME NEW e \in Conns PROVE PortOK(e)'
      <4>1. CASE e = c
        BY <1>2, <1>4, <2>2, <2>7, <3>1, <4>1 DEF PortOK
      <4>2. CASE e # c
        BY <1>4, <2>2, <2>7, <3>1, <4>2 DEF PortOK, OthersKeep
      <4> QED
        BY <4>1, <4>2
    <3>3. \A e \in Conns : stage[e] \in {"delsubif", "delbridge"} => stage'[e] = stage[e] /\ key'[e] = key[e]
      BY <1>2, <2>2 DEF OthersKeep
    <3>4. ASSUME NEW k \in bridgeDomainKey, bridges[k] # NoBd, i \in attached[bridges[k]]
          PROVE  k = key[c]
      <4>1. \A l \in bridgeDomainKey : bridges[l] # NoBd /\ i \in attached[bridges[l]] => member[i] = bridges[l]
        BY <1>6, <2>11, <3>1 DEF Exact
      <4>2. b # NoBd
        BY <1>3, BridgeAssumption
      <4>3. bridges[k] = bridges[key[c]]
        BY <1>2, <1>3, <3>4, <4>1, <4>2
      <4> QED
        BY <1>3, <3>4, <4>3 DEF BridgeInv, BridgesOK
    <3>5. Exact'
      <4> SUFFICES ASSUME NEW k \in bridgeDomainKey, NEW j \in SwIfs, bridges[k] # NoBd,
                          j \in attached[bridges[k]]
                   PROVE  \/ member'[j] = bridges[k]
                          \/ \E e \in Conns : stage'[e] = "delsubif" /\ key'[e] = k /\ k[2] = j
        BY <1>4 DEF Exact
      <4>1. CASE j = i
        BY <1>4, <2>2, <3>4, <4>1
      <4>2. CASE j # i
        BY <2>1, <3>1, <3>3, <4>2 DEF Exact
      <4> QED
        BY <4>1, <4>2
    <3>6. KeyLive'
      BY <1>4, <3>1, <3>3 DEF KeyLive
    <3> QED
      BY <3>2, <3>5, <3>6
  <2> QED
    BY <2>3, <2>4, <2>5, <2>6, <2>8, <2>9, <2>10, <2>12, <2>13, <2>14 DEF BridgeInv
<1> QED
  BY <1>7, <1>8 DEF DetachClient, addDelVppInterfaceBridgeDomain

(* The sub-interface is deleted: no connection that is granted has it, for *)
(* its port would still be attached.                                       *)
LEMMA BridgeDelSubIf ==
    ASSUME BridgeInv, NEW c \in Conns, delVppSubIf(c), UNCHANGED <<env, mtus>>
    PROVE  BridgeInv'
<1> USE DEF table, meta, local
<1> DEFINE b == l2Bridge[c]
           i == key[c][2]
<1>1. BridgeTypeOK /\ PlaceOK(c) /\ TableOK(c) /\ (Undone => PortOK(c)) /\ OwnPort /\ InOwn
      /\ MembersOK /\ PortOrClient /\ SubsApart /\ Serial
  BY DEF BridgeInv
<1>2. stage[c] = "delsubif" /\ ~granted[c] /\ HasClient(c) /\ attached[b] = {i} /\ member[i] = NoBd
  BY <1>1 DEF delVppSubIf, PlaceOK, TableOK, Working, Detaching
<1>3. /\ key[c] = Own(c) /\ key[c] \in bridgeDomainKey /\ key[c][1] = VlanOf[c]
      /\ b \in Bds /\ bridges[key[c]] = b /\ b # NoBd
  BY <1>1, <1>2, BridgeAssumption DEF TableOK, Detaching, WithBridge
<1>4. i = Client(c) /\ i \in SwIfs /\ i \notin ports /\ i # NoIf
  BY <1>1, <1>2, <1>3, BridgeOwn, BridgeClients DEF HasClient
<1>5. /\ \A d \in Devices, v \in Vlans : sub'[d][v] = IF sub[d][v] = i THEN NoIf ELSE sub[d][v]
      /\ sub' \in [Devices -> [Vlans -> Ifs \cup {NoIf}]]
  <2>1. CASE key[c][1] = 0 /\ UNCHANGED sub
    <3>1. i \in Devices
      BY <1>1, <1>2, <1>3, <1>4, <2>1, BridgeClients
    <3>2. \A d \in Devices, v \in Vlans : sub[d][v] # i
      BY <1>1, <3>1, BridgeAssumption DEF BridgeTypeOK
    <3> QED
      BY <1>1, <2>1, <3>2 DEF BridgeTypeOK
  <2>2. CASE sub' = [d \in Devices |-> [v \in Vlans |-> IF sub[d][v] = i THEN NoIf ELSE sub[d][v]]]
    BY <1>1, <2>2 DEF BridgeTypeOK
  <2> QED
    BY <2>1, <2>2 DEF delVppSubIf
<1>6. popped \ {i} \subseteq popped' /\ popped' \subseteq Ifs
  BY <1>1 DEF delVppSubIf, BridgeTypeOK
<1>7. UNCHANGED member
  <2>1. [member EXCEPT ![i] = NoBd] = member
    BY <1>1, <1>2, <1>4 DEF BridgeTypeOK
  <2> QED
    BY <2>1 DEF delVppSubIf
<1>8. clientIf' = clientIf \/ clientIf' = [clientIf EXCEPT ![c] = NoIf]
  BY DEF delVppSubIf
<1>9. UNCHANGED <<serverIf, vlanID, bridges, key, l2Bridge, granted, ports, bds>>
  BY DEF delVppSubIf
<1>10. attached' = [attached EXCEPT ![b] = @ \ {i}] /\ GoOn(c, "delbridge")
  BY DEF delVppSubIf
<1>11. attached'[b] = {} /\ \A x \in Bds : x # b => attached'[x] = attached[x]
  BY <1>1, <1>2, <1>3, <1>10 DEF BridgeTypeOK
<1>12. OthersKeep(c) /\ stage'[c] = "delbridge"
  BY <1>1, <1>8, <1>9, <1>10 DEF GoOn, OthersKeep, BridgeTypeOK
<1>13. BridgeTypeOK'
  <2>1. clientIf' \in [Conns -> SwIfs \cup {NoIf}] /\ attached' \in [Bds -> SUBSET SwIfs]
    BY <1>1, <1>8, <1>10 DEF BridgeTypeOK
  <2>2. stage' \in [Conns -> BridgeStages]
    BY <1>1, <1>10 DEF BridgeTypeOK, GoOn, BridgeStages
  <2> QED
    BY <1>1, <1>5, <1>6, <1>7, <1>9, <2>1, <2>2 DEF BridgeTypeOK
<1>14. ASSUME NEW e \in Conns, Client(e) # i
       PROVE  Client(e)' = Client(e) /\ Own(e)' = Own(e)
  <2>1. DeviceOf[e] \in Devices /\ VlanOf[e] \in Vlans
    BY <1>1, BridgeOwn
  <2> QED
    BY <1>5, <1>14, <2>1 DEF Client, Own
<1>15. \A k \in bridgeDomainKey : k # key[c] /\ bridges[k] # NoBd => attached'[bridges[k]] = attached[bridges[k]]
  BY <1>3, <1>11, BridgeAlone
<1>16. ASSUME NEW e \in Conns, serverIf[e] # NoIf
       PROVE  serverIf[e] \notin attached[b] /\ serverIf[e] \in SwIfs
  BY <1>1, <1>2, <1>4, <1>16 DEF OwnPort, BridgeTypeOK, SwIfs
<1>17. ASSUME NEW e \in Conns, Client(e) = i
       PROVE  Own(e) = key[c] /\ ~granted[e]
  <2>1. VlanOf[e] = VlanOf[c]
    BY <1>1, <1>4, <1>17, BridgeClients
  <2>2. Own(e) = key[c]
    BY <1>3, <1>4, <1>17, <2>1 DEF Own
  <2>3. granted[e] => serverIf[e] # NoIf /\ serverIf[e] \in attached[b]
    BY <1>3, <2>2 DEF BridgeInv, PlaceOK, TableOK
  <2> QED
    BY <1>16, <2>2, <2>3
<1>18. ASSUME NEW e \in Conns, e # c, HasClient(e)
       PROVE  Client(e) # i
  <2> SUFFICES ASSUME Client(e) = i PROVE FALSE
    OBVIOUS
  <2>1. VlanOf[e] = VlanOf[c] /\ ~granted[e]
    BY <1>1, <1>4, <1>17, BridgeClients
  <2>2. stage[e] = "ready"
    BY <1>1, <1>2, <1>18, <2>1 DEF Serial
  <2> QED
    BY <1>18, <2>1, <2>2 DEF BridgeInv, PlaceOK, HasClient
<1>19. Serial'
  BY <1>1, <1>2, <1>12, SerialFrame
<1>20. OwnPort' /\ BridgesOK' /\ PortOrClient'
  BY <1>7, <1>9 DEF BridgeInv, OwnPort, BridgesOK, PortOrClient
<1>21. SubsApart'
  BY <1>1, <1>5, <1>9 DEF SubsApart
<1>22. MembersOK'
  <2> SUFFICES ASSUME NEW j \in SwIfs, member[j] # NoBd
               PROVE  Exists(j)' /\ member[j] \in bds /\ j \in attached'[member[j]]
    BY <1>7, <1>9 DEF MembersOK
  <2>1. j # i /\ Exists(j) /\ member[j] \in bds /\ j \in attached[member[j]]
    BY <1>1, <1>2 DEF MembersOK
  <2>2. Exists(j)'
    <3>1. j \in SubIfs => j \in SubIfs'
      BY <1>5, <2>1 DEF SubIfs
    <3> QED
      BY <1>9, <2>1, <3>1 DEF Exists
  <2>3. member[j] # b
    BY <1>2, <2>1
  <2> QED
    BY <1>1, <1>11, <2>1, <2>2, <2>3 DEF BridgeTypeOK
<1>23. InOwn'
  <2> SUFFICES ASSUME NEW e \in Conns, serverIf[e] # NoIf, member[serverIf[e]] # NoBd
               PROVE  Client(e)' # NoIf /\ bridges[Own(e)'] = member[serverIf[e]]
    BY <1>7, <1>9 DEF InOwn
  <2>1. Client(e) # NoIf /\ bridges[Own(e)] = member[serverIf[e]] /\ serverIf[e] \in attached[member[serverIf[e]]]
    BY <1>1, <1>16 DEF InOwn, MembersOK
  <2>2. Client(e) # i
    BY <1>3, <1>16, <1>17, <2>1
  <2> QED
    BY <1>14, <2>1, <2>2
<1>24. PlaceOK(c)'
  BY <1>1, <1>2, <1>9, <1>12 DEF PlaceOK, Working, Bridging, Detaching
<1>25. TableOK(c)'
  BY <1>2, <1>3, <1>9, <1>11, <1>12 DEF TableOK, Attaching, WithBridge, Detaching
<1>26. ASSUME NEW e \in Conns, e # c
       PROVE  PlaceOK(e)' /\ TableOK(e)'
  <2>1. HasClient(e) => Client(e)' = Client(e) /\ (clientIf[e] \in popped => clientIf[e] \in popped')
    BY <1>6, <1>14, <1>18, <1>26 DEF HasClient
  <2>2. PlaceOK(e)'
    BY <1>12, <1>26, <2>1, PlaceFrame
  <2>3. granted[e] => Own(e) # key[c]
    <3>1. granted[e] => Client(e) # i /\ HasClient(e)
      BY <1>17 DEF BridgeInv, PlaceOK
    <3> QED
      BY <1>1, <3>1, BridgeOwn
  <2>4. TableOK(e)'
    BY <1>2, <1>3, <1>7, <1>9, <1>12, <1>15, <1>26, <2>1, <2>3, TableFrame
  <2> QED
    BY <2>2, <2>4
<1>27. Undone' <=> Undone
  BY DEF Undone, Faults
<1>28. ASSUME Undone
       PROVE  (\A e \in Conns : PortOK(e)') /\ Exact' /\ KeyLive'
  <2>1. (\A e \in Conns : PortOK(e)) /\ Exact /\ KeyLive
    BY <1>28 DEF BridgeInv
  <2>2. ASSUME NEW e \in Conns PROVE PortOK(e)'
    <3>1. CASE e = c
      BY <1>2, <1>7, <1>9, <1>12, <2>1, <3>1 DEF PortOK
    <3>2. CASE e # c
      BY <1>7, <1>9, <1>12, <2>1, <3>2 DEF PortOK, OthersKeep
    <3> QED
      BY <3>1, <3>2
  <2>3. \A e \in Conns : e # c => stage'[e] = stage[e] /\ key'[e] = key[e]
    BY <1>12 DEF OthersKeep
  <2>4. Exact'
    <3> SUFFICES ASSUME NEW k \in bridgeDomainKey, NEW j \in SwIfs, bridges[k] # NoBd,
                        j \in attached'[bridges[k]]
                 PROVE  \/ member[j] = bridges[k]
                        \/ \E e \in Conns : stage'[e] = "delsubif" /\ key'[e] = k /\ k[2] = j
      BY <1>7, <1>9 DEF Exact
    <3>1. k # key[c]
      BY <1>3, <1>11
    <3>2. j \in attached[bridges[k]]
      BY <1>15, <3>1
    <3> QED
      BY <2>1, <2>3, <3>1, <3>2 DEF Exact
  <2>5. KeyLive'
    <3> SUFFICES ASSUME NEW k \in bridgeDomainKey, bridges[k] # NoBd, k # key[c]
                 PROVE  \/ k[1] = 0 /\ k[2] \in Devices
                        \/ \E d \in Devices : sub'[d][k[1]] = k[2]
                        \/ \E e \in Conns : stage'[e] = "delbridge" /\ key'[e] = k
      BY <1>9, <1>12 DEF KeyLive
    <3>1. ASSUME NEW d \in Devices, sub[d][k[1]] = k[2]
          PROVE  sub'[d][k[1]] = k[2]
      <4>1. k[1] \in Vlans /\ k[2] # NoIf /\ k = <<k[1], k[2]>>
        BY BridgeKeys, BridgeAssumption DEF SwIfs
      <4>2. k[2] # i
        <5> SUFFICES ASSUME k[2] = i PROVE FALSE
          OBVIOUS
        <5>1. i \in Ifs
          BY <1>1, <1>4, <3>1, <4>1 DEF BridgeTypeOK
        <5>2. VlanOf[c] # 0 /\ DeviceOf[c] \in Devices /\ VlanOf[c] \in Vlans
          BY <1>1, <1>4, <5>1, BridgeOwn, BridgeClients, BridgeAssumption
        <5>3. sub[DeviceOf[c]][VlanOf[c]] = i
          BY <1>4, <5>2 DEF Client
        <5>4. k[1] = VlanOf[c]
          BY <1>1, <1>4, <3>1, <4>1, <5>2, <5>3 DEF SubsApart
        <5> QED
          BY <1>3, <1>4, <4>1, <5>4 DEF Own
      <4> QED
        BY <1>5, <3>1, <4>1, <4>2
    <3> QED
      BY <1>2, <2>1, <2>3, <3>1 DEF KeyLive
  <2> QED
    BY <2>2, <2>4, <2>5
<1> QED
  BY <1>13, <1>19, <1>20, <1>21, <1>22, <1>23, <1>24, <1>25, <1>26, <1>27, <1>28 DEF BridgeInv
(* The bridge is deleted: nothing is in it. *)
LEMMA BridgeDelBridge ==
    ASSUME BridgeInv, NEW c \in Conns, DelBridge(c), UNCHANGED <<env, mtus>>
    PROVE  BridgeInv'
<1> USE DEF table, meta, local
<1> DEFINE b == l2Bridge[c]
           inUse == b \notin bds \/ \E i \in SwIfs : member[i] = b
<1>1. BridgeTypeOK /\ PlaceOK(c) /\ TableOK(c) /\ (Undone => PortOK(c)) /\ InOwn
      /\ MembersOK /\ PortOrClient /\ BridgesOK
  BY DEF BridgeInv
<1>2. stage[c] = "delbridge" /\ ~granted[c] /\ attached[b] = {}
  BY <1>1 DEF DelBridge, PlaceOK, TableOK
<1>3. /\ key[c] \in bridgeDomainKey /\ key[c][1] = VlanOf[c]
      /\ b \in Bds /\ bridges[key[c]] = b /\ b # NoBd /\ b \in bds
  BY <1>1, <1>2, BridgeAssumption DEF TableOK, WithBridge, BridgesOK
<1>4. UNCHANGED <<clientIf, vlanID, serverIf, attached, key, l2Bridge, granted, sub, popped, ports, member>>
  BY DEF DelBridge
<1>5. \A e \in Conns : Client(e)' = Client(e) /\ Own(e)' = Own(e)
  BY <1>4 DEF Client, Own
<1>6. \A i \in SwIfs : member[i] # b
  BY <1>1, <1>2, <1>3 DEF MembersOK
<1>7. CASE Fails(c, inUse) /\ UNCHANGED <<bds, bridges>>
  <2>1. ~Undone /\ GoOn(c, "closenext")
    BY <1>3, <1>6, <1>7 DEF Fails, Undone
  <2> QED
    BY <1>2, <1>4, <1>7, <2>1, BridgeGiveUp
<1>8. CASE bds' = bds \ {b} /\ bridges' = [bridges EXCEPT ![key[c]] = NoBd] /\ GoOn(c, "closenext")
  <2>1. \A k \in bridgeDomainKey : bridges'[k] = IF k = key[c] THEN NoBd ELSE bridges[k]
    BY <1>1, <1>3, <1>8 DEF BridgeTypeOK
  <2>2. OthersKeep(c) /\ stage'[c] = "closenext"
    BY <1>1, <1>4, <1>8 DEF GoOn, OthersKeep, BridgeTypeOK
  <2>3. BridgeTypeOK'
    <3>1. bridges' \in [bridgeDomainKey -> Bds \cup {NoBd}] /\ bds' \subseteq Bds
      BY <1>1, <1>8 DEF BridgeTypeOK
    <3>2. stage' \in [Conns -> BridgeStages]
      BY <1>1, <1>8 DEF BridgeTypeOK, GoOn, BridgeStages
    <3> QED
      BY <1>1, <1>4, <3>1, <3>2 DEF BridgeTypeOK
  <2>4. Serial'
    BY <1>2, <2>2, SerialFrame DEF BridgeInv
  <2>5. OwnPort' /\ SubsApart'
    BY <1>4 DEF BridgeInv, OwnPort, SubsApart
  <2>6. BridgesOK'
    <3>1. \A k \in bridgeDomainKey : bridges'[k] # NoBd => bridges'[k] \in bds'
      BY <1>1, <1>3, <1>8, <2>1 DEF BridgesOK
    <3>2. \A k, l \in bridgeDomainKey : bridges'[k] = bridges'[l] /\ bridges'[k] # NoBd => k = l
      BY <1>1, <2>1 DEF BridgesOK
    <3>3. ASSUME NEW x \in bds' PROVE \E k \in bridgeDomainKey : bridges'[k] = x
      <4>1. x \in bds /\ x # b
        BY <1>8, <3>3
      <4>2. PICK k \in bridgeDomainKey : bridges[k] = x
        BY <1>1, <4>1 DEF BridgesOK
      <4> QED
        BY <1>3, <2>1, <4>1, <4>2
    <3> QED
      BY <3>1, <3>2, <3>3 DEF BridgesOK
  <2>7. MembersOK'
    BY <1>1, <1>4, <1>6, <1>8 DEF MembersOK, Exists, SubIfs
  <2>8. PortOrClient'
    BY <1>1, <1>4, <2>1 DEF PortOrClient
  <2>9. InOwn'
    <3> SUFFICES ASSUME NEW e \in Conns, serverIf[e] # NoIf, member[serverIf[e]] # NoBd
                 PROVE  Client(e) # NoIf /\ bridges'[Own(e)] = member[serverIf[e]]
      BY <1>4, <1>5 DEF InOwn
    <3>1. Client(e) # NoIf /\ bridges[Own(e)] = member[serverIf[e]] /\ serverIf[e] \in SwIfs
      BY <1>1 DEF InOwn, BridgeTypeOK, SwIfs
    <3> QED
      BY <1>1, <1>3, <1>6, <2>1, <3>1, BridgeOwn
  <2>10. PlaceOK(c)'
    BY <1>1, <1>2, <1>4, <2>2 DEF PlaceOK, Working, Bridging, Detaching
  <2>11. TableOK(c)'
    BY <1>2, <1>4, <2>2 DEF TableOK, Attaching, WithBridge, Detaching
  <2>12. ASSUME NEW e \in Conns, e # c
         PROVE  PlaceOK(e)' /\ TableOK(e)'
    <3>1. PlaceOK(e)'
      BY <1>4, <1>5, <2>2, <2>12, PlaceFrame
    <3>2. granted[e] => Own(e) # key[c]
      BY <1>2, <1>3 DEF BridgeInv, TableOK
    <3>3. TableOK(e)'
      BY <1>2, <1>3, <1>4, <1>5, <2>1, <2>2, <2>12, <3>2, TableFrame
    <3> QED
      BY <3>1, <3>3
  <2>13. Undone' <=> Undone
    BY DEF Undone, Faults
  <2>14. ASSUME Undone
         PROVE  (\A e \in Conns : PortOK(e)') /\ Exact' /\ KeyLive'
    <3>1. (\A e \in Conns : PortOK(e)) /\ Exact /\ KeyLive
      BY <2>14 DEF BridgeInv
    <3>2. ASSUME NEW e \in Conns PROVE PortOK(e)'
      <4>1. CASE e = c
        BY <1>2, <1>4, <2>2, <3>1, <4>1 DEF PortOK
      <4>2. CASE e # c
        BY <1>4, <2>2, <3>1, <4>2 DEF PortOK, OthersKeep
      <4> QED
        BY <4>1, <4>2
    <3>3. \A e \in Conns : e # c => stage'[e] = stage[e] /\ key'[e] = key[e]
      BY <2>2 DEF OthersKeep
    <3>4. Exact'
      BY <1>2, <1>4, <2>1, <3>1, <3>3 DEF Exact
    <3>5. KeyLive'
      BY <1>4, <2>1, <3>1, <3>3 DEF KeyLive
    <3> QED
      BY <3>2, <3>4, <3>5
  <2> QED
    BY <2>3, <2>4, <2>5, <2>6, <2>7, <2>8, <2>9, <2>10, <2>11, <2>12, <2>13, <2>14 DEF BridgeInv
<1> QED
  BY <1>7, <1>8 DEF DelBridge, addDelVppBridgeDomain

(* The port goes, and with it its place in any bridge: the map of attached *)
(* interfaces has forgotten it before.                                     *)
LEMMA BridgeCloseNext ==
    ASSUME BridgeInv, NEW c \in Conns, CloseNext(c), UNCHANGED <<env, mtus>>
    PROVE  BridgeInv'
<1> USE DEF table, meta, local
<1> DEFINE i == serverIf[c]
<1>1. BridgeTypeOK /\ PlaceOK(c) /\ TableOK(c) /\ (Undone => PortOK(c)) /\ OwnPort /\ InOwn
      /\ MembersOK /\ PortOrClient /\ SubsApart
  BY DEF BridgeInv
<1>2. stage[c] = "closenext" /\ ~granted[c]
  BY <1>1 DEF CloseNext, PlaceOK
<1>3. /\ serverIf' = [serverIf EXCEPT ![c] = NoIf] /\ ports' = ports \ {i}
      /\ member' = [j \in SwIfs |-> IF j = i THEN NoBd ELSE member[j]]
      /\ key' = [key EXCEPT ![c] = NoKey] /\ l2Bridge' = [l2Bridge EXCEPT ![c] = NoBd]
      /\ delSubIf(c) /\ GoOn(c, "ready")
      /\ UNCHANGED <<bridges, attached, granted, sub, popped, bds>>
  BY DEF CloseNext
<1>4. \A e \in Conns : Client(e)' = Client(e) /\ Own(e)' = Own(e)
  BY <1>3 DEF Client, Own
<1>5. \A j \in SwIfs : member'[j] = IF j = i THEN NoBd ELSE member[j]
  BY <1>3
<1>6. serverIf'[c] = NoIf /\ clientIf'[c] = NoIf /\ stage'[c] = "ready" /\ OthersKeep(c)
  BY <1>1, <1>3 DEF delSubIf, GoOn, OthersKeep, BridgeTypeOK
<1>7. BridgeTypeOK'
  <2>1. /\ serverIf' \in [Conns -> Ifs \cup {NoIf}] /\ clientIf' \in [Conns -> SwIfs \cup {NoIf}]
        /\ vlanID' \in [Conns -> Vlans \cup {NoVlan}]
    BY <1>1, <1>3 DEF BridgeTypeOK, delSubIf
  <2>2. key' \in [Conns -> bridgeDomainKey \cup {NoKey}] /\ l2Bridge' \in [Conns -> Bds \cup {NoBd}]
    BY <1>1, <1>3 DEF BridgeTypeOK
  <2>3. member' \in [SwIfs -> Bds \cup {NoBd}] /\ ports' \subseteq Ifs
    BY <1>1, <1>3 DEF BridgeTypeOK
  <2>4. stage' \in [Conns -> BridgeStages]
    BY <1>1, <1>3 DEF BridgeTypeOK, GoOn, BridgeStages
  <2> QED
    BY <1>1, <1>3, <2>1, <2>2, <2>3, <2>4 DEF BridgeTypeOK
<1>8. ASSUME NEW e \in Conns, e # c, serverIf[e] # NoIf
      PROVE  serverIf[e] # i /\ serverIf[e] \in SwIfs /\ member'[serverIf[e]] = member[serverIf[e]]
  <2>1. serverIf[e] # i /\ serverIf[e] \in SwIfs
    BY <1>1, <1>8 DEF OwnPort, BridgeTypeOK, SwIfs
  <2> QED
    BY <1>5, <2>1
<1>9. Serial'
  BY <1>2, <1>6, SerialFrame DEF BridgeInv
<1>10. OwnPort'
  <2> SUFFICES ASSUME NEW e \in Conns, serverIf'[e] # NoIf
               PROVE  serverIf'[e] \in ports' /\ \A d \in Conns : serverIf'[e] = serverIf'[d] => e = d
    BY DEF OwnPort
  <2>1. e # c /\ serverIf'[e] = serverIf[e]
    BY <1>6 DEF OthersKeep
  <2> QED
    BY <1>1, <1>3, <1>6, <1>8, <2>1 DEF OwnPort, OthersKeep
<1>11. SubsApart' /\ BridgesOK'
  BY <1>3 DEF BridgeInv, SubsApart, BridgesOK
<1>12. MembersOK'
  BY <1>1, <1>3, <1>5 DEF MembersOK, Exists, SubIfs
<1>13. PortOrClient'
  BY <1>1, <1>3, <1>5 DEF PortOrClient
<1>14. InOwn'
  <2> SUFFICES ASSUME NEW e \in Conns, serverIf'[e] # NoIf, member'[serverIf'[e]] # NoBd
               PROVE  Client(e) # NoIf /\ bridges[Own(e)] = member'[serverIf'[e]]
    BY <1>3, <1>4 DEF InOwn
  <2>1. e # c /\ serverIf'[e] = serverIf[e]
    BY <1>6 DEF OthersKeep
  <2> QED
    BY <1>1, <1>8, <2>1 DEF InOwn
<1>15. PlaceOK(c)'
  BY <1>2, <1>3, <1>6 DEF PlaceOK, Working, Bridging, Detaching
<1>16. TableOK(c)'
  BY <1>2, <1>3, <1>6 DEF TableOK, Attaching, WithBridge, Detaching
<1>17. ASSUME NEW e \in Conns, stage[e] = "delsubif"
       PROVE  (i # NoIf => key[e][2] # i) /\ member'[key[e][2]] = member[key[e][2]]
  <2>1. key[e][2] \notin ports /\ key[e][2] = Client(e) /\ Client(e) # NoIf
    BY <1>17, AtDelSubIf
  <2>2. key[e][2] \in SwIfs /\ key[e][2] # i
    BY <1>1, <2>1, BridgeClients DEF OwnPort
  <2> QED
    BY <1>5, <2>2
<1>18. ASSUME NEW e \in Conns, e # c
       PROVE  PlaceOK(e)' /\ TableOK(e)'
  <2>1. PlaceOK(e)'
    BY <1>3, <1>4, <1>6, <1>18, PlaceFrame
  <2>2. <<VlanOf[c], DeviceOf[c]>> \in bridgeDomainKey /\ <<VlanOf[c], DeviceOf[c]>>[1] = VlanOf[c]
    BY <1>1, BridgeOwn DEF bridgeDomainKey, SwIfs
  <2>3. granted[e] => serverIf[e] \in attached[bridges[Own(e)]] /\ clientIf[e] \in attached[bridges[Own(e)]]
    BY DEF BridgeInv, TableOK
  <2>4. TableOK(e)'
    BY <1>2, <1>3, <1>4, <1>6, <1>17, <1>18, <2>2, <2>3, TableFrame
  <2> QED
    BY <2>1, <2>4
<1>19. Undone' <=> Undone
  BY DEF Undone, Faults
<1>20. ASSUME Undone
       PROVE  (\A e \in Conns : PortOK(e)') /\ Exact' /\ KeyLive'
  <2>1. (\A e \in Conns : PortOK(e)) /\ Exact /\ KeyLive
    BY <1>20 DEF BridgeInv
  <2>2. ASSUME NEW e \in Conns PROVE PortOK(e)'
    <3>1. CASE e = c
      BY <1>6, <3>1 DEF PortOK
    <3>2. CASE e # c
      BY <1>6, <1>8, <2>1, <3>2 DEF PortOK, OthersKeep
    <3> QED
      BY <3>1, <3>2
  <2>3. \A e \in Conns : stage[e] \in {"delsubif", "delbridge"} => stage'[e] = stage[e] /\ key'[e] = key[e]
    BY <1>2, <1>6 DEF OthersKeep
  <2>4. ASSUME NEW k \in bridgeDomainKey, NEW j \in SwIfs, bridges[k] # NoBd, j \in attached[bridges[k]]
        PROVE  j # i
    <3> SUFFICES ASSUME j = i PROVE FALSE
      OBVIOUS
    <3>1. i # NoIf /\ member[i] = NoBd
      BY <1>2, <2>1, BridgeAssumption DEF PortOK, SwIfs
    <3> QED
      BY <1>17, <2>1, <2>4, <3>1 DEF Exact
  <2>5. Exact'
    BY <1>3, <1>5, <2>1, <2>3, <2>4 DEF Exact
  <2>6. KeyLive'
    BY <1>3, <2>1, <2>3 DEF KeyLive
  <2> QED
    BY <2>2, <2>5, <2>6
<1> QED
  BY <1>7, <1>9, <1>10, <1>11, <1>12, <1>13, <1>14, <1>15, <1>16, <1>18, <1>19, <1>20 DEF BridgeInv

-----------------------------------------------------------------------------
(* Nothing is known or created at first. *)
LEMMA BridgeInitInv == BridgeInit => BridgeInv
<1> SUFFICES ASSUME BridgeInit PROVE BridgeInv
  OBVIOUS
<1> USE BridgeAssumption
<1>1. BridgeTypeOK
  BY DEF BridgeInit, BridgeTypeOK, BridgeStages
<1>2. /\ \A c \in Conns : /\ stage[c] = "ready" /\ ~granted[c]
                          /\ clientIf[c] = NoIf /\ serverIf[c] = NoIf
      /\ \A k \in bridgeDomainKey : bridges[k] = NoBd
      /\ \A i \in SwIfs : member[i] = NoBd
      /\ bds = {}
  BY DEF BridgeInit
<1>3. \A d \in Devices, v \in Vlans : sub[d][v] = NoIf
  BY DEF BridgeInit
<1>4. Serial /\ OwnPort /\ SubsApart
  BY <1>2, <1>3 DEF Serial, OwnPort, SubsApart
<1>5. BridgesOK /\ MembersOK /\ PortOrClient /\ InOwn
  BY <1>2 DEF BridgesOK, MembersOK, PortOrClient, InOwn
<1>6. \A c \in Conns : PlaceOK(c) /\ TableOK(c) /\ PortOK(c)
  BY <1>2 DEF PlaceOK, TableOK, PortOK, Working, Bridging, Detaching, Attaching, WithBridge
<1>7. Exact /\ KeyLive
  BY <1>2 DEF Exact, KeyLive
<1> QED
  BY <1>1, <1>4, <1>5, <1>6, <1>7 DEF BridgeInv

(* Every step keeps the invariant. *)
LEMMA BridgeStep == NamesApart /\ BridgeInv /\ [BridgeNext]_bridgeVars => BridgeInv'
<1> SUFFICES ASSUME NamesApart, BridgeInv, [BridgeNext]_bridgeVars PROVE BridgeInv'
  OBVIOUS
<1>1. CASE UNCHANGED bridgeVars
  <2>1. UNCHANGED <<env, clientIf, serverIf, vlanID, bridges, attached, key, l2Bridge, granted,
                    sub, popped, ports, bds, member, mtus, stage>>
    BY <1>1 DEF bridgeVars, meta, table, local, vpp
  <2>2. BridgeTypeOK' /\ Serial' /\ OwnPort' /\ SubsApart'
    BY <2>1 DEF BridgeInv, BridgeTypeOK, Serial, OwnPort, SubsApart
  <2>3. BridgesOK' /\ MembersOK' /\ PortOrClient' /\ InOwn'
    BY <2>1 DEF BridgeInv, BridgesOK, MembersOK, PortOrClient, InOwn, Exists, SubIfs, Own, Client
  <2>4. \A c \in Conns : PlaceOK(c)' /\ TableOK(c)'
    BY <2>1 DEF BridgeInv, PlaceOK, TableOK, HasClient, Own, Client
  <2>5. Undone' => (\A c \in Conns : PortOK(c)') /\ Exact' /\ KeyLive'
    BY <2>1 DEF BridgeInv, Undone, Faults, PortOK, Exact, KeyLive
  <2> QED
    BY <2>2, <2>3, <2>4, <2>5 DEF BridgeInv
<1>2. CASE BridgeNext
  <2>1. PICK c \in env.conns : \/ (RequestSteps(c) \/ BeginClose(c) \/ CloseSteps(c)) /\ UNCHANGED mtus
                               \/ getMTU(c)
    BY <1>2 DEF BridgeNext
  <2>2. UNCHANGED env
    BY <1>2 DEF BridgeNext
  <2>3. c \in Conns
    BY BridgeAssumption DEF BridgeInv, BridgeTypeOK
  <2>4. CASE RequestSteps(c) /\ UNCHANGED mtus
    BY <2>2, <2>3, <2>4, BridgeAddSubIf, BridgeVppAddSubIf, BridgeEnableVtr, BridgeCreatePort,
       BridgeLoad, BridgeNew, BridgeAttachServer, BridgeAttachClient DEF RequestSteps
  <2>5. CASE BeginClose(c) /\ UNCHANGED mtus
    BY <2>2, <2>3, <2>5, BridgeBeginClose
  <2>6. CASE CloseSteps(c) /\ UNCHANGED mtus
    BY <2>2, <2>3, <2>6, BridgeDel, BridgeDetachServer, BridgeLast, BridgeDetachClient,
       BridgeDelSubIf, BridgeDelSubIfFails, BridgeDelBridge, BridgeCloseNext DEF CloseSteps
  <2>7. CASE getMTU(c)
    BY <2>2, <2>3, <2>7, BridgeGetMTU
  <2> QED
    BY <2>1, <2>4, <2>5, <2>6, <2>7
<1> QED
  BY <1>1, <1>2

(* What is granted has both its interfaces in the bridge of its key; two   *)
(* keys have two bridges.                                                  *)
LEMMA BridgeInvBridged == BridgeInv => BridgedRight
<1> SUFFICES ASSUME BridgeInv PROVE BridgedRight
  OBVIOUS
<1>1. BridgeTypeOK /\ SubsApart /\ OwnPort /\ BridgesOK /\ MembersOK /\ InOwn
  BY DEF BridgeInv
<1>2. ASSUME NEW c \in Conns, granted[c]
      PROVE  /\ HasClient(c) /\ serverIf[c] # NoIf /\ serverIf[c] \in ports
             /\ VlanOf[c] # 0 => clientIf[c] \in popped
             /\ Own(c) \in bridgeDomainKey /\ bridges[Own(c)] # NoBd
             /\ serverIf[c] \in attached[bridges[Own(c)]] /\ clientIf[c] \in attached[bridges[Own(c)]]
             /\ serverIf[c] \in SwIfs /\ clientIf[c] \in SwIfs
  <2>1. PlaceOK(c) /\ TableOK(c)
    BY DEF BridgeInv
  <2>2. HasClient(c) /\ serverIf[c] # NoIf
    BY <1>2, <2>1 DEF PlaceOK
  <2>3. Own(c) \in bridgeDomainKey /\ clientIf[c] \in SwIfs
    BY <1>1, <2>2, BridgeOwn DEF HasClient
  <2>4. serverIf[c] \in ports /\ serverIf[c] \in SwIfs
    BY <1>1, <2>2 DEF OwnPort, BridgeTypeOK, SwIfs
  <2> QED
    BY <1>2, <2>1, <2>2, <2>3, <2>4 DEF PlaceOK, TableOK
<1>3. Connected
  <2> SUFFICES ASSUME Undone, NEW c \in Conns, granted[c]
               PROVE  /\ Exists(clientIf[c]) /\ Exists(serverIf[c])
                      /\ member[serverIf[c]] # NoBd
                      /\ member[serverIf[c]] = member[clientIf[c]]
                      /\ VlanOf[c] # 0 => clientIf[c] \in popped
    BY DEF Connected
  <2>1. Exists(clientIf[c]) /\ Exists(serverIf[c])
    BY <1>1, <1>2, BridgeClients DEF HasClient, Exists
  <2>2. ASSUME NEW e \in Conns, stage[e] = "delsubif"
        PROVE  key[e][2] # serverIf[c] /\ key[e] # Own(c)
    <3>1. key[e][2] # serverIf[c]
      BY <1>2, <2>2, AtDelSubIf
    <3>2. bridges[key[e]] = l2Bridge[e] /\ attached[l2Bridge[e]] = {key[e][2]}
      BY <2>2 DEF BridgeInv, TableOK, WithBridge, Detaching
    <3> QED
      BY <1>2, <3>1, <3>2
  <2>3. member[serverIf[c]] = bridges[Own(c)] /\ member[clientIf[c]] = bridges[Own(c)]
    BY <1>2, <2>2 DEF BridgeInv, Exact
  <2> QED
    BY <1>2, <2>1, <2>3
<1>4. Isolated
  <2> SUFFICES ASSUME NEW c \in Conns, NEW d \in Conns, granted[c], granted[d],
                      member[serverIf[c]] # NoBd, member[serverIf[c]] = member[serverIf[d]]
               PROVE  VlanOf[c] = VlanOf[d] /\ DeviceOf[c] = DeviceOf[d]
    BY DEF Isolated
  <2>1. bridges[Own(c)] = bridges[Own(d)]
    BY <1>1, <1>2 DEF InOwn
  <2>2. Own(c) = Own(d)
    BY <1>1, <1>2, <2>1 DEF BridgesOK
  <2>3. Client(c) = Client(d) /\ Client(d) # NoIf
    BY <1>1, <1>2, <2>2, BridgeOwn DEF HasClient
  <2> QED
    BY <1>1, <2>3, BridgeClients
<1> QED
  BY <1>3, <1>4 DEF BridgedRight

(* Between requests no interface is about to be deleted, so that the maps  *)
(* are exact.                                                              *)
LEMMA BridgeInvMaps == BridgeInv => MapsMatchVPP
<1> SUFFICES ASSUME BridgeInv PROVE MapsMatchVPP
  OBVIOUS
<1>1. BridgeTypeOK /\ BridgesOK /\ MembersOK
  BY DEF BridgeInv
<1>2. AttachedMatchesVPP
  <2> SUFFICES ASSUME Undone, AtRest, NEW k \in bridgeDomainKey, bridges[k] # NoBd
               PROVE  attached[bridges[k]] = {i \in SwIfs : member[i] = bridges[k]}
    BY DEF AttachedMatchesVPP
  <2>1. bridges[k] \in Bds /\ attached[bridges[k]] \subseteq SwIfs
    BY <1>1 DEF BridgeTypeOK
  <2>2. \A i \in SwIfs : i \in attached[bridges[k]] => member[i] = bridges[k]
    BY DEF BridgeInv, Exact, AtRest
  <2>3. \A i \in SwIfs : member[i] = bridges[k] => i \in attached[bridges[k]]
    BY <1>1 DEF MembersOK
  <2> QED
    BY <2>1, <2>2, <2>3
<1>3. NoBridgeLost
  <2>1. \A b \in bds : b # NoBd
    BY <1>1, BridgeAssumption DEF BridgeTypeOK
  <2> QED
    BY <1>1, <2>1 DEF NoBridgeLost, BridgesOK
<1> QED
  BY <1>1, <1>2, <1>3 DEF MapsMatchVPP

(* l2bridgedomain: a connection that is granted is bridged with its own    *)
(* vlan and with nothing else, whatever the handlers of other vlans do and *)
(* whatever call of a request fails.                                       *)
THEOREM BridgesAreRight ==
    ASSUME NamesApart
    PROVE  BridgeSpec => []BridgedRight
<1>1. BridgeInv /\ [BridgeNext]_bridgeVars => BridgeInv'
  BY BridgeStep
<1> QED
  BY <1>1, BridgeInitInv, BridgeInvBridged, PTL DEF BridgeSpec

(* l2bridgedomain: its maps know every bridge of VPP, and between requests *)
(* every interface in them.                                                *)
THEOREM BridgeMapsMatch ==
    ASSUME NamesApart
    PROVE  BridgeSpec => []MapsMatchVPP
<1>1. BridgeInv /\ [BridgeNext]_bridgeVars => BridgeInv'
  BY BridgeStep
<1> QED
  BY <1>1, BridgeInitInv, BridgeInvMaps, PTL DEF BridgeSpec
=============================================================================
