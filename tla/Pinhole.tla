------------------------------- MODULE Pinhole -------------------------------
(***************************************************************************)
(* pkg/networkservice/pinhole: when the VPP interface that has the tunnel  *)
(* IP of a remote mechanism filters packets, put an ACL that permits the   *)
(* mechanism's UDP port in front of the ACLs of that interface.            *)
(*                                                                         *)
(* Each element remembers the IPPorts it has dealt with (ipPortMap).  A    *)
(* new list of ACLs is computed from a dump and replaces the old one, so   *)
(* the elements of a forwarder share a mutex (WithSharedMutex).  The VPP   *)
(* calls of create are steps of their own: the mutex, not the model, keeps *)
(* them together.                                                          *)
(*                                                                         *)
(* In front of each pinhole element is one of pkg/networkservice/          *)
(* afxdppinhole, which has its turn when the pinhole element has returned. *)
(* If VPP uses af_xdp, it adds the same ports to the map of the XDP        *)
(* program, which decides what gets as far as VPP.                         *)
(***************************************************************************)
EXTENDS Naturals, Sequences, SequencesExt

CONSTANTS Requests,     \* requests of different connections
          Elements,     \* pinhole servers and clients
          ElementOf,    \* the element each request goes through
          MutexOf,      \* the mutex each element was given
          KeysOf,       \* the IPPorts of each request: mechanism and extra
          IPs,          \* tunnel IPs
          Ports,        \* port numbers, 0 included
          Interfaces,   \* VPP interfaces
          Owner,        \* the interface that has each IP, or NoInterface
          NoInterface,
          Filtered,     \* Filtered[i][d]: interface i has an ACL in direction d
          Nobody,       \* nobody holds the mutex
          Failures      \* whether VPP calls may fail

Directions == {"in", "out"}

Key == [ip : IPs, port : Ports]

ASSUME PinholeAssumption ==
    /\ ElementOf \in [Requests -> Elements]
    /\ KeysOf \in [Requests -> Seq(Key)]
    /\ Owner \in [IPs -> Interfaces \cup {NoInterface}]
    /\ NoInterface \notin Interfaces
    /\ Filtered \in [Interfaces -> [Directions -> BOOLEAN]]
    /\ Nobody \notin Requests
    /\ Failures \in BOOLEAN

Mutexes == {MutexOf[e] : e \in Elements}

(* An ACL is what it permits: a key, or for the ACLs that were on an       *)
(* interface before, something Other.  Its tag is "nsm-pinhole port n": it *)
(* tells the port and not the IP (server.go:83).                           *)
Other == [ip |-> NoInterface, port |-> 0]
ACL == Key \cup {Other}
Tag(acl) == acl.port

VARIABLES
    ipPortMap,  \* ipPortMap[e]: the keys element e has dealt with
    mutex,      \* mutex[m]: the request that holds it
    acls,       \* the ACLs of VPP; the index of an ACL is its position
    lists,      \* lists[i][d]: the indices of the ACLs of an interface
    dump,       \* dump[r]: the lists r has read and extends
    at,         \* at[r]: which of its keys r is at
    pc, result,
    afXdp,      \* the map of the XDP program is in the BPF file system
    xdpPinhole  \* the ports in that map

xdpVars == <<afXdp, xdpPinhole>>
vars == <<ipPortMap, mutex, acls, lists, dump, at, pc, result, xdpVars>>

Steps == {"next", "check", "lock", "recheck", "dump", "addIn", "addOut", "set",
          "unlock", "fail", "xdp", "close", "done"}

NoLists == [d \in Directions |-> <<>>]

ACLLists == [Directions -> Seq(1..Len(acls))]

TypeOK == /\ ipPortMap \in [Elements -> SUBSET Key]
          /\ mutex \in [Mutexes -> Requests \cup {Nobody}]
          /\ acls \in Seq(ACL)
          /\ lists \in [Interfaces -> ACLLists]
          /\ dump \in [Requests -> ACLLists]
          /\ at \in [Requests -> Nat]
          /\ pc \in [Requests -> Steps]
          /\ result \in [Requests -> {"none", "ok", "error"}]
          /\ afXdp \in BOOLEAN
          /\ xdpPinhole \subseteq Ports

(* ACL 1 stands for whatever filters an interface from the start. *)
Init == /\ ipPortMap = [e \in Elements |-> {}]
        /\ mutex = [m \in Mutexes |-> Nobody]
        /\ acls = <<Other>>
        /\ lists = [i \in Interfaces |-> [d \in Directions |->
                       IF Filtered[i][d] THEN <<1>> ELSE <<>>]]
        /\ dump = [r \in Requests |-> NoLists]
        /\ at = [r \in Requests |-> 1]
        /\ pc = [r \in Requests |-> "next"]
        /\ result = [r \in Requests |-> "none"]
        /\ afXdp \in BOOLEAN
        /\ xdpPinhole = {}

Goto(r, step) == pc' = [pc EXCEPT ![r] = step]

CurrentKey(r) == KeysOf[r][at[r]]
MyMutex(r) == MutexOf[ElementOf[r]]
Known(r) == CurrentKey(r) \in ipPortMap[ElementOf[r]]

-----------------------------------------------------------------------------
(* common.go *)

(* No tunnel IP or no port: nothing to do, and no error.  An IP that no    *)
(* VPP interface has is an error (tunnelIPSwIfIndex).                      *)
tunnelIPSwIfIndex(r) == Owner[CurrentKey(r).ip]

(* create reads the ACLs of the interface, ingress and egress. *)
interfacesACLDetails(r) ==
    /\ pc[r] = "dump" /\ CurrentKey(r).port # 0
    /\ tunnelIPSwIfIndex(r) # NoInterface
    /\ dump' = [dump EXCEPT ![r] = lists[tunnelIPSwIfIndex(r)]]
    /\ Goto(r, "addIn")
    /\ UNCHANGED <<ipPortMap, mutex, acls, lists, at, result>>

(* The ACL of a key permits UDP to (or from) its IP and port, and no more. *)
createACLAddReplace(k) == k

(* Mutant of Needed: the tags are not looked at. *)
Needed_blind(l, k) == l # <<>>

(* There are ACLs in this direction and none of them has the tag. *)
Needed(l, k) == l # <<>> /\ \A j \in 1..Len(l) : Tag(acls[l[j]]) # k.port

(* Mutant of addToACLToACLListIfNeeded: the index is that of the next ACL. *)
addToACL_next(r, d) ==
    IF Needed(dump[r][d], CurrentKey(r))
    THEN /\ acls' = Append(acls, createACLAddReplace(CurrentKey(r)))
         /\ dump' = [dump EXCEPT ![r][d] = <<Len(acls) + 2>> \o @]
    ELSE UNCHANGED <<acls, dump>>

(* The ACL is created if needed, and comes first in the list. *)
addToACLToACLListIfNeeded(r, d) ==
    IF Needed(dump[r][d], CurrentKey(r))
    THEN /\ acls' = Append(acls, createACLAddReplace(CurrentKey(r)))
         /\ dump' = [dump EXCEPT ![r][d] = <<Len(acls) + 1>> \o @]
    ELSE UNCHANGED <<acls, dump>>

AddIngress(r) == /\ pc[r] = "addIn"
                 /\ addToACLToACLListIfNeeded(r, "in")
                 /\ Goto(r, "addOut")
                 /\ UNCHANGED <<ipPortMap, mutex, lists, at, result>>

AddEgress(r) == /\ pc[r] = "addOut"
                /\ addToACLToACLListIfNeeded(r, "out")
                /\ Goto(r, "set")
                /\ UNCHANGED <<ipPortMap, mutex, lists, at, result>>

Remember(r) == ipPortMap' = [ipPortMap EXCEPT ![ElementOf[r]] = @ \cup {CurrentKey(r)}]

(* The list with the new ACLs replaces the list of the interface; when     *)
(* nothing was added the call is left out.  The key is remembered.         *)
create(r) ==
    /\ pc[r] = "set"
    /\ lists' = [lists EXCEPT ![tunnelIPSwIfIndex(r)] = dump[r]]
    /\ Remember(r)
    /\ Goto(r, "unlock")
    /\ UNCHANGED <<mutex, acls, dump, at, result>>

(* create has nothing to do for port 0; the key is remembered. *)
createNothing(r) == /\ pc[r] = "dump" /\ CurrentKey(r).port = 0
                    /\ Remember(r)
                    /\ Goto(r, "unlock")
                    /\ UNCHANGED <<mutex, acls, lists, dump, at, result>>

(* One of the calls of create fails; ACLs that were added stay in VPP. *)
createFails(r) ==
    /\ pc[r] \in {"dump", "addIn", "addOut", "set"}
    /\ CurrentKey(r).port # 0
    /\ \/ pc[r] = "dump" /\ (Failures \/ tunnelIPSwIfIndex(r) = NoInterface)
       \/ pc[r] = "addIn" /\ Failures /\ Needed(dump[r]["in"], CurrentKey(r))
       \/ pc[r] = "addOut" /\ Failures /\ Needed(dump[r]["out"], CurrentKey(r))
       \/ pc[r] = "set" /\ Failures /\ dump[r] # lists[tunnelIPSwIfIndex(r)]
    /\ Goto(r, "fail")
    /\ UNCHANGED <<ipPortMap, mutex, acls, lists, dump, at, result>>

-----------------------------------------------------------------------------
(* server.go and client.go, which have the same text *)

CallNext(r) == /\ pc[r] = "next"
               /\ \/ Goto(r, "check") /\ UNCHANGED result
                  \/ Goto(r, "done") /\ result' = [result EXCEPT ![r] = "error"]
               /\ UNCHANGED <<ipPortMap, mutex, acls, lists, dump, at>>

NextKey(r) == at' = [at EXCEPT ![r] = @ + 1] /\ Goto(r, "check")

(* The map is read without the mutex first. *)
Check(r) == /\ pc[r] = "check" /\ at[r] <= Len(KeysOf[r])
            /\ IF Known(r) THEN NextKey(r) ELSE Goto(r, "lock") /\ UNCHANGED at
            /\ UNCHANGED <<ipPortMap, mutex, acls, lists, dump, result>>

(* The pinhole element returns, to an afxdppinhole element that starts     *)
(* with the first key again or, without af_xdp, has nothing to do.         *)
Return(r) == /\ pc[r] = "check" /\ at[r] > Len(KeysOf[r])
             /\ IF afXdp
                THEN Goto(r, "xdp") /\ at' = [at EXCEPT ![r] = 1] /\ UNCHANGED result
                ELSE /\ Goto(r, "done") /\ UNCHANGED at
                     /\ result' = [result EXCEPT ![r] = "ok"]
             /\ UNCHANGED <<ipPortMap, mutex, acls, lists, dump>>

(* Mutant of Lock: the requests of different elements do not exclude each  *)
(* other.                                                                  *)
Lock_none(r) == /\ pc[r] = "lock"
                /\ mutex' = [mutex EXCEPT ![MyMutex(r)] = r]
                /\ Goto(r, "recheck")
                /\ UNCHANGED <<ipPortMap, acls, lists, dump, at, result>>

Lock(r) == /\ pc[r] = "lock"
           /\ mutex[MyMutex(r)] = Nobody
           /\ mutex' = [mutex EXCEPT ![MyMutex(r)] = r]
           /\ Goto(r, "recheck")
           /\ UNCHANGED <<ipPortMap, acls, lists, dump, at, result>>

(* The map is read again under the mutex. *)
Recheck(r) == /\ pc[r] = "recheck"
              /\ Goto(r, IF Known(r) THEN "unlock" ELSE "dump")
              /\ UNCHANGED <<ipPortMap, mutex, acls, lists, dump, at, result>>

Unlock(r) == /\ pc[r] = "unlock"
             /\ mutex' = [mutex EXCEPT ![MyMutex(r)] = Nobody]
             /\ dump' = [dump EXCEPT ![r] = NoLists]
             /\ NextKey(r)
             /\ UNCHANGED <<ipPortMap, acls, lists, result>>

(* Mutant of UnlockFailed: the error is returned with the mutex locked. *)
UnlockFailed_locked(r) == /\ pc[r] = "fail"
                          /\ dump' = [dump EXCEPT ![r] = NoLists]
                          /\ Goto(r, "close")
                          /\ UNCHANGED <<ipPortMap, mutex, acls, lists, at, result>>

UnlockFailed(r) == /\ pc[r] = "fail"
                   /\ mutex' = [mutex EXCEPT ![MyMutex(r)] = Nobody]
                   /\ dump' = [dump EXCEPT ![r] = NoLists]
                   /\ Goto(r, "close")
                   /\ UNCHANGED <<ipPortMap, acls, lists, at, result>>

(* Close passes on to the rest of the chain and keeps no state here. *)
Close(r) == /\ pc[r] = "close"
            /\ Goto(r, "done")
            /\ result' = [result EXCEPT ![r] = "error"]
            /\ UNCHANGED <<ipPortMap, mutex, acls, lists, dump, at>>

Request(r) == \/ CallNext(r) \/ Check(r) \/ Return(r) \/ Lock(r) \/ Recheck(r)
              \/ interfacesACLDetails(r) \/ AddIngress(r) \/ AddEgress(r)
              \/ create(r) \/ createNothing(r) \/ createFails(r)
              \/ Unlock(r) \/ UnlockFailed(r) \/ Close(r)

-----------------------------------------------------------------------------
(* afxdppinhole, its server.go and client.go with the same text *)

(* A key without a port is passed over. *)
updateXdpPinhole(r) ==
    /\ pc[r] = "xdp" /\ at[r] <= Len(KeysOf[r])
    /\ xdpPinhole' = xdpPinhole \cup ({CurrentKey(r).port} \ {0})
    /\ at' = [at EXCEPT ![r] = @ + 1]
    /\ UNCHANGED <<pc, result>>

(* The program or the map cannot be loaded, or the map is full: what is    *)
(* behind the element is closed.  The ports that are in the map stay.      *)
updateXdpPinholeFails(r) ==
    /\ pc[r] = "xdp" /\ at[r] <= Len(KeysOf[r])
    /\ CurrentKey(r).port # 0 /\ Failures
    /\ Goto(r, "close")
    /\ UNCHANGED <<at, xdpPinhole, result>>

XdpReturn(r) == /\ pc[r] = "xdp" /\ at[r] > Len(KeysOf[r])
                /\ Goto(r, "done")
                /\ result' = [result EXCEPT ![r] = "ok"]
                /\ UNCHANGED <<at, xdpPinhole>>

RequestXdp(r) == /\ updateXdpPinhole(r) \/ updateXdpPinholeFails(r) \/ XdpReturn(r)
                 /\ UNCHANGED <<ipPortMap, mutex, acls, lists, dump>>

-----------------------------------------------------------------------------

Step(r) == (Request(r) /\ UNCHANGED xdpVars) \/ (RequestXdp(r) /\ UNCHANGED afXdp)

Next == \E r \in Requests : Step(r)

Spec == Init /\ [][Next]_vars

(* Goroutines are scheduled, and a mutex is handed to a goroutine that     *)
(* keeps asking for it.                                                    *)
FairSpec == Spec /\ \A r \in Requests : WF_vars(Step(r)) /\ SF_vars(Step(r) /\ Lock(r))

-----------------------------------------------------------------------------
(* Properties *)

Permits(i, d, k) == \E j \in 1..Len(lists[i][d]) : acls[lists[i][d][j]] = k

(* Once an element has dealt with an IPPort, and so for every successful   *)
(* request, each direction in which the interface filters permits it.      *)
PinholeOpen ==
    \A e \in Elements : \A k \in ipPortMap[e] :
        k.port # 0 => \A d \in Directions :
            Filtered[Owner[k.ip]][d] => Permits(Owner[k.ip], d, k)

(* A list has at most one ACL for a key, though the server and the client  *)
(* element do not know of each other's keys, and an interface that does    *)
(* not filter in a direction is left alone.                                *)
NothingElse ==
    \A i \in Interfaces, d \in Directions :
        /\ ~Filtered[i][d] => lists[i][d] = <<>>
        /\ \A j, k \in 1..Len(lists[i][d]) :
              acls[lists[i][d][j]] = acls[lists[i][d][k]] => j = k

(* With af_xdp, a successful request has all of its ports in the map: the  *)
(* one of the mechanism and the extra one.                                 *)
XdpOpen ==
    afXdp => \A r \in Requests : result[r] = "ok" =>
        \A j \in 1..Len(KeysOf[r]) : KeysOf[r][j].port \in xdpPinhole \cup {0}

(* Requests open the pinholes they need and no others. *)
PinholesExact == PinholeOpen /\ NothingElse /\ XdpOpen

(* No read-modify-write drops an ACL that another request has put into the *)
(* list of an interface, and new ACLs come first.                          *)
ListsOnlyGrow ==
    [][\A i \in Interfaces, d \in Directions : IsSuffix(lists[i][d], lists'[i][d])]_vars

(* Every request returns: no path leaves the mutex locked. *)
RequestsReturn == \A r \in Requests : <>(pc[r] = "done")
=============================================================================
