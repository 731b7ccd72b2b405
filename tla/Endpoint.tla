------------------------------ MODULE Endpoint ------------------------------
(***************************************************************************)
(* The elements that give a connection of an endpoint its IP context and   *)
(* its filter, around the loopback of Loopback.tla: unnumbered lets the    *)
(* interface of the connection borrow the address of the loopback,         *)
(* ipaddress puts the address there, routes leads the packets for the      *)
(* other end to the interface, and acl filters it.                         *)
(*                                                                         *)
(* In the order of the chain: routes, ipaddress, unnumbered, loopback, acl *)
(* and the mechanism.  The loopback is created on the way down, everything *)
(* else on the way back; an element that fails closes itself and what is   *)
(* behind it, and what is before it learns of an error only.  The elements *)
(* share the metadata map of the connection, except for acl, which has a   *)
(* map of its own.  One step per VPP call.                                 *)
(***************************************************************************)
EXTENDS Loopback, Sequences

CONSTANTS Ports,   \* the swIfIndex values of the interfaces of connections
          AclIds,  \* the indices of ACLs, from zero
          Envs     \* the environments to consider

FaultKinds == {"next", "refresh", "acl", "unnumbered", "address", "route", "unroute"}

ASSUME EndpointAssumption ==
    /\ NoIf \notin Ports
    /\ AclIds \subseteq Nat
    /\ Envs \subseteq [conns : SUBSET Conns, faults : SUBSET FaultKinds, filter : BOOLEAN]

VARIABLES
    env,         \* what can happen in this behaviour
    step,        \* where the handler of each connection is
    known,       \* the connections with a request that has succeeded
    granted,     \* those whose last request has succeeded
    ifindex,     \* metadata: the interface of the connection
    unnumbered,  \* metadata: the connections whose interface was told to borrow
    aclIndices,  \* aclServer: the ACLs of each connection
    outlived,    \* the connections whose ACLs in there are those of an interface of an earlier life
    made,        \* create of acl: the ACLs made so far
    ports,       \* VPP: the interfaces of connections
    borrows,     \* borrows[p]: VPP, the loopback whose address p has
    addressed,   \* VPP: the loopbacks that have the address of their service
    route,       \* route[c]: VPP, where the packets for the other end go
    acls,        \* acls[i]: VPP, the direction ACL i was made for
    lists        \* lists[p]: VPP, the ACLs of interface p, ingress and egress

metadataVars == <<ifindex, unnumbered>>
aclVars == <<aclIndices, outlived, made, acls, lists>>
ipVars == <<borrows, addressed, route>>
endpointVars == <<vars, env, step, known, granted, metadataVars, aclVars, ports, ipVars>>

Faulty(kind) == kind \in env.faults

UpSteps == {"mechanism", "acl", "unnumbered", "dump", "add", "routes"}
DownSteps == {"release", "unroute", "close", "del", "acldel", "mechanismdel"}

EndpointTypeOK ==
    /\ TypeOK
    /\ env \in Envs
    /\ step \in [Conns -> {"idle"} \cup UpSteps \cup DownSteps]
    /\ granted \subseteq known /\ known \subseteq Conns
    /\ ifindex \in [Conns -> Ports \cup {NoIf}]
    /\ unnumbered \subseteq Conns
    /\ aclIndices \in [Conns -> Seq(AclIds)]
    /\ outlived \subseteq Servers
    /\ made \in [Conns -> Seq(AclIds)]
    /\ \A c \in Conns : Len(aclIndices[c]) <= 2 /\ Len(made[c]) <= 2
    /\ ports \subseteq Ports
    /\ borrows \in [Ports -> Interfaces \cup {NoIf}]
    /\ addressed \subseteq loops
    /\ route \in [Conns -> Ports \cup {NoIf}]
    /\ acls \in [AclIds -> {"none", "ingress", "egress"}]
    /\ lists \in [Ports -> Seq(AclIds)]

EndpointInit ==
    /\ Init
    /\ env \in Envs
    /\ step = [c \in Conns |-> "idle"]
    /\ known = {} /\ granted = {}
    /\ ifindex = [c \in Conns |-> NoIf]
    /\ unnumbered = {}
    /\ aclIndices = [c \in Conns |-> <<>>] /\ outlived = {}
    /\ made = [c \in Conns |-> <<>>]
    /\ ports = {}
    /\ borrows = [p \in Ports |-> NoIf]
    /\ addressed = {}
    /\ route = [c \in Conns |-> NoIf]
    /\ acls = [i \in AclIds |-> "none"]
    /\ lists = [p \in Ports |-> <<>>]

Goto(c, s) == step' = [step EXCEPT ![c] = s]

(* A handler ends with an error.  Without an earlier success the metadata  *)
(* of the connection goes with it.                                         *)
Drop(c) == IF c \in known THEN UNCHANGED metadataVars
           ELSE /\ ifindex' = [ifindex EXCEPT ![c] = NoIf]
                /\ unnumbered' = unnumbered \ {c}

-----------------------------------------------------------------------------
(* The mechanism and the rest of the chain *)

(* VPP creates the interface of a connection, with nothing set. *)
CreatePort(c) == \E p \in Ports \ ports : /\ ports' = ports \cup {p}
                                          /\ ifindex' = [ifindex EXCEPT ![c] = p]

(* A deleted interface takes its settings with it, but not the routes. *)
RemovePort(c) == /\ ports' = ports \ {ifindex[c]}
                 /\ ifindex' = [ifindex EXCEPT ![c] = NoIf]
                 /\ borrows' = [p \in Ports |-> IF p = ifindex[c] THEN NoIf ELSE borrows[p]]
                 /\ lists' = [p \in Ports |-> IF p = ifindex[c] THEN <<>> ELSE lists[p]]

Mechanism(c) ==
    /\ step[c] = "mechanism"
    /\ \/ ifindex[c] # NoIf /\ UNCHANGED <<ports, ifindex>>
       \/ ifindex[c] = NoIf /\ CreatePort(c)
    /\ Goto(c, "acl")
    /\ UNCHANGED <<vars, known, granted, unnumbered, aclVars, ipVars>>

(* The rest of the chain fails; an established connection may keep its     *)
(* interface.                                                              *)
MechanismFails(c) ==
    /\ step[c] = "mechanism"
    /\ Faulty(IF c \in known THEN "refresh" ELSE "next")
    /\ NextFails(c)
    /\ \/ UNCHANGED <<ports, ifindex, borrows, lists>>
       \/ ifindex[c] # NoIf /\ RemovePort(c)
    /\ Goto(c, "release")
    /\ UNCHANGED <<known, granted, unnumbered, aclIndices, outlived, made, acls, addressed, route>>

-----------------------------------------------------------------------------
(* acl: it is above the mechanism, below the loopback *)

Free == {i \in AclIds : acls[i] = "none"}
InUse(i) == \E p \in Ports, k \in 1..2 : k <= Len(lists[p]) /\ lists[p][k] = i

(* Request: nothing to do without rules or when the ACLs are in the map;   *)
(* there is no such element on the side of the client.                     *)
Loaded(c) == ~env.filter \/ c \in Clients \/ aclIndices[c] # <<>>

(* The end of acl's Request: the loopback element has its reply. *)
AclDone(c) == NextSucceeds(c) /\ Goto(c, "unnumbered")

AclSkip(c) == /\ step[c] = "acl" /\ Loaded(c)
              /\ AclDone(c)
              /\ UNCHANGED <<known, granted, metadataVars, aclVars, ports, ipVars>>

(* addACLToACLList: an ACL for ingress, then one for egress. *)
addACLToACLList(c) ==
    /\ step[c] = "acl" /\ ~Loaded(c) /\ Len(made[c]) < 2
    /\ \E i \in Free : /\ acls' = [acls EXCEPT ![i] =
                                       IF made[c] = <<>> THEN "ingress" ELSE "egress"]
                       /\ made' = [made EXCEPT ![c] = Append(@, i)]
    /\ UNCHANGED <<vars, step, known, granted, metadataVars, aclIndices, outlived, lists, ports,
                   ipVars>>

MadeExist(c) == \A k \in 1..Len(made[c]) : made[c][k] \notin Free

(* create: the ACLs replace those of the interface; VPP refuses one that   *)
(* does not exist.  Request stores them.                                   *)
SetACLList(c) ==
    /\ step[c] = "acl" /\ ~Loaded(c) /\ Len(made[c]) = 2 /\ MadeExist(c)
    /\ lists' = [lists EXCEPT ![ifindex[c]] = made[c]]
    /\ aclIndices' = [aclIndices EXCEPT ![c] = made[c]]
    /\ made' = [made EXCEPT ![c] = <<>>]
    /\ AclDone(c)
    /\ UNCHANGED <<known, granted, metadataVars, outlived, acls, ports, ipVars>>

(* create fails: Close finds no indices, the ACLs made stay in VPP, and    *)
(* the mechanism deletes the interface.                                    *)
AclFails(c) ==
    /\ step[c] = "acl" /\ ~Loaded(c)
    /\ Faulty("acl") \/ ~MadeExist(c) \/ (Len(made[c]) < 2 /\ Free = {})
    /\ made' = [made EXCEPT ![c] = <<>>]
    /\ RemovePort(c)
    /\ NextFails(c)
    /\ Goto(c, "release")
    /\ UNCHANGED <<known, granted, unnumbered, aclIndices, outlived, acls, addressed, route>>

(* What Close deletes: the positions of the list and not its elements.     *)
Positions(c) == {k - 1 : k \in 1..Len(aclIndices[c])} \cap AclIds

(* VPP refuses to delete an ACL that an interface uses; errors are logged. *)
AclClose(c) ==
    /\ step[c] = "acldel"
    /\ aclIndices' = [aclIndices EXCEPT ![c] = <<>>]
    /\ outlived' = outlived \ {c}
    /\ acls' = [i \in AclIds |-> IF i \in Positions(c) /\ ~InUse(i) THEN "none" ELSE acls[i]]
    /\ Goto(c, "mechanismdel")
    /\ UNCHANGED <<vars, known, granted, metadataVars, made, lists, ports, ipVars>>

-----------------------------------------------------------------------------
(* ipcontext/unnumbered *)

(* addDel: once per connection. *)
UnnumberedAdd(c) ==
    /\ step[c] = "unnumbered"
    /\ \/ /\ c \in unnumbered
          /\ Goto(c, "dump")
          /\ UNCHANGED <<unnumbered, borrows>>
       \/ /\ c \notin unnumbered
          /\ borrows' = [borrows EXCEPT ![ifindex[c]] = Load(c)]
          /\ unnumbered' = unnumbered \cup {c}
          /\ Goto(c, "dump")
       \/ /\ c \notin unnumbered /\ Faulty("unnumbered")
          /\ Goto(c, "close")
          /\ UNCHANGED <<unnumbered, borrows>>
    /\ UNCHANGED <<vars, known, granted, ifindex, aclVars, ports, addressed, route>>

(* Mutant of UnnumberedClose: the connection stays in the metadata. *)
UnnumberedClose_kept(c) == UNCHANGED unnumbered

(* Close tells VPP nothing. *)
UnnumberedClose(c) == unnumbered' = unnumbered \ {c}

-----------------------------------------------------------------------------
(* ipcontext/ipaddress, with the loopback as its interface *)

(* dumpIps: is the address there? *)
DumpIps(c) ==
    /\ step[c] = "dump"
    /\ \/ Goto(c, IF Load(c) \in addressed THEN "routes" ELSE "add")
       \/ Faulty("address") /\ Goto(c, "close")
    /\ UNCHANGED <<vars, known, granted, metadataVars, aclVars, ports, ipVars>>

(* addDel: VPP refuses an address that another request has added since.    *)
AddAddress(c) ==
    /\ step[c] = "add"
    /\ \/ /\ Load(c) \notin addressed
          /\ addressed' = addressed \cup {Load(c)}
          /\ Goto(c, "routes")
       \/ /\ Load(c) \in addressed \/ Faulty("address")
          /\ Goto(c, "close")
          /\ UNCHANGED addressed
    /\ UNCHANGED <<vars, known, granted, metadataVars, aclVars, ports, borrows, route>>

-----------------------------------------------------------------------------
(* ipcontext/routes *)

(* addDel: every request sets the route again. *)
RouteAdd(c) ==
    /\ step[c] = "routes"
    /\ \/ /\ route' = [route EXCEPT ![c] = ifindex[c]]
          /\ known' = known \cup {c} /\ granted' = granted \cup {c}
          /\ Goto(c, "idle")
       \/ /\ Faulty("route")
          /\ Goto(c, "unroute")
          /\ UNCHANGED <<route, known, granted>>
    /\ UNCHANGED <<vars, metadataVars, aclVars, ports, borrows, addressed>>

(* Close: without an interface there is nothing to do.  The client goes on *)
(* when the deletion fails.                                                *)
RouteDel(c) ==
    /\ step[c] = "unroute"
    /\ \/ route' = [route EXCEPT ![c] = IF ifindex[c] = NoIf THEN @ ELSE NoIf]
       \/ ifindex[c] # NoIf /\ Faulty("unroute") /\ c \in Clients /\ UNCHANGED route
    /\ Goto(c, "close")
    /\ UNCHANGED <<vars, known, granted, metadataVars, aclVars, ports, borrows, addressed>>

(* The server returns the error, and nothing behind it is closed.  A       *)
(* connection that is not kept for a retry loses its metadata, while its   *)
(* interface, its loopback and its ACLs stay in VPP, and acl, which has a  *)
(* map of its own, remembers it.  The same id may be requested anew.       *)
RouteDelFails(c) ==
    /\ step[c] = "unroute"
    /\ ifindex[c] # NoIf /\ Faulty("unroute") /\ c \in Servers
    /\ IF c \in known THEN UNCHANGED <<vars, outlived>>
       ELSE Forget(c) /\ outlived' = outlived \cup (IF aclIndices[c] = <<>> THEN {} ELSE {c})
    /\ Drop(c)
    /\ Goto(c, "idle")
    /\ UNCHANGED <<known, granted, aclIndices, made, acls, lists, ports, ipVars>>

-----------------------------------------------------------------------------
(* Requests and closes *)

BeginRequest(c) ==
    /\ step[c] = "idle"
    /\ granted' = granted \ {c}
    /\ \/ Request(c) /\ Goto(c, "mechanism") /\ UNCHANGED metadataVars
       \/ CreateFails(c) /\ Drop(c) /\ UNCHANGED step
    /\ UNCHANGED <<known, aclVars, ports, ipVars>>

(* The loopback goes, if this was its last connection, with its address.   *)
Give(c) == EndDel(c) /\ addressed' = addressed \cap loops'

(* The loopback element gives back what the failed request has taken. *)
Release(c) ==
    /\ step[c] = "release"
    /\ Give(c)
    /\ Drop(c)
    /\ Goto(c, "idle")
    /\ UNCHANGED <<known, granted, aclVars, ports, borrows, route>>

BeginClose(c) ==
    /\ step[c] = "idle" /\ c \in known
    /\ known' = known \ {c} /\ granted' = granted \ {c}
    /\ Goto(c, "unroute")
    /\ UNCHANGED <<vars, metadataVars, aclVars, ports, ipVars>>

(* unnumbered and loopback close. *)
CloseBehind(c) ==
    /\ step[c] = "close"
    /\ UnnumberedClose(c)
    /\ Close(c)
    /\ Goto(c, IF Load(c) = NoIf THEN "acldel" ELSE "del")
    /\ UNCHANGED <<known, granted, ifindex, aclVars, ports, ipVars>>

CloseLoopback(c) ==
    /\ step[c] = "del"
    /\ Give(c)
    /\ Goto(c, "acldel")
    /\ UNCHANGED <<known, granted, metadataVars, aclVars, ports, borrows, route>>

MechanismClose(c) ==
    /\ step[c] = "mechanismdel"
    /\ RemovePort(c)
    /\ Goto(c, "idle")
    /\ UNCHANGED <<vars, known, granted, unnumbered, aclIndices, outlived, made, acls, addressed,
                   route>>

ipaddress(c) == DumpIps(c) \/ AddAddress(c)
aclServer(c) == AclSkip(c) \/ addACLToACLList(c) \/ SetACLList(c) \/ AclFails(c) \/ AclClose(c)

unnumberedServer(c) == c \in Servers /\ UnnumberedAdd(c)
unnumberedClient(c) == c \in Clients /\ UnnumberedAdd(c)
ipaddressServer(c) == c \in Servers /\ ipaddress(c)
ipaddressClient(c) == c \in Clients /\ ipaddress(c)
routesServer(c) == c \in Servers /\ (RouteAdd(c) \/ RouteDel(c) \/ RouteDelFails(c))
routesClient(c) == c \in Clients /\ (RouteAdd(c) \/ RouteDel(c))

Handle(c) == \/ BeginRequest(c) \/ BeginClose(c)
             \/ Mechanism(c) \/ MechanismFails(c) \/ aclServer(c)
             \/ unnumberedServer(c) \/ unnumberedClient(c)
             \/ ipaddressServer(c) \/ ipaddressClient(c)
             \/ routesServer(c) \/ routesClient(c)
             \/ Release(c) \/ CloseBehind(c) \/ CloseLoopback(c) \/ MechanismClose(c)

(* A panic ends the process. *)
EndpointNext == ~panicked /\ \E c \in env.conns : Handle(c) /\ UNCHANGED env

EndpointSpec == EndpointInit /\ [][EndpointNext]_endpointVars

-----------------------------------------------------------------------------
(* Properties *)

(* The interface of c borrows the address of the loopback of its service,  *)
(* which is there and has it, and the route of c leads to the interface.   *)
Addressed(c) ==
    LET loop == entries[ServiceOf[c]].swIfIndex
    IN  /\ ifindex[c] \in ports
        /\ borrows[ifindex[c]] = loop
        /\ loop \in addressed
        /\ route[c] = ifindex[c]

(* The interface of c is filtered by two ACLs that exist, the one for      *)
(* ingress and the one for egress.  With several connections the direction *)
(* is left out: what AclClose deletes may be an ACL that another request   *)
(* has made and not yet set, and VPP gives its index away.                 *)
Filtered(c) ==
    LET list == lists[ifindex[c]]
    IN  env.filter /\ c \in Servers =>
            /\ Len(list) = 2 /\ {list[1], list[2]} \cap Free = {}
            /\ Cardinality(env.conns) = 1 =>
                   acls[list[1]] = "ingress" /\ acls[list[2]] = "egress"

(* After a successful request a connection has its address, its route and  *)
(* its filter, and keeps them until its own next request or close: no      *)
(* close, failure or retry of another connection takes the loopback, the   *)
(* address or an ACL away.  A refresh that fails below the loopback is     *)
(* left out: the loopback, or the interface, is new afterwards, while      *)
(* unnumbered and acl still remember that they are done.  And so is the    *)
(* filter of a connection whose ACLs have outlived its earlier interface.  *)
Reachable ==
    ~Faulty("refresh") => \A c \in granted : Addressed(c) /\ (c \in outlived \/ Filtered(c))
=============================================================================
