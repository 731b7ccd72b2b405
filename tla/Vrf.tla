-------------------------------- MODULE Vrf --------------------------------
(***************************************************************************)
(* pkg/networkservice/vrf: one IP table per network service and address    *)
(* family in VPP, shared by the server and the client element              *)
(* (WithSharedMap).  A table counts its users by the interfaces attached   *)
(* to it; the loopback of the service (WithLoadInterface(loopback.Load))   *)
(* is attached too, so a table with one attached interface is unused.      *)
(*                                                                         *)
(* The two vrfMaps have a mutex each.  attach takes the IPv4 mutex and     *)
(* then the IPv6 mutex and releases both when it returns; create and del   *)
(* hold one at a time, so each of these calls is one step that needs its   *)
(* mutex to be free.  The begin element serialises the requests and closes *)
(* of one connection; different connections interleave.                    *)
(***************************************************************************)
EXTENDS Naturals, FiniteSets

CONSTANTS Servers,     \* connections handled by vrfServer
          Clients,     \* connections handled by vrfClient
          Services,    \* network service names
          ServiceOf,   \* the network service of each connection
          Mechs,       \* the swIfIndex values of mechanism interfaces
          LoopOf,      \* the loopback of each service
          NoIf,        \* no interface
          Ids,         \* the table ids VPP can allocate
          NoId,        \* no table; also the default table of an interface
          NoConn,      \* nobody holds the mutex
          Envs         \* the environments to consider

Conns == Servers \cup Clients
Families == {"v4", "v6"}
Interfaces == Mechs \cup {LoopOf[s] : s \in Services}

ASSUME VrfAssumption ==
    /\ Servers \cap Clients = {} /\ NoConn \notin Conns
    /\ ServiceOf \in [Conns -> Services]
    /\ \A s \in Services : LoopOf[s] \notin Mechs \cup {NoIf}
    /\ \A s, t \in Services : LoopOf[s] = LoopOf[t] => s = t
    /\ IsFiniteSet(Interfaces)
    /\ NoIf \notin Mechs /\ NoId \notin Ids
    /\ Envs \subseteq [conns : SUBSET Conns,
                       faults : SUBSET {"create", "next", "attach", "delete"},
                       overlap : BOOLEAN]

VARIABLES
    env,       \* the environment of this behaviour, see Faults and Overlap
    entries,   \* entries[f][s]: the vrfInfo of service s in the vrfMap of f
    lock,      \* lock[f]: who holds the mutex of the vrfMap of f
    meta,      \* meta[c][f]: the vrfID in the metadata of c
    ifindex,   \* the mechanism interface in the metadata of c (ifindex.Load)
    tables,    \* tables[f]: the tables that exist in VPP
    bound,     \* bound[f][i]: the table interface i uses
    pc,        \* where the handler of each connection is
    fresh,     \* loadIfaces is not nil: this request has to attach
    known,     \* the connections with a request that has succeeded
    panicked   \* a nil *vrfInfo was dereferenced

vars == <<env, entries, lock, meta, ifindex, tables, bound, pc, fresh, known, panicked>>

(* Which calls may fail, and whether handlers of connections of the same   *)
(* service overlap; those of different services always may.                *)
Faults == env.faults
Overlap == env.overlap

vrfInfo == [id : Ids, attached : SUBSET Interfaces]

NoVrf == [id |-> NoId, attached |-> {}]

Steps == {"ready", "create6", "next", "loop4", "loop6", "mech4", "mech6",
          "undo6", "undo4", "del6", "del4", "closenext"}

TypeOK == /\ env \in Envs
          /\ entries \in [Families -> [Services -> vrfInfo \cup {NoVrf}]]
          /\ lock \in [Families -> Conns \cup {NoConn}]
          /\ meta \in [Conns -> [Families -> Ids \cup {NoId}]]
          /\ ifindex \in [Conns -> Mechs \cup {NoIf}]
          /\ tables \in [Families -> SUBSET Ids]
          /\ bound \in [Families -> [Interfaces -> Ids \cup {NoId}]]
          /\ pc \in [Conns -> Steps]
          /\ fresh \in [Conns -> BOOLEAN]
          /\ known \subseteq Conns
          /\ panicked \in BOOLEAN

NewMap == [f \in Families |-> [s \in Services |-> NoVrf]]

Init == /\ env \in Envs
        /\ entries = NewMap
        /\ lock = [f \in Families |-> NoConn]
        /\ meta = [c \in Conns |-> [f \in Families |-> NoId]]
        /\ ifindex = [c \in Conns |-> NoIf]
        /\ tables = [f \in Families |-> {}]
        /\ bound = [f \in Families |-> [i \in Interfaces |-> NoId]]
        /\ pc = [c \in Conns |-> "ready"]
        /\ fresh = [c \in Conns |-> FALSE]
        /\ known = {}
        /\ panicked = FALSE

Goto(c, step) == pc' = [pc EXCEPT ![c] = step]

-----------------------------------------------------------------------------
(* metadata.go *)

Load(c, f) == meta[c][f]

Store(c, f, id) == meta' = [meta EXCEPT ![c][f] = id]

(* Mutant of delTableFromMetadataV46: only one family is dropped. *)
delTableFromMetadata_v6(c) == meta' = [meta EXCEPT ![c]["v6"] = NoId]

delTableFromMetadataV46(c) == meta' = [meta EXCEPT ![c] = [f \in Families |-> NoId]]

(* A request fails.  When it is the first of the connection its metadata   *)
(* goes with it, an established connection keeps what it has.              *)
DropMetadata(c) == IF c \in known THEN UNCHANGED meta
                   ELSE meta' = [meta EXCEPT ![c] = [f \in Families |-> NoId]]

-----------------------------------------------------------------------------
(* common.go *)

(* IPTableAllocate hands out a table that does not exist. *)
createVPP(f, id) == /\ id \in Ids \ tables[f]
                    /\ tables' = [tables EXCEPT ![f] = @ \cup {id}]

(* IPTableAddDel removes the table, or fails and the error is dropped. *)
delVPP(f, id) == \/ tables' = [tables EXCEPT ![f] = @ \ {id}]
                 \/ "delete" \in Faults /\ UNCHANGED tables

(* Mutant of create: a table is allocated whether or not there is one. *)
create_nolookup(c, f) ==
    /\ lock[f] = NoConn
    /\ \E id \in Ids :
          /\ createVPP(f, id)
          /\ entries' = [entries EXCEPT ![f][ServiceOf[c]] = [id |-> id, attached |-> {}]]
          /\ Store(c, f, id)

(* The table of the service is looked up, or allocated, under the mutex,   *)
(* and its id stored in the metadata.                                      *)
create(c, f) ==
    LET s == ServiceOf[c]
    IN  /\ lock[f] = NoConn
        /\ \/ /\ entries[f][s] # NoVrf
              /\ Store(c, f, entries[f][s].id)
              /\ UNCHANGED <<entries, tables>>
           \/ /\ entries[f][s] = NoVrf
              /\ \E id \in Ids :
                    /\ createVPP(f, id)
                    /\ entries' = [entries EXCEPT ![f][s] = [id |-> id, attached |-> {}]]
                    /\ Store(c, f, id)

(* SwInterfaceSetTable refuses a table that does not exist. *)
SetTable(f, i, id) == /\ id \in tables[f]
                      /\ bound' = [bound EXCEPT ![f][i] = id]

(* The IPv4 mutex is kept until attach returns, after the IPv6 part. *)
AttachLocks(c, f) == /\ lock[f] = NoConn
                     /\ lock' = [lock EXCEPT !["v4"] = IF f = "v4" THEN c ELSE NoConn]

(* The part of attach for one family: interface i is put into the table    *)
(* whose id is in the metadata, unless it is attached already.             *)
attach(c, f, i) ==
    LET s == ServiceOf[c]
    IN  /\ AttachLocks(c, f)
        /\ panicked' = (entries[f][s] = NoVrf)
        /\ \/ /\ entries[f][s] = NoVrf \/ i \in entries[f][s].attached
              /\ UNCHANGED <<entries, bound>>
           \/ /\ entries[f][s] # NoVrf /\ i \notin entries[f][s].attached
              /\ SetTable(f, i, Load(c, f))
              /\ entries' = [entries EXCEPT ![f][s].attached = @ \cup {i}]

(* SwInterfaceSetTable fails: attach returns and releases its mutexes. *)
attachFails(c, f, i) ==
    LET s == ServiceOf[c]
    IN  /\ lock[f] = NoConn
        /\ entries[f][s] # NoVrf /\ i \notin entries[f][s].attached
        /\ Load(c, f) \notin tables[f] \/ "attach" \in Faults
        /\ lock' = [lock EXCEPT !["v4"] = NoConn]

(* Mutant of del: the vrfInfo of an unused table is emptied only. *)
del_empty(c, f) ==
    LET s == ServiceOf[c]
        rest == entries[f][s].attached \ {ifindex[c]}
    IN  /\ lock[f] = NoConn
        /\ IF Cardinality(rest) = 1
           THEN entries' = [entries EXCEPT ![f][s].id = NoId] /\ delVPP(f, Load(c, f))
           ELSE entries' = [entries EXCEPT ![f][s].attached = rest] /\ UNCHANGED tables
        /\ UNCHANGED lock

(* Mutant of del: the IPv6 mutex is kept while the IPv4 one is taken. *)
del_nested(c, f) ==
    /\ lock[f] = NoConn
    /\ lock' = [lock EXCEPT !["v6"] = IF f = "v6" THEN c ELSE NoConn]
    /\ UNCHANGED <<entries, tables>>

(* The connection's interface leaves the table; when one interface is left *)
(* the table is taken to be unused and the id in the metadata is deleted.  *)
del(c, f) ==
    LET s == ServiceOf[c]
        rest == entries[f][s].attached \ {ifindex[c]}
    IN  /\ lock[f] = NoConn
        /\ UNCHANGED lock
        /\ \/ /\ Load(c, f) = NoId \/ entries[f][s] = NoVrf
              /\ UNCHANGED <<entries, tables>>
           \/ /\ Load(c, f) # NoId /\ entries[f][s] # NoVrf
              /\ Cardinality(rest) # 1
              /\ entries' = [entries EXCEPT ![f][s].attached = rest]
              /\ UNCHANGED tables
           \/ /\ Load(c, f) # NoId /\ entries[f][s] # NoVrf
              /\ Cardinality(rest) = 1
              /\ entries' = [entries EXCEPT ![f][s] = NoVrf]
              /\ delVPP(f, Load(c, f))

-----------------------------------------------------------------------------
(* server.go and client.go, which have the same text *)

MayStart(c) == /\ pc[c] = "ready"
               /\ Overlap \/ \A d \in Conns : ServiceOf[d] = ServiceOf[c] => pc[d] = "ready"

(* One round of the loop over the families at the head of Request. *)
RequestCreate(c, f, before, then) ==
    \/ /\ Load(c, f) # NoId
       /\ fresh' = [fresh EXCEPT ![c] = FALSE]
       /\ Goto(c, then)
       /\ UNCHANGED <<entries, meta, tables>>
    \/ /\ Load(c, f) = NoId
       /\ create(c, f)
       /\ fresh' = [fresh EXCEPT ![c] = before]
       /\ Goto(c, then)
    \/ /\ "create" \in Faults \/ Ids = tables[f]   \* IPTableAllocate fails: Request returns
       /\ Load(c, f) = NoId /\ entries[f][ServiceOf[c]] = NoVrf
       /\ lock[f] = NoConn
       /\ Goto(c, "ready")
       /\ DropMetadata(c)
       /\ UNCHANGED <<entries, tables, fresh>>

Request(c) == /\ \/ MayStart(c) /\ RequestCreate(c, "v4", TRUE, "create6")
                 \/ pc[c] = "create6" /\ RequestCreate(c, "v6", fresh[c], "next")
              /\ UNCHANGED <<lock, ifindex, bound, known, panicked>>

(* The mechanism element further down the chain creates the interface of a *)
(* connection and deletes it; VPP has a new interface in the default table *)
(* and forgets the table of a deleted one.                                 *)
CreateInterface(c) ==
    /\ \E i \in Mechs \ {ifindex[d] : d \in Conns} : ifindex' = [ifindex EXCEPT ![c] = i]
    /\ UNCHANGED bound

DeleteInterface(c) ==
    /\ ifindex' = [ifindex EXCEPT ![c] = NoIf]
    /\ bound' = [f \in Families |-> [i \in Interfaces |->
                    IF i = ifindex[c] THEN NoId ELSE bound[f][i]]]

NextSucceeds(c) ==
    /\ pc[c] = "next"
    /\ Goto(c, IF fresh[c] THEN "loop4" ELSE "ready")
    /\ known' = IF fresh[c] THEN known ELSE known \cup {c}
    /\ fresh' = [fresh EXCEPT ![c] = FALSE]
    /\ IF ifindex[c] = NoIf THEN CreateInterface(c) ELSE UNCHANGED <<ifindex, bound>>
    /\ UNCHANGED <<entries, lock, meta, tables, panicked>>

(* The mechanism element may or may not have kept its interface; the       *)
(* interface of a first request is forgotten with the metadata.            *)
NextFails(c) ==
    /\ pc[c] = "next" /\ "next" \in Faults
    /\ Goto(c, "undo6")
    /\ fresh' = [fresh EXCEPT ![c] = FALSE]
    /\ DeleteInterface(c) \/ (c \in known /\ UNCHANGED <<ifindex, bound>>)
    /\ UNCHANGED <<entries, lock, meta, tables, known, panicked>>

(* delV46 looks for the network service of the nil connection that came    *)
(* with the error and finds no entry; then the metadata is dropped.        *)
Undo(c) == /\ \/ pc[c] = "undo6" /\ lock["v6"] = NoConn /\ Goto(c, "undo4") /\ UNCHANGED meta
              \/ /\ pc[c] = "undo4" /\ lock["v4"] = NoConn
                 /\ Goto(c, "ready")
                 /\ delTableFromMetadataV46(c)
           /\ UNCHANGED <<entries, lock, ifindex, tables, bound, fresh, known, panicked>>

(* The loop over loadIfaces: the loopback of the service, then the         *)
(* mechanism interface, each in both families.                             *)
AttachAt(c, f, i, step, then) ==
    /\ pc[c] = step
    /\ \/ attach(c, f, i) /\ Goto(c, then)
       \/ attachFails(c, f, i) /\ Goto(c, "del6") /\ UNCHANGED <<entries, bound, panicked>>

AttachLoop(c) == LET i == LoopOf[ServiceOf[c]]
                 IN  AttachAt(c, "v4", i, "loop4", "loop6") \/ AttachAt(c, "v6", i, "loop6", "mech4")

AttachMech(c) == \/ AttachAt(c, "v4", ifindex[c], "mech4", "mech6")
                 \/ AttachAt(c, "v6", ifindex[c], "mech6", "ready")

Attach(c) == /\ AttachLoop(c) \/ AttachMech(c)
             /\ known' = IF pc'[c] = "ready" THEN known \cup {c} ELSE known
             /\ UNCHANGED <<meta, ifindex, tables, fresh>>

BeginClose(c) == /\ MayStart(c)
                 /\ Goto(c, "del6")
                 /\ UNCHANGED <<entries, lock, meta, ifindex, tables, bound, fresh, known, panicked>>

delV46(c) == /\ \/ pc[c] = "del6" /\ del(c, "v6") /\ Goto(c, "del4")
                \/ pc[c] = "del4" /\ del(c, "v4") /\ Goto(c, "closenext")
             /\ UNCHANGED <<meta, ifindex, bound, fresh, known, panicked>>

(* next.Close deletes the mechanism interface; then the metadata goes. *)
CloseNext(c) == /\ pc[c] = "closenext"
                /\ DeleteInterface(c)
                /\ delTableFromMetadataV46(c)
                /\ known' = known \ {c}
                /\ Goto(c, "ready")
                /\ UNCHANGED <<entries, lock, tables, fresh, panicked>>

RequestSteps(c) == Request(c) \/ NextSucceeds(c) \/ NextFails(c) \/ Undo(c) \/ Attach(c)
CloseSteps(c) == BeginClose(c) \/ delV46(c) \/ CloseNext(c)

ServerRequest(c) == c \in Servers /\ RequestSteps(c)
ClientRequest(c) == c \in Clients /\ RequestSteps(c)
ServerClose(c) == c \in Servers /\ CloseSteps(c)
ClientClose(c) == c \in Clients /\ CloseSteps(c)

(* A panic ends the process. *)
Step(c) == /\ ~panicked
           /\ UNCHANGED env
           /\ ServerRequest(c) \/ ClientRequest(c) \/ ServerClose(c) \/ ClientClose(c)

Next == \E c \in env.conns : Step(c)

Spec == Init /\ [][Next]_vars

-----------------------------------------------------------------------------
(* Properties *)

(* The table of a service does not change while the service has one: two   *)
(* first requests that overlap do not allocate a table each.               *)
EntryStable == [][\A f \in Families, s \in Services :
    entries[f][s] # NoVrf /\ entries'[f][s] # NoVrf => entries'[f][s].id = entries[f][s].id]_vars

(* The mutex the next step of the handler of c takes. *)
Needs(c) == CASE pc[c] \in {"ready", "undo4", "del4", "loop4", "mech4"} -> {"v4"}
              [] pc[c] \in {"create6", "undo6", "del6", "loop6", "mech6"} -> {"v6"}
              [] OTHER -> {}

(* Handlers that wait for the mutexes of the two vrfMaps do not wait for   *)
(* each other: no holder of a mutex needs one that is held, itself by a    *)
(* handler that needs another (attach nests the two, del must not).        *)
NoCircularWait ==
    ~ \E f, g \in Families : /\ lock[f] # NoConn /\ lock[g] # NoConn
                             /\ g \in Needs(lock[f]) /\ f \in Needs(lock[g])

(* A connection c uses the table of family f: its id is in the metadata    *)
(* and no handler of c is giving it back.                                  *)
Uses(c, f) == Load(c, f) # NoId /\ pc[c] \notin {"del6", "del4", "closenext", "undo6", "undo4"}

(* del deletes a table only when no connection uses it any more            *)
(* (common.go:124): the table in the metadata of a connection is the one   *)
(* its service has, and it exists in VPP.                                  *)
UsedTableKept ==
    \A c \in Conns, f \in Families : Uses(c, f) =>
        /\ entries[f][ServiceOf[c]].id = Load(c, f)
        /\ Load(c, f) \in tables[f]

(* After a successful request the interface of the connection and the      *)
(* loopback of its service are in the table of the service.                *)
InterfacesInTable ==
    \A c \in Conns, f \in Families : pc[c] = "ready" /\ Load(c, f) # NoId =>
        \A i \in {ifindex[c], LoopOf[ServiceOf[c]]} : bound[f][i] = Load(c, f)

(* While handlers of different services interleave, and whatever           *)
(* allocations and SwInterfaceSetTable fail, connections use tables that   *)
(* exist, their interfaces are in them, and attach never reads a vrfInfo   *)
(* that is not in the map.  All of it is lost as soon as the handlers of   *)
(* one service overlap, or a request fails below.                          *)
TablesServe ==
    ~Overlap /\ Faults \subseteq {"attach", "create"} =>
        UsedTableKept /\ InterfacesInTable /\ ~panicked
=============================================================================
