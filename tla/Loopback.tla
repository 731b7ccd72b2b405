------------------------------ MODULE Loopback ------------------------------
(***************************************************************************)
(* pkg/networkservice/loopback: one loopback interface per network         *)
(* service, shared by the server and the client element of an endpoint     *)
(* (WithSharedMap) and counted by the connections that use it.             *)
(*                                                                         *)
(* A connection below is one per-connection metadata map: the server side  *)
(* of a connection is in Servers, the client side in Clients.  The begin   *)
(* element serialises the requests and closes of one connection, so each   *)
(* has one program counter; different connections interleave freely.  The  *)
(* bodies handed to the serialize.Executor of the shared Map run one at a  *)
(* time and their callers wait for them, so each body is one step here.    *)
(***************************************************************************)
EXTENDS Integers, FiniteSets

CONSTANTS Servers,     \* metadata maps of connections handled by loopbackServer
          Clients,     \* metadata maps of connections handled by loopbackClient
          Services,    \* network service names
          ServiceOf,   \* the network service each connection asks for
          Interfaces,  \* the swIfIndex values VPP can hand out
          NoIf         \* no interface

Conns == Servers \cup Clients

ASSUME ConnsAssumption ==
    /\ IsFiniteSet(Conns)
    /\ Servers \cap Clients = {}
    /\ ServiceOf \in [Conns -> Services]
    /\ NoIf \notin Interfaces

VARIABLES
    entries,   \* the shared Map: a loopInfo per network service
    meta,      \* the swIfIndex in the metadata of each connection
    loops,     \* the loopback interfaces that exist in VPP
    pc,        \* where the handler of each connection is
    dropped,   \* the swIfIndex a connection took out of its metadata in del
    panicked,  \* a nil *loopInfo was dereferenced
    forgotten  \* the uses of the loopback of each service that nobody can give back

vars == <<entries, meta, loops, pc, dropped, panicked, forgotten>>

LoopInfo == [swIfIndex : Interfaces \cup {NoIf}, count : Nat]

NoInfo == [swIfIndex |-> NoIf, count |-> 0]

Steps == {"ready",      \* no handler runs for the connection
          "next",       \* Request waits for the rest of the chain
          "delete"}     \* del waits for the executor

TypeOK == /\ entries \in [Services -> LoopInfo]
          /\ meta \in [Conns -> Interfaces \cup {NoIf}]
          /\ loops \in SUBSET Interfaces
          /\ pc \in [Conns -> Steps]
          /\ dropped \in [Conns -> Interfaces \cup {NoIf}]
          /\ panicked \in BOOLEAN
          /\ forgotten \in [Services -> Nat]

NewMap == [s \in Services |-> NoInfo]

Init == /\ entries = NewMap
        /\ meta = [c \in Conns |-> NoIf]
        /\ loops = {}
        /\ pc = [c \in Conns |-> "ready"]
        /\ dropped = [c \in Conns |-> NoIf]
        /\ panicked = FALSE
        /\ forgotten = [s \in Services |-> 0]

-----------------------------------------------------------------------------
(* metadata.go: the loopback of a connection in its metadata map *)

Load(c) == meta[c]

Store(c, swIfIndex) == meta' = [meta EXCEPT ![c] = swIfIndex]

LoadAndDelete(c) == /\ dropped' = [dropped EXCEPT ![c] = meta[c]]
                    /\ meta' = [meta EXCEPT ![c] = NoIf]

-----------------------------------------------------------------------------
(* common.go *)

(* VPP answers CreateLoopback with an interface that does not exist yet *)
createLoopbackVPP(i) == /\ i \in Interfaces \ loops
                        /\ loops' = loops \cup {i}

(* VPP removes the interface, or the call fails and the error is logged *)
delVPP(i) == loops' \in {loops \ {i}, loops}

(* Mutant of createLoopback: the entry of the service is not looked up. *)
createLoopback_nolookup(c) ==
    LET s == ServiceOf[c]
    IN  \/ Load(c) # NoIf /\ UNCHANGED <<entries, meta, loops>>
        \/ /\ Load(c) = NoIf
           /\ \E i \in Interfaces :
                  /\ createLoopbackVPP(i)
                  /\ entries' = [entries EXCEPT ![s] = [swIfIndex |-> i, count |-> 1]]
                  /\ Store(c, i)

(* The first request of a connection takes part in the loopback of its     *)
(* service, creating it if need be; a refresh finds it in the metadata.    *)
createLoopback(c) ==
    LET s == ServiceOf[c]
        share(info) == /\ entries' = [entries EXCEPT ![s] =
                              [swIfIndex |-> info.swIfIndex, count |-> info.count + 1]]
                       /\ Store(c, info.swIfIndex)
    IN  \/ /\ Load(c) # NoIf
           /\ UNCHANGED <<entries, meta, loops>>
        \/ /\ Load(c) = NoIf
           /\ entries[s] # NoInfo
           /\ share(entries[s])
           /\ UNCHANGED loops
        \/ /\ Load(c) = NoIf
           /\ entries[s] = NoInfo
           /\ \E i \in Interfaces : /\ createLoopbackVPP(i)
                                    /\ share([swIfIndex |-> i, count |-> 0])

(* Mutant of del: the loopback goes when one user is left. *)
del_early(c) ==
    LET s == ServiceOf[c]
        info == entries[s]
    IN  /\ panicked' = (info = NoInfo)
        /\ entries' = [entries EXCEPT ![s] =
               IF info.count = 2 THEN NoInfo ELSE [info EXCEPT !.count = @ - 1]]
        /\ IF info.count = 2 THEN delVPP(dropped[c]) ELSE UNCHANGED loops

(* Mutant of del: every user deletes the interface in VPP. *)
del_eager(c) ==
    LET s == ServiceOf[c]
        info == entries[s]
    IN  /\ panicked' = (info = NoInfo)
        /\ entries' = [entries EXCEPT ![s] =
               IF info.count > 1 THEN [info EXCEPT !.count = @ - 1] ELSE NoInfo]
        /\ delVPP(dropped[c])

(* The executor's part of del: the last user of the loopback deletes it.   *)
(* Reading the count of a service without an entry is a nil dereference.   *)
del(c) ==
    LET s == ServiceOf[c]
        info == entries[s]
    IN  /\ panicked' = (info = NoInfo)
        /\ entries' = [entries EXCEPT ![s] =
               IF info.count > 1 THEN [info EXCEPT !.count = @ - 1] ELSE NoInfo]
        /\ IF info.count = 1 THEN delVPP(dropped[c]) ELSE UNCHANGED loops

(* del first takes the loopback out of the metadata, and does nothing more *)
(* when there is none.                                                     *)
beginDel(c) ==
    /\ LoadAndDelete(c)
    /\ pc' = [pc EXCEPT ![c] = IF Load(c) = NoIf THEN "ready" ELSE "delete"]
    /\ UNCHANGED <<entries, loops, panicked, forgotten>>

-----------------------------------------------------------------------------
(* server.go and client.go *)

(* CreateLoopback returns an error: Request returns it before it has       *)
(* changed anything of its own.  VPP may have created the interface all    *)
(* the same when it is the reply that was lost.                            *)
CreateFails(c) ==
    /\ pc[c] = "ready"
    /\ Load(c) = NoIf
    /\ entries[ServiceOf[c]] = NoInfo
    /\ \E i \in Interfaces : createLoopbackVPP(i)
    /\ UNCHANGED <<entries, meta, pc, dropped, panicked, forgotten>>

Request(c) == /\ pc[c] = "ready"
              /\ createLoopback(c)
              /\ pc' = [pc EXCEPT ![c] = "next"]
              /\ UNCHANGED <<dropped, panicked, forgotten>>

NextSucceeds(c) == /\ pc[c] = "next"
                   /\ pc' = [pc EXCEPT ![c] = "ready"]
                   /\ UNCHANGED <<entries, meta, loops, dropped, panicked, forgotten>>

NextFails(c) == pc[c] = "next" /\ beginDel(c)

Close(c) == pc[c] = "ready" /\ beginDel(c)

EndDel(c) == /\ pc[c] = "delete"
             /\ del(c)
             /\ dropped' = [dropped EXCEPT ![c] = NoIf]
             /\ pc' = [pc EXCEPT ![c] = "ready"]
             /\ UNCHANGED <<meta, forgotten>>

(* A Close of the connection has ended in front of the loopback element:   *)
(* its metadata goes, and the loopback in it is given back by nobody.      *)
Forget(c) == /\ pc[c] = "ready"
             /\ meta' = [meta EXCEPT ![c] = NoIf]
             /\ forgotten' = [forgotten EXCEPT ![ServiceOf[c]] = @ + (IF Load(c) = NoIf THEN 0 ELSE 1)]
             /\ UNCHANGED <<entries, loops, pc, dropped, panicked>>

ServerRequest(c) == /\ c \in Servers
                    /\ Request(c) \/ CreateFails(c) \/ NextSucceeds(c) \/ NextFails(c)
ClientRequest(c) == /\ c \in Clients
                    /\ Request(c) \/ CreateFails(c) \/ NextSucceeds(c) \/ NextFails(c)
ServerClose(c) == c \in Servers /\ Close(c)
ClientClose(c) == c \in Clients /\ Close(c)

(* A panic ends the process. *)
Next == ~panicked /\ \E c \in Conns : \/ ServerRequest(c) \/ ClientRequest(c)
                                      \/ ServerClose(c) \/ ClientClose(c)
                                      \/ EndDel(c) \/ Forget(c)

Spec == Init /\ [][Next]_vars

-----------------------------------------------------------------------------
(* Properties *)

(* The connections that take part in the loopback of s: those with a       *)
(* loopback in their metadata, and those whose del has taken it out and    *)
(* still waits for the executor.                                           *)
Holders(s) == {c \in Conns : ServiceOf[c] = s /\ (meta[c] # NoIf \/ pc[c] = "delete")}

(* What connection c believes to be its loopback. *)
HeldBy(c) == IF pc[c] = "delete" THEN dropped[c] ELSE meta[c]

(* The count of a service is the number of connections that still have to  *)
(* give its loopback back, and of those that were forgotten with it: a     *)
(* refresh does not count twice, and a Close after a failed Request does   *)
(* not give back twice.                                                    *)
RefCountExact == \A s \in Services : entries[s].count = Cardinality(Holders(s)) + forgotten[s]

(* del never reads the entry of a service that has none (common.go:72).    *)
NoNilDeref == ~panicked

(* While a connection has a loopback it is the one its service has and it  *)
(* exists in VPP: no other connection's close has deleted it.              *)
LoopbackInUseExists ==
    \A c \in Conns : HeldBy(c) # NoIf =>
        /\ HeldBy(c) = entries[ServiceOf[c]].swIfIndex
        /\ HeldBy(c) \in loops

(* Two network services never share a loopback interface, whatever indices *)
(* VPP reuses after a deletion.                                            *)
ServicesIsolated ==
    \A s, t \in Services :
        s # t /\ entries[s] # NoInfo => entries[s].swIfIndex # entries[t].swIfIndex

(* The loopback of a service is shared as it should: all of the above. *)
SharedSafely == NoNilDeref /\ RefCountExact /\ LoopbackInUseExists /\ ServicesIsolated

(* An entry has an interface exactly when it has a count, and the          *)
(* interface exists in VPP.                                                *)
EntryLive ==
    \A s \in Services :
        /\ entries[s].count = 0 <=> entries[s].swIfIndex = NoIf
        /\ entries[s].swIfIndex # NoIf => entries[s].swIfIndex \in loops

(* What del took out of the metadata stays with the handler until the      *)
(* executor has run its part.                                              *)
DelPending ==
    \A c \in Conns : pc[c] = "delete" => meta[c] = NoIf /\ dropped[c] # NoIf

(* The inductive invariant behind the properties above. *)
IInv == /\ TypeOK
        /\ NoNilDeref
        /\ RefCountExact
        /\ EntryLive
        /\ DelPending
        /\ LoopbackInUseExists
        /\ ServicesIsolated

(* The loopback elements implement a shared resource keyed by service.     *)
SR == INSTANCE SharedResource
        WITH Keys <- Services, Users <- Conns, Resources <- Interfaces, None <- NoIf,
             users <- [s \in Services |-> Holders(s)],
             res <- [s \in Services |-> entries[s].swIfIndex],
             alive <- loops,
             kept <- {s \in Services : forgotten[s] > 0}

(* Every step of the server and client elements is a step of the shared    *)
(* resource or changes nothing of it: createLoopback creates or shares,    *)
(* del leaves or destroys, and what is forgotten is kept.                  *)
ImplementsSharedResource == SR!Spec
=============================================================================
