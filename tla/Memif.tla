-------------------------------- MODULE Memif --------------------------------
(***************************************************************************)
(* pkg/networkservice/mechanisms/memif with memifproxy and memifrxmode, as *)
(* the forwarder chain uses them (WithDirectMemif), and pkg/tools/proxy.   *)
(*                                                                         *)
(* A connection whose server side is memif is either direct (the other     *)
(* side is memif too, and a proxy joins the two control sockets) or has a  *)
(* memif of VPP towards the client; one whose server side is something     *)
(* else has a memif of VPP towards the endpoint.  A memif of VPP is an     *)
(* interface on a socket; memifrxmode starts a goroutine that waits for    *)
(* its link.                                                               *)
(*                                                                         *)
(* A proxy is a goroutine that accepts a client, dials the target, and     *)
(* goes on; another one closes the listener when the context ends.  What   *)
(* is copied between the sockets is left out.                              *)
(*                                                                         *)
(* One step per VPP call.  The events of one connection are serialised     *)
(* (begin), those of different connections and the goroutines overlap.     *)
(***************************************************************************)
EXTENDS Naturals, FiniteSets

CONSTANTS Conns,
          MemifServer,  \* connections whose server side is memif
          Names,        \* socket file names, net namespace included
          Remote,       \* the other side of the connection is not memif
          Ifs,          \* swIfIndex values of memifs
          Sockets,      \* socket ids of VPP
          None,
          Gone,         \* the name of a socket id that is not given out again
          MaxFailed,    \* bound: calls that fail
          Slots,        \* bound: proxies of a connection that exist at a time
          MaxPipes,     \* bound: clients that a proxy has accepted
          Envs          \* the environments to consider

ASSUME MemifAssumption ==
    /\ MemifServer \subseteq Conns
    /\ Remote \notin Names /\ None \notin Names \cup {Remote} \cup Ifs \cup Sockets
    /\ Gone \notin Names \cup {None}
    /\ MaxFailed \in Nat /\ MaxPipes \in Nat /\ None \notin Slots
    /\ IsFiniteSet(Sockets)   \* the ids are words of VPP
    /\ Envs \subseteq [faults : SUBSET {"next", "name", "create", "delete", "watch", "mode", "up",
                                         "dial", "accept"},
                       failures : 0..MaxFailed, reuse : BOOLEAN, moves : BOOLEAN, direct : BOOLEAN,
                       conns : SUBSET Conns, slots : SUBSET Slots, pipes : 0..MaxPipes]

VARIABLES
    env,       \* the environment of this behaviour: see Faults, Reuse and Moves
    want,      \* what the request and its reply say: the socket name of the
               \* memif of VPP, and the target of a direct memif or Remote
    info,      \* memifproxy.LoadInfo: the SocketFile, None when it is empty
    proxy,     \* the proxy whose cancel function is in the metadata, or None
    proxies,   \* the goroutines of the proxies of each connection
    crashed,   \* a goroutine has dereferenced nil and the process has ended
    ifindex,   \* ifindex.Load
    socket,    \* the MemifSocketFilenameAddDelV2 of the metadata
    rxmode,    \* memifrxmode has stored its cancel function
    watch,     \* the interface its goroutine waits for, 0 for no interface
    event,     \* the goroutine has an event that the link is up
    unwatched, \* ghost: connections whose memif was created beside a cancel
               \* function stored for an earlier one, or whose mode was not set
    known,     \* the connection is established: its metadata survives errors
    granted,   \* the last request of the connection has succeeded
    closing,   \* why the memif is being deleted
    sockets,   \* VPP: the name of each socket, None or Gone
    memifs,    \* VPP: the socket of each memif, or None
    adminUp,   \* VPP
    linkUp,    \* VPP
    adaptive,  \* VPP: interfaces in adaptive rx mode
    failed,    \* calls that have failed
    pc

elements == <<info, proxy, proxies, ifindex, socket, rxmode>>
goroutine == <<watch, event, unwatched>>
vpp == <<sockets, memifs, adminUp, linkUp, adaptive>>
vars == <<env, crashed, want, elements, goroutine, known, granted, closing, vpp, failed, pc>>

(* Which calls may fail; whether VPP gives out the id of a deleted socket; *)
(* whether a refresh may find another target or name; env also says which  *)
(* connections take part, whether the other side of one may be memif, and  *)
(* how many proxies and clients of a proxy there may be at a time.         *)
Faults == env.faults
Reuse == env.reuse
Moves == env.moves

Wants(c) == [name : Names, target : {Remote}]
            \cup {[name |-> t, target |-> t] : t \in IF c \in MemifServer THEN Names ELSE {}}
(* A proxy: its target, whether its context is done, whether it listens,   *)
(* what it does, and the pairs of sockets it has open.                     *)
NoProxy == [target |-> None, done |-> TRUE, listening |-> FALSE, at |-> "ended", pipes |-> 0]
NoSocket == [id |-> None, name |-> None]
SocketOf == [id : Sockets, name : Names]

TypeOK == /\ env \in Envs
          /\ \A c \in Conns : want[c] \in Wants(c)
          /\ info \in [Conns -> Names \cup {None}]
          /\ proxy \in [Conns -> Slots \cup {None}]
          /\ proxies \in [Conns -> [Slots -> [target : Names \cup {None}, done : BOOLEAN, listening : BOOLEAN,
                                              at : {"accept", "dial", "ended"}, pipes : 0..MaxPipes]]]
          /\ crashed \in BOOLEAN
          /\ ifindex \in [Conns -> Ifs \cup {None}]
          /\ socket \in [Conns -> SocketOf \cup {NoSocket}]
          /\ rxmode \in [Conns -> BOOLEAN]
          /\ watch \in [Conns -> Ifs \cup {0, None}]
          /\ event \in [Conns -> BOOLEAN]
          /\ unwatched \subseteq Conns
          /\ known \in [Conns -> BOOLEAN]
          /\ granted \in [Conns -> BOOLEAN]
          /\ closing \in [Conns -> {"no", "undo", "close"}]
          /\ sockets \in [Sockets -> Names \cup {None, Gone}]
          /\ memifs \in [Ifs -> Sockets \cup {None}]
          /\ adminUp \subseteq Ifs /\ linkUp \subseteq Ifs /\ adaptive \subseteq Ifs
          /\ failed \in 0..MaxFailed
          /\ pc \in [Conns -> {"ready", "reply", "create", "delmemif", "delsocket", "socket",
                                "memif", "proxy", "rxmode", "up"}]

Init == /\ env \in Envs
        /\ want \in [Conns -> [name : Names, target : {Remote}]]
        /\ info = [c \in Conns |-> None]
        /\ proxy = [c \in Conns |-> None]
        /\ proxies = [c \in Conns |-> [k \in Slots |-> NoProxy]]
        /\ crashed = FALSE
        /\ ifindex = [c \in Conns |-> None]
        /\ socket = [c \in Conns |-> NoSocket]
        /\ rxmode = [c \in Conns |-> FALSE]
        /\ watch = [c \in Conns |-> None]
        /\ event = [c \in Conns |-> FALSE]
        /\ unwatched = {}
        /\ known = [c \in Conns |-> FALSE]
        /\ granted = [c \in Conns |-> FALSE]
        /\ closing = [c \in Conns |-> "no"]
        /\ sockets = [s \in Sockets |-> None]
        /\ memifs = [i \in Ifs |-> None]
        /\ adminUp = {} /\ linkUp = {} /\ adaptive = {}
        /\ failed = 0
        /\ pc = [c \in Conns |-> "ready"]

SocketExists(s) == s \in Sockets /\ sockets[s] \in Names
FreeSockets == {s \in Sockets : sockets[s] = None}
FreeIfs == {i \in Ifs : memifs[i] = None}

Goto(c, step) == pc' = [pc EXCEPT ![c] = step]

(* A call fails: the fault is among those considered and within the bound. *)
Fault(kind) == kind \in Faults /\ failed < env.failures /\ failed' = failed + 1

(* A call that creates fails by a fault, or because VPP has to refuse it.  *)
CallFails(refused) == \/ ~refused /\ Fault("create")
                      \/ refused /\ UNCHANGED failed

(* The connection is direct: both sides are memif. *)
IsDirect(c) == c \in MemifServer /\ want[c].target # Remote

-----------------------------------------------------------------------------
(* The request on its way to the endpoint *)

(* memifproxy: a new Info for every request. *)
storeInfo(c) == info' = IF c \in MemifServer THEN [info EXCEPT ![c] = None] ELSE info

Request(c) ==
    /\ pc[c] = "ready"
    /\ storeInfo(c)
    /\ granted' = [granted EXCEPT ![c] = FALSE]
    /\ \/ want' = want
       \/ /\ Moves \/ ~known[c]
          /\ \E w \in Wants(c) : /\ w.target = Remote \/ env.direct
                                 /\ want' = [want EXCEPT ![c] = w]
    /\ Goto(c, "reply")
    /\ UNCHANGED <<proxy, proxies, ifindex, socket, rxmode, goroutine, known, closing, vpp, failed>>

(* memifClient: the target of a direct memif is stored, and no memif is    *)
(* created on either side.                                                 *)
Reply(c) ==
    /\ pc[c] = "reply"
    /\ \/ /\ IsDirect(c)
          /\ info' = [info EXCEPT ![c] = want[c].target]
          /\ Goto(c, "proxy")
          /\ UNCHANGED failed
       \/ /\ ~IsDirect(c)
          /\ Goto(c, "create")
          /\ UNCHANGED <<info, failed>>
       \/ /\ Fault("next")
          /\ Goto(c, "ready")
          /\ UNCHANGED info
    /\ UNCHANGED <<want, proxy, proxies, ifindex, socket, rxmode, goroutine, known, granted, closing, vpp>>

-----------------------------------------------------------------------------
(* common.go *)

(* Mutant of create: any memif will do. *)
create_any(c) ==
    /\ pc[c] = "create"
    /\ Goto(c, IF ifindex[c] # None THEN "rxmode" ELSE "delmemif")
    /\ UNCHANGED <<want, elements, goroutine, known, granted, closing, vpp, failed>>

(* A failure in create: the element closes, and not those in front of it.  *)
Undo(c) == /\ closing' = [closing EXCEPT ![c] = "undo"]
           /\ Goto(c, "delmemif")

(* A memif on the socket that is wanted is kept; else what there is, is    *)
(* deleted first.  For a memif that there is, the name of the socket that  *)
(* is wanted needs the handle of its namespace, which may be gone.         *)
create(c) ==
    /\ pc[c] = "create"
    /\ \/ /\ Goto(c, IF ifindex[c] # None /\ socket[c].name = want[c].name THEN "rxmode" ELSE "delmemif")
          /\ UNCHANGED <<closing, failed>>
       \/ /\ ifindex[c] # None /\ Fault("name")
          /\ Undo(c)
    /\ UNCHANGED <<want, elements, goroutine, known, granted, vpp>>

(* What follows del: the rest of create, or the end of Close.  Metadata    *)
(* goes with a close and with the failure of a first request.              *)
AfterDel(c, sock) ==
    \/ /\ closing[c] = "no"
       /\ Goto(c, "socket")
       /\ socket' = [socket EXCEPT ![c] = sock]
       /\ UNCHANGED <<known, closing>>
    \/ /\ closing[c] # "no"
       /\ Goto(c, "ready")
       /\ known' = [known EXCEPT ![c] = (closing[c] = "undo" /\ @)]
       /\ socket' = [socket EXCEPT ![c] = IF known'[c] THEN sock ELSE NoSocket]
       /\ closing' = [closing EXCEPT ![c] = "no"]

(* The interface is forgotten whether or not VPP can delete it; the socket *)
(* is deleted only if it can.                                              *)
deleteMemif(c) ==
    /\ pc[c] = "delmemif"
    /\ ifindex' = [ifindex EXCEPT ![c] = None]
    /\ \/ /\ memifs' = [i \in Ifs |-> IF i = ifindex[c] THEN None ELSE memifs[i]]
          /\ adminUp' = adminUp \ {ifindex[c]}
          /\ linkUp' = linkUp \ {ifindex[c]}
          /\ adaptive' = adaptive \ {ifindex[c]}
          /\ Goto(c, "delsocket")
          /\ UNCHANGED <<socket, known, closing, failed>>
       \/ /\ ifindex[c] # None /\ Fault("delete")
          /\ AfterDel(c, socket[c])
          /\ UNCHANGED <<memifs, adminUp, linkUp, adaptive>>
    /\ UNCHANGED <<want, info, proxy, proxies, rxmode, goroutine, granted, sockets>>

(* The metadata is read and not deleted.  VPP refuses to delete a socket   *)
(* that is in use or does not exist; the error is ignored.                 *)
deleteMemifSocket(c) ==
    LET s == socket[c].id
        refused == ~SocketExists(s) \/ \E i \in Ifs : memifs[i] = s
    IN  /\ pc[c] = "delsocket"
        /\ \/ /\ refused
              /\ UNCHANGED <<sockets, failed>>
           \/ /\ ~refused
              /\ sockets' = [sockets EXCEPT ![s] = IF Reuse THEN None ELSE Gone]
              /\ UNCHANGED failed
           \/ /\ ~refused /\ Fault("delete")
              /\ UNCHANGED sockets
        /\ AfterDel(c, socket[c])
        /\ UNCHANGED <<want, info, proxy, proxies, ifindex, rxmode, goroutine, granted, memifs, adminUp, linkUp, adaptive>>

createMemifSocket(c) ==
    /\ pc[c] = "socket"
    /\ \/ /\ \E s \in FreeSockets :
                /\ sockets' = [sockets EXCEPT ![s] = want[c].name]
                /\ socket' = [socket EXCEPT ![c] = [id |-> s, name |-> want[c].name]]
          /\ Goto(c, "memif")
          /\ UNCHANGED <<closing, failed>>
       \/ /\ CallFails(FreeSockets = {}) /\ Undo(c)
          /\ UNCHANGED <<sockets, socket>>
    /\ UNCHANGED <<want, info, proxy, proxies, ifindex, rxmode, goroutine, known, granted, memifs, adminUp, linkUp, adaptive>>

(* VPP refuses a socket that does not exist. *)
createMemif(c) ==
    /\ pc[c] = "memif"
    /\ \/ /\ SocketExists(socket[c].id)
          /\ \E i \in FreeIfs : /\ memifs' = [memifs EXCEPT ![i] = socket[c].id]
                                /\ ifindex' = [ifindex EXCEPT ![c] = i]
          /\ unwatched' = IF rxmode[c] THEN unwatched \cup {c} ELSE unwatched
          /\ Goto(c, "rxmode")
          /\ UNCHANGED <<closing, failed>>
       \/ /\ CallFails(~SocketExists(socket[c].id) \/ FreeIfs = {})
          /\ Undo(c)
          /\ UNCHANGED <<memifs, ifindex, unwatched>>
    /\ UNCHANGED <<want, info, proxy, proxies, socket, rxmode, watch, event, known, granted, sockets, adminUp, linkUp, adaptive>>

-----------------------------------------------------------------------------
(* memifproxy and tools/proxy *)

(* A socket that listens has the address of its connection for itself. *)
AddressFree(c) == \A k \in Slots : ~proxies[c][k].listening
FreeSlots(c) == {k \in env.slots : proxies[c][k].at = "ended"}

(* Start: it listens, dials the target once, and leaves the rest to the    *)
(* goroutine; it closes what it has opened when one of these fails.        *)
Start(c) ==
    LET k == CHOOSE s \in FreeSlots(c) : TRUE
    IN  /\ AddressFree(c)
        /\ proxy' = [proxy EXCEPT ![c] = k]
        /\ proxies' = [proxies EXCEPT ![c][k] = [target |-> info[c], done |-> FALSE, listening |-> TRUE,
                                                at |-> "accept", pipes |-> 0]]

(* A proxy that has been started is kept. *)
StartProxy(c) ==
    /\ pc[c] = "proxy"
    /\ \/ /\ proxy[c] # None
          /\ Goto(c, "rxmode")
          /\ UNCHANGED <<proxy, proxies, closing, failed>>
       \/ /\ proxy[c] = None /\ FreeSlots(c) # {}
          /\ Start(c)
          /\ Goto(c, "rxmode")
          /\ UNCHANGED <<closing, failed>>
       \/ /\ proxy[c] = None /\ CallFails(~AddressFree(c))
          /\ Undo(c)
          /\ UNCHANGED <<proxy, proxies>>
    /\ UNCHANGED <<want, info, ifindex, socket, rxmode, goroutine, known, granted, vpp>>

cancelProxy(c) ==
    /\ proxy' = [proxy EXCEPT ![c] = None]
    /\ proxies' = [proxies EXCEPT ![c] = [k \in Slots |-> IF k = proxy[c] THEN [@[k] EXCEPT !.done = TRUE]
                                                         ELSE @[k]]]

(* The goroutine that waits for the end of the context. *)
ListenerClose(c, k) ==
    /\ proxies[c][k].done /\ proxies[c][k].listening
    /\ proxies' = [proxies EXCEPT ![c][k].listening = FALSE]

(* Mutant of proxyClose: the sockets of the clients are left to them. *)
proxyClose_listener(c, k) ==
    proxies' = [proxies EXCEPT ![c][k] = [NoProxy EXCEPT !.pipes = proxies[c][k].pipes]]

(* The deferred calls of accept: the listener and every pair of sockets    *)
(* are closed, and the context ends.                                       *)
proxyClose(c, k) == proxies' = [proxies EXCEPT ![c][k] = NoProxy]

(* accept waits for a client; that the listener is closed ends it.  After  *)
(* a temporary error there is no client, and its methods are called.       *)
accept(c, k) ==
    /\ proxies[c][k].at = "accept"
    /\ \/ /\ proxies[c][k].listening /\ proxies[c][k].pipes < env.pipes
          /\ proxies' = [proxies EXCEPT ![c][k].at = "dial"]
          /\ UNCHANGED <<crashed, failed>>
       \/ /\ proxies[c][k].listening /\ Fault("accept")
          /\ crashed' = TRUE
          /\ UNCHANGED proxies
       \/ /\ ~proxies[c][k].listening
          /\ proxyClose(c, k)
          /\ UNCHANGED <<crashed, failed>>

(* The pair of sockets is remembered, and its two goroutines copy.         *)
newProxyConnection(c, k) ==
    proxies' = [proxies EXCEPT ![c][k] = [proxies[c][k] EXCEPT !.at = "accept", !.pipes = @ + 1]]

(* The rest of the round: that the target cannot be dialled ends accept,   *)
(* for the error is wrapped and never passes for a temporary one.          *)
dial(c, k) ==
    /\ proxies[c][k].at = "dial"
    /\ \/ newProxyConnection(c, k) /\ UNCHANGED failed
       \/ proxyClose(c, k) /\ Fault("dial")
    /\ UNCHANGED crashed

Proxy(c, k) ==
    /\ \/ accept(c, k) \/ dial(c, k)
       \/ ListenerClose(c, k) /\ UNCHANGED <<crashed, failed>>
    /\ UNCHANGED <<want, info, proxy, ifindex, socket, rxmode, goroutine, known, granted, closing, vpp, pc>>

-----------------------------------------------------------------------------
(* memifrxmode *)

(* Mutant of cancel: the goroutine goes on. *)
cancel_none(c) == /\ rxmode' = [rxmode EXCEPT ![c] = FALSE]
                  /\ unwatched' = unwatched \ {c}
                  /\ UNCHANGED <<watch, event>>

cancel(c) == /\ rxmode' = [rxmode EXCEPT ![c] = FALSE]
             /\ watch' = [watch EXCEPT ![c] = None]
             /\ event' = [event EXCEPT ![c] = FALSE]
             /\ unwatched' = unwatched \ {c}

(* Once per connection: the goroutine waits for the link of the interface  *)
(* there is.  When it cannot watch, the element closes everything behind.  *)
setRxMode(c) ==
    /\ pc[c] = "rxmode"
    /\ \/ /\ rxmode[c]
          /\ Goto(c, "up")
          /\ UNCHANGED <<proxy, proxies, rxmode, watch, event, closing, failed>>
       \/ /\ ~rxmode[c]
          /\ rxmode' = [rxmode EXCEPT ![c] = TRUE]
          /\ watch' = [watch EXCEPT ![c] = IF ifindex[c] = None THEN 0 ELSE ifindex[c]]
          /\ Goto(c, "up")
          /\ UNCHANGED <<proxy, proxies, event, closing, failed>>
       \/ /\ ~rxmode[c] /\ Fault("watch")
          /\ cancelProxy(c)
          /\ Undo(c)
          /\ UNCHANGED <<rxmode, watch, event>>
    /\ UNCHANGED <<want, info, ifindex, socket, unwatched, known, granted, vpp>>

(* The up element sets the interface up, and the request returns; when it, *)
(* or another element in front, fails, it closes everything behind.        *)
Up(c) ==
    /\ pc[c] = "up"
    /\ \/ /\ adminUp' = adminUp \cup ({ifindex[c]} \ {None})
          /\ granted' = [granted EXCEPT ![c] = TRUE]
          /\ known' = [known EXCEPT ![c] = TRUE]
          /\ Goto(c, "ready")
          /\ UNCHANGED <<proxy, proxies, rxmode, goroutine, closing, failed>>
       \/ /\ Fault("up")
          /\ cancel(c)
          /\ cancelProxy(c)
          /\ Undo(c)
          /\ UNCHANGED <<adminUp, granted, known>>
    /\ UNCHANGED <<want, info, ifindex, socket, sockets, memifs, linkUp, adaptive>>

(* VPP: the other side of the memif connects. *)
LinkUp(i) ==
    /\ i \in adminUp \ linkUp
    /\ linkUp' = linkUp \cup {i}
    /\ event' = [c \in Conns |-> event[c] \/ watch[c] = i]
    /\ UNCHANGED <<want, elements, watch, unwatched, known, granted, closing, sockets, memifs, adminUp, adaptive,
                   failed, pc>>

(* The goroutine sets the mode, or fails, and ends in either case. *)
Goroutine(c) ==
    /\ event[c]
    /\ \/ /\ adaptive' = adaptive \cup {i \in {watch[c]} : memifs[i] # None}
          /\ UNCHANGED <<unwatched, failed>>
       \/ /\ Fault("mode")
          /\ unwatched' = unwatched \cup {c}
          /\ UNCHANGED adaptive
    /\ watch' = [watch EXCEPT ![c] = None]
    /\ event' = [event EXCEPT ![c] = FALSE]
    /\ UNCHANGED <<want, elements, known, granted, closing, sockets, memifs, adminUp, linkUp, pc>>

-----------------------------------------------------------------------------
(* Close goes through memifrxmode, memifproxy and memif. *)

Close(c) ==
    /\ pc[c] = "ready" /\ known[c]
    /\ cancel(c)
    /\ cancelProxy(c)
    /\ closing' = [closing EXCEPT ![c] = "close"]
    /\ granted' = [granted EXCEPT ![c] = FALSE]
    /\ Goto(c, "delmemif")
    /\ UNCHANGED <<want, info, ifindex, socket, known, vpp, failed>>

Handler(c) == \/ Reply(c) \/ create(c) \/ deleteMemif(c) \/ deleteMemifSocket(c)
              \/ createMemifSocket(c) \/ createMemif(c) \/ StartProxy(c) \/ setRxMode(c) \/ Up(c)

Step == \/ /\ \/ \E c \in env.conns : Request(c) \/ Handler(c) \/ Close(c) \/ Goroutine(c)
              \/ \E i \in Ifs : LinkUp(i)
           /\ UNCHANGED crashed
        \/ \E c \in env.conns, k \in Slots : Proxy(c, k)

Next == \/ ~crashed /\ Step /\ UNCHANGED env
        \/ crashed /\ UNCHANGED vars

Spec == Init /\ [][Next]_vars

-----------------------------------------------------------------------------
(* Properties *)

(* A connection that is granted without a proxy has a memif in VPP, on a   *)
(* socket that exists and has the name in the mechanism, and shares        *)
(* neither with another connection, if VPP gives no socket id twice.       *)
MemifMatches ==
    ~Reuse => \A c \in Conns : granted[c] /\ ~IsDirect(c) =>
        /\ ifindex[c] # None /\ memifs[ifindex[c]] = socket[c].id
        /\ sockets[socket[c].id] = want[c].name
        /\ \A d \in Conns \ {c} : ifindex[d] # ifindex[c]

(* The proxy of a direct memif listens, and leads to the socket that the   *)
(* endpoint gave, as long as a refresh finds the same one and it can be    *)
(* dialled.                                                                *)
ProxyTarget ==
    ~Moves /\ "dial" \notin Faults => \A c \in Conns : granted[c] /\ IsDirect(c) =>
        \E k \in Slots : /\ k = proxy[c]
                         /\ proxies[c][k].listening /\ ~proxies[c][k].done
                         /\ proxies[c][k].target = want[c].target

(* The memif of a granted connection is in adaptive mode, or a goroutine   *)
(* waits for its link, unless it has replaced another while memifrxmode    *)
(* was not closed, or VPP has refused the mode.                            *)
RxModeWatched ==
    \A c \in Conns \ unwatched : granted[c] /\ ~IsDirect(c) =>
        \/ watch[c] = ifindex[c] /\ (ifindex[c] \in linkUp => event[c])
        \/ ifindex[c] \in adaptive

(* A granted connection is served: by its memif, or by its proxy. *)
Served == MemifMatches /\ ProxyTarget /\ RxModeWatched

(* A connection that is not known any more has no goroutine, no proxy and  *)
(* no memif of its own.                                                    *)
ClosedIsClean ==
    \A c \in Conns : pc[c] = "ready" /\ ~known[c] =>
        watch[c] = None /\ proxy[c] = None /\ ifindex[c] = None

(* Sockets of VPP that no metadata names are left by calls that failed.    *)
LeaksAreFailures ==
    Cardinality({s \in Sockets : SocketExists(s) /\ \A c \in Conns : socket[c].id # s}) <= failed

(* Only the proxy in the metadata goes on: every other has been told to    *)
(* end, and one that has ended listens to no address and has no socket.    *)
ProxiesEnd ==
    \A c \in Conns, k \in Slots :
        /\ k # proxy[c] => proxies[c][k].done
        /\ proxies[c][k].at = "ended" => ~proxies[c][k].listening /\ proxies[c][k].pipes = 0

(* Nothing of a connection is left behind, and nothing of another type. *)
Clean == TypeOK /\ ClosedIsClean /\ LeaksAreFailures /\ ProxiesEnd
=============================================================================
