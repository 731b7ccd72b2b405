---------------------------- MODULE MemifProofs ----------------------------
(***************************************************************************)
(* Proofs about Memif: for any connections, names, interfaces, sockets,    *)
(* proxies and failures.                                                   *)
(***************************************************************************)
EXTENDS Memif, FiniteSetTheorems, TLAPS

-----------------------------------------------------------------------------
(* The inductive invariant *)

(* What a connection wants is a name of its own and a target. *)
WantOK == want \in [Conns -> [name : Names, target : Names \cup {Remote}]]

(* What VPP has agrees with what the connections remember, whatever fails. *)

(* The socket of a memif exists, ... *)
OnSocket == \A i \in Ifs : memifs[i] # None => SocketExists(memifs[i])

(* ... a memif that is remembered is on the socket that is remembered, ... *)
Owned == \A c \in Conns : ifindex[c] # None => socket[c] # NoSocket /\ memifs[ifindex[c]] = socket[c].id

(* ... by one connection, ...                                              *)
OwnMemif == \A c, d \in Conns : ifindex[c] # None /\ ifindex[c] = ifindex[d] => c = d

(* ... and an interface that does not exist has no state.                  *)
Fresh == /\ \A i \in Ifs : memifs[i] = None => i \notin adminUp \cup linkUp \cup adaptive
         /\ linkUp \subseteq adminUp

(* A socket id that is not given out again has the remembered name until   *)
(* it is deleted.                                                          *)
Named == ~Reuse => \A c \in Conns : socket[c] # NoSocket =>
            sockets[socket[c].id] \in {socket[c].name, Gone}

VppInv == OnSocket /\ Owned /\ OwnMemif /\ Fresh /\ Named

(* A socket that its connection is bound to delete or to use, and on which *)
(* no memif was left: the others that exist are lost, or about to be.      *)
Orphan(i) == memifs[i] # None /\ \A c \in Conns : ifindex[c] # i
Holds(c, s) == /\ socket[c].id = s
               /\ ifindex[c] # None \/ pc[c] \in {"memif", "delmemif", "delsocket"}
Lost == {s \in Sockets : /\ SocketExists(s)
                         /\ \/ \A c \in Conns : ~Holds(c, s)
                            \/ \E i \in Ifs : memifs[i] = s /\ Orphan(i)}
LostAreFailures == Cardinality(Lost) <= failed

(* The goroutines of a proxy. *)
ProxyOK(c, k) ==
    /\ proxies[c][k].at = "ended" => proxies[c][k] = NoProxy
    /\ proxies[c][k].at = "dial" => proxies[c][k].pipes < env.pipes
    /\ k # proxy[c] => proxies[c][k].done
    /\ k = proxy[c] /\ "dial" \notin Faults => proxies[c][k].listening /\ ~proxies[c][k].done
    /\ k = proxy[c] /\ "dial" \notin Faults /\ ~Moves => proxies[c][k].target = want[c].target
ProxyInv == \A c \in Conns, k \in Slots : ProxyOK(c, k)

(* Where a handler is, and what it has done so far. *)
Ready(c) == /\ ~IsDirect(c) => ifindex[c] # None /\ socket[c].name = want[c].name
            /\ IsDirect(c) => proxy[c] # None

Place(c) ==
    /\ granted[c] => pc[c] = "ready" /\ known[c]
    /\ closing[c] # "no" => pc[c] \in {"delmemif", "delsocket"}
    /\ pc[c] \in {"create", "socket", "memif"} => ~IsDirect(c)
    /\ pc[c] \in {"delmemif", "delsocket"} /\ closing[c] = "no" => ~IsDirect(c)
    /\ pc[c] = "proxy" => IsDirect(c) /\ info[c] = want[c].target
    /\ pc[c] \in {"socket", "delsocket", "memif"} => ifindex[c] = None
    /\ pc[c] = "memif" => socket[c] # NoSocket /\ socket[c].name = want[c].name
    /\ pc[c] \in {"rxmode", "up"} \/ granted[c] => Ready(c)

(* What a connection has before it is established and after its close.     *)
Unknown(c) ==
    /\ ~known[c] /\ pc[c] \notin {"rxmode", "up"} => proxy[c] = None
    /\ ~known[c] /\ pc[c] # "up" => ~rxmode[c]
    /\ ~known[c] /\ pc[c] \in {"ready", "reply", "create", "proxy"} => ifindex[c] = None
    /\ closing[c] = "close" => known[c] /\ proxy[c] = None /\ ~rxmode[c]

(* The goroutine of memifrxmode. *)
RxOK(c) ==
    /\ pc[c] = "up" \/ granted[c] => rxmode[c]
    /\ ~rxmode[c] => watch[c] = None
    /\ event[c] => watch[c] \in Ifs
    /\ ifindex[c] # None /\ ifindex[c] \in adminUp => rxmode[c] \/ closing[c] # "no"

(* The link is up in adaptive mode, or the goroutine waits for the event. *)
Watched(c) == \/ watch[c] = ifindex[c] /\ (ifindex[c] \in linkUp => event[c])
              \/ ifindex[c] \in adaptive

(* While the cancel function is in the metadata, the link of the memif is  *)
(* waited for, if it was the memif of then and VPP has taken the mode.     *)
Kept(c) == rxmode[c] /\ ifindex[c] # None /\ c \notin unwatched => Watched(c)

ConnOK(c) == Place(c) /\ Unknown(c) /\ RxOK(c) /\ Kept(c)
ConnInv == \A c \in Conns : ConnOK(c)

(* The inductive invariant. *)
IInv == TypeOK /\ WantOK /\ VppInv /\ LostAreFailures /\ ProxyInv /\ ConnInv

-----------------------------------------------------------------------------
(* Types *)

(* The state of a proxy. *)
ProxyRecord == [target : Names \cup {None}, done : BOOLEAN, listening : BOOLEAN,
                at : {"accept", "dial", "ended"}, pipes : 0..MaxPipes]

(* The initial state. *)
LEMMA InitIInv == Init => IInv
<1> SUFFICES ASSUME Init PROVE IInv
  OBVIOUS
<1> USE MemifAssumption
<1>1. TypeOK
  <2>1. \A c \in Conns : want[c] \in Wants(c)
    BY DEF Init, Wants
  <2>2. /\ proxies \in [Conns -> [Slots -> [target : Names \cup {None}, done : BOOLEAN, listening : BOOLEAN,
                                              at : {"accept", "dial", "ended"}, pipes : 0..MaxPipes]]]
    BY DEF Init, NoProxy
  <2>3. /\ failed \in 0..MaxFailed /\ watch \in [Conns -> Ifs \cup {0, None}] /\ env \in Envs
        /\ unwatched \subseteq Conns
    BY DEF Init
  <2>4. /\ info \in [Conns -> Names \cup {None}]
        /\ proxy \in [Conns -> Slots \cup {None}]
        /\ crashed \in BOOLEAN
        /\ ifindex \in [Conns -> Ifs \cup {None}]
        /\ socket \in [Conns -> SocketOf \cup {NoSocket}]
        /\ rxmode \in [Conns -> BOOLEAN]
        /\ event \in [Conns -> BOOLEAN]
        /\ known \in [Conns -> BOOLEAN]
        /\ granted \in [Conns -> BOOLEAN]
    BY DEF Init
  <2>5. /\ closing \in [Conns -> {"no", "undo", "close"}]
        /\ sockets \in [Sockets -> Names \cup {None, Gone}]
        /\ memifs \in [Ifs -> Sockets \cup {None}]
        /\ adminUp \subseteq Ifs /\ linkUp \subseteq Ifs /\ adaptive \subseteq Ifs
        /\ pc \in [Conns -> {"ready", "reply", "create", "delmemif", "delsocket", "socket",
                                "memif", "proxy", "rxmode", "up"}]
    BY DEF Init
  <2> QED
    BY <2>1, <2>2, <2>3, <2>4, <2>5 DEF TypeOK
<1>2. WantOK
  BY DEF Init, WantOK
<1>3. VppInv
  BY DEF Init, VppInv, OnSocket, Owned, OwnMemif, Fresh, Named
<1>4. LostAreFailures
  <2>1. Lost = {}
    BY DEF Init, Lost, SocketExists
  <2> QED
    BY <2>1, FS_EmptySet DEF Init, LostAreFailures
<1>5. ProxyInv
  BY DEF Init, ProxyInv, ProxyOK, NoProxy
<1>6. ConnInv
  BY DEF Init, ConnInv, Place, Unknown, RxOK, Kept, Ready, IsDirect, ConnOK
<1> QED
  BY <1>1, <1>2, <1>3, <1>4, <1>5, <1>6 DEF IInv

(* A call that fails is counted, and the count keeps its bound. *)
LEMMA FaultCounts == ASSUME TypeOK, NEW kind, Fault(kind)
                     PROVE failed' = failed + 1 /\ failed' \in 0..MaxFailed /\ failed \in Nat
BY MemifAssumption DEF TypeOK, Fault

(* The steps of a request and of a close keep the types. *)
LEMMA RequestTypes == ASSUME TypeOK, WantOK, UNCHANGED <<env, crashed>>, NEW c \in Conns, Request(c)
                      PROVE TypeOK' /\ WantOK'
<1>1. WantOK' /\ \A d \in Conns : want'[d] \in Wants(d)
  <2>1. CASE want' = want
    BY <2>1 DEF TypeOK, WantOK, Wants
  <2>2. ASSUME NEW w \in Wants(c), want' = [want EXCEPT ![c] = w]
        PROVE  WantOK' /\ \A d \in Conns : want'[d] \in Wants(d)
    <3>1. w \in [name : Names, target : Names \cup {Remote}]
      BY <2>2 DEF Wants
    <3>2. \A d \in Conns : want'[d] = IF d = c THEN w ELSE want[d]
      BY <2>2 DEF WantOK
    <3>3. WantOK'
      BY <2>2, <3>1 DEF WantOK
    <3>4. \A d \in Conns : want'[d] \in Wants(d)
      BY <2>2, <3>2 DEF TypeOK
    <3> QED
      BY <3>3, <3>4
  <2> QED
    BY <2>1, <2>2 DEF Request
<1> QED
  BY <1>1 DEF TypeOK, Request, storeInfo, Goto, goroutine, vpp

(* A reply that comes back keeps the types. *)
LEMMA ReplyTypes == ASSUME TypeOK, WantOK, UNCHANGED <<env, crashed>>, NEW c \in Conns, Reply(c)
                    PROVE TypeOK' /\ WantOK'
<1>1. failed' \in 0..MaxFailed
  BY FaultCounts DEF TypeOK, Reply
<1>2. IsDirect(c) => want[c].target \in Names
  BY DEF WantOK, IsDirect
<1> QED
  BY <1>1, <1>2 DEF TypeOK, WantOK, Reply, Goto, goroutine, vpp

(* The decision of create keeps the types. *)
LEMMA createTypes == ASSUME TypeOK, WantOK, UNCHANGED <<env, crashed>>, NEW c \in Conns, create(c)
                     PROVE TypeOK' /\ WantOK'
<1>1. failed' \in 0..MaxFailed
  BY FaultCounts DEF TypeOK, create
<1> QED
  BY <1>1 DEF TypeOK, WantOK, create, Undo, Goto, elements, goroutine, vpp

(* What follows a deletion keeps the types. *)
LEMMA AfterDelTypes == ASSUME TypeOK, NEW c \in Conns, AfterDel(c, socket[c])
                       PROVE /\ socket' \in [Conns -> SocketOf \cup {NoSocket}]
                             /\ known' \in [Conns -> BOOLEAN]
                             /\ closing' \in [Conns -> {"no", "undo", "close"}]
                             /\ pc' = [pc EXCEPT ![c] = pc'[c]] /\ pc'[c] \in {"ready", "socket"}
BY DEF TypeOK, AfterDel, Goto

(* deleteMemif keeps the types. *)
LEMMA deleteMemifTypes == ASSUME TypeOK, WantOK, UNCHANGED <<env, crashed>>, NEW c \in Conns, deleteMemif(c)
                          PROVE TypeOK' /\ WantOK'
<1>1. /\ socket' \in [Conns -> SocketOf \cup {NoSocket}]
      /\ known' \in [Conns -> BOOLEAN]
      /\ closing' \in [Conns -> {"no", "undo", "close"}]
      /\ pc' = [pc EXCEPT ![c] = pc'[c]] /\ pc'[c] \in {"ready", "socket", "delsocket"}
  BY AfterDelTypes DEF TypeOK, deleteMemif, Goto
<1>2. failed' \in 0..MaxFailed
  BY FaultCounts DEF TypeOK, deleteMemif
<1>3. /\ UNCHANGED <<want, info, proxy, proxies, rxmode, watch, event, unwatched, granted, sockets>>
      /\ ifindex' \in [Conns -> Ifs \cup {None}]
      /\ memifs' \in [Ifs -> Sockets \cup {None}]
      /\ adminUp' \subseteq Ifs /\ linkUp' \subseteq Ifs /\ adaptive' \subseteq Ifs
  BY DEF TypeOK, deleteMemif, goroutine
<1> QED
  BY <1>1, <1>2, <1>3 DEF TypeOK, WantOK

(* deleteMemifSocket keeps the types. *)
LEMMA deleteMemifSocketTypes ==
    ASSUME TypeOK, WantOK, UNCHANGED <<env, crashed>>, NEW c \in Conns, deleteMemifSocket(c)
    PROVE TypeOK' /\ WantOK'
<1>1. /\ socket' \in [Conns -> SocketOf \cup {NoSocket}]
      /\ known' \in [Conns -> BOOLEAN]
      /\ closing' \in [Conns -> {"no", "undo", "close"}]
      /\ pc' = [pc EXCEPT ![c] = pc'[c]] /\ pc'[c] \in {"ready", "socket"}
  BY AfterDelTypes DEF deleteMemifSocket
<1>2. failed' \in 0..MaxFailed
  BY FaultCounts DEF TypeOK, deleteMemifSocket
<1>3. sockets' \in [Sockets -> Names \cup {None, Gone}]
  BY DEF TypeOK, deleteMemifSocket, SocketExists
<1>4. UNCHANGED <<want, info, proxy, proxies, ifindex, rxmode, watch, event, unwatched, granted, memifs, adminUp, linkUp, adaptive>>
  BY DEF deleteMemifSocket, goroutine
<1>5. pc' \in [Conns -> {"ready", "reply", "create", "delmemif", "delsocket", "socket",
                                "memif", "proxy", "rxmode", "up"}]
  BY <1>1 DEF TypeOK
<1>6. WantOK' /\ \A d \in Conns : want'[d] \in Wants(d)
  BY <1>4 DEF TypeOK, WantOK, Wants
<1> QED
  BY <1>1, <1>2, <1>3, <1>4, <1>5, <1>6 DEF TypeOK

(* createMemifSocket keeps the types. *)
LEMMA createMemifSocketTypes ==
    ASSUME TypeOK, WantOK, UNCHANGED <<env, crashed>>, NEW c \in Conns, createMemifSocket(c)
    PROVE TypeOK' /\ WantOK'
<1>1. failed' \in 0..MaxFailed
  BY FaultCounts DEF TypeOK, createMemifSocket, CallFails
<1>2. want[c].name \in Names
  BY DEF WantOK
<1>3. /\ sockets' \in [Sockets -> Names \cup {None, Gone}]
      /\ socket' \in [Conns -> SocketOf \cup {NoSocket}]
  <2>1. CASE UNCHANGED <<sockets, socket>>
    BY <2>1 DEF TypeOK
  <2>2. CASE \E s \in FreeSockets :
                /\ sockets' = [sockets EXCEPT ![s] = want[c].name]
                /\ socket' = [socket EXCEPT ![c] = [id |-> s, name |-> want[c].name]]
    BY <1>2, <2>2 DEF TypeOK, FreeSockets, SocketOf
  <2> QED
    BY <2>1, <2>2 DEF createMemifSocket
<1>4. /\ UNCHANGED <<want, info, proxy, proxies, ifindex, rxmode, watch, event, unwatched, known, granted, memifs, adminUp, linkUp, adaptive>>
      /\ closing' \in [Conns -> {"no", "undo", "close"}]
      /\ pc' \in [Conns -> {"ready", "reply", "create", "delmemif", "delsocket", "socket",
                                "memif", "proxy", "rxmode", "up"}]
  BY DEF createMemifSocket, Undo, Goto, goroutine, TypeOK
<1> QED
  BY <1>1, <1>3, <1>4 DEF TypeOK, WantOK, Wants

(* createMemif keeps the types. *)
LEMMA createMemifTypes == ASSUME TypeOK, WantOK, UNCHANGED <<env, crashed>>, NEW c \in Conns, createMemif(c)
                          PROVE TypeOK' /\ WantOK'
<1>1. failed' \in 0..MaxFailed
  BY FaultCounts DEF TypeOK, createMemif, CallFails
<1>2. memifs' \in [Ifs -> Sockets \cup {None}] /\ ifindex' \in [Conns -> Ifs \cup {None}]
  <2>1. CASE UNCHANGED <<memifs, ifindex>>
    BY <2>1 DEF TypeOK
  <2>2. CASE /\ SocketExists(socket[c].id)
             /\ \E i \in FreeIfs : /\ memifs' = [memifs EXCEPT ![i] = socket[c].id]
                                    /\ ifindex' = [ifindex EXCEPT ![c] = i]
    BY <2>2 DEF TypeOK, SocketExists, FreeIfs
  <2> QED
    BY <2>1, <2>2 DEF createMemif
<1>3. /\ UNCHANGED <<want, info, proxy, proxies, socket, rxmode, watch, event, known, granted, sockets, adminUp, linkUp, adaptive>>
      /\ unwatched' \subseteq Conns
      /\ closing' \in [Conns -> {"no", "undo", "close"}]
      /\ pc' \in [Conns -> {"ready", "reply", "create", "delmemif", "delsocket", "socket",
                                "memif", "proxy", "rxmode", "up"}]
  BY DEF createMemif, Undo, Goto, goroutine, TypeOK
<1> QED
  BY <1>1, <1>2, <1>3 DEF TypeOK, WantOK, Wants

(* The proxies of a connection after a start, and after a cancel. *)
LEMMA StartTypes == ASSUME TypeOK, NEW c \in Conns, FreeSlots(c) # {}, Start(c)
                    PROVE \E k \in Slots :
                            /\ k \in env.slots /\ proxies[c][k].at = "ended"
                            /\ proxy' = [proxy EXCEPT ![c] = k]
                            /\ proxies' = [proxies EXCEPT ![c] = [proxies[c] EXCEPT ![k] =
                                             [target |-> info[c], done |-> FALSE, listening |-> TRUE,
                                              at |-> "accept", pipes |-> 0]]]
<1> DEFINE k == CHOOSE s \in FreeSlots(c) : TRUE
<1>1. k \in FreeSlots(c)
  OBVIOUS
<1>2. k \in env.slots /\ k \in Slots /\ proxies[c][k].at = "ended"
  BY <1>1, MemifAssumption DEF FreeSlots, TypeOK
<1>3. /\ proxy' = [proxy EXCEPT ![c] = k]
      /\ proxies' = [proxies EXCEPT ![c] = [proxies[c] EXCEPT ![k] =
                                             [target |-> info[c], done |-> FALSE, listening |-> TRUE,
                                              at |-> "accept", pipes |-> 0]]]
  BY DEF Start, TypeOK
<1> QED
  BY <1>2, <1>3

(* cancelProxy keeps the types. *)
LEMMA CancelTypes == ASSUME TypeOK, NEW c \in Conns, cancelProxy(c)
                     PROVE /\ proxy' = [proxy EXCEPT ![c] = None]
                           /\ proxies' \in [Conns -> [Slots -> [target : Names \cup {None}, done : BOOLEAN, listening : BOOLEAN,
                                              at : {"accept", "dial", "ended"}, pipes : 0..MaxPipes]]]
                           /\ \A d \in Conns, k \in Slots : ~(d = c /\ k = proxy[c]) => proxies'[d][k] = proxies[d][k]
                           /\ \A k \in Slots : k = proxy[c] =>
                                 /\ proxies[c][k] = NoProxy => proxies'[c][k] = NoProxy
                                 /\ proxies'[c][k].at = proxies[c][k].at /\ proxies'[c][k].pipes = proxies[c][k].pipes
                                 /\ proxies'[c][k].done
<1> DEFINE R == [target : Names \cup {None}, done : BOOLEAN, listening : BOOLEAN,
                  at : {"accept", "dial", "ended"}, pipes : 0..MaxPipes]
           f == [k \in Slots |-> IF k = proxy[c] THEN [proxies[c][k] EXCEPT !.done = TRUE] ELSE proxies[c][k]]
<1>1. proxies \in [Conns -> [Slots -> R]] /\ proxy' = [proxy EXCEPT ![c] = None]
  BY DEF TypeOK, cancelProxy
<1>2. proxies' = [proxies EXCEPT ![c] = f]
  BY <1>1 DEF cancelProxy
<1>3. \A k \in Slots : [proxies[c][k] EXCEPT !.done = TRUE] \in R
  <2> TAKE k \in Slots
  <2>1. proxies[c][k] \in R
    BY <1>1
  <2> QED
    BY <2>1
<1>4. f \in [Slots -> R]
  <2>1. \A k \in Slots : proxies[c][k] \in R
    BY <1>1
  <2> HIDE DEF R
  <2> QED
    BY <1>3, <2>1
<1> HIDE DEF R
<1>5. proxies' \in [Conns -> [Slots -> R]]
  <2> HIDE DEF f
  <2> QED
    BY <1>1, <1>2, <1>4
<1>6. \A d \in Conns, k \in Slots : proxies'[d][k] =
                 IF d = c /\ k = proxy[c] THEN [proxies[c][k] EXCEPT !.done = TRUE] ELSE proxies[d][k]
  <2>1. \A d \in Conns : proxies'[d] = IF d = c THEN f ELSE proxies[d]
    <3> HIDE DEF f
    <3> QED
      BY <1>1, <1>2
  <2> QED
    BY <2>1
<1>7. \A k \in Slots : k = proxy[c] =>
         /\ proxies[c][k] = NoProxy => proxies'[c][k] = NoProxy
         /\ proxies'[c][k].at = proxies[c][k].at /\ proxies'[c][k].pipes = proxies[c][k].pipes
         /\ proxies'[c][k].done
  <2> SUFFICES ASSUME NEW k \in Slots, k = proxy[c]
               PROVE  /\ proxies[c][k] = NoProxy => proxies'[c][k] = NoProxy
                      /\ proxies'[c][k].at = proxies[c][k].at /\ proxies'[c][k].pipes = proxies[c][k].pipes
                      /\ proxies'[c][k].done
    OBVIOUS
  <2>1. proxies[c][k] \in R /\ proxies'[c][k] = [proxies[c][k] EXCEPT !.done = TRUE]
    BY <1>1, <1>6
  <2> QED
    <3>1. /\ proxies'[c][k].at = proxies[c][k].at /\ proxies'[c][k].pipes = proxies[c][k].pipes
          /\ proxies'[c][k].done
      BY <2>1 DEF R
    <3>2. /\ proxies'[c][k].target = proxies[c][k].target /\ proxies'[c][k].listening = proxies[c][k].listening
          /\ proxies'[c][k] \in R
      BY <2>1 DEF R
    <3>3. ASSUME proxies[c][k] = NoProxy PROVE proxies'[c][k] = NoProxy
      <4>1. \A r \in R : r.target = None /\ r.done = TRUE /\ r.listening = FALSE /\ r.at = "ended" /\ r.pipes = 0
                             => r = NoProxy
        BY DEF R, NoProxy
      <4>2. /\ proxies'[c][k].target = None /\ proxies'[c][k].listening = FALSE
            /\ proxies'[c][k].at = "ended" /\ proxies'[c][k].pipes = 0
        BY <3>1, <3>2, <3>3 DEF NoProxy
      <4>3. proxies'[c][k].done = TRUE
        BY <2>1 DEF R
      <4> QED
        BY <3>2, <4>1, <4>2, <4>3
    <3> QED
      BY <3>1, <3>3
<1>8. \A d \in Conns, k \in Slots : ~(d = c /\ k = proxy[c]) => proxies'[d][k] = proxies[d][k]
  BY <1>6
<1> QED
  BY <1>1, <1>5, <1>7, <1>8 DEF R
(* StartProxy keeps the types. *)
LEMMA StartProxyTypes == ASSUME TypeOK, WantOK, UNCHANGED <<env, crashed>>, NEW c \in Conns, StartProxy(c)
                         PROVE TypeOK' /\ WantOK'
<1>1. failed' \in 0..MaxFailed
  BY FaultCounts DEF TypeOK, StartProxy, CallFails
<1>2. /\ proxy' \in [Conns -> Slots \cup {None}]
      /\ proxies' \in [Conns -> [Slots -> [target : Names \cup {None}, done : BOOLEAN, listening : BOOLEAN,
                                              at : {"accept", "dial", "ended"}, pipes : 0..MaxPipes]]]
  <2>1. CASE UNCHANGED <<proxy, proxies>>
    BY <2>1 DEF TypeOK
  <2>2. CASE FreeSlots(c) # {} /\ Start(c)
    <3>1. PICK k \in Slots :
             /\ proxy' = [proxy EXCEPT ![c] = k]
             /\ proxies' = [proxies EXCEPT ![c] = [proxies[c] EXCEPT ![k] =
                              [target |-> info[c], done |-> FALSE, listening |-> TRUE,
                               at |-> "accept", pipes |-> 0]]]
      BY <2>2, StartTypes
    <3>2. [target |-> info[c], done |-> FALSE, listening |-> TRUE, at |-> "accept", pipes |-> 0] \in ProxyRecord
      BY MemifAssumption DEF TypeOK, ProxyRecord
    <3>3. proxies \in [Conns -> [Slots -> ProxyRecord]] /\ proxy \in [Conns -> Slots \cup {None}]
      BY DEF TypeOK, ProxyRecord
    <3>4. proxies' \in [Conns -> [Slots -> ProxyRecord]] /\ proxy' \in [Conns -> Slots \cup {None}]
      BY <3>1, <3>2, <3>3
    <3> QED
      BY <3>4 DEF ProxyRecord
  <2> QED
    BY <2>1, <2>2 DEF StartProxy
<1>3. /\ UNCHANGED <<want, info, ifindex, socket, rxmode, watch, event, unwatched, known, granted>>
      /\ UNCHANGED <<sockets, memifs, adminUp, linkUp, adaptive>>
      /\ closing' \in [Conns -> {"no", "undo", "close"}]
      /\ pc' \in [Conns -> {"ready", "reply", "create", "delmemif", "delsocket", "socket",
                                "memif", "proxy", "rxmode", "up"}]
  BY DEF StartProxy, Undo, Goto, goroutine, vpp, TypeOK
<1> QED
  BY <1>1, <1>2, <1>3 DEF TypeOK, WantOK, Wants

(* setRxMode keeps the types. *)
LEMMA setRxModeTypes == ASSUME TypeOK, WantOK, UNCHANGED <<env, crashed>>, NEW c \in Conns, setRxMode(c)
                        PROVE TypeOK' /\ WantOK'
<1>1. failed' \in 0..MaxFailed
  BY FaultCounts DEF TypeOK, setRxMode
<1>2. /\ proxy' \in [Conns -> Slots \cup {None}]
      /\ proxies' \in [Conns -> [Slots -> [target : Names \cup {None}, done : BOOLEAN, listening : BOOLEAN,
                                              at : {"accept", "dial", "ended"}, pipes : 0..MaxPipes]]]
  <2>1. CASE UNCHANGED <<proxy, proxies>>
    BY <2>1 DEF TypeOK
  <2>2. CASE cancelProxy(c)
    BY <2>2, CancelTypes DEF TypeOK
  <2> QED
    BY <2>1, <2>2 DEF setRxMode
<1>3. /\ UNCHANGED <<want, info, ifindex, socket, unwatched, known, granted, sockets, memifs, adminUp, linkUp, adaptive>>
      /\ rxmode' \in [Conns -> BOOLEAN]
      /\ watch' \in [Conns -> Ifs \cup {0, None}]
      /\ event' \in [Conns -> BOOLEAN]
      /\ closing' \in [Conns -> {"no", "undo", "close"}]
      /\ pc' \in [Conns -> {"ready", "reply", "create", "delmemif", "delsocket", "socket",
                                "memif", "proxy", "rxmode", "up"}]
  BY DEF setRxMode, Undo, Goto, vpp, TypeOK
<1> QED
  BY <1>1, <1>2, <1>3 DEF TypeOK, WantOK, Wants

(* Setting the interface up keeps the types. *)
LEMMA UpTypes == ASSUME TypeOK, WantOK, UNCHANGED <<env, crashed>>, NEW c \in Conns, Up(c)
                 PROVE TypeOK' /\ WantOK'
<1>1. failed' \in 0..MaxFailed
  BY FaultCounts DEF TypeOK, Up
<1>2. /\ proxy' \in [Conns -> Slots \cup {None}]
      /\ proxies' \in [Conns -> [Slots -> [target : Names \cup {None}, done : BOOLEAN, listening : BOOLEAN,
                                              at : {"accept", "dial", "ended"}, pipes : 0..MaxPipes]]]
  <2>1. CASE UNCHANGED <<proxy, proxies>>
    BY <2>1 DEF TypeOK
  <2>2. CASE cancelProxy(c)
    BY <2>2, CancelTypes DEF TypeOK
  <2> QED
    BY <2>1, <2>2 DEF Up
<1>3. /\ UNCHANGED <<want, info, ifindex, socket, sockets, memifs, linkUp, adaptive>>
      /\ unwatched' \subseteq Conns
      /\ rxmode' \in [Conns -> BOOLEAN]
      /\ watch' \in [Conns -> Ifs \cup {0, None}]
      /\ event' \in [Conns -> BOOLEAN]
  BY DEF Up, cancel, goroutine, TypeOK
<1>4. adminUp' \subseteq Ifs
  <2>1. ifindex[c] \in Ifs \cup {None} /\ adminUp \subseteq Ifs
    BY DEF TypeOK
  <2> QED
    BY <2>1 DEF Up
<1>5. /\ known' \in [Conns -> BOOLEAN] /\ granted' \in [Conns -> BOOLEAN]
      /\ closing' \in [Conns -> {"no", "undo", "close"}]
      /\ pc' \in [Conns -> {"ready", "reply", "create", "delmemif", "delsocket", "socket",
                                "memif", "proxy", "rxmode", "up"}]
  BY DEF Up, Undo, Goto, TypeOK
<1> QED
  BY <1>1, <1>2, <1>3, <1>4, <1>5 DEF TypeOK, WantOK, Wants

(* A link that comes up keeps the types. *)
LEMMA LinkUpTypes == ASSUME TypeOK, WantOK, UNCHANGED <<env, crashed>>, NEW i \in Ifs, LinkUp(i)
                     PROVE TypeOK' /\ WantOK'
BY DEF TypeOK, WantOK, Wants, LinkUp, elements

(* The goroutine of memifrxmode keeps the types. *)
LEMMA GoroutineTypes == ASSUME TypeOK, WantOK, UNCHANGED <<env, crashed>>, NEW c \in Conns, Goroutine(c),
                               watch[c] \in Ifs
                        PROVE TypeOK' /\ WantOK'
<1>1. failed' \in 0..MaxFailed
  BY FaultCounts DEF TypeOK, Goroutine
<1> QED
  BY <1>1 DEF TypeOK, WantOK, Wants, Goroutine, elements

(* A close that begins keeps the types. *)
LEMMA CloseTypes == ASSUME TypeOK, WantOK, UNCHANGED <<env, crashed>>, NEW c \in Conns, Close(c)
                    PROVE TypeOK' /\ WantOK'
<1>1. /\ proxy' \in [Conns -> Slots \cup {None}]
      /\ proxies' \in [Conns -> [Slots -> [target : Names \cup {None}, done : BOOLEAN, listening : BOOLEAN,
                                              at : {"accept", "dial", "ended"}, pipes : 0..MaxPipes]]]
  BY CancelTypes DEF TypeOK, Close
<1>2. /\ UNCHANGED <<want, info, ifindex, socket, known, sockets, memifs, adminUp, linkUp, adaptive, failed>>
      /\ rxmode' \in [Conns -> BOOLEAN]
      /\ watch' \in [Conns -> Ifs \cup {0, None}]
      /\ event' \in [Conns -> BOOLEAN]
      /\ unwatched' \subseteq Conns
      /\ granted' \in [Conns -> BOOLEAN]
      /\ closing' \in [Conns -> {"no", "undo", "close"}]
      /\ pc' \in [Conns -> {"ready", "reply", "create", "delmemif", "delsocket", "socket",
                                "memif", "proxy", "rxmode", "up"}]
  BY DEF Close, cancel, Goto, vpp, TypeOK
<1> QED
  BY <1>1, <1>2 DEF TypeOK, WantOK, Wants

(* A step of a proxy changes this proxy only. *)
LEMMA ProxySteps ==
    ASSUME TypeOK, ProxyInv, NEW c \in Conns, NEW k \in Slots, Proxy(c, k)
    PROVE \E r \in ProxyRecord :
            /\ proxies' = [proxies EXCEPT ![c] = [proxies[c] EXCEPT ![k] = r]]
            /\ r.target = proxies[c][k].target \/ r = NoProxy
            /\ r.done = proxies[c][k].done \/ r = NoProxy
            /\ r.at = "ended" => r = NoProxy
            /\ r.at = "dial" => r.pipes < env.pipes
            /\ "dial" \notin Faults /\ proxies[c][k].listening /\ ~proxies[c][k].done => r # NoProxy /\ r.listening
<1> DEFINE q == proxies[c][k]
<1>1. /\ q \in ProxyRecord /\ env.pipes \in 0..MaxPipes /\ MaxPipes \in Nat /\ NoProxy \in ProxyRecord
      /\ proxies \in [Conns -> [Slots -> ProxyRecord]]
  BY MemifAssumption DEF TypeOK, ProxyRecord, NoProxy
<1>2. q.at = "ended" => q = NoProxy
  BY DEF ProxyInv, ProxyOK
<1>3. q.at = "dial" => q.pipes < env.pipes
  BY DEF ProxyInv, ProxyOK
<1> DEFINE P(r) == proxies' = [proxies EXCEPT ![c] = [proxies[c] EXCEPT ![k] = r]]
<1>4. CASE q.done /\ q.listening /\ proxies' = [proxies EXCEPT ![c][k].listening = FALSE]
  <2>1. P([q EXCEPT !.listening = FALSE]) /\ [q EXCEPT !.listening = FALSE] \in ProxyRecord
    BY <1>1, <1>4 DEF ProxyRecord
  <2>2. q.at # "ended"
    BY <1>2, <1>4 DEF NoProxy
  <2> QED
    BY <1>1, <1>3, <1>4, <2>1, <2>2 DEF ProxyRecord
<1>5. CASE q.at = "accept" /\ q.pipes < env.pipes /\ q.listening /\ proxies' = [proxies EXCEPT ![c][k].at = "dial"]
  <2>1. P([q EXCEPT !.at = "dial"]) /\ [q EXCEPT !.at = "dial"] \in ProxyRecord
    BY <1>1, <1>5 DEF ProxyRecord
  <2> QED
    BY <1>1, <1>5, <2>1 DEF ProxyRecord, NoProxy
<1>6. CASE UNCHANGED proxies
  <2>1. P(q)
    BY <1>1, <1>6
  <2>2. q.listening => q # NoProxy
    BY DEF NoProxy
  <2> QED
    BY <1>1, <1>2, <1>3, <2>1, <2>2
<1>7. CASE /\ ~q.listening \/ "dial" \in Faults
           /\ proxyClose(c, k)
  <2>1. P(NoProxy)
    BY <1>1, <1>7 DEF proxyClose
  <2> QED
    BY <1>1, <1>7, <2>1 DEF NoProxy
<1>8. CASE q.at = "dial" /\ newProxyConnection(c, k)
  <2> DEFINE r == [q EXCEPT !.at = "accept", !.pipes = @ + 1]
  <2>1. P(r)
    BY <1>1, <1>8 DEF newProxyConnection
  <2>2. q.pipes \in 0..MaxPipes /\ q.pipes + 1 \in 0..MaxPipes
    BY <1>1, <1>3, <1>8 DEF ProxyRecord
  <2>3. r \in ProxyRecord
    BY <1>1, <2>2 DEF ProxyRecord
  <2>4. r.target = q.target /\ r.done = q.done /\ r.at = "accept" /\ r.listening = q.listening
    BY <1>1 DEF ProxyRecord
  <2>5. r # NoProxy
    BY <2>4 DEF NoProxy
  <2> HIDE DEF r, q
  <2> QED
    BY <2>1, <2>3, <2>4, <2>5 DEF q
<1> QED
  BY <1>4, <1>5, <1>6, <1>7, <1>8 DEF Proxy, accept, dial, ListenerClose, Fault

(* A step of a proxy keeps the types. *)
LEMMA ProxyTypes == ASSUME TypeOK, WantOK, ProxyInv, UNCHANGED env, NEW c \in Conns, NEW k \in Slots, Proxy(c, k)
                    PROVE TypeOK' /\ WantOK'
<1>1. failed' \in 0..MaxFailed /\ crashed' \in BOOLEAN
  BY FaultCounts DEF TypeOK, Proxy, accept, dial
<1>2. proxies' \in [Conns -> [Slots -> ProxyRecord]]
  <2>1. proxies \in [Conns -> [Slots -> ProxyRecord]]
    BY DEF TypeOK, ProxyRecord
  <2> QED
    BY <2>1, ProxySteps
<1>3. UNCHANGED <<want, info, proxy, ifindex, socket, rxmode, watch, event, unwatched, known, granted, closing, sockets, memifs,
                  adminUp, linkUp, adaptive, pc>>
  BY DEF Proxy, goroutine, vpp
<1> QED
  BY <1>1, <1>2, <1>3 DEF TypeOK, WantOK, Wants, ProxyRecord
-----------------------------------------------------------------------------
(* What VPP has *)

(* The ids and names of a socket that is remembered. *)
LEMMA SocketType == ASSUME TypeOK, NEW c \in Conns
                    PROVE /\ socket[c] = NoSocket \/ (socket[c].id \in Sockets /\ socket[c].name \in Names)
                          /\ NoSocket.id = None /\ None \notin Sockets
                          /\ socket[c] # NoSocket <=> socket[c].id # None
BY MemifAssumption DEF TypeOK, SocketOf, NoSocket

(* What AfterDel does to its connection and to no other. *)
LEMMA AfterDelFields ==
    ASSUME TypeOK, NEW c \in Conns, AfterDel(c, socket[c])
    PROVE /\ \A d \in Conns \ {c} : /\ socket'[d] = socket[d] /\ known'[d] = known[d]
                                    /\ closing'[d] = closing[d] /\ pc'[d] = pc[d]
          /\ socket'[c] \in {socket[c], NoSocket}
          /\ closing[c] = "no" => /\ socket'[c] = socket[c] /\ known'[c] = known[c]
                                  /\ closing'[c] = "no" /\ pc'[c] = "socket"
          /\ closing[c] # "no" => /\ known'[c] = (closing[c] = "undo" /\ known[c])
                                  /\ closing'[c] = "no" /\ pc'[c] = "ready"
BY DEF TypeOK, AfterDel, Goto

(* deleteMemif keeps VPP as it is remembered. *)
LEMMA deleteMemifVpp == ASSUME TypeOK, VppInv, UNCHANGED env, NEW c \in Conns, deleteMemif(c)
                        PROVE VppInv'
<1> USE MemifAssumption
<1>1. /\ \A d \in Conns : ifindex'[d] = IF d = c THEN None ELSE ifindex[d]
      /\ sockets' = sockets /\ Reuse' = Reuse
  BY DEF TypeOK, deleteMemif, Reuse
<1>2. /\ \A d \in Conns \ {c} : socket'[d] = socket[d]
      /\ socket'[c] \in {socket[c], NoSocket}
  BY AfterDelFields DEF deleteMemif
<1>3. /\ \A i \in Ifs : memifs'[i] \in {memifs[i], None}
      /\ \A i \in Ifs : memifs'[i] # memifs[i] => i = ifindex[c]
  BY DEF TypeOK, deleteMemif
<1>4. OnSocket'
  BY <1>1, <1>3 DEF VppInv, OnSocket, SocketExists
<1>5. Owned' /\ OwnMemif'
  BY <1>1, <1>2, <1>3 DEF TypeOK, VppInv, Owned, OwnMemif
<1>6. Fresh'
  BY DEF TypeOK, deleteMemif, VppInv, Fresh
<1>7. Named'
  BY <1>1, <1>2 DEF VppInv, Named
<1> QED
  BY <1>4, <1>5, <1>6, <1>7 DEF VppInv

(* deleteMemifSocket keeps VPP as it is remembered. *)
LEMMA deleteMemifSocketVpp ==
    ASSUME TypeOK, VppInv, UNCHANGED env, NEW c \in Conns, ifindex[c] = None, deleteMemifSocket(c)
    PROVE VppInv'
<1> USE MemifAssumption
<1> DEFINE s == socket[c].id
<1>1. /\ UNCHANGED <<ifindex, memifs, adminUp, linkUp, adaptive>> /\ Reuse' = Reuse
      /\ \/ sockets' = sockets
         \/ /\ SocketExists(s) /\ \A i \in Ifs : memifs[i] # s
            /\ sockets' = [sockets EXCEPT ![s] = IF Reuse THEN None ELSE Gone]
  BY DEF deleteMemifSocket, Reuse
<1>2. /\ \A d \in Conns \ {c} : socket'[d] = socket[d]
      /\ socket'[c] \in {socket[c], NoSocket}
  BY AfterDelFields DEF deleteMemifSocket
<1>3. \A t \in Sockets : sockets'[t] = sockets[t] \/ (sockets'[t] = (IF Reuse THEN None ELSE Gone) /\ \A i \in Ifs : memifs[i] # t)
  BY <1>1 DEF TypeOK
<1>4. OnSocket'
  BY <1>1, <1>3 DEF VppInv, OnSocket, SocketExists
<1>5. Owned' /\ OwnMemif'
  BY <1>1, <1>2 DEF VppInv, Owned, OwnMemif
<1>6. Fresh'
  BY <1>1 DEF VppInv, Fresh
<1>7. Named'
  <2> SUFFICES ASSUME ~Reuse, NEW d \in Conns, socket'[d] # NoSocket
               PROVE  sockets'[socket'[d].id] \in {socket'[d].name, Gone}
    BY <1>1 DEF Named
  <2>1. socket'[d] = socket[d] /\ socket[d].id \in Sockets
    BY <1>2, SocketType
  <2> QED
    BY <1>3, <2>1 DEF VppInv, Named
<1> QED
  BY <1>4, <1>5, <1>6, <1>7 DEF VppInv

(* createMemifSocket keeps VPP as it is remembered. *)
LEMMA createMemifSocketVpp ==
    ASSUME TypeOK, WantOK, VppInv, UNCHANGED env, NEW c \in Conns, ifindex[c] = None, createMemifSocket(c)
    PROVE VppInv'
<1> USE MemifAssumption
<1>1. UNCHANGED <<ifindex, memifs, adminUp, linkUp, adaptive>> /\ Reuse' = Reuse
  BY DEF createMemifSocket, Reuse
<1>2. CASE UNCHANGED <<sockets, socket>>
  BY <1>1, <1>2 DEF VppInv, OnSocket, Owned, OwnMemif, Fresh, Named, SocketExists
<1>3. ASSUME NEW s \in FreeSockets,
             sockets' = [sockets EXCEPT ![s] = want[c].name],
             socket' = [socket EXCEPT ![c] = [id |-> s, name |-> want[c].name]]
      PROVE  VppInv'
  <2>1. s \in Sockets /\ sockets[s] = None /\ want[c].name \in Names
    BY DEF FreeSockets, WantOK
  <2>2. /\ \A t \in Sockets : sockets'[t] = IF t = s THEN want[c].name ELSE sockets[t]
        /\ \A d \in Conns \ {c} : socket'[d] = socket[d]
        /\ socket'[c] = [id |-> s, name |-> want[c].name]
    BY <1>3, <2>1 DEF TypeOK
  <2>3. OnSocket'
    BY <1>1, <2>1, <2>2 DEF VppInv, OnSocket, SocketExists
  <2>4. Owned' /\ OwnMemif'
    BY <1>1, <2>2 DEF VppInv, Owned, OwnMemif
  <2>5. Fresh'
    BY <1>1 DEF VppInv, Fresh
  <2>6. Named'
    <3> SUFFICES ASSUME ~Reuse, NEW d \in Conns, socket'[d] # NoSocket
                 PROVE  sockets'[socket'[d].id] \in {socket'[d].name, Gone}
      BY <1>1 DEF Named
    <3>1. CASE d = c
      BY <2>1, <2>2, <3>1
    <3>2. CASE d # c
      <4>1. socket'[d] = socket[d] /\ socket[d].id \in Sockets /\ socket[d].name \in Names
        BY <2>2, <3>2, SocketType
      <4>2. sockets[socket[d].id] \in {socket[d].name, Gone}
        BY <4>1 DEF VppInv, Named
      <4>3. socket[d].id # s
        BY <2>1, <4>1, <4>2
      <4> QED
        BY <2>2, <4>1, <4>2, <4>3
    <3> QED
      BY <3>1, <3>2
  <2> QED
    BY <2>3, <2>4, <2>5, <2>6 DEF VppInv
<1> QED
  BY <1>2, <1>3 DEF createMemifSocket

(* createMemif keeps VPP as it is remembered. *)
LEMMA createMemifVpp ==
    ASSUME TypeOK, VppInv, UNCHANGED env, NEW c \in Conns, ifindex[c] = None, createMemif(c)
    PROVE VppInv'
<1> USE MemifAssumption
<1>1. UNCHANGED <<socket, sockets, adminUp, linkUp, adaptive>> /\ Reuse' = Reuse
  BY DEF createMemif, Reuse
<1>2. CASE UNCHANGED <<memifs, ifindex>>
  BY <1>1, <1>2 DEF VppInv, OnSocket, Owned, OwnMemif, Fresh, Named, SocketExists
<1>3. ASSUME NEW i \in FreeIfs, SocketExists(socket[c].id),
             memifs' = [memifs EXCEPT ![i] = socket[c].id],
             ifindex' = [ifindex EXCEPT ![c] = i]
      PROVE  VppInv'
  <2>1. i \in Ifs /\ memifs[i] = None /\ socket[c].id \in Sockets /\ socket[c] # NoSocket
    BY <1>3, SocketType DEF FreeIfs, SocketExists
  <2>2. /\ \A j \in Ifs : memifs'[j] = IF j = i THEN socket[c].id ELSE memifs[j]
        /\ \A d \in Conns : ifindex'[d] = IF d = c THEN i ELSE ifindex[d]
    BY <1>3, <2>1 DEF TypeOK
  <2>3. \A d \in Conns : ifindex[d] # i
    BY <2>1, SocketType DEF VppInv, Owned
  <2>4. OnSocket'
    BY <1>1, <1>3, <2>1, <2>2 DEF VppInv, OnSocket, SocketExists
  <2>5. Owned' /\ OwnMemif'
    <3>1. \A d \in Conns : ifindex[d] # None => ifindex[d] \in Ifs
      BY DEF TypeOK
    <3>2. Owned'
      BY <1>1, <2>1, <2>2, <2>3, <3>1 DEF VppInv, Owned
    <3>3. OwnMemif'
      BY <2>2, <2>3 DEF VppInv, OwnMemif
    <3> QED
      BY <3>2, <3>3
  <2>6. Fresh'
    BY <1>1, <2>1, <2>2 DEF VppInv, Fresh
  <2>7. Named'
    BY <1>1 DEF VppInv, Named
  <2> QED
    BY <2>4, <2>5, <2>6, <2>7 DEF VppInv
<1> QED
  BY <1>2, <1>3 DEF createMemif

(* Setting the interface up keeps VPP as it is remembered. *)
LEMMA UpVpp == ASSUME TypeOK, VppInv, UNCHANGED env, NEW c \in Conns, Up(c)
               PROVE VppInv'
<1>1. UNCHANGED <<socket, sockets, memifs, ifindex, linkUp, adaptive>> /\ Reuse' = Reuse
  BY DEF Up, Reuse
<1>2. ifindex[c] # None => memifs[ifindex[c]] # None
  BY SocketType DEF VppInv, Owned
<1>3. Fresh'
  BY <1>1, <1>2 DEF Up, VppInv, Fresh
<1> QED
  BY <1>1, <1>3 DEF VppInv, OnSocket, Owned, OwnMemif, Named, SocketExists

(* A link that comes up keeps VPP as it is remembered. *)
LEMMA LinkUpVpp == ASSUME TypeOK, VppInv, UNCHANGED env, NEW i \in Ifs, LinkUp(i)
                   PROVE VppInv'
<1>1. UNCHANGED <<socket, sockets, memifs, ifindex, adminUp, adaptive>> /\ Reuse' = Reuse
  BY DEF LinkUp, Reuse, elements
<1>2. Fresh'
  BY <1>1 DEF LinkUp, VppInv, Fresh
<1> QED
  BY <1>1, <1>2 DEF VppInv, OnSocket, Owned, OwnMemif, Named, SocketExists

(* The goroutine of memifrxmode keeps VPP as it is remembered. *)
LEMMA GoroutineVpp == ASSUME TypeOK, VppInv, UNCHANGED env, NEW c \in Conns, Goroutine(c)
                      PROVE VppInv'
<1>1. UNCHANGED <<socket, sockets, memifs, ifindex, adminUp, linkUp>> /\ Reuse' = Reuse
  BY DEF Goroutine, Reuse, elements
<1>2. Fresh'
  BY <1>1 DEF Goroutine, VppInv, Fresh
<1> QED
  BY <1>1, <1>2 DEF VppInv, OnSocket, Owned, OwnMemif, Named, SocketExists

(* The other steps change nothing of this. *)
LEMMA SameVpp == ASSUME VppInv, UNCHANGED <<env, socket, sockets, memifs, ifindex, adminUp, linkUp, adaptive>>
                 PROVE VppInv'
BY DEF VppInv, OnSocket, Owned, OwnMemif, Fresh, Named, SocketExists, Reuse
-----------------------------------------------------------------------------
(* The sockets that are lost are counted by the failures. *)

(* No new socket is lost. *)
LEMMA LostShrinks == ASSUME TypeOK, LostAreFailures, Lost' \subseteq Lost, failed' \in {failed, failed + 1}
                     PROVE LostAreFailures'
<1>1. IsFiniteSet(Lost)
  BY MemifAssumption, FS_Subset DEF Lost
<1>2. Cardinality(Lost') <= Cardinality(Lost) /\ Cardinality(Lost') \in Nat /\ Cardinality(Lost) \in Nat
  BY <1>1, FS_Subset, FS_CardinalityType
<1> QED
  BY <1>2, MemifAssumption DEF TypeOK, LostAreFailures

(* A set with one more member has at most one more. *)
LEMMA OneMore == ASSUME NEW S \in SUBSET Sockets, NEW T, NEW s, T \subseteq S \cup {s}
                 PROVE /\ Cardinality(S) \in Nat /\ Cardinality(T) \in Nat
                       /\ Cardinality(T) <= Cardinality(S) + 1
<1>1. IsFiniteSet(S) /\ Cardinality(S) \in Nat
  BY MemifAssumption, FS_Subset, FS_CardinalityType
<1>2. /\ IsFiniteSet(S \cup {s}) /\ Cardinality(S \cup {s}) \in Nat
      /\ Cardinality(S \cup {s}) = Cardinality(S) \/ Cardinality(S \cup {s}) = Cardinality(S) + 1
  BY <1>1, FS_AddElement, FS_CardinalityType
<1>3. IsFiniteSet(T) /\ Cardinality(T) <= Cardinality(S \cup {s})
  BY <1>2, FS_Subset
<1>4. Cardinality(T) \in Nat
  BY <1>3, FS_CardinalityType
<1> QED
  BY <1>1, <1>2, <1>3, <1>4

(* One more socket is lost, by one more failure. *)
LEMMA LostGrows == ASSUME TypeOK, LostAreFailures, NEW s, Lost' \subseteq Lost \cup {s}, failed' = failed + 1
                   PROVE LostAreFailures'
<1>1. Lost \in SUBSET Sockets
  BY DEF Lost
<1>2. Cardinality(Lost) \in Nat /\ Cardinality(Lost') \in Nat /\ Cardinality(Lost') <= Cardinality(Lost) + 1
  BY <1>1, OneMore
<1> QED
  BY <1>2, MemifAssumption DEF TypeOK, LostAreFailures

(* A step that leaves the sockets and memifs alone, and takes no           *)
(* connection out of the places where it holds its socket without a memif. *)
LEMMA SameLost ==
    ASSUME UNCHANGED <<socket, sockets, memifs, ifindex>>,
           \A c \in Conns : ifindex[c] = None /\ pc[c] \in {"memif", "delmemif", "delsocket"} =>
                               pc'[c] \in {"memif", "delmemif", "delsocket"}
    PROVE Lost' \subseteq Lost
BY DEF Lost, Holds, Orphan, SocketExists

(* deleteMemif loses a socket only by a failure. *)
LEMMA deleteMemifLost == ASSUME TypeOK, VppInv, LostAreFailures, NEW c \in Conns, deleteMemif(c)
                         PROVE LostAreFailures'
<1> USE MemifAssumption
<1>1. /\ \A d \in Conns : ifindex'[d] = IF d = c THEN None ELSE ifindex[d]
      /\ sockets' = sockets /\ pc[c] = "delmemif"
  BY DEF TypeOK, deleteMemif
<1>2. CASE /\ memifs' = [i \in Ifs |-> IF i = ifindex[c] THEN None ELSE memifs[i]]
           /\ Goto(c, "delsocket")
           /\ UNCHANGED <<socket, failed>>
  <2>1. \A d \in Conns : pc'[d] = IF d = c THEN "delsocket" ELSE pc[d]
    BY <1>2 DEF TypeOK, Goto
  <2>2. \A d \in Conns, s \in Sockets : Holds(d, s) => Holds(d, s)'
    BY <1>1, <1>2, <2>1 DEF Holds
  <2>3. \A i \in Ifs : Orphan(i)' => Orphan(i) /\ memifs'[i] = memifs[i]
    BY <1>1, <1>2 DEF Orphan, TypeOK
  <2>4. Lost' \subseteq Lost
    BY <1>1, <2>2, <2>3 DEF Lost, SocketExists
  <2> QED
    BY <1>2, <2>4, LostShrinks
<1>3. CASE /\ ifindex[c] # None /\ failed' = failed + 1
           /\ AfterDel(c, socket[c]) /\ UNCHANGED memifs
  <2>1. /\ \A d \in Conns \ {c} : socket'[d] = socket[d] /\ pc'[d] = pc[d]
        /\ memifs[ifindex[c]] = socket[c].id
    BY <1>3, AfterDelFields DEF VppInv, Owned
  <2>2. \A d \in Conns, s \in Sockets : Holds(d, s) /\ s # socket[c].id => Holds(d, s)'
    BY <1>1, <1>3, <2>1 DEF Holds
  <2>3. \A i \in Ifs : Orphan(i)' => Orphan(i) \/ i = ifindex[c]
    BY <1>1, <1>3 DEF Orphan, TypeOK
  <2>4. Lost' \subseteq Lost \cup {socket[c].id}
    BY <1>1, <1>3, <2>1, <2>2, <2>3 DEF Lost, SocketExists
  <2> QED
    BY <1>3, <2>4, LostGrows
<1> QED
  BY <1>2, <1>3, FaultCounts DEF deleteMemif

(* deleteMemifSocket loses a socket only by a failure. *)
LEMMA deleteMemifSocketLost ==
    ASSUME TypeOK, VppInv, LostAreFailures, NEW c \in Conns, ifindex[c] = None, deleteMemifSocket(c)
    PROVE LostAreFailures'
<1> USE MemifAssumption
<1> DEFINE s == socket[c].id
<1>1. /\ UNCHANGED <<ifindex, memifs>>
      /\ \A d \in Conns \ {c} : socket'[d] = socket[d] /\ pc'[d] = pc[d]
  BY AfterDelFields DEF deleteMemifSocket
<1>2. \A d \in Conns, t \in Sockets : Holds(d, t) /\ t # s => Holds(d, t)'
  BY <1>1 DEF Holds
<1>3. \A i \in Ifs : Orphan(i)' => Orphan(i)
  BY <1>1 DEF Orphan
<1>4. CASE ~SocketExists(s) /\ UNCHANGED <<sockets, failed>>
  <2>1. Lost' \subseteq Lost
    BY <1>1, <1>2, <1>3, <1>4 DEF Lost, SocketExists
  <2> QED
    BY <1>4, <2>1, LostShrinks
<1>5. CASE (\E i \in Ifs : memifs[i] = s) /\ SocketExists(s) /\ UNCHANGED <<sockets, failed>>
  <2>1. PICK i \in Ifs : memifs[i] = s
    BY <1>5
  <2>2. CASE Orphan(i)
    BY <1>1, <1>2, <1>3, <1>5, <2>1, <2>2, LostShrinks DEF Lost, SocketExists
  <2>3. ASSUME NEW d \in Conns, ifindex[d] = i
        PROVE  LostAreFailures'
    <3>1. ifindex[d] # None /\ d # c
      BY <2>3
    <3>2. socket[d].id = s
      BY <2>1, <2>3, <3>1 DEF VppInv, Owned
    <3>3. \A t \in Sockets : t = s => Holds(d, t)'
      BY <1>1, <3>1, <3>2 DEF Holds
    <3>4. Lost' \subseteq Lost
      BY <1>1, <1>2, <1>3, <1>5, <3>3 DEF Lost, SocketExists
    <3> QED
      BY <1>5, <3>4, LostShrinks
  <2> QED
    BY <1>5, <2>1, <2>2, <2>3 DEF Orphan, SocketExists
<1>6. CASE SocketExists(s) /\ sockets' = [sockets EXCEPT ![s] = IF Reuse THEN None ELSE Gone] /\ UNCHANGED failed
  <2>1. \A t \in Sockets : SocketExists(t)' => SocketExists(t) /\ t # s
    BY <1>6 DEF SocketExists, TypeOK
  <2>2. Lost' \subseteq Lost
    BY <1>1, <1>2, <1>3, <2>1 DEF Lost
  <2> QED
    BY <1>6, <2>2, LostShrinks
<1>7. CASE UNCHANGED sockets /\ failed' = failed + 1
  <2>1. Lost' \subseteq Lost \cup {s}
    BY <1>1, <1>2, <1>3, <1>7 DEF Lost, SocketExists
  <2> QED
    BY <1>7, <2>1, LostGrows
<1> QED
  BY <1>4, <1>5, <1>6, <1>7, FaultCounts DEF deleteMemifSocket

(* createMemifSocket loses a socket only by a failure. *)
LEMMA createMemifSocketLost ==
    ASSUME TypeOK, WantOK, VppInv, LostAreFailures, NEW c \in Conns, ifindex[c] = None, createMemifSocket(c)
    PROVE LostAreFailures'
<1> USE MemifAssumption
<1>1. UNCHANGED <<ifindex, memifs>> /\ pc[c] = "socket"
  BY DEF createMemifSocket
<1>2. CASE UNCHANGED <<sockets, socket>> /\ CallFails(FreeSockets = {}) /\ Undo(c)
  <2>1. \A d \in Conns \ {c} : pc'[d] = pc[d]
    BY <1>2 DEF Undo, Goto, TypeOK
  <2>2. failed' \in {failed, failed + 1}
    BY <1>2, FaultCounts DEF CallFails
  <2> QED
    BY <1>1, <1>2, <2>1, <2>2, SameLost, LostShrinks
<1>3. ASSUME NEW s \in FreeSockets,
             sockets' = [sockets EXCEPT ![s] = want[c].name],
             socket' = [socket EXCEPT ![c] = [id |-> s, name |-> want[c].name]],
             Goto(c, "memif"), UNCHANGED failed
      PROVE  LostAreFailures'
  <2>1. s \in Sockets /\ sockets[s] = None
    BY DEF FreeSockets
  <2>2. /\ \A t \in Sockets : sockets'[t] = IF t = s THEN want[c].name ELSE sockets[t]
        /\ \A d \in Conns \ {c} : socket'[d] = socket[d] /\ pc'[d] = pc[d]
        /\ socket'[c].id = s /\ pc'[c] = "memif"
    BY <1>3, <2>1 DEF TypeOK, Goto
  <2>3. \A i \in Ifs : memifs[i] # s
    BY <2>1 DEF VppInv, OnSocket, SocketExists
  <2>4. Holds(c, s)'
    BY <2>2 DEF Holds
  <2>5. \A d \in Conns, t \in Sockets : Holds(d, t) => Holds(d, t)'
    BY <1>1, <2>2 DEF Holds
  <2>6. Lost' \subseteq Lost
    BY <1>1, <2>2, <2>3, <2>4, <2>5 DEF Lost, Orphan, SocketExists
  <2> QED
    BY <1>3, <2>6, LostShrinks
<1> QED
  BY <1>2, <1>3 DEF createMemifSocket

(* createMemif loses a socket only by a failure. *)
LEMMA createMemifLost ==
    ASSUME TypeOK, VppInv, LostAreFailures, NEW c \in Conns, ifindex[c] = None, createMemif(c)
    PROVE LostAreFailures'
<1> USE MemifAssumption
<1>1. UNCHANGED <<socket, sockets>> /\ pc[c] = "memif"
  BY DEF createMemif
<1>2. CASE /\ UNCHANGED <<memifs, ifindex>> /\ Undo(c)
           /\ CallFails(~SocketExists(socket[c].id) \/ FreeIfs = {})
  <2>1. /\ \A d \in Conns \ {c} : pc'[d] = pc[d]
        /\ pc'[c] = "delmemif"
    BY <1>2 DEF Undo, Goto, TypeOK
  <2>2. failed' \in {failed, failed + 1}
    BY <1>2, FaultCounts DEF CallFails
  <2> QED
    BY <1>1, <1>2, <2>1, <2>2, SameLost, LostShrinks
<1>3. ASSUME NEW i \in FreeIfs,
             memifs' = [memifs EXCEPT ![i] = socket[c].id],
             ifindex' = [ifindex EXCEPT ![c] = i],
             Goto(c, "rxmode"), UNCHANGED failed
      PROVE  LostAreFailures'
  <2>1. i \in Ifs /\ memifs[i] = None
    BY DEF FreeIfs
  <2>2. /\ \A j \in Ifs : memifs'[j] = IF j = i THEN socket[c].id ELSE memifs[j]
        /\ \A d \in Conns : ifindex'[d] = IF d = c THEN i ELSE ifindex[d]
        /\ \A d \in Conns \ {c} : pc'[d] = pc[d]
    BY <1>3, <2>1 DEF TypeOK, Goto
  <2>3. \A d \in Conns, t \in Sockets : Holds(d, t) => Holds(d, t)'
    BY <1>1, <2>1, <2>2 DEF Holds
  <2>4. \A j \in Ifs : Orphan(j)' => Orphan(j) /\ memifs'[j] = memifs[j]
    BY <2>1, <2>2 DEF Orphan
  <2>5. Lost' \subseteq Lost
    BY <1>1, <2>3, <2>4 DEF Lost, SocketExists
  <2> QED
    BY <1>3, <2>5, LostShrinks
<1> QED
  BY <1>2, <1>3 DEF createMemif
-----------------------------------------------------------------------------
(* The proxies *)

(* A step that leaves the proxies alone, and that changes what a           *)
(* connection wants only if it has no proxy or may move.                   *)
LEMMA SameProxies ==
    ASSUME TypeOK, ProxyInv, UNCHANGED <<env, proxy, proxies>>,
           \A c \in Conns : want'[c] = want[c] \/ Moves \/ proxy[c] = None
    PROVE ProxyInv'
<1> SUFFICES ASSUME NEW c \in Conns, NEW k \in Slots PROVE ProxyOK(c, k)'
  BY DEF ProxyInv
<1>1. ProxyOK(c, k) /\ k # None
  BY MemifAssumption DEF ProxyInv
<1> QED
  BY <1>1 DEF ProxyOK, Faults, Moves

(* cancelProxy keeps the proxies in order. *)
LEMMA CancelProxies == ASSUME TypeOK, ProxyInv, UNCHANGED <<env, want>>, NEW c \in Conns, cancelProxy(c)
                       PROVE ProxyInv'
<1> SUFFICES ASSUME NEW d \in Conns, NEW k \in Slots PROVE ProxyOK(d, k)'
  BY DEF ProxyInv
<1>1. ProxyOK(d, k) /\ k # None /\ proxies[d][k] \in ProxyRecord
  BY MemifAssumption DEF ProxyInv, TypeOK, ProxyRecord
<1>2. proxy'[d] = IF d = c THEN None ELSE proxy[d]
  BY CancelTypes DEF TypeOK
<1>3. CASE d = c /\ k = proxy[c]
  <2>1. /\ proxies[c][k] = NoProxy => proxies'[c][k] = NoProxy
        /\ proxies'[c][k].at = proxies[c][k].at /\ proxies'[c][k].pipes = proxies[c][k].pipes
        /\ proxies'[c][k].done
    BY <1>3, CancelTypes
  <2> QED
    BY <1>1, <1>2, <1>3, <2>1 DEF ProxyOK
<1>4. CASE ~(d = c /\ k = proxy[c])
  <2>1. proxies'[d][k] = proxies[d][k]
    BY <1>4, CancelTypes
  <2> QED
    BY <1>1, <1>2, <1>4, <2>1 DEF ProxyOK, Faults, Moves
<1> QED
  BY <1>3, <1>4

(* A new proxy keeps the proxies in order. *)
LEMMA StartProxies == ASSUME TypeOK, ProxyInv, UNCHANGED <<env, want>>, NEW c \in Conns, info[c] = want[c].target,
                             FreeSlots(c) # {}, proxy[c] = None, Start(c)
                      PROVE ProxyInv'
<1> SUFFICES ASSUME NEW d \in Conns, NEW k \in Slots PROVE ProxyOK(d, k)'
  BY DEF ProxyInv
<1>1. ProxyOK(d, k) /\ k # None
  BY MemifAssumption DEF ProxyInv
<1>2. PICK j \in Slots :
         /\ proxy' = [proxy EXCEPT ![c] = j]
         /\ proxies' = [proxies EXCEPT ![c] = [proxies[c] EXCEPT ![j] =
                          [target |-> info[c], done |-> FALSE, listening |-> TRUE,
                           at |-> "accept", pipes |-> 0]]]
  BY StartTypes
<1>3. /\ proxy'[d] = IF d = c THEN j ELSE proxy[d]
      /\ proxies'[d][k] = IF d = c /\ k = j THEN [target |-> info[c], done |-> FALSE, listening |-> TRUE,
                                                  at |-> "accept", pipes |-> 0]
                          ELSE proxies[d][k]
  BY <1>2 DEF TypeOK
<1>4. CASE d = c /\ k = j
  BY <1>3, <1>4 DEF ProxyOK
<1>5. CASE d = c /\ k # j
  BY <1>1, <1>3, <1>5 DEF ProxyOK, Faults, Moves
<1>6. CASE d # c
  BY <1>1, <1>3, <1>6 DEF ProxyOK, Faults, Moves
<1> QED
  BY <1>4, <1>5, <1>6

(* A step of a proxy keeps the proxies in order. *)
LEMMA ProxyProxies == ASSUME TypeOK, ProxyInv, UNCHANGED env, NEW c \in Conns, NEW k \in Slots, Proxy(c, k)
                      PROVE ProxyInv'
<1> SUFFICES ASSUME NEW d \in Conns, NEW j \in Slots PROVE ProxyOK(d, j)'
  BY DEF ProxyInv
<1>1. ProxyOK(d, j) /\ UNCHANGED <<proxy, want>>
  BY DEF ProxyInv, Proxy
<1>2. PICK r \in ProxyRecord :
            /\ proxies' = [proxies EXCEPT ![c] = [proxies[c] EXCEPT ![k] = r]]
            /\ r.target = proxies[c][k].target \/ r = NoProxy
            /\ r.done = proxies[c][k].done \/ r = NoProxy
            /\ r.at = "ended" => r = NoProxy
            /\ r.at = "dial" => r.pipes < env.pipes
            /\ "dial" \notin Faults /\ proxies[c][k].listening /\ ~proxies[c][k].done => r # NoProxy /\ r.listening
  BY ProxySteps
<1>3. proxies'[d][j] = IF d = c /\ j = k THEN r ELSE proxies[d][j]
  BY <1>2 DEF TypeOK
<1>4. CASE d = c /\ j = k
  <2>1. NoProxy.done /\ NoProxy.at = "ended"
    BY DEF NoProxy
  <2>2. proxies'[c][k] = r
    BY <1>3, <1>4
  <2>3. /\ r.at = "ended" => r = NoProxy
        /\ r.at = "dial" => r.pipes < env.pipes
        /\ k # proxy[c] => r.done
    BY <1>1, <1>2, <1>4, <2>1 DEF ProxyOK
  <2>4. ASSUME k = proxy[c], "dial" \notin Faults
        PROVE  r.listening /\ ~r.done /\ r.target = proxies[c][k].target
    BY <1>1, <1>2, <1>4, <2>4 DEF ProxyOK
  <2> QED
    BY <1>1, <1>4, <2>2, <2>3, <2>4 DEF ProxyOK, Faults, Moves
<1>5. CASE ~(d = c /\ j = k)
  BY <1>1, <1>3, <1>5 DEF ProxyOK, Faults, Moves
<1> QED
  BY <1>4, <1>5
-----------------------------------------------------------------------------
(* The connections *)

SameConn(d) == UNCHANGED <<granted[d], pc[d], known[d], closing[d], want[d], info[d], ifindex[d], socket[d],
                           proxy[d], rxmode[d], watch[d], event[d]>>
               /\ (d \in unwatched') = (d \in unwatched)

(* A connection is not disturbed by a step that changes neither what it    *)
(* has nor, to its disadvantage, the state of its interface.               *)
LEMMA Others ==
    ASSUME NEW d \in Conns, ConnOK(d), SameConn(d), UNCHANGED env,
           ifindex[d] # None => /\ ifindex[d] \in adminUp' => ifindex[d] \in adminUp
                                /\ ifindex[d] \in linkUp' => ifindex[d] \in linkUp
                                /\ ifindex[d] \in adaptive => ifindex[d] \in adaptive'
    PROVE ConnOK(d)'
<1> USE DEF SameConn, IsDirect, Ready
<1>1. Place(d)'
  BY DEF ConnOK, Place
<1>2. Unknown(d)'
  BY DEF ConnOK, Unknown
<1>3. RxOK(d)'
  BY DEF ConnOK, RxOK
<1>4. Kept(d)'
  BY DEF ConnOK, Kept, Watched, Moves
<1> QED
  BY <1>1, <1>2, <1>3, <1>4 DEF ConnOK

(* A request that begins keeps every connection in order. *)
LEMMA RequestConn == ASSUME TypeOK, WantOK, ConnInv, UNCHANGED env, NEW c \in Conns, Request(c)
                     PROVE ConnInv'
<1>1. ASSUME NEW d \in Conns, d # c PROVE ConnOK(d)'
  <2>1. SameConn(d) /\ UNCHANGED <<adminUp, linkUp, adaptive>>
    BY <1>1 DEF Request, storeInfo, Goto, goroutine, vpp, TypeOK, WantOK, SameConn
  <2> QED
    BY <2>1, Others DEF ConnInv
<1>2. ConnOK(c)'
  <2>1. /\ pc[c] = "ready" /\ pc'[c] = "reply" /\ granted'[c] = FALSE
        /\ UNCHANGED <<known, closing, ifindex, socket, proxy, rxmode, watch, event, unwatched, adminUp, linkUp, adaptive>>
        /\ want'[c] = want[c] \/ Moves \/ ~known[c]
    BY DEF Request, Goto, goroutine, vpp, TypeOK
  <2>2. ConnOK(c)
    BY DEF ConnInv
  <2>3. Place(c)'
    BY <2>1, <2>2 DEF ConnOK, Place
  <2>4. Unknown(c)'
    BY <2>1, <2>2 DEF ConnOK, Unknown
  <2>5. RxOK(c)'
    BY <2>1, <2>2 DEF ConnOK, RxOK
  <2>6. Kept(c)'
    BY <2>1, <2>2 DEF ConnOK, Kept, Ready, Watched, IsDirect, Moves
  <2> QED
    BY <2>3, <2>4, <2>5, <2>6 DEF ConnOK
<1> QED
  BY <1>1, <1>2 DEF ConnInv

(* A reply that comes back keeps every connection in order. *)
LEMMA ReplyConn == ASSUME TypeOK, WantOK, ConnInv, UNCHANGED env, NEW c \in Conns, Reply(c)
                   PROVE ConnInv'
<1>1. ASSUME NEW d \in Conns, d # c PROVE ConnOK(d)'
  <2>1. SameConn(d) /\ UNCHANGED <<adminUp, linkUp, adaptive>>
    BY <1>1 DEF Reply, Goto, goroutine, vpp, TypeOK, SameConn
  <2> QED
    BY <2>1, Others DEF ConnInv
<1>2. ConnOK(c)'
  <2>1. /\ pc[c] = "reply"
        /\ UNCHANGED <<want, granted, known, closing, ifindex, socket, proxy, rxmode, watch, event, unwatched, adminUp, linkUp, adaptive>>
        /\ \/ IsDirect(c) /\ pc'[c] = "proxy" /\ info'[c] = want[c].target
           \/ ~IsDirect(c) /\ pc'[c] = "create"
           \/ pc'[c] = "ready"
    BY DEF Reply, Goto, goroutine, vpp, TypeOK
  <2>2. ConnOK(c)
    BY DEF ConnInv
  <2>3. Place(c)'
    BY <2>1, <2>2 DEF ConnOK, Place, IsDirect
  <2>4. Unknown(c)'
    BY <2>1, <2>2 DEF ConnOK, Unknown
  <2>5. RxOK(c)'
    BY <2>1, <2>2 DEF ConnOK, RxOK
  <2>6. Kept(c)'
    BY <2>1, <2>2 DEF ConnOK, Kept, Ready, Watched, IsDirect, Moves
  <2> QED
    BY <2>3, <2>4, <2>5, <2>6 DEF ConnOK
<1> QED
  BY <1>1, <1>2 DEF ConnInv

(* The decision of create keeps every connection in order. *)
LEMMA createConn == ASSUME TypeOK, WantOK, ConnInv, UNCHANGED env, NEW c \in Conns, create(c)
                    PROVE ConnInv'
<1>1. ASSUME NEW d \in Conns, d # c PROVE ConnOK(d)'
  <2>1. SameConn(d) /\ UNCHANGED <<adminUp, linkUp, adaptive>>
    BY <1>1 DEF create, Undo, Goto, elements, goroutine, vpp, TypeOK, SameConn
  <2> QED
    BY <2>1, Others DEF ConnInv
<1>2. ConnOK(c)'
  <2>1. /\ pc[c] = "create"
        /\ UNCHANGED <<want, info, granted, known, ifindex, socket, proxy, rxmode, watch, event, unwatched, adminUp, linkUp, adaptive>>
        /\ \/ /\ pc'[c] = IF ifindex[c] # None /\ socket[c].name = want[c].name THEN "rxmode" ELSE "delmemif"
              /\ closing'[c] = closing[c]
           \/ ifindex[c] # None /\ pc'[c] = "delmemif" /\ closing'[c] = "undo"
    BY DEF create, Undo, Goto, elements, goroutine, vpp, TypeOK
  <2>2. ConnOK(c)
    BY DEF ConnInv
  <2>3. Place(c)'
    BY <2>1, <2>2 DEF ConnOK, Place, IsDirect, Ready
  <2>4. Unknown(c)'
    BY <2>1, <2>2 DEF ConnOK, Unknown
  <2>5. RxOK(c)'
    BY <2>1, <2>2 DEF ConnOK, RxOK
  <2>6. Kept(c)'
    BY <2>1, <2>2 DEF ConnOK, Kept, Ready, Place, Watched, IsDirect, Moves
  <2> QED
    BY <2>3, <2>4, <2>5, <2>6 DEF ConnOK
<1> QED
  BY <1>1, <1>2 DEF ConnInv

(* deleteMemif keeps every connection in order. *)
LEMMA deleteMemifConn == ASSUME TypeOK, WantOK, VppInv, ConnInv, UNCHANGED env, NEW c \in Conns, deleteMemif(c)
                         PROVE ConnInv'
<1>1. ASSUME NEW d \in Conns, d # c PROVE ConnOK(d)'
  <2>1. /\ socket'[d] = socket[d] /\ known'[d] = known[d] /\ closing'[d] = closing[d] /\ pc'[d] = pc[d]
    BY <1>1, AfterDelFields DEF deleteMemif, Goto, TypeOK
  <2>2. SameConn(d)
    BY <1>1, <2>1 DEF deleteMemif, goroutine, TypeOK, SameConn
  <2>3. ifindex[d] # None => ifindex[d] # ifindex[c]
    BY <1>1 DEF VppInv, OwnMemif
  <2>4. ifindex[d] # None => /\ ifindex[d] \in adminUp' => ifindex[d] \in adminUp
                             /\ ifindex[d] \in linkUp' => ifindex[d] \in linkUp
                             /\ ifindex[d] \in adaptive => ifindex[d] \in adaptive'
    BY <2>3 DEF deleteMemif
  <2> QED
    BY <2>2, <2>4, Others DEF ConnInv
<1>2. ConnOK(c)'
  <2>1. /\ pc[c] = "delmemif" /\ ifindex'[c] = None
        /\ UNCHANGED <<want, info, granted, proxy, rxmode, watch, event, unwatched>>
        /\ \/ pc'[c] = "delsocket" /\ UNCHANGED <<socket, known, closing>>
           \/ AfterDel(c, socket[c])
    BY DEF deleteMemif, Goto, goroutine, TypeOK
  <2>2. \/ pc'[c] = "delsocket" /\ UNCHANGED <<socket, known, closing>>
        \/ closing[c] = "no" /\ known'[c] = known[c] /\ closing'[c] = "no" /\ pc'[c] = "socket"
        \/ closing[c] # "no" /\ known'[c] = (closing[c] = "undo" /\ known[c]) /\ closing'[c] = "no" /\ pc'[c] = "ready"
    BY <2>1, AfterDelFields
  <2>3. ConnOK(c) /\ closing[c] \in {"no", "undo", "close"} /\ known[c] \in BOOLEAN
    BY DEF ConnInv, TypeOK
  <2>4. Place(c)'
    BY <2>1, <2>2, <2>3 DEF ConnOK, Place, IsDirect, Ready
  <2>5. Unknown(c)'
    BY <2>1, <2>2, <2>3 DEF ConnOK, Unknown
  <2>6. RxOK(c)'
    BY <2>1, <2>2, <2>3 DEF ConnOK, RxOK
  <2>7. Kept(c)'
    BY <2>1, <2>2, <2>3 DEF ConnOK, Kept, Ready, Place, Watched, IsDirect, Moves
  <2> QED
    BY <2>4, <2>5, <2>6, <2>7 DEF ConnOK
<1> QED
  BY <1>1, <1>2 DEF ConnInv

(* deleteMemifSocket keeps every connection in order. *)
LEMMA deleteMemifSocketConn ==
    ASSUME TypeOK, WantOK, ConnInv, UNCHANGED env, NEW c \in Conns, deleteMemifSocket(c)
    PROVE ConnInv'
<1>1. ASSUME NEW d \in Conns, d # c PROVE ConnOK(d)'
  <2>1. /\ socket'[d] = socket[d] /\ known'[d] = known[d] /\ closing'[d] = closing[d] /\ pc'[d] = pc[d]
    BY <1>1, AfterDelFields DEF deleteMemifSocket
  <2>2. SameConn(d) /\ UNCHANGED <<adminUp, linkUp, adaptive>>
    BY <1>1, <2>1 DEF deleteMemifSocket, goroutine, TypeOK, SameConn
  <2> QED
    BY <2>2, Others DEF ConnInv
<1>2. ConnOK(c)'
  <2>1. /\ pc[c] = "delsocket" /\ AfterDel(c, socket[c])
        /\ UNCHANGED <<want, info, granted, proxy, ifindex, rxmode, watch, event, unwatched, adminUp, linkUp, adaptive>>
    BY DEF deleteMemifSocket, goroutine, TypeOK
  <2>2. \/ closing[c] = "no" /\ known'[c] = known[c] /\ closing'[c] = "no" /\ pc'[c] = "socket"
        \/ closing[c] # "no" /\ known'[c] = (closing[c] = "undo" /\ known[c]) /\ closing'[c] = "no" /\ pc'[c] = "ready"
    BY <2>1, AfterDelFields
  <2>3. ConnOK(c) /\ closing[c] \in {"no", "undo", "close"} /\ known[c] \in BOOLEAN
    BY DEF ConnInv, TypeOK
  <2>4. Place(c)'
    BY <2>1, <2>2, <2>3 DEF ConnOK, Place, IsDirect, Ready
  <2>5. Unknown(c)'
    BY <2>1, <2>2, <2>3 DEF ConnOK, Unknown, Place
  <2>6. RxOK(c)'
    BY <2>1, <2>2, <2>3 DEF ConnOK, RxOK, Place
  <2>7. Kept(c)'
    BY <2>1, <2>2, <2>3 DEF ConnOK, Kept, Ready, Place, Watched, IsDirect, Moves
  <2> QED
    BY <2>4, <2>5, <2>6, <2>7 DEF ConnOK
<1> QED
  BY <1>1, <1>2 DEF ConnInv
(* createMemifSocket keeps every connection in order. *)
LEMMA createMemifSocketConn ==
    ASSUME TypeOK, WantOK, ConnInv, UNCHANGED env, NEW c \in Conns, createMemifSocket(c)
    PROVE ConnInv'
<1>0. UNCHANGED <<want, info, granted, known, proxy, ifindex, rxmode, watch, event, unwatched, adminUp, linkUp, adaptive>>
  BY DEF createMemifSocket, goroutine
<1>1. ASSUME NEW d \in Conns, d # c PROVE ConnOK(d)'
  <2>1. SameConn(d)
    BY <1>0, <1>1 DEF createMemifSocket, Undo, Goto, TypeOK, SameConn
  <2> QED
    BY <1>0, <2>1, Others DEF ConnInv
<1>2. ConnOK(c)'
  <2>1. /\ pc[c] = "socket"
        /\ \/ /\ pc'[c] = "memif" /\ closing'[c] = closing[c]
              /\ socket'[c] # NoSocket /\ socket'[c].name = want[c].name
           \/ /\ pc'[c] = "delmemif" /\ closing'[c] = "undo"
    <3>1. ASSUME NEW s \in FreeSockets, socket' = [socket EXCEPT ![c] = [id |-> s, name |-> want[c].name]]
          PROVE  socket'[c] # NoSocket /\ socket'[c].name = want[c].name
      <4>1. s # None /\ socket'[c] = [id |-> s, name |-> want[c].name]
        BY <3>1, MemifAssumption DEF FreeSockets, TypeOK
      <4> QED
        BY <4>1 DEF NoSocket
    <3> QED
      BY <3>1 DEF createMemifSocket, Undo, Goto, TypeOK
  <2>2. ConnOK(c)
    BY DEF ConnInv
  <2>3. Place(c)'
    BY <1>0, <2>1, <2>2 DEF ConnOK, Place, IsDirect, Ready
  <2>4. Unknown(c)'
    BY <1>0, <2>1, <2>2 DEF ConnOK, Unknown, Place
  <2>5. RxOK(c)'
    BY <1>0, <2>1, <2>2 DEF ConnOK, RxOK, Place
  <2>6. Kept(c)'
    BY <1>0, <2>1, <2>2 DEF ConnOK, Kept, Ready, Place, Watched, IsDirect, Moves
  <2> QED
    BY <2>3, <2>4, <2>5, <2>6 DEF ConnOK
<1> QED
  BY <1>1, <1>2 DEF ConnInv

(* createMemif keeps every connection in order. *)
LEMMA createMemifConn ==
    ASSUME TypeOK, WantOK, VppInv, ConnInv, UNCHANGED env, NEW c \in Conns, createMemif(c)
    PROVE ConnInv'
<1>0. /\ UNCHANGED <<want, info, granted, known, proxy, socket, rxmode, watch, event, adminUp, linkUp, adaptive>>
      /\ unwatched' \in {unwatched, unwatched \cup {c}}
  BY DEF createMemif
<1>1. ASSUME NEW d \in Conns, d # c PROVE ConnOK(d)'
  <2>1. SameConn(d)
    BY <1>0, <1>1 DEF createMemif, Undo, Goto, TypeOK, SameConn
  <2> QED
    BY <1>0, <2>1, Others DEF ConnInv
<1>2. ConnOK(c)'
  <2>1. /\ pc[c] = "memif"
        /\ \/ /\ pc'[c] = "rxmode" /\ closing'[c] = closing[c] /\ ifindex'[c] # None
              /\ ifindex'[c] \notin adminUp /\ (rxmode[c] => c \in unwatched')
           \/ /\ pc'[c] = "delmemif" /\ closing'[c] = "undo" /\ ifindex'[c] = ifindex[c]
              /\ unwatched' = unwatched
    <3>1. ASSUME NEW i \in FreeIfs, ifindex' = [ifindex EXCEPT ![c] = i]
          PROVE  ifindex'[c] # None /\ ifindex'[c] \notin adminUp
      BY <3>1, MemifAssumption DEF FreeIfs, TypeOK, VppInv, Fresh
    <3> QED
      BY <3>1 DEF createMemif, Undo, Goto, TypeOK
  <2>2. ConnOK(c)
    BY DEF ConnInv
  <2>3. Place(c)'
    BY <1>0, <2>1, <2>2 DEF ConnOK, Place, IsDirect, Ready
  <2>4. Unknown(c)'
    BY <1>0, <2>1, <2>2 DEF ConnOK, Unknown, Place
  <2>5. RxOK(c)'
    BY <1>0, <2>1, <2>2 DEF ConnOK, RxOK, Place
  <2>6. Kept(c)'
    BY <1>0, <2>1, <2>2 DEF ConnOK, Kept, Ready, Place, Unknown, Watched, IsDirect, Moves
  <2> QED
    BY <2>3, <2>4, <2>5, <2>6 DEF ConnOK
<1> QED
  BY <1>1, <1>2 DEF ConnInv

(* StartProxy keeps every connection in order. *)
LEMMA StartProxyConn ==
    ASSUME TypeOK, WantOK, ConnInv, UNCHANGED env, NEW c \in Conns, StartProxy(c)
    PROVE ConnInv'
<1>0. UNCHANGED <<want, info, granted, known, ifindex, socket, rxmode, watch, event, unwatched, adminUp, linkUp, adaptive>>
  BY DEF StartProxy, goroutine, vpp
<1>1. /\ pc[c] = "proxy"
      /\ \/ /\ pc' = [pc EXCEPT ![c] = "rxmode"] /\ closing' = closing
            /\ \E k \in Slots : proxy' = [proxy EXCEPT ![c] = k]
         \/ /\ pc' = [pc EXCEPT ![c] = "delmemif"] /\ closing' = [closing EXCEPT ![c] = "undo"]
            /\ proxy[c] = None /\ proxy' = proxy
  <2>1. CASE proxy[c] # None /\ Goto(c, "rxmode") /\ UNCHANGED <<proxy, closing>>
    <3>1. proxy[c] \in Slots /\ proxy' = [proxy EXCEPT ![c] = proxy[c]]
      BY <2>1 DEF TypeOK
    <3> QED
      BY <2>1, <3>1 DEF StartProxy, Goto
  <2>2. CASE FreeSlots(c) # {} /\ Start(c) /\ Goto(c, "rxmode") /\ UNCHANGED closing
    BY <2>2, StartTypes DEF StartProxy, Goto
  <2>3. CASE proxy[c] = None /\ Undo(c) /\ UNCHANGED proxy
    BY <2>3 DEF StartProxy, Undo, Goto
  <2> QED
    BY <2>1, <2>2, <2>3 DEF StartProxy
<1>2. ASSUME NEW d \in Conns, d # c PROVE ConnOK(d)'
  <2>1. SameConn(d)
    BY <1>0, <1>1, <1>2 DEF TypeOK, SameConn
  <2> QED
    BY <1>0, <2>1, Others DEF ConnInv
<1>3. ConnOK(c)'
  <2>1. \/ /\ pc'[c] = "rxmode" /\ closing'[c] = closing[c] /\ proxy'[c] # None
        \/ /\ pc'[c] = "delmemif" /\ closing'[c] = "undo" /\ proxy[c] = None /\ proxy'[c] = None
    BY <1>1, MemifAssumption DEF TypeOK
  <2>2. ConnOK(c)
    BY DEF ConnInv
  <2>3. Place(c)'
    BY <1>0, <1>1, <2>1, <2>2 DEF ConnOK, Place, IsDirect, Ready
  <2>4. Unknown(c)'
    BY <1>0, <1>1, <2>1, <2>2 DEF ConnOK, Unknown, Place
  <2>5. RxOK(c)'
    BY <1>0, <1>1, <2>1, <2>2 DEF ConnOK, RxOK, Place
  <2>6. Kept(c)'
    BY <1>0, <1>1, <2>1, <2>2 DEF ConnOK, Kept, Ready, Place, Watched, IsDirect, Moves
  <2> QED
    BY <2>3, <2>4, <2>5, <2>6 DEF ConnOK
<1> QED
  BY <1>2, <1>3 DEF ConnInv

(* setRxMode keeps every connection in order. *)
LEMMA setRxModeConn ==
    ASSUME TypeOK, WantOK, VppInv, ConnInv, UNCHANGED env, NEW c \in Conns, setRxMode(c)
    PROVE ConnInv'
<1>0. UNCHANGED <<want, info, granted, known, ifindex, socket, event, unwatched, adminUp, linkUp, adaptive>>
  BY DEF setRxMode, cancelProxy, vpp
<1>1. /\ pc[c] = "rxmode"
      /\ \/ /\ rxmode[c] /\ pc' = [pc EXCEPT ![c] = "up"]
            /\ UNCHANGED <<proxy, rxmode, watch, closing>>
         \/ /\ ~rxmode[c] /\ pc' = [pc EXCEPT ![c] = "up"]
            /\ rxmode' = [rxmode EXCEPT ![c] = TRUE]
            /\ watch' = [watch EXCEPT ![c] = IF ifindex[c] = None THEN 0 ELSE ifindex[c]]
            /\ UNCHANGED <<proxy, closing>>
         \/ /\ ~rxmode[c] /\ pc' = [pc EXCEPT ![c] = "delmemif"]
            /\ closing' = [closing EXCEPT ![c] = "undo"]
            /\ proxy' = [proxy EXCEPT ![c] = None]
            /\ UNCHANGED <<rxmode, watch>>
  BY DEF setRxMode, Goto, Undo, cancelProxy
<1>2. ASSUME NEW d \in Conns, d # c PROVE ConnOK(d)'
  <2>1. SameConn(d)
    BY <1>0, <1>1, <1>2 DEF TypeOK, SameConn
  <2> QED
    BY <1>0, <2>1, Others DEF ConnInv
<1>3. ConnOK(c)'
  <2>1. \/ /\ rxmode[c] /\ pc'[c] = "up"
           /\ UNCHANGED <<proxy[c], rxmode[c], watch[c], closing[c]>>
        \/ /\ ~rxmode[c] /\ pc'[c] = "up" /\ rxmode'[c]
           /\ watch'[c] = IF ifindex[c] = None THEN 0 ELSE ifindex[c]
           /\ UNCHANGED <<proxy[c], closing[c]>>
        \/ /\ ~rxmode[c] /\ pc'[c] = "delmemif" /\ closing'[c] = "undo" /\ proxy'[c] = None
           /\ UNCHANGED <<rxmode[c], watch[c]>>
    BY <1>1 DEF TypeOK
  <2>2. ConnOK(c) /\ linkUp \subseteq adminUp
    BY DEF ConnInv, VppInv, Fresh
  <2>3. ~event[c] \/ rxmode[c]
    BY <2>2, MemifAssumption DEF ConnOK, RxOK
  <2>4. Place(c)'
    BY <1>0, <1>1, <2>1, <2>2 DEF ConnOK, Place, IsDirect, Ready
  <2>5. Unknown(c)'
    BY <1>0, <1>1, <2>1, <2>2 DEF ConnOK, Unknown, Place
  <2>6. RxOK(c)'
    BY <1>0, <1>1, <2>1, <2>2, <2>3 DEF ConnOK, RxOK, Place
  <2>7. Kept(c)'
    <3>1. closing[c] = "no"
      BY <1>1, <2>2 DEF ConnOK, Place
    <3>2. ifindex[c] # None /\ ifindex[c] \in linkUp => rxmode[c]
      BY <2>2, <3>1 DEF ConnOK, RxOK
    <3>3. rxmode'[c] /\ ifindex[c] # None /\ c \notin unwatched => Watched(c)'
      BY <1>0, <2>1, <2>2, <3>2 DEF ConnOK, Kept, Watched
    <3> QED
      BY <1>0, <3>3 DEF Kept
  <2> QED
    BY <2>4, <2>5, <2>6, <2>7 DEF ConnOK
<1> QED
  BY <1>2, <1>3 DEF ConnInv

(* Setting the interface up keeps every connection in order. *)
LEMMA UpConn == ASSUME TypeOK, WantOK, VppInv, ConnInv, UNCHANGED env, NEW c \in Conns, Up(c)
                PROVE ConnInv'
<1>0. /\ UNCHANGED <<want, info, ifindex, socket, linkUp, adaptive>>
      /\ pc[c] = "up"
      /\ \/ /\ UNCHANGED <<proxy, rxmode, watch, event, unwatched, closing>>
            /\ adminUp' = adminUp \cup ({ifindex[c]} \ {None})
            /\ granted' = [granted EXCEPT ![c] = TRUE] /\ known' = [known EXCEPT ![c] = TRUE]
            /\ pc' = [pc EXCEPT ![c] = "ready"]
         \/ /\ UNCHANGED <<adminUp, granted, known>>
            /\ proxy' = [proxy EXCEPT ![c] = None] /\ rxmode' = [rxmode EXCEPT ![c] = FALSE]
            /\ watch' = [watch EXCEPT ![c] = None] /\ event' = [event EXCEPT ![c] = FALSE]
            /\ unwatched' = unwatched \ {c} /\ closing' = [closing EXCEPT ![c] = "undo"]
            /\ pc' = [pc EXCEPT ![c] = "delmemif"]
  BY DEF Up, cancel, cancelProxy, Undo, Goto, goroutine
<1>1. ASSUME NEW d \in Conns, d # c PROVE ConnOK(d)'
  <2>1. SameConn(d)
    BY <1>0, <1>1 DEF TypeOK, SameConn
  <2>2. ifindex[d] # None => ifindex[d] # ifindex[c]
    BY <1>1 DEF VppInv, OwnMemif
  <2> QED
    BY <1>0, <2>1, <2>2, Others DEF ConnInv
<1>2. ConnOK(c)'
  <2>1. \/ /\ pc'[c] = "ready" /\ granted'[c] /\ known'[c]
           /\ UNCHANGED <<proxy, rxmode, watch, event, unwatched, closing>>
        \/ /\ pc'[c] = "delmemif" /\ closing'[c] = "undo" /\ proxy'[c] = None
           /\ ~rxmode'[c] /\ watch'[c] = None /\ ~event'[c]
           /\ UNCHANGED <<adminUp, granted, known>>
    BY <1>0 DEF TypeOK
  <2>2. ConnOK(c)
    BY DEF ConnInv
  <2>3. Place(c)'
    BY <1>0, <2>1, <2>2 DEF ConnOK, Place, IsDirect, Ready
  <2>4. Unknown(c)'
    BY <1>0, <2>1, <2>2 DEF ConnOK, Unknown, Place
  <2>5. RxOK(c)'
    BY <1>0, <2>1, <2>2 DEF ConnOK, RxOK, Place
  <2>6. Kept(c)'
    BY <1>0, <2>1, <2>2 DEF ConnOK, Kept, Watched
  <2> QED
    BY <2>3, <2>4, <2>5, <2>6 DEF ConnOK
<1> QED
  BY <1>1, <1>2 DEF ConnInv

(* A link that comes up keeps every connection in order. *)
LEMMA LinkUpConn == ASSUME TypeOK, WantOK, ConnInv, UNCHANGED env, NEW i \in Ifs, LinkUp(i)
                    PROVE ConnInv'
<1>0. /\ UNCHANGED <<want, info, ifindex, socket, proxy, rxmode, watch, unwatched, known, granted, closing, adminUp, adaptive, pc>>
      /\ linkUp' = linkUp \cup {i}
      /\ \A d \in Conns : event'[d] = (event[d] \/ watch[d] = i)
  BY DEF LinkUp, elements
<1> SUFFICES ASSUME NEW d \in Conns PROVE ConnOK(d)'
  BY DEF ConnInv
<1>1. ConnOK(d)
  BY DEF ConnInv
<1>2. Place(d)'
  BY <1>0, <1>1 DEF ConnOK, Place, IsDirect, Ready
<1>3. Unknown(d)'
  BY <1>0, <1>1 DEF ConnOK, Unknown
<1>4. RxOK(d)'
  BY <1>0, <1>1 DEF ConnOK, RxOK
<1>5. Kept(d)'
  BY <1>0, <1>1 DEF ConnOK, Kept, Ready, Watched, IsDirect, Moves
<1> QED
  BY <1>2, <1>3, <1>4, <1>5 DEF ConnOK

(* The goroutine of memifrxmode keeps every connection in order. *)
LEMMA GoroutineConn == ASSUME TypeOK, WantOK, VppInv, ConnInv, UNCHANGED env, NEW c \in Conns, Goroutine(c)
                       PROVE ConnInv'
<1>0. /\ UNCHANGED <<want, info, ifindex, socket, proxy, rxmode, known, granted, closing, adminUp, linkUp, pc>>
      /\ \/ unwatched' = unwatched /\ adaptive' = adaptive \cup {i \in {watch[c]} : memifs[i] # None}
         \/ unwatched' = unwatched \cup {c} /\ adaptive' = adaptive
      /\ watch' = [watch EXCEPT ![c] = None] /\ event' = [event EXCEPT ![c] = FALSE]
  BY DEF Goroutine, elements
<1>1. ASSUME NEW d \in Conns, d # c PROVE ConnOK(d)'
  <2>1. SameConn(d)
    BY <1>0, <1>1 DEF TypeOK, SameConn
  <2> QED
    BY <1>0, <2>1, Others DEF ConnInv
<1>2. ConnOK(c)'
  <2>1. watch'[c] = None /\ event'[c] = FALSE
    BY <1>0 DEF TypeOK
  <2>2. ConnOK(c)
    BY DEF ConnInv
  <2>3. ifindex[c] # None => memifs[ifindex[c]] # None
    BY SocketType DEF VppInv, Owned
  <2>4. Place(c)'
    BY <1>0, <2>2 DEF ConnOK, Place, IsDirect, Ready
  <2>5. Unknown(c)'
    BY <1>0, <2>2 DEF ConnOK, Unknown
  <2>6. RxOK(c)'
    BY <1>0, <2>1, <2>2 DEF ConnOK, RxOK
  <2>7. ifindex[c] # None /\ Watched(c) => Watched(c)' \/ c \in unwatched'
    BY <1>0, <2>3 DEF Watched
  <2>8. Kept(c)'
    BY <1>0, <2>2, <2>7 DEF ConnOK, Kept, Watched
  <2> QED
    BY <2>4, <2>5, <2>6, <2>8 DEF ConnOK
<1> QED
  BY <1>1, <1>2 DEF ConnInv

(* A close that begins keeps every connection in order. *)
LEMMA CloseConn == ASSUME TypeOK, WantOK, ConnInv, UNCHANGED env, NEW c \in Conns, Close(c)
                   PROVE ConnInv'
<1>0. /\ UNCHANGED <<want, info, ifindex, socket, known, adminUp, linkUp, adaptive>>
      /\ pc[c] = "ready" /\ known[c]
      /\ rxmode' = [rxmode EXCEPT ![c] = FALSE] /\ watch' = [watch EXCEPT ![c] = None]
      /\ event' = [event EXCEPT ![c] = FALSE] /\ proxy' = [proxy EXCEPT ![c] = None]
      /\ unwatched' = unwatched \ {c}
      /\ closing' = [closing EXCEPT ![c] = "close"] /\ granted' = [granted EXCEPT ![c] = FALSE]
      /\ pc' = [pc EXCEPT ![c] = "delmemif"]
  BY DEF Close, cancel, cancelProxy, Goto, vpp
<1>1. ASSUME NEW d \in Conns, d # c PROVE ConnOK(d)'
  <2>1. SameConn(d)
    BY <1>0, <1>1 DEF TypeOK, SameConn
  <2> QED
    BY <1>0, <2>1, Others DEF ConnInv
<1>2. ConnOK(c)'
  <2>1. /\ rxmode'[c] = FALSE /\ watch'[c] = None /\ event'[c] = FALSE /\ proxy'[c] = None
        /\ closing'[c] = "close" /\ granted'[c] = FALSE /\ pc'[c] = "delmemif"
    BY <1>0 DEF TypeOK
  <2>2. ConnOK(c)
    BY DEF ConnInv
  <2>3. Place(c)'
    BY <1>0, <2>1, <2>2 DEF ConnOK, Place
  <2>4. Unknown(c)'
    BY <1>0, <2>1, <2>2 DEF ConnOK, Unknown
  <2>5. RxOK(c)'
    BY <1>0, <2>1, <2>2 DEF ConnOK, RxOK
  <2>6. Kept(c)'
    BY <1>0, <2>1, <2>2 DEF ConnOK, Kept
  <2> QED
    BY <2>3, <2>4, <2>5, <2>6 DEF ConnOK
<1> QED
  BY <1>1, <1>2 DEF ConnInv

(* A step that is none of a handler changes nothing of this. *)
LEMMA SameConns == ASSUME ConnInv, UNCHANGED <<env, want, info, ifindex, socket, proxy, rxmode, watch, event,
                                               unwatched, known, granted, closing, adminUp, linkUp, adaptive, pc>>
                   PROVE ConnInv'
<1>1. \A d \in Conns : SameConn(d)
  BY DEF SameConn
<1> QED
  BY <1>1, Others DEF ConnInv

-----------------------------------------------------------------------------
(* Every step keeps the invariant. *)

(* The steps that neither create nor delete a memif or a socket. *)
LEMMA PlainSteps ==
    ASSUME IInv, UNCHANGED <<env, socket, sockets, memifs, ifindex, adminUp, linkUp, adaptive>>,
           failed' \in {failed, failed + 1},
           \A c \in Conns : ifindex[c] = None /\ pc[c] \in {"memif", "delmemif", "delsocket"} =>
                               pc'[c] \in {"memif", "delmemif", "delsocket"}
    PROVE VppInv' /\ LostAreFailures'
BY SameVpp, SameLost, LostShrinks DEF IInv

(* A request that begins preserves the invariant. *)
LEMMA RequestIInv == ASSUME IInv, UNCHANGED <<env, crashed>>, NEW c \in Conns, Request(c) PROVE IInv'
<1>1. /\ UNCHANGED <<socket, sockets, memifs, ifindex, adminUp, linkUp, adaptive, failed, proxy, proxies>>
      /\ pc[c] = "ready" /\ \A d \in Conns \ {c} : pc'[d] = pc[d] /\ want'[d] = want[d]
      /\ want'[c] = want[c] \/ Moves \/ ~known[c]
  BY DEF IInv, TypeOK, WantOK, Request, Goto, vpp
<1>2. \A d \in Conns : want'[d] = want[d] \/ Moves \/ proxy[d] = None
  BY <1>1 DEF IInv, ConnInv, ConnOK, Unknown
<1>3. ProxyInv'
  BY <1>1, <1>2, SameProxies DEF IInv
<1>4. VppInv' /\ LostAreFailures'
  BY <1>1, PlainSteps
<1> QED
  BY <1>3, <1>4, RequestTypes, RequestConn DEF IInv

(* A reply that comes back preserves the invariant. *)
LEMMA ReplyIInv == ASSUME IInv, UNCHANGED <<env, crashed>>, NEW c \in Conns, Reply(c) PROVE IInv'
<1>1. /\ UNCHANGED <<socket, sockets, memifs, ifindex, adminUp, linkUp, adaptive, want, proxy, proxies>>
      /\ pc[c] = "reply" /\ \A d \in Conns \ {c} : pc'[d] = pc[d]
  BY DEF IInv, TypeOK, Reply, Goto, vpp
<1>2. failed' \in {failed, failed + 1}
  BY FaultCounts DEF IInv, Reply
<1>3. ProxyInv'
  BY <1>1, SameProxies DEF IInv
<1>4. VppInv' /\ LostAreFailures'
  BY <1>1, <1>2, PlainSteps
<1> QED
  BY <1>3, <1>4, ReplyTypes, ReplyConn DEF IInv

(* The decision of create preserves the invariant. *)
LEMMA createIInv == ASSUME IInv, UNCHANGED <<env, crashed>>, NEW c \in Conns, create(c) PROVE IInv'
<1>1. /\ UNCHANGED <<socket, sockets, memifs, ifindex, adminUp, linkUp, adaptive, want, proxy, proxies>>
      /\ pc[c] = "create" /\ \A d \in Conns \ {c} : pc'[d] = pc[d]
      /\ pc'[c] \in {"rxmode", "delmemif"}
  BY DEF IInv, TypeOK, create, Undo, Goto, vpp, elements
<1>4. failed' \in {failed, failed + 1}
  BY FaultCounts DEF IInv, create
<1>2. ProxyInv'
  BY <1>1, SameProxies DEF IInv
<1>3. VppInv' /\ LostAreFailures'
  BY <1>1, <1>4, PlainSteps
<1> QED
  BY <1>2, <1>3, createTypes, createConn DEF IInv

(* deleteMemif preserves the invariant. *)
LEMMA deleteMemifIInv == ASSUME IInv, UNCHANGED <<env, crashed>>, NEW c \in Conns, deleteMemif(c) PROVE IInv'
<1>1. ProxyInv'
  BY SameProxies DEF IInv, deleteMemif
<1> QED
  BY <1>1, deleteMemifTypes, deleteMemifVpp, deleteMemifLost, deleteMemifConn DEF IInv

(* deleteMemifSocket preserves the invariant. *)
LEMMA deleteMemifSocketIInv ==
    ASSUME IInv, UNCHANGED <<env, crashed>>, NEW c \in Conns, deleteMemifSocket(c) PROVE IInv'
<1>1. ProxyInv'
  BY SameProxies DEF IInv, deleteMemifSocket
<1>2. ifindex[c] = None
  BY DEF IInv, ConnInv, ConnOK, Place, deleteMemifSocket
<1> QED
  BY <1>1, <1>2, deleteMemifSocketTypes, deleteMemifSocketVpp, deleteMemifSocketLost, deleteMemifSocketConn DEF IInv

(* createMemifSocket preserves the invariant. *)
LEMMA createMemifSocketIInv ==
    ASSUME IInv, UNCHANGED <<env, crashed>>, NEW c \in Conns, createMemifSocket(c) PROVE IInv'
<1>1. ProxyInv'
  BY SameProxies DEF IInv, createMemifSocket
<1>2. ifindex[c] = None
  BY DEF IInv, ConnInv, ConnOK, Place, createMemifSocket
<1> QED
  BY <1>1, <1>2, createMemifSocketTypes, createMemifSocketVpp, createMemifSocketLost, createMemifSocketConn DEF IInv

(* createMemif preserves the invariant. *)
LEMMA createMemifIInv == ASSUME IInv, UNCHANGED <<env, crashed>>, NEW c \in Conns, createMemif(c) PROVE IInv'
<1>1. ProxyInv'
  BY SameProxies DEF IInv, createMemif
<1>2. ifindex[c] = None
  BY DEF IInv, ConnInv, ConnOK, Place, createMemif
<1> QED
  BY <1>1, <1>2, createMemifTypes, createMemifVpp, createMemifLost, createMemifConn DEF IInv

(* StartProxy preserves the invariant. *)
LEMMA StartProxyIInv == ASSUME IInv, UNCHANGED <<env, crashed>>, NEW c \in Conns, StartProxy(c) PROVE IInv'
<1>1. /\ UNCHANGED <<socket, sockets, memifs, ifindex, adminUp, linkUp, adaptive, want>>
      /\ pc[c] = "proxy" /\ \A d \in Conns \ {c} : pc'[d] = pc[d]
  BY DEF IInv, TypeOK, StartProxy, Goto, Undo, vpp
<1>2. failed' \in {failed, failed + 1}
  BY FaultCounts DEF IInv, StartProxy, CallFails
<1>3. info[c] = want[c].target
  BY <1>1 DEF IInv, ConnInv, ConnOK, Place
<1>4. ProxyInv'
  BY <1>1, <1>3, SameProxies, StartProxies DEF IInv, StartProxy
<1>5. VppInv' /\ LostAreFailures'
  BY <1>1, <1>2, PlainSteps
<1> QED
  BY <1>4, <1>5, StartProxyTypes, StartProxyConn DEF IInv

(* setRxMode preserves the invariant. *)
LEMMA setRxModeIInv == ASSUME IInv, UNCHANGED <<env, crashed>>, NEW c \in Conns, setRxMode(c) PROVE IInv'
<1>1. /\ UNCHANGED <<socket, sockets, memifs, ifindex, adminUp, linkUp, adaptive, want>>
      /\ pc[c] = "rxmode" /\ \A d \in Conns \ {c} : pc'[d] = pc[d]
  BY DEF IInv, TypeOK, setRxMode, Goto, Undo, vpp
<1>2. failed' \in {failed, failed + 1}
  BY FaultCounts DEF IInv, setRxMode
<1>3. ProxyInv'
  BY <1>1, SameProxies, CancelProxies DEF IInv, setRxMode
<1>4. VppInv' /\ LostAreFailures'
  BY <1>1, <1>2, PlainSteps
<1> QED
  BY <1>3, <1>4, setRxModeTypes, setRxModeConn DEF IInv

(* Setting the interface up preserves the invariant. *)
LEMMA UpIInv == ASSUME IInv, UNCHANGED <<env, crashed>>, NEW c \in Conns, Up(c) PROVE IInv'
<1>1. /\ UNCHANGED <<socket, sockets, memifs, ifindex, want>>
      /\ pc[c] = "up" /\ \A d \in Conns \ {c} : pc'[d] = pc[d]
  BY DEF IInv, TypeOK, Up, Undo, Goto
<1>2. ProxyInv'
  BY <1>1, SameProxies, CancelProxies DEF IInv, Up
<1>4. failed' \in {failed, failed + 1}
  BY FaultCounts DEF IInv, Up
<1>3. LostAreFailures'
  BY <1>1, <1>4, SameLost, LostShrinks DEF IInv
<1> QED
  BY <1>2, <1>3, UpTypes, UpVpp, UpConn DEF IInv

(* A link that comes up preserves the invariant. *)
LEMMA LinkUpIInv == ASSUME IInv, UNCHANGED <<env, crashed>>, NEW i \in Ifs, LinkUp(i) PROVE IInv'
<1>1. UNCHANGED <<socket, sockets, memifs, ifindex, want, proxy, proxies, failed, pc>>
  BY DEF LinkUp, elements
<1>2. ProxyInv'
  BY <1>1, SameProxies DEF IInv
<1>3. LostAreFailures'
  BY <1>1, SameLost, LostShrinks DEF IInv
<1> QED
  BY <1>2, <1>3, LinkUpTypes, LinkUpVpp, LinkUpConn DEF IInv

(* The goroutine of memifrxmode preserves the invariant. *)
LEMMA GoroutineIInv == ASSUME IInv, UNCHANGED <<env, crashed>>, NEW c \in Conns, Goroutine(c) PROVE IInv'
<1>1. UNCHANGED <<socket, sockets, memifs, ifindex, want, proxy, proxies, pc>>
  BY DEF Goroutine, elements
<1>2. ProxyInv'
  BY <1>1, SameProxies DEF IInv
<1>5. failed' \in {failed, failed + 1}
  BY FaultCounts DEF IInv, Goroutine
<1>3. LostAreFailures'
  BY <1>1, <1>5, SameLost, LostShrinks DEF IInv
<1>4. watch[c] \in Ifs
  BY DEF IInv, ConnInv, ConnOK, RxOK, Goroutine
<1> QED
  BY <1>2, <1>3, <1>4, GoroutineTypes, GoroutineVpp, GoroutineConn DEF IInv

(* A close that begins preserves the invariant. *)
LEMMA CloseIInv == ASSUME IInv, UNCHANGED <<env, crashed>>, NEW c \in Conns, Close(c) PROVE IInv'
<1>1. /\ UNCHANGED <<socket, sockets, memifs, ifindex, adminUp, linkUp, adaptive, want, failed>>
      /\ pc[c] = "ready" /\ \A d \in Conns \ {c} : pc'[d] = pc[d]
  BY DEF IInv, TypeOK, Close, Goto, vpp
<1>2. ProxyInv'
  BY <1>1, CancelProxies DEF IInv, Close
<1>3. VppInv' /\ LostAreFailures'
  BY <1>1, PlainSteps
<1> QED
  BY <1>2, <1>3, CloseTypes, CloseConn DEF IInv

(* A step of a proxy preserves the invariant. *)
LEMMA ProxyIInv == ASSUME IInv, UNCHANGED env, NEW c \in Conns, NEW k \in Slots, Proxy(c, k) PROVE IInv'
<1>1. UNCHANGED <<want, info, proxy, ifindex, socket, rxmode, watch, event, unwatched, known, granted, closing,
                  sockets, memifs, adminUp, linkUp, adaptive, pc>>
  BY DEF Proxy, goroutine, vpp
<1>2. failed' \in {failed, failed + 1}
  BY FaultCounts DEF IInv, Proxy, accept, dial
<1>3. VppInv' /\ LostAreFailures'
  BY <1>1, <1>2, PlainSteps
<1>4. ConnInv'
  BY <1>1, SameConns DEF IInv
<1>5. TypeOK' /\ WantOK' /\ ProxyInv'
  BY ProxyTypes, ProxyProxies DEF IInv
<1> QED
  BY <1>3, <1>4, <1>5 DEF IInv

(* A stuttering step preserves the invariant. *)
LEMMA SameIInv == ASSUME IInv, UNCHANGED vars PROVE IInv'
<1>1. UNCHANGED <<env, crashed, want, info, proxy, proxies, ifindex, socket, rxmode, watch, event, unwatched, known, granted, closing,
                  sockets, memifs, adminUp, linkUp, adaptive, failed, pc>>
  BY DEF vars, elements, goroutine, vpp
<1>2. TypeOK' /\ WantOK'
  BY <1>1 DEF IInv, TypeOK, WantOK, Wants
<1>3. VppInv' /\ LostAreFailures'
  BY <1>1, PlainSteps
<1>4. ProxyInv' /\ ConnInv'
  BY <1>1, SameProxies, SameConns DEF IInv
<1> QED
  BY <1>2, <1>3, <1>4 DEF IInv

(* Every step preserves the invariant. *)
LEMMA NextIInv == IInv /\ [Next]_vars => IInv'
<1> SUFFICES ASSUME IInv, [Next]_vars PROVE IInv'
  OBVIOUS
<1>1. env.conns \subseteq Conns
  BY MemifAssumption DEF IInv, TypeOK
<1>2. ASSUME NEW c \in env.conns, Request(c) \/ Handler(c) \/ Close(c) \/ Goroutine(c), UNCHANGED <<env, crashed>>
      PROVE  IInv'
  <2>1. c \in Conns
    BY <1>1
  <2> QED
    BY <1>2, <2>1, RequestIInv, CloseIInv, GoroutineIInv, ReplyIInv, createIInv, deleteMemifIInv,
       deleteMemifSocketIInv, createMemifSocketIInv, createMemifIInv, StartProxyIInv, setRxModeIInv, UpIInv
    DEF Handler
<1>3. ASSUME NEW i \in Ifs, LinkUp(i), UNCHANGED <<env, crashed>> PROVE IInv'
  BY <1>3, LinkUpIInv
<1>4. ASSUME NEW c \in env.conns, NEW k \in Slots, Proxy(c, k), UNCHANGED env PROVE IInv'
  BY <1>1, <1>4, ProxyIInv
<1>5. CASE UNCHANGED vars
  BY <1>5, SameIInv
<1> QED
  BY <1>2, <1>3, <1>4, <1>5 DEF Next, Step

(* The invariant always holds. *)
LEMMA AlwaysIInv == Spec => []IInv
BY InitIInv, NextIInv, PTL DEF Spec

-----------------------------------------------------------------------------
(* The theorems *)

(* The metadata of a connection that is closed, or was never established,  *)
(* names no goroutine, proxy or memif; the sockets of VPP that nobody      *)
(* names are at most as many as the calls that failed; and of the proxies  *)
(* only the one in the metadata goes on.                                   *)
THEOREM MemifClean == Spec => []Clean
<1>1. IInv => Clean
  <2> SUFFICES ASSUME IInv PROVE Clean
    OBVIOUS
  <2>1. ClosedIsClean
    BY DEF IInv, ConnInv, ConnOK, Unknown, RxOK, ClosedIsClean
  <2>2. LeaksAreFailures
    <3> DEFINE L == {s \in Sockets : SocketExists(s) /\ \A c \in Conns : socket[c].id # s}
    <3>1. L \subseteq Lost /\ IsFiniteSet(Lost)
      BY MemifAssumption, FS_Subset DEF Lost, Holds
    <3>2. Cardinality(L) <= Cardinality(Lost) /\ Cardinality(L) \in Nat /\ Cardinality(Lost) \in Nat
      BY <3>1, FS_Subset, FS_CardinalityType
    <3> QED
      BY <3>2, MemifAssumption DEF IInv, TypeOK, LostAreFailures, LeaksAreFailures
  <2>3. ProxiesEnd
    BY DEF IInv, ProxyInv, ProxyOK, ProxiesEnd, NoProxy
  <2> QED
    BY <2>1, <2>2, <2>3 DEF IInv, Clean
<1> QED
  BY <1>1, AlwaysIInv, PTL

(* A granted connection is served: by a memif on the socket of its         *)
(* mechanism that no other connection has, whose link is waited for, or by *)
(* a proxy that listens and leads to the socket of the endpoint; each part *)
(* under the condition it is stated with.                                  *)
THEOREM MemifServed == Spec => []Served
<1>1. IInv => Served
  <2> SUFFICES ASSUME IInv PROVE Served
    OBVIOUS
  <2>1. MemifMatches
    <3> SUFFICES ASSUME ~Reuse, NEW c \in Conns, granted[c], ~IsDirect(c)
                 PROVE  /\ ifindex[c] # None /\ memifs[ifindex[c]] = socket[c].id
                        /\ sockets[socket[c].id] = want[c].name
                        /\ \A d \in Conns \ {c} : ifindex[d] # ifindex[c]
      BY DEF MemifMatches
    <3>1. ifindex[c] # None /\ socket[c].name = want[c].name
      BY DEF IInv, ConnInv, ConnOK, Place, Ready
    <3>2. socket[c] # NoSocket /\ memifs[ifindex[c]] = socket[c].id /\ ifindex[c] \in Ifs
      BY <3>1 DEF IInv, VppInv, Owned, TypeOK
    <3>3. memifs[ifindex[c]] # None
      BY <3>2, SocketType DEF IInv
    <3>4. SocketExists(socket[c].id)
      BY <3>2, <3>3 DEF IInv, VppInv, OnSocket
    <3>5. sockets[socket[c].id] = want[c].name
      BY <3>1, <3>2, <3>4, MemifAssumption DEF IInv, VppInv, Named, SocketExists
    <3>6. \A d \in Conns \ {c} : ifindex[d] # ifindex[c]
      BY <3>1 DEF IInv, VppInv, OwnMemif
    <3> QED
      BY <3>1, <3>2, <3>5, <3>6
  <2>2. ProxyTarget
    <3> SUFFICES ASSUME ~Moves, "dial" \notin Faults, NEW c \in Conns, granted[c], IsDirect(c)
                 PROVE  \E k \in Slots : /\ k = proxy[c]
                                         /\ proxies[c][k].listening /\ ~proxies[c][k].done
                                         /\ proxies[c][k].target = want[c].target
      BY DEF ProxyTarget
    <3>1. proxy[c] \in Slots
      BY DEF IInv, ConnInv, ConnOK, Place, Ready, TypeOK
    <3> QED
      BY <3>1 DEF IInv, ProxyInv, ProxyOK
  <2>3. RxModeWatched
    <3> SUFFICES ASSUME NEW c \in Conns \ unwatched, granted[c], ~IsDirect(c)
                 PROVE  Watched(c)
      BY DEF RxModeWatched, Watched
    <3>1. ConnOK(c)
      BY DEF IInv, ConnInv
    <3>2. known[c] /\ pc[c] = "ready" /\ ifindex[c] # None
      BY <3>1 DEF ConnOK, Place, Ready
    <3>3. rxmode[c]
      BY <3>1, <3>2 DEF ConnOK, Place, RxOK
    <3> QED
      BY <3>1, <3>2, <3>3 DEF ConnOK, Kept
  <2> QED
    BY <2>1, <2>2, <2>3 DEF Served
<1> QED
  BY <1>1, AlwaysIInv, PTL
=============================================================================
