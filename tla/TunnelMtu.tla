------------------------------ MODULE TunnelMtu ------------------------------
(***************************************************************************)
(* The MTU of a connection through a tunnel: the mtu elements of the       *)
(* vxlan, wireguard and ipsec mechanisms, which are the same code but for  *)
(* the overhead of their headers.                                          *)
(*                                                                         *)
(* Each element finds the MTU of its end of the tunnel once, in the first  *)
(* request that needs it (init), while other requests go through it.  The  *)
(* client offers its MTU in the mechanism, the server lowers it to its own *)
(* and the MTU of the connection to that.                                  *)
(*                                                                         *)
(* Forwarders.tla puts the two elements into the chains of two forwarders. *)
(* MtuSpec is what the elements rely on: whatever the rest of the chains   *)
(* does, it leaves their fields alone.                                     *)
(***************************************************************************)
EXTENDS Naturals

CONSTANTS Conns,     \* connection ids
          None,
          Word,      \* 2^w: MTUs are words, 2^32 in the code
          Overhead,  \* the headers of the tunnel
          Links,     \* the MTUs the interface with the tunnel IP can have
          DumpFails  \* whether a dump of the interfaces may fail

Sides == {"client", "server"}
Mtus == 0..Word - 1

ASSUME TunnelMtuAssumption ==
    /\ None \notin Conns
    /\ Word \in Nat /\ Overhead \in Mtus
    /\ Links \subseteq Mtus /\ \A l \in Links : l = 0 \/ l > Overhead
    /\ DumpFails \in BOOLEAN

VARIABLES
    link,    \* link[e]: VPP, the MTU of the interface with the tunnel IP
    mtu,     \* mtu[e]: m.mtu of the element
    inited,  \* inited[e]: m.inited
    mutex,   \* mutex[e]: the request that holds m.initMutex
    conn,    \* conn[c]: the MTUs in the request or reply on its way
    pc       \* where a request is in the mtu elements, or Away

mtuVars == <<link, mtu, inited, mutex, conn, pc>>

(* The MTU of the mechanism and of the connection context. *)
Conn == [mech : Mtus, ctx : Mtus]
NoConn == [mech |-> 0, ctx |-> 0]

InitSteps == {"load", "lock", "check", "store", "unlock"}
Away == [at |-> "away", step |-> "away"]
In(e, step) == [at |-> e, step |-> step]
Places == [at : Sides, step : InitSteps \cup {"failed", "clamp"}] \cup {Away}

MtuTypeOK == /\ link \in [Sides -> Links]
             /\ mtu \in [Sides -> Mtus]
             /\ inited \in [Sides -> BOOLEAN]
             /\ mutex \in [Sides -> Conns \cup {None}]
             /\ conn \in [Conns -> Conn]
             /\ pc \in [Conns -> Places]

MtuInit == /\ link \in [Sides -> Links]
           /\ mtu = [e \in Sides |-> 0]
           /\ inited = [e \in Sides |-> FALSE]
           /\ mutex = [e \in Sides |-> None]
           /\ conn = [c \in Conns |-> NoConn]
           /\ pc = [c \in Conns |-> Away]

Goto(c, p) == pc' = [pc EXCEPT ![c] = p]

-----------------------------------------------------------------------------
(* init of an element, called with e = "client" or "server" *)

(* Mutant of getMTU: the headers are added. *)
getMTU_plus(e) == link[e] + Overhead

(* The MTU of the link without the headers. *)
getMTU(e) == (link[e] + Word - Overhead) % Word

(* The first look at inited, without the mutex. *)
InitLoad(e, c) ==
    /\ pc[c] = In(e, "load")
    /\ Goto(c, In(e, IF inited[e] THEN "clamp" ELSE "lock"))
    /\ UNCHANGED <<link, mtu, inited, mutex, conn>>

InitLock(e, c) ==
    /\ pc[c] = In(e, "lock") /\ mutex[e] = None
    /\ mutex' = [mutex EXCEPT ![e] = c]
    /\ Goto(c, In(e, "check"))
    /\ UNCHANGED <<link, mtu, inited, conn>>

(* Mutant of InitCheck: no second look at inited. *)
InitCheck_once(e, c) ==
    /\ pc[c] = In(e, "check")
    /\ \/ /\ link[e] # 0
          /\ mtu' = [mtu EXCEPT ![e] = getMTU(e)]
          /\ Goto(c, In(e, "store"))
          /\ UNCHANGED mutex
       \/ /\ link[e] = 0 \/ DumpFails
          /\ mtu' = [mtu EXCEPT ![e] = 0]
          /\ mutex' = [mutex EXCEPT ![e] = None]
          /\ Goto(c, In(e, "failed"))
    /\ UNCHANGED <<link, inited, conn>>

(* The second look; then the dump of the interfaces, whose result is       *)
(* stored even when it is an error: the interface is not found, has MTU    *)
(* zero, or the dump fails.                                                *)
InitCheck(e, c) ==
    /\ pc[c] = In(e, "check")
    /\ \/ /\ inited[e]
          /\ Goto(c, In(e, "unlock"))
          /\ UNCHANGED <<mtu, mutex>>
       \/ /\ ~inited[e] /\ link[e] # 0
          /\ mtu' = [mtu EXCEPT ![e] = getMTU(e)]
          /\ Goto(c, In(e, "store"))
          /\ UNCHANGED mutex
       \/ /\ ~inited[e] /\ (link[e] = 0 \/ DumpFails)
          /\ mtu' = [mtu EXCEPT ![e] = 0]
          /\ mutex' = [mutex EXCEPT ![e] = None]
          /\ Goto(c, In(e, "failed"))
    /\ UNCHANGED <<link, inited, conn>>

InitStore(e, c) ==
    /\ pc[c] = In(e, "store")
    /\ inited' = [inited EXCEPT ![e] = TRUE]
    /\ Goto(c, In(e, "unlock"))
    /\ UNCHANGED <<link, mtu, mutex, conn>>

InitUnlock(e, c) ==
    /\ pc[c] = In(e, "unlock")
    /\ mutex' = [mutex EXCEPT ![e] = None]
    /\ Goto(c, In(e, "clamp"))
    /\ UNCHANGED <<link, mtu, inited, conn>>

(* The request fails with the error of init. *)
InitFailed(e, c) ==
    /\ pc[c] = In(e, "failed")
    /\ conn' = [conn EXCEPT ![c] = NoConn]
    /\ Goto(c, Away)
    /\ UNCHANGED <<link, mtu, inited, mutex>>

-----------------------------------------------------------------------------
(* The mtu elements of the mechanisms *)

(* An MTU that is not set or too large is replaced. *)
Lower(m, limit) == IF m = 0 \/ m > limit THEN limit ELSE m

(* mtuClient.Request: the mechanism, be it new or of the connection. *)
ClientClamp(c) ==
    /\ pc[c] = In("client", "clamp")
    /\ conn' = [conn EXCEPT ![c].mech = Lower(@, mtu["client"])]
    /\ Goto(c, In("server", "load"))
    /\ UNCHANGED <<link, mtu, inited, mutex>>

(* Mutant of ServerClamp: the context gets the MTU of the server. *)
ServerClamp_own(c) ==
    /\ pc[c] = In("server", "clamp")
    /\ conn' = [conn EXCEPT ![c] = [mech |-> Lower(@.mech, mtu["server"]),
                                    ctx |-> Lower(@.ctx, mtu["server"])]]
    /\ Goto(c, Away)
    /\ UNCHANGED <<link, mtu, inited, mutex>>

(* mtuServer.Request: the mechanism to the MTU of the server, the context  *)
(* to that of the mechanism.                                               *)
ServerClamp(c) ==
    /\ pc[c] = In("server", "clamp")
    /\ LET m == Lower(conn[c].mech, mtu["server"])
       IN  conn' = [conn EXCEPT ![c] = [mech |-> m, ctx |-> Lower(@.ctx, m)]]
    /\ Goto(c, Away)
    /\ UNCHANGED <<link, mtu, inited, mutex>>

InitStep(e, c) == InitLoad(e, c) \/ InitLock(e, c) \/ InitCheck(e, c)
                  \/ InitStore(e, c) \/ InitUnlock(e, c) \/ InitFailed(e, c)

(* The request is elsewhere in the chains, and may come to the client. *)
Elsewhere(c) == /\ pc[c] = Away
                /\ \E r \in Conn : conn' = [conn EXCEPT ![c] = r]
                /\ \E p \in {Away, In("client", "load")} : Goto(c, p)
                /\ UNCHANGED <<link, mtu, inited, mutex>>

MtuNext == \E c \in Conns : \/ \E e \in Sides : InitStep(e, c)
                            \/ ClientClamp(c) \/ ServerClamp(c) \/ Elsewhere(c)

MtuSpec == MtuInit /\ [][MtuNext]_mtuVars

-----------------------------------------------------------------------------
(* Properties *)

(* A request that uses m.mtu, which it reads without the mutex, finds the  *)
(* MTU of its end, whatever other requests are doing in init.              *)
ReadIsInitialised ==
    \A e \in Sides, c \in Conns : pc[c] = In(e, "clamp") => mtu[e] = getMTU(e)

(* Who looks at inited for the second time, or has not unlocked since, is  *)
(* the one that holds the mutex.                                           *)
MutexHeld ==
    \A e \in Sides, c \in Conns, s \in {"check", "store", "unlock"} :
        pc[c] = In(e, s) => mutex[e] = c

(* inited is set after m.mtu, and once it is set m.mtu stays as it is. *)
InitedIsSet ==
    \A e \in Sides :
        /\ inited[e] => mtu[e] = getMTU(e)
        /\ \A c \in Conns : pc[c] = In(e, "store") => mtu[e] = getMTU(e)
        /\ \A c \in Conns, s \in {"unlock", "clamp"} : pc[c] = In(e, s) => inited[e]

(* The inductive invariant behind ReadIsInitialised. *)
MtuInv == MtuTypeOK /\ MutexHeld /\ InitedIsSet
=============================================================================
