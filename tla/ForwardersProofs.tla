-------------------------- MODULE ForwardersProofs --------------------------
(***************************************************************************)
(* The double-checked init of the mtu elements, for any number of          *)
(* connections, any overhead and any MTUs of the links.  Then the chains   *)
(* of two forwarders.  They run the mtu elements as TunnelMtu specifies,   *)
(* so what was proved of those holds in the chains; and their metadata     *)
(* matches the interfaces of VPP, a granted connection is wired end to     *)
(* end, and stays so until it is closed.                                   *)
(***************************************************************************)
EXTENDS Forwarders, Integers, TLAPS

-----------------------------------------------------------------------------
(* The mtu elements *)

(* What getMTU stores is an MTU, also when the subtraction wraps around. *)
LEMMA GetMTUType ==
    ASSUME MtuTypeOK, NEW e \in Sides
    PROVE  getMTU(e) \in Mtus
<1>1. Word \in Int /\ Word > 0 /\ Overhead \in Int
  BY TunnelMtuAssumption DEF Mtus
<1>2. link[e] \in Int
  <2>1. link[e] \in Links
    BY DEF MtuTypeOK
  <2>2. link[e] \in Mtus
    BY <2>1, TunnelMtuAssumption
  <2>3. QED
    BY <1>1, <2>2 DEF Mtus
<1>3. link[e] + Word - Overhead \in Int
  BY <1>1, <1>2
<1>4. \A n \in Int : n % Word \in 0..Word - 1
  BY <1>1
<1>5. QED
  BY <1>3, <1>4 DEF getMTU, Mtus

(* An MTU that is lowered to another is an MTU. *)
LEMMA LowerType ==
    ASSUME NEW m \in Mtus, NEW limit \in Mtus
    PROVE  Lower(m, limit) \in Mtus
BY DEF Lower

(* Two places are the same only when the side and the step are. *)
LEMMA InInjective ==
    ASSUME NEW e, NEW f, NEW s, NEW t
    PROVE  /\ In(e, s) = In(f, t) => e = f /\ s = t
           /\ e \in Sides => In(e, s) # Away
BY DEF In, Away, Sides

(* No request is in the elements at first, and nothing is set. *)
LEMMA MtuInitInv == MtuInit => MtuInv
<1> SUFFICES ASSUME MtuInit PROVE MtuInv
  OBVIOUS
<1>1. 0 \in Mtus
  BY TunnelMtuAssumption DEF Mtus
<1>2. MtuTypeOK
  BY <1>1 DEF MtuInit, MtuTypeOK, Places, Conn, NoConn
<1>3. MutexHeld /\ InitedIsSet
  BY InInjective DEF MtuInit, MutexHeld, InitedIsSet
<1>4. QED
  BY <1>2, <1>3 DEF MtuInv
(* One step of an element keeps the types. *)
LEMMA MtuNextType == MtuTypeOK /\ [MtuNext]_mtuVars => MtuTypeOK'
<1> SUFFICES ASSUME MtuTypeOK, [MtuNext]_mtuVars PROVE MtuTypeOK'
  OBVIOUS
<1>z. 0 \in Mtus
  BY TunnelMtuAssumption DEF Mtus
<1>p. /\ \A e \in Sides, s \in InitSteps \cup {"failed", "clamp"} : In(e, s) \in Places
      /\ Away \in Places
  BY DEF In, Places
<1>1. ASSUME NEW c \in Conns, NEW e \in Sides, InitStep(e, c) PROVE MtuTypeOK'
  <2>1. CASE InitLoad(e, c)
    BY <2>1, <1>p DEF MtuTypeOK, InitLoad, Goto, InitSteps
  <2>2. CASE InitLock(e, c)
    BY <2>2, <1>p DEF MtuTypeOK, InitLock, Goto, InitSteps
  <2>3. CASE InitCheck(e, c)
    <3>1. getMTU(e) \in Mtus
      BY GetMTUType
    <3>2. /\ mtu' \in [Sides -> Mtus]
          /\ mutex' \in [Sides -> Conns \cup {None}]
      BY <2>3, <3>1, <1>z DEF MtuTypeOK, InitCheck
    <3>3. pc' \in [Conns -> Places]
      BY <2>3, <1>p DEF MtuTypeOK, InitCheck, Goto, InitSteps
    <3>4. QED
      BY <2>3, <3>2, <3>3 DEF MtuTypeOK, InitCheck
  <2>4. CASE InitStore(e, c)
    BY <2>4, <1>p DEF MtuTypeOK, InitStore, Goto, InitSteps
  <2>5. CASE InitUnlock(e, c)
    BY <2>5, <1>p DEF MtuTypeOK, InitUnlock, Goto, InitSteps
  <2>6. CASE InitFailed(e, c)
    BY <2>6, <1>p, <1>z DEF MtuTypeOK, InitFailed, Goto, Conn, NoConn
  <2>7. QED
    BY <1>1, <2>1, <2>2, <2>3, <2>4, <2>5, <2>6 DEF InitStep
<1>2. ASSUME NEW c \in Conns, ClientClamp(c) PROVE MtuTypeOK'
  <2>1. Lower(conn[c].mech, mtu["client"]) \in Mtus
    BY LowerType DEF MtuTypeOK, Conn, Sides
  <2>2. conn' \in [Conns -> Conn]
    BY <1>2, <2>1 DEF MtuTypeOK, ClientClamp, Conn
  <2>3. pc' \in [Conns -> Places]
    BY <1>2, <1>p DEF MtuTypeOK, ClientClamp, Goto, InitSteps, Sides
  <2>4. QED
    BY <1>2, <2>2, <2>3 DEF MtuTypeOK, ClientClamp
<1>3. ASSUME NEW c \in Conns, ServerClamp(c) PROVE MtuTypeOK'
  <2>1. Lower(conn[c].mech, mtu["server"]) \in Mtus
    BY LowerType DEF MtuTypeOK, Conn, Sides
  <2>2. Lower(conn[c].ctx, Lower(conn[c].mech, mtu["server"])) \in Mtus
    BY <2>1, LowerType DEF MtuTypeOK, Conn
  <2>3. conn' \in [Conns -> Conn]
    BY <1>3, <2>1, <2>2 DEF MtuTypeOK, ServerClamp, Conn
  <2>4. pc' \in [Conns -> Places]
    BY <1>3, <1>p DEF MtuTypeOK, ServerClamp, Goto
  <2>5. QED
    BY <1>3, <2>3, <2>4 DEF MtuTypeOK, ServerClamp
<1>4. ASSUME NEW c \in Conns, Elsewhere(c) PROVE MtuTypeOK'
  BY <1>4, <1>p DEF MtuTypeOK, Elsewhere, Goto, InitSteps, Sides
<1>5. CASE UNCHANGED mtuVars
  BY <1>5 DEF MtuTypeOK, mtuVars
<1>6. QED
  BY <1>1, <1>2, <1>3, <1>4, <1>5 DEF MtuNext

(* A step of c moves nobody else, and a place tells its side and its step. *)
LEMMA MtuNextInv == MtuInv /\ [MtuNext]_mtuVars => MtuInv'
<1> SUFFICES ASSUME MtuInv, [MtuNext]_mtuVars PROVE MtuInv'
  OBVIOUS
<1>t. MtuTypeOK /\ MutexHeld /\ InitedIsSet
  BY DEF MtuInv
<1>u. MtuTypeOK'
  BY <1>t, MtuNextType
<1>1. ASSUME NEW c \in Conns, NEW e \in Sides, InitStep(e, c)
      PROVE  MutexHeld' /\ InitedIsSet'
  <2>1. CASE InitLoad(e, c)
    BY <2>1, <1>t, InInjective DEF InitLoad, Goto, MtuTypeOK, MutexHeld, InitedIsSet, getMTU
  <2>2. CASE InitLock(e, c)
    BY <2>2, <1>t, InInjective, TunnelMtuAssumption
       DEF InitLock, Goto, MtuTypeOK, MutexHeld, InitedIsSet, getMTU
  <2>3. CASE InitCheck(e, c)
    <3>1. CASE inited[e]
      BY <2>3, <3>1, <1>t, InInjective
         DEF InitCheck, Goto, MtuTypeOK, MutexHeld, InitedIsSet, getMTU
    <3>2. CASE ~inited[e]
      (* the others are in none of the places that need m.mtu or the mutex *)
      <4>1. \A d \in Conns, s \in {"check", "store", "unlock", "clamp"} :
               pc[d] = In(e, s) => d = c /\ s = "check"
        BY <2>3, <3>2, <1>t, InInjective DEF InitCheck, MutexHeld, InitedIsSet
      <4>2. MutexHeld'
        BY <2>3, <3>2, <4>1, <1>t, InInjective DEF InitCheck, Goto, MtuTypeOK, MutexHeld
      <4>3. InitedIsSet'
        BY <2>3, <3>2, <4>1, <1>t, InInjective
           DEF InitCheck, Goto, MtuTypeOK, InitedIsSet, getMTU
      <4>4. QED
        BY <4>2, <4>3
    <3>3. QED
      BY <3>1, <3>2
  <2>4. CASE InitStore(e, c)
    BY <2>4, <1>t, InInjective DEF InitStore, Goto, MtuTypeOK, MutexHeld, InitedIsSet, getMTU
  <2>5. CASE InitUnlock(e, c)
    BY <2>5, <1>t, InInjective DEF InitUnlock, Goto, MtuTypeOK, MutexHeld, InitedIsSet, getMTU
  <2>6. CASE InitFailed(e, c)
    BY <2>6, <1>t, InInjective DEF InitFailed, Goto, MtuTypeOK, MutexHeld, InitedIsSet, getMTU
  <2>7. QED
    BY <1>1, <2>1, <2>2, <2>3, <2>4, <2>5, <2>6 DEF InitStep
<1>2. ASSUME NEW c \in Conns, ClientClamp(c) PROVE MutexHeld' /\ InitedIsSet'
  BY <1>2, <1>t, InInjective DEF ClientClamp, Goto, MtuTypeOK, MutexHeld, InitedIsSet, getMTU
<1>3. ASSUME NEW c \in Conns, ServerClamp(c) PROVE MutexHeld' /\ InitedIsSet'
  BY <1>3, <1>t, InInjective DEF ServerClamp, Goto, MtuTypeOK, MutexHeld, InitedIsSet, getMTU
<1>4. ASSUME NEW c \in Conns, Elsewhere(c) PROVE MutexHeld' /\ InitedIsSet'
  BY <1>4, <1>t, InInjective DEF Elsewhere, Goto, MtuTypeOK, MutexHeld, InitedIsSet, getMTU
<1>5. ASSUME UNCHANGED mtuVars PROVE MutexHeld' /\ InitedIsSet'
  BY <1>5, <1>t DEF mtuVars, MutexHeld, InitedIsSet, getMTU
<1>6. MutexHeld' /\ InitedIsSet'
  BY <1>1, <1>2, <1>3, <1>4, <1>5 DEF MtuNext
<1>7. QED
  BY <1>u, <1>6 DEF MtuInv

(* A request that uses m.mtu finds it initialised: the second look at      *)
(* inited under the mutex keeps every other request from writing it.       *)
THEOREM MtuInitialised == MtuSpec => []ReadIsInitialised
<1>1. MtuInit => MtuInv
  BY MtuInitInv
<1>2. MtuInv /\ [MtuNext]_mtuVars => MtuInv'
  BY MtuNextInv
<1>3. MtuInv => ReadIsInitialised
  BY DEF MtuInv, InitedIsSet, ReadIsInitialised
<1>4. QED
  BY <1>1, <1>2, <1>3, PTL DEF MtuSpec

-----------------------------------------------------------------------------
(* The chains of the forwarders *)

(* A position has the fields of one, whatever they are. *)
IsPos(p) == p = Pos(p.to, p.el, p.step, p.call, p.from)

(* A handler that is not among the mtu elements has no place there. *)
HopInv == /\ hop = [c \in Conns |-> hop[c]]
          /\ \A c \in Conns : IsPos(hop[c]) /\ (hop[c] # Asking => pc[c] = Away)

(* What is asked for in a refresh is what was granted. *)
LastInv == last \in [Conns -> Conn \cup {None}]

FwdInv == MtuTypeOK /\ env \in Envs /\ LastInv /\ HopInv

(* The handler of c goes on to a position behind the mtu elements. *)
Moved(c) == \E p : IsPos(p) /\ p # Asking /\ Move(c, p)

(* Positions are told apart by their fields. *)
LEMMA PosFields ==
    ASSUME NEW to, NEW el, NEW step, NEW call, NEW from
    PROVE  /\ IsPos(Pos(to, el, step, call, from))
           /\ to # "ask" => Pos(to, el, step, call, from) # Asking
           /\ Answering # Asking /\ Idle # Asking
           /\ IsPos(Asking) /\ IsPos(Answering) /\ IsPos(Idle)
BY DEF Pos, IsPos, Asking, Answering, Idle

(* Wherever an element goes on, it is not to the mtu elements. *)
LEMMA ElementMoves ==
    ASSUME HopInv, NEW c \in Conns, hop[c].to \in {"up", "down"},
           \/ \E s : Step(c, s) \/ FailAt(c, s)
           \/ NextUp(c) \/ NextDown(c) \/ Fail(c) \/ NextCall(c)
    PROVE  Moved(c)
<1>0. IsPos(hop[c])
  BY DEF HopInv
<1>1. ASSUME NEW s, Step(c, s) PROVE Moved(c)
  <2>1. [hop[c] EXCEPT !.step = s] = Pos(hop[c].to, hop[c].el, s, hop[c].call, hop[c].from)
    BY <1>0 DEF IsPos, Pos
  <2>2. QED
    BY <1>1, <2>1, PosFields DEF Step, Moved
<1>2. ASSUME NextCall(c) PROVE Moved(c)
  <2>1. [hop[c] EXCEPT !.call = @ + 1]
          = Pos(hop[c].to, hop[c].el, hop[c].step, hop[c].call + 1, hop[c].from)
    BY <1>0 DEF IsPos, Pos
  <2>2. QED
    BY <1>2, <2>1, PosFields DEF NextCall, Moved
<1>3. ASSUME NEW s, FailAt(c, s) PROVE Moved(c)
  BY <1>3, PosFields DEF FailAt, Moved
<1>4. ASSUME NextUp(c) PROVE Moved(c)
  BY <1>4, PosFields DEF NextUp, Up, Moved
<1>5. ASSUME NextDown(c) \/ Fail(c) PROVE Moved(c)
  BY <1>5, PosFields DEF NextDown, Fail, Down, Moved
<1>6. QED
  BY <1>1, <1>2, <1>3, <1>4, <1>5

(* A step that leaves the mtu elements alone. *)
Quiet(c) == hop[c] # Asking /\ Moved(c) /\ UNCHANGED <<mtuVars, last>>

(* The elements of the kernel mechanisms, the tunnel and the MTU of the    *)
(* interface leave the mtu elements alone.                                 *)
LEMMA InterfacesQuiet ==
    ASSUME HopInv, NEW c \in Conns, Kernel(c) \/ TunnelStep(c) \/ SetUp(c)
    PROVE  Quiet(c)
<1>0. hop[c].to \in {"up", "down"} => hop[c] # Asking
  BY DEF Asking, Pos
<1> DEFINE Goes == \/ \E s : Step(c, s) \/ FailAt(c, s)
                   \/ NextUp(c) \/ NextDown(c) \/ Fail(c) \/ NextCall(c)
           Here2 == hop[c].to \in {"up", "down"}
           Rest == UNCHANGED <<mtuVars, last>>
<1>1. CASE TapStep(c)
  <2>1. Here2 /\ Rest
    BY <1>1 DEF TapStep, TapCheck, TapCreate, TapSetup, TapDel, Here, client
  <2>2. Goes
    BY <1>1 DEF TapStep, TapCheck, TapCreate, TapSetup, TapDel
  <2>3. QED
    BY <2>1, <2>2, <1>0, ElementMoves DEF Quiet
<1>2. CASE VethStep(c) \/ VethMtu(c)
  <2>1. Here2 /\ Rest
    BY <1>2 DEF VethStep, Veth, VethDel, VethMtu, Here, client
  <2>2. Goes
    BY <1>2 DEF VethStep, Veth, VethDel, VethMtu
  <2>3. QED
    BY <2>1, <2>2, <1>0, ElementMoves DEF Quiet
<1>3. CASE AfPacketStep(c) \/ NeighborStep(c)
  <2>1. Here2 /\ Rest
    BY <1>3 DEF AfPacketStep, AfPacket, AfPacketDel, NeighborStep, Neighbor, NeighborDel,
               Here, client
  <2>2. Goes
    BY <1>3 DEF AfPacketStep, AfPacket, AfPacketDel, NeighborStep, Neighbor, NeighborDel
  <2>3. QED
    BY <2>1, <2>2, <1>0, ElementMoves DEF Quiet
<1>4. CASE TunnelStep(c) \/ SetUp(c)
  <2>1. Here2 /\ Rest
    BY <1>4 DEF TunnelStep, Tunnel, TunnelDel, SetUp, Here, client
  <2>2. Goes
    BY <1>4 DEF TunnelStep, Tunnel, TunnelDel, SetUp
  <2>3. QED
    BY <2>1, <2>2, <1>0, ElementMoves DEF Quiet
<1>5. QED
  BY <1>1, <1>2, <1>3, <1>4
     DEF Kernel, kernelTapServer, kernelTapClient, kernelVethPairServer, kernelVethPairClient,
         vethMtuServer, vethMtuClient, afPacketServer, afPacketClient,
         ipNeighborServer, ipNeighborClient

(* The MTUs of c change behind the mtu elements, or when it is answered. *)
Outside(c) == /\ hop[c] # Asking /\ Moved(c)
              /\ \E r \in Conn : conn' = [conn EXCEPT ![c] = r]
              /\ UNCHANGED <<link, mtu, inited, mutex, pc>>

(* Zero is an MTU, so that no MTUs are MTUs too. *)
LEMMA NoConnType == NoConn \in Conn
BY TunnelMtuAssumption DEF NoConn, Conn, Mtus

(* A handler that moves behind the mtu elements keeps HopInv. *)
LEMMA MovedHopInv ==
    ASSUME HopInv, NEW c \in Conns, hop[c] # Asking, Moved(c), UNCHANGED pc
    PROVE  HopInv'
<1>1. PICK p : IsPos(p) /\ p # Asking /\ Move(c, p)
  BY DEF Moved
<1>2. hop' = [d \in Conns |-> IF d = c THEN p ELSE hop[d]]
  BY <1>1 DEF Move, HopInv
<1>3. QED
  BY <1>1, <1>2 DEF HopInv, IsPos, Pos, Asking, Away

(* Joining and separating the interfaces. *)
LEMMA XConnectOutside ==
    ASSUME FwdInv, NEW c \in Conns, l2XconnectServer(c) \/ l3XconnectServer(c)
    PROVE  (Quiet(c) \/ Outside(c)) /\ LastInv'
<1>0. HopInv /\ (hop[c].to \in {"up", "down"} => hop[c] # Asking)
  BY DEF Asking, Pos, FwdInv
<1>1. ASSUME NEW calls, XConnectDel(c, calls) PROVE Quiet(c) /\ LastInv'
  <2>1. hop[c].to \in {"up", "down"} /\ UNCHANGED <<mtuVars, last>>
    BY <1>1 DEF XConnectDel, Here, client
  <2>2. NextDown(c) \/ NextCall(c)
    BY <1>1 DEF XConnectDel
  <2>3. QED
    BY <2>1, <2>2, <1>0, ElementMoves DEF Quiet, LastInv, FwdInv
<1>2. ASSUME NEW calls, XConnect(c, calls) PROVE (Quiet(c) \/ Outside(c)) /\ LastInv'
  <2>1. hop[c].to \in {"up", "down"} /\ UNCHANGED <<link, mtu, inited, mutex, pc>>
    BY <1>2 DEF XConnect, Here
  <2>2. CASE UNCHANGED <<client, conn>> /\ (NextUp(c) \/ NextCall(c) \/ Fail(c))
    BY <2>1, <2>2, <1>0, ElementMoves DEF Quiet, LastInv, FwdInv, client, mtuVars
  <2>3. CASE /\ Move(c, Idle) /\ last' = [last EXCEPT ![c] = conn[c]]
             /\ conn' = [conn EXCEPT ![c] = NoConn]
    <3>1. LastInv'
      BY <2>3 DEF LastInv, FwdInv, MtuTypeOK
    <3>2. Moved(c)
      BY <2>3, PosFields DEF Moved
    <3>3. QED
      BY <2>1, <2>3, <3>1, <3>2, <1>0, NoConnType DEF Outside
  <2>4. QED
    BY <1>2, <2>2, <2>3 DEF XConnect, Answer
<1>3. QED
  BY <1>1, <1>2 DEF l2XconnectServer, l3XconnectServer

(* What is behind the forwarders answers or fails, and the end of a close. *)
LEMMA BehindOutside ==
    ASSUME FwdInv, NEW c \in Conns, NextHop(c) \/ Finish(c)
    PROVE  Outside(c) /\ LastInv'
<1>0. PICK r \in Conn : r = conn[c]
  BY DEF FwdInv, MtuTypeOK
<1>1. CASE Finish(c)
  <2>1. hop[c] # Asking /\ Moved(c)
    BY <1>1, PosFields DEF Finish, Here, Asking, Pos, Moved
  <2>2. LastInv'
    BY <1>1 DEF Finish, LastInv, FwdInv
  <2>3. QED
    BY <1>1, <2>1, <2>2, NoConnType DEF Finish, Outside
<1>2. CASE NextHop(c)
  <2>1. hop[c] # Asking /\ LastInv' /\ UNCHANGED <<link, mtu, inited, mutex, pc>>
    BY <1>2, PosFields DEF NextHop, client, LastInv, FwdInv
  <2>2. ASSUME NEW b \in env.behind, conn' = [conn EXCEPT ![c].ctx = Lower(@, b)]
        PROVE  \E q \in Conn : conn' = [conn EXCEPT ![c] = q]
    <3>1. b \in Mtus
      BY ForwardersAssumption DEF FwdInv
    <3>2. [r EXCEPT !.ctx = Lower(r.ctx, b)] \in Conn
      BY <3>1, LowerType DEF Conn
    <3>3. conn' = [conn EXCEPT ![c] = [r EXCEPT !.ctx = Lower(r.ctx, b)]]
      BY <2>2, <1>0
    <3>4. QED
      BY <3>2, <3>3
  <2>3. Moved(c)
    BY <1>2, PosFields DEF NextHop, Moved, Up
  <2>4. QED
    BY <1>2, <2>1, <2>2, <2>3, NoConnType DEF NextHop, Outside
<1>3. QED
  BY <1>1, <1>2

(* A request starts with the MTUs that were granted, or with new ones, and *)
(* goes to the element of the client.                                      *)
LEMMA RequestElsewhere ==
    ASSUME FwdInv, NEW c \in Conns, Request(c)
    PROVE  Elsewhere(c) /\ HopInv' /\ LastInv'
<1>1. hop[c] # Asking /\ pc[c] = Away
  BY PosFields DEF Request, FwdInv, HopInv
<1>2. \E q \in Conn : conn' = [conn EXCEPT ![c] = q]
  <2>1. PICK r \in IF last[c] = None THEN [mech : {0}, ctx : env.offers] ELSE {last[c]} :
          conn' = [conn EXCEPT ![c] = [r EXCEPT !.ctx = setConnContextMTU(@)]]
    BY DEF Request
  <2>2. env.offers \subseteq Mtus /\ 0 \in Mtus /\ Jumbo \in Mtus
    <3>1. env.offers \subseteq Offers
      BY ForwardersAssumption DEF FwdInv
    <3>2. 0 \in Mtus
      BY TunnelMtuAssumption DEF Mtus
    <3>3. QED
      BY <3>1, <3>2, ForwardersAssumption
  <2>3. r \in Conn
    BY <2>2 DEF FwdInv, LastInv, Conn
  <2>4. [r EXCEPT !.ctx = setConnContextMTU(@)] \in Conn
    BY <2>2, <2>3 DEF Conn, setConnContextMTU
  <2>5. QED
    BY <2>1, <2>4
<1>3. Elsewhere(c)
  BY <1>1, <1>2 DEF Request, Elsewhere
<1>4. HopInv'
  <2>1. hop' = [d \in Conns |-> IF d = c THEN Asking ELSE hop[d]]
    BY DEF Request, Move, FwdInv, HopInv
  <2>2. pc' = [d \in Conns |-> IF d = c THEN In("client", "load") ELSE pc[d]]
    BY DEF Request, Goto, FwdInv, MtuTypeOK
  <2>3. IsPos(Asking)
    BY PosFields
  <2>4. QED
    BY <2>1, <2>2, <2>3 DEF FwdInv, HopInv, IsPos, Pos, Asking, Away
<1>5. LastInv'
  BY DEF Request, FwdInv, LastInv
<1>6. QED
  BY <1>3, <1>4, <1>5

(* While a request is among the mtu elements its position says so. *)
LEMMA AskMtuHop ==
    ASSUME FwdInv, NEW c \in Conns, AskMtu(c)
    PROVE  HopInv' /\ LastInv'
<1>1. \E p : pc' = [pc EXCEPT ![c] = p]
  BY DEF AskMtu, InitStep, InitLoad, InitLock, InitCheck, InitStore, InitUnlock, InitFailed,
         ClientClamp, ServerClamp, Goto
<1>2. PICK p : pc' = [d \in Conns |-> IF d = c THEN p ELSE pc[d]]
  BY <1>1 DEF FwdInv, MtuTypeOK
<1>3. \E q \in {Asking, Idle, Answering} :
          Move(c, q) /\ (q # Asking => pc'[c] = Away)
  BY PosFields DEF AskMtu
<1>4. PICK q \in {Asking, Idle, Answering} :
          Move(c, q) /\ (q # Asking => pc'[c] = Away)
  BY <1>3
<1>5. hop' = [d \in Conns |-> IF d = c THEN q ELSE hop[d]]
  BY <1>4 DEF Move, FwdInv, HopInv
<1>6. IsPos(q)
  BY PosFields
<1>7. HopInv'
  BY <1>2, <1>4, <1>5, <1>6 DEF FwdInv, HopInv, IsPos, Pos, Asking, Away
<1>8. LastInv'
  BY DEF AskMtu, client, FwdInv, LastInv
<1>9. QED
  BY <1>7, <1>8

(* What leaves the mtu elements alone, or changes the MTUs outside of      *)
(* them, is what TunnelMtu allows the rest of the chains to do.            *)
LEMMA QuietOrOutside ==
    ASSUME FwdInv, NEW c \in Conns, Quiet(c) \/ Outside(c)
    PROVE  [MtuNext]_mtuVars /\ HopInv'
<1>1. CASE Quiet(c)
  <2>1. UNCHANGED mtuVars /\ UNCHANGED pc
    BY <1>1 DEF Quiet, mtuVars
  <2>2. QED
    BY <1>1, <2>1, MovedHopInv DEF Quiet, FwdInv
<1>2. CASE Outside(c)
  <2>1. pc[c] = Away
    BY <1>2 DEF Outside, FwdInv, HopInv
  <2>2. Goto(c, Away)
    BY <1>2, <2>1 DEF Outside, Goto, FwdInv, MtuTypeOK
  <2>3. Elsewhere(c)
    BY <1>2, <2>1, <2>2 DEF Outside, Elsewhere
  <2>4. HopInv'
    BY <1>2, MovedHopInv DEF Outside, FwdInv
  <2>5. QED
    BY <2>3, <2>4 DEF MtuNext
<1>3. QED
  BY <1>1, <1>2

(* Every step of the chains is a step of the mtu elements or of what is    *)
(* around them.                                                            *)
LEMMA FwdStep == FwdInv /\ [Next]_vars => [MtuNext]_mtuVars /\ FwdInv'
<1> SUFFICES ASSUME FwdInv, [Next]_vars PROVE [MtuNext]_mtuVars /\ FwdInv'
  OBVIOUS
<1>1. CASE UNCHANGED vars
  BY <1>1 DEF vars, client, mtuVars, FwdInv, MtuTypeOK, LastInv, HopInv
<1>2. CASE Next
  <2>1. PICK c \in env.conns : \/ Request(c) \/ Handle(c) \/ Close(c)
                              \/ \E e \in Sides : HostLost(e, c)
    BY <1>2 DEF Next
  <2>2. c \in Conns
    BY ForwardersAssumption DEF FwdInv
  <2>3. [MtuNext]_mtuVars /\ HopInv' /\ LastInv'
    <3>1. CASE Request(c)
      BY <3>1, <2>2, RequestElsewhere DEF MtuNext
    <3>2. CASE AskMtu(c)
      <4>1. MtuNext
        BY <3>2, <2>2 DEF AskMtu, MtuNext
      <4>2. QED
        BY <3>2, <4>1, <2>2, AskMtuHop
    <3>3. CASE NextHop(c) \/ Finish(c)
      BY <3>3, <2>2, BehindOutside, QuietOrOutside
    <3>4. CASE Kernel(c) \/ TunnelStep(c) \/ SetUp(c)
      <4>1. Quiet(c)
        BY <3>4, <2>2, InterfacesQuiet DEF FwdInv
      <4>2. LastInv'
        BY <4>1 DEF Quiet, FwdInv, LastInv
      <4>3. QED
        BY <4>1, <4>2, <2>2, QuietOrOutside
    <3>5. CASE l2XconnectServer(c) \/ l3XconnectServer(c)
      BY <3>5, <2>2, XConnectOutside, QuietOrOutside
    <3>6. CASE Close(c)
      <4>1. Quiet(c)
        BY <3>6, PosFields DEF Close, Quiet, Moved, Down
      <4>2. LastInv'
        BY <4>1 DEF Quiet, FwdInv, LastInv
      <4>3. QED
        BY <4>1, <4>2, <2>2, QuietOrOutside
    <3>7. CASE \E e \in Sides : HostLost(e, c)
      BY <3>7 DEF HostLost, client, mtuVars, FwdInv, HopInv, LastInv
    <3>8. QED
      BY <2>1, <3>1, <3>2, <3>3, <3>4, <3>5, <3>6, <3>7
         DEF Handle, vxlanServer, vxlanClient, mtuServer, mtuClient
  <2>4. MtuTypeOK'
    BY <2>3, MtuNextType DEF FwdInv
  <2>5. (env \in Envs)'
    BY <1>2 DEF Next, FwdInv
  <2>6. QED
    BY <2>3, <2>4, <2>5 DEF FwdInv
<1>3. QED
  BY <1>1, <1>2

(* The chains of two forwarders run the mtu elements as TunnelMtu says. *)
THEOREM ForwardersRunMtu == Spec => MtuSpec
<1>1. Init => MtuInit /\ FwdInv
  <2> SUFFICES ASSUME Init PROVE MtuInit /\ FwdInv
    OBVIOUS
  <2>1. MtuInit
    BY DEF Init
  <2>2. MtuTypeOK
    BY <2>1, MtuInitInv DEF MtuInv
  <2>3. LastInv
    BY DEF Init, LastInv
  <2>4. HopInv
    BY PosFields DEF Init, MtuInit, HopInv
  <2>5. QED
    BY <2>1, <2>2, <2>3, <2>4 DEF Init, FwdInv
<1>2. FwdInv /\ [Next]_vars => [MtuNext]_mtuVars /\ FwdInv'
  BY FwdStep
<1>3. QED
  BY <1>1, <1>2, PTL DEF Spec, MtuSpec

(* In the chains of the forwarders, with every failure they can meet, a    *)
(* request that uses the MTU of an element finds it initialised.           *)
THEOREM ForwardersReadInitialised == Spec => []ReadIsInitialised
BY ForwardersRunMtu, MtuInitialised, PTL

-----------------------------------------------------------------------------
(***************************************************************************)
(* The interfaces of the connections: the inductive invariant.             *)
(***************************************************************************)

(* The elements of Chain by number: the forwarder each is at, the end of   *)
(* the connection it works for, and which of them make an interface.       *)
SideOf(n) == IF n <= 3 THEN "server" ELSE "client"
Kernels == {1, 5}
Tunnels == {2, 4}
XConnects == {3, 6}

(* The element that makes the interface for end x at forwarder e. *)
ElOf(e, x) == IF e = "server" THEN (IF x = "client" THEN 1 ELSE 2)
              ELSE (IF x = "client" THEN 4 ELSE 5)

(* The end of a forwarder that is made by its kernel element is the other  *)
(* one than the end of its tunnel.                                         *)
KernelIf(e, c) == ifindex[e][Other(e)][c]

(* Where a handler can be, on the way up and on the way down. *)
TapUp == {"tap", "tapcreate", "tapsetup", "set"}
VethUp == {"veth", "vethmtu", "afpacket", "neighbor", "set"}
VethDown == {"neighbordel", "afpacketdel", "vethdel"}
MaxCall == IF env.payload = "ETHERNET" THEN 2 ELSE 4

UpOK(p) ==
    /\ p.el \in 1..6
    /\ p.el \in Kernels => p.step \in IF Tap(p.el) THEN TapUp ELSE VethUp
    /\ p.el \in Tunnels => p.step \in {"tunnel", "set"}
    /\ p.el \in XConnects => p.step = "xc" /\ p.call \in 1..MaxCall

DownOK(p) ==
    /\ p.el \in 0..6 /\ p.from \in 1..7 /\ p.el <= p.from
    /\ p.el = 0 => p.step = "finish"
    /\ p.el \in Kernels => IF Tap(p.el) THEN p.step = "tapdel" ELSE p.step \in VethDown
    /\ p.el \in Tunnels => p.step = "tunneldel"
    /\ p.el \in XConnects => p.step = "xcdel" /\ p.call \in 1..MaxCall

HopOK(c) == \/ hop[c] \in {Idle, Asking, Answering}
            \/ hop[c].to = "up" /\ UpOK(hop[c])
            \/ hop[c].to = "down" /\ DownOK(hop[c])

(* The metadata leads to interfaces of the connection. *)
OwnPorts(c) == \A e \in Sides, x \in Ends :
    ifindex[e][x][c] # NoIf => MyPort(e, x, c).conn = c /\ MyPort(e, x, c).end = x

(* No deletion fails at e, and namespaces can be opened. *)
Clean(e) == env.faults[e] \cap {"delete", "netns"} = {}

(* The interfaces of the connection are in the metadata. *)
NoneLost(c) == \A e \in Sides, i \in Ifs :
    ports[e][i].conn = c /\ Clean(e) => ifindex[e][ports[e][i].end][c] = i

(* The request of position p has been at element n; a close of position p  *)
(* has left it behind.                                                     *)
Reached(p, n) == (p.to = "up" /\ n <= p.el) \/ (p.to = "down" /\ n <= p.from)
Left(p, n) == p.to = "down" /\ p.el < n /\ n <= p.from

(* A connection without metadata has no interfaces but those its request   *)
(* has made, and a close leaves none behind.                               *)
NoneEarly(c) == \A e \in Sides, x \in Ends :
    c \notin known[e] /\ ~Reached(hop[c], ElOf(e, x)) => ifindex[e][x][c] = NoIf

NoneLeft(c) == \A e \in Sides, x \in Ends :
    Left(hop[c], ElOf(e, x)) /\ Clean(e) => ifindex[e][x][c] = NoIf

(* On the way up the interface of element n has been made, or found. *)
Made(p, n) == /\ p.to = "up"
              /\ n < p.el \/ (n = p.el /\ p.step \in {"tapsetup", "neighbor", "set"})

MadeRight(c) ==
    /\ \A e \in Sides, x \in Ends : Made(hop[c], ElOf(e, x)) =>
           /\ ifindex[e][x][c] # NoIf
           /\ x # e /\ env.kernel[e] = "tap" => MyPort(e, x, c).alive
    /\ Here(c, "up", "tapcreate") => MyIf(c) = NoIf

(* The interface on a veth pair is known only as long as the pair is, and  *)
(* forgotten before the pair is deleted, if namespaces can be opened.      *)
PairRight(c) == \A e \in Sides : env.kernel[e] = "veth" /\ "netns" \notin env.faults[e] =>
    /\ KernelIf(e, c) # NoIf => /\ veth[e][c].link /\ veth[e][c].peer
                                /\ MyPort(e, Other(e), c).alive
    /\ veth[e][c].peer => veth[e][c].link
    /\ Here(c, "down", "vethdel") /\ At(c) = e => KernelIf(e, c) = NoIf

(* The calls of a request, and those that are done. *)
Calls == IF env.payload = "ETHERNET" THEN l2Calls ELSE l3xcUpdates
CallDone(c, e, call) ==
    xc[e][ifindex[e][call.end][c]][call.kind] = ifindex[e][Other(call.end)][c]

JoinedSoFar(c) ==
    /\ c \in granted => hop[c] = Idle /\ Wiring(c)
    /\ hop[c].to = "up" /\ hop[c].el > 3 => Joined("server", c) /\ c \in known["server"]
    /\ Here(c, "up", "xc") => \A j \in 1..MaxCall : j < hop[c].call => CallDone(c, At(c), Calls[j])

PortsInv(c) == /\ HopOK(c) /\ OwnPorts(c) /\ NoneLost(c) /\ NoneEarly(c) /\ NoneLeft(c)
               /\ MadeRight(c) /\ PairRight(c) /\ JoinedSoFar(c)

(* The types of what the elements around the mtu elements keep. *)
DataType == /\ granted \subseteq Conns
            /\ known \in [Sides -> SUBSET Conns]
            /\ ifindex \in [Sides -> [Ends -> [Conns -> Ifs \cup {NoIf}]]]
            /\ veth \in [Sides -> [Conns -> [link : BOOLEAN, peer : BOOLEAN]]]
            /\ pair \in [Sides -> [Conns -> {"none", "bare", "named", "aliased"}]]
            /\ hostMtu \in [Sides -> [Conns -> Mtus]]
            /\ ports \in [Sides -> [Ifs -> Port \cup {NoPort}]]
            /\ xc \in [Sides -> [Ifs -> [Kinds -> Ifs \cup {NoIf}]]]
            /\ ifMtu \in [Sides -> [Conns -> Mtus]]

IInv == FwdInv /\ DataType /\ \A c \in Conns : PortsInv(c)

-----------------------------------------------------------------------------
(* Facts about the chain and the constants *)

(* The elements of the chain by number. *)
LEMMA ChainFacts ==
    /\ Len(Chain) = 6
    /\ \A n \in 1..6 : /\ Chain[n].at = SideOf(n)
                       /\ n \in Kernels => Chain[n].el = "kernel" /\ Chain[n].end = Other(SideOf(n))
                       /\ n \in Tunnels => Chain[n].el = "tunnel" /\ Chain[n].end = SideOf(n)
                       /\ n \in XConnects => Chain[n].el = "xconnect"
<1>1. Len(Chain) = 6
  BY DEF Chain
<1>2. ASSUME NEW n \in 1..6
      PROVE  /\ Chain[n].at = SideOf(n)
             /\ n \in Kernels => Chain[n].el = "kernel" /\ Chain[n].end = Other(SideOf(n))
             /\ n \in Tunnels => Chain[n].el = "tunnel" /\ Chain[n].end = SideOf(n)
             /\ n \in XConnects => Chain[n].el = "xconnect"
  <2>1. n = 1 \/ n = 2 \/ n = 3 \/ n = 4 \/ n = 5 \/ n = 6
    OBVIOUS
  <2>2. QED
    BY <2>1 DEF Chain, SideOf, Kernels, Tunnels, XConnects, Other
<1>3. QED
  BY <1>1, <1>2

(* Each end of each forwarder has an element of its own. *)
LEMMA ElementFacts ==
    /\ \A n \in Kernels \cup Tunnels : SideOf(n) \in Sides
    /\ \A n \in Kernels : ElOf(SideOf(n), Other(SideOf(n))) = n
    /\ \A n \in Tunnels : ElOf(SideOf(n), SideOf(n)) = n
    /\ \A e, f \in Sides, x, y \in Ends : ElOf(e, x) = ElOf(f, y) => e = f /\ x = y
    /\ \A e \in Sides, x \in Ends : ElOf(e, x) \in {1, 2, 4, 5}
    /\ \A e \in Sides : e \in Ends /\ Other(e) \in Ends /\ Other(e) # e
BY DEF SideOf, Kernels, Tunnels, ElOf, Sides, Ends, Other

(* Where the handler is in the chain. *)
LEMMA AtEnd ==
    ASSUME NEW c, hop[c].el \in Kernels \cup Tunnels
    PROVE  /\ hop[c].el \in 1..6
           /\ At(c) = SideOf(hop[c].el) /\ At(c) \in Sides
           /\ End(c) \in Ends /\ ElOf(At(c), End(c)) = hop[c].el
           /\ hop[c].el \in Kernels => End(c) = Other(At(c))
           /\ hop[c].el \in Tunnels => End(c) = At(c)
           /\ Other(At(c)) # At(c)
<1>1. hop[c].el \in 1..6
  BY DEF Kernels, Tunnels
<1>2. At(c) = SideOf(hop[c].el) /\ (hop[c].el \in Kernels => End(c) = Other(At(c)))
      /\ (hop[c].el \in Tunnels => End(c) = At(c))
  BY <1>1, ChainFacts DEF At, End
<1>3. QED
  BY <1>1, <1>2, ElementFacts

(* What an environment says. *)
LEMMA EnvFacts ==
    ASSUME env \in Envs
    PROVE  /\ env.conns \subseteq Conns
           /\ env.kernel \in [Sides -> {"tap", "veth"}]
           /\ env.payload \in {"ETHERNET", "IP"}
           /\ env.faults \in [Sides -> SUBSET FaultKinds]
BY ForwardersAssumption

(* An interface that is not there is no connection's. *)
LEMMA PortFacts ==
    /\ NoPort.conn = None /\ None \notin Conns /\ NoIf \notin Ifs
    /\ \A p \in Port \cup {NoPort} : p.conn \in Conns \cup {None} /\ (p = NoPort <=> p.conn = None)
    /\ \A p \in Port \cup {NoPort} : p.conn \in Conns => p \in Port /\ p.end \in Ends
BY TunnelMtuAssumption, ForwardersAssumption DEF NoPort, Port

-----------------------------------------------------------------------------
(* How a handler moves *)

(* The positions of the others stay. *)
OthersStay(c) == \A d \in Conns \ {c} : hop'[d] = hop[d]

(* Steps within an element. *)
LEMMA StepMoves ==
    ASSUME HopInv, NEW c \in Conns, NEW s, Step(c, s)
    PROVE  /\ OthersStay(c) /\ hop'[c].step = s
           /\ hop'[c].to = hop[c].to /\ hop'[c].el = hop[c].el
           /\ hop'[c].call = hop[c].call /\ hop'[c].from = hop[c].from
<1>1. hop'[c] = [hop[c] EXCEPT !.step = s] /\ OthersStay(c)
  BY DEF HopInv, Step, Move, OthersStay
<1>2. QED
  BY <1>1 DEF HopInv, IsPos, Pos

(* The next call of the same element. *)
LEMMA CallMoves ==
    ASSUME HopInv, NEW c \in Conns, NextCall(c)
    PROVE  /\ OthersStay(c) /\ hop'[c].step = hop[c].step
           /\ hop'[c].to = hop[c].to /\ hop'[c].el = hop[c].el
           /\ hop'[c].call = hop[c].call + 1 /\ hop'[c].from = hop[c].from
<1>1. hop'[c] = [hop[c] EXCEPT !.call = @ + 1] /\ OthersStay(c)
  BY DEF HopInv, NextCall, Move, OthersStay
<1>2. QED
  BY <1>1 DEF HopInv, IsPos, Pos

(* Steps to another position. *)
LEMMA PosMoves ==
    ASSUME HopInv, NEW c \in Conns, NEW p, Move(c, p)
    PROVE  OthersStay(c) /\ hop'[c] = p
BY DEF HopInv, Move, OthersStay

(* An element begins to close in one of its steps. *)
LEMMA FailMoves ==
    ASSUME HopInv, NEW c \in Conns, NEW s, FailAt(c, s)
    PROVE  /\ OthersStay(c) /\ hop'[c].step = s
           /\ hop'[c].to = "down" /\ hop'[c].el = hop[c].el
           /\ hop'[c].call = 1 /\ hop'[c].from = hop[c].el
BY PosMoves DEF FailAt, Pos

(* The first step of an element is one of its steps. *)
LEMMA UpFirst ==
    ASSUME NEW n \in 1..6, env \in Envs
    PROVE  /\ UpOK(Up(n)) /\ Up(n).to = "up" /\ Up(n).el = n /\ Up(n).call = 1
           /\ Up(n).step \notin {"tapsetup", "tapcreate", "neighbor", "set"}
<1>1. Up(n).to = "up" /\ Up(n).el = n /\ Up(n).call = 1
  BY DEF Up, Pos
<1>2. 1 \in 1..MaxCall
  BY DEF MaxCall
<1>3. Up(n).step = IF n \in Kernels THEN (IF Tap(n) THEN "tap" ELSE "veth")
                   ELSE IF n \in Tunnels THEN "tunnel" ELSE "xc"
  <2>1. n \in Kernels \/ n \in Tunnels \/ n \in XConnects
    BY DEF Kernels, Tunnels, XConnects
  <2>2. CASE n \in Kernels
    BY <2>2, ChainFacts DEF Up, Pos
  <2>3. CASE n \in Tunnels
    BY <2>3, ChainFacts DEF Up, Pos, Kernels, Tunnels
  <2>4. CASE n \in XConnects
    BY <2>4, ChainFacts DEF Up, Pos, Kernels, Tunnels, XConnects
  <2>5. QED
    BY <2>1, <2>2, <2>3, <2>4
<1>4. QED
  BY <1>1, <1>2, <1>3 DEF UpOK, TapUp, VethUp, Kernels, Tunnels, XConnects

(* So is the step an element begins to close with. *)
LEMMA DownFirst ==
    ASSUME NEW n \in 0..6, NEW from \in 1..7, n <= from, env \in Envs
    PROVE  /\ DownOK(Down(n, from)) /\ Down(n, from).to = "down"
           /\ Down(n, from).el = n /\ Down(n, from).from = from
           /\ Down(n, from).step # "vethdel"
<1>1. /\ Down(n, from).to = "down" /\ Down(n, from).el = n
      /\ Down(n, from).call = 1 /\ Down(n, from).from = from
  BY DEF Down, Pos
<1>2. 1 \in 1..MaxCall
  BY DEF MaxCall
<1>3. Down(n, from).step = IF n = 0 THEN "finish"
                     ELSE IF n \in Kernels
                     THEN (IF Tap(n) THEN "tapdel"
                           ELSE IF env.payload = "IP" THEN "neighbordel" ELSE "afpacketdel")
                     ELSE IF n \in Tunnels THEN "tunneldel" ELSE "xcdel"
  <2>1. n = 0 \/ (n # 0 /\ n \in 1..6 /\ (n \in Kernels \/ n \in Tunnels \/ n \in XConnects))
    BY DEF Kernels, Tunnels, XConnects
  <2>2. CASE n = 0
    BY <2>2 DEF Down, Pos
  <2>3. CASE n # 0 /\ n \in 1..6 /\ n \in Kernels
    BY <2>3, ChainFacts DEF Down, Pos
  <2>4. CASE n # 0 /\ n \in 1..6 /\ n \in Tunnels
    BY <2>4, ChainFacts DEF Down, Pos, Kernels, Tunnels
  <2>5. CASE n # 0 /\ n \in 1..6 /\ n \in XConnects
    BY <2>5, ChainFacts DEF Down, Pos, Kernels, Tunnels, XConnects
  <2>6. QED
    BY <2>1, <2>2, <2>3, <2>4, <2>5
<1>4. QED
  BY <1>1, <1>2, <1>3 DEF DownOK, VethDown, Kernels, Tunnels, XConnects

-----------------------------------------------------------------------------
(* What an element does to the interfaces *)

IfType == ifindex \in [Sides -> [Ends -> [Conns -> Ifs \cup {NoIf}]]]
PortType == ports \in [Sides -> [Ifs -> Port \cup {NoPort}]]
XcType == xc \in [Sides -> [Ifs -> [Kinds -> Ifs \cup {NoIf}]]]

(* The index of the handler of c after its step. *)
NewIf(c) == ifindex'[At(c)][End(c)][c]

(* Nothing but the interface of its own end is changed, or a free one made *)
(* to be that.                                                             *)
Local(c) ==
    /\ IfType' /\ PortType' /\ XcType'
    /\ \A f \in Sides, y \in Ends, d \in Conns :
           ifindex'[f][y][d] = ifindex[f][y][d] \/ (f = At(c) /\ y = End(c) /\ d = c)
    /\ \A f \in Sides, i \in Ifs :
           \/ ports'[f][i] = ports[f][i] /\ xc'[f][i] = xc[f][i]
           \/ /\ f = At(c)
              /\ ports[f][i] = NoPort \/ (ports[f][i].conn = c /\ ports[f][i].end = End(c))
              /\ ports'[f][i] = NoPort \/ (ports'[f][i].conn = c /\ ports'[f][i].end = End(c))

Placed(c) == /\ c \in Conns /\ At(c) \in Sides /\ End(c) \in Ends
             /\ IfType /\ PortType /\ XcType /\ OwnPorts(c) /\ NoneLost(c)

(* The metadata of one end changes. *)
LEMMA StoreIfEffect ==
    ASSUME NEW c, Placed(c), NEW i \in Ifs \cup {NoIf}, StoreIf(c, i)
    PROVE  /\ IfType' /\ NewIf(c) = i
           /\ \A f \in Sides, y \in Ends, d \in Conns :
                 ifindex'[f][y][d] = IF f = At(c) /\ y = End(c) /\ d = c THEN i ELSE ifindex[f][y][d]
BY DEF Placed, StoreIf, IfType, NewIf

(* Nothing is done to any interface. *)
LEMMA SameEffect ==
    ASSUME NEW c, Placed(c), UNCHANGED <<ifindex, ports, xc, env>>
    PROVE  Local(c) /\ OwnPorts(c)' /\ NoneLost(c)' /\ NewIf(c) = MyIf(c)
BY DEF Placed, Local, IfType, PortType, XcType, OwnPorts, NoneLost, MyPort, NewIf, MyIf, Clean

(* An interface is created for an end that has none. *)
LEMMA CreateEffect ==
    ASSUME NEW c, Placed(c), MyIf(c) = NoIf, CreatePort(c), UNCHANGED <<xc, env>>
    PROVE  /\ Local(c) /\ OwnPorts(c)' /\ NoneLost(c)'
           /\ NewIf(c) \in Ifs /\ ports'[At(c)][NewIf(c)].alive
<1>1. PICK i \in FreeIfs(At(c)) :
          /\ ports' = [ports EXCEPT ![At(c)][i] =
                 [conn |-> c, end |-> End(c), alive |-> TRUE, nbr |-> FALSE]]
          /\ StoreIf(c, i)
  BY DEF CreatePort
<1> DEFINE new == [conn |-> c, end |-> End(c), alive |-> TRUE, nbr |-> FALSE]
<1>2. i \in Ifs /\ i # NoIf /\ ports[At(c)][i] = NoPort
  BY ForwardersAssumption DEF FreeIfs, Used
<1>3. /\ IfType' /\ NewIf(c) = i
      /\ \A f \in Sides, y \in Ends, d \in Conns :
            ifindex'[f][y][d] = IF f = At(c) /\ y = End(c) /\ d = c THEN i ELSE ifindex[f][y][d]
  BY <1>1, <1>2, StoreIfEffect
<1>4. new \in Port /\ new.conn = c /\ new.end = End(c) /\ new.alive = TRUE
  BY DEF Port, Placed
<1>5. /\ PortType'
      /\ \A f \in Sides, j \in Ifs :
            ports'[f][j] = IF f = At(c) /\ j = i THEN new ELSE ports[f][j]
  BY <1>1, <1>2, <1>4 DEF PortType, Placed
<1>6. XcType' /\ xc' = xc
  BY DEF XcType, Placed
<1>7. Local(c)
  BY <1>2, <1>3, <1>4, <1>5, <1>6 DEF Local
<1>8. OwnPorts(c)'
  <2> SUFFICES ASSUME NEW e \in Sides, NEW x \in Ends, ifindex'[e][x][c] # NoIf
               PROVE  ports'[e][ifindex'[e][x][c]].conn = c /\ ports'[e][ifindex'[e][x][c]].end = x
    BY DEF OwnPorts, MyPort
  <2>1. CASE e = At(c) /\ x = End(c)
    BY <2>1, <1>2, <1>3, <1>4, <1>5 DEF Placed
  <2>2. CASE ~(e = At(c) /\ x = End(c))
    <3>1. ifindex'[e][x][c] = ifindex[e][x][c] /\ ifindex[e][x][c] \in Ifs
      BY <2>2, <1>3 DEF Placed, IfType
    <3>2. ports[e][ifindex[e][x][c]].conn = c /\ ports[e][ifindex[e][x][c]].end = x
      BY <3>1 DEF Placed, OwnPorts, MyPort
    <3>3. ~(e = At(c) /\ ifindex[e][x][c] = i)
      BY <3>2, <1>2, PortFacts DEF Placed
    <3>4. QED
      BY <1>5, <3>1, <3>2, <3>3
  <2>3. QED
    BY <2>1, <2>2
<1>9. NoneLost(c)'
  <2> SUFFICES ASSUME NEW e \in Sides, NEW j \in Ifs, ports'[e][j].conn = c, Clean(e)
               PROVE  ifindex'[e][ports'[e][j].end][c] = j
    BY DEF NoneLost, Clean
  <2>1. CASE e = At(c) /\ j = i
    BY <2>1, <1>3, <1>4, <1>5 DEF Placed
  <2>2. CASE ~(e = At(c) /\ j = i)
    <3>1. ports'[e][j] = ports[e][j]
      BY <2>2, <1>5
    <3>2. ifindex[e][ports[e][j].end][c] = j /\ ports[e][j].end \in Ends
      BY <3>1, PortFacts DEF Placed, NoneLost, PortType
    <3>3. ~(e = At(c) /\ ports[e][j].end = End(c))
      BY <3>2, PortFacts DEF MyIf
    <3>4. QED
      BY <1>3, <3>1, <3>2, <3>3 DEF Placed
  <2>3. QED
    BY <2>1, <2>2
<1>10. QED
  BY <1>2, <1>3, <1>4, <1>5, <1>7, <1>8, <1>9 DEF Placed

(* An interface is deleted and forgotten. *)
LEMMA RemoveEffect ==
    ASSUME NEW c, Placed(c), MyIf(c) # NoIf, RemovePort(At(c), MyIf(c)), DeleteIf(c), UNCHANGED env
    PROVE  Local(c) /\ OwnPorts(c)' /\ NoneLost(c)' /\ NewIf(c) = NoIf
<1> DEFINE i == MyIf(c)
<1>1. i \in Ifs /\ ports[At(c)][i].conn = c /\ ports[At(c)][i].end = End(c)
  BY DEF Placed, IfType, OwnPorts, MyPort, MyIf
<1>2. /\ IfType' /\ NewIf(c) = NoIf
      /\ \A f \in Sides, y \in Ends, d \in Conns :
            ifindex'[f][y][d] = IF f = At(c) /\ y = End(c) /\ d = c THEN NoIf ELSE ifindex[f][y][d]
  BY StoreIfEffect DEF DeleteIf
<1>3. /\ PortType'
      /\ \A f \in Sides, j \in Ifs :
            ports'[f][j] = IF f = At(c) /\ j = i THEN NoPort ELSE ports[f][j]
  BY <1>1 DEF RemovePort, PortType, Placed
<1>4. /\ XcType'
      /\ \A f \in Sides, j \in Ifs :
            xc'[f][j] = IF f = At(c) /\ j = i THEN NoXc ELSE xc[f][j]
  BY <1>1 DEF RemovePort, XcType, Placed, NoXc, Kinds
<1>5. Local(c)
  <2>1. ASSUME NEW f \in Sides, NEW j \in Ifs
        PROVE  \/ ports'[f][j] = ports[f][j] /\ xc'[f][j] = xc[f][j]
               \/ /\ f = At(c)
                  /\ ports[f][j] = NoPort \/ (ports[f][j].conn = c /\ ports[f][j].end = End(c))
                  /\ ports'[f][j] = NoPort \/ (ports'[f][j].conn = c /\ ports'[f][j].end = End(c))
    BY <1>1, <1>3, <1>4
  <2>2. QED
    BY <2>1, <1>2, <1>3, <1>4 DEF Local
<1>6. OwnPorts(c)'
  <2> SUFFICES ASSUME NEW e \in Sides, NEW x \in Ends, ifindex'[e][x][c] # NoIf
               PROVE  ports'[e][ifindex'[e][x][c]].conn = c /\ ports'[e][ifindex'[e][x][c]].end = x
    BY DEF OwnPorts, MyPort
  <2>1. ~(e = At(c) /\ x = End(c)) /\ ifindex'[e][x][c] = ifindex[e][x][c] /\ ifindex[e][x][c] \in Ifs
    BY <1>2 DEF Placed, IfType
  <2>2. ports[e][ifindex[e][x][c]].conn = c /\ ports[e][ifindex[e][x][c]].end = x
    BY <2>1 DEF Placed, OwnPorts, MyPort
  <2>3. ~(e = At(c) /\ ifindex[e][x][c] = i)
    BY <2>1, <2>2, <1>1
  <2>4. QED
    BY <1>3, <2>1, <2>2, <2>3
<1>7. NoneLost(c)'
  <2> SUFFICES ASSUME NEW e \in Sides, NEW j \in Ifs, ports'[e][j].conn = c, Clean(e)
               PROVE  ifindex'[e][ports'[e][j].end][c] = j
    BY DEF NoneLost, Clean
  <2>1. ~(e = At(c) /\ j = i) /\ ports'[e][j] = ports[e][j]
    BY <1>3, PortFacts DEF Placed
  <2>2. ifindex[e][ports[e][j].end][c] = j /\ ports[e][j].end \in Ends
    BY <2>1, PortFacts DEF Placed, NoneLost, PortType
  <2>3. ~(e = At(c) /\ ports[e][j].end = End(c))
    BY <2>1, <2>2 DEF MyIf
  <2>4. QED
    BY <1>2, <2>1, <2>2, <2>3 DEF Placed
<1>8. QED
  BY <1>2, <1>5, <1>6, <1>7

(* An index is forgotten: there is none, or a deletion has failed. *)
LEMMA ForgetEffect ==
    ASSUME NEW c, Placed(c), DeleteIf(c), UNCHANGED <<ports, xc, env>>,
           MyIf(c) = NoIf \/ ~Clean(At(c))
    PROVE  Local(c) /\ OwnPorts(c)' /\ NoneLost(c)' /\ NewIf(c) = NoIf
<1>1. /\ IfType' /\ NewIf(c) = NoIf
      /\ \A f \in Sides, y \in Ends, d \in Conns :
            ifindex'[f][y][d] = IF f = At(c) /\ y = End(c) /\ d = c THEN NoIf ELSE ifindex[f][y][d]
  BY StoreIfEffect DEF DeleteIf
<1>2. Local(c)
  BY <1>1 DEF Local, Placed, PortType, XcType
<1>3. OwnPorts(c)'
  BY <1>1 DEF OwnPorts, Placed, MyPort
<1>4. NoneLost(c)'
  <2> SUFFICES ASSUME NEW e \in Sides, NEW j \in Ifs, ports[e][j].conn = c, Clean(e)
               PROVE  ifindex'[e][ports[e][j].end][c] = j
    BY DEF NoneLost, Clean
  <2>1. ifindex[e][ports[e][j].end][c] = j /\ ports[e][j].end \in Ends
    BY PortFacts DEF Placed, NoneLost, PortType
  <2>2. ~(e = At(c) /\ ports[e][j].end = End(c))
    BY <2>1, PortFacts DEF MyIf
  <2>3. QED
    BY <1>1, <2>1, <2>2 DEF Placed
<1>5. QED
  BY <1>1, <1>2, <1>3, <1>4

(* Interfaces of its own end are marked: as dead, or with neighbors. *)
Marked(c, p, q) ==
    \/ q = p
    \/ p.conn = c /\ p.end = End(c) /\ q \in Port /\ q.conn = c /\ q.end = End(c)

(* Marking interfaces keeps whose they are. *)
LEMMA MarkEffect ==
    ASSUME NEW c, Placed(c), PortType', UNCHANGED <<ifindex, xc, env>>,
           \A f \in Sides, i \in Ifs : \/ ports'[f][i] = ports[f][i]
                                       \/ f = At(c) /\ Marked(c, ports[f][i], ports'[f][i])
    PROVE  Local(c) /\ OwnPorts(c)' /\ NoneLost(c)' /\ NewIf(c) = MyIf(c)
<1>1. \A f \in Sides, i \in Ifs :
          ports'[f][i].conn = ports[f][i].conn /\ ports'[f][i].end = ports[f][i].end
  BY DEF Marked
<1>2. Local(c)
  BY DEF Local, Placed, IfType, XcType, Marked
<1>3. OwnPorts(c)'
  <2> SUFFICES ASSUME NEW e \in Sides, NEW x \in Ends, ifindex[e][x][c] # NoIf
               PROVE  ports'[e][ifindex[e][x][c]].conn = c /\ ports'[e][ifindex[e][x][c]].end = x
    BY DEF OwnPorts, MyPort
  <2>1. ifindex[e][x][c] \in Ifs
    BY DEF Placed, IfType
  <2>2. QED
    BY <1>1, <2>1 DEF Placed, OwnPorts, MyPort
<1>4. NoneLost(c)'
  BY <1>1 DEF NoneLost, Placed, Clean
<1>5. QED
  BY <1>2, <1>3, <1>4 DEF NewIf, MyIf

-----------------------------------------------------------------------------
(* What a step of one connection leaves of another *)

Untouched(d) ==
    /\ hop'[d] = hop[d] /\ (d \in granted' <=> d \in granted)
    /\ \A e \in Sides :
          /\ d \in known'[e] <=> d \in known[e]
          /\ veth'[e][d] = veth[e][d]
          /\ \A x \in Ends : ifindex'[e][x][d] = ifindex[e][x][d]
          /\ \A i \in Ifs : ports[e][i].conn = d \/ ports'[e][i].conn = d =>
                                ports'[e][i] = ports[e][i] /\ xc'[e][i] = xc[e][i]

(* The interfaces in the metadata of d are as they were. *)
LEMMA UntouchedPorts ==
    ASSUME IfType, NEW d \in Conns, OwnPorts(d), Untouched(d), NEW e \in Sides, NEW x \in Ends
    PROVE  /\ ifindex'[e][x][d] = ifindex[e][x][d] /\ ifindex[e][x][d] \in Ifs \cup {NoIf}
           /\ ifindex[e][x][d] # NoIf => /\ ports'[e][ifindex[e][x][d]] = ports[e][ifindex[e][x][d]]
                                         /\ xc'[e][ifindex[e][x][d]] = xc[e][ifindex[e][x][d]]
BY DEF IfType, OwnPorts, MyPort, Untouched

(* Interfaces that are joined stay joined if nothing is done to them. *)
LEMMA JoinedKept ==
    ASSUME NEW d \in Conns, NEW e \in Sides, Joined(e, d), UNCHANGED env,
           \A x \in Ends :
              /\ ifindex'[e][x][d] = ifindex[e][x][d]
              /\ ifindex[e][x][d] # NoIf => /\ ports'[e][ifindex[e][x][d]] = ports[e][ifindex[e][x][d]]
                                            /\ xc'[e][ifindex[e][x][d]] = xc[e][ifindex[e][x][d]]
    PROVE  Joined(e, d)'
<1> DEFINE KindsNow == IF env.payload = "ETHERNET" THEN {"l2"} ELSE {"v4", "v6"}
<1>1. \A x \in Ends : /\ ifindex[e][x][d] # NoIf
                       /\ ports[e][ifindex[e][x][d]].conn = d /\ ports[e][ifindex[e][x][d]].end = x
                       /\ \A k \in KindsNow : xc[e][ifindex[e][x][d]][k] = ifindex[e][Other(x)][d]
  BY DEF Joined, MyPort
<1>2. \A x \in Ends : /\ ifindex'[e][x][d] # NoIf
                       /\ ports'[e][ifindex'[e][x][d]].conn = d /\ ports'[e][ifindex'[e][x][d]].end = x
                       /\ \A k \in KindsNow : xc'[e][ifindex'[e][x][d]][k] = ifindex'[e][Other(x)][d]
  <2> SUFFICES ASSUME NEW x \in Ends
               PROVE  /\ ifindex'[e][x][d] # NoIf
                      /\ ports'[e][ifindex'[e][x][d]].conn = d /\ ports'[e][ifindex'[e][x][d]].end = x
                      /\ \A k \in KindsNow : xc'[e][ifindex'[e][x][d]][k] = ifindex'[e][Other(x)][d]
    OBVIOUS
  <2> HIDE DEF KindsNow
  <2>1. Other(x) \in Ends
    BY DEF Ends, Other
  <2>2. QED
    BY <2>1, <1>1
<1>3. QED
  BY <1>2 DEF Joined, MyPort

(* So are those of a connection that is not touched. *)
LEMMA UntouchedJoined ==
    ASSUME IfType, NEW d \in Conns, OwnPorts(d), Untouched(d), NEW e \in Sides, Joined(e, d),
           UNCHANGED env
    PROVE  Joined(e, d)'
BY UntouchedPorts, JoinedKept

(* The calls that join the interfaces are for the ends of the connection,  *)
(* whose interfaces have been made.                                        *)
LEMMA CallFacts ==
    ASSUME env \in Envs
    PROVE  /\ MaxCall \in {2, 4} /\ Len(Calls) = MaxCall
           /\ \A j \in 1..MaxCall : Calls[j].end \in Ends /\ Calls[j].kind \in Kinds
           /\ \A x \in Ends, k \in IF env.payload = "ETHERNET" THEN {"l2"} ELSE {"v4", "v6"} :
                 \E j \in 1..MaxCall : Calls[j].end = x /\ Calls[j].kind = k
<1>1. CASE env.payload = "ETHERNET"
  <2>1. MaxCall = 2 /\ Calls = l2Calls
    BY <1>1 DEF MaxCall, Calls
  <2>2. /\ Len(l2Calls) = 2
        /\ l2Calls[1].end = "client" /\ l2Calls[1].kind = "l2"
        /\ l2Calls[2].end = "server" /\ l2Calls[2].kind = "l2"
    BY DEF l2Calls, Call
  <2>3. QED
    BY <1>1, <2>1, <2>2 DEF Ends, Kinds
<1>2. CASE env.payload # "ETHERNET"
  <2>1. MaxCall = 4 /\ Calls = l3xcUpdates
    BY <1>2 DEF MaxCall, Calls
  <2>2. /\ Len(l3xcUpdates) = 4
        /\ l3xcUpdates[1].end = "client" /\ l3xcUpdates[1].kind = "v4"
        /\ l3xcUpdates[2].end = "client" /\ l3xcUpdates[2].kind = "v6"
        /\ l3xcUpdates[3].end = "server" /\ l3xcUpdates[3].kind = "v4"
        /\ l3xcUpdates[4].end = "server" /\ l3xcUpdates[4].kind = "v6"
    BY DEF l3xcUpdates, Call
  <2>3. QED
    BY <1>2, <2>1, <2>2 DEF Ends, Kinds
<1>3. QED
  BY <1>1, <1>2

(* The calls are of the kinds that the payload needs. *)
LEMMA CallKinds ==
    ASSUME env \in Envs, NEW j \in 1..MaxCall
    PROVE  /\ Calls[j].end \in Ends
           /\ Calls[j].kind \in IF env.payload = "ETHERNET" THEN {"l2"} ELSE {"v4", "v6"}
<1>1. CASE env.payload = "ETHERNET"
  <2>1. Calls = l2Calls /\ j \in 1..2
    BY <1>1 DEF MaxCall, Calls
  <2>2. l2Calls[j].kind = "l2"
    BY <2>1 DEF l2Calls, Call
  <2>3. QED
    BY <1>1, <2>1, <2>2, CallFacts
<1>2. CASE env.payload # "ETHERNET"
  <2>1. Calls = l3xcUpdates /\ j \in 1..4
    BY <1>2 DEF MaxCall, Calls
  <2>2. l3xcUpdates[j].kind \in {"v4", "v6"}
    BY <2>1 DEF l3xcUpdates, Call
  <2>3. QED
    BY <1>2, <2>1, <2>2, CallFacts
<1>3. QED
  BY <1>1, <1>2

(* A request that joins interfaces has made both of them. *)
LEMMA JoiningFacts ==
    ASSUME IfType, NEW c \in Conns, HopOK(c), MadeRight(c), Here(c, "up", "xc")
    PROVE  /\ hop[c].el \in XConnects /\ hop[c].call \in 1..MaxCall
           /\ At(c) = SideOf(hop[c].el) /\ At(c) \in Sides
           /\ \A x \in Ends : ifindex[At(c)][x][c] \in Ifs
<1>1. hop[c].el \in XConnects /\ hop[c].call \in 1..MaxCall /\ hop[c].el \in 1..6
  BY DEF Here, HopOK, Idle, Asking, Answering, Pos, UpOK, Kernels, Tunnels, XConnects,
         TapUp, VethUp
<1>2. At(c) = SideOf(hop[c].el)
  BY <1>1, ChainFacts DEF At
<1>3. At(c) \in Sides
  BY <1>2 DEF SideOf, Sides
<1>4. \A x \in Ends : ElOf(At(c), x) < hop[c].el
  BY <1>1, <1>2 DEF XConnects, SideOf, ElOf, Ends
<1>5. \A x \in Ends : Made(hop[c], ElOf(At(c), x))
  BY <1>4 DEF Made, Here
<1>6. QED
  BY <1>1, <1>2, <1>3, <1>5 DEF MadeRight, IfType

(* A connection that is not touched keeps its part of the invariant, and   *)
(* its wiring.                                                             *)
LEMMA UntouchedInv ==
    ASSUME IfType, PortType, NEW d \in Conns, PortsInv(d), Untouched(d), env \in Envs, UNCHANGED env
    PROVE  PortsInv(d)' /\ (Wiring(d) => Wiring(d)')
<1> USE DEF PortsInv
<1>1. HopOK(d)'
  BY DEF HopOK, Untouched, UpOK, DownOK, Tap, MaxCall
<1>2. OwnPorts(d)'
  <2> SUFFICES ASSUME NEW e \in Sides, NEW x \in Ends, ifindex'[e][x][d] # NoIf
               PROVE  ports'[e][ifindex'[e][x][d]].conn = d /\ ports'[e][ifindex'[e][x][d]].end = x
    BY DEF OwnPorts, MyPort
  <2>1. QED
    BY UntouchedPorts DEF OwnPorts, MyPort
<1>3. NoneLost(d)'
  <2> SUFFICES ASSUME NEW e \in Sides, NEW i \in Ifs, ports'[e][i].conn = d, Clean(e)
               PROVE  ifindex'[e][ports'[e][i].end][d] = i
    BY DEF NoneLost, Clean
  <2>1. ports'[e][i] = ports[e][i]
    BY DEF Untouched
  <2>2. ports[e][i].end \in Ends
    BY <2>1, PortFacts DEF PortType
  <2>3. QED
    BY <2>1, <2>2 DEF Untouched, NoneLost
<1>4. NoneEarly(d)'
  BY DEF NoneEarly, Untouched, Reached
<1>5. NoneLeft(d)'
  BY DEF NoneLeft, Untouched, Left, Clean
<1>6. MadeRight(d)'
  <2>1. \A e \in Sides, x \in Ends : Made(hop'[d], ElOf(e, x)) =>
           /\ ifindex'[e][x][d] # NoIf
           /\ x # e /\ env'.kernel[e] = "tap" => ports'[e][ifindex'[e][x][d]].alive
    <3>1. SUFFICES ASSUME NEW e \in Sides, NEW x \in Ends, Made(hop[d], ElOf(e, x))
                   PROVE  /\ ifindex'[e][x][d] # NoIf
                          /\ x # e /\ env'.kernel[e] = "tap" => ports'[e][ifindex'[e][x][d]].alive
      BY DEF Untouched
    <3>2. QED
      BY <3>1, UntouchedPorts DEF MadeRight, MyPort
  <2>2. Here(d, "up", "tapcreate")' => Here(d, "up", "tapcreate") /\ MyIf(d)' = MyIf(d)
    <3>1. Here(d, "up", "tapcreate") => hop[d].el \in Kernels
      BY DEF Here, HopOK, Idle, Asking, Answering, Pos, UpOK, Kernels, Tunnels, XConnects
    <3>2. QED
      BY <3>1, AtEnd DEF Untouched, Here, MyIf, At, End
  <2>3. QED
    BY <2>1, <2>2 DEF MadeRight, MyPort
<1>7. PairRight(d)'
  <2> SUFFICES ASSUME NEW e \in Sides, env.kernel[e] = "veth", "netns" \notin env.faults[e]
               PROVE  /\ KernelIf(e, d)' # NoIf => /\ veth'[e][d].link /\ veth'[e][d].peer
                                                   /\ ports'[e][KernelIf(e, d)'].alive
                      /\ veth'[e][d].peer => veth'[e][d].link
                      /\ Here(d, "down", "vethdel")' /\ At(d)' = e => KernelIf(e, d)' = NoIf
    BY DEF PairRight, MyPort, KernelIf
  <2>1. KernelIf(e, d)' = KernelIf(e, d) /\ veth'[e][d] = veth[e][d]
    BY ElementFacts DEF Untouched, KernelIf
  <2>2. KernelIf(e, d) # NoIf => ports'[e][KernelIf(e, d)] = ports[e][KernelIf(e, d)]
    BY ElementFacts, UntouchedPorts DEF KernelIf
  <2>3. Here(d, "down", "vethdel")' /\ At(d)' = e => Here(d, "down", "vethdel") /\ At(d) = e
    BY DEF Untouched, Here, At
  <2>4. QED
    BY <2>1, <2>2, <2>3 DEF PairRight, MyPort, KernelIf
<1>8. Wiring(d) => Wiring(d)'
  BY UntouchedJoined DEF Wiring
<1>9. JoinedSoFar(d)'
  <2>1. d \in granted' => hop'[d] = Idle /\ Wiring(d)'
    BY <1>8 DEF JoinedSoFar, Untouched
  <2>2. hop'[d].to = "up" /\ hop'[d].el > 3 => Joined("server", d)' /\ d \in known'["server"]
    BY UntouchedJoined DEF JoinedSoFar, Untouched, Sides
  <2>3. ASSUME Here(d, "up", "xc")', NEW j \in 1..MaxCall, j < hop'[d].call
        PROVE  xc'[At(d)][ifindex'[At(d)][Calls[j].end][d]][Calls[j].kind]
                 = ifindex'[At(d)][Other(Calls[j].end)][d]
    <3>1. Here(d, "up", "xc") /\ j < hop[d].call
      BY <2>3 DEF Here, Untouched
    <3>2. /\ At(d) \in Sides /\ Calls[j].end \in Ends /\ Other(Calls[j].end) \in Ends
          /\ ifindex[At(d)][Calls[j].end][d] \in Ifs
      BY <3>1, JoiningFacts, CallFacts DEF Other, Ends
    <3>3. /\ ifindex'[At(d)][Calls[j].end][d] = ifindex[At(d)][Calls[j].end][d]
          /\ ifindex'[At(d)][Other(Calls[j].end)][d] = ifindex[At(d)][Other(Calls[j].end)][d]
          /\ xc'[At(d)][ifindex[At(d)][Calls[j].end][d]] = xc[At(d)][ifindex[At(d)][Calls[j].end][d]]
      BY <3>2, UntouchedPorts, PortFacts
    <3>4. CallDone(d, At(d), Calls[j])
      BY <3>1 DEF JoinedSoFar
    <3>5. QED
      BY <3>3, <3>4 DEF CallDone
  <2>4. MaxCall' = MaxCall /\ Calls' = Calls /\ At(d)' = At(d)
    BY DEF MaxCall, Calls, At, Untouched
  <2>5. Here(d, "up", "xc")' => \A j \in 1..MaxCall' : j < hop'[d].call => CallDone(d, At(d), Calls[j])'
    BY <2>3, <2>4 DEF CallDone
  <2>6. QED
    BY <2>1, <2>2, <2>5 DEF JoinedSoFar
<1>10. QED
  BY <1>1, <1>2, <1>3, <1>4, <1>5, <1>6, <1>7, <1>8, <1>9

-----------------------------------------------------------------------------
(* The steps of the elements that make interfaces *)

(* A handler at such an element. *)
AtElement(c) == hop[c].to \in {"up", "down"} /\ hop[c].el \in Kernels \cup Tunnels

(* The interface of the element is there, and a tap is alive. *)
ReadyNext(c) == /\ NewIf(c) # NoIf
                /\ hop[c].el \in Kernels /\ env.kernel[At(c)] = "tap" => ports'[At(c)][NewIf(c)].alive

(* On the way up: a step within the element, or to the next. *)
GoesUp(c) ==
    /\ hop[c].to = "up" /\ hop'[c].to = "up"
    /\ \/ /\ hop'[c].el = hop[c].el
          /\ hop'[c].step \in {"tapsetup", "neighbor", "set"} => ReadyNext(c)
          /\ hop'[c].step = "tapcreate" => NewIf(c) = NoIf
       \/ /\ hop'[c].el = hop[c].el + 1
          /\ hop'[c].step \notin {"tapsetup", "tapcreate", "neighbor", "set"}
          /\ hop'[c].call = 1
          /\ ReadyNext(c)

(* On the way down: the element fails and begins to close, a step within   *)
(* the element, or to the one behind.                                      *)
GoesDown(c) ==
    /\ hop'[c].to = "down"
    /\ \/ hop[c].to = "up" /\ hop'[c].el = hop[c].el /\ hop'[c].from = hop[c].el
       \/ /\ hop[c].to = "down" /\ hop'[c].from = hop[c].from
          /\ \/ hop'[c].el = hop[c].el
             \/ hop'[c].el = hop[c].el - 1 /\ (Clean(At(c)) => NewIf(c) = NoIf)

(* A step of such an element that touches only its own interface keeps     *)
(* what the invariant says of the connection.                              *)
LEMMA ElementStep ==
    ASSUME IfType, PortType, NEW c \in Conns, env \in Envs, UNCHANGED <<env, known, granted>>,
           PortsInv(c), AtElement(c), Local(c), OwnPorts(c)', NoneLost(c)', HopOK(c)', PairRight(c)',
           GoesUp(c) \/ GoesDown(c)
    PROVE  PortsInv(c)'
<1> DEFINE n == hop[c].el
           p == hop[c]
           q == hop'[c]
<1>1. /\ n \in {1, 2, 4, 5} /\ At(c) = SideOf(n) /\ At(c) \in Sides /\ End(c) \in Ends
      /\ ElOf(At(c), End(c)) = n /\ (n \in Kernels <=> End(c) # At(c))
  BY AtEnd DEF AtElement, Kernels, Tunnels
<1>2. ASSUME NEW e \in Sides, NEW x \in Ends, ElOf(e, x) # n
      PROVE  /\ ifindex'[e][x][c] = ifindex[e][x][c]
             /\ ifindex[e][x][c] # NoIf => /\ ports'[e][ifindex[e][x][c]] = ports[e][ifindex[e][x][c]]
                                           /\ xc'[e][ifindex[e][x][c]] = xc[e][ifindex[e][x][c]]
  <2>1. ~(e = At(c) /\ x = End(c))
    BY <1>1, <1>2
  <2>2. ifindex'[e][x][c] = ifindex[e][x][c]
    BY <2>1 DEF Local
  <2>3. ASSUME ifindex[e][x][c] # NoIf
        PROVE  /\ ports'[e][ifindex[e][x][c]] = ports[e][ifindex[e][x][c]]
               /\ xc'[e][ifindex[e][x][c]] = xc[e][ifindex[e][x][c]]
    <3>1. /\ ifindex[e][x][c] \in Ifs
          /\ ports[e][ifindex[e][x][c]].conn = c /\ ports[e][ifindex[e][x][c]].end = x
      BY <2>3 DEF IfType, PortsInv, OwnPorts, MyPort
    <3>2. ports[e][ifindex[e][x][c]] # NoPort
      BY <3>1, PortFacts
    <3>3. QED
      BY <2>1, <3>1, <3>2 DEF Local
  <2>4. QED
    BY <2>2, <2>3
<1>3. \A e \in Sides, x \in Ends : ElOf(e, x) \in {1, 2, 4, 5} /\ (ElOf(e, x) = n => e = At(c) /\ x = End(c))
  BY <1>1, ElementFacts
<1>4. HopOK(c) /\ hop[c].to \in {"up", "down"} /\ (hop[c].to = "down" => hop[c].from \in 1..7 /\ n <= hop[c].from)
  BY DEF PortsInv, AtElement, HopOK, DownOK, Idle, Asking, Answering, Pos
<1>5. NoneEarly(c)'
  <2> SUFFICES ASSUME NEW e \in Sides, NEW x \in Ends, c \notin known[e], ~Reached(q, ElOf(e, x))
               PROVE  ifindex'[e][x][c] = NoIf
    BY DEF NoneEarly, Reached
  <2>1. ~Reached(p, ElOf(e, x)) /\ ElOf(e, x) # n
    BY <1>1, <1>3, <1>4 DEF Reached, GoesUp, GoesDown
  <2>2. QED
    BY <2>1, <1>2 DEF PortsInv, NoneEarly
<1>6. NoneLeft(c)'
  <2> SUFFICES ASSUME NEW e \in Sides, NEW x \in Ends, Clean(e), Left(q, ElOf(e, x))
               PROVE  ifindex'[e][x][c] = NoIf
    BY DEF NoneLeft, Left, Clean
  <2>1. CASE ElOf(e, x) = n
    <3>1. hop'[c].el = hop[c].el - 1 /\ (Clean(At(c)) => NewIf(c) = NoIf)
      BY <2>1, <1>1 DEF GoesUp, GoesDown, Left
    <3>2. QED
      BY <3>1, <2>1, <1>3 DEF NewIf
  <2>2. CASE ElOf(e, x) # n
    <3>1. Left(p, ElOf(e, x))
      BY <2>2, <1>1, <1>3 DEF GoesUp, GoesDown, Left
    <3>2. QED
      BY <3>1, <2>2, <1>2 DEF PortsInv, NoneLeft
  <2>3. QED
    BY <2>1, <2>2
<1>7. MadeRight(c)'
  <2>1. ASSUME NEW e \in Sides, NEW x \in Ends, Made(q, ElOf(e, x))
        PROVE  /\ ifindex'[e][x][c] # NoIf
               /\ x # e /\ env.kernel[e] = "tap" => ports'[e][ifindex'[e][x][c]].alive
    <3>1. CASE ElOf(e, x) = n
      <4>1. ReadyNext(c)
        BY <2>1, <3>1, <1>1 DEF Made, GoesUp, GoesDown
      <4>2. QED
        BY <4>1, <3>1, <1>1, <1>3 DEF ReadyNext, NewIf
    <3>2. CASE ElOf(e, x) # n
      <4>1. Made(p, ElOf(e, x))
        BY <2>1, <3>2, <1>1, <1>3 DEF Made, GoesUp, GoesDown
      <4>2. QED
        BY <4>1, <3>2, <1>2 DEF PortsInv, MadeRight, MyPort
    <3>3. QED
      BY <3>1, <3>2
  <2>2. ASSUME Here(c, "up", "tapcreate")' PROVE MyIf(c)' = NoIf
    <3>1. hop'[c].el = hop[c].el /\ NewIf(c) = NoIf
      BY <2>2 DEF Here, GoesUp, GoesDown
    <3>2. QED
      BY <3>1 DEF MyIf, NewIf, At, End
  <2>3. QED
    BY <2>1, <2>2 DEF MadeRight, MyPort
<1>8. JoinedSoFar(c)'
  <2>1. c \notin granted
    BY DEF PortsInv, JoinedSoFar, AtElement, Idle, Pos
  <2>2. ASSUME hop'[c].to = "up", hop'[c].el > 3 PROVE Joined("server", c)' /\ c \in known'["server"]
    <3>1. hop[c].to = "up" /\ n > 3 /\ At(c) = "client"
      BY <2>2, <1>1 DEF GoesUp, GoesDown, SideOf
    <3>2. Joined("server", c) /\ c \in known["server"]
      BY <3>1 DEF PortsInv, JoinedSoFar
    <3>3. "server" \in Sides /\ \A x \in Ends : ElOf("server", x) # n /\ Other(x) \in Ends
      BY <3>1 DEF Sides, Ends, ElOf, Other
    <3>4. QED
      BY <3>2, <3>3, <1>2, JoinedKept
  <2>3. Here(c, "up", "xc")' => hop'[c].call = 1
    <3>1. SUFFICES ASSUME hop'[c].to = "up", hop'[c].step = "xc" PROVE hop'[c].el # hop[c].el
      BY DEF Here, GoesUp, GoesDown
    <3>2. UpOK(hop[c])'
      BY <3>1 DEF HopOK, Idle, Asking, Answering, Pos
    <3>3. hop'[c].el \notin Kernels \cup Tunnels
      BY <3>1, <3>2 DEF UpOK, TapUp, VethUp
    <3>4. QED
      BY <3>3 DEF AtElement
  <2>4. Here(c, "up", "xc")' => \A j \in 1..MaxCall' : ~(j < hop'[c].call)
    BY <2>3
  <2>5. QED
    BY <2>1, <2>2, <2>4 DEF JoinedSoFar
<1>9. QED
  BY <1>5, <1>6, <1>7, <1>8 DEF PortsInv

(* The handler has moved as the chain allows it. *)
Goes(c) == HopOK(c)' /\ OthersStay(c) /\ (GoesUp(c) \/ GoesDown(c))

(* Where the steps of a handler at such an element lead. *)
AtStart(c) == HopInv /\ env \in Envs /\ env' = env /\ HopOK(c) /\ AtElement(c)

(* A step within an element on the way up. *)
LEMMA StepUpGoes ==
    ASSUME NEW c \in Conns, AtStart(c), hop[c].to = "up", NEW s, Step(c, s),
           hop[c].el \in Kernels => s \in IF Tap(hop[c].el) THEN TapUp ELSE VethUp,
           hop[c].el \in Tunnels => s = "set",
           s \in {"tapsetup", "neighbor", "set"} => ReadyNext(c),
           s = "tapcreate" => NewIf(c) = NoIf
    PROVE  Goes(c) /\ hop'[c].to = "up"
<1>1. /\ OthersStay(c) /\ hop'[c].step = s /\ hop'[c].to = "up" /\ hop'[c].el = hop[c].el
  BY StepMoves DEF AtStart
<1>2. hop[c].el \in 1..6 /\ hop[c].el \notin XConnects
  BY DEF AtStart, AtElement, Kernels, Tunnels, XConnects
<1>3. UpOK(hop[c])'
  BY <1>1, <1>2 DEF UpOK, Tap, AtStart
<1>4. QED
  BY <1>1, <1>3 DEF Goes, GoesUp, HopOK

(* The step to the next element on the way up. *)
LEMMA NextUpGoes ==
    ASSUME NEW c \in Conns, AtStart(c), hop[c].to = "up", NextUp(c), ReadyNext(c)
    PROVE  Goes(c) /\ hop'[c].to = "up"
<1> DEFINE n == hop[c].el + 1
<1>1. n \in 1..6
  BY DEF AtStart, AtElement, Kernels, Tunnels
<1>2. hop'[c] = Up(n) /\ OthersStay(c)
  BY PosMoves DEF NextUp, AtStart
<1>3. /\ UpOK(Up(n)) /\ Up(n).to = "up" /\ Up(n).el = n /\ Up(n).call = 1
      /\ Up(n).step \notin {"tapsetup", "tapcreate", "neighbor", "set"}
  BY <1>1, UpFirst DEF AtStart
<1>4. UpOK(hop[c])'
  BY <1>2, <1>3 DEF UpOK, Tap, MaxCall, AtStart
<1>5. QED
  BY <1>2, <1>3, <1>4 DEF Goes, GoesUp, HopOK

(* A step that fails. *)
LEMMA FailGoes ==
    ASSUME NEW c \in Conns, AtStart(c), hop[c].to = "up", Fail(c)
    PROVE  Goes(c) /\ hop'[c].to = "down" /\ hop'[c].step # "vethdel"
<1> DEFINE n == hop[c].el
<1>1. n \in 0..6 /\ n \in 1..7 /\ n <= n
  BY DEF AtStart, AtElement, Kernels, Tunnels
<1>2. hop'[c] = Down(n, n) /\ OthersStay(c)
  BY PosMoves DEF Fail, AtStart
<1>3. /\ DownOK(Down(n, n)) /\ Down(n, n).to = "down" /\ Down(n, n).el = n
      /\ Down(n, n).from = n /\ Down(n, n).step # "vethdel"
  BY <1>1, DownFirst DEF AtStart
<1>4. DownOK(hop[c])'
  BY <1>2, <1>3 DEF DownOK, Tap, MaxCall, AtStart
<1>5. QED
  BY <1>2, <1>3, <1>4 DEF Goes, GoesDown, HopOK

(* The step to the element behind, on the way down. *)
LEMMA NextDownGoes ==
    ASSUME NEW c \in Conns, AtStart(c), hop[c].to = "down", NextDown(c),
           Clean(At(c)) => NewIf(c) = NoIf
    PROVE  Goes(c) /\ hop'[c].to = "down" /\ hop'[c].step # "vethdel"
<1> DEFINE n == hop[c].el - 1
           from == hop[c].from
<1>1. DownOK(hop[c])
  BY DEF AtStart, HopOK, Idle, Asking, Answering, Pos
<1>2. n \in 0..6 /\ from \in 1..7 /\ n <= from
  BY <1>1 DEF AtStart, AtElement, DownOK, Kernels, Tunnels
<1>3. hop'[c] = Down(n, from) /\ OthersStay(c)
  BY PosMoves DEF NextDown, AtStart
<1>4. /\ DownOK(Down(n, from)) /\ Down(n, from).to = "down" /\ Down(n, from).el = n
      /\ Down(n, from).from = from /\ Down(n, from).step # "vethdel"
  BY <1>2, DownFirst DEF AtStart
<1>5. DownOK(hop[c])'
  BY <1>3, <1>4 DEF DownOK, Tap, MaxCall, AtStart
<1>6. QED
  BY <1>3, <1>4, <1>5 DEF Goes, GoesDown, HopOK

(* A veth pair is closed from one of its steps on, or goes on closing. *)
LEMMA VethDownGoes ==
    ASSUME NEW c \in Conns, AtStart(c), hop[c].el \in Kernels, ~Tap(hop[c].el), NEW s \in VethDown,
           (hop[c].to = "up" /\ FailAt(c, s)) \/ (hop[c].to = "down" /\ Step(c, s))
    PROVE  Goes(c) /\ hop'[c].to = "down" /\ hop'[c].step = s /\ hop'[c].el = hop[c].el
<1>1. /\ hop[c].el \in 1..6 /\ hop[c].el \in 1..7 /\ hop[c].el \in 0..6 /\ hop[c].el # 0
      /\ hop[c].el \notin Tunnels /\ hop[c].el \notin XConnects
  BY DEF Kernels, Tunnels, XConnects
<1>2. CASE hop[c].to = "up" /\ FailAt(c, s)
  <2>1. /\ OthersStay(c) /\ hop'[c].step = s
        /\ hop'[c].to = "down" /\ hop'[c].el = hop[c].el /\ hop'[c].from = hop[c].el
    BY <1>2, FailMoves DEF AtStart
  <2>2. DownOK(hop[c])'
    BY <1>1, <2>1 DEF DownOK, Tap, AtStart
  <2>3. QED
    BY <1>2, <2>1, <2>2 DEF Goes, GoesDown, HopOK
<1>3. CASE hop[c].to = "down" /\ Step(c, s)
  <2>1. DownOK(hop[c])
    BY <1>3 DEF AtStart, HopOK, Idle, Asking, Answering, Pos
  <2>2. /\ OthersStay(c) /\ hop'[c].step = s
        /\ hop'[c].to = "down" /\ hop'[c].el = hop[c].el /\ hop'[c].from = hop[c].from
    BY <1>3, StepMoves DEF AtStart
  <2>3. DownOK(hop[c])'
    BY <1>1, <2>1, <2>2 DEF DownOK, Tap, AtStart
  <2>4. QED
    BY <1>3, <2>2, <2>3 DEF Goes, GoesDown, HopOK
<1>4. QED
  BY <1>2, <1>3

(* What a step of the handler of c establishes. *)
StepInv(c) == /\ IfType' /\ PortType' /\ XcType' /\ PortsInv(c)'
              /\ \A d \in Conns \ {c} : Untouched(d)

(* A step on its own interface leaves the other connections alone. *)
LEMMA OthersUntouched ==
    ASSUME NEW c \in Conns, Local(c), OthersStay(c), UNCHANGED <<known, granted>>,
           \A f \in Sides, d \in Conns \ {c} : veth'[f][d] = veth[f][d]
    PROVE  \A d \in Conns \ {c} : Untouched(d)
<1> SUFFICES ASSUME NEW d \in Conns \ {c} PROVE Untouched(d)
  OBVIOUS
<1>1. \A e \in Sides, i \in Ifs : ports[e][i].conn = d \/ ports'[e][i].conn = d =>
          ports'[e][i] = ports[e][i] /\ xc'[e][i] = xc[e][i]
  BY PortFacts DEF Local
<1>2. QED
  BY <1>1 DEF Untouched, Local, OthersStay

(* The veth pairs of c are left alone by tunnels and taps. *)
LEMMA PairKept ==
    ASSUME NEW c \in Conns, IfType, AtStart(c), PortsInv(c), Local(c), UNCHANGED veth,
           hop'[c].to = "up" \/ hop'[c].step # "vethdel",
           hop[c].el \in Tunnels \/ env.kernel[At(c)] = "tap"
    PROVE  PairRight(c)'
<1> SUFFICES ASSUME NEW e \in Sides, env.kernel[e] = "veth", "netns" \notin env.faults[e]
             PROVE  /\ KernelIf(e, c)' # NoIf => /\ veth[e][c].link /\ veth[e][c].peer
                                                 /\ ports'[e][KernelIf(e, c)'].alive
                    /\ veth[e][c].peer => veth[e][c].link
  BY DEF PairRight, MyPort, KernelIf, Here, AtStart
<1>1. /\ At(c) \in Sides /\ Other(e) \in Ends /\ Other(e) # e
      /\ ~(e = At(c) /\ Other(e) = End(c))
  BY AtEnd, ElementFacts DEF AtStart, AtElement
<1>2. KernelIf(e, c)' = KernelIf(e, c) /\ KernelIf(e, c) \in Ifs \cup {NoIf}
  BY <1>1 DEF Local, KernelIf, IfType
<1>3. ASSUME KernelIf(e, c) # NoIf PROVE ports'[e][KernelIf(e, c)] = ports[e][KernelIf(e, c)]
  <2>1. ports[e][KernelIf(e, c)].conn = c /\ ports[e][KernelIf(e, c)].end = Other(e)
    BY <1>1, <1>3 DEF PortsInv, OwnPorts, MyPort, KernelIf
  <2>2. ports[e][KernelIf(e, c)] # NoPort
    BY <2>1, PortFacts
  <2>3. QED
    BY <1>1, <1>2, <1>3, <2>1, <2>2 DEF Local
<1>4. QED
  BY <1>2, <1>3 DEF PortsInv, PairRight, MyPort, KernelIf

(* The veth pairs of c are left alone by what changes no interface. *)
LEMMA PairSame ==
    ASSUME NEW c \in Conns, PairRight(c), UNCHANGED <<ifindex, ports, veth, env>>,
           hop'[c].to = "up" \/ hop'[c].step # "vethdel"
    PROVE  PairRight(c)'
BY DEF PairRight, MyPort, KernelIf, Here

(* The handler of c, before and while it takes a step. *)
Running(c) == FwdInv /\ DataType /\ PortsInv(c) /\ env' = env

(* What the invariant gives to a handler. *)
LEMMA RunningFacts ==
    ASSUME NEW c \in Conns, Running(c)
    PROVE  /\ HopInv /\ env \in Envs /\ HopOK(c) /\ IfType /\ PortType /\ XcType
           /\ AtElement(c) => Placed(c) /\ AtStart(c)
<1>1. HopInv /\ env \in Envs /\ HopOK(c) /\ IfType /\ PortType /\ XcType /\ env' = env
  BY DEF Running, FwdInv, DataType, PortsInv, IfType, PortType, XcType
<1>2. AtElement(c) => At(c) \in Sides /\ End(c) \in Ends
  BY AtEnd DEF AtElement
<1>3. QED
  BY <1>1, <1>2 DEF Placed, AtStart, Running, PortsInv

(* A step of an element that makes interfaces. *)
LEMMA ElementInv ==
    ASSUME NEW c \in Conns, Running(c), AtElement(c), Local(c), OwnPorts(c)', NoneLost(c)',
           Goes(c), PairRight(c)', UNCHANGED <<known, granted>>,
           \A f \in Sides, d \in Conns \ {c} : veth'[f][d] = veth[f][d]
    PROVE  StepInv(c)
<1>1. IfType /\ PortType /\ env \in Envs /\ PortsInv(c) /\ env' = env
  BY RunningFacts DEF Running
<1>2. PortsInv(c)'
  BY <1>1, ElementStep DEF Goes
<1>3. QED
  BY <1>2, OthersUntouched DEF StepInv, Goes, Local

(* Which element a step belongs to. *)
LEMMA TapPlace ==
    ASSUME NEW c \in Conns, HopOK(c), env \in Envs,
           (hop[c].to = "up" /\ hop[c].step \in {"tap", "tapcreate", "tapsetup"})
             \/ (hop[c].to = "down" /\ hop[c].step = "tapdel")
    PROVE  AtElement(c) /\ hop[c].el \in Kernels /\ Tap(hop[c].el) /\ env.kernel[At(c)] = "tap"
<1>1. hop[c].el \in Kernels /\ Tap(hop[c].el)
  BY DEF HopOK, UpOK, DownOK, Idle, Asking, Answering, Pos, VethUp, VethDown, Kernels, Tunnels, XConnects
<1>2. QED
  BY <1>1 DEF AtElement, Tap, At

(* The steps of a veth pair. *)
LEMMA VethPlace ==
    ASSUME NEW c \in Conns, HopOK(c), env \in Envs,
           (hop[c].to = "up" /\ hop[c].step \in {"veth", "vethmtu", "afpacket", "neighbor"})
             \/ (hop[c].to = "down" /\ hop[c].step \in VethDown)
    PROVE  AtElement(c) /\ hop[c].el \in Kernels /\ ~Tap(hop[c].el) /\ env.kernel[At(c)] # "tap"
<1>1. hop[c].el \in Kernels /\ ~Tap(hop[c].el)
  BY DEF HopOK, UpOK, DownOK, Idle, Asking, Answering, Pos, TapUp, VethDown, Kernels, Tunnels, XConnects
<1>2. QED
  BY <1>1 DEF AtElement, Tap, At

(* The steps of a tunnel. *)
LEMMA TunnelPlace ==
    ASSUME NEW c \in Conns, HopOK(c),
           (hop[c].to = "up" /\ hop[c].step = "tunnel") \/ (hop[c].to = "down" /\ hop[c].step = "tunneldel")
    PROVE  AtElement(c) /\ hop[c].el \in Tunnels /\ hop[c].el \notin Kernels
<1>1. hop[c].el \in Tunnels
  BY DEF HopOK, UpOK, DownOK, Idle, Asking, Answering, Pos, TapUp, VethUp, VethDown, Kernels, Tunnels, XConnects
<1>2. QED
  BY <1>1 DEF AtElement, Kernels, Tunnels

(* The step that sets an interface up. *)
LEMMA SetPlace ==
    ASSUME NEW c \in Conns, HopOK(c), hop[c].to = "up", hop[c].step = "set"
    PROVE  AtElement(c)
BY DEF HopOK, UpOK, Idle, Asking, Answering, Pos, AtElement, Kernels, Tunnels, XConnects

(* The interface of an element that has made it is there, and stays. *)
LEMMA MadeReady ==
    ASSUME NEW c \in Conns, Running(c), AtElement(c), hop[c].to = "up",
           hop[c].step \in {"tapsetup", "neighbor", "set"}, UNCHANGED ifindex,
           MyIf(c) # NoIf => ports'[At(c)][MyIf(c)].alive = ports[At(c)][MyIf(c)].alive
    PROVE  ReadyNext(c)
<1>1. /\ At(c) \in Sides /\ End(c) \in Ends /\ ElOf(At(c), End(c)) = hop[c].el
      /\ hop[c].el \in Kernels => End(c) # At(c)
  BY AtEnd DEF AtElement
<1>2. Made(hop[c], ElOf(At(c), End(c)))
  BY <1>1 DEF Made
<1>3. MyIf(c) # NoIf /\ (hop[c].el \in Kernels /\ env.kernel[At(c)] = "tap" => ports[At(c)][MyIf(c)].alive)
  BY <1>1, <1>2 DEF Running, PortsInv, MadeRight, MyPort, MyIf
<1>4. QED
  BY <1>3 DEF ReadyNext, NewIf, MyIf

-----------------------------------------------------------------------------
(* mechanisms/kernel/kerneltap *)

(* del of kerneltap: the index is forgotten, whether VPP obeys or not. *)
LEMMA TapDeleteEffect ==
    ASSUME NEW c, Placed(c), TapDelete(c), UNCHANGED env
    PROVE  Local(c) /\ OwnPorts(c)' /\ NoneLost(c)' /\ NewIf(c) = NoIf
<1>1. CASE RemovePort(At(c), MyIf(c))
  BY <1>1, RemoveEffect DEF TapDelete
<1>2. CASE Faulty(c, "delete") /\ UNCHANGED <<ports, xc>>
  <2>1. ~Clean(At(c))
    BY <1>2 DEF Faulty, Clean
  <2>2. QED
    BY <1>2, <2>1, ForgetEffect DEF TapDelete
<1>3. QED
  BY <1>1, <1>2 DEF TapDelete

(* create and del of kerneltap. *)
LEMMA TapInv ==
    ASSUME NEW c \in Conns, Running(c), TapStep(c)
    PROVE  StepInv(c)
<1>1. \/ hop[c].to = "up" /\ hop[c].step = "tap" /\ TapCheck(c)
      \/ hop[c].to = "up" /\ hop[c].step = "tapcreate" /\ TapCreate(c)
      \/ hop[c].to = "up" /\ hop[c].step = "tapsetup" /\ TapSetup(c)
      \/ hop[c].to = "down" /\ hop[c].step = "tapdel" /\ TapDel(c)
  BY DEF TapStep, TapCheck, TapCreate, TapSetup, TapDel, Here
<1>2. /\ AtElement(c) /\ hop[c].el \in Kernels /\ Tap(hop[c].el) /\ env.kernel[At(c)] = "tap"
      /\ Placed(c) /\ AtStart(c) /\ hop[c].el \notin Tunnels
  BY <1>1, TapPlace, RunningFacts DEF Kernels, Tunnels
<1>3. UNCHANGED <<known, granted, veth, env>>
  BY <1>1 DEF TapCheck, TapCreate, TapSetup, TapDel, client, meta, Running
<1>4. SUFFICES /\ Local(c) /\ OwnPorts(c)' /\ NoneLost(c)' /\ Goes(c)
               /\ hop'[c].to = "up" \/ hop'[c].step # "vethdel"
  <2>1. PairRight(c)'
    BY <1>2, <1>3, <1>4, PairKept, RunningFacts DEF Running
  <2>2. QED
    BY <1>2, <1>3, <1>4, <2>1, ElementInv
<1>5. CASE hop[c].to = "up" /\ hop[c].step = "tap" /\ TapCheck(c)
  <2>1. CASE Fail(c) /\ UNCHANGED <<ifindex, ports, xc>>
    BY <1>2, <1>3, <1>5, <2>1, FailGoes, SameEffect
  <2>2. CASE TapLoad(c) /\ Step(c, "set") /\ UNCHANGED <<ifindex, ports, xc>>
    <3>1. Local(c) /\ OwnPorts(c)' /\ NoneLost(c)' /\ NewIf(c) = MyIf(c)
      BY <1>2, <1>3, <2>2, SameEffect
    <3>2. ReadyNext(c)
      BY <2>2, <3>1 DEF ReadyNext, TapLoad
    <3>3. Goes(c) /\ hop'[c].to = "up"
      BY <1>2, <1>5, <2>2, <3>2, StepUpGoes DEF TapUp
    <3>4. QED
      BY <3>1, <3>3
  <2>3. CASE MyIf(c) = NoIf /\ Step(c, "tapcreate") /\ UNCHANGED <<ifindex, ports, xc>>
    <3>1. Local(c) /\ OwnPorts(c)' /\ NoneLost(c)' /\ NewIf(c) = NoIf
      BY <1>2, <1>3, <2>3, SameEffect
    <3>2. Goes(c) /\ hop'[c].to = "up"
      BY <1>2, <1>5, <2>3, <3>1, StepUpGoes DEF TapUp
    <3>3. QED
      BY <3>1, <3>2
  <2>4. CASE TapDelete(c) /\ Step(c, "tapcreate")
    <3>1. Local(c) /\ OwnPorts(c)' /\ NoneLost(c)' /\ NewIf(c) = NoIf
      BY <1>2, <1>3, <2>4, TapDeleteEffect
    <3>2. Goes(c) /\ hop'[c].to = "up"
      BY <1>2, <1>5, <2>4, <3>1, StepUpGoes DEF TapUp
    <3>3. QED
      BY <3>1, <3>2
  <2>5. QED
    BY <1>5, <2>1, <2>2, <2>3, <2>4 DEF TapCheck
<1>6. CASE hop[c].to = "up" /\ hop[c].step = "tapcreate" /\ TapCreate(c)
  <2>1. CASE CreatePort(c) /\ Step(c, "tapsetup")
    <3>1. MyIf(c) = NoIf
      BY <1>6 DEF Running, PortsInv, MadeRight, Here
    <3>2. /\ Local(c) /\ OwnPorts(c)' /\ NoneLost(c)'
          /\ NewIf(c) \in Ifs /\ ports'[At(c)][NewIf(c)].alive
      BY <1>2, <1>3, <1>6, <2>1, <3>1, CreateEffect DEF TapCreate
    <3>3. ReadyNext(c)
      BY <3>2, PortFacts DEF ReadyNext
    <3>4. Goes(c) /\ hop'[c].to = "up"
      BY <1>2, <1>6, <2>1, <3>3, StepUpGoes DEF TapUp
    <3>5. QED
      BY <3>2, <3>4
  <2>2. CASE Fail(c) /\ UNCHANGED <<ports, ifindex>>
    BY <1>2, <1>3, <1>6, <2>2, FailGoes, SameEffect DEF TapCreate
  <2>3. QED
    BY <1>6, <2>1, <2>2 DEF TapCreate
<1>7. CASE hop[c].to = "up" /\ hop[c].step = "tapsetup" /\ TapSetup(c)
  <2>1. UNCHANGED <<ifindex, ports, xc>>
    BY <1>7 DEF TapSetup, meta, vpp
  <2>2. Local(c) /\ OwnPorts(c)' /\ NoneLost(c)' /\ NewIf(c) = MyIf(c)
    BY <1>2, <1>3, <2>1, SameEffect
  <2>3. ReadyNext(c)
    BY <1>2, <1>7, <2>1, MadeReady
  <2>4. CASE Step(c, "set")
    BY <1>2, <1>7, <2>2, <2>3, <2>4, StepUpGoes DEF TapUp
  <2>5. CASE Fail(c)
    BY <1>2, <1>7, <2>2, <2>5, FailGoes
  <2>6. QED
    BY <1>7, <2>4, <2>5 DEF TapSetup
<1>8. CASE hop[c].to = "down" /\ hop[c].step = "tapdel" /\ TapDel(c)
  <2>1. Local(c) /\ OwnPorts(c)' /\ NoneLost(c)' /\ NewIf(c) = NoIf
    BY <1>2, <1>3, <1>8, TapDeleteEffect, SameEffect DEF TapDel
  <2>2. QED
    BY <1>2, <1>8, <2>1, NextDownGoes DEF TapDel
<1>9. QED
  BY <1>1, <1>5, <1>6, <1>7, <1>8

-----------------------------------------------------------------------------
(* mechanisms/vxlan, tag and connectioncontext/mtu *)

(* addDel of vxlan, for both values of isAdd. *)
LEMMA TunnelInv ==
    ASSUME NEW c \in Conns, Running(c), TunnelStep(c)
    PROVE  StepInv(c)
<1>1. \/ hop[c].to = "up" /\ hop[c].step = "tunnel" /\ Tunnel(c)
      \/ hop[c].to = "down" /\ hop[c].step = "tunneldel" /\ TunnelDel(c)
  BY DEF TunnelStep, Tunnel, TunnelDel, Here
<1>2. /\ AtElement(c) /\ hop[c].el \in Tunnels /\ hop[c].el \notin Kernels
      /\ Placed(c) /\ AtStart(c)
  BY <1>1, TunnelPlace, RunningFacts
<1>3. UNCHANGED <<known, granted, veth, env>>
  BY <1>1 DEF Tunnel, TunnelDel, client, Running
<1>4. SUFFICES /\ Local(c) /\ OwnPorts(c)' /\ NoneLost(c)' /\ Goes(c)
               /\ hop'[c].to = "up" \/ hop'[c].step # "vethdel"
  <2>1. PairRight(c)'
    BY <1>2, <1>3, <1>4, PairKept, RunningFacts DEF Running
  <2>2. QED
    BY <1>2, <1>3, <1>4, <2>1, ElementInv
<1>5. CASE hop[c].to = "up" /\ hop[c].step = "tunnel" /\ Tunnel(c)
  <2>1. CASE MyIf(c) # NoIf /\ Step(c, "set") /\ UNCHANGED <<ports, ifindex>>
    <3>1. Local(c) /\ OwnPorts(c)' /\ NoneLost(c)' /\ NewIf(c) = MyIf(c)
      BY <1>2, <1>3, <1>5, <2>1, SameEffect DEF Tunnel
    <3>2. ReadyNext(c)
      BY <1>2, <2>1, <3>1 DEF ReadyNext
    <3>3. QED
      BY <1>2, <1>5, <2>1, <3>1, <3>2, StepUpGoes
  <2>2. CASE MyIf(c) = NoIf /\ CreatePort(c) /\ Step(c, "set")
    <3>1. Local(c) /\ OwnPorts(c)' /\ NoneLost(c)' /\ NewIf(c) \in Ifs
      BY <1>2, <1>3, <1>5, <2>2, CreateEffect DEF Tunnel
    <3>2. ReadyNext(c)
      BY <1>2, <3>1, PortFacts DEF ReadyNext
    <3>3. QED
      BY <1>2, <1>5, <2>2, <3>1, <3>2, StepUpGoes
  <2>3. CASE Fail(c) /\ UNCHANGED <<ports, ifindex>>
    BY <1>2, <1>3, <1>5, <2>3, FailGoes, SameEffect DEF Tunnel
  <2>4. QED
    BY <1>5, <2>1, <2>2, <2>3 DEF Tunnel
<1>6. CASE hop[c].to = "down" /\ hop[c].step = "tunneldel" /\ TunnelDel(c)
  <2>1. CASE MyIf(c) # NoIf /\ RemovePort(At(c), MyIf(c)) /\ DeleteIf(c)
    BY <1>2, <1>3, <1>6, <2>1, RemoveEffect, NextDownGoes DEF TunnelDel
  <2>2. CASE (MyIf(c) = NoIf \/ Faulty(c, "delete")) /\ UNCHANGED <<ports, xc, ifindex>>
    <3>1. Local(c) /\ OwnPorts(c)' /\ NoneLost(c)' /\ NewIf(c) = MyIf(c)
      BY <1>2, <1>3, <2>2, SameEffect
    <3>2. Clean(At(c)) => NewIf(c) = NoIf
      BY <2>2, <3>1 DEF Clean, Faulty
    <3>3. QED
      BY <1>2, <1>6, <3>1, <3>2, NextDownGoes DEF TunnelDel
  <2>3. QED
    BY <1>6, <2>1, <2>2 DEF TunnelDel
<1>7. QED
  BY <1>1, <1>5, <1>6

(* The calls that tag an interface and set its MTU. *)
LEMMA SetUpInv ==
    ASSUME NEW c \in Conns, Running(c), SetUp(c)
    PROVE  StepInv(c)
<1>1. hop[c].to = "up" /\ hop[c].step = "set"
  BY DEF SetUp, Here
<1>2. AtElement(c) /\ Placed(c) /\ AtStart(c)
  BY <1>1, SetPlace, RunningFacts
<1>3. UNCHANGED <<known, granted, veth, env, ifindex, ports, xc>>
  BY DEF SetUp, client, meta, Running
<1>4. Local(c) /\ OwnPorts(c)' /\ NoneLost(c)' /\ NewIf(c) = MyIf(c)
  BY <1>2, <1>3, SameEffect
<1>5. Goes(c) /\ (hop'[c].to = "up" \/ hop'[c].step # "vethdel")
  <2>1. CASE NextUp(c)
    <3>1. ReadyNext(c)
      BY <1>1, <1>2, <1>3, MadeReady
    <3>2. QED
      BY <1>1, <1>2, <2>1, <3>1, NextUpGoes
  <2>2. CASE Fail(c)
    BY <1>1, <1>2, <2>2, FailGoes
  <2>3. QED
    BY <2>1, <2>2 DEF SetUp
<1>6. PairRight(c)'
  BY <1>3, <1>5, PairSame DEF Running, PortsInv
<1>7. QED
  BY <1>2, <1>3, <1>4, <1>5, <1>6, ElementInv

-----------------------------------------------------------------------------
(* mechanisms/kernel/kernelvethpair *)

(* What a step at the pair of forwarder At(c) must show of it. *)
PairNext(c) == "netns" \notin env.faults[At(c)] =>
    /\ NewIf(c) # NoIf => /\ veth'[At(c)][c].link /\ veth'[At(c)][c].peer
                          /\ ports'[At(c)][NewIf(c)].alive
    /\ veth'[At(c)][c].peer => veth'[At(c)][c].link
    /\ hop'[c].to = "down" /\ hop'[c].step = "vethdel" => NewIf(c) = NoIf

(* With that, what the invariant says of the pairs of c holds. *)
LEMMA PairNextRight ==
    ASSUME NEW c \in Conns, Running(c), AtElement(c), hop[c].el \in Kernels, Local(c), PairNext(c),
           \A f \in Sides, d \in Conns : veth'[f][d] = veth[f][d] \/ (f = At(c) /\ d = c),
           hop'[c].step = "vethdel" => hop'[c].el = hop[c].el
    PROVE  PairRight(c)'
<1> SUFFICES ASSUME NEW e \in Sides, env.kernel[e] = "veth", "netns" \notin env.faults[e]
             PROVE  /\ KernelIf(e, c)' # NoIf => /\ veth'[e][c].link /\ veth'[e][c].peer
                                                 /\ ports'[e][KernelIf(e, c)'].alive
                    /\ veth'[e][c].peer => veth'[e][c].link
                    /\ Here(c, "down", "vethdel")' /\ At(c)' = e => KernelIf(e, c)' = NoIf
  BY DEF PairRight, MyPort, KernelIf, Running
<1>1. At(c) \in Sides /\ End(c) = Other(At(c)) /\ Other(e) \in Ends
  BY AtEnd, ElementFacts DEF AtElement
<1>2. hop'[c].step = "vethdel" => At(c)' = At(c)
  BY DEF At
<1>3. CASE e = At(c)
  BY <1>1, <1>3 DEF PairNext, NewIf, KernelIf, Here
<1>4. CASE e # At(c)
  <2>1. KernelIf(e, c)' = KernelIf(e, c) /\ KernelIf(e, c) \in Ifs \cup {NoIf} /\ veth'[e][c] = veth[e][c]
    BY <1>1, <1>4, RunningFacts DEF Local, KernelIf, IfType
  <2>2. ASSUME KernelIf(e, c) # NoIf PROVE ports'[e][KernelIf(e, c)] = ports[e][KernelIf(e, c)]
    BY <1>4, <2>1, <2>2 DEF Local
  <2>3. ~(Here(c, "down", "vethdel")' /\ At(c)' = e)
    BY <1>2, <1>4 DEF Here
  <2>4. QED
    BY <2>1, <2>2, <2>3 DEF Running, PortsInv, PairRight, MyPort, KernelIf
<1>5. QED
  BY <1>3, <1>4

(* The pair is deleted. *)
LEMMA KillPairEffect ==
    ASSUME NEW c, Placed(c), KillPair(c) \/ UNCHANGED ports, UNCHANGED <<ifindex, xc, env>>
    PROVE  Local(c) /\ OwnPorts(c)' /\ NoneLost(c)' /\ NewIf(c) = MyIf(c)
<1>1. CASE UNCHANGED ports
  BY <1>1, SameEffect
<1>2. CASE KillPair(c)
  <2>1. \A f \in Sides, i \in Ifs :
           ports'[f][i] = IF f = At(c) /\ ports[f][i].conn = c /\ ports[f][i].end = End(c)
                          THEN [ports[f][i] EXCEPT !.alive = FALSE] ELSE ports[f][i]
    BY <1>2 DEF KillPair, Placed, PortType
  <2>2. ASSUME NEW f \in Sides, NEW i \in Ifs, ports[f][i].conn = c, ports[f][i].end = End(c)
        PROVE  LET q == [ports[f][i] EXCEPT !.alive = FALSE]
               IN  q \in Port /\ q.conn = c /\ q.end = End(c)
    <3>1. ports[f][i] \in Port
      BY <2>2, PortFacts DEF Placed, PortType
    <3>2. QED
      BY <2>2, <3>1 DEF Port
  <2>3. PortType'
    <3>1. \A f \in Sides, i \in Ifs : ports'[f][i] \in Port \cup {NoPort}
      BY <2>1, <2>2 DEF Placed, PortType
    <3>2. ports' \in [Sides -> [Ifs -> Port \cup {NoPort}]]
      <4>1. ports' = [ports EXCEPT ![At(c)] = [i \in Ifs |-> ports'[At(c)][i]]]
        BY <1>2 DEF KillPair, Placed, PortType
      <4>2. QED
        BY <3>1, <4>1 DEF Placed, PortType
    <3>3. QED
      BY <3>2 DEF PortType
  <2>4. \A f \in Sides, i \in Ifs : \/ ports'[f][i] = ports[f][i]
                                    \/ f = At(c) /\ Marked(c, ports[f][i], ports'[f][i])
    BY <2>1, <2>2 DEF Marked
  <2>5. QED
    BY <2>3, <2>4, MarkEffect
<1>3. QED
  BY <1>1, <1>2

(* The neighbors of the interface are set or deleted. *)
LEMMA SetNbrEffect ==
    ASSUME NEW c, Placed(c), MyIf(c) # NoIf, NEW b \in BOOLEAN, SetNbr(c, b),
           UNCHANGED <<ifindex, xc, env>>
    PROVE  /\ Local(c) /\ OwnPorts(c)' /\ NoneLost(c)' /\ NewIf(c) = MyIf(c)
           /\ ports'[At(c)][MyIf(c)].alive = ports[At(c)][MyIf(c)].alive
<1> DEFINE old == ports[At(c)][MyIf(c)]
           new == [old EXCEPT !.nbr = b]
<1>1. MyIf(c) \in Ifs /\ old.conn = c /\ old.end = End(c)
  BY DEF Placed, IfType, OwnPorts, MyPort, MyIf
<1>2. old \in Port
  BY <1>1, PortFacts DEF Placed, PortType
<1>3. new \in Port /\ new.conn = c /\ new.end = End(c) /\ new.alive = old.alive
  BY <1>1, <1>2 DEF Port
<1>4. ports' = [ports EXCEPT ![At(c)][MyIf(c)] = new]
  BY <1>1 DEF SetNbr, Placed, PortType
<1> HIDE DEF new
<1>5. \A f \in Sides, i \in Ifs : ports'[f][i] = IF f = At(c) /\ i = MyIf(c) THEN new ELSE ports[f][i]
  BY <1>1, <1>4 DEF Placed, PortType
<1>6. PortType'
  BY <1>1, <1>3, <1>4 DEF Placed, PortType
<1>7. \A f \in Sides, i \in Ifs : \/ ports'[f][i] = ports[f][i]
                                  \/ f = At(c) /\ Marked(c, ports[f][i], ports'[f][i])
  BY <1>1, <1>3, <1>5 DEF Marked
<1>8. QED
  BY <1>1, <1>3, <1>5, <1>6, <1>7, MarkEffect DEF Placed

(* The handler of c at the elements of a veth pair. *)
AtVeth(c) == /\ AtElement(c) /\ hop[c].el \in Kernels /\ ~Tap(hop[c].el) /\ hop[c].el \notin Tunnels
             /\ env.kernel[At(c)] = "veth" /\ Placed(c) /\ AtStart(c)

(* What the invariant says of a veth pair at its own steps. *)
LEMMA VethFacts ==
    ASSUME NEW c \in Conns, Running(c),
           (hop[c].to = "up" /\ hop[c].step \in {"veth", "vethmtu", "afpacket", "neighbor"})
             \/ (hop[c].to = "down" /\ hop[c].step \in VethDown)
    PROVE  /\ AtVeth(c)
           /\ "netns" \notin env.faults[At(c)] =>
                 /\ MyIf(c) # NoIf => /\ veth[At(c)][c].link /\ veth[At(c)][c].peer
                                      /\ ports[At(c)][MyIf(c)].alive
                 /\ veth[At(c)][c].peer => veth[At(c)][c].link
                 /\ hop[c].to = "down" /\ hop[c].step = "vethdel" => MyIf(c) = NoIf
<1>1. AtElement(c) /\ hop[c].el \in Kernels /\ ~Tap(hop[c].el) /\ env.kernel[At(c)] # "tap"
  BY VethPlace, RunningFacts
<1>2. At(c) \in Sides /\ End(c) = Other(At(c)) /\ hop[c].el \notin Tunnels
  BY <1>1, AtEnd DEF Kernels, Tunnels
<1>3. env.kernel[At(c)] = "veth"
  BY <1>1, <1>2, EnvFacts, RunningFacts
<1>4. MyIf(c) = KernelIf(At(c), c) /\ MyPort(At(c), Other(At(c)), c) = ports[At(c)][MyIf(c)]
  BY <1>2 DEF MyIf, KernelIf, MyPort
<1>5. QED
  BY <1>1, <1>2, <1>3, <1>4, RunningFacts DEF Running, PortsInv, PairRight, Here, AtVeth

(* A step at a veth pair. *)
LEMMA VethStepInv ==
    ASSUME NEW c \in Conns, Running(c), AtVeth(c), Local(c), OwnPorts(c)', NoneLost(c)', Goes(c),
           PairNext(c), UNCHANGED <<known, granted>>,
           UNCHANGED veth \/ (\E l, p \in BOOLEAN : StoreVeth(c, l, p)),
           hop'[c].step = "vethdel" => hop'[c].el = hop[c].el
    PROVE  StepInv(c)
<1>1. \A f \in Sides, d \in Conns : veth'[f][d] = veth[f][d] \/ (f = At(c) /\ d = c)
  BY DEF StoreVeth, Running, DataType, AtVeth, Placed
<1>2. PairRight(c)'
  BY <1>1, PairNextRight DEF AtVeth
<1>3. QED
  BY <1>1, <1>2, ElementInv DEF AtVeth

(* What StoreVeth leaves in the metadata. *)
LEMMA StoreVethEffect ==
    ASSUME NEW c \in Conns, Running(c), AtVeth(c), NEW l \in BOOLEAN, NEW p \in BOOLEAN, StoreVeth(c, l, p)
    PROVE  veth'[At(c)][c].link = l /\ veth'[At(c)][c].peer = p
BY DEF StoreVeth, Running, DataType, AtVeth, Placed

(* create of kernelvethpair: a pair is found, made, or not made. *)
LEMMA VethCreateInv ==
    ASSUME NEW c \in Conns, Running(c), Veth(c)
    PROVE  StepInv(c)
<1>1. hop[c].to = "up" /\ hop[c].step = "veth"
  BY DEF Veth, Here
<1>2. /\ AtVeth(c) /\ Placed(c) /\ AtStart(c)
      /\ "netns" \notin env.faults[At(c)] =>
            /\ MyIf(c) # NoIf => /\ veth[At(c)][c].link /\ veth[At(c)][c].peer
                                 /\ ports[At(c)][MyIf(c)].alive
            /\ veth[At(c)][c].peer => veth[At(c)][c].link
  BY <1>1, VethFacts DEF AtVeth
<1>3. UNCHANGED <<known, granted, ifindex, xc, env>>
  BY DEF Veth, client, Running
<1>4. CASE Faulty(c, "netns") /\ FailAt(c, "vethdel") /\ UNCHANGED <<veth, kern, ports>>
  <2>1. Goes(c) /\ hop'[c].el = hop[c].el
    BY <1>1, <1>2, <1>4, VethDownGoes DEF AtVeth, VethDown
  <2>2. Local(c) /\ OwnPorts(c)' /\ NoneLost(c)'
    BY <1>2, <1>3, <1>4, SameEffect
  <2>3. PairNext(c)
    BY <1>4 DEF PairNext, Faulty
  <2>4. QED
    BY <1>2, <1>3, <1>4, <2>1, <2>2, <2>3, VethStepInv
<1>5. CASE Step(c, "vethmtu") /\ UNCHANGED <<veth, kern, ports>>
  <2>1. Goes(c) /\ hop'[c].step = "vethmtu"
    BY <1>1, <1>2, <1>5, StepUpGoes, StepMoves DEF AtVeth, VethUp, AtStart
  <2>2. Local(c) /\ OwnPorts(c)' /\ NoneLost(c)' /\ NewIf(c) = MyIf(c)
    BY <1>2, <1>3, <1>5, SameEffect
  <2>3. PairNext(c)
    BY <1>2, <1>5, <2>1, <2>2 DEF PairNext
  <2>4. QED
    BY <1>2, <1>3, <1>5, <2>1, <2>2, <2>3, VethStepInv
<1>6. CASE ~veth[At(c)][c].link /\ VethCreated(c) /\ Step(c, "vethmtu")
  <2>1. Goes(c) /\ hop'[c].step = "vethmtu"
    BY <1>1, <1>2, <1>6, StepUpGoes, StepMoves DEF AtVeth, VethUp, AtStart
  <2>2. KillPair(c) \/ UNCHANGED ports
    BY <1>6 DEF VethCreated, DeletePrevious
  <2>3. Local(c) /\ OwnPorts(c)' /\ NoneLost(c)' /\ NewIf(c) = MyIf(c)
    BY <1>2, <1>3, <2>2, KillPairEffect
  <2>4. StoreVeth(c, TRUE, TRUE)
    BY <1>6 DEF VethCreated
  <2>5. veth'[At(c)][c].link = TRUE /\ veth'[At(c)][c].peer = TRUE
    BY <1>2, <2>4, StoreVethEffect
  <2>6. PairNext(c)
    BY <1>2, <1>6, <2>1, <2>3, <2>5 DEF PairNext
  <2>7. QED
    BY <1>2, <1>3, <2>1, <2>3, <2>4, <2>6, VethStepInv
<1>7. CASE ~veth[At(c)][c].link /\ VethFails(c) /\ FailAt(c, "vethdel") /\ UNCHANGED veth
  <2>1. Goes(c) /\ hop'[c].el = hop[c].el
    BY <1>1, <1>2, <1>7, VethDownGoes DEF AtVeth, VethDown
  <2>2. KillPair(c) \/ UNCHANGED ports
    BY <1>7 DEF VethFails, DeletePrevious
  <2>3. Local(c) /\ OwnPorts(c)' /\ NoneLost(c)' /\ NewIf(c) = MyIf(c)
    BY <1>2, <1>3, <2>2, KillPairEffect
  <2>4. PairNext(c)
    BY <1>2, <1>7, <2>3 DEF PairNext
  <2>5. QED
    BY <1>2, <1>3, <1>7, <2>1, <2>3, <2>4, VethStepInv
<1>8. QED
  BY <1>4, <1>5, <1>6, <1>7 DEF Veth

(* The MTU of the pair. *)
LEMMA VethMtuInv ==
    ASSUME NEW c \in Conns, Running(c), VethMtu(c)
    PROVE  StepInv(c)
<1>1. hop[c].to = "up" /\ hop[c].step = "vethmtu"
  BY DEF VethMtu, Here
<1>2. /\ AtVeth(c) /\ Placed(c) /\ AtStart(c)
      /\ "netns" \notin env.faults[At(c)] =>
            /\ MyIf(c) # NoIf => /\ veth[At(c)][c].link /\ veth[At(c)][c].peer
                                 /\ ports[At(c)][MyIf(c)].alive
            /\ veth[At(c)][c].peer => veth[At(c)][c].link
  BY <1>1, VethFacts DEF AtVeth
<1>3. UNCHANGED <<known, granted, ifindex, ports, veth, xc, env>>
  BY DEF VethMtu, client, meta, vpp, Running
<1>4. Local(c) /\ OwnPorts(c)' /\ NoneLost(c)' /\ NewIf(c) = MyIf(c)
  BY <1>2, <1>3, SameEffect
<1>5. CASE Step(c, "afpacket")
  <2>1. Goes(c) /\ hop'[c].step = "afpacket"
    BY <1>1, <1>2, <1>5, StepUpGoes, StepMoves DEF AtVeth, VethUp, AtStart
  <2>2. PairNext(c)
    BY <1>2, <1>3, <1>4, <2>1 DEF PairNext
  <2>3. QED
    BY <1>2, <1>3, <1>4, <2>1, <2>2, VethStepInv
<1>6. CASE MyIf(c) = NoIf /\ FailAt(c, "vethdel")
  <2>1. Goes(c) /\ hop'[c].el = hop[c].el
    BY <1>1, <1>2, <1>6, VethDownGoes DEF AtVeth, VethDown
  <2>2. PairNext(c)
    BY <1>2, <1>3, <1>4, <1>6 DEF PairNext
  <2>3. QED
    BY <1>2, <1>3, <1>4, <2>1, <2>2, VethStepInv
<1>7. QED
  BY <1>5, <1>6 DEF VethMtu

(* create of afpacket: the interface is found, made, or not made. *)
LEMMA AfPacketInv ==
    ASSUME NEW c \in Conns, Running(c), AfPacket(c)
    PROVE  StepInv(c)
<1>1. hop[c].to = "up" /\ hop[c].step = "afpacket"
  BY DEF AfPacket, Here
<1>2. /\ AtVeth(c) /\ Placed(c) /\ AtStart(c) /\ env.kernel[At(c)] # "tap"
      /\ "netns" \notin env.faults[At(c)] =>
            /\ MyIf(c) # NoIf => /\ veth[At(c)][c].link /\ veth[At(c)][c].peer
                                 /\ ports[At(c)][MyIf(c)].alive
            /\ veth[At(c)][c].peer => veth[At(c)][c].link
  BY <1>1, VethFacts DEF AtVeth
<1>3. UNCHANGED <<known, granted, veth, xc, env>>
  BY DEF AfPacket, client, Running
<1>4. ASSUME NEW s \in {"neighbor", "set"}, MyIf(c) # NoIf, Step(c, s), UNCHANGED <<ports, ifindex>>
      PROVE  StepInv(c)
  <2>1. Local(c) /\ OwnPorts(c)' /\ NoneLost(c)' /\ NewIf(c) = MyIf(c)
    BY <1>2, <1>3, <1>4, SameEffect
  <2>2. ReadyNext(c)
    BY <1>2, <1>4, <2>1 DEF ReadyNext
  <2>3. Goes(c) /\ hop'[c].step # "vethdel"
    BY <1>1, <1>2, <1>4, <2>2, StepUpGoes, StepMoves DEF AtVeth, VethUp, AtStart
  <2>4. PairNext(c)
    BY <1>2, <1>3, <1>4, <2>1, <2>3 DEF PairNext
  <2>5. QED
    BY <1>2, <1>3, <2>1, <2>3, <2>4, VethStepInv
<1>5. ASSUME NEW s \in {"neighbor", "set"}, MyIf(c) = NoIf, veth[At(c)][c].peer, CreatePort(c), Step(c, s)
      PROVE  StepInv(c)
  <2>1. /\ Local(c) /\ OwnPorts(c)' /\ NoneLost(c)'
        /\ NewIf(c) \in Ifs /\ ports'[At(c)][NewIf(c)].alive
    BY <1>2, <1>3, <1>5, CreateEffect
  <2>2. ReadyNext(c)
    BY <1>2, <2>1, PortFacts DEF ReadyNext
  <2>3. Goes(c) /\ hop'[c].step # "vethdel"
    BY <1>1, <1>2, <1>5, <2>2, StepUpGoes, StepMoves DEF AtVeth, VethUp, AtStart
  <2>4. PairNext(c)
    BY <1>2, <1>3, <1>5, <2>1, <2>3 DEF PairNext
  <2>5. QED
    BY <1>2, <1>3, <2>1, <2>3, <2>4, VethStepInv
<1>6. ASSUME MyIf(c) = NoIf, FailAt(c, "afpacketdel"), UNCHANGED <<ports, ifindex>>
      PROVE  StepInv(c)
  <2>1. Local(c) /\ OwnPorts(c)' /\ NoneLost(c)' /\ NewIf(c) = MyIf(c)
    BY <1>2, <1>3, <1>6, SameEffect
  <2>2. Goes(c) /\ hop'[c].el = hop[c].el
    BY <1>1, <1>2, <1>6, VethDownGoes DEF AtVeth, VethDown
  <2>3. PairNext(c)
    BY <1>2, <1>3, <1>6, <2>1 DEF PairNext
  <2>4. QED
    BY <1>2, <1>3, <2>1, <2>2, <2>3, VethStepInv
<1>7. QED
  BY <1>4, <1>5, <1>6 DEF AfPacket

(* The neighbors of the interface are added or deleted. *)
LEMMA NeighborInv ==
    ASSUME NEW c \in Conns, Running(c), NeighborStep(c)
    PROVE  StepInv(c)
<1>1. \/ hop[c].to = "up" /\ hop[c].step = "neighbor" /\ Neighbor(c)
      \/ hop[c].to = "down" /\ hop[c].step = "neighbordel" /\ NeighborDel(c)
  BY DEF NeighborStep, Neighbor, NeighborDel, Here
<1>2. /\ AtVeth(c) /\ Placed(c) /\ AtStart(c) /\ env.kernel[At(c)] # "tap"
      /\ "netns" \notin env.faults[At(c)] =>
            /\ MyIf(c) # NoIf => /\ veth[At(c)][c].link /\ veth[At(c)][c].peer
                                 /\ ports[At(c)][MyIf(c)].alive
            /\ veth[At(c)][c].peer => veth[At(c)][c].link
  BY <1>1, VethFacts DEF AtVeth, VethDown
<1>3. UNCHANGED <<known, granted, ifindex, veth, xc, env>>
  BY <1>1 DEF Neighbor, NeighborDel, client, meta, Running
<1>4. (MyIf(c) # NoIf /\ \E b \in BOOLEAN : SetNbr(c, b)) \/ UNCHANGED ports
  BY <1>1 DEF Neighbor, NeighborDel, HasNbrs
<1>5. /\ Local(c) /\ OwnPorts(c)' /\ NoneLost(c)' /\ NewIf(c) = MyIf(c)
      /\ MyIf(c) # NoIf => ports'[At(c)][MyIf(c)].alive = ports[At(c)][MyIf(c)].alive
  BY <1>2, <1>3, <1>4, SameEffect, SetNbrEffect
<1>6. Goes(c) /\ hop'[c].step # "vethdel"
  <2>1. CASE hop[c].to = "up" /\ hop[c].step = "neighbor" /\ Neighbor(c)
    <3>1. ReadyNext(c)
      BY <1>2, <1>3, <1>5, <2>1, MadeReady DEF AtVeth
    <3>2. CASE Step(c, "set")
      <4>1. Goes(c)
        BY <1>2, <2>1, <3>1, <3>2, StepUpGoes DEF AtVeth, VethUp
      <4>2. hop'[c].step = "set"
        BY <1>2, <3>2, StepMoves DEF AtStart
      <4>3. QED
        BY <4>1, <4>2
    <3>3. CASE Fail(c)
      BY <1>2, <2>1, <3>3, FailGoes
    <3>4. QED
      BY <2>1, <3>2, <3>3 DEF Neighbor
  <2>2. CASE hop[c].to = "down" /\ hop[c].step = "neighbordel" /\ NeighborDel(c)
    BY <1>2, <2>2, VethDownGoes DEF NeighborDel, AtVeth, VethDown
  <2>3. QED
    BY <1>1, <2>1, <2>2
<1>7. PairNext(c)
  BY <1>2, <1>3, <1>5, <1>6 DEF PairNext
<1>8. QED
  BY <1>2, <1>3, <1>5, <1>6, <1>7, VethStepInv

(* del of afpacket: after a failure to find the interface it may be lost,  *)
(* but only where a deletion or a namespace fails.                         *)
LEMMA AfPacketDelInv ==
    ASSUME NEW c \in Conns, Running(c), AfPacketDel(c)
    PROVE  StepInv(c)
<1>1. hop[c].to = "down" /\ hop[c].step = "afpacketdel"
  BY DEF AfPacketDel, Here
<1>2. /\ AtVeth(c) /\ Placed(c) /\ AtStart(c)
      /\ "netns" \notin env.faults[At(c)] =>
            /\ MyIf(c) # NoIf => /\ veth[At(c)][c].link /\ veth[At(c)][c].peer
                                 /\ ports[At(c)][MyIf(c)].alive
            /\ veth[At(c)][c].peer => veth[At(c)][c].link
  BY <1>1, VethFacts DEF AtVeth, VethDown
<1>3. UNCHANGED <<known, granted, veth, env>> /\ DeleteIf(c) /\ Step(c, "vethdel")
  BY DEF AfPacketDel, client, Running
<1>4. Local(c) /\ OwnPorts(c)' /\ NoneLost(c)' /\ NewIf(c) = NoIf
  <2>1. CASE MyIf(c) # NoIf /\ RemovePort(At(c), MyIf(c))
    BY <1>2, <1>3, <2>1, RemoveEffect
  <2>2. CASE /\ ~(MyIf(c) # NoIf /\ veth[At(c)][c].peer /\ ports[At(c)][MyIf(c)].alive)
                \/ Faulty(c, "delete")
             /\ UNCHANGED <<ports, xc>>
    <3>1. MyIf(c) = NoIf \/ ~Clean(At(c))
      BY <1>2, <2>2 DEF Clean, Faulty
    <3>2. QED
      BY <1>2, <1>3, <2>2, <3>1, ForgetEffect
  <2>3. QED
    BY <2>1, <2>2 DEF AfPacketDel
<1>5. Goes(c) /\ hop'[c].el = hop[c].el
  BY <1>1, <1>2, <1>3, VethDownGoes DEF AtVeth, VethDown
<1>6. PairNext(c)
  BY <1>2, <1>3, <1>4 DEF PairNext
<1>7. QED
  BY <1>2, <1>3, <1>4, <1>5, <1>6, VethStepInv

(* del of kernelvethpair: the interface on the pair is forgotten already. *)
LEMMA VethDelInv ==
    ASSUME NEW c \in Conns, Running(c), VethDel(c)
    PROVE  StepInv(c)
<1>1. hop[c].to = "down" /\ hop[c].step = "vethdel"
  BY DEF VethDel, Here
<1>2. /\ AtVeth(c) /\ Placed(c) /\ AtStart(c)
      /\ "netns" \notin env.faults[At(c)] => MyIf(c) = NoIf
  BY <1>1, VethFacts DEF AtVeth, VethDown
<1>3. UNCHANGED <<known, granted, ifindex, xc, env>> /\ NextDown(c)
  BY DEF VethDel, client, Running
<1>4. KillPair(c) \/ UNCHANGED ports
  BY DEF VethDel
<1>5. Local(c) /\ OwnPorts(c)' /\ NoneLost(c)' /\ NewIf(c) = MyIf(c)
  BY <1>2, <1>3, <1>4, KillPairEffect
<1>6. Goes(c) /\ hop'[c].step # "vethdel"
  <2>1. Clean(At(c)) => NewIf(c) = NoIf
    BY <1>2, <1>5 DEF Clean
  <2>2. QED
    BY <1>1, <1>2, <1>3, <2>1, NextDownGoes
<1>7. PICK l \in BOOLEAN : StoreVeth(c, l, FALSE)
  BY DEF VethDel
<1>8. PairNext(c)
  BY <1>2, <1>5, <1>6, <1>7, StoreVethEffect DEF PairNext
<1>9. QED
  BY <1>2, <1>3, <1>5, <1>6, <1>7, <1>8, VethStepInv

(* All the steps of the kernel mechanisms. *)
LEMMA KernelInv ==
    ASSUME NEW c \in Conns, Running(c), Kernel(c)
    PROVE  StepInv(c)
BY TapInv, VethCreateInv, VethDelInv, VethMtuInv, AfPacketInv, AfPacketDelInv, NeighborInv
   DEF Kernel, kernelTapServer, kernelTapClient, kernelVethPairServer, kernelVethPairClient,
       vethMtuServer, vethMtuClient, afPacketServer, afPacketClient,
       ipNeighborServer, ipNeighborClient, VethStep, AfPacketStep

-----------------------------------------------------------------------------
(* Steps that leave the interfaces alone *)

(* Nothing but where the packets of c go is changed. *)
OnlyOwn(c) ==
    /\ UNCHANGED <<ifindex, ports, veth>> /\ XcType' /\ OthersStay(c)
    /\ \A f \in Sides, i \in Ifs : xc'[f][i] = xc[f][i] \/ ports[f][i].conn = c
    /\ \A d \in Conns \ {c} : /\ d \in granted' <=> d \in granted
                              /\ \A e \in Sides : d \in known'[e] <=> d \in known[e]

(* Such a step keeps all that is about interfaces. *)
LEMMA OnlyOwnInv ==
    ASSUME NEW c \in Conns, Running(c), OnlyOwn(c), HopOK(c)',
           NoneEarly(c)', NoneLeft(c)', MadeRight(c)', JoinedSoFar(c)',
           hop'[c].to = "up" \/ hop'[c].step # "vethdel"
    PROVE  StepInv(c)
<1>1. IfType /\ PortType /\ UNCHANGED <<ifindex, ports, env, veth>>
  BY RunningFacts DEF OnlyOwn, Running
<1>2. IfType' /\ PortType' /\ XcType'
  BY <1>1 DEF IfType, PortType, OnlyOwn
<1>3. OwnPorts(c)' /\ NoneLost(c)'
  BY <1>1 DEF Running, PortsInv, OwnPorts, NoneLost, MyPort, Clean
<1>4. PairRight(c)'
  BY <1>1, PairSame DEF Running, PortsInv
<1>5. ASSUME NEW d \in Conns \ {c} PROVE Untouched(d)
  BY <1>1 DEF Untouched, OnlyOwn, OthersStay
<1>6. QED
  BY <1>2, <1>3, <1>4, <1>5 DEF StepInv, PortsInv

(* Before the elements, or after them, a handler is nowhere in the chain. *)
Outdoors(p) == p \in {Idle, Asking, Answering}

(* Such a position is at no step of an element. *)
LEMMA OutdoorsFacts ==
    ASSUME NEW p, Outdoors(p)
    PROVE  p.to \notin {"up", "down"} /\ p.step \notin {"vethdel", "xc", "tapcreate"}
BY DEF Outdoors, Idle, Asking, Answering, Pos

(* A request begins, goes to the first element or ends before it; a close  *)
(* goes to the last element.                                               *)
LEMMA OutdoorsInv ==
    ASSUME NEW c \in Conns, Running(c), Outdoors(hop[c]), OnlyOwn(c), UNCHANGED known,
           Outdoors(hop'[c]) \/ hop'[c] = Up(1) \/ hop'[c] = Down(6, 7),
           c \notin granted'
    PROVE  StepInv(c)
<1>1. HopInv /\ env \in Envs /\ env' = env
  BY RunningFacts DEF Running
<1>2. hop[c].to \notin {"up", "down"}
  BY OutdoorsFacts
<1>3. UNCHANGED <<ifindex, ports, env>>
  BY <1>1 DEF OnlyOwn
<1>4. CASE Outdoors(hop'[c])
  <2>1. hop'[c].to \notin {"up", "down"} /\ hop'[c].step \notin {"vethdel", "xc", "tapcreate"}
    BY <1>4, OutdoorsFacts
  <2>2. HopOK(c)'
    BY <1>4 DEF HopOK, Outdoors
  <2>3. NoneEarly(c)'
    BY <1>2, <1>3 DEF Running, PortsInv, NoneEarly, Reached
  <2>4. NoneLeft(c)' /\ MadeRight(c)' /\ JoinedSoFar(c)'
    BY <2>1 DEF NoneLeft, Left, MadeRight, Made, JoinedSoFar, Here
  <2>5. QED
    BY <2>1, <2>2, <2>3, <2>4, OnlyOwnInv
<1>5. CASE hop'[c] = Up(1)
  <2>1. /\ UpOK(Up(1)) /\ Up(1).to = "up" /\ Up(1).el = 1 /\ Up(1).call = 1
        /\ Up(1).step \notin {"tapsetup", "tapcreate", "neighbor", "set"}
    BY <1>1, UpFirst
  <2>2. HopOK(c)'
    BY <1>1, <1>5, <2>1 DEF HopOK, UpOK, Tap, MaxCall
  <2>3. NoneEarly(c)'
    BY <1>2, <1>3 DEF Running, PortsInv, NoneEarly, Reached
  <2>4. \A e \in Sides, x \in Ends : ~Made(hop'[c], ElOf(e, x))
    BY <1>5, <2>1, ElementFacts DEF Made
  <2>5. NoneLeft(c)' /\ MadeRight(c)'
    BY <1>5, <2>1, <2>4 DEF NoneLeft, Left, MadeRight, Here
  <2>6. JoinedSoFar(c)'
    BY <1>5, <2>1 DEF JoinedSoFar, Here
  <2>7. QED
    BY <1>5, <2>1, <2>2, <2>3, <2>5, <2>6, OnlyOwnInv
<1>6. CASE hop'[c] = Down(6, 7)
  <2>1. /\ DownOK(Down(6, 7)) /\ Down(6, 7).to = "down" /\ Down(6, 7).el = 6
        /\ Down(6, 7).from = 7 /\ Down(6, 7).step # "vethdel"
    BY <1>1, DownFirst
  <2>2. HopOK(c)'
    BY <1>1, <1>6, <2>1 DEF HopOK, DownOK, Tap, MaxCall
  <2>3. NoneEarly(c)'
    BY <1>2, <1>3 DEF Running, PortsInv, NoneEarly, Reached
  <2>4. \A e \in Sides, x \in Ends : ~Left(hop'[c], ElOf(e, x))
    BY <1>6, <2>1, ElementFacts DEF Left
  <2>5. NoneLeft(c)' /\ MadeRight(c)' /\ JoinedSoFar(c)'
    BY <1>6, <2>1, <2>4 DEF NoneLeft, MadeRight, Made, JoinedSoFar, Here
  <2>6. QED
    BY <1>6, <2>1, <2>2, <2>3, <2>5, OnlyOwnInv
<1>7. QED
  BY <1>4, <1>5, <1>6

(* Requests and closes begin, and the mtu elements on the way down. *)
LEMMA AskInv ==
    ASSUME NEW c \in Conns, Running(c), Request(c) \/ AskMtu(c) \/ NextHop(c) \/ Close(c)
    PROVE  StepInv(c)
<1>1. HopInv /\ XcType
  BY RunningFacts
<1>2. Outdoors(hop[c])
  BY DEF Request, AskMtu, NextHop, Close, Outdoors
<1>3. UNCHANGED <<known, ifindex, veth, ports, xc>>
  BY DEF Request, AskMtu, NextHop, Close, meta, vpp
<1>4. \E p : Move(c, p) /\ (Outdoors(p) \/ p = Up(1) \/ p = Down(6, 7))
  BY ChainFacts DEF Request, AskMtu, NextHop, Close, Outdoors
<1>5. OthersStay(c) /\ (Outdoors(hop'[c]) \/ hop'[c] = Up(1) \/ hop'[c] = Down(6, 7))
  BY <1>1, <1>4, PosMoves
<1>6. granted' = granted \/ granted' = granted \ {c}
  BY DEF Request, AskMtu, NextHop, Close, client
<1>7. c \notin granted'
  <2>1. CASE Request(c) \/ Close(c)
    BY <2>1 DEF Request, Close
  <2>2. CASE AskMtu(c) \/ NextHop(c)
    <3>1. hop[c] # Idle
      BY <2>2 DEF AskMtu, NextHop, Asking, Answering, Idle, Pos
    <3>2. granted' = granted
      BY <2>2 DEF AskMtu, NextHop, client
    <3>3. QED
      BY <3>1, <3>2 DEF Running, PortsInv, JoinedSoFar
  <2>3. QED
    BY <2>1, <2>2
<1>8. OnlyOwn(c)
  BY <1>1, <1>3, <1>5, <1>6 DEF OnlyOwn, XcType
<1>9. QED
  BY <1>2, <1>3, <1>5, <1>7, <1>8, OutdoorsInv

-----------------------------------------------------------------------------
(* xconnect *)

(* The handler at a cross connect. *)
AtXconnect(c) == /\ hop[c].to \in {"up", "down"} /\ hop[c].el \in XConnects
                 /\ hop[c].call \in 1..MaxCall
                 /\ At(c) = SideOf(hop[c].el) /\ At(c) \in Sides

(* The steps of a cross connect. *)
LEMMA XcPlace ==
    ASSUME NEW c \in Conns, HopOK(c), Here(c, "up", "xc") \/ Here(c, "down", "xcdel")
    PROVE  AtXconnect(c)
<1>1. hop[c].el \in XConnects /\ hop[c].call \in 1..MaxCall /\ hop[c].to \in {"up", "down"}
  BY DEF Here, HopOK, Idle, Asking, Answering, Pos, UpOK, DownOK, Kernels, Tunnels, XConnects,
         TapUp, VethUp, VethDown
<1>2. hop[c].el \in 1..6
  BY <1>1 DEF XConnects
<1>3. At(c) = SideOf(hop[c].el) /\ At(c) \in Sides
  BY <1>2, ChainFacts DEF At, SideOf, Sides
<1>4. QED
  BY <1>1, <1>3 DEF AtXconnect

(* No element that makes interfaces is a cross connect. *)
LEMMA NoXconnect ==
    ASSUME NEW c, AtXconnect(c), NEW e \in Sides, NEW x \in Ends
    PROVE  ElOf(e, x) \in Int /\ hop[c].el \in Int /\ ElOf(e, x) # hop[c].el
BY ElementFacts DEF AtXconnect, XConnects

(* One call of a cross connect. *)
LEMMA SetXcEffect ==
    ASSUME NEW c \in Conns, Running(c), AtXconnect(c), NEW call, call.end \in Ends, call.kind \in Kinds,
           ifindex[At(c)][call.end][c] # NoIf, NEW j \in Ifs \cup {NoIf}, SetXc(c, call, j)
    PROVE  /\ XcType'
           /\ ifindex[At(c)][call.end][c] \in Ifs
           /\ ports[At(c)][ifindex[At(c)][call.end][c]].conn = c
           /\ ports[At(c)][ifindex[At(c)][call.end][c]].end = call.end
           /\ \A f \in Sides, i \in Ifs, k \in Kinds :
                 xc'[f][i][k] = IF f = At(c) /\ i = ifindex[At(c)][call.end][c] /\ k = call.kind
                                THEN j ELSE xc[f][i][k]
           /\ \A f \in Sides, i \in Ifs : xc'[f][i] = xc[f][i] \/ ports[f][i].conn = c
<1> DEFINE i0 == ifindex[At(c)][call.end][c]
<1>1. At(c) \in Sides /\ IfType /\ XcType
  BY RunningFacts DEF AtXconnect
<1>2. i0 \in Ifs /\ ports[At(c)][i0].conn = c /\ ports[At(c)][i0].end = call.end
  BY <1>1 DEF IfType, Running, PortsInv, OwnPorts, MyPort
<1>3. xc' = [xc EXCEPT ![At(c)][i0][call.kind] = j]
  BY DEF SetXc
<1> HIDE DEF i0
<1>4. XcType'
  BY <1>1, <1>2, <1>3 DEF XcType
<1>5. \A f \in Sides, i \in Ifs : xc'[f][i] = xc[f][i] \/ (f = At(c) /\ i = i0)
  BY <1>1, <1>2, <1>3 DEF XcType
<1>6. \A f \in Sides, i \in Ifs, k \in Kinds :
          xc'[f][i][k] = IF f = At(c) /\ i = i0 /\ k = call.kind THEN j ELSE xc[f][i][k]
  BY <1>1, <1>2, <1>3 DEF XcType
<1>7. QED
  BY <1>2, <1>4, <1>5, <1>6 DEF i0

(* A cross connect is taken apart, or not: an error is ignored. *)
LEMMA XConnectDownInv ==
    ASSUME NEW c \in Conns, Running(c), AtXconnect(c), OnlyOwn(c), HopOK(c)', UNCHANGED <<known, granted>>,
           hop'[c].to = "down" /\ hop'[c].step # "vethdel",
           \/ hop[c].to = "up" /\ hop'[c].el = hop[c].el /\ hop'[c].from = hop[c].el
           \/ hop[c].to = "down" /\ hop'[c].el \in {hop[c].el, hop[c].el - 1} /\ hop'[c].from = hop[c].from
    PROVE  StepInv(c)
<1>1. UNCHANGED <<ifindex, env>>
  BY DEF OnlyOwn, Running
<1>2. NoneEarly(c)'
  <2> SUFFICES ASSUME NEW e \in Sides, NEW x \in Ends, c \notin known[e], ~Reached(hop'[c], ElOf(e, x))
               PROVE  ifindex[e][x][c] = NoIf
    BY <1>1 DEF NoneEarly, Reached
  <2>1. ~Reached(hop[c], ElOf(e, x))
    BY DEF Reached
  <2>2. QED
    BY <2>1 DEF Running, PortsInv, NoneEarly
<1>3. NoneLeft(c)'
  <2> SUFFICES ASSUME NEW e \in Sides, NEW x \in Ends, Clean(e), Left(hop'[c], ElOf(e, x))
               PROVE  ifindex[e][x][c] = NoIf
    BY <1>1 DEF NoneLeft, Left, Clean
  <2>1. Left(hop[c], ElOf(e, x))
    BY NoXconnect DEF Left
  <2>2. QED
    BY <2>1 DEF Running, PortsInv, NoneLeft
<1>4. MadeRight(c)'
  BY DEF MadeRight, Made, Here
<1>5. c \notin granted'
  BY DEF Running, PortsInv, JoinedSoFar, AtXconnect, Idle, Pos
<1>6. JoinedSoFar(c)'
  BY <1>5 DEF JoinedSoFar, Here
<1>7. QED
  BY <1>2, <1>3, <1>4, <1>6, OnlyOwnInv

(* The element behind a cross connect, and the cross connect itself when   *)
(* it fails.                                                               *)
LEMMA XConnectDown ==
    ASSUME NEW c \in Conns, Running(c), AtXconnect(c), 
           (hop[c].to = "up" /\ Fail(c)) \/ (hop[c].to = "down" /\ NextDown(c))
    PROVE  /\ OthersStay(c) /\ HopOK(c)' /\ hop'[c].to = "down" /\ hop'[c].step # "vethdel"
           /\ \/ hop[c].to = "up" /\ hop'[c].el = hop[c].el /\ hop'[c].from = hop[c].el
              \/ hop[c].to = "down" /\ hop'[c].el \in {hop[c].el, hop[c].el - 1} /\ hop'[c].from = hop[c].from
<1>1. HopInv /\ env \in Envs /\ env' = env /\ HopOK(c)
  BY RunningFacts DEF Running
<1>2. ASSUME NEW n \in 0..6, NEW from \in 1..7, n <= from, Move(c, Down(n, from))
      PROVE  /\ OthersStay(c) /\ HopOK(c)' /\ hop'[c].to = "down" /\ hop'[c].step # "vethdel"
             /\ hop'[c].el = n /\ hop'[c].from = from
  <2>1. OthersStay(c) /\ hop'[c] = Down(n, from)
    BY <1>1, <1>2, PosMoves
  <2>2. /\ DownOK(Down(n, from)) /\ Down(n, from).to = "down"
        /\ Down(n, from).el = n /\ Down(n, from).from = from /\ Down(n, from).step # "vethdel"
    BY <1>1, <1>2, DownFirst
  <2>3. DownOK(hop[c])'
    BY <1>1, <2>1, <2>2 DEF DownOK, Tap, MaxCall
  <2>4. QED
    BY <2>1, <2>2, <2>3 DEF HopOK
<1>3. CASE hop[c].to = "up" /\ Fail(c)
  <2>1. hop[c].el \in 0..6 /\ hop[c].el \in 1..7 /\ hop[c].el <= hop[c].el
    BY DEF AtXconnect, XConnects
  <2>2. QED
    BY <1>2, <1>3, <2>1 DEF Fail
<1>4. CASE hop[c].to = "down" /\ NextDown(c)
  <2>1. DownOK(hop[c])
    BY <1>1, <1>4 DEF HopOK, Idle, Asking, Answering, Pos
  <2>2. hop[c].el - 1 \in 0..6 /\ hop[c].from \in 1..7 /\ hop[c].el - 1 <= hop[c].from
    BY <2>1 DEF AtXconnect, XConnects, DownOK
  <2>3. QED
    BY <1>2, <1>4, <2>2 DEF NextDown
<1>5. QED
  BY <1>3, <1>4

(* The calls that take a cross connect apart are for the ends, too. *)
DelCalls == IF env.payload = "ETHERNET" THEN l2Calls ELSE l3xcDels

(* They are as many as those that join. *)
LEMMA DelCallFacts ==
    ASSUME env \in Envs
    PROVE  /\ MaxCall \in {2, 4} /\ Len(DelCalls) = MaxCall
           /\ \A j \in 1..MaxCall : DelCalls[j].end \in Ends /\ DelCalls[j].kind \in Kinds
<1>1. CASE env.payload = "ETHERNET"
  BY <1>1, CallFacts DEF DelCalls, Calls
<1>2. CASE env.payload # "ETHERNET"
  <2>1. MaxCall = 4 /\ DelCalls = l3xcDels
    BY <1>2 DEF MaxCall, DelCalls
  <2>2. /\ Len(l3xcDels) = 4
        /\ l3xcDels[1].end = "client" /\ l3xcDels[1].kind = "v6"
        /\ l3xcDels[2].end = "client" /\ l3xcDels[2].kind = "v4"
        /\ l3xcDels[3].end = "server" /\ l3xcDels[3].kind = "v6"
        /\ l3xcDels[4].end = "server" /\ l3xcDels[4].kind = "v4"
    BY DEF l3xcDels, Call
  <2>3. QED
    BY <2>1, <2>2 DEF Ends, Kinds
<1>3. QED
  BY <1>1, <1>2

(* del of l2xconnect and l3xconnect. *)
LEMMA XConnectDelInv ==
    ASSUME NEW c \in Conns, Running(c), XConnectDel(c, DelCalls)
    PROVE  StepInv(c)
<1> DEFINE call == DelCalls[hop[c].call]
<1>1. hop[c].to = "down" /\ hop[c].step = "xcdel"
  BY DEF XConnectDel, Here
<1>2. HopInv /\ env \in Envs /\ HopOK(c) /\ IfType /\ XcType /\ env' = env
  BY RunningFacts DEF Running
<1>3. AtXconnect(c)
  BY <1>1, <1>2, XcPlace DEF Here
<1>4. call.end \in Ends /\ call.kind \in Kinds /\ MaxCall \in {2, 4} /\ Len(DelCalls) = MaxCall
  BY <1>2, <1>3, DelCallFacts DEF AtXconnect
<1>5. UNCHANGED <<known, granted, ifindex, veth, ports>>
  BY DEF XConnectDel, client, meta
<1>6. /\ XcType'
      /\ \A f \in Sides, i \in Ifs : xc'[f][i] = xc[f][i] \/ ports[f][i].conn = c
  <2>1. CASE CanDelete(c, call) /\ SetXc(c, call, NoIf)
    <3>1. ifindex[At(c)][call.end][c] # NoIf
      BY <1>4, <2>1 DEF CanDelete, HasBoth
    <3>2. QED
      BY <1>3, <1>4, <2>1, <3>1, SetXcEffect
  <2>2. CASE UNCHANGED xc
    BY <1>2, <2>2 DEF XcType
  <2>3. QED
    BY <2>1, <2>2 DEF XConnectDel
<1> HIDE DEF call
<1>7. CASE NextDown(c)
  <2>1. /\ OthersStay(c) /\ HopOK(c)' /\ hop'[c].to = "down" /\ hop'[c].step # "vethdel"
        /\ hop'[c].el \in {hop[c].el, hop[c].el - 1} /\ hop'[c].from = hop[c].from
    BY <1>1, <1>3, <1>7, XConnectDown
  <2>2. OnlyOwn(c)
    BY <1>5, <1>6, <2>1 DEF OnlyOwn
  <2>3. QED
    BY <1>1, <1>3, <1>5, <2>1, <2>2, XConnectDownInv
<1>8. CASE NextCall(c) /\ hop[c].call # Len(DelCalls)
  <2>1. /\ OthersStay(c) /\ hop'[c].step = "xcdel" /\ hop'[c].to = "down" /\ hop'[c].el = hop[c].el
        /\ hop'[c].call = hop[c].call + 1 /\ hop'[c].from = hop[c].from
    BY <1>1, <1>2, <1>8, CallMoves
  <2>2. hop'[c].call \in 1..MaxCall
    BY <1>3, <1>4, <1>8, <2>1 DEF AtXconnect
  <2>3. DownOK(hop[c])
    BY <1>1, <1>2 DEF HopOK, Idle, Asking, Answering, Pos
  <2>4. hop[c].el \notin Kernels /\ hop[c].el \notin Tunnels /\ hop[c].el # 0
    BY <1>3 DEF AtXconnect, XConnects, Kernels, Tunnels
  <2>5. HopOK(c)'
    BY <1>2, <2>1, <2>2, <2>3, <2>4 DEF DownOK, HopOK, MaxCall
  <2>6. OnlyOwn(c)
    BY <1>5, <1>6, <2>1 DEF OnlyOwn
  <2>7. QED
    BY <1>1, <1>3, <1>5, <2>1, <2>5, <2>6, XConnectDownInv
<1>9. QED
  BY <1>7, <1>8 DEF XConnectDel

(* A call is done after the step. *)
NewDone(c, j) == xc'[At(c)][ifindex[At(c)][Calls[j].end][c]][Calls[j].kind]
                   = ifindex[At(c)][Other(Calls[j].end)][c]

(* A call that joins: what it and the calls before it did holds. *)
LEMMA CallsDone ==
    ASSUME NEW c \in Conns, Running(c), Here(c, "up", "xc"), AtXconnect(c), UNCHANGED <<ifindex, ports>>,
           SetXc(c, Calls[hop[c].call], ifindex[At(c)][Other(Calls[hop[c].call].end)][c])
    PROVE  /\ XcType'
           /\ \A f \in Sides, i \in Ifs : \/ xc'[f][i] = xc[f][i]
                                          \/ ports[f][i].conn = c /\ f = At(c)
           /\ \A j \in 1..MaxCall : j <= hop[c].call \/ CallDone(c, At(c), Calls[j]) => NewDone(c, j)
<1> DEFINE m == hop[c].call
           call == Calls[m]
           to == ifindex[At(c)][Other(call.end)][c]
<1>1. IfType /\ env \in Envs /\ env' = env /\ m \in 1..MaxCall /\ At(c) \in Sides
  BY RunningFacts DEF Running, AtXconnect
<1>2. \A x \in Ends : ifindex[At(c)][x][c] \in Ifs /\ Other(x) \in Ends
  BY <1>1, RunningFacts, JoiningFacts DEF Running, PortsInv, Other, Ends
<1>3. /\ call.end \in Ends /\ call.kind \in Kinds
      /\ \A j \in 1..MaxCall : Calls[j].end \in Ends /\ Calls[j].kind \in Kinds
  BY <1>1, CallFacts
<1>4. to \in Ifs \cup {NoIf} /\ ifindex[At(c)][call.end][c] # NoIf
  BY <1>2, <1>3, PortFacts
<1>5. SetXc(c, call, to)
  OBVIOUS
<1> HIDE DEF to, call
<1>6. /\ XcType'
      /\ \A f \in Sides, i \in Ifs, k \in Kinds :
            xc'[f][i][k] = IF f = At(c) /\ i = ifindex[At(c)][call.end][c] /\ k = call.kind
                           THEN to ELSE xc[f][i][k]
      /\ \A f \in Sides, i \in Ifs : xc'[f][i] = xc[f][i] \/ ports[f][i].conn = c
  <2>1. /\ call.end \in Ends /\ call.kind \in Kinds
        /\ ifindex[At(c)][call.end][c] # NoIf /\ to \in Ifs \cup {NoIf}
    BY <1>3, <1>4
  <2>2. QED
    BY ONLY c \in Conns, Running(c), AtXconnect(c), <2>1, <1>5, SetXcEffect
<1>7. \A f \in Sides, i \in Ifs : f # At(c) => xc'[f][i] = xc[f][i]
  <2> SUFFICES ASSUME NEW f \in Sides, NEW i \in Ifs, f # At(c) PROVE xc'[f][i] = xc[f][i]
    OBVIOUS
  <2>1. xc' = [xc EXCEPT ![At(c)][ifindex[At(c)][call.end][c]][call.kind] = to]
    BY <1>5 DEF SetXc
  <2>2. XcType
    BY RunningFacts
  <2>3. QED
    BY <2>1, <2>2 DEF XcType
<1>8. ASSUME NEW j \in 1..MaxCall, j <= m \/ CallDone(c, At(c), Calls[j])
      PROVE  NewDone(c, j)
  <2>1. CASE Calls[j].end = call.end /\ Calls[j].kind = call.kind
    BY <1>1, <1>2, <1>3, <1>6, <2>1 DEF to, NewDone
  <2>2. CASE ~(Calls[j].end = call.end /\ Calls[j].kind = call.kind)
    <3>1. j # m
      BY <2>2 DEF call
    <3>2. CallDone(c, At(c), Calls[j])
      BY <1>1, <1>8, <3>1 DEF Running, PortsInv, JoinedSoFar
    <3>3. /\ ports[At(c)][ifindex[At(c)][Calls[j].end][c]].end = Calls[j].end
          /\ ports[At(c)][ifindex[At(c)][call.end][c]].end = call.end
      BY <1>1, <1>2, <1>3, PortFacts DEF Running, PortsInv, OwnPorts, MyPort
    <3>4. ~(ifindex[At(c)][Calls[j].end][c] = ifindex[At(c)][call.end][c] /\ Calls[j].kind = call.kind)
      BY <2>2, <3>3
    <3>5. QED
      BY <1>1, <1>2, <1>3, <1>6, <3>2, <3>4 DEF CallDone, NewDone
  <2>3. QED
    BY <2>1, <2>2
<1>9. QED
  BY <1>6, <1>7, <1>8

(* When the last call is done the interfaces are joined. *)
LEMMA AllDone ==
    ASSUME NEW c \in Conns, Running(c), Here(c, "up", "xc"), AtXconnect(c), UNCHANGED <<ifindex, ports>>,
           \A j \in 1..MaxCall : NewDone(c, j)
    PROVE  \A f \in Sides : f = At(c) => Joined(f, c)'
<1> SUFFICES ASSUME NEW f \in Sides, f = At(c) PROVE Joined(f, c)'
  OBVIOUS
<1>1. IfType /\ env \in Envs /\ env' = env
  BY RunningFacts DEF Running
<1>2. \A x \in Ends : ifindex[f][x][c] \in Ifs
  BY <1>1, RunningFacts, JoiningFacts DEF Running, PortsInv
<1>3. \A x \in Ends : /\ ifindex[f][x][c] # NoIf
                       /\ ports[f][ifindex[f][x][c]].conn = c /\ ports[f][ifindex[f][x][c]].end = x
  BY <1>2, PortFacts DEF Running, PortsInv, OwnPorts, MyPort
<1>4. ASSUME NEW x \in Ends, NEW k \in IF env.payload = "ETHERNET" THEN {"l2"} ELSE {"v4", "v6"}
      PROVE  xc'[f][ifindex[f][x][c]][k] = ifindex[f][Other(x)][c]
  <2>1. PICK j \in 1..MaxCall : Calls[j].end = x /\ Calls[j].kind = k
    BY <1>1, CallFacts
  <2>2. QED
    BY <2>1 DEF NewDone
<1>5. QED
  BY <1>1, <1>3, <1>4 DEF Joined, MyPort

(* The forwarder that is not this one keeps its interfaces joined. *)
LEMMA OtherJoined ==
    ASSUME NEW c \in Conns, Running(c), UNCHANGED <<ifindex, ports>>,
           \A f \in Sides, i \in Ifs : xc'[f][i] = xc[f][i] \/ f = At(c),
           NEW e \in Sides, e # At(c), Joined(e, c)
    PROVE  Joined(e, c)'
<1>1. IfType /\ env' = env
  BY RunningFacts DEF Running
<1>2. \A x \in Ends : ifindex[e][x][c] # NoIf => xc'[e][ifindex[e][x][c]] = xc[e][ifindex[e][x][c]]
  BY <1>1 DEF IfType
<1>3. QED
  BY <1>1, <1>2, JoinedKept

(* create of l2xconnect and l3xconnect: the next call, the answer of the   *)
(* forwarder after the last one, or a failure.                             *)
LEMMA XConnectInv ==
    ASSUME NEW c \in Conns, Running(c), XConnect(c, Calls)
    PROVE  StepInv(c)
<1> DEFINE n == hop[c].el
           m == hop[c].call
<1>1. Here(c, "up", "xc") /\ hop[c].to = "up" /\ hop[c].step = "xc"
  BY DEF XConnect, Here
<1>2. HopInv /\ env \in Envs /\ HopOK(c) /\ IfType /\ XcType /\ env' = env /\ DataType
  BY RunningFacts DEF Running
<1>3. AtXconnect(c) /\ n \in {3, 6} /\ m \in 1..MaxCall
  BY <1>1, <1>2, XcPlace DEF AtXconnect, XConnects
<1>4. MaxCall \in {2, 4} /\ Len(Calls) = MaxCall
  BY <1>2, CallFacts
<1>5. UNCHANGED <<ifindex, veth, ports>>
  BY DEF XConnect
<1>6. c \notin granted
  BY <1>1 DEF Running, PortsInv, JoinedSoFar, Idle, Pos
<1>7. CASE Fail(c) /\ UNCHANGED <<xc, client, known>>
  <2>1. /\ OthersStay(c) /\ HopOK(c)' /\ hop'[c].to = "down" /\ hop'[c].step # "vethdel"
        /\ hop'[c].el = hop[c].el /\ hop'[c].from = hop[c].el
    BY <1>1, <1>3, <1>7, XConnectDown
  <2>2. UNCHANGED <<known, granted>>
    BY <1>7 DEF client
  <2>3. OnlyOwn(c)
    BY <1>2, <1>5, <1>7, <2>1, <2>2 DEF OnlyOwn, XcType
  <2>4. QED
    BY <1>1, <1>3, <2>1, <2>2, <2>3, XConnectDownInv
<1>8. CASE SetXc(c, Calls[m], ifindex[At(c)][Other(Calls[m].end)][c])
  <2>1. /\ XcType'
        /\ \A f \in Sides, i \in Ifs : \/ xc'[f][i] = xc[f][i]
                                       \/ ports[f][i].conn = c /\ f = At(c)
        /\ \A j \in 1..MaxCall : j <= m \/ CallDone(c, At(c), Calls[j]) => NewDone(c, j)
    BY <1>1, <1>3, <1>5, <1>8, CallsDone
  <2>2. ASSUME NEW e \in Sides, e # At(c), Joined(e, c) PROVE Joined(e, c)'
    BY <1>5, <2>1, <2>2, OtherJoined
  <2>3. n = 6 => At(c) = "client" /\ Joined("server", c) /\ c \in known["server"]
    BY <1>1, <1>3 DEF Running, PortsInv, JoinedSoFar, AtXconnect, SideOf
  <2>4. CASE NextCall(c) /\ m # Len(Calls) /\ UNCHANGED <<client, known>>
    <3>1. /\ OthersStay(c) /\ hop'[c].step = "xc" /\ hop'[c].to = "up" /\ hop'[c].el = n
          /\ hop'[c].call = m + 1 /\ hop'[c].from = hop[c].from
      BY <1>1, <1>2, <2>4, CallMoves
    <3>2. hop'[c].call \in 1..MaxCall
      BY <1>3, <1>4, <2>4, <3>1
    <3>3. HopOK(c)'
      BY <1>2, <1>3, <3>1, <3>2 DEF HopOK, UpOK, Kernels, Tunnels, XConnects, MaxCall
    <3>4. UNCHANGED <<known, granted>>
      BY <2>4 DEF client
    <3>5. OnlyOwn(c)
      BY <1>2, <1>5, <2>1, <3>1, <3>4 DEF OnlyOwn
    <3>6. NoneEarly(c)' /\ NoneLeft(c)'
      BY <1>1, <1>5, <3>1, <3>4 DEF Running, PortsInv, NoneEarly, NoneLeft, Reached, Left
    <3>7. MadeRight(c)'
      BY <1>1, <1>2, <1>5, <3>1 DEF Running, PortsInv, MadeRight, Made, Here, MyPort
    <3>8. JoinedSoFar(c)'
      <4>1. n > 3 => Joined("server", c)' /\ c \in known'["server"]
        BY <1>3, <2>2, <2>3, <3>4 DEF Sides
      <4>2. At(c)' = At(c) /\ Calls' = Calls /\ MaxCall' = MaxCall
        BY <1>2, <3>1 DEF At, Calls, MaxCall
      <4>3. \A j \in 1..MaxCall : j < hop'[c].call => NewDone(c, j)
        BY <1>3, <1>4, <2>1, <3>1
      <4>4. \A j \in 1..MaxCall' : j < hop'[c].call => CallDone(c, At(c), Calls[j])'
        BY <1>5, <4>2, <4>3 DEF NewDone, CallDone
      <4>5. QED
        BY <1>6, <3>1, <3>4, <4>1, <4>4 DEF JoinedSoFar
    <3>9. QED
      BY <3>1, <3>3, <3>5, <3>6, <3>7, <3>8, OnlyOwnInv
  <2>5. CASE m = Len(Calls) /\ Answer(c)
    <3>2. \A f \in Sides : f = At(c) => Joined(f, c)'
      <4>1. \A j \in 1..MaxCall : NewDone(c, j)
        BY <1>4, <2>1, <2>5
      <4>2. QED
        BY <1>1, <1>3, <1>5, <4>1, AllDone
    <3>3. known' = [known EXCEPT ![At(c)] = @ \cup {c}] /\ known \in [Sides -> SUBSET Conns]
      BY <1>2, <2>5 DEF Answer, DataType
    <3>4. \A e \in Sides : known'[e] = IF e = At(c) THEN known[e] \cup {c} ELSE known[e]
      BY <3>3
    <3>5. CASE n = 6
      <4>1. Move(c, Idle) /\ granted' = granted \cup {c}
        BY <2>5, <3>5, ChainFacts DEF Answer
      <4>2. OthersStay(c) /\ hop'[c] = Idle
        BY <1>2, <4>1, PosMoves
      <4>3. hop'[c].to = "idle" /\ hop'[c].step = "ready" /\ HopOK(c)'
        BY <4>2 DEF Idle, Pos, HopOK
      <4>4. OnlyOwn(c)
        BY <1>5, <2>1, <3>4, <4>1, <4>2 DEF OnlyOwn
      <4>5. \A e \in Sides : c \in known'[e]
        BY <2>3, <3>4, <3>5 DEF Sides
      <4>6. NoneEarly(c)' /\ NoneLeft(c)' /\ MadeRight(c)'
        BY <4>3, <4>5 DEF NoneEarly, NoneLeft, Left, MadeRight, Made, Here
      <4>7. Wiring(c)'
        <5>1. \A e \in Sides : Joined(e, c)'
          BY <2>2, <2>3, <3>2, <3>5 DEF Sides
        <5>2. QED
          BY <5>1 DEF Wiring
      <4>8. JoinedSoFar(c)'
        BY <4>2, <4>3, <4>7 DEF JoinedSoFar, Here
      <4>9. QED
        BY <4>3, <4>4, <4>6, <4>8, OnlyOwnInv
    <3>6. CASE n = 3
      <4>1. NextUp(c) /\ granted' = granted
        BY <2>5, <3>6, ChainFacts DEF Answer, client
      <4>2. OthersStay(c) /\ hop'[c] = Up(4)
        BY <1>2, <3>6, <4>1, PosMoves DEF NextUp
      <4>3. /\ UpOK(Up(4)) /\ Up(4).to = "up" /\ Up(4).el = 4 /\ Up(4).call = 1
            /\ Up(4).step \notin {"tapsetup", "tapcreate", "neighbor", "set"}
        BY <1>2, UpFirst
      <4>4. HopOK(c)'
        BY <1>2, <4>2, <4>3 DEF HopOK, UpOK, Tap, MaxCall
      <4>5. OnlyOwn(c)
        BY <1>5, <2>1, <3>4, <4>1, <4>2 DEF OnlyOwn
      <4>6. NoneEarly(c)'
        <5> SUFFICES ASSUME NEW e \in Sides, NEW x \in Ends, c \notin known'[e],
                            ~Reached(hop'[c], ElOf(e, x))
                     PROVE  ifindex[e][x][c] = NoIf
          BY <1>5 DEF NoneEarly, Reached
        <5>1. ~Reached(hop[c], ElOf(e, x)) /\ c \notin known[e]
          BY <1>1, <3>4, <3>6, <4>2, <4>3, ElementFacts DEF Reached
        <5>2. QED
          BY <5>1 DEF Running, PortsInv, NoneEarly
      <4>7. NoneLeft(c)'
        BY <4>2, <4>3 DEF NoneLeft, Left
      <4>8. MadeRight(c)'
        <5>1. ASSUME NEW e \in Sides, NEW x \in Ends, Made(hop'[c], ElOf(e, x))
              PROVE  Made(hop[c], ElOf(e, x))
          BY <1>1, <3>6, <4>2, <4>3, <5>1, ElementFacts DEF Made
        <5>2. ~Here(c, "up", "tapcreate")'
          BY <4>2, <4>3 DEF Here
        <5>3. QED
          BY <1>2, <1>5, <5>1, <5>2 DEF Running, PortsInv, MadeRight, MyPort, Made
      <4>9. JoinedSoFar(c)'
        <5>1. Joined("server", c)' /\ c \in known'["server"]
          BY <1>3, <3>2, <3>4, <3>6 DEF AtXconnect, SideOf, Sides
        <5>2. QED
          BY <1>6, <4>1, <4>2, <4>3, <5>1 DEF JoinedSoFar, Here
      <4>10. QED
        BY <4>2, <4>3, <4>4, <4>5, <4>6, <4>7, <4>8, <4>9, OnlyOwnInv
    <3>7. QED
      BY <1>3, <3>5, <3>6
  <2>6. QED
    BY <1>8, <2>4, <2>5, <1>7 DEF XConnect
<1>9. QED
  BY <1>7, <1>8 DEF XConnect

(* All the steps of the cross connects. *)
LEMMA JoinInv ==
    ASSUME NEW c \in Conns, Running(c), l2XconnectServer(c) \/ l3XconnectServer(c)
    PROVE  StepInv(c)
<1>1. XConnect(c, Calls) \/ XConnectDel(c, DelCalls)
  BY DEF l2XconnectServer, l3XconnectServer, Calls, DelCalls
<1>2. QED
  BY <1>1, XConnectInv, XConnectDelInv

-----------------------------------------------------------------------------
(* The end of a close, and the loss of a tap *)

(* What is dropped had no interfaces left, unless a deletion failed. *)
LEMMA DropClean ==
    ASSUME NEW c \in Conns, Running(c), Here(c, "down", "finish"), NEW e \in Sides, NEW x \in Ends,
           Drop(c, e), Clean(e)
    PROVE  ifindex[e][x][c] = NoIf
<1>1. DownOK(hop[c]) /\ hop[c].to = "down" /\ hop[c].el = 0 /\ hop[c].from \in 1..7
  <2>1. DownOK(hop[c]) /\ hop[c].to = "down" /\ hop[c].step = "finish"
    BY RunningFacts DEF Here, HopOK, Idle, Asking, Answering, Pos
  <2>2. QED
    BY <2>1 DEF DownOK, Kernels, Tunnels, XConnects, VethDown
<1>2. ElOf(e, x) \in {1, 2, 4, 5} /\ (e = "server" => ElOf(e, x) <= 2)
  BY ElementFacts DEF ElOf
<1>3. CASE ElOf(e, x) <= hop[c].from
  <2>1. Left(hop[c], ElOf(e, x))
    BY <1>1, <1>2, <1>3 DEF Left
  <2>2. QED
    BY <2>1 DEF Running, PortsInv, NoneLeft
<1>4. CASE ~(ElOf(e, x) <= hop[c].from)
  <2>1. c \notin known[e]
    BY <1>1, <1>2, <1>4, ChainFacts DEF Drop
  <2>2. ~Reached(hop[c], ElOf(e, x))
    BY <1>1, <1>4 DEF Reached
  <2>3. QED
    BY <2>1, <2>2 DEF Running, PortsInv, NoneEarly
<1>5. QED
  BY <1>3, <1>4

(* The metadata is dropped, or kept for the next request. *)
LEMMA FinishInv ==
    ASSUME NEW c \in Conns, Running(c), Finish(c)
    PROVE  StepInv(c)
<1>1. HopInv /\ env \in Envs /\ IfType /\ PortType /\ XcType /\ env' = env /\ DataType
  BY RunningFacts DEF Running
<1>2. Here(c, "down", "finish") /\ UNCHANGED <<granted, ports, xc>>
  BY DEF Finish, vpp
<1>3. /\ IfType'
      /\ \A e \in Sides, x \in Ends, d \in Conns :
            ifindex'[e][x][d] = IF Drop(c, e) /\ d = c THEN NoIf ELSE ifindex[e][x][d]
  BY <1>1 DEF Finish, IfType
<1>4. \A e \in Sides, d \in Conns :
          /\ veth'[e][d] = IF Drop(c, e) /\ d = c THEN NoVeth ELSE veth[e][d]
          /\ d \in known'[e] <=> d \in known[e] /\ ~(Drop(c, e) /\ d = c)
  BY <1>1 DEF Finish, DataType
<1>5. OthersStay(c) /\ hop'[c] = Idle
  BY <1>1, PosMoves DEF Finish
<1>6. hop'[c].to = "idle" /\ hop'[c].step = "ready" /\ HopOK(c)'
  BY <1>5 DEF Idle, Pos, HopOK
<1>7. OwnPorts(c)'
  BY <1>2, <1>3 DEF Running, PortsInv, OwnPorts, MyPort
<1>8. NoneLost(c)'
  <2> SUFFICES ASSUME NEW e \in Sides, NEW i \in Ifs, ports[e][i].conn = c, Clean(e)
               PROVE  ifindex'[e][ports[e][i].end][c] = i
    BY <1>1, <1>2 DEF NoneLost, Clean
  <2>1. ports[e][i].end \in Ends
    BY <1>1, PortFacts DEF PortType
  <2>2. ifindex[e][ports[e][i].end][c] = i
    BY DEF Running, PortsInv, NoneLost
  <2>3. ~Drop(c, e)
    BY <1>2, <2>1, <2>2, DropClean, PortFacts
  <2>4. QED
    BY <1>3, <2>1, <2>2, <2>3
<1>9. NoneEarly(c)'
  BY <1>3, <1>4 DEF NoneEarly, Drop
<1>10. NoneLeft(c)' /\ MadeRight(c)'
  BY <1>6 DEF NoneLeft, Left, MadeRight, Made, Here
<1>11. PairRight(c)'
  <2> SUFFICES ASSUME NEW e \in Sides, env.kernel[e] = "veth", "netns" \notin env.faults[e]
               PROVE  /\ KernelIf(e, c)' # NoIf => /\ veth'[e][c].link /\ veth'[e][c].peer
                                                   /\ ports'[e][KernelIf(e, c)'].alive
                      /\ veth'[e][c].peer => veth'[e][c].link
    BY <1>1, <1>6 DEF PairRight, MyPort, KernelIf, Here
  <2>1. Other(e) \in Ends
    BY ElementFacts
  <2>2. KernelIf(e, c)' = IF Drop(c, e) THEN NoIf ELSE KernelIf(e, c)
    BY <1>3, <2>1 DEF KernelIf
  <2>3. veth'[e][c] = IF Drop(c, e) THEN NoVeth ELSE veth[e][c]
    BY <1>4
  <2>4. CASE Drop(c, e)
    BY <2>2, <2>3, <2>4 DEF NoVeth
  <2>5. CASE ~Drop(c, e)
    BY <1>2, <2>2, <2>3, <2>5 DEF Running, PortsInv, PairRight, MyPort, KernelIf
  <2>6. QED
    BY <2>4, <2>5
<1>12. JoinedSoFar(c)'
  <2>1. c \notin granted
    BY <1>2 DEF Running, PortsInv, JoinedSoFar, Here, Idle, Pos
  <2>2. QED
    BY <1>2, <1>6, <2>1 DEF JoinedSoFar, Here
<1>13. ASSUME NEW d \in Conns \ {c} PROVE Untouched(d)
  BY <1>2, <1>3, <1>4, <1>5 DEF Untouched, OthersStay
<1>14. QED
  BY <1>1, <1>2, <1>3, <1>6, <1>7, <1>8, <1>9, <1>10, <1>11, <1>12, <1>13
     DEF StepInv, PortsInv, PortType, XcType

(* Interfaces that are joined stay joined if one of them loses its side in *)
(* the kernel.                                                             *)
LEMMA JoinedMarked ==
    ASSUME NEW d \in Conns, NEW e \in Sides, Joined(e, d), IfType, UNCHANGED <<ifindex, xc, env>>,
           \A i \in Ifs : ports'[e][i].conn = ports[e][i].conn /\ ports'[e][i].end = ports[e][i].end
    PROVE  Joined(e, d)'
<1>1. \A x \in Ends : ifindex[e][x][d] # NoIf => ifindex[e][x][d] \in Ifs
  BY DEF IfType
<1>2. QED
  BY <1>1 DEF Joined, MyPort

(* The loss of a tap marks its interface, and takes nothing apart. *)
LEMMA HostLostInv ==
    ASSUME NEW c \in Conns, Running(c), NEW e \in Sides, HostLost(e, c)
    PROVE  StepInv(c) /\ (Wiring(c) => Wiring(c)')
<1> DEFINE i == ifindex[e][Other(e)][c]
           old == ports[e][i]
           new == [old EXCEPT !.alive = FALSE]
<1>1. IfType /\ PortType /\ XcType /\ env' = env
  BY RunningFacts DEF Running
<1>2. /\ hop[c] = Idle /\ env.kernel[e] = "tap" /\ i # NoIf
      /\ UNCHANGED <<known, granted, ifindex, veth, xc, hop, env>>
      /\ ports' = [ports EXCEPT ![e][i].alive = FALSE]
  BY <1>1 DEF HostLost, client, meta
<1>3. Other(e) \in Ends /\ i \in Ifs /\ old.conn = c /\ old.end = Other(e)
  BY <1>1, <1>2, ElementFacts DEF IfType, Running, PortsInv, OwnPorts, MyPort
<1>4. old \in Port
  BY <1>1, <1>3, PortFacts DEF PortType
<1>5. new \in Port /\ new.conn = c /\ new.end = Other(e)
  BY <1>3, <1>4 DEF Port
<1>6. ports' = [ports EXCEPT ![e][i] = new]
  BY <1>1, <1>2, <1>3 DEF PortType
<1> HIDE DEF i, old, new
<1>7. \A f \in Sides, j \in Ifs : ports'[f][j] = IF f = e /\ j = i THEN new ELSE ports[f][j]
  BY <1>1, <1>3, <1>6 DEF PortType
<1>8. PortType'
  BY <1>1, <1>3, <1>5, <1>6 DEF PortType
<1>9. \A f \in Sides, j \in Ifs : ports'[f][j].conn = ports[f][j].conn /\ ports'[f][j].end = ports[f][j].end
  BY <1>3, <1>5, <1>7 DEF old
<1>10. hop[c].to = "idle" /\ hop[c].step = "ready"
  BY <1>2 DEF Idle, Pos
<1>11. HopOK(c)' /\ NoneEarly(c)' /\ NoneLeft(c)' /\ MadeRight(c)'
  BY <1>2, <1>10 DEF Running, PortsInv, HopOK, NoneEarly, NoneLeft, MadeRight, Reached, Left, Made, Here
<1>12. OwnPorts(c)'
  <2> SUFFICES ASSUME NEW f \in Sides, NEW x \in Ends, ifindex[f][x][c] # NoIf
               PROVE  ports'[f][ifindex[f][x][c]].conn = c /\ ports'[f][ifindex[f][x][c]].end = x
    BY <1>2 DEF OwnPorts, MyPort
  <2>1. ifindex[f][x][c] \in Ifs
    BY <1>1 DEF IfType
  <2>2. QED
    BY <1>9, <2>1 DEF Running, PortsInv, OwnPorts, MyPort
<1>13. NoneLost(c)'
  BY <1>2, <1>9 DEF Running, PortsInv, NoneLost, Clean
<1>14. PairRight(c)'
  <2> SUFFICES ASSUME NEW f \in Sides, env.kernel[f] = "veth", "netns" \notin env.faults[f]
               PROVE  /\ KernelIf(f, c) # NoIf => /\ veth[f][c].link /\ veth[f][c].peer
                                                  /\ ports'[f][KernelIf(f, c)].alive
                      /\ veth[f][c].peer => veth[f][c].link
    BY <1>2, <1>10 DEF PairRight, MyPort, KernelIf, Here
  <2>1. f # e /\ Other(f) \in Ends
    BY <1>2, ElementFacts
  <2>2. KernelIf(f, c) # NoIf => ports'[f][KernelIf(f, c)] = ports[f][KernelIf(f, c)]
    BY <1>1, <1>7, <2>1 DEF IfType, KernelIf
  <2>3. QED
    BY <2>2 DEF Running, PortsInv, PairRight, MyPort, KernelIf
<1>15. \A f \in Sides : Joined(f, c) => Joined(f, c)'
  BY <1>1, <1>2, <1>9, JoinedMarked
<1>16. Wiring(c) => Wiring(c)'
  BY <1>15 DEF Wiring
<1>17. JoinedSoFar(c)'
  BY <1>2, <1>10, <1>16 DEF Running, PortsInv, JoinedSoFar, Here
<1>18. ASSUME NEW d \in Conns \ {c} PROVE Untouched(d)
  BY <1>2, <1>3, <1>5, <1>7 DEF Untouched, old
<1>19. QED
  BY <1>1, <1>2, <1>8, <1>11, <1>12, <1>13, <1>14, <1>16, <1>17, <1>18
     DEF StepInv, PortsInv, IfType, XcType

-----------------------------------------------------------------------------
(* The invariant is inductive *)

(* The types that no interface depends on. *)
RestType == /\ granted \subseteq Conns /\ known \in [Sides -> SUBSET Conns]
            /\ veth \in [Sides -> [Conns -> [link : BOOLEAN, peer : BOOLEAN]]]
            /\ pair \in [Sides -> [Conns -> {"none", "bare", "named", "aliased"}]]
            /\ hostMtu \in [Sides -> [Conns -> Mtus]]
            /\ ifMtu \in [Sides -> [Conns -> Mtus]]

(* The two parts of the types. *)
LEMMA DataTypeParts == DataType <=> RestType /\ IfType /\ PortType /\ XcType
BY DEF DataType, RestType, IfType, PortType, XcType

(* Zero is an MTU, and so is what is asked for. *)
LEMMA MtuFacts ==
    ASSUME FwdInv, NEW c \in Conns
    PROVE  0 \in Mtus /\ conn[c].ctx \in Mtus
<1>1. 0 \in Mtus
  BY TunnelMtuAssumption DEF Mtus
<1>2. conn[c] \in Conn
  BY DEF FwdInv, MtuTypeOK
<1>3. QED
  BY <1>1, <1>2 DEF Conn

(* A handler at an element is at a forwarder. *)
LEMMA OnSide ==
    ASSUME NEW c \in Conns, Running(c), hop[c].to \in {"up", "down"}, hop[c].step # "finish"
    PROVE  At(c) \in Sides
<1>1. hop[c].el \in 1..6
  BY RunningFacts DEF HopOK, UpOK, DownOK, Idle, Asking, Answering, Pos
<1>2. QED
  BY <1>1, ChainFacts DEF At, SideOf, Sides

(* The metadata of a veth pair keeps its type. *)
LEMMA StoreVethType ==
    ASSUME NEW c \in Conns, At(c) \in Sides, veth \in [Sides -> [Conns -> [link : BOOLEAN, peer : BOOLEAN]]],
           NEW l \in BOOLEAN, NEW p \in BOOLEAN, StoreVeth(c, l, p)
    PROVE  veth' \in [Sides -> [Conns -> [link : BOOLEAN, peer : BOOLEAN]]]
<1> DEFINE T == [link : BOOLEAN, peer : BOOLEAN]
           v == [link |-> l, peer |-> p]
<1>1. v \in T /\ veth \in [Sides -> [Conns -> T]] /\ veth' = [veth EXCEPT ![At(c)][c] = v]
  BY DEF StoreVeth
<1> HIDE DEF T, v
<1>2. veth' \in [Sides -> [Conns -> T]]
  BY <1>1
<1>3. QED
  BY <1>2 DEF T

(* The kernel elements keep the pairs. *)
LEMMA KernelType ==
    ASSUME NEW c \in Conns, Running(c), Kernel(c)
    PROVE  RestType'
<1>1. RestType /\ 0 \in Mtus /\ conn[c].ctx \in Mtus
  BY DataTypeParts, MtuFacts DEF Running
<1>2. CASE TapStep(c) \/ AfPacketStep(c) \/ NeighborStep(c)
  <2>1. UNCHANGED <<granted, known, veth, pair, hostMtu, ifMtu>>
    BY <1>2 DEF TapStep, TapCheck, TapCreate, TapSetup, TapDel, AfPacketStep, AfPacket, AfPacketDel,
                NeighborStep, Neighbor, NeighborDel, client, meta, kern, vpp
  <2>2. QED
    BY <1>1, <2>1 DEF RestType
<1>3. CASE Veth(c)
  <2>0. At(c) \in Sides
    BY <1>3, OnSide DEF Veth, Here
  <2>1. UNCHANGED <<granted, known, ifMtu>>
    BY <1>3 DEF Veth, client
  <2>2. veth' = veth \/ StoreVeth(c, TRUE, TRUE)
    BY <1>3 DEF Veth, VethCreated
  <2>3. pair' = pair \/ \E s \in {"none", "bare", "named", "aliased"} : SetPair(c, s)
    BY <1>3 DEF Veth, VethCreated, VethFails, kern
  <2>4. hostMtu' = hostMtu \/ hostMtu' = [hostMtu EXCEPT ![At(c)][c] = 0]
    BY <1>3 DEF Veth, VethCreated, VethFails, kern
  <2>5. veth' \in [Sides -> [Conns -> [link : BOOLEAN, peer : BOOLEAN]]]
    <3>1. veth \in [Sides -> [Conns -> [link : BOOLEAN, peer : BOOLEAN]]] /\ 0 \in Mtus /\ conn[c].ctx \in Mtus
      BY <1>1 DEF RestType
    <3>2. QED
      BY <2>0, <2>2, <3>1, StoreVethType
  <2>6. pair' \in [Sides -> [Conns -> {"none", "bare", "named", "aliased"}]]
    <3>1. pair \in [Sides -> [Conns -> {"none", "bare", "named", "aliased"}]] /\ 0 \in Mtus /\ conn[c].ctx \in Mtus
      BY <1>1 DEF RestType
    <3>2. QED
      BY <2>0, <2>3, <3>1 DEF SetPair
  <2>7. hostMtu' \in [Sides -> [Conns -> Mtus]]
    <3>1. hostMtu \in [Sides -> [Conns -> Mtus]] /\ 0 \in Mtus /\ conn[c].ctx \in Mtus
      BY <1>1 DEF RestType
    <3>2. QED
      BY <2>0, <2>4, <3>1
  <2>8. QED
    BY <1>1, <2>1, <2>5, <2>6, <2>7 DEF RestType
<1>4. CASE VethMtu(c)
  <2>0. At(c) \in Sides
    BY <1>4, OnSide DEF VethMtu, Here
  <2>1. UNCHANGED <<granted, known, veth, pair, ifMtu>>
    BY <1>4 DEF VethMtu, client, meta, vpp
  <2>2. hostMtu' = hostMtu \/ hostMtu' = [hostMtu EXCEPT ![At(c)][c] = conn[c].ctx]
    BY <1>4 DEF VethMtu
  <2>3. hostMtu' \in [Sides -> [Conns -> Mtus]]
    <3>1. hostMtu \in [Sides -> [Conns -> Mtus]] /\ 0 \in Mtus /\ conn[c].ctx \in Mtus
      BY <1>1 DEF RestType
    <3>2. QED
      BY <2>0, <2>2, <3>1
  <2>4. QED
    BY <1>1, <2>1, <2>3 DEF RestType
<1>5. CASE VethDel(c)
  <2>0. At(c) \in Sides
    BY <1>5, OnSide DEF VethDel, Here
  <2>1. UNCHANGED <<granted, known, hostMtu, ifMtu>>
    BY <1>5 DEF VethDel, client
  <2>2. StoreVeth(c, TRUE, FALSE) \/ StoreVeth(c, FALSE, FALSE)
    BY <1>5 DEF VethDel
  <2>3. pair' = pair \/ SetPair(c, "none")
    BY <1>5 DEF VethDel
  <2>4. veth' \in [Sides -> [Conns -> [link : BOOLEAN, peer : BOOLEAN]]]
    <3>1. veth \in [Sides -> [Conns -> [link : BOOLEAN, peer : BOOLEAN]]] /\ 0 \in Mtus /\ conn[c].ctx \in Mtus
      BY <1>1 DEF RestType
    <3>2. QED
      BY <2>0, <2>2, <3>1, StoreVethType
  <2>5. pair' \in [Sides -> [Conns -> {"none", "bare", "named", "aliased"}]]
    <3>1. pair \in [Sides -> [Conns -> {"none", "bare", "named", "aliased"}]] /\ 0 \in Mtus /\ conn[c].ctx \in Mtus
      BY <1>1 DEF RestType
    <3>2. QED
      BY <2>0, <2>3, <3>1 DEF SetPair
  <2>6. QED
    BY <1>1, <2>1, <2>4, <2>5 DEF RestType
<1>6. QED
  BY <1>2, <1>3, <1>4, <1>5
     DEF Kernel, kernelTapServer, kernelTapClient, kernelVethPairServer, kernelVethPairClient,
         vethMtuServer, vethMtuClient, afPacketServer, afPacketClient,
         ipNeighborServer, ipNeighborClient, VethStep

(* So do the other steps. *)
LEMMA OtherType ==
    ASSUME NEW c \in Conns, Running(c),
           \/ Request(c) \/ AskMtu(c) \/ NextHop(c) \/ Close(c) \/ TunnelStep(c) \/ SetUp(c)
           \/ l2XconnectServer(c) \/ l3XconnectServer(c) \/ Finish(c)
           \/ \E e \in Sides : HostLost(e, c)
    PROVE  RestType'
<1>1. RestType /\ 0 \in Mtus /\ conn[c].ctx \in Mtus
  BY DataTypeParts, MtuFacts DEF Running
<1>2. CASE Request(c) \/ AskMtu(c) \/ NextHop(c) \/ Close(c) \/ \E e \in Sides : HostLost(e, c)
  <2>1. UNCHANGED <<known, veth, pair, hostMtu, ifMtu>> /\ granted' \subseteq granted
    BY <1>2 DEF Request, AskMtu, NextHop, Close, HostLost, client, meta, kern, vpp
  <2>2. QED
    BY <1>1, <2>1 DEF RestType
<1>3. CASE TunnelStep(c) \/ SetUp(c)
  <2>0. At(c) \in Sides
    BY <1>3, OnSide DEF TunnelStep, Tunnel, TunnelDel, SetUp, Here
  <2>1. UNCHANGED <<granted, known, veth, pair, hostMtu>>
    BY <1>3 DEF TunnelStep, Tunnel, TunnelDel, SetUp, client, meta, kern
  <2>2. \/ ifMtu' = ifMtu \/ ifMtu' = [ifMtu EXCEPT ![At(c)][c] = 0]
        \/ ifMtu' = [ifMtu EXCEPT ![At(c)][c] = conn[c].ctx]
    BY <1>3 DEF TunnelStep, Tunnel, TunnelDel, SetUp, setVPPMTU
  <2>3. ifMtu' \in [Sides -> [Conns -> Mtus]]
    <3>1. ifMtu \in [Sides -> [Conns -> Mtus]] /\ 0 \in Mtus /\ conn[c].ctx \in Mtus
      BY <1>1 DEF RestType
    <3>2. QED
      BY <2>0, <2>2, <3>1
  <2>4. QED
    BY <1>1, <2>1, <2>3 DEF RestType
<1>4. CASE l2XconnectServer(c) \/ l3XconnectServer(c)
  <2>0. At(c) \in Sides
    BY <1>4, OnSide DEF l2XconnectServer, l3XconnectServer, XConnect, XConnectDel, Here
  <2>1. UNCHANGED <<veth, pair, hostMtu, ifMtu>>
    BY <1>4 DEF l2XconnectServer, l3XconnectServer, XConnect, XConnectDel, meta, kern
  <2>2. granted' = granted \/ granted' = granted \cup {c}
    BY <1>4 DEF l2XconnectServer, l3XconnectServer, XConnect, XConnectDel, Answer, client
  <2>3. known' = known \/ known' = [known EXCEPT ![At(c)] = @ \cup {c}]
    BY <1>4 DEF l2XconnectServer, l3XconnectServer, XConnect, XConnectDel, Answer, meta
  <2>4. known' \in [Sides -> SUBSET Conns]
    <3>1. known \in [Sides -> SUBSET Conns] /\ 0 \in Mtus /\ conn[c].ctx \in Mtus
      BY <1>1 DEF RestType
    <3>2. QED
      BY <2>0, <2>3, <3>1
  <2>5. QED
    BY <1>1, <2>1, <2>2, <2>4 DEF RestType
<1>5. CASE Finish(c)
  <2>1. UNCHANGED <<granted, pair, hostMtu, ifMtu>>
    BY <1>5 DEF Finish, kern, vpp
  <2>2. NoVeth \in [link : BOOLEAN, peer : BOOLEAN]
    BY DEF NoVeth
  <2>3. /\ known' = [e \in Sides |-> IF Drop(c, e) THEN known[e] \ {c} ELSE known[e]]
        /\ veth' = [e \in Sides |-> IF Drop(c, e) THEN [veth[e] EXCEPT ![c] = NoVeth] ELSE veth[e]]
    BY <1>5 DEF Finish
  <2>4. QED
    BY <1>1, <2>1, <2>2, <2>3 DEF RestType
<1>6. QED
  BY <1>2, <1>3, <1>4, <1>5

(* Every step is a step of the handler of one connection. *)
LEMMA HandlerInv ==
    ASSUME NEW c \in Conns, Running(c),
           Request(c) \/ Handle(c) \/ Close(c) \/ \E e \in Sides : HostLost(e, c)
    PROVE  StepInv(c) /\ RestType'
<1>1. \/ Request(c) \/ AskMtu(c) \/ NextHop(c) \/ Close(c)
      \/ Kernel(c) \/ TunnelStep(c) \/ SetUp(c) \/ l2XconnectServer(c) \/ l3XconnectServer(c)
      \/ Finish(c) \/ \E e \in Sides : HostLost(e, c)
  BY DEF Handle, vxlanServer, vxlanClient, mtuServer, mtuClient
<1>2. StepInv(c)
  BY <1>1, AskInv, KernelInv, TunnelInv, SetUpInv, JoinInv, FinishInv, HostLostInv
<1>3. RestType'
  BY <1>1, KernelType, OtherType
<1>4. QED
  BY <1>2, <1>3

(* A step that changes nothing. *)
LEMMA StutterInv ==
    ASSUME IInv, UNCHANGED vars
    PROVE  DataType' /\ \A c \in Conns : PortsInv(c)' /\ (Wiring(c) => Wiring(c)')
<1>1. UNCHANGED <<env, granted, known, ifindex, veth, pair, hostMtu, ports, xc, ifMtu, hop>>
  BY DEF vars, client, meta, kern, vpp
<1>2. DataType' /\ IfType /\ PortType /\ env \in Envs
  BY <1>1, DataTypeParts DEF DataType, IInv, FwdInv
<1>3. ASSUME NEW c \in Conns PROVE PortsInv(c)' /\ (Wiring(c) => Wiring(c)')
  <2>1. Untouched(c)
    BY <1>1 DEF Untouched
  <2>2. QED
    BY <1>1, <1>2, <2>1, UntouchedInv DEF IInv
<1>4. QED
  BY <1>2, <1>3

(* Every step preserves the invariant. *)
LEMMA NextIInv == IInv /\ [Next]_vars => IInv'
<1> SUFFICES ASSUME IInv, [Next]_vars PROVE IInv'
  OBVIOUS
<1>1. FwdInv'
  BY FwdStep DEF IInv
<1>2. CASE UNCHANGED vars
  BY <1>1, <1>2, StutterInv DEF IInv
<1>3. CASE Next
  <2>1. PICK c \in env.conns : Request(c) \/ Handle(c) \/ Close(c) \/ \E e \in Sides : HostLost(e, c)
    BY <1>3 DEF Next
  <2>2. env \in Envs /\ env' = env /\ c \in Conns /\ IfType /\ PortType
    BY <1>3, EnvFacts, DataTypeParts DEF IInv, FwdInv, Next
  <2>3. Running(c)
    BY <2>2 DEF IInv, Running
  <2>4. StepInv(c) /\ RestType'
    BY <2>1, <2>2, <2>3, HandlerInv
  <2>5. DataType'
    BY <2>4, DataTypeParts DEF StepInv, DataType, RestType, IfType, PortType, XcType
  <2>6. ASSUME NEW d \in Conns PROVE PortsInv(d)'
    <3>1. CASE d = c
      BY <2>4, <3>1 DEF StepInv
    <3>2. CASE d # c
      BY <2>2, <2>4, <3>2, UntouchedInv DEF StepInv, IInv
    <3>3. QED
      BY <3>1, <3>2
  <2>7. QED
    BY <1>1, <2>5, <2>6 DEF IInv
<1>4. QED
  BY <1>2, <1>3

(* The invariant holds at the start. *)
LEMMA InitIInv == Init => IInv
<1> SUFFICES ASSUME Init PROVE IInv
  OBVIOUS
<1>1. FwdInv
  <2>1. MtuTypeOK
    BY MtuInitInv DEF Init, MtuInv
  <2>2. LastInv /\ env \in Envs
    BY DEF Init, LastInv
  <2>3. HopInv
    BY PosFields DEF Init, MtuInit, HopInv
  <2>4. QED
    BY <2>1, <2>2, <2>3 DEF FwdInv
<1>2. DataType
  <2>1. 0 \in Mtus
    BY TunnelMtuAssumption DEF Mtus
  <2>2. QED
    BY <2>1 DEF Init, DataType, NoVeth, NoXc, Kinds
<1>3. ASSUME NEW c \in Conns PROVE PortsInv(c)
  <2>1. hop[c] = Idle /\ hop[c].to = "idle" /\ hop[c].step = "ready" /\ c \notin granted
    BY DEF Init, Idle, Pos
  <2>2. /\ \A e \in Sides, x \in Ends : ifindex[e][x][c] = NoIf
        /\ \A e \in Sides, i \in Ifs : ports[e][i].conn # c
        /\ \A e \in Sides : veth[e][c].peer = FALSE
    BY PortFacts DEF Init, NoVeth
  <2>3. HopOK(c) /\ OwnPorts(c) /\ NoneLost(c) /\ NoneEarly(c) /\ NoneLeft(c) /\ MadeRight(c)
    BY <2>1, <2>2 DEF HopOK, OwnPorts, NoneLost, NoneEarly, NoneLeft, Left, MadeRight, Made, Here
  <2>4. PairRight(c)
    BY <2>1, <2>2, ElementFacts DEF PairRight, KernelIf, Here
  <2>5. JoinedSoFar(c)
    BY <2>1 DEF JoinedSoFar, Here
  <2>6. QED
    BY <2>3, <2>4, <2>5 DEF PortsInv
<1>4. QED
  BY <1>1, <1>2, <1>3 DEF IInv

(* The invariant holds in every state of every behaviour. *)
LEMMA SpecIInv == Spec => []IInv
BY InitIInv, NextIInv, PTL DEF Spec

-----------------------------------------------------------------------------
(* What the invariant says *)

(* The invariant implies the types. *)
LEMMA IInvTypeOK == IInv => TypeOK
<1> SUFFICES ASSUME IInv PROVE TypeOK
  OBVIOUS
<1>1. ASSUME NEW c \in Conns
      PROVE  \/ hop[c] \in {Idle, Asking, Answering}
             \/ hop[c].to = "up" /\ hop[c].step \in UpSteps
             \/ hop[c].to = "down" /\ hop[c].step \in DownSteps
  <2>1. HopOK(c)
    BY DEF IInv, PortsInv
  <2>2. CASE hop[c].to = "up" /\ UpOK(hop[c])
    BY <2>2 DEF UpOK, UpSteps, TapUp, VethUp, Kernels, Tunnels, XConnects
  <2>3. CASE hop[c].to = "down" /\ DownOK(hop[c])
    BY <2>3 DEF DownOK, DownSteps, VethDown, Kernels, Tunnels, XConnects
  <2>4. QED
    BY <2>1, <2>2, <2>3 DEF HopOK
<1>2. QED
  BY <1>1 DEF IInv, FwdInv, LastInv, DataType, TypeOK

(* It implies that metadata and VPP agree. *)
LEMMA IInvIndexes == IInv => IndexesMatchVPP
<1> SUFFICES ASSUME IInv PROVE IndexesMatchVPP
  OBVIOUS
<1>1. \A e \in Sides, x \in Ends, c \in Conns : ifindex[e][x][c] # NoIf =>
          MyPort(e, x, c).conn = c /\ MyPort(e, x, c).end = x
  BY DEF IInv, PortsInv, OwnPorts
<1>2. ASSUME NEW e \in Sides, NEW i \in Ifs, ports[e][i] # NoPort,
             env.faults[e] \cap {"delete", "netns"} = {}
      PROVE  ifindex[e][ports[e][i].end][ports[e][i].conn] = i
  <2>1. ports[e][i].conn \in Conns
    BY <1>2, PortFacts DEF IInv, DataType
  <2>2. QED
    BY <1>2, <2>1 DEF IInv, PortsInv, NoneLost, Clean
<1>3. QED
  BY <1>1, <1>2 DEF IndexesMatchVPP

(* It implies that granted connections are wired. *)
LEMMA IInvWired == IInv => Wired
BY DEF IInv, DataType, PortsInv, JoinedSoFar, Wired

(* The types of everything the chains keep hold. *)
THEOREM ForwardersTypeOK == Spec => []TypeOK
BY SpecIInv, IInvTypeOK, PTL

(* The metadata and VPP agree: whatever elements fail, in whatever order   *)
(* the connections run and whichever index VPP gives out again, an index   *)
(* in the metadata is that of an interface of this end of the connection,  *)
(* and no interface is lost where deletions and namespaces work.           *)
THEOREM ForwardersIndexesMatch == Spec => []IndexesMatchVPP
BY SpecIInv, IInvIndexes, PTL

(* A connection whose request has succeeded is carried by both forwarders: *)
(* its own four interfaces are there and joined, for every number of       *)
(* connections and indices and for every set of failures.                  *)
THEOREM ForwardersWired == Spec => []Wired
BY SpecIInv, IInvWired, PTL

-----------------------------------------------------------------------------
(* A connection stays wired *)

(* Interfaces are marked, or nothing is done to them. *)
LEMMA WiringMarked ==
    ASSUME NEW c \in Conns, Running(c), Wiring(c), UNCHANGED <<ifindex, xc>>,
           \A f \in Sides, i \in Ifs :
               ports'[f][i].conn = ports[f][i].conn /\ ports'[f][i].end = ports[f][i].end
    PROVE  Wiring(c)'
<1>1. IfType /\ env' = env
  BY RunningFacts DEF Running
<1>2. \A f \in Sides : Joined(f, c)'
  BY <1>1, JoinedMarked DEF Wiring
<1>3. QED
  BY <1>2 DEF Wiring

(* The elements of a veth pair only mark the interface on it. *)
LEMMA VethMarks ==
    ASSUME NEW c \in Conns, Running(c), AtVeth(c),
           \/ KillPair(c) \/ UNCHANGED ports
           \/ MyIf(c) # NoIf /\ \E b \in BOOLEAN : SetNbr(c, b)
    PROVE  \A f \in Sides, i \in Ifs :
               ports'[f][i].conn = ports[f][i].conn /\ ports'[f][i].end = ports[f][i].end
<1>1. PortType /\ IfType /\ At(c) \in Sides /\ End(c) \in Ends /\ OwnPorts(c)
  BY DEF AtVeth, Placed
<1>2. CASE KillPair(c)
  <2> SUFFICES ASSUME NEW f \in Sides, NEW i \in Ifs
               PROVE  ports'[f][i].conn = ports[f][i].conn /\ ports'[f][i].end = ports[f][i].end
    OBVIOUS
  <2>1. ports'[f][i] = IF f = At(c) /\ ports[f][i].conn = c /\ ports[f][i].end = End(c)
                       THEN [ports[f][i] EXCEPT !.alive = FALSE] ELSE ports[f][i]
    BY <1>1, <1>2 DEF KillPair, PortType
  <2>2. ports[f][i].conn = c => ports[f][i] \in Port
    BY <1>1, PortFacts DEF PortType
  <2>3. QED
    BY <2>1, <2>2 DEF Port
<1>3. CASE MyIf(c) # NoIf /\ \E b \in BOOLEAN : SetNbr(c, b)
  <2>1. PICK b \in BOOLEAN : SetNbr(c, b)
    BY <1>3
  <2>2. MyIf(c) \in Ifs /\ ports[At(c)][MyIf(c)].conn = c
    BY <1>1, <1>3 DEF IfType, OwnPorts, MyPort, MyIf
  <2>3. ports[At(c)][MyIf(c)] \in Port
    BY <1>1, <2>2, PortFacts DEF PortType
  <2>4. \A f \in Sides, i \in Ifs :
            ports'[f][i] = IF f = At(c) /\ i = MyIf(c) THEN [ports[f][i] EXCEPT !.nbr = b] ELSE ports[f][i]
    BY <1>1, <2>1, <2>2 DEF SetNbr, PortType
  <2>5. QED
    BY <2>3, <2>4 DEF Port
<1>4. QED
  BY <1>2, <1>3

(* The cross connect of a refresh sets what is set. *)
LEMMA JoinAgain ==
    ASSUME NEW c \in Conns, Running(c), Wiring(c), XConnect(c, Calls)
    PROVE  Wiring(c)'
<1>1. Here(c, "up", "xc") /\ UNCHANGED <<ifindex, ports>>
  BY DEF XConnect
<1>2. env \in Envs /\ env' = env /\ AtXconnect(c)
  BY <1>1, RunningFacts, XcPlace DEF Running
<1>3. CASE UNCHANGED xc
  BY <1>1, <1>3, WiringMarked
<1>4. CASE SetXc(c, Calls[hop[c].call], ifindex[At(c)][Other(Calls[hop[c].call].end)][c])
  <2>1. /\ \A f \in Sides, i \in Ifs : \/ xc'[f][i] = xc[f][i]
                                       \/ ports[f][i].conn = c /\ f = At(c)
        /\ \A j \in 1..MaxCall : j <= hop[c].call \/ CallDone(c, At(c), Calls[j]) => NewDone(c, j)
    BY <1>1, <1>2, <1>4, CallsDone
  <2>2. ASSUME NEW j \in 1..MaxCall PROVE CallDone(c, At(c), Calls[j])
    <3>1. /\ Calls[j].end \in Ends
          /\ Calls[j].kind \in IF env.payload = "ETHERNET" THEN {"l2"} ELSE {"v4", "v6"}
      BY <1>2, CallKinds
    <3>2. Joined(At(c), c)
      BY <1>2 DEF Wiring, AtXconnect
    <3>3. QED
      BY <3>1, <3>2 DEF Joined, CallDone
  <2>3. \A f \in Sides : f = At(c) => Joined(f, c)'
    BY <1>1, <1>2, <2>1, <2>2, AllDone
  <2>4. \A f \in Sides : f # At(c) => Joined(f, c)'
    BY <1>1, <2>1, OtherJoined DEF Wiring
  <2>5. QED
    BY <2>3, <2>4 DEF Wiring
<1>5. QED
  BY <1>3, <1>4 DEF XConnect

(* A step of the connection itself, other than closing, leaves it wired,   *)
(* unless it finds its tap lost.                                           *)
LEMMA OwnWiring ==
    ASSUME NEW c \in Conns, Running(c), Wiring(c), hop[c].to # "down",
           Request(c) \/ Handle(c) \/ Close(c) \/ \E e \in Sides : HostLost(e, c)
    PROVE  Wiring(c)' \/ (hop[c].step = "tap" /\ ~MyPort(At(c), End(c), c).alive)
<1>1. HopOK(c) /\ env \in Envs /\ env' = env
  BY RunningFacts DEF Running
<1>2. ASSUME UNCHANGED <<ifindex, ports, xc>> PROVE Wiring(c)'
  BY <1>2, WiringMarked
<1>3. CASE Request(c) \/ AskMtu(c) \/ NextHop(c) \/ Close(c) \/ SetUp(c)
  BY <1>2, <1>3 DEF Request, AskMtu, NextHop, Close, SetUp, meta, vpp
<1>4. CASE \E e \in Sides : HostLost(e, c)
  BY <1>4, HostLostInv
<1>5. CASE TapStep(c)
  <2>1. hop[c].to = "up" /\ (TapCheck(c) \/ TapCreate(c) \/ TapSetup(c))
        /\ hop[c].step \in {"tap", "tapcreate", "tapsetup"}
    BY <1>5 DEF TapStep, TapCheck, TapCreate, TapSetup, TapDel, Here
  <2>2. AtElement(c)
    BY <1>1, <2>1, TapPlace
  <2>3. At(c) \in Sides /\ End(c) \in Ends
    BY <2>2, AtEnd DEF AtElement
  <2>4. MyIf(c) # NoIf
    BY <2>3 DEF Wiring, Joined, MyIf
  <2>5. ~TapCreate(c)
    BY <2>4 DEF TapCreate, Running, PortsInv, MadeRight
  <2>6. CASE TapSetup(c)
    BY <1>2, <2>6 DEF TapSetup, meta, vpp
  <2>7. CASE TapCheck(c)
    <3>1. hop[c].step = "tap" /\ (UNCHANGED <<ifindex, ports, xc>> \/ ~TapLoad(c))
      BY <2>7 DEF TapCheck, Here
    <3>2. QED
      BY <1>2, <2>4, <3>1 DEF TapLoad, MyPort, MyIf
  <2>8. QED
    BY <2>1, <2>5, <2>6, <2>7
<1>6. CASE Veth(c) \/ Neighbor(c)
  <2>1. AtVeth(c)
    BY <1>6, VethFacts DEF Veth, Neighbor, Here
  <2>2. \/ KillPair(c) \/ UNCHANGED ports
        \/ MyIf(c) # NoIf /\ \E b \in BOOLEAN : SetNbr(c, b)
    BY <1>6 DEF Veth, VethCreated, VethFails, DeletePrevious, Neighbor, HasNbrs
  <2>3. UNCHANGED <<ifindex, xc>>
    BY <1>6 DEF Veth, Neighbor, meta
  <2>4. QED
    BY <2>1, <2>2, <2>3, VethMarks, WiringMarked
<1>7. CASE VethMtu(c)
  BY <1>2, <1>7 DEF VethMtu, meta, vpp
<1>8. CASE AfPacket(c) \/ Tunnel(c)
  <2>1. AtElement(c)
    BY <1>1, <1>8, VethPlace, TunnelPlace DEF AfPacket, Tunnel, Here
  <2>2. At(c) \in Sides /\ End(c) \in Ends
    BY <2>1, AtEnd DEF AtElement
  <2>3. MyIf(c) # NoIf
    BY <2>2 DEF Wiring, Joined, MyIf
  <2>4. QED
    BY <1>2, <1>8, <2>3 DEF AfPacket, Tunnel
<1>9. CASE l2XconnectServer(c) \/ l3XconnectServer(c)
  <2>1. XConnect(c, Calls)
    BY <1>9 DEF l2XconnectServer, l3XconnectServer, Calls, XConnectDel, Here
  <2>2. QED
    BY <2>1, JoinAgain
<1>10. ~(VethDel(c) \/ AfPacketDel(c) \/ NeighborDel(c) \/ TunnelDel(c) \/ Finish(c))
  BY DEF VethDel, AfPacketDel, NeighborDel, TunnelDel, Finish, Here
<1>11. QED
  BY <1>3, <1>4, <1>5, <1>6, <1>7, <1>8, <1>9, <1>10
     DEF Handle, Kernel, kernelTapServer, kernelTapClient, kernelVethPairServer, kernelVethPairClient,
         vethMtuServer, vethMtuClient, afPacketServer, afPacketClient,
         ipNeighborServer, ipNeighborClient, VethStep, AfPacketStep, NeighborStep,
         vxlanServer, vxlanClient, TunnelStep, mtuServer, mtuClient

(* A request that succeeds has found or made interfaces whose other side   *)
(* in the kernel is there.                                                 *)
LEMMA GrantedAlive ==
    ASSUME NEW c \in Conns, Running(c), Answer(c), Here(c, "up", "xc"), UNCHANGED <<ifindex, ports>>,
           c \notin granted, c \in granted', NEW e \in Sides
    PROVE  \/ MyPort(e, Other(e), c)'.alive
           \/ env.kernel[e] = "veth" /\ "netns" \in env.faults[e]
<1>1. HopOK(c) /\ env \in Envs
  BY RunningFacts
<1>2. hop[c].el = 6
  BY ChainFacts DEF Answer, client
<1>3. Other(e) \in Ends /\ Other(e) # e /\ ElOf(e, Other(e)) \in {1, 2, 4, 5}
  BY ElementFacts
<1>4. Made(hop[c], ElOf(e, Other(e)))
  BY <1>2, <1>3 DEF Made, Here
<1>5. ifindex[e][Other(e)][c] # NoIf /\ (env.kernel[e] = "tap" => MyPort(e, Other(e), c).alive)
  BY <1>3, <1>4 DEF Running, PortsInv, MadeRight
<1>6. env.kernel[e] \in {"tap", "veth"}
  BY <1>1, EnvFacts
<1>7. env.kernel[e] = "veth" /\ "netns" \notin env.faults[e] => MyPort(e, Other(e), c).alive
  BY <1>5 DEF Running, PortsInv, PairRight, KernelIf
<1>8. QED
  BY <1>5, <1>6, <1>7 DEF MyPort

(* Only the last answer grants a connection. *)
LEMMA GrantSteps ==
    ASSUME NEW c \in Conns, Running(c), NEW d \in Conns, d \notin granted, d \in granted',
           Request(c) \/ Handle(c) \/ Close(c) \/ \E e \in Sides : HostLost(e, c)
    PROVE  d = c /\ Answer(c) /\ Here(c, "up", "xc") /\ UNCHANGED <<ifindex, ports>>
<1>1. CASE l2XconnectServer(c) \/ l3XconnectServer(c)
  <2>1. PICK calls : XConnect(c, calls) \/ XConnectDel(c, calls)
    BY <1>1 DEF l2XconnectServer, l3XconnectServer
  <2>2. XConnect(c, calls) /\ Answer(c)
    BY <2>1 DEF XConnect, XConnectDel, client
  <2>3. QED
    BY <2>2 DEF XConnect, Answer, client
<1>2. CASE Request(c) \/ AskMtu(c) \/ NextHop(c) \/ Close(c) \/ Finish(c) \/ \E e \in Sides : HostLost(e, c)
  BY <1>2 DEF Request, AskMtu, NextHop, Close, Finish, HostLost, client
<1>3. CASE TapStep(c) \/ VethStep(c) \/ VethMtu(c) \/ AfPacketStep(c) \/ NeighborStep(c)
  BY <1>3 DEF TapStep, TapCheck, TapCreate, TapSetup, TapDel, VethStep, Veth, VethDel, VethMtu,
              AfPacketStep, AfPacket, AfPacketDel, NeighborStep, Neighbor, NeighborDel, client
<1>4. CASE TunnelStep(c) \/ SetUp(c)
  BY <1>4 DEF TunnelStep, Tunnel, TunnelDel, SetUp, client
<1>5. QED
  BY <1>1, <1>2, <1>3, <1>4
     DEF Handle, Kernel, kernelTapServer, kernelTapClient, kernelVethPairServer, kernelVethPairClient,
         vethMtuServer, vethMtuClient, afPacketServer, afPacketClient,
         ipNeighborServer, ipNeighborClient, vxlanServer, vxlanClient, mtuServer, mtuClient

(* What a step keeps of the wiring. *)
KeptStep ==
    \A c \in Conns :
      /\ Wiring(c) /\ hop[c].to # "down" =>
           \/ Wiring(c)'
           \/ hop[c].step = "tap" /\ ~MyPort(At(c), End(c), c).alive
      /\ c \notin granted /\ c \in granted' =>
           \A e \in Sides : \/ MyPort(e, Other(e), c)'.alive
                            \/ env.kernel[e] = "veth" /\ "netns" \in env.faults[e]

(* No step does otherwise. *)
LEMMA NextKept == IInv /\ [Next]_vars => [KeptStep]_vars
<1> SUFFICES ASSUME IInv, Next PROVE KeptStep
  OBVIOUS
<1>1. PICK c \in env.conns : Request(c) \/ Handle(c) \/ Close(c) \/ \E e \in Sides : HostLost(e, c)
  BY DEF Next
<1>2. env \in Envs /\ env' = env /\ c \in Conns /\ IfType /\ PortType
  BY EnvFacts, DataTypeParts DEF IInv, FwdInv, Next
<1>3. Running(c)
  BY <1>2 DEF IInv, Running
<1>4. ASSUME NEW d \in Conns, Wiring(d), hop[d].to # "down"
      PROVE  Wiring(d)' \/ (hop[d].step = "tap" /\ ~MyPort(At(d), End(d), d).alive)
  <2>1. CASE d = c
    BY <1>1, <1>2, <1>3, <1>4, <2>1, OwnWiring
  <2>2. CASE d # c
    <3>1. StepInv(c)
      BY <1>1, <1>2, <1>3, HandlerInv
    <3>2. Untouched(d) /\ PortsInv(d)
      BY <2>2, <3>1 DEF StepInv, IInv
    <3>3. QED
      BY <1>2, <1>4, <3>2, UntouchedInv
  <2>3. QED
    BY <2>1, <2>2
<1>5. ASSUME NEW d \in Conns, d \notin granted, d \in granted', NEW e \in Sides
      PROVE  \/ MyPort(e, Other(e), d)'.alive
             \/ env.kernel[e] = "veth" /\ "netns" \in env.faults[e]
  <2>1. d = c /\ Answer(c) /\ Here(c, "up", "xc") /\ UNCHANGED <<ifindex, ports>>
    BY <1>1, <1>2, <1>3, <1>5, GrantSteps
  <2>2. QED
    BY <1>2, <1>3, <1>5, <2>1, GrantedAlive
<1>6. QED
  BY <1>4, <1>5 DEF KeptStep

(* A connection stays wired until it is closed itself: no step of another  *)
(* connection and no refresh takes it apart, unless its tap was lost; and  *)
(* a request that succeeds leaves the kernel's side of its interfaces      *)
(* alive, for every number of connections and every set of failures.       *)
THEOREM ForwardersWiringKept == Spec => WiringKept
<1>1. IInv /\ [Next]_vars => [KeptStep]_vars
  BY NextKept
<1>2. QED
  BY <1>1, SpecIInv, PTL DEF Spec, WiringKept, KeptStep
-----------------------------------------------------------------------------
(* The MTU of a granted connection *)

(* A packet of size m and its headers fits both links. *)
Fits(m) == m # 0 /\ \A e \in Sides : m + Overhead <= link[e]

(* An end of the tunnel whose MTU was found has a link. *)
LinkKnown == \A e \in Sides :
    /\ inited[e] => link[e] # 0
    /\ \A c \in Conns : pc[c] = In(e, "store") => link[e] # 0

(* On its way a request has an MTU that is set, and in the end fits; a     *)
(* refresh has none above the one that was granted.                        *)
MtuSoFar(c) ==
    /\ last[c] # None => Fits(last[c].ctx)
    /\ hop[c] = Asking => conn[c].ctx # 0
    /\ hop[c] = Asking /\ pc[c].at = "server" =>
          conn[c].mech # 0 /\ conn[c].mech + Overhead <= link["client"]
    /\ hop[c] = Answering \/ hop[c].to = "up" => Fits(conn[c].ctx)
    /\ last[c] # None /\ (hop[c] \in {Asking, Answering} \/ hop[c].to = "up") =>
          conn[c].ctx <= last[c].ctx

(* The MTU of the tunnel at forwarder e, which element n makes: that of    *)
(* the request once it has passed, and before that, or if a close has not  *)
(* come so far, not less than what was granted.                            *)
Passed(p, n) == p.to = "up" /\ n < p.el
Spared(p, n) == p.to \notin {"up", "down"} \/ (p.to = "up" /\ p.el <= n) \/ (p.to = "down" /\ p.from < n)

TunnelFitsAt(e, c) ==
    /\ Passed(hop[c], ElOf(e, e)) => ifMtu[e][c] = conn[c].ctx
    /\ "delete" \notin env.faults[e] =>
          /\ ifindex[e][e][c] = NoIf => ifMtu[e][c] = 0
          /\ Left(hop[c], ElOf(e, e)) => ifMtu[e][c] = 0
          /\ Spared(hop[c], ElOf(e, e)) =>
                ifMtu[e][c] = 0 \/ (last[c] # None /\ last[c].ctx <= ifMtu[e][c])

TunnelFits(c) == \A e \in Sides : TunnelFitsAt(e, c)

(* The veth pair of element n has its MTU. *)
PairSet(p, n) == /\ p.to = "up"
                 /\ n < p.el \/ (n = p.el /\ p.step \in {"afpacket", "neighbor", "set"})

(* A connection that was not granted has no metadata from before, and so a *)
(* new veth pair, whose MTU is the one of the request.                     *)
NewPair(c) == last[c] = None =>
    /\ c \notin known["client"]
    /\ c \in known["server"] => \/ hop[c].to = "up" /\ 3 < hop[c].el
                                \/ hop[c].to = "down" /\ 3 < hop[c].from
    /\ \A e \in Sides : env.kernel[e] = "veth" =>
          /\ hop[c].to = "up" /\ hop[c].el = ElOf(e, Other(e)) /\ hop[c].step \in {"veth", "vethmtu"} =>
                KernelIf(e, c) = NoIf
          /\ PairSet(hop[c], ElOf(e, Other(e))) => hostMtu[e][c] = conn[c].ctx

FitInv(c) == MtuSoFar(c) /\ TunnelFits(c) /\ NewPair(c)

(* The inductive invariant behind GrantedFits. *)
MtuIInv == IInv /\ MtuInv /\ LinkKnown /\ \A c \in Conns : FitInv(c)

(* Steps of the mtu elements keep what is known of the links. *)
LEMMA LinkKnownNext == MtuInv /\ LinkKnown /\ [MtuNext]_mtuVars => LinkKnown'
<1> SUFFICES ASSUME MtuInv, LinkKnown, [MtuNext]_mtuVars PROVE LinkKnown'
  OBVIOUS
<1>t. MtuTypeOK
  BY DEF MtuInv
<1>1. ASSUME NEW c \in Conns, NEW e \in Sides, InitStep(e, c) PROVE LinkKnown'
  <2>1. CASE InitLoad(e, c) \/ InitLock(e, c)
    BY <2>1, <1>t, InInjective DEF InitLoad, InitLock, Goto, MtuTypeOK, LinkKnown
  <2>2. CASE InitCheck(e, c)
    BY <2>2, <1>t, InInjective DEF InitCheck, Goto, MtuTypeOK, LinkKnown
  <2>3. CASE InitStore(e, c)
    BY <2>3, <1>t, InInjective DEF InitStore, Goto, MtuTypeOK, LinkKnown
  <2>4. CASE InitUnlock(e, c) \/ InitFailed(e, c)
    BY <2>4, <1>t, InInjective DEF InitUnlock, InitFailed, Goto, MtuTypeOK, LinkKnown
  <2>5. QED
    BY <1>1, <2>1, <2>2, <2>3, <2>4 DEF InitStep
<1>2. ASSUME NEW c \in Conns, ClientClamp(c) \/ ServerClamp(c) \/ Elsewhere(c) PROVE LinkKnown'
  BY <1>2, <1>t, InInjective DEF ClientClamp, ServerClamp, Elsewhere, Goto, MtuTypeOK, LinkKnown
<1>3. ASSUME UNCHANGED mtuVars PROVE LinkKnown'
  BY <1>3 DEF mtuVars, LinkKnown
<1>4. QED
  BY <1>1, <1>2, <1>3 DEF MtuNext

(* The MTUs are numbers. *)
LEMMA MtuNumbers ==
    ASSUME FwdInv
    PROVE  /\ Overhead \in Int /\ Overhead >= 0 /\ Word \in Int
           /\ \A m \in Mtus : m \in Int /\ m >= 0 /\ m < Word
           /\ \A e \in Sides : link[e] \in Mtus
           /\ \A c \in Conns : conn[c] \in Conn /\ conn[c].ctx \in Mtus /\ conn[c].mech \in Mtus
           /\ \A c \in Conns : last[c] # None => last[c] \in Conn /\ last[c].ctx \in Mtus
<1>1. Overhead \in Mtus /\ Word \in Nat /\ Links \subseteq Mtus
  BY TunnelMtuAssumption
<1>2. \A m \in Mtus : m \in Int /\ m >= 0 /\ m < Word
  BY <1>1 DEF Mtus
<1>3. \A e \in Sides : link[e] \in Mtus
  BY <1>1 DEF FwdInv, MtuTypeOK
<1>4. \A r \in Conn : r.ctx \in Mtus /\ r.mech \in Mtus
  BY DEF Conn
<1>5. \A c \in Conns : conn[c] \in Conn /\ (last[c] # None => last[c] \in Conn)
  BY DEF FwdInv, MtuTypeOK, LastInv
<1>6. QED
  BY <1>1, <1>2, <1>3, <1>4, <1>5

(* Who lowers an MTU to m.mtu finds the MTU of the link without the        *)
(* headers there: the subtraction has not wrapped around.                  *)
LEMMA ClampRight ==
    ASSUME FwdInv, MtuInv, LinkKnown, NEW c \in Conns, NEW e \in Sides, pc[c] = In(e, "clamp")
    PROVE  mtu[e] \in Mtus /\ mtu[e] # 0 /\ mtu[e] + Overhead = link[e]
<1>1. inited[e] /\ mtu[e] = getMTU(e) /\ link[e] # 0 /\ link[e] \in Links
  BY DEF MtuInv, InitedIsSet, LinkKnown, MtuTypeOK
<1>2. /\ Word \in Nat /\ Overhead \in Nat /\ Overhead < Word
      /\ link[e] \in Nat /\ link[e] < Word /\ link[e] > Overhead
  BY <1>1, TunnelMtuAssumption DEF Mtus
<1>3. (link[e] + Word - Overhead) % Word = link[e] - Overhead
  <2> DEFINE a == link[e] - Overhead
  <2>1. a \in Nat /\ a < Word /\ Word > 0 /\ link[e] + Word - Overhead = a + Word
    BY <1>2
  <2> HIDE DEF a
  <2>2. (a + Word) % Word = a
    BY <1>2, <2>1
  <2>3. QED
    BY <2>1, <2>2 DEF a
<1>4. QED
  BY <1>1, <1>2, <1>3 DEF getMTU, Mtus

(* What Lower gives is set, not above the limit, and not above what was    *)
(* set before.                                                             *)
LEMMA LowerFacts ==
    ASSUME NEW m \in Int, m >= 0, NEW limit \in Int, limit > 0
    PROVE  /\ Lower(m, limit) > 0 /\ Lower(m, limit) <= limit
           /\ m # 0 => Lower(m, limit) <= m
BY DEF Lower

-----------------------------------------------------------------------------
(* How far a step moves a handler *)

(* Within an element, to the next one, from up to down, to the one behind. *)
Same(c) == hop'[c].to = hop[c].to /\ hop'[c].el = hop[c].el /\ hop'[c].from = hop[c].from
Ahead(c) == /\ hop[c].to = "up" /\ hop'[c].to = "up" /\ hop'[c].el = hop[c].el + 1
            /\ hop'[c].step \notin {"afpacket", "neighbor", "set"}
Back(c) == hop[c].to = "up" /\ hop'[c].to = "down" /\ hop'[c].el = hop[c].el /\ hop'[c].from = hop[c].el
Behindhand(c) == /\ hop[c].to = "down" /\ hop'[c].to = "down"
                 /\ hop'[c].el = hop[c].el - 1 /\ hop'[c].from = hop[c].from
Shift(c) == Same(c) \/ Ahead(c) \/ Back(c) \/ Behindhand(c)

(* The step an element begins with. *)
LEMMA UpBegins ==
    ASSUME NEW n \in 2..6
    PROVE  Up(n).to = "up" /\ Up(n).el = n /\ Up(n).step \in {"tap", "veth", "tunnel", "xc"}
<1>1. n = 2 \/ n = 3 \/ n = 4 \/ n = 5 \/ n = 6
  OBVIOUS
<1>2. QED
  BY <1>1 DEF Up, Pos, Chain

(* The elements of the chains move their handler in these ways. *)
LEMMA Shifts ==
    ASSUME HopInv, NEW c \in Conns
    PROVE  /\ \A s : Step(c, s) => Same(c)
           /\ NextCall(c) => Same(c)
           /\ hop[c].to = "up" /\ hop[c].el \in 1..5 /\ NextUp(c) => Ahead(c)
           /\ hop[c].to = "up" /\ (Fail(c) \/ \E s : FailAt(c, s)) => Back(c)
           /\ hop[c].to = "down" /\ NextDown(c) => Behindhand(c)
<1>1. ASSUME NEW s, Step(c, s) PROVE Same(c)
  BY <1>1, StepMoves DEF Same
<1>2. ASSUME NextCall(c) PROVE Same(c)
  BY <1>2, CallMoves DEF Same
<1>3. ASSUME hop[c].to = "up", hop[c].el \in 1..5, NextUp(c) PROVE Ahead(c)
  <2>1. hop'[c] = Up(hop[c].el + 1)
    BY <1>3, PosMoves DEF NextUp
  <2>2. /\ Up(hop[c].el + 1).to = "up" /\ Up(hop[c].el + 1).el = hop[c].el + 1
        /\ Up(hop[c].el + 1).step \in {"tap", "veth", "tunnel", "xc"}
    BY <1>3, UpBegins
  <2>3. QED
    BY <1>3, <2>1, <2>2 DEF Ahead
<1>4. ASSUME hop[c].to = "up", Fail(c) PROVE Back(c)
  BY <1>4, PosMoves DEF Fail, Down, Pos, Back
<1>5. ASSUME hop[c].to = "up", NEW s, FailAt(c, s) PROVE Back(c)
  BY <1>5, FailMoves DEF Back
<1>6. ASSUME hop[c].to = "down", NextDown(c) PROVE Behindhand(c)
  BY <1>6, PosMoves DEF NextDown, Down, Pos, Behindhand
<1>7. QED
  BY <1>1, <1>2, <1>3, <1>4, <1>5, <1>6

(* A handler in the chain is at a numbered element. *)
LEMMA HopNumbers ==
    ASSUME NEW c \in Conns, HopOK(c)
    PROVE  /\ hop[c].to = "up" => hop[c].el \in 1..6
           /\ hop[c].to = "down" => hop[c].el \in 0..6 /\ hop[c].from \in 1..7
           /\ hop[c].to \in {"up", "down"} => hop[c] \notin {Idle, Asking, Answering}
           /\ hop[c].to \notin {"up", "down"} => hop[c] \in {Idle, Asking, Answering}
BY DEF HopOK, UpOK, DownOK, Idle, Asking, Answering, Pos

-----------------------------------------------------------------------------
(* Steps that leave the MTUs alone *)

(* The MTUs of a request that is in the chain. *)
LEMMA MtuKept ==
    ASSUME NEW c \in Conns, HopOK(c), MtuSoFar(c), hop[c].to \in {"up", "down"},
           Shift(c), UNCHANGED <<link, conn, last>>
    PROVE  MtuSoFar(c)'
<1>1. hop'[c].to \in {"up", "down"} /\ (hop'[c].to = "up" => hop[c].to = "up")
  BY DEF Shift, Same, Ahead, Back, Behindhand
<1>2. hop'[c] # Asking /\ hop'[c] # Answering
  BY <1>1 DEF Asking, Answering, Pos
<1>3. QED
  BY <1>1, <1>2 DEF MtuSoFar, Fits

(* The tunnel of e, by a step of another element. *)
LEMMA TunnelKept ==
    ASSUME NEW c \in Conns, HopOK(c), NEW e \in Sides, TunnelFitsAt(e, c), hop[c].to \in {"up", "down"},
           Shift(c), hop[c].el # ElOf(e, e), UNCHANGED <<conn, last, env>>,
           ifMtu'[e][c] = ifMtu[e][c], ifindex'[e][e][c] = ifindex[e][e][c]
    PROVE  TunnelFitsAt(e, c)'
<1> DEFINE n == ElOf(e, e)
<1>1. n \in Int
  BY DEF ElOf
<1>2. n # hop[c].el /\ hop[c].el \in Int /\ (hop[c].to = "down" => hop[c].from \in Int)
  BY HopNumbers
<1> HIDE DEF n
<1>3. Passed(hop'[c], n) => Passed(hop[c], n)
  BY <1>1, <1>2 DEF Passed, Shift, Same, Ahead, Back, Behindhand
<1>4. Left(hop'[c], n) => Left(hop[c], n)
  BY <1>1, <1>2 DEF Left, Shift, Same, Ahead, Back, Behindhand
<1>5. Spared(hop'[c], n) => Spared(hop[c], n)
  BY <1>1, <1>2 DEF Spared, Shift, Same, Ahead, Back, Behindhand
<1>6. QED
  BY <1>3, <1>4, <1>5 DEF TunnelFitsAt, n

(* The elements that make the kernel's interfaces. *)
LEMMA KernelElement ==
    ASSUME NEW e \in Sides
    PROVE  /\ ElOf(e, Other(e)) \in Kernels /\ ElOf(e, Other(e)) \in Int
           /\ ElOf(e, Other(e)) = IF e = "server" THEN 1 ELSE 5
           /\ SideOf(ElOf(e, Other(e))) = e
           /\ ElOf(e, e) \in Tunnels /\ ElOf(e, e) = IF e = "server" THEN 2 ELSE 4
           /\ SideOf(ElOf(e, e)) = e
BY DEF ElOf, Other, Sides, Kernels, Tunnels, SideOf

(* The metadata and the veth pair of a new connection, by a step that is   *)
(* none of the pair's.                                                     *)
LEMMA NewPairKept ==
    ASSUME NEW c \in Conns, HopOK(c), NoneEarly(c), NewPair(c), hop[c].to \in {"up", "down"},
           Shift(c), UNCHANGED <<conn, last, hostMtu, env>>,
           c \in known'["client"] => c \in known["client"],
           c \in known'["server"] => c \in known["server"] \/ (hop'[c].to = "up" /\ 3 < hop'[c].el),
           Ahead(c) => UNCHANGED ifindex /\ (hop[c].el \in Kernels => hop[c].step = "set"),
           hop[c].el \in Kernels /\ env.kernel[SideOf(hop[c].el)] = "veth" => ~Same(c) \/ hop[c].to = "down"
    PROVE  NewPair(c)'
<1> SUFFICES ASSUME last[c] = None PROVE NewPair(c)'
  BY DEF NewPair
<1>0. /\ hop[c].el \in Int
      /\ hop[c].to = "down" => hop[c].from \in Int
  BY HopNumbers
<1>1. c \notin known["client"] /\ c \notin known'["client"]
  BY DEF NewPair
<1>2. c \in known'["server"] =>
          \/ hop'[c].to = "up" /\ 3 < hop'[c].el
          \/ hop'[c].to = "down" /\ 3 < hop'[c].from
  <2>1. c \in known["server"] => \/ hop[c].to = "up" /\ 3 < hop[c].el
                                 \/ hop[c].to = "down" /\ 3 < hop[c].from
    BY DEF NewPair
  <2>2. QED
    BY <1>0, <2>1 DEF Shift, Same, Ahead, Back, Behindhand
<1>3. ASSUME NEW e \in Sides, env.kernel[e] = "veth", hop'[c].to = "up", hop'[c].el = ElOf(e, Other(e))
      PROVE  KernelIf(e, c)' = NoIf
  <2>1. Same(c) \/ Ahead(c)
    BY <1>3 DEF Shift, Same, Ahead, Back, Behindhand
  <2>2. ~Same(c)
    BY <1>3, KernelElement DEF Same
  <2>3. Ahead(c) /\ UNCHANGED ifindex /\ hop[c].el \in 1..6
    BY <2>1, <2>2, HopNumbers DEF Ahead
  <2>4. e = "client" /\ ~Reached(hop[c], ElOf(e, Other(e)))
    <3>1. hop[c].to = "up" /\ hop[c].el + 1 = ElOf(e, Other(e)) /\ hop[c].el \in 1..6
      BY <1>3, <2>3 DEF Ahead
    <3>2. ElOf(e, Other(e)) # 1
      BY <3>1
    <3>3. QED
      BY <3>1, <3>2, KernelElement DEF Reached, Sides
  <2>5. Other(e) \in Ends
    BY ElementFacts
  <2>6. KernelIf(e, c) = NoIf
    BY <1>1, <2>4, <2>5 DEF NoneEarly, KernelIf
  <2>7. QED
    BY <2>3, <2>6 DEF KernelIf
<1>4. ASSUME NEW e \in Sides, env.kernel[e] = "veth", PairSet(hop'[c], ElOf(e, Other(e)))
      PROVE  hostMtu[e][c] = conn[c].ctx
  <2>1. PairSet(hop[c], ElOf(e, Other(e)))
    <3> DEFINE n == ElOf(e, Other(e))
    <3>1. n \in Int /\ n \in Kernels /\ SideOf(n) = e
      BY KernelElement
    <3> HIDE DEF n
    <3>2. Same(c) \/ Ahead(c)
      BY <1>4 DEF Shift, Same, Ahead, Back, Behindhand, PairSet
    <3>3. CASE Same(c)
      <4>1. hop[c].to = "up"
        BY <1>4, <3>3 DEF Same, PairSet
      <4>2. n # hop[c].el
        BY <1>4, <3>1, <3>3, <4>1
      <4>3. QED
        BY <1>4, <3>1, <3>3, <4>1, <4>2 DEF PairSet, Same, n
    <3>4. CASE Ahead(c)
      BY <1>0, <1>4, <3>1, <3>4 DEF PairSet, Ahead, n
    <3>5. QED
      BY <3>2, <3>3, <3>4
  <2>2. QED
    BY <1>4, <2>1 DEF NewPair
<1>5. QED
  BY <1>1, <1>2, <1>3, <1>4 DEF NewPair

(* A step of an element that leaves the MTUs alone: it is no tunnel, and   *)
(* not one that makes a veth pair.                                         *)
LEMMA PassFits ==
    ASSUME NEW c \in Conns, Running(c), FitInv(c), hop[c].to \in {"up", "down"}, Shift(c),
           hop[c].el \notin Tunnels, UNCHANGED <<link, conn, last, ifMtu, hostMtu, known>>,
           \A e \in Sides : ifindex'[e][e][c] = ifindex[e][e][c],
           Ahead(c) => UNCHANGED ifindex /\ (hop[c].el \in Kernels => hop[c].step = "set"),
           hop[c].el \in Kernels /\ env.kernel[SideOf(hop[c].el)] = "veth" => ~Same(c) \/ hop[c].to = "down"
    PROVE  FitInv(c)'
<1>1. HopOK(c) /\ NoneEarly(c) /\ env' = env
  BY DEF Running, PortsInv
<1>2. MtuSoFar(c)' /\ NewPair(c)'
  BY <1>1, MtuKept, NewPairKept DEF FitInv
<1>3. ASSUME NEW e \in Sides PROVE TunnelFitsAt(e, c)'
  BY <1>1, <1>3, KernelElement, TunnelKept DEF FitInv, TunnelFits
<1>4. QED
  BY <1>2, <1>3 DEF FitInv, TunnelFits

(* The metadata of the tunnels is not that of a kernel's interface. *)
LEMMA KernelApart ==
    ASSUME NEW c \in Conns, Running(c), hop[c].el \in Kernels, NEW i, StoreIf(c, i) \/ UNCHANGED ifindex
    PROVE  \A e \in Sides : ifindex'[e][e][c] = ifindex[e][e][c]
<1>1. At(c) \in Sides /\ End(c) = Other(At(c)) /\ End(c) \in Ends
  BY AtEnd
<1>2. IfType
  BY RunningFacts
<1>3. ASSUME NEW e \in Sides PROVE ifindex'[e][e][c] = ifindex[e][e][c]
  <2>1. e \in Ends /\ (e = At(c) => e # End(c))
    BY <1>1, ElementFacts
  <2>2. QED
    BY <1>1, <1>2, <2>1 DEF StoreIf, IfType
<1>4. QED
  BY <1>3

(* Taps have nothing to do with MTUs. *)
LEMMA TapFits ==
    ASSUME NEW c \in Conns, Running(c), FitInv(c), TapStep(c)
    PROVE  FitInv(c)'
<1>1. HopInv /\ HopOK(c) /\ env \in Envs
  BY RunningFacts
<1>2. /\ hop[c].to \in {"up", "down"} /\ hop[c].el \in Kernels
      /\ env.kernel[At(c)] = "tap" /\ AtElement(c)
  BY <1>1, TapPlace DEF TapStep, TapCheck, TapCreate, TapSetup, TapDel, Here
<1>3. At(c) = SideOf(hop[c].el) /\ hop[c].el \in 1..6 /\ hop[c].el \notin Tunnels
  BY <1>2, AtEnd DEF Kernels, Tunnels
<1>4. Same(c) \/ Back(c) \/ Behindhand(c)
  BY <1>1, Shifts DEF TapStep, TapCheck, TapCreate, TapSetup, TapDel, Here
<1>5. Shift(c) /\ ~Ahead(c)
  BY <1>3, <1>4 DEF Shift, Same, Ahead, Back, Behindhand
<1>6. UNCHANGED <<link, conn, last, ifMtu, hostMtu, known>>
  BY DEF TapStep, TapCheck, TapCreate, TapSetup, TapDel, mtuVars, client, kern, meta, vpp
<1>7. \E i : StoreIf(c, i) \/ UNCHANGED ifindex
  BY DEF TapStep, TapCheck, TapCreate, TapSetup, TapDel, TapDelete, DeleteIf, CreatePort, meta
<1>8. QED
  BY <1>2, <1>3, <1>5, <1>6, <1>7, KernelApart, PassFits

(* Neither has a veth pair that is deleted. *)
LEMMA VethDownFits ==
    ASSUME NEW c \in Conns, Running(c), FitInv(c), NeighborDel(c) \/ AfPacketDel(c) \/ VethDel(c)
    PROVE  FitInv(c)'
<1>1. HopInv /\ HopOK(c) /\ env \in Envs
  BY RunningFacts
<1>2. hop[c].to = "down" /\ hop[c].el \in Kernels
  BY <1>1, VethPlace DEF NeighborDel, AfPacketDel, VethDel, Here, VethDown
<1>3. hop[c].el \in 1..6 /\ hop[c].el \notin Tunnels
  BY <1>2 DEF Kernels, Tunnels
<1>4. Same(c) \/ Behindhand(c)
  BY <1>1, <1>2, Shifts DEF NeighborDel, AfPacketDel, VethDel
<1>5. Shift(c) /\ ~Ahead(c)
  BY <1>2, <1>4 DEF Shift, Ahead
<1>6. UNCHANGED <<link, conn, last, ifMtu, hostMtu, known>>
  BY DEF NeighborDel, AfPacketDel, VethDel, mtuVars, client, kern, meta
<1>7. \E i : StoreIf(c, i) \/ UNCHANGED ifindex
  BY DEF NeighborDel, AfPacketDel, VethDel, DeleteIf, meta
<1>8. QED
  BY <1>2, <1>3, <1>5, <1>6, <1>7, KernelApart, PassFits

(* A step within the making of a veth pair. *)
LEMMA PairStep ==
    ASSUME NEW c \in Conns, Running(c), NewPair(c), hop[c].to = "up", hop[c].el \in Kernels,
           NEW s, Step(c, s), UNCHANGED <<conn, last, known, env>>,
           \A e \in Sides : e # At(c) => hostMtu'[e][c] = hostMtu[e][c],
           s \in {"veth", "vethmtu"} => UNCHANGED ifindex /\ hop[c].step \in {"veth", "vethmtu"},
           last[c] = None /\ s \in {"afpacket", "neighbor", "set"} /\ env.kernel[At(c)] = "veth" =>
               hostMtu'[At(c)][c] = conn[c].ctx
    PROVE  NewPair(c)'
<1> SUFFICES ASSUME last[c] = None PROVE NewPair(c)'
  BY DEF NewPair
<1>1. /\ hop'[c].to = "up" /\ hop'[c].el = hop[c].el /\ hop'[c].step = s /\ hop'[c].from = hop[c].from
  BY RunningFacts, StepMoves
<1>2. /\ c \notin known["client"]
      /\ c \in known["server"] => 3 < hop[c].el
  BY DEF NewPair
<1>3. At(c) = SideOf(hop[c].el) /\ hop[c].el \in Int
  BY AtEnd
<1>4. ASSUME NEW e \in Sides, env.kernel[e] = "veth", hop'[c].el = ElOf(e, Other(e)),
             hop'[c].step \in {"veth", "vethmtu"}
      PROVE  KernelIf(e, c)' = NoIf
  BY <1>1, <1>4 DEF NewPair, KernelIf
<1>5. ASSUME NEW e \in Sides, env.kernel[e] = "veth", PairSet(hop'[c], ElOf(e, Other(e)))
      PROVE  hostMtu'[e][c] = conn[c].ctx
  <2>1. CASE e = At(c)
    <3>1. hop[c].el = ElOf(e, Other(e))
      BY <1>3, <2>1, KernelElement, ElementFacts
    <3>2. s \in {"afpacket", "neighbor", "set"}
      BY <1>1, <1>3, <1>5, <3>1 DEF PairSet
    <3>3. QED
      BY <1>5, <2>1, <3>2
  <2>2. CASE e # At(c)
    <3>1. ElOf(e, Other(e)) # hop[c].el /\ ElOf(e, Other(e)) \in Int
      BY <1>3, <2>2, KernelElement
    <3>2. PairSet(hop[c], ElOf(e, Other(e)))
      BY <1>1, <1>3, <1>5, <3>1 DEF PairSet
    <3>3. QED
      BY <1>5, <2>2, <3>2 DEF NewPair
  <2>3. QED
    BY <2>1, <2>2
<1>6. QED
  BY <1>1, <1>2, <1>4, <1>5 DEF NewPair

(* A veth pair is made with the MTU of the request. *)
LEMMA VethUpFits ==
    ASSUME NEW c \in Conns, Running(c), FitInv(c), Veth(c) \/ VethMtu(c) \/ AfPacket(c) \/ Neighbor(c)
    PROVE  FitInv(c)'
<1>1. HopInv /\ HopOK(c) /\ env \in Envs /\ NoneEarly(c) /\ env' = env
  BY RunningFacts DEF Running, PortsInv
<1>2. /\ hop[c].to = "up" /\ hop[c].el \in Kernels /\ env.kernel[At(c)] # "tap"
      /\ hop[c].step \in {"veth", "vethmtu", "afpacket", "neighbor"}
  BY <1>1, VethPlace DEF Veth, VethMtu, AfPacket, Neighbor, Here
<1>3. /\ hop[c].el \in 1..6 /\ hop[c].el \notin Tunnels /\ At(c) = SideOf(hop[c].el)
      /\ At(c) \in Sides /\ ElOf(At(c), Other(At(c))) = hop[c].el /\ End(c) = Other(At(c))
  BY <1>2, AtEnd DEF Kernels, Tunnels
<1>4. (\E s : Step(c, s)) \/ Fail(c) \/ \E s : FailAt(c, s)
  BY DEF Veth, VethMtu, AfPacket, Neighbor
<1>5. Same(c) \/ Back(c)
  BY <1>1, <1>2, <1>4, Shifts
<1>6. Shift(c) /\ ~Ahead(c)
  BY <1>3, <1>5 DEF Shift, Same, Back, Ahead
<1>7. UNCHANGED <<link, conn, last, ifMtu, known, env>>
  BY <1>1 DEF Veth, VethMtu, AfPacket, Neighbor, mtuVars, client, kern, meta, vpp
<1>8. \A e \in Sides : ifindex'[e][e][c] = ifindex[e][e][c]
  <2>1. \E i : StoreIf(c, i) \/ UNCHANGED ifindex
    BY DEF Veth, VethMtu, AfPacket, Neighbor, CreatePort, meta
  <2>2. QED
    BY <1>2, <2>1, KernelApart
<1>9. MtuSoFar(c)' /\ TunnelFits(c)'
  <2>1. MtuSoFar(c)'
    BY <1>1, <1>2, <1>6, <1>7, MtuKept DEF FitInv
  <2>2. ASSUME NEW e \in Sides PROVE TunnelFitsAt(e, c)'
    BY <1>1, <1>2, <1>3, <1>6, <1>7, <1>8, <2>2, KernelElement, TunnelKept DEF FitInv, TunnelFits
  <2>3. QED
    BY <2>1, <2>2 DEF TunnelFits
<1>10. CASE UNCHANGED hostMtu /\ Back(c)
  <2>1. ~Same(c)
    BY <1>10 DEF Same, Back
  <2>2. NewPair(c)'
    BY <1>1, <1>2, <1>3, <1>6, <1>7, <1>10, <2>1, NewPairKept DEF FitInv
  <2>3. QED
    BY <1>9, <2>2 DEF FitInv
<1>11. ASSUME NEW s, Step(c, s),
              \A e \in Sides : e # At(c) => hostMtu'[e][c] = hostMtu[e][c],
              s \in {"veth", "vethmtu"} => UNCHANGED ifindex /\ hop[c].step \in {"veth", "vethmtu"},
              last[c] = None /\ s \in {"afpacket", "neighbor", "set"} => hostMtu'[At(c)][c] = conn[c].ctx
       PROVE  FitInv(c)'
  <2>1. NewPair(c)'
    BY <1>2, <1>7, <1>11, PairStep DEF FitInv
  <2>2. QED
    BY <1>9, <2>1 DEF FitInv
<1>12. hostMtu \in [Sides -> [Conns -> Mtus]] /\ conn[c].ctx \in Mtus /\ 0 \in Mtus
  BY MtuFacts DEF Running, DataType
<1>13. CASE Veth(c)
  <2>1. CASE Step(c, "vethmtu")
    <3>1. UNCHANGED ifindex /\ hop[c].step = "veth"
      BY <1>13 DEF Veth, Here
    <3>2. hostMtu' = hostMtu \/ hostMtu' = [hostMtu EXCEPT ![At(c)][c] = 0]
      BY <1>13 DEF Veth, VethCreated, VethFails, kern
    <3>3. \A e \in Sides : e # At(c) => hostMtu'[e][c] = hostMtu[e][c]
      BY <1>3, <1>12, <3>2
    <3>4. QED
      BY <1>11, <2>1, <3>1, <3>3
  <2>2. CASE ~Step(c, "vethmtu")
    <3>1. FailAt(c, "vethdel") /\ UNCHANGED hostMtu
      BY <1>13, <2>2 DEF Veth, VethFails, kern
    <3>2. Back(c)
      BY <1>1, <1>2, <3>1, Shifts
    <3>3. QED
      BY <1>10, <3>1, <3>2
  <2>3. QED
    BY <2>1, <2>2
<1>14. CASE VethMtu(c)
  <2>1. hop[c].step = "vethmtu" /\ UNCHANGED ifindex
    BY <1>14 DEF VethMtu, Here, meta
  <2>2. last[c] = None => MyIf(c) = NoIf /\ conn[c].ctx # 0
    <3>1. Fits(conn[c].ctx)
      BY <1>2 DEF FitInv, MtuSoFar
    <3>2. env.kernel[At(c)] = "veth"
      BY <1>1, <1>2, <1>3, EnvFacts
    <3>3. last[c] = None => KernelIf(At(c), c) = NoIf
      BY <1>2, <1>3, <2>1, <3>2 DEF FitInv, NewPair
    <3>4. QED
      BY <1>3, <3>1, <3>3 DEF KernelIf, MyIf, Fits
  <2>3. CASE Step(c, "afpacket") /\ hostMtu' = [hostMtu EXCEPT ![At(c)][c] = conn[c].ctx]
    <3>1. hostMtu'[At(c)][c] = conn[c].ctx /\ \A e \in Sides : e # At(c) => hostMtu'[e][c] = hostMtu[e][c]
      BY <1>3, <1>12, <2>3
    <3>2. QED
      BY <1>11, <2>3, <3>1
  <2>4. CASE (MyIf(c) # NoIf \/ conn[c].ctx = 0) /\ Step(c, "afpacket") /\ UNCHANGED hostMtu
    BY <1>11, <2>2, <2>4
  <2>5. CASE FailAt(c, "vethdel") /\ UNCHANGED hostMtu
    <3>1. Back(c)
      BY <1>1, <1>2, <2>5, Shifts
    <3>2. QED
      BY <1>10, <2>5, <3>1
  <2>6. QED
    BY <1>14, <2>3, <2>4, <2>5 DEF VethMtu
<1>15. CASE AfPacket(c) \/ Neighbor(c)
  <2>1. UNCHANGED hostMtu /\ hop[c].step \in {"afpacket", "neighbor"}
    BY <1>15 DEF AfPacket, Neighbor, Here, kern
  <2>2. last[c] = None => hostMtu[At(c)][c] = conn[c].ctx
    <3>1. env.kernel[At(c)] = "veth"
      BY <1>1, <1>2, <1>3, EnvFacts
    <3>2. PairSet(hop[c], ElOf(At(c), Other(At(c))))
      BY <1>2, <1>3, <2>1 DEF PairSet
    <3>3. QED
      BY <1>3, <3>1, <3>2 DEF FitInv, NewPair
  <2>3. Fail(c) \/ (\E s : FailAt(c, s)) \/ \E s \in {"neighbor", "set"} : Step(c, s)
    BY <1>15 DEF AfPacket, Neighbor
  <2>4. CASE Fail(c) \/ \E s : FailAt(c, s)
    <3>1. Back(c)
      BY <1>1, <1>2, <2>4, Shifts
    <3>2. QED
      BY <1>10, <2>1, <3>1
  <2>5. ASSUME NEW s \in {"neighbor", "set"}, Step(c, s) PROVE FitInv(c)'
    BY <1>11, <2>1, <2>2, <2>5
  <2>6. QED
    BY <2>3, <2>4, <2>5
<1>16. QED
  BY <1>13, <1>14, <1>15

-----------------------------------------------------------------------------
(* Steps of the tunnels and of what sets their MTU *)

(* The other tunnel, and what else a tunnel's element leaves alone. *)
LEMMA TunnelOther ==
    ASSUME NEW c \in Conns, Running(c), FitInv(c), hop[c].to \in {"up", "down"}, Shift(c),
           hop[c].el \in Tunnels, UNCHANGED <<link, conn, last, hostMtu, known>>,
           Ahead(c) => UNCHANGED ifindex, NEW f \in Sides, f = At(c), TunnelFitsAt(f, c)',
           \A e \in Sides : e # f => ifMtu'[e][c] = ifMtu[e][c] /\ ifindex'[e][e][c] = ifindex[e][e][c]
    PROVE  FitInv(c)'
<1>1. HopOK(c) /\ NoneEarly(c) /\ env' = env
  BY DEF Running, PortsInv
<1>2. hop[c].el \notin Kernels /\ At(c) \in Sides /\ At(c) = SideOf(hop[c].el)
  BY AtEnd DEF Kernels, Tunnels
<1>3. MtuSoFar(c)' /\ NewPair(c)'
  BY <1>1, <1>2, MtuKept, NewPairKept DEF FitInv
<1>4. ASSUME NEW e \in Sides PROVE TunnelFitsAt(e, c)'
  <2>1. CASE e = f
    BY <2>1
  <2>2. CASE e # f
    <3>1. hop[c].el # ElOf(e, e)
      BY <1>2, <2>2, KernelElement
    <3>2. QED
      BY <1>1, <1>4, <2>2, <3>1, TunnelKept DEF FitInv, TunnelFits
  <2>3. QED
    BY <2>1, <2>2
<1>5. QED
  BY <1>3, <1>4 DEF FitInv, TunnelFits

(* A tunnel that is made has no MTU yet, and one that is found has its     *)
(* own; one that is deleted has none.                                      *)
LEMMA TunnelStepFits ==
    ASSUME NEW c \in Conns, Running(c), FitInv(c), TunnelStep(c)
    PROVE  FitInv(c)'
<1>1. HopInv /\ HopOK(c) /\ env \in Envs /\ IfType /\ NoneEarly(c) /\ env' = env
  BY RunningFacts DEF Running, PortsInv
<1>2. /\ hop[c].to \in {"up", "down"} /\ hop[c].el \in Tunnels
      /\ Tunnel(c) => hop[c].to = "up"
      /\ TunnelDel(c) => hop[c].to = "down"
  BY <1>1, TunnelPlace DEF TunnelStep, Tunnel, TunnelDel, Here
<1>0. PICK e \in Sides : e = At(c)
  BY <1>2, AtEnd
<1> DEFINE n == ElOf(e, e)
<1>3. /\ hop[c].el \in 1..6 /\ e \in Sides /\ End(c) = e /\ e \in Ends /\ hop[c].el = n
      /\ n \in Int /\ MyIf(c) = ifindex[e][e][c]
  BY <1>0, <1>2, AtEnd DEF MyIf
<1>4. UNCHANGED <<link, conn, last, hostMtu, known>>
  BY DEF TunnelStep, Tunnel, TunnelDel, mtuVars, client, kern, meta
<1>5. Same(c) \/ Back(c) \/ Behindhand(c)
  BY <1>1, <1>2, Shifts DEF TunnelStep, Tunnel, TunnelDel
<1>6. Shift(c) /\ ~Ahead(c)
  BY <1>3, <1>5 DEF Shift, Same, Back, Behindhand, Ahead
<1>7. ifMtu \in [Sides -> [Conns -> Mtus]] /\ 0 \in Mtus /\ TunnelFitsAt(e, c)
  BY <1>3, MtuFacts DEF Running, DataType, FitInv, TunnelFits
<1>8. \A f \in Sides : f # e => ifMtu'[f][c] = ifMtu[f][c] /\ ifindex'[f][f][c] = ifindex[f][f][c]
  <2>1. ifMtu' = ifMtu \/ ifMtu' = [ifMtu EXCEPT ![e][c] = 0]
    BY <1>0 DEF TunnelStep, Tunnel, TunnelDel
  <2>2. UNCHANGED ifindex \/ \E i : ifindex' = [ifindex EXCEPT ![e][End(c)][c] = i]
    BY <1>0 DEF TunnelStep, Tunnel, TunnelDel, CreatePort, DeleteIf, StoreIf
  <2>3. QED
    BY <1>1, <1>3, <1>7, <2>1, <2>2 DEF IfType
<1> HIDE DEF n
<1>9. TunnelFitsAt(e, c)'
  <2>1. CASE UNCHANGED <<ifMtu, ifindex>> /\ Same(c) /\ hop[c].to = "up"
    <3>1. Passed(hop'[c], n) = Passed(hop[c], n) /\ Spared(hop[c], n) /\ ~Left(hop'[c], n)
      BY <1>3, <2>1 DEF Same, Passed, Spared, Left
    <3>2. QED
      BY <1>1, <1>3, <1>4, <1>7, <2>1, <3>1 DEF TunnelFitsAt, n
  <2>2. CASE UNCHANGED <<ifMtu, ifindex>> /\ Back(c)
    <3>1. ~Passed(hop'[c], n) /\ ~Spared(hop'[c], n) /\ ~Left(hop'[c], n)
      BY <1>3, <2>2 DEF Back, Passed, Spared, Left
    <3>2. QED
      BY <1>1, <1>3, <1>4, <1>7, <2>2, <3>1 DEF TunnelFitsAt, n
  <2>3. CASE UNCHANGED <<ifMtu, ifindex>> /\ Behindhand(c) /\ (MyIf(c) = NoIf \/ Faulty(c, "delete"))
    <3>1. ~Passed(hop'[c], n)
      BY <2>3 DEF Behindhand, Passed
    <3>2. "delete" \notin env.faults[e] => ifMtu[e][c] = 0
      BY <1>0, <1>3, <1>7, <2>3 DEF TunnelFitsAt, Faulty
    <3>3. QED
      BY <1>1, <1>3, <1>4, <1>7, <2>3, <3>1, <3>2 DEF TunnelFitsAt, n
  <2>4. CASE ifMtu' = [ifMtu EXCEPT ![e][c] = 0] /\ ~Ahead(c)
    <3>1. ifMtu'[e][c] = 0
      BY <1>3, <1>7, <2>4
    <3>2. ~Passed(hop'[c], n)
      BY <1>3, <1>5 DEF Same, Back, Behindhand, Passed
    <3>3. QED
      BY <1>1, <1>3, <3>1, <3>2 DEF TunnelFitsAt, n
  <2>5. CASE Tunnel(c)
    <3>1. \/ UNCHANGED <<ifMtu, ifindex>> /\ (Step(c, "set") \/ Fail(c))
          \/ ifMtu' = [ifMtu EXCEPT ![e][c] = 0]
      BY <1>0, <2>5 DEF Tunnel
    <3>2. UNCHANGED <<ifMtu, ifindex>> /\ (Step(c, "set") \/ Fail(c)) =>
             UNCHANGED <<ifMtu, ifindex>> /\ (Same(c) \/ Back(c))
      BY <1>1, <1>2, <2>5, Shifts
    <3>3. QED
      BY <1>2, <1>6, <2>1, <2>2, <2>4, <2>5, <3>1, <3>2
  <2>6. CASE TunnelDel(c)
    <3>1. \/ UNCHANGED <<ifMtu, ifindex>> /\ (MyIf(c) = NoIf \/ Faulty(c, "delete"))
          \/ ifMtu' = [ifMtu EXCEPT ![e][c] = 0]
      BY <1>0, <2>6 DEF TunnelDel
    <3>2. Behindhand(c)
      BY <1>1, <1>2, <2>6, Shifts DEF TunnelDel
    <3>3. QED
      BY <1>6, <2>3, <2>4, <3>1, <3>2
  <2>7. QED
    BY <2>5, <2>6 DEF TunnelStep
<1>10. QED
  BY <1>0, <1>2, <1>4, <1>6, <1>8, <1>9, TunnelOther

(* The MTU of the request becomes that of the tunnel. *)
LEMMA SetUpFits ==
    ASSUME NEW c \in Conns, Running(c), FitInv(c), SetUp(c)
    PROVE  FitInv(c)'
<1>1. HopInv /\ HopOK(c) /\ env' = env /\ AtElement(c) /\ hop[c].to = "up" /\ hop[c].step = "set"
  BY RunningFacts, SetPlace DEF Running, SetUp, Here
<1>2. hop[c].el \in Kernels \cup Tunnels /\ hop[c].el \in 1..5 /\ Kernels \cap Tunnels = {}
  BY <1>1 DEF AtElement, Kernels, Tunnels
<1>3. UNCHANGED <<link, conn, last, hostMtu, known, ifindex>>
  BY DEF SetUp, mtuVars, client, kern, meta
<1>4. Shift(c) /\ ~Same(c) /\ ((setVPPMTU(c) /\ Ahead(c)) \/ (UNCHANGED ifMtu /\ Back(c)))
  <2>1. (setVPPMTU(c) /\ Ahead(c)) \/ (UNCHANGED ifMtu /\ Back(c))
    <3>1. (NextUp(c) => Ahead(c)) /\ (Fail(c) => Back(c))
      BY <1>1, <1>2, Shifts
    <3>2. QED
      BY <3>1 DEF SetUp
  <2>2. QED
    BY <1>2, <2>1 DEF Shift, Same, Ahead, Back
<1>5. At(c) \in Sides /\ Chain[hop[c].el].el = (IF hop[c].el \in Tunnels THEN "tunnel" ELSE "kernel")
  BY <1>2, AtEnd, ChainFacts
<1>6. CASE hop[c].el \in Kernels
  <2>1. UNCHANGED ifMtu
    BY <1>2, <1>4, <1>5, <1>6 DEF setVPPMTU
  <2>2. QED
    BY <1>1, <1>2, <1>3, <1>4, <1>6, <2>1, PassFits
<1>7. CASE hop[c].el \in Tunnels
  <2>0. PICK e \in Sides : e = At(c)
    BY <1>5
  <2> DEFINE n == ElOf(e, e)
  <2>1. e \in Sides /\ End(c) = e /\ e \in Ends /\ hop[c].el = n /\ n \in Int
    BY <1>2, <1>7, <2>0, AtEnd
  <2>2. conn[c].ctx # 0 /\ conn[c].ctx \in Mtus /\ ifMtu \in [Sides -> [Conns -> Mtus]]
    BY <1>1, MtuNumbers DEF FitInv, MtuSoFar, Fits, Running, DataType
  <2>3. CASE setVPPMTU(c) /\ Ahead(c)
    <3>1. ifMtu' = [ifMtu EXCEPT ![e][c] = conn[c].ctx]
      BY <1>5, <1>7, <2>0, <2>2, <2>3 DEF setVPPMTU
    <3>2. ifMtu'[e][c] = conn[c].ctx /\ \A f \in Sides : f # e => ifMtu'[f][c] = ifMtu[f][c]
      BY <2>1, <2>2, <3>1
    <3>3. ifindex[e][e][c] # NoIf
      <4>1. Made(hop[c], n)
        BY <1>1, <2>1 DEF Made
      <4>2. QED
        BY <2>1, <4>1 DEF Running, PortsInv, MadeRight
    <3>4. ~Left(hop'[c], n) /\ ~Spared(hop'[c], n)
      BY <2>1, <2>3 DEF Ahead, Left, Spared
    <3>5. TunnelFitsAt(e, c)'
      BY <1>3, <3>2, <3>3, <3>4 DEF TunnelFitsAt
    <3>6. QED
      BY <1>1, <1>3, <1>4, <1>7, <2>0, <3>2, <3>5, TunnelOther
  <2>4. CASE UNCHANGED ifMtu /\ Back(c)
    <3>1. ~Passed(hop'[c], n) /\ ~Spared(hop'[c], n) /\ ~Left(hop'[c], n)
      BY <2>1, <2>4 DEF Back, Passed, Spared, Left
    <3>2. TunnelFitsAt(e, c)'
      BY <1>1, <1>3, <2>1, <2>4, <3>1 DEF TunnelFitsAt, FitInv, TunnelFits
    <3>3. QED
      BY <1>1, <1>3, <1>4, <1>7, <2>0, <2>4, <3>2, TunnelOther
  <2>5. QED
    BY <1>4, <2>3, <2>4
<1>8. QED
  BY <1>2, <1>6, <1>7

-----------------------------------------------------------------------------
(* Steps of the cross connects *)

(* The last answer grants the MTU that the tunnels have. *)
LEMMA GrantFits ==
    ASSUME NEW c \in Conns, Running(c), FitInv(c), hop[c].to = "up", hop[c].el = 6,
           Answer(c), UNCHANGED <<link, ifindex, ifMtu>>
    PROVE  FitInv(c)'
<1>1. HopInv /\ LastInv /\ env' = env /\ conn[c] \in Conn
  BY MtuNumbers DEF Running, FwdInv
<1>2. /\ hop'[c] = Idle
      /\ last' = [last EXCEPT ![c] = conn[c]]
  BY <1>1, ChainFacts, PosMoves DEF Answer
<1>3. last'[c] = conn[c] /\ last'[c] # None
  BY <1>1, <1>2, ForwardersAssumption DEF LastInv
<1>4. hop'[c] # Asking /\ hop'[c] # Answering /\ hop'[c].to \notin {"up", "down"}
  BY <1>2 DEF Idle, Asking, Answering, Pos
<1>5. Fits(conn[c].ctx)
  BY DEF FitInv, MtuSoFar
<1>6. MtuSoFar(c)'
  BY <1>3, <1>4, <1>5 DEF MtuSoFar, Fits
<1>7. ASSUME NEW e \in Sides PROVE TunnelFitsAt(e, c)'
  <2>1. ElOf(e, e) \in {2, 4}
    BY KernelElement DEF Tunnels
  <2>2. Passed(hop[c], ElOf(e, e)) /\ ~Passed(hop'[c], ElOf(e, e)) /\ ~Left(hop'[c], ElOf(e, e))
    BY <1>4, <2>1 DEF Passed, Left
  <2>3. ifMtu[e][c] = conn[c].ctx /\ TunnelFitsAt(e, c)
    BY <2>2 DEF FitInv, TunnelFits, TunnelFitsAt
  <2>4. conn[c].ctx <= ifMtu[e][c]
    BY <2>3, MtuNumbers DEF Running
  <2>5. QED
    BY <1>1, <1>3, <2>2, <2>3, <2>4 DEF TunnelFitsAt
<1>8. QED
  BY <1>3, <1>6, <1>7 DEF FitInv, TunnelFits, NewPair

(* The answer of the second forwarder. *)
LEMMA AnswerFits ==
    ASSUME NEW c \in Conns, Running(c), FitInv(c), AtXconnect(c), hop[c].to = "up",
           Answer(c), UNCHANGED <<link, ifindex, ifMtu, hostMtu>>
    PROVE  FitInv(c)'
<1>1. HopInv /\ HopOK(c) /\ NoneEarly(c) /\ env' = env /\ known \in [Sides -> SUBSET Conns]
  BY RunningFacts DEF Running, PortsInv, DataType
<1>2. hop[c].el = 3 \/ hop[c].el = 6
  BY DEF AtXconnect, XConnects
<1>3. CASE hop[c].el = 6
  BY <1>3, GrantFits
<1>4. CASE hop[c].el = 3
  <2>1. /\ Ahead(c) /\ UNCHANGED <<conn, last>>
        /\ known' = [known EXCEPT !["server"] = @ \cup {c}]
    <3>1. At(c) = "server"
      BY <1>4 DEF AtXconnect, SideOf
    <3>2. NextUp(c) /\ UNCHANGED <<conn, last>> /\ known' = [known EXCEPT !["server"] = @ \cup {c}]
      BY <1>4, <3>1, ChainFacts DEF Answer, client
    <3>3. QED
      BY <1>1, <1>4, <3>2, Shifts
  <2>2. known'["client"] = known["client"] /\ hop'[c].to = "up" /\ 3 < hop'[c].el /\ ~Same(c) /\ Shift(c)
    BY <1>1, <1>4, <2>1 DEF Sides, Ahead, Same, Shift
  <2>3. hop[c].el \notin Kernels /\ \A e \in Sides : hop[c].el # ElOf(e, e)
    BY <1>4, KernelElement DEF Kernels
  <2>4. MtuSoFar(c)' /\ NewPair(c)'
    BY <1>1, <2>1, <2>2, <2>3, MtuKept, NewPairKept DEF FitInv
  <2>5. ASSUME NEW e \in Sides PROVE TunnelFitsAt(e, c)'
    BY <1>1, <2>1, <2>2, <2>3, <2>5, TunnelKept DEF FitInv, TunnelFits
  <2>6. QED
    BY <2>4, <2>5 DEF FitInv, TunnelFits
<1>5. QED
  BY <1>2, <1>3, <1>4

(* Cross connects have no MTU. *)
LEMMA JoinFits ==
    ASSUME NEW c \in Conns, Running(c), FitInv(c), l2XconnectServer(c) \/ l3XconnectServer(c)
    PROVE  FitInv(c)'
<1>1. HopInv /\ HopOK(c)
  BY RunningFacts
<1>2. PICK calls : XConnect(c, calls) \/ XConnectDel(c, calls)
  BY DEF l2XconnectServer, l3XconnectServer
<1>3. AtXconnect(c) /\ hop[c].to \in {"up", "down"}
  BY <1>1, <1>2, XcPlace DEF XConnect, XConnectDel, AtXconnect
<1>4. hop[c].el \notin Tunnels /\ hop[c].el \notin Kernels /\ hop[c].el \in {3, 6}
  BY <1>3 DEF AtXconnect, XConnects, Tunnels, Kernels
<1>5. UNCHANGED <<link, ifMtu, hostMtu, ifindex>>
  BY <1>2 DEF XConnect, XConnectDel, mtuVars, meta, kern
<1>6. CASE hop[c].to = "up" /\ Answer(c)
  BY <1>3, <1>5, <1>6, AnswerFits
<1>7. CASE UNCHANGED <<conn, last, known>> /\ Shift(c) /\ ~Ahead(c)
  BY <1>3, <1>4, <1>5, <1>7, PassFits
<1>8. CASE XConnect(c, calls)
  <2>1. hop[c].to = "up"
    BY <1>8 DEF XConnect, Here
  <2>2. Answer(c) \/ (UNCHANGED <<conn, last, known>> /\ (NextCall(c) \/ Fail(c)))
    BY <1>8 DEF XConnect, client
  <2>3. NextCall(c) \/ Fail(c) => Same(c) \/ Back(c)
    BY <1>1, <2>1, Shifts
  <2>4. Same(c) \/ Back(c) => Shift(c) /\ ~Ahead(c)
    BY <1>4 DEF Shift, Same, Back, Ahead
  <2>5. QED
    BY <1>6, <1>7, <2>1, <2>2, <2>3, <2>4
<1>9. CASE XConnectDel(c, calls)
  <2>1. hop[c].to = "down" /\ UNCHANGED <<conn, last, known>>
    BY <1>9 DEF XConnectDel, Here, mtuVars, client, meta
  <2>2. Same(c) \/ Behindhand(c)
    BY <1>1, <1>9, <2>1, Shifts DEF XConnectDel
  <2>3. Shift(c) /\ ~Ahead(c)
    BY <2>1, <2>2 DEF Shift, Ahead
  <2>4. QED
    BY <1>7, <2>1, <2>3
<1>10. QED
  BY <1>2, <1>8, <1>9

-----------------------------------------------------------------------------
(* Requests and closes, outside of the elements *)

(* A handler that enters the chain, or stays outside, leaves the tunnels   *)
(* alone.                                                                  *)
LEMMA TunnelOutdoors ==
    ASSUME NEW c \in Conns, TunnelFits(c), hop[c].to \notin {"up", "down"},
           Outdoors(hop'[c]) \/ hop'[c] = Up(1) \/ hop'[c] = Down(6, 7),
           UNCHANGED <<ifMtu, ifindex, last, env>>
    PROVE  TunnelFits(c)'
<1>1. ASSUME NEW e \in Sides PROVE TunnelFitsAt(e, c)'
  <2>1. ElOf(e, e) \in {2, 4}
    BY KernelElement DEF Tunnels
  <2>2. \/ hop'[c].to \notin {"up", "down"}
        \/ hop'[c].to = "up" /\ hop'[c].el = 1
        \/ hop'[c].to = "down" /\ hop'[c].el = 6
    BY OutdoorsFacts DEF Up, Down, Pos
  <2>3. ~Passed(hop'[c], ElOf(e, e)) /\ ~Left(hop'[c], ElOf(e, e)) /\ Spared(hop[c], ElOf(e, e))
    BY <2>1, <2>2 DEF Passed, Left, Spared
  <2>4. TunnelFitsAt(e, c)
    BY DEF TunnelFits
  <2>5. QED
    BY <2>3, <2>4 DEF TunnelFitsAt
<1>2. QED
  BY <1>1 DEF TunnelFits

(* A connection that was not granted finds no interfaces on its way. *)
LEMMA NewPairOutdoors ==
    ASSUME NEW c \in Conns, NewPair(c), NoneEarly(c), hop[c].to \notin {"up", "down"},
           Outdoors(hop'[c]) \/ hop'[c] = Up(1) \/ last[c] # None,
           UNCHANGED <<ifindex, last, env, known>>
    PROVE  NewPair(c)'
<1> SUFFICES ASSUME last[c] = None PROVE NewPair(c)'
  BY DEF NewPair
<1>1. c \notin known["client"] /\ c \notin known["server"]
  BY DEF NewPair
<1>2. \A e \in Sides : KernelIf(e, c) = NoIf
  <2>1. ASSUME NEW e \in Sides PROVE KernelIf(e, c) = NoIf
    <3>1. ~Reached(hop[c], ElOf(e, Other(e))) /\ Other(e) \in Ends /\ c \notin known[e]
      BY <1>1, ElementFacts DEF Reached, Sides
    <3>2. QED
      BY <3>1 DEF NoneEarly, KernelIf
  <2>2. QED
    BY <2>1
<1>3. \/ hop'[c].to \notin {"up", "down"}
      \/ hop'[c].to = "up" /\ hop'[c].el = 1 /\ hop'[c].step \in {"tap", "veth"}
  BY OutdoorsFacts, ChainFacts DEF Up, Pos, Kernels
<1>4. ASSUME NEW e \in Sides PROVE ~PairSet(hop'[c], ElOf(e, Other(e)))
  BY <1>3, KernelElement DEF PairSet, Kernels
<1>5. QED
  BY <1>1, <1>2, <1>4 DEF NewPair, KernelIf

(* A request starts with an MTU that is set; a refresh with the one that   *)
(* was granted.                                                            *)
LEMMA RequestFits ==
    ASSUME NEW c \in Conns, Running(c), FitInv(c), Request(c)
    PROVE  FitInv(c)'
<1>1. HopInv /\ FwdInv /\ NoneEarly(c) /\ env \in Envs /\ env' = env
  BY RunningFacts DEF Running, PortsInv
<1>2. UNCHANGED <<link, last, known, ifMtu, ifindex>> /\ hop[c] = Idle
  BY DEF Request, meta, vpp
<1>3. hop'[c] = Asking /\ Outdoors(hop'[c]) /\ hop[c].to \notin {"up", "down"}
  BY <1>1, <1>2, PosMoves DEF Request, Outdoors, Idle, Pos
<1>4. pc'[c].at = "client"
  BY <1>1 DEF Request, Goto, In, FwdInv, MtuTypeOK
<1>5. /\ conn'[c].ctx # 0
      /\ last[c] # None => conn'[c].ctx = last[c].ctx
  <2>1. PICK r \in IF last[c] = None THEN [mech : {0}, ctx : env.offers] ELSE {last[c]} :
          conn' = [conn EXCEPT ![c] = [r EXCEPT !.ctx = setConnContextMTU(@)]]
    BY DEF Request
  <2>2. r \in [mech : {0}, ctx : env.offers] \cup Conn
    BY <1>1, <2>1, MtuNumbers
  <2>3. conn'[c].ctx = setConnContextMTU(r.ctx)
    <3>1. conn'[c] = [r EXCEPT !.ctx = setConnContextMTU(@)]
      BY <1>1, <2>1 DEF FwdInv, MtuTypeOK
    <3>2. QED
      BY <2>2, <3>1 DEF Conn
  <2>4. Jumbo # 0
    BY ForwardersAssumption
  <2>5. last[c] # None => last[c].ctx # 0
    BY DEF FitInv, MtuSoFar, Fits
  <2>6. QED
    BY <2>1, <2>3, <2>4, <2>5 DEF setConnContextMTU
<1>6. last[c] # None => conn'[c].ctx <= last[c].ctx
  BY <1>1, <1>5, MtuNumbers
<1>7. MtuSoFar(c)'
  <2>1. hop'[c] # Answering /\ hop'[c].to # "up"
    BY <1>3 DEF Asking, Answering, Pos
  <2>2. QED
    BY <1>2, <1>4, <1>5, <1>6, <2>1 DEF FitInv, MtuSoFar, Fits
<1>8. QED
  BY <1>1, <1>2, <1>3, <1>7, TunnelOutdoors, NewPairOutdoors DEF FitInv

(* What is behind lowers the MTU, or the request fails. *)
LEMMA NextHopFits ==
    ASSUME NEW c \in Conns, Running(c), FitInv(c), NextHop(c)
    PROVE  FitInv(c)'
<1>1. HopInv /\ FwdInv /\ NoneEarly(c) /\ env \in Envs /\ env' = env
  BY RunningFacts DEF Running, PortsInv
<1>2. UNCHANGED <<link, last, known, ifMtu, ifindex>> /\ hop[c] = Answering
  BY DEF NextHop, client, meta, vpp
<1>3. hop[c].to \notin {"up", "down"} /\ (hop'[c] = Idle \/ hop'[c] = Up(1))
  BY <1>1, <1>2, PosMoves DEF NextHop, Answering, Pos
<1>4. Outdoors(Idle) /\ Idle # Asking /\ Idle # Answering /\ Idle.to # "up"
      /\ Up(1) # Asking /\ Up(1) # Answering
  BY DEF Outdoors, Idle, Asking, Answering, Pos, Up
<1>5. hop'[c] # Idle => /\ Fits(conn'[c].ctx)
                        /\ last[c] # None => conn'[c].ctx <= last[c].ctx
  <2> SUFFICES ASSUME hop'[c] # Idle
               PROVE  Fits(conn'[c].ctx) /\ (last[c] # None => conn'[c].ctx <= last[c].ctx)
    OBVIOUS
  <2>1. PICK b \in env.behind : conn' = [conn EXCEPT ![c].ctx = Lower(@, b)]
    BY <1>1, PosMoves DEF NextHop
  <2>2. b \in Mtus \ {0}
    BY <1>1, ForwardersAssumption
  <2>3. conn'[c].ctx = Lower(conn[c].ctx, b)
    <3>1. conn \in [Conns -> Conn] /\ conn[c] \in Conn
      BY <1>1 DEF FwdInv, MtuTypeOK
    <3>2. QED
      BY <2>1, <3>1 DEF Conn
  <2>4. Fits(conn[c].ctx) /\ (last[c] # None => conn[c].ctx <= last[c].ctx)
    BY <1>2 DEF FitInv, MtuSoFar
  <2> DEFINE m == conn[c].ctx
             k == conn'[c].ctx
             l == last[c].ctx
  <2>5. m \in Int /\ m > 0 /\ b \in Int /\ b > 0 /\ (last[c] # None => l \in Int)
    BY <1>1, <2>2, <2>4, MtuNumbers DEF Fits
  <2>6. k > 0 /\ k <= m /\ k \in Int
    BY <2>3, <2>5, LowerFacts DEF Lower
  <2>7. Overhead \in Int /\ \A e \in Sides : link[e] \in Int /\ m + Overhead <= link[e]
    BY <1>1, <2>4, MtuNumbers DEF Fits
  <2> HIDE DEF m, k, l
  <2>8. k # 0 /\ \A e \in Sides : k + Overhead <= link[e]
    BY <2>5, <2>6, <2>7
  <2>9. last[c] # None => k <= l
    BY <2>4, <2>5, <2>6 DEF m, l
  <2>10. QED
    BY <2>8, <2>9 DEF k, l, Fits
<1>6. MtuSoFar(c)'
  BY <1>2, <1>3, <1>4, <1>5 DEF FitInv, MtuSoFar, Fits
<1>7. QED
  BY <1>1, <1>2, <1>3, <1>4, <1>6, TunnelOutdoors, NewPairOutdoors DEF FitInv

(* A close starts. *)
LEMMA CloseFits ==
    ASSUME NEW c \in Conns, Running(c), FitInv(c), Close(c)
    PROVE  FitInv(c)'
<1>1. HopInv /\ NoneEarly(c) /\ env' = env
  BY RunningFacts DEF Running, PortsInv
<1>2. UNCHANGED <<link, last, known, ifMtu, ifindex>> /\ hop[c] = Idle /\ last[c] # None
  BY DEF Close, mtuVars, meta, vpp
<1>3. hop'[c] = Down(6, 7) /\ hop[c].to \notin {"up", "down"}
  BY <1>1, <1>2, ChainFacts, PosMoves DEF Close, Idle, Pos
<1>4. hop'[c] # Asking /\ hop'[c] # Answering /\ hop'[c].to # "up"
  BY <1>3 DEF Asking, Answering, Pos, Down
<1>5. MtuSoFar(c)'
  BY <1>2, <1>4 DEF FitInv, MtuSoFar, Fits
<1>6. QED
  BY <1>1, <1>2, <1>3, <1>5, TunnelOutdoors, NewPairOutdoors DEF FitInv

(* The mtu elements leave an MTU that fits both links. *)
LEMMA AskMtuFits ==
    ASSUME NEW c \in Conns, Running(c), FitInv(c), MtuInv, LinkKnown, AskMtu(c)
    PROVE  FitInv(c)'
<1>1. HopInv /\ FwdInv /\ NoneEarly(c) /\ env' = env
  BY RunningFacts DEF Running, PortsInv
<1>2. UNCHANGED <<link, last, known, ifMtu, ifindex>> /\ hop[c] = Asking
  BY DEF AskMtu, client, meta, vpp, InitStep, InitLoad, InitLock, InitCheck, InitStore, InitUnlock,
         InitFailed, ClientClamp, ServerClamp
<1>3. /\ hop'[c] = IF pc'[c] # Away THEN Asking ELSE IF conn'[c] = NoConn THEN Idle ELSE Answering
      /\ hop[c].to \notin {"up", "down"} /\ Outdoors(hop'[c])
  BY <1>1, <1>2, PosMoves DEF AskMtu, Asking, Pos, Outdoors
<1>4. /\ Idle # Asking /\ Idle # Answering /\ Asking # Answering
      /\ Idle.to # "up" /\ Asking.to # "up" /\ Answering.to # "up"
  BY DEF Idle, Asking, Answering, Pos
<1>5. /\ pc \in [Conns -> Places] /\ conn \in [Conns -> Conn] /\ conn[c] \in Conn
      /\ \A e \in Sides : \A s : In(e, s) # Away /\ In(e, s).at = e
  <2>1. ASSUME NEW e \in Sides, NEW s PROVE In(e, s) # Away /\ In(e, s).at = e
    BY DEF In, Away, Sides
  <2>2. pc \in [Conns -> Places] /\ conn \in [Conns -> Conn] /\ conn[c] \in Conn
    BY <1>1 DEF FwdInv, MtuTypeOK
  <2>3. QED
    BY <2>1, <2>2
<1>6. /\ conn[c].ctx # 0
      /\ pc[c].at = "server" => conn[c].mech # 0 /\ conn[c].mech + Overhead <= link["client"]
      /\ last[c] # None => Fits(last[c].ctx) /\ conn[c].ctx <= last[c].ctx
  BY <1>2 DEF FitInv, MtuSoFar
<1>7. SUFFICES MtuSoFar(c)'
  BY <1>1, <1>2, <1>3, <1>7, TunnelOutdoors, NewPairOutdoors DEF FitInv
<1>8. CASE hop'[c] = Idle
  BY <1>2, <1>4, <1>6, <1>8 DEF MtuSoFar, Fits
<1>9. ASSUME NEW e \in Sides, InitStep(e, c), hop'[c] # Idle PROVE MtuSoFar(c)'
  <2>1. ~InitFailed(e, c)
    <3>1. InitFailed(e, c) => pc'[c] = Away /\ conn'[c] = NoConn
      BY <1>5 DEF InitFailed, Goto
    <3>2. QED
      BY <1>3, <1>9, <3>1
  <2>2. pc[c].at = e /\ UNCHANGED conn /\ \E s : Goto(c, In(e, s))
    BY <1>5, <1>9, <2>1 DEF InitStep, InitLoad, InitLock, InitCheck, InitStore, InitUnlock
  <2>3. pc'[c].at = e /\ pc'[c] # Away
    BY <1>5, <2>2 DEF Goto
  <2>4. hop'[c] = Asking
    BY <1>3, <2>3
  <2>5. QED
    BY <1>2, <1>4, <1>6, <2>2, <2>3, <2>4 DEF MtuSoFar, Fits
<1>10. CASE ClientClamp(c)
  <2>1. pc[c] = In("client", "clamp") /\ pc'[c] = In("server", "load") /\ "client" \in Sides /\ "server" \in Sides
    BY <1>5, <1>10 DEF ClientClamp, Goto, Sides
  <2>2. mtu["client"] \in Mtus /\ mtu["client"] # 0 /\ mtu["client"] + Overhead = link["client"]
    BY <1>1, <2>1, ClampRight
  <2>3. conn'[c].ctx = conn[c].ctx /\ conn'[c].mech = Lower(conn[c].mech, mtu["client"])
    BY <1>5, <1>10 DEF ClientClamp, Conn
  <2>4. conn'[c].mech # 0 /\ conn'[c].mech + Overhead <= link["client"]
    <3> DEFINE k == conn'[c].mech
    <3>1. conn[c].mech \in Int /\ conn[c].mech >= 0 /\ mtu["client"] \in Int /\ mtu["client"] > 0
      BY <1>1, <2>2, MtuNumbers
    <3>2. k > 0 /\ k <= mtu["client"] /\ k \in Int /\ Overhead \in Int
      BY <1>1, <2>3, <3>1, LowerFacts, MtuNumbers DEF Lower
    <3> HIDE DEF k
    <3>3. k # 0 /\ k + Overhead <= link["client"]
      BY <2>2, <3>1, <3>2
    <3>4. QED
      BY <3>3 DEF k
  <2>5. hop'[c] = Asking
    BY <1>3, <1>5, <2>1
  <2>6. QED
    BY <1>2, <1>4, <1>6, <2>3, <2>4, <2>5 DEF MtuSoFar, Fits
<1>11. CASE ServerClamp(c)
  <2> DEFINE s == mtu["server"]
             old == conn[c].mech
             x == conn[c].ctx
             m == Lower(old, s)
             k == conn'[c].ctx
             l == last[c].ctx
  <2>1. pc[c] = In("server", "clamp") /\ pc'[c] = Away /\ "client" \in Sides /\ "server" \in Sides
    BY <1>5, <1>11 DEF ServerClamp, Goto, Sides
  <2>2. s \in Mtus /\ s # 0 /\ s + Overhead = link["server"]
    BY <1>1, <2>1, ClampRight
  <2>3. k = Lower(x, m)
    BY <1>5, <1>11 DEF ServerClamp
  <2>4. old # 0 /\ old + Overhead <= link["client"]
    BY <1>5, <1>6, <2>1
  <2>5. /\ s \in Int /\ s > 0 /\ old \in Int /\ old > 0 /\ x \in Int /\ x > 0 /\ Overhead \in Int
        /\ link["client"] \in Int /\ link["server"] \in Int /\ (last[c] # None => l \in Int)
    BY <1>1, <1>6, <2>1, <2>2, <2>4, MtuNumbers
  <2>6. m > 0 /\ m <= s /\ m <= old /\ m \in Int
    BY <2>5, LowerFacts DEF Lower
  <2>7. k > 0 /\ k <= m /\ k <= x /\ k \in Int
    <3> HIDE DEF m
    <3>1. QED
      BY <2>3, <2>5, <2>6, LowerFacts DEF Lower
  <2>8. k + Overhead <= link["server"] /\ k + Overhead <= link["client"] /\ k # 0
    <3> HIDE DEF m, k, s, old
    <3>1. QED
      BY <2>2, <2>4, <2>5, <2>6, <2>7
  <2>9. Fits(k)
    BY <2>8 DEF Fits, Sides
  <2>10. last[c] # None => k <= l
    <3>1. last[c] # None => x <= l
      BY <1>6
    <3> HIDE DEF x, k, l
    <3>2. QED
      BY <2>5, <2>7, <3>1
  <2>11. hop'[c] = Answering
    <3>1. conn'[c] # NoConn
      BY <2>8 DEF NoConn
    <3>2. QED
      BY <1>3, <2>1, <3>1
  <2>12. QED
    BY <1>2, <1>4, <1>6, <2>9, <2>10, <2>11 DEF MtuSoFar, Fits
<1>12. QED
  BY <1>8, <1>9, <1>10, <1>11 DEF AskMtu

(* The metadata that is dropped is that of tunnels without an MTU. *)
LEMMA FinishFits ==
    ASSUME NEW c \in Conns, Running(c), FitInv(c), Finish(c)
    PROVE  FitInv(c)'
<1>1. HopInv /\ FwdInv /\ NoneEarly(c) /\ env' = env /\ IfType /\ DataType
  BY RunningFacts DEF Running, PortsInv
<1>2. /\ hop[c].to = "down" /\ hop[c].el = 0 /\ hop[c].from \in 1..7
  <2>1. DownOK(hop[c]) /\ hop[c].to = "down" /\ hop[c].step = "finish"
    BY RunningFacts DEF Finish, Here, HopOK, Idle, Asking, Answering, Pos
  <2>2. QED
    BY <2>1 DEF DownOK, Kernels, Tunnels, XConnects, VethDown
<1>3. /\ UNCHANGED <<link, ifMtu, hostMtu>> /\ hop'[c] = Idle
      /\ last' = IF hop[c].from > 6 THEN [last EXCEPT ![c] = None] ELSE last
  BY <1>1, ChainFacts, PosMoves DEF Finish, kern, vpp
<1>4. /\ last'[c] = IF hop[c].from > 6 THEN None ELSE last[c]
      /\ hop'[c] # Asking /\ hop'[c] # Answering /\ hop'[c].to \notin {"up", "down"}
  BY <1>1, <1>3 DEF FwdInv, LastInv, Idle, Asking, Answering, Pos
<1>5. MtuSoFar(c)'
  BY <1>3, <1>4 DEF FitInv, MtuSoFar, Fits
<1>6. ASSUME NEW e \in Sides PROVE TunnelFitsAt(e, c)'
  <2> DEFINE n == ElOf(e, e)
  <2>1. n \in Int /\ e \in Ends /\ n = (IF e = "server" THEN 2 ELSE 4)
    BY KernelElement, ElementFacts
  <2>2. ifindex'[e][e][c] = IF Drop(c, e) THEN NoIf ELSE ifindex[e][e][c]
    BY <1>1, <2>1 DEF Finish, IfType
  <2>3. TunnelFitsAt(e, c)
    BY DEF FitInv, TunnelFits
  <2>4. ~Passed(hop'[c], n) /\ ~Left(hop'[c], n)
    BY <1>4 DEF Passed, Left
  <2>5. CASE n <= hop[c].from
    <3>1. Left(hop[c], n)
      BY <1>2, <2>1, <2>5 DEF Left
    <3>2. "delete" \notin env.faults[e] => ifMtu[e][c] = 0
      BY <2>3, <3>1 DEF TunnelFitsAt
    <3>3. QED
      BY <1>1, <1>3, <2>4, <3>2 DEF TunnelFitsAt
  <2>6. CASE ~(n <= hop[c].from)
    <3>1. Spared(hop[c], n) /\ ~(hop[c].from > 6) /\ ~Reached(hop[c], n)
      BY <1>2, <2>1, <2>6 DEF Spared, Reached
    <3>2. Drop(c, e) => c \notin known[e]
      BY <1>2, <2>1, <2>6, ChainFacts DEF Drop
    <3>3. Drop(c, e) => ifindex[e][e][c] = NoIf
      BY <1>1, <2>1, <3>1, <3>2 DEF NoneEarly
    <3>4. ifindex'[e][e][c] = ifindex[e][e][c] /\ last'[c] = last[c]
      BY <1>4, <2>2, <3>1, <3>3
    <3>5. QED
      BY <1>1, <1>3, <2>3, <2>4, <3>1, <3>4 DEF TunnelFitsAt
  <2>7. QED
    BY <2>5, <2>6
<1>7. NewPair(c)'
  <2> SUFFICES ASSUME last'[c] = None PROVE NewPair(c)'
    BY DEF NewPair
  <2>1. known' = [e \in Sides |-> IF Drop(c, e) THEN known[e] \ {c} ELSE known[e]]
        /\ "client" \in Sides /\ "server" \in Sides
    BY DEF Finish, Sides
  <2>2. hop[c].from > 6 => Drop(c, "client") /\ Drop(c, "server")
    BY <1>2, ChainFacts DEF Drop
  <2>3. ~(hop[c].from > 6) => c \notin known["client"] /\ (c \in known["server"] => Drop(c, "server"))
    BY <1>2, <1>4 DEF FitInv, NewPair, Drop
  <2>4. c \notin known'["client"] /\ c \notin known'["server"]
    BY <2>1, <2>2, <2>3
  <2>5. QED
    BY <1>4, <2>4 DEF NewPair, PairSet
<1>8. QED
  BY <1>5, <1>6, <1>7 DEF FitInv, TunnelFits

-----------------------------------------------------------------------------
(* What a step of one connection leaves of the MTUs of another *)

Aside(d) ==
    /\ UNCHANGED <<link, env>>
    /\ hop'[d] = hop[d] /\ conn'[d] = conn[d] /\ last'[d] = last[d] /\ pc'[d] = pc[d]
    /\ \A e \in Sides :
          /\ d \in known'[e] <=> d \in known[e]
          /\ ifMtu'[e][d] = ifMtu[e][d] /\ hostMtu'[e][d] = hostMtu[e][d]
          /\ \A x \in Ends : ifindex'[e][x][d] = ifindex[e][x][d]

(* What is left alone fits as before. *)
LEMMA AsideFits ==
    ASSUME NEW d \in Conns, FitInv(d), Aside(d)
    PROVE  FitInv(d)'
<1>1. MtuSoFar(d)'
  BY DEF FitInv, MtuSoFar, Aside, Fits
<1>2. ASSUME NEW e \in Sides PROVE TunnelFitsAt(e, d)'
  <2>1. TunnelFitsAt(e, d) /\ e \in Ends
    BY ElementFacts DEF FitInv, TunnelFits
  <2>2. QED
    BY <2>1 DEF TunnelFitsAt, Aside
<1>3. NewPair(d)'
  <2>1. \A e \in Sides : Other(e) \in Ends /\ KernelIf(e, d)' = KernelIf(e, d)
    BY ElementFacts DEF Aside, KernelIf
  <2>2. "client" \in Sides /\ "server" \in Sides /\ NewPair(d)
    BY DEF Sides, FitInv
  <2>3. QED
    BY <2>1, <2>2 DEF NewPair, Aside
<1>4. QED
  BY <1>1, <1>2, <1>3 DEF FitInv, TunnelFits

(* The MTUs of c, if any, are what a step of c changes. *)
Own(c) == /\ UNCHANGED link
          /\ conn' = conn \/ \E r : conn' = [conn EXCEPT ![c] = r]
          /\ last' = last \/ \E r : last' = [last EXCEPT ![c] = r]
          /\ pc' = pc \/ \E p : pc' = [pc EXCEPT ![c] = p]
          /\ ifMtu' = ifMtu \/ \E m : ifMtu' = [ifMtu EXCEPT ![At(c)][c] = m]
          /\ hostMtu' = hostMtu \/ \E m : hostMtu' = [hostMtu EXCEPT ![At(c)][c] = m]

(* The steps of the interfaces. *)
LEMMA InterfacesOwn ==
    ASSUME NEW c \in Conns, Running(c), Kernel(c) \/ TunnelStep(c) \/ SetUp(c)
    PROVE  Own(c)
<1>1. UNCHANGED <<link, conn, pc, last>>
  BY InterfacesQuiet, RunningFacts DEF Quiet, mtuVars
<1>2. CASE Kernel(c)
  <2>1. UNCHANGED ifMtu
    BY <1>2 DEF Kernel, kernelTapServer, kernelTapClient, kernelVethPairServer, kernelVethPairClient,
         vethMtuServer, vethMtuClient, afPacketServer, afPacketClient, ipNeighborServer, ipNeighborClient,
         TapStep, TapCheck, TapCreate, TapSetup, TapDel, VethStep, Veth, VethDel, VethMtu,
         AfPacketStep, AfPacket, AfPacketDel, NeighborStep, Neighbor, NeighborDel, vpp
  <2>2. hostMtu' = hostMtu \/ \E m : hostMtu' = [hostMtu EXCEPT ![At(c)][c] = m]
    BY <1>2 DEF Kernel, kernelTapServer, kernelTapClient, kernelVethPairServer, kernelVethPairClient,
         vethMtuServer, vethMtuClient, afPacketServer, afPacketClient, ipNeighborServer, ipNeighborClient,
         TapStep, TapCheck, TapCreate, TapSetup, TapDel, VethStep, Veth, VethDel, VethMtu,
         AfPacketStep, AfPacket, AfPacketDel, NeighborStep, Neighbor, NeighborDel, kern, VethCreated, VethFails
  <2>3. QED
    BY <1>1, <2>1, <2>2 DEF Own
<1>3. CASE TunnelStep(c) \/ SetUp(c)
  <2>1. UNCHANGED hostMtu
    BY <1>3 DEF TunnelStep, Tunnel, TunnelDel, SetUp, kern
  <2>2. ifMtu' = ifMtu \/ \E m : ifMtu' = [ifMtu EXCEPT ![At(c)][c] = m]
    BY <1>3 DEF TunnelStep, Tunnel, TunnelDel, SetUp, setVPPMTU
  <2>3. QED
    BY <1>1, <2>1, <2>2 DEF Own
<1>4. QED
  BY <1>2, <1>3

(* The steps of requests, closes and cross connects. *)
LEMMA ChainOwn ==
    ASSUME NEW c \in Conns, Running(c),
           \/ Request(c) \/ AskMtu(c) \/ NextHop(c) \/ Close(c) \/ l2XconnectServer(c) \/ l3XconnectServer(c)
           \/ Finish(c) \/ \E e \in Sides : HostLost(e, c)
    PROVE  Own(c)
<1>0. conn \in [Conns -> Conn]
  BY DEF Running, FwdInv, MtuTypeOK
<1>1. CASE AskMtu(c)
  <2>1. UNCHANGED <<link, last, ifMtu, hostMtu>> /\ \E p : pc' = [pc EXCEPT ![c] = p]
    BY <1>1 DEF AskMtu, client, kern, vpp, InitStep, InitLoad, InitLock, InitCheck, InitStore, InitUnlock,
         InitFailed, ClientClamp, ServerClamp, Goto
  <2>2. conn' = conn \/ \E r : conn' = [conn EXCEPT ![c] = r]
    <3>1. CASE \E e \in Sides : InitStep(e, c)
      BY <3>1 DEF InitStep, InitLoad, InitLock, InitCheck, InitStore, InitUnlock, InitFailed
    <3>2. CASE ClientClamp(c)
      BY <3>2 DEF ClientClamp
    <3>3. CASE ServerClamp(c)
      BY <3>3 DEF ServerClamp
    <3>4. QED
      BY <1>1, <3>1, <3>2, <3>3 DEF AskMtu
  <2>3. QED
    BY <2>1, <2>2 DEF Own
<1>2. CASE NextHop(c)
  <2>1. UNCHANGED <<link, pc, last, ifMtu, hostMtu>>
    BY <1>2 DEF NextHop, client, kern, vpp
  <2>2. \E r : conn' = [conn EXCEPT ![c] = r]
    BY <1>2 DEF NextHop
  <2>3. QED
    BY <2>1, <2>2 DEF Own
<1>3. CASE Request(c) \/ Close(c) \/ Finish(c) \/ \E e \in Sides : HostLost(e, c)
  <2>1. UNCHANGED <<link, ifMtu, hostMtu>>
    BY <1>3 DEF Request, Close, Finish, HostLost, mtuVars, kern, vpp
  <2>2. last' = last \/ last' = [last EXCEPT ![c] = None]
    BY <1>3 DEF Request, Close, Finish, HostLost, client
  <2>3. pc' = pc \/ \E p : pc' = [pc EXCEPT ![c] = p]
    BY <1>3 DEF Request, Close, Finish, HostLost, mtuVars, Goto
  <2>4. conn' = conn \/ \E r : conn' = [conn EXCEPT ![c] = r]
    BY <1>3 DEF Request, Close, Finish, HostLost, mtuVars
  <2>5. QED
    BY <2>1, <2>2, <2>3, <2>4 DEF Own
<1>4. CASE l2XconnectServer(c) \/ l3XconnectServer(c)
  <2>1. PICK calls : XConnect(c, calls) \/ XConnectDel(c, calls)
    BY <1>4 DEF l2XconnectServer, l3XconnectServer
  <2>2. UNCHANGED <<link, pc, ifMtu, hostMtu>>
    BY <2>1 DEF XConnect, XConnectDel, mtuVars, kern
  <2>3. Answer(c) \/ UNCHANGED <<conn, last>>
    BY <2>1 DEF XConnect, XConnectDel, mtuVars, client
  <2>4. Answer(c) => \/ UNCHANGED <<conn, last>>
                     \/ conn' = [conn EXCEPT ![c] = NoConn] /\ last' = [last EXCEPT ![c] = conn[c]]
    BY DEF Answer, client
  <2>5. QED
    BY <2>2, <2>3, <2>4 DEF Own
<1>5. QED
  BY <1>1, <1>2, <1>3, <1>4

(* Every step leaves the MTUs of the other connections alone. *)
LEMMA OthersAside ==
    ASSUME NEW c \in Conns, Running(c), NEW d \in Conns \ {c},
           Request(c) \/ Handle(c) \/ Close(c) \/ \E e \in Sides : HostLost(e, c)
    PROVE  Aside(d)
<1>1. Untouched(d)
  BY HandlerInv DEF StepInv
<1>2. Own(c)
  BY InterfacesOwn, ChainOwn DEF Handle, vxlanServer, vxlanClient, mtuServer, mtuClient
<1>3. /\ conn \in [Conns -> Conn] /\ last \in [Conns -> Conn \cup {None}] /\ pc \in [Conns -> Places]
      /\ ifMtu \in [Sides -> [Conns -> Mtus]] /\ hostMtu \in [Sides -> [Conns -> Mtus]]
  BY DEF Running, FwdInv, MtuTypeOK, LastInv, DataType
<1>4. conn'[d] = conn[d] /\ last'[d] = last[d] /\ pc'[d] = pc[d]
  BY <1>2, <1>3 DEF Own
<1>5. \A e \in Sides : ifMtu'[e][d] = ifMtu[e][d] /\ hostMtu'[e][d] = hostMtu[e][d]
  <2>1. \A e \in Sides : ifMtu'[e][d] = ifMtu[e][d]
    BY <1>2, <1>3 DEF Own
  <2>2. \A e \in Sides : hostMtu'[e][d] = hostMtu[e][d]
    BY <1>2, <1>3 DEF Own
  <2>3. QED
    BY <2>1, <2>2
<1>6. QED
  BY <1>1, <1>2, <1>4, <1>5 DEF Aside, Untouched, Own, Running

-----------------------------------------------------------------------------
(* The invariant of the MTUs is inductive *)

(* Every step of a handler leaves its own MTUs right. *)
LEMMA HandlerFits ==
    ASSUME NEW c \in Conns, Running(c), FitInv(c), MtuInv, LinkKnown,
           Request(c) \/ Handle(c) \/ Close(c) \/ \E e \in Sides : HostLost(e, c)
    PROVE  FitInv(c)'
<1>1. CASE Kernel(c)
  BY <1>1, TapFits, VethUpFits, VethDownFits
     DEF Kernel, kernelTapServer, kernelTapClient, kernelVethPairServer, kernelVethPairClient,
         vethMtuServer, vethMtuClient, afPacketServer, afPacketClient,
         ipNeighborServer, ipNeighborClient, VethStep, AfPacketStep, NeighborStep
<1>2. CASE \E e \in Sides : HostLost(e, c)
  <2>1. Aside(c)
    BY <1>2 DEF HostLost, Aside, Running, mtuVars, client, meta, kern
  <2>2. QED
    BY <2>1, AsideFits
<1>3. CASE \/ Request(c) \/ AskMtu(c) \/ NextHop(c) \/ Close(c) \/ TunnelStep(c) \/ SetUp(c)
           \/ l2XconnectServer(c) \/ l3XconnectServer(c) \/ Finish(c)
  BY <1>3, RequestFits, AskMtuFits, NextHopFits, CloseFits, TunnelStepFits, SetUpFits, JoinFits, FinishFits
<1>4. QED
  BY <1>1, <1>2, <1>3 DEF Handle, vxlanServer, vxlanClient, mtuServer, mtuClient

(* Every step preserves the invariant. *)
LEMMA NextMtuIInv == MtuIInv /\ [Next]_vars => MtuIInv'
<1> SUFFICES ASSUME MtuIInv, [Next]_vars PROVE MtuIInv'
  OBVIOUS
<1>1. IInv'
  BY NextIInv DEF MtuIInv
<1>2. MtuInv' /\ LinkKnown'
  BY FwdStep, MtuNextInv, LinkKnownNext DEF MtuIInv, IInv
<1>3. ASSUME NEW d \in Conns PROVE FitInv(d)'
  <2>1. CASE UNCHANGED vars
    <3>1. Aside(d)
      BY <2>1 DEF vars, Aside, mtuVars, client, meta, kern, vpp
    <3>2. QED
      BY <3>1, AsideFits DEF MtuIInv
  <2>2. CASE Next
    <3>1. PICK c \in env.conns : Request(c) \/ Handle(c) \/ Close(c) \/ \E e \in Sides : HostLost(e, c)
      BY <2>2 DEF Next
    <3>2. c \in Conns /\ Running(c)
      BY <2>2, EnvFacts DEF MtuIInv, IInv, FwdInv, Next, Running
    <3>3. QED
      BY <3>1, <3>2, HandlerFits, OthersAside, AsideFits DEF MtuIInv
  <2>3. QED
    BY <2>1, <2>2
<1>4. QED
  BY <1>1, <1>2, <1>3 DEF MtuIInv

(* The invariant holds at the start. *)
LEMMA InitMtuIInv == Init => MtuIInv
<1> SUFFICES ASSUME Init PROVE MtuIInv
  OBVIOUS
<1>1. IInv /\ MtuInv
  BY InitIInv, MtuInitInv DEF Init
<1>2. LinkKnown
  BY DEF Init, MtuInit, LinkKnown, In, Away
<1>3. ASSUME NEW c \in Conns PROVE FitInv(c)
  <2>1. /\ hop[c] = Idle /\ last[c] = None
        /\ \A e \in Sides : ifMtu[e][c] = 0 /\ c \notin known[e]
    BY DEF Init
  <2>2. hop[c] # Asking /\ hop[c] # Answering /\ hop[c].to \notin {"up", "down"}
    BY <2>1 DEF Idle, Asking, Answering, Pos
  <2>3. QED
    BY <2>1, <2>2 DEF FitInv, MtuSoFar, TunnelFits, TunnelFitsAt, Passed, Left, NewPair, PairSet, Sides
<1>4. QED
  BY <1>1, <1>2, <1>3 DEF MtuIInv

(* The invariant holds in every state of every behaviour. *)
LEMMA SpecMtuIInv == Spec => []MtuIInv
BY InitMtuIInv, NextMtuIInv, PTL DEF Spec

-----------------------------------------------------------------------------
(* What is granted fits *)

(* A request that succeeds leaves the same MTU on both tunnels, and on a   *)
(* new veth pair, and it fits the links.                                   *)
LEMMA GrantedMtu ==
    ASSUME NEW c \in Conns, Running(c), FitInv(c), Answer(c), Here(c, "up", "xc"),
           c \notin granted, c \in granted'
    PROVE  /\ ifMtu["client"][c] # 0
           /\ ifMtu["client"][c] = ifMtu["server"][c]
           /\ \A e \in Sides : ifMtu[e][c] + Overhead <= link[e]
           /\ \A e \in Sides : env.kernel[e] = "veth" /\ last[c] = None => hostMtu[e][c] = ifMtu[e][c]
<1>1. hop[c].el = 6 /\ hop[c].to = "up"
  BY ChainFacts DEF Answer, client, Here
<1>2. Fits(conn[c].ctx)
  BY <1>1 DEF FitInv, MtuSoFar
<1>3. ASSUME NEW e \in Sides PROVE ifMtu[e][c] = conn[c].ctx
  <2>1. Passed(hop[c], ElOf(e, e))
    BY <1>1, KernelElement DEF Passed
  <2>2. QED
    BY <2>1 DEF FitInv, TunnelFits, TunnelFitsAt
<1>4. ASSUME NEW e \in Sides, env.kernel[e] = "veth", last[c] = None PROVE hostMtu[e][c] = conn[c].ctx
  <2>1. PairSet(hop[c], ElOf(e, Other(e)))
    BY <1>1, KernelElement DEF PairSet
  <2>2. QED
    BY <1>4, <2>1 DEF FitInv, NewPair
<1>5. "client" \in Sides /\ "server" \in Sides
  BY DEF Sides
<1>6. QED
  BY <1>2, <1>3, <1>4, <1>5 DEF Fits

(* The MTU of a tunnel changes when it is made or deleted, and when it is  *)
(* set.                                                                    *)
LEMMA MtuChanges ==
    ASSUME NEW c \in Conns, Running(c),
           Request(c) \/ Handle(c) \/ Close(c) \/ \E e \in Sides : HostLost(e, c)
    PROVE  ifMtu' = ifMtu \/ ifMtu' = [ifMtu EXCEPT ![At(c)][c] = 0] \/ SetUp(c)
<1>1. CASE Kernel(c)
  BY <1>1 DEF Kernel, kernelTapServer, kernelTapClient, kernelVethPairServer, kernelVethPairClient,
         vethMtuServer, vethMtuClient, afPacketServer, afPacketClient, ipNeighborServer, ipNeighborClient,
         TapStep, TapCheck, TapCreate, TapSetup, TapDel, VethStep, Veth, VethDel, VethMtu,
         AfPacketStep, AfPacket, AfPacketDel, NeighborStep, Neighbor, NeighborDel, vpp
<1>2. CASE TunnelStep(c)
  BY <1>2 DEF TunnelStep, Tunnel, TunnelDel
<1>3. CASE \/ Request(c) \/ AskMtu(c) \/ NextHop(c) \/ Close(c) \/ Finish(c)
           \/ \E e \in Sides : HostLost(e, c)
  BY <1>3 DEF Request, AskMtu, NextHop, Close, Finish, HostLost, vpp
<1>4. CASE l2XconnectServer(c) \/ l3XconnectServer(c)
  BY <1>4 DEF l2XconnectServer, l3XconnectServer, XConnect, XConnectDel
<1>5. QED
  BY <1>1, <1>2, <1>3, <1>4 DEF Handle, vxlanServer, vxlanClient, mtuServer, mtuClient

(* No step of its handler raises the MTU of a tunnel in use, where         *)
(* deletions do not fail.                                                  *)
LEMMA NeverRaised ==
    ASSUME NEW c \in Conns, Running(c), FitInv(c),
           Request(c) \/ Handle(c) \/ Close(c) \/ \E e \in Sides : HostLost(e, c),
           NEW e \in Sides, ifMtu[e][c] # 0, "delete" \notin env.faults[e]
    PROVE  ifMtu'[e][c] <= ifMtu[e][c]
<1>1. /\ ifMtu \in [Sides -> [Conns -> Mtus]] /\ ifMtu[e][c] \in Int /\ ifMtu[e][c] >= 0
      /\ conn[c].ctx \in Int /\ (last[c] # None => last[c].ctx \in Int)
  BY MtuNumbers DEF Running, DataType
<1>2. CASE ifMtu' = ifMtu
  BY <1>1, <1>2
<1>3. CASE ifMtu' = [ifMtu EXCEPT ![At(c)][c] = 0]
  <2>1. ifMtu'[e][c] = ifMtu[e][c] \/ ifMtu'[e][c] = 0
    BY <1>1, <1>3
  <2>2. QED
    BY <1>1, <2>1
<1>4. CASE SetUp(c) /\ ifMtu' # ifMtu
  <2>1. HopInv /\ HopOK(c) /\ AtElement(c) /\ hop[c].to = "up" /\ hop[c].step = "set"
    BY <1>4, RunningFacts, SetPlace DEF Running, SetUp, Here
  <2>2. ifMtu' = [ifMtu EXCEPT ![At(c)][c] = conn[c].ctx] /\ Chain[hop[c].el].el = "tunnel"
    BY <1>4 DEF SetUp, setVPPMTU
  <2>3. hop[c].el \in Tunnels
    BY <2>1, <2>2, AtEnd, ChainFacts DEF AtElement
  <2>4. CASE e = At(c)
    <3>1. ElOf(e, e) = hop[c].el /\ hop[c].el \in Int
      BY <2>3, <2>4, AtEnd
    <3>2. Spared(hop[c], ElOf(e, e))
      BY <2>1, <3>1 DEF Spared
    <3>3. last[c] # None /\ last[c].ctx <= ifMtu[e][c]
      BY <3>2 DEF FitInv, TunnelFits, TunnelFitsAt
    <3>4. conn[c].ctx <= last[c].ctx
      BY <2>1, <3>3 DEF FitInv, MtuSoFar
    <3>5. ifMtu'[e][c] = conn[c].ctx
      BY <1>1, <2>2, <2>4
    <3>6. QED
      BY <1>1, <3>3, <3>4, <3>5
  <2>5. CASE e # At(c)
    <3>1. ifMtu'[e][c] = ifMtu[e][c]
      BY <1>1, <2>2, <2>5
    <3>2. QED
      BY <1>1, <3>1
  <2>6. QED
    BY <2>4, <2>5
<1>5. QED
  BY <1>2, <1>3, <1>4, MtuChanges

(* What a step shows of the MTUs. *)
FitsStep ==
    /\ \A c \in Conns : c \notin granted /\ c \in granted' =>
         /\ ifMtu["client"][c] # 0
         /\ ifMtu["client"][c] = ifMtu["server"][c]
         /\ \A e \in Sides : ifMtu[e][c] + Overhead <= link[e]
         /\ \A e \in Sides : env.kernel[e] = "veth" /\ last[c] = None => hostMtu[e][c] = ifMtu[e][c]
    /\ \A e \in Sides, c \in Conns : ifMtu[e][c] # 0 /\ "delete" \notin env.faults[e] =>
         ifMtu'[e][c] <= ifMtu[e][c]

(* No step does otherwise. *)
LEMMA NextFits == MtuIInv /\ [Next]_vars => [FitsStep]_vars
<1> SUFFICES ASSUME MtuIInv, Next PROVE FitsStep
  OBVIOUS
<1>1. PICK c \in env.conns : Request(c) \/ Handle(c) \/ Close(c) \/ \E e \in Sides : HostLost(e, c)
  BY DEF Next
<1>2. c \in Conns /\ Running(c) /\ FitInv(c)
  BY EnvFacts DEF MtuIInv, IInv, FwdInv, Next, Running
<1>3. ASSUME NEW d \in Conns, d \notin granted, d \in granted'
      PROVE  d = c /\ Answer(c) /\ Here(c, "up", "xc")
  BY <1>1, <1>2, <1>3, GrantSteps
<1>4. ASSUME NEW e \in Sides, NEW d \in Conns, ifMtu[e][d] # 0, "delete" \notin env.faults[e]
      PROVE  ifMtu'[e][d] <= ifMtu[e][d]
  <2>1. CASE d = c
    BY <1>1, <1>2, <1>4, <2>1, NeverRaised
  <2>2. CASE d # c
    <3>1. ifMtu'[e][d] = ifMtu[e][d]
      BY <1>1, <1>2, <2>2, OthersAside DEF Aside
    <3>2. ifMtu[e][d] \in Int
      BY <1>2, MtuNumbers DEF Running, DataType
    <3>3. QED
      BY <3>1, <3>2
  <2>3. QED
    BY <2>1, <2>2
<1>5. ASSUME c \notin granted, c \in granted'
      PROVE  /\ ifMtu["client"][c] # 0
             /\ ifMtu["client"][c] = ifMtu["server"][c]
             /\ \A e \in Sides : ifMtu[e][c] + Overhead <= link[e]
             /\ \A e \in Sides : env.kernel[e] = "veth" /\ last[c] = None => hostMtu[e][c] = ifMtu[e][c]
  BY <1>2, <1>3, <1>5, GrantedMtu
<1>6. QED
  BY <1>3, <1>4, <1>5 DEF FitsStep

(* The MTU of a granted connection is set at both ends of the tunnel, the  *)
(* same, and fits both links with the headers; a new veth pair has it too. *)
(* A refresh never raises the MTU of a tunnel in use, unless the deletion  *)
(* of one failed.  This is so for every width of an MTU, every overhead    *)
(* and links, however the requests interleave in the initialisation of the *)
(* mtu elements, and for every set of failures.                            *)
THEOREM ForwardersGrantedFits == Spec => GrantedFits
<1>1. MtuIInv /\ [Next]_vars => [FitsStep]_vars
  BY NextFits
<1>2. QED
  BY <1>1, SpecMtuIInv, PTL DEF Spec, GrantedFits, FitsStep
=============================================================================
