----------------------------- MODULE Forwarders -----------------------------
(***************************************************************************)
(* chains/forwarder: the chains of two forwarders that carry connections   *)
(* over a tunnel.  The forwarder "client" has a kernel interface to the    *)
(* client of the connection and the client end of the tunnel; the          *)
(* forwarder "server" has the server end of the tunnel and a kernel        *)
(* interface to the endpoint.                                              *)
(*                                                                         *)
(* A request goes down both chains, where only the mtu elements of the     *)
(* tunnel do something (TunnelMtu).  On the way back the mechanisms create *)
(* the interfaces, tag and mtu elements set them up, and xconnect joins    *)
(* the two interfaces of each forwarder.  An element that fails closes     *)
(* itself and the elements behind it, in the order of the chain, and       *)
(* leaves alone those before it.  One step per VPP call, or per group of   *)
(* calls that nobody else can tell apart.                                  *)
(*                                                                         *)
(* The kernel interface of a forwarder is a tap or a veth pair with an     *)
(* af_packet interface.  The tunnel is the one of mechanisms/vxlan; for    *)
(* the payload IP it stands for those of Wireguard.tla and Ipsec.tla.      *)
(* The requests and closes of one connection are serialised (begin).       *)
(***************************************************************************)
EXTENDS TunnelMtu, Sequences, FiniteSets

CONSTANTS Jumbo,    \* jumboFrameSize
          Offers,   \* the MTUs a connection can be requested with
          Behind,   \* the MTUs of what is behind the second forwarder
          Ifs,      \* the swIfIndex values of a VPP
          NoIf,
          Envs      \* the environments to consider

Ends == {"server", "client"}
FaultKinds == {"behind", "netns", "link", "create", "set", "xc", "delete", "lost"}

ASSUME ForwardersAssumption ==
    /\ Jumbo \in Mtus \ {0} /\ Offers \subseteq Mtus /\ Behind \subseteq Mtus \ {0}
    /\ NoIf \notin Ifs
    /\ None \notin Conn
    /\ Envs \subseteq [conns : SUBSET Conns, faults : [Sides -> SUBSET FaultKinds], room : Nat,
                       links : SUBSET Links, offers : SUBSET Offers, behind : SUBSET Behind,
                       kernel : [Sides -> {"tap", "veth"}], payload : {"ETHERNET", "IP"}]

VARIABLES
    env,      \* what can happen in this behaviour
    last,     \* last[c]: the MTUs of the connection when it was granted
    granted,  \* the connections whose last request has succeeded
    known,    \* known[e]: the connections with metadata from earlier requests
    ifindex,  \* ifindex[e][x][c]: metadata, the interface of an end
    veth,     \* veth[e][c]: metadata, link and peer of the veth pair
    pair,     \* kernel: the veth pair of a connection, as far as it got
    hostMtu,  \* kernel: the MTU of the pair
    ports,    \* ports[e][i]: VPP, the interface with index i
    xc,       \* xc[e][i]: VPP, where the packets of interface i go
    ifMtu,    \* ifMtu[e][c]: VPP, the MTU of the tunnel interface
    hop       \* hop[c]: where the handler of the connection is

meta == <<known, ifindex, veth>>
kern == <<pair, hostMtu>>
vpp == <<ports, xc, ifMtu>>
client == <<last, granted>>
vars == <<mtuVars, env, client, meta, kern, vpp, hop>>

(* The elements that do something on the way back, in that order; a Close  *)
(* takes the opposite way.                                                 *)
Chain == << [at |-> "server", el |-> "kernel", end |-> "client"],
            [at |-> "server", el |-> "tunnel", end |-> "server"],
            [at |-> "server", el |-> "xconnect", end |-> "server"],
            [at |-> "client", el |-> "tunnel", end |-> "client"],
            [at |-> "client", el |-> "kernel", end |-> "server"],
            [at |-> "client", el |-> "xconnect", end |-> "server"] >>

(* An interface of VPP: who created it, whether its other side in the      *)
(* kernel is still there, and whether it has the neighbors of an IP        *)
(* connection.                                                             *)
Port == [conn : Conns, end : Ends, alive : BOOLEAN, nbr : BOOLEAN]
NoPort == [conn |-> None, end |-> "none", alive |-> FALSE, nbr |-> FALSE]

Kinds == {"l2", "v4", "v6"}
NoXc == [k \in Kinds |-> NoIf]
NoVeth == [link |-> FALSE, peer |-> FALSE]

(* Positions: el counts the elements of Chain, from is the element that    *)
(* started to close, and Len(Chain) + 1 for the Close of the client.       *)
Pos(to, el, step, call, from) ==
    [to |-> to, el |-> el, step |-> step, call |-> call, from |-> from]
Idle == Pos("idle", 0, "ready", 0, 0)
Asking == Pos("ask", 0, "mtu", 0, 0)
Answering == Pos("ask", 0, "behind", 0, 0)

UpSteps == {"tap", "tapcreate", "tapsetup", "veth", "vethmtu", "afpacket", "neighbor",
            "tunnel", "set", "xc"}
DownSteps == {"tapdel", "neighbordel", "afpacketdel", "vethdel", "tunneldel", "xcdel", "finish"}

TypeOK == /\ MtuTypeOK
          /\ env \in Envs
          /\ last \in [Conns -> Conn \cup {None}]
          /\ granted \subseteq Conns
          /\ known \in [Sides -> SUBSET Conns]
          /\ ifindex \in [Sides -> [Ends -> [Conns -> Ifs \cup {NoIf}]]]
          /\ veth \in [Sides -> [Conns -> [link : BOOLEAN, peer : BOOLEAN]]]
          /\ pair \in [Sides -> [Conns -> {"none", "bare", "named", "aliased"}]]
          /\ hostMtu \in [Sides -> [Conns -> Mtus]]
          /\ ports \in [Sides -> [Ifs -> Port \cup {NoPort}]]
          /\ xc \in [Sides -> [Ifs -> [Kinds -> Ifs \cup {NoIf}]]]
          /\ ifMtu \in [Sides -> [Conns -> Mtus]]
          /\ \A c \in Conns : \/ hop[c] \in {Idle, Asking, Answering}
                              \/ hop[c].to = "up" /\ hop[c].step \in UpSteps
                              \/ hop[c].to = "down" /\ hop[c].step \in DownSteps

Init == /\ MtuInit
        /\ env \in Envs
        /\ \A e \in Sides : link[e] \in env.links
        /\ last = [c \in Conns |-> None]
        /\ granted = {}
        /\ known = [e \in Sides |-> {}]
        /\ ifindex = [e \in Sides |-> [x \in Ends |-> [c \in Conns |-> NoIf]]]
        /\ veth = [e \in Sides |-> [c \in Conns |-> NoVeth]]
        /\ pair = [e \in Sides |-> [c \in Conns |-> "none"]]
        /\ hostMtu = [e \in Sides |-> [c \in Conns |-> 0]]
        /\ ports = [e \in Sides |-> [i \in Ifs |-> NoPort]]
        /\ xc = [e \in Sides |-> [i \in Ifs |-> NoXc]]
        /\ ifMtu = [e \in Sides |-> [c \in Conns |-> 0]]
        /\ hop = [c \in Conns |-> Idle]

-----------------------------------------------------------------------------
(* The way through the chains *)

Move(c, p) == hop' = [hop EXCEPT ![c] = p]

Tap(n) == env.kernel[Chain[n].at] = "tap"

(* Where element n begins on the way back. *)
Up(n) == Pos("up", n, CASE Chain[n].el = "kernel" -> IF Tap(n) THEN "tap" ELSE "veth"
                        [] Chain[n].el = "tunnel" -> "tunnel"
                        [] Chain[n].el = "xconnect" -> "xc", 1, 0)

(* Where element n begins to close. *)
Down(n, from) ==
    Pos("down", n, CASE n = 0 -> "finish"
                     [] n # 0 /\ Chain[n].el = "kernel" ->
                          IF Tap(n) THEN "tapdel"
                          ELSE IF env.payload = "IP" THEN "neighbordel" ELSE "afpacketdel"
                     [] n # 0 /\ Chain[n].el = "tunnel" -> "tunneldel"
                     [] n # 0 /\ Chain[n].el = "xconnect" -> "xcdel", 1, from)

Here(c, to, step) == hop[c].to = to /\ hop[c].step = step
At(c) == Chain[hop[c].el].at
Faulty(c, kind) == kind \in env.faults[At(c)]
End(c) == Chain[hop[c].el].end
MyIf(c) == ifindex[At(c)][End(c)][c]

(* The next step of the same element, the next element, the element behind *)
(* when closing.                                                           *)
Step(c, step) == Move(c, [hop[c] EXCEPT !.step = step])
NextUp(c) == Move(c, Up(hop[c].el + 1))
NextDown(c) == Move(c, Down(hop[c].el - 1, hop[c].from))

(* The element fails in one of its steps, and closes from step on. *)
FailAt(c, step) == Move(c, Pos("down", hop[c].el, step, 1, hop[c].el))
Fail(c) == Move(c, Down(hop[c].el, hop[c].el))

-----------------------------------------------------------------------------
(* tools/ifindex and VPP *)

StoreIf(c, i) == ifindex' = [ifindex EXCEPT ![At(c)][End(c)][c] = i]
DeleteIf(c) == StoreIf(c, NoIf)

Used(e) == {i \in Ifs : ports[e][i] # NoPort}
FreeIfs(e) == IF Cardinality(Used(e)) < env.room THEN Ifs \ Used(e) ELSE {}

(* VPP creates an interface with an index that is free, and remembers it   *)
(* in the metadata.                                                        *)
CreatePort(c) ==
    \E i \in FreeIfs(At(c)) :
        /\ ports' = [ports EXCEPT ![At(c)][i] =
               [conn |-> c, end |-> End(c), alive |-> TRUE, nbr |-> FALSE]]
        /\ StoreIf(c, i)

(* An interface that is deleted forgets where its packets go; what sends   *)
(* packets to it keeps its index.                                          *)
RemovePort(e, i) == /\ ports' = [ports EXCEPT ![e][i] = NoPort]
                    /\ xc' = [xc EXCEPT ![e][i] = NoXc]

CreateFails(c) == Faulty(c, "create") \/ FreeIfs(At(c)) = {}

-----------------------------------------------------------------------------
(* mechanisms/kernel/kerneltap *)

(* Mutant of TapDelete: the index stays in the metadata. *)
TapDelete_kept(c) == /\ MyIf(c) # NoIf
                     /\ UNCHANGED ifindex
                     /\ \/ RemovePort(At(c), MyIf(c))
                        \/ Faulty(c, "delete") /\ UNCHANGED <<ports, xc>>

(* del: the index is forgotten before VPP is asked to delete the tap. *)
TapDelete(c) == /\ MyIf(c) # NoIf
                /\ DeleteIf(c)
                /\ \/ RemovePort(At(c), MyIf(c))
                   \/ Faulty(c, "delete") /\ UNCHANGED <<ports, xc>>

(* Mutant of TapLoad: a refresh makes a new tap. *)
TapLoad_never(c) == FALSE

(* The tap is there, and so is its interface in the namespace. *)
TapLoad(c) == MyIf(c) # NoIf /\ ports[At(c)][MyIf(c)].alive

(* create: a netlink handle for the namespace; a tap whose kernel side is  *)
(* gone is deleted.                                                        *)
TapCheck(c) ==
    /\ Here(c, "up", "tap")
    /\ \/ /\ Faulty(c, "netns")
          /\ Fail(c)
          /\ UNCHANGED <<ifindex, ports, xc>>
       \/ /\ TapLoad(c)
          /\ Step(c, "set")
          /\ UNCHANGED <<ifindex, ports, xc>>
       \/ /\ MyIf(c) = NoIf
          /\ Step(c, "tapcreate")
          /\ UNCHANGED <<ifindex, ports, xc>>
       \/ /\ ~TapLoad(c)
          /\ TapDelete(c)
          /\ Step(c, "tapcreate")
    /\ UNCHANGED <<mtuVars, client, known, veth, kern, ifMtu>>

TapCreate(c) ==
    /\ Here(c, "up", "tapcreate")
    /\ \/ CreatePort(c) /\ Step(c, "tapsetup")
       \/ CreateFails(c) /\ Fail(c) /\ UNCHANGED <<ports, ifindex>>
    /\ UNCHANGED <<mtuVars, client, known, veth, kern, xc, ifMtu>>

(* The rx mode, the alias and the state of the kernel interface. *)
TapSetup(c) ==
    /\ Here(c, "up", "tapsetup")
    /\ \/ Step(c, "set")
       \/ Faulty(c, "link") /\ Fail(c)
    /\ UNCHANGED <<mtuVars, client, meta, kern, vpp>>

TapDel(c) ==
    /\ Here(c, "down", "tapdel")
    /\ \/ TapDelete(c)
       \/ MyIf(c) = NoIf /\ UNCHANGED <<ifindex, ports, xc>>
    /\ NextDown(c)
    /\ UNCHANGED <<mtuVars, client, known, veth, kern, ifMtu>>

-----------------------------------------------------------------------------
(* mechanisms/kernel/kernelvethpair *)

StoreVeth(c, l, p) == veth' = [veth EXCEPT ![At(c)][c] = [link |-> l, peer |-> p]]
SetPair(c, state) == pair' = [pair EXCEPT ![At(c)][c] = state]

(* The pair is gone, and the af_packet interface on it of no use. *)
KillPair(c) ==
    ports' = [ports EXCEPT ![At(c)] = [i \in Ifs |->
        IF ports[At(c)][i].conn = c /\ ports[At(c)][i].end = End(c)
        THEN [ports[At(c)][i] EXCEPT !.alive = FALSE] ELSE ports[At(c)][i]]]

(* A pair that an earlier request left behind is found by its alias and    *)
(* deleted.                                                                *)
DeletePrevious(c) == IF pair[At(c)][c] = "aliased" THEN KillPair(c) ELSE UNCHANGED ports

(* create without a failure: the new pair gets its name, alias and MTU,    *)
(* unless an interface without the alias has the name.                     *)
VethCreated(c) == /\ pair[At(c)][c] # "named"
                  /\ DeletePrevious(c)
                  /\ SetPair(c, "aliased")
                  /\ hostMtu' = [hostMtu EXCEPT ![At(c)][c] = 0]
                  /\ StoreVeth(c, TRUE, TRUE)

(* create fails: the previous pair cannot be deleted, or the new one stays *)
(* as it is.  Only with the alias will the next request find it.  When the *)
(* peer fails the pair is deleted or left, and the link in the metadata is *)
(* deleted by the Close that follows.                                      *)
VethFails(c) ==
    \/ Faulty(c, "delete") /\ pair[At(c)][c] = "aliased" /\ UNCHANGED <<pair, hostMtu, ports>>
    \/ /\ Faulty(c, "link") \/ pair[At(c)][c] = "named"
       /\ DeletePrevious(c)
       /\ \E state \in IF pair[At(c)][c] = "named" THEN {"named"}
                       ELSE {"none", "bare", "named", "aliased"} : SetPair(c, state)
       /\ UNCHANGED hostMtu

(* A refresh finds the link in the metadata and leaves the pair alone. *)
Veth(c) ==
    /\ Here(c, "up", "veth")
    /\ \/ /\ Faulty(c, "netns")
          /\ FailAt(c, "vethdel")
          /\ UNCHANGED <<veth, kern, ports>>
       \/ /\ veth[At(c)][c].link
          /\ Step(c, "vethmtu")
          /\ UNCHANGED <<veth, kern, ports>>
       \/ /\ ~veth[At(c)][c].link
          /\ VethCreated(c)
          /\ Step(c, "vethmtu")
       \/ /\ ~veth[At(c)][c].link
          /\ VethFails(c)
          /\ FailAt(c, "vethdel")
          /\ UNCHANGED veth
    /\ UNCHANGED <<mtuVars, client, known, ifindex, xc, ifMtu>>

(* mtu: the MTU of the pair, unless the interface of VPP is there already. *)
VethMtu(c) ==
    /\ Here(c, "up", "vethmtu")
    /\ \/ /\ MyIf(c) # NoIf \/ conn[c].ctx = 0
          /\ Step(c, "afpacket")
          /\ UNCHANGED hostMtu
       \/ /\ MyIf(c) = NoIf /\ veth[At(c)][c].peer
          /\ hostMtu' = [hostMtu EXCEPT ![At(c)][c] = conn[c].ctx]
          /\ Step(c, "afpacket")
       \/ /\ MyIf(c) = NoIf /\ (Faulty(c, "link") \/ ~veth[At(c)][c].peer)
          /\ FailAt(c, "vethdel")
          /\ UNCHANGED hostMtu
    /\ UNCHANGED <<mtuVars, client, meta, pair, vpp>>

AfPacket(c) ==
    /\ Here(c, "up", "afpacket")
    /\ LET next == IF env.payload = "IP" THEN "neighbor" ELSE "set"
       IN  \/ MyIf(c) # NoIf /\ Step(c, next) /\ UNCHANGED <<ports, ifindex>>
           \/ MyIf(c) = NoIf /\ veth[At(c)][c].peer /\ CreatePort(c) /\ Step(c, next)
           \/ /\ MyIf(c) = NoIf /\ (CreateFails(c) \/ ~veth[At(c)][c].peer)
              /\ FailAt(c, "afpacketdel")
              /\ UNCHANGED <<ports, ifindex>>
    /\ UNCHANGED <<mtuVars, client, known, veth, kern, xc, ifMtu>>

SetNbr(c, b) == ports' = [ports EXCEPT ![At(c)][MyIf(c)].nbr = b]
HasNbrs(c) == MyIf(c) # NoIf /\ veth[At(c)][c].link

(* ipneighbor: static neighbors for the addresses behind the pair. *)
Neighbor(c) ==
    /\ Here(c, "up", "neighbor")
    /\ \/ HasNbrs(c) /\ SetNbr(c, TRUE) /\ Step(c, "set")
       \/ HasNbrs(c) /\ Faulty(c, "set") /\ Fail(c) /\ UNCHANGED ports
    /\ UNCHANGED <<mtuVars, client, meta, kern, xc, ifMtu>>

NeighborDel(c) ==
    /\ Here(c, "down", "neighbordel")
    /\ \/ HasNbrs(c) /\ SetNbr(c, FALSE)
       \/ (~HasNbrs(c) \/ Faulty(c, "delete")) /\ UNCHANGED ports
    /\ Step(c, "afpacketdel")
    /\ UNCHANGED <<mtuVars, client, meta, kern, xc, ifMtu>>

(* The index is forgotten first; then VPP deletes the interface on the     *)
(* peer of the pair, if the peer is known and has one.                     *)
AfPacketDel(c) ==
    /\ Here(c, "down", "afpacketdel")
    /\ DeleteIf(c)
    /\ LET found == MyIf(c) # NoIf /\ veth[At(c)][c].peer /\ ports[At(c)][MyIf(c)].alive
       IN  \/ found /\ RemovePort(At(c), MyIf(c))
           \/ (~found \/ Faulty(c, "delete")) /\ UNCHANGED <<ports, xc>>
    /\ Step(c, "vethdel")
    /\ UNCHANGED <<mtuVars, client, known, veth, kern, ifMtu>>

(* The peer is forgotten first, and the link only when the pair is gone.   *)
VethDel(c) ==
    /\ Here(c, "down", "vethdel")
    /\ \/ /\ veth[At(c)][c].peer
          /\ SetPair(c, "none")
          /\ KillPair(c)
          /\ StoreVeth(c, FALSE, FALSE)
       \/ /\ veth[At(c)][c].peer /\ Faulty(c, "delete")
          /\ StoreVeth(c, TRUE, FALSE)
          /\ UNCHANGED <<pair, ports>>
       \/ /\ ~veth[At(c)][c].peer
          /\ StoreVeth(c, FALSE, FALSE)
          /\ UNCHANGED <<pair, ports>>
    /\ NextDown(c)
    /\ UNCHANGED <<mtuVars, client, known, ifindex, hostMtu, xc, ifMtu>>

-----------------------------------------------------------------------------
(* mechanisms/vxlan *)

(* addDel, isAdd: a refresh finds the tunnel. *)
Tunnel(c) ==
    /\ Here(c, "up", "tunnel")
    /\ \/ /\ MyIf(c) # NoIf
          /\ Step(c, "set")
          /\ UNCHANGED <<ports, ifindex, ifMtu>>
       \/ /\ MyIf(c) = NoIf
          /\ CreatePort(c)
          /\ ifMtu' = [ifMtu EXCEPT ![At(c)][c] = 0]
          /\ Step(c, "set")
       \/ /\ MyIf(c) = NoIf /\ CreateFails(c)
          /\ Fail(c)
          /\ UNCHANGED <<ports, ifindex, ifMtu>>
    /\ UNCHANGED <<mtuVars, client, known, veth, kern, xc>>

(* addDel, not isAdd: the index is forgotten when the tunnel is gone. *)
TunnelDel(c) ==
    /\ Here(c, "down", "tunneldel")
    /\ \/ /\ MyIf(c) # NoIf
          /\ RemovePort(At(c), MyIf(c))
          /\ DeleteIf(c)
          /\ ifMtu' = [ifMtu EXCEPT ![At(c)][c] = 0]
       \/ /\ MyIf(c) = NoIf \/ Faulty(c, "delete")
          /\ UNCHANGED <<ports, xc, ifindex, ifMtu>>
    /\ NextDown(c)
    /\ UNCHANGED <<mtuVars, client, known, veth, kern>>

-----------------------------------------------------------------------------
(* tag and connectioncontext/mtu *)

setConnContextMTU(m) == IF m = 0 THEN Jumbo ELSE m

(* An MTU of zero is not set.  The MTU of the kernel's end is not kept.    *)
setVPPMTU(c) ==
    ifMtu' = IF conn[c].ctx = 0 \/ Chain[hop[c].el].el # "tunnel" THEN ifMtu
             ELSE [ifMtu EXCEPT ![At(c)][c] = conn[c].ctx]

(* One of the calls that tag the interface and set its MTU. *)
SetUpFails(c) == Faulty(c, "set")

SetUp(c) ==
    /\ Here(c, "up", "set")
    /\ \/ setVPPMTU(c) /\ NextUp(c)
       \/ SetUpFails(c) /\ Fail(c) /\ UNCHANGED ifMtu
    /\ UNCHANGED <<mtuVars, client, meta, kern, ports, xc>>

-----------------------------------------------------------------------------
(* xconnect *)

Other(x) == IF x = "client" THEN "server" ELSE "client"
Call(x, k) == [end |-> x, kind |-> k]

(* Mutant of l2Calls: the second call repeats the first. *)
l2Calls_oneway == <<Call("client", "l2"), Call("client", "l2")>>

(* l2xconnect: both directions. *)
l2Calls == <<Call("client", "l2"), Call("server", "l2")>>

l3xcUpdates == <<Call("client", "v4"), Call("client", "v6"), Call("server", "v4"), Call("server", "v6")>>
l3xcDels == <<Call("client", "v6"), Call("client", "v4"), Call("server", "v6"), Call("server", "v4")>>

NextCall(c) == Move(c, [hop[c] EXCEPT !.call = @ + 1])
HasBoth(c) == \A x \in Ends : ifindex[At(c)][x][c] # NoIf
SetXc(c, call, j) == xc' = [xc EXCEPT ![At(c)][ifindex[At(c)][call.end][c]][call.kind] = j]

(* The forwarder answers: the next one goes on, or the client has its      *)
(* connection.                                                             *)
Answer(c) ==
    /\ known' = [known EXCEPT ![At(c)] = @ \cup {c}]
    /\ IF hop[c].el = Len(Chain)
       THEN /\ Move(c, Idle)
            /\ last' = [last EXCEPT ![c] = conn[c]]
            /\ granted' = granted \cup {c}
            /\ conn' = [conn EXCEPT ![c] = NoConn]
       ELSE NextUp(c) /\ UNCHANGED <<client, conn>>

(* Every request joins the interfaces again, with these calls. *)
XConnect(c, calls) ==
    /\ Here(c, "up", "xc")
    /\ LET call == calls[hop[c].call]
       IN  \/ /\ SetXc(c, call, ifindex[At(c)][Other(call.end)][c])
              /\ IF hop[c].call = Len(calls) THEN Answer(c)
                 ELSE NextCall(c) /\ UNCHANGED <<client, known, conn>>
           \/ /\ Faulty(c, "xc")
              /\ Fail(c)
              /\ UNCHANGED <<xc, client, known, conn>>
    /\ UNCHANGED <<link, mtu, inited, mutex, pc, ifindex, veth, kern, ports, ifMtu>>

(* Without both interfaces nothing is done.  VPP refuses to delete an l3   *)
(* cross connect that is not there.                                        *)
CanDelete(c, call) ==
    /\ HasBoth(c)
    /\ call.kind = "l2" \/ xc[At(c)][ifindex[At(c)][call.end][c]][call.kind] # NoIf

(* The first error ends it, and is ignored. *)
XConnectDel(c, calls) ==
    /\ Here(c, "down", "xcdel")
    /\ LET call == calls[hop[c].call]
       IN  \/ /\ CanDelete(c, call)
              /\ SetXc(c, call, NoIf)
              /\ IF hop[c].call = Len(calls) THEN NextDown(c) ELSE NextCall(c)
           \/ /\ Faulty(c, "delete") \/ ~CanDelete(c, call)
              /\ NextDown(c)
              /\ UNCHANGED xc
    /\ UNCHANGED <<mtuVars, client, meta, kern, ports, ifMtu>>

-----------------------------------------------------------------------------
(* Requests and closes *)

(* A new connection, or a refresh of the one that was granted.  The        *)
(* element of the server finds an MTU that is set.                         *)
Request(c) ==
    /\ hop[c] = Idle
    /\ \E r \in IF last[c] = None THEN [mech : {0}, ctx : env.offers] ELSE {last[c]} :
          conn' = [conn EXCEPT ![c] = [r EXCEPT !.ctx = setConnContextMTU(@)]]
    /\ Goto(c, In("client", "load"))
    /\ granted' = granted \ {c}
    /\ Move(c, Asking)
    /\ UNCHANGED <<link, mtu, inited, mutex, last, meta, kern, vpp>>

(* The mtu elements on the way down the chains. *)
AskMtu(c) ==
    /\ hop[c] = Asking
    /\ \/ (\E e \in Sides : InitStep(e, c)) \/ ClientClamp(c) \/ ServerClamp(c)
    /\ Move(c, IF pc'[c] # Away THEN Asking ELSE IF conn'[c] = NoConn THEN Idle ELSE Answering)
    /\ UNCHANGED <<client, meta, kern, vpp>>

(* What is behind may lower the MTU of the connection; or it fails. *)
NextHop(c) ==
    /\ hop[c] = Answering
    /\ \/ \E b \in env.behind : /\ conn' = [conn EXCEPT ![c].ctx = Lower(@, b)]
                                /\ Move(c, Up(1))
       \/ /\ "behind" \in env.faults["server"]
          /\ conn' = [conn EXCEPT ![c] = NoConn]
          /\ Move(c, Idle)
    /\ UNCHANGED <<link, mtu, inited, mutex, pc, client, meta, kern, vpp>>

Close(c) == /\ hop[c] = Idle /\ last[c] # None
            /\ granted' = granted \ {c}
            /\ Move(c, Down(Len(Chain), Len(Chain) + 1))
            /\ UNCHANGED <<mtuVars, last, meta, kern, vpp>>

(* The metadata of a connection is dropped when it is closed, and when its *)
(* first request fails.                                                    *)
Drop(c, e) == \/ e = "server" /\ hop[c].from > 3
              \/ e = "client" /\ hop[c].from > Len(Chain)
              \/ c \notin known[e]

Finish(c) ==
    /\ Here(c, "down", "finish")
    /\ ifindex' = [e \in Sides |-> [x \in Ends |->
           IF Drop(c, e) THEN [ifindex[e][x] EXCEPT ![c] = NoIf] ELSE ifindex[e][x]]]
    /\ veth' = [e \in Sides |-> IF Drop(c, e) THEN [veth[e] EXCEPT ![c] = NoVeth] ELSE veth[e]]
    /\ known' = [e \in Sides |-> IF Drop(c, e) THEN known[e] \ {c} ELSE known[e]]
    /\ last' = IF hop[c].from > Len(Chain) THEN [last EXCEPT ![c] = None] ELSE last
    /\ conn' = [conn EXCEPT ![c] = NoConn]
    /\ Move(c, Idle)
    /\ UNCHANGED <<link, mtu, inited, mutex, pc, granted, kern, vpp>>

(* Between requests the kernel interface of a tap disappears with its      *)
(* namespace.                                                              *)
HostLost(e, c) ==
    LET i == ifindex[e][Other(e)][c]
    IN  /\ hop[c] = Idle /\ "lost" \in env.faults[e] /\ env.kernel[e] = "tap"
        /\ i # NoIf /\ ports[e][i].alive
        /\ ports' = [ports EXCEPT ![e][i].alive = FALSE]
        /\ UNCHANGED <<mtuVars, client, meta, kern, xc, ifMtu, hop>>

-----------------------------------------------------------------------------
(* The elements of the chains; what a client and a server of the same kind *)
(* do is told apart by the end of the connection they work for.            *)

TapStep(c) == TapCheck(c) \/ TapCreate(c) \/ TapSetup(c) \/ TapDel(c)
kernelTapServer(c) == TapStep(c) /\ End(c) = "server"
kernelTapClient(c) == TapStep(c) /\ End(c) = "client"

VethStep(c) == Veth(c) \/ VethDel(c)
kernelVethPairServer(c) == VethStep(c) /\ End(c) = "server"
kernelVethPairClient(c) == VethStep(c) /\ End(c) = "client"
vethMtuServer(c) == VethMtu(c) /\ End(c) = "server"
vethMtuClient(c) == VethMtu(c) /\ End(c) = "client"

AfPacketStep(c) == AfPacket(c) \/ AfPacketDel(c)
afPacketServer(c) == AfPacketStep(c) /\ End(c) = "server"
afPacketClient(c) == AfPacketStep(c) /\ End(c) = "client"

NeighborStep(c) == Neighbor(c) \/ NeighborDel(c)
ipNeighborServer(c) == NeighborStep(c) /\ End(c) = "server"
ipNeighborClient(c) == NeighborStep(c) /\ End(c) = "client"

TunnelStep(c) == Tunnel(c) \/ TunnelDel(c)
vxlanServer(c) == TunnelStep(c) /\ End(c) = "server"
vxlanClient(c) == TunnelStep(c) /\ End(c) = "client"

mtuServer(c) == SetUp(c) /\ End(c) = "server"
mtuClient(c) == SetUp(c) /\ End(c) = "client"

l2XconnectServer(c) == /\ env.payload = "ETHERNET"
                       /\ XConnect(c, l2Calls) \/ XConnectDel(c, l2Calls)
l3XconnectServer(c) == /\ env.payload = "IP"
                       /\ XConnect(c, l3xcUpdates) \/ XConnectDel(c, l3xcDels)

Kernel(c) == \/ kernelTapServer(c) \/ kernelTapClient(c)
             \/ kernelVethPairServer(c) \/ kernelVethPairClient(c)
             \/ vethMtuServer(c) \/ vethMtuClient(c)
             \/ afPacketServer(c) \/ afPacketClient(c)
             \/ ipNeighborServer(c) \/ ipNeighborClient(c)

Handle(c) == \/ AskMtu(c) \/ NextHop(c) \/ Kernel(c)
             \/ vxlanServer(c) \/ vxlanClient(c) \/ mtuServer(c) \/ mtuClient(c)
             \/ l2XconnectServer(c) \/ l3XconnectServer(c) \/ Finish(c)

Next == /\ \E c \in env.conns : \/ Request(c) \/ Handle(c) \/ Close(c)
                                \/ \E e \in Sides : HostLost(e, c)
        /\ UNCHANGED env

Spec == Init /\ [][Next]_vars

-----------------------------------------------------------------------------
(* Properties *)

MyPort(e, x, c) == ports[e][ifindex[e][x][c]]

(* The two interfaces of c at forwarder e exist and are joined. *)
Joined(e, c) ==
    /\ \A x \in Ends : /\ ifindex[e][x][c] # NoIf
                       /\ MyPort(e, x, c).conn = c /\ MyPort(e, x, c).end = x
    /\ \A x \in Ends, k \in IF env.payload = "ETHERNET" THEN {"l2"} ELSE {"v4", "v6"} :
           xc[e][ifindex[e][x][c]][k] = ifindex[e][Other(x)][c]

Wiring(c) == \A e \in Sides : Joined(e, c)

(* A connection whose request has succeeded is carried by both forwarders: *)
(* its own four interfaces exist, and at each forwarder they are joined    *)
(* both ways, for every family, whatever failed before and whatever other  *)
(* connections do with the indices that VPP gives out again.               *)
Wired == \A c \in granted : Wiring(c)

(* A connection stays wired until it is closed itself: no step of another  *)
(* connection, and no refresh, takes it apart, unless its tap was lost.    *)
(* A request that succeeds finds the kernel's side of its taps alive, and  *)
(* repairs it if it was not; with a veth pair that is so unless the        *)
(* namespace could not be opened in an earlier request.                    *)
WiringKept ==
    [][\A c \in Conns :
         /\ Wiring(c) /\ hop[c].to # "down" =>
              \/ Wiring(c)'
              \/ hop[c].step = "tap" /\ ~MyPort(At(c), End(c), c).alive
         /\ c \notin granted /\ c \in granted' =>
              \A e \in Sides : \/ MyPort(e, Other(e), c)'.alive
                               \/ env.kernel[e] = "veth" /\ "netns" \in env.faults[e]]_vars

(* The metadata and VPP agree: an index in the metadata is always that of  *)
(* an interface of this end of the connection, so that nothing is done to  *)
(* the interface of another; and an interface of VPP is in the metadata,   *)
(* unless a deletion failed or the namespace of a veth pair was not there. *)
IndexesMatchVPP ==
    /\ \A e \in Sides, x \in Ends, c \in Conns : ifindex[e][x][c] # NoIf =>
           MyPort(e, x, c).conn = c /\ MyPort(e, x, c).end = x
    /\ \A e \in Sides, i \in Ifs :
           ports[e][i] # NoPort /\ env.faults[e] \cap {"delete", "netns"} = {} =>
               ifindex[e][ports[e][i].end][ports[e][i].conn] = i

(* The MTU of a granted connection is set at both ends of the tunnel, the  *)
(* same, and a packet of that size with its headers fits the links of      *)
(* both; a veth pair that was made for it has that MTU too.  A refresh     *)
(* never raises the MTU of an interface in use, which the workload behind  *)
(* it has been told already; only a tunnel that a failed refresh could not *)
(* delete has the MTU of that refresh, and the next one may raise it.      *)
GrantedFits ==
    [][/\ \A c \in Conns : c \notin granted /\ c \in granted' =>
            /\ ifMtu["client"][c] # 0
            /\ ifMtu["client"][c] = ifMtu["server"][c]
            /\ \A e \in Sides : ifMtu[e][c] + Overhead <= link[e]
            /\ \A e \in Sides : env.kernel[e] = "veth" /\ last[c] = None => hostMtu[e][c] = ifMtu[e][c]
       /\ \A e \in Sides, c \in Conns : ifMtu[e][c] # 0 /\ "delete" \notin env.faults[e] =>
            ifMtu'[e][c] <= ifMtu[e][c]]_vars
=============================================================================
