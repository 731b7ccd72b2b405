---------------------------- MODULE BridgeDomain ----------------------------
(***************************************************************************)
(* pkg/networkservice/xconnect/l2bridgedomain with the client elements of  *)
(* mechanisms/vlan (and l2vtr): the connections to one vlan of one device  *)
(* share a sub-interface and a bridge domain.                              *)
(*                                                                         *)
(* On the way back of a request the vlan client finds or creates the       *)
(* sub-interface, l2vtr makes it pop the tag, the mechanism server creates *)
(* the interface to the client, and l2bridgedomain puts both into the      *)
(* bridge.  On Close l2bridgedomain goes first; whoever takes the last     *)
(* server interface out also deletes the sub-interface and the bridge.     *)
(*                                                                         *)
(* One step per VPP call.  The requests and closes of one connection are   *)
(* serialised (begin).  The element has no mutex, so those of different    *)
(* connections overlap; here only those of different vlan ids do, for with *)
(* the others a grant is not safe: two first requests of a vlan create two *)
(* bridges, and a sub-interface that is deleted leaves its key for a while *)
(* to one of another device that gets its index.                           *)
(***************************************************************************)
EXTENDS Naturals, FiniteSets

CONSTANTS Conns,
          Devices,    \* host interfaces, each its own swIfIndex
          DeviceOf,   \* the device that the via label of a connection names
          Matching,   \* Matching[d]: devices whose name contains the name of d
          Vlans,      \* vlan ids; 0 is the device itself
          VlanOf,     \* the vlan of each connection
          Ifs,        \* the swIfIndex values VPP can give out
          NoIf,
          Bds,        \* the ids VPP can give to bridge domains
          NoBd,
          NoVlan,
          Envs        \* the environments to consider

ASSUME BridgeAssumption ==
    /\ 0 \in Vlans /\ NoVlan \notin Vlans
    /\ DeviceOf \in [Conns -> Devices] /\ VlanOf \in [Conns -> Vlans]
    /\ Matching \in [Devices -> SUBSET Devices] /\ \A d \in Devices : d \in Matching[d]
    /\ NoIf \notin Ifs \cup Devices /\ Ifs \cap Devices = {} /\ NoBd \notin Bds
    /\ Envs \subseteq [conns : SUBSET Conns,
                       faults : SUBSET {"subif", "vtr", "mtu", "mech", "attach", "detach"}]

SwIfs == Ifs \cup Devices
bridgeDomainKey == Vlans \X SwIfs

VARIABLES
    env,        \* the connections of this behaviour and which calls may fail
    clientIf,   \* ifindex.Load(ctx, true)
    serverIf,   \* ifindex.Load(ctx, false)
    vlanID,     \* vlan.Load(ctx, true)
    bridges,    \* the map b: bridgeDomainKey to the id of a *bridgeDomain
    attached,   \* the attached map of the *bridgeDomain with an id
    key,        \* the variables key and l2Bridge of a running handler
    l2Bridge,
    granted,    \* the last request of the connection has succeeded
    sub,        \* VPP: sub[d][v]: the sub-interface of device d for vlan v
    popped,     \* VPP: interfaces that pop the vlan tag
    ports,      \* VPP: interfaces of mechanism servers
    bds,        \* VPP: bridge domains
    member,     \* VPP: the bridge domain an interface is in
    mtus,       \* devices whose MTU the mtu client has found
    stage

meta == <<clientIf, serverIf, vlanID>>
table == <<bridges, attached>>
local == <<key, l2Bridge>>
vpp == <<sub, popped, ports, bds, member>>
bridgeVars == <<env, meta, table, local, granted, vpp, mtus, stage>>

Faults == env.faults

NoKey == <<0, NoIf>>

BridgeStages == {"ready", "subif", "vtr", "mtu", "mech", "load", "newbridge", "attachserver",
                 "attachclient", "del", "detachserver", "last", "detachclient", "delsubif",
                 "delbridge", "closenext"}

BridgeTypeOK == /\ env \in Envs
                /\ clientIf \in [Conns -> SwIfs \cup {NoIf}]
                /\ serverIf \in [Conns -> Ifs \cup {NoIf}]
                /\ vlanID \in [Conns -> Vlans \cup {NoVlan}]
                /\ bridges \in [bridgeDomainKey -> Bds \cup {NoBd}]
                /\ attached \in [Bds -> SUBSET SwIfs]
                /\ key \in [Conns -> bridgeDomainKey \cup {NoKey}]
                /\ l2Bridge \in [Conns -> Bds \cup {NoBd}]
                /\ granted \in [Conns -> BOOLEAN]
                /\ sub \in [Devices -> [Vlans -> Ifs \cup {NoIf}]]
                /\ popped \subseteq Ifs /\ ports \subseteq Ifs /\ bds \subseteq Bds
                /\ member \in [SwIfs -> Bds \cup {NoBd}]
                /\ mtus \subseteq Devices
                /\ stage \in [Conns -> BridgeStages]

BridgeInit == /\ env \in Envs
              /\ clientIf = [c \in Conns |-> NoIf]
              /\ serverIf = [c \in Conns |-> NoIf]
              /\ vlanID = [c \in Conns |-> NoVlan]
              /\ bridges = [k \in bridgeDomainKey |-> NoBd]
              /\ attached = [b \in Bds |-> {}]
              /\ key = [c \in Conns |-> NoKey]
              /\ l2Bridge = [c \in Conns |-> NoBd]
              /\ granted = [c \in Conns |-> FALSE]
              /\ sub = [d \in Devices |-> [v \in Vlans |-> NoIf]]
              /\ popped = {} /\ ports = {} /\ bds = {}
              /\ member = [i \in SwIfs |-> NoBd]
              /\ mtus = {}
              /\ stage = [c \in Conns |-> "ready"]

GoOn(c, step) == stage' = [stage EXCEPT ![c] = step]

Start(c) == \A d \in Conns : VlanOf[d] = VlanOf[c] => stage[d] = "ready"

SubIfs == {sub[d][v] : d \in Devices, v \in Vlans} \ {NoIf}
FreeIfs == Ifs \ (SubIfs \cup ports)
Exists(i) == i \in SubIfs \cup ports \cup Devices

-----------------------------------------------------------------------------
(* mechanisms/vlan *)

StoreMeta(c, i) == /\ clientIf' = [clientIf EXCEPT ![c] = i]
                   /\ vlanID' = [vlanID EXCEPT ![c] = VlanOf[c]]

(* The sub-interface stays: it is deleted with the bridge. *)
delSubIf(c) == /\ clientIf' = [clientIf EXCEPT ![c] = NoIf]
               /\ vlanID' = [vlanID EXCEPT ![c] = NoVlan]

(* Sub-interfaces of the vlan whose name contains the name of the device.  *)
getHostOrVlanInterface(c) ==
    IF VlanOf[c] = 0 THEN {DeviceOf[c]}
    ELSE {sub[d][VlanOf[c]] : d \in Matching[DeviceOf[c]]} \ {NoIf}

(* A request gets to addSubIf, which looks for the interface unless it has *)
(* one.                                                                    *)
addSubIf(c) ==
    /\ Start(c)
    /\ \/ clientIf[c] # NoIf /\ GoOn(c, "vtr") /\ UNCHANGED meta
       \/ /\ clientIf[c] = NoIf
          /\ \/ /\ \E i \in getHostOrVlanInterface(c) : StoreMeta(c, i)
                /\ GoOn(c, "vtr")
             \/ /\ getHostOrVlanInterface(c) = {}
                /\ GoOn(c, "subif")
                /\ UNCHANGED <<clientIf, vlanID>>
          /\ UNCHANGED serverIf
    /\ granted' = [granted EXCEPT ![c] = FALSE]
    /\ UNCHANGED <<table, local, vpp>>

(* VPP refuses a second sub-interface for the same vlan of a device. *)
vppAddSubIf(c) ==
    /\ stage[c] = "subif"
    /\ \/ /\ sub[DeviceOf[c]][VlanOf[c]] = NoIf
          /\ \E i \in FreeIfs : /\ sub' = [sub EXCEPT ![DeviceOf[c]][VlanOf[c]] = i]
                                /\ StoreMeta(c, i)
          /\ GoOn(c, "vtr")
       \/ /\ "subif" \in Faults \/ sub[DeviceOf[c]][VlanOf[c]] # NoIf
          /\ GoOn(c, "ready")
          /\ UNCHANGED <<sub, clientIf, vlanID>>
    /\ UNCHANGED <<serverIf, table, local, granted, popped, ports, bds, member>>

(* l2vtr closes the elements behind it. *)
VtrFails(c) == /\ VlanOf[c] # 0 /\ ("vtr" \in Faults \/ ~Exists(clientIf[c]))
               /\ delSubIf(c)
               /\ GoOn(c, "ready")

(* l2vtr: every request sets the rewrite, a refresh too. *)
enableVtr(c) ==
    /\ stage[c] = "vtr"
    /\ \/ /\ VlanOf[c] = 0 \/ Exists(clientIf[c])
          /\ popped' = popped \cup ({clientIf[c]} \ Devices)
          /\ GoOn(c, "mtu")
          /\ UNCHANGED <<clientIf, vlanID>>
       \/ VtrFails(c) /\ UNCHANGED popped
    /\ UNCHANGED <<serverIf, table, local, granted, sub, ports, bds, member>>

(* mtu: the MTU of a device is asked for until it is known; if it cannot   *)
(* be told, the elements behind are closed.  The MTU itself is left out.   *)
getMTU(c) ==
    /\ stage[c] = "mtu"
    /\ \/ /\ mtus' = mtus \cup {DeviceOf[c]}
          /\ GoOn(c, "mech")
          /\ UNCHANGED <<clientIf, vlanID>>
       \/ /\ DeviceOf[c] \notin mtus /\ "mtu" \in Faults
          /\ delSubIf(c)
          /\ GoOn(c, "ready")
          /\ UNCHANGED mtus
    /\ UNCHANGED <<serverIf, table, local, granted, vpp>>

-----------------------------------------------------------------------------
(* The mechanism server between l2bridgedomain and the client: it creates  *)
(* its interface unless it has one.                                        *)

CreatePort(c) ==
    /\ stage[c] = "mech"
    /\ \/ /\ serverIf[c] # NoIf
          /\ GoOn(c, "load")
          /\ UNCHANGED <<meta, ports>>
       \/ /\ serverIf[c] = NoIf
          /\ \E i \in FreeIfs : /\ serverIf' = [serverIf EXCEPT ![c] = i]
                                /\ ports' = ports \cup {i}
          /\ GoOn(c, "load")
          /\ UNCHANGED <<clientIf, vlanID>>
       \/ /\ serverIf[c] = NoIf /\ ("mech" \in Faults \/ FreeIfs = {})
          /\ delSubIf(c)
          /\ GoOn(c, "ready")
          /\ UNCHANGED <<serverIf, ports>>
    /\ UNCHANGED <<table, local, granted, sub, popped, bds, member>>

-----------------------------------------------------------------------------
(* common.go: addBridgeDomain *)

addDelVppBridgeDomain(b, isAdd) == bds' = IF isAdd THEN bds \cup {b} ELSE bds \ {b}

(* The bridge of interface i; NoBd takes it out. *)
addDelVppInterfaceBridgeDomain(i, b) == member' = [member EXCEPT ![i] = b]

LoadBridge(c) ==
    /\ stage[c] = "load"
    /\ LET k == <<vlanID[c], clientIf[c]>>
       IN  /\ key' = [key EXCEPT ![c] = k]
           /\ l2Bridge' = [l2Bridge EXCEPT ![c] = bridges[k]]
           /\ GoOn(c, IF bridges[k] = NoBd THEN "newbridge" ELSE "attachserver")
    /\ UNCHANGED <<meta, table, granted, vpp>>

NewBridge(c) ==
    /\ stage[c] = "newbridge"
    /\ \/ /\ \E b \in Bds \ bds :
                /\ addDelVppBridgeDomain(b, TRUE)
                /\ attached' = [attached EXCEPT ![b] = {}]
                /\ bridges' = [bridges EXCEPT ![key[c]] = b]
                /\ l2Bridge' = [l2Bridge EXCEPT ![c] = b]
          /\ GoOn(c, "attachserver")
       \/ /\ "attach" \in Faults
          /\ GoOn(c, "del")
          /\ UNCHANGED <<bds, table, l2Bridge>>
    /\ UNCHANGED <<meta, key, granted, sub, popped, ports, member>>

(* Interface i is put into the bridge unless it is recorded to be in it.   *)
(* VPP refuses an interface or a bridge that does not exist.               *)
Attach(c, i, step) ==
    LET b == l2Bridge[c]
    IN  \/ /\ i \in attached[b]
           /\ GoOn(c, step)
           /\ UNCHANGED <<table, member>>
        \/ /\ i \notin attached[b] /\ Exists(i) /\ b \in bds
           /\ addDelVppInterfaceBridgeDomain(i, b)
           /\ attached' = [attached EXCEPT ![b] = @ \cup {i}]
           /\ bridges' = [bridges EXCEPT ![key[c]] = b]
           /\ GoOn(c, step)
        \/ /\ i \notin attached[b]
           /\ "attach" \in Faults \/ ~Exists(i) \/ b \notin bds
           /\ GoOn(c, "del")
           /\ UNCHANGED <<table, member>>

AttachServer(c) ==
    /\ stage[c] = "attachserver"
    /\ Attach(c, serverIf[c], "attachclient")
    /\ UNCHANGED <<meta, local, granted, sub, popped, ports, bds>>

AttachClient(c) ==
    /\ stage[c] = "attachclient"
    /\ Attach(c, clientIf[c], "ready")
    /\ granted' = [granted EXCEPT ![c] = (stage'[c] = "ready")]
    /\ UNCHANGED <<meta, local, sub, popped, ports, bds>>

-----------------------------------------------------------------------------
(* common.go: delBridgeDomain *)

BeginClose(c) == /\ Start(c)
                 /\ clientIf[c] # NoIf \/ serverIf[c] # NoIf
                 /\ granted' = [granted EXCEPT ![c] = FALSE]
                 /\ GoOn(c, "del")
                 /\ UNCHANGED <<meta, table, local, vpp>>

(* Nothing is done for a connection without the metadata of the vlan, or   *)
(* when there is no bridge.                                                *)
delBridgeDomain(c) ==
    /\ stage[c] = "del"
    /\ LET k == <<vlanID[c], clientIf[c]>>
       IN  \/ /\ k \in bridgeDomainKey /\ bridges[k] # NoBd
              /\ key' = [key EXCEPT ![c] = k]
              /\ l2Bridge' = [l2Bridge EXCEPT ![c] = bridges[k]]
              /\ GoOn(c, "detachserver")
           \/ /\ k \in bridgeDomainKey => bridges[k] = NoBd
              /\ GoOn(c, "closenext")
              /\ UNCHANGED local
    /\ UNCHANGED <<meta, table, granted, vpp>>

(* An error ends delBridgeDomain and is only logged. *)
Fails(c, refused) == ("detach" \in Faults \/ refused) /\ GoOn(c, "closenext")

(* Mutant of DetachServer: the interface stays in attached. *)
DetachServer_kept(c) ==
    /\ stage[c] = "detachserver"
    /\ addDelVppInterfaceBridgeDomain(serverIf[c], NoBd)
    /\ GoOn(c, "last")
    /\ UNCHANGED <<meta, table, local, granted, sub, popped, ports, bds>>

DetachServer(c) ==
    /\ stage[c] = "detachserver"
    /\ \/ /\ serverIf[c] \notin attached[l2Bridge[c]]
          /\ GoOn(c, "last")
          /\ UNCHANGED <<attached, member>>
       \/ /\ serverIf[c] \in attached[l2Bridge[c]]
          /\ addDelVppInterfaceBridgeDomain(serverIf[c], NoBd)
          /\ attached' = [attached EXCEPT ![l2Bridge[c]] = @ \ {serverIf[c]}]
          /\ GoOn(c, "last")
       \/ /\ serverIf[c] \in attached[l2Bridge[c]]
          /\ Fails(c, FALSE)
          /\ UNCHANGED <<attached, member>>
    /\ UNCHANGED <<meta, bridges, local, granted, sub, popped, ports, bds>>

(* Mutant of LastInterface: the bridge goes though others are in it. *)
LastInterface_any(c) ==
    /\ stage[c] = "last"
    /\ GoOn(c, IF key[c][2] \in attached[l2Bridge[c]] THEN "detachclient" ELSE "closenext")
    /\ UNCHANGED <<meta, table, local, granted, vpp>>

(* Only the client interface is left: the bridge is not needed any more.   *)
LastInterface(c) ==
    /\ stage[c] = "last"
    /\ LET left == attached[l2Bridge[c]]
       IN  \/ /\ left = {key[c][2]}
              /\ GoOn(c, "detachclient")
              /\ UNCHANGED table
           \/ /\ left # {key[c][2]}
              /\ bridges' = IF Cardinality(left) = 1 THEN bridges
                            ELSE [bridges EXCEPT ![key[c]] = l2Bridge[c]]
              /\ GoOn(c, "closenext")
              /\ UNCHANGED attached
    /\ UNCHANGED <<meta, local, granted, vpp>>

DetachClient(c) ==
    /\ stage[c] = "detachclient"
    /\ \/ /\ Exists(key[c][2])
          /\ addDelVppInterfaceBridgeDomain(key[c][2], NoBd)
          /\ GoOn(c, "delsubif")
       \/ /\ Fails(c, ~Exists(key[c][2]))
          /\ UNCHANGED member
    /\ UNCHANGED <<meta, table, local, granted, sub, popped, ports, bds>>

(* The device itself is only forgotten. *)
delVppSubIf(c) ==
    LET i == key[c][2]
    IN  /\ stage[c] = "delsubif"
        /\ \/ /\ key[c][1] = 0
              /\ clientIf' = [clientIf EXCEPT ![c] = NoIf]
              /\ UNCHANGED <<sub, popped, member>>
           \/ /\ key[c][1] # 0 /\ i \in SubIfs
              /\ sub' = [d \in Devices |-> [v \in Vlans |-> IF sub[d][v] = i THEN NoIf ELSE sub[d][v]]]
              /\ popped' = popped \ {i}
              /\ member' = [member EXCEPT ![i] = NoBd]
              /\ UNCHANGED clientIf
        /\ attached' = [attached EXCEPT ![l2Bridge[c]] = @ \ {i}]
        /\ GoOn(c, "delbridge")
        /\ UNCHANGED <<serverIf, vlanID, bridges, local, granted, ports, bds>>

delVppSubIfFails(c) ==
    /\ stage[c] = "delsubif" /\ key[c][1] # 0
    /\ Fails(c, key[c][2] \notin SubIfs)
    /\ UNCHANGED <<meta, table, local, granted, vpp>>

(* VPP does not delete a bridge that has members. *)
DelBridge(c) ==
    LET b == l2Bridge[c]
        inUse == b \notin bds \/ \E i \in SwIfs : member[i] = b
    IN  /\ stage[c] = "delbridge"
        /\ \/ /\ ~inUse
              /\ addDelVppBridgeDomain(b, FALSE)
              /\ bridges' = [bridges EXCEPT ![key[c]] = NoBd]
              /\ GoOn(c, "closenext")
           \/ /\ Fails(c, inUse)
              /\ UNCHANGED <<bds, bridges>>
        /\ UNCHANGED <<meta, attached, local, granted, sub, popped, ports, member>>

(* The elements behind: the mechanism server deletes its interface, which  *)
(* takes it out of any bridge, and the vlan client forgets the rest.       *)
CloseNext(c) ==
    /\ stage[c] = "closenext"
    /\ serverIf' = [serverIf EXCEPT ![c] = NoIf]
    /\ ports' = ports \ {serverIf[c]}
    /\ member' = [i \in SwIfs |-> IF i = serverIf[c] THEN NoBd ELSE member[i]]
    /\ delSubIf(c)
    /\ key' = [key EXCEPT ![c] = NoKey]
    /\ l2Bridge' = [l2Bridge EXCEPT ![c] = NoBd]
    /\ GoOn(c, "ready")
    /\ UNCHANGED <<table, granted, sub, popped, bds>>

RequestSteps(c) == \/ addSubIf(c) \/ vppAddSubIf(c) \/ enableVtr(c) \/ CreatePort(c)
                   \/ LoadBridge(c) \/ NewBridge(c) \/ AttachServer(c) \/ AttachClient(c)

CloseSteps(c) == \/ delBridgeDomain(c) \/ DetachServer(c) \/ LastInterface(c) \/ DetachClient(c)
                 \/ delVppSubIf(c) \/ delVppSubIfFails(c) \/ DelBridge(c) \/ CloseNext(c)

BridgeNext == /\ \E c \in env.conns :
                    \/ (RequestSteps(c) \/ BeginClose(c) \/ CloseSteps(c)) /\ UNCHANGED mtus
                    \/ getMTU(c)
              /\ UNCHANGED env

BridgeSpec == BridgeInit /\ [][BridgeNext]_bridgeVars

-----------------------------------------------------------------------------
(* Properties *)

AtRest == \A c \in Conns : stage[c] = "ready"

(* No deletion fails, nor the tag rewrite of a connection that is granted. *)
Undone == Faults \subseteq {"subif", "mtu", "mech", "attach"}

(* A connection whose request succeeded is connected: its two interfaces   *)
(* are in one bridge of VPP, and the vlan tag is popped, whatever the      *)
(* handlers of other vlans do meanwhile.                                   *)
Connected ==
    Undone => \A c \in Conns : granted[c] =>
        /\ Exists(clientIf[c]) /\ Exists(serverIf[c])
        /\ member[serverIf[c]] # NoBd
        /\ member[serverIf[c]] = member[clientIf[c]]
        /\ VlanOf[c] # 0 => clientIf[c] \in popped

(* Connections that are in one bridge have the same vlan of the same       *)
(* device.                                                                 *)
Isolated ==
    \A c, d \in Conns : granted[c] /\ granted[d] =>
        \/ member[serverIf[c]] = NoBd
        \/ member[serverIf[c]] # member[serverIf[d]]
        \/ VlanOf[c] = VlanOf[d] /\ DeviceOf[c] = DeviceOf[d]

(* What is granted is bridged, with its own vlan and with nothing else. *)
BridgedRight == Connected /\ Isolated

(* Between requests the attached maps say what VPP says, whatever request  *)
(* failed on the way: an interface of the map that left the bridge would   *)
(* never be put into it again.                                             *)
AttachedMatchesVPP ==
    Undone /\ AtRest => \A k \in bridgeDomainKey : bridges[k] # NoBd =>
        attached[bridges[k]] = {i \in SwIfs : member[i] = bridges[k]}

(* The map knows every bridge of VPP, whatever failed: what is left over   *)
(* is used by the next connection to the vlan.                             *)
NoBridgeLost == AtRest => bds = {bridges[k] : k \in bridgeDomainKey} \ {NoBd}

(* The maps of the element agree with VPP. *)
MapsMatchVPP == BridgeTypeOK /\ AttachedMatchesVPP /\ NoBridgeLost
=============================================================================
