-------------------------------- MODULE Vl3lb --------------------------------
(***************************************************************************)
(* pkg/networkservice/vl3lb: a load balancer in VPP (a CNAT translation)   *)
(* from the address of a client to the servers of its vl3 network service. *)
(*                                                                         *)
(* Every address the client gets starts a session: balanceService finds    *)
(* the vl3 endpoints (NSEs) and starts a goroutine (balanceNSE) for each,  *)
(* which follows the connections of its NSE and keeps the handler of the   *)
(* session and VPP up to date.  VPP is told the whole list of servers each *)
(* time; the list is read from the handler and sent in two steps that      *)
(* other goroutines may come between.                                      *)
(***************************************************************************)
EXTENDS Naturals, Sequences

CONSTANTS NSEs,         \* vl3 endpoints
          Conns,        \* ids of connections to the NSEs
          Selected,     \* those whose labels match the selector
          IPs,          \* addresses of servers
          Down,         \* no server: the connection is down or deleted
          MaxSessions,  \* bound: addresses the client gets
          MaxMonitors,  \* bound: goroutines per session and NSE
          MaxChanges,   \* bound: changes of connections and registrations
          Envs          \* the environments to consider

ASSUME Vl3lbAssumption ==
    /\ Selected \subseteq Conns
    /\ Down \notin IPs
    /\ {MaxSessions, MaxMonitors, MaxChanges} \subseteq Nat
    /\ Envs \subseteq [nses : SUBSET NSEs, conns : SUBSET Conns, ips : SUBSET IPs,
                       sessions : 1..MaxSessions, changes : 0..MaxChanges,
                       faults : SUBSET {"call", "break"}]

Sessions == 1..MaxSessions

(* A goroutine of balanceNSE: its session, its NSE and a serial number. *)
Monitors == Sessions \X NSEs \X (1..MaxMonitors)

(* What a handler knows (handler.servers), and what VPP is told. *)
Servers == [NSEs -> [Conns -> IPs \cup {Down}]]
NoServers == [n \in NSEs |-> [c \in Conns |-> Down]]

(* Some connections of an NSE and their states. *)
ConnEvent == UNION {[D -> IPs \cup {Down}] : D \in SUBSET Conns}

NoTranslation == [vip |-> 0, paths |-> NoServers]
Ids == 0..(MaxSessions - 1)

VARIABLES
    env,         \* what there is and what may fail in this behaviour
    lastSession, \* the last session started
    cancels,     \* the session whose cancel is in the metadata, or 0
    stopped,     \* the sessions whose context is done
    registered,  \* the NSEs the registry knows
    conns,       \* conns[n]: the connections of NSE n
    changes,     \* how often registered and conns have changed
    monitored,   \* monitored[s]: monitoredNSEs of balanceService
    servers,     \* servers[s]: the servers of the handler of session s
    stream,      \* stream[m]: the events goroutine m has to read
    todo,        \* todo[m]: the ids deleteServers is still to delete
    paths,       \* paths[m]: the list updateVPPCnat has read and is to send
    at, then,    \* where goroutine m is, and where it goes after updateVPPCnat
    cnat,        \* cnat[id]: the translations of VPP
    unwritten    \* the sessions whose last update came after their cancel, and was lost

sessionVars == <<lastSession, cancels, stopped>>
world == <<registered, conns, changes>>
routine == <<stream, todo, paths, at, then>>
cnatVars == <<cnat, unwritten>>
balanceVars == <<env, sessionVars, world, monitored, servers, routine, cnatVars>>

(* "call": VPP calls may fail; "break": streams may break *)
Failing == env.faults

BalanceTypeOK == /\ env \in Envs
                 /\ lastSession \in 0..MaxSessions /\ cancels \in 0..MaxSessions
                 /\ stopped \subseteq Sessions
                 /\ registered \subseteq NSEs
                 /\ conns \in Servers
                 /\ changes \in 0..MaxChanges
                 /\ monitored \in [Sessions -> SUBSET NSEs]
                 /\ servers \in [Sessions -> Servers]
                 /\ \A m \in Monitors : stream[m] \in Seq(ConnEvent) /\ paths[m] \in Servers
                 /\ todo \in [Monitors -> SUBSET Conns]
                 /\ at \in [Monitors -> {"none", "dial", "recv", "del", "read", "send", "end"}]
                 /\ then \in [Monitors -> {"recv", "del", "end"}]
                 /\ cnat \in [Ids -> [vip : {0} \cup Sessions, paths : Servers]]
                 /\ unwritten \subseteq Sessions

BalanceInit == /\ env \in Envs
               /\ lastSession = 0 /\ cancels = 0 /\ stopped = {}
               /\ registered \in SUBSET env.nses /\ conns = NoServers /\ changes = 0
               /\ monitored = [s \in Sessions |-> {}]
               /\ servers = [s \in Sessions |-> NoServers]
               /\ stream = [m \in Monitors |-> <<>>]
               /\ todo = [m \in Monitors |-> {}]
               /\ paths = [m \in Monitors |-> NoServers]
               /\ at = [m \in Monitors |-> "none"]
               /\ then = [m \in Monitors |-> "recv"]
               /\ cnat = [i \in Ids |-> NoTranslation]
               /\ unwritten = {}

SessionOf(m) == m[1]
NSEOf(m) == m[2]
MoveTo(m, step) == at' = [at EXCEPT ![m] = step]

-----------------------------------------------------------------------------
(* client.go *)

(* Mutant of loadAndDeleteCancel: the one that is stored is not looked at. *)
loadAndDeleteCancel_blind == stopped' = stopped \cup {cancels}

loadAndDeleteCancel == stopped' = stopped \cup ({cancels} \ {0})

(* The client has got another address than it asked for: the old session   *)
(* is cancelled and a new one started.  A refresh keeps the address and    *)
(* changes nothing.                                                        *)
RequestClient == /\ lastSession < env.sessions
                 /\ lastSession' = lastSession + 1
                 /\ cancels' = lastSession + 1
                 /\ loadAndDeleteCancel
                 /\ UNCHANGED <<world, monitored, servers, routine, cnatVars>>

CloseClient == /\ cancels # 0
               /\ cancels' = 0
               /\ loadAndDeleteCancel
               /\ UNCHANGED <<lastSession, world, monitored, servers, routine, cnatVars>>

-----------------------------------------------------------------------------
(* handler.go *)

(* updateVPPCnat first reads all servers of the handler ... *)
ReadServers(m) == /\ at[m] = "read"
                  /\ paths' = [paths EXCEPT ![m] = servers[SessionOf(m)]]
                  /\ MoveTo(m, "send")
                  /\ UNCHANGED <<sessionVars, world, monitored, servers, stream, todo, then, cnatVars>>

(* VPP finds a translation by its VIP, or makes one with the least free id. *)
IdOf(s) == CHOOSE i \in Ids :
              \/ cnat[i].vip = s
              \/ /\ \A j \in Ids : cnat[j].vip # s
                 /\ cnat[i].vip = 0 /\ \A j \in 0..(i - 1) : cnat[j].vip # 0

Translation(s, p) == [cnat EXCEPT ![IdOf(s)] = [vip |-> s, paths |-> p]]

(* ... and then sends the list to VPP.  An empty list deletes the          *)
(* translation 0.  Once the session is cancelled VPP may not get it: the   *)
(* call has the context of the session, all but the one with which the     *)
(* goroutine ends.  Errors are logged.                                     *)
updateVPPCnat(m) ==
    LET s == SessionOf(m)
        p == paths[m]
    IN  /\ at[m] = "send"
        /\ MoveTo(m, then[m])
        /\ \/ /\ cnat' = IF p = NoServers THEN [cnat EXCEPT ![0] = NoTranslation]
                                         ELSE Translation(s, p)
              /\ unwritten' = unwritten \ {s}
           \/ "call" \in Failing /\ UNCHANGED cnatVars
           \/ /\ s \in stopped /\ then[m] # "end"
              /\ unwritten' = unwritten \cup {s}
              /\ UNCHANGED cnat
        /\ paths' = [paths EXCEPT ![m] = NoServers]
        /\ UNCHANGED <<sessionVars, world, monitored, servers, stream, todo, then>>

(* Mutant of addServers: a server that is known keeps VPP as it is, though *)
(* its address may have changed.                                           *)
addServers_known(m, add) ==
    LET s == SessionOf(m)
        n == NSEOf(m)
    IN  /\ servers' = [servers EXCEPT ![s][n] =
                          [c \in Conns |-> IF c \in DOMAIN add THEN add[c] ELSE @[c]]]
        /\ IF \E c \in DOMAIN add : servers[s][n][c] = Down
           THEN MoveTo(m, "read") /\ then' = [then EXCEPT ![m] = "del"]
           ELSE MoveTo(m, "del") /\ UNCHANGED then

(* The new servers of an NSE are stored, and VPP is updated if there are   *)
(* any.                                                                    *)
addServers(m, add) ==
    LET s == SessionOf(m)
        n == NSEOf(m)
    IN  /\ servers' = [servers EXCEPT ![s][n] =
                          [c \in Conns |-> IF c \in DOMAIN add THEN add[c] ELSE @[c]]]
        /\ IF servers' # servers
           THEN MoveTo(m, "read") /\ then' = [then EXCEPT ![m] = "del"]
           ELSE MoveTo(m, "del") /\ UNCHANGED then

(* The given servers of an NSE are forgotten, and VPP is updated.          *)
deleteServers(m, del, next) ==
    LET s == SessionOf(m)
        n == NSEOf(m)
    IN  /\ servers' = [servers EXCEPT ![s][n] = [c \in Conns |-> IF c \in del THEN Down ELSE @[c]]]
        /\ IF del # {}
           THEN MoveTo(m, "read") /\ then' = [then EXCEPT ![m] = next]
           ELSE MoveTo(m, next) /\ UNCHANGED then

getServerIDsByVL3Name(m) == {c \in Conns : servers[SessionOf(m)][NSEOf(m)][c] # Down}

-----------------------------------------------------------------------------
(* common.go *)

(* balanceService hears of an NSE and starts a goroutine for it, unless it *)
(* has one under this name.                                                *)
balanceService(s, n) ==
    /\ s <= lastSession /\ s \notin stopped
    /\ n \in registered /\ n \notin monitored[s]
    /\ monitored' = [monitored EXCEPT ![s] = @ \cup {n}]
    /\ \E k \in 1..MaxMonitors :
          /\ at[<<s, n, k>>] = "none"
          /\ \A j \in 1..(k - 1) : at[<<s, n, j>>] # "none"
          /\ MoveTo(<<s, n, k>>, "dial")
    /\ UNCHANGED <<sessionVars, world, servers, stream, todo, paths, then, cnatVars>>

(* The registry says that an NSE was deleted. *)
NSEDeleted(s, n) ==
    /\ s <= lastSession /\ s \notin stopped
    /\ n \in monitored[s] \ registered
    /\ monitored' = [monitored EXCEPT ![s] = @ \ {n}]
    /\ UNCHANGED <<sessionVars, world, servers, routine, cnatVars>>

(* The labels decide: a connection that is down, or was deleted, is to be  *)
(* deleted from the servers, any other one added.                          *)
filterConnections(event) ==
    LET matching == DOMAIN event \cap Selected
        up == {c \in matching : event[c] # Down}
    IN  [add |-> [c \in up |-> event[c]], del |-> matching \ up]

(* MonitorConnections starts with the connections there are. *)
MonitorConnections(m) ==
    LET n == NSEOf(m)
    IN  /\ at[m] = "dial" /\ SessionOf(m) \notin stopped
        /\ stream' = [stream EXCEPT ![m] =
                         <<[c \in {d \in Conns : conns[n][d] # Down} |-> conns[n][c]]>>]
        /\ MoveTo(m, "recv")
        /\ UNCHANGED <<sessionVars, world, monitored, servers, todo, paths, then, cnatVars>>

(* The URL, the dial or the stream fails: the goroutine ends. *)
DialFails(m) == /\ at[m] = "dial"
                /\ SessionOf(m) \in stopped \/ "break" \in Failing
                /\ MoveTo(m, "end")
                /\ UNCHANGED <<sessionVars, world, monitored, servers, stream, todo, paths, then,
                               cnatVars>>

(* An event is read: its servers are added, and then others deleted. *)
RecvEvent(m) == /\ at[m] = "recv" /\ stream[m] # <<>>
                /\ stream' = [stream EXCEPT ![m] = Tail(@)]
                /\ LET f == filterConnections(Head(stream[m]))
                   IN  addServers(m, f.add) /\ todo' = [todo EXCEPT ![m] = f.del]
                /\ UNCHANGED <<sessionVars, world, monitored, paths, cnatVars>>

DeleteTodo(m) == /\ at[m] = "del"
                 /\ deleteServers(m, todo[m], "recv")
                 /\ todo' = [todo EXCEPT ![m] = {}]
                 /\ UNCHANGED <<sessionVars, world, monitored, stream, paths, cnatVars>>

(* Mutant of RecvFails: the goroutine ends and leaves its servers. *)
RecvFails_leave(m) == /\ at[m] = "recv"
                      /\ SessionOf(m) \in stopped \/ "break" \in Failing
                      /\ stream' = [stream EXCEPT ![m] = <<>>]
                      /\ MoveTo(m, "end")
                      /\ UNCHANGED <<sessionVars, world, monitored, servers, todo, then, paths,
                                     cnatVars>>

(* The stream breaks, or its context is done: all servers of the NSE go.   *)
RecvFails(m) == /\ at[m] = "recv"
                /\ SessionOf(m) \in stopped \/ "break" \in Failing
                /\ stream' = [stream EXCEPT ![m] = <<>>]
                /\ deleteServers(m, getServerIDsByVL3Name(m), "end")
                /\ UNCHANGED <<sessionVars, world, monitored, todo, paths, cnatVars>>

balanceNSE(m) == \/ MonitorConnections(m) \/ DialFails(m)
                 \/ RecvEvent(m) \/ DeleteTodo(m) \/ RecvFails(m)
                 \/ ReadServers(m) \/ updateVPPCnat(m)

-----------------------------------------------------------------------------
(* The registry and the NSEs *)

Register(n) == /\ changes < env.changes
               /\ registered' = (registered \ {n}) \cup ({n} \ registered)
               /\ changes' = changes + 1
               /\ UNCHANGED <<sessionVars, conns, monitored, servers, routine, cnatVars>>

(* A connection comes up, goes down or changes its address, and every      *)
(* stream of its NSE gets an event.                                        *)
ConnectionEvent(n, c, ip) ==
    /\ changes < env.changes
    /\ conns[n][c] # ip
    /\ conns' = [conns EXCEPT ![n][c] = ip]
    /\ changes' = changes + 1
    /\ stream' = [m \in Monitors |->
                     IF NSEOf(m) = n /\ at[m] \in {"recv", "del", "read", "send"} /\ then[m] # "end"
                     THEN Append(stream[m], [d \in {c} |-> ip]) ELSE stream[m]]
    /\ UNCHANGED <<sessionVars, registered, monitored, servers, todo, paths, at, then, cnatVars>>

BalanceNext == /\ \/ RequestClient \/ CloseClient
                  \/ \E s \in Sessions, n \in NSEs : balanceService(s, n) \/ NSEDeleted(s, n)
                  \/ \E m \in Monitors : balanceNSE(m)
                  \/ \E n \in env.nses : Register(n)
                  \/ \E n \in env.nses, c \in env.conns, ip \in env.ips \cup {Down} :
                        ConnectionEvent(n, c, ip)
               /\ UNCHANGED env

BalanceSpec == BalanceInit /\ [][BalanceNext]_balanceVars

(* Goroutines run, and a context that is done is noticed. *)
BalanceFairSpec == BalanceSpec /\ \A m \in Monitors : WF_balanceVars(balanceNSE(m) /\ UNCHANGED env)

-----------------------------------------------------------------------------
(* Properties *)

Active(m) == at[m] \notin {"none", "end"}
Idle(s) == \A m \in Monitors : SessionOf(m) = s => at[m] \in {"none", "dial", "recv", "end"}

(* The paths VPP has for the VIP of a session. *)
PathsOf(s) == IF \E i \in Ids : cnat[i].vip = s THEN cnat[IdOf(s)].paths ELSE NoServers

(* One goroutine has been started so far, and every update arrives. *)
SingleWriter ==
    /\ \A m, k \in Monitors : at[m] # "none" /\ at[k] # "none" => m = k
    /\ "call" \notin Failing

(* No other goroutine was started for the same NSE in the same session: an *)
(* NSE that is deleted and registered again may get a second one.          *)
Alone(m) == \A k \in Monitors \ {m} :
    SessionOf(k) = SessionOf(m) /\ NSEOf(k) = NSEOf(m) => at[k] = "none"

(* The handler follows the NSE: a goroutine that has read all its events   *)
(* leaves the selected connections of its NSE that are up, whatever the    *)
(* goroutines of other NSEs and sessions do.                               *)
HandlerFollows ==
    \A m \in Monitors : Alone(m) /\ at[m] = "recv" /\ stream[m] = <<>> =>
        \A c \in Conns : servers[SessionOf(m)][NSEOf(m)][c] =
                            IF c \in Selected THEN conns[NSEOf(m)][c] ELSE Down

(* "to add/delete one entry, we must also pass the old ones"               *)
(* (handler.go:62), and "deleteServers deletes the real servers from the   *)
(* VPP plugin" (handler.go:112): once no goroutine of a session has an     *)
(* update under way, VPP has the servers of the handler and no others,     *)
(* unless the last update was lost to the cancel.  A goroutine that ends   *)
(* with servers in the handler makes up for that one.                      *)
VPPFollows == \A s \in Sessions : Idle(s) /\ s \notin unwritten => PathsOf(s) = servers[s]

(* VPP balances over the connections that are up. *)
BalancedRight == HandlerFollows /\ (SingleWriter => VPPFollows)

(* The goroutines of a cancelled session end, and leave it no server. *)
SessionEnds ==
    \A s \in Sessions : s \in stopped ~>
        servers[s] = NoServers /\ \A m \in Monitors : SessionOf(m) = s => ~Active(m)
=============================================================================
