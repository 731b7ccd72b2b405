# TLA+ specification of sdk-vpp

`sdk-vpp` is a library of Network Service Mesh (NSM) chain elements that
program VPP. An element handles the `Request` and the `Close` of a connection:
it calls the next element and, on the way in or out, creates, changes or deletes
objects of VPP and remembers them in the metadata of the connection. The
elements are put together to a forwarder (`chains/forwarder`) or an endpoint.

What makes them hard is not one call but the sequences: a `Request` is also the
refresh of a connection that exists, any call of a request may fail and the
request must then be undone, handlers of different connections run at the same
time over the same maps and the same VPP, some elements start goroutines that
outlive the request, and VPP gives out the index of a deleted object again.

## Conventions of all modules

* `begin` (an element of the NSM sdk) serialises the requests and closes of one
  connection; handlers of different connections interleave. So each connection
  has one program counter `pc[c]` (`doing`, `at` or `stage` in modules that share
  a module of proofs with another).
* Metadata of a connection is a function from connections (`meta`, `ifindex`,
  `peerIdx`, ...). It is dropped when the connection is closed.
* VPP is external: the set or function of the objects it has, with indices taken
  from a finite set and given out again. What one VPP call does is one step, or
  part of one where no other actor can see the difference (each module says so).
* `Faults` names what may go wrong; a fault is always a choice of the action,
  never forced. Where a run looks at several environments (which faults happen,
  which connections take part, whether handlers of one service overlap), the
  variable `env` is chosen from the constant `Envs` in `Init` and never changes.
  A property that holds in some of them only says so in its first line.
* A definition whose name ends in `_something` and whose comment starts with
  "Mutant of" is a plausible bug of the definition it is named after. No
  specification uses it. Replacing the definition by it makes the property it is
  listed with in `PROJECT.json` fail, which shows that the property is about the
  code.

## Inventory

| component | state | operations | what is hard | what must hold | module |
|---|---|---|---|---|---|
| loopback | Map: service -> (index, count); metadata | create/delete with the first/last connection, on an executor | refreshes, failing requests, client and server share a Map | exact count, no loopback in use deleted, one per service | `Loopback`, `SharedResource` |
| ipcontext: unnumbered, ipaddress, routes | flag in metadata; addresses and routes in VPP | borrow the address of the loopback, add it, lead a route to the interface | each may fail in front of a shared loopback | a granted connection keeps address and route | `Endpoint` |
| acl | map: connection -> indices, not in the metadata | make two ACLs, set the list, delete | Close deletes positions | a granted connection keeps its filter | `Endpoint` |
| vrf | two vrfMaps (v4, v6) with mutexes; attached interfaces; metadata | create, attach, delete tables | users counted by attached interfaces; two mutexes; overlapping handlers | table in use exists, one table per service, no deadlock | `Vrf` |
| up, ipsecup, peerup | `inited` and mutex per element; watchers | ask for events once, set up, wait | event between look and wait, failed registration, timeouts | no lost wakeup, requests return | `Up` |
| pinhole, afxdppinhole | ipPortMap per element, shared mutex, ACL lists of VPP; pinned eBPF map | dump, add ACL, replace list; put the ports into the map | read-modify-write of a list through VPP | no ACL lost or doubled, tunnels are let through | `Pinhole` |
| tools/heal | goroutines, response channel, deadline | ping each pair, collect | events shared by all watchers, late senders | no send on a closed channel, dead only for a cause | `LivenessCheck` |
| nsmonitor | cancel function in metadata, two goroutines per watch | watch, poll, close through the event factory | goroutines of old sessions | only its own session is closed, and only when the namespace is gone | `NsMonitor` |
| vl3lb | sessions, handler, monitored NSEs | follow NSEs, replace the CNAT translation | several goroutines write one translation; streams break | VPP has the servers of the handler; sessions end | `Vl3lb` |
| l2bridgedomain, vlan, l2vtr, vlan mtu | map of bridges and attached interfaces; MTU per device | create/join/leave/delete bridge and sub-interface | no mutex, steps that fail half way | granted means bridged; vlans apart | `BridgeDomain` |
| memif, memifproxy, memifrxmode, tools/proxy | socket, interface, proxy and cancel in metadata; goroutines; listener and sockets of a proxy | create, re-create, proxy, watch the link | refresh with another socket, ids given out again, cancellation of a proxy at work | memif on the right socket, proxy to the right target, nothing left behind | `Memif` |
| ipsec | interface in metadata, certificates in the mechanism, once | create/delete tunnel and IKEv2 profile at both ends | a dozen calls, remembered at the end; new certificate per reply | ends agree, nothing half-built is remembered | `Ipsec` |
| wireguard, peer | public key, interface, peers in metadata, keys in the mechanism | create/delete interface and peer at both ends | refresh keys, undo of an established connection, expiry of one end | granted means that both ends have each other's key | `Wireguard` |
| mtu elements of vxlan, wireguard, ipsec; connectioncontext/mtu | `mtu`, `inited`, mutex per element; MTU in mechanism and context | init once, lower, set | double-checked init read without the mutex; zero means unset | MTU fits both links with headers, and is set on both interfaces | `TunnelMtu`, `Forwarders` |
| kernel tap | interface in metadata | create, look for it in its namespace, re-create | the namespace goes with one end | a granted connection has a live interface | `Forwarders` |
| kernel veth pair, afpacket, ipneighbor, veth mtu | link, peer and interface in metadata; pair in the kernel | make the pair, af_packet on it, neighbors, MTU | a create that stops anywhere; pair and interface deleted by different elements | as above | `Forwarders` |
| vxlan, l2xconnect, l3xconnect, tag, ifindex, link | metadata; cross connects of VPP | create tunnel, join two interfaces both ways | indices are given out again, undo in the middle of a chain | joined both ways, never with another's interface | `Forwarders` |
| forwarder chain | - | the order of the elements | partial failure at either of two forwarders | granted means joined end to end | `Forwarders` |
| metrics, types, ethtool, mechutils | - | - | - | - | not modelled, see below |

How they interact: the mechanism elements store the interface (`ifindex`) and
the elements outside of them (up, mtu, xconnect, l2bridgedomain, vrf, acl) load
it on the way back; vrf attaches the interface that loopback created; the peer
element of wireguard loads the interface of wireguard and up waits for its peer;
unnumbered borrows the address that ipaddress puts on the loopback; xconnect
joins the interface of the server side with that of the client side;
pinhole elements of client and server share a mutex; nsmonitor and heal close a
connection from outside through `begin`. `PROJECT.json` lists the hazards at
their lines, with the properties that catch them.

## Modules

* `SharedResource` is the abstract specification of an object that all the
  connections of a network service share: created for the first user, the same
  for all, given up with the last. `Loopback` is shown to implement it.
* `Loopback`: `entries` is the shared `Map`, `meta` the metadata, `loops` the
  loopbacks of VPP. Bodies given to the executor are one step.
* `Endpoint` extends `Loopback` by the elements around it in the chain of an
  endpoint (routes, ipaddress, unnumbered in front, acl and the mechanism
  behind), one step per VPP call. `step[c]` is where the handler is; a failure
  closes from the element that failed on, which is where the loopback is given
  back or not. A `Close` that ends at a route forgets the connection
  (`RouteDelFails`, `Forget` of `Loopback`); its id may be requested anew.
  `EndpointSpec` implements the `Spec` of `Loopback`.
* `Vrf`: the steps of `Request` and `Close` between which the mutexes are free
  (`attach` takes both mutexes one after the other).
* `Up`: a request goes through the stages of its `Plan`; links and peers go up
  and down by themselves; an event goes to every open watcher.
* `Pinhole`: each VPP call of `create` is a step, so that the mutex and not the
  model keeps them together. The afxdppinhole elements come after them
  (`xdpPinhole`): a request goes on only when the pinned map has its ports.
* `LivenessCheck`: a goroutine per ping; `PingFinishedEvent` reaches all.
* `NsMonitor`: one connection id over several sessions, with the goroutines of
  each; `/proc` is whether the process of an inode exists.
* `Vl3lb`: a session of the client, a goroutine per NSE, the handler, VPP's
  translations; reading the handler and sending to VPP are two steps.
* `BridgeDomain`, `Memif`: a step per VPP call, handlers of different connections
  overlap. `proxies[c]` of `Memif` are the goroutines of tools/proxy: the one
  that accepts and dials, and the one that closes the listener when the context
  ends. A connection may have an old proxy that is ending and a new one.
* `Ipsec`: both ends and the message between them. The calls that build a
  profile are a sequence of stages (`Stages`); a failure stops at any of them. An
  element between the ends that fails on the way back is `BetweenFails`.
* `Wireguard`: both ends; one action per element and direction, so a request
  that fails is undone from the element that failed on, as in the code, also when
  it was one in front of the element or between the ends. A key pair is a number.
* Variables that are marked as ghosts (`undone`, `outlived`, `stale`, `unwatched`
  and, without a mark, `parted`, `unwritten`, `forgotten`) record that something has
  happened that a property makes an exception for. No action is guarded by one.
* `TunnelMtu`: `init` of the elements step by step (two looks at `inited`, the
  mutex, the store) and the MTUs on their way; arithmetic modulo `Word`. What
  the rest of the chains does to a request is `Elsewhere`.
* `Forwarders` extends `TunnelMtu` by the chains of two forwarders with a tunnel
  between them: `hop[c]` is the element (a position of `Chain`) and its step, up
  on the way back, down when closing; `from` is the element that started to
  close, so that the elements before it are left alone. `ports` and `xc` are the
  interfaces and cross connects of each VPP, `pair` the veth pair in the kernel.
* The eight `*Proofs` modules hold the theorems, each about the module it is
  named after and the modules below it; `WatchProofs` is about the elements that
  watch VPP, the system or other endpoints: `Up`, `LivenessCheck`, `NsMonitor` and
  `Vl3lb`, which it extends together, so the last three name their
  specifications `CheckSpec`, `WatchSpec` and `BalanceSpec`. The `MC*` modules give
  the constants values and nothing else.

## Runs

One run per component or chain. Every action, and every alternative of it, happens in
some run. Bounds are named in the `.cfg` files and the `MC` modules.

| run | instance | checks, besides the type invariant (a conjunct of the last one for `ipsec`, `bridge`, `memif`, `wireguard`) |
|---|---|---|
| `endpoint` | 2 servers and a client of one service, a client of another; 2 loopbacks, 3 interfaces, 4 ACLs; seven sets of failures, with and without filter | `SharedSafely` (`RefCountExact`, `NoNilDeref`, `LoopbackInUseExists`, `ServicesIsolated`), `Reachable` (`Addressed`, `Filtered`); the refinement `ImplementsSharedResource` |
| `vrf` | 3 connections of 2 services with failing attach; 2 of one service that overlap; 2 of one service where any call fails | `TablesServe` (`UsedTableKept`, `InterfacesInTable`, nothing has panicked) in the first; `EntryStable`, `NoCircularWait` |
| `up` | 3 requests, 2 elements, a link and a peer, each going down once | `NoLostUp`, `RequestsReturn` |
| `pinhole` | 3 requests, 2 elements with one mutex, filtered and unfiltered interfaces, a pinned map | `PinholesExact` (`PinholeOpen`, `NothingElse`, `XdpOpen`), `ListsOnlyGrow`, `RequestsReturn` |
| `liveness_check` | 3 checks with 2, 1 and 0 pings; calls fail, deadlines pass, a deadline may close the channel of a watcher | `NoSendOnClosed`, `VerdictRight` (`DeadHasCause`, `AllDeadNoticed`), `ChecksReturn` |
| `nsmonitor` | 3 sessions over 2 namespaces | `ClosedForCause`, `WatchesEnd` (`GoneIsClosed`, `GoroutinesEnd`) |
| `vl3lb` | one NSE and one session; two NSEs; two sessions; sessions are cancelled anywhere; an NSE that comes back gets a second goroutine | `BalancedRight` (`HandlerFollows`, and `VPPFollows` while one goroutine was started), `SessionEnds` |
| `ipsec` | 2 connections, 3 tunnel indices; failing calls, also of elements between the ends, with 5 certificates; also lost closes and expiry, and failing deletions, with 4 | `EndsAgree`, `StateMatchesVPP` (`RememberedIsComplete`, `ProtectedOnce`, `LeaksAreFailures`) |
| `bridge` | 2 connections of a vlan with one of the same vlan id of another device, or one of the device itself; handlers of different vlan ids overlap; any call fails | `BridgedRight` (`Connected`, `Isolated`), `MapsMatchVPP` (`AttachedMatchesVPP`, `NoBridgeLost`) |
| `memif` | 2 connections (one with memif on its server side), 2 socket names, 2 interfaces; refreshes that keep the mechanism with failing next element, name of the socket, creation, watcher, rx mode and element in front (2 failures); refreshes that change it with failing creation, deletion and element in front; then the direct memif alone with 2 proxies and 2 clients | `Served` (`MemifMatches`, `ProxyTarget`, `RxModeWatched`), `Clean` (`ClosedIsClean`, `LeaksAreFailures`, `ProxiesEnd`) |
| `wireguard` | 2 connections with failing calls and 5 keys; 2 with failing calls, lost closes and expiry and 4 keys; one with failing deletions as well and 4 keys | `GrantedIsTunnel`, `PeersAreOwn`, `StateMatchesVPP` (`RememberedExists`, `LeaksAreFailures`, `OnePeer`) |
| `forwarders` | 2 connections over 2 forwarders (MTUs of all kinds; lost taps; failing cross connects), and 1 connection with every failure; taps and veth pairs; Ethernet and IP; 4 indices per VPP, word of 16 | `ReadIsInitialised`, `Wired`, `IndexesMatchVPP`, `WiringKept`, `GrantedFits` |

Why the bounds are enough. The elements treat connections alike, and every
property relates at most two connections (of one service, vlan or device) or a
connection and one from elsewhere: three connections give a first, a last and a
stranger. There is one index more than is needed at once where a reused index
matters. Counters of changes, sessions, keys and certificates let an object be
created, replaced and created again, which is as far as the metadata remembers.
`TunnelMtu` compares and subtracts, so sixteen values with limits below, between
and above each other show all orders; that the width is 2^32 only matters for a
link smaller than the headers, which is excluded by the assumption on `Links`.
In `endpoint` and `forwarders` all kinds of failures together are tried with one
connection; with two, the kinds that the other connection can feel (an index or
a shared loopback becomes free, or does not). A proxy of `Memif` has two clients,
one that is joined and one on its way, and one successor.

### Known deviations

Where a property has a condition, or an instance a restriction, the condition is
needed. Lifted, TLC finds these behaviours of the code:

* `TablesServe` asks that handlers of one service do not overlap and that only
  `attach` fails. A close deletes the table that an overlapping request has
  loaded and not attached to yet (`vrf/common.go:124`). After a failing next
  element the table stays without users (`vrf/server.go:79`). After a failing
  IPv6 create on a refresh the metadata keeps the IPv4 id, and the retry
  attaches nothing (`vrf/server.go:68`); of a first request the metadata goes.
* `PinholesExact` has one tunnel IP per interface: two with one port share a tag
  and the second gets no ACL (`pinhole/server.go:83`).
* `VerdictRight` judges checks whose destinations are all alive or all dead: the
  event of one ping is taken for that of another
  (`tools/heal/liveness_check.go:97`). `ChecksReturn` excepts the checks with a
  ping that has found its channel closed at the deadline (`CutShort`): `select`
  may take that branch, the goroutine ends without a response, and
  `waitForResponses` never returns, though it is "Waiting for all ping results"
  (`:156`). No other way to lose a response exists. That an event on the channel is
  of another type is left out: the watcher asks for `PingFinishedEvent` only.
* `VPPFollows` has a single goroutine (`SingleWriter`): with two an older list of
  servers wins (`vl3lb/handler.go:162`), with two sessions the translation with id
  0 is deleted whatever the id is (`handler.go:182`). `HandlerFollows` has one
  goroutine per NSE and session (`Alone`): an NSE that comes back is monitored
  twice (`common.go:71`), and the goroutine that ends takes the servers of the
  other with it. `VPPFollows` excepts a session whose last update had the context
  of the session and was lost to its cancel (`unwritten`): VPP then keeps the list
  from before. When the event that deletes the last server is cut off like this
  (`common.go:130`), nothing is left to delete when the stream ends, and the
  translation stays.
* `BridgedRight` and `MapsMatchVPP` let only handlers of different vlan ids
  overlap: with one vlan there may be two bridges, and with one vlan id on two
  devices a request may get the index, and so the key, of a sub-interface whose
  bridge is being deleted (`l2bridgedomain/common.go:65`). `Connected` and
  `AttachedMatchesVPP` have no failing deletion and no failing tag rewrite, after
  which a stale entry of the attached map makes a later connection pass for
  attached (`server.go:84`).
* `ProxyTarget` has refreshes that find the same sockets: otherwise the proxy leads
  to the old one (`memifproxy/server.go:89`). `RxModeWatched` excepts the connections
  in `unwatched`: a memif made while the metadata still has the cancel function of
  memifrxmode is never waited for (`memifrxmode/server.go:63`), be it that a refresh
  finds another socket, or that it fails behind memifrxmode, as when the handle of
  the namespace is gone (`memif/common.go:186`), which deletes the memif and does
  not close memifrxmode; and a goroutine whose `SwInterfaceSetRxMode` fails
  (`memifrxmode/common.go:59`) ends without the mode. `MemifMatches` asks
  that VPP gives no socket id twice, since a deleted socket stays in the
  metadata and is deleted again (`memif/common.go:107`).
* `EndsAgree` of `Ipsec` excepts the connections that are `parted`: an element
  between the ends (mtu, tag, up or xconnect, `chains/forwarder/server.go:129`) that
  fails on a refresh closes the tunnel of the server, while the client only gets
  the error and keeps its own. Every retry brings a new certificate that the client
  ignores, until the client closes. The property asks that every close is heard:
  after a lost close or an expiry the ends differ in the same way. Deletions do
  not fail in it either.
* `GrantedIsTunnel` excepts the connections that are `undone`: their client has
  deleted its interface after a failure on a refresh (of an element in front, of the
  peer) and kept the mechanism, so the retry offers a key whose interface is gone
  and makes an interface with a new one (`wireguard/client.go:70`), until the
  connection is closed. `GrantedIsTunnel` and `PeersAreOwn` hold until a failure at
  either end has deleted an interface and left the index of a peer, under an older
  key, in the metadata (`stale`): a later close removes the peer that VPP has given
  the index to (`peer/common.go:101`). Failing calls alone are enough for either
  exception; but for them the two properties hold in all environments, with lost
  closes, expiry and failing deletions.
  `OnePeer` excepts an interface that has `outlived` that of the other side, and has
  or will get a peer for its old key and one for the new.
* `GrantedFits` assumes links larger than the headers: below, the uint32
  subtraction gives a huge MTU (`vxlan/mtu/common.go:67`).
* `Reachable` has no refresh that fails below the loopback: the metadata of
  unnumbered (`unnumbered/common.go:36`) and the map of acl, which is keyed by
  the connection (`acl/server.go:62`), say that the elements are done, while
  loopback or interface are made anew. `Filtered` looks at the direction of the
  ACLs for a single connection only: `Close` deletes positions and not indices
  (`acl/server.go:84`), so the ACLs 0 and 1 of another request may go before it
  has set them, and their indices come back in the other direction. ACLs in use
  VPP refuses to delete, so those of a connection leak. Nor is there a filter for a
  connection in `outlived`, whose id had ACLs in an earlier life: its map is keyed by the
  id (`acl/server.go:62`), and the `Close` that ended at a route never reached it
  (`routes/server.go:87`), so a new request of the id sets no ACL.
* Two first requests that put the address on their common loopback dump before
  either adds: the second fails and is closed (`ipaddress/common.go:53`). A
  routes server that cannot delete its route returns without closing the rest
  (`routes/server.go:87`), and the connection is forgotten with its loopback, which
  then nobody gives back. `SharedSafely` holds nevertheless: `RefCountExact` counts
  such uses (`forgotten`), and in `SharedResource` the object is `kept`.
* `Wired` is about granted connections: after a refresh that failed, the cross
  connect of the interface that is left points to an index that VPP may give to
  another connection (`l2xconnect/common.go:53`).
* `WiringKept` excludes veth pairs whose namespace could not be opened: the
  failed refresh deletes the pair but not the af_packet interface on it
  (`kernelvethpair/common.go:48`), and the next one finds the interface. A pair
  that was lost with its namespace is not made again either, and a link that got
  its name but not its alias blocks every retry.
* A veth pair that cannot be finished is deleted by `netlink.LinkDel`
  (`kernelvethpair/common.go:189`, `:200`, `:213`), which works in the namespace of the
  forwarder with a link whose index may be one of the target namespace: where
  another link of the forwarder has this index it may be deleted in its place.
  `VethFails` deletes the pair or nothing, and has no links but those of pairs.
* `IndexesMatchVPP` lets interfaces leak where a deletion fails: the tap forgets
  the index before it is deleted (`kerneltap/common.go:151`), vxlan keeps it, and
  l3xconnect stops at the first error. `GrantedFits` asks for the MTU of a veth
  pair at its first request only: a refresh does not set it
  (`kernelvethpair/mtu/common.go:38`). That a refresh never raises an MTU asks for
  deletions that work: a tunnel that an undo could not delete keeps the MTU of the
  refresh that failed (`vxlan/common.go:106`).
* `ProxyTarget` also has targets that can be dialled: one failure ends the proxy
  while the metadata still holds its cancel function, so every refresh is granted
  without a proxy (`proxy/proxy_listener.go:141`). A temporary error of `Accept`
  ends the process (`proxy_listener.go:131`): the loop goes on without a client.
  The model stops there (`crashed`).

### Liveness and fairness

A goroutine that can go on goes on: weak fairness of the steps of each request
or goroutine. Waiting for a mutex has strong fairness, as `sync.Mutex` hands
itself to a waiter that has waited for long. Neither new requests nor closes are
fair. In `Up` links and peers come up in the end (`WF` of `GoUp`, and at most
`MaxDowns` go down), without which a request may wait until its context ends;
failures and ends of contexts (`StageFails`) are not fair, so that
`RequestsReturn` shows that nothing else is waited for. In `LivenessCheck` the
deadline of the context expires, and the choice of `select` between the deadline and
the closed channel is free. In `NsMonitor` the poll of `/proc` goes on. In
`Vl3lb` a stream whose context is done returns an error; the calls of a cancelled
session may arrive or not. The other modules have
safety properties only; `NoCircularWait` says for `Vrf` that its two mutexes
cannot stop it.

`CHECK_DEADLOCK FALSE` is set where all requests of the instance may be done, or
where a counter (keys, certificates, changes) may be used up.

## Proofs

TLAPS checks eight modules, for any number of connections, services, requests
and interfaces, any words and links, and any set of environments. TLC has checked
each inductive invariant below on the instance of its run first.

`EndpointProofs`, about `Loopback` from `ConnsAssumption` (the set of connections is finite, each
has a service, `NoIf` is not an interface):

* `LoopbackSafe`: `Spec => [](TypeOK /\ SharedSafely)`, that is, of
  `RefCountExact`, `NoNilDeref`, `LoopbackInUseExists` and `ServicesIsolated`.
* `LoopbackRefines`: `Spec => ImplementsSharedResource`.

`RefCountExact` (the count of a service is the number of its holders and of those
that were forgotten with the loopback) is not inductive: to show that `del` finds the entry it decrements one must know that a
connection between the two steps of `del` still counts (`DelPending`), that an
entry exists exactly with a positive count, and that its interface is alive
(`EntryLive`). `IInv` is the conjunction. The steps fall into three kinds (a
connection joins, begins to leave, leaves on the executor), each a lemma;
`NextIInv` reduces every action to one of them or to a step that changes no
holder. The refinement maps users to the holders; the step
that begins to leave is a stutter, the end of `del` a `Leave` or a `Destroy`, and
`Forget` an `Abandon`, after which the object is kept.

About `Endpoint`, `EndpointRunsLoopback` says `EndpointSpec => Spec`, that is,
each step of the chain, whatever fails, is a step of the loopback elements or
leaves their variables alone (`HandleIsLoopbackStep`, one case per group of
elements). `EndpointSharedSafely` and `EndpointRefines` carry `SharedSafely` and
`ImplementsSharedResource` over to the chain. `EndpointTypes` says
`EndpointSpec => []EndpointTypeOK`, and `EndpointReachable`
`EndpointSpec => []Reachable`: the address, the route and the filter of a granted
connection. Its invariant has two layers. `BaseInv` holds whatever fails: where
the handler is in the chain tells where it is in the loopback element (`StepPc`),
an interface is nobody else's (`PortOwned`), and ACLs are made in `create` only
(`Making`). `KeptInv` holds if no refresh fails below the loopback, which is the
hypothesis inside `Reachable`: what unnumbered and acl remember is so in VPP
(`Borrowing`, `Listed`, `Directed`), and they forget it in time for the next
interface (`Forgotten`), but for acl and the connections in `outlived`. That `Filtered` survives the closes of others needs both
layers: acl deletes ACLs by their indices, and only `ListsExist` says that those
of a list are in use.

`VrfProofs`, from `VrfAssumption` (finite sets; services have loopbacks of their
own, which is `ServicesIsolated` of `Loopback`): `VrfTypeOK`,
`VrfNoCircularWait`, `VrfEntryStable` and `VrfTablesServe`. The first three need
only which mutex outlives a step (`HeldInAttach`: the one of IPv4, between the
two halves of `attach`). `TablesServe` is far from inductive. `ServeInv` follows
a handler through its steps (`Progress`: what has been created, attached, given
back so far), with one handler of a service at a time (`Alone`), tables that
exist and are not shared (`TablesExist`), interfaces that are attached only where
they are (`AttachedRight`) and belong to one connection (`OwnInterfaces`). The
count of users is the set of attached interfaces, and `AttachedRight` is why an
empty one means that nobody uses the table.

`WatchProofs`, about `Up` from `UpAssumption`: `UpTypeOK` and `UpNoLostUp`. The order in which
a request works is the invariant: events are asked for before anybody is past
`init` (`AskedFirst`), the watcher is open before the state is looked at
(`WatchedFirst`), and a request waits at a stage of its plan (`InPlan`).

About `LivenessCheck`, from `LivenessCheckAssumption`: `LivenessCheckTypeOK`,
`ChannelClosedLast` (`NoSendOnClosed`) and `LivenessVerdictRight`. `Counted` is
the argument for the channel: the responses still to come are those in the
channel and those of the goroutines that have not sent. `HeardRight` and
`AnsweredRight` say what an event and an answer witness, `BlamedRight` that a
`false` response is not lost between the goroutine and the verdict.

About `NsMonitor`, from `NsMonitorAssumption`: `NsMonitorTypeOK`, and
`NsMonitorClosedForCause` for `ClosedForCause`. A watch that nobody has cancelled
is the one of the present session (`LiveIsCurrent`), and what a monitor has sent
is true as long as the context is not done (`ValueIsTrue`), so that the check of
the context in `begin.CancelContext` is what makes a late close harmless. Both
need that a watch has done nothing before it is started (`StartedOnly`).

About `Vl3lb`, from `Vl3lbAssumption`: `Vl3lbTypeOK` and `Vl3lbBalancedRight`.
`Informed` is the argument for the handler: of the events on their way to a
goroutine the last one that mentions a connection tells its state, and if none
does the handler has it, or the server is still to be deleted (`UpToDate`). It
needs that the handler has no servers of an NSE before it is followed (`NotYet`),
and what a goroutine still has to do and where it goes afterwards (`TodoOK`). For
VPP `Written` says that VPP has a list for the session of the only goroutine and
no other translation, so that deleting the id 0 is right (`VPPHas`), and that it is
the list of the handler unless the goroutine is about to send or the cancel has
lost the last update (`InVPP`). A step of a goroutine
disturbs nobody else (`OwnStepIInv`), hence its proof is about itself only.

`PinholeBridgeProofs`, from `PinholeAssumption`: `PinholeTypeOK` without further
hypotheses; `PinholeListsGrow` if the elements share their mutex
(`MutexIsShared`, what `chains/forwarder/server.go:122` does by giving the same
one to all); `PinholesRight` if also no two tunnel IPs are on one interface
(`OneIPEach`), without which the tag, which has the port and not the IP
(`pinhole/server.go:83`), finds the ACL of the other. The invariant says what
a request knows under the mutex: `DumpFresh`, its dump is the list of VPP as it
is now, extended by what it needs. The mutex (`HoldsMutex`) is what keeps it
so while others run. `ListsOK` and `RememberedOpen` are about the lists and the
map between requests, `XdpSoFar` about the ports a request has put into the
pinned map.

The same module, from `BridgeAssumption`: `BridgesAreRight` and `BridgeMapsMatch`,
if the name of no device contains that of another (`NamesApart`): the vlan client
takes the first sub-interface whose name contains the name of its device
(`mechanisms/vlan/common.go:83`), which is otherwise that of another device. In
`BridgeInv`, `BridgesOK` says that the map has every bridge of VPP under one key,
`MembersOK` and `PortOrClient` what may be in a bridge, and `InOwn` that the port
of a connection is in no bridge but that of its own key: of this and the keys
being different (`SubsApart`) `Isolated` consists. `PlaceOK` and `TableOK` say what
a handler has at each of its stages; a connection that is granted still has its
interface because whoever deletes it has found no port attached, and it found all
of them (`BridgeDelSubIf`). Handlers of one vlan never overlap (`Serial`), so a
running handler has its key and its bridge for itself (`TableFrame`). Three parts
hold only without failing deletions: a port that goes has left its bridge
(`PortOK`), the attached maps have nothing that is not in the bridge but the
interface being deleted (`Exact`), and a bridge is never left under the key of an
interface that is gone (`KeyLive`), so that the client interface of a connection
can only be in the bridge of its key.

`IpsecProofs`, from `IpsecAssumption` (tunnel indices are finite, being words of
VPP, and `NoTunnel` is none of them): `IpsecStateMatchesVPP` and
`IpsecEndsAgree`. `VppInv` is `StateMatchesVPP` and that no two connections
remember one tunnel (`OwnTunnel`); without it deleting a tunnel could take that of
another. `AddTunnel` and `DelInterfaceVpp` show that every create, as far as it
gets, and every deletion keep it; `StagesProfiles` says what the profile is after
each call. Agreement needs the place of the request (`Ends`): while only calls
fail, and for connections that no element between the ends has parted, the server is the first to have a tunnel, made from the mechanism that it
answers with (`Joined` once the client has made its own), and the last to lose it,
so a new certificate in a later reply meets two tunnels that exist and changes
neither. A parted connection joins the others when its client has no tunnel any more:
until then `Ends` says nothing of it. A request has the certificates that it needs where it is (`Filled`).

`WireguardProofs`, from `WireguardAssumption` (interface indices are finite, keys
and peers have values other than `None`): `WireguardStateMatchesVPP`,
`WireguardGrantedIsTunnel` and `WireguardPeersAreOwn`, for every set of faults.
`VppInv`: remembered interfaces exist with their keys, are nobody else's
(`OwnInterface`), peers are on interfaces that exist (`PeersOnIfs`), and leaks are
counted. While no index of a peer was left behind, `PeerExists`: an index in the
metadata is that of a peer with this key on this interface, which is why no deletion
takes the peer of another connection. The rest is per connection (`CtlInv`): a
request has the keys that it needs where it is, the server's those of its interface
(`Filled`); an established connection has both keys (`Complete`); the key of the
client's interface is that in the mechanism, unless the connection is undone
(`KeysAgree`). `OnePeer` needs two more. `Single`: the peer of an interface that has
not outlived the other is the one remembered under the key of the other side,
which is therefore not made twice. `Closed`: a server that still has an interface
when its client starts anew, because a close was lost, has outlived it.

`ForwardersProofs`, about `TunnelMtu` from `TunnelMtuAssumption`: `MtuInitialised` says
`MtuSpec => []ReadIsInitialised`. That a request which reads `m.mtu` without the
mutex finds the value of the link is not inductive. `MtuInv` adds that whoever is
between the second look and the unlock holds the mutex (`MutexHeld`), and that
`inited` is set only after `m.mtu` and is true for all who have passed `init`
(`InitedIsSet`). The second look is what the step of `InitCheck` needs.

About `Forwarders`, from that and `ForwardersAssumption`, `ForwardersRunMtu` says
`Spec => MtuSpec` and `ForwardersReadInitialised` `Spec => []ReadIsInitialised`.
The chains change the fields of the mtu elements only through their steps, and
what they ask for or grant is a word. The invariant `FwdInv` says that a handler
elsewhere in the chains has no place among the mtu elements (`HopInv`), so that
what it does to its request is `Elsewhere`, and that a refresh asks for what was
granted (`LastInv`).

`ForwardersTypeOK`, `ForwardersIndexesMatch`, `ForwardersWired` and
`ForwardersWiringKept` are the theorems of the interfaces: `TypeOK`,
`IndexesMatchVPP` and `Wired` in every state and `WiringKept` of every step, for
any number of connections and interface indices, any room in VPP and any set of
failures. None of them is inductive. `IInv` adds to `FwdInv` and the types, for
each connection:

* `HopOK`: the handler is at a step that its element has, and a close never is in
  front of the element it began at;
* `OwnPorts`, `NoneLost`: the two halves of `IndexesMatchVPP`;
* `NoneEarly`, `NoneLeft`: a connection without metadata has only the interfaces
  its request has reached, and a close leaves none behind. `Finish` needs both:
  the metadata it drops leads to no interface any more;
* `MadeRight`: on the way up the interfaces of the elements passed are there,
  their taps alive, so that xconnect never works with an index that is not set;
* `PairRight`: the interface on a veth pair is in the metadata only while the pair
  is, and is forgotten before the pair is deleted;
* `JoinedSoFar`: the calls of xconnect that are done, the forwarder that has
  answered, and the connections that were granted.

The proof goes element by element. A step of an element that makes interfaces
touches the interface of its own end only (`Local`), which is `OwnPorts` again:
the index in the metadata is not one that VPP has given to another. So the others
are `Untouched` and keep their part (`UntouchedInv`), and what is left is where
the handler goes (`GoesUp`, `GoesDown`, `ElementStep`). The cross connects change
where the packets of the connection's own interfaces go (`CallsDone`, `AllDone`).
`WiringKept` follows from the same lemmas, step by step (`OwnWiring`,
`GrantedAlive`). TLC has checked `IInv` on the instance of the run `forwarders`.

`ForwardersGrantedFits` is `Spec => GrantedFits`, from the invariant `MtuIInv`:
`IInv`, `MtuInv`, that whoever has passed `init` has found a link (`LinkKnown`),
and per connection `MtuSoFar` (which limits the MTU of the request has met where it
is, and that a refresh never asks for more than was granted), `TunnelFits` (the MTU
that the tunnel at each forwarder has, by whether the request has passed it or a
close has spared it) and `NewPair` (a veth pair that is made for a first request).
The attempt to prove it has shown that it was stated too strongly: a refresh that
fails, and whose undo cannot delete the tunnel, leaves its own, smaller MTU on it,
and the next refresh asks for the last one granted, so it raises the MTU again.
`GrantedFits` now says so, and the run has an endpoint that lowers the MTU in an
environment with failing deletions.

`MemifProofs`, from `MemifAssumption` (socket ids are finite, being words of VPP):
`MemifServed` and `MemifClean`. `VppInv` says how VPP and the metadata agree:
every memif is on a socket that exists, a memif that is remembered is on the
remembered socket and of one connection only, and a socket id that VPP does not
give out again keeps its name until it is deleted. The leaks are counted by
`LostAreFailures`: a socket is held by the connection that has a memif on it or is
bound to use or to delete it (`Holds`), and those that nobody holds, or that an
orphan memif pins, are no more than the failed calls. `LeaksAreFailures` alone is
not inductive, since the metadata may go on naming a socket that it will not
delete. `Place` and `Ready` say what a handler has done at each of its
places, `RxOK` and `Watched` where the goroutine of memifrxmode is, `ProxyOK` the
same for the proxies. `Kept` is why no refresh loses the rx mode: while the metadata
has the cancel function, the link of the memif is waited for or has its mode, if
the connection is not in `unwatched`. The proof has shown that `ClosedIsClean` needs no assumption
on refreshes, so it is now stated, and checked, without one.

Every invariant and every safety property that a run checks is stated by a theorem.
Only model-checked: the liveness properties (`RequestsReturn`, `ChecksReturn`,
`WatchesEnd`, `SessionEnds`), which TLAPS cannot prove under fairness.

## Not modelled

* metrics: reads counters of VPP and reports them; no state that a later step
  depends on.
* tools/types, mechutils, ethtool: conversions of addresses and system calls on
  names, data that the properties do not tell apart.
* The clients of l2xconnect and l3xconnect (no chain of the repository uses
  them), the options of the forwarder chain (configuration), and the choice of a
  VNI (an element of the sdk).
* The bytes that tools/proxy copies, and the sockets of a client that leaves:
  they stay until the proxy ends.
* Restart of the process: nothing is persisted by these elements.

## Plan

1. Done: the elements with shared state or goroutines, the chains of an endpoint
   and of two forwarders.
2. Left out: `Vrf` does not implement `SharedResource`. A first request whose
   second allocation or whose attachment fails (`vrf/server.go:69`,
   `vrf/common.go:98`) leaves the table of its service without users; what
   holds of it is `TablesServe` and `EntryStable`.
3. Done: theorems about `Loopback`, `Endpoint`, `Vrf`, `Up`, `Pinhole`,
   `LivenessCheck`, `NsMonitor`, `Vl3lb`, `BridgeDomain`, `Ipsec`, `Memif`,
   `Wireguard`, `TunnelMtu` and `Forwarders`.
