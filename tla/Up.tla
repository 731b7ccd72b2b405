--------------------------------- MODULE Up ---------------------------------
(***************************************************************************)
(* pkg/networkservice/up with ipsecup and peerup: after the rest of the    *)
(* chain has created the interfaces of a connection, set them up and wait  *)
(* for VPP to report the link (or the wireguard peer) up.                  *)
(*                                                                         *)
(* A request runs through the stages of its Plan: the server element sets  *)
(* the client's and the server's interface up, the client chain runs       *)
(* ipsecup, up and peerup as far as the mechanism asks for them.  The      *)
(* state of links and peers changes on its own; a change is an event for   *)
(* every watcher that is open, if VPP was asked for events before.  Events *)
(* reach a watcher in order and are not lost once the watcher is open.     *)
(***************************************************************************)
EXTENDS Naturals, Sequences

CONSTANTS Requests,   \* requests of different connections
          Elements,   \* the up elements: one per NewServer or NewClient
          ElementOf,  \* the element each request goes through
          Links,      \* interfaces
          Peers,      \* wireguard peers
          Plan,       \* the stages of each request
          MaxDowns    \* bound: how often a link or peer goes down again

Objects == Links \cup Peers

(* up without wait: the metadata does not ask to wait (up.Load) *)
Stage == [kind : {"up", "ipsecup"}, of : Links, wait : BOOLEAN]
            \cup [kind : {"peerup"}, of : Peers, wait : {TRUE}]

ASSUME UpAssumption ==
    /\ ElementOf \in [Requests -> Elements]
    /\ Plan \in [Requests -> Seq(Stage)]
    /\ Links \cap Peers = {}
    /\ MaxDowns \in Nat

Steps == {"idle", "init", "want", "next", "stage", "watch", "dump", "wait", "close", "done"}

VARIABLES
    inited,      \* inited[e]: element e has seen WantInterfaceEvents succeed
    initMutex,   \* initMutex[e]: the requests inside the mutex of e
    wanted,      \* what VPP sends events about: links, and single peers
    isUp,        \* the links and peers that are up
    downs,       \* how often each went down, up to MaxDowns
    events,      \* events[r]: what the watcher of r has not read yet
    open,        \* the requests that have a watcher
    stage,       \* stage[r]: the stage of its plan r is in
    pc, result

vars == <<inited, initMutex, wanted, isUp, downs, events, open, stage, pc, result>>

Event == [of : Objects, up : BOOLEAN]

TypeOK == /\ inited \in [Elements -> BOOLEAN]
          /\ initMutex \in [Elements -> SUBSET Requests]
          /\ wanted \in SUBSET Objects
          /\ isUp \in SUBSET Objects
          /\ downs \in [Objects -> 0..MaxDowns]
          /\ events \in [Requests -> Seq(Event)]
          /\ open \in SUBSET Requests
          /\ stage \in [Requests -> Nat]
          /\ pc \in [Requests -> Steps]
          /\ result \in [Requests -> {"none", "ok", "error"}]
          /\ \A r \in Requests : pc[r] \in {"stage", "watch", "dump", "wait"} =>
                stage[r] \in 1..Len(Plan[r]) + 1

Init == /\ inited = [e \in Elements |-> FALSE]
        /\ initMutex = [e \in Elements |-> {}]
        /\ wanted = {}
        /\ isUp = {}
        /\ downs = [o \in Objects |-> 0]
        /\ events = [r \in Requests |-> <<>>]
        /\ open = {}
        /\ stage = [r \in Requests |-> 1]
        /\ pc = [r \in Requests |-> "idle"]
        /\ result = [r \in Requests |-> "none"]

vpp == <<isUp, downs>>
watcher == <<events, open>>
initState == <<inited, initMutex>>

Goto(r, step) == pc' = [pc EXCEPT ![r] = step]

-----------------------------------------------------------------------------
(* init and initFunc: WantInterfaceEvents once per element.  A second      *)
(* registration of the process is refused with INVALID_REGISTRATION, which *)
(* counts as success.                                                      *)

InitUnlock(r) == initMutex' = [initMutex EXCEPT ![ElementOf[r]] = @ \ {r}]

InitFast(r) == /\ pc[r] = "idle"
               /\ inited[ElementOf[r]]
               /\ Goto(r, "next")
               /\ UNCHANGED <<inited, initMutex, wanted, vpp, watcher, stage, result>>

InitLock(r) == LET e == ElementOf[r]
               IN  /\ pc[r] = "idle"
                   /\ initMutex[e] = {}
                   /\ initMutex' = [initMutex EXCEPT ![e] = {r}]
                   /\ Goto(r, "init")
                   /\ UNCHANGED <<inited, wanted, vpp, watcher, stage, result>>

(* inited is read again under the mutex. *)
InitAgain(r) == LET e == ElementOf[r]
                IN  /\ pc[r] = "init"
                    /\ IF inited[e] THEN InitUnlock(r) /\ Goto(r, "next")
                                    ELSE UNCHANGED initMutex /\ Goto(r, "want")
                    /\ UNCHANGED <<inited, wanted, vpp, watcher, stage, result>>

initFunc(r) == /\ pc[r] = "want"
               /\ wanted' = wanted \cup Links
               /\ inited' = [inited EXCEPT ![ElementOf[r]] = TRUE]
               /\ InitUnlock(r)
               /\ Goto(r, "next")
               /\ UNCHANGED <<vpp, watcher, stage, result>>

(* Mutant of initFails: the mutex stays locked. *)
initFails_locked(r) == /\ pc[r] = "want"
                       /\ Goto(r, "done")
                       /\ result' = [result EXCEPT ![r] = "error"]
                       /\ UNCHANGED <<inited, initMutex, wanted, vpp, watcher, stage>>

(* Request returns the error; nothing was created yet. *)
initFails(r) == /\ pc[r] = "want"
                /\ InitUnlock(r)
                /\ Goto(r, "done")
                /\ result' = [result EXCEPT ![r] = "error"]
                /\ UNCHANGED <<inited, wanted, vpp, watcher, stage>>

-----------------------------------------------------------------------------
(* The stages *)

Current(r) == Plan[r][stage[r]]

(* The rest of the chain; its error is returned as it is. *)
CallNext(r) == /\ pc[r] = "next"
               /\ \/ Goto(r, "stage") /\ UNCHANGED result
                  \/ Goto(r, "done") /\ result' = [result EXCEPT ![r] = "error"]
               /\ UNCHANGED <<initState, wanted, vpp, watcher, stage>>

(* Leaving a wait closes the watcher (the deferred watcher.Close). *)
CloseWatcher(r) == /\ open' = open \ {r}
                   /\ events' = [events EXCEPT ![r] = <<>>]

(* Mutant of StageDone: a stage is skipped. *)
StageDone_skip(r) == /\ stage' = [stage EXCEPT ![r] = @ + 2]
                     /\ Goto(r, "stage")

StageDone(r) == /\ stage' = [stage EXCEPT ![r] = @ + 1]
                /\ Goto(r, "stage")

(* SwInterfaceSetFlags, and no wait unless the metadata asks for it. *)
up(r) == /\ Current(r).kind = "up"
         /\ IF Current(r).wait THEN Goto(r, "watch") /\ UNCHANGED stage ELSE StageDone(r)
         /\ UNCHANGED wanted

(* The ipsec interface is waited for before up sets it up. *)
ipsecup(r) == /\ Current(r).kind = "ipsecup"
              /\ Goto(r, "watch")
              /\ UNCHANGED <<wanted, stage>>

(* WantWireguardPeerEvents is asked for per peer, before the watcher. *)
peerup(r) == /\ Current(r).kind = "peerup"
             /\ wanted' = wanted \cup {Current(r).of}
             /\ Goto(r, "watch")
             /\ UNCHANGED stage

RunStage(r) == /\ pc[r] = "stage" /\ stage[r] <= Len(Plan[r])
               /\ up(r) \/ ipsecup(r) \/ peerup(r)
               /\ UNCHANGED <<initState, vpp, watcher, result>>

(* All stages are done: Request returns the connection. *)
Succeed(r) == /\ pc[r] = "stage" /\ stage[r] > Len(Plan[r])
              /\ Goto(r, "done")
              /\ result' = [result EXCEPT ![r] = "ok"]
              /\ UNCHANGED <<initState, wanted, vpp, watcher, stage>>

(* waitForUpLinkUp and waitForPeerUp: watch, look, then listen. *)

Watch(r) == /\ pc[r] = "watch"
            /\ open' = open \cup {r}
            /\ Goto(r, "dump")
            /\ UNCHANGED <<initState, wanted, vpp, events, stage, result>>

(* Mutant of Dump: the state is not looked at once the watcher is open. *)
Dump_stale(r) == /\ pc[r] = "dump"
                 /\ Goto(r, "wait")
                 /\ UNCHANGED <<initState, wanted, vpp, events, open, stage, result>>

Dump(r) == /\ pc[r] = "dump"
           /\ IF Current(r).of \in isUp
              THEN StageDone(r) /\ CloseWatcher(r)
              ELSE Goto(r, "wait") /\ UNCHANGED <<stage, events, open>>
           /\ UNCHANGED <<initState, wanted, vpp, result>>

(* One event is read: the one waited for ends the stage, others are        *)
(* dropped.                                                                *)
Receive(r) == /\ pc[r] = "wait"
              /\ events[r] # <<>>
              /\ IF Head(events[r]) = [of |-> Current(r).of, up |-> TRUE]
                 THEN StageDone(r) /\ CloseWatcher(r)
                 ELSE /\ events' = [events EXCEPT ![r] = Tail(@)]
                      /\ UNCHANGED <<pc, stage, open>>
              /\ UNCHANGED <<initState, wanted, vpp, result>>

WaitStep(r, kind) == /\ pc[r] \in {"watch", "dump", "wait"}
                     /\ Current(r).kind = kind
                     /\ Watch(r) \/ Dump(r) \/ Receive(r)

waitForUpLinkUp(r) == WaitStep(r, "up")
waitForIPsecUp(r) == WaitStep(r, "ipsecup")
waitForPeerUp(r) == WaitStep(r, "peerup")

(* A VPP call of the stage fails, or the context is done while waiting:    *)
(* the element closes what is below it and returns the error.              *)
StageFails(r) == /\ \/ pc[r] \in {"watch", "dump", "wait"}
                    \/ pc[r] = "stage" /\ stage[r] <= Len(Plan[r])
                 /\ Goto(r, "close")
                 /\ CloseWatcher(r)
                 /\ UNCHANGED <<initState, wanted, vpp, stage, result>>

closeOnFailure(r) == /\ pc[r] = "close"
                     /\ Goto(r, "done")
                     /\ result' = [result EXCEPT ![r] = "error"]
                     /\ UNCHANGED <<initState, wanted, vpp, watcher, stage>>

Progress(r) == \/ InitFast(r) \/ InitLock(r) \/ InitAgain(r) \/ initFunc(r) \/ initFails(r)
               \/ CallNext(r) \/ RunStage(r) \/ Succeed(r)
               \/ waitForUpLinkUp(r) \/ waitForIPsecUp(r) \/ waitForPeerUp(r)
               \/ closeOnFailure(r)

Handler(r) == Progress(r) \/ StageFails(r)

-----------------------------------------------------------------------------
(* VPP *)

(* A watcher gets the messages of one type: of links or of peers. *)
Sees(r, o) == r \in open /\ (o \in Links <=> Current(r).of \in Links)

Notify(o, u) == events' = [r \in Requests |->
    IF o \in wanted /\ Sees(r, o) THEN Append(events[r], [of |-> o, up |-> u]) ELSE events[r]]

GoUp(o) == /\ o \notin isUp
           /\ isUp' = isUp \cup {o}
           /\ Notify(o, TRUE)
           /\ UNCHANGED <<initState, wanted, downs, open, stage, pc, result>>

GoDown(o) == /\ o \in isUp /\ downs[o] < MaxDowns
             /\ isUp' = isUp \ {o}
             /\ downs' = [downs EXCEPT ![o] = @ + 1]
             /\ Notify(o, FALSE)
             /\ UNCHANGED <<initState, wanted, open, stage, pc, result>>

Next == \/ \E r \in Requests : Handler(r)
        \/ \E o \in Objects : GoUp(o) \/ GoDown(o)

Spec == Init /\ [][Next]_vars

(* Goroutines are scheduled, and a mutex is handed to a goroutine that     *)
(* keeps asking for it.  The peer of every link comes up in the end.       *)
(* Nothing makes a call fail or a context end.                             *)
FairSpec == /\ Spec
            /\ \A r \in Requests : WF_vars(Progress(r)) /\ SF_vars(InitLock(r))
            /\ \A o \in Objects : WF_vars(GoUp(o))

-----------------------------------------------------------------------------
(* Properties *)

(* No wakeup is lost: a request that waits for something that is up has    *)
(* the event that says so still to read, wherever the change fell between  *)
(* asking for events, opening the watcher and looking at the state.        *)
NoLostUp ==
    \A r \in Requests : pc[r] = "wait" /\ Current(r).of \in isUp =>
        \E i \in 1..Len(events[r]) : events[r][i] = [of |-> Current(r).of, up |-> TRUE]

(* Every request returns once its links and peers stay up, no timeout      *)
(* being needed for it.                                                    *)
RequestsReturn == \A r \in Requests : <>(pc[r] = "done")
=============================================================================
