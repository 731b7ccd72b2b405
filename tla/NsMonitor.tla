------------------------------ MODULE NsMonitor ------------------------------
(***************************************************************************)
(* pkg/networkservice/nsmonitor: close a connection when the network       *)
(* namespace it leads to disappears.                                       *)
(*                                                                         *)
(* One connection id is modelled, through several sessions: it may be      *)
(* closed and requested again.  The first request of a session starts a    *)
(* watch: the goroutine of the monitor, which polls /proc, and the         *)
(* goroutine of the client, which closes the connection through the event  *)
(* factory of begin.  Goroutines of earlier sessions may still run.  The   *)
(* requests and closes themselves are serialised by begin.                 *)
(***************************************************************************)
EXTENDS Naturals, FiniteSets

CONSTANTS Inodes,      \* network namespaces
          NoInode,     \* the mechanism has no inode parameter
          MaxWatches   \* bound: sessions of the connection

ASSUME NsMonitorAssumption == NoInode \notin Inodes /\ MaxWatches \in Nat

Watches == 1..MaxWatches

VARIABLES
    established,  \* the connection is established (the state of begin)
    meta,         \* the watch whose cancel is in the metadata, or 0
    last,         \* the last watch started
    inodeURL,     \* inodeURL[w]: the namespace watched
    alive,        \* the namespaces whose pause process exists
    chainDone,    \* the context of the chain is done
    cancelled,    \* the watches whose cancel was called
    deleteCh,     \* deleteCh[w]: "open", "deleted" (a value, then closed) or "closed"
    monitor,      \* the goroutine of Watch
    client        \* the goroutine of the client

watchVars == <<established, meta, last, inodeURL, alive, chainDone, cancelled, deleteCh, monitor, client>>

WatchTypeOK == /\ established \in BOOLEAN
               /\ meta \in {0} \cup Watches
               /\ last \in {0} \cup Watches
               /\ inodeURL \in [Watches -> Inodes \cup {NoInode}]
               /\ alive \subseteq Inodes
               /\ chainDone \in BOOLEAN
               /\ cancelled \subseteq Watches
               /\ deleteCh \in [Watches -> {"open", "deleted", "closed"}]
               /\ monitor \in [Watches -> {"none", "resolve", "poll", "done"}]
               /\ client \in [Watches -> {"none", "select", "closing", "done"}]

WatchInit == /\ established = FALSE
             /\ meta = 0
             /\ last = 0
             /\ inodeURL = [w \in Watches |-> NoInode]
             /\ alive = Inodes
             /\ chainDone = FALSE
             /\ cancelled = {}
             /\ deleteCh = [w \in Watches |-> "open"]
             /\ monitor = [w \in Watches |-> "none"]
             /\ client = [w \in Watches |-> "none"]

(* cancelCtx is derived from the context of the chain. *)
CtxDone(w) == w \in cancelled \/ chainDone

-----------------------------------------------------------------------------
(* client.go *)

(* The first request of a session: cancel is stored, and a watch started   *)
(* if there is an inode.                                                   *)
StartWatch(i) ==
    LET w == last + 1
    IN  /\ last' = w /\ meta' = w
        /\ inodeURL' = [inodeURL EXCEPT ![w] = i]
        /\ IF i = NoInode
           THEN UNCHANGED <<monitor, client>>
           ELSE /\ monitor' = [monitor EXCEPT ![w] = "resolve"]
                /\ client' = [client EXCEPT ![w] = "select"]

(* Mutant of Request: a refresh starts a watch again. *)
Request_again(i) ==
    /\ established' = TRUE
    /\ StartWatch(i)
    /\ UNCHANGED <<alive, chainDone, cancelled, deleteCh>>

(* next.Request has succeeded (a failure changes nothing here).  A refresh *)
(* finds cancel in the metadata, whatever its inode is, and leaves the     *)
(* watch alone.                                                            *)
Request(i) ==
    /\ established' = TRUE
    /\ \/ meta = 0 /\ last < MaxWatches /\ StartWatch(i)
       \/ meta # 0 /\ UNCHANGED <<meta, last, inodeURL, monitor, client>>
    /\ UNCHANGED <<alive, chainDone, cancelled, deleteCh>>

(* LoadAndDelete, cancel, next.Close. *)
CloseConnection == /\ cancelled' = cancelled \cup ({meta} \ {0})
                   /\ meta' = 0
                   /\ established' = FALSE

(* The user of the connection closes it. *)
Close == /\ established
         /\ CloseConnection
         /\ UNCHANGED <<last, inodeURL, alive, chainDone, deleteCh, monitor, client>>

(* The goroutine ends, and its deferred cancel is called. *)
ClientEnds(w) == /\ client' = [client EXCEPT ![w] = "done"]
                 /\ cancelled' = cancelled \cup {w}

SelectDone(w) == /\ client[w] = "select" /\ CtxDone(w)
                 /\ ClientEnds(w)
                 /\ UNCHANGED <<established, meta, last, inodeURL, alive, chainDone, deleteCh, monitor>>

(* Mutant of SelectDelete: the close is not asked for. *)
SelectDelete_lost(w) ==
    /\ client[w] = "select" /\ deleteCh[w] # "open"
    /\ ClientEnds(w)
    /\ UNCHANGED <<established, meta, last, inodeURL, alive, chainDone, deleteCh, monitor>>

(* A value, while the context is not done, asks begin to close. *)
SelectDelete(w) ==
    /\ client[w] = "select" /\ deleteCh[w] # "open"
    /\ IF deleteCh[w] = "deleted" /\ ~CtxDone(w)
       THEN client' = [client EXCEPT ![w] = "closing"] /\ UNCHANGED cancelled
       ELSE ClientEnds(w)
    /\ UNCHANGED <<established, meta, last, inodeURL, alive, chainDone, deleteCh, monitor>>

(* Mutant of FactoryClose: without begin.CancelContext. *)
FactoryClose_any(w) ==
    /\ client[w] = "closing"
    /\ client' = [client EXCEPT ![w] = "done"]
    /\ IF established
       THEN CloseConnection
       ELSE UNCHANGED <<established, meta, cancelled>>
    /\ UNCHANGED <<last, inodeURL, alive, chainDone, deleteCh, monitor>>

(* begin runs the close when the requests and closes before it are done,   *)
(* unless the context given to CancelContext is done by then.              *)
FactoryClose(w) ==
    /\ client[w] = "closing"
    /\ client' = [client EXCEPT ![w] = "done"]
    /\ IF established /\ ~CtxDone(w)
       THEN CloseConnection
       ELSE UNCHANGED <<established, meta>> /\ cancelled' = cancelled \cup {w}
    /\ UNCHANGED <<last, inodeURL, alive, chainDone, deleteCh, monitor>>

-----------------------------------------------------------------------------
(* monitor.go: Watch *)

StopMonitor(w, c) ==
    /\ monitor' = [monitor EXCEPT ![w] = "done"]
    /\ deleteCh' = [deleteCh EXCEPT ![w] = c]
    /\ UNCHANGED <<established, meta, last, inodeURL, alive, chainDone, cancelled, client>>

(* No pause process has the inode, or /proc cannot be read. *)
ResolveFails(w) == monitor[w] = "resolve" /\ StopMonitor(w, "closed")

(* The inode must be one of a pause process. *)
resolveProcByInodeURL(w) ==
    /\ monitor[w] = "resolve"
    /\ inodeURL[w] \in alive
    /\ monitor' = [monitor EXCEPT ![w] = "poll"]
    /\ UNCHANGED <<established, meta, last, inodeURL, alive, chainDone, cancelled, deleteCh, client>>

(* The loop ends when the process or the context is gone; either way a     *)
(* value is sent, and the channel has room for it.                         *)
Poll(w) == /\ monitor[w] = "poll"
           /\ inodeURL[w] \notin alive \/ CtxDone(w)
           /\ StopMonitor(w, "deleted")

-----------------------------------------------------------------------------
(* The world outside *)

NamespaceGone(i) ==
    /\ i \in alive
    /\ alive' = alive \ {i}
    /\ UNCHANGED <<established, meta, last, inodeURL, chainDone, cancelled, deleteCh, monitor, client>>

ChainDone ==
    /\ ~chainDone
    /\ chainDone' = TRUE
    /\ UNCHANGED <<established, meta, last, inodeURL, alive, cancelled, deleteCh, monitor, client>>

Goroutines(w) == \/ SelectDone(w) \/ SelectDelete(w) \/ FactoryClose(w)
                 \/ ResolveFails(w) \/ resolveProcByInodeURL(w) \/ Poll(w)

WatchNext == \/ \E i \in Inodes \cup {NoInode} : Request(i)
             \/ Close
             \/ \E w \in Watches : Goroutines(w)
             \/ \E i \in Inodes : NamespaceGone(i)
             \/ ChainDone

WatchSpec == WatchInit /\ [][WatchNext]_watchVars

(* Goroutines run, and begin comes to every event in its queue. *)
WatchFairSpec == WatchSpec /\ \A w \in Watches :
    /\ WF_watchVars(SelectDone(w) \/ SelectDelete(w) \/ FactoryClose(w))
    /\ WF_watchVars(ResolveFails(w) \/ resolveProcByInodeURL(w) \/ Poll(w))

-----------------------------------------------------------------------------
(* Properties *)

(* A monitor ends a session only if the namespace it was started for is    *)
(* gone: a watch of an earlier session never closes a later one, and a     *)
(* watch that has stopped for another reason closes nothing.               *)
ClosedForCause ==
    [][\A w \in Watches : client[w] = "closing" /\ client'[w] = "done" /\ established /\ ~established'
          => meta = w /\ inodeURL[w] \notin alive]_watchVars

(* A connection whose namespace is gone is closed, unless the chain ends:  *)
(* the watch had found the process.                                        *)
GoneIsClosed ==
    \A w \in Watches : (meta = w /\ monitor[w] = "poll" /\ inodeURL[w] \notin alive)
                          ~> (meta # w \/ chainDone)

(* The goroutines of a session end after it was closed.                    *)
GoroutinesEnd ==
    \A w \in Watches : w \in cancelled ~> (monitor[w] \in {"none", "done"} /\ client[w] \in {"none", "done"})

(* A watch does its work and ends. *)
WatchesEnd == GoneIsClosed /\ GoroutinesEnd
=============================================================================
