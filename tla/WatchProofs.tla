---------------------------- MODULE WatchProofs ----------------------------
(***************************************************************************)
(* Proofs about the elements that watch VPP or the system.                 *)
(*                                                                         *)
(* Up for any number of requests, elements, interfaces and peers, and any  *)
(* plans: no wakeup is lost.                                               *)
(*                                                                         *)
(* LivenessCheck for any number of checks and pings: no goroutine sends on *)
(* a closed channel, and the verdicts are right.                           *)
(*                                                                         *)
(* NsMonitor for any number of sessions and of namespaces: a monitor       *)
(* closes a connection only for a cause.                                   *)
(*                                                                         *)
(* Vl3lb for any endpoints, connections, sessions and goroutines: VPP      *)
(* balances over the connections that are up.                              *)
(***************************************************************************)
EXTENDS Up, LivenessCheck, NsMonitor, Vl3lb, FiniteSetTheorems, TLAPS

-----------------------------------------------------------------------------
(* Up *)

(* Where a request is in its plan: it starts with the first stage, and     *)
(* while it waits its stage is one of the plan.                            *)
InPlan == \A r \in Requests :
    /\ stage[r] \in 1..Len(Plan[r]) + 1
    /\ pc[r] \in {"watch", "dump", "wait"} => stage[r] <= Len(Plan[r])

(* Events are asked for first: an element that calls itself inited, and a  *)
(* request that is past its init, have the events of all links; one that   *)
(* opens a watcher has the events of what it will wait for.                *)
AskedFirst ==
    /\ \A e \in Elements : inited[e] => Links \subseteq wanted
    /\ \A r \in Requests :
          /\ pc[r] \in {"next", "stage", "watch", "dump", "wait"} => Links \subseteq wanted
          /\ pc[r] \in {"watch", "dump", "wait"} => Current(r).of \in wanted

(* The watcher is open before the state is looked at, and until the wait   *)
(* is over.                                                                *)
WatchedFirst == \A r \in Requests : pc[r] \in {"dump", "wait"} => r \in open

(* The inductive invariant. *)
IInv == TypeOK /\ InPlan /\ AskedFirst /\ WatchedFirst /\ NoLostUp

(* The stage of a request that waits is a stage. *)
LEMMA CurrentType ==
    ASSUME TypeOK, InPlan, NEW r \in Requests, stage[r] <= Len(Plan[r])
    PROVE  /\ Current(r) \in Stage
           /\ Current(r).of \in Objects
           /\ Current(r).kind # "peerup" => Current(r).of \in Links
<1>1. Plan[r] \in Seq(Stage) /\ stage[r] \in 1..Len(Plan[r])
  BY UpAssumption DEF TypeOK, InPlan
<1>2. Current(r) \in Stage
  BY <1>1 DEF Current
<1>3. QED
  BY <1>2 DEF Stage, Objects

(* Nothing is up or waited for at the start. *)
LEMMA InitIInv == Init => IInv
<1> SUFFICES ASSUME Init PROVE IInv
  OBVIOUS
<1>1. \A r \in Requests : Len(Plan[r]) \in Nat
  BY UpAssumption
<1>2. TypeOK
  BY <1>1, UpAssumption DEF Init, TypeOK, Steps, Objects
<1>3. InPlan /\ AskedFirst /\ WatchedFirst /\ NoLostUp
  BY <1>1 DEF Init, InPlan, AskedFirst, WatchedFirst, NoLostUp
<1>4. QED
  BY <1>2, <1>3 DEF IInv

(* A step of the init of a request, or one that ends the request: nobody's *)
(* watcher, stage or wait is touched, and wanted does not shrink.          *)
LEMMA OutsideWaits ==
    ASSUME IInv, NEW r \in Requests,
           \/ InitFast(r) \/ InitLock(r) \/ InitAgain(r) \/ initFunc(r) \/ initFails(r)
           \/ CallNext(r) \/ Succeed(r) \/ closeOnFailure(r)
    PROVE  IInv'
<1> USE DEF IInv
<1>1. /\ UNCHANGED <<isUp, downs, events, open, stage>>
      /\ wanted \subseteq wanted'
      /\ pc' \in [Requests -> Steps]
      /\ \A q \in Requests \ {r} : pc'[q] = pc[q]
      /\ pc'[r] \in {"init", "want", "next", "stage", "done"}
  BY DEF InitFast, InitLock, InitAgain, initFunc, initFails, CallNext, Succeed, closeOnFailure,
         Goto, TypeOK, Steps, vpp, watcher
<1>2. TypeOK'
  <2> USE DEF InitFast, InitLock, InitAgain, initFunc, initFails, CallNext, Succeed, closeOnFailure
  <2>1. inited' \in [Elements -> BOOLEAN]
    BY DEF TypeOK, initState
  <2>2. initMutex' \in [Elements -> SUBSET Requests]
    BY DEF InitUnlock, TypeOK, initState
  <2>3. wanted' \in SUBSET Objects
    BY DEF TypeOK, Objects
  <2>4. result' \in [Requests -> {"none", "ok", "error"}]
    BY DEF TypeOK
  <2>5. QED
    BY <1>1, <2>1, <2>2, <2>3, <2>4 DEF TypeOK, InPlan
<1>3. InPlan'
  BY <1>1 DEF InPlan
<1>4. AskedFirst'
  <2>1. \A e \in Elements : inited'[e] => Links \subseteq wanted'
    BY UpAssumption DEF InitFast, InitLock, InitAgain, initFunc, initFails, CallNext, Succeed,
         closeOnFailure, TypeOK, AskedFirst, initState
  <2>2. pc'[r] \in {"next", "stage"} => Links \subseteq wanted'
    BY UpAssumption DEF InitFast, InitLock, InitAgain, initFunc, initFails, CallNext, Succeed,
         closeOnFailure, Goto, TypeOK, AskedFirst
  <2>3. QED
    BY <1>1, <2>1, <2>2 DEF AskedFirst, Current
<1>5. WatchedFirst'
  BY <1>1 DEF WatchedFirst
<1>6. NoLostUp'
  BY <1>1 DEF NoLostUp, Current
<1>7. QED
  BY <1>2, <1>3, <1>4, <1>5, <1>6

(* A stage is begun: an interface is set up, or the events of a peer are   *)
(* asked for.                                                              *)
LEMMA BeginsStage ==
    ASSUME IInv, NEW r \in Requests, RunStage(r)
    PROVE  IInv'
<1> USE DEF IInv
<1>1. stage[r] <= Len(Plan[r]) /\ pc[r] = "stage" /\ Len(Plan[r]) \in Nat
  BY UpAssumption DEF RunStage
<1>2. /\ Current(r) \in Stage
      /\ Current(r).of \in Objects
      /\ Current(r).kind # "peerup" => Current(r).of \in Links
  BY <1>1, CurrentType
<1>3. /\ UNCHANGED <<inited, initMutex, isUp, downs, events, open, result>>
      /\ wanted' \in SUBSET Objects /\ wanted \subseteq wanted'
      /\ \/ /\ pc' = [pc EXCEPT ![r] = "watch"]
            /\ stage' = stage
            /\ Current(r).of \in wanted'
         \/ /\ pc' = [pc EXCEPT ![r] = "stage"]
            /\ stage' = [stage EXCEPT ![r] = stage[r] + 1]
  BY <1>1, <1>2 DEF RunStage, up, ipsecup, peerup, StageDone, Goto, AskedFirst, TypeOK, Objects,
       initState, vpp, watcher
<1>4. /\ \A q \in Requests \ {r} : pc'[q] = pc[q] /\ stage'[q] = stage[q]
      /\ pc' \in [Requests -> Steps] /\ stage' \in [Requests -> Nat]
      /\ \/ pc'[r] = "watch" /\ stage'[r] = stage[r]
         \/ pc'[r] = "stage" /\ stage'[r] = stage[r] + 1
  <2>1. CASE pc' = [pc EXCEPT ![r] = "watch"] /\ stage' = stage
    BY <2>1 DEF TypeOK, Steps
  <2>2. CASE pc' = [pc EXCEPT ![r] = "stage"] /\ stage' = [stage EXCEPT ![r] = stage[r] + 1]
    BY <2>2 DEF TypeOK, Steps
  <2>3. QED
    BY <1>3, <2>1, <2>2
<1>5. InPlan'
  BY <1>1, <1>4 DEF InPlan
<1>6. TypeOK'
  BY <1>3, <1>4, <1>5 DEF TypeOK, InPlan
<1>7. AskedFirst'
  <2>1. pc'[r] = "watch" => Current(r).of \in wanted'
    BY <1>3 DEF TypeOK
  <2>2. QED
    BY <1>1, <1>3, <1>4, <2>1 DEF AskedFirst, Current
<1>8. WatchedFirst' /\ NoLostUp'
  BY <1>3, <1>4 DEF WatchedFirst, NoLostUp, Current
<1>9. QED
  BY <1>5, <1>6, <1>7, <1>8

(* The watcher of r is opened. *)
LEMMA OpensWatcher ==
    ASSUME IInv, NEW r \in Requests, Watch(r)
    PROVE  IInv'
<1> USE DEF IInv
<1>1. /\ UNCHANGED <<inited, initMutex, wanted, isUp, downs, events, stage, result>>
      /\ pc[r] = "watch" /\ pc' = [pc EXCEPT ![r] = "dump"]
      /\ open' = open \cup {r}
  BY DEF Watch, Goto, initState, vpp
<1>2. TypeOK' /\ InPlan'
  BY <1>1 DEF TypeOK, InPlan, Steps
<1>3. AskedFirst' /\ WatchedFirst' /\ NoLostUp'
  BY <1>1 DEF AskedFirst, WatchedFirst, NoLostUp, Current, TypeOK
<1>4. QED
  BY <1>2, <1>3

(* A wait is over, well or badly, and its watcher is closed. *)
LEMMA EndsWait ==
    ASSUME IInv, NEW r \in Requests,
           CloseWatcher(r), UNCHANGED <<inited, initMutex, wanted, isUp, downs, result>>,
           \/ /\ pc[r] \in {"dump", "wait"}
              /\ StageDone(r)
           \/ /\ pc' = [pc EXCEPT ![r] = "close"]
              /\ stage' = stage
    PROVE  IInv'
<1> USE DEF IInv
<1>1. Len(Plan[r]) \in Nat
  BY UpAssumption
<1>2. /\ \A q \in Requests \ {r} : /\ pc'[q] = pc[q] /\ stage'[q] = stage[q]
                                   /\ events'[q] = events[q] /\ (q \in open => q \in open')
      /\ pc'[r] \in {"stage", "close"}
      /\ pc'[r] = "stage" => pc[r] \in {"dump", "wait"}
      /\ pc' \in [Requests -> Steps]
      /\ stage' \in [Requests -> Nat]
      /\ stage'[r] \in 1..Len(Plan[r]) + 1
  <2>1. CASE pc[r] \in {"dump", "wait"} /\ StageDone(r)
    BY <1>1, <2>1 DEF CloseWatcher, StageDone, Goto, TypeOK, InPlan, Steps
  <2>2. CASE pc' = [pc EXCEPT ![r] = "close"] /\ stage' = stage
    BY <1>1, <2>2 DEF CloseWatcher, TypeOK, InPlan, Steps
  <2>3. QED
    BY <2>1, <2>2
<1>3. InPlan'
  BY <1>2 DEF InPlan
<1>4. TypeOK'
  <2>1. events' \in [Requests -> Seq(Event)] /\ open' \in SUBSET Requests
    BY DEF CloseWatcher, TypeOK
  <2>2. QED
    BY <1>2, <1>3, <2>1 DEF TypeOK, InPlan
<1>5. AskedFirst'
  BY <1>2 DEF AskedFirst, Current
<1>6. WatchedFirst' /\ NoLostUp'
  BY <1>2 DEF WatchedFirst, NoLostUp, Current
<1>7. QED
  BY <1>3, <1>4, <1>5, <1>6

(* The state is looked at with the watcher open: what is up ends the       *)
(* stage, and what is not will be an event.                                *)
LEMMA Dumps ==
    ASSUME IInv, NEW r \in Requests, Dump(r)
    PROVE  IInv'
<1> USE DEF IInv
<1>1. pc[r] = "dump" /\ UNCHANGED <<inited, initMutex, wanted, isUp, downs, result>>
  BY DEF Dump, initState, vpp
<1>2. CASE Current(r).of \in isUp
  <2>1. StageDone(r) /\ CloseWatcher(r)
    BY <1>2 DEF Dump
  <2>2. QED
    BY <1>1, <2>1, EndsWait
<1>3. CASE Current(r).of \notin isUp
  <2>1. pc' = [pc EXCEPT ![r] = "wait"] /\ UNCHANGED <<stage, events, open>>
    BY <1>3 DEF Dump, Goto
  <2>2. TypeOK' /\ InPlan'
    BY <1>1, <2>1 DEF TypeOK, InPlan, Steps
  <2>3. AskedFirst' /\ WatchedFirst'
    BY <1>1, <2>1 DEF AskedFirst, WatchedFirst, Current, TypeOK
  <2>4. NoLostUp'
    BY <1>1, <1>3, <2>1 DEF NoLostUp, Current, TypeOK
  <2>5. QED
    BY <2>2, <2>3, <2>4
<1>4. QED
  BY <1>2, <1>3

(* An event of another object, or of a link that went down, is dropped:    *)
(* the event that is waited for is behind it.                              *)
LEMMA Receives ==
    ASSUME IInv, NEW r \in Requests, Receive(r)
    PROVE  IInv'
<1> USE DEF IInv
<1> DEFINE ev == [of |-> Current(r).of, up |-> TRUE]
<1>1. /\ pc[r] = "wait" /\ UNCHANGED <<inited, initMutex, wanted, isUp, downs, result>>
      /\ events[r] \in Seq(Event) /\ events[r] # <<>>
  BY DEF Receive, initState, vpp, TypeOK
<1>2. CASE Head(events[r]) = ev
  <2>1. StageDone(r) /\ CloseWatcher(r)
    BY <1>2 DEF Receive
  <2>2. QED
    BY <1>1, <2>1, EndsWait
<1>3. CASE Head(events[r]) # ev
  <2>1. events' = [events EXCEPT ![r] = Tail(events[r])] /\ UNCHANGED <<pc, stage, open>>
    BY <1>3 DEF Receive
  <2>2. TypeOK' /\ InPlan'
    <3>1. Tail(events[r]) \in Seq(Event)
      BY <1>1
    <3>2. QED
      BY <1>1, <2>1, <3>1 DEF TypeOK, InPlan
  <2>3. AskedFirst' /\ WatchedFirst'
    BY <1>1, <2>1 DEF AskedFirst, WatchedFirst, Current
  <2>4. NoLostUp'
    <3>1. ASSUME NEW i \in 1..Len(events[r]), events[r][i] = ev
          PROVE  /\ i - 1 \in 1..Len(Tail(events[r]))
                 /\ Tail(events[r])[i - 1] = ev
      BY <1>1, <1>3, <3>1
    <3>2. ASSUME Current(r).of \in isUp
          PROVE  \E j \in 1..Len(events'[r]) : events'[r][j] = ev
      BY <1>1, <2>1, <3>1, <3>2 DEF NoLostUp, TypeOK
    <3>3. \A q \in Requests \ {r} : events'[q] = events[q]
      BY <2>1 DEF TypeOK
    <3>4. QED
      BY <1>1, <2>1, <3>2, <3>3 DEF NoLostUp, Current
  <2>5. QED
    BY <2>2, <2>3, <2>4
<1>4. QED
  BY <1>2, <1>3

(* A link or peer changes: whoever waits for it is told, because its       *)
(* watcher is open and the events are asked for.                           *)
LEMMA Changes ==
    ASSUME IInv, NEW o \in Objects, GoUp(o) \/ GoDown(o)
    PROVE  IInv'
<1> USE DEF IInv
<1>1. UNCHANGED <<inited, initMutex, wanted, open, stage, pc, result>>
  BY DEF GoUp, GoDown, initState
<1>2. PICK u \in BOOLEAN : /\ Notify(o, u)
                           /\ isUp' = IF u THEN isUp \cup {o} ELSE isUp \ {o}
  BY DEF GoUp, GoDown
<1>3. ASSUME NEW q \in Requests
      PROVE  /\ events[q] \in Seq(Event)
             /\ events'[q] = IF o \in wanted /\ Sees(q, o)
                             THEN Append(events[q], [of |-> o, up |-> u]) ELSE events[q]
  BY <1>2 DEF Notify, TypeOK
<1>4. events' \in [Requests -> Seq(Event)]
  <2>1. [of |-> o, up |-> u] \in Event
    BY DEF Event
  <2>2. QED
    BY <1>2, <1>3, <2>1 DEF Notify
<1>5. isUp' \in SUBSET Objects /\ downs' \in [Objects -> 0..MaxDowns]
  <2>1. CASE GoUp(o)
    BY <2>1 DEF GoUp, TypeOK
  <2>2. CASE GoDown(o)
    BY <2>2, UpAssumption DEF GoDown, TypeOK
  <2>3. QED
    BY <2>1, <2>2
<1>6. TypeOK' /\ InPlan'
  BY <1>1, <1>4, <1>5 DEF TypeOK, InPlan
<1>7. AskedFirst' /\ WatchedFirst'
  BY <1>1 DEF AskedFirst, WatchedFirst, Current
<1>8. NoLostUp'
  <2> SUFFICES ASSUME NEW r \in Requests, pc[r] = "wait", Current(r).of \in isUp'
               PROVE  \E i \in 1..Len(events'[r]) :
                         events'[r][i] = [of |-> Current(r).of, up |-> TRUE]
    BY <1>1 DEF NoLostUp, Current
  <2>1. CASE Current(r).of \in isUp
    <3>1. PICK i \in 1..Len(events[r]) : events[r][i] = [of |-> Current(r).of, up |-> TRUE]
      BY <2>1 DEF NoLostUp
    <3>2. i \in 1..Len(events'[r]) /\ events'[r][i] = events[r][i]
      <4>1. i \in 1..Len(Append(events[r], [of |-> o, up |-> u]))
            /\ Append(events[r], [of |-> o, up |-> u])[i] = events[r][i]
        BY <1>3
      <4>2. QED
        BY <1>3, <4>1
    <3>3. QED
      BY <3>1, <3>2
  <2>2. CASE Current(r).of \notin isUp
    <3>1. Current(r).of = o /\ u = TRUE
      BY <1>2, <2>2
    <3>2. o \in wanted /\ Sees(r, o)
      BY <3>1 DEF AskedFirst, WatchedFirst, Sees
    <3>3. events'[r] = Append(events[r], [of |-> o, up |-> TRUE])
      BY <1>3, <3>1, <3>2
    <3>4. Len(events'[r]) \in 1..Len(events'[r])
          /\ events'[r][Len(events'[r])] = [of |-> o, up |-> TRUE]
      BY <1>3, <3>3
    <3>5. QED
      BY <3>1, <3>4
  <2>3. QED
    BY <2>1, <2>2
<1>9. QED
  BY <1>6, <1>7, <1>8

(* The invariant is kept by every step. *)
LEMMA NextIInv == IInv /\ [Next]_vars => IInv'
<1> SUFFICES ASSUME IInv, [Next]_vars PROVE IInv'
  OBVIOUS
<1>1. ASSUME NEW r \in Requests, Progress(r) PROVE IInv'
  BY <1>1, OutsideWaits, BeginsStage, OpensWatcher, Dumps, Receives
     DEF Progress, waitForUpLinkUp, waitForIPsecUp, waitForPeerUp, WaitStep
<1>2. ASSUME NEW r \in Requests, StageFails(r) PROVE IInv'
  BY <1>2, EndsWait DEF StageFails, Goto, initState, vpp
<1>3. ASSUME NEW o \in Objects, GoUp(o) \/ GoDown(o) PROVE IInv'
  BY <1>3, Changes
<1>4. CASE UNCHANGED vars
  BY <1>4 DEF vars, IInv, TypeOK, InPlan, AskedFirst, WatchedFirst, NoLostUp, Current
<1>5. QED
  BY <1>1, <1>2, <1>3, <1>4 DEF Next, Handler

(* The invariant holds in every reachable state. *)
LEMMA AlwaysIInv == Spec => []IInv
BY InitIInv, NextIInv, PTL DEF Spec

(* The state of any number of requests keeps its type: in particular the   *)
(* stage of a request never runs past its plan.                            *)
THEOREM UpTypeOK == Spec => []TypeOK
<1>1. IInv => TypeOK
  BY DEF IInv
<1>2. QED
  BY <1>1, AlwaysIInv, PTL

(* However the changes of links and peers fall between asking for events,  *)
(* opening the watcher and looking at the state (waitForUpLinkUp,          *)
(* waitForPeerUp), a request that waits for something that is up has the   *)
(* event that says so still to read.                                       *)
THEOREM UpNoLostUp == Spec => []NoLostUp
<1>1. IInv => NoLostUp
  BY DEF IInv
<1>2. QED
  BY <1>1, AlwaysIInv, PTL

-----------------------------------------------------------------------------
(* LivenessCheck *)

(* The responses of check k that have not been sent: some never will be. *)
Pending(k) == {p \in PingsOf(k) : answer[p] \in {"none", "silent"}}

(* What a check still waits for is what is in the channel and what its     *)
(* goroutines have not sent; a check that has returned has read it all.    *)
Counted == \A k \in Checks :
    /\ respCount[k] = Cardinality(Pending(k)) + Len(responseCh[k])
    /\ Closed(k) => respCount[k] = 0

(* An event tells of a ping that was, or was not, replied to. *)
HeardRight == \A p \in Pings : \A i \in 1..Len(heard[p]) :
    IF heard[p][i] THEN reachable # {} ELSE reachable # Pings

(* So does the answer a goroutine ends with. *)
AnsweredRight == \A p \in Pings :
    /\ doing[p] = "done" <=> answer[p] # "none"
    /\ answer[p] = "replies" => reachable # {}
    /\ answer[p] = "noReplies" => reachable # Pings

(* A response that blames the connection is in the channel or was read. *)
Blamed(k) == success[k] = FALSE \/ \E i \in 1..Len(responseCh[k]) : responseCh[k][i] = FALSE

BlamedRight == \A k \in Checks :
    Blamed(k) <=> \E p \in PingsOf(k) : answer[p] = "noReplies"

(* The verdict is the conjunction of the responses. *)
Concluded == \A k \in Checks : /\ verdict[k] = "alive" => success[k] = TRUE
                               /\ verdict[k] = "dead" => success[k] = FALSE

CheckIInv == CheckTypeOK /\ Counted /\ HeardRight /\ AnsweredRight /\ BlamedRight /\ Concluded

(* Sets of pings of a check are finite and can be counted. *)
LEMMA PingsCard ==
    ASSUME NEW H \in SUBSET Pings
    PROVE  /\ Cardinality(H) \in Nat
           /\ Cardinality(H) = 0 <=> H = {}
           /\ \A p \in H : Cardinality(H \ {p}) = Cardinality(H) - 1
<1>1. IsFiniteSet(H)
  BY LivenessCheckAssumption, FS_Subset
<1>2. Cardinality(H) \in Nat
  BY <1>1, FS_CardinalityType
<1>3. Cardinality(H) = 0 <=> H = {}
  BY <1>1, FS_EmptySet
<1>4. ASSUME NEW p \in H PROVE Cardinality(H \ {p}) = Cardinality(H) - 1
  BY <1>1, <1>4, FS_RemoveElement
<1>5. QED
  BY <1>2, <1>3, <1>4

(* What the first element of a channel and the rest of it are. *)
LEMMA TailFacts ==
    ASSUME NEW S, NEW s \in Seq(S), s # <<>>
    PROVE  /\ Len(s) \in Nat /\ Len(s) >= 1
           /\ Head(s) \in S /\ Head(s) = s[1]
           /\ Tail(s) \in Seq(S) /\ Len(Tail(s)) = Len(s) - 1
           /\ \A i \in 1..Len(s) - 1 : Tail(s)[i] = s[i + 1]
OBVIOUS

(* What a channel holds after one more value was sent. *)
LEMMA AppendFacts ==
    ASSUME NEW S, NEW s \in Seq(S), NEW e \in S
    PROVE  /\ Len(s) \in Nat
           /\ Append(s, e) \in Seq(S) /\ Len(Append(s, e)) = Len(s) + 1
           /\ Append(s, e)[Len(s) + 1] = e
           /\ \A i \in 1..Len(s) : Append(s, e)[i] = s[i]
OBVIOUS

(* The invariant has what the properties ask for. *)
LEMMA IInvImplies == CheckIInv => CheckTypeOK /\ NoSendOnClosed /\ VerdictRight
<1> SUFFICES ASSUME CheckIInv PROVE NoSendOnClosed /\ VerdictRight
  BY DEF CheckIInv
<1> USE DEF CheckIInv
<1>1. ASSUME NEW k \in Checks, Closed(k) PROVE Pending(k) = {} /\ responseCh[k] = <<>>
  <2>1. Pending(k) \in SUBSET Pings
    BY DEF Pending, PingsOf
  <2>2. Cardinality(Pending(k)) \in Nat /\ (Cardinality(Pending(k)) = 0 => Pending(k) = {})
    BY <2>1, PingsCard
  <2>3. responseCh[k] \in Seq(Response)
    BY DEF CheckTypeOK
  <2>4. Cardinality(Pending(k)) + Len(responseCh[k]) = 0
    BY <1>1 DEF Counted
  <2>5. QED
    BY <2>2, <2>3, <2>4
<1>2. NoSendOnClosed
  BY <1>1 DEF NoSendOnClosed, Pending, AnsweredRight, PingsOf
<1>3. DeadHasCause
  <2> SUFFICES ASSUME NEW k \in Checks, verdict[k] = "dead" PROVE reachable # Pings
    BY DEF DeadHasCause
  <2>1. Blamed(k)
    BY DEF Concluded, Blamed
  <2>2. PICK p \in PingsOf(k) : answer[p] = "noReplies"
    BY <2>1 DEF BlamedRight
  <2>3. QED
    BY <2>2 DEF AnsweredRight, PingsOf
<1>4. AllDeadNoticed
  <2> SUFFICES ASSUME NEW k \in Checks, verdict[k] = "alive", reachable = {},
                      NEW p \in PingsOf(k)
               PROVE  answer[p] = "excused"
    BY DEF AllDeadNoticed
  <2>1. answer[p] \notin {"none", "silent"} /\ responseCh[k] = <<>>
    BY <1>1 DEF Pending, Closed
  <2>2. answer[p] # "replies"
    BY <2>1 DEF AnsweredRight, PingsOf
  <2>3. ~Blamed(k)
    BY <2>1 DEF Concluded, Blamed
  <2>4. answer[p] # "noReplies"
    BY <2>3 DEF BlamedRight
  <2>5. QED
    BY <2>1, <2>2, <2>4 DEF CheckTypeOK, PingsOf
<1>5. QED
  BY <1>2, <1>3, <1>4 DEF VerdictRight

(* All responses are to come at the start. *)
LEMMA InitCheckIInv == CheckInit => CheckIInv
<1> SUFFICES ASSUME CheckInit PROVE CheckIInv
  OBVIOUS
<1>1. ASSUME NEW k \in Checks
      PROVE  Cardinality(PingsOf(k)) \in Nat /\ Pending(k) = PingsOf(k)
  <2>1. PingsOf(k) \in SUBSET Pings
    BY DEF PingsOf
  <2>2. QED
    BY <2>1, PingsCard DEF CheckInit, Pending, PingsOf
<1>2. CheckTypeOK
  BY <1>1 DEF CheckInit, CheckTypeOK, combinationCount
<1>3. Counted
  BY <1>1 DEF CheckInit, Counted, Closed, combinationCount
<1>4. HeardRight /\ AnsweredRight
  BY DEF CheckInit, HeardRight, AnsweredRight
<1>5. BlamedRight /\ Concluded
  BY DEF CheckInit, BlamedRight, Blamed, Concluded, PingsOf
<1>6. QED
  BY <1>2, <1>3, <1>4, <1>5 DEF CheckIInv

(* A step that leaves a check with the same responses not sent. *)
LEMMA SamePending ==
    ASSUME NEW k \in Checks,
           \A p \in PingsOf(k) : answer'[p] \in {"none", "silent"} <=> answer[p] \in {"none", "silent"}
    PROVE  Pending(k)' = Pending(k)
BY DEF Pending, PingsOf

(* A step of goroutine q, or of nobody, that sends nothing: no response is *)
(* sent or read, and no verdict given.                                     *)
LEMMA NothingSent ==
    ASSUME CheckIInv, CheckTypeOK', HeardRight', UNCHANGED <<reachable, answer, responseCh, respCount, success, verdict>>,
           \A p \in Pings : doing'[p] = "done" <=> doing[p] = "done"
    PROVE  CheckIInv'
<1> USE DEF CheckIInv
<1>1. Counted'
  <2>1. ASSUME NEW k \in Checks PROVE Pending(k)' = Pending(k)
    BY SamePending DEF PingsOf
  <2>2. QED
    BY <2>1 DEF Counted, Closed
<1>2. AnsweredRight' /\ BlamedRight' /\ Concluded'
  BY DEF AnsweredRight, BlamedRight, Blamed, Concluded
<1>3. QED
  BY <1>1, <1>2

(* The goroutines of a check are started; a check of nothing returns.      *)
LEMMA Starts ==
    ASSUME CheckIInv, NEW k \in Checks, VPPLivenessCheck(k)
    PROVE  CheckIInv'
<1> USE DEF CheckIInv
<1>1. /\ UNCHANGED <<reachable, expired, running, heard, answer, responseCh, respCount, success>>
      /\ \A p \in PingsOf(k) : doing[p] = "idle"
  BY DEF VPPLivenessCheck
<1>2. HeardRight'
  BY <1>1 DEF HeardRight
<1>3. CASE combinationCount(k) = 0
  <2>1. verdict' = [verdict EXCEPT ![k] = "alive"] /\ doing' = doing
    BY <1>3 DEF VPPLivenessCheck
  <2>2. PingsOf(k) = {} /\ respCount[k] = 0
    <3>1. PingsOf(k) \in SUBSET Pings
      BY DEF PingsOf
    <3>2. PingsOf(k) = {}
      BY <1>3, <3>1, PingsCard DEF combinationCount
    <3>3. respCount[k] \in Nat /\ respCount[k] <= 0
      BY <1>3 DEF CheckTypeOK
    <3>4. QED
      BY <3>2, <3>3
  <2>3. CheckTypeOK'
    BY <1>1, <2>1 DEF CheckTypeOK
  <2>4. Counted'
    BY <1>1, <2>1, <2>2 DEF Counted, Closed, CheckTypeOK, Pending
  <2>5. AnsweredRight' /\ BlamedRight'
    BY <1>1, <2>1 DEF AnsweredRight, BlamedRight, Blamed
  <2>6. Concluded'
    <3>1. success[k] = TRUE
      <4>1. ~Blamed(k)
        BY <2>2 DEF BlamedRight
      <4>2. QED
        BY <4>1 DEF Blamed, CheckTypeOK
    <3>2. QED
      BY <1>1, <2>1, <3>1 DEF Concluded, CheckTypeOK
  <2>7. QED
    BY <1>2, <2>3, <2>4, <2>5, <2>6
<1>4. CASE combinationCount(k) # 0
  <2>1. /\ doing' = [p \in Pings |-> IF CheckOf[p] = k THEN "watch" ELSE doing[p]]
        /\ verdict' = verdict
    BY <1>4 DEF VPPLivenessCheck
  <2>2. CheckTypeOK'
    BY <1>1, <2>1 DEF CheckTypeOK
  <2>3. \A p \in Pings : doing'[p] = "done" <=> doing[p] = "done"
    BY <1>1, <2>1 DEF PingsOf
  <2>4. QED
    BY <1>1, <1>2, <2>1, <2>2, <2>3, NothingSent
<1>5. QED
  BY <1>3, <1>4

(* A response is read; when it is the last one every goroutine has sent    *)
(* its own.                                                                *)
LEMMA ReadsResponse ==
    ASSUME CheckIInv, NEW k \in Checks, waitForResponses(k)
    PROVE  CheckIInv'
<1> USE DEF CheckIInv
<1>1. /\ UNCHANGED <<reachable, expired, running, heard, answer, doing>>
      /\ responseCh[k] \in Seq(Response) /\ responseCh[k] # <<>> /\ ~Closed(k)
      /\ success' = [success EXCEPT ![k] = success[k] /\ Head(responseCh[k])]
      /\ respCount' = [respCount EXCEPT ![k] = respCount[k] - 1]
      /\ responseCh' = [responseCh EXCEPT ![k] = Tail(responseCh[k])]
      /\ verdict' = [verdict EXCEPT ![k] = IF respCount[k] # 1 THEN verdict[k]
                                           ELSE IF success'[k] THEN "alive" ELSE "dead"]
  BY DEF waitForResponses, CheckTypeOK
<1>2. /\ Len(responseCh[k]) \in Nat /\ Len(responseCh[k]) >= 1
      /\ Head(responseCh[k]) \in Response /\ Head(responseCh[k]) = responseCh[k][1]
      /\ Tail(responseCh[k]) \in Seq(Response) /\ Len(Tail(responseCh[k])) = Len(responseCh[k]) - 1
      /\ \A i \in 1..Len(responseCh[k]) - 1 : Tail(responseCh[k])[i] = responseCh[k][i + 1]
  BY <1>1, TailFacts
<1>3. /\ \A j \in Checks \ {k} : /\ responseCh'[j] = responseCh[j] /\ respCount'[j] = respCount[j]
                                 /\ success'[j] = success[j] /\ verdict'[j] = verdict[j]
      /\ responseCh'[k] = Tail(responseCh[k])
      /\ respCount'[k] = respCount[k] - 1
      /\ success'[k] = (success[k] /\ Head(responseCh[k]))
  BY <1>1 DEF CheckTypeOK
<1>4. respCount[k] = Cardinality(Pending(k)) + Len(responseCh[k]) /\ Cardinality(Pending(k)) \in Nat
  <2>1. Pending(k) \in SUBSET Pings
    BY DEF Pending, PingsOf
  <2>2. QED
    BY <2>1, PingsCard DEF Counted
<1>5. respCount[k] \in Nat /\ respCount[k] >= 1
  BY <1>2, <1>4
<1>6. /\ verdict[k] = "none"
      /\ verdict'[k] = IF respCount[k] # 1 THEN "none" ELSE IF success'[k] THEN "alive" ELSE "dead"
  BY <1>1 DEF CheckTypeOK, Closed
<1>7. CheckTypeOK'
  <2>1. success' \in [Checks -> BOOLEAN]
    BY <1>1, <1>2 DEF CheckTypeOK, Response
  <2>2. responseCh' \in [Checks -> Seq(Response)]
    BY <1>1, <1>2 DEF CheckTypeOK
  <2>3. respCount' \in [Checks -> Nat]
    <3>1. respCount[k] - 1 \in Nat
      BY <1>5
    <3>2. QED
      BY <1>1, <3>1 DEF CheckTypeOK
  <2>4. \A j \in Checks : respCount'[j] <= combinationCount(j)
    <3>1. combinationCount(k) \in Nat
      <4>1. PingsOf(k) \in SUBSET Pings
        BY DEF PingsOf
      <4>2. QED
        BY <4>1, PingsCard DEF combinationCount
    <3>2. respCount[k] <= combinationCount(k)
      BY DEF CheckTypeOK
    <3>3. respCount[k] - 1 <= combinationCount(k)
      BY <1>5, <3>1, <3>2
    <3>4. QED
      BY <1>3, <3>3 DEF CheckTypeOK
  <2>5. verdict' \in [Checks -> {"none", "alive", "dead"}]
    BY <1>1 DEF CheckTypeOK
  <2>6. QED
    BY <1>1, <2>1, <2>2, <2>3, <2>4, <2>5 DEF CheckTypeOK
<1>8. Counted'
  <2>1. ASSUME NEW j \in Checks PROVE Pending(j)' = Pending(j)
    BY <1>1, SamePending
  <2>2. respCount[k] - 1 = Cardinality(Pending(k)) + Len(Tail(responseCh[k]))
    BY <1>2, <1>4
  <2>3. verdict'[k] # "none" => respCount[k] - 1 = 0
    BY <1>5, <1>6
  <2>4. QED
    BY <1>3, <2>1, <2>2, <2>3 DEF Counted, Closed
<1>9. HeardRight' /\ AnsweredRight'
  BY <1>1 DEF HeardRight, AnsweredRight
<1>10. BlamedRight'
  <2> DEFINE Later == \E i \in 2..Len(responseCh[k]) : responseCh[k][i] = FALSE
  <2>1. Blamed(k) <=> success[k] = FALSE \/ Head(responseCh[k]) = FALSE \/ Later
    <3>1. \A i \in 1..Len(responseCh[k]) : i = 1 \/ i \in 2..Len(responseCh[k])
      BY <1>2
    <3>2. 1 \in 1..Len(responseCh[k]) /\ \A i \in 2..Len(responseCh[k]) : i \in 1..Len(responseCh[k])
      BY <1>2
    <3>3. QED
      BY <1>2, <3>1, <3>2, Zenon DEF Blamed
  <2>2. (\E i \in 1..Len(Tail(responseCh[k])) : Tail(responseCh[k])[i] = FALSE) <=> Later
    <3>1. ASSUME NEW i \in 2..Len(responseCh[k])
          PROVE  i - 1 \in 1..Len(Tail(responseCh[k])) /\ Tail(responseCh[k])[i - 1] = responseCh[k][i]
      BY <1>2
    <3>2. ASSUME NEW i \in 1..Len(Tail(responseCh[k]))
          PROVE  i + 1 \in 2..Len(responseCh[k]) /\ Tail(responseCh[k])[i] = responseCh[k][i + 1]
      BY <1>2
    <3>3. QED
      BY <3>1, <3>2
  <2>3. success'[k] = FALSE <=> success[k] = FALSE \/ Head(responseCh[k]) = FALSE
    BY <1>2, <1>3 DEF CheckTypeOK, Response
  <2>4. Blamed(k)' <=> Blamed(k)
    BY <1>3, <2>1, <2>2, <2>3 DEF Blamed
  <2>5. \A j \in Checks \ {k} : Blamed(j)' <=> Blamed(j)
    BY <1>3 DEF Blamed
  <2>6. QED
    BY <1>1, <2>4, <2>5 DEF BlamedRight
<1>11. Concluded'
  <2>1. success'[k] \in BOOLEAN
    BY <1>7 DEF CheckTypeOK
  <2>2. QED
    BY <1>3, <1>6, <2>1 DEF Concluded
<1>12. QED
  BY <1>7, <1>8, <1>9, <1>10, <1>11

(* A goroutine ends with the answer a, which is right, and sends it. *)
LEMMA Sends ==
    ASSUME CheckIInv, NEW p \in Pings, NEW a \in {"replies", "noReplies", "excused"},
           doing[p] # "done", Respond(p, a),
           a = "replies" => reachable # {}, a = "noReplies" => reachable # Pings
    PROVE  CheckIInv'
<1> USE DEF CheckIInv
<1> DEFINE k == CheckOf[p]
           ch == responseCh[k]
           resp == a # "noReplies"
<1>1. k \in Checks /\ p \in PingsOf(k) /\ ch \in Seq(Response)
  BY LivenessCheckAssumption DEF PingsOf, CheckTypeOK
<1>1a. resp \in Response /\ (resp = FALSE <=> a = "noReplies")
  BY DEF Response
<1>2. /\ UNCHANGED <<reachable, expired, running, respCount, success, verdict>>
      /\ responseCh' = [responseCh EXCEPT ![k] = Append(ch, resp)]
      /\ answer' = [answer EXCEPT ![p] = a]
      /\ heard' = [heard EXCEPT ![p] = <<>>]
      /\ doing' = [doing EXCEPT ![p] = "done"]
  BY DEF Respond, Proceed
<1> HIDE DEF resp
<1>3. /\ Append(ch, resp) \in Seq(Response)
      /\ Len(ch) \in Nat /\ Len(Append(ch, resp)) = Len(ch) + 1
      /\ Append(ch, resp)[Len(ch) + 1] = resp
      /\ \A i \in 1..Len(ch) : Append(ch, resp)[i] = ch[i]
  BY <1>1, <1>1a, AppendFacts
<1>4. /\ answer'[p] = a /\ doing'[p] = "done" /\ heard'[p] = <<>> /\ responseCh'[k] = Append(ch, resp)
      /\ \A q \in Pings \ {p} : answer'[q] = answer[q] /\ doing'[q] = doing[q] /\ heard'[q] = heard[q]
      /\ \A j \in Checks \ {k} : responseCh'[j] = responseCh[j]
  BY <1>1, <1>2 DEF CheckTypeOK
<1>5. CheckTypeOK'
  <2>1. heard' \in [Pings -> Seq(Response)]
    <3>1. <<>> \in Seq(Response)
      OBVIOUS
    <3>2. QED
      BY <1>2, <3>1 DEF CheckTypeOK
  <2>2. responseCh' \in [Checks -> Seq(Response)]
    BY <1>1, <1>2, <1>3 DEF CheckTypeOK
  <2>3. QED
    BY <1>2, <2>1, <2>2 DEF CheckTypeOK
<1>6. Counted'
  <2>1. p \in Pending(k) /\ Pending(k) \in SUBSET Pings
    BY <1>1 DEF Pending, PingsOf, AnsweredRight
  <2>2. Pending(k)' = Pending(k) \ {p}
    BY <1>4 DEF Pending, PingsOf
  <2>3. /\ Cardinality(Pending(k)) \in Nat
        /\ Cardinality(Pending(k)') = Cardinality(Pending(k)) - 1
        /\ Cardinality(Pending(k)) # 0
    BY <2>1, <2>2, PingsCard
  <2>4. respCount[k] = Cardinality(Pending(k)) + Len(ch) /\ (Closed(k) => respCount[k] = 0)
    BY <1>1 DEF Counted
  <2>5. respCount'[k] = Cardinality(Pending(k)') + Len(responseCh'[k]) /\ ~Closed(k)'
    BY <1>2, <1>3, <1>4, <2>3, <2>4 DEF Closed
  <2>6. ASSUME NEW j \in Checks \ {k} PROVE Pending(j)' = Pending(j)
    BY <1>4 DEF Pending, PingsOf
  <2>7. QED
    BY <1>2, <1>4, <2>5, <2>6 DEF Counted, Closed
<1>7. HeardRight'
  BY <1>2, <1>4 DEF HeardRight
<1>8. AnsweredRight'
  BY <1>2, <1>4 DEF AnsweredRight
<1>9. BlamedRight'
  <2>1. Blamed(k)' <=> Blamed(k) \/ a = "noReplies"
    <3>1. success'[k] = success[k] /\ responseCh'[k] = Append(ch, resp) /\ Len(ch) \in Nat
      BY <1>2, <1>3, <1>4
    <3>2. CASE a = "noReplies"
      <4>1. Len(ch) + 1 \in 1..Len(Append(ch, resp)) /\ Append(ch, resp)[Len(ch) + 1] = FALSE
        BY <3>1, <3>2, <1>3, <1>1a
      <4>2. QED
        BY <3>1, <3>2, <4>1 DEF Blamed
    <3>3. CASE a # "noReplies"
      <4>1. \A i \in 1..Len(Append(ch, resp)) : i = Len(ch) + 1 \/ i \in 1..Len(ch)
        BY <3>1, <1>3
      <4>2. \A i \in 1..Len(ch) : i \in 1..Len(Append(ch, resp))
        BY <3>1, <1>3
      <4>3. Append(ch, resp)[Len(ch) + 1] # FALSE
        BY <3>3, <1>3, <1>1a
      <4>4. QED
        BY <3>1, <3>3, <4>1, <4>2, <4>3, <1>3 DEF Blamed
    <3>4. QED
      BY <3>2, <3>3
  <2>2. answer[p] # "noReplies"
    BY DEF AnsweredRight, CheckTypeOK
  <2>3. \A j \in Checks \ {k} : Blamed(j)' <=> Blamed(j)
    BY <1>2, <1>4 DEF Blamed
  <2>4. \A j \in Checks \ {k} : p \notin PingsOf(j)
    BY DEF PingsOf
  <2>5. QED
    BY <1>1, <1>4, <2>1, <2>2, <2>3, <2>4 DEF BlamedRight, PingsOf
<1>10. Concluded'
  BY <1>2 DEF Concluded
<1>11. QED
  BY <1>5, <1>6, <1>7, <1>8, <1>9, <1>10

(* A ping of VPP ends, and every watcher hears of it. *)
LEMMA Hears ==
    ASSUME CheckIInv, NEW p \in Pings, PingFinished(p)
    PROVE  CheckIInv'
<1> USE DEF CheckIInv
<1> DEFINE reply == p \in reachable
<1>1. /\ UNCHANGED <<reachable, expired, answer, responseCh, respCount, success, doing, verdict>>
      /\ running' = running \ {p}
      /\ heard' = [q \in Pings |-> IF Watching(q) THEN Append(heard[q], reply) ELSE heard[q]]
  BY DEF PingFinished
<1>2. reply \in Response /\ (IF reply THEN reachable # {} ELSE reachable # Pings)
  BY DEF Response
<1> HIDE DEF reply
<1>3. ASSUME NEW q \in Pings PROVE heard[q] \in Seq(Response)
  BY DEF CheckTypeOK
<1>4. ASSUME NEW q \in Pings
      PROVE  /\ Len(heard[q]) \in Nat
             /\ Append(heard[q], reply) \in Seq(Response)
             /\ Len(Append(heard[q], reply)) = Len(heard[q]) + 1
             /\ Append(heard[q], reply)[Len(heard[q]) + 1] = reply
             /\ \A i \in 1..Len(heard[q]) : Append(heard[q], reply)[i] = heard[q][i]
  BY <1>2, <1>3, AppendFacts
<1>5. CheckTypeOK'
  <2>1. heard' \in [Pings -> Seq(Response)]
    BY <1>1, <1>3, <1>4
  <2>2. QED
    BY <1>1, <2>1 DEF CheckTypeOK
<1>6. HeardRight'
  <2> SUFFICES ASSUME NEW q \in Pings, NEW i \in 1..Len(heard'[q])
               PROVE  IF heard'[q][i] THEN reachable # {} ELSE reachable # Pings
    BY <1>1 DEF HeardRight
  <2>1. CASE ~Watching(q)
    BY <1>1, <2>1 DEF HeardRight
  <2>2. CASE Watching(q)
    <3>1. heard'[q] = Append(heard[q], reply)
      BY <1>1, <2>2
    <3>2. i \in 1..Len(heard[q]) \/ i = Len(heard[q]) + 1
      BY <1>4, <3>1
    <3>3. QED
      BY <1>2, <1>4, <3>1, <3>2 DEF HeardRight
  <2>3. QED
    BY <2>1, <2>2
<1>7. QED
  BY <1>1, <1>5, <1>6, NothingSent

(* Every step of a goroutine keeps the invariant. *)
LEMMA PingIInv ==
    ASSUME CheckIInv, NEW p \in Pings, doPing(p)
    PROVE  CheckIInv'
<1> USE DEF CheckIInv
<1>1. CASE WatchEvent(p) \/ WantPingFinishedEvents(p)
  <2>1. /\ UNCHANGED <<reachable, expired, heard, answer, responseCh, respCount, success, verdict>>
        /\ running' \in SUBSET Pings
        /\ doing' \in [Pings -> {"idle", "watch", "want", "wait", "done"}]
        /\ \A q \in Pings : doing'[q] = "done" <=> doing[q] = "done"
    BY <1>1 DEF WatchEvent, WantPingFinishedEvents, Proceed, CheckTypeOK
  <2>2. CheckTypeOK' /\ HeardRight'
    BY <2>1 DEF CheckTypeOK, HeardRight
  <2>3. QED
    BY <2>1, <2>2, NothingSent
<1>2. CASE CallFails(p) \/ DeadlineDone(p)
  <2>1. doing[p] # "done" /\ Respond(p, "excused")
    BY <1>2 DEF CallFails, DeadlineDone
  <2>2. QED
    BY <2>1, Sends
<1>3. CASE ReceiveEvent(p)
  <2>1. heard[p] \in Seq(Response) /\ heard[p] # <<>> /\ doing[p] # "done"
    BY <1>3 DEF ReceiveEvent, CheckTypeOK
  <2>2. Head(heard[p]) = heard[p][1] /\ 1 \in 1..Len(heard[p])
    BY <2>1, TailFacts
  <2>3. IF Head(heard[p]) THEN reachable # {} ELSE reachable # Pings
    BY <2>2 DEF HeardRight
  <2>4. CASE Head(heard[p])
    <3>1. Respond(p, "replies")
      BY <1>3, <2>4 DEF ReceiveEvent
    <3>2. QED
      BY <2>1, <2>3, <2>4, <3>1, Sends
  <2>5. CASE ~Head(heard[p])
    <3>1. Respond(p, "noReplies")
      BY <1>3, <2>5 DEF ReceiveEvent
    <3>2. QED
      BY <2>1, <2>3, <2>5, <3>1, Sends
  <2>6. QED
    BY <2>4, <2>5
<1>4. CASE EventsClosed(p)
  <2>1. /\ UNCHANGED <<reachable, expired, running, heard, responseCh, respCount, success, verdict>>
        /\ answer' = [answer EXCEPT ![p] = "silent"] /\ doing' = [doing EXCEPT ![p] = "done"]
        /\ doing[p] = "wait"
    BY <1>4 DEF EventsClosed, Proceed
  <2>2. /\ answer[p] = "none" /\ answer'[p] = "silent" /\ doing'[p] = "done"
        /\ \A q \in Pings \ {p} : answer'[q] = answer[q] /\ doing'[q] = doing[q]
    BY <2>1 DEF AnsweredRight, CheckTypeOK
  <2>3. CheckTypeOK' /\ HeardRight'
    BY <2>1 DEF CheckTypeOK, HeardRight
  <2>4. Counted'
    <3>1. ASSUME NEW k \in Checks PROVE Pending(k)' = Pending(k)
      BY <2>2, SamePending DEF PingsOf
    <3>2. QED
      BY <2>1, <3>1 DEF Counted, Closed
  <2>5. AnsweredRight'
    BY <2>1, <2>2 DEF AnsweredRight
  <2>6. BlamedRight' /\ Concluded'
    BY <2>1, <2>2 DEF BlamedRight, Blamed, Concluded, PingsOf
  <2>7. QED
    BY <2>3, <2>4, <2>5, <2>6
<1>5. QED
  BY <1>1, <1>2, <1>3, <1>4 DEF doPing

(* The invariant is kept by every step. *)
LEMMA NextCheckIInv == CheckIInv /\ [CheckNext]_checkVars => CheckIInv'
<1> SUFFICES ASSUME CheckIInv, [CheckNext]_checkVars PROVE CheckIInv'
  OBVIOUS
<1>1. ASSUME NEW k \in Checks, Expire(k) PROVE CheckIInv'
  <2>1. CheckTypeOK' /\ HeardRight'
    BY <1>1 DEF Expire, CheckIInv, CheckTypeOK, HeardRight
  <2>2. QED
    BY <1>1, <2>1, NothingSent DEF Expire
<1>2. CASE UNCHANGED checkVars
  <2>1. CheckTypeOK' /\ HeardRight'
    BY <1>2 DEF checkVars, CheckIInv, CheckTypeOK, HeardRight
  <2>2. QED
    BY <1>2, <2>1, NothingSent DEF checkVars
<1>3. QED
  BY <1>1, <1>2, Starts, ReadsResponse, PingIInv, Hears DEF CheckNext

(* The invariant holds in every reachable state. *)
LEMMA AlwaysCheckIInv == CheckSpec => []CheckIInv
BY InitCheckIInv, NextCheckIInv, PTL DEF CheckSpec

(* No number of checks that run together makes a count negative or larger  *)
(* than the number of pairs (respCount of waitForResponses).               *)
THEOREM LivenessCheckTypeOK == CheckSpec => []CheckTypeOK
BY AlwaysCheckIInv, IInvImplies, PTL

(* VPPLivenessCheck closes the channel of its responses only after each of *)
(* its goroutines has sent one and ended, whatever fails, expires or is    *)
(* reported.                                                               *)
THEOREM ChannelClosedLast == CheckSpec => []NoSendOnClosed
BY AlwaysCheckIInv, IInvImplies, PTL

(* Events that do not name their ping may be taken by the wrong goroutine, *)
(* yet a verdict is never wrong about all destinations at once.            *)
THEOREM LivenessVerdictRight == CheckSpec => []VerdictRight
BY AlwaysCheckIInv, IInvImplies, PTL

-----------------------------------------------------------------------------
(* NsMonitor *)

(* Nothing has been done by a watch that has not been started.             *)
StartedOnly == \A w \in Watches : last < w =>
    /\ w \notin cancelled
    /\ deleteCh[w] = "open" /\ monitor[w] = "none" /\ client[w] = "none"

(* A watch that nobody has cancelled is the one of the present session.    *)
LiveIsCurrent == /\ meta <= last
                 /\ \A w \in Watches : w <= last /\ w \notin cancelled => meta = w

(* The value that a monitor sends, and the close that it asks for, tell    *)
(* the truth about the namespace as long as the context is not done.       *)
ValueIsTrue == \A w \in Watches :
    (deleteCh[w] = "deleted" \/ client[w] = "closing") /\ ~CtxDone(w) => inodeURL[w] \notin alive

(* The inductive invariant. *)
WatchIInv == WatchTypeOK /\ StartedOnly /\ LiveIsCurrent /\ ValueIsTrue

(* At first no watch is started. *)
LEMMA InitWatchIInv == WatchInit => WatchIInv
<1> SUFFICES ASSUME WatchInit PROVE WatchIInv
  OBVIOUS
<1> USE NsMonitorAssumption DEF WatchInit, Watches
<1>1. WatchTypeOK
  BY DEF WatchTypeOK
<1>2. StartedOnly
  BY DEF StartedOnly
<1>3. LiveIsCurrent
  BY DEF LiveIsCurrent
<1>4. ValueIsTrue
  BY DEF ValueIsTrue
<1>5. QED
  BY <1>1, <1>2, <1>3, <1>4 DEF WatchIInv

(* A first request starts the watch after the last, a refresh none.        *)
LEMMA RequestWatchIInv ==
    ASSUME WatchIInv, NEW i \in Inodes \cup {NoInode}, Request(i)
    PROVE  WatchIInv'
<1> USE NsMonitorAssumption DEF Watches
<1>1. CASE meta = 0 /\ last < MaxWatches /\ StartWatch(i)
  <2> PICK w : w = last + 1  OBVIOUS
  <2>1. w \in Watches /\ last \in Nat /\ last < w
    BY <1>1 DEF WatchIInv, WatchTypeOK
  <2>2. /\ last' = w /\ meta' = w
        /\ inodeURL' = [inodeURL EXCEPT ![w] = i]
        /\ \/ UNCHANGED <<monitor, client>>
           \/ /\ monitor' = [monitor EXCEPT ![w] = "resolve"]
              /\ client' = [client EXCEPT ![w] = "select"]
        /\ UNCHANGED <<alive, chainDone, cancelled, deleteCh>>
        /\ established' = TRUE
    BY <1>1 DEF StartWatch, Request
  <2>3. WatchTypeOK'
    BY <2>1, <2>2 DEF WatchIInv, WatchTypeOK
  <2>4. StartedOnly'
    BY <2>1, <2>2 DEF WatchIInv, WatchTypeOK, StartedOnly
  <2>5. LiveIsCurrent'
    BY <1>1, <2>1, <2>2 DEF WatchIInv, WatchTypeOK, LiveIsCurrent
  <2>6. ValueIsTrue'
    <3> SUFFICES ASSUME NEW v \in Watches, deleteCh'[v] = "deleted" \/ client'[v] = "closing", ~CtxDone(v)'
                 PROVE  inodeURL'[v] \notin alive'
      BY DEF ValueIsTrue
    <3>1. v # w
      BY <2>1, <2>2 DEF WatchIInv, WatchTypeOK, StartedOnly
    <3>2. QED
      BY <2>1, <2>2, <3>1 DEF WatchIInv, WatchTypeOK, ValueIsTrue, CtxDone
  <2>7. QED
    BY <2>3, <2>4, <2>5, <2>6 DEF WatchIInv
<1>2. CASE UNCHANGED <<meta, last, inodeURL, monitor, client>>
  BY <1>2 DEF Request, WatchIInv, WatchTypeOK, StartedOnly, LiveIsCurrent, ValueIsTrue, CtxDone
<1>3. QED
  BY <1>1, <1>2 DEF Request

(* Closing the connection cancels the watch of the session.                *)
LEMMA CloseWatchIInv ==
    ASSUME WatchIInv, CloseConnection,
           UNCHANGED <<last, inodeURL, alive, chainDone, deleteCh, monitor>>,
           \A w \in Watches : client'[w] \in {client[w], "done"},
           \A w \in Watches : client[w] = "none" => client'[w] = "none",
           client' \in [Watches -> {"none", "select", "closing", "done"}]
    PROVE  WatchIInv'
<1> USE NsMonitorAssumption DEF Watches
<1>1. WatchTypeOK'
  BY DEF WatchIInv, WatchTypeOK, CloseConnection
<1>2. StartedOnly'
  BY DEF WatchIInv, WatchTypeOK, StartedOnly, LiveIsCurrent, CloseConnection
<1>3. LiveIsCurrent'
  BY DEF WatchIInv, WatchTypeOK, LiveIsCurrent, CloseConnection
<1>4. ValueIsTrue'
  BY DEF WatchIInv, WatchTypeOK, ValueIsTrue, CloseConnection, CtxDone
<1>5. QED
  BY <1>1, <1>2, <1>3, <1>4 DEF WatchIInv

(* The goroutine of the client. *)
LEMMA ClientWatchIInv ==
    ASSUME WatchIInv, NEW w \in Watches,
           SelectDone(w) \/ SelectDelete(w) \/ FactoryClose(w)
    PROVE  WatchIInv'
<1> USE NsMonitorAssumption DEF Watches
<1>1. client[w] \in {"select", "closing"} /\ w <= last
  BY DEF SelectDone, SelectDelete, FactoryClose, WatchIInv, WatchTypeOK, StartedOnly
<1>2. CASE /\ ClientEnds(w)
           /\ UNCHANGED <<established, meta, last, inodeURL, alive, chainDone, deleteCh, monitor>>
  BY <1>1, <1>2 DEF ClientEnds, WatchIInv, WatchTypeOK, StartedOnly, LiveIsCurrent, ValueIsTrue, CtxDone
<1>3. CASE /\ client' = [client EXCEPT ![w] = "closing"] /\ deleteCh[w] = "deleted" /\ UNCHANGED cancelled
           /\ UNCHANGED <<established, meta, last, inodeURL, alive, chainDone, deleteCh, monitor>>
  BY <1>1, <1>3 DEF WatchIInv, WatchTypeOK, StartedOnly, LiveIsCurrent, ValueIsTrue, CtxDone
<1>4. CASE /\ client' = [client EXCEPT ![w] = "done"] /\ CloseConnection
           /\ UNCHANGED <<last, inodeURL, alive, chainDone, deleteCh, monitor>>
  BY <1>1, <1>4, CloseWatchIInv DEF WatchIInv, WatchTypeOK
<1>5. QED
  BY <1>2, <1>3, <1>4 DEF SelectDone, SelectDelete, FactoryClose, ClientEnds

(* The goroutine of the monitor. *)
LEMMA MonitorWatchIInv ==
    ASSUME WatchIInv, NEW w \in Watches,
           ResolveFails(w) \/ resolveProcByInodeURL(w) \/ Poll(w)
    PROVE  WatchIInv'
<1> USE NsMonitorAssumption DEF Watches
<1>1. monitor[w] \in {"resolve", "poll"} /\ w <= last
  BY DEF ResolveFails, resolveProcByInodeURL, Poll, WatchIInv, WatchTypeOK, StartedOnly
<1>2. CASE ResolveFails(w)
  BY <1>1, <1>2 DEF ResolveFails, StopMonitor, WatchIInv, WatchTypeOK, StartedOnly, LiveIsCurrent, ValueIsTrue, CtxDone
<1>3. CASE resolveProcByInodeURL(w)
  BY <1>1, <1>3 DEF resolveProcByInodeURL, WatchIInv, WatchTypeOK, StartedOnly, LiveIsCurrent, ValueIsTrue, CtxDone
<1>4. CASE Poll(w)
  BY <1>1, <1>4 DEF Poll, StopMonitor, WatchIInv, WatchTypeOK, StartedOnly, LiveIsCurrent, ValueIsTrue, CtxDone
<1>5. QED
  BY <1>2, <1>3, <1>4

(* Every step keeps the invariant. *)
LEMMA NextWatchIInv == WatchIInv /\ [WatchNext]_watchVars => WatchIInv'
<1> SUFFICES ASSUME WatchIInv, [WatchNext]_watchVars PROVE WatchIInv'
  OBVIOUS
<1>1. CASE \E i \in Inodes \cup {NoInode} : Request(i)
  BY <1>1, RequestWatchIInv
<1>2. CASE Close
  BY <1>2, CloseWatchIInv DEF Close, WatchIInv, WatchTypeOK
<1>3. CASE \E w \in Watches : Goroutines(w)
  BY <1>3, ClientWatchIInv, MonitorWatchIInv DEF Goroutines
<1>4. CASE \E i \in Inodes : NamespaceGone(i)
  BY <1>4 DEF NamespaceGone, WatchIInv, WatchTypeOK, StartedOnly, LiveIsCurrent, ValueIsTrue, CtxDone
<1>5. CASE ChainDone
  BY <1>5 DEF ChainDone, WatchIInv, WatchTypeOK, StartedOnly, LiveIsCurrent, ValueIsTrue, CtxDone
<1>6. CASE UNCHANGED watchVars
  BY <1>6 DEF watchVars, WatchIInv, WatchTypeOK, StartedOnly, LiveIsCurrent, ValueIsTrue, CtxDone
<1>7. QED
  BY <1>1, <1>2, <1>3, <1>4, <1>5, <1>6 DEF WatchNext

(* The invariant holds throughout. *)
LEMMA SpecWatchIInv == WatchSpec => []WatchIInv
BY InitWatchIInv, NextWatchIInv, PTL DEF WatchSpec

(* Every variable keeps its type: the watches of nsmonitor never exceed    *)
(* the sessions, and no goroutine is in a state that its code has not.     *)
THEOREM NsMonitorTypeOK == WatchSpec => []WatchTypeOK
<1>1. WatchIInv => WatchTypeOK
  BY DEF WatchIInv
<1>2. QED
  BY <1>1, SpecWatchIInv, PTL

(* One step closes the connection only for a cause. *)
LEMMA CauseStep == ASSUME WatchIInv, WatchNext, NEW w \in Watches,
                          client[w] = "closing", client'[w] = "done", established, ~established'
                   PROVE  meta = w /\ inodeURL[w] \notin alive
<1>1. PICK v \in Watches : FactoryClose(v) /\ ~CtxDone(v)
  <2>1. ~ \E i \in Inodes \cup {NoInode} : Request(i)
    BY DEF Request
  <2>2. ~ Close
    BY DEF Close
  <2>3. ~ ((\E i \in Inodes : NamespaceGone(i)) \/ ChainDone)
    BY DEF NamespaceGone, ChainDone
  <2>4. PICK v \in Watches : Goroutines(v)
    BY <2>1, <2>2, <2>3 DEF WatchNext
  <2>5. FactoryClose(v) /\ ~CtxDone(v)
    BY <2>4 DEF Goroutines, SelectDone, SelectDelete, FactoryClose, ResolveFails, resolveProcByInodeURL, Poll,
                StopMonitor
  <2>6. QED
    BY <2>5
<1>2. v = w
  BY <1>1 DEF FactoryClose, WatchIInv, WatchTypeOK
<1>3. w <= last
  BY NsMonitorAssumption DEF WatchIInv, WatchTypeOK, StartedOnly, Watches
<1>4. QED
  BY <1>1, <1>2, <1>3 DEF WatchIInv, LiveIsCurrent, ValueIsTrue, CtxDone

(* A monitor ends a session only if it is the session it was started for   *)
(* and the namespace it watches is gone, whatever watches of earlier       *)
(* sessions still run: the event factory's Close with begin.CancelContext  *)
(* in client.go of nsmonitor.                                              *)
THEOREM NsMonitorClosedForCause == WatchSpec => ClosedForCause
<1>1. WatchIInv /\ [WatchNext]_watchVars =>
        [\A w \in Watches : client[w] = "closing" /\ client'[w] = "done" /\ established /\ ~established'
            => meta = w /\ inodeURL[w] \notin alive]_watchVars
  BY CauseStep
<1>2. QED
  BY <1>1, SpecWatchIInv, PTL DEF WatchSpec, ClosedForCause

-----------------------------------------------------------------------------
(* Vl3lb: the inductive invariant *)

(* The events and the lists that are on their way.                        *)
DataOK == stream \in [Monitors -> Seq(ConnEvent)] /\ paths \in [Monitors -> Servers]

(* The goroutine reads events, or will again. *)
Following(m) == at[m] \in {"recv", "del"} \/ (at[m] \in {"read", "send"} /\ then[m] # "end")

(* The servers of an NSE that is not followed yet are none. *)
NotYet == \A s \in Sessions, n \in NSEs :
    (\A m \in Monitors : SessionOf(m) = s /\ NSEOf(m) = n => at[m] \in {"none", "dial"}) =>
        \A c \in Conns : servers[s][n][c] = Down

(* What is still to be deleted, and where a goroutine goes afterwards. *)
TodoOK == \A m \in Monitors :
    /\ todo[m] # {} => at[m] = "del" \/ (at[m] \in {"read", "send"} /\ then[m] = "del")
    /\ at[m] \in {"none", "dial", "recv", "del"} => then[m] # "end"

(* The events on their way that mention connection c. *)
Mentions(m, c) == {i \in 1..Len(stream[m]) : c \in DOMAIN stream[m][i]}

(* The state of c in the handler once the event that was read last is      *)
(* worked off.                                                             *)
Now(m, c) == IF c \in todo[m] THEN Down ELSE servers[SessionOf(m)][NSEOf(m)][c]

(* The last event that mentions a connection tells its state; the handler  *)
(* knows it if there is none.                                              *)
UpToDate(m, c) ==
    /\ \A i \in Mentions(m, c) :
          (\A j \in Mentions(m, c) : j <= i) => stream[m][i][c] = conns[NSEOf(m)][c]
    /\ Mentions(m, c) = {} /\ c \in Selected => Now(m, c) = conns[NSEOf(m)][c]
    /\ c \notin Selected => servers[SessionOf(m)][NSEOf(m)][c] = Down

(* So it is for every goroutine that follows its NSE alone.                *)
Informed == \A m \in Monitors : Alone(m) /\ Following(m) => \A c \in Conns : UpToDate(m, c)

(* VPP has a list for session s and for no other. *)
VPPHas(s, p) == \A i \in Ids : cnat[i] =
    IF i = 0 /\ p # NoServers THEN [vip |-> s, paths |-> p] ELSE NoTranslation

(* The list VPP has is the one of the handler, except while goroutine m is *)
(* about to send another, and after one was lost to the cancel.            *)
InVPP(m) == \E p \in Servers :
    /\ VPPHas(SessionOf(m), p)
    /\ at[m] \notin {"read", "send"} /\ SessionOf(m) \notin unwritten => p = servers[SessionOf(m)]

(* So it is for the only goroutine.                                        *)
Written == SingleWriter => \A m \in Monitors :
    /\ at[m] # "none" => InVPP(m)
    /\ at[m] = "send" => paths[m] = servers[SessionOf(m)]

(* VPP has no translation before the first goroutine.                     *)
Untouched == (\A m \in Monitors : at[m] = "none") => \A i \in Ids : cnat[i] = NoTranslation

(* The inductive invariant. *)
BalanceIInv == BalanceTypeOK /\ DataOK /\ NotYet /\ TodoOK /\ Informed /\ Written /\ Untouched

-----------------------------------------------------------------------------
(* The operators *)

(* A goroutine has a session and an NSE. *)
LEMMA MonitorType == ASSUME NEW m \in Monitors
                     PROVE SessionOf(m) \in Sessions /\ NSEOf(m) \in NSEs
BY DEF Monitors, SessionOf, NSEOf

(* What an event tells. *)
LEMMA EventType == ASSUME NEW e \in ConnEvent
                   PROVE DOMAIN e \subseteq Conns /\ \A c \in DOMAIN e : e[c] \in IPs \cup {Down}
BY DEF ConnEvent

(* The empty list is a list. *)
LEMMA NoServersType == NoServers \in Servers /\ \A n \in NSEs, c \in Conns : NoServers[n][c] = Down
BY DEF NoServers, Servers

(* Added servers are as the event says, the others as they were. *)
LEMMA AddFields ==
    ASSUME BalanceTypeOK, NEW m \in Monitors, NEW add, DOMAIN add \subseteq Conns,
           \A c \in DOMAIN add : add[c] \in IPs \cup {Down}, addServers(m, add)
    PROVE /\ servers' \in [Sessions -> Servers]
          /\ \A t \in Sessions, k \in NSEs : t # SessionOf(m) \/ k # NSEOf(m) => servers'[t][k] = servers[t][k]
          /\ \A c \in Conns : servers'[SessionOf(m)][NSEOf(m)][c] =
                                 IF c \in DOMAIN add THEN add[c] ELSE servers[SessionOf(m)][NSEOf(m)][c]
          /\ \/ at' = [at EXCEPT ![m] = "read"] /\ then' = [then EXCEPT ![m] = "del"]
             \/ at' = [at EXCEPT ![m] = "del"] /\ then' = then /\ servers' = servers
<1> DEFINE s == SessionOf(m)
           n == NSEOf(m)
           f == [c \in Conns |-> IF c \in DOMAIN add THEN add[c] ELSE servers[s][n][c]]
<1>1. s \in Sessions /\ n \in NSEs
  BY MonitorType
<1>2. servers \in [Sessions -> [NSEs -> [Conns -> IPs \cup {Down}]]]
  BY DEF BalanceTypeOK, Servers
<1>3. f \in [Conns -> IPs \cup {Down}]
  BY <1>1, <1>2
<1>4. servers' = [servers EXCEPT ![s][n] = f]
  BY <1>1, <1>2 DEF addServers
<1>5. \/ at' = [at EXCEPT ![m] = "read"] /\ then' = [then EXCEPT ![m] = "del"]
      \/ at' = [at EXCEPT ![m] = "del"] /\ then' = then /\ servers' = servers
  BY DEF addServers, MoveTo
<1>6. \A c \in Conns : f[c] = IF c \in DOMAIN add THEN add[c] ELSE servers[s][n][c]
  OBVIOUS
<1> HIDE DEF f, s, n
<1>7. servers' = [servers EXCEPT ![s] = [servers[s] EXCEPT ![n] = f]]
  BY <1>1, <1>2, <1>4
<1>8. /\ servers'[s] = [servers[s] EXCEPT ![n] = f]
      /\ \A t \in Sessions : t # s => servers'[t] = servers[t]
  BY <1>1, <1>2, <1>7
<1>9. servers[s] \in [NSEs -> [Conns -> IPs \cup {Down}]]
  BY <1>1, <1>2
<1>10. /\ servers'[s] \in Servers
       /\ servers'[s][n] = f
       /\ \A k \in NSEs : k # n => servers'[s][k] = servers[s][k]
  BY <1>1, <1>3, <1>8, <1>9 DEF Servers
<1>11. servers' \in [Sessions -> Servers]
  BY <1>1, <1>2, <1>7, <1>8, <1>10 DEF Servers
<1>12. \A t \in Sessions, k \in NSEs : t # s \/ k # n => servers'[t][k] = servers[t][k]
  BY <1>8, <1>10
<1>13. \A c \in Conns : servers'[s][n][c] = f[c]
  BY <1>10
<1> QED
  BY <1>5, <1>6, <1>11, <1>12, <1>13 DEF s, n

(* Deleted servers are down, the others as they were. *)
LEMMA DelFields ==
    ASSUME BalanceTypeOK, NEW m \in Monitors, NEW del, NEW next, deleteServers(m, del, next)
    PROVE /\ servers' \in [Sessions -> Servers]
          /\ \A t \in Sessions, k \in NSEs : t # SessionOf(m) \/ k # NSEOf(m) => servers'[t][k] = servers[t][k]
          /\ \A c \in Conns : servers'[SessionOf(m)][NSEOf(m)][c] =
                                 IF c \in del THEN Down ELSE servers[SessionOf(m)][NSEOf(m)][c]
          /\ \/ at' = [at EXCEPT ![m] = "read"] /\ then' = [then EXCEPT ![m] = next]
             \/ at' = [at EXCEPT ![m] = next] /\ then' = then /\ servers' = servers
<1> DEFINE s == SessionOf(m)
           n == NSEOf(m)
           f == [c \in Conns |-> IF c \in del THEN Down ELSE servers[s][n][c]]
<1>1. s \in Sessions /\ n \in NSEs
  BY MonitorType
<1>2. servers \in [Sessions -> [NSEs -> [Conns -> IPs \cup {Down}]]]
  BY DEF BalanceTypeOK, Servers
<1>3. f \in [Conns -> IPs \cup {Down}]
  BY <1>1, <1>2
<1>4. servers' = [servers EXCEPT ![s][n] = f]
  BY <1>1, <1>2 DEF deleteServers
<1>5. del = {} => f = servers[s][n]
  BY <1>1, <1>2
<1>6. \A c \in Conns : f[c] = IF c \in del THEN Down ELSE servers[s][n][c]
  OBVIOUS
<1> HIDE DEF f, s, n
<1>7. servers' = [servers EXCEPT ![s] = [servers[s] EXCEPT ![n] = f]]
  BY <1>1, <1>2, <1>4
<1>8. /\ servers'[s] = [servers[s] EXCEPT ![n] = f]
      /\ \A t \in Sessions : t # s => servers'[t] = servers[t]
  BY <1>1, <1>2, <1>7
<1>9. servers[s] \in [NSEs -> [Conns -> IPs \cup {Down}]]
  BY <1>1, <1>2
<1>10. /\ servers'[s] \in Servers
       /\ servers'[s][n] = f
       /\ \A k \in NSEs : k # n => servers'[s][k] = servers[s][k]
  BY <1>1, <1>3, <1>8, <1>9 DEF Servers
<1>11. servers' \in [Sessions -> Servers]
  BY <1>1, <1>2, <1>7, <1>8, <1>10 DEF Servers
<1>12. \A t \in Sessions, k \in NSEs : t # s \/ k # n => servers'[t][k] = servers[t][k]
  BY <1>8, <1>10
<1>13. \A c \in Conns : servers'[s][n][c] = f[c]
  BY <1>10
<1>14. del = {} => servers' = servers
  BY <1>1, <1>2, <1>5, <1>7, <1>9
<1>15. \/ at' = [at EXCEPT ![m] = "read"] /\ then' = [then EXCEPT ![m] = next]
       \/ at' = [at EXCEPT ![m] = next] /\ then' = then /\ servers' = servers
  BY <1>14 DEF deleteServers, MoveTo
<1> QED
  BY <1>6, <1>11, <1>12, <1>13, <1>15 DEF s, n

(* What the selector makes of an event. *)
LEMMA FilterFields ==
    ASSUME NEW e \in ConnEvent
    PROVE LET f == filterConnections(e)
          IN  /\ DOMAIN f.add = {c \in DOMAIN e \cap Selected : e[c] # Down}
              /\ \A c \in DOMAIN f.add : f.add[c] = e[c]
              /\ f.del = {c \in DOMAIN e \cap Selected : e[c] = Down}
BY DEF filterConnections

-----------------------------------------------------------------------------
(* Types *)

(* At first no goroutine is started. *)
LEMMA InitBalanceIInv == BalanceInit => BalanceIInv
<1> SUFFICES ASSUME BalanceInit PROVE BalanceIInv
  OBVIOUS
<1> USE Vl3lbAssumption
<1>1. BalanceTypeOK
  <2>1. <<>> \in Seq(ConnEvent) /\ NoServers \in Servers
    BY NoServersType
  <2>2. registered \subseteq NSEs
    BY DEF BalanceInit
  <2>3. cnat \in [Ids -> [vip : {0} \cup Sessions, paths : Servers]]
    BY <2>1 DEF BalanceInit, NoTranslation
  <2> QED
    BY <2>1, <2>2, <2>3 DEF BalanceInit, BalanceTypeOK
<1>2. DataOK
  BY NoServersType DEF BalanceInit, DataOK
<1>3. NotYet
  BY NoServersType DEF BalanceInit, NotYet
<1>4. TodoOK /\ Informed /\ Written /\ Untouched
  BY DEF BalanceInit, TodoOK, Informed, Following, Written, Untouched
<1> QED
  BY <1>1, <1>2, <1>3, <1>4 DEF BalanceIInv

-----------------------------------------------------------------------------
(* Steps of other parties *)

(* What a step leaves alone it cannot disturb. *)
LEMMA Quiet ==
    ASSUME BalanceIInv, BalanceTypeOK', env' = env, UNCHANGED <<conns, servers, stream, todo, paths, at, then, cnatVars>>
    PROVE  BalanceIInv'
<1>1. DataOK' /\ NotYet' /\ TodoOK' /\ Untouched'
  BY DEF BalanceIInv, DataOK, NotYet, TodoOK, Untouched, cnatVars
<1>2. Informed'
  BY DEF BalanceIInv, Informed, Alone, Following, UpToDate, Mentions, Now
<1>3. Written'
  BY DEF BalanceIInv, Written, SingleWriter, InVPP, VPPHas, Failing, cnatVars
<1> QED
  BY <1>1, <1>2, <1>3 DEF BalanceIInv

(* The client and the registry do not touch a goroutine. *)
LEMMA QuietSteps ==
    ASSUME BalanceIInv, env' = env,
           \/ RequestClient \/ CloseClient
           \/ \E s \in Sessions, n \in NSEs : NSEDeleted(s, n)
           \/ \E n \in env.nses : Register(n)
    PROVE  BalanceIInv'
<1> USE Vl3lbAssumption
<1>0. BalanceTypeOK /\ env \in Envs
  BY DEF BalanceIInv, BalanceTypeOK
<1>1. CASE RequestClient \/ CloseClient
  <2>1. lastSession' \in 0..MaxSessions /\ cancels' \in 0..MaxSessions /\ stopped' \subseteq Sessions
    <3>1. env.sessions \in 1..MaxSessions /\ MaxSessions \in Nat
      BY <1>0
    <3>2. lastSession \in 0..MaxSessions /\ cancels \in 0..MaxSessions /\ stopped \subseteq 1..MaxSessions
      BY <1>0 DEF BalanceTypeOK, Sessions
    <3>3. stopped' = stopped \cup ({cancels} \ {0})
      BY <1>1 DEF RequestClient, CloseClient, loadAndDeleteCancel
    <3>4. stopped' \subseteq 1..MaxSessions
      <4>1. cancels # 0 => cancels \in 1..MaxSessions
        BY <3>1, <3>2
      <4>2. \A x \in stopped' : x \in stopped \/ (x = cancels /\ x # 0)
        BY <3>3
      <4> QED
        BY <3>2, <4>1, <4>2
    <3>5. lastSession' \in 0..MaxSessions /\ cancels' \in 0..MaxSessions
      BY <1>1, <3>1, <3>2 DEF RequestClient, CloseClient
    <3> QED
      BY <3>4, <3>5 DEF Sessions
  <2>2. UNCHANGED <<world, monitored, servers, routine, cnatVars>>
    BY <1>1 DEF RequestClient, CloseClient
  <2>3. BalanceTypeOK'
    BY <1>0, <2>1, <2>2 DEF BalanceTypeOK, world, routine, cnatVars
  <2> QED
    BY <2>2, <2>3, Quiet DEF world, routine
<1>2. CASE \E s \in Sessions, n \in NSEs : NSEDeleted(s, n)
  <2>1. monitored' \in [Sessions -> SUBSET NSEs]
    BY <1>0, <1>2 DEF NSEDeleted, BalanceTypeOK
  <2>2. UNCHANGED <<sessionVars, world, servers, routine, cnatVars>>
    BY <1>2 DEF NSEDeleted
  <2>3. BalanceTypeOK'
    BY <1>0, <2>1, <2>2 DEF BalanceTypeOK, sessionVars, world, routine, cnatVars
  <2> QED
    BY <2>2, <2>3, Quiet DEF world, routine
<1>3. CASE \E n \in env.nses : Register(n)
  <2>1. registered' \subseteq NSEs /\ changes' \in 0..MaxChanges
    BY <1>0, <1>3 DEF Register, BalanceTypeOK
  <2>2. UNCHANGED <<sessionVars, conns, monitored, servers, routine, cnatVars>>
    BY <1>3 DEF Register
  <2>3. BalanceTypeOK'
    BY <1>0, <2>1, <2>2 DEF BalanceTypeOK, sessionVars, routine, cnatVars
  <2> QED
    BY <2>2, <2>3, Quiet DEF routine
<1> QED
  BY <1>1, <1>2, <1>3

(* A list without a server is the empty list. *)
LEMMA NoServerLeft ==
    ASSUME NEW x \in Servers, \A n \in NSEs, c \in Conns : x[n][c] = Down
    PROVE  x = NoServers
<1>1. \A n \in NSEs : x[n] = [c \in Conns |-> Down]
  BY DEF Servers
<1> QED
  BY <1>1 DEF Servers, NoServers

(* A session none of whose goroutines has begun has no servers. *)
LEMMA NoServersYet ==
    ASSUME BalanceTypeOK, NotYet, NEW s \in Sessions,
           \A m \in Monitors : SessionOf(m) = s => at[m] \in {"none", "dial"}
    PROVE  servers[s] = NoServers
<1>1. servers[s] \in Servers
  BY DEF BalanceTypeOK
<1>2. \A n \in NSEs, c \in Conns : servers[s][n][c] = Down
  BY DEF NotYet
<1> QED
  BY <1>1, <1>2, NoServerLeft

(* balanceService starts a goroutine. *)
LEMMA balanceServiceIInv ==
    ASSUME BalanceIInv, env' = env, NEW s \in Sessions, NEW n \in NSEs, balanceService(s, n)
    PROVE  BalanceIInv'
<1>1. PICK k \in 1..MaxMonitors : at[<<s, n, k>>] = "none" /\ MoveTo(<<s, n, k>>, "dial")
  BY DEF balanceService
<1> DEFINE m == <<s, n, k>>
<1>2. m \in Monitors /\ SessionOf(m) = s /\ NSEOf(m) = n
  BY DEF Monitors, SessionOf, NSEOf
<1>3. /\ BalanceTypeOK
      /\ at' = [at EXCEPT ![m] = "dial"] /\ at[m] = "none"
      /\ UNCHANGED <<sessionVars, world, servers, stream, todo, paths, then, cnatVars>>
  BY <1>1 DEF balanceService, MoveTo, BalanceIInv
<1> HIDE DEF m
<1>4. /\ at' \in [Monitors -> {"none", "dial", "recv", "del", "read", "send", "end"}]
      /\ at'[m] = "dial" /\ \A x \in Monitors : x # m => at'[x] = at[x]
  BY <1>2, <1>3 DEF BalanceTypeOK
<1>5. BalanceTypeOK'
  <2>1. monitored' \in [Sessions -> SUBSET NSEs]
    BY <1>3 DEF balanceService, BalanceTypeOK
  <2> QED
    BY <1>3, <1>4, <2>1 DEF BalanceTypeOK, sessionVars, world, cnatVars
<1>6. DataOK' /\ Untouched'
  BY <1>2, <1>3, <1>4 DEF BalanceIInv, DataOK, Untouched, cnatVars
<1>7. NotYet'
  BY <1>2, <1>3, <1>4 DEF BalanceIInv, NotYet
<1>8. TodoOK'
  BY <1>2, <1>3, <1>4 DEF BalanceIInv, TodoOK
<1>9. Informed'
  <2> SUFFICES ASSUME NEW x \in Monitors, Alone(x)', Following(x)' PROVE \A c \in Conns : UpToDate(x, c)'
    BY DEF Informed
  <2>1. x # m /\ Following(x)
    BY <1>3, <1>4 DEF Following
  <2>2. Alone(x)
    BY <1>3, <1>4 DEF Alone
  <2>3. \A c \in Conns : UpToDate(x, c)
    BY <2>1, <2>2 DEF BalanceIInv, Informed
  <2> QED
    BY <1>3, <2>3 DEF UpToDate, Mentions, Now, world
<1>10. Written'
  <2> SUFFICES ASSUME SingleWriter', NEW x \in Monitors, at'[x] # "none"
               PROVE x = m /\ InVPP(x)'
    BY <1>4 DEF Written
  <2>1. x = m /\ \A y \in Monitors : at[y] = "none"
    BY <1>2, <1>3, <1>4 DEF SingleWriter
  <2>2. \A i \in Ids : cnat[i] = NoTranslation
    BY <2>1 DEF BalanceIInv, Untouched
  <2>3. servers[s] = NoServers
    BY <1>3, <2>1, NoServersYet DEF BalanceIInv
  <2> QED
    BY <1>2, <1>3, <2>1, <2>2, <2>3, NoServersType DEF InVPP, VPPHas, cnatVars
<1> QED
  BY <1>5, <1>6, <1>7, <1>8, <1>9, <1>10 DEF BalanceIInv
(* A connection of an NSE changes: every goroutine that follows the NSE    *)
(* gets an event that says so.                                             *)
LEMMA ConnectionEventIInv ==
    ASSUME BalanceIInv, env' = env, NEW n \in env.nses, NEW c \in env.conns, NEW ip \in env.ips \cup {Down},
           ConnectionEvent(n, c, ip)
    PROVE  BalanceIInv'
<1> USE Vl3lbAssumption
<1> DEFINE e == [d \in {c} |-> ip]
           Gets(m) == NSEOf(m) = n /\ at[m] \in {"recv", "del", "read", "send"} /\ then[m] # "end"
<1>1. BalanceTypeOK /\ DataOK /\ env \in Envs /\ changes < env.changes /\ changes' = changes + 1
  BY DEF BalanceIInv, BalanceTypeOK, ConnectionEvent
<1>2. n \in NSEs /\ c \in Conns /\ ip \in IPs \cup {Down} /\ env.changes \in 0..MaxChanges
  BY <1>1
<1>3. e \in ConnEvent /\ DOMAIN e = {c} /\ e[c] = ip
  <2>1. {c} \in SUBSET Conns /\ e \in [{c} -> IPs \cup {Down}]
    BY <1>2
  <2>2. e \in ConnEvent
    BY <2>1, Zenon DEF ConnEvent
  <2> QED
    BY <2>2
<1>4. /\ conns' = [conns EXCEPT ![n][c] = ip]
      /\ stream' = [m \in Monitors |-> IF Gets(m) THEN Append(stream[m], e) ELSE stream[m]]
      /\ UNCHANGED <<sessionVars, registered, monitored, servers, todo, paths, at, then, cnatVars>>
  BY DEF ConnectionEvent
<1> HIDE DEF e, Gets
<1>5. /\ conns' \in Servers
      /\ conns'[n][c] = ip
      /\ \A x \in NSEs, d \in Conns : x # n \/ d # c => conns'[x][d] = conns[x][d]
  <2>1. conns \in [NSEs -> [Conns -> IPs \cup {Down}]]
    BY <1>1 DEF BalanceTypeOK, Servers
  <2>2. conns' = [conns EXCEPT ![n] = [conns[n] EXCEPT ![c] = ip]]
    BY <1>2, <1>4, <2>1
  <2>3. /\ conns'[n] = [conns[n] EXCEPT ![c] = ip]
        /\ \A x \in NSEs : x # n => conns'[x] = conns[x]
    BY <1>2, <2>1, <2>2
  <2>4. conns[n] \in [Conns -> IPs \cup {Down}]
    BY <1>2, <2>1
  <2>5. conns'[n] \in [Conns -> IPs \cup {Down}] /\ conns'[n][c] = ip /\ \A d \in Conns : d # c => conns'[n][d] = conns[n][d]
    BY <1>2, <2>3, <2>4
  <2>6. conns' \in Servers
    BY <1>2, <2>1, <2>2, <2>3, <2>5 DEF Servers
  <2> QED
    BY <2>3, <2>5, <2>6
<1>6. \A m \in Monitors : stream'[m] = IF Gets(m) THEN Append(stream[m], e) ELSE stream[m]
  BY <1>4
<1>7. DataOK'
  <2>1. \A m \in Monitors : stream'[m] \in Seq(ConnEvent)
    <3> TAKE m \in Monitors
    <3>1. stream[m] \in Seq(ConnEvent)
      BY <1>1 DEF DataOK
    <3>2. Append(stream[m], e) \in Seq(ConnEvent)
      BY <1>3, <3>1
    <3> QED
      BY <1>6, <3>1, <3>2
  <2>2. stream' \in [Monitors -> Seq(ConnEvent)]
    BY <1>4, <1>6, <2>1
  <2> QED
    BY <1>1, <1>4, <2>2 DEF DataOK
<1>8. BalanceTypeOK'
  <2>1. changes' \in 0..MaxChanges
    BY <1>1, <1>2 DEF BalanceTypeOK
  <2>2. \A m \in Monitors : (stream[m] \in Seq(ConnEvent) /\ paths[m] \in Servers)'
    BY <1>7 DEF DataOK
  <2> QED
    BY <1>1, <1>4, <1>5, <2>1, <2>2 DEF BalanceTypeOK, sessionVars, cnatVars
<1>9. NotYet' /\ TodoOK' /\ Untouched'
  BY <1>4 DEF BalanceIInv, NotYet, TodoOK, Untouched, cnatVars
<1>10. Informed'
  <2> SUFFICES ASSUME NEW m \in Monitors, Alone(m)', Following(m)', NEW d \in Conns PROVE UpToDate(m, d)'
    BY DEF Informed
  <2>1. Alone(m) /\ Following(m)
    BY <1>4 DEF Alone, Following
  <2>2. UpToDate(m, d)
    BY <2>1 DEF BalanceIInv, Informed
  <2>3. NSEOf(m) \in NSEs
    BY MonitorType
  <2>4. NSEOf(m) = n => Gets(m)
    BY <2>1 DEF Gets, Following, BalanceIInv, TodoOK
  <2>5. stream[m] \in Seq(ConnEvent) /\ servers' = servers /\ todo' = todo
    BY <1>1, <1>4 DEF DataOK
  <2>6. CASE NSEOf(m) # n
    BY <1>5, <1>6, <2>2, <2>3, <2>5, <2>6 DEF Gets, UpToDate, Mentions, Now
  <2>7. CASE NSEOf(m) = n
    <3>1. stream'[m] = Append(stream[m], e)
      BY <1>6, <2>4, <2>7
    <3> DEFINE L == Len(stream[m])
    <3>2. /\ L \in Nat /\ Len(stream'[m]) = L + 1
          /\ stream'[m][L + 1] = e
          /\ \A i \in 1..L : stream'[m][i] = stream[m][i]
      BY <1>3, <2>5, <3>1
    <3>3. d = c => Mentions(m, d)' = Mentions(m, d) \cup {L + 1}
      BY <1>3, <3>2 DEF Mentions
    <3>4. d # c => Mentions(m, d)' = Mentions(m, d)
      <4>1. d # c => d \notin DOMAIN stream'[m][L + 1]
        BY <1>3, <3>2
      <4>2. d # c => \A i \in 1..(L + 1) : d \in DOMAIN stream'[m][i] <=> i \in 1..L /\ d \in DOMAIN stream[m][i]
        BY <3>2, <4>1
      <4> QED
        BY <3>2, <4>2 DEF Mentions
    <3>5. Mentions(m, d) \subseteq 1..L
      BY DEF Mentions
    <3>6. CASE d = c
      <4>1. \A i \in Mentions(m, d)' : (\A j \in Mentions(m, d)' : j <= i) => i = L + 1
        BY <3>2, <3>3, <3>5, <3>6
      <4> QED
        BY <1>3, <1>5, <2>2, <2>5, <2>7, <3>2, <3>3, <3>6, <4>1 DEF UpToDate
    <3>7. CASE d # c
      BY <1>5, <2>2, <2>3, <2>5, <2>7, <3>2, <3>4, <3>5, <3>7 DEF UpToDate, Now
    <3> QED
      BY <3>6, <3>7
  <2> QED
    BY <2>6, <2>7
<1>11. Written'
  BY <1>4 DEF BalanceIInv, Written, SingleWriter, InVPP, VPPHas, Failing, cnatVars
<1> QED
  BY <1>7, <1>8, <1>9, <1>10, <1>11 DEF BalanceIInv
-----------------------------------------------------------------------------
(* Steps of a goroutine *)

(* A step of goroutine m: it stays started, and touches nothing of other   *)
(* goroutines.                                                             *)
OwnStep(m) ==
    /\ at[m] # "none" /\ at'[m] \notin {"none", "dial"}
    /\ \A k \in Monitors : k # m =>
          at'[k] = at[k] /\ then'[k] = then[k] /\ stream'[k] = stream[k] /\ todo'[k] = todo[k]
          /\ paths'[k] = paths[k]
    /\ \A t \in Sessions, x \in NSEs : t # SessionOf(m) \/ x # NSEOf(m) =>
          servers'[t][x] = servers[t][x]
    /\ conns' = conns /\ env' = env

(* What goroutine m has to answer for after its step. *)
OwnInv(m) ==
    /\ todo[m] # {} => at[m] = "del" \/ (at[m] \in {"read", "send"} /\ then[m] = "del")
    /\ at[m] \in {"none", "dial", "recv", "del"} => then[m] # "end"
    /\ Alone(m) /\ Following(m) => \A c \in Conns : UpToDate(m, c)
    /\ SingleWriter =>
          /\ InVPP(m)
          /\ at[m] = "send" => paths[m] = servers[SessionOf(m)]

(* That is enough: nobody else is disturbed. *)
LEMMA OwnStepIInv ==
    ASSUME BalanceIInv, NEW m \in Monitors, OwnStep(m), BalanceTypeOK', DataOK', OwnInv(m)'
    PROVE  BalanceIInv'
<1>1. NotYet'
  <2> SUFFICES ASSUME NEW s \in Sessions, NEW n \in NSEs,
                      \A k \in Monitors : SessionOf(k) = s /\ NSEOf(k) = n => at'[k] \in {"none", "dial"},
                      NEW c \in Conns
               PROVE  servers'[s][n][c] = Down
    BY DEF NotYet
  <2>1. SessionOf(m) # s \/ NSEOf(m) # n
    BY DEF OwnStep
  <2>2. servers'[s][n] = servers[s][n]
    BY <2>1 DEF OwnStep
  <2>3. \A k \in Monitors : SessionOf(k) = s /\ NSEOf(k) = n => at[k] \in {"none", "dial"}
    BY <2>1 DEF OwnStep
  <2> QED
    BY <2>2, <2>3 DEF BalanceIInv, NotYet
<1>2. TodoOK'
  BY DEF BalanceIInv, TodoOK, OwnStep, OwnInv
<1>3. Informed'
  <2> SUFFICES ASSUME NEW k \in Monitors, Alone(k)', Following(k)', NEW c \in Conns PROVE UpToDate(k, c)'
    BY DEF Informed
  <2>1. CASE k = m
    BY <2>1 DEF OwnInv
  <2>2. CASE k # m
    <3>1. SessionOf(k) # SessionOf(m) \/ NSEOf(k) # NSEOf(m)
      BY <2>2 DEF Alone, OwnStep
    <3>2. Alone(k) /\ Following(k)
      BY <2>2 DEF Alone, Following, OwnStep
    <3>3. UpToDate(k, c)
      BY <3>2 DEF BalanceIInv, Informed
    <3>4. servers'[SessionOf(k)][NSEOf(k)] = servers[SessionOf(k)][NSEOf(k)]
      BY <3>1, MonitorType DEF OwnStep
    <3>5. stream'[k] = stream[k] /\ todo'[k] = todo[k] /\ conns' = conns
      BY <2>2 DEF OwnStep
    <3> QED
      BY <3>3, <3>4, <3>5 DEF UpToDate, Mentions, Now
  <2> QED
    BY <2>1, <2>2
<1>4. Written'
  <2> SUFFICES ASSUME SingleWriter', NEW k \in Monitors, at'[k] # "none" PROVE k = m
    BY DEF Written, OwnInv
  <2> QED
    BY DEF SingleWriter, OwnStep
<1>5. Untouched'
  BY DEF Untouched, OwnStep
<1> QED
  BY <1>1, <1>2, <1>3, <1>4, <1>5 DEF BalanceIInv

(* A goroutine that is the only one now was the only one before.           *)
LEMMA OwnBefore ==
    ASSUME NEW m \in Monitors, OwnStep(m)
    PROVE  (Alone(m)' => Alone(m)) /\ (SingleWriter' => SingleWriter)
<1>1. Alone(m)' => Alone(m)
  BY DEF Alone, OwnStep
<1>2. SingleWriter' => SingleWriter
  BY DEF SingleWriter, OwnStep, Failing
<1> QED
  BY <1>1, <1>2

(* The steps that leave the servers and the events alone keep the handler  *)
(* up to date.                                                             *)
LEMMA SameHandler ==
    ASSUME BalanceIInv, NEW m \in Monitors, OwnStep(m), Following(m)' => Following(m), servers' = servers,
           stream'[m] = stream[m], todo'[m] = todo[m]
    PROVE  Alone(m)' /\ Following(m)' => \A c \in Conns : UpToDate(m, c)'
<1> SUFFICES ASSUME Alone(m)', Following(m)', NEW c \in Conns PROVE UpToDate(m, c)'
  OBVIOUS
<1>1. UpToDate(m, c)
  BY OwnBefore DEF BalanceIInv, Informed
<1>2. conns' = conns
  BY DEF OwnStep
<1> QED
  BY <1>1, <1>2 DEF UpToDate, Mentions, Now

(* VPP is left alone by all but updateVPPCnat. *)
LEMMA SameVPP ==
    ASSUME BalanceIInv, NEW m \in Monitors, OwnStep(m), at[m] \notin {"read", "send"}, cnatVars' = cnatVars,
           servers' = servers \/ at'[m] = "read", at'[m] # "send"
    PROVE  SingleWriter' => InVPP(m)'
<1> SUFFICES ASSUME SingleWriter' PROVE InVPP(m)'
  OBVIOUS
<1>1. PICK p \in Servers : /\ VPPHas(SessionOf(m), p)
                           /\ SessionOf(m) \notin unwritten => p = servers[SessionOf(m)]
  BY OwnBefore DEF BalanceIInv, Written, OwnStep, InVPP
<1>2. cnat' = cnat /\ unwritten' = unwritten
  BY DEF cnatVars
<1>3. VPPHas(SessionOf(m), p)'
  BY <1>1, <1>2 DEF VPPHas
<1> QED
  BY <1>1, <1>2, <1>3 DEF InVPP

(* MonitorConnections: the first event holds the connections there are. *)
LEMMA MonitorConnectionsIInv ==
    ASSUME BalanceIInv, env' = env, NEW m \in Monitors, MonitorConnections(m)
    PROVE  BalanceIInv'
<1> DEFINE n == NSEOf(m)
           e == [c \in {d \in Conns : conns[n][d] # Down} |-> conns[n][c]]
<1>1. BalanceTypeOK /\ DataOK /\ at[m] = "dial" /\ n \in NSEs /\ SessionOf(m) \in Sessions
  BY MonitorType DEF BalanceIInv, MonitorConnections
<1>2. /\ stream' = [stream EXCEPT ![m] = <<e>>]
      /\ at' = [at EXCEPT ![m] = "recv"]
      /\ UNCHANGED <<sessionVars, world, monitored, servers, todo, paths, then, cnatVars>>
  BY DEF MonitorConnections, MoveTo
<1>3. conns[n] \in [Conns -> IPs \cup {Down}]
  BY <1>1 DEF BalanceTypeOK, Servers
<1>4. e \in ConnEvent
  <2>1. DOMAIN e \in SUBSET Conns /\ e \in [DOMAIN e -> IPs \cup {Down}]
    BY <1>3
  <2> HIDE DEF e
  <2> QED
    BY <2>1, Zenon DEF ConnEvent
<1>5. \A c \in Conns : /\ c \in DOMAIN e <=> conns[n][c] # Down
                       /\ c \in DOMAIN e => e[c] = conns[n][c]
  OBVIOUS
<1> HIDE DEF e
<1>6. <<e>> \in Seq(ConnEvent) /\ Len(<<e>>) = 1 /\ <<e>>[1] = e
  BY <1>4
<1>7. /\ stream' \in [Monitors -> Seq(ConnEvent)] /\ stream'[m] = <<e>>
      /\ at' \in [Monitors -> {"none", "dial", "recv", "del", "read", "send", "end"}] /\ at'[m] = "recv"
      /\ \A k \in Monitors : k # m => stream'[k] = stream[k] /\ at'[k] = at[k]
  BY <1>1, <1>2, <1>6 DEF BalanceTypeOK, DataOK
<1>8. OwnStep(m)
  BY <1>1, <1>2, <1>7 DEF OwnStep, world
<1>9. DataOK'
  BY <1>1, <1>2, <1>7 DEF DataOK
<1>10. BalanceTypeOK'
  BY <1>1, <1>2, <1>7, <1>9 DEF BalanceTypeOK, DataOK, sessionVars, world, cnatVars
<1>11. todo'[m] = {} /\ then'[m] # "end"
  BY <1>1, <1>2 DEF BalanceIInv, TodoOK
<1>12. ASSUME Alone(m)', NEW c \in Conns PROVE UpToDate(m, c)'
  <2>1. \A k \in Monitors : SessionOf(k) = SessionOf(m) /\ NSEOf(k) = NSEOf(m) => at[k] \in {"none", "dial"}
    BY <1>1, <1>7, <1>12 DEF Alone
  <2>2. servers'[SessionOf(m)][n][c] = Down
    BY <1>1, <1>2, <2>1 DEF BalanceIInv, NotYet
  <2>3. Mentions(m, c)' = IF conns[n][c] # Down THEN {1} ELSE {}
    <3>1. 1..Len(stream'[m]) = {1}
      BY <1>6, <1>7
    <3>2. c \in DOMAIN stream'[m][1] <=> conns[n][c] # Down
      BY <1>5, <1>6, <1>7
    <3> QED
      BY <3>1, <3>2 DEF Mentions
  <2>4. conns' = conns
    BY <1>2 DEF world
  <2>5. CASE conns[n][c] # Down
    <3>1. stream'[m][1][c] = conns[n][c] /\ Mentions(m, c)' = {1}
      BY <1>5, <1>6, <1>7, <2>3, <2>5
    <3> QED
      BY <2>2, <2>4, <3>1 DEF UpToDate
  <2>6. CASE conns[n][c] = Down
    BY <1>11, <2>2, <2>3, <2>4, <2>6 DEF UpToDate, Now
  <2> QED
    BY <2>5, <2>6
<1>13. SingleWriter' => InVPP(m)'
  BY <1>1, <1>2, <1>7, <1>8, SameVPP
<1>14. OwnInv(m)'
  BY <1>7, <1>11, <1>12, <1>13 DEF OwnInv
<1> QED
  BY <1>8, <1>9, <1>10, <1>14, OwnStepIInv

(* DialFails: the goroutine ends before it has begun. *)
LEMMA DialFailsIInv ==
    ASSUME BalanceIInv, env' = env, NEW m \in Monitors, DialFails(m)
    PROVE  BalanceIInv'
<1>1. BalanceTypeOK /\ DataOK /\ at[m] = "dial" /\ SessionOf(m) \in Sessions
  BY MonitorType DEF BalanceIInv, DialFails
<1>2. /\ at' = [at EXCEPT ![m] = "end"]
      /\ UNCHANGED <<sessionVars, world, monitored, servers, stream, todo, paths, then, cnatVars>>
  BY DEF DialFails, MoveTo
<1>3. /\ at' \in [Monitors -> {"none", "dial", "recv", "del", "read", "send", "end"}] /\ at'[m] = "end"
      /\ \A k \in Monitors : k # m => at'[k] = at[k]
  BY <1>1, <1>2 DEF BalanceTypeOK
<1>4. OwnStep(m)
  BY <1>1, <1>2, <1>3 DEF OwnStep, world
<1>5. BalanceTypeOK' /\ DataOK'
  BY <1>1, <1>2, <1>3 DEF BalanceTypeOK, DataOK, sessionVars, world, cnatVars
<1>6. todo'[m] = {}
  BY <1>1, <1>2 DEF BalanceIInv, TodoOK
<1>7. SingleWriter' => InVPP(m)'
  BY <1>1, <1>2, <1>3, <1>4, SameVPP
<1>8. OwnInv(m)'
  BY <1>3, <1>6, <1>7 DEF OwnInv, Following
<1> QED
  BY <1>4, <1>5, <1>8, OwnStepIInv

(* RecvFails: all servers of the NSE go, and nobody follows it any more. *)
LEMMA RecvFailsIInv ==
    ASSUME BalanceIInv, env' = env, NEW m \in Monitors, RecvFails(m)
    PROVE  BalanceIInv'
<1>1. BalanceTypeOK /\ DataOK /\ at[m] = "recv" /\ SessionOf(m) \in Sessions
  BY MonitorType DEF BalanceIInv, RecvFails
<1>2. /\ deleteServers(m, getServerIDsByVL3Name(m), "end")
      /\ stream' = [stream EXCEPT ![m] = <<>>]
      /\ UNCHANGED <<sessionVars, world, monitored, todo, paths, cnatVars>>
  BY DEF RecvFails
<1>3. /\ servers' \in [Sessions -> Servers]
      /\ \A t \in Sessions, k \in NSEs : t # SessionOf(m) \/ k # NSEOf(m) => servers'[t][k] = servers[t][k]
      /\ \/ at' = [at EXCEPT ![m] = "read"] /\ then' = [then EXCEPT ![m] = "end"]
         \/ at' = [at EXCEPT ![m] = "end"] /\ then' = then /\ servers' = servers
  BY <1>1, <1>2, DelFields
<1>4. /\ at' \in [Monitors -> {"none", "dial", "recv", "del", "read", "send", "end"}]
      /\ \A k \in Monitors : k # m => at'[k] = at[k] /\ then'[k] = then[k]
      /\ (at'[m] = "read" /\ then'[m] = "end") \/ (at'[m] = "end" /\ servers' = servers)
      /\ then' \in [Monitors -> {"recv", "del", "end"}]
  BY <1>1, <1>3 DEF BalanceTypeOK
<1>5. stream' \in [Monitors -> Seq(ConnEvent)] /\ \A k \in Monitors : k # m => stream'[k] = stream[k]
  <2>1. <<>> \in Seq(ConnEvent)
    OBVIOUS
  <2> QED
    BY <1>1, <1>2, <2>1 DEF DataOK
<1>6. OwnStep(m)
  BY <1>1, <1>2, <1>3, <1>4, <1>5 DEF OwnStep, world
<1>7. DataOK'
  BY <1>1, <1>2, <1>5 DEF DataOK
<1>8. BalanceTypeOK'
  BY <1>1, <1>2, <1>3, <1>4, <1>7 DEF BalanceTypeOK, DataOK, sessionVars, world, cnatVars
<1>9. todo'[m] = {}
  BY <1>1, <1>2 DEF BalanceIInv, TodoOK
<1>10. SingleWriter' => InVPP(m)'
  BY <1>1, <1>2, <1>4, <1>6, SameVPP
<1>11. OwnInv(m)'
  BY <1>4, <1>9, <1>10 DEF OwnInv, Following
<1> QED
  BY <1>6, <1>7, <1>8, <1>11, OwnStepIInv

(* ReadServers: the list is the one of the handler. *)
LEMMA ReadServersIInv ==
    ASSUME BalanceIInv, env' = env, NEW m \in Monitors, ReadServers(m)
    PROVE  BalanceIInv'
<1>1. BalanceTypeOK /\ DataOK /\ at[m] = "read" /\ SessionOf(m) \in Sessions
  BY MonitorType DEF BalanceIInv, ReadServers
<1>2. /\ paths' = [paths EXCEPT ![m] = servers[SessionOf(m)]]
      /\ at' = [at EXCEPT ![m] = "send"]
      /\ UNCHANGED <<sessionVars, world, monitored, servers, stream, todo, then, cnatVars>>
  BY DEF ReadServers, MoveTo
<1>3. /\ at' \in [Monitors -> {"none", "dial", "recv", "del", "read", "send", "end"}] /\ at'[m] = "send"
      /\ paths' \in [Monitors -> Servers] /\ paths'[m] = servers[SessionOf(m)]
      /\ \A k \in Monitors : k # m => at'[k] = at[k] /\ paths'[k] = paths[k]
  BY <1>1, <1>2 DEF BalanceTypeOK, DataOK
<1>4. OwnStep(m)
  BY <1>1, <1>2, <1>3 DEF OwnStep, world
<1>5. DataOK'
  BY <1>1, <1>2, <1>3 DEF DataOK
<1>6. BalanceTypeOK'
  BY <1>1, <1>2, <1>3, <1>5 DEF BalanceTypeOK, DataOK, sessionVars, world, cnatVars
<1>7. todo'[m] # {} => then'[m] = "del"
  BY <1>1, <1>2 DEF BalanceIInv, TodoOK
<1>8. Alone(m)' /\ Following(m)' => \A c \in Conns : UpToDate(m, c)'
  <2>1. Following(m)' => Following(m)
    BY <1>1, <1>2, <1>3 DEF Following
  <2> QED
    BY <1>2, <1>4, <2>1, SameHandler
<1>9. SingleWriter' => InVPP(m)'
  <2>1. SingleWriter' => \E p \in Servers : VPPHas(SessionOf(m), p)
    BY <1>1, <1>4, OwnBefore DEF BalanceIInv, Written, InVPP
  <2> QED
    BY <1>2, <1>3, <2>1 DEF InVPP, VPPHas, cnatVars
<1>10. OwnInv(m)'
  BY <1>2, <1>3, <1>7, <1>8, <1>9 DEF OwnInv
<1> QED
  BY <1>4, <1>5, <1>6, <1>10, OwnStepIInv
(* DeleteTodo: the servers that went with the last event are forgotten. *)
LEMMA DeleteTodoIInv ==
    ASSUME BalanceIInv, env' = env, NEW m \in Monitors, DeleteTodo(m)
    PROVE  BalanceIInv'
<1>1. /\ BalanceTypeOK /\ DataOK /\ at[m] = "del" /\ SessionOf(m) \in Sessions /\ NSEOf(m) \in NSEs
      /\ then[m] # "end"
  BY MonitorType DEF BalanceIInv, DeleteTodo, TodoOK
<1>2. /\ deleteServers(m, todo[m], "recv")
      /\ todo' = [todo EXCEPT ![m] = {}]
      /\ UNCHANGED <<sessionVars, world, monitored, stream, paths, cnatVars>>
  BY DEF DeleteTodo
<1>3. /\ servers' \in [Sessions -> Servers]
      /\ \A t \in Sessions, k \in NSEs : t # SessionOf(m) \/ k # NSEOf(m) => servers'[t][k] = servers[t][k]
      /\ \A c \in Conns : servers'[SessionOf(m)][NSEOf(m)][c] =
                             IF c \in todo[m] THEN Down ELSE servers[SessionOf(m)][NSEOf(m)][c]
      /\ \/ at' = [at EXCEPT ![m] = "read"] /\ then' = [then EXCEPT ![m] = "recv"]
         \/ at' = [at EXCEPT ![m] = "recv"] /\ then' = then /\ servers' = servers
  BY <1>1, <1>2, DelFields
<1>4. /\ at' \in [Monitors -> {"none", "dial", "recv", "del", "read", "send", "end"}]
      /\ \A k \in Monitors : k # m => at'[k] = at[k] /\ then'[k] = then[k]
      /\ at'[m] = "read" \/ (at'[m] = "recv" /\ servers' = servers)
      /\ then'[m] # "end"
      /\ then' \in [Monitors -> {"recv", "del", "end"}]
  <2>1. CASE at' = [at EXCEPT ![m] = "read"] /\ then' = [then EXCEPT ![m] = "recv"]
    BY <1>1, <2>1 DEF BalanceTypeOK
  <2>2. CASE at' = [at EXCEPT ![m] = "recv"] /\ then' = then /\ servers' = servers
    BY <1>1, <2>2 DEF BalanceTypeOK
  <2> QED
    BY <1>3, <2>1, <2>2
<1>5. /\ todo' \in [Monitors -> SUBSET Conns] /\ todo'[m] = {}
      /\ \A k \in Monitors : k # m => todo'[k] = todo[k]
  BY <1>1, <1>2 DEF BalanceTypeOK
<1>6. OwnStep(m)
  BY <1>1, <1>2, <1>3, <1>4, <1>5 DEF OwnStep, world
<1>7. DataOK'
  BY <1>1, <1>2 DEF DataOK
<1>8. BalanceTypeOK'
  BY <1>1, <1>2, <1>3, <1>4, <1>5, <1>7 DEF BalanceTypeOK, DataOK, sessionVars, world, cnatVars
<1>9. ASSUME Alone(m)', NEW c \in Conns PROVE UpToDate(m, c)'
  <2>1. UpToDate(m, c)
    BY <1>1, <1>6, <1>9, OwnBefore DEF BalanceIInv, Informed, Following
  <2>2. Mentions(m, c)' = Mentions(m, c)
    BY <1>2 DEF Mentions
  <2>3. Now(m, c)' = Now(m, c)
    BY <1>3, <1>5 DEF Now
  <2> QED
    BY <1>2, <1>3, <2>1, <2>2, <2>3 DEF UpToDate, world
<1>10. SingleWriter' => InVPP(m)'
  BY <1>1, <1>2, <1>4, <1>6, SameVPP
<1>11. OwnInv(m)'
  BY <1>4, <1>5, <1>9, <1>10 DEF OwnInv
<1> QED
  BY <1>6, <1>7, <1>8, <1>11, OwnStepIInv

(* RecvEvent: what the event says is in the handler, or is still to be     *)
(* deleted from it.                                                        *)
LEMMA RecvEventIInv ==
    ASSUME BalanceIInv, env' = env, NEW m \in Monitors, RecvEvent(m)
    PROVE  BalanceIInv'
<1> DEFINE e == Head(stream[m])
           f == filterConnections(e)
<1>1. /\ BalanceTypeOK /\ DataOK /\ at[m] = "recv" /\ SessionOf(m) \in Sessions /\ NSEOf(m) \in NSEs
      /\ then[m] # "end" /\ todo[m] = {} /\ stream[m] # <<>>
  BY MonitorType DEF BalanceIInv, RecvEvent, TodoOK
<1>2. /\ addServers(m, f.add)
      /\ todo' = [todo EXCEPT ![m] = f.del]
      /\ stream' = [stream EXCEPT ![m] = Tail(stream[m])]
      /\ UNCHANGED <<sessionVars, world, monitored, paths, cnatVars>>
  BY DEF RecvEvent
<1>3. stream[m] \in Seq(ConnEvent)
  BY <1>1 DEF DataOK
<1>4. /\ e \in ConnEvent /\ e = stream[m][1] /\ Tail(stream[m]) \in Seq(ConnEvent)
      /\ Len(stream[m]) \in Nat \ {0}
      /\ Len(Tail(stream[m])) = Len(stream[m]) - 1
      /\ \A i \in 1..Len(Tail(stream[m])) : Tail(stream[m])[i] = stream[m][i + 1]
  BY <1>1, <1>3
<1> HIDE DEF e
<1>5. /\ DOMAIN f.add = {c \in DOMAIN e \cap Selected : e[c] # Down}
      /\ \A c \in DOMAIN f.add : f.add[c] = e[c]
      /\ f.del = {c \in DOMAIN e \cap Selected : e[c] = Down}
  BY <1>4, FilterFields
<1> HIDE DEF f
<1>6. DOMAIN e \subseteq Conns /\ \A c \in DOMAIN e : e[c] \in IPs \cup {Down}
  BY <1>4, EventType
<1>7. DOMAIN f.add \subseteq Conns /\ \A c \in DOMAIN f.add : f.add[c] \in IPs \cup {Down}
  BY <1>5, <1>6
<1>8. /\ servers' \in [Sessions -> Servers]
      /\ \A t \in Sessions, k \in NSEs : t # SessionOf(m) \/ k # NSEOf(m) => servers'[t][k] = servers[t][k]
      /\ \A c \in Conns : servers'[SessionOf(m)][NSEOf(m)][c] =
                             IF c \in DOMAIN f.add THEN f.add[c] ELSE servers[SessionOf(m)][NSEOf(m)][c]
      /\ \/ at' = [at EXCEPT ![m] = "read"] /\ then' = [then EXCEPT ![m] = "del"]
         \/ at' = [at EXCEPT ![m] = "del"] /\ then' = then /\ servers' = servers
  BY <1>1, <1>2, <1>7, AddFields
<1>9. /\ at' \in [Monitors -> {"none", "dial", "recv", "del", "read", "send", "end"}]
      /\ \A k \in Monitors : k # m => at'[k] = at[k] /\ then'[k] = then[k]
      /\ (at'[m] = "read" /\ then'[m] = "del") \/ (at'[m] = "del" /\ servers' = servers /\ then'[m] # "end")
      /\ then' \in [Monitors -> {"recv", "del", "end"}]
  <2>1. CASE at' = [at EXCEPT ![m] = "read"] /\ then' = [then EXCEPT ![m] = "del"]
    BY <1>1, <2>1 DEF BalanceTypeOK
  <2>2. CASE at' = [at EXCEPT ![m] = "del"] /\ then' = then /\ servers' = servers
    BY <1>1, <2>2 DEF BalanceTypeOK
  <2> QED
    BY <1>8, <2>1, <2>2
<1>10. /\ todo' \in [Monitors -> SUBSET Conns] /\ todo'[m] = f.del
       /\ \A k \in Monitors : k # m => todo'[k] = todo[k]
  <2>1. f.del \in SUBSET Conns
    BY <1>5, <1>6
  <2> QED
    BY <1>1, <1>2, <2>1 DEF BalanceTypeOK
<1>11. /\ stream' \in [Monitors -> Seq(ConnEvent)] /\ stream'[m] = Tail(stream[m])
       /\ \A k \in Monitors : k # m => stream'[k] = stream[k]
  BY <1>1, <1>2, <1>4 DEF DataOK
<1>12. OwnStep(m)
  BY <1>1, <1>2, <1>8, <1>9, <1>10, <1>11 DEF OwnStep, world
<1>13. DataOK'
  BY <1>1, <1>2, <1>11 DEF DataOK
<1>14. BalanceTypeOK'
  BY <1>1, <1>2, <1>8, <1>9, <1>10, <1>13 DEF BalanceTypeOK, DataOK, sessionVars, world, cnatVars
<1>15. ASSUME Alone(m)', NEW c \in Conns PROVE UpToDate(m, c)'
  <2> DEFINE old == servers[SessionOf(m)][NSEOf(m)][c]
             new == conns[NSEOf(m)][c]
  <2>1. UpToDate(m, c)
    BY <1>1, <1>12, <1>15, OwnBefore DEF BalanceIInv, Informed, Following
  <2>2. conns' = conns
    BY <1>2 DEF world
  <2>3. \A i \in 1..Len(stream'[m]) : i \in Mentions(m, c)' <=> i + 1 \in Mentions(m, c)
    BY <1>4, <1>11 DEF Mentions
  <2>4. /\ Mentions(m, c) \subseteq 1..Len(stream[m]) /\ Mentions(m, c)' \subseteq 1..Len(stream'[m])
        /\ Len(stream'[m]) = Len(stream[m]) - 1
        /\ 1 \in Mentions(m, c) <=> c \in DOMAIN e
    BY <1>4, <1>11 DEF Mentions
  <2>5. \A j \in Mentions(m, c) : j = 1 \/ (j - 1 \in Mentions(m, c)')
    BY <1>4, <2>3, <2>4
  <2>6. ASSUME NEW i \in Mentions(m, c)', \A j \in Mentions(m, c)' : j <= i
        PROVE  stream'[m][i][c] = new
    <3>1. i + 1 \in Mentions(m, c) /\ i \in 1..Len(stream'[m])
      BY <2>3, <2>4, <2>6
    <3>2. \A j \in Mentions(m, c) : j <= i + 1
      BY <1>4, <2>4, <2>5, <2>6
    <3>3. stream[m][i + 1][c] = new
      BY <2>1, <3>1, <3>2 DEF UpToDate
    <3> QED
      BY <1>4, <1>11, <3>1, <3>3
  <2>7. ASSUME Mentions(m, c)' = {}, c \in Selected PROVE Now(m, c)' = new
    <3>1. CASE c \in DOMAIN e
      <4>1. 1 \in Mentions(m, c) /\ \A j \in Mentions(m, c) : j <= 1
        BY <2>4, <2>5, <2>7, <3>1
      <4>2. e[c] = new
        BY <1>4, <2>1, <4>1 DEF UpToDate
      <4>3. CASE e[c] = Down
        BY <1>5, <1>10, <2>7, <3>1, <4>2, <4>3 DEF Now
      <4>4. CASE e[c] # Down
        BY <1>5, <1>8, <1>10, <2>7, <3>1, <4>2, <4>4 DEF Now
      <4> QED
        BY <4>3, <4>4
    <3>2. CASE c \notin DOMAIN e
      <4>1. Mentions(m, c) = {}
        BY <2>4, <2>5, <2>7, <3>2
      <4>2. old = new
        BY <1>1, <2>1, <2>7, <4>1 DEF UpToDate, Now
      <4> QED
        BY <1>5, <1>8, <1>10, <3>2, <4>2 DEF Now
    <3> QED
      BY <3>1, <3>2
  <2>8. c \notin Selected => servers'[SessionOf(m)][NSEOf(m)][c] = Down
    BY <1>5, <1>8, <2>1 DEF UpToDate
  <2> QED
    BY <2>2, <2>6, <2>7, <2>8 DEF UpToDate
<1>16. SingleWriter' => InVPP(m)'
  BY <1>1, <1>2, <1>9, <1>12, SameVPP
<1>17. OwnInv(m)'
  BY <1>9, <1>15, <1>16 DEF OwnInv
<1> QED
  BY <1>12, <1>13, <1>14, <1>17, OwnStepIInv
(* Where VPP has a list for session s or none at all, the translation of s *)
(* is the first.                                                           *)
LEMMA FirstId ==
    ASSUME NEW s \in Sessions, NEW p \in Servers, VPPHas(s, p)
    PROVE  /\ 0 \in Ids /\ IdOf(s) = 0
           /\ (\E i \in Ids : cnat[i].vip = s) <=> p # NoServers
           /\ \A t \in Sessions : t # s => \A i \in Ids : cnat[i].vip # t
<1> USE Vl3lbAssumption
<1>1. s \in Nat \ {0} /\ MaxSessions \in Nat /\ 0 \in Ids /\ Ids \subseteq Nat
  BY DEF Sessions, Ids
<1>2. NoTranslation.vip = 0 /\ [vip |-> s, paths |-> p].vip = s
  BY DEF NoTranslation
<1>3. /\ cnat[0].vip = IF p # NoServers THEN s ELSE 0
      /\ \A i \in Ids : i # 0 => cnat[i].vip = 0
  BY <1>1, <1>2 DEF VPPHas
<1> DEFINE P(i) == \/ cnat[i].vip = s
                   \/ /\ \A j \in Ids : cnat[j].vip # s
                      /\ cnat[i].vip = 0 /\ \A j \in 0..(i - 1) : cnat[j].vip # 0
<1>4. P(0)
  BY <1>1, <1>3
<1>5. \A i \in Ids : P(i) => i = 0
  <2> SUFFICES ASSUME NEW i \in Ids, P(i), i # 0 PROVE FALSE
    OBVIOUS
  <2>1. i \in Nat /\ 0 \in 0..(i - 1)
    BY <1>1
  <2>2. cnat[i].vip # s
    BY <1>1, <1>3
  <2>3. (\A j \in Ids : cnat[j].vip # s) /\ cnat[0].vip # 0
    BY <2>1, <2>2
  <2> QED
    BY <1>1, <1>3, <2>3
<1>6. IdOf(s) = 0
  <2>1. IdOf(s) = CHOOSE i \in Ids : P(i)
    BY DEF IdOf
  <2> HIDE DEF P
  <2>2. (CHOOSE i \in Ids : P(i)) = 0
    BY <1>1, <1>4, <1>5
  <2> QED
    BY <2>1, <2>2
<1>7. (\E i \in Ids : cnat[i].vip = s) <=> p # NoServers
  BY <1>1, <1>3
<1>8. \A t \in Sessions : t # s => \A i \in Ids : cnat[i].vip # t
  BY <1>1, <1>3 DEF Sessions
<1> QED
  BY <1>1, <1>6, <1>7, <1>8

(* Every translation has a session or none. *)
LEMMA UpdateTypes ==
    ASSUME BalanceTypeOK, DataOK, NEW m \in Monitors, updateVPPCnat(m)
    PROVE  /\ cnat' \in [Ids -> [vip : {0} \cup Sessions, paths : Servers]]
           /\ unwritten' \subseteq Sessions
           /\ paths' \in [Monitors -> Servers]
           /\ \A k \in Monitors : k # m => paths'[k] = paths[k]
<1>1. /\ SessionOf(m) \in Sessions /\ paths[m] \in Servers /\ NoServers \in Servers
      /\ cnat \in [Ids -> [vip : {0} \cup Sessions, paths : Servers]]
  BY MonitorType, NoServersType DEF DataOK, BalanceTypeOK
<1>2. paths' = [paths EXCEPT ![m] = NoServers]
  BY DEF updateVPPCnat
<1>3. /\ NoTranslation \in [vip : {0} \cup Sessions, paths : Servers]
      /\ [vip |-> SessionOf(m), paths |-> paths[m]] \in [vip : {0} \cup Sessions, paths : Servers]
  BY <1>1 DEF NoTranslation
<1>4. \/ cnat' = [cnat EXCEPT ![0] = NoTranslation]
      \/ cnat' = [cnat EXCEPT ![IdOf(SessionOf(m))] = [vip |-> SessionOf(m), paths |-> paths[m]]]
      \/ cnat' = cnat
  BY DEF updateVPPCnat, Translation, cnatVars
<1>5. cnat' \in [Ids -> [vip : {0} \cup Sessions, paths : Servers]]
  <2> DEFINE T == [vip : {0} \cup Sessions, paths : Servers]
  <2>1. ASSUME NEW i, NEW x \in T, cnat' = [cnat EXCEPT ![i] = x] PROVE cnat' \in [Ids -> T]
    <3> HIDE DEF T
    <3> QED
      BY <1>1, <2>1 DEF T
  <2> QED
    BY <1>1, <1>3, <1>4, <2>1
<1>6. unwritten' \subseteq Sessions
  BY <1>1 DEF updateVPPCnat, BalanceTypeOK, cnatVars
<1> QED
  BY <1>1, <1>2, <1>5, <1>6 DEF DataOK

(* updateVPPCnat: where no call fails, VPP has what the handler has, or    *)
(* the session is one of those whose update was lost.                      *)
LEMMA updateVPPCnatIInv ==
    ASSUME BalanceIInv, env' = env, NEW m \in Monitors, updateVPPCnat(m)
    PROVE  BalanceIInv'
<1> DEFINE s == SessionOf(m)
<1>1. /\ BalanceTypeOK /\ DataOK /\ at[m] = "send" /\ s \in Sessions
      /\ then[m] \in {"recv", "del", "end"}
  BY MonitorType DEF BalanceIInv, updateVPPCnat, BalanceTypeOK
<1>2. /\ at' = [at EXCEPT ![m] = then[m]]
      /\ UNCHANGED <<sessionVars, world, monitored, servers, stream, todo, then>>
  BY DEF updateVPPCnat, MoveTo
<1>3. /\ cnat' \in [Ids -> [vip : {0} \cup Sessions, paths : Servers]]
      /\ unwritten' \subseteq Sessions
      /\ paths' \in [Monitors -> Servers]
      /\ \A k \in Monitors : k # m => paths'[k] = paths[k]
  BY <1>1, UpdateTypes
<1>4. /\ at' \in [Monitors -> {"none", "dial", "recv", "del", "read", "send", "end"}] /\ at'[m] = then[m]
      /\ \A k \in Monitors : k # m => at'[k] = at[k]
  BY <1>1, <1>2 DEF BalanceTypeOK
<1>5. OwnStep(m)
  BY <1>1, <1>2, <1>3, <1>4 DEF OwnStep, world
<1>6. DataOK'
  BY <1>1, <1>2, <1>3 DEF DataOK
<1>7. BalanceTypeOK'
  BY <1>1, <1>2, <1>3, <1>4, <1>6 DEF BalanceTypeOK, DataOK, sessionVars, world, cnatVars
<1>8. todo'[m] # {} => at'[m] = "del"
  BY <1>1, <1>2, <1>4 DEF BalanceIInv, TodoOK
<1>9. Alone(m)' /\ Following(m)' => \A c \in Conns : UpToDate(m, c)'
  <2>1. Following(m)' => Following(m)
    BY <1>1, <1>2, <1>4 DEF Following
  <2> QED
    BY <1>2, <1>5, <2>1, SameHandler
<1>10. ASSUME SingleWriter' PROVE InVPP(m)'
  <2>1. SingleWriter
    BY <1>5, <1>10, OwnBefore
  <2>2. PICK p \in Servers : VPPHas(s, p)
    BY <1>1, <2>1 DEF BalanceIInv, Written, InVPP
  <2>3. paths[m] = servers[s] /\ servers'[s] = servers[s] /\ servers[s] \in Servers
    BY <1>1, <1>2, <2>1 DEF BalanceIInv, Written, BalanceTypeOK
  <2>4. CASE s \in unwritten' /\ cnat' = cnat
    BY <2>2, <2>4 DEF InVPP, VPPHas
  <2>5. CASE ~(s \in unwritten' /\ cnat' = cnat)
    <3>1. 0 \in Ids /\ IdOf(s) = 0
      BY <1>1, <2>2, FirstId
    <3>2. \/ paths[m] = NoServers /\ cnat' = [cnat EXCEPT ![0] = NoTranslation]
          \/ paths[m] # NoServers /\ cnat' = [cnat EXCEPT ![0] = [vip |-> s, paths |-> paths[m]]]
      BY <2>1, <2>5, <3>1 DEF updateVPPCnat, Translation, SingleWriter
    <3>3. \A i \in Ids : i # 0 => cnat[i] = NoTranslation
      BY <2>2 DEF VPPHas
    <3>4. DOMAIN cnat = Ids
      BY <1>1 DEF BalanceTypeOK
    <3>5. VPPHas(s, servers[s])'
      BY <2>3, <3>1, <3>2, <3>3, <3>4 DEF VPPHas
    <3> QED
      BY <2>3, <3>5 DEF InVPP
  <2> QED
    BY <2>4, <2>5
<1>11. OwnInv(m)'
  BY <1>1, <1>2, <1>4, <1>8, <1>9, <1>10 DEF OwnInv
<1> QED
  BY <1>5, <1>6, <1>7, <1>11, OwnStepIInv

-----------------------------------------------------------------------------
(* The theorems *)

(* Every step preserves the invariant. *)
LEMMA NextBalanceIInv == BalanceIInv /\ [BalanceNext]_balanceVars => BalanceIInv'
<1> SUFFICES ASSUME BalanceIInv, [BalanceNext]_balanceVars PROVE BalanceIInv'
  OBVIOUS
<1>1. CASE UNCHANGED balanceVars
  <2>1. UNCHANGED <<env, sessionVars, world, monitored, servers, routine, cnatVars>>
    BY <1>1 DEF balanceVars
  <2>2. BalanceTypeOK'
    BY <2>1 DEF BalanceIInv, BalanceTypeOK, sessionVars, world, routine, cnatVars
  <2> QED
    BY <2>1, <2>2, Quiet DEF world, routine
<1>2. CASE BalanceNext
  <2>1. env' = env
    BY <1>2 DEF BalanceNext
  <2>2. CASE \E s \in Sessions, n \in NSEs : balanceService(s, n)
    BY <2>1, <2>2, balanceServiceIInv
  <2>3. CASE \E m \in Monitors : balanceNSE(m)
    BY <2>1, <2>3, MonitorConnectionsIInv, DialFailsIInv, RecvEventIInv, DeleteTodoIInv, RecvFailsIInv,
       ReadServersIInv, updateVPPCnatIInv DEF balanceNSE
  <2>4. CASE \E n \in env.nses, c \in env.conns, ip \in env.ips \cup {Down} : ConnectionEvent(n, c, ip)
    BY <2>1, <2>4, ConnectionEventIInv
  <2> QED
    BY <1>2, <2>1, <2>2, <2>3, <2>4, QuietSteps DEF BalanceNext
<1> QED
  BY <1>1, <1>2

(* The invariant always holds. *)
LEMMA AlwaysBalanceIInv == BalanceSpec => []BalanceIInv
BY InitBalanceIInv, NextBalanceIInv, PTL DEF BalanceSpec

(* The handler of a goroutine that has read all its events. *)
LEMMA IInvHandlerFollows == BalanceIInv => HandlerFollows
<1> SUFFICES ASSUME BalanceIInv, NEW m \in Monitors, Alone(m), at[m] = "recv", stream[m] = <<>>, NEW c \in Conns
             PROVE  servers[SessionOf(m)][NSEOf(m)][c] = IF c \in Selected THEN conns[NSEOf(m)][c] ELSE Down
  BY DEF HandlerFollows
<1>1. UpToDate(m, c)
  BY DEF BalanceIInv, Informed, Following
<1>2. Mentions(m, c) = {}
  BY DEF Mentions
<1>3. todo[m] = {}
  BY DEF BalanceIInv, TodoOK
<1> QED
  BY <1>1, <1>2, <1>3 DEF UpToDate, Now

(* What VPP has when nothing is under way. *)
LEMMA IInvVPPFollows == BalanceIInv => (SingleWriter => VPPFollows)
<1> SUFFICES ASSUME BalanceIInv, SingleWriter, NEW s \in Sessions, Idle(s), s \notin unwritten
             PROVE  PathsOf(s) = servers[s]
  BY DEF VPPFollows
<1>1. BalanceTypeOK /\ NotYet /\ servers[s] \in Servers /\ s # 0
  BY DEF BalanceIInv, BalanceTypeOK, Sessions
<1>2. CASE \A m \in Monitors : at[m] = "none"
  <2>1. \A i \in Ids : cnat[i].vip = 0
    BY <1>2 DEF BalanceIInv, Untouched, NoTranslation
  <2>2. servers[s] = NoServers
    BY <1>1, <1>2, NoServersYet
  <2> QED
    BY <1>1, <2>1, <2>2 DEF PathsOf
<1>3. CASE \E m \in Monitors : at[m] # "none"
  <2>1. PICK m \in Monitors : at[m] # "none"
    BY <1>3
  <2>2. SessionOf(m) \in Sessions /\ servers[SessionOf(m)] \in Servers
    BY MonitorType DEF BalanceIInv, BalanceTypeOK
  <2>3. PICK p \in Servers :
           /\ VPPHas(SessionOf(m), p)
           /\ at[m] \notin {"read", "send"} /\ SessionOf(m) \notin unwritten => p = servers[SessionOf(m)]
    BY <2>1 DEF BalanceIInv, Written, InVPP
  <2>4. CASE SessionOf(m) = s
    <3>1. p = servers[s] /\ VPPHas(s, p)
      BY <2>3, <2>4 DEF Idle
    <3>2. /\ 0 \in Ids /\ IdOf(s) = 0
          /\ (\E i \in Ids : cnat[i].vip = s) <=> p # NoServers
      BY <3>1, FirstId
    <3>3. p # NoServers => cnat[0].paths = p
      BY <3>1, <3>2 DEF VPPHas
    <3> QED
      BY <3>1, <3>2, <3>3 DEF PathsOf
  <2>5. CASE SessionOf(m) # s
    <3>1. \A i \in Ids : cnat[i].vip # s
      BY <2>2, <2>3, <2>5, FirstId
    <3>2. \A k \in Monitors : SessionOf(k) = s => at[k] = "none"
      BY <2>1, <2>5 DEF SingleWriter
    <3>3. servers[s] = NoServers
      BY <1>1, <3>2, NoServersYet
    <3> QED
      BY <3>1, <3>3 DEF PathsOf
  <2> QED
    BY <2>4, <2>5
<1> QED
  BY <1>2, <1>3

(* No number of sessions, of goroutines or of events takes a variable out  *)
(* of its type: what VPP is told is always a list of servers of the NSEs.  *)
THEOREM Vl3lbTypeOK == BalanceSpec => []BalanceTypeOK
<1>1. BalanceIInv => BalanceTypeOK
  BY DEF BalanceIInv
<1> QED
  BY <1>1, AlwaysBalanceIInv, PTL

(* The load balancer is right for any endpoints, connections, selector,    *)
(* sessions and environment: a goroutine of balanceNSE that has read all   *)
(* its events leaves the handler with the selected connections that are    *)
(* up, and the only goroutine leaves VPP with the servers of the handler,  *)
(* unless its last update was lost to the cancel of the session.           *)
THEOREM Vl3lbBalancedRight == BalanceSpec => []BalancedRight
<1>1. BalanceIInv => BalancedRight
  BY IInvHandlerFollows, IInvVPPFollows DEF BalancedRight
<1> QED
  BY <1>1, AlwaysBalanceIInv, PTL
=============================================================================
