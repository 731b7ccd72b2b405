---------------------------- MODULE LivenessCheck ----------------------------
(***************************************************************************)
(* pkg/tools/heal: VPPLivenessCheck pings every destination of a           *)
(* connection from every source, each pair in a goroutine of its own, and  *)
(* collects their answers from a channel.                                  *)
(*                                                                         *)
(* VPP reports the end of a ping with a PingFinishedEvent to every watcher *)
(* of its API connection.  The event does not say which ping it is about,  *)
(* so a goroutine takes the first one it sees for its own.                 *)
(***************************************************************************)
EXTENDS Naturals, Sequences, FiniteSets

CONSTANTS Checks,    \* liveness checks under way, of different connections
          Pings,     \* their pairs of source and destination
          CheckOf,   \* the check of each pair
          Faults     \* "call": VPP calls may fail; "deadline": time may be up

ASSUME LivenessCheckAssumption ==
    /\ IsFiniteSet(Pings)
    /\ CheckOf \in [Pings -> Checks]
    /\ Faults \subseteq {"call", "deadline"}

VARIABLES
    reachable,   \* the pings that are replied to
    expired,     \* the checks whose deadlineCtx is done
    running,     \* the pings VPP is at
    heard,       \* heard[p]: what the watcher of p has to read: were there replies?
    answer,      \* answer[p]: how p has ended
    responseCh,  \* responseCh[k]: the buffered channel of check k
    respCount,   \* respCount[k]: how many responses are still to come
    success,     \* success[k]: all responses so far were true
    doing,       \* where the goroutine of each ping is
    verdict      \* what each check has returned

checkVars == <<reachable, expired, running, heard, answer, responseCh, respCount, success,
               doing, verdict>>

PingsOf(k) == {p \in Pings : CheckOf[p] = k}
combinationCount(k) == Cardinality(PingsOf(k))

Watching(p) == doing[p] \in {"want", "wait"}
Response == BOOLEAN
Closed(k) == verdict[k] # "none"   \* the deferred close(responseCh)

CheckTypeOK == /\ reachable \subseteq Pings
               /\ expired \subseteq Checks
               /\ running \subseteq Pings
               /\ heard \in [Pings -> Seq(Response)]
               /\ answer \in [Pings -> {"none", "replies", "noReplies", "excused", "silent"}]
               /\ responseCh \in [Checks -> Seq(Response)]
               /\ respCount \in [Checks -> Nat]
               /\ \A k \in Checks : respCount[k] <= combinationCount(k)
               /\ success \in [Checks -> BOOLEAN]
               /\ doing \in [Pings -> {"idle", "watch", "want", "wait", "done"}]
               /\ verdict \in [Checks -> {"none", "alive", "dead"}]

(* Which destinations reply does not change while the checks run. *)
CheckInit == /\ reachable \in SUBSET Pings
             /\ expired = {}
             /\ running = {}
             /\ heard = [p \in Pings |-> <<>>]
             /\ answer = [p \in Pings |-> "none"]
             /\ responseCh = [k \in Checks |-> <<>>]
             /\ respCount = [k \in Checks |-> combinationCount(k)]
             /\ success = [k \in Checks |-> TRUE]
             /\ doing = [p \in Pings |-> "idle"]
             /\ verdict = [k \in Checks |-> "none"]

Proceed(p, step) == doing' = [doing EXCEPT ![p] = step]

-----------------------------------------------------------------------------
(* VPPLivenessCheck *)

(* One goroutine is started for each pair; with no pair there is nothing   *)
(* to check.                                                               *)
VPPLivenessCheck(k) ==
    /\ verdict[k] = "none"
    /\ \A p \in PingsOf(k) : doing[p] = "idle"
    /\ IF combinationCount(k) = 0
       THEN verdict' = [verdict EXCEPT ![k] = "alive"] /\ UNCHANGED doing
       ELSE /\ doing' = [p \in Pings |-> IF CheckOf[p] = k THEN "watch" ELSE doing[p]]
            /\ UNCHANGED verdict
    /\ UNCHANGED <<reachable, expired, running, heard, answer, responseCh, respCount, success>>

(* Mutant of waitForResponses: the first failure decides. *)
waitForResponses_eager(k) ==
    /\ responseCh[k] # <<>> /\ ~Closed(k)
    /\ LET resp == Head(responseCh[k])
       IN  /\ success' = [success EXCEPT ![k] = resp]
           /\ verdict' = [verdict EXCEPT ![k] = IF ~resp THEN "dead"
                                                ELSE IF respCount[k] = 1 THEN "alive" ELSE @]
    /\ respCount' = [respCount EXCEPT ![k] = @ - 1]
    /\ responseCh' = [responseCh EXCEPT ![k] = Tail(@)]
    /\ UNCHANGED <<reachable, expired, running, heard, answer, doing>>

(* Mutant of waitForResponses: the loop does not stop, and reads false     *)
(* from the closed channel.                                                *)
waitForResponses_on(k) ==
    /\ responseCh[k] # <<>> \/ Closed(k)
    /\ success' = [success EXCEPT ![k] = @ /\ ~Closed(k)]
    /\ respCount' = [respCount EXCEPT ![k] = @ - 1]
    /\ verdict' = [verdict EXCEPT ![k] = IF respCount[k] = 1 THEN "alive" ELSE @]
    /\ responseCh' = [responseCh EXCEPT ![k] = <<>>]
    /\ UNCHANGED <<reachable, expired, running, heard, answer, doing>>

(* One response is read; the last one ends the check and closes the        *)
(* channel.                                                                *)
waitForResponses(k) ==
    /\ responseCh[k] # <<>> /\ ~Closed(k)
    /\ success' = [success EXCEPT ![k] = @ /\ Head(responseCh[k])]
    /\ respCount' = [respCount EXCEPT ![k] = @ - 1]
    /\ verdict' = [verdict EXCEPT ![k] = IF respCount[k] # 1 THEN @
                                         ELSE IF success'[k] THEN "alive" ELSE "dead"]
    /\ responseCh' = [responseCh EXCEPT ![k] = Tail(@)]
    /\ UNCHANGED <<reachable, expired, running, heard, answer, doing>>

-----------------------------------------------------------------------------
(* doPing *)

(* The goroutine sends its response, which needs room in the channel, and  *)
(* ends; its watcher is closed.                                            *)
Respond(p, a) ==
    LET k == CheckOf[p]
    IN  /\ Len(responseCh[k]) < combinationCount(k)
        /\ responseCh' = [responseCh EXCEPT ![k] = Append(@, a # "noReplies")]
        /\ answer' = [answer EXCEPT ![p] = a]
        /\ heard' = [heard EXCEPT ![p] = <<>>]
        /\ Proceed(p, "done")
        /\ UNCHANGED <<reachable, expired, running, respCount, success, verdict>>

WatchEvent(p) == /\ doing[p] = "watch"
                 /\ Proceed(p, "want")
                 /\ UNCHANGED <<reachable, expired, running, heard, answer, responseCh,
                                respCount, success, verdict>>

WantPingFinishedEvents(p) ==
    /\ doing[p] = "want"
    /\ running' = running \cup {p}
    /\ Proceed(p, "wait")
    /\ UNCHANGED <<reachable, expired, heard, answer, responseCh, respCount, success, verdict>>

(* Mutant of CallFails: the goroutine ends without a response. *)
CallFails_silent(p) == /\ doing[p] \in {"watch", "want"}
                       /\ "call" \in Faults \/ CheckOf[p] \in expired
                       /\ Proceed(p, "done")
                       /\ UNCHANGED <<reachable, expired, running, heard, answer, responseCh,
                                      respCount, success, verdict>>

(* No watcher, no interface index or no ping: the connection is not blamed. *)
CallFails(p) == /\ doing[p] \in {"watch", "want"}
                /\ "call" \in Faults \/ CheckOf[p] \in expired
                /\ Respond(p, "excused")

(* Mutant of DeadlineDone: no event in time counts as no replies. *)
DeadlineDone_blame(p) == /\ doing[p] = "wait" /\ CheckOf[p] \in expired
                         /\ Respond(p, "noReplies")

DeadlineDone(p) == /\ doing[p] = "wait" /\ CheckOf[p] \in expired
                   /\ Respond(p, "excused")

ReceiveEvent(p) == /\ doing[p] = "wait" /\ heard[p] # <<>>
                   /\ Respond(p, IF Head(heard[p]) THEN "replies" ELSE "noReplies")

(* When the context is done govpp also closes the channel of the watcher,  *)
(* and select may take that branch: what it reads is no PingFinishedEvent, *)
(* and the goroutine ends without a response.                              *)
EventsClosed(p) == /\ doing[p] = "wait" /\ CheckOf[p] \in expired /\ heard[p] = <<>>
                   /\ answer' = [answer EXCEPT ![p] = "silent"]
                   /\ Proceed(p, "done")
                   /\ UNCHANGED <<reachable, expired, running, heard, responseCh, respCount,
                                  success, verdict>>

doPing(p) == \/ WatchEvent(p) \/ WantPingFinishedEvents(p) \/ CallFails(p)
             \/ DeadlineDone(p) \/ EventsClosed(p) \/ ReceiveEvent(p)

-----------------------------------------------------------------------------
(* VPP and the clock *)

(* The event of a ping goes to every watcher of the API connection. *)
PingFinished(p) ==
    /\ p \in running
    /\ running' = running \ {p}
    /\ heard' = [q \in Pings |->
                    IF Watching(q) THEN Append(heard[q], p \in reachable) ELSE heard[q]]
    /\ UNCHANGED <<reachable, expired, answer, responseCh, respCount, success, doing, verdict>>

Expire(k) == /\ "deadline" \in Faults
             /\ k \notin expired /\ ~Closed(k) /\ PingsOf(k) # {}
             /\ expired' = expired \cup {k}
             /\ UNCHANGED <<reachable, running, heard, answer, responseCh, respCount,
                            success, doing, verdict>>

CheckNext == \/ \E k \in Checks : VPPLivenessCheck(k) \/ waitForResponses(k) \/ Expire(k)
             \/ \E p \in Pings : doPing(p) \/ PingFinished(p)

CheckSpec == CheckInit /\ [][CheckNext]_checkVars

(* Goroutines run and the deadline comes; VPP may never answer. *)
CheckFairSpec == /\ CheckSpec
                 /\ \A k \in Checks : /\ WF_checkVars(VPPLivenessCheck(k))
                                      /\ WF_checkVars(waitForResponses(k))
                                      /\ WF_checkVars(Expire(k))
                 /\ \A p \in Pings : WF_checkVars(doPing(p))

-----------------------------------------------------------------------------
(* Properties *)

(* VPPLivenessCheck closes the channel only after every goroutine has sent *)
(* its response: none of them panics on a closed channel.                  *)
NoSendOnClosed == \A k \in Checks : Closed(k) => \A p \in PingsOf(k) : doing[p] = "done"

(* A connection is called dead only if some destination, of this check or  *)
(* of one that runs at the same time, does not reply.                      *)
DeadHasCause == \A k \in Checks : verdict[k] = "dead" => reachable # Pings

(* When nothing replies, a check that could ping at least once says dead.  *)
AllDeadNoticed ==
    \A k \in Checks : verdict[k] = "alive" /\ reachable = {} =>
        \A p \in PingsOf(k) : answer[p] = "excused"

(* The verdict is right where the events, which do not name their ping,    *)
(* allow no other reading.                                                 *)
VerdictRight == DeadHasCause /\ AllDeadNoticed

(* A goroutine of k has found its channel closed at the deadline. *)
CutShort(k) == \E p \in PingsOf(k) : answer[p] = "silent"

(* Every check returns, though VPP may never report a ping and any call    *)
(* may fail: the only way to lose a response is the closed channel of a    *)
(* watcher.                                                                *)
ChecksReturn == \A k \in Checks : <>(verdict[k] # "none" \/ CutShort(k))
=============================================================================
