--------------------------- MODULE SharedResource ---------------------------
(***************************************************************************)
(* What a chain element that shares one VPP object between all the         *)
(* connections of a network service promises (loopback: one loopback       *)
(* interface per service).                                                 *)
(*                                                                         *)
(* The object of a key is created when the first user arrives, is the same *)
(* object for every user while there is one, and is given up when the last *)
(* user leaves.  VPP may refuse to destroy an object that was given up, or *)
(* create one and lose the reply; the object then stays alive in VPP and   *)
(* belongs to nobody.  And a user may be gone without having left: the     *)
(* object is kept for it, whoever else comes and leaves.                   *)
(***************************************************************************)
CONSTANTS Keys,       \* what the object is shared by: the network services
          Users,      \* the connections
          Resources,  \* the identifiers VPP can hand out
          None        \* no object

VARIABLES users,      \* users[k]: the users that hold the object of k
          res,        \* res[k]: the object of k, None when it has none
          alive,      \* the objects that exist in VPP
          kept        \* the keys whose object is kept for a user that is gone

vars == <<users, res, alive, kept>>

TypeOK == /\ users \in [Keys -> SUBSET Users]
          /\ res \in [Keys -> Resources \cup {None}]
          /\ alive \in SUBSET Resources
          /\ kept \subseteq Keys

Init == /\ users = [k \in Keys |-> {}]
        /\ res = [k \in Keys |-> None]
        /\ alive = {}
        /\ kept = {}

(* The first user of k has the object created; VPP hands out an unused one. *)
Create(k, u) == \E r \in Resources \ alive :
    /\ users[k] = {} /\ k \notin kept
    /\ users' = [users EXCEPT ![k] = {u}]
    /\ res' = [res EXCEPT ![k] = r]
    /\ alive' = alive \cup {r}
    /\ UNCHANGED kept

(* Every later user shares the object that is already there. *)
Share(k, u) ==
    /\ users[k] # {} \/ k \in kept
    /\ u \notin users[k]
    /\ users' = [users EXCEPT ![k] = @ \cup {u}]
    /\ UNCHANGED <<res, alive, kept>>

(* A user leaves while others still hold the object. *)
Leave(k, u) ==
    /\ u \in users[k]
    /\ users[k] # {u} \/ k \in kept
    /\ users' = [users EXCEPT ![k] = @ \ {u}]
    /\ UNCHANGED <<res, alive, kept>>

(* A user is forgotten before it has left. *)
Abandon(k, u) ==
    /\ u \in users[k]
    /\ users' = [users EXCEPT ![k] = @ \ {u}]
    /\ kept' = kept \cup {k}
    /\ UNCHANGED <<res, alive>>

(* The last user leaves: the object is given up, and destroyed unless VPP  *)
(* fails to destroy it.                                                    *)
Destroy(k, u) ==
    /\ users[k] = {u} /\ k \notin kept
    /\ users' = [users EXCEPT ![k] = {}]
    /\ res' = [res EXCEPT ![k] = None]
    /\ alive' \in {alive, alive \ {res[k]}}
    /\ UNCHANGED kept

(* A failed creation leaves an object behind that nobody was told about. *)
Orphan == /\ \E r \in Resources \ alive : alive' = alive \cup {r}
          /\ UNCHANGED <<users, res, kept>>

Next == \/ Orphan
        \/ \E k \in Keys, u \in Users :
               Create(k, u) \/ Share(k, u) \/ Leave(k, u) \/ Abandon(k, u) \/ Destroy(k, u)

Spec == Init /\ [][Next]_vars
=============================================================================
