------------------------------ MODULE VrfProofs ------------------------------
(***************************************************************************)
(* Vrf for any number of connections, services, interfaces and table ids:  *)
(* the mutexes never close a circle, the table of a service does not       *)
(* change, and tables serve the connections that use them.                 *)
(***************************************************************************)
EXTENDS Vrf, FiniteSetTheorems, TLAPS

(***************************************************************************)
(* The inductive invariant for all environments: types, and who holds      *)
(* which mutex between two steps.                                          *)
(***************************************************************************)

(* Past the rest of the chain the connection has an interface. *)
HasInterface == \A c \in Conns :
    pc[c] \in {"loop4", "loop6", "mech4", "mech6"} => ifindex[c] # NoIf

(* The IPv4 mutex is held between the two halves of attach and at no other *)
(* time, the IPv6 mutex never outlives a step.                             *)
HeldInAttach == /\ lock["v6"] = NoConn
                /\ \A c \in Conns : pc[c] \in {"loop6", "mech6"} <=> lock["v4"] = c

IInv == TypeOK /\ HasInterface /\ HeldInAttach

(***************************************************************************)
(* The inductive invariant where no two handlers of a service overlap and  *)
(* nothing below the element fails.                                        *)
(***************************************************************************)

Friendly == ~Overlap /\ Faults \subseteq {"attach", "create"}

(* One handler of a service at a time. *)
Alone == \A c, d \in Conns : c # d /\ ServiceOf[c] = ServiceOf[d] =>
             pc[c] = "ready" \/ pc[d] = "ready"

(* The tables in the map exist in VPP, and services do not share one. *)
TablesExist == \A f \in Families, s \in Services : entries[f][s] # NoVrf =>
    /\ entries[f][s].id \in tables[f]
    /\ \A t \in Services \ {s} : entries[f][t] # NoVrf => entries[f][t].id # entries[f][s].id

(* What is attached to a table is in it: the loopback of the service and   *)
(* interfaces of its connections.                                          *)
AttachedRight == \A f \in Families, s \in Services : \A i \in entries[f][s].attached :
    /\ bound[f][i] = entries[f][s].id
    /\ i = LoopOf[s] \/ \E c \in Conns : ServiceOf[c] = s /\ ifindex[c] = i

(* Connections have interfaces of their own. *)
OwnInterfaces == \A c, d \in Conns : c # d /\ ifindex[c] # NoIf => ifindex[c] # ifindex[d]

HasTable(c, f) == Load(c, f) # NoId /\ entries[f][ServiceOf[c]].id = Load(c, f)
Attached(c, f, i) == i \in entries[f][ServiceOf[c]].attached

(* The connection is established. *)
Served(c) == /\ ifindex[c] # NoIf
             /\ \A f \in Families : /\ HasTable(c, f)
                                    /\ Attached(c, f, ifindex[c])
                                    /\ Attached(c, f, LoopOf[ServiceOf[c]])

(* Nothing is left of the connection. *)
Unserved(c) == ifindex[c] = NoIf /\ \A f \in Families : Load(c, f) = NoId

(* What the handler of c has done so far. *)
Progress(c) ==
    LET loop == LoopOf[ServiceOf[c]]
    IN  /\ pc[c] \notin {"undo6", "undo4"}
        /\ pc[c] = "ready" /\ c \notin known => Unserved(c)
        /\ pc[c] \in {"ready", "create6", "next"} /\ c \in known => Served(c)
        /\ pc[c] \in {"create6", "next"} => (fresh[c] = TRUE <=> c \notin known)
        /\ pc[c] \in {"create6", "next"} /\ c \notin known => ifindex[c] = NoIf /\ HasTable(c, "v4")
        /\ pc[c] = "create6" /\ c \notin known => Load(c, "v6") = NoId
        /\ pc[c] = "next" /\ c \notin known => HasTable(c, "v6")
        /\ pc[c] \in {"loop4", "loop6", "mech4", "mech6"} =>
              c \notin known /\ HasTable(c, "v4") /\ HasTable(c, "v6")
        /\ pc[c] \in {"loop6", "mech4", "mech6"} => Attached(c, "v4", loop)
        /\ pc[c] \in {"mech4", "mech6"} => Attached(c, "v6", loop)
        /\ pc[c] = "mech6" => Attached(c, "v4", ifindex[c])
        /\ pc[c] \in {"del6", "del4", "closenext"} => \A f \in Families :
              /\ Load(c, f) = NoId => ifindex[c] = NoIf
              /\ Load(c, f) # NoId /\ entries[f][ServiceOf[c]] # NoVrf => HasTable(c, f)
        /\ pc[c] \in {"del4", "closenext"} => ~Attached(c, "v6", ifindex[c])
        /\ pc[c] = "closenext" => ~Attached(c, "v4", ifindex[c])

ServeInv == /\ ~panicked
            /\ Alone /\ TablesExist /\ AttachedRight /\ OwnInterfaces
            /\ \A c \in Conns : Progress(c)

FriendlyInv == Friendly => ServeInv

-----------------------------------------------------------------------------
(* What is constant. *)
LEMMA ConstantFacts ==
    /\ \A s \in Services : LoopOf[s] \in Interfaces /\ LoopOf[s] \notin Mechs /\ LoopOf[s] # NoIf
    /\ Mechs \subseteq Interfaces /\ NoIf \notin Interfaces
    /\ \A c \in Conns : ServiceOf[c] \in Services
    /\ "v4" \in Families /\ "v6" \in Families /\ "v4" # "v6"
    /\ NoVrf.id = NoId /\ NoVrf.attached = {} /\ NoId \notin Ids
    /\ NoConn \notin Conns
BY VrfAssumption DEF Interfaces, Families, NoVrf

(* What an entry of a vrfMap is. *)
LEMMA EntryFacts ==
    ASSUME TypeOK, NEW f \in Families, NEW s \in Services
    PROVE  /\ entries[f][s].attached \in SUBSET Interfaces
           /\ entries[f][s] # NoVrf <=> entries[f][s].id \in Ids
           /\ entries[f][s] # NoVrf => entries[f][s] \in vrfInfo
           /\ entries[f][s] = NoVrf => entries[f][s].id = NoId /\ entries[f][s].attached = {}
BY ConstantFacts DEF TypeOK, vrfInfo

(* A step of c leaves the state of other connections, and the entries of   *)
(* other services, alone.                                                  *)
LEMMA StepFrame ==
    ASSUME TypeOK, NEW c \in Conns, RequestSteps(c) \/ CloseSteps(c)
    PROVE  /\ \A d \in Conns \ {c} : /\ pc'[d] = pc[d] /\ meta'[d] = meta[d]
                                     /\ ifindex'[d] = ifindex[d] /\ fresh'[d] = fresh[d]
                                     /\ d \in known' <=> d \in known
           /\ \A f \in Families, s \in Services \ {ServiceOf[c]} : entries'[f][s] = entries[f][s]
<1> DEFINE Others == \A d \in Conns \ {c} : /\ pc'[d] = pc[d] /\ meta'[d] = meta[d]
                                            /\ ifindex'[d] = ifindex[d] /\ fresh'[d] = fresh[d]
                                            /\ d \in known' <=> d \in known
           OtherEntries == \A f \in Families, s \in Services \ {ServiceOf[c]} :
                               entries'[f][s] = entries[f][s]
<1>1. CASE Request(c)
  <2>1. PICK f \in Families, before \in BOOLEAN, then \in Steps : RequestCreate(c, f, before, then)
    BY <1>1 DEF Request, Families, TypeOK, Steps
  <2>2. UNCHANGED <<ifindex, known>>
    BY <1>1 DEF Request
  <2>3. Others
    BY <2>1, <2>2 DEF TypeOK, RequestCreate, create, Store, DropMetadata, Goto
  <2>4. OtherEntries
    <3>1. entries' = entries \/ \E e : entries' = [entries EXCEPT ![f][ServiceOf[c]] = e]
      BY <2>1 DEF RequestCreate, create
    <3>2. entries \in [Families -> [Services -> vrfInfo \cup {NoVrf}]]
      BY DEF TypeOK
    <3>3. ASSUME NEW e, entries' = [entries EXCEPT ![f][ServiceOf[c]] = e] PROVE OtherEntries
      BY <3>2, <3>3
    <3>4. QED
      BY <3>1, <3>3
  <2>5. QED
    BY <2>3, <2>4
<1>2. CASE NextSucceeds(c) \/ NextFails(c) \/ Undo(c)
  BY <1>2 DEF TypeOK, NextSucceeds, NextFails, Undo, CreateInterface, DeleteInterface,
       delTableFromMetadataV46, Goto
<1>3. CASE Attach(c)
  <2>1. PICK f \in Families, i \in {LoopOf[ServiceOf[c]], ifindex[c]}, step \in Steps, then \in Steps : AttachAt(c, f, i, step, then)
    BY <1>3 DEF Attach, AttachLoop, AttachMech, Families, Steps
  <2>2. Others
    BY <1>3, <2>1 DEF TypeOK, Attach, AttachAt, Goto
  <2>3. OtherEntries
    BY <2>1 DEF TypeOK, AttachAt, attach
  <2>4. QED
    BY <2>2, <2>3
<1>4. CASE delV46(c)
  <2>1. PICK f \in Families : del(c, f)
    BY <1>4 DEF delV46, Families
  <2>2. Others
    BY <1>4 DEF TypeOK, delV46, Goto
  <2>3. OtherEntries
    BY <2>1 DEF TypeOK, del
  <2>4. QED
    BY <2>2, <2>3
<1>5. CASE BeginClose(c) \/ CloseNext(c)
  BY <1>5 DEF TypeOK, BeginClose, CloseNext, DeleteInterface, delTableFromMetadataV46, Goto
<1>6. QED
  BY <1>1, <1>2, <1>3, <1>4, <1>5 DEF RequestSteps, CloseSteps


(* The interface, or the metadata, of a connection goes. *)
LEMMA DeleteTypes ==
    ASSUME TypeOK, NEW c \in Conns
    PROVE  /\ DeleteInterface(c) => /\ ifindex' \in [Conns -> Mechs \cup {NoIf}]
                                    /\ bound' \in [Families -> [Interfaces -> Ids \cup {NoId}]]
           /\ delTableFromMetadataV46(c) => meta' \in [Conns -> [Families -> Ids \cup {NoId}]]
<1>1. ASSUME DeleteInterface(c) PROVE ifindex' \in [Conns -> Mechs \cup {NoIf}]
  BY <1>1 DEF DeleteInterface, TypeOK
<1>2. ASSUME DeleteInterface(c) PROVE bound' \in [Families -> [Interfaces -> Ids \cup {NoId}]]
  <2>1. bound \in [Families -> [Interfaces -> Ids \cup {NoId}]]
    BY DEF TypeOK
  <2>2. ASSUME NEW f \in Families, NEW i \in Interfaces
        PROVE  (IF i = ifindex[c] THEN NoId ELSE bound[f][i]) \in Ids \cup {NoId}
    BY <2>1
  <2>3. QED
    BY <1>2, <2>2 DEF DeleteInterface
<1>3. ASSUME delTableFromMetadataV46(c) PROVE meta' \in [Conns -> [Families -> Ids \cup {NoId}]]
  <2>1. meta \in [Conns -> [Families -> Ids \cup {NoId}]]
    BY DEF TypeOK
  <2>2. [f \in Families |-> NoId] \in [Families -> Ids \cup {NoId}]
    OBVIOUS
  <2>3. QED
    BY <1>3, <2>1, <2>2 DEF delTableFromMetadataV46
<1>4. QED
  BY <1>1, <1>2, <1>3

(* Types are kept by every step of a handler. *)
LEMMA StepTypeOK ==
    ASSUME TypeOK, HasInterface, NEW c \in Conns, RequestSteps(c) \/ CloseSteps(c), UNCHANGED env
    PROVE  TypeOK'
<1>1. /\ ServiceOf[c] \in Services
      /\ entries \in [Families -> [Services -> vrfInfo \cup {NoVrf}]]
      /\ meta \in [Conns -> [Families -> Ids \cup {NoId}]]
      /\ tables \in [Families -> SUBSET Ids]
      /\ bound \in [Families -> [Interfaces -> Ids \cup {NoId}]]
      /\ ifindex \in [Conns -> Mechs \cup {NoIf}]
  BY ConstantFacts DEF TypeOK
<1>2. CASE Request(c)
  <2>1. PICK f \in Families, before \in BOOLEAN, then \in Steps : RequestCreate(c, f, before, then)
    BY <1>2 DEF Request, Families, TypeOK, Steps
  <2>2. UNCHANGED <<env, lock, ifindex, bound, known, panicked>>
    BY <1>2 DEF Request
  <2>3. pc' \in [Conns -> Steps] /\ fresh' \in [Conns -> BOOLEAN]
    BY <2>1 DEF RequestCreate, Goto, TypeOK, Steps
  <2>4. /\ meta' \in [Conns -> [Families -> Ids \cup {NoId}]]
        /\ entries' \in [Families -> [Services -> vrfInfo \cup {NoVrf}]]
        /\ tables' \in [Families -> SUBSET Ids]
    <3>1. CASE UNCHANGED <<entries, tables, meta>>
      BY <1>1, <3>1
    <3>2. CASE UNCHANGED <<entries, tables>> /\ meta' = [meta EXCEPT ![c] = [g \in Families |-> NoId]]
      BY <1>1, <3>2
    <3>3. CASE UNCHANGED <<entries, tables>> /\ entries[f][ServiceOf[c]] # NoVrf
               /\ meta' = [meta EXCEPT ![c][f] = entries[f][ServiceOf[c]].id]
      <4>1. entries[f][ServiceOf[c]].id \in Ids
        BY <1>1, <3>3, EntryFacts
      <4>2. QED
        BY <1>1, <3>3, <4>1
    <3>4. ASSUME NEW id \in Ids,
                 /\ tables' = [tables EXCEPT ![f] = @ \cup {id}]
                 /\ entries' = [entries EXCEPT ![f][ServiceOf[c]] = [id |-> id, attached |-> {}]]
                 /\ meta' = [meta EXCEPT ![c][f] = id]
          PROVE  /\ meta' \in [Conns -> [Families -> Ids \cup {NoId}]]
                 /\ entries' \in [Families -> [Services -> vrfInfo \cup {NoVrf}]]
                 /\ tables' \in [Families -> SUBSET Ids]
      <4>1. [id |-> id, attached |-> {}] \in vrfInfo
        BY DEF vrfInfo
      <4>2. QED
        BY <1>1, <3>4, <4>1
    <3>5. QED
      BY <2>1, <3>1, <3>2, <3>3, <3>4 DEF RequestCreate, create, createVPP, Store, DropMetadata
  <2>5. QED
    BY <2>2, <2>3, <2>4 DEF TypeOK
<1>3. CASE NextSucceeds(c) \/ NextFails(c) \/ Undo(c)
  <2>1. UNCHANGED <<env, entries, lock, tables, panicked>>
    BY <1>3 DEF NextSucceeds, NextFails, Undo
  <2>2. pc' \in [Conns -> Steps] /\ fresh' \in [Conns -> BOOLEAN] /\ known' \in SUBSET Conns
    BY <1>3 DEF NextSucceeds, NextFails, Undo, Goto, Steps, TypeOK
  <2>3. meta' \in [Conns -> [Families -> Ids \cup {NoId}]]
    <3>1. meta' = meta \/ delTableFromMetadataV46(c)
      BY <1>3 DEF NextSucceeds, NextFails, Undo
    <3>2. QED
      BY <1>1, <3>1, DeleteTypes
  <2>4. /\ ifindex' \in [Conns -> Mechs \cup {NoIf}]
        /\ bound' \in [Families -> [Interfaces -> Ids \cup {NoId}]]
    <3>1. UNCHANGED <<ifindex, bound>> \/ DeleteInterface(c) \/ CreateInterface(c)
      BY <1>3 DEF NextSucceeds, NextFails, Undo
    <3>2. CASE CreateInterface(c)
      BY <1>1, <3>2 DEF CreateInterface
    <3>3. QED
      BY <1>1, <3>1, <3>2, DeleteTypes
  <2>5. QED
    BY <2>1, <2>2, <2>3, <2>4 DEF TypeOK
<1>4. CASE Attach(c)
  <2>1. PICK f \in Families, i \in Interfaces, then \in Steps :
            \E step \in Steps : AttachAt(c, f, i, step, then)
    BY <1>4, ConstantFacts DEF Attach, AttachLoop, AttachMech, AttachAt, Families, TypeOK, HasInterface, Steps
  <2>2. UNCHANGED <<env, meta, ifindex, tables, fresh>> /\ known' \in SUBSET Conns
    BY <1>4 DEF Attach, TypeOK
  <2>3. pc' \in [Conns -> Steps]
    BY <2>1 DEF AttachAt, Goto, TypeOK, Steps
  <2>4. lock' \in [Families -> Conns \cup {NoConn}]
    BY <2>1 DEF AttachAt, attach, attachFails, AttachLocks, TypeOK
  <2>5. panicked' \in BOOLEAN
    BY <2>1 DEF AttachAt, attach, TypeOK
  <2>6. /\ entries' \in [Families -> [Services -> vrfInfo \cup {NoVrf}]]
        /\ bound' \in [Families -> [Interfaces -> Ids \cup {NoId}]]
    <3>1. CASE UNCHANGED <<entries, bound>>
      BY <3>1 DEF TypeOK
    <3>2. CASE /\ entries[f][ServiceOf[c]] # NoVrf
               /\ SetTable(f, i, Load(c, f))
               /\ entries' = [entries EXCEPT ![f][ServiceOf[c]].attached = @ \cup {i}]
      <4>1. entries[f][ServiceOf[c]] \in vrfInfo
        BY <1>1, <3>2 DEF TypeOK
      <4>2. entries' \in [Families -> [Services -> vrfInfo \cup {NoVrf}]]
        BY <1>1, <3>2, <4>1 DEF TypeOK, vrfInfo
      <4>3. QED
        BY <3>2, <4>2 DEF TypeOK, SetTable
    <3>3. QED
      BY <2>1, <3>1, <3>2 DEF AttachAt, attach
  <2>7. QED
    BY <2>2, <2>3, <2>4, <2>5, <2>6 DEF TypeOK
<1>5. CASE delV46(c)
  <2>1. PICK f \in Families : del(c, f)
    BY <1>5 DEF delV46, Families
  <2>2. UNCHANGED <<env, meta, ifindex, bound, fresh, known, panicked, lock>>
    BY <1>5 DEF delV46, del
  <2>3. pc' \in [Conns -> Steps]
    BY <1>5 DEF delV46, Goto, TypeOK, Steps
  <2>4. tables' \in [Families -> SUBSET Ids]
    BY <2>1 DEF del, delVPP, TypeOK
  <2>5. entries' \in [Families -> [Services -> vrfInfo \cup {NoVrf}]]
    <3>1. CASE entries' = [entries EXCEPT ![f][ServiceOf[c]] = NoVrf]
      BY <1>1, <3>1
    <3>2. CASE /\ entries[f][ServiceOf[c]] # NoVrf
               /\ entries' = [entries EXCEPT ![f][ServiceOf[c]].attached =
                                 entries[f][ServiceOf[c]].attached \ {ifindex[c]}]
      <4>1. entries[f][ServiceOf[c]] \in vrfInfo
        BY <1>1, <3>2 DEF TypeOK
      <4>2. QED
        BY <1>1, <3>2, <4>1 DEF TypeOK, vrfInfo
    <3>3. QED
      BY <1>1, <2>1, <3>1, <3>2 DEF del
  <2>6. QED
    BY <2>2, <2>3, <2>4, <2>5 DEF TypeOK
<1>6. CASE BeginClose(c) \/ CloseNext(c)
  <2>1. UNCHANGED <<env, entries, lock, tables, fresh, panicked>>
    BY <1>6 DEF BeginClose, CloseNext
  <2>2. pc' \in [Conns -> Steps] /\ known' \in SUBSET Conns
    BY <1>6 DEF BeginClose, CloseNext, Goto, Steps, TypeOK
  <2>3. /\ meta' \in [Conns -> [Families -> Ids \cup {NoId}]]
        /\ ifindex' \in [Conns -> Mechs \cup {NoIf}]
        /\ bound' \in [Families -> [Interfaces -> Ids \cup {NoId}]]
    BY <1>1, <1>6, DeleteTypes DEF BeginClose, CloseNext
  <2>4. QED
    BY <2>1, <2>2, <2>3 DEF TypeOK
<1>7. QED
  BY <1>2, <1>3, <1>4, <1>5, <1>6 DEF RequestSteps, CloseSteps

(* So is who holds which mutex. *)
LEMMA StepHeld ==
    ASSUME IInv, NEW c \in Conns, RequestSteps(c) \/ CloseSteps(c)
    PROVE  HasInterface' /\ HeldInAttach'
<1> USE DEF IInv
<1>1. \A d \in Conns \ {c} : pc'[d] = pc[d] /\ ifindex'[d] = ifindex[d]
  BY StepFrame
<1>2. HasInterface'
  <2>1. pc'[c] \in {"loop4", "loop6", "mech4", "mech6"} => ifindex'[c] # NoIf
    <3>1. CASE NextSucceeds(c)
      BY <3>1, VrfAssumption DEF NextSucceeds, CreateInterface, TypeOK
    <3>2. CASE Attach(c)
      BY <3>2 DEF Attach, AttachLoop, AttachMech, AttachAt, Goto, TypeOK, HasInterface
    <3>3. CASE Request(c) \/ NextFails(c) \/ Undo(c) \/ CloseSteps(c)
      BY <3>3 DEF Request, RequestCreate, NextFails, Undo, CloseSteps, BeginClose, delV46, CloseNext,
           Goto, TypeOK
    <3>4. QED
      BY <3>1, <3>2, <3>3 DEF RequestSteps
  <2>2. QED
    BY <1>1, <2>1 DEF HasInterface
<1>3. HeldInAttach'
  <2>1. CASE Attach(c)
    <3>1. pc[c] \in {"loop4", "mech4"} =>
             /\ lock["v4"] = NoConn
             /\ \/ pc'[c] \in {"loop6", "mech6"} /\ lock' = [lock EXCEPT !["v4"] = c]
                \/ pc'[c] = "del6" /\ lock' = [lock EXCEPT !["v4"] = NoConn]
      BY <2>1 DEF Attach, AttachLoop, AttachMech, AttachAt, attach, attachFails, AttachLocks, Goto, TypeOK
    <3>2. pc[c] \in {"loop6", "mech6"} =>
             pc'[c] \in {"mech4", "ready", "del6"} /\ lock' = [lock EXCEPT !["v4"] = NoConn]
      BY <2>1 DEF Attach, AttachLoop, AttachMech, AttachAt, attach, attachFails, AttachLocks, Goto, TypeOK
    <3>3. pc[c] \in {"loop4", "mech4", "loop6", "mech6"}
      BY <2>1 DEF Attach, AttachLoop, AttachMech, AttachAt
    <3>4. QED
      BY <1>1, <3>1, <3>2, <3>3, ConstantFacts DEF HeldInAttach, TypeOK
  <2>2. CASE ~Attach(c)
    <3>1. lock' = lock
      BY <2>2 DEF RequestSteps, CloseSteps, Request, NextSucceeds, NextFails, Undo, BeginClose,
           delV46, del, CloseNext
    <3>2. pc[c] \notin {"loop6", "mech6"} /\ pc'[c] \notin {"loop6", "mech6"}
      BY <2>2 DEF RequestSteps, CloseSteps, Request, RequestCreate, NextSucceeds, NextFails, Undo, BeginClose,
           delV46, CloseNext, MayStart, Goto, TypeOK
    <3>3. QED
      BY <1>1, <3>1, <3>2 DEF HeldInAttach
  <2>3. QED
    BY <2>1, <2>2
<1>4. QED
  BY <1>2, <1>3


(* A step of the system is a step of the handler of a connection.          *)
LEMMA NextIsStep ==
    ASSUME TypeOK, Next
    PROVE  \E c \in Conns : /\ RequestSteps(c) \/ CloseSteps(c)
                            /\ UNCHANGED env /\ ~panicked
<1>1. PICK c \in env.conns : Step(c)
  BY DEF Next
<1>2. c \in Conns
  BY VrfAssumption DEF TypeOK
<1>3. QED
  BY <1>1, <1>2 DEF Step, ServerRequest, ClientRequest, ServerClose, ClientClose

(* The invariant holds at the start. *)
LEMMA InitIInv == Init => IInv
<1> SUFFICES ASSUME Init PROVE IInv
  OBVIOUS
<1>1. TypeOK
  <2>1. entries \in [Families -> [Services -> vrfInfo \cup {NoVrf}]]
    BY DEF Init, NewMap
  <2>2. QED
    BY <2>1 DEF Init, TypeOK, Steps
<1>2. HasInterface /\ HeldInAttach
  BY ConstantFacts DEF Init, HasInterface, HeldInAttach
<1>3. QED
  BY <1>1, <1>2 DEF IInv

(* Every step keeps the invariant. *)
LEMMA NextIInv == IInv /\ [Next]_vars => IInv'
<1> SUFFICES ASSUME IInv, [Next]_vars PROVE IInv'
  OBVIOUS
<1>1. CASE Next
  BY <1>1, NextIsStep, StepTypeOK, StepHeld DEF IInv
<1>2. CASE UNCHANGED vars
  BY <1>2 DEF vars, IInv, TypeOK, HasInterface, HeldInAttach
<1>3. QED
  BY <1>1, <1>2

(* The invariant holds in every reachable state. *)
LEMMA AlwaysIInv == Spec => []IInv
BY InitIInv, NextIInv, PTL DEF Spec

(* Types, and that metadata and tables never hold an id VPP did not give.  *)
THEOREM VrfTypeOK == Spec => []TypeOK
<1>1. IInv => TypeOK
  BY DEF IInv
<1>2. QED
  BY <1>1, AlwaysIInv, PTL

(* attach takes the IPv6 mutex while it holds the IPv4 one, and nobody     *)
(* waits for a mutex with the IPv6 one in hand: no circle of handlers that *)
(* wait for each other can close, in any environment.                      *)
THEOREM VrfNoCircularWait == Spec => []NoCircularWait
<1>1. IInv => NoCircularWait
  <2> SUFFICES ASSUME IInv, NEW f \in Families, NEW g \in Families,
                      lock[f] # NoConn, lock[g] # NoConn,
                      g \in Needs(lock[f])
               PROVE  FALSE
    BY DEF NoCircularWait
  <2>1. f = "v4" /\ g = "v4"
    BY DEF IInv, HeldInAttach, Families
  <2>2. lock["v4"] \in Conns /\ pc[lock["v4"]] \in {"loop6", "mech6"}
    BY <2>1 DEF IInv, HeldInAttach, TypeOK, Families
  <2>3. Needs(lock["v4"]) = {"v6"}
    BY <2>2 DEF Needs
  <2>4. QED
    BY <2>1, <2>3
<1>2. QED
  BY <1>1, AlwaysIInv, PTL

(* The table of a service stays the same as long as the service has one,   *)
(* however first requests, failures and closes of its connections overlap. *)
THEOREM VrfEntryStable == Spec => EntryStable
<1> DEFINE Stable == \A f \in Families, s \in Services :
        entries[f][s] # NoVrf /\ entries'[f][s] # NoVrf => entries'[f][s].id = entries[f][s].id
<1>1. ASSUME IInv, [Next]_vars PROVE [Stable]_vars
  <2>1. CASE UNCHANGED vars
    BY <2>1
  <2>2. CASE Next
    <3>1. PICK c \in Conns : RequestSteps(c) \/ CloseSteps(c)
      BY <1>1, <2>2, NextIsStep DEF IInv
    <3> DEFINE s == ServiceOf[c]
    <3>2. /\ s \in Services
          /\ entries \in [Families -> [Services -> vrfInfo \cup {NoVrf}]]
      BY <1>1, ConstantFacts DEF IInv, TypeOK
    <3>3. \A f \in Families, t \in Services \ {s} : entries'[f][t] = entries[f][t]
      BY <1>1, <3>1, StepFrame DEF IInv
    <3>4. \/ entries' = entries
          \/ \E f \in Families : \E e :
                /\ entries' = [entries EXCEPT ![f][s] = e]
                /\ entries[f][s] = NoVrf \/ e = NoVrf
          \/ \E f \in Families : \E a : /\ entries[f][s] # NoVrf
                                        /\ entries' = [entries EXCEPT ![f][s].attached = a]
      <4>1. CASE Request(c)
        BY <4>1 DEF Request, RequestCreate, create, Families
      <4>2. CASE Attach(c)
        BY <4>2 DEF Attach, AttachLoop, AttachMech, AttachAt, attach, Families
      <4>3. CASE delV46(c)
        BY <4>3 DEF delV46, del, Families
      <4>4. QED
        BY <3>1, <4>1, <4>2, <4>3 DEF RequestSteps, CloseSteps, NextSucceeds, NextFails, Undo,
             BeginClose, CloseNext
    <3>5. ASSUME NEW f \in Families, NEW e, entries' = [entries EXCEPT ![f][s] = e],
                 entries[f][s] = NoVrf \/ e = NoVrf
          PROVE  Stable
      BY <3>2, <3>3, <3>5
    <3>6. ASSUME NEW f \in Families, NEW a, entries[f][s] # NoVrf,
                 entries' = [entries EXCEPT ![f][s].attached = a]
          PROVE  Stable
      <4>1. entries[f][s] \in vrfInfo
        BY <3>2, <3>6
      <4>2. entries'[f][s].id = entries[f][s].id
        BY <3>2, <3>6, <4>1 DEF vrfInfo
      <4>3. \A g \in Families \ {f} : entries'[g][s] = entries[g][s]
        BY <3>2, <3>6
      <4>4. QED
        BY <3>2, <3>3, <4>2, <4>3
    <3>7. QED
      BY <3>4, <3>5, <3>6
  <2>3. QED
    BY <1>1, <2>1, <2>2
<1>2. QED
  BY <1>1, AlwaysIInv, PTL DEF Spec, EntryStable


-----------------------------------------------------------------------------
(* Tables serve their connections *)

(* A table in the metadata that the service has is in the map. *)
LEMMA HasTableEntry ==
    ASSUME TypeOK, NEW c \in Conns, NEW f \in Families, HasTable(c, f)
    PROVE  entries[f][ServiceOf[c]] # NoVrf
BY ConstantFacts, EntryFacts DEF HasTable

(* While the handler of c runs, the other connections of its service are   *)
(* at rest.                                                                *)
LEMMA OthersReady ==
    ASSUME IInv, Friendly, ServeInv, NEW c \in Conns, RequestSteps(c) \/ CloseSteps(c),
           NEW d \in Conns \ {c}, ServiceOf[d] = ServiceOf[c]
    PROVE  pc[d] = "ready"
<1>1. CASE pc[c] # "ready"
  BY <1>1 DEF ServeInv, Alone
<1>2. CASE pc[c] = "ready"
  <2>1. MayStart(c)
    BY <1>2 DEF RequestSteps, CloseSteps, Request, NextSucceeds, NextFails, Undo, Attach,
         AttachLoop, AttachMech, AttachAt, BeginClose, delV46, CloseNext
  <2>2. QED
    BY <2>1 DEF MayStart, Friendly
<1>3. QED
  BY <1>1, <1>2

(* A step keeps what other connections have if it keeps the table, and the *)
(* attached interfaces, of the connections of its service.                 *)
LEMMA OthersKept ==
    ASSUME IInv, Friendly, ServeInv, NEW c \in Conns, RequestSteps(c) \/ CloseSteps(c),
           \A d \in Conns \ {c} : ServiceOf[d] = ServiceOf[c] /\ Served(d) =>
               \A f \in Families :
                  /\ entries'[f][ServiceOf[c]].id = entries[f][ServiceOf[c]].id
                  /\ \A i \in {ifindex[d], LoopOf[ServiceOf[c]]} : Attached(c, f, i) => Attached(c, f, i)'
    PROVE  Alone' /\ \A d \in Conns \ {c} : Progress(d)'
<1>1. TypeOK
  BY DEF IInv
<1>2. /\ \A d \in Conns \ {c} : /\ pc'[d] = pc[d] /\ meta'[d] = meta[d]
                                /\ ifindex'[d] = ifindex[d] /\ fresh'[d] = fresh[d]
                                /\ d \in known' <=> d \in known
      /\ \A f \in Families, s \in Services \ {ServiceOf[c]} : entries'[f][s] = entries[f][s]
  BY <1>1, StepFrame
<1>3. \A d \in Conns \ {c} : ServiceOf[d] = ServiceOf[c] => pc[d] = "ready"
  BY OthersReady
<1>4. Alone'
  BY <1>2, <1>3 DEF Alone, ServeInv
<1>5. ASSUME NEW d \in Conns \ {c} PROVE Progress(d)'
  <2>1. Progress(d)
    BY DEF ServeInv
  <2>2. CASE ServiceOf[d] = ServiceOf[c]
    <3>1. pc'[d] = "ready" /\ pc[d] = "ready"
      BY <1>2, <1>3, <2>2
    <3>2. CASE d \in known
      <4>1. Served(d)
        BY <2>1, <3>1, <3>2 DEF Progress
      <4>2. Served(d)'
        BY <1>2, <2>2, <4>1 DEF Served, HasTable, Attached, Load
      <4>3. QED
        BY <1>2, <3>1, <3>2, <4>2 DEF Progress
    <3>3. CASE d \notin known
      <4>1. Unserved(d)'
        BY <1>2, <2>1, <3>1, <3>3 DEF Progress, Unserved, Load
      <4>2. QED
        BY <1>2, <3>1, <3>3, <4>1 DEF Progress
    <3>4. QED
      BY <3>2, <3>3
  <2>3. CASE ServiceOf[d] # ServiceOf[c]
    <3>1. \A f \in Families : entries'[f][ServiceOf[d]] = entries[f][ServiceOf[d]]
      BY <1>2, <2>3, ConstantFacts
    <3>2. "v4" \in Families /\ "v6" \in Families
      BY ConstantFacts
    <3>3. QED
      BY <1>2, <2>1, <3>1, <3>2 DEF Progress, Served, Unserved, HasTable, Attached, Load
  <2>4. QED
    BY <2>2, <2>3
<1>6. QED
  BY <1>4, <1>5

(* A step that leaves the map, the tables and the interfaces alone. *)
LEMMA GlobalsKept ==
    ASSUME ServeInv, UNCHANGED <<entries, tables, bound, ifindex>>
    PROVE  TablesExist' /\ AttachedRight' /\ OwnInterfaces'
BY DEF ServeInv, TablesExist, AttachedRight, OwnInterfaces


(* Where a connection stands when a round of the loop at the head of       *)
(* Request is run for family f.                                            *)
LEMMA AtRequest ==
    ASSUME IInv, ServeInv, NEW c \in Conns, NEW f \in Families,
           \/ pc[c] = "ready" /\ f = "v4"
           \/ pc[c] = "create6" /\ f = "v6"
    PROVE  /\ c \in known => Served(c) /\ Load(c, f) # NoId
           /\ c \notin known => ifindex[c] = NoIf /\ Load(c, f) = NoId
<1>1. Progress(c)
  BY DEF ServeInv
<1>2. c \in known => Served(c)
  BY <1>1 DEF Progress
<1>3. c \notin known => ifindex[c] = NoIf /\ Load(c, f) = NoId
  BY <1>1 DEF Progress, Unserved
<1>4. QED
  BY <1>2, <1>3 DEF Served, HasTable

(* The step of a request in which the table of one family is found in the  *)
(* metadata or in the map, allocated, or cannot be had.                    *)
LEMMA RequestServe ==
    ASSUME IInv, Friendly, ServeInv, NEW c \in Conns, Request(c)
    PROVE  ServeInv'
<1> DEFINE s == ServiceOf[c]
<1>1. /\ TypeOK /\ s \in Services /\ "v4" \in Families /\ "v6" \in Families /\ "v4" # "v6"
      /\ UNCHANGED <<lock, ifindex, bound, known, panicked>>
      /\ Progress(c)
  BY ConstantFacts DEF IInv, Request, ServeInv
<1>2. PICK f \in Families, before \in BOOLEAN, then \in {"create6", "next"} :
          /\ RequestCreate(c, f, before, then)
          /\ \/ pc[c] = "ready" /\ f = "v4" /\ before = TRUE /\ then = "create6"
             \/ pc[c] = "create6" /\ f = "v6" /\ before = fresh[c] /\ then = "next"
  BY <1>1 DEF Request, MayStart, IInv, TypeOK, Families
<1>3. /\ c \in known => Served(c) /\ Load(c, f) # NoId
      /\ c \notin known => ifindex[c] = NoIf /\ Load(c, f) = NoId
  BY <1>2, AtRequest
<1>4. /\ meta \in [Conns -> [Families -> Ids \cup {NoId}]]
      /\ entries \in [Families -> [Services -> vrfInfo \cup {NoVrf}]]
      /\ pc \in [Conns -> Steps] /\ fresh \in [Conns -> BOOLEAN]
      /\ tables \in [Families -> SUBSET Ids]
  BY <1>1 DEF TypeOK
<1>5. RequestSteps(c)
  BY DEF RequestSteps
<1>6. CASE Load(c, f) # NoId
  <2>1. /\ UNCHANGED <<entries, meta, tables>>
        /\ fresh'[c] = FALSE /\ pc'[c] = then
    BY <1>2, <1>4, <1>6 DEF RequestCreate, Goto
  <2>2. c \in known /\ Served(c)'
    BY <1>1, <1>3, <1>6, <2>1 DEF Served, HasTable, Attached, Load
  <2>3. Progress(c)'
    BY <1>1, <1>2, <2>1, <2>2 DEF Progress
  <2>4. Alone' /\ \A d \in Conns \ {c} : Progress(d)'
    BY <1>5, <2>1, OthersKept DEF Attached
  <2>5. QED
    BY <1>1, <2>1, <2>3, <2>4, GlobalsKept DEF ServeInv
<1>7. CASE Load(c, f) = NoId /\ pc'[c] = "ready"
  <2>1. /\ UNCHANGED <<entries, tables>>
        /\ c \notin known
        /\ meta'[c] = [g \in Families |-> NoId]
    BY <1>2, <1>3, <1>4, <1>7 DEF RequestCreate, DropMetadata, Goto
  <2>2. Unserved(c)'
    BY <1>1, <1>3, <1>7, <2>1 DEF Unserved, Load
  <2>3. Progress(c)'
    BY <1>1, <1>7, <2>1, <2>2 DEF Progress
  <2>4. Alone' /\ \A d \in Conns \ {c} : Progress(d)'
    BY <1>5, <2>1, OthersKept DEF Attached
  <2>5. QED
    BY <1>1, <2>1, <2>3, <2>4, GlobalsKept DEF ServeInv
<1>8. CASE Load(c, f) = NoId /\ pc'[c] # "ready"
  <2>1. create(c, f) /\ fresh'[c] = before /\ pc'[c] = then
    BY <1>2, <1>4, <1>8 DEF RequestCreate, Goto
  <2>2. c \notin known /\ ifindex[c] = NoIf /\ c \notin known' /\ ifindex'[c] = NoIf
    BY <1>1, <1>3, <1>8
  <2>3. pc[c] = "ready" => Unserved(c)
    BY <1>1, <2>2 DEF Progress
  <2>4. pc[c] = "create6" => fresh[c] = TRUE /\ HasTable(c, "v4")
    BY <1>1, <2>2 DEF Progress
  <2>5. ASSUME /\ HasTable(c, f)'
               /\ \A g \in Families \ {f} : Load(c, g)' = Load(c, g) /\ entries'[g] = entries[g]
        PROVE  Progress(c)'
    <3>1. CASE pc[c] = "ready"
      <4>1. pc'[c] = "create6" /\ fresh'[c] = TRUE /\ f = "v4"
        BY <1>2, <2>1, <3>1
      <4>2. Load(c, "v6")' = NoId
        BY <1>1, <2>3, <2>5, <3>1, <4>1 DEF Unserved
      <4>3. QED
        BY <2>2, <2>5, <4>1, <4>2 DEF Progress
    <3>2. CASE pc[c] = "create6"
      <4>1. pc'[c] = "next" /\ fresh'[c] = TRUE /\ f = "v6"
        BY <1>2, <2>1, <2>4, <3>2
      <4>2. HasTable(c, "v4")'
        BY <1>1, <2>4, <2>5, <3>2, <4>1 DEF HasTable
      <4>3. QED
        BY <2>2, <2>5, <4>1, <4>2 DEF Progress
    <3>3. QED
      BY <1>2, <3>1, <3>2
  <2>6. CASE entries[f][s] # NoVrf
    <3>1. UNCHANGED <<entries, tables>> /\ meta' = [meta EXCEPT ![c][f] = entries[f][s].id]
      BY <2>1, <2>6 DEF create, Store
    <3>2. entries[f][s].id # NoId
      BY <1>1, <2>6, EntryFacts, ConstantFacts
    <3>3. HasTable(c, f)' /\ \A g \in Families \ {f} : Load(c, g)' = Load(c, g)
      BY <1>1, <1>4, <3>1, <3>2 DEF HasTable, Load
    <3>4. Progress(c)'
      BY <2>5, <3>1, <3>3
    <3>5. Alone' /\ \A d \in Conns \ {c} : Progress(d)'
      BY <1>5, <3>1, OthersKept DEF Attached
    <3>6. QED
      BY <1>1, <3>1, <3>4, <3>5, GlobalsKept DEF ServeInv
  <2>7. CASE entries[f][s] = NoVrf
    <3>1. PICK id \in Ids \ tables[f] :
              /\ tables' = [tables EXCEPT ![f] = @ \cup {id}]
              /\ entries' = [entries EXCEPT ![f][s] = [id |-> id, attached |-> {}]]
              /\ meta' = [meta EXCEPT ![c][f] = id]
      BY <2>1, <2>7 DEF create, createVPP, Store
    <3>2. /\ entries'[f][s].id = id /\ entries'[f][s].attached = {} /\ id # NoId
          /\ \A g \in Families, t \in Services : g # f \/ t # s => entries'[g][t] = entries[g][t]
          /\ \A g \in Families \ {f} : entries'[g] = entries[g] /\ tables'[g] = tables[g]
          /\ tables'[f] = tables[f] \cup {id}
      BY <1>1, <1>4, <3>1, ConstantFacts
    <3>3. HasTable(c, f)' /\ \A g \in Families \ {f} : Load(c, g)' = Load(c, g)
      BY <1>1, <1>4, <3>1, <3>2 DEF HasTable, Load
    <3>4. Progress(c)'
      BY <2>5, <3>2, <3>3
    <3>5. ASSUME NEW d \in Conns \ {c}, ServiceOf[d] = s, Served(d) PROVE FALSE
      BY <1>1, <2>7, <3>5, HasTableEntry DEF Served
    <3>6. Alone' /\ \A d \in Conns \ {c} : Progress(d)'
      BY <1>5, <3>5, OthersKept
    <3>7. TablesExist'
      <4>1. TablesExist
        BY DEF ServeInv
      <4>2. ASSUME NEW g \in Families, NEW t \in Services, entries'[g][t] # NoVrf,
                   ~(g = f /\ t = s)
            PROVE  entries[g][t] # NoVrf /\ entries'[g][t] = entries[g][t]
        BY <3>2, <4>2
      <4>3. ASSUME NEW t \in Services \ {s}, entries'[f][t] # NoVrf
            PROVE  entries'[f][t].id \in tables[f] /\ entries'[f][t].id # id
        BY <3>1, <4>1, <4>2, <4>3 DEF TablesExist
      <4>4. QED
        BY <3>2, <4>1, <4>2, <4>3 DEF TablesExist
    <3>8. AttachedRight' /\ OwnInterfaces'
      BY <1>1, <3>2 DEF ServeInv, AttachedRight, OwnInterfaces
    <3>9. QED
      BY <1>1, <3>4, <3>6, <3>7, <3>8 DEF ServeInv
  <2>8. QED
    BY <2>6, <2>7
<1>9. QED
  BY <1>6, <1>7, <1>8


(* The rest of the chain succeeds: a refresh is over, a first request has  *)
(* an interface of its own and goes on to attach it.                       *)
LEMMA NextServe ==
    ASSUME IInv, Friendly, ServeInv, NEW c \in Conns, NextSucceeds(c)
    PROVE  ServeInv'
<1>1. /\ TypeOK /\ Progress(c) /\ RequestSteps(c)
      /\ pc[c] = "next" /\ UNCHANGED <<entries, lock, meta, tables, panicked>>
      /\ ifindex \in [Conns -> Mechs \cup {NoIf}]
  BY DEF IInv, ServeInv, RequestSteps, NextSucceeds, TypeOK
<1>2. Alone' /\ \A d \in Conns \ {c} : Progress(d)'
  BY <1>1, OthersKept DEF Attached
<1>3. CASE c \in known
  <2>1. Served(c) /\ fresh[c] = FALSE
    BY <1>1, <1>3 DEF Progress, TypeOK
  <2>2. pc'[c] = "ready" /\ c \in known' /\ UNCHANGED <<ifindex, bound>>
    BY <2>1 DEF NextSucceeds, Goto, IInv, TypeOK, Served
  <2>3. Served(c)'
    BY <1>1, <2>1, <2>2 DEF Served, HasTable, Attached, Load
  <2>4. Progress(c)'
    BY <2>2, <2>3 DEF Progress
  <2>5. QED
    BY <1>1, <1>2, <2>2, <2>4, GlobalsKept DEF ServeInv
<1>4. CASE c \notin known
  <2>1. fresh[c] = TRUE /\ ifindex[c] = NoIf /\ HasTable(c, "v4") /\ HasTable(c, "v6")
    BY <1>1, <1>4 DEF Progress
  <2>2. pc'[c] = "loop4" /\ c \notin known' /\ CreateInterface(c)
    BY <1>4, <2>1 DEF NextSucceeds, Goto, IInv, TypeOK
  <2>3. PICK i \in Mechs : /\ \A d \in Conns : ifindex[d] # i
                           /\ ifindex' = [ifindex EXCEPT ![c] = i]
                           /\ bound' = bound
    BY <2>2 DEF CreateInterface
  <2>4. i # NoIf /\ ifindex'[c] = i /\ \A d \in Conns \ {c} : ifindex'[d] = ifindex[d]
    BY <1>1, <2>3, VrfAssumption
  <2>5. Progress(c)'
    BY <1>1, <2>1, <2>2 DEF Progress, HasTable, Load
  <2>6. TablesExist' /\ OwnInterfaces'
    BY <1>1, <2>3, <2>4 DEF ServeInv, TablesExist, OwnInterfaces
  <2>7. AttachedRight'
    <3> SUFFICES ASSUME NEW f \in Families, NEW s \in Services, NEW j \in entries[f][s].attached
                 PROVE  /\ bound[f][j] = entries[f][s].id
                        /\ j = LoopOf[s] \/ \E d \in Conns : ServiceOf[d] = s /\ ifindex'[d] = j
      BY <1>1, <2>3 DEF AttachedRight
    <3>1. /\ bound[f][j] = entries[f][s].id
          /\ j = LoopOf[s] \/ \E d \in Conns : ServiceOf[d] = s /\ ifindex[d] = j
      BY DEF ServeInv, AttachedRight
    <3>2. j # NoIf
      BY <1>1, EntryFacts, ConstantFacts
    <3>3. QED
      BY <2>1, <2>4, <3>1, <3>2
  <2>8. QED
    BY <1>1, <1>2, <2>5, <2>6, <2>7 DEF ServeInv
<1>5. QED
  BY <1>3, <1>4

(* Interface i joins the table of the service of c: the loopback of the    *)
(* service or the interface of c.                                          *)
LEMMA JoinServe ==
    ASSUME IInv, ServeInv, NEW c \in Conns, NEW f \in Families, NEW i \in Interfaces,
           i = LoopOf[ServiceOf[c]] \/ i = ifindex[c],
           HasTable(c, f), attach(c, f, i), UNCHANGED <<ifindex, tables, meta>>
    PROVE  /\ ~panicked' /\ TablesExist' /\ AttachedRight' /\ OwnInterfaces'
           /\ Attached(c, f, i)'
           /\ \A g \in Families : /\ entries'[g][ServiceOf[c]].id = entries[g][ServiceOf[c]].id
                                  /\ \A j \in Interfaces : Attached(c, g, j) => Attached(c, g, j)'
<1> DEFINE s == ServiceOf[c]
<1>1. /\ TypeOK /\ s \in Services /\ entries[f][s] # NoVrf /\ entries[f][s].id = Load(c, f)
      /\ entries \in [Families -> [Services -> vrfInfo \cup {NoVrf}]]
      /\ bound \in [Families -> [Interfaces -> Ids \cup {NoId}]]
  BY HasTableEntry, ConstantFacts DEF IInv, TypeOK, HasTable
<1>2. ~panicked'
  BY <1>1 DEF attach
<1>3. CASE i \in entries[f][s].attached
  <2>1. UNCHANGED <<entries, bound>>
    BY <1>1, <1>3 DEF attach
  <2>2. QED
    BY <1>2, <1>3, <2>1, GlobalsKept DEF Attached
<1>4. CASE i \notin entries[f][s].attached
  <2>1. /\ bound' = [bound EXCEPT ![f][i] = Load(c, f)]
        /\ entries' = [entries EXCEPT ![f][s].attached = @ \cup {i}]
    BY <1>1, <1>4 DEF attach, SetTable
  <2>2. entries[f][s] \in vrfInfo
    BY <1>1
  <2>3. /\ entries'[f][s].id = entries[f][s].id
        /\ entries'[f][s].attached = entries[f][s].attached \cup {i}
        /\ entries'[f][s] # NoVrf
    <3>1. /\ entries'[f][s].id = entries[f][s].id
          /\ entries'[f][s].attached = entries[f][s].attached \cup {i}
      BY <1>1, <2>1, <2>2 DEF vrfInfo
    <3>2. QED
      BY <3>1 DEF NoVrf
  <2>4. \A g \in Families, t \in Services : g # f \/ t # s => entries'[g][t] = entries[g][t]
    BY <1>1, <2>1
  <2>5. /\ bound'[f][i] = entries[f][s].id
        /\ \A g \in Families, j \in Interfaces : g # f \/ j # i => bound'[g][j] = bound[g][j]
    BY <1>1, <2>1
  <2>6. TablesExist'
    <3>1. TablesExist
      BY DEF ServeInv
    <3>2. \A g \in Families, t \in Services : /\ entries'[g][t].id = entries[g][t].id
                                              /\ entries'[g][t] # NoVrf <=> entries[g][t] # NoVrf
      BY <1>1, <2>3, <2>4
    <3>3. QED
      BY <3>1, <3>2 DEF TablesExist
  <2>7. ASSUME NEW g \in Families, NEW t \in Services, NEW j \in entries'[g][t].attached
        PROVE  /\ bound'[g][j] = entries'[g][t].id
               /\ j = LoopOf[t] \/ \E d \in Conns : ServiceOf[d] = t /\ ifindex[d] = j
    <3>1. AttachedRight /\ OwnInterfaces
      BY DEF ServeInv
    <3>2. CASE g = f /\ t = s /\ j = i
      BY <2>3, <2>5, <3>2
    <3>3. CASE ~(g = f /\ t = s /\ j = i)
      <4>1. j \in entries[g][t].attached /\ entries'[g][t].id = entries[g][t].id
        BY <2>3, <2>4, <2>7, <3>3
      <4>2. /\ bound[g][j] = entries[g][t].id
            /\ j = LoopOf[t] \/ \E d \in Conns : ServiceOf[d] = t /\ ifindex[d] = j
        BY <3>1, <4>1 DEF AttachedRight
      <4>3. j \in Interfaces
        BY <1>1, <4>1, EntryFacts
      <4>4. g # f \/ j # i
        <5>1. CASE t = s
          BY <1>4, <4>1, <5>1
        <5>2. CASE t # s
          <6>1. ifindex[c] \in Mechs \cup {NoIf} /\ \A d \in Conns : ifindex[d] \in Mechs \cup {NoIf}
            BY <1>1 DEF TypeOK
          <6>2. i # LoopOf[t]
            BY <1>1, <5>2, <6>1, VrfAssumption
          <6>3. ASSUME NEW d \in Conns, ServiceOf[d] = t, ifindex[d] = j PROVE j # i
            <7>1. d # c /\ j # NoIf
              BY <4>3, <5>2, <6>3, ConstantFacts
            <7>2. j # ifindex[c] /\ j # LoopOf[s]
              BY <1>1, <3>1, <6>1, <6>3, <7>1, VrfAssumption DEF OwnInterfaces
            <7>3. QED
              BY <7>2
          <6>4. QED
            BY <4>2, <6>2, <6>3
        <5>3. QED
          BY <5>1, <5>2
      <4>5. QED
        BY <2>5, <4>1, <4>2, <4>3, <4>4
    <3>4. QED
      BY <3>2, <3>3
  <2>8. AttachedRight' /\ OwnInterfaces'
    BY <2>7 DEF AttachedRight, OwnInterfaces, ServeInv
  <2>9. \A g \in Families : /\ entries'[g][s].id = entries[g][s].id
                            /\ \A j \in Interfaces : Attached(c, g, j) => Attached(c, g, j)'
    BY <1>1, <2>3, <2>4 DEF Attached
  <2>10. QED
    BY <1>2, <2>3, <2>6, <2>8, <2>9 DEF Attached
<1>5. QED
  BY <1>3, <1>4


(* A step of the loop over loadIfaces. *)
LEMMA AttachServe ==
    ASSUME IInv, Friendly, ServeInv, NEW c \in Conns, Attach(c)
    PROVE  ServeInv'
<1> DEFINE s == ServiceOf[c]
           loop == LoopOf[s]
<1>1. /\ TypeOK /\ Progress(c) /\ RequestSteps(c) /\ ~panicked
      /\ s \in Services /\ loop \in Interfaces
      /\ "v4" \in Families /\ "v6" \in Families /\ Families = {"v4", "v6"} /\ "v4" # "v6"
      /\ UNCHANGED <<meta, ifindex, tables, fresh>>
      /\ pc \in [Conns -> Steps]
  BY ConstantFacts DEF IInv, ServeInv, RequestSteps, Attach, TypeOK, Families
<1>2. pc[c] \in {"loop4", "loop6", "mech4", "mech6"}
  BY DEF Attach, AttachLoop, AttachMech, AttachAt
<1>3. ifindex[c] \in Interfaces /\ ifindex[c] # NoIf
  BY <1>1, <1>2, ConstantFacts DEF IInv, HasInterface, TypeOK
<1>4. c \notin known /\ \A f \in Families : HasTable(c, f)
  BY <1>1, <1>2 DEF Progress
<1>5. PICK f \in Families, i \in Interfaces, then \in Steps :
          /\ AttachAt(c, f, i, pc[c], then)
          /\ \/ pc[c] = "loop4" /\ f = "v4" /\ i = loop /\ then = "loop6"
             \/ pc[c] = "loop6" /\ f = "v6" /\ i = loop /\ then = "mech4"
             \/ pc[c] = "mech4" /\ f = "v4" /\ i = ifindex[c] /\ then = "mech6"
             \/ pc[c] = "mech6" /\ f = "v6" /\ i = ifindex[c] /\ then = "ready"
  BY <1>1, <1>3 DEF Attach, AttachLoop, AttachMech, AttachAt, Steps
<1>6. CASE attach(c, f, i) /\ Goto(c, then)
  <2>1. HasTable(c, f)
    BY <1>4
  <2>2. i = loop \/ i = ifindex[c]
    BY <1>5
  <2>3. /\ ~panicked' /\ TablesExist' /\ AttachedRight' /\ OwnInterfaces'
        /\ Attached(c, f, i)'
        /\ \A g \in Families : /\ entries'[g][s].id = entries[g][s].id
                               /\ \A j \in Interfaces : Attached(c, g, j) => Attached(c, g, j)'
    BY <1>1, <1>6, <2>1, <2>2, JoinServe
  <2>4. Alone' /\ \A d \in Conns \ {c} : Progress(d)'
    <3>1. \A d \in Conns : Served(d) => ifindex[d] \in Interfaces
      BY <1>1, ConstantFacts DEF TypeOK, Served
    <3>2. QED
      BY <1>1, <2>3, <3>1, OthersKept
  <2>5. pc'[c] = then /\ known' = IF then = "ready" THEN known \cup {c} ELSE known
    BY <1>1, <1>6 DEF Goto, Attach
  <2>6. \A g \in Families : HasTable(c, g)'
    BY <1>1, <1>4, <2>3 DEF HasTable, Load
  <2>7. Progress(c)'
    <3>1. CASE then = "ready"
      <4>1. pc[c] = "mech6" /\ f = "v6" /\ i = ifindex[c]
        BY <1>5, <3>1
      <4>2. Attached(c, "v4", loop) /\ Attached(c, "v6", loop) /\ Attached(c, "v4", ifindex[c])
        BY <1>1, <4>1 DEF Progress
      <4>3. \A g \in Families : Attached(c, g, loop)' /\ Attached(c, g, ifindex[c])'
        BY <1>1, <1>3, <2>3, <4>1, <4>2
      <4>4. Served(c)'
        BY <1>1, <1>3, <2>6, <4>3 DEF Served, Attached
      <4>5. QED
        BY <2>5, <3>1, <4>4 DEF Progress
    <3>2. CASE then = "loop6"
      <4>1. Attached(c, "v4", loop)'
        BY <1>5, <2>3, <3>2
      <4>2. QED
        BY <1>1, <1>4, <2>5, <2>6, <3>2, <4>1 DEF Progress, Attached
    <3>3. CASE then = "mech4"
      <4>1. Attached(c, "v4", loop) /\ Attached(c, "v6", loop)'
        BY <1>1, <1>5, <2>3, <3>3 DEF Progress
      <4>2. Attached(c, "v4", loop)'
        BY <1>1, <2>3, <4>1
      <4>3. QED
        BY <1>1, <1>4, <2>5, <2>6, <3>3, <4>1, <4>2 DEF Progress, Attached
    <3>4. CASE then = "mech6"
      <4>1. Attached(c, "v4", loop) /\ Attached(c, "v6", loop) /\ Attached(c, "v4", ifindex[c])'
        BY <1>1, <1>5, <2>3, <3>4 DEF Progress, Attached
      <4>2. Attached(c, "v4", loop)' /\ Attached(c, "v6", loop)'
        BY <1>1, <2>3, <4>1
      <4>3. QED
        BY <1>1, <1>4, <2>5, <2>6, <3>4, <4>1, <4>2 DEF Progress, Attached
    <3>5. QED
      BY <1>5, <3>1, <3>2, <3>3, <3>4
  <2>8. QED
    BY <2>3, <2>4, <2>7 DEF ServeInv
<1>7. CASE attachFails(c, f, i) /\ Goto(c, "del6") /\ UNCHANGED <<entries, bound, panicked>>
  <2>1. pc'[c] = "del6"
    BY <1>1, <1>7 DEF Goto
  <2>2. Alone' /\ \A d \in Conns \ {c} : Progress(d)'
    BY <1>1, <1>7, OthersKept DEF Attached
  <2>3. Progress(c)'
    BY <1>1, <1>4, <1>7, <2>1 DEF Progress, HasTable, Load
  <2>4. QED
    BY <1>1, <1>7, <2>2, <2>3, GlobalsKept DEF ServeInv
<1>8. QED
  BY <1>5, <1>6, <1>7 DEF AttachAt

(* A close is begun. *)
LEMMA BeginCloseServe ==
    ASSUME IInv, Friendly, ServeInv, NEW c \in Conns, BeginClose(c)
    PROVE  ServeInv'
<1>1. /\ TypeOK /\ Progress(c) /\ CloseSteps(c) /\ ~panicked
      /\ pc[c] = "ready" /\ pc'[c] = "del6"
      /\ UNCHANGED <<entries, lock, meta, ifindex, tables, bound, fresh, known, panicked>>
  BY DEF IInv, TypeOK, ServeInv, CloseSteps, BeginClose, MayStart, Goto
<1>2. Alone' /\ \A d \in Conns \ {c} : Progress(d)'
  BY <1>1, OthersKept DEF Attached
<1>3. Served(c) \/ Unserved(c)
  BY <1>1 DEF Progress
<1>4. Progress(c)'
  BY <1>1, <1>3 DEF Progress, Served, Unserved, HasTable, Load
<1>5. QED
  BY <1>1, <1>2, <1>4, GlobalsKept DEF ServeInv

(* A set with two elements in it does not have one element. *)
LEMMA TwoAttached ==
    ASSUME NEW H \in SUBSET Interfaces, NEW i \in H, NEW j \in H, i # j
    PROVE  Cardinality(H) # 1
<1>1. IsFiniteSet(Interfaces)
  BY VrfAssumption
<1>2. IsFiniteSet(H)
  BY <1>1, FS_Subset
<1>3. Cardinality(H) = 1 => \E x : H = {x}
  BY <1>2, FS_Singleton
<1>4. QED
  BY <1>3

(* The interface of c leaves the table of one family; the table goes when  *)
(* the loopback alone is left, and then no other connection uses it.       *)
LEMMA DelServe ==
    ASSUME IInv, Friendly, ServeInv, NEW c \in Conns, delV46(c)
    PROVE  ServeInv'
<1> DEFINE s == ServiceOf[c]
           i == ifindex[c]
<1>1. /\ TypeOK /\ Progress(c) /\ CloseSteps(c) /\ ~panicked
      /\ s \in Services /\ "v4" \in Families /\ "v6" \in Families /\ Families = {"v4", "v6"} /\ "v4" # "v6"
      /\ UNCHANGED <<meta, ifindex, bound, fresh, known, panicked>>
      /\ pc \in [Conns -> Steps]
      /\ entries \in [Families -> [Services -> vrfInfo \cup {NoVrf}]]
      /\ tables \in [Families -> SUBSET Ids]
      /\ ifindex \in [Conns -> Mechs \cup {NoIf}]
  BY ConstantFacts DEF IInv, ServeInv, CloseSteps, delV46, TypeOK, Families
<1>2. PICK f \in Families :
          /\ del(c, f)
          /\ \/ pc[c] = "del6" /\ f = "v6" /\ pc'[c] = "del4"
             \/ pc[c] = "del4" /\ f = "v4" /\ pc'[c] = "closenext"
  BY <1>1 DEF delV46, Goto
<1> DEFINE rest == entries[f][s].attached \ {i}
<1>3. /\ \A g \in Families :
              /\ Load(c, g) = NoId => i = NoIf
              /\ Load(c, g) # NoId /\ entries[g][s] # NoVrf => HasTable(c, g)
      /\ f = "v4" => ~Attached(c, "v6", i)
  BY <1>1, <1>2 DEF Progress
<1>4. ASSUME \A g \in Families : /\ entries'[g][s] = entries[g][s] \/ (g = f /\ entries'[g][s].id = entries[g][s].id)
                                                             \/ (g = f /\ entries'[g][s] = NoVrf)
                                 /\ entries'[g][s].attached \subseteq entries[g][s].attached,
             i \notin entries'[f][s].attached
      PROVE  Progress(c)'
  <2>1. pc'[c] = "closenext" => ~Attached(c, "v6", i)' /\ ~Attached(c, "v4", i)'
    BY <1>1, <1>2, <1>3, <1>4 DEF Attached
  <2>2. pc'[c] = "del4" => ~Attached(c, "v6", i)'
    BY <1>1, <1>2, <1>4 DEF Attached
  <2>3. ASSUME NEW g \in Families
        PROVE  /\ Load(c, g)' = NoId => i = NoIf
               /\ Load(c, g)' # NoId /\ entries'[g][s] # NoVrf => HasTable(c, g)'
    <3>1. Load(c, g)' = Load(c, g)
      BY <1>1 DEF Load
    <3>2. entries[g][s] = NoVrf => entries[g][s].id = NoId
      BY ConstantFacts
    <3>3. CASE entries[g][s] # NoVrf /\ entries'[g][s] # NoVrf
      BY <1>3, <1>4, <3>1, <3>3 DEF HasTable
    <3>4. CASE entries[g][s] = NoVrf /\ entries'[g][s] # NoVrf
      <4>1. g = f
        BY <1>4, <3>4
      <4>2. QED
        BY <1>2, <3>4, <4>1 DEF del
    <3>5. CASE entries'[g][s] = NoVrf
      BY <1>3, <3>1, <3>5
    <3>6. QED
      BY <3>3, <3>4, <3>5
  <2>4. pc'[c] \in {"del4", "closenext"}
    BY <1>2
  <2>5. QED
    BY <1>1, <2>1, <2>2, <2>3, <2>4 DEF Progress, Attached
<1>5. CASE Load(c, f) = NoId \/ entries[f][s] = NoVrf
  <2>1. UNCHANGED <<entries, tables>>
    BY <1>2, <1>5 DEF del
  <2>2. i \notin entries[f][s].attached
    <3>1. CASE Load(c, f) = NoId
      BY <1>1, <1>3, <3>1, EntryFacts, ConstantFacts
    <3>2. CASE entries[f][s] = NoVrf
      BY <3>2, ConstantFacts
    <3>3. QED
      BY <1>5, <3>1, <3>2
  <2>3. Progress(c)'
    BY <1>4, <2>1, <2>2
  <2>4. Alone' /\ \A d \in Conns \ {c} : Progress(d)'
    BY <1>1, <2>1, OthersKept DEF Attached
  <2>5. QED
    BY <1>1, <2>1, <2>3, <2>4, GlobalsKept DEF ServeInv
<1>6. ASSUME NEW d \in Conns \ {c}, ServiceOf[d] = s, Served(d)
      PROVE  /\ ifindex[d] \in rest /\ LoopOf[s] \in rest /\ ifindex[d] # LoopOf[s]
  <2>1. ifindex[d] \in entries[f][s].attached /\ LoopOf[s] \in entries[f][s].attached /\ ifindex[d] # NoIf
    BY <1>6 DEF Served, Attached
  <2>2. ifindex[d] # i /\ ifindex[d] # LoopOf[s] /\ i # LoopOf[s]
    BY <1>1, <1>6, <2>1, ConstantFacts DEF ServeInv, OwnInterfaces
  <2>3. QED
    BY <2>1, <2>2
<1>7. CASE Load(c, f) # NoId /\ entries[f][s] # NoVrf /\ Cardinality(rest) # 1
  <2>1. /\ entries' = [entries EXCEPT ![f][s].attached = rest]
        /\ UNCHANGED tables
    BY <1>2, <1>7 DEF del
  <2>2. /\ entries'[f][s].id = entries[f][s].id
        /\ entries'[f][s].attached = rest
    <3>1. entries[f][s] \in vrfInfo
      BY <1>1, <1>7
    <3>2. QED
      BY <1>1, <2>1, <3>1 DEF vrfInfo
  <2>3. \A g \in Families, t \in Services : g # f \/ t # s => entries'[g][t] = entries[g][t]
    BY <1>1, <2>1
  <2>4. Progress(c)'
    BY <1>1, <1>4, <2>2, <2>3
  <2>5. Alone' /\ \A d \in Conns \ {c} : Progress(d)'
    <3>1. ASSUME NEW d \in Conns \ {c}, ServiceOf[d] = s, Served(d), NEW g \in Families
          PROVE  /\ entries'[g][s].id = entries[g][s].id
                 /\ \A j \in {ifindex[d], LoopOf[s]} : Attached(c, g, j) => Attached(c, g, j)'
      BY <1>1, <1>6, <2>2, <2>3, <3>1 DEF Attached
    <3>2. QED
      BY <1>1, <3>1, OthersKept
  <2>6. TablesExist'
    <3>1. \A g \in Families, t \in Services : /\ entries'[g][t].id = entries[g][t].id
                                              /\ entries'[g][t] # NoVrf => entries[g][t] # NoVrf
      BY <1>1, <1>7, <2>2, <2>3
    <3>2. QED
      BY <2>1, <3>1 DEF ServeInv, TablesExist
  <2>7. AttachedRight' /\ OwnInterfaces'
    <3>1. \A g \in Families, t \in Services : /\ entries'[g][t].id = entries[g][t].id
                                              /\ entries'[g][t].attached \subseteq entries[g][t].attached
      BY <1>1, <2>2, <2>3
    <3>2. QED
      BY <1>1, <3>1 DEF ServeInv, AttachedRight, OwnInterfaces
  <2>8. QED
    BY <1>1, <2>4, <2>5, <2>6, <2>7 DEF ServeInv
<1>8. CASE Load(c, f) # NoId /\ entries[f][s] # NoVrf /\ Cardinality(rest) = 1
  <2>1. /\ entries' = [entries EXCEPT ![f][s] = NoVrf]
        /\ tables' = [tables EXCEPT ![f] = tables[f] \ {Load(c, f)}]
    BY <1>2, <1>8 DEF del, delVPP, Friendly
  <2>2. /\ entries'[f][s] = NoVrf
        /\ \A g \in Families, t \in Services : g # f \/ t # s => entries'[g][t] = entries[g][t]
        /\ tables'[f] = tables[f] \ {entries[f][s].id}
        /\ \A g \in Families \ {f} : tables'[g] = tables[g]
    BY <1>1, <1>3, <1>8, <2>1 DEF HasTable
  <2>3. Progress(c)'
    BY <1>1, <1>4, <2>2, ConstantFacts
  <2>4. ASSUME NEW d \in Conns \ {c}, ServiceOf[d] = s, Served(d) PROVE FALSE
    <3>1. ifindex[d] \in rest /\ LoopOf[s] \in rest /\ ifindex[d] # LoopOf[s]
      BY <1>6, <2>4
    <3>2. rest \in SUBSET Interfaces
      BY <1>1, EntryFacts
    <3>3. QED
      BY <1>8, <3>1, <3>2, TwoAttached
  <2>5. Alone' /\ \A d \in Conns \ {c} : Progress(d)'
    BY <1>1, <2>4, OthersKept
  <2>6. TablesExist'
    <3> SUFFICES ASSUME NEW g \in Families, NEW t \in Services, entries'[g][t] # NoVrf
                 PROVE  /\ entries'[g][t].id \in tables'[g]
                        /\ \A u \in Services \ {t} : entries'[g][u] # NoVrf =>
                              entries'[g][u].id # entries'[g][t].id
      BY DEF TablesExist
    <3>1. g # f \/ t # s
      BY <2>2
    <3>2. entries'[g][t] = entries[g][t] /\ entries[g][t].id \in tables[g]
      BY <2>2, <3>1 DEF ServeInv, TablesExist
    <3>3. entries'[g][t].id \in tables'[g]
      <4>1. CASE g # f
        BY <2>2, <3>2, <4>1
      <4>2. CASE g = f
        <5>1. entries[f][t].id # entries[f][s].id
          BY <1>1, <1>8, <2>2, <3>1, <3>2, <4>2 DEF ServeInv, TablesExist
        <5>2. QED
          BY <2>2, <3>2, <4>2, <5>1
      <4>3. QED
        BY <4>1, <4>2
    <3>4. ASSUME NEW u \in Services \ {t}, entries'[g][u] # NoVrf
          PROVE  entries'[g][u].id # entries'[g][t].id
      <4>1. entries'[g][u] = entries[g][u]
        BY <2>2, <3>4
      <4>2. QED
        BY <3>2, <3>4, <4>1 DEF ServeInv, TablesExist
    <3>5. QED
      BY <3>3, <3>4
  <2>7. AttachedRight' /\ OwnInterfaces'
    <3>1. entries'[f][s].attached = {}
      BY <2>2, ConstantFacts
    <3>2. QED
      BY <1>1, <2>2, <3>1 DEF ServeInv, AttachedRight, OwnInterfaces
  <2>8. QED
    BY <1>1, <2>3, <2>5, <2>6, <2>7 DEF ServeInv
<1>9. QED
  BY <1>5, <1>7, <1>8


(* The interface and the metadata of c go: it was attached to no table.    *)
LEMMA CloseNextServe ==
    ASSUME IInv, Friendly, ServeInv, NEW c \in Conns, CloseNext(c)
    PROVE  ServeInv'
<1>1. /\ TypeOK /\ Progress(c) /\ CloseSteps(c) /\ ~panicked
      /\ ServiceOf[c] \in Services /\ Families = {"v4", "v6"}
      /\ pc[c] = "closenext" /\ pc'[c] = "ready"
      /\ UNCHANGED <<entries, lock, tables, fresh, panicked>>
      /\ c \notin known'
      /\ ifindex \in [Conns -> Mechs \cup {NoIf}]
  BY ConstantFacts DEF IInv, TypeOK, ServeInv, CloseSteps, CloseNext, Goto, Families
<1>2. /\ ifindex'[c] = NoIf /\ \A d \in Conns \ {c} : ifindex'[d] = ifindex[d]
      /\ \A f \in Families, i \in Interfaces :
            bound'[f][i] = IF i = ifindex[c] THEN NoId ELSE bound[f][i]
  BY <1>1 DEF CloseNext, DeleteInterface
<1>3. meta'[c] = [f \in Families |-> NoId]
  BY DEF CloseNext, delTableFromMetadataV46, IInv, TypeOK
<1>4. Progress(c)'
  <2>1. Unserved(c)'
    BY <1>2, <1>3 DEF Unserved, Load
  <2>2. QED
    BY <1>1, <2>1 DEF Progress
<1>5. Alone' /\ \A d \in Conns \ {c} : Progress(d)'
  BY <1>1, OthersKept DEF Attached
<1>6. TablesExist' /\ OwnInterfaces'
  BY <1>1, <1>2 DEF ServeInv, TablesExist, OwnInterfaces
<1>7. AttachedRight'
  <2> SUFFICES ASSUME NEW f \in Families, NEW s \in Services, NEW i \in entries[f][s].attached
               PROVE  /\ bound'[f][i] = entries[f][s].id
                      /\ i = LoopOf[s] \/ \E d \in Conns : ServiceOf[d] = s /\ ifindex'[d] = i
    BY <1>1 DEF AttachedRight
  <2>1. i \in Interfaces /\ i # NoIf
    BY <1>1, EntryFacts, ConstantFacts
  <2>2. /\ bound[f][i] = entries[f][s].id
        /\ i = LoopOf[s] \/ \E d \in Conns : ServiceOf[d] = s /\ ifindex[d] = i
    BY DEF ServeInv, AttachedRight
  <2>3. i # ifindex[c]
    <3>1. CASE s = ServiceOf[c]
      BY <1>1, <3>1 DEF Progress, Attached
    <3>2. CASE i = LoopOf[s]
      BY <1>1, <2>1, <3>2, ConstantFacts
    <3>3. CASE \E d \in Conns : ServiceOf[d] = s /\ ifindex[d] = i /\ s # ServiceOf[c]
      BY <2>1, <3>3 DEF ServeInv, OwnInterfaces
    <3>4. QED
      BY <2>2, <3>1, <3>2, <3>3
  <2>4. QED
    BY <1>2, <2>1, <2>2, <2>3
<1>8. QED
  BY <1>1, <1>4, <1>5, <1>6, <1>7 DEF ServeInv

(* Nobody has a table at the start. *)
LEMMA InitServe == Init => FriendlyInv
<1> SUFFICES ASSUME Init PROVE ServeInv
  BY DEF FriendlyInv
<1>1. /\ \A f \in Families, s \in Services : entries[f][s] = NoVrf
      /\ \A c \in Conns : pc[c] = "ready" /\ ifindex[c] = NoIf /\ c \notin known
      /\ \A c \in Conns, f \in Families : Load(c, f) = NoId
      /\ ~panicked
  BY DEF Init, NewMap, Load
<1>2. Alone /\ TablesExist /\ AttachedRight /\ OwnInterfaces
  BY <1>1, ConstantFacts DEF Alone, TablesExist, AttachedRight, OwnInterfaces
<1>3. \A c \in Conns : Progress(c)
  BY <1>1 DEF Progress, Unserved
<1>4. QED
  BY <1>1, <1>2, <1>3 DEF ServeInv

(* Every step keeps the invariant of the friendly environment, in which    *)
(* the rest of the chain does not fail.                                    *)
LEMMA NextServeInv == IInv /\ FriendlyInv /\ [Next]_vars => FriendlyInv'
<1> SUFFICES ASSUME IInv, FriendlyInv, [Next]_vars, Friendly' PROVE ServeInv'
  BY DEF FriendlyInv
<1>1. CASE UNCHANGED vars
  <2>1. Friendly /\ ServeInv
    BY <1>1 DEF vars, FriendlyInv, Friendly, Overlap, Faults
  <2>2. QED
    BY <1>1, <2>1 DEF vars, ServeInv, Alone, TablesExist, AttachedRight, OwnInterfaces, Progress,
         Served, Unserved, HasTable, Attached, Load
<1>2. CASE Next
  <2>1. PICK c \in Conns : (RequestSteps(c) \/ CloseSteps(c)) /\ UNCHANGED env
    BY <1>2, NextIsStep DEF IInv
  <2>2. Friendly /\ ServeInv
    BY <2>1 DEF FriendlyInv, Friendly, Overlap, Faults
  <2>3. ~NextFails(c)
    BY <2>2 DEF NextFails, Friendly
  <2>4. ~Undo(c)
    BY <2>2 DEF Undo, ServeInv, Progress
  <2>5. QED
    BY <2>1, <2>2, <2>3, <2>4, RequestServe, NextServe, AttachServe, BeginCloseServe, DelServe,
       CloseNextServe DEF RequestSteps, CloseSteps
<1>3. QED
  BY <1>1, <1>2

(* Where the handlers of a service follow each other and the rest of the   *)
(* chain does not fail, the table in the metadata of a connection is the   *)
(* one of its service and exists, its interface and the loopback are in    *)
(* it, and attach finds its entry, for any number of services whose        *)
(* handlers interleave and whatever allocations and attachments fail.      *)
THEOREM VrfTablesServe == Spec => []TablesServe
<1>1. IInv /\ FriendlyInv => TablesServe
  <2> SUFFICES ASSUME IInv, Friendly, ServeInv PROVE UsedTableKept /\ InterfacesInTable /\ ~panicked
    BY DEF FriendlyInv, TablesServe, Friendly
  <2>1. ASSUME NEW c \in Conns, NEW f \in Families, Uses(c, f)
        PROVE  HasTable(c, f)
    <3>1. Progress(c) /\ Load(c, f) # NoId /\ Families = {"v4", "v6"} /\ pc[c] \in Steps
      BY <2>1 DEF ServeInv, Uses, Families, IInv, TypeOK
    <3>2. CASE pc[c] \in {"ready", "create6", "next"} /\ c \in known
      BY <3>1, <3>2 DEF Progress, Served
    <3>3. CASE pc[c] = "ready" /\ c \notin known
      BY <3>1, <3>3 DEF Progress, Unserved
    <3>4. CASE pc[c] \in {"create6", "next"} /\ c \notin known
      BY <3>1, <3>4 DEF Progress
    <3>5. CASE pc[c] \in {"loop4", "loop6", "mech4", "mech6"}
      BY <3>1, <3>5 DEF Progress
    <3>6. QED
      BY <2>1, <3>1, <3>2, <3>3, <3>4, <3>5 DEF Uses, Steps
  <2>2. UsedTableKept
    <3> SUFFICES ASSUME NEW c \in Conns, NEW f \in Families, Uses(c, f)
                 PROVE  /\ entries[f][ServiceOf[c]].id = Load(c, f)
                        /\ Load(c, f) \in tables[f]
      BY DEF UsedTableKept
    <3>1. HasTable(c, f) /\ ServiceOf[c] \in Services
      BY <2>1, ConstantFacts
    <3>2. entries[f][ServiceOf[c]] # NoVrf
      BY <3>1, HasTableEntry DEF IInv
    <3>3. QED
      BY <3>1, <3>2 DEF HasTable, ServeInv, TablesExist
  <2>3. InterfacesInTable
    <3> SUFFICES ASSUME NEW c \in Conns, NEW f \in Families, pc[c] = "ready", Load(c, f) # NoId,
                        NEW i \in {ifindex[c], LoopOf[ServiceOf[c]]}
                 PROVE  bound[f][i] = Load(c, f)
      BY DEF InterfacesInTable
    <3>1. Progress(c) /\ ServiceOf[c] \in Services
      BY ConstantFacts DEF ServeInv
    <3>2. Served(c)
      BY <3>1 DEF Progress, Unserved
    <3>3. QED
      BY <3>1, <3>2 DEF Served, HasTable, Attached, ServeInv, AttachedRight
  <2>4. QED
    BY <2>2, <2>3 DEF ServeInv
<1>2. Spec => []FriendlyInv
  BY AlwaysIInv, InitServe, NextServeInv, PTL DEF Spec
<1>3. QED
  BY <1>1, <1>2, AlwaysIInv, PTL

=============================================================================
