--------------------------- MODULE EndpointProofs ---------------------------
(***************************************************************************)
(* The loopback elements on their own, for any number of connections,      *)
(* services and interfaces: their inductive invariant, and that they       *)
(* implement SharedResource.  Then the chain of an endpoint around them:   *)
(* what was proved of them holds inside the chain.                         *)
(***************************************************************************)
EXTENDS Endpoint, FiniteSetTheorems, TLAPS

-----------------------------------------------------------------------------
(* The loopback elements *)

(* Any set of connections is finite, has a natural cardinality that is 0   *)
(* only for the empty set, and one connection more or less counts for one. *)
LEMMA ConnsCard ==
    ASSUME NEW H \in SUBSET Conns
    PROVE  /\ Cardinality(H) \in Nat
           /\ Cardinality(H) = 0 <=> H = {}
           /\ \A c \in Conns \ H : Cardinality(H \cup {c}) = Cardinality(H) + 1
           /\ \A c \in H : Cardinality(H \ {c}) = Cardinality(H) - 1
<1>1. IsFiniteSet(H)
  BY ConnsAssumption, FS_Subset
<1>2. Cardinality(H) \in Nat
  BY <1>1, FS_CardinalityType
<1>3. Cardinality(H) = 0 <=> H = {}
  BY <1>1, FS_EmptySet
<1>4. ASSUME NEW c \in Conns \ H PROVE Cardinality(H \cup {c}) = Cardinality(H) + 1
  BY <1>1, <1>4, FS_AddElement
<1>5. ASSUME NEW c \in H PROVE Cardinality(H \ {c}) = Cardinality(H) - 1
  BY <1>1, <1>5, FS_RemoveElement
<1>6. QED
  BY <1>2, <1>3, <1>4, <1>5

(* In an empty map nobody holds a loopback. *)
LEMMA InitIInv == Init => IInv
<1> SUFFICES ASSUME Init PROVE IInv
  OBVIOUS
<1>1. TypeOK
  BY ConnsAssumption DEF Init, TypeOK, NewMap, NoInfo, LoopInfo, Steps
<1>2. RefCountExact
  <2>1. ASSUME NEW s \in Services PROVE entries[s].count = Cardinality(Holders(s)) + forgotten[s]
    <3>1. Holders(s) = {}
      BY DEF Init, Holders
    <3>2. Cardinality(Holders(s)) = 0
      BY <3>1, FS_EmptySet
    <3>3. QED
      BY <3>2 DEF Init, NewMap, NoInfo
  <2>2. QED
    BY <2>1 DEF RefCountExact
<1>3. NoNilDeref /\ EntryLive /\ DelPending /\ LoopbackInUseExists /\ ServicesIsolated
  BY DEF Init, NoNilDeref, EntryLive, DelPending, LoopbackInUseExists, ServicesIsolated,
         HeldBy, NewMap, NoInfo
<1>4. QED
  BY <1>1, <1>2, <1>3 DEF IInv
(* A step that touches only the metadata and the program counter of c      *)
(* changes who holds a loopback for c alone.                               *)
LEMMA HoldersOthers ==
    ASSUME NEW c \in Conns, NEW s \in Services, TypeOK, TypeOK',
           \A d \in Conns \ {c} : meta'[d] = meta[d] /\ pc'[d] = pc[d]
    PROVE  /\ ServiceOf[c] # s => Holders(s)' = Holders(s)
           /\ c \in Holders(s)' => Holders(s)' = Holders(s) \cup {c}
           /\ c \notin Holders(s)' => Holders(s)' = Holders(s) \ {c}
BY DEF Holders

(* The step in which c takes part in the loopback i of its service.        *)
LEMMA JoinIInv ==
    ASSUME IInv, TypeOK', NEW c \in Conns, NEW i \in Interfaces,
           pc[c] = "ready", meta[c] = NoIf,
           \/ /\ entries[ServiceOf[c]] # NoInfo
              /\ i = entries[ServiceOf[c]].swIfIndex
              /\ loops' = loops
           \/ /\ entries[ServiceOf[c]] = NoInfo
              /\ i \notin loops
              /\ loops' = loops \cup {i},
           entries' = [entries EXCEPT ![ServiceOf[c]] =
               [swIfIndex |-> i, count |-> entries[ServiceOf[c]].count + 1]],
           meta' = [meta EXCEPT ![c] = i],
           pc' = [pc EXCEPT ![c] = "next"],
           UNCHANGED <<dropped, panicked, forgotten>>
    PROVE  IInv'
<1> DEFINE s == ServiceOf[c]
<1> USE DEF IInv
<1>1. s \in Services /\ NoIf \notin Interfaces
  BY ConnsAssumption
<1>2. /\ entries[s].count \in Nat
      /\ entries'[s].count = entries[s].count + 1
      /\ entries'[s].swIfIndex = i
      /\ \A t \in Services \ {s} : entries'[t] = entries[t]
  BY <1>1 DEF TypeOK, LoopInfo
<1>3. \A d \in Conns \ {c} : meta'[d] = meta[d] /\ pc'[d] = pc[d]
  BY DEF TypeOK
<1>4. meta'[c] = i /\ pc'[c] = "next"
  BY DEF TypeOK
<1>5. RefCountExact'
  <2> forgotten \in [Services -> Nat]
    BY DEF TypeOK
  <2>1. ASSUME NEW t \in Services PROVE entries'[t].count = Cardinality(Holders(t)') + forgotten'[t]
    <3>1. CASE t = s
      <4>1. c \notin Holders(s) /\ c \in Holders(s)'
        BY <1>1, <1>4 DEF Holders
      <4>2. Holders(s)' = Holders(s) \cup {c}
        BY <1>1, <1>3, <4>1, HoldersOthers
      <4>3. Holders(s) \in SUBSET Conns
        BY DEF Holders
      <4>4. Cardinality(Holders(s)') = Cardinality(Holders(s)) + 1
        BY <4>1, <4>2, <4>3, ConnsCard
      <4>5. Cardinality(Holders(s)) \in Nat
        BY <4>3, ConnsCard
      <4>6. QED
        BY <1>1, <1>2, <3>1, <4>4, <4>5 DEF RefCountExact
    <3>2. CASE t # s
      <4>1. Holders(t)' = Holders(t)
        BY <1>3, <3>2, HoldersOthers
      <4>2. QED
        BY <1>2, <3>2, <4>1 DEF RefCountExact
    <3>3. QED
      BY <3>1, <3>2
  <2>2. QED
    BY <2>1 DEF RefCountExact
<1>6. EntryLive'
  BY <1>1, <1>2 DEF EntryLive, TypeOK, LoopInfo, NoInfo
<1>7. DelPending'
  BY <1>3, <1>4 DEF DelPending
<1>8. LoopbackInUseExists'
  <2>1. ASSUME NEW d \in Conns, HeldBy(d)' # NoIf
        PROVE  HeldBy(d)' = entries'[ServiceOf[d]].swIfIndex /\ HeldBy(d)' \in loops'
    <3>1. CASE d = c
      BY <1>2, <1>4, <1>6, <3>1, <1>1 DEF HeldBy, EntryLive
    <3>2. CASE d # c
      <4>1. HeldBy(d)' = HeldBy(d)
        BY <1>3, <3>2 DEF HeldBy
      <4>2. ServiceOf[d] = s => entries[s] # NoInfo
        BY <2>1, <4>1 DEF LoopbackInUseExists, NoInfo
      <4>3. ServiceOf[d] \in Services
        BY ConnsAssumption
      <4>4. QED
        BY <1>2, <2>1, <4>1, <4>2, <4>3 DEF LoopbackInUseExists
    <3>3. QED
      BY <3>1, <3>2
  <2>2. QED
    BY <2>1 DEF LoopbackInUseExists
<1>9. ServicesIsolated'
  <2>1. ASSUME NEW t \in Services \ {s} PROVE entries'[t].swIfIndex # i
    <3>1. CASE entries[s] # NoInfo
      BY <1>1, <1>2, <3>1, <2>1 DEF ServicesIsolated
    <3>2. CASE entries[s] = NoInfo
      BY <1>2, <1>1, <3>2, <2>1 DEF EntryLive
    <3>3. QED
      BY <3>1, <3>2
  <2>2. QED
    BY <1>1, <1>2, <2>1 DEF ServicesIsolated
<1>10. NoNilDeref'
  BY DEF NoNilDeref
<1>11. QED
  BY <1>5, <1>6, <1>7, <1>8, <1>9, <1>10
(* The step in which del takes the loopback out of the metadata of c.      *)
LEMMA BeginDelIInv ==
    ASSUME IInv, TypeOK', NEW c \in Conns, pc[c] # "delete", beginDel(c)
    PROVE  IInv'
<1> USE DEF IInv
<1>1. \A d \in Conns \ {c} : /\ meta'[d] = meta[d] /\ pc'[d] = pc[d]
                             /\ dropped'[d] = dropped[d]
  BY DEF TypeOK, beginDel, LoadAndDelete
<1>2. /\ meta'[c] = NoIf
      /\ dropped'[c] = meta[c]
      /\ pc'[c] = (IF meta[c] = NoIf THEN "ready" ELSE "delete")
      /\ UNCHANGED <<entries, loops, panicked, forgotten>>
  BY DEF TypeOK, beginDel, LoadAndDelete, Load
<1>3. \A t \in Services : Holders(t)' = Holders(t)
  BY <1>1, <1>2 DEF Holders
<1>4. \A d \in Conns : HeldBy(d)' = HeldBy(d)
  BY <1>1, <1>2 DEF HeldBy
<1>5. DelPending'
  BY <1>1, <1>2 DEF DelPending
<1>6. RefCountExact'
  BY <1>2, <1>3 DEF RefCountExact
<1>7. LoopbackInUseExists'
  BY <1>2, <1>4 DEF LoopbackInUseExists
<1>8. NoNilDeref' /\ EntryLive' /\ ServicesIsolated'
  BY <1>2 DEF NoNilDeref, EntryLive, ServicesIsolated
<1>9. QED
  BY <1>5, <1>6, <1>7, <1>8

(* When the executor runs del for c, the service of c has an entry, and it *)
(* is the interface that c took out of its metadata.                       *)
LEMMA DelFindsEntry ==
    ASSUME IInv, NEW c \in Conns, pc[c] = "delete"
    PROVE  /\ entries[ServiceOf[c]] # NoInfo
           /\ entries[ServiceOf[c]].count > 0
           /\ dropped[c] = entries[ServiceOf[c]].swIfIndex
           /\ c \in Holders(ServiceOf[c])
<1>1. dropped[c] # NoIf /\ dropped[c] = entries[ServiceOf[c]].swIfIndex
  BY DEF IInv, DelPending, LoopbackInUseExists, HeldBy
<1>2. ServiceOf[c] \in Services
  BY ConnsAssumption
<1>3. entries[ServiceOf[c]].count # 0 /\ entries[ServiceOf[c]].count \in Nat
  BY <1>1, <1>2 DEF IInv, EntryLive, TypeOK, LoopInfo
<1>4. QED
  BY <1>1, <1>2, <1>3 DEF Holders, NoInfo

(* The executor's part of del. *)
LEMMA EndDelIInv ==
    ASSUME IInv, TypeOK', NEW c \in Conns, EndDel(c)
    PROVE  IInv'
<1> DEFINE s == ServiceOf[c]
<1> USE DEF IInv
<1>1. s \in Services
  BY ConnsAssumption
<1>2. /\ entries[s] # NoInfo /\ entries[s].count > 0 /\ entries[s].count \in Nat
      /\ dropped[c] = entries[s].swIfIndex
      /\ c \in Holders(s)
      /\ pc[c] = "delete"
  BY <1>1, DelFindsEntry DEF EndDel, TypeOK, LoopInfo
<1>3. /\ \A d \in Conns : meta'[d] = meta[d]
      /\ \A d \in Conns \ {c} : pc'[d] = pc[d] /\ dropped'[d] = dropped[d]
      /\ pc'[c] = "ready" /\ meta[c] = NoIf
      /\ panicked' = FALSE /\ forgotten' = forgotten
  BY <1>2 DEF EndDel, del, TypeOK, DelPending
<1>4. /\ \A t \in Services \ {s} : entries'[t] = entries[t]
      /\ entries[s].count > 1 => /\ entries'[s].count = entries[s].count - 1
                                 /\ entries'[s].swIfIndex = entries[s].swIfIndex
                                 /\ loops' = loops
      /\ entries[s].count = 1 => /\ entries'[s] = NoInfo
                                 /\ loops' \in {loops \ {dropped[c]}, loops}
  BY <1>1 DEF EndDel, del, delVPP, TypeOK, LoopInfo
<1>5. /\ Holders(s)' = Holders(s) \ {c}
      /\ \A t \in Services \ {s} : Holders(t)' = Holders(t)
  BY <1>3 DEF Holders
<1>6. Holders(s) \in SUBSET Conns /\ Holders(s)' \in SUBSET Conns
  BY DEF Holders
<1>7. Cardinality(Holders(s)') = Cardinality(Holders(s)) - 1
  BY <1>2, <1>5, <1>6, ConnsCard
<1>8. /\ entries[s].count = Cardinality(Holders(s)) + forgotten[s] /\ forgotten[s] \in Nat
      /\ Cardinality(Holders(s)) \in Nat
  BY <1>1, <1>6, ConnsCard DEF RefCountExact, TypeOK
<1>9. RefCountExact'
  <2>1. entries'[s].count = Cardinality(Holders(s)') + forgotten'[s]
    <3>1. CASE entries[s].count > 1
      BY <1>3, <1>4, <1>7, <1>8, <3>1
    <3>2. CASE entries[s].count = 1
      BY <1>3, <1>4, <1>6, <1>7, <1>8, <3>2, ConnsCard DEF NoInfo
    <3>3. QED
      BY <1>2, <3>1, <3>2
  <2>2. ASSUME NEW t \in Services \ {s}
        PROVE  entries'[t].count = Cardinality(Holders(t)') + forgotten'[t]
    <3>1. entries'[t] = entries[t] /\ Holders(t)' = Holders(t) /\ forgotten' = forgotten
      BY <1>3, <1>4, <1>5
    <3>2. entries[t].count = Cardinality(Holders(t)) + forgotten[t]
      BY DEF RefCountExact
    <3>3. QED
      BY <3>1, <3>2
  <2>3. QED
    BY <2>1, <2>2 DEF RefCountExact
<1>10. ASSUME NEW d \in Conns \ {c}, HeldBy(d) # NoIf, ServiceOf[d] = s
       PROVE  entries[s].count > 1
  <2>1. d \in Holders(s) \ {c}
    BY <1>10 DEF Holders, HeldBy
  <2>2. Cardinality(Holders(s)') # 0 /\ Cardinality(Holders(s)') \in Nat
    BY <1>5, <1>6, <2>1, ConnsCard
  <2>3. QED
    BY <1>2, <1>7, <1>8, <2>2
<1>11. ASSUME NEW t \in Services \ {s}, entries[t].swIfIndex # NoIf
       PROVE  entries[t].swIfIndex \in loops'
  <2>1. entries[t].swIfIndex # dropped[c]
    BY <1>1, <1>2, <1>11 DEF ServicesIsolated
  <2>2. entries[t].swIfIndex \in loops
    BY <1>11 DEF EntryLive
  <2>3. QED
    BY <1>2, <1>4, <2>1, <2>2
<1>12. EntryLive'
  <2>1. ASSUME NEW t \in Services
        PROVE  /\ entries'[t].count = 0 <=> entries'[t].swIfIndex = NoIf
               /\ entries'[t].swIfIndex # NoIf => entries'[t].swIfIndex \in loops'
    <3>1. CASE t # s
      BY <1>4, <1>11, <3>1 DEF EntryLive
    <3>2. CASE t = s /\ entries[s].count > 1
      BY <1>1, <1>2, <1>4, <3>2 DEF EntryLive
    <3>3. CASE t = s /\ entries[s].count = 1
      BY <1>4, <3>3 DEF NoInfo
    <3>4. QED
      BY <1>2, <3>1, <3>2, <3>3
  <2>2. QED
    BY <2>1 DEF EntryLive
<1>13. DelPending'
  BY <1>3 DEF DelPending
<1>14. LoopbackInUseExists'
  <2>1. ASSUME NEW d \in Conns, HeldBy(d)' # NoIf
        PROVE  HeldBy(d)' = entries'[ServiceOf[d]].swIfIndex /\ HeldBy(d)' \in loops'
    <3>1. d # c
      BY <1>3, <2>1 DEF HeldBy
    <3>2. HeldBy(d)' = HeldBy(d)
      BY <1>3, <3>1 DEF HeldBy
    <3>3. ServiceOf[d] \in Services
      BY ConnsAssumption
    <3>4. HeldBy(d) = entries[ServiceOf[d]].swIfIndex /\ HeldBy(d) \in loops
      BY <2>1, <3>2 DEF LoopbackInUseExists
    <3>5. CASE ServiceOf[d] = s
      BY <1>4, <1>10, <2>1, <3>1, <3>2, <3>4, <3>5
    <3>6. CASE ServiceOf[d] # s
      BY <1>4, <1>11, <2>1, <3>2, <3>3, <3>4, <3>6
    <3>7. QED
      BY <3>5, <3>6
  <2>2. QED
    BY <2>1 DEF LoopbackInUseExists
<1>15. ServicesIsolated'
  <2>1. \A t \in Services : entries'[t] # NoInfo =>
            entries[t] # NoInfo /\ entries'[t].swIfIndex = entries[t].swIfIndex
    BY <1>2, <1>4
  <2>2. \A t \in Services : entries'[t].swIfIndex \in {NoIf, entries[t].swIfIndex}
    BY <1>2, <1>4 DEF NoInfo
  <2>3. \A t \in Services : entries'[t] # NoInfo => entries'[t].swIfIndex # NoIf
    BY <1>12 DEF EntryLive, TypeOK, LoopInfo, NoInfo
  <2>4. QED
    BY <2>1, <2>2, <2>3 DEF ServicesIsolated
<1>16. NoNilDeref'
  BY <1>3 DEF NoNilDeref
<1>17. QED
  BY <1>9, <1>12, <1>13, <1>14, <1>15, <1>16
(* Every step of an element keeps the types. *)
LEMMA NextTypeOK == TypeOK /\ [Next]_vars => TypeOK'
<1> SUFFICES ASSUME TypeOK, [Next]_vars PROVE TypeOK'
  OBVIOUS
<1>1. CASE UNCHANGED vars
  BY <1>1 DEF TypeOK, vars
<1>2. ASSUME NEW c \in Conns, Request(c) PROVE TypeOK'
  <2>1. ServiceOf[c] \in Services
    BY ConnsAssumption
  <2>2. UNCHANGED <<dropped, panicked, forgotten>> /\ pc' \in [Conns -> Steps]
    BY <1>2 DEF Request, TypeOK, Steps
  <2>3. CASE UNCHANGED <<entries, meta, loops>>
    BY <2>2, <2>3 DEF TypeOK
  <2>4. ASSUME NEW i \in Interfaces \cup {NoIf}, NEW n \in Nat,
               entries' = [entries EXCEPT ![ServiceOf[c]] =
                               [swIfIndex |-> i, count |-> n + 1]],
               meta' = [meta EXCEPT ![c] = i],
               loops' \in SUBSET Interfaces
        PROVE  TypeOK'
    <3>1. [swIfIndex |-> i, count |-> n + 1] \in LoopInfo
      BY DEF LoopInfo
    <3>2. QED
      BY <2>1, <2>2, <2>4, <3>1 DEF TypeOK
  <2>5. CASE /\ entries[ServiceOf[c]] # NoInfo
             /\ entries' = [entries EXCEPT ![ServiceOf[c]] =
                    [swIfIndex |-> entries[ServiceOf[c]].swIfIndex,
                     count |-> entries[ServiceOf[c]].count + 1]]
             /\ Store(c, entries[ServiceOf[c]].swIfIndex)
             /\ UNCHANGED loops
    BY <2>1, <2>4, <2>5 DEF TypeOK, LoopInfo, Store
  <2>6. CASE \E i \in Interfaces :
                /\ createLoopbackVPP(i)
                /\ entries' = [entries EXCEPT ![ServiceOf[c]] =
                       [swIfIndex |-> i, count |-> 0 + 1]]
                /\ Store(c, i)
    BY <2>4, <2>6 DEF TypeOK, Store, createLoopbackVPP
  <2>7. QED
    BY <1>2, <2>3, <2>5, <2>6 DEF Request, createLoopback
<1>3. ASSUME NEW c \in Conns, CreateFails(c) PROVE TypeOK'
  BY <1>3 DEF CreateFails, createLoopbackVPP, TypeOK
<1>4. ASSUME NEW c \in Conns, NextSucceeds(c) PROVE TypeOK'
  BY <1>4 DEF NextSucceeds, TypeOK, Steps
<1>5. ASSUME NEW c \in Conns, beginDel(c) PROVE TypeOK'
  BY <1>5 DEF beginDel, LoadAndDelete, Load, TypeOK, Steps
<1>6. ASSUME NEW c \in Conns, EndDel(c) PROVE TypeOK'
  <2>1. ServiceOf[c] \in Services
    BY ConnsAssumption
  <2>2. meta' = meta /\ forgotten' = forgotten /\ dropped' \in [Conns -> Interfaces \cup {NoIf}]
                     /\ pc' \in [Conns -> Steps] /\ panicked' \in BOOLEAN
    BY <1>6 DEF EndDel, del, TypeOK, Steps
  <2>3. loops' \in SUBSET Interfaces
    BY <1>6 DEF EndDel, del, delVPP, TypeOK
  <2>4. NoInfo \in LoopInfo
    BY DEF NoInfo, LoopInfo
  <2>5. entries[ServiceOf[c]].count > 1 =>
            [entries[ServiceOf[c]] EXCEPT !.count = @ - 1] \in LoopInfo
    BY <2>1 DEF TypeOK, LoopInfo
  <2>6. entries' \in [Services -> LoopInfo]
    BY <1>6, <2>4, <2>5 DEF EndDel, del, TypeOK
  <2>7. QED
    BY <2>2, <2>3, <2>6 DEF TypeOK
<1>7. ASSUME NEW c \in Conns, Forget(c) PROVE TypeOK'
  <2>1. ServiceOf[c] \in Services
    BY ConnsAssumption
  <2>2. forgotten' \in [Services -> Nat] /\ meta' \in [Conns -> Interfaces \cup {NoIf}]
    BY <1>7, <2>1 DEF Forget, TypeOK
  <2>3. QED
    BY <1>7, <2>2 DEF Forget, TypeOK
<1>8. QED
  BY <1>1, <1>2, <1>3, <1>4, <1>5, <1>6, <1>7
     DEF Next, ServerRequest, ClientRequest, ServerClose, ClientClose, NextFails, Close

(* Who is forgotten holds no loopback any more, and what it held stays     *)
(* counted.                                                                *)
LEMMA ForgetHolders ==
    ASSUME IInv, NEW c \in Conns, Forget(c)
    PROVE  /\ meta[c] = NoIf => UNCHANGED <<entries, loops>> /\ forgotten' = forgotten
                                /\ \A t \in Services : Holders(t)' = Holders(t)
           /\ meta[c] # NoIf =>
                 /\ c \in Holders(ServiceOf[c])
                 /\ Holders(ServiceOf[c])' = Holders(ServiceOf[c]) \ {c}
                 /\ forgotten'[ServiceOf[c]] = forgotten[ServiceOf[c]] + 1
                 /\ \A t \in Services \ {ServiceOf[c]} :
                       Holders(t)' = Holders(t) /\ forgotten'[t] = forgotten[t]
<1>1. /\ ServiceOf[c] \in Services /\ TypeOK
      /\ pc[c] = "ready" /\ UNCHANGED <<entries, loops, pc>>
      /\ forgotten \in [Services -> Nat]
      /\ forgotten' = [forgotten EXCEPT ![ServiceOf[c]] = @ + (IF meta[c] = NoIf THEN 0 ELSE 1)]
  BY ConnsAssumption DEF IInv, TypeOK, Forget, Load
<1>2. meta'[c] = NoIf /\ \A d \in Conns \ {c} : meta'[d] = meta[d]
  BY <1>1 DEF Forget, TypeOK
<1>3. CASE meta[c] = NoIf
  <2>1. \A t \in Services : Holders(t)' = Holders(t)
    BY <1>1, <1>2, <1>3 DEF Holders
  <2>2. forgotten' = forgotten
    BY <1>1, <1>3
  <2>3. QED
    BY <1>1, <1>3, <2>1, <2>2
<1>4. CASE meta[c] # NoIf
  <2>1. /\ c \in Holders(ServiceOf[c])
        /\ Holders(ServiceOf[c])' = Holders(ServiceOf[c]) \ {c}
        /\ \A t \in Services \ {ServiceOf[c]} : Holders(t)' = Holders(t)
    BY <1>1, <1>2, <1>4 DEF Holders
  <2>2. /\ forgotten'[ServiceOf[c]] = forgotten[ServiceOf[c]] + 1
        /\ \A t \in Services \ {ServiceOf[c]} : forgotten'[t] = forgotten[t]
    BY <1>1, <1>4
  <2>3. QED
    BY <1>4, <2>1, <2>2
<1>5. QED
  BY <1>3, <1>4

(* The metadata of c goes without its loopback being given back. *)
LEMMA ForgetIInv ==
    ASSUME IInv, TypeOK', NEW c \in Conns, Forget(c)
    PROVE  IInv'
<1>1. /\ ServiceOf[c] \in Services /\ TypeOK /\ NoIf \notin Interfaces
      /\ UNCHANGED <<entries, loops, pc, dropped, panicked>> /\ pc[c] = "ready"
  BY ConnsAssumption DEF IInv, Forget
<1>2. meta'[c] = NoIf /\ \A d \in Conns \ {c} : meta'[d] = meta[d]
  BY <1>1 DEF Forget, TypeOK
<1>3. RefCountExact'
  <2> SUFFICES ASSUME NEW t \in Services
               PROVE  entries'[t].count = Cardinality(Holders(t)') + forgotten'[t]
    BY DEF RefCountExact
  <2>1. entries'[t].count = Cardinality(Holders(t)) + forgotten[t]
    BY <1>1 DEF IInv, RefCountExact
  <2>2. CASE meta[c] # NoIf /\ t = ServiceOf[c]
    <3>1. Holders(t) \in SUBSET Conns
      BY DEF Holders
    <3>2. Cardinality(Holders(t)') = Cardinality(Holders(t)) - 1 /\ Cardinality(Holders(t)) \in Nat
      <4>1. c \in Holders(t) /\ Holders(t)' = Holders(t) \ {c}
        BY <1>1, <2>2, ForgetHolders
      <4>2. QED
        BY <3>1, <4>1, ConnsCard
    <3>3. forgotten'[t] = forgotten[t] + 1 /\ forgotten[t] \in Nat
      BY <1>1, <2>2, ForgetHolders DEF TypeOK
    <3>4. QED
      BY <2>1, <3>2, <3>3
  <2>3. CASE ~(meta[c] # NoIf /\ t = ServiceOf[c])
    BY <2>1, <2>3, ForgetHolders
  <2>4. QED
    BY <2>2, <2>3
<1>4. \A d \in Conns : HeldBy(d)' # NoIf => HeldBy(d)' = HeldBy(d)
  BY <1>1, <1>2 DEF HeldBy
<1>5. LoopbackInUseExists'
  BY <1>1, <1>4 DEF IInv, LoopbackInUseExists
<1>6. DelPending'
  BY <1>1, <1>2 DEF IInv, DelPending
<1>7. NoNilDeref' /\ EntryLive' /\ ServicesIsolated'
  BY <1>1 DEF IInv, NoNilDeref, EntryLive, ServicesIsolated
<1>8. QED
  BY <1>3, <1>5, <1>6, <1>7 DEF IInv

(* Every step of an element keeps the inductive invariant. *)
LEMMA NextIInv == IInv /\ [Next]_vars => IInv'
<1> SUFFICES ASSUME IInv, [Next]_vars PROVE IInv'
  OBVIOUS
<1>0. TypeOK /\ TypeOK'
  BY NextTypeOK DEF IInv
<1>1. CASE UNCHANGED vars
  BY <1>1 DEF vars, IInv, TypeOK, NoNilDeref, RefCountExact, EntryLive, DelPending,
              LoopbackInUseExists, ServicesIsolated, Holders, HeldBy
<1>2. ASSUME NEW c \in Conns, Request(c) PROVE IInv'
  <2>1. ServiceOf[c] \in Services /\ NoIf \notin Interfaces
    BY ConnsAssumption
  <2>2. /\ pc[c] = "ready" /\ pc' = [pc EXCEPT ![c] = "next"]
        /\ UNCHANGED <<dropped, panicked, forgotten>>
    BY <1>2 DEF Request
  <2>3. CASE UNCHANGED <<entries, meta, loops>>
    <3>1. \A d \in Conns : pc'[d] = "delete" <=> pc[d] = "delete"
      BY <1>0, <2>2 DEF TypeOK
    <3>2. \A t \in Services : Holders(t)' = Holders(t)
      BY <2>3, <3>1 DEF Holders
    <3>3. \A d \in Conns : HeldBy(d)' = HeldBy(d)
      BY <2>2, <2>3, <3>1 DEF HeldBy
    <3>4. RefCountExact' /\ LoopbackInUseExists' /\ DelPending'
      BY <2>2, <2>3, <3>1, <3>2, <3>3 DEF IInv, RefCountExact, LoopbackInUseExists, DelPending
    <3>5. NoNilDeref' /\ EntryLive' /\ ServicesIsolated'
      BY <2>2, <2>3 DEF IInv, NoNilDeref, EntryLive, ServicesIsolated
    <3>6. QED
      BY <1>0, <3>4, <3>5 DEF IInv
  <2>4. CASE /\ Load(c) = NoIf
             /\ entries[ServiceOf[c]] # NoInfo
             /\ entries' = [entries EXCEPT ![ServiceOf[c]] =
                    [swIfIndex |-> entries[ServiceOf[c]].swIfIndex,
                     count |-> entries[ServiceOf[c]].count + 1]]
             /\ Store(c, entries[ServiceOf[c]].swIfIndex)
             /\ UNCHANGED loops
    <3>1. entries[ServiceOf[c]].swIfIndex \in Interfaces
      BY <1>0, <2>1, <2>4 DEF IInv, EntryLive, TypeOK, LoopInfo, NoInfo
    <3>2. QED
      BY <1>0, <2>2, <2>4, <3>1, JoinIInv DEF Load, Store
  <2>5. CASE /\ Load(c) = NoIf
             /\ entries[ServiceOf[c]] = NoInfo
             /\ \E i \in Interfaces :
                   /\ createLoopbackVPP(i)
                   /\ entries' = [entries EXCEPT ![ServiceOf[c]] =
                          [swIfIndex |-> i, count |-> 0 + 1]]
                   /\ Store(c, i)
    <3>1. entries[ServiceOf[c]].count = 0
      BY <2>5 DEF NoInfo
    <3>2. QED
      BY <1>0, <2>2, <2>5, <3>1, JoinIInv DEF Load, Store, createLoopbackVPP
  <2>6. QED
    BY <1>2, <2>3, <2>4, <2>5 DEF Request, createLoopback
<1>3. ASSUME NEW c \in Conns, CreateFails(c) PROVE IInv'
  <2>1. loops \subseteq loops' /\ UNCHANGED <<entries, meta, pc, dropped, panicked, forgotten>>
    BY <1>3 DEF CreateFails, createLoopbackVPP
  <2>2. QED
    BY <1>0, <2>1 DEF IInv, NoNilDeref, RefCountExact, EntryLive, DelPending,
                      LoopbackInUseExists, ServicesIsolated, Holders, HeldBy
<1>4. ASSUME NEW c \in Conns, NextSucceeds(c) PROVE IInv'
  <2>1. /\ UNCHANGED <<entries, meta, loops, dropped, panicked, forgotten>>
        /\ \A d \in Conns : pc'[d] = "delete" <=> pc[d] = "delete"
    BY <1>0, <1>4 DEF NextSucceeds, TypeOK
  <2>2. \A t \in Services : Holders(t)' = Holders(t)
    BY <2>1 DEF Holders
  <2>3. \A d \in Conns : HeldBy(d)' = HeldBy(d)
    BY <2>1 DEF HeldBy
  <2>4. RefCountExact' /\ LoopbackInUseExists' /\ DelPending'
    BY <2>1, <2>2, <2>3 DEF IInv, RefCountExact, LoopbackInUseExists, DelPending
  <2>5. NoNilDeref' /\ EntryLive' /\ ServicesIsolated'
    BY <2>1 DEF IInv, NoNilDeref, EntryLive, ServicesIsolated
  <2>6. QED
    BY <1>0, <2>4, <2>5 DEF IInv
<1>5. ASSUME NEW c \in Conns, NextFails(c) \/ Close(c) PROVE IInv'
  BY <1>0, <1>5, BeginDelIInv DEF NextFails, Close
<1>6. ASSUME NEW c \in Conns, EndDel(c) PROVE IInv'
  BY <1>0, <1>6, EndDelIInv
<1>7. ASSUME NEW c \in Conns, Forget(c) PROVE IInv'
  BY <1>0, <1>7, ForgetIInv
<1>8. QED
  BY <1>1, <1>2, <1>3, <1>4, <1>5, <1>6, <1>7
     DEF Next, ServerRequest, ClientRequest, ServerClose, ClientClose

(* The inductive invariant holds in every reachable state. *)
THEOREM Invariance == Spec => []IInv
BY InitIInv, NextIInv, PTL DEF Spec

(* However requests, refreshes, failures and closes of any number of       *)
(* connections interleave, the state is well formed (option.go: the Map    *)
(* and its loopInfo), the count of a loopback is the number of connections *)
(* that still hold it, del never dereferences a missing entry, no one's    *)
(* close deletes a loopback that another connection uses, and no two       *)
(* services share one.                                                     *)
THEOREM LoopbackSafe ==
    Spec => [](TypeOK /\ SharedSafely)
<1>1. IInv => TypeOK /\ SharedSafely
  BY DEF IInv, SharedSafely
<1>2. QED
  BY <1>1, Invariance, PTL
-----------------------------------------------------------------------------
(* Loopback implements SharedResource *)

(* An empty map is a shared resource without users. *)
LEMMA InitRefines == Init => SR!Init
BY DEF Init, SR!Init, Holders, NewMap, NoInfo

(* The step in which c takes part in the loopback i of its service is a    *)
(* Share, or a Create when it is the first.                                *)
LEMMA JoinRefines ==
    ASSUME IInv, NEW c \in Conns, NEW i \in Interfaces,
           pc[c] = "ready", meta[c] = NoIf,
           \/ /\ entries[ServiceOf[c]] # NoInfo
              /\ i = entries[ServiceOf[c]].swIfIndex
              /\ loops' = loops
           \/ /\ entries[ServiceOf[c]] = NoInfo
              /\ i \notin loops
              /\ loops' = loops \cup {i},
           entries' = [entries EXCEPT ![ServiceOf[c]] =
               [swIfIndex |-> i, count |-> entries[ServiceOf[c]].count + 1]],
           meta' = [meta EXCEPT ![c] = i],
           pc' = [pc EXCEPT ![c] = "next"],
           forgotten' = forgotten
    PROVE  SR!Next
<1> DEFINE s == ServiceOf[c]
           users == [t \in Services |-> Holders(t)]
           res == [t \in Services |-> entries[t].swIfIndex]
           kept == {t \in Services : forgotten[t] > 0}
<1>1. s \in Services /\ NoIf \notin Interfaces /\ TypeOK
  BY ConnsAssumption DEF IInv
<1>2. \A d \in Conns : /\ meta'[d] = IF d = c THEN i ELSE meta[d]
                       /\ pc'[d] = IF d = c THEN "next" ELSE pc[d]
  BY <1>1 DEF TypeOK
<1>3. Holders(s)' = Holders(s) \cup {c} /\ c \notin Holders(s)
  BY <1>1, <1>2 DEF Holders
<1>4. \A t \in Services \ {s} : Holders(t)' = Holders(t)
  BY <1>2 DEF Holders
<1>5. users' = [users EXCEPT ![s] = @ \cup {c}]
  BY <1>3, <1>4
<1>6. res' = [res EXCEPT ![s] = i]
  BY <1>1 DEF TypeOK
<1>7. Holders(s) = {} /\ s \notin kept <=> entries[s] = NoInfo
  <2>1. Holders(s) \in SUBSET Conns
    BY DEF Holders
  <2>2. Holders(s) = {} /\ s \notin kept <=> entries[s].count = 0
    <3>1. /\ Cardinality(Holders(s)) \in Nat /\ forgotten[s] \in Nat
          /\ entries[s].count = Cardinality(Holders(s)) + forgotten[s]
      BY <1>1, <2>1, ConnsCard DEF IInv, RefCountExact, TypeOK
    <3>2. Holders(s) = {} <=> Cardinality(Holders(s)) = 0
      BY <2>1, ConnsCard
    <3>3. QED
      BY <1>1, <3>1, <3>2
  <2>3. QED
    BY <1>1, <2>2 DEF IInv, EntryLive, TypeOK, LoopInfo, NoInfo
<1>8. CASE entries[s] = NoInfo
  <2>1. Holders(s) = {} /\ s \notin kept /\ users' = [users EXCEPT ![s] = {c}]
    BY <1>1, <1>5, <1>7, <1>8
  <2>2. SR!Create(s, c)
    BY <1>1, <1>6, <1>8, <2>1 DEF SR!Create
  <2>3. QED
    BY <1>1, <2>2 DEF SR!Next
<1>9. CASE entries[s] # NoInfo
  <2>1. res' = res
    BY <1>1, <1>6, <1>9
  <2>2. SR!Share(s, c)
    BY <1>1, <1>3, <1>5, <1>7, <1>9, <2>1 DEF SR!Share
  <2>3. QED
    BY <1>1, <2>2 DEF SR!Next
<1>10. QED
  BY <1>8, <1>9

(* Who is forgotten with a loopback abandons it. *)
LEMMA ForgetRefines ==
    ASSUME IInv, NEW c \in Conns, Forget(c)
    PROVE  [SR!Next]_(SR!vars)
<1> DEFINE s == ServiceOf[c]
           users == [t \in Services |-> Holders(t)]
           kept == {t \in Services : forgotten[t] > 0}
<1>1. s \in Services /\ TypeOK /\ UNCHANGED <<entries, loops>>
  BY ConnsAssumption DEF IInv, Forget
<1>2. CASE meta[c] = NoIf
  BY <1>1, <1>2, ForgetHolders DEF SR!vars
<1>3. CASE meta[c] # NoIf
  <2>1. /\ c \in Holders(s) /\ Holders(s)' = Holders(s) \ {c}
        /\ forgotten'[s] = forgotten[s] + 1
        /\ \A t \in Services \ {s} : Holders(t)' = Holders(t) /\ forgotten'[t] = forgotten[t]
    BY <1>3, ForgetHolders
  <2>2. users' = [users EXCEPT ![s] = @ \ {c}]
    BY <2>1
  <2>3. kept' = kept \cup {s}
    <3>1. s \in kept'
      BY <1>1, <2>1 DEF TypeOK
    <3>2. \A t \in Services \ {s} : t \in kept' <=> t \in kept
      BY <2>1
    <3>3. QED
      BY <1>1, <3>1, <3>2
  <2>4. SR!Abandon(s, c)
    BY <1>1, <2>1, <2>2, <2>3 DEF SR!Abandon
  <2>5. QED
    BY <1>1, <2>4 DEF SR!Next
<1>4. QED
  BY <1>2, <1>3

(* The executor's part of del is a Leave, or a Destroy by the last user. *)
LEMMA EndDelRefines ==
    ASSUME IInv, NEW c \in Conns, EndDel(c)
    PROVE  SR!Next
<1> DEFINE s == ServiceOf[c]
           users == [t \in Services |-> Holders(t)]
           res == [t \in Services |-> entries[t].swIfIndex]
           kept == {t \in Services : forgotten[t] > 0}
<1>1. s \in Services /\ TypeOK /\ (EndDel(c) => forgotten' = forgotten)
  BY ConnsAssumption DEF IInv, EndDel
<1>2. /\ entries[s].count > 0 /\ entries[s].count \in Nat
      /\ dropped[c] = entries[s].swIfIndex
      /\ c \in Holders(s)
  BY <1>1, DelFindsEntry DEF EndDel, TypeOK, LoopInfo
<1>3. \A d \in Conns : meta'[d] = meta[d] /\ pc'[d] = IF d = c THEN "ready" ELSE pc[d]
  BY <1>1 DEF EndDel, TypeOK
<1>4. meta[c] = NoIf
  BY DEF IInv, DelPending, EndDel
<1>5. Holders(s)' = Holders(s) \ {c} /\ \A t \in Services \ {s} : Holders(t)' = Holders(t)
  BY <1>3, <1>4 DEF Holders
<1>6. users' = [users EXCEPT ![s] = @ \ {c}]
  BY <1>5
<1>7. /\ Holders(s) \in SUBSET Conns /\ forgotten[s] \in Nat
      /\ entries[s].count = Cardinality(Holders(s)) + forgotten[s]
  BY <1>1 DEF Holders, IInv, RefCountExact, TypeOK
<1>8. Holders(s) = {c} /\ s \notin kept <=> entries[s].count = 1
  <2>1. Holders(s) \ {c} = {} <=> Cardinality(Holders(s) \ {c}) = 0
    BY <1>7, ConnsCard
  <2>2. /\ Cardinality(Holders(s) \ {c}) = Cardinality(Holders(s)) - 1
        /\ Cardinality(Holders(s)) \in Nat /\ Cardinality(Holders(s) \ {c}) \in Nat
    BY <1>2, <1>7, ConnsCard
  <2>3. s \in kept <=> forgotten[s] # 0
    BY <1>1, <1>7
  <2>4. Holders(s) = {c} <=> Holders(s) \ {c} = {}
    BY <1>2
  <2>5. QED
    BY <1>7, <2>1, <2>2, <2>3, <2>4
<1>9. CASE entries[s].count = 1
  <2>1. entries' = [entries EXCEPT ![s] = NoInfo] /\ loops' \in {loops, loops \ {res[s]}}
    BY <1>1, <1>2, <1>9 DEF EndDel, del, delVPP
  <2>2. res' = [res EXCEPT ![s] = NoIf]
    BY <1>1, <2>1 DEF NoInfo, TypeOK
  <2>3. users' = [users EXCEPT ![s] = {}]
    BY <1>1, <1>6, <1>8, <1>9
  <2>4. SR!Destroy(s, c)
    BY <1>1, <1>8, <1>9, <2>1, <2>2, <2>3 DEF SR!Destroy
  <2>5. QED
    BY <1>1, <2>4 DEF SR!Next
<1>10. CASE entries[s].count > 1
  <2>1. /\ \A t \in Services : entries'[t].swIfIndex = entries[t].swIfIndex
        /\ loops' = loops
    BY <1>1, <1>10 DEF EndDel, del, TypeOK, LoopInfo
  <2>2. res' = res
    BY <2>1
  <2>3. SR!Leave(s, c)
    BY <1>1, <1>2, <1>6, <1>8, <1>10, <2>1, <2>2 DEF SR!Leave
  <2>4. QED
    BY <1>1, <2>3 DEF SR!Next
<1>11. QED
  BY <1>2, <1>9, <1>10

(* Every step of an element is a step of the shared resource or none. *)
LEMMA NextRefines == IInv /\ [Next]_vars => [SR!Next]_(SR!vars)
<1> SUFFICES ASSUME IInv, [Next]_vars PROVE [SR!Next]_(SR!vars)
  OBVIOUS
<1>0. TypeOK
  BY DEF IInv
<1>1. ASSUME /\ UNCHANGED <<entries, loops, forgotten>>
             /\ \A t \in Services : Holders(t)' = Holders(t)
      PROVE  UNCHANGED SR!vars
  BY <1>1 DEF SR!vars
<1>2. ASSUME UNCHANGED <<entries, loops, meta, forgotten>>,
             \A d \in Conns : pc'[d] = "delete" <=> pc[d] = "delete"
      PROVE  UNCHANGED SR!vars
  <2>1. \A t \in Services : Holders(t)' = Holders(t)
    BY <1>2 DEF Holders
  <2>2. QED
    BY <1>1, <1>2, <2>1
<1>3. CASE UNCHANGED vars
  BY <1>2, <1>3 DEF vars
<1>4. ASSUME NEW c \in Conns, Request(c) PROVE [SR!Next]_(SR!vars)
  <2>1. ServiceOf[c] \in Services
    BY ConnsAssumption
  <2>2. pc[c] = "ready" /\ pc' = [pc EXCEPT ![c] = "next"] /\ forgotten' = forgotten
    BY <1>4 DEF Request
  <2>3. CASE UNCHANGED <<entries, meta, loops>>
    <3>1. \A d \in Conns : pc'[d] = "delete" <=> pc[d] = "delete"
      BY <1>0, <2>2 DEF TypeOK
    <3>2. QED
      BY <1>2, <2>2, <2>3, <3>1
  <2>4. CASE /\ Load(c) = NoIf
             /\ entries[ServiceOf[c]] # NoInfo
             /\ entries' = [entries EXCEPT ![ServiceOf[c]] =
                    [swIfIndex |-> entries[ServiceOf[c]].swIfIndex,
                     count |-> entries[ServiceOf[c]].count + 1]]
             /\ Store(c, entries[ServiceOf[c]].swIfIndex)
             /\ UNCHANGED loops
    <3>1. entries[ServiceOf[c]].swIfIndex \in Interfaces
      BY <1>0, <2>1, <2>4 DEF IInv, EntryLive, TypeOK, LoopInfo, NoInfo
    <3>2. QED
      BY <2>2, <2>4, <3>1, JoinRefines DEF Load, Store
  <2>5. CASE /\ Load(c) = NoIf
             /\ entries[ServiceOf[c]] = NoInfo
             /\ \E i \in Interfaces :
                   /\ createLoopbackVPP(i)
                   /\ entries' = [entries EXCEPT ![ServiceOf[c]] =
                          [swIfIndex |-> i, count |-> 0 + 1]]
                   /\ Store(c, i)
    <3>1. entries[ServiceOf[c]].count = 0
      BY <2>5 DEF NoInfo
    <3>2. QED
      BY <2>2, <2>5, <3>1, JoinRefines DEF Load, Store, createLoopbackVPP
  <2>6. QED
    BY <1>4, <2>3, <2>4, <2>5 DEF Request, createLoopback
<1>5. ASSUME NEW c \in Conns, CreateFails(c) PROVE [SR!Next]_(SR!vars)
  <2>1. UNCHANGED <<entries, meta, pc, forgotten>> /\ \E i \in Interfaces \ loops : loops' = loops \cup {i}
    BY <1>5 DEF CreateFails, createLoopbackVPP
  <2>2. SR!Orphan
    BY <2>1 DEF SR!Orphan, Holders
  <2>3. QED
    BY <2>2 DEF SR!Next
<1>6. ASSUME NEW c \in Conns, NextSucceeds(c) PROVE [SR!Next]_(SR!vars)
  <2>1. /\ UNCHANGED <<entries, meta, loops, forgotten>>
        /\ \A d \in Conns : pc'[d] = "delete" <=> pc[d] = "delete"
    BY <1>0, <1>6 DEF NextSucceeds, TypeOK
  <2>2. QED
    BY <1>2, <2>1
<1>7. ASSUME NEW c \in Conns, NextFails(c) \/ Close(c) PROVE [SR!Next]_(SR!vars)
  <2>1. /\ UNCHANGED <<entries, loops, forgotten>>
        /\ \A t \in Services : Holders(t)' = Holders(t)
    BY <1>0, <1>7 DEF NextFails, Close, beginDel, LoadAndDelete, Load, TypeOK, Holders
  <2>2. QED
    BY <1>1, <2>1
<1>8. ASSUME NEW c \in Conns, EndDel(c) PROVE [SR!Next]_(SR!vars)
  BY <1>8, EndDelRefines
<1>9. ASSUME NEW c \in Conns, Forget(c) PROVE [SR!Next]_(SR!vars)
  BY <1>9, ForgetRefines
<1>10. QED
  BY <1>3, <1>4, <1>5, <1>6, <1>7, <1>8, <1>9
     DEF Next, ServerRequest, ClientRequest, ServerClose, ClientClose

(* The loopback elements implement a shared resource: one loopback per     *)
(* service, created for its first connection, given up with its last,      *)
(* unless it is kept for one that was forgotten.                           *)
THEOREM LoopbackRefines == Spec => ImplementsSharedResource
BY InitRefines, NextRefines, Invariance, PTL DEF Spec, ImplementsSharedResource, SR!Spec

-----------------------------------------------------------------------------
(* The chain of an endpoint *)

(* A step of a handler is a step of the loopback element, which is called, *)
(* returned to or gives the loopback back, or does not touch its state.    *)
LEMMA HandleIsLoopbackStep ==
    ASSUME NEW c \in Conns, ~panicked, Handle(c)
    PROVE  [Next]_vars
<1> DEFINE Element == \/ Request(c) \/ CreateFails(c) \/ NextSucceeds(c) \/ NextFails(c)
                      \/ Close(c) \/ EndDel(c) \/ Forget(c)
<1>1. ASSUME Element PROVE Next
  BY <1>1 DEF Next, ServerRequest, ClientRequest, ServerClose, ClientClose, Conns
<1>2. CASE BeginRequest(c) \/ Release(c) \/ CloseBehind(c) \/ CloseLoopback(c)
  <2>1. Element
    BY <1>2 DEF BeginRequest, Release, CloseBehind, CloseLoopback, Give
  <2>2. QED
    BY <2>1, <1>1
<1>3. CASE MechanismFails(c) \/ aclServer(c)
  <2>1. Element \/ UNCHANGED vars
    BY <1>3 DEF MechanismFails, aclServer, AclSkip, addACLToACLList, SetACLList, AclFails,
               AclClose, AclDone
  <2>2. QED
    BY <2>1, <1>1
<1>4. CASE \/ Mechanism(c) \/ BeginClose(c) \/ MechanismClose(c)
           \/ unnumberedServer(c) \/ unnumberedClient(c)
  BY <1>4 DEF Mechanism, BeginClose, MechanismClose, unnumberedServer, unnumberedClient,
              UnnumberedAdd
<1>5. CASE \/ ipaddressServer(c) \/ ipaddressClient(c)
           \/ routesServer(c) \/ routesClient(c)
  <2>1. Element \/ UNCHANGED vars
    BY <1>5 DEF ipaddressServer, ipaddressClient, ipaddress, DumpIps, AddAddress,
                routesServer, routesClient, RouteAdd, RouteDel, RouteDelFails
  <2>2. QED
    BY <2>1, <1>1
<1>6. QED
  BY <1>2, <1>3, <1>4, <1>5 DEF Handle

(* The chain of an endpoint, with its failures, runs the loopback elements *)
(* as Loopback specifies them.                                             *)
THEOREM EndpointRunsLoopback == EndpointSpec => Spec
<1>1. EndpointInit => Init
  BY DEF EndpointInit
<1>2. EndpointInit => env \in Envs
  BY DEF EndpointInit
<1>3. env \in Envs /\ [EndpointNext]_endpointVars => (env \in Envs)'
  BY DEF EndpointNext, endpointVars
<1>4. env \in Envs /\ [EndpointNext]_endpointVars => [Next]_vars
  <2> SUFFICES ASSUME env \in Envs, [EndpointNext]_endpointVars PROVE [Next]_vars
    OBVIOUS
  <2>1. CASE UNCHANGED endpointVars
    BY <2>1 DEF endpointVars
  <2>2. CASE EndpointNext
    <3>1. PICK c \in env.conns : ~panicked /\ Handle(c)
      BY <2>2 DEF EndpointNext
    <3>2. c \in Conns
      BY EndpointAssumption
    <3>3. QED
      BY <3>1, <3>2, HandleIsLoopbackStep
  <2>3. QED
    BY <2>1, <2>2
<1>5. QED
  BY <1>1, <1>2, <1>3, <1>4, PTL DEF EndpointSpec, Spec

(* Whatever fails in the chain, the count of a loopback is exact, no nil   *)
(* entry is read, no loopback in use is deleted, and no two services share *)
(* one.                                                                    *)
THEOREM EndpointSharedSafely == EndpointSpec => []SharedSafely
BY EndpointRunsLoopback, LoopbackSafe, PTL

(* Inside the chain the loopback elements still implement a shared         *)
(* resource: whoever is behind or in front only chooses when they run.     *)
THEOREM EndpointRefines == EndpointSpec => ImplementsSharedResource
BY EndpointRunsLoopback, LoopbackRefines

-----------------------------------------------------------------------------
(* What holds of a connection whatever fails *)

(* A sequence is empty exactly if it has no length. *)
LEMMA EmptyLen ==
    ASSUME NEW S, NEW l \in Seq(S)
    PROVE  Len(l) \in Nat /\ (l = <<>> <=> Len(l) = 0)
OBVIOUS

(* The steps on the way back above the loopback. *)
AboveLoopback == {"unnumbered", "dump", "add", "routes"}

(* Where the handler of c is in the chain tells where it is in the         *)
(* loopback element, and that c has a loopback on its way back.            *)
StepPc(c) ==
    /\ step[c] \in {"mechanism", "acl"} => pc[c] = "next" /\ meta[c] # NoIf
    /\ step[c] \in AboveLoopback => pc[c] = "ready" /\ meta[c] # NoIf
    /\ step[c] \in {"release", "del"} => pc[c] = "delete"
    /\ step[c] \in {"idle", "unroute", "close", "acldel", "mechanismdel"} => pc[c] = "ready"

(* The interface of c exists, and is nobody else's; above the mechanism    *)
(* there is one.                                                           *)
PortOwned(c) ==
    /\ ifindex[c] # NoIf => ifindex[c] \in ports /\ \A d \in Conns \ {c} : ifindex[d] # ifindex[c]
    /\ step[c] \in AboveLoopback \cup {"acl"} => ifindex[c] # NoIf

(* ACLs are made inside of create, and handlers run in the environment.    *)
Making(c) ==
    /\ made[c] # <<>> => step[c] = "acl" /\ ~Loaded(c)
    /\ c \in known \/ step[c] # "idle" => c \in env.conns

(* The lists of VPP have ACLs that exist, two at the most. *)
ListsExist == \A p \in Ports : /\ Len(lists[p]) <= 2
                               /\ \A k \in 1..Len(lists[p]) : lists[p][k] \notin Free

BaseInv == /\ IInv /\ EndpointTypeOK /\ ListsExist
           /\ \A c \in Conns : StepPc(c) /\ PortOwned(c) /\ Making(c)

-----------------------------------------------------------------------------
(* What holds of a connection if no refresh fails below the loopback *)

(* Without an interface, or before a request of a new connection has come  *)
(* to them, unnumbered and acl do not remember c: acl does only if its     *)
(* ACLs have outlived an earlier interface.                                *)
Forgotten(c) ==
    /\ \/ step[c] \in {"release", "mechanismdel"}
       \/ c \notin known /\ step[c] \in {"idle", "mechanism", "acl"}
       => c \notin unnumbered /\ (c \in outlived \/ aclIndices[c] = <<>>)
    /\ step[c] \in {"del", "acldel"} => c \notin unnumbered

(* What unnumbered remembers is so in VPP, and its acl was done before. *)
Borrowing(c) ==
    /\ c \in unnumbered => /\ ifindex[c] # NoIf /\ meta[c] # NoIf
                           /\ borrows[ifindex[c]] = meta[c]
                           /\ Loaded(c)
    /\ step[c] \in AboveLoopback => Loaded(c)
    /\ step[c] \in {"dump", "add", "routes"} => c \in unnumbered
    /\ step[c] = "routes" => meta[c] \in addressed

(* What acl remembers is the list of the interface. *)
Listed(c) == aclIndices[c] # <<>> /\ c \notin outlived =>
    /\ ifindex[c] # NoIf
    /\ lists[ifindex[c]] = aclIndices[c] /\ Len(aclIndices[c]) = 2

(* Nobody but c gives the indices of its ACLs away when it is alone. *)
DirectionsOf(l) == /\ Len(l) >= 1 => acls[l[1]] = "ingress"
                   /\ Len(l) >= 2 => acls[l[2]] = "egress"

Directed(c) == Cardinality(env.conns) = 1 /\ c \in env.conns =>
    DirectionsOf(made[c]) /\ DirectionsOf(aclIndices[c])

Granted(c) == c \in granted =>
    /\ step[c] = "idle" /\ c \in unnumbered
    /\ meta[c] \in addressed /\ route[c] = ifindex[c]

ConnInv(c) == Forgotten(c) /\ Borrowing(c) /\ Listed(c) /\ Directed(c) /\ Granted(c)

KeptInv == ~Faulty("refresh") => \A c \in Conns : ConnInv(c)

-----------------------------------------------------------------------------
(* What a handler leaves alone *)

(* The steps of a handler, one by one. *)
LEMMA HandleCases ==
    ASSUME NEW c \in Conns, Handle(c)
    PROVE  \/ BeginRequest(c) \/ BeginClose(c) \/ Mechanism(c) \/ MechanismFails(c)
           \/ AclSkip(c) \/ addACLToACLList(c) \/ SetACLList(c) \/ AclFails(c) \/ AclClose(c)
           \/ UnnumberedAdd(c) \/ DumpIps(c) \/ AddAddress(c) \/ RouteAdd(c) \/ RouteDel(c)
           \/ RouteDelFails(c) \/ Release(c) \/ CloseBehind(c) \/ CloseLoopback(c) \/ MechanismClose(c)
BY DEF Handle, aclServer, unnumberedServer, unnumberedClient, ipaddressServer, ipaddressClient,
       ipaddress, routesServer, routesClient

(* The loopback element handles its own connection. *)
LEMMA LoopbackOthers ==
    ASSUME TypeOK, NEW c \in Conns,
           \/ Request(c) \/ CreateFails(c) \/ NextSucceeds(c) \/ NextFails(c)
           \/ Close(c) \/ EndDel(c) \/ Forget(c) \/ UNCHANGED vars
    PROVE  \A d \in Conns \ {c} : meta'[d] = meta[d] /\ pc'[d] = pc[d]
<1>1. \A d \in Conns \ {c} : meta'[d] = meta[d]
  BY DEF TypeOK, Request, CreateFails, NextSucceeds, NextFails, Close, EndDel, Forget, beginDel,
         LoadAndDelete, createLoopback, Store, vars
<1>2. \A d \in Conns \ {c} : pc'[d] = pc[d]
  BY DEF TypeOK, Request, CreateFails, NextSucceeds, NextFails, Close, EndDel, Forget, beginDel, vars
<1>3. QED
  BY <1>1, <1>2

(* What a handler of another connection does not touch of d. *)
Untouched(d) ==
    /\ step'[d] = step[d] /\ ifindex'[d] = ifindex[d] /\ meta'[d] = meta[d] /\ pc'[d] = pc[d]
    /\ aclIndices'[d] = aclIndices[d] /\ made'[d] = made[d] /\ route'[d] = route[d]
    /\ d \in known' <=> d \in known
    /\ d \in granted' <=> d \in granted
    /\ d \in unnumbered' <=> d \in unnumbered
    /\ d \in outlived' <=> d \in outlived

(* A handler leaves the other connections alone. *)
LEMMA OthersUntouched ==
    ASSUME EndpointTypeOK, NEW c \in Conns, ~panicked, Handle(c), NEW d \in Conns \ {c}
    PROVE  Untouched(d)
<1>1. TypeOK /\ DOMAIN step = Conns /\ DOMAIN ifindex = Conns /\ DOMAIN aclIndices = Conns
      /\ DOMAIN made = Conns /\ DOMAIN route = Conns
  BY DEF EndpointTypeOK
<1>2. meta'[d] = meta[d] /\ pc'[d] = pc[d]
  <2>1. \/ Request(c) \/ CreateFails(c) \/ NextSucceeds(c) \/ NextFails(c)
        \/ Close(c) \/ EndDel(c) \/ Forget(c) \/ UNCHANGED vars
    BY HandleCases DEF BeginRequest, BeginClose, Mechanism, MechanismFails, AclSkip, AclDone,
       addACLToACLList, SetACLList, AclFails, AclClose, UnnumberedAdd, DumpIps, AddAddress,
       RouteAdd, RouteDel, RouteDelFails, Release, CloseBehind, CloseLoopback, MechanismClose, Give
  <2>2. QED
    BY <1>1, <2>1, LoopbackOthers
<1>3. CASE BeginRequest(c) \/ BeginClose(c) \/ Release(c) \/ CloseBehind(c) \/ CloseLoopback(c)
  BY <1>1, <1>2, <1>3 DEF Untouched, BeginRequest, BeginClose, Release, CloseBehind, CloseLoopback,
     UnnumberedClose, Drop, Goto, metadataVars, aclVars, ipVars
<1>4. CASE Mechanism(c) \/ MechanismFails(c) \/ MechanismClose(c)
  BY <1>1, <1>2, <1>4 DEF Untouched, Mechanism, MechanismFails, MechanismClose, CreatePort,
     RemovePort, Goto, metadataVars, aclVars, ipVars
<1>5. CASE AclSkip(c) \/ addACLToACLList(c) \/ SetACLList(c) \/ AclFails(c) \/ AclClose(c)
  BY <1>1, <1>2, <1>5 DEF Untouched, AclSkip, addACLToACLList, SetACLList, AclFails, AclClose,
     AclDone, RemovePort, Goto, metadataVars, aclVars, ipVars
<1>6. CASE UnnumberedAdd(c) \/ DumpIps(c) \/ AddAddress(c) \/ RouteAdd(c) \/ RouteDel(c) \/ RouteDelFails(c)
  BY <1>1, <1>2, <1>6 DEF Untouched, UnnumberedAdd, DumpIps, AddAddress, RouteAdd, RouteDel, RouteDelFails,
     Drop, Goto, metadataVars, aclVars, ipVars
<1>7. QED
  BY <1>3, <1>4, <1>5, <1>6, HandleCases

(* A handler changes the settings of its own interface, if of any. *)
LEMMA OwnPortOnly ==
    ASSUME EndpointTypeOK, NEW c \in Conns, Handle(c), NEW p \in Ports, p # ifindex[c]
    PROVE  borrows'[p] = borrows[p] /\ lists'[p] = lists[p]
<1>1. DOMAIN borrows = Ports /\ DOMAIN lists = Ports
  BY DEF EndpointTypeOK
<1>2. CASE BeginRequest(c) \/ BeginClose(c) \/ Release(c) \/ CloseBehind(c) \/ CloseLoopback(c)
  BY <1>1, <1>2 DEF BeginRequest, BeginClose, Release, CloseBehind, CloseLoopback, aclVars, ipVars
<1>3. CASE Mechanism(c) \/ MechanismFails(c) \/ MechanismClose(c)
  BY <1>1, <1>3 DEF Mechanism, MechanismFails, MechanismClose, RemovePort, aclVars, ipVars
<1>4. CASE AclSkip(c) \/ addACLToACLList(c) \/ SetACLList(c) \/ AclFails(c) \/ AclClose(c)
  BY <1>1, <1>4 DEF AclSkip, addACLToACLList, SetACLList, AclFails, AclClose, RemovePort, aclVars, ipVars
<1>5. CASE UnnumberedAdd(c) \/ DumpIps(c) \/ AddAddress(c) \/ RouteAdd(c) \/ RouteDel(c) \/ RouteDelFails(c)
  BY <1>1, <1>5 DEF UnnumberedAdd, DumpIps, AddAddress, RouteAdd, RouteDel, RouteDelFails, aclVars, ipVars
<1>6. QED
  BY <1>2, <1>3, <1>4, <1>5, HandleCases

-----------------------------------------------------------------------------
(* The invariant of all environments *)

(* What Request and its undoing do to the loopbacks of VPP. *)
LEMMA AddressedExist ==
    ASSUME BaseInv, IInv', NEW c \in Conns, ~panicked, Handle(c)
    PROVE  addressed' \subseteq loops'
<1>1. addressed \subseteq loops
  BY DEF BaseInv, EndpointTypeOK
<1>2. CASE AddAddress(c)
  <2>1. meta[c] \in loops
    BY <1>2 DEF AddAddress, BaseInv, StepPc, AboveLoopback, IInv, LoopbackInUseExists, HeldBy
  <2>2. UNCHANGED loops /\ addressed' \subseteq addressed \cup {meta[c]}
    BY <1>2 DEF AddAddress, vars, Load
  <2>3. QED
    BY <1>1, <2>1, <2>2
<1>3. CASE Release(c) \/ CloseLoopback(c)
  BY <1>3 DEF Release, CloseLoopback, Give
<1>4. CASE BeginRequest(c)
  <2>1. loops \subseteq loops' /\ UNCHANGED addressed
    BY <1>4 DEF BeginRequest, Request, CreateFails, createLoopback, createLoopbackVPP, ipVars
  <2>2. QED
    BY <1>1, <2>1
<1>5. CASE ~(AddAddress(c) \/ Release(c) \/ CloseLoopback(c) \/ BeginRequest(c))
  <2>1. UNCHANGED <<addressed, loops>>
    BY <1>5, HandleCases DEF BeginClose, Mechanism, MechanismFails, AclSkip, addACLToACLList,
       SetACLList, AclFails, AclClose, UnnumberedAdd, DumpIps, RouteAdd, RouteDel, RouteDelFails, Forget, CloseBehind,
       MechanismClose, AclDone, NextSucceeds, NextFails, Close, beginDel, vars, ipVars
  <2>2. QED
    BY <1>1, <2>1
<1>6. QED
  BY <1>2, <1>3, <1>4, <1>5

(* Who is known, and what is in the metadata. *)
LEMMA MetadataType ==
    ASSUME EndpointTypeOK, NEW c \in Conns, Handle(c)
    PROVE  /\ step' \in [Conns -> {"idle"} \cup UpSteps \cup DownSteps]
           /\ granted' \subseteq known' /\ known' \subseteq Conns
           /\ ifindex' \in [Conns -> Ports \cup {NoIf}] /\ ports' \subseteq Ports
           /\ unnumbered' \subseteq Conns
           /\ route' \in [Conns -> Ports \cup {NoIf}]
<1>1. /\ step \in [Conns -> {"idle"} \cup UpSteps \cup DownSteps]
      /\ granted \subseteq known /\ known \subseteq Conns
      /\ ifindex \in [Conns -> Ports \cup {NoIf}] /\ ports \subseteq Ports
      /\ unnumbered \subseteq Conns
      /\ route \in [Conns -> Ports \cup {NoIf}]
  BY DEF EndpointTypeOK
<1>2. step' \in [Conns -> {"idle"} \cup UpSteps \cup DownSteps]
  BY <1>1, HandleCases DEF UpSteps, DownSteps, Goto, AclDone, BeginRequest, BeginClose, Mechanism, MechanismFails, AclSkip, addACLToACLList,
       SetACLList, AclFails, AclClose, UnnumberedAdd, DumpIps, AddAddress, RouteAdd, RouteDel, RouteDelFails,
       Release, CloseBehind, CloseLoopback, MechanismClose
<1>3. granted' \subseteq known' /\ known' \subseteq Conns
  BY <1>1, HandleCases DEF BeginRequest, BeginClose, Mechanism, MechanismFails, AclSkip, addACLToACLList,
       SetACLList, AclFails, AclClose, UnnumberedAdd, DumpIps, AddAddress, RouteAdd, RouteDel, RouteDelFails,
       Release, CloseBehind, CloseLoopback, MechanismClose
<1>4. ifindex' \in [Conns -> Ports \cup {NoIf}] /\ ports' \subseteq Ports
  BY <1>1, HandleCases DEF metadataVars, CreatePort, RemovePort, Drop, BeginRequest, BeginClose, Mechanism, MechanismFails, AclSkip, addACLToACLList,
       SetACLList, AclFails, AclClose, UnnumberedAdd, DumpIps, AddAddress, RouteAdd, RouteDel, RouteDelFails,
       Release, CloseBehind, CloseLoopback, MechanismClose
<1>5. unnumbered' \subseteq Conns
  BY <1>1, HandleCases DEF metadataVars, Drop, UnnumberedClose, BeginRequest, BeginClose, Mechanism, MechanismFails, AclSkip, addACLToACLList,
       SetACLList, AclFails, AclClose, UnnumberedAdd, DumpIps, AddAddress, RouteAdd, RouteDel, RouteDelFails,
       Release, CloseBehind, CloseLoopback, MechanismClose
<1>6. route' \in [Conns -> Ports \cup {NoIf}]
  BY <1>1, HandleCases DEF ipVars, BeginRequest, BeginClose, Mechanism, MechanismFails, AclSkip, addACLToACLList,
       SetACLList, AclFails, AclClose, UnnumberedAdd, DumpIps, AddAddress, RouteAdd, RouteDel, RouteDelFails,
       Release, CloseBehind, CloseLoopback, MechanismClose
<1>7. QED
  BY <1>2, <1>3, <1>4, <1>5, <1>6

(* What acl keeps, and what it and unnumbered have set in VPP. *)
LEMMA SettingsType ==
    ASSUME EndpointTypeOK, NEW c \in Conns, Handle(c)
    PROVE  /\ aclIndices' \in [Conns -> Seq(AclIds)] /\ made' \in [Conns -> Seq(AclIds)]
           /\ \A d \in Conns : Len(aclIndices'[d]) <= 2 /\ Len(made'[d]) <= 2
           /\ borrows' \in [Ports -> Interfaces \cup {NoIf}]
           /\ acls' \in [AclIds -> {"none", "ingress", "egress"}]
           /\ lists' \in [Ports -> Seq(AclIds)]
           /\ outlived' \subseteq Servers
<1>1. /\ aclIndices \in [Conns -> Seq(AclIds)] /\ made \in [Conns -> Seq(AclIds)]
      /\ \A d \in Conns : Len(aclIndices[d]) <= 2 /\ Len(made[d]) <= 2
      /\ borrows \in [Ports -> Interfaces \cup {NoIf}]
      /\ acls \in [AclIds -> {"none", "ingress", "egress"}]
      /\ lists \in [Ports -> Seq(AclIds)]
      /\ meta \in [Conns -> Interfaces \cup {NoIf}]
      /\ <<>> \in Seq(AclIds) /\ Len(<<>>) = 0
  BY DEF EndpointTypeOK, TypeOK
<1>2. borrows' \in [Ports -> Interfaces \cup {NoIf}]
  BY <1>1, HandleCases DEF ipVars, RemovePort, Load, BeginRequest, BeginClose, Mechanism, MechanismFails, AclSkip, addACLToACLList,
       SetACLList, AclFails, AclClose, UnnumberedAdd, DumpIps, AddAddress, RouteAdd, RouteDel, RouteDelFails,
       Release, CloseBehind, CloseLoopback, MechanismClose
<1>3. acls' \in [AclIds -> {"none", "ingress", "egress"}]
  BY <1>1, HandleCases DEF aclVars, Free, BeginRequest, BeginClose, Mechanism, MechanismFails, AclSkip, addACLToACLList,
       SetACLList, AclFails, AclClose, UnnumberedAdd, DumpIps, AddAddress, RouteAdd, RouteDel, RouteDelFails,
       Release, CloseBehind, CloseLoopback, MechanismClose
<1>4. lists' \in [Ports -> Seq(AclIds)]
  BY <1>1, HandleCases DEF aclVars, RemovePort, BeginRequest, BeginClose, Mechanism, MechanismFails, AclSkip, addACLToACLList,
       SetACLList, AclFails, AclClose, UnnumberedAdd, DumpIps, AddAddress, RouteAdd, RouteDel, RouteDelFails,
       Release, CloseBehind, CloseLoopback, MechanismClose
<1>5. outlived' \subseteq Servers
  BY HandleCases DEF EndpointTypeOK, aclVars, BeginRequest, BeginClose, Mechanism, MechanismFails, AclSkip, addACLToACLList,
       SetACLList, AclFails, AclClose, UnnumberedAdd, DumpIps, AddAddress, RouteAdd, RouteDel, RouteDelFails,
       Release, CloseBehind, CloseLoopback, MechanismClose
<1>6. CASE addACLToACLList(c)
  <2>1. PICK i \in AclIds : made' = [made EXCEPT ![c] = Append(made[c], i)]
    BY <1>6 DEF addACLToACLList, Free
  <2>2. Len(made[c]) < 2 /\ aclIndices' = aclIndices
    BY <1>6 DEF addACLToACLList
  <2>3. Append(made[c], i) \in Seq(AclIds) /\ Len(Append(made[c], i)) = Len(made[c]) + 1 /\ Len(made[c]) \in Nat
    BY <1>1
  <2>4. \A d \in Conns : made'[d] = IF d = c THEN Append(made[c], i) ELSE made[d]
    BY <1>1, <2>1
  <2>5. made' \in [Conns -> Seq(AclIds)]
    BY <1>1, <2>1, <2>3
  <2>6. ASSUME NEW d \in Conns PROVE Len(made'[d]) <= 2
    <3>1. CASE d = c
      <4>1. made'[d] = Append(made[c], i)
        BY <2>4, <3>1
      <4>2. Len(Append(made[c], i)) <= 2
        BY <2>2, <2>3
      <4>3. QED
        BY <4>1, <4>2
    <3>2. CASE d # c
      BY <1>1, <2>4, <3>2
    <3>3. QED
      BY <3>1, <3>2
  <2>7. QED
    BY <1>1, <1>2, <1>3, <1>4, <1>5, <2>2, <2>5, <2>6
<1>7. CASE ~addACLToACLList(c)
  <2>1. \/ UNCHANGED <<aclIndices, made>>
        \/ aclIndices' = [aclIndices EXCEPT ![c] = made[c]] /\ made' = [made EXCEPT ![c] = <<>>]
        \/ aclIndices' = aclIndices /\ made' = [made EXCEPT ![c] = <<>>]
        \/ aclIndices' = [aclIndices EXCEPT ![c] = <<>>] /\ made' = made
    BY <1>7, HandleCases DEF aclVars, BeginRequest, BeginClose, Mechanism, MechanismFails, AclSkip, addACLToACLList,
       SetACLList, AclFails, AclClose, UnnumberedAdd, DumpIps, AddAddress, RouteAdd, RouteDel, RouteDelFails,
       Release, CloseBehind, CloseLoopback, MechanismClose
  <2>2. aclIndices' \in [Conns -> Seq(AclIds)] /\ made' \in [Conns -> Seq(AclIds)]
    BY <1>1, <2>1
  <2>3. \A d \in Conns : aclIndices'[d] \in {aclIndices[d], made[d], <<>>} /\ made'[d] \in {made[d], <<>>}
    BY <1>1, <2>1
  <2>4. \A d \in Conns : Len(aclIndices'[d]) <= 2 /\ Len(made'[d]) <= 2
    BY <1>1, <2>3
  <2>5. QED
    BY <1>2, <1>3, <1>4, <1>5, <2>2, <2>4
<1>8. QED
  BY <1>6, <1>7

(* No ACL that an interface uses is deleted. *)
LEMMA ListsStillExist ==
    ASSUME EndpointTypeOK, ListsExist, NEW c \in Conns, Handle(c)
    PROVE  ListsExist'
<1>1. /\ acls \in [AclIds -> {"none", "ingress", "egress"}]
      /\ lists \in [Ports -> Seq(AclIds)]
      /\ made \in [Conns -> Seq(AclIds)]
      /\ <<>> \in Seq(AclIds) /\ 1..Len(<<>>) = {} /\ Len(<<>>) = 0
  BY DEF EndpointTypeOK
<1>2. CASE AclClose(c)
  <2>1. /\ lists' = lists
        /\ acls' = [i \in AclIds |-> IF i \in Positions(c) /\ ~InUse(i) THEN "none" ELSE acls[i]]
    BY <1>2 DEF AclClose
  <2>2. ASSUME NEW p \in Ports, NEW k \in 1..Len(lists[p]) PROVE acls'[lists[p][k]] # "none"
    <3>1. Len(lists[p]) \in Nat /\ Len(lists[p]) <= 2 /\ lists[p][k] \in AclIds /\ acls[lists[p][k]] # "none"
      BY <1>1 DEF ListsExist, Free
    <3>2. InUse(lists[p][k])
      BY <3>1 DEF InUse
    <3>3. QED
      BY <2>1, <3>1, <3>2
  <2>3. QED
    BY <2>1, <2>2 DEF ListsExist, Free
<1>3. CASE addACLToACLList(c)
  <2>1. lists' = lists /\ \E i \in AclIds, x \in {"ingress", "egress"} : acls' = [acls EXCEPT ![i] = x]
    BY <1>3 DEF addACLToACLList, Free
  <2>2. Free' \subseteq Free
    BY <1>1, <2>1 DEF Free
  <2>3. QED
    BY <2>1, <2>2 DEF ListsExist
<1>4. CASE SetACLList(c)
  <2>1. /\ acls' = acls /\ lists' = [lists EXCEPT ![ifindex[c]] = made[c]]
        /\ Len(made[c]) = 2 /\ MadeExist(c)
    BY <1>4 DEF SetACLList
  <2>2. \A p \in Ports : lists'[p] = IF p = ifindex[c] THEN made[c] ELSE lists[p]
    BY <1>1, <2>1
  <2>3. Free' = Free
    BY <2>1 DEF Free
  <2>4. ASSUME NEW p \in Ports
        PROVE  Len(lists'[p]) <= 2 /\ \A k \in 1..Len(lists'[p]) : lists'[p][k] \notin Free
    <3>1. CASE p = ifindex[c]
      <4>1. lists'[p] = made[c]
        BY <2>2, <3>1
      <4>2. Len(made[c]) <= 2 /\ \A k \in 1..Len(made[c]) : made[c][k] \notin Free
        BY <2>1 DEF MadeExist
      <4>3. QED
        BY <4>1, <4>2
    <3>2. CASE p # ifindex[c]
      BY <2>2, <3>2 DEF ListsExist
    <3>3. QED
      BY <3>1, <3>2
  <2>5. QED
    BY <2>3, <2>4 DEF ListsExist
<1>5. CASE ~(AclClose(c) \/ addACLToACLList(c) \/ SetACLList(c))
  <2>1. acls' = acls /\ (lists' = lists \/ RemovePort(c))
    BY <1>5, HandleCases DEF aclVars, BeginRequest, BeginClose, Mechanism, MechanismFails, AclSkip, addACLToACLList,
       SetACLList, AclFails, AclClose, UnnumberedAdd, DumpIps, AddAddress, RouteAdd, RouteDel, RouteDelFails,
       Release, CloseBehind, CloseLoopback, MechanismClose
  <2>2. \A p \in Ports : lists'[p] = lists[p] \/ lists'[p] = <<>>
    BY <1>1, <2>1 DEF RemovePort
  <2>3. Free' = Free
    BY <2>1 DEF Free
  <2>4. QED
    BY <1>1, <2>2, <2>3 DEF ListsExist
<1>6. QED
  BY <1>2, <1>3, <1>4, <1>5

(* The handler of c and its loopback element go on together. *)
LEMMA StepPcNext ==
    ASSUME BaseInv, NEW c \in Conns, ~panicked, Handle(c)
    PROVE  StepPc(c)'
<1>1. /\ step \in [Conns -> {"idle"} \cup UpSteps \cup DownSteps]
      /\ pc \in [Conns -> Steps] /\ meta \in [Conns -> Interfaces \cup {NoIf}]
      /\ StepPc(c)
  BY DEF BaseInv, EndpointTypeOK, TypeOK
<1>2. CASE BeginRequest(c)
  <2>1. CASE Request(c) /\ Goto(c, "mechanism")
    <3>1. pc'[c] = "next" /\ step'[c] = "mechanism"
      BY <1>1, <2>1 DEF Request, Goto
    <3>2. meta'[c] # NoIf
      <4>1. CASE Load(c) # NoIf
        BY <1>1, <2>1, <4>1 DEF Request, createLoopback, Load
      <4>2. CASE Load(c) = NoIf /\ entries[ServiceOf[c]] # NoInfo
        <5>1. meta' = [meta EXCEPT ![c] = entries[ServiceOf[c]].swIfIndex]
          BY <2>1, <4>2 DEF Request, createLoopback, Store
        <5>2. entries[ServiceOf[c]].swIfIndex # NoIf
          <6>1. ServiceOf[c] \in Services /\ entries[ServiceOf[c]] \in LoopInfo
            BY ConnsAssumption DEF BaseInv, IInv, TypeOK
          <6>2. entries[ServiceOf[c]].count = 0 <=> entries[ServiceOf[c]].swIfIndex = NoIf
            BY <6>1 DEF BaseInv, IInv, EntryLive
          <6>3. QED
            BY <4>2, <6>1, <6>2 DEF LoopInfo, NoInfo
        <5>3. QED
          BY <1>1, <5>1, <5>2
      <4>3. CASE Load(c) = NoIf /\ entries[ServiceOf[c]] = NoInfo
        <5>1. \E i \in Interfaces : meta' = [meta EXCEPT ![c] = i]
          BY <2>1, <4>3 DEF Request, createLoopback, Store
        <5>2. QED
          BY <1>1, <5>1, ConnsAssumption
      <4>4. QED
        BY <4>1, <4>2, <4>3
    <3>3. QED
      BY <3>1, <3>2 DEF StepPc, AboveLoopback
  <2>2. CASE CreateFails(c) /\ UNCHANGED step
    BY <1>1, <1>2, <2>2 DEF CreateFails, StepPc, BeginRequest
  <2>3. QED
    BY <1>2, <2>1, <2>2 DEF BeginRequest
<1>3. CASE MechanismFails(c) \/ AclFails(c)
  BY <1>1, <1>3 DEF MechanismFails, AclFails, NextFails, beginDel, Load, Goto, StepPc, AboveLoopback
<1>4. CASE AclSkip(c) \/ SetACLList(c)
  BY <1>1, <1>4 DEF AclSkip, SetACLList, AclDone, NextSucceeds, Goto, StepPc, AboveLoopback
<1>5. CASE Release(c) \/ CloseLoopback(c)
  BY <1>1, <1>5 DEF Release, CloseLoopback, Give, EndDel, Goto, StepPc, AboveLoopback
<1>6. CASE CloseBehind(c)
  BY <1>1, <1>6 DEF CloseBehind, Close, beginDel, Load, Goto, StepPc, AboveLoopback
<1>7. CASE Mechanism(c) \/ addACLToACLList(c) \/ AclClose(c) \/ MechanismClose(c) \/ BeginClose(c)
  BY <1>1, <1>7 DEF Mechanism, addACLToACLList, AclClose, MechanismClose, BeginClose, vars, Goto, StepPc, AboveLoopback
<1>8. CASE UnnumberedAdd(c) \/ DumpIps(c) \/ AddAddress(c)
  BY <1>1, <1>8 DEF UnnumberedAdd, DumpIps, AddAddress, vars, Goto, StepPc, AboveLoopback
<1>9. CASE RouteAdd(c) \/ RouteDel(c) \/ RouteDelFails(c)
  BY <1>1, <1>9 DEF RouteAdd, RouteDel, RouteDelFails, Forget, vars, Goto, StepPc, AboveLoopback
<1>10. QED
  BY <1>2, <1>3, <1>4, <1>5, <1>6, <1>7, <1>8, <1>9, HandleCases

(* An interface that VPP gives out is in nobody's metadata. *)
LEMMA PortOwnedNext ==
    ASSUME BaseInv, NEW c \in Conns, ~panicked, Handle(c), NEW d \in Conns
    PROVE  PortOwned(d)'
<1>1. /\ ifindex \in [Conns -> Ports \cup {NoIf}] /\ NoIf \notin Ports
      /\ step \in [Conns -> {"idle"} \cup UpSteps \cup DownSteps]
      /\ \A e \in Conns : PortOwned(e)
  BY EndpointAssumption DEF BaseInv, EndpointTypeOK
<1>2. \A e \in Conns \ {c} : ifindex'[e] = ifindex[e] /\ step'[e] = step[e]
  BY OthersUntouched DEF BaseInv, Untouched
<1>3. \/ UNCHANGED <<ports, ifindex>>
      \/ ports' = ports /\ ifindex'[c] = NoIf
      \/ \E p \in Ports \ ports : ports' = ports \cup {p} /\ ifindex'[c] = p
      \/ ports' = ports \ {ifindex[c]} /\ ifindex'[c] = NoIf
  BY <1>1, HandleCases DEF metadataVars, CreatePort, RemovePort, Drop, BeginRequest, BeginClose, Mechanism, MechanismFails, AclSkip, addACLToACLList,
       SetACLList, AclFails, AclClose, UnnumberedAdd, DumpIps, AddAddress, RouteAdd, RouteDel, RouteDelFails,
       Release, CloseBehind, CloseLoopback, MechanismClose
<1>4. ASSUME NEW e \in Conns, ifindex'[e] # NoIf
      PROVE  ifindex'[e] \in ports' /\ \A f \in Conns \ {e} : ifindex'[f] # ifindex'[e]
  BY <1>1, <1>2, <1>3, <1>4 DEF PortOwned
<1>5. step'[c] \in AboveLoopback \cup {"acl"} => ifindex'[c] # NoIf
  <2> USE <1>1 DEF AboveLoopback, PortOwned, Goto
  <2>1. CASE Mechanism(c)
    BY <2>1 DEF Mechanism, CreatePort
  <2>2. CASE AclSkip(c) \/ SetACLList(c) \/ addACLToACLList(c)
    BY <2>2 DEF AclSkip, SetACLList, AclDone, addACLToACLList, metadataVars
  <2>3. CASE UnnumberedAdd(c) \/ DumpIps(c) \/ AddAddress(c)
    BY <2>3 DEF UnnumberedAdd, DumpIps, AddAddress, metadataVars
  <2>4. CASE RouteAdd(c) \/ RouteDel(c) \/ RouteDelFails(c) \/ BeginRequest(c) \/ BeginClose(c) \/ MechanismFails(c) \/ AclFails(c)
    BY <2>4 DEF RouteAdd, RouteDel, RouteDelFails, BeginRequest, BeginClose, MechanismFails, AclFails
  <2>5. CASE AclClose(c) \/ Release(c) \/ CloseBehind(c) \/ CloseLoopback(c) \/ MechanismClose(c)
    BY <2>5 DEF AclClose, Release, CloseBehind, CloseLoopback, MechanismClose
  <2>6. QED
    BY <2>1, <2>2, <2>3, <2>4, <2>5, HandleCases
<1>6. \A e \in Conns \ {c} : step'[e] \in AboveLoopback \cup {"acl"} => ifindex'[e] # NoIf
  BY <1>1, <1>2 DEF PortOwned
<1>7. QED
  BY <1>4, <1>5, <1>6 DEF PortOwned

(* A handler makes ACLs inside of create only. *)
LEMMA MakingNext ==
    ASSUME BaseInv, NEW c \in env.conns, c \in Conns, ~panicked, Handle(c), env' = env
    PROVE  Making(c)'
<1>1. /\ step \in [Conns -> {"idle"} \cup UpSteps \cup DownSteps]
      /\ made \in [Conns -> Seq(AclIds)] /\ Making(c)
  BY DEF BaseInv, EndpointTypeOK
<1>2. made'[c] # <<>> => step'[c] = "acl" /\ ~Loaded(c)'
  <2> USE <1>1 DEF Making, Goto, aclVars
  <2>1. CASE Mechanism(c) \/ MechanismFails(c) \/ MechanismClose(c)
    BY <2>1 DEF Mechanism, MechanismFails, MechanismClose
  <2>2. CASE SetACLList(c) \/ addACLToACLList(c) \/ AclFails(c) \/ AclClose(c)
    BY <2>2 DEF SetACLList, addACLToACLList, AclFails, AclClose, Loaded
  <2>3. CASE UnnumberedAdd(c) \/ DumpIps(c) \/ AddAddress(c)
    BY <2>3 DEF UnnumberedAdd, DumpIps, AddAddress
  <2>4. CASE RouteAdd(c) \/ RouteDel(c) \/ RouteDelFails(c) \/ BeginRequest(c) \/ BeginClose(c)
    BY <2>4 DEF RouteAdd, RouteDel, RouteDelFails, BeginRequest, BeginClose
  <2>5. CASE Release(c) \/ CloseBehind(c) \/ CloseLoopback(c)
    BY <2>5 DEF Release, CloseBehind, CloseLoopback
  <2>6. CASE AclSkip(c)
    BY <2>6 DEF AclSkip, AclDone
  <2>7. QED
    BY <2>1, <2>2, <2>3, <2>4, <2>5, <2>6, HandleCases
<1>3. QED
  BY <1>2 DEF Making

(* The steps of a handler keep the first part of the invariant. *)
LEMMA HandleBaseInv ==
    ASSUME BaseInv, NEW c \in env.conns, c \in Conns, ~panicked, Handle(c), env' = env
    PROVE  BaseInv'
<1>1. IInv'
  BY HandleIsLoopbackStep, NextIInv DEF BaseInv
<1>2. EndpointTypeOK'
  BY <1>1, AddressedExist, MetadataType, SettingsType DEF BaseInv, EndpointTypeOK, IInv
<1>3. ListsExist'
  BY ListsStillExist DEF BaseInv
<1>4. ASSUME NEW d \in Conns PROVE StepPc(d)' /\ Making(d)'
  <2>1. CASE d = c
    BY <2>1, StepPcNext, MakingNext
  <2>2. CASE d # c
    <3>1. Untouched(d) /\ StepPc(d) /\ Making(d)
      BY <2>2, OthersUntouched DEF BaseInv
    <3>2. StepPc(d)'
      BY <3>1 DEF Untouched, StepPc
    <3>3. Making(d)'
      BY <3>1 DEF Untouched, Making, Loaded
    <3>4. QED
      BY <3>2, <3>3
  <2>3. QED
    BY <2>1, <2>2
<1>5. QED
  BY <1>1, <1>2, <1>3, <1>4, PortOwnedNext DEF BaseInv

(* It holds at the start. *)
LEMMA InitBaseInv == EndpointInit => BaseInv
<1> SUFFICES ASSUME EndpointInit PROVE BaseInv
  OBVIOUS
<1>1. IInv
  BY InitIInv DEF EndpointInit
<1>2. <<>> \in Seq(AclIds) /\ Len(<<>>) = 0 /\ 1..Len(<<>>) = {}
  OBVIOUS
<1>3. EndpointTypeOK
  BY <1>1, <1>2 DEF EndpointInit, EndpointTypeOK, IInv
<1>4. ListsExist
  BY <1>2 DEF EndpointInit, ListsExist
<1>5. \A c \in Conns : StepPc(c) /\ PortOwned(c) /\ Making(c)
  BY DEF EndpointInit, Init, StepPc, PortOwned, Making, AboveLoopback
<1>6. QED
  BY <1>1, <1>3, <1>4, <1>5 DEF BaseInv

(* A step that changes nothing keeps it. *)
LEMMA StutterBaseInv == BaseInv /\ UNCHANGED endpointVars => BaseInv'
<1> SUFFICES ASSUME BaseInv, UNCHANGED endpointVars PROVE BaseInv'
  OBVIOUS
<1>1. /\ UNCHANGED vars
      /\ UNCHANGED <<env, step, known, granted, ifindex, unnumbered, aclIndices, outlived, made,
                   acls, lists, ports, borrows, addressed, route>>
  BY DEF endpointVars, metadataVars, aclVars, ipVars
<1>2. IInv'
  BY <1>1, NextIInv DEF BaseInv
<1>3. EndpointTypeOK'
  BY <1>1, <1>2 DEF BaseInv, EndpointTypeOK, IInv, vars
<1>4. ListsExist'
  BY <1>1 DEF BaseInv, ListsExist, Free
<1>5. \A c \in Conns : StepPc(c)' /\ PortOwned(c)' /\ Making(c)'
  BY <1>1 DEF BaseInv, StepPc, PortOwned, Making, Loaded, vars
<1>6. QED
  BY <1>2, <1>3, <1>4, <1>5 DEF BaseInv

(* Whatever the environment, a step is one of the handler of a connection. *)
LEMMA NextHandles ==
    ASSUME BaseInv, EndpointNext
    PROVE  \E c \in env.conns : c \in Conns /\ ~panicked /\ Handle(c) /\ env' = env
<1>1. env.conns \subseteq Conns
  BY EndpointAssumption DEF BaseInv, EndpointTypeOK
<1>2. QED
  BY <1>1 DEF EndpointNext

(* Every step keeps it. *)
LEMMA NextBaseInv == BaseInv /\ [EndpointNext]_endpointVars => BaseInv'
BY HandleBaseInv, StutterBaseInv, NextHandles

(* In every environment the elements of the chain keep what they ought to: *)
(* in particular an address is on a loopback that exists, and no           *)
(* connection has more ACLs than one for each direction.                   *)
THEOREM EndpointTypes == EndpointSpec => []EndpointTypeOK
<1>1. BaseInv => EndpointTypeOK
  BY DEF BaseInv
<1>2. QED
  BY <1>1, InitBaseInv, NextBaseInv, PTL DEF EndpointSpec

-----------------------------------------------------------------------------
(* The invariant without failing refreshes *)

(* A connection that is alone in its environment. *)
LEMMA Alone ==
    ASSUME BaseInv, Cardinality(env.conns) = 1, NEW c \in env.conns, NEW d \in env.conns
    PROVE  c = d
<1>1. env.conns \in SUBSET Conns
  BY EndpointAssumption DEF BaseInv, EndpointTypeOK
<1>2. Cardinality(env.conns \ {c}) = 0 /\ env.conns \ {c} \in SUBSET Conns
  BY <1>1, ConnsCard
<1>3. env.conns \ {c} = {}
  BY <1>2, ConnsCard
<1>4. QED
  BY <1>3

(* The address of a loopback stays while another connection holds it: the  *)
(* loopback does.                                                          *)
LEMMA AddressKept ==
    ASSUME BaseInv, BaseInv', NEW c \in Conns, ~panicked, Handle(c),
           NEW d \in Conns, meta[d] \in addressed, meta[d] # NoIf,
           meta'[d] = meta[d], pc'[d] # "delete"
    PROVE  meta'[d] \in addressed'
<1>1. meta'[d] \in loops'
  BY DEF BaseInv, IInv, LoopbackInUseExists, HeldBy
<1>2. addressed' = addressed \/ addressed \subseteq addressed' \/ addressed' = addressed \cap loops'
  BY HandleCases DEF ipVars, Give, BeginRequest, BeginClose, Mechanism, MechanismFails, AclSkip, addACLToACLList,
       SetACLList, AclFails, AclClose, UnnumberedAdd, DumpIps, AddAddress, RouteAdd, RouteDel, RouteDelFails,
       Release, CloseBehind, CloseLoopback, MechanismClose
<1>3. QED
  BY <1>1, <1>2

(* What holds of d is not disturbed by the handler of another connection. *)
LEMMA OthersConnInv ==
    ASSUME BaseInv, BaseInv', NEW c \in env.conns, c \in Conns, ~panicked, Handle(c), env' = env,
           NEW d \in Conns \ {c}, ConnInv(d)
    PROVE  ConnInv(d)'
<1>1. Untouched(d)
  BY OthersUntouched DEF BaseInv
<1>2. /\ Forgotten(d) /\ Borrowing(d) /\ Listed(d) /\ Granted(d)
      /\ StepPc(d) /\ PortOwned(d)
  BY DEF ConnInv, BaseInv
<1>3. ifindex[d] # NoIf => /\ borrows'[ifindex[d]] = borrows[ifindex[d]]
                           /\ lists'[ifindex[d]] = lists[ifindex[d]]
  <2>1. ifindex[d] \in Ports \cup {NoIf}
    BY DEF BaseInv, EndpointTypeOK
  <2>2. ifindex[d] # NoIf => ifindex[d] # ifindex[c]
    BY <1>2 DEF PortOwned
  <2>3. QED
    BY <2>1, <2>2, OwnPortOnly DEF BaseInv
<1>4. meta[d] \in addressed /\ meta[d] # NoIf /\ pc[d] # "delete" => meta'[d] \in addressed'
  BY <1>1, AddressKept DEF Untouched
<1>5. Forgotten(d)'
  BY <1>1, <1>2 DEF Untouched, Forgotten
<1>6. Borrowing(d)'
  BY <1>1, <1>2, <1>3, <1>4 DEF Untouched, Borrowing, Loaded, StepPc, AboveLoopback
<1>7. Listed(d)'
  BY <1>1, <1>2, <1>3 DEF Untouched, Listed
<1>8. Granted(d)'
  BY <1>1, <1>2, <1>4 DEF Untouched, Granted, StepPc, Borrowing
<1>9. Directed(d)'
  BY Alone DEF Directed
<1>10. QED
  BY <1>5, <1>6, <1>7, <1>8, <1>9 DEF ConnInv

(* A handler keeps what is said of a connection without metadata. *)
LEMMA ForgottenNext ==
    ASSUME NEW c \in Conns, BaseInv, ConnInv(c), ~Faulty("refresh"), Handle(c), env' = env
    PROVE  Forgotten(c)'
<1>1. /\ step \in [Conns -> {"idle"} \cup UpSteps \cup DownSteps]
      /\ aclIndices \in [Conns -> Seq(AclIds)] /\ Forgotten(c)
      /\ c \in unnumbered => Loaded(c)
  BY DEF BaseInv, EndpointTypeOK, ConnInv, Borrowing
<1> USE <1>1 DEF Forgotten, Goto, metadataVars, aclVars
<1>2. CASE BeginRequest(c) \/ BeginClose(c)
  BY <1>2 DEF BeginRequest, BeginClose, Drop
<1>3. CASE Mechanism(c) \/ MechanismFails(c) \/ MechanismClose(c)
  BY <1>3 DEF Mechanism, MechanismFails, MechanismClose
<1>4. CASE AclSkip(c) \/ SetACLList(c) \/ addACLToACLList(c)
  BY <1>4 DEF AclSkip, SetACLList, addACLToACLList, AclDone
<1>5. CASE AclFails(c) \/ AclClose(c)
  BY <1>5 DEF AclFails, AclClose, Loaded
<1>6. CASE UnnumberedAdd(c) \/ DumpIps(c) \/ AddAddress(c)
  BY <1>6 DEF UnnumberedAdd, DumpIps, AddAddress
<1>7. CASE RouteAdd(c) \/ RouteDel(c) \/ RouteDelFails(c)
  BY <1>7 DEF RouteAdd, RouteDel, RouteDelFails, Drop
<1>8. CASE Release(c) \/ CloseBehind(c) \/ CloseLoopback(c)
  BY <1>8 DEF Release, Drop, CloseBehind, UnnumberedClose, CloseLoopback
<1>9. QED
  BY <1>2, <1>3, <1>4, <1>5, <1>6, <1>7, <1>8, HandleCases

(* A handler keeps what is said of the address an interface borrows. *)
LEMMA BorrowingNext ==
    ASSUME NEW c \in Conns, BaseInv, ConnInv(c), ~Faulty("refresh"), Handle(c), env' = env
    PROVE  Borrowing(c)'
<1>1. /\ step \in [Conns -> {"idle"} \cup UpSteps \cup DownSteps]
      /\ aclIndices \in [Conns -> Seq(AclIds)]
      /\ ifindex \in [Conns -> Ports \cup {NoIf}] /\ borrows \in [Ports -> Interfaces \cup {NoIf}]
      /\ meta \in [Conns -> Interfaces \cup {NoIf}]
      /\ Forgotten(c) /\ Borrowing(c) /\ StepPc(c) /\ PortOwned(c)
  BY DEF BaseInv, EndpointTypeOK, TypeOK, ConnInv
<1> USE <1>1 DEF Goto, metadataVars, aclVars, ipVars, AboveLoopback
<1>2. CASE BeginRequest(c)
  <2>1. CASE Request(c) /\ Goto(c, "mechanism") /\ UNCHANGED metadataVars
    <3>1. c \in unnumbered => meta' = meta
      BY <2>1 DEF Request, createLoopback, Load, Borrowing
    <3>2. QED
      BY <1>2, <2>1, <3>1 DEF BeginRequest, Borrowing, Loaded
  <2>2. CASE CreateFails(c) /\ Drop(c) /\ UNCHANGED step
    BY <1>2, <2>2 DEF BeginRequest, CreateFails, Drop, Borrowing, Loaded
  <2>3. QED
    BY <1>2, <2>1, <2>2 DEF BeginRequest
<1>3. CASE BeginClose(c)
  BY <1>3 DEF BeginClose, Borrowing, Loaded, vars
<1>4. CASE Mechanism(c)
  BY <1>4 DEF Mechanism, Borrowing, Loaded, vars
<1>5. CASE MechanismFails(c) \/ AclFails(c)
  BY <1>5 DEF MechanismFails, AclFails, Forgotten, Borrowing
<1>6. CASE AclSkip(c) \/ addACLToACLList(c)
  BY <1>6 DEF AclSkip, AclDone, NextSucceeds, addACLToACLList, Borrowing, Loaded, vars
<1>7. CASE SetACLList(c)
  <2>1. c \notin unnumbered /\ c \notin unnumbered'
    BY <1>7 DEF SetACLList, Borrowing
  <2>2. step'[c] = "unnumbered" /\ aclIndices'[c] # <<>>
    <3>1. step'[c] = "unnumbered" /\ aclIndices'[c] = made[c] /\ Len(made[c]) = 2
      BY <1>7 DEF SetACLList, AclDone
    <3>2. made[c] \in Seq(AclIds) /\ Len(made[c]) # 0
      BY <3>1 DEF BaseInv, EndpointTypeOK
    <3>3. made[c] # <<>>
      BY <3>2, EmptyLen
    <3>4. QED
      BY <3>1, <3>3
  <2>3. QED
    BY <2>1, <2>2 DEF Borrowing, Loaded
<1>8. CASE UnnumberedAdd(c)
  <2>1. /\ UNCHANGED <<meta, ifindex, aclIndices>> /\ Loaded(c) /\ meta[c] # NoIf
        /\ ifindex[c] \in Ports /\ ifindex[c] # NoIf /\ step'[c] \in {"dump", "close"}
    BY <1>8 DEF UnnumberedAdd, vars, StepPc, PortOwned, Borrowing
  <2>2. c \in unnumbered' => borrows'[ifindex[c]] = meta[c]
    BY <1>8, <2>1 DEF UnnumberedAdd, Load, Borrowing
  <2>3. step'[c] = "dump" => c \in unnumbered'
    BY <1>8 DEF UnnumberedAdd
  <2>4. QED
    BY <2>1, <2>2, <2>3 DEF Borrowing, Loaded
<1>9. CASE DumpIps(c) \/ AddAddress(c)
  BY <1>9 DEF DumpIps, AddAddress, Load, Borrowing, Loaded, vars
<1>10. CASE RouteAdd(c) \/ RouteDel(c) \/ RouteDelFails(c)
  BY <1>10 DEF RouteAdd, RouteDel, RouteDelFails, Drop, Borrowing, Loaded, vars
<1>11. CASE AclClose(c) \/ Release(c) \/ CloseLoopback(c) \/ MechanismClose(c)
  BY <1>11 DEF AclClose, Release, Drop, CloseLoopback, MechanismClose, Forgotten, Borrowing
<1>12. CASE CloseBehind(c)
  BY <1>12 DEF CloseBehind, UnnumberedClose, Borrowing
<1>13. QED
  BY <1>2, <1>3, <1>4, <1>5, <1>6, <1>7, <1>8, <1>9, <1>10, <1>11, <1>12, HandleCases

(* A handler keeps what is said of the ACLs on an interface. *)
LEMMA ListedNext ==
    ASSUME NEW c \in Conns, BaseInv, ConnInv(c), ~Faulty("refresh"), Handle(c), env' = env
    PROVE  Listed(c)'
<1>1. /\ aclIndices \in [Conns -> Seq(AclIds)]
      /\ ifindex \in [Conns -> Ports \cup {NoIf}] /\ lists \in [Ports -> Seq(AclIds)]
      /\ Forgotten(c) /\ Listed(c) /\ PortOwned(c)
  BY DEF BaseInv, EndpointTypeOK, ConnInv
<1> USE <1>1 DEF Listed, metadataVars, aclVars
<1>2. CASE BeginRequest(c) \/ BeginClose(c)
  BY <1>2 DEF BeginRequest, BeginClose, Drop, Forgotten
<1>3. CASE Mechanism(c)
  BY <1>3 DEF Mechanism
<1>4. CASE MechanismFails(c) \/ AclFails(c) \/ MechanismClose(c)
  BY <1>4 DEF MechanismFails, AclFails, MechanismClose, Forgotten, Loaded
<1>5. CASE SetACLList(c)
  <2>1. ifindex[c] \in Ports /\ ifindex' = ifindex /\ ifindex[c] # NoIf
    BY <1>5 DEF SetACLList, PortOwned
  <2>2. lists'[ifindex[c]] = made[c] /\ aclIndices'[c] = made[c] /\ Len(made[c]) = 2
    BY <1>5, <2>1 DEF SetACLList
  <2>3. QED
    BY <2>1, <2>2
<1>6. CASE AclSkip(c) \/ addACLToACLList(c) \/ AclClose(c)
  BY <1>6 DEF AclSkip, addACLToACLList, AclClose
<1>7. CASE UnnumberedAdd(c) \/ DumpIps(c) \/ AddAddress(c) \/ RouteAdd(c) \/ RouteDel(c) \/ RouteDelFails(c)
  BY <1>7 DEF UnnumberedAdd, DumpIps, AddAddress, RouteAdd, RouteDel, RouteDelFails, Drop
<1>8. CASE Release(c) \/ CloseBehind(c) \/ CloseLoopback(c)
  BY <1>8 DEF Release, Drop, Forgotten, CloseBehind, CloseLoopback
<1>9. QED
  BY <1>2, <1>3, <1>4, <1>5, <1>6, <1>7, <1>8, HandleCases

(* The first ACL made is for ingress, the second for egress, and an index  *)
(* that is in use is not given out.                                        *)
LEMMA DirectedNext ==
    ASSUME NEW c \in Conns, BaseInv, ConnInv(c), ~Faulty("refresh"), Handle(c), env' = env
    PROVE  Directed(c)'
<1> SUFFICES ASSUME Cardinality(env.conns) = 1, c \in env.conns
             PROVE  DirectionsOf(made[c])' /\ DirectionsOf(aclIndices[c])'
  BY DEF Directed
<1>1. /\ aclIndices \in [Conns -> Seq(AclIds)] /\ made \in [Conns -> Seq(AclIds)]
      /\ acls \in [AclIds -> {"none", "ingress", "egress"}]
      /\ DirectionsOf(made[c]) /\ DirectionsOf(aclIndices[c]) /\ Making(c)
      /\ Len(<<>>) = 0
  BY DEF BaseInv, EndpointTypeOK, ConnInv, Directed
<1>2. CASE addACLToACLList(c)
  <2>1. PICK i \in AclIds :
            /\ acls[i] = "none"
            /\ acls' = [acls EXCEPT ![i] = IF made[c] = <<>> THEN "ingress" ELSE "egress"]
            /\ made' = [made EXCEPT ![c] = Append(made[c], i)]
    BY <1>2 DEF addACLToACLList, Free
  <2>2. aclIndices'[c] = <<>>
    BY <1>2 DEF addACLToACLList, Loaded
  <2>3. Len(made[c]) \in {0, 1}
    <3>1. Len(made[c]) \in Nat /\ Len(made[c]) < 2
      BY <1>1, <1>2 DEF addACLToACLList
    <3>2. \A n \in Nat : n < 2 => n \in {0, 1}
      OBVIOUS
    <3>3. QED
      BY <3>1, <3>2
  <2>4. made'[c] = Append(made[c], i) /\ made[c] \in Seq(AclIds) /\ Len(made[c]) \in Nat
    BY <1>1, <2>1
  <2>5. CASE made[c] = <<>>
    <3>1. made'[c] = <<i>> /\ acls'[i] = "ingress"
      BY <1>1, <2>1, <2>4, <2>5
    <3>2. QED
      BY <1>1, <2>2, <3>1 DEF DirectionsOf
  <2>6. CASE made[c] # <<>>
    <3>1. Len(made[c]) = 1 /\ made[c][1] \in AclIds /\ acls[made[c][1]] = "ingress"
      <4>1. Len(made[c]) # 0
        BY <2>4, <2>6, EmptyLen
      <4>2. Len(made[c]) = 1
        BY <2>3, <4>1
      <4>3. QED
        BY <1>1, <2>4, <4>2 DEF DirectionsOf
    <3>2. Len(Append(made[c], i)) = 2 /\ Append(made[c], i)[1] = made[c][1] /\ Append(made[c], i)[2] = i
      BY <2>4, <3>1
    <3>3. acls'[i] = "egress" /\ acls'[made[c][1]] = "ingress"
      BY <1>1, <2>1, <2>6, <3>1
    <3>4. QED
      BY <1>1, <2>2, <2>4, <3>2, <3>3 DEF DirectionsOf
  <2>7. QED
    BY <2>5, <2>6
<1>3. CASE AclClose(c)
  <2>1. aclIndices'[c] = <<>> /\ made'[c] = <<>>
    BY <1>1, <1>3 DEF AclClose, Making
  <2>2. QED
    BY <1>1, <2>1 DEF DirectionsOf
<1>4. CASE ~(addACLToACLList(c) \/ AclClose(c))
  <2>1. /\ acls' = acls
        /\ aclIndices'[c] \in {aclIndices[c], made[c]} /\ made'[c] \in {made[c], <<>>}
    BY <1>1, <1>4, HandleCases DEF aclVars, BeginRequest, BeginClose, Mechanism, MechanismFails, AclSkip, addACLToACLList,
       SetACLList, AclFails, AclClose, UnnumberedAdd, DumpIps, AddAddress, RouteAdd, RouteDel, RouteDelFails,
       Release, CloseBehind, CloseLoopback, MechanismClose
  <2>2. QED
    BY <1>1, <2>1 DEF DirectionsOf
<1>5. QED
  BY <1>2, <1>3, <1>4

(* A handler keeps what is said of a connection that was granted. *)
LEMMA GrantedNext ==
    ASSUME NEW c \in Conns, BaseInv, ConnInv(c), ~Faulty("refresh"), Handle(c), env' = env
    PROVE  Granted(c)'
<1>1. /\ step \in [Conns -> {"idle"} \cup UpSteps \cup DownSteps]
      /\ route \in [Conns -> Ports \cup {NoIf}]
      /\ Granted(c) /\ Borrowing(c)
  BY DEF BaseInv, EndpointTypeOK, ConnInv
<1>2. CASE BeginRequest(c) \/ BeginClose(c)
  BY <1>2 DEF BeginRequest, BeginClose, Granted
<1>3. CASE RouteAdd(c)
  BY <1>1, <1>3 DEF RouteAdd, Granted, Borrowing, Goto, vars, metadataVars
<1>4. CASE ~(BeginRequest(c) \/ BeginClose(c) \/ RouteAdd(c))
  <2>1. step[c] # "idle" /\ granted' = granted
    BY <1>4, HandleCases DEF BeginRequest, BeginClose, Mechanism, MechanismFails, AclSkip, addACLToACLList,
       SetACLList, AclFails, AclClose, UnnumberedAdd, DumpIps, AddAddress, RouteAdd, RouteDel, RouteDelFails,
       Release, CloseBehind, CloseLoopback, MechanismClose
  <2>2. QED
    BY <1>1, <2>1 DEF Granted
<1>5. QED
  BY <1>2, <1>3, <1>4

(* Every step keeps the second part of the invariant. *)
LEMMA NextKeptInv ==
    ASSUME BaseInv, KeptInv, [EndpointNext]_endpointVars
    PROVE  KeptInv'
<1>1. BaseInv'
  BY NextBaseInv
<1>2. CASE EndpointNext
  <2>1. PICK c \in env.conns : c \in Conns /\ ~panicked /\ Handle(c) /\ env' = env
    BY <1>2, NextHandles
  <2>2. SUFFICES ASSUME ~Faulty("refresh"), NEW d \in Conns PROVE ConnInv(d)'
    BY <2>1 DEF KeptInv, Faulty
  <2>3. ConnInv(c) /\ ConnInv(d)
    BY <2>1, <2>2 DEF KeptInv
  <2>4. ConnInv(c)'
    BY <2>1, <2>2, <2>3, ForgottenNext, BorrowingNext, ListedNext, DirectedNext, GrantedNext DEF ConnInv
  <2>5. d # c => ConnInv(d)'
    BY <1>1, <2>1, <2>3, OthersConnInv
  <2>6. QED
    BY <2>4, <2>5
<1>3. CASE UNCHANGED endpointVars
  <2>1. UNCHANGED <<env, meta, step, known, granted, ifindex, unnumbered, aclIndices, outlived, made, acls, lists,
                 borrows, addressed, route>>
    BY <1>3 DEF endpointVars, vars, metadataVars, aclVars, ipVars
  <2>2. \A c \in Conns : (Forgotten(c) => Forgotten(c)') /\ (Listed(c) => Listed(c)') /\ (Granted(c) => Granted(c)')
    BY <2>1 DEF Forgotten, Listed, Granted
  <2>3. \A c \in Conns : (Borrowing(c) => Borrowing(c)') /\ (Directed(c) => Directed(c)')
    BY <2>1 DEF Borrowing, Loaded, Directed, DirectionsOf
  <2>4. QED
    BY <2>1, <2>2, <2>3 DEF KeptInv, ConnInv, Faulty
<1>4. QED
  BY <1>2, <1>3

(* It holds at the start. *)
LEMMA InitKeptInv == EndpointInit => KeptInv
<1>1. Len(<<>>) = 0
  OBVIOUS
<1>2. QED
  BY <1>1 DEF EndpointInit, KeptInv, ConnInv, Forgotten, Borrowing, Listed, Directed, DirectionsOf, Granted, AboveLoopback

(* What the invariants say of a connection that was granted. *)
LEMMA KeptReachable ==
    ASSUME BaseInv, KeptInv
    PROVE  Reachable
<1> SUFFICES ASSUME ~Faulty("refresh"), NEW c \in granted
             PROVE  Addressed(c) /\ (c \in outlived \/ Filtered(c))
  BY DEF Reachable
<1>1. c \in Conns /\ c \in known
  BY DEF BaseInv, EndpointTypeOK
<1>2. /\ Granted(c) /\ Borrowing(c) /\ Listed(c) /\ Directed(c)
      /\ StepPc(c) /\ PortOwned(c) /\ Making(c)
  BY <1>1 DEF KeptInv, ConnInv, BaseInv
<1>3. /\ pc[c] = "ready" /\ meta[c] # NoIf /\ meta[c] \in addressed /\ ifindex[c] # NoIf
      /\ borrows[ifindex[c]] = meta[c] /\ Loaded(c) /\ ifindex[c] \in ports /\ route[c] = ifindex[c]
  BY <1>2 DEF Granted, Borrowing, StepPc, PortOwned
<1>4. meta[c] = entries[ServiceOf[c]].swIfIndex
  BY <1>1, <1>3 DEF BaseInv, IInv, LoopbackInUseExists, HeldBy
<1>5. Addressed(c)
  BY <1>3, <1>4 DEF Addressed
<1>6. ASSUME c \notin outlived PROVE Filtered(c)
  <2> SUFFICES ASSUME env.filter, c \in Servers
               PROVE  LET list == lists[ifindex[c]]
                      IN  /\ Len(list) = 2 /\ {list[1], list[2]} \cap Free = {}
                          /\ Cardinality(env.conns) = 1 =>
                                acls[list[1]] = "ingress" /\ acls[list[2]] = "egress"
    BY DEF Filtered
  <2>1. aclIndices[c] # <<>>
    BY <1>3, ConnsAssumption DEF Loaded
  <2>2. lists[ifindex[c]] = aclIndices[c] /\ Len(aclIndices[c]) = 2 /\ ifindex[c] \in Ports
    BY <1>2, <1>3, <1>6, <2>1 DEF Listed, BaseInv, EndpointTypeOK
  <2>3. aclIndices[c][1] \notin Free /\ aclIndices[c][2] \notin Free
    BY <2>2 DEF BaseInv, ListsExist
  <2>4. Cardinality(env.conns) = 1 => acls[aclIndices[c][1]] = "ingress" /\ acls[aclIndices[c][2]] = "egress"
    BY <1>1, <1>2, <2>2 DEF Directed, DirectionsOf, Making
  <2>5. QED
    BY <2>2, <2>3, <2>4
<1>7. QED
  BY <1>5, <1>6

(* For any number of connections and any failures but those of a refresh   *)
(* below the loopback: a connection whose last request has succeeded has   *)
(* its address, its route and its filter, until its own next request or    *)
(* close.  Only a connection whose ACLs have outlived the interface of an  *)
(* earlier life of the same id may lack the filter.                        *)
THEOREM EndpointReachable == EndpointSpec => []Reachable
<1>1. EndpointInit => BaseInv /\ KeptInv
  BY InitBaseInv, InitKeptInv
<1>2. BaseInv /\ KeptInv /\ [EndpointNext]_endpointVars => (BaseInv /\ KeptInv)'
  BY NextBaseInv, NextKeptInv
<1>3. BaseInv /\ KeptInv => Reachable
  BY KeptReachable
<1>4. QED
  BY <1>1, <1>2, <1>3, PTL DEF EndpointSpec
=============================================================================
