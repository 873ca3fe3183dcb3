------------------------- MODULE OwnedObjectsProofs -------------------------
(***************************************************************************)
(* Proofs that apps whose object names collide never take objects from     *)
(* each other and end up with what they declare, for any number of apps,   *)
(* names and contents.                                                     *)
(*                                                                         *)
(* The operator looks at copies.  What makes that safe is that a copy with *)
(* a controller keeps every other app out (Kept): while it stands, the     *)
(* stored object has the same controller or none, so what a pass lists for *)
(* pruning is its own, or nobody's, when the deletion gets there (Pruned). *)
(*                                                                         *)
(* And that they end up with what they declare.  Every write of an object  *)
(* is an event for whoever controlled it before or controls it after, so   *)
(* an entry that meets its spec does so until its app hears otherwise      *)
(* (Dealt).  The pods are another matter, as they read their ConfigMaps    *)
(* once and only the hash makes them do so again: that holds for contents  *)
(* the entry has never had before, which leave no trace anywhere until a   *)
(* pass works on them, and from then on nothing of the app's has others    *)
(* (FirstTime).                                                            *)
(***************************************************************************)
EXTENDS OwnedObjects, WellFoundedInduction, SequenceTheorems, TLAPS

(* The parts of TypeOK. *)
Data == Contents \cup Ports \cup {Nothing}
ObjType == [exists : BOOLEAN, owner : Apps \cup {Nobody}, data : Data]

ObjTypes ==
  /\ obj \in [Objects -> ObjType] /\ seen \in [Objects -> ObjType]
  /\ unseen \in [Objects -> SUBSET (Apps \cup {Nobody})]

SpecTypes ==
  /\ spec = [a \in Apps |-> spec[a]]
  /\ \A a \in Apps : spec[a] \in [Entries[a] -> Data]

DepTypes ==
  /\ dep = [a \in Apps |-> dep[a]]
  /\ \A a \in Apps : DOMAIN dep[a] \subseteq Entries[a]

PassTypes ==
  /\ IF pc = "idle" THEN cur = Nobody /\ snap = Nothing
                    ELSE cur \in Apps /\ snap \in [Entries[cur] -> Data]
  /\ pc \in {"idle", "configmaps", "pruneConfigMaps", "service"}
  /\ todo \subseteq (IF pc = "configmaps" THEN Declared(snap, "ConfigMap")
                     ELSE Objects)

CountTypes ==
  /\ queued \subseteq Apps /\ back \subseteq UNION {{a} \X Entries[a] : a \in Apps}
  /\ edits \in 0..MaxEdits /\ faults \in 0..MaxFaults

(* A copy that is not stale is the stored object. *)
Fresh == \A o \in Objects : ~Stale(o) => seen[o] = obj[o]

(* What is not there has no controller. *)
Ownerless ==
  \A o \in Objects : /\ ~obj[o].exists => obj[o].owner = Nobody
                     /\ ~seen[o].exists => seen[o].owner = Nobody

(* A copy with a controller keeps the other apps out. *)
Kept ==
  \A o \in Objects :
    seen[o].owner \in Apps => obj[o].owner \in {seen[o].owner, Nobody}

(* What a pass is about to prune is its own, or nobody's. *)
Pruned ==
  pc = "pruneConfigMaps" => \A o \in todo : obj[o].owner \in {cur, Nobody}

(* What is known about objects and their copies. *)
ObjInv == ObjTypes /\ Fresh /\ Ownerless /\ Kept

(* The invariant behind the action properties. *)
Inv == ObjInv /\ SpecTypes /\ DepTypes /\ PassTypes /\ CountTypes /\ Pruned

-----------------------------------------------------------------------------

(* No app has the empty name. *)
LEMMA NobodyIsNoApp == Nobody \notin Apps
BY ConstantsAssumption DEF Nobody

(* The objects of an app's entries are objects. *)
LEMMA ObjectOfEntry ==
  ASSUME NEW a \in Apps, NEW e \in Entries[a]
  PROVE  Object(a, e) \in Objects
BY DEF Objects

(* The values objects take. *)
LEMMA ObjectValues ==
  /\ Absent \in ObjType /\ ~Absent.exists /\ Absent.owner = Nobody
  /\ \A a \in Apps \cup {Nobody}, c \in Data :
       /\ Owned(a, c) \in ObjType
       /\ Owned(a, c).exists /\ Owned(a, c).owner = a
BY DEF Absent, Owned, ObjType, Data

(* Storing x, whose controller is the one of the object and of its copy or
   meets none, keeps what is known about objects. *)
LEMMA PutKeeps ==
  ASSUME ObjInv, NEW o \in Objects, NEW x \in ObjType, Put(o, x), seen' = seen,
         ~x.exists => x.owner = Nobody,
         x.owner \in Apps => seen[o].owner \in {x.owner, Nobody}
  PROVE  ObjInv'
<1>1. /\ obj' = [obj EXCEPT ![o] = x]
      /\ unseen' = [unseen EXCEPT ![o] = @ \cup {x.owner}]
  BY DEF Put
<1>2. ObjTypes'
  BY <1>1 DEF ObjInv, ObjTypes, ObjType
<1>3. \A p \in Objects : obj'[p] = IF p = o THEN x ELSE obj[p]
  BY <1>1 DEF ObjInv, ObjTypes
<1>4. \A p \in Objects : Stale(p)' = (p = o \/ Stale(p))
  BY <1>1 DEF ObjInv, ObjTypes, Stale
<1>5. Fresh'
  BY <1>3, <1>4 DEF ObjInv, Fresh
<1>6. Ownerless'
  BY <1>3 DEF ObjInv, Ownerless
<1>7. Kept'
  <2> SUFFICES ASSUME NEW p \in Objects, seen[p].owner \in Apps
               PROVE  obj'[p].owner \in {seen[p].owner, Nobody}
    BY DEF Kept
  <2>1. x.owner \in Apps \cup {Nobody}
    BY DEF ObjType
  <2> QED
    BY <1>3, <2>1, NobodyIsNoApp DEF ObjInv, Kept
<1> QED
  BY <1>2, <1>5, <1>6, <1>7 DEF ObjInv

(* A write that CreateOrUpdate sends meets no other controller. *)
LEMMA WriteMeetsOwn ==
  ASSUME Inv, NEW o \in Objects, NEW want, cur \in Apps,
         CanWrite(o, want), seen[o] # want
  PROVE  obj[o].owner \in {cur, Nobody} /\ seen[o].owner \in {cur, Nobody}
<1>1. CASE ~seen[o].exists
  BY <1>1 DEF CanWrite, Inv, ObjInv, Ownerless
<1>2. CASE seen[o].exists
  <2>1. seen[o].owner \in {Nobody, cur} /\ ~Stale(o)
    BY <1>2 DEF CanWrite
  <2> QED
    BY <2>1 DEF Inv, ObjInv, Fresh
<1> QED
  BY <1>1, <1>2

(* What CreateOrUpdate for an entry of the app does to objects. *)
LEMMA WriteKeeps ==
  ASSUME Inv, pc # "idle", NEW e \in Entries[cur], Write(e), seen' = seen
  PROVE  /\ ObjInv'
         /\ \A o \in Objects : obj'[o] # obj[o] =>
              obj[o].owner \in {cur, Nobody} /\ obj'[o].owner = cur
<1> DEFINE o == Object(cur, e)
           want == Owned(cur, snap[e])
<1>1. cur \in Apps /\ snap[e] \in Data /\ o \in Objects
  BY ObjectOfEntry DEF Inv, PassTypes
<1>2. want \in ObjType /\ want.exists /\ want.owner = cur
  BY <1>1, ObjectValues
<1> HIDE DEF o, want
<1>3. CASE seen[o] = want
  <2>1. UNCHANGED <<obj, unseen>>
    BY <1>3 DEF Write, o, want
  <2> QED
    BY <2>1 DEF Inv, ObjInv, ObjTypes, Fresh, Stale, Ownerless, Kept
<1>4. CASE seen[o] # want
  <2>1. CanWrite(o, want) /\ Put(o, want)
    BY <1>4 DEF Write, o, want
  <2>2. obj[o].owner \in {cur, Nobody} /\ seen[o].owner \in {cur, Nobody}
    BY <1>1, <1>4, <2>1, WriteMeetsOwn
  <2>3. ObjInv'
    BY <1>1, <1>2, <2>1, <2>2, PutKeeps DEF Inv
  <2>4. \A p \in Objects : obj'[p] = IF p = o THEN want ELSE obj[p]
    BY <2>1 DEF Put, Inv, ObjInv, ObjTypes
  <2> QED
    BY <1>2, <2>2, <2>3, <2>4
<1> QED
  BY <1>3, <1>4

(* What a deletion does to objects. *)
LEMMA DeleteKeeps ==
  ASSUME ObjInv, NEW o \in Objects, Delete(o), seen' = seen
  PROVE  /\ ObjInv'
         /\ \A p \in Objects : obj'[p].owner \in {obj[p].owner, Nobody}
         /\ \A p \in Objects \ {o} : obj'[p] = obj[p]
<1>1. CASE obj[o].exists
  <2>1. Put(o, Absent)
    BY <1>1 DEF Delete
  <2>2. ObjInv'
    BY <2>1, ObjectValues, NobodyIsNoApp, PutKeeps
  <2>3. \A p \in Objects : obj'[p] = IF p = o THEN Absent ELSE obj[p]
    BY <2>1 DEF Put, ObjInv, ObjTypes
  <2> QED
    BY <2>2, <2>3, ObjectValues
<1>2. CASE ~obj[o].exists
  <2>1. UNCHANGED <<obj, unseen>>
    BY <1>2 DEF Delete
  <2> QED
    BY <2>1 DEF ObjInv, ObjTypes, Fresh, Stale, Ownerless, Kept
<1> QED
  BY <1>1, <1>2

(* Nothing is known to change about objects that are left alone. *)
LEMMA SameObjects ==
  ASSUME ObjInv, UNCHANGED objVars
  PROVE  ObjInv'
BY DEF objVars, ObjInv, ObjTypes, Fresh, Stale, Ownerless, Kept

-----------------------------------------------------------------------------

(* Inv holds initially, *)
LEMMA InitInv == Init => Inv
<1> SUFFICES ASSUME Init PROVE Inv
  OBVIOUS
<1> USE DEF Init
<1>1. ObjInv
  BY ObjectValues DEF ObjInv, ObjTypes, Fresh, Ownerless, Kept
<1>2. SpecTypes
  BY DEF SpecTypes, Data
<1>3. DepTypes
  BY DEF DepTypes, Nothing
<1>4. PassTypes /\ CountTypes /\ Pruned
  BY ConstantsAssumption DEF PassTypes, CountTypes, Pruned
<1> QED
  BY <1>1, <1>2, <1>3, <1>4 DEF Inv

(* The end of a pass. *)
LEMMA OverIsIdle ==
  ASSUME PassOver
  PROVE  PassTypes' /\ Pruned'
BY DEF PassOver, PassTypes, Pruned

(* is kept by every step, *)
LEMMA NextInv == Inv /\ [Next]_vars => Inv'
<1> SUFFICES ASSUME Inv, [Next]_vars PROVE Inv'
  OBVIOUS
<1>1. ASSUME NEW a \in Apps, NEW e \in Entries[a],
             NEW c \in Contents \cup Ports \cup {Nothing}, UserEdit(a, e, c)
      PROVE  Inv'
  <2> USE <1>1 DEF UserEdit
  <2>1. ObjInv'
    BY SameObjects DEF Inv
  <2>2. SpecTypes'
    BY DEF Inv, SpecTypes, Data
  <2>3. CountTypes'
    <3>1. <<a, e>> \in UNION {{b} \X Entries[b] : b \in Apps}
      OBVIOUS
    <3>2. /\ queued' = queued \cup {a} /\ back' \subseteq back \cup {<<a, e>>}
          /\ edits < MaxEdits /\ edits' = edits + 1 /\ faults' = faults
      OBVIOUS
    <3> QED
      BY <3>1, <3>2, ConstantsAssumption DEF Inv, CountTypes
  <2>4. DepTypes' /\ PassTypes' /\ Pruned'
    BY DEF Inv, DepTypes, PassTypes, Pruned, passVars, objVars, Declared
  <2> QED
    BY <2>1, <2>2, <2>3, <2>4 DEF Inv
<1>2. ASSUME NEW o \in Objects,
             NEW x \in {Absent} \cup {Owned(Nobody, p) : p \in Ports},
             ByHand(o, x)
      PROVE  Inv'
  <2> USE <1>2 DEF ByHand
  <2>1. x \in ObjType /\ x.owner = Nobody
    BY ObjectValues DEF Data
  <2>2. ObjInv'
    BY <2>1, NobodyIsNoApp, PutKeeps DEF Inv
  <2>3. \A p \in Objects : obj'[p].owner \in {obj[p].owner, Nobody}
    BY <2>1 DEF Put, Inv, ObjInv, ObjTypes
  <2>4. CountTypes'
    BY ConstantsAssumption DEF Inv, CountTypes, history
  <2>5. SpecTypes' /\ DepTypes' /\ PassTypes'
    BY DEF Inv, SpecTypes, DepTypes, PassTypes, passVars, Declared
  <2>6. Pruned'
    BY <2>3 DEF Inv, Pruned, PassTypes, passVars
  <2> QED
    BY <2>2, <2>4, <2>5, <2>6 DEF Inv
<1>3. ASSUME NEW o \in Objects, Deliver(o) PROVE Inv'
  <2> USE <1>3 DEF Deliver
  <2>1. ObjTypes'
    BY DEF Inv, ObjInv, ObjTypes
  <2>2. \A p \in Objects : /\ obj'[p] = obj[p]
                           /\ seen'[p] = IF p = o THEN obj[p] ELSE seen[p]
                           /\ p # o => Stale(p)' = Stale(p)
    BY DEF Inv, ObjInv, ObjTypes, Stale
  <2>3. Fresh' /\ Ownerless' /\ Kept'
    BY <2>2 DEF Inv, ObjInv, Fresh, Ownerless, Kept
  <2>4. CountTypes'
    BY DEF Inv, CountTypes, OwnersOf, history
  <2>5. SpecTypes' /\ DepTypes' /\ PassTypes' /\ Pruned'
    BY DEF Inv, SpecTypes, DepTypes, PassTypes, Pruned, passVars, Declared
  <2> QED
    BY <2>1, <2>3, <2>4, <2>5 DEF Inv, ObjInv
<1>4. ASSUME NEW a \in Apps, StartPods(a) PROVE Inv'
  <2> USE <1>4 DEF StartPods
  <2>1. ObjInv'
    BY SameObjects DEF Inv
  <2> QED
    BY <2>1 DEF Inv, SpecTypes, DepTypes, PassTypes, CountTypes, Pruned,
                passVars, objVars, history, Declared
<1>5. ASSUME NEW a \in Apps, Begin(a) PROVE Inv'
  <2> USE <1>5 DEF Begin
  <2>1. ObjInv'
    BY SameObjects DEF Inv
  <2>2. PassTypes' /\ Pruned'
    BY DEF Inv, SpecTypes, PassTypes, Pruned, Declared
  <2>3. SpecTypes' /\ DepTypes' /\ CountTypes'
    BY DEF Inv, SpecTypes, DepTypes, CountTypes, history
  <2> QED
    BY <2>1, <2>2, <2>3 DEF Inv
<1>6. ASSUME NEW e \in todo, ReconcileConfigMap(e) PROVE Inv'
  <2> USE <1>6 DEF ReconcileConfigMap
  <2>1. e \in Entries[cur] /\ cur \in Apps /\ pc = "configmaps"
    BY DEF Inv, PassTypes, Declared
  <2>2. CASE /\ Write(e) /\ todo' = todo \ {e}
             /\ UNCHANGED <<pc, cur, snap, queued>>
    <3> USE <2>2
    <3>1. ObjInv'
      BY <2>1, WriteKeeps
    <3>2. PassTypes' /\ Pruned'
      BY <2>1 DEF Inv, PassTypes, Pruned, Declared
    <3> QED
      BY <3>1, <3>2 DEF Inv, SpecTypes, DepTypes, CountTypes, history
  <2>3. CASE Refused(e)
    <3> USE <2>3 DEF Refused, Abort
    <3>1. ObjInv'
      BY SameObjects DEF Inv, objVars
    <3>2. CountTypes'
      BY <2>1 DEF Inv, CountTypes, history
    <3> QED
      BY <3>1, <3>2, OverIsIdle DEF Inv, SpecTypes, DepTypes
  <2> QED
    BY <2>2, <2>3
<1>7. ASSUME NEW o \in todo, PruneConfigMap(o) PROVE Inv'
  <2> USE <1>7 DEF PruneConfigMap
  <2>1. o \in Objects /\ todo \subseteq Objects
    BY DEF Inv, PassTypes
  <2>2. ObjInv' /\ \A p \in Objects : obj'[p].owner \in {obj[p].owner, Nobody}
    BY <2>1, DeleteKeeps DEF Inv
  <2>3. PassTypes'
    BY <2>1 DEF Inv, PassTypes
  <2>4. Pruned'
    BY <2>1, <2>2 DEF Inv, Pruned
  <2> QED
    BY <2>2, <2>3, <2>4 DEF Inv, SpecTypes, DepTypes, CountTypes, history
<1>8. CASE ListConfigMaps
  <2> USE <1>8 DEF ListConfigMaps
  <2>1. ObjInv'
    BY SameObjects DEF Inv
  <2>2. cur \in Apps /\ StaleConfigMaps \subseteq Objects
        /\ \A o \in StaleConfigMaps : seen[o].owner = cur
    BY DEF Inv, PassTypes, StaleConfigMaps
  <2>3. PassTypes'
    BY <2>2 DEF Inv, PassTypes
  <2>4. Pruned'
    BY <2>2 DEF Inv, ObjInv, Kept, Pruned, objVars
  <2> QED
    BY <2>1, <2>3, <2>4 DEF Inv, SpecTypes, DepTypes, CountTypes, history
<1>9. CASE ReconcileDeployment
  <2> USE <1>9 DEF ReconcileDeployment
  <2>1. ObjInv'
    BY SameObjects DEF Inv
  <2>2. cur \in Apps /\ DOMAIN PodTemplate(snap) \subseteq Entries[cur]
    BY DEF Inv, PassTypes, PodTemplate, Declared
  <2>3. DepTypes'
    <3> HIDE DEF PodTemplate
    <3> QED
      BY <2>2 DEF Inv, DepTypes
  <2>4. PassTypes' /\ Pruned'
    BY DEF Inv, PassTypes, Pruned
  <2> QED
    BY <2>1, <2>3, <2>4 DEF Inv, SpecTypes, CountTypes, history
<1>10. CASE ReconcileService
  <2> USE <1>10 DEF ReconcileService
  <2>1. cur \in Apps /\ Service \in Entries[cur] /\ pc = "service"
    BY DEF Inv, PassTypes, Entries
  <2>2. Object(cur, Service) \in Objects
    BY <2>1, ObjectOfEntry
  <2>3. PassOver
    BY DEF Refused, Abort
  <2>4. queued' = queued \/ queued' = queued \cup {cur}
    BY DEF Refused, Abort
  <2>5. ObjInv'
    <3>1. CASE Write(Service)
      BY <3>1, <2>1, WriteKeeps
    <3>2. CASE UNCHANGED <<obj, unseen>>
      BY <3>2, SameObjects DEF Inv, objVars
    <3>3. CASE Delete(Object(cur, Service))
      BY <3>3, <2>2, DeleteKeeps DEF Inv
    <3> QED
      BY <3>1, <3>2, <3>3 DEF Refused
  <2>6. CountTypes'
    BY <2>1, <2>4 DEF Inv, CountTypes, history
  <2> QED
    BY <2>3, <2>5, <2>6, OverIsIdle DEF Inv, SpecTypes, DepTypes
<1>11. CASE CallFails
  <2> USE <1>11 DEF CallFails, Abort
  <2>1. ObjInv'
    BY SameObjects DEF Inv
  <2>2. CountTypes'
    BY ConstantsAssumption DEF Inv, CountTypes, PassTypes, history
  <2> QED
    BY <2>1, <2>2, OverIsIdle DEF Inv, SpecTypes, DepTypes
<1>12. CASE UNCHANGED vars
  <2> USE <1>12 DEF vars
  <2>1. ObjInv'
    BY SameObjects DEF Inv
  <2> QED
    BY <2>1 DEF Inv, SpecTypes, DepTypes, PassTypes, CountTypes, Pruned,
                passVars, objVars, history, Declared
<1> QED
  BY <1>1, <1>2, <1>3, <1>4, <1>5, <1>6, <1>7, <1>8, <1>9, <1>10, <1>11, <1>12
     DEF Next, Pass

(* and so always holds. *)
LEMMA InvAlways == Spec => []Inv
BY InitInv, NextInv, PTL DEF Spec

-----------------------------------------------------------------------------

(* Every variable keeps its type, whatever the apps and their names are. *)
THEOREM TypeCorrect == Spec => []TypeOK
<1>1. Inv => TypeOK
  BY DEF Inv, ObjInv, ObjTypes, SpecTypes, DepTypes, PassTypes, CountTypes,
         TypeOK, ObjType, Data
<1> QED
  BY <1>1, InvAlways, PTL

(* Pruning only meets the app's own ConfigMaps, or nobody's. *)
THEOREM PruningIsSafe == Spec => PrunesOnlyOwn
<1>1. ASSUME Inv
      PROVE  [\A o \in Objects :
                PruneConfigMap(o) => obj[o].owner \in {cur, Nobody}]_vars
  BY <1>1 DEF Inv, Pruned, PruneConfigMap
<1> QED
  BY <1>1, InvAlways, PTL DEF Spec, PrunesOnlyOwn

(* No step hands an object from one app to another. *)
THEOREM ObjectsAreNotSeized == Spec => NeverSeizes
<1> USE NobodyIsNoApp
<1>1. ASSUME Inv, [Next]_vars
      PROVE  [\A o \in Objects :
                obj[o].owner \in Apps /\ obj'[o].owner \in Apps
                  => obj'[o].owner = obj[o].owner]_vars
  <2> SUFFICES ASSUME NEW p \in Objects, obj[p].owner \in Apps,
                      obj'[p].owner \in Apps, obj'[p].owner # obj[p].owner
               PROVE  FALSE
    OBVIOUS
  <2> USE <1>1
  <2>1. obj' # obj
    OBVIOUS
  <2>2. ASSUME pc # "idle", NEW e \in Entries[cur], Write(e), seen' = seen
        PROVE  FALSE
    BY <2>2, WriteKeeps
  <2>3. ASSUME NEW o \in Objects, Delete(o), seen' = seen PROVE FALSE
    BY <2>3, DeleteKeeps DEF Inv
  <2>4. ASSUME NEW o \in Objects,
               NEW x \in {Absent} \cup {Owned(Nobody, q) : q \in Ports},
               ByHand(o, x)
        PROVE  FALSE
    <3>1. x.owner = Nobody
      BY ObjectValues DEF Data
    <3>2. obj'[p] = IF p = o THEN x ELSE obj[p]
      BY <2>4 DEF ByHand, Put, Inv, ObjInv, ObjTypes
    <3> QED
      BY <3>1, <3>2
  <2>5. ASSUME NEW e \in todo, ReconcileConfigMap(e) PROVE FALSE
    <3>1. e \in Entries[cur] /\ pc # "idle" /\ seen' = seen
      BY <2>5 DEF ReconcileConfigMap, Inv, PassTypes, Declared
    <3> QED
      BY <2>1, <2>2, <2>5, <3>1 DEF ReconcileConfigMap, Refused
  <2>6. ASSUME NEW o \in todo, PruneConfigMap(o) PROVE FALSE
    <3>1. o \in Objects /\ seen' = seen /\ Delete(o)
      BY <2>6 DEF PruneConfigMap, Inv, PassTypes
    <3> QED
      BY <2>3, <3>1
  <2>7. CASE ReconcileService
    <3>1. /\ Service \in Entries[cur] /\ pc # "idle" /\ seen' = seen
          /\ Object(cur, Service) \in Objects
      BY <2>7, ObjectOfEntry DEF ReconcileService, Inv, PassTypes, Entries
    <3> QED
      BY <2>1, <2>2, <2>3, <2>7, <3>1 DEF ReconcileService, Refused
  <2>8. CASE \/ \E a \in Apps : Begin(a) \/ StartPods(a)
             \/ \E a \in Apps, c \in Contents \cup Ports \cup {Nothing} :
                  \E e \in Entries[a] : UserEdit(a, e, c)
             \/ \E o \in Objects : Deliver(o)
             \/ ListConfigMaps \/ ReconcileDeployment \/ CallFails
             \/ UNCHANGED vars
    BY <2>1, <2>8 DEF Begin, StartPods, UserEdit, Deliver, ListConfigMaps,
                      ReconcileDeployment, CallFails, objVars, vars
  <2> QED
    BY <2>4, <2>5, <2>6, <2>7, <2>8 DEF Next, Pass
<1> QED
  BY <1>1, InvAlways, PTL DEF Spec, NeverSeizes
-----------------------------------------------------------------------------
(* What is true when everything has fallen silent. *)

(* An event for app a is queued, or will be once the informer has caught up
   with object o. *)
Noticed(a, o) == a \in queued \/ (Stale(o) /\ a \in OwnersOf(o))

(* The informer will learn of the controller an object has. *)
OwnerKnown ==
  \A o \in Objects : obj[o].owner \in unseen[o] \cup {seen[o].owner}

(* The object of entry e is as the spec wants it, or a hears of it. *)
Meets(a, e) ==
  \/ Noticed(a, Object(a, e))
  \/ IF spec[a][e] # Nothing THEN obj[Object(a, e)] = Owned(a, spec[a][e])
                             ELSE obj[Object(a, e)].owner # a

(* The pass has dealt with entry e. *)
Visited(e) ==
  /\ e.kind = "ConfigMap"
  /\ IF snap[e] # Nothing THEN pc # "configmaps" \/ e \notin todo
     ELSE pc = "service" \/ (pc = "pruneConfigMaps" /\ Object(cur, e) \notin todo)

(* The pass works from the spec as it is, or there will be another. *)
SnapCurrent == cur \in Apps => cur \in queued \/ snap = spec[cur]

(* Entries meet the spec unless the pass under way has yet to visit them. *)
Dealt ==
  \A a \in Apps : \A e \in Entries[a] : a # cur \/ Visited(e) => Meets(a, e)

(* The template is that of the spec, or a pass will bring it there. *)
DepCurrent ==
  \A a \in Apps : \/ a \in queued \/ (a = cur /\ pc # "service")
                  \/ dep[a] = PodTemplate(spec[a])

(* The invariant behind the part of SettledObjects about objects. *)
RestInv == OwnerKnown /\ SnapCurrent /\ Dealt /\ DepCurrent

(* Pods and past are functions of the apps, and pods have read a file for
   every entry their template names. *)
PodTypes ==
  /\ pods = [a \in Apps |-> pods[a]] /\ past = [a \in Apps |-> past[a]]
  /\ \A a \in Apps : DOMAIN pods[a].files = DOMAIN pods[a].template

(* What an entry declares is of its kind. *)
Kinds ==
  \A a \in Apps : \A e \in Entries[a] :
    /\ spec[a][e] \in Values(e.kind) \cup {Nothing}
    /\ cur = a => snap[e] \in Values(e.kind) \cup {Nothing}

(* x is app a's, with contents c. *)
Has(x, a, c) == x.owner = a /\ x.data = c

(* The template t has the hash of contents c for entry e. *)
Hashed(t, e, c) == e \in DOMAIN t /\ t[e] = Stream(c)

(* The template t has no hash but of contents the entry has had. *)
HashesPast(t, a, e) ==
  e \in DOMAIN t => \E c \in Contents : <<e, c>> \in past[a] /\ t[e] = Stream(c)

(* Whatever there is of an entry comes from contents it has had. *)
Traced(a, e) ==
  /\ seen[Object(a, e)].owner = a => <<e, seen[Object(a, e)].data>> \in past[a]
  /\ obj[Object(a, e)].owner = a => <<e, obj[Object(a, e)].data>> \in past[a]
  /\ HashesPast(dep[a], a, e) /\ HashesPast(pods[a].template, a, e)
  /\ cur = a /\ snap[e] # Nothing => <<e, snap[e]>> \in past[a]
  /\ spec[a][e] # Nothing => <<e, spec[a][e]>> \in past[a]

(* The object, if it is the app's, has the contents of the spec. *)
Holds(a, e) == obj[Object(a, e)].owner = a => obj[Object(a, e)].data = spec[a][e]

(* What is known of an entry whose contents are new to it. *)
Fits(a, e) ==
  LET c == spec[a][e] IN
  /\ Has(seen[Object(a, e)], a, c) => Holds(a, e)
  /\ Hashed(dep[a], e, c) => Holds(a, e)
  /\ cur = a /\ snap[e] = c /\ (pc # "configmaps" \/ e \notin todo) => Holds(a, e)
  /\ cur = a /\ snap[e] # c =>
       /\ ~Has(seen[Object(a, e)], a, c) /\ ~Has(obj[Object(a, e)], a, c)
       /\ ~Hashed(dep[a], e, c)
  /\ Hashed(pods[a].template, e, c) /\ pods[a].files[e].owner = a
       => pods[a].files[e].data = c

(* Such an entry fits. *)
FirstTime(a, e) == spec[a][e] # Nothing /\ <<a, e>> \notin back => Fits(a, e)

(* The invariant behind the part of SettledObjects about pods. *)
PodInv ==
  /\ PodTypes /\ Kinds
  /\ \A a \in Apps : \A e \in Entries[a] :
       e.kind = "ConfigMap" => Traced(a, e) /\ FirstTime(a, e)
-----------------------------------------------------------------------------
(* The operators. *)

(* An entry is a ConfigMap or the Service. *)
LEMMA EntryKinds ==
  ASSUME NEW a \in Apps, NEW e \in Entries[a]
  PROVE  /\ e.kind \in {"ConfigMap", "Service"} /\ e.name \in Seq(STRING)
         /\ e = [kind |-> e.kind, name |-> e.name]
         /\ e.kind = "Service" => e = Service
<1>1. e \in {ConfigMap(n) : n \in Names[a]} \cup {Service}
  BY DEF Entries
<1>2. Names[a] \in SUBSET Seq(STRING)
  BY ConstantsAssumption
<1>3. CASE e = Service
  BY <1>3 DEF Service
<1>4. ASSUME NEW n \in Names[a], e = ConfigMap(n)
      PROVE  e = [kind |-> "ConfigMap", name |-> n] /\ n \in Seq(STRING)
  BY <1>2, <1>4 DEF ConfigMap
<1> QED BY <1>1, <1>3, <1>4

(* One app's entries come to different objects. *)
LEMMA ObjectInjective ==
  ASSUME NEW a \in Apps, NEW e \in Entries[a], NEW f \in Entries[a],
         Object(a, e) = Object(a, f)
  PROVE  e = f
<1>1. a \in Seq(STRING) /\ e.name \in Seq(STRING) /\ f.name \in Seq(STRING)
  BY ConstantsAssumption, EntryKinds
<1>2. e.kind = f.kind /\ a \o e.name = a \o f.name
  BY DEF Object
<1>3. ASSUME NEW s \in Seq(STRING), NEW t \in Seq(STRING), a \o s = a \o t
      PROVE  s = t
  <2>1. Len(a \o s) = Len(a) + Len(s) /\ Len(a \o t) = Len(a) + Len(t)
    BY <1>1
  <2>2. Len(s) = Len(t)
    BY <1>1, <1>3, <2>1
  <2>3. ASSUME NEW i \in 1..Len(s) PROVE s[i] = t[i]
    <3>1. (a \o s)[Len(a) + i] = s[i] /\ (a \o t)[Len(a) + i] = t[i]
      BY <1>1, <2>2
    <3> QED BY <3>1, <1>3
  <2> QED BY <2>2, <2>3
<1>4. e.name = f.name
  BY <1>1, <1>2, <1>3
<1> QED BY <1>2, <1>4, EntryKinds

-----------------------------------------------------------------------------
(* Events are not lost. *)

(* Objects are left alone, or one of them is written. *)
Touched ==
  \/ UNCHANGED objVars
  \/ seen' = seen /\ \E o \in Objects, x \in ObjType : Put(o, x)

(* A deletion writes one object at most, *)
LEMMA DeleteTouches ==
  ASSUME NEW o \in Objects, Delete(o), seen' = seen
  PROVE  Touched
BY ObjectValues DEF Delete, Touched, objVars

(* and so does CreateOrUpdate. *)
LEMMA WriteTouches ==
  ASSUME Inv, pc # "idle", NEW e \in Entries[cur], Write(e), seen' = seen
  PROVE  Touched
<1>1. cur \in Apps /\ snap[e] \in Data
  BY DEF Inv, PassTypes
<1>2. Object(cur, e) \in Objects /\ Owned(cur, snap[e]) \in ObjType
  BY <1>1, ObjectOfEntry, ObjectValues
<1> QED BY <1>2 DEF Write, Touched, objVars

(* Whoever controls an object before or after a write hears of it. *)
LEMMA PutNotices ==
  ASSUME ObjInv, OwnerKnown, NEW o \in Objects, NEW x \in ObjType, Put(o, x),
         seen' = seen
  PROVE  /\ OwnerKnown'
         /\ \A p \in Objects : obj'[p] = IF p = o THEN x ELSE obj[p]
         /\ \A a \in Apps : (a = obj[o].owner \/ a = x.owner)
              => Stale(o)' /\ a \in OwnersOf(o)'
         /\ \A a \in Apps, p \in Objects : Stale(p) /\ a \in OwnersOf(p)
              => Stale(p)' /\ a \in OwnersOf(p)'
<1>1. \A p \in Objects :
        /\ obj'[p] = IF p = o THEN x ELSE obj[p]
        /\ unseen'[p] = IF p = o THEN unseen[p] \cup {x.owner} ELSE unseen[p]
  BY DEF Put, ObjInv, ObjTypes
<1>2. OwnerKnown'
  BY <1>1 DEF OwnerKnown
<1> QED BY <1>1, <1>2 DEF OwnerKnown, Stale, OwnersOf

(* The same for a step that may write an object. *)
LEMMA TouchedNotices ==
  ASSUME ObjInv, OwnerKnown, Touched
  PROVE  /\ OwnerKnown'
         /\ \A a \in Apps, p \in Objects :
              /\ Stale(p) /\ a \in OwnersOf(p) => Stale(p)' /\ a \in OwnersOf(p)'
              /\ obj'[p] # obj[p] /\ (a = obj[p].owner \/ a = obj'[p].owner)
                   => Stale(p)' /\ a \in OwnersOf(p)'
<1>1. CASE UNCHANGED objVars
  BY <1>1 DEF objVars, OwnerKnown, Stale, OwnersOf
<1>2. CASE seen' = seen /\ \E o \in Objects, x \in ObjType : Put(o, x)
  <2>1. PICK o \in Objects, x \in ObjType : Put(o, x)
    BY <1>2
  <2> QED BY <1>2, <2>1, PutNotices
<1> QED BY <1>1, <1>2 DEF Touched

(* What meets the spec, or is noticed, stays so, as long as the spec does. *)
LEMMA MeetsKept ==
  ASSUME ObjInv, OwnerKnown, Touched, NEW a \in Apps, NEW e \in Entries[a],
         spec'[a][e] = spec[a][e], a \in queued => a \in queued', Meets(a, e)
  PROVE  Meets(a, e)'
<1> DEFINE o == Object(a, e)
<1>1. o \in Objects
  BY ObjectOfEntry
<1>2. CASE Noticed(a, o)
  BY <1>1, <1>2, TouchedNotices DEF Noticed, Meets
<1>3. CASE ~Noticed(a, o)
  <2>1. IF spec[a][e] # Nothing THEN obj[o] = Owned(a, spec[a][e])
                                ELSE obj[o].owner # a
    BY <1>3 DEF Meets
  <2>2. CASE obj'[o] = obj[o]
    BY <2>1, <2>2 DEF Meets
  <2>3. CASE obj'[o] # obj[o]
    <3>1. spec[a][e] # Nothing => obj[o].owner = a
      BY <2>1 DEF Owned
    <3>2. spec[a][e] # Nothing => Stale(o)' /\ a \in OwnersOf(o)'
      BY <1>1, <2>3, <3>1, TouchedNotices
    <3>3. obj'[o].owner = a => Stale(o)' /\ a \in OwnersOf(o)'
      BY <1>1, <2>3, TouchedNotices
    <3> QED BY <3>2, <3>3 DEF Meets, Noticed
  <2> QED BY <2>2, <2>3
<1> QED BY <1>2, <1>3

(* The object of an app that neither its copy nor the stored version show as
   the app's is not the app's, or the app will hear of it. *)
LEMMA NotSeenNotOwned ==
  ASSUME ObjInv, OwnerKnown, NEW a \in Apps, NEW o \in Objects, seen[o].owner # a
  PROVE  obj[o].owner # a \/ (Stale(o) /\ a \in OwnersOf(o))
BY DEF ObjInv, OwnerKnown, Fresh, Stale, OwnersOf

(* CreateOrUpdate leaves the object as wanted, or an event will tell. *)
LEMMA WriteMeets ==
  ASSUME Inv, RestInv, NEW a \in Apps, cur = a, NEW e \in Entries[a],
         pc # "idle", snap[e] # Nothing,
         Write(e), seen' = seen, spec' = spec, queued' = queued
  PROVE  Meets(a, e)'
<1> DEFINE o == Object(a, e)
<1>0. PICK c : c = snap[e]
  OBVIOUS
<1> DEFINE want == Owned(a, c)
<1>1. c \in Data /\ o \in Objects
  BY <1>0, ObjectOfEntry DEF Inv, PassTypes
<1>2. want \in ObjType /\ want.owner = a
  BY <1>1, ObjectValues
<1>3. a \in queued \/ c = spec[a][e]
  BY <1>0 DEF RestInv, SnapCurrent
<1>4. CASE seen[o] = want
  <2>1. UNCHANGED <<obj, unseen>>
    BY <1>0, <1>4 DEF Write
  <2>2. obj[o] = want \/ (Stale(o) /\ a \in OwnersOf(o))
    BY <1>1, <1>2, <1>4 DEF Inv, ObjInv, Fresh, OwnersOf
  <2> QED BY <1>0, <1>3, <2>1, <2>2 DEF Meets, Noticed, Stale, OwnersOf
<1>5. CASE seen[o] # want
  <2>1. Put(o, want)
    BY <1>0, <1>5 DEF Write
  <2>2. Stale(o)' /\ a \in OwnersOf(o)'
    BY <1>1, <1>2, <2>1, PutNotices DEF Inv, RestInv
  <2> QED BY <2>2 DEF Meets, Noticed
<1> QED BY <1>4, <1>5

(* A deletion leaves nothing of the app, or an event will tell. *)
LEMMA DeleteMeets ==
  ASSUME ObjInv, NEW a \in Apps, NEW e \in Entries[a], Delete(Object(a, e)),
         spec' = spec, spec[a][e] = Nothing
  PROVE  Meets(a, e)'
<1> DEFINE o == Object(a, e)
<1>1. o \in Objects
  BY ObjectOfEntry
<1>2. obj'[o].owner = Nobody
  <2>1. CASE obj[o].exists
    BY <1>1, <2>1, ObjectValues DEF Delete, Put, ObjInv, ObjTypes
  <2>2. CASE ~obj[o].exists
    BY <1>1, <2>2 DEF Delete, ObjInv, Ownerless
  <2> QED BY <2>1, <2>2
<1> QED BY <1>2, NobodyIsNoApp DEF Meets
-----------------------------------------------------------------------------

(* RestInv holds initially. *)
LEMMA RestInit == Init => RestInv
<1> SUFFICES ASSUME Init PROVE RestInv
  OBVIOUS
<1>1. /\ \A o \in Objects : obj[o] = Absent /\ seen[o] = Absent /\ unseen[o] = {}
      /\ \A a \in Apps : \A e \in Entries[a] : spec[a][e] = Nothing
      /\ cur = Nobody /\ queued = {}
  BY DEF Init
<1>2. OwnerKnown /\ SnapCurrent
  BY <1>1, NobodyIsNoApp DEF OwnerKnown, SnapCurrent
<1>3. Dealt
  BY <1>1, NobodyIsNoApp, ObjectValues, ObjectOfEntry DEF Dealt, Meets
<1>4. DepCurrent
  <2> SUFFICES ASSUME NEW a \in Apps PROVE dep[a] = PodTemplate(spec[a])
    BY DEF DepCurrent
  <2>1. dep[a] = <<>> /\ Declared(spec[a], "ConfigMap") = {}
    BY DEF Init, Declared, Nothing
  <2> QED BY <2>1 DEF PodTemplate
<1> QED BY <1>2, <1>3, <1>4 DEF RestInv

(* A step by which no app is forgotten: objects are left alone or written,
   specs stay, and whoever was queued still is. *)
LEMMA MeetsAllKept ==
  ASSUME Inv, RestInv, Touched, UNCHANGED spec, queued \subseteq queued'
  PROVE  /\ OwnerKnown'
         /\ \A a \in Apps : \A e \in Entries[a] : Meets(a, e) => Meets(a, e)'
         /\ \A a \in Apps : \A e \in Entries[a] : a # cur => Meets(a, e)'
<1>1. OwnerKnown'
  BY TouchedNotices DEF Inv, RestInv
<1>2. ASSUME NEW a \in Apps, NEW e \in Entries[a], Meets(a, e) PROVE Meets(a, e)'
  BY <1>2, MeetsKept DEF Inv, RestInv
<1> QED BY <1>1, <1>2 DEF RestInv, Dealt

(* A pass that fails leaves its app queued, and forgets nothing else. *)
LEMMA AbortRests ==
  ASSUME Inv, RestInv, pc # "idle", UNCHANGED <<objVars, spec, dep>>, Abort
  PROVE  RestInv'
<1>1. Touched /\ queued' = queued \cup {cur} /\ cur \in Apps /\ cur' = Nobody
  BY DEF Touched, Abort, PassOver, Inv, PassTypes
<1>2. SnapCurrent'
  BY <1>1, NobodyIsNoApp DEF SnapCurrent
<1>3. OwnerKnown' /\ \A a \in Apps : \A e \in Entries[a] : a # cur => Meets(a, e)'
  BY <1>1, MeetsAllKept
<1>4. Dealt'
  <2> SUFFICES ASSUME NEW a \in Apps, NEW e \in Entries[a] PROVE Meets(a, e)'
    BY DEF Dealt
  <2>1. CASE a = cur
    BY <2>1, <1>1 DEF Meets, Noticed
  <2> QED BY <2>1, <1>3
<1>5. DepCurrent'
  BY <1>1 DEF RestInv, DepCurrent, objVars
<1> QED BY <1>2, <1>3, <1>4, <1>5 DEF RestInv

(* Every step keeps RestInv. *)
LEMMA RestStep ==
  ASSUME Inv, RestInv, [Next]_vars
  PROVE  RestInv'
<1> USE NobodyIsNoApp
<1>0. /\ pc = "idle" => cur = Nobody
      /\ pc # "idle" => cur \in Apps
      /\ spec = [a \in Apps |-> spec[a]] /\ dep = [a \in Apps |-> dep[a]]
      /\ \A a \in Apps : spec[a] \in [Entries[a] -> Data]
  BY DEF Inv, PassTypes, SpecTypes, DepTypes
<1>1. ASSUME NEW a \in Apps, NEW e \in Entries[a],
             NEW c \in Contents \cup Ports \cup {Nothing}, UserEdit(a, e, c)
      PROVE  RestInv'
  <2>1. /\ Touched /\ queued' = queued \cup {a}
        /\ UNCHANGED <<obj, seen, unseen, dep, pc, cur, snap, todo>>
    BY <1>1 DEF UserEdit, Touched, passVars, objVars
  <2>2. \A b \in Apps : b # a => spec'[b] = spec[b]
    BY <1>0, <1>1 DEF UserEdit
  <2>3. OwnerKnown'
    BY <2>1, TouchedNotices DEF Inv, RestInv
  <2>4. SnapCurrent'
    BY <2>1, <2>2 DEF RestInv, SnapCurrent
  <2>5. Dealt'
    <3> SUFFICES ASSUME NEW b \in Apps, NEW f \in Entries[b],
                        b # cur' \/ Visited(f)'
                 PROVE  Meets(b, f)'
      BY DEF Dealt
    <3>1. CASE b = a
      BY <3>1, <2>1 DEF Meets, Noticed
    <3>2. CASE b # a
      <4>1. Meets(b, f)
        BY <2>1 DEF RestInv, Dealt, Visited
      <4> QED BY <2>1, <2>2, <3>2, <4>1, MeetsKept DEF Inv, RestInv
    <3> QED BY <3>1, <3>2
  <2>6. DepCurrent'
    BY <2>1, <2>2 DEF RestInv, DepCurrent
  <2> QED BY <2>3, <2>4, <2>5, <2>6 DEF RestInv
<1>2. ASSUME NEW o \in Objects,
             NEW x \in {Absent} \cup {Owned(Nobody, p) : p \in Ports},
             ByHand(o, x)
      PROVE  RestInv'
  <2>0. x \in ObjType
    BY ObjectValues DEF Data
  <2>1. Touched /\ UNCHANGED <<spec, dep, queued, pc, cur, snap, todo>>
    BY <1>2, <2>0 DEF ByHand, Touched, passVars
  <2>2. Dealt' /\ OwnerKnown'
    BY <2>1, MeetsAllKept DEF RestInv, Dealt, Visited
  <2> QED BY <2>1, <2>2 DEF RestInv, SnapCurrent, DepCurrent
<1>3. ASSUME NEW o \in Objects, Deliver(o) PROVE RestInv'
  <2>1. /\ queued' = queued \cup OwnersOf(o)
        /\ UNCHANGED <<spec, obj, dep, pc, cur, snap, todo>>
    BY <1>3 DEF Deliver, passVars
  <2>2. \A p \in Objects : /\ p # o => seen'[p] = seen[p] /\ unseen'[p] = unseen[p]
                           /\ p = o => seen'[p] = obj[p] /\ unseen'[p] = {}
    BY <1>3 DEF Deliver, Inv, ObjInv, ObjTypes
  <2>3. OwnerKnown'
    BY <2>1, <2>2 DEF RestInv, OwnerKnown
  <2>4. ASSUME NEW a \in Apps, NEW e \in Entries[a], Meets(a, e) PROVE Meets(a, e)'
    <3>1. Object(a, e) \in Objects
      BY ObjectOfEntry
    <3> QED BY <2>1, <2>2, <2>4, <3>1 DEF Meets, Noticed, Stale, OwnersOf
  <2>5. Dealt'
    BY <2>1, <2>4 DEF RestInv, Dealt, Visited
  <2> QED BY <2>1, <2>3, <2>5 DEF RestInv, SnapCurrent, DepCurrent
<1>4. CASE (\E a \in Apps : StartPods(a)) \/ UNCHANGED vars
  <2>1. UNCHANGED <<spec, obj, seen, unseen, dep, queued, pc, cur, snap, todo>>
    BY <1>4 DEF StartPods, vars, objVars, passVars
  <2>2. Touched
    BY <2>1 DEF Touched, objVars
  <2>3. Dealt' /\ OwnerKnown'
    BY <2>1, <2>2, MeetsAllKept DEF RestInv, Dealt, Visited
  <2> QED BY <2>1, <2>3 DEF RestInv, SnapCurrent, DepCurrent
<1>5. ASSUME NEW a \in Apps, Begin(a) PROVE RestInv'
  <2>1. /\ UNCHANGED <<spec, obj, seen, unseen, dep>> /\ queued' = queued \ {a}
        /\ cur' = a /\ snap' = spec[a] /\ pc' = "configmaps" /\ pc = "idle"
        /\ todo' = Declared(spec[a], "ConfigMap")
    BY <1>5 DEF Begin, objVars
  <2>2. Touched
    BY <2>1 DEF Touched, objVars
  <2>3. OwnerKnown' /\ SnapCurrent'
    BY <2>1, <2>2, TouchedNotices DEF Inv, RestInv, SnapCurrent
  <2>4. Dealt'
    <3> SUFFICES ASSUME NEW b \in Apps, NEW f \in Entries[b],
                        b # cur' \/ Visited(f)'
                 PROVE  Meets(b, f)'
      BY DEF Dealt
    <3>1. b # a
      BY <1>0, <2>1 DEF Visited, Declared
    <3>2. Meets(b, f)
      BY <1>0, <2>1 DEF RestInv, Dealt
    <3> QED BY <2>1, <2>2, <3>1, <3>2, MeetsKept DEF Inv, RestInv
  <2>5. DepCurrent'
    BY <1>0, <2>1 DEF RestInv, DepCurrent
  <2> QED BY <2>3, <2>4, <2>5 DEF RestInv
<1>6. ASSUME NEW e \in todo, ReconcileConfigMap(e) PROVE RestInv'
  <2>0. /\ pc = "configmaps" /\ cur \in Apps /\ e \in Entries[cur]
        /\ snap[e] # Nothing /\ UNCHANGED <<spec, seen, dep>>
    BY <1>6 DEF ReconcileConfigMap, Inv, PassTypes, Declared
  <2>1. CASE Refused(e)
    BY <2>0, <2>1, AbortRests DEF Refused, objVars
  <2>2. CASE Write(e) /\ todo' = todo \ {e} /\ UNCHANGED <<pc, cur, snap, queued>>
    <3>1. Touched
      BY <2>0, <2>2, WriteTouches
    <3>2. PICK a \in Apps : a = cur
      BY <2>0
    <3>3. Meets(a, e)'
      BY <2>0, <2>2, <3>2, WriteMeets
    <3>4. Dealt' /\ OwnerKnown'
      BY <2>0, <2>2, <3>1, <3>2, <3>3, MeetsAllKept DEF RestInv, Dealt, Visited
    <3> QED BY <2>0, <2>2, <3>4 DEF RestInv, SnapCurrent, DepCurrent
  <2> QED BY <1>6, <2>1, <2>2 DEF ReconcileConfigMap
<1>7. ASSUME NEW o \in todo, PruneConfigMap(o) PROVE RestInv'
  <2>0. /\ pc = "pruneConfigMaps" /\ cur \in Apps /\ o \in Objects /\ Delete(o)
        /\ todo' = todo \ {o}
        /\ UNCHANGED <<spec, seen, dep, queued, pc, cur, snap>>
    BY <1>7 DEF PruneConfigMap, Inv, PassTypes
  <2>1. Touched
    BY <2>0, DeleteTouches
  <2>2. PICK a \in Apps : a = cur
    BY <2>0
  <2>3. ASSUME NEW f \in Entries[a], Object(a, f) = o, snap[f] = Nothing
        PROVE  Meets(a, f)'
    <3>1. CASE snap = spec[a]
      BY <2>0, <2>3, <3>1, DeleteMeets DEF Inv
    <3>2. CASE a \in queued
      BY <2>0, <3>2 DEF Meets, Noticed
    <3> QED BY <2>2, <3>1, <3>2 DEF RestInv, SnapCurrent
  <2>4. Dealt' /\ OwnerKnown'
    BY <2>0, <2>1, <2>2, <2>3, MeetsAllKept DEF RestInv, Dealt, Visited
  <2> QED BY <2>0, <2>4 DEF RestInv, SnapCurrent, DepCurrent
<1>8. CASE ListConfigMaps
  <2>0. /\ pc = "configmaps" /\ todo = {} /\ cur \in Apps
        /\ pc' = "pruneConfigMaps" /\ todo' = StaleConfigMaps
        /\ UNCHANGED <<spec, obj, seen, unseen, dep, queued, cur, snap>>
    BY <1>0, <1>8 DEF ListConfigMaps, objVars
  <2>1. Touched
    BY <2>0 DEF Touched, objVars
  <2>2. PICK a \in Apps : a = cur
    BY <2>0
  <2>3. ASSUME NEW f \in Entries[a], f.kind = "ConfigMap", snap[f] = Nothing,
               Object(a, f) \notin StaleConfigMaps
        PROVE  Meets(a, f)'
    <3>1. Object(a, f) \in Objects /\ Object(a, f).kind = "ConfigMap"
      BY <2>3, ObjectOfEntry DEF Object
    <3>2. ASSUME NEW g \in Declared(snap, "ConfigMap") PROVE Object(a, f) # Object(a, g)
      <4>1. g \in Entries[a] /\ snap[g] # Nothing
        BY <2>2, <2>0, <3>2 DEF Declared, Inv, PassTypes
      <4> QED BY <4>1, <2>3, ObjectInjective
    <3>3. seen[Object(a, f)].owner # a
      BY <2>2, <2>3, <3>1, <3>2 DEF StaleConfigMaps
    <3>4. obj[Object(a, f)].owner # a \/ (Stale(Object(a, f)) /\ a \in OwnersOf(Object(a, f)))
      BY <3>1, <3>3, NotSeenNotOwned DEF Inv, RestInv
    <3>5. a \in queued \/ spec[a][f] = Nothing
      BY <2>2, <2>3 DEF RestInv, SnapCurrent
    <3> QED BY <2>0, <3>4, <3>5 DEF Meets, Noticed, Stale, OwnersOf
  <2>4. Dealt' /\ OwnerKnown'
    BY <2>0, <2>1, <2>2, <2>3, MeetsAllKept DEF RestInv, Dealt, Visited
  <2> QED BY <2>0, <2>4 DEF RestInv, SnapCurrent, DepCurrent
<1>9. CASE ReconcileDeployment
  <2>0. /\ pc = "pruneConfigMaps" /\ todo = {} /\ cur \in Apps
        /\ pc' = "service" /\ dep' = [dep EXCEPT ![cur] = PodTemplate(snap)]
        /\ UNCHANGED <<spec, obj, seen, unseen, queued, cur, snap, todo>>
    BY <1>0, <1>9 DEF ReconcileDeployment, objVars
  <2>1. Touched
    BY <2>0 DEF Touched, objVars
  <2>2. Dealt' /\ OwnerKnown'
    BY <2>0, <2>1, MeetsAllKept DEF RestInv, Dealt, Visited
  <2>3. DepCurrent'
    <3> SUFFICES ASSUME NEW a \in Apps, a \notin queued
                 PROVE  dep'[a] = PodTemplate(spec[a])
      BY <2>0 DEF DepCurrent, PodTemplate
    <3>1. CASE a = cur
      BY <1>0, <2>0, <3>1 DEF RestInv, SnapCurrent
    <3>2. CASE a # cur
      BY <1>0, <2>0, <3>2 DEF RestInv, DepCurrent
    <3> QED BY <3>1, <3>2
  <2> QED BY <2>0, <2>2, <2>3 DEF RestInv, SnapCurrent
<1>10. CASE ReconcileService
  <2>0. /\ pc = "service" /\ cur \in Apps /\ Service \in Entries[cur]
        /\ UNCHANGED <<spec, seen, dep>>
    BY <1>0, <1>10 DEF ReconcileService, Entries
  <2>1. CASE snap[Service] # Nothing /\ Refused(Service)
    BY <2>0, <2>1, AbortRests DEF Refused, objVars
  <2>2. CASE ~(snap[Service] # Nothing /\ Refused(Service))
    <3>1. PassOver /\ UNCHANGED queued
      BY <1>10, <2>2 DEF ReconcileService
    <3>2. PICK a \in Apps : a = cur
      BY <2>0
    <3>3. /\ Object(a, Service) \in Objects
          /\ a \in queued \/ spec[a][Service] = snap[Service]
      BY <2>0, <3>2, ObjectOfEntry DEF RestInv, SnapCurrent
    <3>4. Touched /\ Meets(a, Service)'
      <4>1. CASE snap[Service] # Nothing /\ Write(Service)
        BY <2>0, <3>1, <3>2, <4>1, WriteTouches, WriteMeets
      <4>2. CASE snap[Service] = Nothing /\ seen[Object(a, Service)].exists
        <5>1. Delete(Object(a, Service))
          BY <1>10, <3>2, <4>2 DEF ReconcileService
        <5>2. CASE a \in queued
          BY <2>0, <3>1, <3>3, <5>1, <5>2, DeleteTouches DEF Meets, Noticed
        <5>3. CASE spec[a][Service] = Nothing
          BY <2>0, <3>2, <3>3, <5>1, <5>3, DeleteTouches, DeleteMeets DEF Inv
        <5> QED BY <3>3, <4>2, <5>2, <5>3
      <4>3. CASE snap[Service] = Nothing /\ ~seen[Object(a, Service)].exists
        <5>1. UNCHANGED <<obj, unseen>>
          BY <1>10, <3>2, <4>3 DEF ReconcileService
        <5>2. seen[Object(a, Service)].owner # a
          BY <3>3, <4>3 DEF Inv, ObjInv, Ownerless
        <5>3. \/ obj[Object(a, Service)].owner # a
              \/ Stale(Object(a, Service)) /\ a \in OwnersOf(Object(a, Service))
          BY <3>3, <5>2, NotSeenNotOwned DEF Inv, RestInv
        <5> QED BY <2>0, <3>1, <3>3, <4>3, <5>1, <5>3
                DEF Meets, Noticed, Stale, OwnersOf, Touched, objVars
      <4> QED BY <1>10, <2>2, <3>2, <4>1, <4>2, <4>3 DEF ReconcileService
    <3>5. Dealt' /\ OwnerKnown'
      <4>1. \A e \in Entries[a] : e = Service \/ Visited(e)
        BY <2>0, <3>2, EntryKinds DEF Visited
      <4>2. \A b \in Apps : \A e \in Entries[b] : Meets(b, e)'
        BY <2>0, <3>1, <3>2, <3>4, <4>1, MeetsAllKept DEF RestInv, Dealt
      <4> QED BY <2>0, <3>1, <3>4, <4>2, MeetsAllKept DEF Dealt
    <3>6. SnapCurrent' /\ DepCurrent'
      BY <2>0, <3>1 DEF RestInv, SnapCurrent, DepCurrent, PassOver
    <3> QED BY <3>5, <3>6 DEF RestInv
  <2> QED BY <2>1, <2>2
<1>11. CASE CallFails
  BY <1>11, AbortRests DEF CallFails
<1> QED
  BY <1>1, <1>2, <1>3, <1>4, <1>5, <1>6, <1>7, <1>8, <1>9, <1>10, <1>11
     DEF Next, Pass
-----------------------------------------------------------------------------
(* One entry of an app through a step. *)

(* The pass has written entry e, or found it written. *)
Worked(e) == pc # "configmaps" \/ e \notin todo

(* What a step may do to the object of entry e. *)
ObjectStep(a, e) ==
  LET o == Object(a, e) IN
  /\ seen'[o] \in {seen[o], obj[o]}
  /\ \/ obj'[o] = obj[o] \/ obj'[o].owner # a
     \/ /\ cur = a /\ snap[e] # Nothing /\ obj'[o] = Owned(a, snap[e])
        /\ cur' = a /\ snap' = snap

(* What it may do to the template and to the pods. *)
RolloutStep(a, e) ==
  /\ \/ dep'[a] = dep[a]
     \/ /\ cur = a /\ dep'[a] = PodTemplate(snap) /\ Worked(e)
        /\ obj'[Object(a, e)] = obj[Object(a, e)]
  /\ \/ pods'[a] = pods[a]
     \/ /\ pods'[a].template = dep[a]
        /\ e \in DOMAIN dep[a] => pods'[a].files[e] = obj[Object(a, e)]

(* Where the pass may get. *)
WorkStep(a, e) ==
  \/ cur' # a
  \/ /\ cur = a /\ snap' = snap
     /\ \/ Worked(e)' => Worked(e)
        \/ snap[e] # Nothing /\ Owned(a, snap[e]) \in {obj'[Object(a, e)],
                                                      seen[Object(a, e)]}
  \/ snap' = spec[a] /\ (spec[a][e] # Nothing => ~Worked(e)')

(* What it may do to the spec and the history. *)
SpecStep(a, e) ==
  /\ past[a] \subseteq past'[a]
  /\ \/ spec'[a][e] = spec[a][e] /\ (<<a, e>> \in back' <=> <<a, e>> \in back)
     \/ /\ <<e, spec'[a][e]>> \in past'[a]
        /\ <<a, e>> \in back' \/ <<e, spec'[a][e]>> \notin past[a]
        /\ UNCHANGED <<obj, seen, dep, pods, cur, snap, pc, todo>>

(* All of it. *)
EntryStep(a, e) ==
  ObjectStep(a, e) /\ RolloutStep(a, e) /\ WorkStep(a, e) /\ SpecStep(a, e)

(* A write of CreateOrUpdate, seen from entry e of app a: it is a's own for e,
   or it does not make the object a's. *)
LEMMA WriteSeenFrom ==
  ASSUME Inv, pc # "idle", NEW f \in Entries[cur], Write(f), seen' = seen,
         NEW a \in Apps, NEW e \in Entries[a], ~(cur = a /\ f = e)
  PROVE  obj'[Object(a, e)] = obj[Object(a, e)] \/ obj'[Object(a, e)].owner # a
<1>1. Object(a, e) \in Objects
  BY ObjectOfEntry
<1>2. CASE cur # a
  BY <1>1, <1>2, WriteKeeps
<1>3. CASE cur = a
  <2>1. f \in Entries[a] /\ Object(a, f) # Object(a, e)
    BY <1>3, ObjectInjective
  <2>2. UNCHANGED obj \/ obj' = [obj EXCEPT ![Object(a, f)] = Owned(cur, snap[f])]
    BY <1>3 DEF Write, Put
  <2> QED BY <1>1, <2>1, <2>2 DEF Inv, ObjInv, ObjTypes
<1> QED BY <1>2, <1>3

(* And a deletion. *)
LEMMA DeleteSeenFrom ==
  ASSUME Inv, NEW o \in Objects, Delete(o), NEW a \in Apps, NEW p \in Objects
  PROVE  obj'[p] = obj[p] \/ obj'[p].owner # a
<1>1. UNCHANGED obj \/ obj' = [obj EXCEPT ![o] = Absent]
  BY DEF Delete, Put
<1> QED BY <1>1, ObjectValues, NobodyIsNoApp DEF Inv, ObjInv, ObjTypes

(* Every step is one of these to every entry of every app. *)
LEMMA StepOfEntry ==
  ASSUME Inv, PodInv, [Next]_vars, NEW a \in Apps, NEW e \in Entries[a],
         e.kind = "ConfigMap"
  PROVE  EntryStep(a, e)
<1> USE NobodyIsNoApp
<1> DEFINE o == Object(a, e)
<1>0. /\ pc = "idle" => cur = Nobody
      /\ pc # "idle" => cur \in Apps /\ snap \in [Entries[cur] -> Data]
      /\ spec = [b \in Apps |-> spec[b]] /\ dep = [b \in Apps |-> dep[b]]
      /\ pods = [b \in Apps |-> pods[b]] /\ past = [b \in Apps |-> past[b]]
      /\ \A b \in Apps : spec[b] \in [Entries[b] -> Data]
      /\ o \in Objects /\ o.kind = "ConfigMap"
      /\ obj = [p \in Objects |-> obj[p]] /\ seen = [p \in Objects |-> seen[p]]
  BY ObjectOfEntry DEF Inv, ObjInv, ObjTypes, PassTypes, SpecTypes, DepTypes,
     PodInv, PodTypes, Object
<1> HIDE DEF o
<1>a. UNCHANGED history /\ UNCHANGED spec => SpecStep(a, e)
  BY DEF SpecStep, history
<1>b. UNCHANGED <<dep, pods>> => RolloutStep(a, e)
  BY DEF RolloutStep
<1>c. seen' = seen /\ (obj'[o] = obj[o] \/ obj'[o].owner # a) => ObjectStep(a, e)
  BY DEF ObjectStep, o
<1>d. UNCHANGED <<cur, snap, pc, todo>> \/ cur' = Nobody => WorkStep(a, e)
  BY DEF WorkStep, Worked
<1>1. ASSUME NEW b \in Apps, NEW f \in Entries[b],
             NEW c \in Contents \cup Ports \cup {Nothing}, UserEdit(b, f, c)
      PROVE  EntryStep(a, e)
  <2>1. UNCHANGED <<obj, seen, dep, pods, pc, cur, snap, todo>>
    BY <1>1 DEF UserEdit, objVars, passVars
  <2>2. SpecStep(a, e)
    <3>1. CASE b = a /\ f = e
      <4>1. /\ spec'[a][e] = c /\ past'[a] = past[a] \cup {<<e, c>>}
            /\ <<e, c>> \in past[a] => <<a, e>> \in back'
        BY <1>0, <1>1, <3>1 DEF UserEdit
      <4> QED BY <2>1, <4>1 DEF SpecStep
    <3>2. CASE ~(b = a /\ f = e)
      <4>1. past[a] \subseteq past'[a]
        BY <1>0, <1>1 DEF UserEdit
      <4>2. spec'[a][e] = spec[a][e]
        BY <1>0, <1>1, <3>2 DEF UserEdit
      <4>3. <<a, e>> # <<b, f>>
        BY <3>2
      <4>4. <<a, e>> \in back' <=> <<a, e>> \in back
        BY <1>1, <4>3 DEF UserEdit
      <4> QED BY <4>1, <4>2, <4>4 DEF SpecStep
    <3> QED BY <3>1, <3>2
  <2> QED BY <1>b, <1>c, <1>d, <2>1, <2>2 DEF EntryStep
<1>2. ASSUME NEW p \in Objects,
             NEW x \in {Absent} \cup {Owned(Nobody, q) : q \in Ports},
             ByHand(p, x)
      PROVE  EntryStep(a, e)
  <2>1. x.owner = Nobody
    BY ObjectValues DEF Data
  <2>2. obj'[o] = obj[o] \/ obj'[o].owner # a
    BY <1>0, <1>2, <2>1 DEF ByHand, Put
  <2> QED BY <1>a, <1>b, <1>c, <1>d, <1>2, <2>2 DEF EntryStep, ByHand, passVars
<1>3. ASSUME NEW p \in Objects, Deliver(p) PROVE EntryStep(a, e)
  <2>1. ObjectStep(a, e)
    BY <1>0, <1>3 DEF Deliver, ObjectStep, o
  <2> QED BY <1>a, <1>b, <1>d, <1>3, <2>1 DEF EntryStep, Deliver, passVars
<1>4. ASSUME NEW b \in Apps, StartPods(b) PROVE EntryStep(a, e)
  <2>1. UNCHANGED <<spec, obj, seen, dep, history, cur, snap, pc, todo>>
    BY <1>4 DEF StartPods, objVars, passVars
  <2>2. RolloutStep(a, e)
    <3>1. CASE b # a
      BY <1>0, <1>4, <2>1, <3>1 DEF StartPods, RolloutStep
    <3>2. CASE b = a
      BY <1>0, <1>4, <2>1, <3>2 DEF StartPods, RolloutStep
    <3> QED BY <3>1, <3>2
  <2> QED BY <1>a, <1>c, <1>d, <2>1, <2>2 DEF EntryStep
<1>5. ASSUME NEW b \in Apps, Begin(b) PROVE EntryStep(a, e)
  <2>1. UNCHANGED <<spec, obj, seen, dep, pods, history>>
    BY <1>5 DEF Begin, objVars
  <2>2. WorkStep(a, e)
    <3>1. CASE b # a
      BY <1>5, <3>1 DEF Begin, WorkStep
    <3>2. CASE b = a
      <4>1. snap' = spec[a] /\ pc' = "configmaps" /\ todo' = Declared(spec[a], "ConfigMap")
        BY <1>5, <3>2 DEF Begin
      <4>2. spec[a][e] # Nothing => e \in todo'
        BY <1>0, <4>1 DEF Declared
      <4> QED BY <4>1, <4>2 DEF WorkStep, Worked
    <3> QED BY <3>1, <3>2
  <2> QED BY <1>a, <1>b, <1>c, <2>1, <2>2 DEF EntryStep
<1>6. ASSUME NEW f \in todo, ReconcileConfigMap(f) PROVE EntryStep(a, e)
  <2>1. /\ pc = "configmaps" /\ f \in Entries[cur] /\ snap[f] # Nothing
        /\ UNCHANGED <<spec, seen, dep, pods, history>>
    BY <1>6 DEF ReconcileConfigMap, Inv, PassTypes, Declared
  <2>2. CASE Refused(f)
    BY <1>a, <1>b, <1>c, <1>d, <2>1, <2>2 DEF EntryStep, Refused, Abort, PassOver
  <2>3. CASE Write(f) /\ todo' = todo \ {f} /\ UNCHANGED <<pc, cur, snap, queued>>
    <3>1. CASE cur = a /\ f = e
      <4>1. \/ seen[o] = Owned(a, snap[e]) /\ obj' = obj
            \/ obj'[o] = Owned(a, snap[e])
        BY <1>0, <2>3, <3>1 DEF Write, Put, o
      <4>2. ObjectStep(a, e)
        BY <2>1, <2>3, <3>1, <4>1 DEF ObjectStep, o
      <4>3. WorkStep(a, e)
        BY <2>1, <2>3, <3>1, <4>1 DEF WorkStep, o
      <4> QED BY <1>a, <1>b, <2>1, <4>2, <4>3 DEF EntryStep
    <3>2. CASE ~(cur = a /\ f = e)
      <4>1. ObjectStep(a, e)
        BY <1>c, <2>1, <2>3, <3>2, WriteSeenFrom DEF o
      <4>2. WorkStep(a, e)
        BY <2>1, <2>3, <3>2 DEF WorkStep, Worked
      <4> QED BY <1>a, <1>b, <2>1, <4>1, <4>2 DEF EntryStep
    <3> QED BY <3>1, <3>2
  <2> QED BY <1>6, <2>2, <2>3 DEF ReconcileConfigMap
<1>7. ASSUME NEW p \in todo, PruneConfigMap(p) PROVE EntryStep(a, e)
  <2>1. /\ p \in Objects /\ Delete(p) /\ pc' # "configmaps" /\ pc # "configmaps"
        /\ UNCHANGED <<spec, seen, dep, pods, history, cur, snap>>
    BY <1>7 DEF PruneConfigMap, Inv, PassTypes
  <2>2. ObjectStep(a, e)
    BY <1>0, <1>c, <2>1, DeleteSeenFrom
  <2>3. WorkStep(a, e)
    BY <2>1 DEF WorkStep, Worked
  <2> QED BY <1>a, <1>b, <2>1, <2>2, <2>3 DEF EntryStep
<1>8. CASE ListConfigMaps
  <2>1. /\ pc = "configmaps" /\ todo = {}
        /\ UNCHANGED <<spec, obj, seen, dep, pods, history, cur, snap>>
    BY <1>8 DEF ListConfigMaps, objVars
  <2>2. WorkStep(a, e)
    BY <2>1 DEF WorkStep, Worked
  <2> QED BY <1>a, <1>b, <1>c, <2>1, <2>2 DEF EntryStep
<1>9. CASE ReconcileDeployment
  <2>1. /\ pc = "pruneConfigMaps" /\ dep' = [dep EXCEPT ![cur] = PodTemplate(snap)]
        /\ UNCHANGED <<spec, obj, seen, pods, history, cur, snap, todo>>
    BY <1>9 DEF ReconcileDeployment, objVars
  <2>2. WorkStep(a, e)
    BY <2>1 DEF WorkStep, Worked
  <2>3. dep'[a] = IF cur = a THEN PodTemplate(snap) ELSE dep[a]
    BY <1>0, <2>1
  <2>4. RolloutStep(a, e)
    BY <2>1, <2>3 DEF RolloutStep, Worked
  <2> QED BY <1>a, <1>c, <2>1, <2>2, <2>4 DEF EntryStep
<1>10. CASE ReconcileService
  <2>1. /\ pc = "service" /\ Service \in Entries[cur] /\ cur \in Apps
        /\ PassOver /\ UNCHANGED <<spec, seen, dep, pods, history>>
    BY <1>0, <1>10 DEF ReconcileService, Refused, Abort, Entries
  <2>2. Object(cur, Service) \in Objects /\ e # Service
    BY <2>1, ObjectOfEntry DEF Service
  <2>3. obj'[o] = obj[o] \/ obj'[o].owner # a
    <3>1. CASE Write(Service)
      BY <2>1, <2>2, <3>1, WriteSeenFrom DEF o
    <3>2. CASE Delete(Object(cur, Service))
      BY <1>0, <2>2, <3>2, DeleteSeenFrom
    <3> QED BY <1>10, <3>1, <3>2 DEF ReconcileService, Refused
  <2> QED BY <1>a, <1>b, <1>c, <1>d, <2>1, <2>3 DEF EntryStep, PassOver
<1>11. CASE CallFails
  BY <1>11, <1>a, <1>b, <1>c, <1>d
  DEF CallFails, Abort, PassOver, objVars, EntryStep
<1>12. CASE UNCHANGED vars
  BY <1>12, <1>a, <1>b, <1>c, <1>d DEF vars, objVars, passVars, EntryStep
<1> QED
  BY <1>1, <1>2, <1>3, <1>4, <1>5, <1>6, <1>7, <1>8, <1>9, <1>10, <1>11, <1>12
     DEF Next, Pass
(* The types of what the pods run, of the history, and of what the spec
   declares. *)
LEMMA PodTypesStep ==
  ASSUME Inv, PodInv, [Next]_vars
  PROVE  PodTypes' /\ Kinds'
<1> USE NobodyIsNoApp
<1>0. /\ pods = [b \in Apps |-> pods[b]] /\ past = [b \in Apps |-> past[b]]
      /\ spec = [b \in Apps |-> spec[b]]
      /\ \A b \in Apps : DOMAIN pods[b].files = DOMAIN pods[b].template
      /\ \A b \in Apps : spec[b] \in [Entries[b] -> Data]
      /\ pc = "idle" => cur = Nobody
  BY DEF Inv, PassTypes, SpecTypes, PodInv, PodTypes
<1>1. ASSUME NEW b \in Apps, NEW f \in Entries[b],
             NEW c \in Contents \cup Ports \cup {Nothing}, UserEdit(b, f, c)
      PROVE  PodTypes' /\ Kinds'
  <2>1. PodTypes'
    BY <1>0, <1>1 DEF UserEdit, PodTypes
  <2>2. \A a \in Apps : \A e \in Entries[a] :
          spec'[a][e] = IF a = b /\ e = f THEN c ELSE spec[a][e]
    BY <1>0, <1>1 DEF UserEdit
  <2>3. UNCHANGED <<cur, snap>> /\ c \in Values(f.kind) \cup {Nothing}
    BY <1>1 DEF UserEdit, passVars
  <2>4. Kinds'
    BY <2>2, <2>3 DEF PodInv, Kinds, Values
  <2> QED BY <2>1, <2>4
<1>2. ASSUME NEW b \in Apps, StartPods(b) PROVE PodTypes' /\ Kinds'
  <2>1. UNCHANGED <<spec, past, cur, snap>>
    BY <1>2 DEF StartPods, passVars, history
  <2>2. pods' = [pods EXCEPT ![b] =
          [template |-> dep[b],
           files |-> [e \in DOMAIN dep[b] |-> obj[Object(b, e)]]]]
    BY <1>2 DEF StartPods
  <2>3. PodTypes'
    BY <1>0, <2>1, <2>2 DEF PodTypes
  <2>4. Kinds'
    BY <2>1 DEF PodInv, Kinds, Values
  <2> QED BY <2>3, <2>4
<1>3. ASSUME NEW b \in Apps, Begin(b) PROVE PodTypes' /\ Kinds'
  <2>1. UNCHANGED <<spec, past, pods>> /\ cur' = b /\ snap' = spec[b]
    BY <1>3 DEF Begin, history
  <2> QED BY <1>0, <2>1 DEF PodInv, PodTypes, Kinds, Values
<1>4. ASSUME UNCHANGED <<spec, past, pods>>, UNCHANGED <<cur, snap>> \/ cur' = Nobody
      PROVE  PodTypes' /\ Kinds'
  <2>1. PodTypes'
    BY <1>0, <1>4 DEF PodTypes
  <2>2. Kinds'
    BY <1>4 DEF PodInv, Kinds, Values
  <2> QED BY <2>1, <2>2
<1>5. CASE \/ UNCHANGED vars \/ CallFails
           \/ ListConfigMaps \/ ReconcileDeployment \/ ReconcileService
           \/ \E x \in todo : ReconcileConfigMap(x) \/ PruneConfigMap(x)
           \/ \E o \in Objects : Deliver(o)
           \/ \E o \in Objects, x \in {Absent} \cup {Owned(Nobody, p) : p \in Ports} :
                ByHand(o, x)
  BY <1>4, <1>5 DEF vars, CallFails, ListConfigMaps, ReconcileDeployment,
     ReconcileService, ReconcileConfigMap, PruneConfigMap, Deliver, ByHand,
     history, passVars, Refused, Abort, PassOver
<1> QED
  BY <1>1, <1>2, <1>3, <1>5 DEF Next, Pass

(* The template of a pass hashes what its spec declares. *)
LEMMA TemplateHashes ==
  ASSUME NEW s, NEW e \in DOMAIN s, e.kind = "ConfigMap"
  PROVE  /\ e \in DOMAIN PodTemplate(s) <=> s[e] # Nothing
         /\ s[e] # Nothing => PodTemplate(s)[e] = Stream(s[e])
<1>1. e \in Declared(s, "ConfigMap") <=> s[e] # Nothing
  BY DEF Declared
<1>2. DOMAIN PodTemplate(s) = Declared(s, "ConfigMap")
  BY DEF PodTemplate
<1>3. ASSUME e \in Declared(s, "ConfigMap") PROVE PodTemplate(s)[e] = Stream(s[e])
  BY <1>3 DEF PodTemplate
<1> QED BY <1>1, <1>2, <1>3

(* A step leaves of an entry only what the entry has declared. *)
LEMMA TracedStep ==
  ASSUME Inv, PodInv, Kinds', NEW a \in Apps, NEW e \in Entries[a],
         e.kind = "ConfigMap", EntryStep(a, e)
  PROVE  Traced(a, e)'
<1> DEFINE o == Object(a, e)
<1>1. Traced(a, e) /\ past[a] \subseteq past'[a]
  BY DEF PodInv, EntryStep, SpecStep
<1>2. Owned(a, snap[e]).owner = a /\ Owned(a, snap[e]).data = snap[e]
  BY DEF Owned
<1>3. seen'[o].owner = a => <<e, seen'[o].data>> \in past'[a]
  BY <1>1 DEF Traced, EntryStep, ObjectStep
<1>4. obj'[o].owner = a => <<e, obj'[o].data>> \in past'[a]
  BY <1>1, <1>2 DEF Traced, EntryStep, ObjectStep
<1>5. HashesPast(dep[a], a, e)' /\ HashesPast(pods[a].template, a, e)'
  <2>1. HashesPast(dep[a], a, e) /\ HashesPast(pods[a].template, a, e)
    BY <1>1 DEF Traced
  <2>2. ASSUME cur = a, dep'[a] = PodTemplate(snap), e \in DOMAIN dep'[a]
        PROVE  \E c \in Contents : <<e, c>> \in past'[a] /\ dep'[a][e] = Stream(c)
    <3>1. e \in DOMAIN snap
      BY <2>2, NobodyIsNoApp DEF Inv, PassTypes
    <3>2. snap[e] # Nothing /\ dep'[a][e] = Stream(snap[e])
      BY <2>2, <3>1, TemplateHashes
    <3>3. <<e, snap[e]>> \in past'[a]
      BY <1>1, <2>2, <3>2 DEF Traced
    <3>4. snap[e] \in Contents
      BY <2>2, <3>2 DEF PodInv, Kinds, Values
    <3> QED BY <3>2, <3>3, <3>4
  <2>3. HashesPast(dep[a], a, e)'
    BY <1>1, <2>1, <2>2 DEF HashesPast, EntryStep, RolloutStep
  <2>4. HashesPast(pods[a].template, a, e)'
    BY <1>1, <2>1 DEF HashesPast, EntryStep, RolloutStep
  <2> QED BY <2>3, <2>4
<1>6. spec'[a][e] # Nothing => <<e, spec'[a][e]>> \in past'[a]
  BY <1>1 DEF Traced, EntryStep, SpecStep
<1>7. cur' = a /\ snap'[e] # Nothing => <<e, snap'[e]>> \in past'[a]
  BY <1>1 DEF Traced, EntryStep, WorkStep
<1> QED BY <1>3, <1>4, <1>5, <1>6, <1>7 DEF Traced

(* The hash tells the contents of ConfigMaps apart. *)
HashTells == \A c, d \in Contents : Stream(c) = Stream(d) => c = d

(* Contents that are new to an entry leave no trace before a pass works on
   them, and from then on the app's object has them or is not the app's. *)
LEMMA FitsStep ==
  ASSUME HashTells, Inv, PodInv, Kinds', NEW a \in Apps, NEW e \in Entries[a],
         e.kind = "ConfigMap", EntryStep(a, e)
  PROVE  FirstTime(a, e)'
<1> DEFINE o == Object(a, e)
<1> SUFFICES ASSUME spec'[a][e] # Nothing, <<a, e>> \notin back'
             PROVE  Fits(a, e)'
  BY DEF FirstTime
<1>0. /\ Traced(a, e) /\ FirstTime(a, e)
      /\ spec'[a][e] \in Contents /\ spec[a][e] \in Contents \cup {Nothing}
      /\ cur = a => snap[e] \in Contents \cup {Nothing} /\ e \in DOMAIN snap
  BY NobodyIsNoApp DEF PodInv, Kinds, Values, Inv, PassTypes
(* The user has just declared them. *)
<1>1. CASE /\ <<e, spec'[a][e]>> \notin past[a]
           /\ UNCHANGED <<obj, seen, dep, pods, cur, snap, pc, todo>>
  <2>1. \A t : HashesPast(t, a, e) => ~Hashed(t, e, spec'[a][e])
    BY <1>0, <1>1 DEF HashesPast, Hashed, HashTells
  <2>2. ~Hashed(dep[a], e, spec'[a][e]) /\ ~Hashed(pods[a].template, e, spec'[a][e])
    BY <1>0, <2>1 DEF Traced
  <2>3. ~Has(seen[o], a, spec'[a][e]) /\ ~Has(obj[o], a, spec'[a][e])
    BY <1>0, <1>1 DEF Traced, Has
  <2>4. cur = a => snap[e] # spec'[a][e]
    BY <1>0, <1>1 DEF Traced
  <2> QED BY <1>1, <2>2, <2>3, <2>4 DEF Fits, Hashed, Has
(* They were declared before. *)
<1>2. CASE spec'[a][e] = spec[a][e] /\ <<a, e>> \notin back
  <2>0. PICK c \in Contents : c = spec[a][e] /\ c = spec'[a][e] /\ c # Nothing
    BY <1>0, <1>2
  <2>a. Fits(a, e)
    BY <1>0, <1>2 DEF FirstTime
  <2>b. /\ Has(seen[o], a, c) => (obj[o].owner = a => obj[o].data = c)
        /\ Hashed(dep[a], e, c) => (obj[o].owner = a => obj[o].data = c)
        /\ cur = a /\ snap[e] = c /\ Worked(e) => (obj[o].owner = a => obj[o].data = c)
        /\ cur = a /\ snap[e] # c => /\ ~Has(seen[o], a, c) /\ ~Has(obj[o], a, c)
                                     /\ ~Hashed(dep[a], e, c)
        /\ Hashed(pods[a].template, e, c) /\ pods[a].files[e].owner = a
             => pods[a].files[e].data = c
    BY <2>0, <2>a DEF Fits, Holds, Worked
  <2>c. Owned(a, snap[e]).owner = a /\ Owned(a, snap[e]).data = snap[e]
    BY DEF Owned
  <2>d. cur = a /\ snap[e] # c => ~Hashed(PodTemplate(snap), e, c)
    BY <1>0, <2>0, TemplateHashes DEF HashTells, Hashed
  <2>1. Has(seen'[o], a, c) => (obj'[o].owner = a => obj'[o].data = c)
    BY <2>b, <2>c DEF EntryStep, ObjectStep, Has
  <2>2. Hashed(dep'[a], e, c) => (obj'[o].owner = a => obj'[o].data = c)
    <3>1. CASE dep'[a] = dep[a]
      BY <2>b, <2>c, <3>1 DEF EntryStep, ObjectStep
    <3>2. CASE cur = a /\ dep'[a] = PodTemplate(snap) /\ Worked(e) /\ obj'[o] = obj[o]
      BY <2>b, <2>d, <3>2
    <3> QED BY <3>1, <3>2 DEF EntryStep, RolloutStep
  <2>3. cur' = a /\ snap'[e] = c /\ Worked(e)' => (obj'[o].owner = a => obj'[o].data = c)
    BY <2>0, <2>b, <2>c DEF EntryStep, ObjectStep, WorkStep, Has
  <2>4. cur' = a /\ snap'[e] # c => /\ ~Has(seen'[o], a, c) /\ ~Has(obj'[o], a, c)
                                    /\ ~Hashed(dep'[a], e, c)
    <3> SUFFICES ASSUME cur' = a, snap'[e] # c
                 PROVE  /\ ~Has(seen'[o], a, c) /\ ~Has(obj'[o], a, c)
                        /\ ~Hashed(dep'[a], e, c)
      OBVIOUS
    <3>1. cur = a /\ snap' = snap
      BY <2>0 DEF EntryStep, WorkStep
    <3>2. ~Has(seen'[o], a, c) /\ ~Has(obj'[o], a, c)
      BY <2>b, <2>c, <3>1 DEF EntryStep, ObjectStep, Has
    <3>3. ~Hashed(dep'[a], e, c)
      BY <2>b, <2>d, <3>1 DEF EntryStep, RolloutStep
    <3> QED BY <3>2, <3>3
  <2>5. Hashed(pods'[a].template, e, c) /\ pods'[a].files[e].owner = a
          => pods'[a].files[e].data = c
    <3>1. CASE pods'[a] = pods[a]
      BY <2>b, <3>1
    <3>2. CASE /\ pods'[a].template = dep[a]
               /\ e \in DOMAIN dep[a] => pods'[a].files[e] = obj[o]
      BY <2>b, <3>2 DEF Hashed
    <3> QED BY <3>1, <3>2 DEF EntryStep, RolloutStep
  <2> QED BY <2>0, <2>1, <2>2, <2>3, <2>4, <2>5 DEF Fits, Holds, Worked, Has, Hashed
<1> QED BY <1>1, <1>2 DEF EntryStep, SpecStep

(* PodInv holds initially. *)
LEMMA PodInit == Init => PodInv
<1> SUFFICES ASSUME Init PROVE PodInv
  OBVIOUS
<1>1. /\ \A o \in Objects : obj[o] = Absent /\ seen[o] = Absent
      /\ \A a \in Apps : \A e \in Entries[a] : spec[a][e] = Nothing
      /\ \A a \in Apps : /\ dep[a] = <<>>
                         /\ pods[a].template = <<>> /\ pods[a].files = <<>>
      /\ cur = Nobody
  BY DEF Init, Nothing
<1>2. PodTypes
  BY <1>1 DEF Init, PodTypes
<1>3. Kinds
  BY <1>1, NobodyIsNoApp DEF Kinds
<1>4. ASSUME NEW a \in Apps, NEW e \in Entries[a] PROVE Traced(a, e) /\ FirstTime(a, e)
  BY <1>1, <1>4, NobodyIsNoApp, ObjectValues, ObjectOfEntry
  DEF Traced, FirstTime, HashesPast
<1> QED BY <1>2, <1>3, <1>4 DEF PodInv

(* When everything has fallen silent the objects are as the specs want them,
   and every pod has read the contents its app declares. *)
LEMMA RestSettles ==
  ASSUME Inv, RestInv, PodInv
  PROVE  SettledObjects
<1> SUFFICES ASSUME Quiescent, NEW a \in Apps
             PROVE  /\ \A e \in Entries[a] :
                         IF spec[a][e] # Nothing
                         THEN obj[Object(a, e)] = Owned(a, spec[a][e])
                         ELSE obj[Object(a, e)].owner # a
                    /\ DOMAIN pods[a].files = Declared(spec[a], "ConfigMap")
                    /\ \A e \in DOMAIN pods[a].files :
                         <<a, e>> \notin back /\ pods[a].files[e].owner = a
                           => pods[a].files[e].data = spec[a][e]
  BY DEF SettledObjects
<1>0. /\ cur = Nobody /\ queued = {} /\ pods[a].template = dep[a]
      /\ \A o \in Objects : ~Stale(o)
  BY DEF Quiescent, Inv, PassTypes
<1>1. ASSUME NEW e \in Entries[a]
      PROVE  IF spec[a][e] # Nothing
             THEN obj[Object(a, e)] = Owned(a, spec[a][e])
             ELSE obj[Object(a, e)].owner # a
  <2>1. Meets(a, e) /\ ~Noticed(a, Object(a, e))
    BY <1>0, NobodyIsNoApp, ObjectOfEntry DEF RestInv, Dealt, Noticed
  <2> QED BY <2>1 DEF Meets
<1>2. dep[a] = PodTemplate(spec[a])
  BY <1>0, NobodyIsNoApp DEF RestInv, DepCurrent
<1>3. DOMAIN pods[a].files = Declared(spec[a], "ConfigMap")
  BY <1>0, <1>2 DEF PodInv, PodTypes, PodTemplate
<1>4. ASSUME NEW e \in DOMAIN pods[a].files, <<a, e>> \notin back,
             pods[a].files[e].owner = a
      PROVE  pods[a].files[e].data = spec[a][e]
  <2>1. e \in Entries[a] /\ e.kind = "ConfigMap" /\ spec[a][e] # Nothing
    BY <1>3 DEF Declared, Inv, SpecTypes
  <2>2. e \in DOMAIN spec[a]
    BY <1>3 DEF Declared
  <2>3. Hashed(pods[a].template, e, spec[a][e])
    BY <1>0, <1>2, <2>1, <2>2, TemplateHashes DEF Hashed
  <2>4. Fits(a, e)
    BY <1>4, <2>1 DEF PodInv, FirstTime
  <2> QED BY <1>4, <2>3, <2>4 DEF Fits
<1> QED BY <1>1, <1>3, <1>4

(* However the apps' names collide, and whatever is edited, deleted by hand,
   seen late or fails: when everything has fallen silent every declared
   ConfigMap and Service is there with its app's contents, nothing undeclared
   is kept, and the pods have read the contents of the spec where these are
   new to the entry, provided that the hash tells contents apart. *)
THEOREM ObjectsSettle ==
  ASSUME HashTells
  PROVE  Spec => []SettledObjects
<1>1. Init => RestInv /\ PodInv
  BY RestInit, PodInit
<1>2. Inv /\ RestInv /\ PodInv /\ [Next]_vars => RestInv' /\ PodInv'
  <2> SUFFICES ASSUME Inv, RestInv, PodInv, [Next]_vars PROVE RestInv' /\ PodInv'
    OBVIOUS
  <2>1. RestInv'
    BY RestStep
  <2>2. PodTypes' /\ Kinds'
    BY PodTypesStep
  <2>3. ASSUME NEW a \in Apps, NEW e \in Entries[a], e.kind = "ConfigMap"
        PROVE  Traced(a, e)' /\ FirstTime(a, e)'
    <3>1. EntryStep(a, e)
      BY <2>3, StepOfEntry
    <3> QED BY <2>2, <2>3, <3>1, TracedStep, FitsStep
  <2> QED BY <2>1, <2>2, <2>3 DEF PodInv
<1>3. Inv /\ RestInv /\ PodInv => SettledObjects
  BY RestSettles
<1> QED BY <1>1, <1>2, <1>3, InvAlways, PTL DEF Spec

-----------------------------------------------------------------------------
(* The hash. *)

(* Every set of natural numbers that is not empty has a least member. *)
LEMMA Least ==
  ASSUME NEW T, T \subseteq Nat, T # {}
  PROVE  \E x \in T : \A y \in T : x <= y
<1> DEFINE R == {ss \in Nat \X Nat : ss[1] < ss[2]}
<1>0. IsWellFoundedOn(R, Nat)
    BY NatLessThanWellFounded DEF OpToRel
<1>1. \E x \in T : \A y \in T : ~ (<<y, x>> \in R)
  <2> HIDE DEF R
  <2> QED BY <1>0, WFMin, Zenon
<1>2. \A x, y \in T : ~ (<<y, x>> \in R) => x <= y
  OBVIOUS
<1> QED BY <1>1, <1>2

(* Induction, for properties given as the set of numbers that have them. *)
LEMMA InductionUpTo ==
  ASSUME NEW n \in Nat, NEW P, 0 \in P, \A i \in 0..(n - 1) : i \in P => i + 1 \in P
  PROVE  n \in P
<1> DEFINE T == {i \in 0..n : i \notin P}
<1>1. SUFFICES ASSUME T # {} PROVE FALSE
  OBVIOUS
<1>2. T \subseteq Nat
  OBVIOUS
<1>3. PICK x \in T : \A y \in T : x <= y
  <2> HIDE DEF T
  <2> QED BY <1>1, <1>2, Least
<1>4. x \in 0..n /\ x \notin P /\ x # 0
  BY <1>3
<1>5. x - 1 \in 0..(n - 1) /\ x - 1 \in 0..n
  BY <1>4
<1>6. x - 1 \in P
  BY <1>3, <1>5
<1>7. (x - 1) + 1 \in P
  BY <1>5, <1>6
<1> QED BY <1>4, <1>7

(* One more key is written to the hash. *)
Extended(t, k, v) == t \o Lines(k, v)

(* g is what has been written to the hash after each of the first n keys. *)
Written(g, c, n) ==
  g = [k \in 0..n |-> IF k = 0 THEN <<>> ELSE Extended(g[k - 1], k, c[k])]

(* There is such a function. *)
LEMMA WrittenExists ==
  ASSUME NEW c, NEW n \in Nat
  PROVE  \E g : Written(g, c, n)
<1> DEFINE P == {k \in Nat : \E g : Written(g, c, k)}
<1>1. 0 \in P
  <2> DEFINE g == [i \in 0..0 |-> <<>>]
  <2>1. Written(g, c, 0)
    BY DEF Written
  <2> QED BY <2>1
<1>2. ASSUME NEW k \in 0..(n - 1), k \in P PROVE k + 1 \in P
  <2>1. PICK g : Written(g, c, k)
    BY <1>2
  <2> DEFINE h == [i \in 0..(k + 1) |-> IF i = k + 1 THEN Extended(g[k], k + 1, c[k + 1])
                                        ELSE g[i]]
             f == [i \in 0..(k + 1) |-> IF i = 0 THEN <<>> ELSE Extended(h[i - 1], i, c[i])]
  <2>2. \A i \in 0..k : g[i] = IF i = 0 THEN <<>> ELSE Extended(g[i - 1], i, c[i])
    BY <2>1 DEF Written
  <2>3. ASSUME NEW i \in 0..(k + 1) PROVE h[i] = f[i]
    <3>1. CASE i = k + 1
      <4>1. h[i] = Extended(g[k], k + 1, c[k + 1]) /\ h[k] = g[k]
        BY <3>1
      <4> QED BY <3>1, <4>1
    <3>2. CASE i # k + 1
      <4>1. i \in 0..k /\ h[i] = g[i]
        BY <3>2
      <4>2. i # 0 => h[i - 1] = g[i - 1]
        BY <4>1
      <4> QED BY <4>1, <4>2, <2>2
    <3> QED BY <3>1, <3>2
  <2>4. h = f
    BY <2>3
  <2>5. Written(h, c, k + 1)
    BY <2>4 DEF Written
  <2> HIDE DEF h
  <2> QED BY <2>5
<1> HIDE DEF P
<1>3. n \in P
  BY <1>1, <1>2, InductionUpTo
<1> QED BY <1>3 DEF P

(* Stream is what its recursion says. *)
LEMMA StreamIs ==
  ASSUME NEW c, Len(c) \in Nat
  PROVE  \E g : Written(g, c, Len(c)) /\ Stream(c) = g[Len(c)]
<1> DEFINE g == CHOOSE f : f = [k \in 0..Len(c) |->
                             IF k = 0 THEN <<>> ELSE f[k - 1] \o Lines(k, c[k])]
<1>1. Stream(c) = g[Len(c)]
  BY DEF Stream
<1>2. Written(g, c, Len(c))
  BY WrittenExists DEF Written, Extended
<1> QED BY <1>1, <1>2

(* A value of one line. *)
LEMMA SingleLine ==
  ASSUME NEW S, NEW v \in Seq(S), v # <<>>, Len(v) <= 1
  PROVE  Len(v) = 1 /\ v[1] \in S /\ Head(v) = v[1] /\ Tail(v) = <<>>
<1>1. Len(v) \in Nat \ {0}
  BY EmptySeq
<1>2. Len(v) = 1
  BY <1>1
<1>3. v[1] \in S
  BY <1>2, ElementOfSeq
<1>4. Head(v) = v[1]
  OBVIOUS
<1>5. Tail(v) \in Seq(S) /\ Len(Tail(v)) = 0
  BY <1>2, HeadTailProperties
<1>6. Tail(v) = <<>>
  BY <1>5, EmptySeq
<1> QED BY <1>2, <1>3, <1>4, <1>6

(* The line of key k with a value of one line. *)
KeyLine(k, l) == <<k>> \o l
Line(c, k) == KeyLine(k, c[k][1])

(* The sequence t consists of the lines of the first n keys. *)
Consists(t, c, n) ==
  /\ t \in Seq({Line(c, k) : k \in 1..n})
  /\ \A k \in 1..n : c[k] # <<>> => \E i \in DOMAIN t : t[i] = Line(c, k)
  /\ \A i \in DOMAIN t : \E k \in 1..n : c[k] # <<>> /\ t[i] = Line(c, k)

(* What is hashed consists of the lines of the keys. *)
LEMMA StreamConsists ==
  ASSUME NEW L, NEW c, c \in Seq(Seq(Seq(L))), \A k \in DOMAIN c : Len(c[k]) <= 1
  PROVE  Consists(Stream(c), c, Len(c))
<1>0. Len(c) \in Nat /\ DOMAIN c = 1..Len(c)
  OBVIOUS
<1>1. PICK g : Written(g, c, Len(c)) /\ Stream(c) = g[Len(c)]
  BY <1>0, StreamIs
<1>2. \A k \in 0..Len(c) : g[k] = IF k = 0 THEN <<>> ELSE Extended(g[k - 1], k, c[k])
  BY <1>1 DEF Written
<1> DEFINE P == {k \in 0..Len(c) : Consists(g[k], c, k)}
<1>3. 0 \in P
  <2>1. g[0] = <<>> /\ 0 \in 0..Len(c)
    BY <1>0, <1>2
  <2>2. <<>> \in Seq({Line(c, k) : k \in 1..0}) /\ DOMAIN <<>> = {}
    BY EmptySeq
  <2>3. Consists(<<>>, c, 0)
    BY <2>2 DEF Consists
  <2> QED BY <2>1, <2>3
<1>4. ASSUME NEW j \in 0..(Len(c) - 1), j \in P PROVE j + 1 \in P
  <2> DEFINE k == j + 1
             t == g[j]
             K == {Line(c, i) : i \in 1..k}
  <2>0. k \in 1..Len(c) /\ k \in DOMAIN c /\ 1..k = 1..j \cup {k} /\ j \in Nat
    BY <1>0
  <2>1. Consists(t, c, j)
    BY <1>4
  <2>2. g[k] = t \o Lines(k, c[k])
    <3>1. k \in 0..Len(c) /\ k # 0 /\ k - 1 = j
      BY <1>0, <2>0
    <3>2. g[k] = Extended(g[k - 1], k, c[k])
      BY <1>2, <3>1
    <3> QED BY <3>1, <3>2 DEF Extended
  <2>3. c[k] \in Seq(Seq(L)) /\ Len(c[k]) \in Nat /\ Len(c[k]) <= 1
    BY <2>0
  <2> HIDE DEF k, t
  <2>4. t \in Seq(K) /\ Len(t) \in Nat /\ DOMAIN t = 1..Len(t)
    <3>1. {Line(c, i) : i \in 1..j} \subseteq K
      BY <2>0
    <3>2. t \in Seq(K)
      BY <2>1, <3>1, SeqMonotonic DEF Consists
    <3> QED BY <3>2, LenProperties
  <2>5. CASE c[k] = <<>>
    <3>1. Lines(k, c[k]) = <<>>
      BY <2>5 DEF Lines
    <3>2. g[k] = t
      BY <2>2, <2>4, <3>1, ConcatEmptySeq
    <3>3. Consists(t, c, k)
      BY <2>0, <2>1, <2>4, <2>5 DEF Consists
    <3> QED BY <2>0, <3>2, <3>3 DEF k
  <2>6. CASE c[k] # <<>>
    <3>1. Tail(c[k]) = <<>> /\ Head(c[k]) = c[k][1]
      BY <2>3, <2>6, SingleLine
    <3>2. Lines(k, c[k]) = << Line(c, k) >> \o <<>>
      BY <2>6, <3>1, Zenon DEF Lines, Line, KeyLine
    <3>3. Lines(k, c[k]) = << Line(c, k) >>
      <4>1. << Line(c, k) >> \in Seq({Line(c, k)})
        OBVIOUS
      <4> QED BY <3>2, <4>1, ConcatEmptySeq
    <3>4. Line(c, k) \in K
      BY <2>0
    <3> HIDE DEF K
    <3>5. g[k] = Append(t, Line(c, k))
      BY <2>2, <2>4, <3>3, <3>4, AppendIsConcat
    <3>6. /\ g[k] \in Seq(K) /\ DOMAIN g[k] = 1..(Len(t) + 1)
          /\ \A i \in DOMAIN t : g[k][i] = t[i]
          /\ g[k][Len(t) + 1] = Line(c, k)
      <4>1. Len(Append(t, Line(c, k))) = Len(t) + 1
        BY <2>4, <3>4, AppendProperties
      <4>2. g[k] \in Seq(K) /\ DOMAIN g[k] = 1..(Len(t) + 1)
        BY <2>4, <3>4, <3>5, <4>1, AppendProperties, LenProperties
      <4> QED BY <2>4, <3>4, <3>5, <4>2, AppendProperties
    <3>7. ASSUME NEW m \in 1..k, c[m] # <<>> PROVE \E i \in DOMAIN g[k] : g[k][i] = Line(c, m)
      <4>1. CASE m = k
        <5>1. Len(t) + 1 \in DOMAIN g[k]
          BY <2>4, <3>6
        <5> QED BY <3>6, <4>1, <5>1
      <4>2. CASE m # k
        <5>1. PICK i \in DOMAIN t : t[i] = Line(c, m)
          BY <2>0, <2>1, <3>7, <4>2 DEF Consists
        <5>2. i \in DOMAIN g[k]
          BY <2>4, <3>6
        <5> QED BY <3>6, <5>1, <5>2
      <4> QED BY <4>1, <4>2
    <3>8. ASSUME NEW i \in DOMAIN g[k]
          PROVE  \E m \in 1..k : c[m] # <<>> /\ g[k][i] = Line(c, m)
      <4>1. CASE i = Len(t) + 1
        BY <2>0, <2>6, <3>6, <4>1
      <4>2. CASE i # Len(t) + 1
        <5>1. i \in DOMAIN t
          BY <2>4, <3>6, <4>2
        <5>2. PICK m \in 1..j : c[m] # <<>> /\ t[i] = Line(c, m)
          BY <2>1, <5>1 DEF Consists
        <5> QED BY <2>0, <3>6, <5>1, <5>2
      <4> QED BY <4>1, <4>2
    <3>9. Consists(g[k], c, k)
      BY <3>6, <3>7, <3>8 DEF Consists, K
    <3> QED BY <2>0, <3>9 DEF k
  <2> QED BY <2>5, <2>6
<1> HIDE DEF P
<1>5. Len(c) \in P
  BY <1>0, <1>3, <1>4, InductionUpTo
<1> QED BY <1>1, <1>5 DEF P

(* Lines of different keys differ, and so do those of different values. *)
LEMMA LinesDiffer ==
  ASSUME NEW L, NEW a \in Nat, NEW b \in Nat, NEW u \in Seq(L), NEW v \in Seq(L),
         KeyLine(a, u) = KeyLine(b, v)
  PROVE  a = b /\ u = v
<1> DEFINE M == Nat \cup L
<1>1. <<a>> \in Seq(M) /\ <<b>> \in Seq(M) /\ u \in Seq(M) /\ v \in Seq(M)
  OBVIOUS
<1>2. Len(<<a>>) = 1 /\ Len(<<b>>) = 1 /\ <<a>>[1] = a /\ <<b>>[1] = b
  OBVIOUS
<1> DEFINE x == <<a>> \o u
           y == <<b>> \o v
<1>3. /\ Len(x) = 1 + Len(u) /\ x[1] = a
      /\ \A i \in 1..Len(u) : x[i + 1] = u[i]
  BY <1>1, <1>2, ConcatProperties
<1>4. /\ Len(y) = 1 + Len(v) /\ y[1] = b
      /\ \A i \in 1..Len(v) : y[i + 1] = v[i]
  BY <1>1, <1>2, ConcatProperties
<1>5. x = y
  BY DEF KeyLine
<1> HIDE DEF x, y
<1>6. Len(u) = Len(v) /\ a = b /\ \A i \in 1..Len(u) : u[i] = v[i]
  BY <1>3, <1>4, <1>5
<1> QED BY <1>6

(* Contents whose values have no line breaks are told apart by the hash: no
   line can pass for one of another key, and every key that is there has one. *)
THEOREM HashTellsLines ==
  ASSUME NEW L, OneLine(L)
  PROVE  HashTells
<1>1. ASSUME NEW c \in Contents, NEW d \in Contents, Stream(c) = Stream(d),
             NEW k \in DOMAIN c, c[k] # <<>>
      PROVE  k \in DOMAIN d /\ c[k] = d[k]
  <2>1. /\ c \in Seq(Seq(Seq(L))) /\ d \in Seq(Seq(Seq(L)))
        /\ \A i \in DOMAIN c : Len(c[i]) <= 1
        /\ \A i \in DOMAIN d : Len(d[i]) <= 1
    BY DEF OneLine
  <2>2. DOMAIN c = 1..Len(c) /\ DOMAIN d = 1..Len(d) /\ Len(c) \in Nat /\ Len(d) \in Nat
    BY <2>1
  <2>3. Consists(Stream(c), c, Len(c)) /\ Consists(Stream(c), d, Len(d))
    <3>1. Consists(Stream(c), c, Len(c))
      BY <2>1, StreamConsists
    <3>2. Consists(Stream(d), d, Len(d))
      BY <2>1, StreamConsists
    <3> QED BY <1>1, <3>1, <3>2
  <2>4. PICK i \in DOMAIN Stream(c) : Stream(c)[i] = Line(c, k)
    BY <1>1, <2>2, <2>3 DEF Consists
  <2>5. PICK m \in 1..Len(d) : d[m] # <<>> /\ Stream(c)[i] = Line(d, m)
    BY <2>3 DEF Consists
  <2>6. c[k] \in Seq(Seq(L)) /\ d[m] \in Seq(Seq(L)) /\ Len(c[k]) <= 1 /\ Len(d[m]) <= 1
    <3>1. c[k] \in Seq(Seq(L))
      BY <2>1, <2>2, ElementOfSeq
    <3>2. d[m] \in Seq(Seq(L))
      BY <2>1, ElementOfSeq
    <3>3. Len(c[k]) <= 1 /\ Len(d[m]) <= 1
      BY <2>1, <2>2, Zenon
    <3> QED BY <3>1, <3>2, <3>3
  <2>7. Len(c[k]) = 1 /\ c[k][1] \in Seq(L)
    BY <1>1, <2>6, SingleLine
  <2>8. Len(d[m]) = 1 /\ d[m][1] \in Seq(L)
    BY <2>5, <2>6, SingleLine
  <2>9. k = m /\ c[k][1] = d[m][1]
    <3>1. KeyLine(k, c[k][1]) = KeyLine(m, d[m][1])
      BY <2>4, <2>5, Zenon DEF Line
    <3>2. k \in Nat /\ m \in Nat
      BY <2>2
    <3>3. \A u, v \in Seq(L) : KeyLine(k, u) = KeyLine(m, v) => k = m /\ u = v
      BY <3>2, LinesDiffer
    <3> QED BY <2>7, <2>8, <3>1, <3>3, Zenon
  <2>10. c[k] = d[m]
    <3>1. \A i1 \in 1..1 : c[k][i1] = d[m][i1]
      BY <2>9
    <3> QED BY <2>6, <2>7, <2>8, <3>1, SeqEqual
  <2> QED BY <2>2, <2>9, <2>10
<1>2. ASSUME NEW c \in Contents, NEW d \in Contents, Stream(c) = Stream(d)
      PROVE  Len(c) <= Len(d)
  <2>1. c \in Seq(Seq(Seq(L))) /\ d \in Seq(Seq(Seq(L))) /\ (c # <<>> => c[Len(c)] # <<>>)
    BY DEF OneLine
  <2>2. DOMAIN c = 1..Len(c) /\ DOMAIN d = 1..Len(d) /\ Len(c) \in Nat /\ Len(d) \in Nat
    BY <2>1
  <2>3. CASE c = <<>>
    BY <2>2, <2>3
  <2>4. CASE c # <<>>
    <3>1. Len(c) \in DOMAIN c
      BY <2>1, <2>2, <2>4
    <3>2. Len(c) \in DOMAIN d
      BY <1>1, <1>2, <2>1, <2>4, <3>1, Zenon
    <3> QED BY <2>2, <3>2
  <2> QED BY <2>3, <2>4
<1>3. ASSUME NEW x \in Contents, NEW y \in Contents, Stream(x) = Stream(y)
      PROVE  x = y
  <2>1. x \in Seq(Seq(Seq(L))) /\ y \in Seq(Seq(Seq(L)))
    BY DEF OneLine
  <2>2. /\ Len(x) \in Nat /\ DOMAIN x = 1..Len(x)
        /\ Len(y) \in Nat /\ DOMAIN y = 1..Len(y)
    BY <2>1, LenProperties
  <2>3. Len(x) <= Len(y)
    BY <1>2, <1>3, Zenon
  <2>4. Stream(x) = Stream(y) /\ Stream(y) = Stream(x)
    BY <1>3
  <2>5. Len(y) <= Len(x)
    BY <1>2, <2>4, Zenon
  <2>6. Len(x) = Len(y)
    <3>1. \A m, n \in Nat : m <= n /\ n <= m => m = n
      OBVIOUS
    <3> QED BY <2>2, <2>3, <2>5, <3>1, Zenon
  <2>7. ASSUME NEW i \in 1..Len(x) PROVE x[i] = y[i]
    <3>1. i \in DOMAIN x /\ i \in DOMAIN y
      BY <2>2, <2>6
    <3>2. x[i] # <<>> => x[i] = y[i]
      <4>1. ASSUME x[i] # <<>> PROVE x[i] = y[i]
        BY <1>1, <1>3, <3>1, <4>1
      <4> QED BY <4>1
    <3>3. y[i] # <<>> => y[i] = x[i]
      BY <1>1, <2>4, <3>1, Zenon
    <3> QED BY <3>2, <3>3
  <2> QED BY <2>1, <2>6, <2>7, SeqEqual
<1> QED BY <1>3 DEF HashTells

(* So everything settles, the pods' files included, in a namespace whose
   ConfigMaps have no values with line breaks. *)
THEOREM PlainObjectsSettle ==
  ASSUME NEW CONSTANT L, OneLine(L)
  PROVE  Spec => []SettledObjects
BY HashTellsLines, ObjectsSettle
=============================================================================
