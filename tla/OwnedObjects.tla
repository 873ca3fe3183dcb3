---------------------------- MODULE OwnedObjects ----------------------------
(***************************************************************************)
(* The ConfigMaps and the Service of several AppDefinitions of a namespace *)
(* and the Deployments whose pods read the ConfigMaps.                     *)
(*                                                                         *)
(* A ConfigMap is named "<app>-<entry>".  A name is modelled by the parts  *)
(* that "-" joins, so app a-b with entry c and app a with entry b-c come   *)
(* to the same object.  One worker takes the apps in turn, every API call  *)
(* is a step of its own, and what the operator reads of an object is the   *)
(* informer's copy.                                                        *)
(*                                                                         *)
(* The data of a ConfigMap is a sequence of values, one per key in sorted  *)
(* order; a value is a sequence of lines, empty if the key is absent, and  *)
(* a line is cut at its first "=".  The ports of a Service are modelled in *)
(* the same way.                                                           *)
(***************************************************************************)
EXTENDS Naturals, Sequences

CONSTANTS
  Apps,       \* names of the AppDefinitions
  Names,      \* per app: names of entries of spec.configMaps
  Contents,   \* data a ConfigMap may have
  Ports,      \* exposed ports an app may have
  MaxEdits,   \* bound: edits of specs, and of objects by hand
  MaxFaults   \* bound: API calls that fail

ASSUME ConstantsAssumption ==
  /\ Apps \subseteq Seq(STRING) \ {<<>>}
  /\ Names \in [Apps -> SUBSET Seq(STRING)]
  /\ MaxEdits \in Nat /\ MaxFaults \in Nat

Nothing == <<>>

ASSUME ContentsAssumption == Nothing \notin Contents \cup Ports

(* What an app may declare: ConfigMaps, and one Service. *)
Service == [kind |-> "Service", name |-> <<>>]
ConfigMap(n) == [kind |-> "ConfigMap", name |-> n]
Entries == [a \in Apps |-> {ConfigMap(n) : n \in Names[a]} \cup {Service}]

Values(kind) == IF kind = "Service" THEN Ports ELSE Contents

(* appDef.Name + "-" + cm.Name for a ConfigMap, appDef.Name for the Service. *)
Object(a, e) == [kind |-> e.kind, name |-> a \o e.name]

Objects == UNION {{Object(a, e) : e \in Entries[a]} : a \in Apps}

VARIABLES
  spec,    \* per app and entry: the declared contents, or Nothing
  obj,     \* per object: its controller and contents
  seen,    \* per object: the informer's copy
  unseen,  \* per object: controllers of the versions not yet delivered
  dep,     \* per app: the pod template, as far as it depends on ConfigMaps
  pods,    \* per app: the template the pods run, and the objects they have read
  queued,  \* apps whose key is queued or about to be re-added
  pc,      \* where the pass is
  cur,     \* the app of the pass, Nobody between passes
  snap,    \* the spec it works from
  todo,    \* what the current loop still has to visit
  past,    \* history, per app: what each entry of its spec has declared so far
  back,    \* history: entries whose contents are contents they had before
  edits, faults

objVars == <<obj, seen, unseen>>
passVars == <<pc, cur, snap, todo>>
history == <<past, back>>
vars == <<spec, objVars, dep, pods, queued, passVars, history, edits, faults>>

(* An object without a controller has the owner Nobody. *)
Nobody == <<>>
Absent == [exists |-> FALSE, owner |-> Nobody, data |-> Nothing]
Owned(a, c) == [exists |-> TRUE, owner |-> a, data |-> c]

Declared(s, kind) == {e \in DOMAIN s : e.kind = kind /\ s[e] # Nothing}

Init ==
  /\ spec = [a \in Apps |-> [e \in Entries[a] |-> Nothing]]
  /\ obj = [o \in Objects |-> Absent] /\ seen = obj
  /\ unseen = [o \in Objects |-> {}]
  /\ dep = [a \in Apps |-> Nothing]
  /\ pods = [a \in Apps |-> [template |-> Nothing, files |-> Nothing]]
  /\ queued = {} /\ pc = "idle" /\ todo = {}
  /\ cur = Nobody /\ snap = Nothing /\ past = [a \in Apps |-> {}] /\ back = {}
  /\ edits = 0 /\ faults = 0

(* The lines that key k with value v adds to the hash: "k=" and the value. *)
Lines(k, v) == IF v = <<>> THEN <<>> ELSE << <<k>> \o Head(v) >> \o Tail(v)

(* Faulty variant: only the keys are hashed. *)
StreamOfKeys(c) == [k \in 1..Len(c) |-> c[k] = <<>>]

(* computeConfigHash: what is written to the hash for contents c. *)
Stream(c) ==
  LET upTo[k \in 0..Len(c)] ==
        IF k = 0 THEN <<>> ELSE upTo[k - 1] \o Lines(k, c[k])
  IN upTo[Len(c)]

(* No value spans lines, so that each key has one line or is absent. The last
   key is there; the parts of a line are taken from L. *)
OneLine(L) ==
  \A c \in Contents :
    /\ c \in Seq(Seq(Seq(L)))
    /\ \A k \in DOMAIN c : Len(c[k]) <= 1
    /\ c # <<>> => c[Len(c)] # <<>>

(* The template: buildVolumes names the ConfigMap of every entry, and the hash
   annotation stands for what was hashed. *)
PodTemplate(s) == [e \in Declared(s, "ConfigMap") |-> Stream(s[e])]

-----------------------------------------------------------------------------
(* Around the operator. *)

UserEdit(a, e, c) ==
  /\ edits < MaxEdits
  /\ spec[a][e] # c /\ c \in Values(e.kind) \cup {Nothing}
  /\ spec' = [spec EXCEPT ![a][e] = c]
  /\ past' = [past EXCEPT ![a] = @ \cup {<<e, c>>}]
  /\ back' = IF <<e, c>> \in past[a] THEN back \cup {<<a, e>>}
                                     ELSE back \ {<<a, e>>}
  /\ edits' = edits + 1
  /\ queued' = queued \cup {a}
  /\ UNCHANGED <<objVars, dep, pods, passVars, faults>>

(* The stored object o becomes x, which the informer has yet to see. *)
Put(o, x) ==
  /\ obj' = [obj EXCEPT ![o] = x]
  /\ unseen' = [unseen EXCEPT ![o] = @ \cup {x.owner}]

(* Somebody deletes an object by hand, or creates a Service, without a
   controller, under the name of an app. *)
ByHand(o, x) ==
  /\ edits < MaxEdits
  /\ obj[o].exists # x.exists /\ (x.exists => o.kind = "Service")
  /\ Put(o, x)
  /\ edits' = edits + 1
  /\ UNCHANGED <<spec, seen, dep, pods, queued, passVars, history, faults>>

(* The informer's copy of o is not the stored version. *)
Stale(o) == unseen[o] # {}

(* Faulty variant: an object without a controller yields an empty key. *)
OwnersOrNobody(o) == unseen[o] \cup {seen[o].owner}

(* Faulty variant: only the object as it is now counts, not what it was. *)
OwnersNow(o) == {obj[o].owner} \cap Apps

(* Owns(&corev1.ConfigMap{}), Owns(&corev1.Service{}): an event is for the app
   that controls the object, before or after the change. *)
OwnersOf(o) == (unseen[o] \cup {seen[o].owner}) \cap Apps

Deliver(o) ==
  /\ Stale(o)
  /\ seen' = [seen EXCEPT ![o] = obj[o]]
  /\ unseen' = [unseen EXCEPT ![o] = {}]
  /\ queued' = queued \cup OwnersOf(o)
  /\ UNCHANGED <<spec, obj, dep, pods, passVars, history, edits, faults>>

(* A changed template replaces the pods. The new ones read the ConfigMaps once
   when they start, which needs all of them to be there. *)
StartPods(a) ==
  /\ pods[a].template # dep[a]
  /\ \A e \in DOMAIN dep[a] : obj[Object(a, e)].exists
  /\ pods' = [pods EXCEPT ![a] =
       [template |-> dep[a],
        files |-> [e \in DOMAIN dep[a] |-> obj[Object(a, e)]]]]
  /\ UNCHANGED <<spec, objVars, dep, queued, passVars, history, edits, faults>>

-----------------------------------------------------------------------------
(* A pass of reconcileAll for one app. *)

Begin(a) ==
  /\ pc = "idle" /\ a \in queued
  /\ queued' = queued \ {a}
  /\ cur' = a /\ snap' = spec[a]
  /\ pc' = "configmaps" /\ todo' = Declared(spec[a], "ConfigMap")
  /\ UNCHANGED <<spec, objVars, dep, pods, history, edits, faults>>

PassOver == pc' = "idle" /\ cur' = Nobody /\ snap' = Nothing /\ todo' = {}

(* A step failed: the pass ends and the key comes back with backoff. *)
Abort ==
  /\ PassOver
  /\ queued' = queued \cup {cur}

(* Faulty variant: the controller of an existing object is not respected. *)
CanWriteAnyOwner(o, want) ==
  CASE ~seen[o].exists -> ~obj[o].exists
    [] seen[o] = want  -> TRUE
    [] OTHER           -> ~Stale(o)

(* Whether CreateOrUpdate brings object o to the state wanted. It acts on the
   copy: it creates, which fails if the object is there after all;
   SetControllerReference refuses one with another controller; nothing is
   sent if the copy is as wanted; and an update of a stale copy is refused. *)
CanWrite(o, want) ==
  CASE ~seen[o].exists                     -> ~obj[o].exists
    [] seen[o].owner \notin {Nobody, cur} -> FALSE
    [] seen[o] = want                      -> TRUE
    [] OTHER                               -> ~Stale(o)

(* CreateOrUpdate for entry e, of which at most the write remains. *)
Write(e) ==
  LET o == Object(cur, e)
      want == Owned(cur, snap[e]) IN
  /\ CanWrite(o, want)
  /\ IF seen[o] = want THEN UNCHANGED <<obj, unseen>> ELSE Put(o, want)

Refused(e) ==
  /\ ~CanWrite(Object(cur, e), Owned(cur, snap[e]))
  /\ Abort /\ UNCHANGED <<obj, unseen>>

(* reconcileConfigMaps, one entry. *)
ReconcileConfigMap(e) ==
  /\ pc = "configmaps" /\ e \in todo
  /\ \/ /\ Write(e) /\ todo' = todo \ {e}
        /\ UNCHANGED <<pc, cur, snap, queued>>
     \/ Refused(e)
  /\ UNCHANGED <<spec, seen, dep, pods, history, edits, faults>>

(* Faulty variant: neither the labels nor the controller are looked at. *)
StaleConfigMapsOfAll ==
  {o \in Objects : o.kind = "ConfigMap" /\ seen[o].exists}
    \ {Object(cur, e) : e \in Declared(snap, "ConfigMap")}

(* The cached ConfigMaps that the app controls and does not declare. *)
StaleConfigMaps ==
  {o \in Objects : o.kind = "ConfigMap" /\ seen[o].owner = cur}
    \ {Object(cur, e) : e \in Declared(snap, "ConfigMap")}

ListConfigMaps ==
  /\ pc = "configmaps" /\ todo = {}
  /\ pc' = "pruneConfigMaps" /\ todo' = StaleConfigMaps
  /\ UNCHANGED <<spec, objVars, dep, pods, queued, cur, snap, history, edits,
                 faults>>

(* r.Delete names the object and nothing else: no uid, no resourceVersion. *)
Delete(o) ==
  IF obj[o].exists THEN Put(o, Absent) ELSE UNCHANGED <<obj, unseen>>

PruneConfigMap(o) ==
  /\ pc = "pruneConfigMaps" /\ o \in todo
  /\ Delete(o) /\ todo' = todo \ {o}
  /\ UNCHANGED <<spec, seen, dep, pods, queued, pc, cur, snap, history, edits,
                 faults>>

ReconcileDeployment ==
  /\ pc = "pruneConfigMaps" /\ todo = {}
  /\ dep' = [dep EXCEPT ![cur] = PodTemplate(snap)]
  /\ pc' = "service"
  /\ UNCHANGED <<spec, objVars, pods, queued, cur, snap, todo, history, edits,
                 faults>>

(* reconcileService: write it, or, without exposed ports, delete whatever the
   cache shows under the app's name. *)
ReconcileService ==
  LET o == Object(cur, Service) IN
  /\ pc = "service"
  /\ \/ /\ snap[Service] # Nothing /\ Write(Service)
        /\ PassOver /\ UNCHANGED queued
     \/ snap[Service] # Nothing /\ Refused(Service)
     \/ /\ snap[Service] = Nothing
        /\ IF seen[o].exists THEN Delete(o) ELSE UNCHANGED <<obj, unseen>>
        /\ PassOver /\ UNCHANGED queued
  /\ UNCHANGED <<spec, seen, dep, pods, history, edits, faults>>

(* Any call of a pass may fail. *)
CallFails ==
  /\ pc # "idle" /\ faults < MaxFaults
  /\ faults' = faults + 1
  /\ Abort
  /\ UNCHANGED <<spec, objVars, dep, pods, history, edits>>

-----------------------------------------------------------------------------

Pass ==
  \/ \E a \in Apps : Begin(a)
  \/ \E x \in todo : ReconcileConfigMap(x) \/ PruneConfigMap(x)
  \/ ListConfigMaps \/ ReconcileDeployment \/ ReconcileService

Next ==
  \/ Pass \/ CallFails
  \/ \E a \in Apps, c \in Contents \cup Ports \cup {Nothing} :
       \E e \in Entries[a] : UserEdit(a, e, c)
  \/ \E o \in Objects : Deliver(o)
  \/ \E o \in Objects, x \in {Absent} \cup {Owned(Nobody, p) : p \in Ports} :
       ByHand(o, x)
  \/ \E a \in Apps : StartPods(a)

Spec == Init /\ [][Next]_vars

(* The worker, the informer and the kubelets keep going, and the queue is first
   in, first out: no key is overtaken for ever by that of a failing app. *)
Fairness ==
  /\ WF_vars(Pass)
  /\ \A a \in Apps : SF_vars(Begin(a)) /\ WF_vars(StartPods(a))
  /\ \A o \in Objects : WF_vars(Deliver(o))

FairSpec == Spec /\ Fairness

-----------------------------------------------------------------------------
(* Properties. *)

(* Every variable keeps its type, and the loops of a pass only visit what the
   app declares or has left behind. *)
TypeOK ==
  LET Data == Contents \cup Ports \cup {Nothing}
      ObjType == [exists : BOOLEAN, owner : Apps \cup {Nobody}, data : Data] IN
  /\ \A a \in Apps : spec[a] \in [Entries[a] -> Data]
  /\ obj \in [Objects -> ObjType] /\ seen \in [Objects -> ObjType]
  /\ unseen \in [Objects -> SUBSET (Apps \cup {Nobody})]
  /\ \A a \in Apps : DOMAIN dep[a] \subseteq Entries[a]
  /\ queued \subseteq Apps /\ back \subseteq UNION {{a} \X Entries[a] : a \in Apps}
  /\ IF pc = "idle" THEN cur = Nobody /\ snap = Nothing
                    ELSE cur \in Apps /\ snap \in [Entries[cur] -> Data]
  /\ pc \in {"idle", "configmaps", "pruneConfigMaps", "service"}
  /\ todo \subseteq (IF pc = "configmaps" THEN Declared(snap, "ConfigMap")
                     ELSE Objects)
  /\ edits \in 0..MaxEdits /\ faults \in 0..MaxFaults

(* An object that one app controls never passes to another while it exists,
   although CreateOrUpdate looks for the other controller only on a copy. *)
NeverSeizes ==
  [][\A o \in Objects :
       obj[o].owner \in Apps /\ obj'[o].owner \in Apps
         => obj'[o].owner = obj[o].owner]_vars

(* Pruning never deletes the object of another app, although the list it goes
   by is a cached one and Delete takes whatever has the name by then. *)
PrunesOnlyOwn ==
  [][\A o \in Objects : PruneConfigMap(o) => obj[o].owner \in {cur, Nobody}]_vars

Quiescent ==
  /\ pc = "idle" /\ queued = {}
  /\ \A o \in Objects : ~Stale(o)
  /\ \A a \in Apps : pods[a].template = dep[a]

(* When everything falls silent every declared object is there, with its app
   as its controller and the contents of the spec; no app controls one that it
   does not declare; and the pods have read the data of the spec, entry by
   entry, with two exceptions that the hash cannot tell apart. If the user went
   back to earlier data, the template may have pods that started late, on the
   data in between. If the object was deleted, pods may have started on what
   another app had put under the same name. Neither are replaced. *)
SettledObjects ==
  Quiescent =>
    \A a \in Apps :
      /\ \A e \in Entries[a] :
           IF spec[a][e] # Nothing
           THEN obj[Object(a, e)] = Owned(a, spec[a][e])
           ELSE obj[Object(a, e)].owner # a
      /\ DOMAIN pods[a].files = Declared(spec[a], "ConfigMap")
      /\ \A e \in DOMAIN pods[a].files :
           <<a, e>> \notin back /\ pods[a].files[e].owner = a
             => pods[a].files[e].data = spec[a][e]

(* Another app has an object that app a declares: every pass for a fails. *)
Blocked(a) ==
  \E e \in Entries[a] :
    spec[a][e] # Nothing /\ obj[Object(a, e)].owner \notin {a, Nobody}

(* An app ends up with what it declares, rolled out, unless it stays blocked;
   and two apps cannot both be blocked for ever, or one by an object that
   nobody declares: who is blocked in the end is so by a declared object. *)
EveryAppServed ==
  <>[](\A a \in Apps :
        IF Blocked(a)
        THEN \E b \in Apps \ {a}, e \in Entries[a] : \E f \in Entries[b] :
               /\ spec[a][e] # Nothing /\ spec[b][f] # Nothing
               /\ Object(a, e) = Object(b, f)
        ELSE /\ \A e \in Entries[a] : spec[a][e] # Nothing
                  => obj[Object(a, e)] = Owned(a, spec[a][e])
             /\ DOMAIN pods[a].template = Declared(spec[a], "ConfigMap"))
=============================================================================
