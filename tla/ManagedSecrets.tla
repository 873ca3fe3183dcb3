--------------------------- MODULE ManagedSecrets ---------------------------
(***************************************************************************)
(* The Secrets behind one AppDefinition: the inline ones the operator      *)
(* writes itself, the ExternalSecrets it creates for the External Secrets  *)
(* Operator (ESO) to turn into Secrets, references to existing Secrets,    *)
(* and the Deployment whose pod template names and hashes them.            *)
(*                                                                         *)
(* An entry n of the spec and the Secret "<app>-n" it stands for share the *)
(* name n.  Every API call of a pass is a step of its own, and ESO, the    *)
(* garbage collector, the informer and the user interleave with them.      *)
(* Secrets are read through the informer cache by reconcileSecrets and     *)
(* straight from the API server by the other steps.  Contents are version  *)
(* numbers; a hash is the versions it covers.                              *)
(***************************************************************************)
EXTENDS Naturals, FiniteSets

CONSTANTS
  Names,      \* entries of spec.secrets and spec.externalSecrets
  KindsUsed,  \* how the user may declare an entry
  MaxEdits,   \* bound: edits of the spec and Secrets made by hand
  MaxData     \* bound: versions of inline data and of the remote value

Kinds == {"none", "inline", "external", "ref"}

ASSUME ConstantsAssumption ==
  /\ KindsUsed \subseteq Kinds
  /\ MaxEdits \in Nat
  /\ MaxData \in Nat \ {0}

VARIABLES
  spec,      \* per name: how the stored spec declares it, and its inline data
  secret,    \* per name: the stored Secret, its controller and contents
  seen,      \* per name: the informer's copy of the Secret
  lag,       \* per name: the copy is not the stored version
  es,        \* per name: the Ready condition of the ExternalSecret, if any
  remote,    \* version of the value in the backing store
  dep,       \* the Deployment's Secret references and hashed versions
  queued,    \* the app's key is queued or about to be re-added
  pc,        \* where the pass is
  snap,      \* the spec this pass works from
  todo,      \* names the current loop still has to visit
  hash,      \* versions read by externalSecretHash
  cond,      \* the condition ExternalSecretsReady: "none", "False" or "True"
  edits      \* edits made so far

vars == <<spec, secret, seen, lag, es, remote, dep, queued, pc, snap, todo,
          hash, cond, edits>>

NoSecret == [owner |-> "none", data |-> 0]

Exists(s) == s.owner # "none"

(* An ExternalSecret is absent, not processed by ESO yet (it has no Ready
   condition), or as ESO reported it last: Ready or not Ready. *)
EsStates == {"absent", "new", "ready", "notReady"}

(* The names that have an ExternalSecret. *)
Present == {n \in Names : es[n] # "absent"}

(* The names declared as kind k in spec s. *)
Declared(s, k) == {n \in Names : s[n].kind = k}

Init ==
  /\ spec = [n \in Names |-> [kind |-> "none", data |-> 0]]
  /\ secret = [n \in Names |-> NoSecret]
  /\ seen = secret
  /\ lag = [n \in Names |-> FALSE]
  /\ es = [n \in Names |-> "absent"]
  /\ remote = 1
  /\ dep = [refs |-> {}, hash |-> [n \in Names |-> 0]]
  /\ queued = FALSE /\ pc = "idle" /\ snap = spec /\ todo = {}
  /\ hash = [n \in Names |-> 0]
  /\ cond = "none" /\ edits = 0

-----------------------------------------------------------------------------
(* Around the operator. *)

(* The user declares entry n anew; inline entries carry their data. *)
UserEdit(n, k, d) ==
  /\ edits < MaxEdits
  /\ d = 0 <=> k # "inline"
  /\ spec[n] # [kind |-> k, data |-> d]
  /\ spec' = [spec EXCEPT ![n] = [kind |-> k, data |-> d]]
  /\ edits' = edits + 1
  /\ queued' = TRUE
  /\ UNCHANGED <<secret, seen, lag, es, remote, dep, pc, snap, todo, hash, cond>>

(* The stored Secret n becomes s, which the informer has yet to see. *)
Put(n, s) ==
  /\ secret' = [secret EXCEPT ![n] = s]
  /\ lag' = [lag EXCEPT ![n] = TRUE]

(* Somebody creates the Secret by hand, for an entry that references it. *)
UserSecret(n) ==
  /\ edits < MaxEdits /\ spec[n].kind = "ref" /\ ~Exists(secret[n])
  /\ Put(n, [owner |-> "user", data |-> 1])
  /\ edits' = edits + 1
  /\ UNCHANGED <<spec, seen, es, remote, dep, queued, pc, snap, todo, hash, cond>>

Rotate ==
  /\ remote < MaxData
  /\ remote' = remote + 1
  /\ UNCHANGED <<spec, secret, seen, lag, es, dep, queued, pc, snap, todo, hash,
                 edits, cond>>

(* ESO's verdict on n changes: that passes esoDependencyPredicate, as does a
   deletion, and queues the app. ExternalSecrets are read from the API server
   and a key may wait in the queue, so the event is delivered at once. *)
Report(n, verdict) ==
  /\ es' = [es EXCEPT ![n] = verdict]
  /\ queued' = (queued \/ verdict # es[n])

(* ESO looks at an ExternalSecret: it brings the target Secret to the remote
   value and reports Ready. What it reported stays until it looks again,
   whatever becomes of the Secret in the meantime. *)
EsoSync(n) ==
  /\ n \in Present /\ secret[n].owner # "app"
  /\ <<secret[n], es[n]>> # <<[owner |-> "es", data |-> remote], "ready">>
  /\ Put(n, [owner |-> "es", data |-> remote])
  /\ Report(n, "ready")
  /\ UNCHANGED <<spec, seen, remote, dep, pc, snap, todo, hash, edits, cond>>

(* With creationPolicy Owner it becomes the Secret's controller, which it
   cannot while the AppDefinition is. *)
EsoRefused(n) ==
  /\ n \in Present /\ secret[n].owner = "app" /\ es[n] # "notReady"
  /\ Report(n, "notReady")
  /\ UNCHANGED <<spec, secret, seen, lag, remote, dep, pc, snap, todo, hash,
                 edits, cond>>

(* The garbage collector removes the Secret of a deleted ExternalSecret. *)
GarbageCollect(n) ==
  /\ secret[n].owner = "es" /\ n \notin Present
  /\ Put(n, NoSecret)
  /\ UNCHANGED <<spec, seen, es, remote, dep, queued, pc, snap, todo, hash,
                 edits, cond>>

(* Faulty variant: only Secrets the AppDefinition itself controls are watched
   (Owns instead of the label-based watch). *)
MapsToAppOwnedOnly(s) == s.owner = "app"

(* mapManagedSecretToAppDefinition: the Secrets that carry the operator's
   labels, whether it wrote them or ESO did from the template. *)
MapsToApp(s) == s.owner \in {"app", "es"}

(* The informer catches up with Secret n; the update handler is given both
   the old and the new object. *)
Deliver(n) ==
  /\ lag[n]
  /\ seen' = [seen EXCEPT ![n] = secret[n]]
  /\ lag' = [lag EXCEPT ![n] = FALSE]
  /\ queued' = (queued \/ MapsToApp(seen[n]) \/ MapsToApp(secret[n]))
  /\ UNCHANGED <<spec, secret, es, remote, dep, pc, snap, todo, hash, edits, cond>>

-----------------------------------------------------------------------------
(* A pass of the reconciler. *)

Begin ==
  /\ pc = "idle" /\ queued
  /\ queued' = FALSE
  /\ snap' = spec
  /\ pc' = "secrets" /\ todo' = Declared(spec, "inline")
  /\ UNCHANGED <<spec, secret, seen, lag, es, remote, dep, hash, edits, cond>>

(* A step failed: the status says so, and the key comes back with backoff. *)
Abort ==
  /\ pc' = "status" /\ todo' = {}
  /\ queued' = TRUE

(* Faulty variant: the controller of an existing Secret is not respected. *)
CanWriteAnyOwner(n, want) ==
  CASE ~Exists(seen[n]) -> ~Exists(secret[n])
    [] seen[n] = want   -> TRUE
    [] OTHER            -> ~lag[n]

(* Whether CreateOrUpdate brings Secret n to the state wanted. It acts on the
   cached copy: it creates, which fails if the Secret is there after all; it
   does nothing if the copy is as desired; it gives up if the copy has another
   controller; and it updates, which fails if the copy is stale. *)
CanWrite(n, want) ==
  CASE ~Exists(seen[n])     -> ~Exists(secret[n])
    [] seen[n].owner = "es" -> FALSE
    [] seen[n] = want       -> TRUE
    [] OTHER                -> ~lag[n]

(* reconcileSecrets, one inline entry. *)
ReconcileSecret(n) ==
  LET want == [owner |-> "app", data |-> snap[n].data] IN
  /\ pc = "secrets" /\ n \in todo
  /\ IF CanWrite(n, want)
     THEN /\ todo' = todo \ {n}
          /\ IF seen[n] = want THEN UNCHANGED <<secret, lag>> ELSE Put(n, want)
          /\ UNCHANGED <<pc, queued>>
     ELSE Abort /\ UNCHANGED <<secret, lag>>
  /\ UNCHANGED <<spec, seen, es, remote, dep, snap, hash, edits, cond>>

(* Faulty variant: the owner of a listed Secret is not looked at. *)
StaleAnyOwner == {n \in Names : Exists(seen[n])} \ Declared(snap, "inline")

(* The cached Secrets that the app controls and the spec no longer asks for
   inline. *)
StaleSecrets ==
  {n \in Names : seen[n].owner = "app"} \ Declared(snap, "inline")

ListSecrets ==
  /\ pc = "secrets" /\ todo = {}
  /\ pc' = "pruneSecrets" /\ todo' = StaleSecrets
  /\ UNCHANGED <<spec, secret, seen, lag, es, remote, dep, queued, snap, hash,
                 edits, cond>>

(* r.Delete names the Secret and nothing else: no uid, no resourceVersion. *)
PruneSecret(n) ==
  /\ pc = "pruneSecrets" /\ n \in todo
  /\ todo' = todo \ {n}
  /\ IF Exists(secret[n]) THEN Put(n, NoSecret) ELSE UNCHANGED <<secret, lag>>
  /\ UNCHANGED <<spec, seen, es, remote, dep, queued, pc, snap, hash, edits, cond>>

(* reconcileExternalSecrets, one entry: create it, or replace what is there,
   which leaves its status alone. *)
ReconcileExternalSecret(n) ==
  /\ pc = "externalSecrets" /\ n \in todo
  /\ es' = [es EXCEPT ![n] = IF @ = "absent" THEN "new" ELSE @]
  /\ todo' = todo \ {n}
  /\ UNCHANGED <<spec, secret, seen, lag, remote, dep, queued, pc, snap, hash,
                 edits, cond>>

(* pruneExternalSecrets. Deleting the object leaves its Secret to the garbage
   collector. *)
PruneExternalSecret(n) ==
  /\ pc = "pruneExternalSecrets" /\ n \in todo
  /\ Report(n, "absent")
  /\ todo' = todo \ {n}
  /\ UNCHANGED <<spec, secret, seen, lag, remote, dep, pc, snap, hash, edits,
                 cond>>

(* reconcileAll moves on when a loop is done. *)
NextLoop ==
  /\ todo = {}
  /\ \/ /\ pc = "pruneSecrets"
        /\ pc' = "externalSecrets" /\ todo' = Declared(snap, "external")
     \/ /\ pc = "externalSecrets"
        /\ pc' = "pruneExternalSecrets"
        /\ todo' = Present \ Declared(snap, "external")
     \/ /\ pc = "pruneExternalSecrets"
        /\ pc' = "externalSecretsRetry" /\ todo' = {}
  /\ UNCHANGED <<spec, secret, seen, lag, es, remote, dep, queued, snap, hash,
                 edits, cond>>

(* retryIfNotReady: an ExternalSecret that is not there is not waited for. *)
Pending(n) == es[n] \in {"new", "notReady"}

(* retryFailedExternalSecrets goes by what ESO reported last, and asks for
   another pass while an entry is not Ready. That ESO is nudged is left out:
   it may look at any object at any time. *)
RetryExternalSecrets ==
  /\ pc = "externalSecretsRetry"
  /\ queued' = (queued \/ \E n \in Declared(snap, "external") : Pending(n))
  /\ pc' = "externalSecretHash"
  /\ UNCHANGED <<spec, secret, seen, lag, es, remote, dep, snap, todo, hash,
                 edits, cond>>

(* Faulty variant: every managed Secret is hashed, dropped entries included. *)
SyncedDataOfAll == [n \in Names |-> secret[n].data]

(* externalSecretHash: the contents of the Secrets behind external entries,
   read from the API server; one that is not there contributes nothing. *)
SyncedData ==
  [n \in Names |-> IF n \in Declared(snap, "external") THEN secret[n].data ELSE 0]

ReadHash ==
  /\ pc = "externalSecretHash"
  /\ hash' = SyncedData
  /\ pc' = "deployment"
  /\ UNCHANGED <<spec, secret, seen, lag, es, remote, dep, queued, snap, todo,
                 edits, cond>>

(* The pod template: volumes and envFrom name every declared Secret, and the
   two hash annotations cover inline data and synced data. *)
PodTemplate ==
  [refs |-> {n \in Names : snap[n].kind # "none"},
   hash |-> [n \in Names |-> IF snap[n].kind = "inline" THEN snap[n].data
                             ELSE hash[n]]]

ReconcileDeployment ==
  /\ pc = "deployment"
  /\ dep' = PodTemplate
  /\ pc' = "status"
  /\ UNCHANGED <<spec, secret, seen, lag, es, remote, queued, snap, todo, hash,
                 edits, cond>>

(* Faulty variant: a condition that has lost its entries is left alone. *)
ExternalSecretsStatusKept ==
  IF Declared(spec, "external") = {} THEN cond
  ELSE IF Declared(spec, "external") \subseteq Present THEN "True" ELSE "False"

(* updateExternalSecretsStatus works from the spec as read again, and counts
   the ExternalSecrets that are there. *)
ExternalSecretsStatus ==
  IF Declared(spec, "external") = {} THEN "none"
  ELSE IF Declared(spec, "external") \subseteq Present THEN "True" ELSE "False"

UpdateStatus ==
  /\ pc = "status"
  /\ cond' = ExternalSecretsStatus
  /\ pc' = "idle"
  /\ UNCHANGED <<spec, secret, seen, lag, es, remote, dep, queued, snap, todo,
                 hash, edits>>

-----------------------------------------------------------------------------

Pass ==
  \/ Begin \/ ListSecrets \/ NextLoop \/ RetryExternalSecrets \/ ReadHash
  \/ ReconcileDeployment \/ UpdateStatus
  \/ \E n \in Names : \/ ReconcileSecret(n) \/ PruneSecret(n)
                      \/ ReconcileExternalSecret(n) \/ PruneExternalSecret(n)

Next ==
  \/ Pass
  \/ Rotate
  \/ \E n \in Names : \/ UserSecret(n) \/ EsoSync(n) \/ EsoRefused(n)
                      \/ GarbageCollect(n) \/ Deliver(n)
                      \/ \E k \in KindsUsed, d \in 0..MaxData : UserEdit(n, k, d)

Spec == Init /\ [][Next]_vars

(* The worker, ESO, the garbage collector and the informer keep going. *)
Fairness ==
  /\ WF_vars(Pass)
  /\ \A n \in Names : /\ WF_vars(EsoSync(n)) /\ WF_vars(GarbageCollect(n))
                      /\ WF_vars(Deliver(n))

FairSpec == Spec /\ Fairness

-----------------------------------------------------------------------------
(* Properties. *)

(* Every variable keeps its type; the loops only visit entries, and the hash
   annotations of the Deployment cover only Secrets its template references. *)
TypeOK ==
  /\ spec \in [Names -> [kind : Kinds, data : 0..MaxData]]
  /\ snap \in [Names -> [kind : Kinds, data : 0..MaxData]]
  /\ secret \in [Names -> [owner : {"none", "app", "es", "user"},
                           data : 0..MaxData]]
  /\ seen \in [Names -> [owner : {"none", "app", "es", "user"},
                         data : 0..MaxData]]
  /\ lag \in [Names -> BOOLEAN] /\ es \in [Names -> EsStates]
  /\ remote \in 1..MaxData
  /\ dep \in [refs : SUBSET Names, hash : [Names -> 0..MaxData]]
  /\ \A n \in Names : dep.hash[n] # 0 => n \in dep.refs
  /\ queued \in BOOLEAN
  /\ pc \in {"idle", "secrets", "pruneSecrets", "externalSecrets",
             "pruneExternalSecrets", "externalSecretsRetry",
             "externalSecretHash", "deployment", "status"}
  /\ cond \in {"none", "False", "True"}
  /\ todo \subseteq Names /\ hash \in [Names -> 0..MaxData]
  /\ edits \in 0..MaxEdits

Quiescent == pc = "idle" /\ ~queued /\ \A n \in Names : ~lag[n]

(* When the operator falls silent the Deployment references exactly the
   declared Secrets, and its hashes cover the contents they have, so the pods
   were rolled after the last change of an inline or a synced value; inline
   Secrets hold the spec's data, no Secret the spec dropped is left with the
   app as its controller, and ESO last reported every external entry Ready.
   Its Secret need not be there: r.Delete goes by name, a prune decided on a
   stale copy can remove what ESO has just synced, and the operator counts on
   ESO alone to notice (ExternalTakesHold). *)
SettledRollout ==
  Quiescent =>
    /\ dep.refs = {n \in Names : spec[n].kind # "none"}
    /\ \A n \in Declared(spec, "inline") :
         /\ secret[n] = [owner |-> "app", data |-> spec[n].data]
         /\ dep.hash[n] = secret[n].data
    /\ \A n \in Declared(spec, "external") :
         es[n] = "ready" /\ dep.hash[n] = secret[n].data
    /\ \A n \in Names : secret[n].owner = "app" => spec[n].kind = "inline"

(* When the operator falls silent ExternalSecretsReady says what is there: it
   is set exactly if there are external entries, and then it is True, although
   it is computed from a newer spec than the pass whose objects it counts. *)
SettledEsCondition ==
  Quiescent =>
    cond = IF Declared(spec, "external") = {} THEN "none" ELSE "True"

(* A Secret that ESO controls is never taken over by an inline entry of the
   same name, although CreateOrUpdate looks for the other controller only on a
   cached copy that may predate it. *)
NeverSeizesFromEso ==
  [][\A n \in Names : secret[n].owner = "es" => secret'[n].owner # "app"]_vars

(* An inline entry finds its Secret in the hands of ESO: reconcileSecrets
   fails, and so does every pass while the spec stays as it is. *)
Blocked == \E n \in Declared(spec, "inline") : secret[n].owner = "es"

(* An entry that ends up external ends up with ESO's Secret, at the remote
   value, rolled out, whatever it was declared as before: the operator gets
   out of ESO's way. Only another entry that blocks the pass can prevent it. *)
ExternalTakesHold ==
  \A n \in Names :
    <>[](spec[n].kind = "external" /\ ~Blocked =>
           /\ secret[n] = [owner |-> "es", data |-> remote]
           /\ dep.hash[n] = remote /\ n \in dep.refs)
=============================================================================
