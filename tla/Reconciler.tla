----------------------------- MODULE Reconciler -----------------------------
(***************************************************************************)
(* The control loop of the operator for one AppDefinition:                 *)
(* AppDefinitionReconciler.Reconcile with everything it depends on.        *)
(*                                                                         *)
(* Three parties share the state.  The API server stores the AppDefinition *)
(* and its children; the controller's worker runs Reconcile one step at a  *)
(* time; the informer cache trails the API server and turns what changed   *)
(* into work.  Users, the kubelet, the garbage collector and operator      *)
(* restarts interleave with the worker between any two of its API calls.   *)
(*                                                                         *)
(* Data is reduced to what the control flow reads.  A spec is its          *)
(* generation, its paused flag and its replica count; a child is the uid   *)
(* and generation of the AppDefinition it was last written from.  A        *)
(* resourceVersion is only ever compared with the stored one, so it        *)
(* is modelled by that comparison: held says whether the object the worker *)
(* read last is still the stored one.  The informer may skip over versions *)
(* of an object but never goes back; as user writes are visible to the     *)
(* worker only through the cache and through conflicts, every run with a   *)
(* version-by-version cache is matched by one in which the skipped write   *)
(* happens later.                                                          *)
(***************************************************************************)
EXTENDS Naturals

CONSTANTS
  MaxGen,         \* bound: spec generations per incarnation of the app
  MaxUid,         \* bound: times the AppDefinition may be created
  MaxFaults,      \* bound: failed calls, crashes, pod losses and drift
  ReplicaCounts,  \* the values of spec.replicas (an unset pointer counts as 1)
  Drifting,       \* steps whose children somebody else may tamper with
  Active,         \* the steps the app's spec gives something to do
  StatusTries     \* attempts of retry.RetryOnConflict(DefaultBackoff)

ASSUME ConstantsAssumption ==
  /\ MaxGen \in Nat \ {0}
  /\ MaxUid \in Nat \ {0}
  /\ MaxFaults \in Nat
  /\ ReplicaCounts \subseteq Nat /\ ReplicaCounts # {}
  /\ "deployment" \in Active
  /\ StatusTries \in Nat \ {0}

VARIABLES
  app,         \* the stored AppDefinition (uid 0: it does not exist)
  child,       \* per kind: uid and generation its children were written from
  replicas,    \* Deployment.spec.replicas
  ready,       \* Deployment.status.readyReplicas
  cached,      \* the informer's copy of the AppDefinition
  appEvent,    \* the informer has not caught up with app
  depSeen,     \* the informer's copy of the Deployment
  childEvent,  \* a watched child changed and the event is not delivered
  queued,      \* the work queue holds the app's key
  timer,       \* a delayed or rate-limited re-add of the key is pending
  pc,          \* where the worker is
  snap,        \* appDef: the copy Reconcile works from
  step,        \* the step of reconcileAll to run next
  failed,      \* reconcileErr # nil
  pending,     \* externalSecretsPending
  phase,       \* the phase updateStatusOnce computed
  held,        \* the object read last is still the stored version
  tries,       \* status attempts left
  gauge,       \* appoperator_app_ready / appoperator_app_observed_generation
  uids,        \* uids handed out so far
  faults       \* faults spent so far

apiVars    == <<app, child, replicas, ready>>
cacheVars  == <<cached, appEvent, depSeen, childEvent>>
queueVars  == <<queued, timer>>
workerVars == <<pc, snap, step, failed, pending, phase, held, tries>>
vars       == <<apiVars, cacheVars, queueVars, workerVars, gauge, uids, faults>>

-----------------------------------------------------------------------------

(* The steps of reconcileAll, with their place in its order. A step that is
   not Active changes nothing; its failure is that of a neighbour. *)
Place == [configmaps |-> 1, secrets |-> 2, secret_store |-> 3,
          external_secrets |-> 4, external_secrets_retry |-> 5,
          deployment |-> 6, service |-> 7, pvc |-> 8, middlewares |-> 9,
          ingress |-> 10, hpa |-> 11, service_monitor |-> 12]

Steps == DOMAIN Place

ASSUME StepsAssumption == Active \subseteq Steps

(* t is the first step of reconcileAll among those in S. *)
IsFirst(t, S) == t \in S /\ \A u \in S : Place[t] <= Place[u]

After(s) == {t \in Active : Place[t] > Place[s]}

(* The steps that keep children; the retry step has none of its own. *)
Kinds == Active \ {"external_secrets_retry"}

(* Faulty variant: the label-based Secret watch is left out. *)
WatchedWithoutSecrets ==
  Steps \ {"secrets", "external_secrets_retry", "middlewares", "service_monitor"}

(* The steps whose children SetupWithManager watches. *)
Watched == Steps \ {"external_secrets_retry", "middlewares", "service_monitor"}

(* The kinds written from the spec on every pass: a SecretStore is created
   once and then kept. *)
Synced == Kinds \ {"secret_store"}

Phases == {"None", "Paused", "Failed", "Available", "Progressing"}

Absent == [uid |-> 0, gen |-> 0, paused |-> FALSE, replicas |-> 0,
           fin |-> FALSE, foreign |-> FALSE, deleting |-> FALSE,
           phase |-> "None", obs |-> 0]

NoChild == [uid |-> 0, gen |-> 0]
NoGauge == [known |-> FALSE, ready |-> FALSE, gen |-> 0]

Exists(a) == a.uid # 0

AppType ==
  [uid : 0..MaxUid, gen : 0..MaxGen, paused : BOOLEAN, replicas : Nat,
   fin : BOOLEAN, foreign : BOOLEAN, deleting : BOOLEAN,
   phase : Phases, obs : 0..MaxGen]

Init ==
  /\ app = Absent /\ cached = Absent /\ snap = Absent
  /\ child = [s \in Kinds |-> NoChild]
  /\ replicas = 0 /\ ready = 0
  /\ depSeen = [found |-> FALSE, ready |-> 0]
  /\ appEvent = FALSE /\ childEvent = FALSE
  /\ queued = FALSE /\ timer = FALSE
  /\ pc = "idle" /\ step = "deployment" /\ failed = FALSE /\ pending = FALSE
  /\ phase = "None" /\ held = FALSE /\ tries = 0
  /\ gauge = NoGauge /\ uids = 0 /\ faults = 0

-----------------------------------------------------------------------------
(* Writes to the stored AppDefinition. Every accepted write gives it a new
   resourceVersion, which the informer has yet to see. *)

Store(a) ==
  /\ app' = a
  /\ appEvent' = TRUE
  /\ held' = FALSE

(* A user creates, edits or deletes the AppDefinition. foreign stands for a
   finalizer that is not the operator's, such as foregroundDeletion. *)
UserCreate(p, n, f) ==
  /\ ~Exists(app) /\ uids < MaxUid
  /\ uids' = uids + 1
  /\ Store([Absent EXCEPT !.uid = uids + 1, !.gen = 1, !.paused = p,
                          !.replicas = n, !.foreign = f])
  /\ UNCHANGED <<child, replicas, ready, cached, depSeen, childEvent, queueVars,
                 pc, snap, step, failed, pending, phase, tries, gauge, faults>>

UserEdit(p, n) ==
  /\ Exists(app) /\ app.gen < MaxGen
  /\ <<p, n>> # <<app.paused, app.replicas>>
  /\ Store([app EXCEPT !.gen = @ + 1, !.paused = p, !.replicas = n])
  /\ UNCHANGED <<child, replicas, ready, cached, depSeen, childEvent, queueVars,
                 pc, snap, step, failed, pending, phase, tries, gauge, uids,
                 faults>>

(* An object without finalizers goes at once; otherwise it is only marked. *)
UserDelete ==
  /\ Exists(app) /\ ~app.deleting
  /\ Store(IF app.fin \/ app.foreign THEN [app EXCEPT !.deleting = TRUE]
                                     ELSE Absent)
  /\ UNCHANGED <<child, replicas, ready, cached, depSeen, childEvent, queueVars,
                 pc, snap, step, failed, pending, phase, tries, gauge, uids,
                 faults>>

ReleaseForeign ==
  /\ app.deleting /\ app.foreign
  /\ Store(IF app.fin THEN [app EXCEPT !.foreign = FALSE] ELSE Absent)
  /\ UNCHANGED <<child, replicas, ready, cached, depSeen, childEvent, queueVars,
                 pc, snap, step, failed, pending, phase, tries, gauge, uids,
                 faults>>

-----------------------------------------------------------------------------
(* The cluster around the operator. *)

(* The pods of the Deployment settle at the requested number. *)
PodsSettle ==
  /\ Exists(child["deployment"]) /\ ready # replicas
  /\ ready' = replicas
  /\ childEvent' = TRUE
  /\ UNCHANGED <<app, child, replicas, cached, appEvent, depSeen, queueVars,
                 workerVars, gauge, uids, faults>>

Fault ==
  /\ faults < MaxFaults
  /\ faults' = faults + 1

PodLost ==
  /\ Fault
  /\ ready > 0
  /\ ready' = ready - 1
  /\ childEvent' = TRUE
  /\ UNCHANGED <<app, child, replicas, cached, appEvent, depSeen, queueVars,
                 workerVars, gauge, uids>>

(* Somebody deletes or overwrites a child. *)
Drift(s) ==
  /\ Fault
  /\ Exists(child[s])
  /\ child' = [child EXCEPT ![s].gen = 0]
  /\ childEvent' = (childEvent \/ s \in Watched)
  /\ UNCHANGED <<app, replicas, ready, cached, appEvent, depSeen, queueVars,
                 workerVars, gauge, uids>>

(* The garbage collector removes children whose owner is gone. *)
GarbageCollect(s) ==
  /\ Exists(child[s]) /\ child[s].uid # app.uid
  /\ child' = [child EXCEPT ![s] = NoChild]
  /\ IF s = "deployment" THEN replicas' = 0 /\ ready' = 0
                         ELSE UNCHANGED <<replicas, ready>>
  /\ childEvent' = (childEvent \/ s \in Watched)
  /\ UNCHANGED <<app, cached, appEvent, depSeen, queueVars, workerVars, gauge,
                 uids, faults>>

-----------------------------------------------------------------------------
(* The informers and the work queue. For(&AppDefinition{}) has no predicate,
   so status-only updates enqueue as well; Owns and Watches enqueue the owner
   of a changed child. A key added while the worker holds it is queued again
   when the worker is done. *)

DeliverApp ==
  /\ appEvent
  /\ cached' = app /\ appEvent' = FALSE
  /\ queued' = TRUE
  /\ UNCHANGED <<apiVars, depSeen, childEvent, timer, workerVars, gauge, uids,
                 faults>>

DeploymentNow == [found |-> Exists(child["deployment"]), ready |-> ready]

DeliverChild ==
  /\ childEvent
  /\ depSeen' = DeploymentNow /\ childEvent' = FALSE
  /\ queued' = TRUE
  /\ UNCHANGED <<apiVars, cached, appEvent, timer, workerVars, gauge, uids,
                 faults>>

TimerFires ==
  /\ timer
  /\ timer' = FALSE /\ queued' = TRUE
  /\ UNCHANGED <<apiVars, cacheVars, workerVars, gauge, uids, faults>>

(* The operator crashes, or is rolled out, and starts again: the queue, the
   timers, the worker and the metrics registry are lost, and the informers
   list everything anew, which enqueues every AppDefinition that exists and
   the owner of every child. *)
Restart ==
  /\ Fault
  /\ pc' = "idle" /\ snap' = Absent /\ step' = "deployment" /\ failed' = FALSE
  /\ pending' = FALSE /\ phase' = "None" /\ held' = FALSE /\ tries' = 0
  /\ cached' = app /\ appEvent' = FALSE
  /\ depSeen' = DeploymentNow /\ childEvent' = FALSE
  /\ queued' = (Exists(app) \/ \E s \in Kinds \cap Watched : Exists(child[s]))
  /\ timer' = FALSE
  /\ gauge' = NoGauge
  /\ UNCHANGED <<apiVars, uids>>

-----------------------------------------------------------------------------
(* Reconcile. *)

(* The worker is done with the key; again says whether the result or the
   error makes the work queue add it back later. *)
Return(again) ==
  /\ pc' = "idle"
  /\ timer' = (timer \/ again)
  /\ snap' = Absent /\ step' = "deployment" /\ failed' = FALSE /\ pending' = FALSE
  /\ phase' = "None" /\ held' = FALSE /\ tries' = 0

(* Faulty variants: reconciling before the finalizer is in place, asking
   whether the app is paused before asking whether it is being deleted, and
   not asking at all. *)
RouteWithoutFinalizer(a) ==
  CASE a.deleting -> "handleDeletion"
    [] ~a.deleting /\ a.paused -> "updateStatus"
    [] OTHER -> "reconcileAll"

RoutePausedFirst(a) ==
  CASE ~a.fin -> "addFinalizer"
    [] a.fin /\ a.paused -> "updateStatus"
    [] a.fin /\ ~a.paused /\ a.deleting -> "handleDeletion"
    [] OTHER -> "reconcileAll"

RouteAlways(a) ==
  CASE ~a.fin -> "addFinalizer"
    [] a.fin /\ a.deleting -> "handleDeletion"
    [] OTHER -> "reconcileAll"

(* What Reconcile does first for the copy a it read. reconcileAll skips every
   step of a paused app. *)
Route(a) ==
  CASE ~a.fin -> "addFinalizer"
    [] a.fin /\ a.deleting -> "handleDeletion"
    [] a.fin /\ ~a.deleting /\ a.paused -> "updateStatus"
    [] OTHER -> "reconcileAll"

(* Faulty variant: the gauges of a deleted app are kept. *)
KeepAppMetrics == gauge

(* forgetAppMetrics. *)
ForgetAppMetrics == NoGauge

(* Reconcile up to the first write: read the cached AppDefinition and choose
   what to do with it, or forget it when it is gone. *)
Begin ==
  /\ pc = "idle" /\ queued
  /\ queued' = FALSE
  /\ IF Exists(cached)
     THEN /\ snap' = cached
          /\ held' = ~appEvent
          /\ pc' = Route(cached)
          /\ \E s \in Active : IsFirst(s, Active) /\ step' = s
          /\ tries' = StatusTries
          /\ UNCHANGED <<timer, failed, pending, phase, gauge>>
     ELSE /\ Return(FALSE)
          /\ gauge' = ForgetAppMetrics
  /\ UNCHANGED <<apiVars, cacheVars, uids, faults>>

(* The API server accepts a write based on the version it stores. *)
Accepted == held

(* AddFinalizer and Update. The API server refuses a stale copy, and refuses
   a new finalizer on an object that is being deleted; both are errors and
   the key is retried with backoff. Success asks for an immediate requeue. *)
AddFinalizer ==
  /\ pc = "addFinalizer"
  /\ IF Accepted /\ ~app.deleting
     THEN /\ app' = [app EXCEPT !.fin = TRUE]
          /\ appEvent' = TRUE
     ELSE UNCHANGED <<app, appEvent>>
  /\ Return(TRUE)
  /\ UNCHANGED <<child, replicas, ready, cached, depSeen, childEvent, queued,
                 gauge, uids, faults>>

(* A call either gets its answer or, at the price of a fault, loses it. *)
Answered(lost) == IF lost THEN Fault ELSE UNCHANGED faults

(* handleDeletion: RemoveFinalizer and Update; the object goes with its last
   finalizer. lost: the write was made but its answer never came. *)
HandleDeletion(lost) ==
  /\ pc = "handleDeletion"
  /\ Answered(lost)
  /\ IF Accepted
     THEN /\ app' = IF app.foreign THEN [app EXCEPT !.fin = FALSE] ELSE Absent
          /\ appEvent' = TRUE
     ELSE UNCHANGED <<app, appEvent>>
  /\ Return(lost \/ ~Accepted)
  /\ UNCHANGED <<child, replicas, ready, cached, depSeen, childEvent, queued,
                 gauge, uids>>

(* What step s leaves behind for its child. One left over from an earlier
   AppDefinition of the same name is adopted: SetControllerReference tells
   owners apart by group, kind and name, and puts the new uid in the place of
   the old. A SecretStore that is there is left as it is, and to the garbage
   collector if its owner is gone. *)
Written(s) ==
  IF s = "secret_store" /\ Exists(child[s]) THEN child[s]
  ELSE [uid |-> snap.uid, gen |-> snap.gen]

WriteChild(s) ==
  IF s \in Kinds
  THEN /\ child' = [child EXCEPT ![s] = Written(s)]
       /\ replicas' = IF s = "deployment" THEN snap.replicas ELSE replicas
       /\ childEvent' = (childEvent \/ (s \in Watched /\ Written(s) # child[s]))
  ELSE UNCHANGED <<child, replicas, childEvent>>

StepSucceeds(p) ==
  /\ pc = "reconcileAll"
  /\ WriteChild(step)
  /\ IF step = "external_secrets_retry" THEN pending' = p
                                     ELSE p = FALSE /\ pending' = pending
  /\ IF After(step) = {}
     THEN step' = step /\ pc' = "updateStatus"
     ELSE /\ \E s \in After(step) : IsFirst(s, After(step)) /\ step' = s
          /\ pc' = pc
  /\ UNCHANGED <<app, ready, cached, appEvent, depSeen, queueVars, snap, failed,
                 phase, held, tries, gauge, uids, faults>>

(* The first error ends reconcileAll, which then reports nothing pending. *)
StepFails ==
  /\ pc = "reconcileAll"
  /\ Fault
  /\ \/ WriteChild(step)    \* failed after its last write
     \/ UNCHANGED <<child, replicas, childEvent>>
  /\ failed' = TRUE /\ pending' = FALSE
  /\ pc' = "updateStatus"
  /\ UNCHANGED <<app, ready, cached, appEvent, depSeen, queueVars, snap, step,
                 phase, held, tries, gauge, uids>>

(* Faulty variant: more ready pods are asked for than the spec wants. *)
ComputedPhaseStrict ==
  CASE snap.paused -> "Paused"
    [] ~snap.paused /\ failed -> "Failed"
    [] ~snap.paused /\ ~failed /\ depSeen.found
         /\ depSeen.ready > snap.replicas -> "Available"
    [] OTHER -> "Progressing"

(* The phase switch of updateStatusOnce. *)
ComputedPhase ==
  CASE snap.paused -> "Paused"
    [] ~snap.paused /\ failed -> "Failed"
    [] ~snap.paused /\ ~failed /\ depSeen.found
         /\ depSeen.ready >= snap.replicas -> "Available"
    [] OTHER -> "Progressing"

(* What Reconcile returns once the status has been dealt with. *)
Finish(statusErr) ==
  IF failed \/ statusErr THEN Return(TRUE)
  ELSE IF snap.paused THEN Return(FALSE)
  ELSE IF pending THEN Return(TRUE)
  ELSE /\ pc' = "requeue"
       /\ held' = FALSE
       /\ UNCHANGED <<timer, snap, step, failed, pending, phase, tries>>

(* updateStatusOnce up to its write: the phase comes from snap and the cached
   Deployment, the object to write is read from the cache again. *)
ComputeStatus ==
  /\ pc = "updateStatus"
  /\ IF Exists(cached)
     THEN /\ phase' = ComputedPhase
          /\ held' = ~appEvent
          /\ pc' = "writeStatus"
          /\ UNCHANGED <<timer, snap, step, failed, pending, tries>>
     ELSE Finish(TRUE)
  /\ UNCHANGED <<apiVars, cacheVars, queued, gauge, uids, faults>>

(* Status().Update accepted: phase and ObservedGeneration of the re-fetched
   object, which is the stored one. An update that changes nothing makes no
   new version. The metrics are recorded only once the answer is in. *)
WriteStatus(lost) ==
  LET new == [app EXCEPT !.phase = phase, !.obs = app.gen] IN
  /\ pc = "writeStatus"
  /\ Accepted
  /\ Answered(lost)
  /\ app' = new
  /\ appEvent' = (appEvent \/ new # app)
  /\ gauge' = IF lost THEN gauge
              ELSE [known |-> TRUE, ready |-> phase = "Available",
                    gen |-> app.gen]
  /\ Finish(lost)
  /\ UNCHANGED <<child, replicas, ready, cached, depSeen, childEvent, queued,
                 uids>>

(* Faulty variant: conflicts are retried without limit. *)
MoreTriesForever == tries >= 0

(* RetryOnConflict has an attempt left after this one. *)
MoreTries == tries > 1

(* Status().Update refused for its resourceVersion: RetryOnConflict starts
   over from the cache until its attempts are used up. *)
StatusConflict ==
  /\ pc = "writeStatus"
  /\ ~Accepted
  /\ IF Exists(app) /\ MoreTries
     THEN /\ pc' = "updateStatus" /\ tries' = tries - 1
          /\ UNCHANGED <<timer, snap, step, failed, pending, phase, held>>
     ELSE Finish(TRUE)
  /\ UNCHANGED <<apiVars, cacheVars, queued, gauge, uids, faults>>

(* A write of the AppDefinition that fails without effect. *)
CallFails ==
  /\ pc \in {"addFinalizer", "handleDeletion", "writeStatus"}
  /\ Fault
  /\ Return(TRUE)
  /\ UNCHANGED <<apiVars, cacheVars, queued, gauge, uids>>

(* Faulty variant: a Progressing app is left to events alone. *)
LookAgainNever == FALSE

(* The last cached read decides whether to look again in 30 seconds. *)
LookAgain == ~(Exists(cached) /\ cached.phase = "Available")

Requeue ==
  /\ pc = "requeue"
  /\ Return(LookAgain)
  /\ UNCHANGED <<apiVars, cacheVars, queued, gauge, uids, faults>>

-----------------------------------------------------------------------------

User ==
  \/ \E p \in BOOLEAN, n \in ReplicaCounts :
       (\E f \in BOOLEAN : UserCreate(p, n, f)) \/ UserEdit(p, n)
  \/ UserDelete

Cluster ==
  \/ PodsSettle
  \/ PodLost
  \/ ReleaseForeign
  \/ \E s \in Kinds : GarbageCollect(s) \/ (s \in Drifting /\ Drift(s))

Informers == DeliverApp \/ DeliverChild \/ TimerFires

Worker ==
  \/ Begin \/ AddFinalizer \/ CallFails \/ StepFails
  \/ ComputeStatus \/ StatusConflict \/ Requeue
  \/ \E b \in BOOLEAN : StepSucceeds(b) \/ HandleDeletion(b) \/ WriteStatus(b)

Next == User \/ Cluster \/ Informers \/ Worker \/ Restart

Spec == Init /\ [][Next]_vars

(* The worker goroutine, the informers, the delaying queue, the garbage
   collector, the kubelet and other controllers' finalizers all keep making
   progress; users, faults and restarts need not happen. *)
Fairness ==
  /\ WF_vars(DeliverApp) /\ WF_vars(DeliverChild) /\ WF_vars(TimerFires)
  /\ WF_vars(Worker)
  /\ WF_vars(PodsSettle) /\ WF_vars(ReleaseForeign)
  /\ \A s \in Kinds : WF_vars(GarbageCollect(s))

FairSpec == Spec /\ Fairness
-----------------------------------------------------------------------------
(* Properties. *)

Pcs == {"idle", "addFinalizer", "handleDeletion", "reconcileAll",
        "updateStatus", "writeStatus", "requeue"}

AppTypeOK == app \in AppType /\ cached \in AppType /\ snap \in AppType

ClusterTypeOK ==
  /\ child \in [Kinds -> [uid : 0..MaxUid, gen : 0..MaxGen]]
  /\ replicas \in Nat /\ ready \in Nat
  /\ depSeen \in [found : BOOLEAN, ready : Nat]

FlagTypeOK ==
  /\ appEvent \in BOOLEAN /\ childEvent \in BOOLEAN
  /\ queued \in BOOLEAN /\ timer \in BOOLEAN
  /\ failed \in BOOLEAN /\ pending \in BOOLEAN /\ held \in BOOLEAN

WorkerTypeOK ==
  /\ pc \in Pcs /\ step \in Active
  /\ phase \in Phases /\ tries \in 0..StatusTries

RecordTypeOK ==
  /\ gauge \in [known : BOOLEAN, ready : BOOLEAN, gen : 0..MaxGen]
  /\ uids \in 0..MaxUid /\ faults \in 0..MaxFaults

(* Every variable keeps its type; step always names an active step and the
   status is never attempted more often than RetryOnConflict allows. *)
TypeOK ==
  AppTypeOK /\ ClusterTypeOK /\ FlagTypeOK /\ WorkerTypeOK /\ RecordTypeOK

(* reconcileAll only ever runs for an AppDefinition that still exists, is the
   same incarnation as the copy the worker holds, and still carries the
   operator's finalizer, however far the cache trails: no child is created
   for an owner that is already gone. *)
NoOrphans ==
  pc = "reconcileAll" => /\ Exists(app) /\ app.uid = snap.uid
                         /\ app.fin

(* Once the status acknowledges that the current generation is paused, no
   reconcile step runs until the spec changes, not even one left over from a
   pass that began before the app was paused. *)
PausedIsFrozen ==
  Exists(app) /\ app.paused /\ app.phase = "Paused" /\ app.obs = app.gen
    => pc # "reconcileAll"

(* Nothing is under way, nothing is scheduled and no event is in flight. *)
Quiescent ==
  pc = "idle" /\ ~queued /\ ~timer /\ ~appEvent /\ ~childEvent

(* When the operator falls silent the status is right: the app is paused and
   says so, or it is Available with enough ready pods, for the generation
   that is stored; and it is not half deleted. No wakeup is lost, although
   Reconcile decides whether to look again on a cached, possibly stale phase. *)
SettledStatus ==
  Quiescent /\ Exists(app) =>
    /\ ~app.deleting /\ app.fin /\ app.obs = app.gen
    /\ IF app.paused THEN app.phase = "Paused"
       ELSE app.phase = "Available" /\ ready >= app.replicas

(* When the operator falls silent, every child it synchronises was written
   from the stored generation of the stored incarnation, even if somebody
   tampered with it in between: that undoes the drift of every kind
   SetupWithManager watches, and only those may be in Drifting here. *)
SettledChildren ==
  Quiescent /\ Exists(app) /\ ~app.paused =>
    \A s \in Synced : child[s] = [uid |-> app.uid, gen |-> app.gen]

(* When the operator falls silent, the per-app gauges agree with the stored
   status, and an AppDefinition that is gone has none. *)
SettledMetrics ==
  Quiescent =>
    gauge = IF Exists(app)
            THEN [known |-> TRUE, ready |-> app.phase = "Available",
                  gen |-> app.gen]
            ELSE NoGauge

(* Once users and faults are done, an app that stays and is not paused
   becomes and remains Available with its children in step, whatever
   conflicts, stale reads and restarts came before. *)
Converges ==
  <>[](Exists(app) /\ ~app.deleting /\ ~app.paused =>
         /\ app.phase = "Available" /\ app.obs = app.gen
         /\ \A s \in Synced : child[s] = [uid |-> app.uid, gen |-> app.gen])

(* A deletion always completes, also that of a paused or failing app, whatever
   conflicts, lost answers and restarts handleDeletion meets: nothing stays
   marked as deleted. *)
DeletionCompletes == <>[]~app.deleting
=============================================================================
