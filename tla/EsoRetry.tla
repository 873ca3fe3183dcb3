------------------------------ MODULE EsoRetry ------------------------------
(***************************************************************************)
(* How the operator gets the External Secrets Operator (ESO) to try again. *)
(*                                                                         *)
(* Several AppDefinitions of a namespace share one Namespace-scoped        *)
(* SecretStore and its ServiceAccount; each has an ExternalSecret of its   *)
(* own, called by the app's name here.  ESO looks at an object when it is  *)
(* created, when its annotations change, and otherwise whenever it likes,  *)
(* possibly never: nothing below counts on its own backoff.  One worker    *)
(* takes the apps off a FIFO queue.                                        *)
(*                                                                         *)
(* Time passes in ticks, Second of them to a second.  Only how long ago    *)
(* something happened matters, so ages are kept instead of times, and an   *)
(* age stops growing at Interval.                                          *)
(***************************************************************************)
EXTENDS Integers, SequencesExt

CONSTANTS
  Apps,      \* the AppDefinitions of the namespace that use the store
  Interval,  \* externalSecretsRetryInterval, in ticks
  Second,    \* ticks in a second: annotations have a resolution of one second
  MaxFaults  \* bound: changes of Vault access, deletions, failures, wakeups

ASSUME ConstantsAssumption ==
  /\ "store" \notin Apps /\ IsFiniteSet(Apps) /\ Apps # {}
  /\ Second \in Nat \ {0} /\ Interval \in Nat /\ Interval >= Second
  /\ MaxFaults \in Nat

Objects == {"store"} \cup Apps

Never == Interval + 1  \* the age of an annotation that is not there
Off   == 0             \* a timer that is not running
NoApp == CHOOSE a \in Apps : TRUE  \* in the worker's hands while it is idle

VARIABLES
  granted,  \* Vault lets the ServiceAccount in
  sa,       \* the ServiceAccount exists
  saSeen,   \* it does according to the informer
  obj,      \* per object: exists, has a Ready condition, is Ready
  saGone,   \* its deletion is not delivered yet
  poked,    \* per object: ESO was given a reason to look at it
  stamp,    \* per object: age of the time in revalidate-at
  gap,      \* time since this store was nudged
  queue,    \* the work queue
  timer,    \* per app: ticks until it is added again
  pc, cur,  \* the worker's step and app
  pending,  \* what retryFailedExternalSecrets returns so far
  frac,     \* ticks since the last full second
  faults    \* faults spent so far

esoVars    == <<granted, sa, obj, poked>>
cacheVars  == <<saSeen, saGone>>
timeVars   == <<stamp, gap, frac>>
workerVars == <<pc, cur, pending>>
vars == <<esoVars, cacheVars, timeVars, queue, timer, workerVars, faults>>

Missing == [exists |-> FALSE, known |-> FALSE, ready |-> FALSE]
Fresh   == [Missing EXCEPT !.exists = TRUE]

Init ==
  /\ granted \in BOOLEAN /\ sa = FALSE /\ saSeen = FALSE
  /\ saGone = FALSE
  /\ obj = [o \in Objects |-> Missing]
  /\ poked = [o \in Objects |-> FALSE]
  /\ stamp = [o \in Objects |-> Never] /\ gap = Interval
  /\ queue = SetToSeq(Apps) /\ timer = [a \in Apps |-> Off]
  /\ pc = "idle" /\ cur = NoApp /\ pending = FALSE
  /\ frac = 0 /\ faults = 0

(* The queue with the keys in S added; a key is queued at most once. *)
Enqueue(S) == queue \o SetToSeq(S \ ToSet(queue))

Fault ==
  /\ faults < MaxFaults
  /\ faults' = faults + 1

-----------------------------------------------------------------------------
(* Watches. The worker reads stores and ExternalSecrets from the API server,
   and a key may sit in the queue for any time: delivering their events at
   once loses no behaviour. ServiceAccounts are read from the cache. *)

(* Faulty variant: only deletions get through. *)
PredicateDeletesOnly(old, new) == ~new.exists

(* esoDependencyPredicate: deletions, and changes of the Ready condition. *)
Predicate(old, new) ==
  \/ ~new.exists
  \/ old.known # new.known
  \/ old.ready # new.ready

(* mapSecretStoreDependencyToAppDefinitions: a shared store concerns every
   app that declares it, an ExternalSecret its owner. *)
Dependents(o) == IF o = "store" THEN Apps ELSE {o}

(* ESO's status, or somebody's deletion, changes object o to new. *)
Change(o, new) ==
  /\ obj' = [obj EXCEPT ![o] = new]
  /\ poked' = [poked EXCEPT ![o] = FALSE]
  /\ queue' = IF Predicate(obj[o], new) THEN Enqueue(Dependents(o)) ELSE queue

DeliverServiceAccount ==
  /\ saSeen # sa \/ saGone
  /\ saSeen' = sa /\ saGone' = FALSE
  /\ queue' = IF saGone THEN Enqueue(Apps) ELSE queue
  /\ UNCHANGED <<esoVars, timeVars, timer, workerVars, faults>>

(* Any other event of an app: its spec, its pods, its other children. *)
OtherEvent(a) ==
  /\ Fault
  /\ queue' = Enqueue({a})
  /\ UNCHANGED <<esoVars, cacheVars, timeVars, timer, workerVars>>

-----------------------------------------------------------------------------
(* Time, Vault and ESO. *)

Older(age) == IF age >= Interval THEN age ELSE age + 1

(* retryFailedExternalSecrets reads the clock once; its calls are taken to be
   done within the tick. An app whose timer runs out is queued at once: it may
   sit in the queue for as long as the queue likes. *)
Tick ==
  /\ pc # "retryEs"
  /\ frac' = (frac + 1) % Second
  /\ stamp' = [o \in Objects |-> Older(stamp[o])]
  /\ gap' = Older(gap)
  /\ timer' = [a \in Apps |-> IF timer[a] = Off THEN Off ELSE timer[a] - 1]
  /\ queue' = Enqueue({a \in Apps : timer[a] = 1})
  /\ UNCHANGED <<esoVars, cacheVars, workerVars, faults>>

(* Granting or revoking access in Vault makes no Kubernetes event. *)
VaultChange ==
  /\ Fault
  /\ granted' = ~granted
  /\ UNCHANGED <<sa, obj, poked, cacheVars, timeVars, queue, timer, workerVars>>

(* ESO logs in for a store, and syncs an ExternalSecret through a Ready one. *)
EsoReady(o) ==
  IF o = "store" THEN granted /\ sa ELSE granted /\ obj["store"].ready

EsoReconcile(o) ==
  /\ obj[o].exists
  /\ Change(o, [exists |-> TRUE, known |-> TRUE, ready |-> EsoReady(o)])
  /\ UNCHANGED <<granted, sa, cacheVars, timeVars, timer, workerVars, faults>>

(* Object o has never been nudged: it is a new one, or not there. *)
Forget(o) ==
  /\ stamp' = [stamp EXCEPT ![o] = Never]
  /\ gap' = IF o = "store" THEN Interval ELSE gap

(* Somebody deletes an object, or the ServiceAccount. *)
Delete(o) ==
  /\ Fault
  /\ obj[o].exists
  /\ Change(o, Missing)
  /\ Forget(o)
  /\ UNCHANGED <<granted, sa, cacheVars, frac, timer, workerVars>>

DeleteServiceAccount ==
  /\ Fault
  /\ sa /\ sa' = FALSE
  /\ saGone' = TRUE
  /\ UNCHANGED <<granted, obj, poked, saSeen, timeVars, queue, timer,
                 workerVars>>

-----------------------------------------------------------------------------
(* A pass, reduced to the steps that deal with ESO. *)

Begin ==
  /\ pc = "idle" /\ queue # <<>>
  /\ cur' = Head(queue) /\ queue' = Tail(queue)
  /\ pc' = "ensureServiceAccount"
  /\ UNCHANGED <<esoVars, cacheVars, timeVars, timer, pending, faults>>

(* A step fails: the pass is over and the key comes back with backoff. *)
PassFails ==
  /\ pc # "idle"
  /\ Fault
  /\ pc' = "idle" /\ cur' = NoApp /\ pending' = FALSE
  /\ queue' = Enqueue({cur})
  /\ UNCHANGED <<esoVars, cacheVars, timeVars, timer>>

(* ensureSecretStoreServiceAccount: a Create that finds the object there
   after all is as good. *)
EnsureServiceAccount ==
  /\ pc = "ensureServiceAccount"
  /\ pc' = "secretStore"
  /\ sa' = (sa \/ ~saSeen)
  /\ UNCHANGED <<granted, obj, poked, cacheVars, timeVars, queue, timer, cur,
                 pending, faults>>

(* Object o is created: ESO looks at it, and it has never been nudged. *)
Create(o) ==
  /\ obj' = [obj EXCEPT ![o] = Fresh]
  /\ poked' = [poked EXCEPT ![o] = TRUE]
  /\ Forget(o)

(* reconcileSecretStore only creates what is not there. *)
ReconcileSecretStore ==
  /\ pc = "secretStore"
  /\ pc' = "externalSecrets"
  /\ IF obj["store"].exists THEN UNCHANGED <<obj, poked, stamp, gap>>
                            ELSE Create("store")
  /\ UNCHANGED <<granted, sa, cacheVars, frac, queue, timer, cur, pending,
                 faults>>

(* reconcileExternalSecrets replaces the whole object by one that has no
   annotations, which ESO notices if there was one. *)
ReconcileExternalSecret ==
  /\ pc = "externalSecrets"
  /\ pc' = "retryStore"
  /\ IF obj[cur].exists
     THEN /\ stamp' = [stamp EXCEPT ![cur] = Never]
          /\ poked' = [poked EXCEPT ![cur] = @ \/ stamp[cur] # Never]
          /\ UNCHANGED <<obj, gap>>
     ELSE Create(cur)
  /\ UNCHANGED <<granted, sa, cacheVars, frac, queue, timer, cur, pending,
                 faults>>

(* Faulty variants: the last nudge is ignored, or only the first is made. *)
RevalidationAlwaysDue(o) == TRUE
RevalidationDueOnce(o) == stamp[o] = Never

(* revalidationDue: never nudged, or long enough ago. *)
RevalidationDue(o) == stamp[o] = Never \/ stamp[o] >= Interval

(* Faulty variant: the time is rounded up to the next second. *)
StampRoundedUp == frac - Second

(* RFC 3339 without fractions: the time written is the last full second. *)
Stamp == frac

(* retryIfNotReady reports an object that is not Ready, and nudges it. *)
NotReady(o) == obj[o].exists /\ ~obj[o].ready

Nudged(o) == NotReady(o) /\ obj[o].known /\ RevalidationDue(o)

RetryIfNotReady(o) ==
  /\ pending' = (pending \/ NotReady(o))
  /\ IF Nudged(o)
     THEN /\ stamp' = [stamp EXCEPT ![o] = Stamp]
          /\ gap' = IF o = "store" THEN 0 ELSE gap
          /\ poked' = [poked EXCEPT ![o] = TRUE]
     ELSE UNCHANGED <<stamp, gap, poked>>
  /\ UNCHANGED <<granted, sa, obj, cacheVars, frac, queue, timer, cur, faults>>

RetryStore == pc = "retryStore" /\ pc' = "retryEs" /\ RetryIfNotReady("store")

RetryEs == pc = "retryEs" /\ pc' = "finish" /\ RetryIfNotReady(cur)

(* Reconcile's result: RequeueAfter externalSecretsRetryInterval while
   anything is pending. The queue keeps the earlier of two deadlines. *)
Finish ==
  /\ pc = "finish"
  /\ pc' = "idle" /\ cur' = NoApp /\ pending' = FALSE
  /\ timer' = IF pending /\ timer[cur] = Off THEN [timer EXCEPT ![cur] = Interval]
                                             ELSE timer
  /\ UNCHANGED <<esoVars, cacheVars, timeVars, queue, faults>>

-----------------------------------------------------------------------------

Worker ==
  \/ Begin \/ EnsureServiceAccount \/ ReconcileSecretStore
  \/ ReconcileExternalSecret \/ RetryStore \/ RetryEs \/ Finish

Next ==
  \/ Worker \/ PassFails
  \/ Tick \/ VaultChange \/ DeleteServiceAccount \/ DeliverServiceAccount
  \/ \E o \in Objects : EsoReconcile(o) \/ Delete(o)
  \/ \E a \in Apps : OtherEvent(a)

Spec == Init /\ [][Next]_vars

(* The worker, the informers and time go on, and ESO answers when poked. *)
Fairness ==
  /\ WF_vars(Worker) /\ WF_vars(Tick) /\ WF_vars(DeliverServiceAccount)
  /\ \A o \in Objects : WF_vars(poked[o] /\ EsoReconcile(o))

FairSpec == Spec /\ Fairness

-----------------------------------------------------------------------------
(* Properties. *)

(* Every variable keeps its type; no annotation lies in the future, where it
   would hold back nudges for longer than the interval. *)
TypeOK ==
  LET ObjType == [exists : BOOLEAN, known : BOOLEAN, ready : BOOLEAN] IN
  /\ granted \in BOOLEAN /\ sa \in BOOLEAN /\ saSeen \in BOOLEAN
  /\ saGone \in BOOLEAN /\ obj \in [Objects -> ObjType] /\ poked \in [Objects -> BOOLEAN]
  /\ stamp \in [Objects -> 0..Never] /\ gap \in 0..Interval
  /\ queue \in Seq(Apps) /\ IsInjective(queue)
  /\ timer \in [Apps -> 0..Interval]
  /\ pc \in {"idle", "ensureServiceAccount", "secretStore", "externalSecrets",
             "retryStore", "retryEs", "finish"}
  /\ cur \in Apps /\ pending \in BOOLEAN
  /\ frac \in 0..(Second - 1) /\ faults \in 0..MaxFaults

(* The shared store is not nudged again within the retry interval, less the
   second the annotation's resolution costs, however many apps share it and
   however often they are reconciled for other reasons: retryIfNotReady leaves
   a store alone that it nudged for another app a moment ago. This is said of
   the store only. An ExternalSecret loses its annotation to every pass (see
   ReconcileExternalSecret), so each pass that finds it not Ready nudges it,
   although externalSecretsRetryInterval is documented as the minimum gap
   between nudges of the same object. *)
NudgeGap ==
  [][RetryStore /\ Nudged("store") => gap > Interval - Second]_vars

(* Nothing is queued, scheduled or in flight. *)
Quiescent ==
  /\ pc = "idle" /\ queue = <<>> /\ saSeen = sa /\ ~saGone
  /\ \A a \in Apps : timer[a] = Off

(* When the operator falls silent, the ServiceAccount, the store and the
   ExternalSecrets are all there and ESO has last reported every one of them
   Ready: no failure and no deletion is left without somebody coming back to
   it, for any of the apps that share the store. *)
SettledReady == Quiescent => sa /\ \A o \in Objects : obj[o].ready

(* Once Vault access is granted for good, everything becomes and stays Ready
   without ESO's backoff having to expire. *)
AccessTakesHold ==
  <>[]granted => <>[](\A o \in Objects : obj[o].ready)
=============================================================================
