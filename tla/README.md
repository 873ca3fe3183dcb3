# A TLA+ verification project for app-operator

app-operator is a Kubernetes operator. It turns one custom resource, the
`AppDefinition`, into a Deployment, a Service, ConfigMaps, Secrets, Ingresses,
Traefik Middlewares, a PersistentVolumeClaim, an autoscaler, a ServiceMonitor and
the objects the External Secrets Operator (ESO) works from. A REST API server and a
web UI let people edit AppDefinitions without kubectl.

This directory holds TLA+ models of its parts, the TLC configurations that check
them on small instances, and proofs, checked by TLAPS, of what matters most for
every instance. `PROJECT.json` is the machine-readable index: which definition
models which lines, what every run checks, which mutation of the code each
property would catch, and which hazards of the code the properties are for.

## 1. The system

### Components, their state and their operations

| Component | State | Operations | Where |
|---|---|---|---|
| Control loop | work queue, timers, informer cache, the pass under way | `Reconcile`, `reconcileAll`, `handleDeletion`, watches | `appdefinition_controller.go` |
| Finalizer and deletion | `metadata.finalizers`, `deletionTimestamp` | add on first sight, remove on deletion | `appdefinition_controller.go` |
| Status | phase, ObservedGeneration, conditions | `updateStatus`, retried on conflict | `reconcile_status.go` |
| Metrics | per-app gauges | `recordAppStatus`, `forgetAppMetrics` | `metrics.go` |
| Inline Secrets | one Secret per entry | create, update, prune | `reconcile_secrets.go` |
| ConfigMaps | one object per entry; their hash in the pod template | create, update, prune, roll out | `reconcile_configmaps.go`, `reconcile_deployment.go` |
| External Secrets | ExternalSecret objects; the Secrets ESO makes of them | create, replace, prune, hash into the pod template | `reconcile_externalsecrets.go`, `reconcile_deployment.go` |
| SecretStore and ESO retry | a store and a ServiceAccount, possibly shared by a namespace; `revalidate-at` | create once, nudge while not Ready | `reconcile_secretstore.go`, `reconcile_externalsecret_retry.go` |
| Deployment | replicas, pod template | `reconcileDeployment` | `reconcile_deployment.go` |
| Disk | a PersistentVolumeClaim | create unless protected, expand, report | `reconcile_pvc.go` |
| Autoscaling | a HorizontalPodAutoscaler | create, update, delete | `reconcile_hpa.go` |
| Domains | one Ingress per entry, one Middleware per entry and kind | name, render, prune, report | `reconcile_ingress.go`, `reconcile_middleware.go`, `helpers.go` |
| Service, ServiceMonitor | one object each | create, update, delete | `reconcile_service.go`, `reconcile_servicemonitor.go` |
| REST API | none of its own | list, get, create, update, delete, logs, behind authentication, authorization and a rate limit | `internal/apiserver` |
| Web UI | query cache, the edit form, the save under way | fetch, refetch, edit, save | `ui/src` |

### How they interact

* The **worker** takes a key off the queue, reads the AppDefinition from the
  **informer cache** and runs the steps of `reconcileAll` in order; the first
  error ends the sequence. Then it updates the status, and the result decides
  whether the key comes back: at once with backoff after an error, after 30 seconds
  while something is not finished, not at all when the app is Available or paused.
* The cache **trails** the API server. Some steps read through it (Secrets,
  Ingresses, claims, Deployments, the AppDefinition), others read the API server
  itself (ExternalSecrets, SecretStores, Middlewares, the contents of Secrets).
* **Watches** turn changes into work: `For` the AppDefinition, `Owns` most
  children, a label for Secrets, a predicate and a mapping for ESO's objects.
  Middlewares and ServiceMonitors are not watched.
* **Others write the same objects**: users and kubectl, ESO (Secrets, conditions),
  the HPA controller (replicas), the garbage collector, the volume provisioner,
  the REST API server.

### What is hard about it

Every decision is taken on a copy that may be out of date; every pass consists of
many calls between which anybody may act; every call may fail, conflict, or succeed
without its answer arriving; the process may restart anywhere; and a missing event
or a requeue that is not asked for means that nothing happens ever again. The list
of hazards in `PROJECT.json` names the lines where this bites. What makes each part
correct:

* control loop: children in step with the stored spec, no work for a dead owner,
  no work while paused, a truthful status whenever the operator is silent,
  convergence and deletion;
* secrets: pods rolled after the last change, no fight over ownership with ESO,
  nothing deleted that is not the operator's;
* ESO retry: nobody sleeps while something is not Ready, and nobody nudges too often;
* disk: no claim created under protect, no shrinking, a usable claim in the end;
* autoscaling: one writer of the replica count;
* domains: exactly the objects the spec asks for, in the order it asks for;
* ConfigMaps and Services: apps whose object names coincide do not take or delete
  each other's objects, and pods run on the data the spec declares;
* REST API: every request takes effect at one moment or not at all, no lost update,
  no inline data shown or erased, retries that are safe;
* web UI: a save changes what the user typed and nothing else.

## 2. Modules

`Reconciler` is the core. The component modules each take the part of a pass that
deals with one group of objects, with more detail than the core has: single calls,
caches per object, and the other controllers that write the same objects.

| Module | Models | Main state | Actions |
|---|---|---|---|
| `Reconciler` | `Reconcile` from queue to result for one AppDefinition with recreation, finalizers, status and metrics | `app` (stored), `cached` (informer), `snap` (the pass's copy), `held` (the copy is still current), `child` per step, `queued`/`timer`, `pc` | users, cluster, informers, one action per phase of `Reconcile`, `Restart` |
| `ReconcilerProofs` | proofs about it | | |
| `ManagedSecrets` | `reconcileSecrets`, `reconcileExternalSecrets`, `retryFailedExternalSecrets` as far as it asks for another pass, `externalSecretHash`, the template's references, the ExternalSecretsReady condition | Secrets with their controller, cached copies, what ESO last reported of each ExternalSecret, the Deployment's references and hashes | each API call of the steps, ESO, garbage collector, informer |
| `ManagedSecretsProofs` | proofs about it | | |
| `EsoRetry` | `reconcileSecretStore`, `retryFailedExternalSecrets`, the predicate and mapping of ESO's objects, the timers | readiness of store and ExternalSecrets, ages of annotations, FIFO queue | worker steps, time, Vault, ESO |
| `EsoRetryProofs` | proofs about it | | |
| `DiskClaim` | `reconcilePVC`, the replica count, the DiskReady condition | claim incarnations, Deployment, their cached copies | two-step check and write, provisioner, kubelet, an administrator |
| `Scaling` | `reconcileDeployment` and `reconcileHPA` as far as replicas go, the HPAActive condition | Deployment and HPA with cached copies, the HPA controller's copy | worker steps, HPA controller, load |
| `WorkloadProofs` | proofs about `DiskClaim` and `Scaling` | | |
| `Routing`, `MCRouting` | names, `reconcileMiddlewares`, `reconcileIngress`, their prunes and conditions | Ingresses with cached copies, Middlewares | each call of the loops, the ingress controller |
| `RoutingProofs` | proofs about it | | |
| `OwnedObjects`, `MCOwnedObjects` | `reconcileConfigMaps`, `reconcileService`, `computeConfigHash` and the pods it rolls, for several apps of a namespace | objects with their controller and cached copies, templates, what the pods have read, the queue | each API call of the steps, users (also by hand), informer, kubelet |
| `OwnedObjectsProofs` | proofs about it | | |
| `AppStore` | what the REST API promises: requests that take effect in one step | the stored object, the open requests | one action per request, other writers |
| `ApiServer` | the handlers of the REST API with clients, kubectl and the controller | the stored object, each client's view, request and handler state | one action per call of a handler |
| `ApiServerProofs` | proofs about it, and that it implements `AppStore` | | |
| `UiForm` | the edit form of the web UI on top of `AppStore`: query, `appToForm`, `buildSpec`, mutation | the query's data and fetch under way, the form, connections that may be served late | fetch, refill, type, submit, each way a save can end |
| `UiFormProofs` | proofs about it | | |

Conventions. A `resourceVersion` is only ever compared for equality, so most modules
keep a flag saying whether a copy is current (`held`, `lag`); `ApiServer`, where
clients carry versions around, keeps numbers. Definitions commented *Faulty variant*
are not used by the specifications: each is the changed form of the definition after
it that the mutation in `PROJECT.json` swaps in, and it is there to show that the
property would notice. Contents are version numbers, names are model values, except
in `Routing`, where names are sequences of characters because `sanitizeDNS` is what is in
question, and in `OwnedObjects`, where a name is the sequence of the parts that "-"
joins, because whether two names coincide is, and where data is made of lines, because
what `computeConfigHash` makes of it is. `DiskClaim` and `Scaling` have no name in common, so that `WorkloadProofs`
can extend both.

### How the modules are put together

`ApiServer` declares `Atomic == INSTANCE AppStore WITH asked <- req` and has
`ServesAtomically == Atomic!StoreSpec` as a property: a handler that reads, decides
and writes in several calls, with others writing in between, looks to every client as
if the request had been served at one moment or refused. A handler's reads are
stutters of `AppStore`; its write is the step that serves the request. `UiForm`
EXTENDS `AppStore` and adds the browser: it needs the promise and not the handlers, which
is what makes the composition of browser, server and other writers small enough to check.

### Abstractions that need an argument

* *A cache that skips.* The informer copies the latest version instead of going
  through all of them. The worker sees other parties' writes only through the cache
  and through conflicts, so a run with an intermediate copy is matched by one in
  which the later write happens after the delivery.
* *Active steps.* `Reconciler` is parameterised by the steps an app's spec gives
  something to do. Any other step changes nothing, and its failure has the same
  effect as that of a neighbour.
* *One key, one worker.* The queue never hands one key to two workers, and
  `MaxConcurrentReconciles` is left at 1. Passes of different apps meet only in shared
  objects: by design in the Namespace-scoped SecretStore, which `EsoRetry` models with
  two apps, and by coincidence of names in the others, which `OwnedObjects` models
  with two apps.
* *Immediate events in `EsoRetry`.* Stores and ExternalSecrets are read from the API
  server, and a key may sit in the queue for any time, so delivering their events at
  once loses no behaviour. ServiceAccounts, which are read from the cache, lag.
* *Writes that change nothing.* Fields defaulted by the API server make
  `CreateOrUpdate` send an Update of an object that is as desired. It makes no new
  version, but it can be refused for a stale copy; `Scaling` and `DiskClaim` allow
  both outcomes.
* *Ages instead of times.* `revalidationDue` compares a difference with a constant,
  so `EsoRetry` keeps differences, capped at that constant.
* *Pods read once.* A pod of `OwnedObjects` reads its ConfigMaps when it starts.
  Mounted files are refreshed later, environment variables are not; the model keeps
  the case in which a missing rollout shows.
* *Deliveries in `OwnedObjects`* skip versions, but the controllers of the versions
  skipped (`unseen`) are kept, since `Owns` queues the controller before and after
  every change.
* *Fields of the form.* `UiForm` tells fields apart by what `appToForm` and `buildSpec`
  do to them. Some come back as they are. `Hidden` ones have no input. `Filled` ones are
  shown with a default where they are absent. `Flattened` ones have values the input
  cannot show: a command or its arguments become one text, joined and split at blanks
  (`AppForm.tsx:224` and `:154`), a variable loses its `valueFrom`, a `remoteRef` its
  version. `Switched` ones are sections sent only while they are on: autoscaling, the
  metrics of a port, a partition with a `subPath`. A field of several kinds stands for a
  group of fields, and its value for the one of them that is set in a special way.
* *A leftover child of an earlier app.* `SetControllerReference` compares the group, kind
  and name of an existing controller, not its uid, so `CreateOrUpdate` takes over what an
  earlier app of the same name has left and the garbage collector has not yet come to;
  `Reconciler` has it so. A SecretStore, which is only created where there is none, stays as
  it is until it is collected.
* *ESO's watches* are installed only if its CRDs exist at start-up; `EsoRetry`
  starts there.

## 3. What is checked

Every property below is an invariant, an action property or a temporal formula of
the module in question; its comment says what it means. *Settled...* invariants share
one idea: whenever nothing is queued, scheduled or in flight, so that nothing will
happen unless somebody acts, the state is right. They are the safety form of "no
wakeup is lost", and need no fairness.

### Runs that pass

| Run | Properties | Bounds and why |
|---|---|---|
| `Reconciler_edits` | TypeOK, PausedIsFrozen, SettledChildren, SettledStatus | 2 generations (paused or resumed, scaled up or down or both), replicas 0 and 2 so that an app can be half ready or want no pod, one fault, a step with watched children that drift |
| `Reconciler_lives` | NoOrphans, SettledMetrics, Converges, DeletionCompletes | fair; 2 incarnations, one fault, 2 replicas so that an app can be half ready; a watched and an unwatched step that take over what the first incarnation has left, and the retry step |
| `ManagedSecrets_entries` | TypeOK, SettledRollout, SettledEsCondition, NeverSeizesFromEso, ExternalTakesHold | fair; 2 entries of every kind, 3 edits, 2 versions of data |
| `EsoRetry_shared` | TypeOK, SettledReady, NudgeGap, AccessTakesHold | fair; 2 apps sharing a store, with timers of their own, so that the one can come upon a store that the other has just nudged; access there or not at the start, one fault, which may grant or revoke it; an interval of one second, a tick long |
| `DiskClaim_claim` | TypeOK, SettledDisk, DiskConverges | fair; 2 sizes, 3 interventions, 4 incarnations of the claim |
| `Scaling_modes` | SettledScaling, SettledActive, ManualTakesHold | fair; 2 replica counts, 3 edits: on, changed, off |
| `Routing_paths` | SettledRouting, SettledConditions, SettledChains, NoDanglingRoute, EveryEntryRouted | fair; the paths `/` and `/a` of one host, 2 kinds of middleware that are on or off at the start, a repeated reference of the user's own, one edit, one fault |
| `ApiServer_clients` | TypeOK, AtMostOnce, ServesAtomically, NoLostUpdate, InlineSurvives | 2 interchangeable clients, 4 versions |
| `OwnedObjects_apps` | TypeOK, SettledObjects, NeverSeizes, PrunesOnlyOwn, EveryAppServed | fair; the apps `a` and `a-b`, whose entries `b-c` and `c` are one ConfigMap; 3 contents, of which two differ in a value and one in the key; 3 edits so that one app can declare, the other run into it and the first give way; one failing call |
| `UiForm_edit` | TypeOK, OnlyTypedChanges | 2 connections, so that a save that was given up on is served late; a hidden field and a shown one that is `Flattened` and `Switched`, and has inline data at times; 4 versions, so that the object can go, come back and be edited by somebody else |

Symmetry is used in `ApiServer_clients` and `UiForm_edit`, where no property is a
liveness property and the clients appear in no ordering or `CHOOSE`. No run of
`UiForm` has a filled field: a third field makes the instance too large, and what
`OnlyTypedChanges` says about filled fields rests on the proof. For the same reason
`EsoRetry_shared` has a clock as coarse as the annotations; that the part of a second
which RFC 3339 cuts off costs no more than a second of the gap is proved
(`StoreNudgesAreSpaced`).

`MaxGen`, `MaxUid`, `MaxFaults`, `MaxEdits`, `MaxData`, `MaxClaims`, `MaxReplicas`, `MaxChanges`
and `MaxVersion` are bounds on the environment: how often users, faults and versions
happen. They stop nothing the operator does on its own account, with two exceptions.
`MaxVersion` also bounds the writes of the REST handlers, where only safety is
checked; `MaxClaims` bounds the claims the operator creates, and is large enough that
`MaxEdits` deletions never use it up. `StatusTries` is 2 where the code's backoff has 4
steps: one retry is where the control flow differs.

Deadlock is not checked: an operator with nothing to do is at rest, and the bounds
let every environment run out of things to do.

### Runs that find a disagreement

Two runs check a sentence of the docs, and TLC finds a behaviour of the modelled code that
contradicts it. `PROJECT.json` quotes the sentences with their lines.

* `Scaling_auto` (`AutoscalerControls`): operator and HPA undo each other's writes for ever.
* `Routing_collide` (`DifferentPathsRouted`): the paths `/a/b` and `/a-b` of one host, which
  `sanitizeDNS` writes alike, get one Ingress, and every pass writes the one entry over the
  other. `EveryEntryRouted`, which the passing run checks, is about entries whose paths
  `sanitizeDNS` leaves different.

The models also contain these behaviours of the code, which no run reports on its
own and which a reader of the docs might not expect:

* An edit made during a pass is reported as observed, possibly together with
  Available, before any child was written from it: `updateStatus` takes the generation
  from the object it reads again for the write (`reconcile_status.go:81`), not from the one the pass
  worked on. `appdefinition_types.go:650` calls ObservedGeneration "the last spec
  generation reconciled". The edit's own event brings the next pass, so
  `SettledStatus` holds.
* `reconcilePVC` reads the claim twice. One that disappears between the reads is
  created again under protect (`reconcile_pvc.go:25` and `:45`, against `README.md:358`).
* `computeConfigHash` writes `key=value` lines: a value with a line break can give the
  hash of two keys, and such a change rolls no pods. `OwnedObjects` has the encoding
  as it is, and is run on contents without line breaks, for which `HashTellsLines`
  (section 4) shows that it cannot happen.
* Going back to earlier ConfigMap data while a rollout is under way gives back the
  earlier template: pods that started late, on the data in between, are not
  replaced. A cached copy that happens to equal the old data makes it worse, since the
  pass then leaves the object alone. `SettledObjects` excepts the entry in question
  (`back`), and no other entry of the app.
* The pods of an app whose ConfigMap was deleted by hand can start on the ConfigMap that
  another app has meanwhile made under the same name. When the app gets its own back, the
  hash is what it was and the pods stay. `SettledObjects` speaks of the files that the
  pods read from objects of their own app.
* A Service made by hand under an app's name is adopted if the app exposes a port and
  deleted if it does not, since `reconcileService` does not look at its controller.
* An app that declares an object another app has stays Failed until the other
  one no longer declares it; `EveryAppServed` allows that and nothing else.
* A DELETE through the REST API removes whichever incarnation has the name by then.
* Saving in the web UI drops what the form has no input for: `serviceAccountName`,
  `secretStore`, `metrics.labels`, `valueFrom` of a variable, `remoteRef.version`. It splits
  the elements of a command at their blanks (`["sh", "-c", "echo hi"]` comes back with four
  elements), and drops autoscaling and port metrics that are there and switched off, and
  partitions without a `subPath`. It also sets what the form shows a default for: `expose: p.expose ?? true`
  (`AppForm.tsx:229`) makes a port that is not exposed, whose `expose: false` Go leaves
  out of the JSON, an exposed one, and an absent CPU target becomes 70. A
  container's resources are spread into the container itself (`AppForm.tsx:162` and
  `:234`), where `DisallowUnknownFields` refuses them. An input that is
  not valid JSON silently drops its field. A refetch in the background that brings a
  new version throws away what was typed, which is also what keeps
  `OnlyTypedChanges` true.
* Drift of a Middleware or ServiceMonitor of an Available app stays: neither is
  watched and no periodic pass runs (`docs/development.md:118` speaks of one). This is
  why only watched kinds may be in `Drifting` where `SettledChildren` is checked.
* An entry moved from `externalSecrets` to `secrets` under one name makes
  `reconcileSecrets` fail on ESO's Secret, before the step that would remove the
  ExternalSecret. Every pass fails until the spec changes. `ExternalTakesHold` makes
  an exception for it (`Blocked`).
* The prune of inline Secrets looks up the owner in the cache and deletes without a
  precondition: a Secret that ESO has created under the name in between is deleted.
  Nothing brings it back but ESO, when it next looks: its ExternalSecret was last reported
  Ready, and `retryFailedExternalSecrets` goes by that. `SettledRollout` therefore says
  that every external entry was reported Ready and that the hash is that of what is
  there, which may be nothing. The same prune deletes a Secret that used to be inline and
  is now referenced by name.
* `reconcileExternalSecrets` replaces an ExternalSecret by one without annotations,
  so `revalidate-at` is gone when `retryIfNotReady` looks for it, and a not-Ready
  ExternalSecret is nudged by every pass, although
  `reconcile_externalsecret_retry.go:27` calls the interval "the minimum gap between
  nudges of the same object". `NudgeGap` is a property of the store alone.
* An administrator who scales the Deployment to zero to release a claim competes with
  `reconcileDeployment`, which the same event starts.
* An unset `minReplicas` becomes 1 in the API server, whatever `spec.replicas` is:
  `reconcileHPA` passes the pointer on (`reconcile_hpa.go:45`). `SettledScaling` states this
  minimum. `appdefinition_types.go:202` says "Defaults to spec.replicas or 1 when unset",
  and `README.md:197` "`replicas` becomes `minReplicas`".

### Fairness

`Fairness` asks for weak fairness of what keeps running in the real system without
anybody's help: the worker (one goroutine with a queue that is not starved), the
informers (watches are re-established and deliver eventually), the delaying queue,
and, where a property depends on them, the garbage collector, the kubelet, the
provisioner, ESO answering when poked, and the HPA controller. Nothing is assumed
of users, faults or restarts, which are bounded and may never happen. In `Routing` the
ingress controller is not assumed to assign addresses; in `EsoRetry` ESO is not assumed
to look at anything on its own, so that `AccessTakesHold` shows that the nudges suffice.
`OwnedObjects` also asks for strong fairness of `Begin(a)` for each app, since its queue is a
set: the real one is first in, first out, so a key that waits is not overtaken for ever by
that of an app whose passes keep failing. `EsoRetry` has the queue itself and needs only
weak fairness, as do the other modules.

## 4. What is proved

The proofs hold for every value of the constants allowed by the modules'
`ConstantsAssumption` (`ReplicasAssumption` in `Scaling`), so for any number of edits, faults and versions; those of `ApiServer`
and `AppStore` use nothing about the sets of clients and names, those of `EsoRetry` that
there are finitely many apps. The entries of `Routing` are any number of pairs of host and path, none of
them declared twice, which `src/README.md:214` tells users not to do; their names may
coincide all the same. Three further assumptions are used, each where it is said:
`StepsAssumption` (what is active is a step of `reconcileAll`), that what drifts is watched,
and that the config hash tells the contents of ConfigMaps apart, which is itself proved
for contents whose values have no line breaks.

### Types, action properties, refinement

* `ReconcilerProofs!TypeCorrect`: `Spec => []TypeOK`, one step per action. The only
  part with content is that `tries` never leaves its range and `step` always names an
  active step.
* `ReconcilerProofs!NeverOrphans`: `Spec => []NoOrphans`. `NoOrphans` alone is not
  inductive, because it says nothing of the cache from which the next pass will
  start. `OwnerInv` adds what is true of it: a copy that is not behind equals the
  stored object (`CacheInStep`); what the worker is about to do with a current copy is
  what that copy asks for (`RouteInStep`); and a cached copy that would be reconciled,
  with finalizer and without deletion mark, belongs to an object that still exists and
  still has its finalizer (`LiveOwner`). The last is the heart of the design: only the
  worker removes the finalizer, only on the strength of a current copy that is marked
  as deleted, and as long as the finalizer is there nobody can make the object go.
* `ReconcilerProofs!PauseHolds`: `Spec => []PausedIsFrozen`. `PauseInv` adds that an
  acknowledged pause is in the cache already, because the status write that
  acknowledged it was accepted and therefore based on a current copy, and that
  ObservedGeneration never runs ahead of the spec, so that every edit withdraws the
  acknowledgement. Reconcile works on one key at a time, so no pass is under way when
  the acknowledgement is written.
* `ApiServerProofs!UpdatesAreNotLost` and `ApiServerProofs!InlineDataSurvives`: `Spec`
  implies the action properties `NoLostUpdate` and `InlineSurvives`. The invariant `Inv`
  says what a handler knows between its check and its write (`Checked`): the version it
  read is the one its client sent, and if the stored object still has that version, the
  merge in hand is the merge with the stored entries; and that no version in use lies
  beyond the last one handed out (`VersionsKnown`), which is why an object that has the
  version also has the contents.
* `ApiServerProofs!ImplementsAppStore`: `Spec => ServesAtomically`, from the same `Inv`.
  `Checked` is what makes the write of an update a step of `AppStore`: a handler that
  checked the version earlier serves the request on the object as it is at the write,
  because `Update` is refused unless the version is still the same.
* `OwnedObjectsProofs!TypeCorrect`, `!ObjectsAreNotSeized` and `!PruningIsSafe`: `TypeOK`,
  `NeverSeizes` and `PrunesOnlyOwn` for any apps, names and contents, however they
  coincide. `CreateOrUpdate` and the prune act on copies, so the invariant relates copies
  to objects. `Fresh`: a copy that is not stale is the object. `Ownerless`: an object that is
  not there has no controller. `Kept`: while
  the copy names an app as the controller, the object is that app's or nobody's, since
  every pass looks at this one copy and `SetControllerReference` refuses the others.
  `Pruned`: what is left of the prune's list is the app's or nobody's, even if a
  delivery has changed the copy meanwhile, because with one worker no other
  app's pass writes between the list and the delete.
* `UiFormProofs!TypeCorrect` and `!SavesOnlyTyped`: `TypeOK` and `OnlyTypedChanges` for any
  number of connections and any fields. `Copies` says that the query's data, if its
  version is still the stored one, is the stored object without inline data;
  `FormOfExisting` that the inputs nobody has typed in show that data; `Requested` that an
  untouched field of a request still open is what the form gives back (`Back`) of the
  version the request carries. `WhatComesBack` says which values survive the way through
  the form and what becomes of the others; `AppOfVersion` that versions are not handed out twice.
* `EsoRetryProofs!TypeCorrect` and `!StoreNudgesAreSpaced`: `TypeOK`, and `NudgeGap` for any
  interval, any resolution of the clock and any number of apps. `GapKept` is the strengthening: the age of
  `revalidate-at` exceeds the time since the nudge by less than a second, and the
  annotation is missing only from a store that was never nudged. It fails for an
  ExternalSecret, whose annotations every pass removes.

* `ApiServerProofs!TypeCorrect`: `TypeOK` is inductive by itself. Its content is that
  the sanitized copy a client is shown has no inline entry (`SanitizeShows`) and that what is
  stored has passed the check that every entry has a source (`SourcesStored`).
* `ApiServerProofs!PutsApplyOnce`: `Spec => []AtMostOnce`. `OnceInv` adds what makes a
  repetition harmless (`Spent`): a PUT that took effect names a version that the object has
  left for good, because every write, a deletion and a new creation included, uses a
  version not handed out before. `VersionsSeen` says that no client holds a later one.
* `ManagedSecretsProofs!TypeCorrect` and `!NeverSeizes`: `TypeOK`, strengthened by what the
  hash in hand covers between the step that reads it and the step that writes it; and
  `NeverSeizesFromEso`, from `Copies` (a copy that does not lag is the stored Secret):
  `CreateOrUpdate` looks for another controller on a copy, and its Update is refused if
  that copy is out of date.
* `WorkloadProofs!TypeCorrect`: `TypeOK`, with what it says of a claim's capacity and of
  the disk condition.
* `WorkloadProofs!ClaimsNeverShrink`: `Spec => [][ClaimKept]_vars`. A claim that stays the
  same claim is never asked for less, nor does it lose capacity. `reconcilePVC` raises
  the request of the copy it read and never lowers it, and the write is refused if that copy is
  behind; so a size that is lowered in the spec, between other edits or in the middle of a
  pass, leaves the request alone.

### What holds when the operator has fallen silent

A *Settled* invariant speaks of states in which nothing is under way and says nothing
of the others, so it is never inductive. The invariants behind it all have the same form and
follow the pass: what the pass has already dealt with is in order, or a key is queued, or an event
that will queue it is on its way.

* `WorkloadProofs!ScalingSettles` and `!ActiveSettles`: `SettledScaling` and `SettledActive`.
  `ScalingCopies` and `ScalingCurrent`: a copy that does not lag, and the spec of a pass nobody asked to
  repeat, are the stored ones. `Scaled`, `Matched` and `ScalingReported`: what
  `reconcileDeployment`, `reconcileHPA` and `updateStatus` have written stays, until an event
  announces the change.
* `WorkloadProofs!DiskSettles`: `SettledDisk`. `InUse`: a ready pod keeps its
  claim, so Available rules out that the claim has gone. `Usable` is the strengthening
  that `reconcilePVC` calls for: after it, the stored claim is the app's and large enough, or the
  cached one is, and then the informer has news of a claim the app owned. `PodWanted`,
  `Failing`, `Reported` and `Current` follow the rest of the pass.
* `ManagedSecretsProofs!RolloutSettles` and `!EsConditionSettles`: `SettledRollout` and
  `SettledEsCondition`. One part for each call of the pass: `InlineDone`, `Pruned`,
  `ObjectsThere`, `FoundReady`, `HashFresh`, `RolledOut`, `Reported`. `FoundReady`: after
  `retryFailedExternalSecrets` every external entry is Ready, or another pass is asked for. The
  delicate ones are `InlineDone` and
  `Pruned`, since the watch on Secrets tells the operator only of those that carry the app's labels: a
  copy that lags is a promise of news only if the copy or the Secret is the app's or ESO's.
* `RoutingProofs!RoutingSettles`, `!ConditionsSettle` and `!ChainsSettle`: `SettledRouting`,
  `SettledConditions` and `SettledChains`, for any number of entries, chains and annotations
  of any length. `Provisioned` says which Middlewares are there when `reconcileMiddlewares`
  has come to a given entry and kind; nobody else touches them, so what it says survives until the next
  pass. `Exposed` says the same of the Ingresses, which the pass sees through a cache only:
  what has been dealt with is in order, or the copy is behind, and then its delivery will
  queue the key. `Reported` adds the conditions, `Copies` and `Current` are as above.
* `RoutingProofs!RoutesSettle` (`NothingDangles`): at rest, with Traefik's CRD there, no route names a
  generated Middleware that is gone. During a pass this is false, since Middlewares are deleted
  before the Ingresses that name them are rewritten; `NoDanglingRoute` says that
  it does not stay so.
* `RoutingProofs!CollisionsNeverSettle` (`NamesApart`): an app with two declared entries whose
  Ingresses get the same name, as hosts `a.b` and `a-b` do, never falls silent. Each pass
  writes the one entry over the other, and each of these writes is an event that brings the
  next pass. `src/README.md:214` says of entries with the same host and path that "only the last
  one reconciled survives"; with names that coincide in this other way there is no last one. This
  is also why the theorems above need no assumption that names differ.
* `EsoRetryProofs!ReadySettles`: `SettledReady`. `Resting`: an app whose key is in no queue and
  on no timer has a Ready store and a Ready ExternalSecret; `Passing` says what the pass under
  way has found so far, and that `pending` will ask for a requeue if that was not enough.
  Any number of apps may share the store.
* `ReconcilerProofs!StatusSettles` and `!MetricsSettle`: `SettledStatus` and
  `SettledMetrics`. `RestInv` on top of `OwnerInv`: without an event the worker's copy is the
  cached one (`SnapCurrent`) and went down the right branch (`SnapRoute`), the phase in
  hand is the one it would compute again (`PhaseCurrent`), and status and gauges have been
  written when the requeue is decided on (`StatusWritten`). That decision is taken on
  a phase computed earlier; the theorem is that no wakeup is lost by it.
* `ReconcilerProofs!ChildrenSettle`: `SettledChildren`, assuming `Drifting \subseteq Watched`.
  For a kind that is not watched it is false, see section 3. `ChildrenInv` says which children
  were written from the worker's copy when `reconcileAll` has come to a given step.
* `OwnedObjectsProofs!ObjectsSettle`: `SettledObjects`, assuming `HashTells`; and
  `!PlainObjectsSettle`: the same without that assumption for contents whose values are single
  lines (`OneLine`), by `!HashTellsLines`. For the objects,
  `RestInv`: each entry meets the spec or its app will hear of it (`Dealt`), and it will since the
  informer learns of every controller an object had (`OwnerKnown`). For the pods, `PodInv`: whatever
  there is of an entry comes from contents it was once given (`Traced`), so contents
  that are new to it leave no trace in any copy, template or pod before a pass works on
  them (`FirstTime`), and pods with their hash can only have read them.
  Proving this is what showed the first of the two exceptions in section 3 to be needed per entry
  and the second to be needed at all: both take more edits than
  `OwnedObjects_apps` has (five with two entries, four with two apps), TLC confirms both on such an
  instance, and an earlier form of the property was true of the run's bounds only.

### What recursive definitions compute

Two of these theorems rest on what a recursive function over data of any size computes. Both
times the induction is a lemma for a property given as a set of numbers (`InductionUpTo`),
which follows from the least number principle (`Least`), that is, from the well-foundedness
of `<` on the naturals.

* `FirstOnly`, the `seen` map of `reconcile_ingress.go:64-73`, keeps what it is given, in order, each once. A
  function that satisfies the recursive equation is shown to exist, so the definition may be
  unfolded (`FirstOnlyIs`), and the induction is over the length of the prefix dealt with. `ChainsSettle`
  and `RoutesSettle` need it.
* `Stream`, what `computeConfigHash` feeds to the hash. `StreamConsists`, by induction over the
  keys: the stream consists of the lines of the keys that are there, in order. Lines of different
  keys differ if values have no line breaks, whence `HashTellsLines`: equal streams have equal contents.
  With line breaks it is false, see section 3. `MCOwnedObjects` has TLC confirm that
  the contents of its run are of this kind (`PlainContents`).

### What is only model-checked

Liveness under fairness: `Converges`, `DeletionCompletes`, `ExternalTakesHold`,
`AccessTakesHold`, `DiskConverges`, `ManualTakesHold`, `EveryEntryRouted`, `NoDanglingRoute`,
`EveryAppServed`. It is out of the prover's reach, as is `ENABLED`. What the theorems add for
these is that the states in which a fair behaviour can come to rest are the right ones.

## 5. What is not modelled

* Leader election. A failover is a `Restart` for the new leader; that two leaders
  never overlap is the lease's business, and the fresh leader's cache is current when
  its workers start.
* Containers, probes, affinity, security contexts, contents of Middlewares, of
  ExternalSecret templates and of ServiceMonitors: rendering without state.
* The ServiceMonitor beyond being a step of `reconcileAll`, the absence of its CRD, and
  the condition MonitoringReady, which says whether it was there at the time.
* Events, logs, durations and counters; log streaming through the REST API
  (`getAppDefinitionLogs`), which reads and copies.
* Who is let in by authentication and authorization, TLS, CORS.
* The list and detail pages of the web UI, which show data and send a DELETE; the form
  for a new app, whose POST `ApiServer` has; generated code and manifests.

## 6. Plan

Done: the core (`Reconciler`), the component modules above, two apps whose names
coincide, the web UI on the abstract API, the refinement of the API by its handlers, the
remaining conditions of the status but one, and the theorems of section 4, which cover every
safety property of a run. Left, in this order:

1. An abstract specification of what the operator promises for one child (absent,
   in step, out of step, collected), with `OwnedObjects`, `ManagedSecrets` and `DiskClaim`
   shown to implement it.
2. The ServiceMonitor with a CRD that comes and goes, and its condition.
