------------------------------ MODULE Scaling ------------------------------
(***************************************************************************)
(* Who sets Deployment.spec.replicas: the operator, from spec.replicas, or *)
(* the HorizontalPodAutoscaler the operator creates for spec.autoscaling.  *)
(*                                                                         *)
(* The HPA controller works from its own, possibly outdated, copy of the   *)
(* HPA and scales the Deployment towards what the load needs.  Every       *)
(* change of the Deployment or of the HPA brings the operator back.        *)
(*                                                                         *)
(* No name is also one of DiskClaim, whose Deployment has a claim instead  *)
(* of an HPA, so that one module can extend both.                          *)
(***************************************************************************)
EXTENDS Naturals

CONSTANTS
  MaxReplicas,  \* bound: replica counts go up to this
  MaxChanges    \* bound: edits of the spec and changes of the load

ASSUME ReplicasAssumption == MaxReplicas \in Nat \ {0} /\ MaxChanges \in Nat

Counts == 1..MaxReplicas

VARIABLES
  scaleSpec,    \* replicas; autoscaling enabled, its minimum (0: unset), maximum
  replicas,     \* Deployment.spec.replicas
  replicasSeen, \* the informer's copy of it
  replicasLag,  \* the copy is not the stored version
  hpa,          \* the HorizontalPodAutoscaler
  hpaSeen,      \* the informer's copy of it
  hpaLag,       \* the copy is not the stored version
  scaler,       \* the HPA controller's copy of the HPA
  load,         \* replicas the load needs
  active,       \* the condition HPAActive: whether it is there, and what it reports
  scaleQueued, scalePc, scaleSnap, changes

depVars == <<replicas, replicasSeen, replicasLag>>
hpaVars == <<hpa, hpaSeen, hpaLag>>
scaleVars == <<scaleSpec, depVars, hpaVars, scaler, load, active, scaleQueued,
               scalePc, scaleSnap, changes>>

NoHpa == [exists |-> FALSE, min |-> 0, max |-> 0]

Specs == [replicas : Counts, auto : BOOLEAN, min : Counts \cup {0}, max : Counts]

ScalingInit ==
  /\ scaleSpec \in {s \in Specs : ~s.auto /\ s.min = 0 /\ s.max = 1}
  /\ scaleSnap = scaleSpec
  /\ replicas = 0 /\ replicasSeen = 0 /\ replicasLag = FALSE
  /\ hpa = NoHpa /\ hpaSeen = NoHpa /\ hpaLag = FALSE /\ scaler = NoHpa
  /\ active = [set |-> FALSE, hpa |-> NoHpa]
  /\ load = 1 /\ scaleQueued = TRUE /\ scalePc = "idle" /\ changes = 0

-----------------------------------------------------------------------------
(* Around the operator. *)

(* Only specs whose HPA the API server accepts: min is not above max. *)
UserEdit(s) ==
  /\ changes < MaxChanges
  /\ s # scaleSpec /\ s.min <= s.max
  /\ scaleSpec' = s
  /\ changes' = changes + 1 /\ scaleQueued' = TRUE
  /\ UNCHANGED <<depVars, hpaVars, scaler, load, active, scalePc, scaleSnap>>

LoadChanges(n) ==
  /\ changes < MaxChanges
  /\ n # load
  /\ load' = n
  /\ changes' = changes + 1
  /\ UNCHANGED <<scaleSpec, depVars, hpaVars, scaler, active, scaleQueued,
                 scalePc, scaleSnap>>

ScalerCatchesUp ==
  /\ scaler # hpa
  /\ scaler' = hpa
  /\ UNCHANGED <<scaleSpec, depVars, hpaVars, load, active, scaleQueued,
                 scalePc, scaleSnap, changes>>

(* What the HPA h asks for. *)
Wanted(h) == IF load < h.min THEN h.min ELSE IF load > h.max THEN h.max ELSE load

(* The Deployment gets n replicas; the informer has yet to see it. *)
SetReplicas(n) == replicas' = n /\ replicasLag' = TRUE

ScalerScales ==
  /\ scaler.exists /\ replicas # 0 /\ replicas # Wanted(scaler)
  /\ SetReplicas(Wanted(scaler))
  /\ UNCHANGED <<scaleSpec, replicasSeen, hpaVars, scaler, load, active,
                 scaleQueued, scalePc, scaleSnap, changes>>

DeliverReplicas ==
  /\ replicasLag
  /\ replicasSeen' = replicas /\ replicasLag' = FALSE
  /\ scaleQueued' = TRUE
  /\ UNCHANGED <<scaleSpec, replicas, hpaVars, scaler, load, active, scalePc,
                 scaleSnap, changes>>

(* Faulty variant: the HPA is not watched. *)
DeliverHpaUnwatched ==
  /\ hpaLag
  /\ hpaSeen' = hpa /\ hpaLag' = FALSE
  /\ UNCHANGED <<scaleSpec, depVars, hpa, scaler, load, active, scaleQueued,
                 scalePc, scaleSnap, changes>>

DeliverHpa ==
  /\ hpaLag
  /\ hpaSeen' = hpa /\ hpaLag' = FALSE
  /\ scaleQueued' = TRUE
  /\ UNCHANGED <<scaleSpec, depVars, hpa, scaler, load, active, scalePc,
                 scaleSnap, changes>>

-----------------------------------------------------------------------------
(* A pass. *)

BeginScaling ==
  /\ scalePc = "idle" /\ scaleQueued
  /\ scaleQueued' = FALSE
  /\ scaleSnap' = scaleSpec /\ scalePc' = "deployment"
  /\ UNCHANGED <<scaleSpec, depVars, hpaVars, scaler, load, active, changes>>

(* Faulty variant: an existing Deployment keeps its replica count. *)
DesiredReplicasOnce == IF replicasSeen = 0 THEN scaleSnap.replicas ELSE replicasSeen

(* reconcileDeployment asks for spec.replicas, autoscaling or not. *)
DesiredReplicas == scaleSnap.replicas

(* CreateOrUpdate: nothing to do if the cached copy is as desired, which
   leaves the stored object as it is. *)
ReconcileReplicas ==
  /\ scalePc = "deployment"
  /\ \/ replicasSeen = DesiredReplicas /\ UNCHANGED <<replicas, replicasLag>>
     \/ /\ replicasSeen # DesiredReplicas /\ ~replicasLag
        /\ SetReplicas(DesiredReplicas)
  /\ scalePc' = "hpa"
  /\ UNCHANGED <<scaleSpec, replicasSeen, hpaVars, scaler, load, active,
                 scaleQueued, scaleSnap, changes>>

(* The HPA of the spec; the API server turns an unset minimum into 1. *)
DesiredHpa ==
  [exists |-> TRUE, min |-> IF scaleSnap.min = 0 THEN 1 ELSE scaleSnap.min,
   max |-> scaleSnap.max]

PutHpa(h) == hpa' = h /\ hpaLag' = TRUE

(* Faulty variant: an HPA that is not wanted any more is left alone. *)
DeleteHpaNot == UNCHANGED hpaVars

(* r.Delete does not look at the cache. *)
DeleteHpa ==
  /\ IF hpa.exists THEN PutHpa(NoHpa) ELSE UNCHANGED <<hpa, hpaLag>>
  /\ UNCHANGED hpaSeen

(* reconcileHPA deletes the HPA of an app that does not want one, and leaves
   alone, creates or updates that of an app that does. *)
ReconcileHPA ==
  /\ scalePc = "hpa"
  /\ \/ ~scaleSnap.auto /\ DeleteHpa
     \/ scaleSnap.auto /\ hpaSeen = DesiredHpa /\ UNCHANGED hpaVars
     \/ /\ scaleSnap.auto /\ hpaSeen # DesiredHpa
        /\ hpaSeen.exists => ~hpaLag
        /\ hpaSeen.exists = hpa.exists
        /\ PutHpa(DesiredHpa) /\ UNCHANGED hpaSeen
  /\ scalePc' = "status"
  /\ UNCHANGED <<scaleSpec, depVars, scaler, load, active, scaleQueued,
                 scaleSnap, changes>>

(* A write based on an outdated copy is refused: Create because the object is
   there after all, Update for its resourceVersion. Fields that the API server
   fills in make CreateOrUpdate send an Update of a copy that is otherwise as
   desired. Once RetryOnConflict, which the Deployment has, is used up the
   pass fails, its status is written, and the key comes back. *)
Refused ==
  /\ \/ scalePc = "deployment" /\ replicasLag
     \/ /\ scalePc = "hpa" /\ scaleSnap.auto
        /\ IF hpaSeen.exists THEN hpaLag ELSE hpa.exists
  /\ scalePc' = "status" /\ scaleQueued' = TRUE
  /\ UNCHANGED <<scaleSpec, depVars, hpaVars, scaler, load, active, scaleSnap,
                 changes>>

(* The part of updateStatus about the HPA, which is read from the cache. *)
UpdateActive ==
  /\ scalePc = "status"
  /\ active' = [set |-> scaleSnap.auto,
                hpa |-> IF scaleSnap.auto THEN hpaSeen ELSE NoHpa]
  /\ scalePc' = "idle"
  /\ UNCHANGED <<scaleSpec, depVars, hpaVars, scaler, load, scaleQueued,
                 scaleSnap, changes>>

-----------------------------------------------------------------------------

ScalingPass ==
  \/ BeginScaling \/ ReconcileReplicas \/ ReconcileHPA \/ Refused
  \/ UpdateActive

ScalingNext ==
  \/ ScalingPass
  \/ ScalerCatchesUp \/ ScalerScales \/ DeliverReplicas \/ DeliverHpa
  \/ \E s \in Specs : UserEdit(s)
  \/ \E n \in Counts : LoadChanges(n)

ScalingSpec == ScalingInit /\ [][ScalingNext]_scaleVars

(* The worker, the informers and the HPA controller keep going. *)
ScalingFairness ==
  /\ WF_scaleVars(ScalingPass)
  /\ WF_scaleVars(DeliverReplicas) /\ WF_scaleVars(DeliverHpa)
  /\ WF_scaleVars(ScalerCatchesUp) /\ WF_scaleVars(ScalerScales)

FairScaling == ScalingSpec /\ ScalingFairness

-----------------------------------------------------------------------------
(* Properties. *)

ScalingQuiescent ==
  scalePc = "idle" /\ ~scaleQueued /\ ~replicasLag /\ ~hpaLag /\ scaler = hpa

(* When everything falls silent there is an HPA exactly if autoscaling is
   enabled, although reconcileHPA compares with a cached copy that may be of
   an HPA already deleted; and without one the Deployment has the replicas of
   the spec. The HPA has the maximum of the spec, and its minimum, or 1 where
   the spec has none: reconcileHPA leaves it to the API server, so it is not
   spec.replicas, whatever the comment on minReplicas and the README say. *)
SettledScaling ==
  ScalingQuiescent =>
    /\ hpa.exists = scaleSpec.auto
    /\ scaleSpec.auto =>
         /\ hpa.max = scaleSpec.max
         /\ hpa.min = IF scaleSpec.min = 0 THEN 1 ELSE scaleSpec.min
    /\ ~scaleSpec.auto => replicas = scaleSpec.replicas

(* When everything falls silent HPAActive is set exactly if autoscaling is
   enabled, and reports the HPA that is there, although the status of the pass
   that wrote the HPA is computed from a copy that does not have it yet. *)
SettledActive ==
  ScalingQuiescent => active = [set |-> scaleSpec.auto, hpa |-> hpa]

(* Disabling autoscaling gives the replica count back to the spec, for good,
   although the HPA controller may still scale for an HPA that is gone. *)
ManualTakesHold ==
  <>[](~scaleSpec.auto => replicas = scaleSpec.replicas /\ ~hpa.exists)

(* With autoscaling enabled spec.replicas is ignored and the HPA controls the
   replica count: it settles at what the HPA asks for. *)
AutoscalerControls ==
  <>[](scaleSpec.auto => hpa.exists /\ replicas = Wanted(hpa))
=============================================================================
