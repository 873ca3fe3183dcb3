----------------------------- MODULE DiskClaim -----------------------------
(***************************************************************************)
(* The disk of a stateful AppDefinition: its PersistentVolumeClaim, the    *)
(* one pod that mounts it, the size and protect fields of spec.disk, and   *)
(* an administrator who resizes, protects, scales, deletes and recreates   *)
(* by hand while the operator reconciles.                                  *)
(*                                                                         *)
(* reconcilePVC reads the claim from the informer cache, up to twice;      *)
(* updateStatusOnce reads it from the API server.  A claim is the          *)
(* incarnation it is, the size requested, the capacity granted (0: not     *)
(* bound), whether the AppDefinition owns it and whether it is being       *)
(* deleted.  Kubernetes keeps a claim that a pod uses until the pod is     *)
(* gone, and refuses to shrink one.                                        *)
(***************************************************************************)
EXTENDS Naturals

CONSTANTS
  Sizes,     \* values of spec.disk.sizeInGi
  MaxEdits,  \* bound: interventions of the administrator
  MaxClaims  \* bound: incarnations of the claim

ASSUME ConstantsAssumption ==
  /\ Sizes \subseteq Nat \ {0} /\ Sizes # {}
  /\ MaxEdits \in Nat /\ MaxClaims \in Nat \ {0}

VARIABLES
  spec,      \* spec.disk: size and protect
  pvc,       \* the stored claim
  seen,      \* the informer's copy of it
  dep,       \* the Deployment: replicas wanted, and whether its pod is ready
  depSeen,   \* the informer's copy of it
  depLag,    \* the copy is not the stored version
  queued,    \* the key is queued, or will be after 30 seconds or a backoff
  pc,        \* where the pass is
  snap,      \* the spec the pass works from
  failed,    \* reconcileErr # nil
  status,    \* phase and reason of the DiskReady condition
  ids,       \* incarnations so far
  edits      \* interventions so far

apiVars   == <<spec, pvc, dep>>
cacheVars == <<seen, depSeen, depLag>>
vars == <<apiVars, cacheVars, queued, pc, snap, failed, status, ids, edits>>

NoClaim == [id |-> 0, size |-> 0, cap |-> 0, owned |-> FALSE, deleting |-> FALSE]

Exists(c) == c.id # 0

Init ==
  /\ spec \in [size : Sizes, protect : {FALSE}] /\ snap = spec
  /\ pvc = NoClaim /\ seen = NoClaim
  /\ dep = [replicas |-> 1, ready |-> FALSE] /\ depSeen = dep
  /\ depLag = FALSE
  /\ queued = TRUE /\ pc = "idle" /\ failed = FALSE
  /\ status = [phase |-> "None", disk |-> "None"]
  /\ ids = 0 /\ edits = 0

-----------------------------------------------------------------------------
(* The administrator. *)

Edit ==
  /\ edits < MaxEdits
  /\ edits' = edits + 1

EditSpec(n, p) ==
  /\ Edit
  /\ spec # [size |-> n, protect |-> p]
  /\ spec' = [size |-> n, protect |-> p]
  /\ queued' = TRUE
  /\ UNCHANGED <<pvc, dep, cacheVars, pc, snap, failed, status, ids>>

(* The Deployment becomes d, which the informer has yet to see. *)
PutDeployment(d) == dep' = d /\ depLag' = TRUE

(* kubectl scale deployment --replicas=0; the way back needs no help. *)
ScaleDown ==
  /\ Edit
  /\ dep.replicas # 0
  /\ PutDeployment([dep EXCEPT !.replicas = 0])
  /\ UNCHANGED <<spec, pvc, seen, depSeen, queued, pc, snap, failed, status, ids>>

DeleteClaim ==
  /\ Edit
  /\ Exists(pvc) /\ ~pvc.deleting
  /\ pvc' = [pvc EXCEPT !.deleting = TRUE]
  /\ UNCHANGED <<spec, dep, cacheVars, queued, pc, snap, failed, status, ids>>

(* A claim made by hand, bound to a retained volume. *)
CreateClaim(n) ==
  /\ Edit
  /\ ~Exists(pvc) /\ ids < MaxClaims
  /\ pvc' = [NoClaim EXCEPT !.id = ids + 1, !.size = n]
  /\ ids' = ids + 1
  /\ UNCHANGED <<spec, dep, cacheVars, queued, pc, snap, failed, status>>

-----------------------------------------------------------------------------
(* The cluster. *)

(* The provisioner binds the claim, or finishes its expansion. *)
Provision ==
  /\ Exists(pvc) /\ pvc.cap < pvc.size
  /\ pvc' = [pvc EXCEPT !.cap = pvc.size]
  /\ UNCHANGED <<spec, dep, cacheVars, queued, pc, snap, failed, status, ids,
                 edits>>

(* A pod starts on a bound claim that is not going away. *)
PodStarts ==
  /\ dep.replicas = 1 /\ ~dep.ready
  /\ Exists(pvc) /\ pvc.cap > 0 /\ ~pvc.deleting
  /\ PutDeployment([dep EXCEPT !.ready = TRUE])
  /\ UNCHANGED <<spec, pvc, seen, depSeen, queued, pc, snap, failed, status,
                 ids, edits>>

PodStops ==
  /\ dep.replicas = 0 /\ dep.ready
  /\ PutDeployment([dep EXCEPT !.ready = FALSE])
  /\ UNCHANGED <<spec, pvc, seen, depSeen, queued, pc, snap, failed, status,
                 ids, edits>>

(* kubernetes.io/pvc-protection: a deleted claim goes when no pod uses it. *)
ClaimGoes ==
  /\ pvc.deleting /\ ~dep.ready
  /\ pvc' = NoClaim
  /\ UNCHANGED <<spec, dep, cacheVars, queued, pc, snap, failed, status, ids,
                 edits>>

(* Owns(PersistentVolumeClaim): the owner of the old or the new object. *)
DeliverClaim ==
  /\ seen # pvc
  /\ seen' = pvc
  /\ queued' = (queued \/ seen.owned \/ pvc.owned)
  /\ UNCHANGED <<apiVars, depSeen, depLag, pc, snap, failed, status, ids, edits>>

DeliverDeployment ==
  /\ depLag
  /\ depSeen' = dep /\ depLag' = FALSE
  /\ queued' = TRUE
  /\ UNCHANGED <<apiVars, seen, pc, snap, failed, status, ids, edits>>

-----------------------------------------------------------------------------
(* A pass, reduced to the steps that concern the disk. *)

Begin ==
  /\ pc = "idle" /\ queued
  /\ queued' = FALSE
  /\ snap' = spec
  /\ pc' = "deployment" /\ failed' = FALSE
  /\ UNCHANGED <<apiVars, cacheVars, status, ids, edits>>

(* reconcileDeployment wants one replica. A cached copy that already has it is
   left as it is; an update of a stale one is refused, which fails the pass
   once RetryOnConflict is used up. *)
ReconcileDeployment ==
  /\ pc = "deployment"
  /\ \/ /\ depSeen.replicas = 1 /\ UNCHANGED <<dep, depLag, failed>>
        /\ pc' = "checkProtect"
     \/ /\ depSeen.replicas # 1 /\ ~depLag
        /\ PutDeployment([dep EXCEPT !.replicas = 1])
        /\ pc' = "checkProtect" /\ UNCHANGED failed
     \/ /\ depLag /\ UNCHANGED <<dep, depLag>>
        /\ pc' = "updateStatus" /\ failed' = TRUE
  /\ UNCHANGED <<spec, pvc, seen, depSeen, queued, snap, status, ids, edits>>

(* The first look at the cache, for protect's sake. *)
CheckProtect ==
  /\ pc = "checkProtect"
  /\ pc' = IF snap.protect /\ ~Exists(seen) THEN "updateStatus" ELSE "writePvc"
  /\ UNCHANGED <<apiVars, cacheVars, queued, snap, failed, status, ids, edits>>

(* Faulty variant: the request follows the spec down. *)
DesiredSizeAsAsked(c) == snap.size

(* The request is raised to the spec's size and never lowered. *)
DesiredSize(c) == IF snap.size > c.size THEN snap.size ELSE c.size

(* Faulty variant: the claim is not given an owner. *)
DesiredUnowned(c) == [c EXCEPT !.size = DesiredSize(c)]

(* What CreateOrUpdate's mutate function makes of the claim c it read. *)
Desired(c) == [c EXCEPT !.size = DesiredSize(c), !.owned = TRUE]

CreatesClaim == pc = "writePvc" /\ ~Exists(seen) /\ ~Exists(pvc)

(* CreateOrUpdate looks at the cache again. Creating fails if the claim is
   there after all, updating fails if the copy is stale or is shrunk. *)
WritePvc ==
  /\ pc = "writePvc"
  /\ \/ /\ CreatesClaim /\ ids < MaxClaims
        /\ pvc' = [NoClaim EXCEPT !.id = ids + 1, !.size = snap.size,
                                  !.owned = TRUE]
        /\ ids' = ids + 1 /\ failed' = FALSE
     \/ /\ Exists(seen)
        /\ IF Desired(seen) = seen \/ (seen = pvc /\ Desired(seen).size >= pvc.size)
           THEN /\ pvc' = IF Desired(seen) = seen THEN pvc ELSE Desired(seen)
                /\ failed' = FALSE
           ELSE failed' = TRUE /\ UNCHANGED pvc
        /\ UNCHANGED ids
     \/ ~Exists(seen) /\ Exists(pvc) /\ failed' = TRUE /\ UNCHANGED <<pvc, ids>>
  /\ pc' = "updateStatus"
  /\ UNCHANGED <<spec, dep, cacheVars, queued, snap, status, edits>>

(* Faulty variant: an absent claim is always blamed on protect. *)
DiskReasonAbsent ==
  CASE Exists(pvc) /\ pvc.cap > 0 -> "Bound"
    [] ~Exists(pvc) -> "Protected"
    [] OTHER -> "Provisioning"

(* The reason of the DiskReady condition, which is True when Bound. *)
DiskReason ==
  CASE Exists(pvc) /\ pvc.cap > 0 -> "Bound"
    [] ~Exists(pvc) /\ snap.protect -> "Protected"
    [] OTHER -> "Provisioning"

(* updateStatus, and what Reconcile makes of the phase: it comes back after
   an error, and after 30 seconds unless the app is Available. *)
UpdateStatus ==
  LET phase == CASE failed -> "Failed"
                 [] ~failed /\ depSeen.ready -> "Available"
                 [] OTHER -> "Progressing" IN
  /\ pc = "updateStatus"
  /\ status' = [phase |-> phase, disk |-> DiskReason]
  /\ queued' = (queued \/ phase # "Available")
  /\ pc' = "idle"
  /\ UNCHANGED <<apiVars, cacheVars, snap, failed, ids, edits>>

-----------------------------------------------------------------------------

Admin ==
  \/ \E n \in Sizes, p \in BOOLEAN : EditSpec(n, p)
  \/ \E n \in Sizes : CreateClaim(n)
  \/ ScaleDown \/ DeleteClaim

Pass ==
  \/ Begin \/ ReconcileDeployment \/ CheckProtect \/ WritePvc \/ UpdateStatus

Next ==
  \/ Admin \/ Pass
  \/ Provision \/ PodStarts \/ PodStops \/ ClaimGoes
  \/ DeliverClaim \/ DeliverDeployment

Spec == Init /\ [][Next]_vars

(* The worker, the informers, the provisioner and the kubelet keep going. *)
Fairness ==
  /\ WF_vars(Pass) /\ WF_vars(DeliverClaim) /\ WF_vars(DeliverDeployment)
  /\ WF_vars(Provision) /\ WF_vars(PodStarts) /\ WF_vars(PodStops)
  /\ WF_vars(ClaimGoes)

FairSpec == Spec /\ Fairness

-----------------------------------------------------------------------------
(* Properties. *)

ClaimType == [id : 0..MaxClaims, size : Sizes \cup {0}, cap : Sizes \cup {0},
              owned : BOOLEAN, deleting : BOOLEAN]

(* Every variable keeps its type, no claim is granted more than was requested
   for it, and Protected is only reported by a pass over a protected spec. *)
TypeOK ==
  /\ spec \in [size : Sizes, protect : BOOLEAN]
  /\ snap \in [size : Sizes, protect : BOOLEAN]
  /\ pvc \in ClaimType /\ seen \in ClaimType /\ pvc.cap <= pvc.size
  /\ dep \in [replicas : {0, 1}, ready : BOOLEAN]
  /\ depSeen \in [replicas : {0, 1}, ready : BOOLEAN]
  /\ queued \in BOOLEAN /\ depLag \in BOOLEAN /\ failed \in BOOLEAN
  /\ pc \in {"idle", "deployment", "checkProtect", "writePvc", "updateStatus"}
  /\ status \in [phase : {"None", "Failed", "Available", "Progressing"},
                 disk : {"None", "Bound", "Protected", "Provisioning"}]
  /\ pc = "idle" /\ status.disk = "Protected" => snap.protect
  /\ ids \in 0..MaxClaims /\ edits \in 0..MaxEdits

Quiescent == pc = "idle" /\ ~queued /\ seen = pvc /\ ~depLag

(* When the operator falls silent the disk is usable and the status says so:
   there is a bound claim, the Deployment wants its pod, and unless protect
   was in the way the claim belongs to the app and is as large as the spec
   asks, also when it was deleted or made by hand in the middle of a pass. *)
SettledDisk ==
  Quiescent =>
    /\ Exists(pvc) /\ status = [phase |-> "Available", disk |-> "Bound"]
    /\ dep.replicas = 1
    /\ ~spec.protect => pvc.owned /\ pvc.size >= spec.size

(* Whatever was done by hand, an unprotected app ends up Available on a claim
   of its own of at least the size asked for, fully expanded: asking for less
   than there is does not make it fail. Not while a claim somebody deleted is
   still in use. *)
DiskConverges ==
  <>[](~spec.protect /\ ~pvc.deleting =>
         /\ status = [phase |-> "Available", disk |-> "Bound"]
         /\ pvc.owned /\ pvc.size >= spec.size /\ pvc.cap = pvc.size)
=============================================================================
