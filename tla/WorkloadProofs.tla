--------------------------- MODULE WorkloadProofs ---------------------------
(***************************************************************************)
(* Proofs about the two components that decide what the Deployment runs    *)
(* on: DiskClaim, which keeps its types and settles with a usable claim,   *)
(* and Scaling, which settles with the right HPA, replicas and condition.  *)
(*                                                                         *)
(* DiskClaim: two facts carry the argument.  A pod that is ready keeps the *)
(* claim it mounts, so an app that is reported Available and has not been  *)
(* heard of since has the claim the pass saw or wrote (InUse).  And a      *)
(* claim that suits the app belongs to it, so whatever replaces such a     *)
(* claim, stored or cached, is announced (Usable).                         *)
(*                                                                         *)
(* Scaling: whatever is not as the spec wants it is announced.  A          *)
(* difference the last pass could not see is one in a copy that lags, and  *)
(* its delivery queues the key; a difference that came after the pass read *)
(* the spec queued the key itself.  So with nothing queued and no copy     *)
(* lagging, each part a pass has dealt with is as the pass left it.        *)
(***************************************************************************)
EXTENDS DiskClaim, Scaling, TLAPS

(* Sizes are numbers, and none of them is 0. *)
LEMMA SizesAreNumbers ==
  /\ \A n \in Sizes : n \in Nat /\ n # 0
  /\ MaxClaims \in Nat /\ MaxEdits \in Nat
BY ConstantsAssumption

(* The claim made anew, by hand or by the operator. *)
LEMMA NewClaims ==
  ASSUME NEW i \in 0..MaxClaims, NEW n \in Sizes
  PROVE  /\ [NoClaim EXCEPT !.id = i, !.size = n] \in ClaimType
         /\ [NoClaim EXCEPT !.id = i, !.size = n].cap = 0
         /\ [NoClaim EXCEPT !.id = i, !.size = n, !.owned = TRUE] \in ClaimType
         /\ [NoClaim EXCEPT !.id = i, !.size = n, !.owned = TRUE].cap = 0
<1>1. NoClaim \in ClaimType /\ NoClaim.cap = 0
  BY SizesAreNumbers DEF NoClaim, ClaimType
<1> QED
  BY <1>1 DEF ClaimType

(* The sizes the mutate function of CreateOrUpdate asks for are sizes, and
   the claim keeps its identity. *)
LEMMA DesiredClaim ==
  ASSUME NEW c \in ClaimType, snap.size \in Sizes
  PROVE  /\ Desired(c) \in ClaimType /\ Desired(c).owned
         /\ Desired(c).id = c.id /\ Desired(c).cap = c.cap
         /\ Desired(c).size >= c.size /\ Desired(c).size >= snap.size
<1>1. c.size \in Sizes \cup {0} /\ c.size \in Nat /\ snap.size \in Nat
  BY SizesAreNumbers DEF ClaimType
<1>2. /\ DesiredSize(c) \in Sizes \cup {0}
      /\ DesiredSize(c) >= c.size /\ DesiredSize(c) >= snap.size
  BY <1>1 DEF DesiredSize
<1> QED
  BY <1>2 DEF Desired, ClaimType

(* The types of the claims, and those of everything else. *)
ClaimsOK == pvc \in ClaimType /\ seen \in ClaimType /\ pvc.cap <= pvc.size

(* The other parts of TypeOK. *)
SpecsOK ==
  /\ spec \in [size : Sizes, protect : BOOLEAN]
  /\ snap \in [size : Sizes, protect : BOOLEAN]

DeploymentsOK ==
  /\ dep \in [replicas : {0, 1}, ready : BOOLEAN]
  /\ depSeen \in [replicas : {0, 1}, ready : BOOLEAN]
  /\ depLag \in BOOLEAN

PassOK ==
  /\ queued \in BOOLEAN /\ failed \in BOOLEAN
  /\ pc \in {"idle", "deployment", "checkProtect", "writePvc", "updateStatus"}

StatusOK ==
  /\ status \in [phase : {"None", "Failed", "Available", "Progressing"},
                 disk : {"None", "Bound", "Protected", "Provisioning"}]
  /\ pc = "idle" /\ status.disk = "Protected" => snap.protect

CountsOK == ids \in 0..MaxClaims /\ edits \in 0..MaxEdits

(* Nothing else is in TypeOK. *)
LEMMA TypeParts ==
  TypeOK <=>
    ClaimsOK /\ SpecsOK /\ DeploymentsOK /\ PassOK /\ StatusOK /\ CountsOK
BY DEF TypeOK, ClaimsOK, SpecsOK, DeploymentsOK, PassOK, StatusOK, CountsOK

(* Every step keeps the types of the claims. *)
LEMMA ClaimsStep == TypeOK /\ [Next]_vars => ClaimsOK'
<1> SUFFICES ASSUME TypeOK, [Next]_vars PROVE ClaimsOK'
  OBVIOUS
<1>0. /\ ClaimsOK /\ snap.size \in Sizes /\ ids \in 0..MaxClaims
      /\ pvc.size \in Nat /\ pvc.cap \in Nat
  BY TypeParts, SizesAreNumbers DEF ClaimsOK, SpecsOK, CountsOK, ClaimType
<1>1. CASE pvc' = pvc /\ seen' \in {seen, pvc}
  BY <1>0, <1>1 DEF ClaimsOK
<1>2. ASSUME ids < MaxClaims,
             pvc' \in ClaimType, pvc'.cap = 0, seen' = seen
      PROVE  ClaimsOK'
  <2>1. pvc'.size \in Nat
    BY <1>2, SizesAreNumbers DEF ClaimType
  <2> QED
    BY <1>0, <1>2, <2>1 DEF ClaimsOK
<1>3. ASSUME NEW n \in Sizes, CreateClaim(n) PROVE ClaimsOK'
  <2>1. ids + 1 \in 0..MaxClaims
    BY <1>0, <1>3, SizesAreNumbers DEF CreateClaim
  <2> QED
    BY <1>2, <1>3, <2>1, NewClaims DEF CreateClaim, cacheVars
<1>4. CASE DeleteClaim
  BY <1>0, <1>4 DEF DeleteClaim, ClaimsOK, ClaimType, cacheVars
<1>5. CASE Provision
  <2>1. pvc' = [pvc EXCEPT !.cap = pvc.size] /\ seen' = seen
    BY <1>5 DEF Provision, cacheVars
  <2>2. pvc' \in ClaimType /\ pvc'.cap = pvc.size /\ pvc'.size = pvc.size
    BY <1>0, <2>1 DEF ClaimsOK, ClaimType
  <2> QED
    BY <1>0, <2>1, <2>2 DEF ClaimsOK
<1>6. CASE ClaimGoes
  <2>1. NoClaim \in ClaimType /\ NoClaim.cap <= NoClaim.size
    BY SizesAreNumbers DEF NoClaim, ClaimType
  <2> QED
    BY <1>0, <1>6, <2>1 DEF ClaimGoes, ClaimsOK, cacheVars
<1>7. CASE WritePvc
  <2>1. /\ Desired(seen) \in ClaimType /\ Desired(seen).cap = seen.cap
        /\ Desired(seen).size >= seen.size /\ Desired(seen).size \in Nat
    BY <1>0, DesiredClaim, SizesAreNumbers DEF ClaimsOK, ClaimType
  <2>2. CASE /\ ids < MaxClaims
             /\ pvc' = [NoClaim EXCEPT !.id = ids + 1, !.size = snap.size,
                                       !.owned = TRUE]
    <3>1. ids + 1 \in 0..MaxClaims
      BY <1>0, <2>2, SizesAreNumbers
    <3> QED
      BY <1>0, <1>2, <1>7, <2>2, <3>1, NewClaims DEF WritePvc, cacheVars
  <2>3. CASE seen = pvc /\ pvc' = Desired(seen) /\ seen' = seen
    BY <1>0, <2>1, <2>3 DEF ClaimsOK
  <2> QED
    BY <1>1, <1>7, <2>2, <2>3 DEF WritePvc, cacheVars
<1> QED
  BY <1>1, <1>3, <1>4, <1>5, <1>6, <1>7 DEF Next, Admin, Pass, EditSpec,
     ScaleDown, PodStarts, PodStops, DeliverClaim, DeliverDeployment, Begin,
     ReconcileDeployment, CheckProtect, UpdateStatus, vars, apiVars, cacheVars

(* Every step keeps the types of everything else. *)
LEMMA OthersStep ==
  TypeOK /\ [Next]_vars
    => (SpecsOK /\ DeploymentsOK /\ PassOK /\ StatusOK /\ CountsOK)'
<1> DEFINE Others == SpecsOK /\ DeploymentsOK /\ PassOK /\ StatusOK /\ CountsOK
<1> SUFFICES ASSUME TypeOK, [Next]_vars PROVE Others'
  OBVIOUS
<1>0. Others /\ ClaimsOK
  BY TypeParts
<1> USE <1>0 DEF SpecsOK, DeploymentsOK, PassOK, StatusOK, CountsOK
<1>1. ASSUME NEW n \in Sizes, NEW p \in BOOLEAN, EditSpec(n, p) PROVE Others'
  BY <1>1, SizesAreNumbers DEF EditSpec, Edit, cacheVars
<1>2. ASSUME NEW n \in Sizes, CreateClaim(n) PROVE Others'
  BY <1>2, SizesAreNumbers DEF CreateClaim, Edit, cacheVars
<1>3. ASSUME NEW d \in [replicas : {0, 1}, ready : BOOLEAN],
             PutDeployment(d), depSeen' = depSeen
      PROVE  DeploymentsOK'
  BY <1>3 DEF PutDeployment
<1>4. ASSUME NEW r \in {0, 1}, NEW b \in BOOLEAN
      PROVE  /\ [dep EXCEPT !.replicas = r] \in [replicas : {0, 1}, ready : BOOLEAN]
             /\ [dep EXCEPT !.ready = b] \in [replicas : {0, 1}, ready : BOOLEAN]
  OBVIOUS
<1>12. CASE ScaleDown
  <2>1. DeploymentsOK'
    BY <1>3, <1>4, <1>12 DEF ScaleDown
  <2> QED
    BY <1>12, <2>1, SizesAreNumbers DEF ScaleDown, Edit
<1>13. CASE DeleteClaim
  BY <1>13, SizesAreNumbers DEF DeleteClaim, Edit, cacheVars
<1>14. CASE Provision \/ ClaimGoes
  BY <1>14 DEF Provision, ClaimGoes, cacheVars
<1>15. CASE PodStarts \/ PodStops
  <2>1. DeploymentsOK'
    BY <1>3, <1>4, <1>15 DEF PodStarts, PodStops
  <2> QED
    BY <1>15, <2>1 DEF PodStarts, PodStops
<1>5. CASE DeliverClaim
  BY <1>5 DEF DeliverClaim, apiVars, ClaimsOK, ClaimType
<1>6. CASE DeliverDeployment \/ Begin
  BY <1>6 DEF DeliverDeployment, Begin, apiVars, cacheVars
<1>7. CASE ReconcileDeployment
  <2>1. DeploymentsOK'
    BY <1>3, <1>4, <1>7 DEF ReconcileDeployment
  <2> QED
    BY <1>7, <2>1 DEF ReconcileDeployment
<1>8. CASE CheckProtect
  BY <1>8 DEF CheckProtect, apiVars, cacheVars
<1>9. CASE WritePvc
  <2>1. /\ ids' = ids \/ (ids' = ids + 1 /\ ids < MaxClaims)
        /\ failed' = TRUE \/ failed' = FALSE
    BY <1>9 DEF WritePvc
  <2>2. ids' \in 0..MaxClaims
    BY <2>1, SizesAreNumbers
  <2>3. /\ pc' = "updateStatus"
        /\ UNCHANGED <<spec, dep, depSeen, depLag, queued, snap, status, edits>>
    BY <1>9 DEF WritePvc, cacheVars
  <2>4. SpecsOK' /\ DeploymentsOK' /\ PassOK'
    BY <2>1, <2>3
  <2>5. StatusOK'
    BY <2>3
  <2>6. CountsOK'
    BY <2>2, <2>3
  <2> QED
    BY <2>4, <2>5, <2>6
<1>10. CASE UpdateStatus
  <2>1. /\ DiskReason \in {"Bound", "Protected", "Provisioning"}
        /\ DiskReason = "Protected" => snap.protect
    BY DEF DiskReason
  <2> QED
    BY <1>10, <2>1 DEF UpdateStatus, apiVars, cacheVars
<1>11. CASE UNCHANGED vars
  BY <1>11 DEF vars, apiVars, cacheVars
<1> QED
  BY <1>1, <1>2, <1>5, <1>6, <1>7, <1>8, <1>9, <1>10, <1>11, <1>12, <1>13,
     <1>14, <1>15 DEF Next, Admin, Pass

(* TypeOK is an invariant of DiskClaim, for all sizes and any number of
   interventions: in particular the operator never writes a claim that was
   granted more than it asks for, and Protected is the verdict of a pass over
   a protected spec only. *)
THEOREM TypeCorrect == Spec => []TypeOK
<1>1. Init => TypeOK
  <2> SUFFICES ASSUME Init PROVE TypeOK
    OBVIOUS
  <2>1. ClaimsOK
    BY SizesAreNumbers DEF Init, ClaimsOK, ClaimType, NoClaim
  <2>2. SpecsOK
    BY DEF Init, SpecsOK
  <2>3. DeploymentsOK /\ PassOK
    BY DEF Init, DeploymentsOK, PassOK
  <2>4. StatusOK
    BY DEF Init, StatusOK
  <2>5. CountsOK
    BY SizesAreNumbers DEF Init, CountsOK
  <2> QED
    BY <2>1, <2>2, <2>3, <2>4, <2>5, TypeParts
<1>2. TypeOK /\ [Next]_vars => TypeOK'
  <2> SUFFICES ASSUME TypeOK, [Next]_vars PROVE TypeOK'
    OBVIOUS
  <2>1. ClaimsOK'
    BY ClaimsStep
  <2>2. (SpecsOK /\ DeploymentsOK /\ PassOK /\ StatusOK /\ CountsOK)'
    BY OthersStep
  <2> QED
    BY <2>1, <2>2 DEF TypeOK, ClaimsOK, SpecsOK, DeploymentsOK, PassOK, StatusOK,
       CountsOK
<1> QED
  BY <1>1, <1>2, PTL DEF Spec

-----------------------------------------------------------------------------

(* The claim of a ready pod is there and bound. *)
InUse == dep.ready => Exists(pvc) /\ pvc.cap > 0

(* A copy of the Deployment that does not lag is the stored one, and a pass
   nobody has asked to repeat works from the stored spec. *)
Current ==
  /\ ~depLag => depSeen = dep
  /\ ~queued => snap = spec

(* Only a pass that is over, or nearly so, has failed. *)
Failing == failed => pc \in {"updateStatus", "idle"}

(* Past reconcileDeployment the pod is wanted, or there is news. *)
PodWanted ==
  pc # "deployment" /\ ~queued /\ ~depLag /\ ~failed => dep.replicas = 1

(* An app that is left alone was Available when last looked at. *)
Reported ==
  pc = "idle" /\ ~queued =>
    /\ ~failed /\ status.phase = "Available"
    /\ ~depLag => dep.ready /\ status.disk = "Bound"

(* The claim c is the app's and large enough. *)
Suits(c) == c.owned /\ c.size >= snap.size

(* Past reconcilePVC with a pod that runs, the stored claim suits the app or
   the cached one does, which will make news of the difference. *)
Usable ==
  /\ pc \in {"updateStatus", "idle"} /\ ~queued /\ ~failed
  /\ ~snap.protect /\ ~depLag /\ dep.ready
  => Suits(pvc) \/ Suits(seen)

(* What is known at every moment of a pass and between passes. *)
Inv == InUse /\ Current /\ Failing /\ PodWanted /\ Reported /\ Usable

(* The invariant holds initially, and every step keeps it. *)
LEMMA InvInductive == Spec => []Inv
<1>1. Init => Inv
  BY DEF Init, Inv, InUse, Current, Failing, PodWanted, Reported, Usable
<1>2. Inv /\ TypeOK /\ [Next]_vars => Inv'
  <2> SUFFICES ASSUME Inv, TypeOK, [Next]_vars PROVE Inv'
    OBVIOUS
  <2> USE DEF Inv, InUse, Current, Failing, PodWanted, Reported, Usable, Suits,
        Exists, apiVars, cacheVars
  <2>0. /\ pvc \in ClaimType /\ seen \in ClaimType /\ snap.size \in Sizes
        /\ dep \in [replicas : {0, 1}, ready : BOOLEAN]
        /\ depSeen \in [replicas : {0, 1}, ready : BOOLEAN]
        /\ queued \in BOOLEAN /\ depLag \in BOOLEAN /\ failed \in BOOLEAN
    BY DEF TypeOK
  <2>1. ASSUME NEW n \in Sizes, NEW p \in BOOLEAN, EditSpec(n, p) PROVE Inv'
    BY <2>1 DEF EditSpec
  <2>2. ASSUME NEW n \in Sizes, CreateClaim(n) PROVE Inv'
    BY <2>2 DEF CreateClaim
  <2>3. CASE ScaleDown
    BY <2>0, <2>3 DEF ScaleDown, PutDeployment
  <2>4. CASE DeleteClaim
    BY <2>0, <2>4 DEF DeleteClaim, ClaimType
  <2>5. CASE Provision
    <3>1. /\ pvc'.id = pvc.id /\ pvc'.size = pvc.size /\ pvc'.owned = pvc.owned
          /\ pvc'.cap > 0
      BY <2>0, <2>5, SizesAreNumbers DEF Provision, ClaimType
    <3> QED
      BY <3>1, <2>5 DEF Provision
  <2>6. CASE PodStarts \/ PodStops
    BY <2>0, <2>6 DEF PodStarts, PodStops, PutDeployment
  <2>7. CASE ClaimGoes
    BY <2>7 DEF ClaimGoes
  <2>8. CASE DeliverClaim
    BY <2>0, <2>8 DEF DeliverClaim, ClaimType
  <2>9. CASE DeliverDeployment
    BY <2>9 DEF DeliverDeployment
  <2>10. CASE Begin
    BY <2>10 DEF Begin
  <2>11. CASE ReconcileDeployment
    BY <2>0, <2>11 DEF ReconcileDeployment, PutDeployment
  <2>12. CASE CheckProtect
    BY <2>12 DEF CheckProtect
  <2>13. CASE WritePvc
    <3>1. /\ Desired(seen).owned /\ Desired(seen).size >= snap.size
          /\ Desired(seen).id = seen.id /\ Desired(seen).cap = seen.cap
      BY <2>0, DesiredClaim
    <3>2. CASE CreatesClaim
      BY <2>13, <3>2 DEF WritePvc, CreatesClaim
    <3>3. CASE ~CreatesClaim
      BY <2>13, <3>1, <3>3 DEF WritePvc, CreatesClaim
    <3> QED
      BY <3>2, <3>3
  <2>14. CASE UpdateStatus
    BY <2>0, <2>14 DEF UpdateStatus, DiskReason
  <2>15. CASE UNCHANGED vars
    BY <2>15 DEF vars
  <2> QED
    BY <2>1, <2>2, <2>3, <2>4, <2>5, <2>6, <2>7, <2>8, <2>9, <2>10, <2>11,
       <2>12, <2>13, <2>14, <2>15 DEF Next, Admin, Pass
<1> QED
  BY <1>1, <1>2, TypeCorrect, PTL DEF Spec

(* Whenever the operator falls silent there is a bound claim, the Deployment
   wants its pod, the status says so, and unless protect was in the way the
   claim is the app's and large enough: whatever somebody did by hand between
   the calls of reconcilePVC, any number of times, is not left unnoticed. *)
THEOREM DiskSettles == Spec => []SettledDisk
<1>1. Inv /\ TypeOK => SettledDisk
  <2> SUFFICES ASSUME Inv, TypeOK, Quiescent
               PROVE  /\ Exists(pvc)
                      /\ status = [phase |-> "Available", disk |-> "Bound"]
                      /\ dep.replicas = 1
                      /\ ~spec.protect => pvc.owned /\ pvc.size >= spec.size
    BY DEF SettledDisk
  <2> USE DEF Inv, Quiescent
  <2>1. dep.ready /\ status.phase = "Available" /\ status.disk = "Bound" /\ ~failed
    BY DEF Reported
  <2>2. status = [phase |-> "Available", disk |-> "Bound"]
    BY <2>1 DEF TypeOK
  <2>3. Exists(pvc) /\ dep.replicas = 1
    BY <2>1 DEF InUse, PodWanted
  <2>4. ~spec.protect => pvc.owned /\ pvc.size >= spec.size
    BY <2>1 DEF Current, Usable, Suits
  <2> QED
    BY <2>2, <2>3, <2>4
<1> QED
  BY <1>1, InvInductive, TypeCorrect, PTL

(* A claim that stays the same claim is never asked to shrink, nor does it
   lose capacity. *)
ClaimKept ==
  Exists(pvc) /\ pvc'.id = pvc.id => pvc'.size >= pvc.size /\ pvc'.cap >= pvc.cap

(* Nobody's step shrinks a claim: CreateOrUpdate raises the request of the copy
   it read and is refused if that copy is behind, so that an edit of the spec
   to a smaller size, even amid others, leaves the request alone. *)
THEOREM ClaimsNeverShrink == Spec => [][ClaimKept]_vars
<1>1. TypeOK /\ [Next]_vars => [ClaimKept]_vars
  <2> SUFFICES ASSUME TypeOK, Next PROVE ClaimKept
    OBVIOUS
  <2>0. /\ pvc \in ClaimType /\ seen \in ClaimType /\ snap.size \in Sizes
        /\ pvc.size \in Nat /\ pvc.cap \in Nat
    BY SizesAreNumbers DEF TypeOK, ClaimType
  <2>1. CASE pvc' = pvc
    BY <2>0, <2>1 DEF ClaimKept
  <2>2. ASSUME NEW n \in Sizes, CreateClaim(n) PROVE ClaimKept
    BY <2>2 DEF CreateClaim, ClaimKept
  <2>3. CASE DeleteClaim
    BY <2>0, <2>3 DEF DeleteClaim, ClaimKept, ClaimType
  <2>4. CASE Provision
    <3>1. pvc'.cap = pvc.size /\ pvc'.size = pvc.size /\ pvc.cap < pvc.size
      BY <2>0, <2>4 DEF Provision, ClaimType
    <3> QED
      BY <2>0, <3>1 DEF ClaimKept
  <2>5. CASE ClaimGoes
    BY <2>5 DEF ClaimGoes, ClaimKept, Exists, NoClaim
  <2>6. CASE WritePvc
    <3>1. Desired(seen).size >= seen.size /\ Desired(seen).cap = seen.cap
      BY <2>0, DesiredClaim
    <3>2. ~Exists(pvc) \/ pvc' = pvc \/ (seen = pvc /\ pvc' = Desired(seen))
      BY <2>6 DEF WritePvc, CreatesClaim
    <3> QED
      BY <2>0, <3>1, <3>2 DEF ClaimKept
  <2> QED
    BY <2>1, <2>2, <2>3, <2>4, <2>5, <2>6 DEF Next, Admin, Pass, EditSpec,
       ScaleDown, PodStarts, PodStops, DeliverClaim, DeliverDeployment, Begin,
       ReconcileDeployment, CheckProtect, UpdateStatus, apiVars
<1> QED
  BY <1>1, TypeCorrect, PTL DEF Spec

-----------------------------------------------------------------------------
(* Scaling. *)

(* A copy that does not lag is the stored object. *)
ScalingCopies ==
  /\ ~replicasLag => replicasSeen = replicas
  /\ ~hpaLag => hpaSeen = hpa
  /\ ~hpa.exists => hpa = NoHpa

(* A pass nobody has asked to repeat works from the stored spec. *)
ScalingCurrent == scaleSpec \in Specs /\ (~scaleQueued => scaleSnap = scaleSpec)

(* The HPA the spec of the pass asks for. *)
SpecHpa == IF scaleSnap.auto THEN DesiredHpa ELSE NoHpa

(* What reconcileDeployment, reconcileHPA and updateStatus have dealt with
   stays as it is until an event announces a change. *)
Scaled ==
  scalePc \in {"hpa", "status", "idle"} /\ ~scaleQueued /\ ~replicasLag
    => replicas = scaleSnap.replicas

(* The HPA is the one the spec asks for, or an event for it is to come. *)
Matched == scalePc \in {"status", "idle"} /\ ~scaleQueued /\ ~hpaLag => hpa = SpecHpa

(* The condition is that of the last pass. *)
ScalingReported ==
  scalePc = "idle" /\ ~scaleQueued /\ ~hpaLag
    => active = [set |-> scaleSnap.auto, hpa |-> hpa]

(* What is known at every moment of a pass and between passes. *)
ScalingInv == ScalingCopies /\ ScalingCurrent /\ Scaled /\ Matched /\ ScalingReported

(* The invariant holds initially, and every step keeps it. *)
LEMMA ScalingInvInductive == ScalingSpec => []ScalingInv
<1> USE DEF ScalingInv, ScalingCopies, ScalingCurrent, SpecHpa, Scaled, Matched,
      ScalingReported, DesiredHpa, NoHpa, depVars, hpaVars
<1>1. ScalingInit => ScalingInv
  BY DEF ScalingInit
<1>2. ScalingInv /\ [ScalingNext]_scaleVars => ScalingInv'
  <2> SUFFICES ASSUME ScalingInv, [ScalingNext]_scaleVars PROVE ScalingInv'
    OBVIOUS
  <2>1. ASSUME NEW s \in Specs, UserEdit(s) PROVE ScalingInv'
    BY <2>1 DEF UserEdit
  <2>2. ASSUME NEW n \in Counts, LoadChanges(n) PROVE ScalingInv'
    BY <2>2 DEF LoadChanges
  <2>3. CASE ScalerCatchesUp
    BY <2>3 DEF ScalerCatchesUp
  <2>4. CASE ScalerScales
    BY <2>4 DEF ScalerScales, SetReplicas
  <2>5. CASE DeliverReplicas
    BY <2>5 DEF DeliverReplicas
  <2>6. CASE DeliverHpa
    BY <2>6 DEF DeliverHpa
  <2>7. CASE BeginScaling
    BY <2>7 DEF BeginScaling
  <2>8. CASE ReconcileReplicas
    BY <2>8 DEF ReconcileReplicas, DesiredReplicas, SetReplicas
  <2>9. CASE ReconcileHPA
    BY <2>9 DEF ReconcileHPA, DeleteHpa, PutHpa
  <2>10. CASE Refused
    BY <2>10 DEF Refused
  <2>11. CASE UpdateActive
    BY <2>11 DEF UpdateActive
  <2>12. CASE UNCHANGED scaleVars
    BY <2>12 DEF scaleVars
  <2> QED
    BY <2>1, <2>2, <2>3, <2>4, <2>5, <2>6, <2>7, <2>8, <2>9, <2>10, <2>11,
       <2>12 DEF ScalingNext, ScalingPass
<1> QED
  BY <1>1, <1>2, PTL DEF ScalingSpec

(* Whenever operator, informers and HPA controller are at rest, there is an
   HPA with the bounds of the spec, an unset minimum counting as 1, exactly if
   autoscaling is enabled, and without one the Deployment has the replicas of
   the spec: no comparison of reconcileHPA and reconcileDeployment with an
   outdated copy goes unrepaired, for all replica counts and any number of
   edits. *)
THEOREM ScalingSettles == ScalingSpec => []SettledScaling
<1>1. ScalingInv => SettledScaling
  <2> SUFFICES ASSUME ScalingInv, ScalingQuiescent
               PROVE  /\ hpa.exists = scaleSpec.auto
                      /\ scaleSpec.auto =>
                           /\ hpa.max = scaleSpec.max
                           /\ hpa.min = IF scaleSpec.min = 0 THEN 1 ELSE scaleSpec.min
                      /\ ~scaleSpec.auto => replicas = scaleSpec.replicas
    BY DEF SettledScaling
  <2>1. scaleSnap = scaleSpec /\ hpa = SpecHpa /\ replicas = scaleSpec.replicas
    BY DEF ScalingInv, ScalingCurrent, Scaled, Matched, ScalingQuiescent
  <2>2. scaleSpec.auto \in BOOLEAN
    BY DEF ScalingInv, ScalingCurrent, Specs
  <2> QED
    BY <2>1, <2>2 DEF SpecHpa, DesiredHpa, NoHpa
<1> QED
  BY <1>1, ScalingInvInductive, PTL

(* Whenever they are at rest, HPAActive is set exactly if autoscaling is
   enabled and reports the HPA that is there, although updateStatus reads a
   copy that the pass itself may have made outdated. *)
THEOREM ActiveSettles == ScalingSpec => []SettledActive
<1>1. ScalingInv => SettledActive
  BY DEF ScalingInv, ScalingCurrent, ScalingReported, SettledActive, ScalingQuiescent
<1> QED
  BY <1>1, ScalingInvInductive, PTL
=============================================================================
