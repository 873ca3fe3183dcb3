-------------------------- MODULE ReconcilerProofs --------------------------
(***************************************************************************)
(* Proofs about Reconciler for every value of its constants: the types,    *)
(* the finalizer and the pause, and what is true when everything has       *)
(* fallen silent.  The last kind needs an invariant that says, at every    *)
(* moment of a pass and between passes, which part of the state is already *)
(* in order and which event, retry or requeue will bring the rest about.   *)
(***************************************************************************)
EXTENDS Reconciler, TLAPS

-----------------------------------------------------------------------------
(* Updates of an AppDefinition stay within its type. *)

(* The absent AppDefinition has the type of one. *)
LEMMA AbsentType == Absent \in AppType
BY ConstantsAssumption DEF Absent, AppType, Phases

(* So has the value of the gauges the metrics registry starts with. *)
LEMMA GaugeType == NoGauge \in [known : BOOLEAN, ready : BOOLEAN, gen : 0..MaxGen]
BY ConstantsAssumption DEF NoGauge

(* Changing deletion mark or finalizers keeps the type. *)
LEMMA MarkedType ==
  ASSUME NEW a \in AppType, NEW b \in BOOLEAN
  PROVE  /\ [a EXCEPT !.deleting = b] \in AppType
         /\ [a EXCEPT !.fin = b] \in AppType
         /\ [a EXCEPT !.foreign = b] \in AppType
BY DEF AppType

(* Writing the status keeps the type. *)
LEMMA StatusType ==
  ASSUME NEW a \in AppType, NEW q \in Phases
  PROVE  [a EXCEPT !.phase = q, !.obs = a.gen] \in AppType
BY DEF AppType

(* A spec edit within the bound on generations keeps the type. *)
LEMMA EditedType ==
  ASSUME NEW a \in AppType, a.gen < MaxGen,
         NEW p \in BOOLEAN, NEW n \in ReplicaCounts
  PROVE  [a EXCEPT !.gen = @ + 1, !.paused = p, !.replicas = n] \in AppType
<1>1. a.gen + 1 \in 0..MaxGen
  BY ConstantsAssumption DEF AppType
<1>2. n \in Nat
  BY ConstantsAssumption
<1> QED
  BY <1>1, <1>2 DEF AppType

(* A freshly created AppDefinition has its type. *)
LEMMA CreatedType ==
  ASSUME uids \in 0..MaxUid, uids < MaxUid,
         NEW p \in BOOLEAN, NEW n \in ReplicaCounts, NEW f \in BOOLEAN
  PROVE  [Absent EXCEPT !.uid = uids + 1, !.gen = 1, !.paused = p,
                        !.replicas = n, !.foreign = f] \in AppType
<1>1. uids + 1 \in 0..MaxUid /\ 1 \in 0..MaxGen /\ n \in Nat
  BY ConstantsAssumption
<1>2. Absent \in AppType
  BY AbsentType
<1> QED
  BY <1>1, <1>2 DEF AppType

-----------------------------------------------------------------------------

(* Every variable of the control loop keeps its type. *)
THEOREM TypeCorrect == Spec => []TypeOK
<1>1. Init => TypeOK
  <2> SUFFICES ASSUME Init PROVE TypeOK
    OBVIOUS
  <2>1. AppTypeOK
    BY AbsentType DEF Init, AppTypeOK
  <2>2. ClusterTypeOK
    BY ConstantsAssumption DEF Init, ClusterTypeOK, NoChild
  <2>3. FlagTypeOK
    BY DEF Init, FlagTypeOK
  <2>4. WorkerTypeOK
    BY ConstantsAssumption DEF Init, WorkerTypeOK, Pcs, Phases
  <2>5. RecordTypeOK
    BY ConstantsAssumption, GaugeType DEF Init, RecordTypeOK
  <2> QED
    BY <2>1, <2>2, <2>3, <2>4, <2>5 DEF TypeOK
<1>2. TypeOK /\ [Next]_vars => TypeOK'
  <2> SUFFICES ASSUME TypeOK, [Next]_vars PROVE TypeOK'
    OBVIOUS
  <2>0. AppTypeOK /\ ClusterTypeOK /\ FlagTypeOK /\ WorkerTypeOK /\ RecordTypeOK
    BY DEF TypeOK
  <2>1. ASSUME NEW p \in BOOLEAN, NEW n \in ReplicaCounts, NEW f \in BOOLEAN,
         UserCreate(p, n, f) PROVE TypeOK'
    <3>1. AppTypeOK'
      BY <2>0, <2>1, CreatedType DEF UserCreate, Store, RecordTypeOK, AppTypeOK
    <3>2. FlagTypeOK'
      BY <2>0, <2>1 DEF UserCreate, Store, queueVars, FlagTypeOK
    <3>3. RecordTypeOK'
      BY <2>0, <2>1, ConstantsAssumption DEF UserCreate, RecordTypeOK
    <3>4. ClusterTypeOK' /\ WorkerTypeOK'
      BY <2>0, <2>1 DEF UserCreate, Store, queueVars, ClusterTypeOK, WorkerTypeOK
    <3> QED
      BY <3>1, <3>2, <3>3, <3>4 DEF TypeOK
  <2>2. ASSUME NEW p \in BOOLEAN, NEW n \in ReplicaCounts, UserEdit(p, n)
         PROVE TypeOK'
    <3>1. AppTypeOK'
      BY <2>0, <2>2, ConstantsAssumption, EditedType DEF UserEdit, Store,
         AppTypeOK, AppType
    <3>2. FlagTypeOK'
      BY <2>0, <2>2 DEF UserEdit, Store, queueVars, FlagTypeOK
    <3>3. ClusterTypeOK' /\ WorkerTypeOK' /\ RecordTypeOK'
      BY <2>0, <2>2 DEF UserEdit, queueVars, ClusterTypeOK, WorkerTypeOK,
         RecordTypeOK
    <3> QED
      BY <3>1, <3>2, <3>3 DEF TypeOK
  <2>3. CASE UserDelete
    <3>1. AppTypeOK'
      BY <2>0, <2>3, AbsentType, MarkedType DEF UserDelete, Store, AppTypeOK
    <3>2. FlagTypeOK'
      BY <2>0, <2>3 DEF UserDelete, Store, queueVars, FlagTypeOK
    <3>3. ClusterTypeOK' /\ WorkerTypeOK' /\ RecordTypeOK'
      BY <2>0, <2>3 DEF UserDelete, ClusterTypeOK, WorkerTypeOK, RecordTypeOK
    <3> QED
      BY <3>1, <3>2, <3>3 DEF TypeOK
  <2>4. CASE ReleaseForeign
    <3>1. AppTypeOK'
      BY <2>0, <2>4, AbsentType, MarkedType DEF ReleaseForeign, Store, AppTypeOK
    <3>2. FlagTypeOK'
      BY <2>0, <2>4 DEF ReleaseForeign, Store, queueVars, FlagTypeOK
    <3>3. ClusterTypeOK' /\ WorkerTypeOK' /\ RecordTypeOK'
      BY <2>0, <2>4 DEF ReleaseForeign, ClusterTypeOK, WorkerTypeOK, RecordTypeOK
    <3> QED
      BY <3>1, <3>2, <3>3 DEF TypeOK
  <2>5. CASE PodsSettle
    <3>1. ClusterTypeOK'
      BY <2>0, <2>5 DEF PodsSettle, ClusterTypeOK
    <3>2. FlagTypeOK'
      BY <2>0, <2>5 DEF PodsSettle, queueVars, workerVars, FlagTypeOK
    <3>3. AppTypeOK' /\ WorkerTypeOK' /\ RecordTypeOK'
      BY <2>0, <2>5 DEF PodsSettle, workerVars, AppTypeOK, WorkerTypeOK,
         RecordTypeOK
    <3> QED
      BY <3>1, <3>2, <3>3 DEF TypeOK
  <2>6. CASE PodLost
    <3>1. ClusterTypeOK'
      BY <2>0, <2>6 DEF PodLost, ClusterTypeOK
    <3>2. FlagTypeOK'
      BY <2>0, <2>6 DEF PodLost, queueVars, workerVars, FlagTypeOK
    <3>3. RecordTypeOK'
      BY <2>0, <2>6, ConstantsAssumption DEF PodLost, Fault, RecordTypeOK
    <3>4. AppTypeOK' /\ WorkerTypeOK'
      BY <2>0, <2>6 DEF PodLost, workerVars, AppTypeOK, WorkerTypeOK
    <3> QED
      BY <3>1, <3>2, <3>3, <3>4 DEF TypeOK
  <2>7. ASSUME NEW s \in Kinds, Drift(s) PROVE TypeOK'
    <3>1. ClusterTypeOK'
      BY <2>0, <2>7, ConstantsAssumption DEF Drift, ClusterTypeOK
    <3>2. FlagTypeOK'
      BY <2>0, <2>7 DEF Drift, queueVars, workerVars, FlagTypeOK
    <3>3. RecordTypeOK'
      BY <2>0, <2>7, ConstantsAssumption DEF Drift, Fault, RecordTypeOK
    <3>4. AppTypeOK' /\ WorkerTypeOK'
      BY <2>0, <2>7 DEF Drift, workerVars, AppTypeOK, WorkerTypeOK
    <3> QED
      BY <3>1, <3>2, <3>3, <3>4 DEF TypeOK
  <2>8. ASSUME NEW s \in Kinds, GarbageCollect(s) PROVE TypeOK'
    <3>1. ClusterTypeOK'
      BY <2>0, <2>8, ConstantsAssumption DEF GarbageCollect, NoChild, ClusterTypeOK
    <3>2. FlagTypeOK'
      BY <2>0, <2>8 DEF GarbageCollect, queueVars, workerVars, FlagTypeOK
    <3>3. AppTypeOK' /\ WorkerTypeOK' /\ RecordTypeOK'
      BY <2>0, <2>8 DEF GarbageCollect, workerVars, AppTypeOK, WorkerTypeOK,
         RecordTypeOK
    <3> QED
      BY <3>1, <3>2, <3>3 DEF TypeOK
  <2>9. CASE DeliverApp
    <3>1. AppTypeOK'
      BY <2>0, <2>9 DEF DeliverApp, apiVars, workerVars, AppTypeOK
    <3>2. FlagTypeOK'
      BY <2>0, <2>9 DEF DeliverApp, workerVars, FlagTypeOK
    <3>3. ClusterTypeOK' /\ WorkerTypeOK' /\ RecordTypeOK'
      BY <2>0, <2>9 DEF DeliverApp, apiVars, workerVars, ClusterTypeOK,
         WorkerTypeOK, RecordTypeOK
    <3> QED
      BY <3>1, <3>2, <3>3 DEF TypeOK
  <2>10. CASE DeliverChild
    <3>1. ClusterTypeOK'
      BY <2>0, <2>10 DEF DeliverChild, DeploymentNow, Exists, apiVars,
         ClusterTypeOK
    <3>2. FlagTypeOK'
      BY <2>0, <2>10 DEF DeliverChild, workerVars, FlagTypeOK
    <3>3. AppTypeOK' /\ WorkerTypeOK' /\ RecordTypeOK'
      BY <2>0, <2>10 DEF DeliverChild, apiVars, workerVars, AppTypeOK,
         WorkerTypeOK, RecordTypeOK
    <3> QED
      BY <3>1, <3>2, <3>3 DEF TypeOK
  <2>11. CASE TimerFires
    <3>1. FlagTypeOK'
      BY <2>0, <2>11 DEF TimerFires, cacheVars, workerVars, FlagTypeOK
    <3>2. AppTypeOK' /\ ClusterTypeOK' /\ WorkerTypeOK' /\ RecordTypeOK'
      BY <2>0, <2>11 DEF TimerFires, apiVars, cacheVars, workerVars, AppTypeOK,
         ClusterTypeOK, WorkerTypeOK, RecordTypeOK
    <3> QED
      BY <3>1, <3>2 DEF TypeOK
  <2>12. CASE Begin
    <3>1. AppTypeOK'
      BY <2>0, <2>12, AbsentType DEF Begin, Return, apiVars, cacheVars, AppTypeOK
    <3>2. FlagTypeOK'
      BY <2>0, <2>12 DEF Begin, Return, cacheVars, FlagTypeOK
    <3>3. WorkerTypeOK'
      BY <2>0, <2>12, ConstantsAssumption DEF Begin, Return, Route, Pcs, Phases,
         WorkerTypeOK
    <3>4. RecordTypeOK'
      BY <2>0, <2>12, GaugeType DEF Begin, ForgetAppMetrics, RecordTypeOK
    <3>5. ClusterTypeOK'
      BY <2>0, <2>12 DEF Begin, apiVars, cacheVars, ClusterTypeOK
    <3> QED
      BY <3>1, <3>2, <3>3, <3>4, <3>5 DEF TypeOK
  <2>13. CASE AddFinalizer
    <3>1. AppTypeOK'
      BY <2>0, <2>13, AbsentType, MarkedType DEF AddFinalizer, Return, AppTypeOK
    <3>2. FlagTypeOK'
      BY <2>0, <2>13 DEF AddFinalizer, Return, FlagTypeOK
    <3>3. WorkerTypeOK'
      BY <2>0, <2>13, ConstantsAssumption DEF AddFinalizer, Return, Pcs, Phases,
         WorkerTypeOK
    <3>4. ClusterTypeOK' /\ RecordTypeOK'
      BY <2>0, <2>13 DEF AddFinalizer, ClusterTypeOK, RecordTypeOK
    <3> QED
      BY <3>1, <3>2, <3>3, <3>4 DEF TypeOK
  <2>14. ASSUME NEW b \in BOOLEAN, HandleDeletion(b) PROVE TypeOK'
    <3>1. AppTypeOK'
      BY <2>0, <2>14, AbsentType, MarkedType DEF HandleDeletion, Return, AppTypeOK
    <3>2. FlagTypeOK'
      BY <2>0, <2>14 DEF HandleDeletion, Accepted, Return, FlagTypeOK
    <3>3. WorkerTypeOK'
      BY <2>0, <2>14, ConstantsAssumption DEF HandleDeletion, Return, Pcs, Phases,
         WorkerTypeOK
    <3>4. RecordTypeOK'
      BY <2>0, <2>14, ConstantsAssumption DEF HandleDeletion, Answered, Fault,
         RecordTypeOK
    <3>5. ClusterTypeOK'
      BY <2>0, <2>14 DEF HandleDeletion, ClusterTypeOK
    <3> QED
      BY <3>1, <3>2, <3>3, <3>4, <3>5 DEF TypeOK
  <2>15. ASSUME NEW b \in BOOLEAN, StepSucceeds(b) PROVE TypeOK'
    <3>1. ClusterTypeOK'
      BY <2>0, <2>15, ConstantsAssumption DEF StepSucceeds, WriteChild, Written,
         AppTypeOK, AppType, ClusterTypeOK
    <3>2. FlagTypeOK'
      BY <2>0, <2>15 DEF StepSucceeds, WriteChild, queueVars, FlagTypeOK
    <3>3. WorkerTypeOK'
      BY <2>0, <2>15 DEF StepSucceeds, After, Pcs, WorkerTypeOK
    <3>4. AppTypeOK' /\ RecordTypeOK'
      BY <2>0, <2>15 DEF StepSucceeds, AppTypeOK, RecordTypeOK
    <3> QED
      BY <3>1, <3>2, <3>3, <3>4 DEF TypeOK
  <2>16. CASE StepFails
    <3>1. ClusterTypeOK'
      BY <2>0, <2>16, ConstantsAssumption DEF StepFails, WriteChild, Written,
         AppTypeOK, AppType, ClusterTypeOK
    <3>2. FlagTypeOK'
      BY <2>0, <2>16 DEF StepFails, WriteChild, queueVars, FlagTypeOK
    <3>3. WorkerTypeOK'
      BY <2>0, <2>16 DEF StepFails, Pcs, WorkerTypeOK
    <3>4. RecordTypeOK'
      BY <2>0, <2>16, ConstantsAssumption DEF StepFails, Fault, RecordTypeOK
    <3>5. AppTypeOK'
      BY <2>0, <2>16 DEF StepFails, AppTypeOK
    <3> QED
      BY <3>1, <3>2, <3>3, <3>4, <3>5 DEF TypeOK
  <2>17. CASE ComputeStatus
    <3>1. AppTypeOK'
      BY <2>0, <2>17, AbsentType DEF ComputeStatus, Finish, Return, apiVars,
         cacheVars, AppTypeOK
    <3>2. FlagTypeOK'
      BY <2>0, <2>17 DEF ComputeStatus, Finish, Return, cacheVars, FlagTypeOK
    <3>3. WorkerTypeOK'
      BY <2>0, <2>17, ConstantsAssumption DEF ComputeStatus, ComputedPhase, Finish,
         Return, Pcs, Phases, WorkerTypeOK
    <3>4. ClusterTypeOK' /\ RecordTypeOK'
      BY <2>0, <2>17 DEF ComputeStatus, apiVars, cacheVars, ClusterTypeOK,
         RecordTypeOK
    <3> QED
      BY <3>1, <3>2, <3>3, <3>4 DEF TypeOK
  <2>18. ASSUME NEW b \in BOOLEAN, WriteStatus(b) PROVE TypeOK'
    <3>1. AppTypeOK'
      BY <2>0, <2>18, AbsentType, StatusType DEF WriteStatus, Finish, Return,
         AppTypeOK, WorkerTypeOK
    <3>2. FlagTypeOK'
      BY <2>0, <2>18 DEF WriteStatus, Finish, Return, FlagTypeOK
    <3>3. WorkerTypeOK'
      BY <2>0, <2>18, ConstantsAssumption DEF WriteStatus, Finish, Return, Pcs,
         Phases, WorkerTypeOK
    <3>4. RecordTypeOK'
      BY <2>0, <2>18, ConstantsAssumption DEF WriteStatus, Answered, Fault,
         AppTypeOK, AppType, RecordTypeOK
    <3>5. ClusterTypeOK'
      BY <2>0, <2>18 DEF WriteStatus, ClusterTypeOK
    <3> QED
      BY <3>1, <3>2, <3>3, <3>4, <3>5 DEF TypeOK
  <2>19. CASE StatusConflict
    <3>1. AppTypeOK'
      BY <2>0, <2>19, AbsentType DEF StatusConflict, Finish, Return, apiVars,
         cacheVars, AppTypeOK
    <3>2. FlagTypeOK'
      BY <2>0, <2>19 DEF StatusConflict, Finish, Return, cacheVars, FlagTypeOK
    <3>3. WorkerTypeOK'
      BY <2>0, <2>19, ConstantsAssumption DEF StatusConflict, MoreTries, Finish,
         Return, Pcs, Phases, WorkerTypeOK
    <3>4. ClusterTypeOK' /\ RecordTypeOK'
      BY <2>0, <2>19 DEF StatusConflict, apiVars, cacheVars, ClusterTypeOK,
         RecordTypeOK
    <3> QED
      BY <3>1, <3>2, <3>3, <3>4 DEF TypeOK
  <2>20. CASE CallFails
    <3>1. AppTypeOK'
      BY <2>0, <2>20, AbsentType DEF CallFails, Return, apiVars, cacheVars,
         AppTypeOK
    <3>2. FlagTypeOK'
      BY <2>0, <2>20 DEF CallFails, Return, cacheVars, FlagTypeOK
    <3>3. WorkerTypeOK'
      BY <2>0, <2>20, ConstantsAssumption DEF CallFails, Return, Pcs, Phases,
         WorkerTypeOK
    <3>4. RecordTypeOK'
      BY <2>0, <2>20, ConstantsAssumption DEF CallFails, Fault, RecordTypeOK
    <3>5. ClusterTypeOK'
      BY <2>0, <2>20 DEF CallFails, apiVars, cacheVars, ClusterTypeOK
    <3> QED
      BY <3>1, <3>2, <3>3, <3>4, <3>5 DEF TypeOK
  <2>21. CASE Requeue
    <3>1. AppTypeOK'
      BY <2>0, <2>21, AbsentType DEF Requeue, Return, apiVars, cacheVars, AppTypeOK
    <3>2. FlagTypeOK'
      BY <2>0, <2>21 DEF Requeue, Return, cacheVars, FlagTypeOK
    <3>3. WorkerTypeOK'
      BY <2>0, <2>21, ConstantsAssumption DEF Requeue, Return, Pcs, Phases,
         WorkerTypeOK
    <3>4. ClusterTypeOK' /\ RecordTypeOK'
      BY <2>0, <2>21 DEF Requeue, apiVars, cacheVars, ClusterTypeOK, RecordTypeOK
    <3> QED
      BY <3>1, <3>2, <3>3, <3>4 DEF TypeOK
  <2>22. CASE Restart
    <3>1. AppTypeOK'
      BY <2>0, <2>22, AbsentType DEF Restart, apiVars, AppTypeOK
    <3>2. ClusterTypeOK'
      BY <2>0, <2>22 DEF Restart, DeploymentNow, Exists, apiVars, ClusterTypeOK
    <3>3. FlagTypeOK'
      BY <2>0, <2>22 DEF Restart, FlagTypeOK
    <3>4. WorkerTypeOK'
      BY <2>0, <2>22, ConstantsAssumption DEF Restart, Pcs, Phases, WorkerTypeOK
    <3>5. RecordTypeOK'
      BY <2>0, <2>22, GaugeType, ConstantsAssumption DEF Restart, Fault,
         RecordTypeOK
    <3> QED
      BY <3>1, <3>2, <3>3, <3>4, <3>5 DEF TypeOK
  <2>23. CASE UNCHANGED vars
    BY <2>0, <2>23 DEF vars, apiVars, cacheVars, queueVars, workerVars, TypeOK,
       AppTypeOK, ClusterTypeOK, FlagTypeOK, WorkerTypeOK, RecordTypeOK
  <2> QED
    BY <2>0, <2>1, <2>2, <2>3, <2>4, <2>5, <2>6, <2>7, <2>8, <2>9, <2>10, <2>11,
       <2>12, <2>13, <2>14, <2>15, <2>16, <2>17, <2>18, <2>19, <2>20, <2>21,
       <2>22, <2>23 DEF Next, User, Cluster, Informers, Worker
<1> QED
  BY <1>1, <1>2, PTL DEF Spec

-----------------------------------------------------------------------------
(* The inductive invariant behind the safety of deletion and of pausing. Both
   rest on what the cache can be behind by: a copy the worker may still write
   back is the stored one, and neither the loss of the finalizer nor an
   acknowledged pause can overtake the cache. *)

(* An informer with nothing to deliver, and a copy that is still current, are
   in step with the API server. *)
CacheInStep == (~appEvent \/ held) => cached = app

(* What the worker is about to do with a current copy is what that copy asks
   for. *)
RouteInStep ==
  held => /\ pc = "addFinalizer" => Exists(cached)
          /\ pc = "handleDeletion" => cached.deleting

(* A cached copy that reconcileAll would run for belongs to an AppDefinition
   that exists and keeps its finalizer. *)
LiveOwner ==
  cached.fin /\ ~cached.deleting =>
    Exists(app) /\ app.fin /\ app.uid = cached.uid

FinalizerOwner == app.fin => Exists(app)

OwnerInv ==
  CacheInStep /\ RouteInStep /\ LiveOwner /\ FinalizerOwner /\ NoOrphans

(* The invariant holds initially and every step preserves it. *)
LEMMA OwnerInductive == Spec => []OwnerInv
<1> USE DEF OwnerInv, CacheInStep, RouteInStep, LiveOwner, FinalizerOwner,
      NoOrphans, Exists
<1>1. Init => OwnerInv
  BY DEF Init, Absent
<1>2. OwnerInv /\ TypeOK /\ [Next]_vars => OwnerInv'
  <2> SUFFICES ASSUME OwnerInv, TypeOK, [Next]_vars PROVE OwnerInv'
    OBVIOUS
  <2>0. AppTypeOK /\ FlagTypeOK
    BY DEF TypeOK
  <2>1. ASSUME NEW p \in BOOLEAN, NEW n \in ReplicaCounts, NEW f \in BOOLEAN,
               UserCreate(p, n, f)
        PROVE  OwnerInv'
    BY <2>1 DEF UserCreate, Store, Absent
  <2>2. ASSUME NEW p \in BOOLEAN, NEW n \in ReplicaCounts, UserEdit(p, n)
        PROVE  OwnerInv'
    BY <2>0, <2>2 DEF UserEdit, Store, AppTypeOK, AppType
  <2>3. CASE UserDelete
    BY <2>0, <2>3 DEF UserDelete, Store, Absent, AppTypeOK, AppType
  <2>4. CASE ReleaseForeign
    BY <2>0, <2>4 DEF ReleaseForeign, Store, Absent, AppTypeOK, AppType
  <2>5. CASE PodsSettle \/ PodLost
    BY <2>5 DEF PodsSettle, PodLost, workerVars
  <2>6. ASSUME NEW s \in Kinds, Drift(s) \/ GarbageCollect(s) PROVE OwnerInv'
    BY <2>6 DEF Drift, GarbageCollect, workerVars
  <2>7. CASE Informers
    BY <2>7 DEF Informers, DeliverApp, DeliverChild, TimerFires, apiVars,
       cacheVars, workerVars
  <2>8. CASE Begin
    BY <2>0, <2>8 DEF Begin, Route, Return, apiVars, cacheVars, AppTypeOK,
       AppType
  <2>9. CASE AddFinalizer
    BY <2>0, <2>9 DEF AddFinalizer, Accepted, Return, AppTypeOK, AppType
  <2>10. ASSUME NEW b \in BOOLEAN, HandleDeletion(b) PROVE OwnerInv'
    BY <2>0, <2>10 DEF HandleDeletion, Accepted, Return, Absent, AppTypeOK,
       AppType
  <2>11. CASE StepFails \/ \E b \in BOOLEAN : StepSucceeds(b)
    BY <2>11 DEF StepFails, StepSucceeds
  <2>12. CASE ComputeStatus
    BY <2>12 DEF ComputeStatus, Finish, Return, apiVars, cacheVars
  <2>13. ASSUME NEW b \in BOOLEAN, WriteStatus(b) PROVE OwnerInv'
    BY <2>0, <2>13 DEF WriteStatus, Accepted, Finish, Return, AppTypeOK,
       AppType
  <2>14. CASE StatusConflict
    BY <2>14 DEF StatusConflict, Finish, Return, apiVars, cacheVars
  <2>15. CASE CallFails \/ Requeue
    BY <2>15 DEF CallFails, Requeue, Return, apiVars, cacheVars
  <2>16. CASE Restart
    BY <2>16 DEF Restart, apiVars
  <2>17. CASE UNCHANGED vars
    BY <2>17 DEF vars, apiVars, cacheVars, workerVars
  <2> QED
    BY <2>1, <2>2, <2>3, <2>4, <2>5, <2>6, <2>7, <2>8, <2>9, <2>10, <2>11,
       <2>12, <2>13, <2>14, <2>15, <2>16, <2>17
       DEF Next, User, Cluster, Worker
<1> QED
  BY <1>1, <1>2, TypeCorrect, PTL DEF Spec

(* The worker never creates a child for an AppDefinition that is gone or has
   lost the operator's finalizer. *)
THEOREM NeverOrphans == Spec => []NoOrphans
<1>1. OwnerInv => NoOrphans
  BY DEF OwnerInv
<1> QED
  BY <1>1, OwnerInductive, PTL

-----------------------------------------------------------------------------

(* The status acknowledges that the stored generation is paused. *)
Acknowledged ==
  Exists(app) /\ app.paused /\ app.phase = "Paused" /\ app.obs = app.gen

(* An acknowledged pause is in the cache already, because the status write
   that made it was based on the cached copy; and no status runs ahead of the
   spec, so an edit always withdraws the acknowledgement. *)
PauseInv ==
  /\ Acknowledged => cached.paused
  /\ app.obs <= app.gen
  /\ PausedIsFrozen

(* Once a pause is acknowledged no reconcile step runs until the spec is
   edited again. *)
THEOREM PauseHolds == Spec => []PausedIsFrozen
<1> USE DEF PauseInv, Acknowledged, PausedIsFrozen, Exists
<1>1. Init => PauseInv
  BY DEF Init, Absent
<1>2. PauseInv /\ OwnerInv /\ TypeOK /\ [Next]_vars => PauseInv'
  <2> SUFFICES ASSUME PauseInv, OwnerInv, TypeOK, [Next]_vars PROVE PauseInv'
    OBVIOUS
  <2>0. AppTypeOK /\ CacheInStep
    BY DEF TypeOK, OwnerInv
  <2>1. ASSUME NEW p \in BOOLEAN, NEW n \in ReplicaCounts, NEW f \in BOOLEAN,
               UserCreate(p, n, f)
        PROVE  PauseInv'
    BY <2>1 DEF UserCreate, Store, Absent
  <2>2. ASSUME NEW p \in BOOLEAN, NEW n \in ReplicaCounts, UserEdit(p, n)
        PROVE  PauseInv'
    <3>1. app'.obs = app.obs /\ app'.gen = app.gen + 1
      BY <2>0, <2>2 DEF UserEdit, Store, AppTypeOK, AppType
    <3>2. app'.obs <= app'.gen /\ app'.obs # app'.gen
      BY <2>0, <3>1 DEF AppTypeOK, AppType
    <3> QED
      BY <3>2
  <2>3. CASE UserDelete
    BY <2>0, <2>3 DEF UserDelete, Store, Absent, AppTypeOK, AppType
  <2>4. CASE ReleaseForeign
    BY <2>0, <2>4 DEF ReleaseForeign, Store, Absent, AppTypeOK, AppType
  <2>5. CASE PodsSettle \/ PodLost
    BY <2>5 DEF PodsSettle, PodLost, workerVars
  <2>6. ASSUME NEW s \in Kinds, Drift(s) \/ GarbageCollect(s) PROVE PauseInv'
    BY <2>6 DEF Drift, GarbageCollect, workerVars
  <2>7. CASE Informers
    BY <2>7 DEF Informers, DeliverApp, DeliverChild, TimerFires, apiVars,
       cacheVars, workerVars
  <2>8. CASE Begin
    BY <2>8 DEF Begin, Route, Return, apiVars, cacheVars
  <2>9. CASE AddFinalizer
    BY <2>0, <2>9 DEF AddFinalizer, Return, AppTypeOK, AppType
  <2>10. ASSUME NEW b \in BOOLEAN, HandleDeletion(b) PROVE PauseInv'
    BY <2>0, <2>10 DEF HandleDeletion, Return, Absent, AppTypeOK, AppType
  <2>11. CASE StepFails \/ \E b \in BOOLEAN : StepSucceeds(b)
    BY <2>11 DEF StepFails, StepSucceeds
  <2>12. CASE ComputeStatus
    BY <2>12 DEF ComputeStatus, Finish, Return, apiVars, cacheVars
  <2>13. ASSUME NEW b \in BOOLEAN, WriteStatus(b) PROVE PauseInv'
    <3>1. cached = app /\ cached' = cached
      BY <2>0, <2>13 DEF WriteStatus, Accepted, CacheInStep
    <3>2. /\ app'.obs = app.gen /\ app'.gen = app.gen /\ app.gen <= app.gen
          /\ app'.paused = app.paused
      BY <2>0, <2>13 DEF WriteStatus, AppTypeOK, AppType
    <3>3. pc' # "reconcileAll"
      BY <2>13 DEF WriteStatus, Finish, Return
    <3> QED
      BY <3>1, <3>2, <3>3
  <2>14. CASE StatusConflict
    BY <2>14 DEF StatusConflict, Finish, Return, apiVars, cacheVars
  <2>15. CASE CallFails \/ Requeue
    BY <2>15 DEF CallFails, Requeue, Return, apiVars, cacheVars
  <2>16. CASE Restart
    BY <2>16 DEF Restart, apiVars
  <2>17. CASE UNCHANGED vars
    BY <2>17 DEF vars, apiVars, cacheVars, workerVars
  <2> QED
    BY <2>1, <2>2, <2>3, <2>4, <2>5, <2>6, <2>7, <2>8, <2>9, <2>10, <2>11,
       <2>12, <2>13, <2>14, <2>15, <2>16, <2>17
       DEF Next, User, Cluster, Worker
<1>3. PauseInv => PausedIsFrozen
  OBVIOUS
<1> QED
  BY <1>1, <1>2, <1>3, OwnerInductive, TypeCorrect, PTL DEF Spec

-----------------------------------------------------------------------------
(* The inductive invariant behind what the operator leaves when it falls
   silent. It follows a pass during which nothing was heard: whatever happens
   to the AppDefinition or to a child in the meantime has set an event, and
   the event has queued the key or will. *)

(* The worker's copy is an AppDefinition, the cached one unless there was
   news of it. *)
SnapCurrent == pc # "idle" => Exists(snap) /\ (~queued => snap = cached)

(* Only an app with its finalizer that is not being deleted gets as far as
   reconcileAll and its status, and only one that is neither paused nor
   failing as far as the decision whether to look again. *)
SnapRoute ==
  /\ pc \in {"reconcileAll", "updateStatus", "writeStatus", "requeue"}
       => snap.fin /\ ~snap.deleting
  /\ pc = "reconcileAll" => ~snap.paused
  /\ pc = "requeue" => ~snap.paused /\ ~failed

(* Without a pending event the cached Deployment is the stored one. *)
DeploymentSeen == ~childEvent => depSeen = DeploymentNow

(* The phase the worker holds is the one it would compute again. *)
PhaseCurrent ==
  pc \in {"writeStatus", "requeue"} /\ ~queued => phase = ComputedPhase

(* The gauges that tell of AppDefinition a. *)
GaugeOf(a) == [known |-> TRUE, ready |-> a.phase = "Available", gen |-> a.gen]

(* Before it decides whether to look again, the worker has written status and
   gauges, unless there is an event to come back for. *)
StatusWritten ==
  pc = "requeue" /\ ~queued /\ ~appEvent =>
    app.phase = phase /\ app.obs = app.gen /\ gauge = GaugeOf(app)

(* The worker rests with nothing scheduled only when the app is as it should
   be, or gone together with its gauges. *)
Rested ==
  pc = "idle" /\ ~queued /\ ~timer /\ ~appEvent =>
    IF Exists(app)
    THEN /\ ~app.deleting /\ app.fin /\ app.obs = app.gen /\ gauge = GaugeOf(app)
         /\ IF app.paused THEN app.phase = "Paused"
            ELSE app.phase = "Available" /\ depSeen.ready >= app.replicas
    ELSE gauge = NoGauge

(* The invariant behind SettledStatus and SettledMetrics. *)
RestInv ==
  /\ SnapCurrent /\ SnapRoute /\ DeploymentSeen /\ PhaseCurrent /\ StatusWritten
  /\ Rested

(* The children of the kinds in S were written from a. *)
WrittenFrom(a, S) == \A s \in S : child[s] = [uid |-> a.uid, gen |-> a.gen]

(* No event of the app or of a watched child is on its way. *)
NoNews == ~queued /\ ~appEvent /\ ~childEvent

(* The kinds reconcileAll has come past are written from the worker's copy,
   all of them once it has succeeded, and they are when the worker rests. *)
ChildrenInv ==
  NoNews =>
    /\ pc = "reconcileAll" => WrittenFrom(snap, Synced \ (After(step) \cup {step}))
    /\ pc \in {"updateStatus", "writeStatus", "requeue"} /\ ~failed /\ ~snap.paused
         => WrittenFrom(snap, Synced)
    /\ pc = "idle" /\ ~timer /\ Exists(app) /\ ~app.paused
         => WrittenFrom(app, Synced)

(* The Deployment is among the children. *)
LEMMA DeploymentIsKind == "deployment" \in Kinds /\ "deployment" \in Watched
BY ConstantsAssumption, StepsAssumption DEF Kinds, Watched

(* Writing a child sets an event if the Deployment appears. *)
LEMMA WriteSeen ==
  ASSUME TypeOK, DeploymentSeen, NEW s \in Active, WriteChild(s),
         UNCHANGED <<ready, depSeen>>
  PROVE  DeploymentSeen'
<1>1. CASE s = "deployment"
  <2>1. child'["deployment"] = Written("deployment")
    BY <1>1, DeploymentIsKind DEF WriteChild, TypeOK, ClusterTypeOK
  <2>2. ~childEvent' => ~childEvent /\ child'["deployment"] = child["deployment"]
    BY <1>1, <2>1, DeploymentIsKind DEF WriteChild
  <2> QED
    BY <2>2 DEF DeploymentSeen, DeploymentNow
<1>2. CASE s # "deployment"
  <2>1. child'["deployment"] = child["deployment"]
    BY <1>2, DeploymentIsKind DEF WriteChild, TypeOK, ClusterTypeOK
  <2>2. ~childEvent' => ~childEvent
    BY DEF WriteChild
  <2> QED
    BY <2>1, <2>2 DEF DeploymentSeen, DeploymentNow
<1> QED
  BY <1>1, <1>2

(* The invariant holds initially and every step preserves it. *)
LEMMA RestInductive == Spec => []RestInv
<1>1. Init => RestInv
  <2> SUFFICES ASSUME Init PROVE RestInv
    OBVIOUS
  <2>1. ~Exists(app) /\ ~Exists(child["deployment"])
    BY DeploymentIsKind DEF Init, Absent, NoChild, Exists
  <2>2. DeploymentSeen
    BY <2>1 DEF Init, DeploymentSeen, DeploymentNow, Exists
  <2> QED
    BY <2>1, <2>2 DEF Init, RestInv, SnapCurrent, SnapRoute, PhaseCurrent,
       StatusWritten, Rested
<1>2. RestInv /\ OwnerInv /\ TypeOK /\ [Next]_vars => RestInv'
  <2> SUFFICES ASSUME RestInv, OwnerInv, TypeOK, [Next]_vars PROVE RestInv'
    OBVIOUS
  <2>0. AppTypeOK /\ FlagTypeOK /\ CacheInStep /\ step \in Active
    BY DEF TypeOK, OwnerInv, WorkerTypeOK
  <2> USE DEF RestInv, SnapCurrent, SnapRoute, PhaseCurrent, StatusWritten, Rested
  <2>1. ASSUME NEW a, Store(a),
               UNCHANGED <<child, ready, cached, depSeen, childEvent, queued,
                           timer, pc, snap, failed, phase>>
        PROVE  RestInv'
    BY <2>1 DEF Store, DeploymentSeen, DeploymentNow, ComputedPhase
  <2>2. ASSUME NEW p \in BOOLEAN, NEW n \in ReplicaCounts, NEW f \in BOOLEAN,
               UserCreate(p, n, f)
        PROVE  RestInv'
    BY <2>1, <2>2 DEF UserCreate, queueVars
  <2>3. ASSUME NEW p \in BOOLEAN, NEW n \in ReplicaCounts, UserEdit(p, n)
        PROVE  RestInv'
    BY <2>1, <2>3 DEF UserEdit, queueVars
  <2>4. CASE UserDelete \/ ReleaseForeign
    BY <2>1, <2>4 DEF UserDelete, ReleaseForeign, queueVars
  <2>5. CASE PodsSettle \/ PodLost
    BY <2>5 DEF PodsSettle, PodLost, queueVars, workerVars, DeploymentSeen,
       ComputedPhase
  <2>6. ASSUME NEW s \in Kinds, Drift(s) \/ GarbageCollect(s) PROVE RestInv'
    <3>1. DeploymentSeen'
      <4>1. CASE s = "deployment"
        BY <2>6, <4>1, DeploymentIsKind DEF Drift, GarbageCollect, DeploymentSeen
      <4>2. CASE s # "deployment"
        <5>1. child'["deployment"] = child["deployment"]
          BY <2>6, <4>2, DeploymentIsKind DEF Drift, GarbageCollect, TypeOK,
             ClusterTypeOK
        <5> QED
          BY <2>6, <4>2, <5>1 DEF Drift, GarbageCollect, DeploymentSeen,
             DeploymentNow
      <4> QED
        BY <4>1, <4>2
    <3> QED
      BY <2>6, <3>1 DEF Drift, GarbageCollect, queueVars, workerVars,
         ComputedPhase
  <2>7. CASE DeliverApp
    BY <2>7 DEF DeliverApp, apiVars, workerVars, DeploymentSeen, DeploymentNow
  <2>8. CASE DeliverChild
    BY <2>8 DEF DeliverChild, apiVars, workerVars, DeploymentSeen, DeploymentNow
  <2>9. CASE TimerFires
    BY <2>9 DEF TimerFires, apiVars, cacheVars, workerVars, DeploymentSeen,
       DeploymentNow
  <2>10. CASE Restart
    <3>1. DeploymentSeen'
      BY <2>10 DEF Restart, apiVars, DeploymentSeen, DeploymentNow
    <3>2. ~queued' => ~Exists(app)
      BY <2>10 DEF Restart
    <3> QED
      BY <2>10, <3>1, <3>2 DEF Restart, apiVars, Exists
  <2>11. ASSUME UNCHANGED <<child, ready, depSeen, childEvent>>
         PROVE  DeploymentSeen'
    BY <2>11 DEF DeploymentSeen, DeploymentNow
  <2>12. CASE Begin
    <3>1. CASE Exists(cached)
      BY <2>0, <2>11, <2>12, <3>1 DEF Begin, Route, apiVars, cacheVars, AppTypeOK,
         AppType
    <3>2. CASE ~Exists(cached)
      <4>1. ~appEvent => ~Exists(app)
        BY <2>0, <3>2 DEF CacheInStep
      <4> QED
        BY <2>11, <2>12, <3>2, <4>1 DEF Begin, Return, ForgetAppMetrics, apiVars,
           cacheVars, Exists
    <3> QED
      BY <3>1, <3>2
  <2>13. CASE AddFinalizer
    BY <2>11, <2>13 DEF AddFinalizer, Return
  <2>14. ASSUME NEW b \in BOOLEAN, HandleDeletion(b) PROVE RestInv'
    BY <2>11, <2>14 DEF HandleDeletion, Return
  <2>15. ASSUME NEW b \in BOOLEAN, StepSucceeds(b) PROVE RestInv'
    <3>1. DeploymentSeen'
      BY <2>0, <2>15, WriteSeen DEF StepSucceeds
    <3> QED
      BY <2>15, <3>1 DEF StepSucceeds, queueVars
  <2>16. CASE StepFails
    <3>1. DeploymentSeen'
      BY <2>0, <2>11, <2>16, WriteSeen DEF StepFails
    <3> QED
      BY <2>16, <3>1 DEF StepFails, queueVars
  <2>17. CASE ComputeStatus
    <3>1. CASE Exists(cached)
      BY <2>11, <2>17, <3>1 DEF ComputeStatus, ComputedPhase, apiVars, cacheVars
    <3>2. CASE ~Exists(cached)
      BY <2>11, <2>17, <3>2 DEF ComputeStatus, Finish, Return, apiVars, cacheVars
    <3> QED
      BY <3>1, <3>2
  <2>18. ASSUME NEW b \in BOOLEAN, WriteStatus(b) PROVE RestInv'
    <3> DEFINE new == [app EXCEPT !.phase = phase, !.obs = app.gen]
    <3>0. DeploymentSeen'
      BY <2>11, <2>18 DEF WriteStatus
    <3>1. /\ pc = "writeStatus" /\ cached = app /\ app' = new
          /\ appEvent' = (appEvent \/ new # app)
          /\ new.phase = phase /\ new.obs = new.gen /\ new.gen = app.gen
          /\ UNCHANGED <<cached, depSeen, queued>>
      BY <2>0, <2>18 DEF WriteStatus, Accepted, CacheInStep, AppTypeOK, AppType
    <3>2. CASE b \/ failed
      BY <2>18, <3>0, <3>2 DEF WriteStatus, Finish, Return
    <3>3. CASE ~b /\ ~failed
      <4>1. gauge' = GaugeOf(app')
        BY <2>18, <3>1, <3>3 DEF WriteStatus, GaugeOf
      <4>2. ~queued => snap = app /\ phase = ComputedPhase /\ Exists(app)
        BY <3>1
      <4>3. CASE snap.paused
        <5>1. pc' = "idle" /\ timer' = timer
          BY <2>0, <2>18, <3>3, <4>3 DEF WriteStatus, Finish, Return, FlagTypeOK
        <5>2. ~queued => phase = "Paused"
          BY <4>2, <4>3 DEF ComputedPhase
        <5>3. ~queued' /\ ~appEvent' => app' = app
          BY <3>1
        <5>4. Rested'
          BY <3>1, <4>1, <4>2, <4>3, <5>1, <5>2, <5>3
        <5> QED
          BY <3>0, <5>1, <5>4
      <4>4. CASE ~snap.paused /\ pending
        BY <2>18, <3>0, <3>3, <4>4 DEF WriteStatus, Finish, Return
      <4>5. CASE ~snap.paused /\ ~pending
        <5>1. /\ pc' = "requeue"
              /\ UNCHANGED <<snap, failed, phase, depSeen>>
          BY <2>18, <3>3, <4>5 DEF WriteStatus, Finish
        <5>2. PhaseCurrent'
          BY <3>1, <5>1 DEF ComputedPhase
        <5>3. StatusWritten'
          BY <3>1, <4>1, <5>1
        <5> QED
          BY <3>0, <3>1, <3>3, <4>5, <5>1, <5>2, <5>3
      <4> QED
        BY <4>3, <4>4, <4>5
    <3> QED
      BY <3>2, <3>3
  <2>19. CASE StatusConflict
    <3>1. CASE Exists(app) /\ MoreTries
      BY <2>11, <2>19, <3>1 DEF StatusConflict, apiVars, cacheVars
    <3>2. CASE ~(Exists(app) /\ MoreTries)
      BY <2>11, <2>19, <3>2 DEF StatusConflict, Finish, Return, apiVars, cacheVars
    <3> QED
      BY <3>1, <3>2
  <2>20. CASE CallFails
    BY <2>11, <2>20 DEF CallFails, Return, apiVars, cacheVars
  <2>21. CASE Requeue
    <3>1. /\ pc' = "idle" /\ timer' = (timer \/ LookAgain)
          /\ UNCHANGED <<app, queued, appEvent, gauge, depSeen>>
      BY <2>21 DEF Requeue, Return, apiVars, cacheVars
    <3>2. ASSUME ~queued, ~appEvent, ~timer'
          PROVE  /\ Exists(app) /\ ~app.deleting /\ app.fin /\ app.obs = app.gen
                 /\ gauge = GaugeOf(app) /\ ~app.paused
                 /\ app.phase = "Available" /\ depSeen.ready >= app.replicas
      <4>1. snap = app /\ cached = app /\ Exists(app) /\ pc = "requeue"
        BY <2>0, <2>21, <3>2 DEF CacheInStep, Requeue
      <4>2. app.phase = "Available" /\ phase = ComputedPhase /\ app.phase = phase
        BY <3>1, <3>2, <4>1 DEF LookAgain
      <4>3. depSeen.ready >= app.replicas
        BY <4>1, <4>2 DEF ComputedPhase
      <4> QED
        BY <3>2, <4>1, <4>2, <4>3
    <3>3. Rested'
      BY <3>1, <3>2 DEF Exists, GaugeOf
    <3>4. DeploymentSeen'
      BY <2>11, <2>21 DEF Requeue, apiVars, cacheVars
    <3> QED
      BY <3>1, <3>3, <3>4
  <2>22. CASE UNCHANGED vars
    BY <2>11, <2>22 DEF vars, apiVars, cacheVars, queueVars, workerVars,
       ComputedPhase
  <2> QED
    BY <2>2, <2>3, <2>4, <2>5, <2>6, <2>7, <2>8, <2>9, <2>10, <2>12, <2>13,
       <2>14, <2>15, <2>16, <2>17, <2>18, <2>19, <2>20, <2>21, <2>22
       DEF Next, User, Cluster, Informers, Worker
<1> QED
  BY <1>1, <1>2, OwnerInductive, TypeCorrect, PTL DEF Spec

(* Whenever the operator falls silent the stored status is right for the
   stored generation, and the app is not half deleted: no wakeup is lost. *)
THEOREM StatusSettles == Spec => []SettledStatus
<1>1. RestInv => SettledStatus
  <2> SUFFICES ASSUME RestInv, Quiescent, Exists(app)
               PROVE  /\ ~app.deleting /\ app.fin /\ app.obs = app.gen
                      /\ IF app.paused THEN app.phase = "Paused"
                         ELSE app.phase = "Available" /\ ready >= app.replicas
    BY DEF SettledStatus
  <2>1. depSeen.ready = ready
    BY DEF RestInv, Quiescent, DeploymentSeen, DeploymentNow
  <2> QED
    BY <2>1 DEF RestInv, Quiescent, Rested
<1> QED
  BY <1>1, RestInductive, PTL

(* Whenever the operator falls silent the gauges agree with the stored status,
   and an app that is gone has none, also after a restart or a lost answer. *)
THEOREM MetricsSettle == Spec => []SettledMetrics
<1>1. RestInv => SettledMetrics
  BY DEF RestInv, Rested, SettledMetrics, Quiescent, GaugeOf
<1> QED
  BY <1>1, RestInductive, PTL

-----------------------------------------------------------------------------

(* No two steps of reconcileAll have the same place. *)
LEMMA PlacesDiffer ==
  ASSUME NEW t \in Steps, NEW u \in Steps
  PROVE  Place[t] \in Nat /\ (Place[t] = Place[u] => t = u)
BY DEF Steps, Place

(* What is neither the first step of S nor after it is not in S. *)
LEMMA NothingBeforeFirst ==
  ASSUME NEW S \in SUBSET Active, NEW t, IsFirst(t, S)
  PROVE  S \subseteq After(t) \cup {t}
<1> SUFFICES ASSUME NEW u \in S, u # t PROVE u \in After(t)
  OBVIOUS
<1>1. t \in Steps /\ u \in Steps /\ u \in Active /\ Place[t] <= Place[u]
  BY StepsAssumption DEF IsFirst
<1>2. Place[t] # Place[u] /\ Place[t] \in Nat /\ Place[u] \in Nat
  BY <1>1, PlacesDiffer
<1> QED
  BY <1>1, <1>2 DEF After

(* A step that succeeds writes its child from the worker's copy and leaves the
   others as they are. *)
LEMMA StepWrites ==
  ASSUME TypeOK, NEW b \in BOOLEAN, StepSucceeds(b), NEW s \in Synced,
         s = step \/ child[s] = [uid |-> snap.uid, gen |-> snap.gen]
  PROVE  child'[s] = [uid |-> snap.uid, gen |-> snap.gen]
<1>0. s \in Kinds /\ s # "secret_store"
  BY DEF Synced
<1>1. CASE s = step
  BY <1>0, <1>1 DEF StepSucceeds, WriteChild, Written, TypeOK, ClusterTypeOK
<1>2. CASE s # step
  BY <1>0, <1>2 DEF StepSucceeds, WriteChild, TypeOK, ClusterTypeOK
<1> QED
  BY <1>1, <1>2

(* The garbage collector does not touch the children of the stored
   incarnation. *)
LEMMA CollectsOthers ==
  ASSUME TypeOK, NEW s \in Kinds, GarbageCollect(s),
         NEW t \in Synced, child[t].uid = app.uid
  PROVE  child'[t] = child[t]
<1>1. t # s /\ t \in Kinds
  BY DEF GarbageCollect, Synced
<1> QED
  BY <1>1 DEF GarbageCollect, TypeOK, ClusterTypeOK

(* Every step preserves the invariant, as long as only children that are
   watched are tampered with. *)
LEMMA ChildrenStep ==
  ASSUME Drifting \subseteq Watched
  PROVE  ChildrenInv /\ RestInv /\ OwnerInv /\ TypeOK /\ [Next]_vars => ChildrenInv'
<1> SUFFICES ASSUME ChildrenInv, RestInv, OwnerInv, TypeOK, [Next]_vars, NoNews'
             PROVE  ChildrenInv'
  BY DEF ChildrenInv
<1>0. FlagTypeOK /\ CacheInStep /\ NoOrphans /\ step \in Active
  BY DEF TypeOK, OwnerInv, WorkerTypeOK
<1> USE DEF NoNews
<1>1. CASE User \/ ReleaseForeign
  BY <1>1 DEF User, UserCreate, UserEdit, UserDelete, ReleaseForeign, Store
<1>2. CASE PodsSettle \/ PodLost \/ Informers
  BY <1>2 DEF PodsSettle, PodLost, Informers, DeliverApp, DeliverChild, TimerFires
<1>3. ASSUME NEW s \in Kinds, s \in Drifting, Drift(s) PROVE ChildrenInv'
  BY <1>3 DEF Drift
<1>4. ASSUME NEW s \in Kinds, GarbageCollect(s) PROVE ChildrenInv'
  <2>0. /\ UNCHANGED <<app, snap, step, pc, failed, timer>>
        /\ ~queued /\ ~appEvent /\ ~childEvent
    BY <1>4 DEF GarbageCollect, queueVars, workerVars
  <2>1. ASSUME NEW t \in Synced, NEW a,
               a.uid = app.uid, child[t] = [uid |-> a.uid, gen |-> a.gen]
        PROVE  child'[t] = [uid |-> a.uid, gen |-> a.gen]
    <3>1. child[t].uid = app.uid
      BY <2>1
    <3> QED
      BY <1>4, <2>1, <3>1, CollectsOthers
  <2>2. CASE pc = "reconcileAll"
    <3>1. app.uid = snap.uid
      BY <1>0, <2>2 DEF NoOrphans
    <3>2. \A t \in Synced \ (After(step) \cup {step}) :
            child'[t] = [uid |-> snap.uid, gen |-> snap.gen]
      BY <2>0, <2>1, <2>2, <3>1 DEF ChildrenInv, WrittenFrom
    <3> QED
      BY <2>0, <2>2, <3>2 DEF ChildrenInv, WrittenFrom, After
  <2>3. CASE pc \in {"updateStatus", "writeStatus", "requeue"}
    <3>1. snap = app
      BY <1>0, <2>0, <2>3 DEF RestInv, SnapCurrent, CacheInStep
    <3> QED
      BY <2>0, <2>1, <2>3, <3>1 DEF ChildrenInv, WrittenFrom
  <2>4. CASE pc = "idle"
    BY <2>0, <2>1, <2>4 DEF ChildrenInv, WrittenFrom
  <2> QED
    BY <2>0, <2>2, <2>3, <2>4 DEF ChildrenInv
<1>5. CASE Begin
  <2>1. CASE Exists(cached)
    <3>1. snap' = cached /\ pc' = Route(cached) /\ IsFirst(step', Active)
      BY <1>5, <2>1 DEF Begin
    <3>2. Active \subseteq After(step') \cup {step'}
      BY <3>1, NothingBeforeFirst
    <3>3. pc' = "updateStatus" => snap'.paused
      BY <3>1 DEF Route
    <3>4. pc' \in {"addFinalizer", "handleDeletion", "reconcileAll", "updateStatus"}
      BY <3>1 DEF Route
    <3>5. Synced \ (After(step') \cup {step'}) = {}
      BY <3>2 DEF Synced, Kinds
    <3> QED
      BY <3>3, <3>4, <3>5 DEF ChildrenInv, WrittenFrom, After
  <2>2. CASE ~Exists(cached)
    <3>1. pc' = "idle" /\ app' = app /\ ~appEvent
      BY <1>5, <2>2 DEF Begin, Return, apiVars, cacheVars
    <3>2. ~Exists(app)'
      BY <1>0, <2>2, <3>1 DEF CacheInStep, Exists
    <3> QED
      BY <3>1, <3>2 DEF ChildrenInv
  <2> QED
    BY <2>1, <2>2
<1>6. CASE AddFinalizer \/ CallFails
  BY <1>6 DEF AddFinalizer, CallFails, Return, ChildrenInv
<1>7. ASSUME NEW b \in BOOLEAN, HandleDeletion(b) PROVE ChildrenInv'
  BY <1>7 DEF HandleDeletion, Return, ChildrenInv
<1>8. ASSUME NEW b \in BOOLEAN, StepSucceeds(b) PROVE ChildrenInv'
  <2>0. /\ pc = "reconcileAll" /\ snap' = snap
        /\ ~queued /\ ~appEvent /\ ~childEvent
    BY <1>8 DEF StepSucceeds, queueVars, WriteChild
  <2>1. \A s \in Synced \ After(step) :
          child'[s] = [uid |-> snap.uid, gen |-> snap.gen]
    BY <1>8, <2>0, StepWrites DEF ChildrenInv, WrittenFrom
  <2>2. CASE After(step) = {}
    BY <1>8, <2>0, <2>1, <2>2 DEF StepSucceeds, ChildrenInv, WrittenFrom
  <2>3. CASE After(step) # {}
    <3>1. pc' = "reconcileAll" /\ IsFirst(step', After(step))
      BY <1>8, <2>0, <2>3 DEF StepSucceeds
    <3>2. After(step) \subseteq After(step') \cup {step'}
      BY <3>1, NothingBeforeFirst DEF After
    <3>3. \A s \in Synced \ (After(step') \cup {step'}) :
            child'[s] = [uid |-> snap'.uid, gen |-> snap'.gen]
      BY <2>0, <2>1, <3>2
    <3> QED
      BY <3>1, <3>3 DEF ChildrenInv, WrittenFrom, After
  <2> QED
    BY <2>2, <2>3
<1>9. CASE StepFails
  BY <1>9 DEF StepFails, ChildrenInv
<1>10. CASE ComputeStatus
  BY <1>10 DEF ComputeStatus, Finish, Return, ChildrenInv, WrittenFrom, apiVars,
     cacheVars
<1>11. ASSUME NEW b \in BOOLEAN, WriteStatus(b) PROVE ChildrenInv'
  <2>0. /\ pc = "writeStatus" /\ ~queued /\ ~appEvent /\ ~childEvent
        /\ app' = app /\ child' = child
    BY <1>11 DEF WriteStatus
  <2>1. snap = app
    BY <1>0, <2>0 DEF RestInv, SnapCurrent, CacheInStep
  <2>2. CASE pc' = "idle"
    BY <1>11, <2>0, <2>1, <2>2 DEF WriteStatus, Finish, Return, ChildrenInv
  <2>3. CASE pc' = "requeue" /\ UNCHANGED <<snap, failed>>
    BY <2>0, <2>3 DEF ChildrenInv, WrittenFrom
  <2> QED
    BY <1>11, <2>2, <2>3 DEF WriteStatus, Finish, Return
<1>12. CASE StatusConflict
  BY <1>12 DEF StatusConflict, Finish, Return, ChildrenInv, WrittenFrom, apiVars,
     cacheVars
<1>13. CASE Requeue
  <2>1. /\ pc = "requeue" /\ pc' = "idle" /\ UNCHANGED <<app, child>>
        /\ ~queued /\ ~appEvent /\ ~childEvent
    BY <1>13 DEF Requeue, Return, apiVars, cacheVars
  <2>2. snap = app /\ ~failed /\ ~snap.paused
    BY <1>0, <2>1 DEF RestInv, SnapCurrent, SnapRoute, CacheInStep
  <2> QED
    BY <2>1, <2>2 DEF ChildrenInv, WrittenFrom
<1>14. CASE Restart
  BY <1>14 DEF Restart, ChildrenInv, apiVars, Exists
<1>15. CASE UNCHANGED vars
  BY <1>15 DEF vars, apiVars, cacheVars, queueVars, workerVars, ChildrenInv,
     WrittenFrom, After, Exists
<1> QED
  BY <1>1, <1>2, <1>3, <1>4, <1>5, <1>6, <1>7, <1>8, <1>9, <1>10, <1>11, <1>12,
     <1>13, <1>14, <1>15 DEF Next, Cluster, Worker

(* Whenever the operator falls silent every child it synchronises was written
   from the stored generation of the stored incarnation, for any set of active
   steps, provided that only children of the kinds SetupWithManager watches
   are tampered with: of a ServiceMonitor or a Middleware it would not hear. *)
THEOREM ChildrenSettle ==
  ASSUME Drifting \subseteq Watched
  PROVE  Spec => []SettledChildren
<1>1. Init => ChildrenInv
  BY DEF Init, ChildrenInv, Absent, Exists
<1>2. ChildrenInv /\ RestInv /\ OwnerInv /\ TypeOK /\ [Next]_vars => ChildrenInv'
  BY ChildrenStep
<1>3. ChildrenInv => SettledChildren
  BY DEF ChildrenInv, NoNews, WrittenFrom, SettledChildren, Quiescent
<1> QED
  BY <1>1, <1>2, <1>3, RestInductive, OwnerInductive, TypeCorrect, PTL DEF Spec
=============================================================================
