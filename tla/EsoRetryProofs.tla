--------------------------- MODULE EsoRetryProofs ---------------------------
(***************************************************************************)
(* Proofs that EsoRetry keeps its types, that the store is not nudged too  *)
(* often, and that nobody goes to sleep while something is not Ready.      *)
(*                                                                         *)
(* The annotation revalidate-at is the operator's only memory of the last  *)
(* nudge.  GapKept says how well it remembers: its age is less than a      *)
(* second more than the time that has really passed, and it is gone only   *)
(* if the store is a new one.  ReadyInv says of every app why it may rest: *)
(* all it needs is Ready, or its timer is set, or an event is to come.     *)
(***************************************************************************)
EXTENDS EsoRetry, FiniteSetTheorems, SequenceTheorems, TLAPS

(* How well the annotation remembers the last nudge. *)
GapKept ==
  IF stamp["store"] = Never THEN gap = Interval
                            ELSE stamp["store"] - gap < Second

ObjType == [exists : BOOLEAN, known : BOOLEAN, ready : BOOLEAN]

(* SetToSeq lists the members of a finite set, each of them once. *)
LEMMA SetToSeqLists ==
  ASSUME NEW S, IsFiniteSet(S)
  PROVE  SetToSeq(S) \in Seq(S) /\ IsInjective(SetToSeq(S))
<1>1. Cardinality(S) \in Nat /\ ExistsBijection(1..Cardinality(S), S)
  BY FS_CardinalityType
<1>2. \E f \in [1..Cardinality(S) -> S] : IsInjective(f)
  BY <1>1 DEF ExistsBijection, Bijection, Injection
<1>3. /\ SetToSeq(S) \in [1..Cardinality(S) -> S]
      /\ IsInjective(SetToSeq(S))
  BY <1>2 DEF SetToSeq
<1> QED
  BY <1>1, <1>3, SeqDef

(* Adding keys leaves a queue in which no key appears twice. *)
LEMMA EnqueueKeeps ==
  ASSUME queue \in Seq(Apps), IsInjective(queue), NEW S \in SUBSET Apps
  PROVE  Enqueue(S) \in Seq(Apps) /\ IsInjective(Enqueue(S))
<1> DEFINE new == S \ ToSet(queue)
           t == SetToSeq(new)
<1>1. IsFiniteSet(new)
  BY FS_Subset, ConstantsAssumption
<1>2. t \in Seq(new) /\ IsInjective(t)
  BY <1>1, SetToSeqLists
<1>3. t \in Seq(Apps)
  BY <1>2, SeqMonotonic
<1> HIDE DEF t
<1>4. /\ queue \o t \in Seq(Apps)
      /\ Len(queue \o t) = Len(queue) + Len(t)
      /\ \A i \in 1..(Len(queue) + Len(t)) :
           (queue \o t)[i] = IF i <= Len(queue) THEN queue[i]
                                                ELSE t[i - Len(queue)]
  BY <1>3, ConcatProperties
<1>5. \A i \in 1..Len(queue), j \in 1..Len(t) : queue[i] # t[j]
  BY <1>2, ElementOfSeq DEF ToSet
<1>6. Len(queue) \in Nat /\ Len(t) \in Nat /\ DOMAIN queue = 1..Len(queue)
      /\ DOMAIN t = 1..Len(t) /\ DOMAIN (queue \o t) = 1..(Len(queue) + Len(t))
  BY <1>3, <1>4
<1>7. ASSUME NEW i \in 1..(Len(queue) + Len(t)), NEW j \in 1..(Len(queue) + Len(t)),
             (queue \o t)[i] = (queue \o t)[j]
      PROVE  i = j
  <2>1. CASE i <= Len(queue) /\ j <= Len(queue)
    <3>1. queue[i] = queue[j] /\ i \in 1..Len(queue) /\ j \in 1..Len(queue)
      BY <2>1, <1>4, <1>6, <1>7
    <3> QED
      BY <3>1, <1>6 DEF IsInjective
  <2>2. CASE i > Len(queue) /\ j > Len(queue)
    <3>1. t[i - Len(queue)] = t[j - Len(queue)]
          /\ i - Len(queue) \in 1..Len(t) /\ j - Len(queue) \in 1..Len(t)
      BY <2>2, <1>4, <1>6, <1>7
    <3>2. i - Len(queue) = j - Len(queue)
      BY <3>1, <1>2, <1>6 DEF IsInjective
    <3> QED
      BY <3>2, <1>6
  <2>3. CASE i <= Len(queue) /\ j > Len(queue)
    BY <2>3, <1>4, <1>5, <1>6, <1>7
  <2>4. CASE i > Len(queue) /\ j <= Len(queue)
    <3>1. i - Len(queue) \in 1..Len(t) /\ j \in 1..Len(queue)
          /\ queue[j] = t[i - Len(queue)]
      BY <2>4, <1>4, <1>6, <1>7
    <3> QED
      BY <3>1, <1>5
  <2> QED
    BY <2>1, <2>2, <2>3, <2>4, <1>6
<1>8. IsInjective(queue \o t)
  BY <1>6, <1>7 DEF IsInjective
<1> QED
  BY <1>4, <1>8 DEF Enqueue, t

(* The parts of the invariant: what is seen and reported of the objects, the
   times, the queue, and where the worker is. *)
SeenOK ==
  /\ granted \in BOOLEAN /\ sa \in BOOLEAN /\ saSeen \in BOOLEAN
  /\ saGone \in BOOLEAN /\ pending \in BOOLEAN
(* The parts of TypeOK. *)
ObjOK == obj \in [Objects -> ObjType] /\ poked \in [Objects -> BOOLEAN]
TimeOK ==
  /\ stamp \in [Objects -> 0..Never] /\ gap \in 0..Interval
  /\ timer \in [Apps -> 0..Interval]
  /\ frac \in 0..(Second - 1) /\ faults \in 0..MaxFaults
QueueOK == queue \in Seq(Apps) /\ IsInjective(queue)
WorkOK ==
  /\ pc \in {"idle", "ensureServiceAccount", "secretStore", "externalSecrets",
             "retryStore", "retryEs", "finish"}
  /\ cur \in Apps

(* Nothing else is in TypeOK. *)
LEMMA TypeParts == TypeOK <=> SeenOK /\ ObjOK /\ TimeOK /\ QueueOK /\ WorkOK
BY DEF TypeOK, SeenOK, ObjOK, TimeOK, QueueOK, WorkOK, ObjType

(* The constants as the arithmetic below needs them. *)
LEMMA Constants ==
  /\ Interval \in Nat /\ Second \in Nat /\ Second >= 1 /\ Interval >= Second
  /\ MaxFaults \in Nat /\ Never = Interval + 1 /\ Off = 0
  /\ "store" \in Objects /\ Apps \subseteq Objects /\ "store" \notin Apps
  /\ \A o \in Objects : Dependents(o) \in SUBSET Apps
  /\ Missing \in ObjType /\ Fresh \in ObjType /\ NoApp \in Apps
<1>1. Missing \in ObjType /\ Fresh \in ObjType
  BY DEF Missing, Fresh, ObjType
<1>2. /\ "store" \in Objects /\ Apps \subseteq Objects
      /\ \A o \in Objects : Dependents(o) \in SUBSET Apps
  BY DEF Objects, Dependents
<1>3. NoApp \in Apps
  BY ConstantsAssumption DEF NoApp
<1> QED
  BY <1>1, <1>2, <1>3, ConstantsAssumption DEF Never, Off

(* Init establishes it. *)
LEMMA InitInv == Init => TypeOK /\ GapKept
<1> SUFFICES ASSUME Init PROVE TypeOK /\ GapKept
  OBVIOUS
<1> USE DEF Init
<1>1. SeenOK /\ ObjOK
  BY Constants DEF SeenOK, ObjOK, ObjType
<1>2. TimeOK /\ GapKept
  BY Constants DEF TimeOK, GapKept
<1>3. queue \in Seq(Apps) /\ IsInjective(queue)
  BY SetToSeqLists, ConstantsAssumption
<1>4. cur \in Apps
  BY Constants
<1> QED
  BY <1>1, <1>2, <1>3, <1>4, TypeParts DEF QueueOK, WorkOK

(* The actions of Next, one by one. *)
Steps ==
  \/ Begin \/ EnsureServiceAccount \/ ReconcileSecretStore
  \/ ReconcileExternalSecret \/ RetryStore \/ RetryEs \/ Finish
  \/ PassFails \/ Tick \/ VaultChange
  \/ DeleteServiceAccount \/ DeliverServiceAccount
  \/ \E o \in Objects : EsoReconcile(o)
  \/ \E o \in Objects : Delete(o)
  \/ \E a \in Apps : OtherEvent(a)
  \/ UNCHANGED vars

(* The cases of Next, spelt out. *)
LEMMA NextIsSteps == [Next]_vars => Steps
BY DEF Next, Worker, Steps

(* The queue holds apps, and none of them twice. *)
LEMMA QueueStep == TypeOK /\ Steps => QueueOK'
<1> SUFFICES ASSUME TypeOK, Steps PROVE QueueOK'
  OBVIOUS
<1> USE DEF QueueOK
<1>1. QueueOK /\ cur \in Apps
  BY TypeParts DEF WorkOK
<1>2. \A S \in SUBSET Apps : queue' = Enqueue(S) => QueueOK'
  BY <1>1, EnqueueKeeps
<1>3. queue' = queue => QueueOK'
  BY <1>1
<1>4. CASE Begin
  <2>1. queue \in Seq(Apps) /\ queue # <<>> /\ queue' = Tail(queue)
    BY <1>1, <1>4 DEF Begin
  <2>2. /\ Tail(queue) \in Seq(Apps) /\ Len(Tail(queue)) = Len(queue) - 1
        /\ \A i \in 1..Len(Tail(queue)) : Tail(queue)[i] = queue[i + 1]
    BY <2>1, HeadTailProperties
  <2>3. IsInjective(Tail(queue))
    <3> SUFFICES ASSUME NEW i \in 1..Len(Tail(queue)), NEW j \in 1..Len(Tail(queue)),
                        Tail(queue)[i] = Tail(queue)[j]
                 PROVE  i = j
      BY <2>2 DEF IsInjective
    <3>1. queue[i + 1] = queue[j + 1]
          /\ i + 1 \in 1..Len(queue) /\ j + 1 \in 1..Len(queue)
      BY <2>1, <2>2
    <3>2. i + 1 = j + 1
      BY <3>1, <2>1, <1>1 DEF IsInjective
    <3> QED
      BY <3>2, <2>1, <2>2
  <2> QED
    BY <2>1, <2>2, <2>3
<1>5. CASE PassFails
  BY <1>5, <1>1, <1>2 DEF PassFails
<1>6. CASE DeliverServiceAccount
  BY <1>6, <1>2, <1>3 DEF DeliverServiceAccount
<1>7. ASSUME NEW o \in Objects, NEW x, Change(o, x) PROVE QueueOK'
  BY <1>7, <1>2, <1>3, Constants DEF Change
<1>8. ASSUME NEW a \in Apps, OtherEvent(a) PROVE QueueOK'
  BY <1>8, <1>2 DEF OtherEvent
<1>9. CASE \/ EnsureServiceAccount \/ ReconcileSecretStore \/ RetryStore
           \/ ReconcileExternalSecret \/ RetryEs \/ Finish
           \/ VaultChange \/ DeleteServiceAccount \/ UNCHANGED vars
  BY <1>9, <1>3 DEF EnsureServiceAccount, ReconcileSecretStore, RetryStore,
     ReconcileExternalSecret, RetryEs, RetryIfNotReady, Finish,
     VaultChange, DeleteServiceAccount, vars
<1>10. CASE Tick
  BY <1>10, <1>2 DEF Tick
<1> QED
  BY <1>4, <1>5, <1>6, <1>7, <1>8, <1>9, <1>10 DEF Steps, EsoReconcile, Delete

(* The worker is at one of its steps, with an app in hand. *)
LEMMA WorkStep == TypeOK /\ Steps => WorkOK'
<1> SUFFICES ASSUME TypeOK, Steps PROVE WorkOK'
  OBVIOUS
<1>1. WorkOK /\ queue \in Seq(Apps)
  BY TypeParts DEF QueueOK
<1>2. CASE Begin
  <2>1. Head(queue) \in Apps
    BY <1>1, <1>2, HeadTailProperties DEF Begin
  <2> QED
    BY <2>1, <1>2 DEF Begin, WorkOK
<1>3. CASE \/ EnsureServiceAccount \/ ReconcileSecretStore \/ RetryStore
           \/ ReconcileExternalSecret \/ RetryEs \/ Finish \/ PassFails
  BY <1>1, <1>3, Constants DEF WorkOK, EnsureServiceAccount, ReconcileSecretStore,
     RetryStore, ReconcileExternalSecret, RetryEs, RetryIfNotReady, Finish,
     PassFails
<1>4. CASE pc' = pc /\ cur' = cur
  BY <1>1, <1>4 DEF WorkOK
<1> QED
  BY <1>2, <1>3, <1>4 DEF Steps, Tick, VaultChange, DeleteServiceAccount,
     DeliverServiceAccount, EsoReconcile, Delete, OtherEvent,
     vars, workerVars

(* Access, ServiceAccount and what is pending are yes or no. *)
LEMMA SeenStep == TypeOK /\ Steps => SeenOK'
<1> SUFFICES ASSUME TypeOK, Steps PROVE SeenOK'
  OBVIOUS
<1>1. SeenOK /\ ObjOK
  BY TypeParts
<1>2. CASE RetryStore \/ RetryEs
  BY <1>1, <1>2 DEF SeenOK, RetryStore, RetryEs, RetryIfNotReady, NotReady,
     cacheVars
<1>3. CASE EnsureServiceAccount
  BY <1>1, <1>3 DEF SeenOK, EnsureServiceAccount, cacheVars
<1>4. CASE VaultChange \/ DeleteServiceAccount \/ DeliverServiceAccount
  BY <1>1, <1>4 DEF SeenOK, VaultChange, DeleteServiceAccount,
     DeliverServiceAccount, cacheVars, esoVars, workerVars
<1>5. CASE \/ Begin \/ ReconcileSecretStore \/ ReconcileExternalSecret
           \/ Finish \/ PassFails
  BY <1>1, <1>5 DEF SeenOK, Begin, ReconcileSecretStore,
     ReconcileExternalSecret, Finish, PassFails, cacheVars, esoVars
<1>6. CASE \/ Tick \/ (\E o \in Objects : EsoReconcile(o) \/ Delete(o))
           \/ (\E a \in Apps : OtherEvent(a)) \/ UNCHANGED vars
  BY <1>1, <1>6 DEF SeenOK, Tick, EsoReconcile, Delete, OtherEvent,
     cacheVars, esoVars, workerVars, vars
<1> QED
  BY <1>2, <1>3, <1>4, <1>5, <1>6 DEF Steps

(* Every object keeps its record, and is poked or not. *)
LEMMA ObjStep == TypeOK /\ Steps => ObjOK'
<1> SUFFICES ASSUME TypeOK, Steps PROVE ObjOK'
  OBVIOUS
<1>1. ObjOK /\ cur \in Objects /\ "store" \in Objects
  BY TypeParts, Constants DEF WorkOK
<1>2. ASSUME NEW o \in Objects, NEW x \in ObjType,
             obj' = [obj EXCEPT ![o] = x]
      PROVE  obj' \in [Objects -> ObjType]
  BY <1>1, <1>2 DEF ObjOK
<1>3. ASSUME NEW o \in Objects, NEW b \in BOOLEAN,
             poked' = [poked EXCEPT ![o] = b]
      PROVE  poked' \in [Objects -> BOOLEAN]
  BY <1>1, <1>3 DEF ObjOK
<1>4. /\ obj' = obj => obj' \in [Objects -> ObjType]
      /\ poked' = poked => poked' \in [Objects -> BOOLEAN]
  BY <1>1 DEF ObjOK
<1>5. ASSUME NEW o \in Objects, Create(o) PROVE ObjOK'
  BY <1>5, <1>2, <1>3, Constants DEF Create, ObjOK
<1>6. CASE ReconcileSecretStore
  BY <1>6, <1>1, <1>4, <1>5 DEF ReconcileSecretStore, ObjOK
<1>7. CASE ReconcileExternalSecret
  <2>1. CASE obj[cur].exists
    <3>1. obj' = obj /\ poked' = [poked EXCEPT ![cur] = poked[cur] \/ stamp[cur] # Never]
      BY <1>7, <2>1 DEF ReconcileExternalSecret
    <3>2. (poked[cur] \/ stamp[cur] # Never) \in BOOLEAN
      OBVIOUS
    <3> QED
      BY <3>1, <3>2, <1>1, <1>3, <1>4 DEF ObjOK
  <2>2. CASE ~obj[cur].exists
    BY <2>2, <1>1, <1>5, <1>7 DEF ReconcileExternalSecret
  <2> QED
    BY <2>1, <2>2
<1>8. ASSUME NEW o \in Objects, RetryIfNotReady(o) PROVE ObjOK'
  BY <1>8, <1>3, <1>4 DEF RetryIfNotReady, ObjOK
<1>9. ASSUME NEW o \in Objects, NEW x \in ObjType, Change(o, x) PROVE ObjOK'
  BY <1>9, <1>2, <1>3 DEF Change, ObjOK
<1>10. ASSUME NEW o \in Objects, EsoReconcile(o) PROVE ObjOK'
  <2>1. EsoReady(o) \in BOOLEAN
    BY <1>1, TypeParts DEF EsoReady, SeenOK, ObjOK, ObjType
  <2>2. [exists |-> TRUE, known |-> TRUE, ready |-> EsoReady(o)] \in ObjType
    BY <2>1 DEF ObjType
  <2> QED
    BY <2>2, <1>9, <1>10 DEF EsoReconcile
<1>11. ASSUME NEW o \in Objects, Delete(o) PROVE ObjOK'
  BY <1>9, <1>11, Constants DEF Delete
<1>12. CASE obj' = obj /\ poked' = poked
  BY <1>4, <1>12 DEF ObjOK
<1> QED
  BY <1>1, <1>6, <1>7, <1>8, <1>10, <1>11, <1>12 DEF Steps, RetryStore, RetryEs,
     Begin, EnsureServiceAccount, Finish, PassFails, Tick, VaultChange,
     DeleteServiceAccount, DeliverServiceAccount, OtherEvent,
     vars, esoVars

(* No age and no timer leaves the interval, and no time lies ahead. *)
LEMMA TimeStep == TypeOK /\ Steps => TimeOK'
<1> SUFFICES ASSUME TypeOK, Steps PROVE TimeOK'
  OBVIOUS
<1>1. TimeOK /\ cur \in Apps /\ cur \in Objects /\ "store" \in Objects
  BY TypeParts, Constants DEF WorkOK
<1>2. ASSUME NEW o \in Objects, NEW x \in 0..Never,
             stamp' = [stamp EXCEPT ![o] = x]
      PROVE  stamp' \in [Objects -> 0..Never]
  BY <1>1, <1>2 DEF TimeOK
<1>3. Never \in 0..Never /\ Interval \in 0..Interval /\ 0 \in 0..Interval
      /\ Stamp \in 0..Never
  BY <1>1, Constants DEF TimeOK, Stamp
<1>4. UNCHANGED faults \/ Fault => faults' \in 0..MaxFaults
  BY <1>1, Constants DEF TimeOK, Fault
<1>5. ASSUME NEW o \in Objects, Create(o)
      PROVE  stamp' \in [Objects -> 0..Never] /\ gap' \in 0..Interval
  BY <1>1, <1>2, <1>3, <1>5 DEF Create, Forget, TimeOK
<1>6. CASE ReconcileSecretStore
  BY <1>1, <1>5, <1>6 DEF ReconcileSecretStore, TimeOK
<1>7. CASE ReconcileExternalSecret
  BY <1>1, <1>2, <1>3, <1>5, <1>7 DEF ReconcileExternalSecret, TimeOK
<1>8. ASSUME NEW o \in Objects, RetryIfNotReady(o) PROVE TimeOK'
  BY <1>1, <1>2, <1>3, <1>8 DEF RetryIfNotReady, TimeOK
<1>9. CASE Tick
  <2>1. \A x \in 0..Never : Older(x) \in 0..Never
    BY Constants DEF Older
  <2>2. \A x \in 0..Interval : Older(x) \in 0..Interval
    BY Constants DEF Older
  <2>3. stamp' \in [Objects -> 0..Never] /\ gap' \in 0..Interval
    BY <1>1, <1>9, <2>1, <2>2 DEF Tick, TimeOK
  <2>4. timer' \in [Apps -> 0..Interval]
    BY <1>1, <1>9, Constants DEF Tick, TimeOK
  <2>5. frac' \in 0..(Second - 1)
    BY <1>1, <1>9, Constants DEF Tick, TimeOK
  <2> QED
    BY <1>1, <1>9, <2>3, <2>4, <2>5 DEF Tick, TimeOK
<1>10. ASSUME NEW o \in Objects, Delete(o) PROVE TimeOK'
  BY <1>1, <1>2, <1>3, <1>4, <1>10 DEF Delete, Forget, TimeOK
<1>11. CASE Finish
  BY <1>1, <1>11, Constants DEF Finish, timeVars, TimeOK
<1>12. CASE \/ PassFails \/ VaultChange \/ DeleteServiceAccount
            \/ (\E a \in Apps : OtherEvent(a))
  BY <1>1, <1>4, <1>12 DEF PassFails, VaultChange, DeleteServiceAccount,
     OtherEvent, timeVars, TimeOK
<1>13. CASE UNCHANGED <<timeVars, timer, faults>>
  BY <1>1, <1>13 DEF timeVars, TimeOK
<1> QED
  BY <1>1, <1>6, <1>7, <1>8, <1>9, <1>10, <1>11, <1>12, <1>13 DEF Steps,
     RetryStore, RetryEs, Begin, EnsureServiceAccount, DeliverServiceAccount,
     EsoReconcile, vars

(* The store's annotation stays close to the time that has passed. *)
LEMMA GapStep == TypeOK /\ GapKept /\ Steps => GapKept'
<1> SUFFICES ASSUME TypeOK, GapKept, Steps PROVE GapKept'
  OBVIOUS
<1>1. /\ TimeOK /\ cur \in Objects /\ cur # "store" /\ "store" \in Objects
      /\ \A a \in Apps : a # "store"
  BY TypeParts, Constants DEF WorkOK
<1>2. CASE UNCHANGED <<stamp, gap>>
  BY <1>2 DEF GapKept
<1>3. CASE ReconcileSecretStore
  BY <1>1, <1>2, <1>3 DEF ReconcileSecretStore, Create, Forget, GapKept, TimeOK
<1>4. CASE ReconcileExternalSecret
  BY <1>1, <1>4 DEF ReconcileExternalSecret, Create, Forget, GapKept, TimeOK
<1>5. CASE RetryStore
  <2>1. CASE Nudged("store")
    BY <1>1, <1>5, <2>1, Constants
       DEF RetryStore, RetryIfNotReady, Stamp, GapKept, TimeOK
  <2>2. CASE ~Nudged("store")
    BY <1>2, <1>5, <2>2 DEF RetryStore, RetryIfNotReady
  <2> QED
    BY <2>1, <2>2
<1>6. CASE RetryEs
  BY <1>1, <1>2, <1>6 DEF RetryEs, RetryIfNotReady, GapKept, TimeOK
<1>7. CASE Tick
  <2>1. /\ stamp'["store"] = Older(stamp["store"]) /\ gap' = Older(gap)
        /\ stamp["store"] \in 0..Never /\ gap \in 0..Interval
    BY <1>1, <1>7 DEF Tick, TimeOK
  <2> QED
    BY <2>1, Constants DEF Older, GapKept
<1>8. ASSUME NEW o \in Objects, Delete(o) PROVE GapKept'
  BY <1>1, <1>8 DEF Delete, Forget, GapKept, TimeOK
<1> QED
  BY <1>2, <1>3, <1>4, <1>5, <1>6, <1>7, <1>8 DEF Steps, Begin,
     EnsureServiceAccount, Finish, PassFails, VaultChange, DeleteServiceAccount,
     DeliverServiceAccount, EsoReconcile, OtherEvent, vars, timeVars

(* Every step keeps all of the parts. *)
LEMMA TypeStep == TypeOK /\ [Next]_vars => TypeOK'
<1> SUFFICES ASSUME TypeOK, [Next]_vars PROVE TypeOK'
  OBVIOUS
<1>1. SeenOK' /\ ObjOK' /\ TimeOK' /\ QueueOK' /\ WorkOK'
  BY NextIsSteps, QueueStep, WorkStep, SeenStep, ObjStep, TimeStep
<1> QED
  BY <1>1 DEF TypeOK, SeenOK, ObjOK, TimeOK, QueueOK, WorkOK, ObjType

(* TypeOK is an invariant of EsoRetry for any number of apps: in particular no
   app is queued twice, and no annotation written by retryIfNotReady ever lies
   in the future, where it would hold back nudges for longer than the
   interval. *)
THEOREM TypeCorrect == Spec => []TypeOK
<1>1. Init => TypeOK
  BY InitInv
<1> QED
  BY <1>1, TypeStep, PTL DEF Spec

(* retryIfNotReady never nudges the store again within the retry interval less
   the second that writing the time as RFC 3339 costs, for any number of apps
   that share it, any number of faults, and any interval of at least a second. *)
THEOREM StoreNudgesAreSpaced == Spec => NudgeGap
<1>1. Init => TypeOK /\ GapKept
  BY InitInv
<1>2. TypeOK /\ GapKept /\ [Next]_vars => (TypeOK /\ GapKept)'
  BY TypeStep, NextIsSteps, GapStep
<1>3. TypeOK /\ GapKept /\ [Next]_vars
      => [RetryStore /\ Nudged("store") => gap > Interval - Second]_vars
  <2> SUFFICES ASSUME TypeOK, GapKept, Nudged("store")
               PROVE  gap > Interval - Second
    OBVIOUS
  <2>1. stamp["store"] \in 0..Never /\ gap \in 0..Interval
    BY TypeParts, Constants DEF TimeOK
  <2>2. stamp["store"] = Never \/ stamp["store"] >= Interval
    BY <2>1 DEF Nudged, RevalidationDue
  <2> QED
    BY <2>1, <2>2, Constants DEF GapKept
<1> QED
  BY <1>1, <1>2, <1>3, PTL DEF Spec, NudgeGap

-----------------------------------------------------------------------------
(* The inductive invariant behind SettledReady. An app that nobody is going to
   come back to has everything it needs; the one in the worker's hands has
   whatever the pass has come past, or the pass will report it as pending. *)

(* The app will be looked at again. *)
Waiting(a) == a \in ToSet(queue) \/ timer[a] # Off

(* The informer thinks that the ServiceAccount exists only if it does or the
   news of its deletion is on its way. *)
SaKnown == saSeen => sa \/ saGone

(* What is not there is not Ready. *)
ReadyExists == \A o \in Objects : obj[o].ready => obj[o].exists

(* An app whose key is nowhere sleeps for a good reason. *)
Resting ==
  \A a \in Apps : ~Waiting(a) /\ ~(pc # "idle" /\ cur = a) =>
    (sa \/ saGone) /\ obj["store"].ready /\ obj[a].ready

(* What the pass under way has found, and what it will do about it. *)
Passing ==
  ~Waiting(cur) =>
    /\ pc \in {"secretStore", "externalSecrets", "retryStore", "retryEs", "finish"}
         => sa \/ saGone
    /\ pc \in {"externalSecrets", "retryStore", "retryEs", "finish"}
         => obj["store"].exists
    /\ pc \in {"retryStore", "retryEs", "finish"} => obj[cur].exists
    /\ pc \in {"retryEs", "finish"} => obj["store"].ready \/ pending
    /\ pc = "finish" => obj[cur].ready \/ pending

(* The invariant behind SettledReady. *)
ReadyInv == SaKnown /\ ReadyExists /\ Resting /\ Passing

(* SetToSeq lists all members of a finite set. *)
LEMMA SetToSeqListsAll ==
  ASSUME NEW S, IsFiniteSet(S)
  PROVE  ToSet(SetToSeq(S)) = S
<1> DEFINE n == Cardinality(S)
           f == SetToSeq(S)
<1>1. n \in Nat /\ ExistsBijection(1..n, S)
  BY FS_CardinalityType
<1>2. \E g \in [1..n -> S] : IsInjective(g)
  BY <1>1 DEF ExistsBijection, Bijection, Injection
<1>3. f \in [1..n -> S] /\ IsInjective(f)
  BY <1>2 DEF SetToSeq
<1> HIDE DEF f
<1>4. f \in Injection(1..n, S)
  BY <1>3 DEF Injection, IsInjective
<1>5. Cardinality(1..n) = n
  BY <1>1, FS_Interval
<1>6. f \in Surjection(1..n, S)
  BY <1>4, <1>5, FS_Injection
<1> QED
  BY <1>3, <1>6 DEF Surjection, ToSet, f

(* Adding keys to the queue adds them to the keys that are queued. *)
LEMMA EnqueueAdds ==
  ASSUME queue \in Seq(Apps), NEW S \in SUBSET Apps
  PROVE  ToSet(Enqueue(S)) = ToSet(queue) \cup S
<1> DEFINE new == S \ ToSet(queue)
           t == SetToSeq(new)
<1>1. IsFiniteSet(new)
  BY FS_Subset, ConstantsAssumption
<1>2. t \in Seq(Apps) /\ ToSet(t) = new
  BY <1>1, SetToSeqLists, SetToSeqListsAll, SeqMonotonic
<1> HIDE DEF t
<1>3. /\ Len(queue \o t) = Len(queue) + Len(t)
      /\ queue \o t \in Seq(Apps)
      /\ \A i \in 1..(Len(queue) + Len(t)) :
           (queue \o t)[i] = IF i <= Len(queue) THEN queue[i]
                                                ELSE t[i - Len(queue)]
  BY <1>2, ConcatProperties
<1>4. /\ Len(queue) \in Nat /\ Len(t) \in Nat
      /\ DOMAIN queue = 1..Len(queue) /\ DOMAIN t = 1..Len(t)
      /\ DOMAIN (queue \o t) = 1..(Len(queue) + Len(t))
  BY <1>2, <1>3
<1>5. \A x \in ToSet(queue \o t) : x \in ToSet(queue) \cup ToSet(t)
  <2> SUFFICES ASSUME NEW i \in 1..(Len(queue) + Len(t))
               PROVE  (queue \o t)[i] \in ToSet(queue) \cup ToSet(t)
    BY <1>4 DEF ToSet
  <2>1. CASE i <= Len(queue)
    BY <1>3, <1>4, <2>1 DEF ToSet
  <2>2. CASE i > Len(queue)
    <3>1. i - Len(queue) \in 1..Len(t)
      BY <1>4, <2>2
    <3> QED
      BY <1>3, <1>4, <2>2, <3>1 DEF ToSet
  <2> QED
    BY <1>4, <2>1, <2>2
<1>6. \A x \in ToSet(queue) : x \in ToSet(queue \o t)
  <2> SUFFICES ASSUME NEW i \in 1..Len(queue) PROVE queue[i] \in ToSet(queue \o t)
    BY <1>4 DEF ToSet
  <2>1. i \in 1..(Len(queue) + Len(t)) /\ i <= Len(queue)
    BY <1>4
  <2> QED
    BY <1>3, <1>4, <2>1 DEF ToSet
<1>7. \A x \in ToSet(t) : x \in ToSet(queue \o t)
  <2> SUFFICES ASSUME NEW i \in 1..Len(t) PROVE t[i] \in ToSet(queue \o t)
    BY <1>4 DEF ToSet
  <2>1. /\ i + Len(queue) \in 1..(Len(queue) + Len(t))
        /\ ~(i + Len(queue) <= Len(queue)) /\ (i + Len(queue)) - Len(queue) = i
    BY <1>4
  <2>2. (queue \o t)[i + Len(queue)] = t[i]
    BY <1>3, <2>1
  <2> QED
    BY <1>4, <2>1, <2>2 DEF ToSet
<1>8. ToSet(queue \o t) = ToSet(queue) \cup new
  BY <1>2, <1>5, <1>6, <1>7
<1> QED
  BY <1>8 DEF Enqueue, t

(* Taking a key off the queue leaves the others on it. *)
LEMMA DequeueKeeps ==
  ASSUME queue \in Seq(Apps), queue # <<>>,
         NEW a \in ToSet(queue), a # Head(queue)
  PROVE  a \in ToSet(Tail(queue))
<1>1. /\ Tail(queue) \in Seq(Apps) /\ Len(Tail(queue)) = Len(queue) - 1
      /\ \A i \in 1..Len(Tail(queue)) : Tail(queue)[i] = queue[i + 1]
  BY HeadTailProperties
<1>2. PICK i \in 1..Len(queue) : a = queue[i]
  BY DEF ToSet
<1>3. i # 1 /\ Len(queue) \in Nat
  BY <1>2
<1>4. i - 1 \in 1..Len(Tail(queue)) /\ (i - 1) + 1 = i
  BY <1>1, <1>3
<1>5. Tail(queue)[i - 1] = a
  BY <1>1, <1>2, <1>4
<1>6. i - 1 \in DOMAIN Tail(queue)
  BY <1>1, <1>4
<1> QED
  BY <1>5, <1>6, Zenon DEF ToSet

(* ESO and whoever deletes objects make an app wait before its objects, or the
   store, stop being there or Ready. *)
LEMMA ChangeStep ==
  ASSUME TypeOK, ReadyInv, NEW o \in Objects, NEW x \in ObjType,
         x.ready => x.exists, Change(o, x),
         UNCHANGED <<sa, cacheVars, timer, workerVars>>
  PROVE  ReadyInv'
<1>0. /\ obj'[o] = x /\ \A p \in Objects \ {o} : obj'[p] = obj[p]
      /\ cur \in Apps /\ queue \in Seq(Apps) /\ "store" \in Objects
      /\ Apps \subseteq Objects /\ "store" \notin Apps
  BY TypeParts, Constants DEF Change, ObjOK, WorkOK, QueueOK
<1>1. ReadyExists'
  BY <1>0 DEF ReadyInv, ReadyExists
<1>2. CASE Predicate(obj[o], x)
  <2>1. ToSet(queue') = ToSet(queue) \cup Dependents(o)
    BY <1>0, <1>2, Constants, EnqueueAdds DEF Change
  <2>2. \A a \in Apps : ~Waiting(a)' => /\ ~Waiting(a) /\ obj'["store"] = obj["store"]
                                       /\ obj'[a] = obj[a]
    BY <1>0, <2>1 DEF Waiting, Dependents
  <2> QED
    BY <1>0, <1>1, <2>2 DEF ReadyInv, SaKnown, Resting, Passing, workerVars,
       cacheVars
<1>3. CASE ~Predicate(obj[o], x)
  <2>1. queue' = queue /\ x.ready = obj[o].ready /\ x.exists
    BY <1>3 DEF Change, Predicate
  <2>2. \A p \in Objects : /\ obj'[p].ready = obj[p].ready
                           /\ obj[p].exists => obj'[p].exists
    BY <1>0, <2>1
  <2>3. \A a \in Apps : Waiting(a)' = Waiting(a)
    BY <2>1 DEF Waiting
  <2> QED
    BY <1>0, <1>1, <2>2, <2>3 DEF ReadyInv, SaKnown, Resting, Passing,
       workerVars, cacheVars
<1> QED
  BY <1>2, <1>3

(* The worker creates what is not there, which nobody at rest relies on. *)
LEMMA CreateKeeps ==
  ASSUME TypeOK, NEW o \in Objects, Create(o)
  PROVE  /\ obj'[o].exists /\ ~obj'[o].ready
         /\ \A p \in Objects \ {o} : obj'[p] = obj[p]
BY Constants, TypeParts DEF Create, Fresh, Missing, ObjOK

(* Every step keeps the invariant. *)
LEMMA ReadyStep == TypeOK /\ ReadyInv /\ [Next]_vars => ReadyInv'
<1> SUFFICES ASSUME TypeOK, ReadyInv, Steps PROVE ReadyInv'
  BY NextIsSteps
<1>0. /\ SeenOK /\ ObjOK /\ TimeOK /\ queue \in Seq(Apps) /\ cur \in Apps
      /\ cur \in Objects /\ "store" \in Objects /\ cur # "store"
      /\ Apps \subseteq Objects /\ Off = 0 /\ Interval \in Nat
  BY TypeParts, Constants DEF QueueOK, WorkOK
<1>1. \A S \in SUBSET Apps : ToSet(Enqueue(S)) = ToSet(queue) \cup S
  BY <1>0, EnqueueAdds
<1> USE DEF SaKnown, ReadyExists, Resting, Passing, ReadyInv
<1>2. CASE Begin
  <2>1. \A a \in Apps : a \in ToSet(queue) /\ a # cur' => a \in ToSet(queue')
    BY <1>0, <1>2, DequeueKeeps DEF Begin
  <2> QED
    BY <1>0, <1>2, <2>1 DEF Begin, Waiting, esoVars, cacheVars
<1>3. CASE PassFails
  BY <1>0, <1>1, <1>3, Constants DEF PassFails, Waiting, esoVars, cacheVars
<1>4. CASE EnsureServiceAccount
  BY <1>0, <1>4 DEF EnsureServiceAccount, Waiting, cacheVars, SeenOK
<1>5. CASE ReconcileSecretStore
  <2>1. CASE obj["store"].exists
    BY <1>0, <1>5, <2>1 DEF ReconcileSecretStore, Waiting, cacheVars
  <2>2. CASE ~obj["store"].exists
    <3>1. Create("store") /\ ~obj["store"].ready
      BY <1>0, <1>5, <2>2 DEF ReconcileSecretStore
    <3> QED
      BY <1>0, <1>5, <2>2, <3>1, CreateKeeps DEF ReconcileSecretStore, Waiting,
         cacheVars
  <2> QED
    BY <2>1, <2>2
<1>6. CASE ReconcileExternalSecret
  <2>1. CASE obj[cur].exists
    BY <1>0, <1>6, <2>1 DEF ReconcileExternalSecret, Waiting, cacheVars
  <2>2. CASE ~obj[cur].exists
    <3>1. Create(cur) /\ ~obj[cur].ready
      BY <1>0, <1>6, <2>2 DEF ReconcileExternalSecret
    <3>2. /\ obj'[cur].exists /\ ~obj'[cur].ready
          /\ \A p \in Objects \ {cur} : obj'[p] = obj[p]
      BY <1>0, <3>1, CreateKeeps
    <3> QED
      BY <1>0, <1>6, <2>2, <3>1, <3>2 DEF ReconcileExternalSecret, Waiting,
         cacheVars
  <2> QED
    BY <2>1, <2>2
<1>7. CASE RetryStore
  BY <1>0, <1>7 DEF RetryStore, RetryIfNotReady, NotReady, Waiting, cacheVars,
     SeenOK
<1>8. CASE RetryEs
  BY <1>0, <1>8 DEF RetryEs, RetryIfNotReady, NotReady, Waiting, cacheVars, SeenOK
<1>9. CASE Finish
  <2>1. \A a \in Apps : a # cur => timer'[a] = timer[a]
    BY <1>0, <1>9 DEF Finish, TimeOK
  <2>2. pending => timer'[cur] # Off
    BY <1>0, <1>9, Constants DEF Finish, TimeOK
  <2>3. ~pending => timer'[cur] = timer[cur]
    BY <1>0, <1>9 DEF Finish, TimeOK
  <2> QED
    BY <1>0, <1>9, <2>1, <2>2, <2>3, Constants DEF Finish, Waiting, esoVars, cacheVars
<1>10. CASE Tick
  <2>1. \A a \in Apps : Waiting(a) => Waiting(a)'
    <3> SUFFICES ASSUME NEW a \in Apps, Waiting(a) PROVE Waiting(a)'
      OBVIOUS
    <3>1. ToSet(queue') = ToSet(queue) \cup {b \in Apps : timer[b] = 1}
      BY <1>1, <1>10 DEF Tick
    <3>2. /\ timer[a] \in 0..Interval
          /\ timer'[a] = IF timer[a] = Off THEN Off ELSE timer[a] - 1
      BY <1>0, <1>10 DEF Tick, TimeOK
    <3> QED
      BY <1>0, <3>1, <3>2 DEF Waiting
  <2> QED
    BY <1>0, <1>10, <2>1 DEF Tick, esoVars, cacheVars, workerVars
<1>11. CASE VaultChange \/ DeleteServiceAccount
  BY <1>0, <1>11 DEF VaultChange, DeleteServiceAccount, Waiting, cacheVars,
     workerVars
<1>12. CASE DeliverServiceAccount
  <2>1. CASE saGone
    <3>1. \A a \in Apps : a \in ToSet(queue')
      BY <1>1, <1>12, <2>1 DEF DeliverServiceAccount
    <3> QED
      BY <1>0, <1>12, <3>1 DEF DeliverServiceAccount, Waiting, esoVars, workerVars
  <2>2. CASE ~saGone
    BY <1>0, <1>12, <2>2 DEF DeliverServiceAccount, Waiting, esoVars, workerVars
  <2> QED
    BY <2>1, <2>2
<1>14. ASSUME NEW a \in Apps, OtherEvent(a) PROVE ReadyInv'
  <2>1. \A b \in Apps : Waiting(b) => Waiting(b)'
    BY <1>0, <1>1, <1>14 DEF OtherEvent, Waiting
  <2> QED
    BY <1>0, <1>14, <2>1 DEF OtherEvent, esoVars, cacheVars, workerVars
<1>15. ASSUME NEW o \in Objects, EsoReconcile(o) PROVE ReadyInv'
  <2> DEFINE x == [exists |-> TRUE, known |-> TRUE, ready |-> EsoReady(o)]
  <2>1. EsoReady(o) \in BOOLEAN
    BY <1>0 DEF EsoReady, SeenOK, ObjOK, ObjType
  <2>2. x \in ObjType /\ (x.ready => x.exists)
    BY <2>1 DEF ObjType
  <2> HIDE DEF ReadyInv
  <2>3. Change(o, x) /\ UNCHANGED <<sa, cacheVars, timer, workerVars>>
    BY <1>15 DEF EsoReconcile
  <2> QED
    BY <2>2, <2>3, ChangeStep
<1>16. ASSUME NEW o \in Objects, Delete(o) PROVE ReadyInv'
  <2>1. Missing \in ObjType /\ (Missing.ready => Missing.exists)
    BY Constants DEF Missing
  <2>2. Change(o, Missing) /\ UNCHANGED <<sa, cacheVars, timer, workerVars>>
    BY <1>16 DEF Delete
  <2> HIDE DEF ReadyInv
  <2> QED
    BY <2>1, <2>2, ChangeStep
<1>17. CASE UNCHANGED vars
  BY <1>17 DEF vars, Waiting, esoVars, cacheVars, workerVars
<1> QED
  BY <1>2, <1>3, <1>4, <1>5, <1>6, <1>7, <1>8, <1>9, <1>10, <1>11, <1>12,
     <1>14, <1>15, <1>16, <1>17 DEF Steps

(* Whenever the operator falls silent ServiceAccount, store and ExternalSecrets
   are there and were last reported Ready, for any number of apps that share
   the store and any number of faults: no failure and no deletion is left
   without somebody coming back to it. *)
THEOREM ReadySettles == Spec => []SettledReady
<1>1. Init => ReadyInv
  <2> SUFFICES ASSUME Init PROVE ReadyInv
    OBVIOUS
  <2>1. ToSet(queue) = Apps /\ cur \in Apps
    BY SetToSeqListsAll, ConstantsAssumption, InitInv, TypeParts DEF Init, WorkOK
  <2>2. \A o \in Objects : ~obj[o].ready
    BY DEF Init, Missing
  <2> QED
    BY <2>1, <2>2 DEF Init, ReadyInv, SaKnown, ReadyExists, Resting, Passing,
       Waiting
<1>2. ReadyInv => SettledReady
  <2> SUFFICES ASSUME ReadyInv, Quiescent
               PROVE  sa /\ \A o \in Objects : obj[o].ready
    BY DEF SettledReady
  <2>1. \A a \in Apps : ~Waiting(a)
    BY DEF Quiescent, Waiting, ToSet
  <2>2. \A a \in Apps : sa /\ obj["store"].ready /\ obj[a].ready
    BY <2>1 DEF Quiescent, ReadyInv, Resting
  <2> QED
    BY <2>2, ConstantsAssumption DEF Objects
<1> QED
  BY <1>1, <1>2, ReadyStep, TypeCorrect, PTL DEF Spec
=============================================================================
