------------------------ MODULE ManagedSecretsProofs ------------------------
(***************************************************************************)
(* Proofs that ManagedSecrets keeps its types, never takes a Secret from   *)
(* ESO, and falls silent only when Secrets, Deployment and condition are   *)
(* what the spec asks for.                                                 *)
(*                                                                         *)
(* What a pass has dealt with is in order, or somebody interfered and the  *)
(* event that will tell the operator is still on its way: each part of Inv *)
(* is an instance of that.                                                 *)
(***************************************************************************)
EXTENDS ManagedSecrets, TLAPS

(* The bounds are numbers. *)
LEMMA BoundsAreNumbers ==
  KindsUsed \subseteq Kinds /\ MaxEdits \in Nat /\ MaxData \in Nat /\ MaxData >= 1
BY ConstantsAssumption

(* A Secret: who made it, and which version of data it has. *)
SecretType == [owner : {"none", "app", "es", "user"}, data : 0..MaxData]

(* The parts of TypeOK. *)
SpecsOK ==
  /\ spec \in [Names -> [kind : Kinds, data : 0..MaxData]]
  /\ snap \in [Names -> [kind : Kinds, data : 0..MaxData]]

SecretsOK ==
  /\ secret \in [Names -> SecretType] /\ seen \in [Names -> SecretType]
  /\ lag \in [Names -> BOOLEAN]

ExternalOK == es \in [Names -> EsStates] /\ remote \in 1..MaxData

DeploymentOK ==
  /\ dep \in [refs : SUBSET Names, hash : [Names -> 0..MaxData]]
  /\ \A n \in Names : dep.hash[n] # 0 => n \in dep.refs

HashOK ==
  /\ hash \in [Names -> 0..MaxData]
  /\ pc = "deployment" =>
       \A n \in Names : hash[n] # 0 => snap[n].kind = "external"

PassOK ==
  /\ queued \in BOOLEAN /\ todo \subseteq Names
  /\ pc \in {"idle", "secrets", "pruneSecrets", "externalSecrets",
             "pruneExternalSecrets", "externalSecretsRetry",
             "externalSecretHash", "deployment", "status"}
  /\ cond \in {"none", "False", "True"}
  /\ edits \in 0..MaxEdits

(* TypeOK, and that the hash a pass is about to write covers external entries
   only: the pod template it goes into names those. *)
TypeInv ==
  SpecsOK /\ SecretsOK /\ ExternalOK /\ DeploymentOK /\ HashOK /\ PassOK

(* Storing a Secret keeps the types of Secrets. *)
LEMMA PutSecret ==
  ASSUME SecretsOK, seen' = seen, NEW n \in Names, NEW s \in SecretType, Put(n, s)
  PROVE  SecretsOK'
BY DEF SecretsOK, Put

(* The Secrets anybody stores have the right type. *)
LEMMA StoredSecrets ==
  ASSUME TypeInv, NEW n \in Names
  PROVE  /\ NoSecret \in SecretType
         /\ [owner |-> "user", data |-> 1] \in SecretType
         /\ [owner |-> "es", data |-> remote] \in SecretType
         /\ [owner |-> "app", data |-> snap[n].data] \in SecretType
<1>1. /\ 0 \in 0..MaxData /\ 1 \in 0..MaxData /\ remote \in 0..MaxData
      /\ snap[n].data \in 0..MaxData
  BY BoundsAreNumbers DEF TypeInv, SpecsOK, ExternalOK
<1> QED
  BY <1>1 DEF NoSecret, SecretType

(* Every step keeps the types of the Secrets and their copies. *)
LEMMA SecretsStep == TypeInv /\ [Next]_vars => SecretsOK'
<1> SUFFICES ASSUME TypeInv, [Next]_vars PROVE SecretsOK'
  OBVIOUS
<1>0. SecretsOK /\ todo \subseteq Names
  BY DEF TypeInv, PassOK
<1>1. CASE UNCHANGED <<secret, seen, lag>>
  BY <1>0, <1>1 DEF SecretsOK
<1>2. ASSUME NEW n \in Names, UserSecret(n) \/ EsoSync(n) \/ GarbageCollect(n)
      PROVE  SecretsOK'
  BY <1>0, <1>2, PutSecret, StoredSecrets DEF UserSecret, EsoSync, GarbageCollect
<1>3. ASSUME NEW n \in Names, ReconcileSecret(n) PROVE SecretsOK'
  BY <1>0, <1>1, <1>3, PutSecret, StoredSecrets DEF ReconcileSecret
<1>4. ASSUME NEW n \in Names, PruneSecret(n) PROVE SecretsOK'
  BY <1>0, <1>1, <1>4, PutSecret, StoredSecrets DEF PruneSecret
<1>5. ASSUME NEW n \in Names, Deliver(n) PROVE SecretsOK'
  BY <1>0, <1>5 DEF Deliver, SecretsOK
<1> QED
  BY <1>1, <1>2, <1>3, <1>4, <1>5 DEF Next, Pass, vars, Rotate, UserEdit, Begin,
     ListSecrets, NextLoop, RetryExternalSecrets, ReadHash, ReconcileDeployment,
     UpdateStatus, ReconcileExternalSecret, PruneExternalSecret, EsoRefused

(* The pod template names what it hashes. *)
LEMMA TemplateOK ==
  ASSUME TypeInv, pc = "deployment", dep' = PodTemplate
  PROVE  DeploymentOK'
<1>1. ASSUME NEW n \in Names
      PROVE  /\ PodTemplate.hash[n] \in 0..MaxData
             /\ PodTemplate.hash[n] # 0 => n \in PodTemplate.refs
  BY DEF PodTemplate, TypeInv, HashOK, SpecsOK
<1>2. PodTemplate.refs \subseteq Names
  BY DEF PodTemplate
<1>3. PodTemplate \in [refs : SUBSET Names, hash : [Names -> 0..MaxData]]
  BY <1>1, <1>2 DEF PodTemplate
<1> QED
  BY <1>1, <1>3 DEF DeploymentOK

(* The hash covers the Secrets of external entries. *)
LEMMA SyncedOK ==
  ASSUME TypeInv
  PROVE  /\ SyncedData \in [Names -> 0..MaxData]
         /\ \A n \in Names : SyncedData[n] # 0 => snap[n].kind = "external"
<1>1. \A n \in Names : secret[n].data \in 0..MaxData
  BY DEF TypeInv, SecretsOK, SecretType
<1> QED
  BY <1>1, BoundsAreNumbers DEF SyncedData, Declared

(* Every step keeps the other types. *)
LEMMA OthersStep ==
  TypeInv /\ [Next]_vars
    => (SpecsOK /\ ExternalOK /\ DeploymentOK /\ HashOK /\ PassOK)'
<1> DEFINE Others == SpecsOK /\ ExternalOK /\ DeploymentOK /\ HashOK /\ PassOK
<1> SUFFICES ASSUME TypeInv, [Next]_vars PROVE Others'
  OBVIOUS
<1>0. Others
  BY DEF TypeInv
<1> USE <1>0 DEF SpecsOK, ExternalOK, HashOK, PassOK, Declared
<1>1. ASSUME NEW n \in Names, NEW k \in KindsUsed, NEW d \in 0..MaxData,
             UserEdit(n, k, d)
      PROVE  Others'
  BY <1>1, BoundsAreNumbers DEF UserEdit, DeploymentOK
<1>2. ASSUME NEW n \in Names, UserSecret(n) PROVE Others'
  BY <1>2, BoundsAreNumbers DEF UserSecret, DeploymentOK
<1>3. CASE Rotate
  BY <1>3, BoundsAreNumbers DEF Rotate, DeploymentOK
<1>4. ASSUME NEW n \in Names, EsoSync(n) \/ EsoRefused(n) \/ GarbageCollect(n)
      PROVE  Others'
  BY <1>4 DEF EsoSync, EsoRefused, Report, EsStates, GarbageCollect, DeploymentOK
<1>5. ASSUME NEW n \in Names, Deliver(n) PROVE Others'
  BY <1>5 DEF Deliver, MapsToApp, DeploymentOK
<1>6. CASE Begin
  BY <1>6 DEF Begin, DeploymentOK
<1>7. ASSUME NEW n \in Names, ReconcileSecret(n) \/ PruneSecret(n) PROVE Others'
  BY <1>7 DEF ReconcileSecret, PruneSecret, Abort, DeploymentOK
<1>8. CASE ListSecrets
  BY <1>8 DEF ListSecrets, StaleSecrets, DeploymentOK
<1>9. ASSUME NEW n \in Names,
             ReconcileExternalSecret(n) \/ PruneExternalSecret(n)
      PROVE  Others'
  BY <1>9 DEF ReconcileExternalSecret, PruneExternalSecret, Report, EsStates,
     DeploymentOK
<1>10. CASE NextLoop
  BY <1>10 DEF NextLoop, Present, DeploymentOK
<1>11. CASE RetryExternalSecrets \/ ReadHash
  BY <1>11, SyncedOK DEF RetryExternalSecrets, ReadHash, DeploymentOK
<1>12. CASE ReconcileDeployment
  BY <1>12, TemplateOK DEF ReconcileDeployment
<1>13. CASE UpdateStatus
  BY <1>13 DEF UpdateStatus, ExternalSecretsStatus, DeploymentOK
<1>14. CASE UNCHANGED vars
  BY <1>14 DEF vars, DeploymentOK
<1> QED
  BY <1>1, <1>2, <1>3, <1>4, <1>5, <1>6, <1>7, <1>8, <1>9, <1>10, <1>11, <1>12,
     <1>13, <1>14 DEF Next, Pass

(* So the types always hold. *)
LEMMA TypeInvariant == Spec => []TypeInv
<1>1. Init => TypeInv
  <2> SUFFICES ASSUME Init PROVE TypeInv
    OBVIOUS
  <2>0. 0 \in 0..MaxData /\ 1 \in 1..MaxData /\ 0 \in 0..MaxEdits
    BY BoundsAreNumbers
  <2>1. SpecsOK
    BY <2>0 DEF Init, SpecsOK, Kinds
  <2>2. SecretsOK
    BY <2>0 DEF Init, SecretsOK, SecretType, NoSecret
  <2>3. ExternalOK /\ DeploymentOK /\ HashOK /\ PassOK
    BY <2>0 DEF Init, ExternalOK, EsStates, DeploymentOK, HashOK, PassOK
  <2> QED
    BY <2>1, <2>2, <2>3 DEF TypeInv
<1>2. TypeInv /\ [Next]_vars => TypeInv'
  BY SecretsStep, OthersStep DEF TypeInv
<1> QED
  BY <1>1, <1>2, PTL DEF Spec

(* TypeOK is an invariant of ManagedSecrets, for any set of entries: the
   hash annotations never cover a Secret the pod template does not name,
   although the hash is read in one step and written in another. *)
THEOREM TypeCorrect == Spec => []TypeOK
<1>1. TypeInv => TypeOK
  BY DEF TypeInv, TypeOK, SpecsOK, SecretsOK, SecretType, ExternalOK,
     DeploymentOK, HashOK, PassOK
<1> QED
  BY <1>1, TypeInvariant, PTL

-----------------------------------------------------------------------------

(* A copy of a Secret that does not lag is the stored one. *)
Copies == \A n \in Names : ~lag[n] => seen[n] = secret[n]

(* A pass nobody has asked to repeat works from the stored spec. *)
Current == ~queued => snap = spec

(* The ExternalSecrets of the entries the pass has come to are there, and the
   pruning is not going to remove them. *)
ObjectsThere ==
  \A n \in Declared(snap, "external") :
    /\ pc = "externalSecrets" => n \in Present \/ n \in todo
    /\ pc = "pruneExternalSecrets" => n \in Present /\ n \notin todo
    /\ pc \in {"externalSecretsRetry", "externalSecretHash", "deployment"}
         => n \in Present
    /\ pc \in {"status", "idle"} /\ ~queued => n \in Present

(* The Secret of an inline entry the pass has dealt with is as wanted, or the
   informer is about to tell of a Secret the app used to control. *)
InlineDone ==
  \A n \in Declared(snap, "inline") :
    ~queued /\ (pc = "secrets" => n \notin todo) =>
      \/ secret[n] = [owner |-> "app", data |-> snap[n].data]
      \/ lag[n] /\ seen[n].owner = "app"

(* The pruning never touches an inline entry, and has removed every other
   Secret the app controls except those the informer is yet to show. *)
Pruned ==
  \A n \in Names :
    /\ pc = "pruneSecrets" /\ n \in todo => snap[n].kind # "inline"
    /\ pc = "secrets" /\ n \in todo => snap[n].kind = "inline"
    /\ ~queued /\ snap[n].kind # "inline" /\ pc # "secrets" =>
         \/ secret[n].owner # "app" \/ lag[n]
         \/ pc = "pruneSecrets" /\ n \in todo

(* An operator that does not mean to come back has found every external entry
   Ready. *)
FoundReady ==
  ~queued /\ pc \in {"externalSecretHash", "deployment", "status", "idle"} =>
    \A n \in Declared(snap, "external") : es[n] = "ready"

(* News of Secret n is on its way, and will reach the app. *)
NewsOf(n) ==
  lag[n] /\ (secret[n].owner = "es" \/ seen[n].owner \in {"app", "es"})

(* The hash covers what the Secrets hold, or news of it is on its way. *)
HashFresh ==
  ~queued /\ pc \in {"deployment", "status", "idle"} =>
    \A n \in Declared(snap, "external") : hash[n] = secret[n].data \/ NewsOf(n)

(* The Deployment and the condition are those of the last pass. *)
RolledOut == ~queued /\ pc \in {"status", "idle"} => dep = PodTemplate

(* The condition is that of the last pass. *)
Reported ==
  ~queued /\ pc = "idle" =>
    cond = IF Declared(snap, "external") = {} THEN "none" ELSE "True"

(* What is known at every moment of a pass and between passes. *)
Inv ==
  /\ Copies /\ Current /\ ObjectsThere /\ InlineDone /\ Pruned /\ FoundReady
  /\ HashFresh /\ RolledOut /\ Reported

(* Storing a Secret changes one of them, whose copy lags from then on. *)
LEMMA PutFacts ==
  ASSUME TypeInv, NEW n \in Names, NEW s, Put(n, s)
  PROVE  /\ secret'[n] = s /\ lag'[n]
         /\ \A m \in Names \ {n} : secret'[m] = secret[m] /\ lag'[m] = lag[m]
BY DEF Put, TypeInv, SecretsOK

(* A copy that does not lag is the stored Secret, whatever is written. *)
LEMMA CopiesStep == TypeInv /\ Copies /\ [Next]_vars => Copies'
<1> SUFFICES ASSUME TypeInv, Copies, [Next]_vars PROVE Copies'
  OBVIOUS
<1>1. ASSUME NEW n \in Names, NEW s, Put(n, s), seen' = seen PROVE Copies'
  BY <1>1, PutFacts DEF Copies
<1>2. CASE UNCHANGED <<secret, seen, lag>>
  BY <1>2 DEF Copies
<1>3. ASSUME NEW n \in Names, Deliver(n) PROVE Copies'
  BY <1>3 DEF Deliver, Copies, TypeInv, SecretsOK
<1>4. ASSUME NEW n \in Names,
             \/ UserSecret(n) \/ EsoSync(n) \/ GarbageCollect(n)
             \/ ReconcileSecret(n) \/ PruneSecret(n)
      PROVE  Copies'
  BY <1>1, <1>2, <1>4 DEF UserSecret, EsoSync, GarbageCollect, ReconcileSecret,
     PruneSecret
<1> QED
  BY <1>2, <1>3, <1>4 DEF Next, Pass, vars, Rotate, UserEdit, Begin,
     ListSecrets, NextLoop, RetryExternalSecrets, ReadHash, ReconcileDeployment,
     UpdateStatus, ReconcileExternalSecret, PruneExternalSecret, EsoRefused

(* CreateOrUpdate only ever stores an inline Secret in place of none, of one
   it controls or of one without a controller that ESO set. *)
LEMMA WritesRespectOwner ==
  ASSUME TypeInv, Copies, NEW n \in Names, NEW want,
         CanWrite(n, want), seen[n] # want
  PROVE  secret[n].owner # "es"
BY DEF CanWrite, Copies, Exists

(* A Secret that ESO controls is never taken over by an inline entry of the
   same name: CreateOrUpdate looks for another controller on the cached copy
   only, but a stale copy cannot be written from, and a Secret the cache does
   not have cannot be created over one that is there. *)
THEOREM NeverSeizes == Spec => NeverSeizesFromEso
<1>1. Init => Copies
  BY DEF Init, Copies
<1>2. TypeInv /\ Copies /\ [Next]_vars
        => [\A n \in Names : secret[n].owner = "es" => secret'[n].owner # "app"]_vars
  <2> SUFFICES ASSUME TypeInv, Copies, Next,
                      NEW m \in Names, secret[m].owner = "es"
               PROVE  secret'[m].owner # "app"
    BY DEF vars
  <2>1. CASE secret' = secret
    BY <2>1
  <2>2. ASSUME NEW n \in Names, NEW s, Put(n, s), s.owner # "app"
        PROVE  secret'[m].owner # "app"
    BY <2>2, PutFacts
  <2>3. ASSUME NEW n \in Names,
               UserSecret(n) \/ EsoSync(n) \/ GarbageCollect(n) \/ PruneSecret(n)
        PROVE  secret'[m].owner # "app"
    BY <2>1, <2>2, <2>3 DEF UserSecret, EsoSync, GarbageCollect, PruneSecret,
       NoSecret
  <2>4. ASSUME NEW n \in Names, ReconcileSecret(n)
        PROVE  secret'[m].owner # "app"
    <3> DEFINE want == [owner |-> "app", data |-> snap[n].data]
    <3>1. CASE CanWrite(n, want) /\ seen[n] # want
      <4>1. secret[n].owner # "es" /\ Put(n, want)
        BY <2>4, <3>1, WritesRespectOwner DEF ReconcileSecret
      <4> QED
        BY <4>1, PutFacts
    <3>2. CASE ~(CanWrite(n, want) /\ seen[n] # want)
      BY <2>1, <2>4, <3>2 DEF ReconcileSecret
    <3> QED
      BY <3>1, <3>2
  <2> QED
    BY <2>1, <2>3, <2>4 DEF Next, Pass, Rotate, UserEdit, Deliver, Begin,
       ListSecrets, NextLoop, RetryExternalSecrets, ReadHash,
       ReconcileDeployment, UpdateStatus, ReconcileExternalSecret,
       PruneExternalSecret, EsoRefused
<1> QED
  BY <1>1, <1>2, TypeInvariant, CopiesStep, PTL DEF Spec, NeverSeizesFromEso

(* The hash has been read, and nobody has asked for another pass. *)
Hashed == ~queued /\ pc \in {"deployment", "status", "idle"}

(* What a step that leaves the pass where it is has to respect: it changes at
   most the Secret n, marks its copy as stale, keeps off the Secrets the app
   controls, and leaves a hashed external entry with ESO or queues the app; an
   ExternalSecret stays, and a new verdict on it queues the app. *)
Interferes(n) ==
  /\ \E s : /\ Put(n, s) /\ s.owner # "app"
            /\ Hashed /\ n \in Declared(snap, "external") => s.owner = "es"
  /\ secret[n].owner # "app"
  /\ queued => queued'
  /\ \A m \in Names : /\ m \in Present => m \in Present'
                      /\ es'[m] = es[m] \/ queued'
  /\ UNCHANGED <<spec, seen, dep, pc, snap, todo, hash, cond>>

(* What others write to a Secret keeps Inv: the event is still to come. *)
LEMMA InterferenceStep ==
  ASSUME TypeInv, Inv, NEW n \in Names, Interferes(n)
  PROVE  Inv'
<1>1. PICK s : /\ Put(n, s) /\ s.owner # "app"
               /\ Hashed /\ n \in Declared(snap, "external") => s.owner = "es"
  BY DEF Interferes
<1>2. /\ secret'[n] = s /\ lag'[n]
      /\ \A m \in Names \ {n} : secret'[m] = secret[m] /\ lag'[m] = lag[m]
  BY <1>1, PutFacts
<1>3. secret[n].owner # "app"
  BY DEF Interferes
<1>4. /\ UNCHANGED <<spec, seen, dep, pc, snap, todo, hash, cond>>
      /\ ~queued' => ~queued /\ \A m \in Names : es'[m] = es[m]
      /\ \A m \in Names : m \in Present => m \in Present'
  BY DEF Interferes
<1>5. Copies' /\ Current'
  BY <1>2, <1>4 DEF Inv, Copies, Current
<1>6. ObjectsThere' /\ Reported' /\ RolledOut'
  BY <1>4 DEF Inv, ObjectsThere, Reported, RolledOut, PodTemplate, Declared
<1>7. InlineDone'
  BY <1>2, <1>3, <1>4 DEF Inv, InlineDone, Declared
<1>8. Pruned'
  BY <1>1, <1>2, <1>4 DEF Inv, Pruned
<1>9. FoundReady'
  BY <1>4 DEF Inv, FoundReady, Declared
<1>10. HashFresh'
  BY <1>1, <1>2, <1>4 DEF Inv, HashFresh, NewsOf, Hashed, Declared
<1> QED
  BY <1>5, <1>6, <1>7, <1>8, <1>9, <1>10 DEF Inv

(* The steps of ESO, the garbage collector and the user are of that kind: a
   user makes Secrets for references only, and the collector takes those whose
   ExternalSecret is gone. *)
LEMMA OutsidersInterfere ==
  ASSUME TypeInv, Inv, NEW n \in Names,
         UserSecret(n) \/ EsoSync(n) \/ GarbageCollect(n)
  PROVE  Interferes(n)
<1>1. CASE UserSecret(n)
  <2> DEFINE s == [owner |-> "user", data |-> 1]
  <2>1. Put(n, s) /\ s.owner # "app" /\ secret[n].owner = "none"
    BY <1>1 DEF UserSecret, Exists
  <2>2. Hashed => n \notin Declared(snap, "external")
    BY <1>1 DEF UserSecret, Hashed, Inv, Current, Declared
  <2> QED
    BY <1>1, <2>1, <2>2 DEF UserSecret, Interferes, Present
<1>2. CASE EsoSync(n)
  <2> DEFINE s == [owner |-> "es", data |-> remote]
  <2>1. Put(n, s) /\ s.owner = "es" /\ s.owner # "app" /\ secret[n].owner # "app"
    BY <1>2 DEF EsoSync
  <2>2. \A m \in Names : /\ m \in Present => m \in Present'
                         /\ es'[m] = es[m] \/ queued'
    BY <1>2 DEF EsoSync, Report, Present, TypeInv, ExternalOK
  <2>3. queued => queued'
    BY <1>2 DEF EsoSync, Report
  <2>4. UNCHANGED <<spec, seen, dep, pc, snap, todo, hash, cond>>
    BY <1>2 DEF EsoSync
  <2> QED
    BY <2>1, <2>2, <2>3, <2>4 DEF Interferes
<1>3. CASE GarbageCollect(n)
  <2>1. Put(n, NoSecret) /\ NoSecret.owner # "app" /\ secret[n].owner = "es"
    BY <1>3 DEF GarbageCollect, NoSecret
  <2>2. Hashed => n \notin Declared(snap, "external")
    BY <1>3 DEF GarbageCollect, Hashed, Inv, ObjectsThere
  <2> QED
    BY <1>3, <2>1, <2>2 DEF GarbageCollect, Interferes, Present
<1> QED
  BY <1>1, <1>2, <1>3

(* An event keeps Inv: it queues the key of the app it is for. *)
LEMMA DeliveryStep ==
  ASSUME TypeInv, Inv, NEW n \in Names, Deliver(n)
  PROVE  Inv'
<1>1. /\ seen'[n] = secret[n] /\ ~lag'[n]
      /\ \A m \in Names \ {n} : seen'[m] = seen[m] /\ lag'[m] = lag[m]
  BY DEF Deliver, TypeInv, SecretsOK
<1>2. /\ ~queued' => /\ ~queued
                     /\ seen[n].owner \notin {"app", "es"}
                     /\ secret[n].owner \notin {"app", "es"}
      /\ UNCHANGED <<spec, secret, es, dep, pc, snap, todo, hash, cond>>
  BY DEF Deliver, MapsToApp, TypeInv, PassOK
<1>3. Copies' /\ Current' /\ ObjectsThere' /\ Reported' /\ RolledOut'
  BY <1>1, <1>2 DEF Inv, Copies, Current, ObjectsThere, Reported, RolledOut,
     PodTemplate, Declared, Present
<1>4. InlineDone'
  BY <1>1, <1>2 DEF Inv, InlineDone, Declared
<1>5. Pruned'
  BY <1>1, <1>2 DEF Inv, Pruned
<1>6. FoundReady' /\ HashFresh'
  BY <1>1, <1>2 DEF Inv, FoundReady, HashFresh, NewsOf, Declared
<1> QED
  BY <1>3, <1>4, <1>5, <1>6 DEF Inv

(* reconcileSecrets and its pruning. *)
LEMMA SecretLoopsStep ==
  ASSUME TypeInv, Inv, NEW n \in Names, ReconcileSecret(n) \/ PruneSecret(n)
  PROVE  Inv'
<1> DEFINE want == [owner |-> "app", data |-> snap[n].data]
<1>1. /\ pc \in {"secrets", "pruneSecrets"} /\ n \in todo
      /\ UNCHANGED <<spec, seen, es, dep, snap, hash, cond>>
  BY DEF ReconcileSecret, PruneSecret
<1>2. Copies'
  BY CopiesStep DEF Inv, Next, Pass
<1>3. CASE Abort
  BY <1>1, <1>2, <1>3 DEF Abort, Inv, Current, ObjectsThere, InlineDone, Pruned,
     FoundReady, HashFresh, RolledOut, Reported
<1>4. CASE ~Abort
  <2>1. todo' = todo \ {n} /\ UNCHANGED <<pc, queued>>
    BY <1>4 DEF ReconcileSecret, PruneSecret
  <2>2. /\ Current' /\ ObjectsThere' /\ FoundReady' /\ HashFresh'
        /\ RolledOut' /\ Reported'
    BY <1>1, <2>1 DEF Inv, Current, ObjectsThere, FoundReady, HashFresh,
       RolledOut, Reported, Declared
  <2>3. \A m \in Names \ {n} : secret'[m] = secret[m] /\ lag'[m] = lag[m]
    BY PutFacts DEF ReconcileSecret, PruneSecret, Abort
  <2>4. CASE ReconcileSecret(n)
    <3>1. /\ pc = "secrets" /\ snap[n].kind = "inline"
      BY <1>1, <2>4 DEF ReconcileSecret, Inv, Pruned
    <3>2. \/ secret'[n] = want
          \/ seen[n] = want /\ secret'[n] = secret[n] /\ lag'[n] = lag[n]
      BY <1>4, <2>4, PutFacts DEF ReconcileSecret
    <3>3. secret'[n] = want \/ (lag'[n] /\ seen[n].owner = "app")
      BY <3>2 DEF Inv, Copies, TypeInv, SecretsOK
    <3>4. InlineDone'
      BY <1>1, <2>1, <2>3, <3>1, <3>3 DEF Inv, InlineDone, Declared
    <3>5. Pruned'
      BY <1>1, <2>1, <3>1 DEF Inv, Pruned
    <3> QED
      BY <1>2, <2>2, <3>4, <3>5 DEF Inv
  <2>5. CASE PruneSecret(n)
    <3>1. pc = "pruneSecrets" /\ snap[n].kind # "inline"
      BY <1>1, <2>5 DEF PruneSecret, Inv, Pruned
    <3>2. secret'[n].owner = "none"
      BY <2>5, PutFacts DEF PruneSecret, Exists, NoSecret
    <3>3. InlineDone'
      BY <1>1, <2>1, <2>3, <3>1 DEF Inv, InlineDone, Declared
    <3>4. Pruned'
      BY <1>1, <2>1, <2>3, <3>1, <3>2 DEF Inv, Pruned
    <3> QED
      BY <1>2, <2>2, <3>3, <3>4 DEF Inv
  <2> QED
    BY <2>4, <2>5
<1> QED
  BY <1>3, <1>4

(* Inv always holds. *)
LEMMA InvInductive == Spec => []Inv
<1>1. Init => Inv
  <2> SUFFICES ASSUME Init PROVE Inv
    OBVIOUS
  <2>1. \A n \in Names : snap[n].kind = "none" /\ secret[n].owner = "none"
    BY DEF Init, NoSecret
  <2>2. dep = PodTemplate
    BY <2>1 DEF Init, PodTemplate
  <2> QED
    BY <2>1, <2>2 DEF Init, Inv, Copies, Current, ObjectsThere, InlineDone,
       Pruned, FoundReady, HashFresh, RolledOut, Reported, Declared
<1>2. TypeInv /\ Inv /\ [Next]_vars => Inv'
  <2> SUFFICES ASSUME TypeInv, Inv, [Next]_vars PROVE Inv'
    OBVIOUS
  <2>0. queued \in BOOLEAN
    BY DEF TypeInv, PassOK
  <2> USE DEF Inv, Copies, Current, ObjectsThere, InlineDone, Pruned, FoundReady,
        HashFresh, NewsOf, RolledOut, Reported, Declared, Present
  <2>1. ASSUME NEW n \in Names, NEW k \in KindsUsed, NEW d \in 0..MaxData,
               UserEdit(n, k, d)
        PROVE  Inv'
    BY <2>1 DEF UserEdit
  <2>2. CASE Rotate
    BY <2>2 DEF Rotate, PodTemplate
  <2>3. CASE Begin
    BY <2>3 DEF Begin
  <2>4. CASE ListSecrets
    BY <2>4 DEF ListSecrets, StaleSecrets
  <2>5. ASSUME NEW n \in Names,
               ReconcileExternalSecret(n) \/ PruneExternalSecret(n)
        PROVE  Inv'
    <3>1. \A m \in Names \ {n} : es'[m] = es[m]
      BY <2>5 DEF ReconcileExternalSecret, PruneExternalSecret, Report, TypeInv,
         ExternalOK
    <3>2. ReconcileExternalSecret(n) => es'[n] # "absent"
      BY DEF ReconcileExternalSecret, TypeInv, ExternalOK
    <3>3. queued' \/ ~queued
      BY <2>5 DEF ReconcileExternalSecret, PruneExternalSecret, Report
    <3> QED
      BY <2>5, <3>1, <3>2, <3>3 DEF ReconcileExternalSecret, PruneExternalSecret
  <2>6. CASE NextLoop
    BY <2>6 DEF NextLoop
  <2>7. CASE ReadHash
    BY <2>0, <2>7 DEF ReadHash, SyncedData
  <2>8. CASE ReconcileDeployment
    BY <2>8 DEF ReconcileDeployment, PodTemplate
  <2>9. CASE UpdateStatus
    BY <2>9 DEF UpdateStatus, ExternalSecretsStatus, PodTemplate
  <2>10. CASE UNCHANGED vars
    BY <2>10 DEF vars, PodTemplate
  <2>11. CASE RetryExternalSecrets
    <3>1. \A n \in Declared(snap, "external") :
            es[n] \in {"new", "ready", "notReady"}
      BY <2>11 DEF RetryExternalSecrets, TypeInv, ExternalOK, EsStates
    <3>2. ~queued' => ~queued /\ \A n \in Declared(snap, "external") : ~Pending(n)
      BY <2>0, <2>11 DEF RetryExternalSecrets
    <3> QED
      BY <2>11, <3>1, <3>2 DEF RetryExternalSecrets, Pending
  <2>12. ASSUME NEW n \in Names, EsoRefused(n) PROVE Inv'
    <3>1. queued' /\ \A m \in Names : es[m] # "absent" => es'[m] # "absent"
      BY <2>12 DEF EsoRefused, Report, TypeInv, ExternalOK
    <3> QED
      BY <2>12, <3>1 DEF EsoRefused
  <2> QED
    BY <2>1, <2>2, <2>3, <2>4, <2>5, <2>6, <2>7, <2>8, <2>9, <2>10, <2>11, <2>12,
       InterferenceStep, OutsidersInterfere, DeliveryStep, SecretLoopsStep
       DEF Next, Pass
<1> QED
  BY <1>1, <1>2, TypeInvariant, PTL DEF Spec

(* Whenever the operator falls silent the pod template names and hashes the
   Secrets as they are, inline Secrets hold the spec's data, no dropped one
   is left and ESO last reported every external entry Ready: no interleaving
   of ESO, the garbage collector, the informer and the user with the calls of
   a pass is overlooked. *)
THEOREM RolloutSettles == Spec => []SettledRollout
<1>1. TypeInv /\ Inv => SettledRollout
  <2> SUFFICES ASSUME TypeInv, Inv, Quiescent
               PROVE  /\ dep.refs = {n \in Names : spec[n].kind # "none"}
                      /\ \A n \in Declared(spec, "inline") :
                           /\ secret[n] = [owner |-> "app", data |-> spec[n].data]
                           /\ dep.hash[n] = secret[n].data
                      /\ \A n \in Declared(spec, "external") :
                           es[n] = "ready" /\ dep.hash[n] = secret[n].data
                      /\ \A n \in Names : secret[n].owner = "app"
                                            => spec[n].kind = "inline"
    BY DEF SettledRollout
  <2>1. snap = spec /\ dep = PodTemplate
    BY DEF Quiescent, Inv, Current, RolledOut
  <2>2. dep.refs = {n \in Names : spec[n].kind # "none"}
    BY <2>1 DEF PodTemplate
  <2>3. ASSUME NEW n \in Declared(spec, "inline")
        PROVE  /\ secret[n] = [owner |-> "app", data |-> spec[n].data]
               /\ dep.hash[n] = secret[n].data
    <3>1. secret[n] = [owner |-> "app", data |-> spec[n].data]
      BY <2>1, <2>3 DEF Inv, InlineDone, Quiescent, Declared
    <3> QED
      BY <2>1, <2>3, <3>1 DEF PodTemplate, Declared
  <2>4. ASSUME NEW n \in Declared(spec, "external")
        PROVE  es[n] = "ready" /\ dep.hash[n] = secret[n].data
    <3>1. es[n] = "ready" /\ hash[n] = secret[n].data
      BY <2>1, <2>4 DEF Inv, FoundReady, HashFresh, NewsOf, Quiescent, Declared
    <3> QED
      BY <2>1, <2>4, <3>1 DEF PodTemplate, Declared
  <2>5. \A n \in Names : secret[n].owner = "app" => spec[n].kind = "inline"
    BY <2>1 DEF Inv, Pruned, Quiescent
  <2> QED
    BY <2>2, <2>3, <2>4, <2>5
<1> QED
  BY <1>1, TypeInvariant, InvInductive, PTL

(* Whenever the operator falls silent ExternalSecretsReady is set exactly if
   there are external entries, and then it is True: the objects it counts are
   those of the spec it is computed from. *)
THEOREM EsConditionSettles == Spec => []SettledEsCondition
<1>1. Inv => SettledEsCondition
  BY DEF Inv, SettledEsCondition, Quiescent, Current, Reported
<1> QED
  BY <1>1, InvInductive, PTL
=============================================================================
