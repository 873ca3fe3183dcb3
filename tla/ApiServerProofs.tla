-------------------------- MODULE ApiServerProofs --------------------------
(***************************************************************************)
(* Proofs about the REST handlers, for any number of clients, entries and  *)
(* versions.                                                               *)
(*                                                                         *)
(* They rest on the same observation: between the handler's check and its  *)
(* write, read[c] remembers the version that was checked and the merge     *)
(* that was made from it, and a resourceVersion is never handed out twice, *)
(* so an object that still has that version still has the contents the     *)
(* merge was made from. That a PUT sent again takes effect once needs one  *)
(* thing more: once it has, the object has left the version it names.      *)
(***************************************************************************)
EXTENDS ApiServer, TLAPS

(* Objects and requests, without the bounds. *)
Object == [rv : Nat, entries : [Names -> Entry]]

Request == [verb : {"none", "get", "create", "update", "delete"}, rv : Nat,
            entries : [Names -> Entry]]

(* The types the argument needs. *)
Types ==
  /\ app \in Object /\ version \in Nat
  /\ view \in [Clients -> Object]
  /\ req \in [Clients -> Request]
  /\ pc \in [Clients -> {"idle", "sent", "handler", "apply"}]
  /\ read \in [Clients -> Object]

(* Versions in use have been handed out. *)
VersionsKnown ==
  app.rv <= version /\ \A c \in Clients : read[c].rv <= version

(* What the handler of c knows between its check and its write. *)
Checked(c) ==
  pc[c] = "apply" /\ req[c].verb = "update" =>
    /\ read[c].rv = req[c].rv /\ read[c].rv # 0
    /\ ~HasInlineData(req[c].entries) /\ HasSources(read[c].entries)
    /\ app.rv = read[c].rv =>
         read[c].entries = PreserveInlineSecretData(app.entries, req[c].entries)

(* The invariant behind the action properties and the refinement. *)
Inv == Types /\ VersionsKnown /\ \A c \in Clients : Checked(c)

(* The entries a request is composed from and those that are stored or shown
   are entries. *)
LEMMA EntryTypes ==
  None \in Entry /\ Ref \in Entry /\ Bare \in Entry /\ Nothing \in Object
  BY ConstantsAssumption
  DEF None, Ref, Bare, Entry, Kinds, Nothing, Object

(* sanitizeAppDefinition shows an object, of the same version. *)
LEMMA SanitizeType ==
  ASSUME NEW a \in Object
  PROVE  Sanitize(a) \in Object /\ Sanitize(a).rv = a.rv
  BY EntryTypes DEF Sanitize, Object

(* preserveInlineSecretData merges entries into entries. *)
LEMMA PreserveType ==
  ASSUME NEW e \in [Names -> Entry], NEW f \in [Names -> Entry]
  PROVE  PreserveInlineSecretData(e, f) \in [Names -> Entry]
  BY DEF PreserveInlineSecretData

(* The types hold initially and are kept by every step. *)
LEMMA TypesInductive ==
  /\ Init => Types
  /\ Types /\ [Next]_vars => Types'
<1>1. Init => Types
  BY EntryTypes DEF Init, Types, Request, NoRequest, Object, Nothing
<1>2. Types /\ [Next]_vars => Types'
  <2> SUFFICES ASSUME Types, [Next]_vars PROVE Types'
    OBVIOUS
  <2> USE EntryTypes DEF Types
  <2> NoRequest \in Request
    BY DEF Request, NoRequest, Object, Nothing
  <2>1. ASSUME NEW c \in Clients, NEW code \in Nat, Answer(c, code)
        PROVE  /\ req' \in [Clients -> Request]
               /\ pc' \in [Clients -> {"idle", "sent", "handler", "apply"}]
               /\ read' \in [Clients -> Object]
    BY <2>1 DEF Answer
  <2>2. ASSUME NEW e \in [Names -> Entry], Store(e)
        PROVE  app' \in Object /\ version' \in Nat
    BY <2>2 DEF Store, Object
  <2>3. CASE UNCHANGED vars
    BY <2>3 DEF vars
  <2>4. CASE Controller
    <3>1. app.entries \in [Names -> Entry]
      BY DEF Object
    <3> QED BY <3>1, <2>2, <2>4 DEF Controller
  <2>15. CASE Removed
    BY <2>15 DEF Removed
  <2>5. ASSUME NEW n \in Names, NEW d \in 0..MaxData, Kubectl(n, d) PROVE Types'
    <3> DEFINE e == [app.entries EXCEPT ![n] = IF d = 0 THEN None
                                      ELSE [kind |-> "inline", data |-> d]]
    <3>1. e \in [Names -> Entry]
      BY DEF Object, Entry, Kinds
    <3>2. Store(e)
      BY <2>5 DEF Kubectl
    <3> QED BY <3>1, <3>2, <2>2, <2>5 DEF Kubectl
  <2>6. ASSUME NEW c \in Clients PROVE
          (\E verb \in {"get", "create", "update", "delete"}, n \in Names,
              e \in {None, Ref, Bare, [kind |-> "inline", data |-> 1]},
              v \in {0, view[c].rv} : Compose(c, verb, n, e, v)) => Types'
    <3> SUFFICES ASSUME NEW verb \in {"get", "create", "update", "delete"},
                        NEW n \in Names,
                        NEW e \in {None, Ref, Bare, [kind |-> "inline", data |-> 1]},
                        NEW v \in {0, view[c].rv}, Compose(c, verb, n, e, v)
                 PROVE  Types'
      OBVIOUS
    <3> DEFINE base == IF verb = "update" THEN view[c].entries ELSE Nothing.entries
    <3>1. e \in Entry
      BY ConstantsAssumption DEF Entry, Kinds
    <3>2. base \in [Names -> Entry] /\ v \in Nat
      BY DEF Object
    <3>3. [verb |-> verb, rv |-> v, entries |-> [base EXCEPT ![n] = e]] \in Request
      BY <3>1, <3>2 DEF Request
    <3> QED BY <3>3 DEF Compose
  <2>7. ASSUME NEW c \in Clients, Resend(c) PROVE Types'
    BY <2>7 DEF Resend
  <2>8. ASSUME NEW c \in Clients, Middleware(c) PROVE Types'
    BY <2>8, <2>1 DEF Middleware
  <2>9. ASSUME NEW c \in Clients, Get(c) PROVE Types'
    BY <2>9, <2>1, SanitizeType DEF Get
  <2>10. ASSUME NEW c \in Clients, Create(c) PROVE Types'
    <3>1. req[c].entries \in [Names -> Entry]
      BY DEF Request
    <3>2. ASSUME Store(req[c].entries) PROVE Sanitize(app') \in Object
      BY <3>1, <3>2, <2>2, SanitizeType
    <3> QED BY <2>10, <2>1, <2>2, <3>1, <3>2 DEF Create
  <2>11. ASSUME NEW c \in Clients, UpdateChecks(c) PROVE Types'
    <3>1. Merged(c) \in [Names -> Entry]
      BY PreserveType DEF Merged, Object, Request
    <3>2. [rv |-> app.rv, entries |-> Merged(c)] \in Object
      BY <3>1 DEF Object
    <3> QED BY <2>11, <2>1, <3>2 DEF UpdateChecks
  <2>12. ASSUME NEW c \in Clients, UpdateApplies(c) PROVE Types'
    <3>1. read[c].entries \in [Names -> Entry]
      BY DEF Object
    <3>2. ASSUME Store(read[c].entries) PROVE Sanitize(app') \in Object
      BY <3>1, <3>2, <2>2, SanitizeType
    <3> QED BY <2>12, <2>1, <2>2, <3>1, <3>2 DEF UpdateApplies
  <2>13. ASSUME NEW c \in Clients, DeleteChecks(c) PROVE Types'
    BY <2>13, <2>1 DEF DeleteChecks
  <2>14. ASSUME NEW c \in Clients, DeleteApplies(c) PROVE Types'
    <3>1. app.entries \in [Names -> Entry]
      BY DEF Object
    <3> QED BY <2>14, <3>1, <2>1, <2>2 DEF DeleteApplies
  <2> QED
    BY <2>3, <2>4, <2>5, <2>6, <2>7, <2>8, <2>9, <2>10, <2>11, <2>12, <2>13,
       <2>14, <2>15 DEF Next
<1> QED BY <1>1, <1>2

(* Inv holds initially and is kept by every step: an answer takes its client
   out of the critical window, an accepted write gives the object a version
   nobody has checked against, and other clients' windows are untouched. *)
LEMMA InvInductive ==
  /\ Init => Inv
  /\ Inv /\ [Next]_vars => Inv'
<1>1. Init => Inv
  <2> SUFFICES ASSUME Init PROVE Inv
    OBVIOUS
  <2>1. Types
    BY TypesInductive
  <2>2. VersionsKnown
    BY DEF Init, VersionsKnown, Nothing
  <2>3. \A c \in Clients : Checked(c)
    BY DEF Init, Checked
  <2> QED BY <2>1, <2>2, <2>3 DEF Inv
<1>2. Inv /\ [Next]_vars => Inv'
  <2> SUFFICES ASSUME Inv, [Next]_vars PROVE Inv'
    OBVIOUS
  <2>0. Types /\ Types'
    BY TypesInductive DEF Inv
  <2> USE <2>0 DEF Inv, Types, VersionsKnown
  <2> HIDE DEF Types
  <2>a. app \in Object /\ version \in Nat /\ read \in [Clients -> Object]
        /\ pc \in [Clients -> {"idle", "sent", "handler", "apply"}]
        /\ req \in [Clients -> Request] /\ app' \in Object /\ version' \in Nat
        /\ app.rv \in Nat /\ \A d \in Clients : read[d].rv \in Nat
    BY DEF Types, Object
  (* A client whose request is untouched while the object is, or gets a new
     version. *)
  <2>b. ASSUME NEW d \in Clients,
               pc'[d] = pc[d], req'[d] = req[d], read'[d] = read[d],
               app' = app \/ app'.rv = version + 1 \/ app' = Nothing
        PROVE  Checked(d)'
    <3>1. CASE app' = app
      BY <2>b, <3>1 DEF Checked
    <3>2. CASE app'.rv = version + 1
      <4>1. read[d].rv <= version /\ read[d].rv \in Nat
        BY <2>a
      <4>2. app'.rv # read'[d].rv
        BY <4>1, <2>a, <2>b, <3>2
      <4>3. Checked(d)
        OBVIOUS
      <4> QED BY <2>b, <4>2, <4>3 DEF Checked
    <3>3. CASE app' = Nothing
      <4>1. app'.rv = 0
        BY <3>3 DEF Nothing
      <4>2. Checked(d)
        OBVIOUS
      <4>3. pc[d] = "apply" /\ req[d].verb = "update" => read[d].rv # 0
        BY DEF Checked
      <4> QED BY <2>b, <4>1, <4>2, <4>3 DEF Checked
    <3> QED BY <2>b, <3>1, <3>2, <3>3
  <2>c. ASSUME NEW c \in Clients, NEW code \in Nat, Answer(c, code),
               app' = app \/ app'.rv = version + 1 \/ app' = Nothing
        PROVE  \A d \in Clients : Checked(d)'
    <3> SUFFICES ASSUME NEW d \in Clients PROVE Checked(d)'
      OBVIOUS
    <3>1. CASE d = c
      BY <2>a, <2>c, <3>1 DEF Answer, Checked
    <3>2. CASE d # c
      BY <2>a, <2>b, <2>c, <3>2 DEF Answer
    <3> QED BY <3>1, <3>2
  <2>d. ASSUME NEW e, Store(e)
        PROVE  app'.rv = version + 1 /\ version' = version + 1
    BY <2>d DEF Store
  <2>e. ASSUME NEW c \in Clients, NEW code \in Nat, Answer(c, code)
        PROVE  \A d \in Clients : read'[d].rv <= version
    BY <2>a, <2>e DEF Answer, Nothing
  <2>f. ASSUME NEW c \in Clients, NEW code \in Nat, Answer(c, code),
               NEW e, Store(e)
        PROVE  Inv'
    <3>1. app'.rv = version + 1 /\ version' = version + 1
      BY <2>d, <2>f
    <3>2. \A d \in Clients : read'[d].rv \in Nat /\ read'[d].rv <= version
      BY <2>0, <2>e, <2>f DEF Types, Object
    <3>3. VersionsKnown'
      BY <3>1, <3>2, <2>a
    <3>4. \A d \in Clients : Checked(d)'
      BY <3>1, <2>c, <2>f
    <3> QED BY <3>3, <3>4
  <2>g. ASSUME NEW c \in Clients, NEW code \in Nat, Answer(c, code),
               UNCHANGED <<app, version>>
        PROVE  Inv'
    BY <2>g, <2>c, <2>e
  <2>1. CASE UNCHANGED vars
    BY <2>1, <2>a, <2>b DEF vars
  <2>2. CASE Controller
    BY <2>2, <2>a, <2>b, <2>d DEF Controller
  <2>13. CASE Removed
    <3>1. Nothing.rv = 0
      BY DEF Nothing
    <3> QED BY <2>13, <3>1, <2>a, <2>b DEF Removed
  <2>3. ASSUME NEW n \in Names, NEW d \in 0..MaxData, Kubectl(n, d) PROVE Inv'
    BY <2>3, <2>a, <2>b, <2>d DEF Kubectl
  <2>4. ASSUME NEW c \in Clients, NEW verb, NEW n, NEW e, NEW v,
               Compose(c, verb, n, e, v)
        PROVE  Inv'
    <3>1. Checked(c)'
      BY <2>4, <2>a DEF Compose, Checked
    <3>2. \A d \in Clients \ {c} : Checked(d)'
      BY <2>4, <2>a, <2>b DEF Compose
    <3> QED BY <2>4, <3>1, <3>2 DEF Compose
  <2>5. ASSUME NEW c \in Clients, Resend(c) PROVE Inv'
    <3>1. Checked(c)'
      BY <2>5, <2>a DEF Resend, Checked
    <3>2. \A d \in Clients \ {c} : Checked(d)'
      BY <2>5, <2>a, <2>b DEF Resend
    <3> QED BY <2>5, <3>1, <3>2 DEF Resend
  <2>6. ASSUME NEW c \in Clients, Middleware(c) PROVE Inv'
    <3>1. ASSUME NEW code \in Nat, Answer(c, code) PROVE Inv'
      BY <2>6, <3>1, <2>c, <2>e DEF Middleware
    <3>2. CASE pc' = [pc EXCEPT ![c] = "handler"] /\ UNCHANGED <<read, req>>
      <4>1. Checked(c)'
        BY <3>2, <2>a DEF Checked
      <4>2. \A d \in Clients \ {c} : Checked(d)'
        BY <2>6, <3>2, <2>a, <2>b DEF Middleware
      <4> QED BY <2>6, <3>2, <4>1, <4>2 DEF Middleware
    <3> QED BY <2>6, <3>1, <3>2 DEF Middleware
  <2>7. ASSUME NEW c \in Clients, Get(c) PROVE Inv'
    BY <2>7, <2>c, <2>e DEF Get
  <2>8. ASSUME NEW c \in Clients, Create(c) PROVE Inv'
    BY <2>8, <2>f, <2>g DEF Create
  <2>9. ASSUME NEW c \in Clients, UpdateChecks(c) PROVE Inv'
    <3>1. ASSUME NEW code \in Nat, Answer(c, code) PROVE Inv'
      BY <2>9, <3>1, <2>c, <2>e DEF UpdateChecks
    <3>2. CASE /\ SameVersion(c) /\ Acceptable(c) /\ Exists(app)
               /\ pc' = [pc EXCEPT ![c] = "apply"]
               /\ read' = [read EXCEPT ![c] = [rv |-> app.rv, entries |-> Merged(c)]]
               /\ UNCHANGED req
      <4>0. UNCHANGED <<app, version>>
        BY <2>9 DEF UpdateChecks
      <4>1. Checked(c)'
        BY <3>2, <4>0, <2>a
        DEF Checked, SameVersion, Acceptable, Merged, Exists
      <4>2. \A d \in Clients \ {c} : Checked(d)'
        BY <3>2, <4>0, <2>a, <2>b
      <4>3. VersionsKnown'
        BY <3>2, <4>0, <2>a
      <4> QED BY <4>1, <4>2, <4>3
    <3> QED BY <2>9, <3>1, <3>2 DEF UpdateChecks
  <2>10. ASSUME NEW c \in Clients, UpdateApplies(c) PROVE Inv'
    BY <2>10, <2>f, <2>g DEF UpdateApplies
  <2>11. ASSUME NEW c \in Clients, DeleteChecks(c) PROVE Inv'
    <3>1. ASSUME NEW code \in Nat, Answer(c, code) PROVE Inv'
      BY <2>11, <3>1, <2>c, <2>e DEF DeleteChecks
    <3>2. CASE pc' = [pc EXCEPT ![c] = "apply"] /\ UNCHANGED <<read, req>>
      <4>1. Checked(c)'
        BY <2>11, <3>2, <2>a DEF DeleteChecks, Checked
      <4>2. \A d \in Clients \ {c} : Checked(d)'
        BY <2>11, <3>2, <2>a, <2>b DEF DeleteChecks
      <4> QED BY <2>11, <3>2, <4>1, <4>2 DEF DeleteChecks
    <3> QED BY <2>11, <3>1, <3>2 DEF DeleteChecks
  <2>12. ASSUME NEW c \in Clients, DeleteApplies(c) PROVE Inv'
    <3>1. Nothing.rv = 0
      BY DEF Nothing
    <3> QED BY <2>12, <3>1, <2>a, <2>c, <2>e, <2>f, <2>g DEF DeleteApplies
  <2> QED
    BY <2>1, <2>2, <2>3, <2>4, <2>5, <2>6, <2>7, <2>8, <2>9, <2>10, <2>11,
       <2>12, <2>13 DEF Next
<1> QED BY <1>1, <1>2

(* A write that is accepted replaces the version the client was looking at. *)
LEMMA AppliedVersion ==
  ASSUME Inv, NEW c \in Clients, UpdateApplies(c), app' # app
  PROVE  /\ app.rv = req[c].rv
         /\ app'.entries = PreserveInlineSecretData(app.entries, req[c].entries)
         /\ ~HasInlineData(req[c].entries)
<1>1. Accepts(c) /\ Store(read[c].entries)
  BY DEF UpdateApplies
<1>2. app.rv = read[c].rv /\ app'.entries = read[c].entries
  BY <1>1 DEF Accepts, Store
<1>3. pc[c] = "apply" /\ req[c].verb = "update"
  BY DEF UpdateApplies
<1>4. Checked(c)
  BY DEF Inv
<1> QED BY <1>2, <1>3, <1>4 DEF Checked

(* Whatever the number of clients and the interleaving of their handlers with
   kubectl and the controller, a PUT overwrites only the version its client
   saw. *)
THEOREM UpdatesAreNotLost == Spec => NoLostUpdate
<1>1. ASSUME Inv
      PROVE  [\A c \in Clients :
                UpdateApplies(c) /\ app' # app => app.rv = req[c].rv]_vars
  BY <1>1, AppliedVersion
<1> QED BY <1>1, InvInductive, PTL DEF Spec, NoLostUpdate

(* No PUT changes inline data that its client could not see. *)
THEOREM InlineDataSurvives == Spec => InlineSurvives
<1>1. ASSUME Inv
      PROVE  [\A c \in Clients, n \in Names :
                UpdateApplies(c) /\ app' # app /\ app.entries[n].kind = "inline"
                  /\ req[c].entries[n].kind \notin {"none", "ref"}
                => app'.entries[n] = app.entries[n]]_vars
  <2> SUFFICES ASSUME NEW c \in Clients, NEW n \in Names,
                      UpdateApplies(c), app' # app,
                      app.entries[n].kind = "inline",
                      req[c].entries[n].kind \notin {"none", "ref"}
               PROVE  app'.entries[n] = app.entries[n]
    OBVIOUS
  <2>1. /\ app'.entries = PreserveInlineSecretData(app.entries, req[c].entries)
        /\ ~HasInlineData(req[c].entries)
    BY <1>1, AppliedVersion
  <2>2. req[c].entries[n].kind \in Kinds
    BY <1>1 DEF Inv, Types, Request, Entry
  <2>3. req[c].entries[n].kind = "bare"
    BY <2>1, <2>2 DEF HasInlineData, Kinds
  <2> QED BY <2>1, <2>3 DEF PreserveInlineSecretData
<1> QED BY <1>1, InvInductive, PTL DEF Spec, InlineSurvives

(* The handlers keep the promise of AppStore: a step of theirs is an atomic
   request that is served, one that is opened or closed, or nothing to the
   clients. The step that serves an update is the accepted write: it stores
   what was merged earlier, from an object that is still the stored one. *)
THEOREM ImplementsAppStore == Spec => ServesAtomically
<1>1. Init => Atomic!StoreInit
  BY DEF Init, Atomic!StoreInit, Nothing, NoRequest, None, Atomic!Nothing,
         Atomic!NoRequest, Atomic!None
<1>2. ASSUME Inv, Types', [Next]_vars PROVE [Atomic!StoreNext]_(Atomic!storeVars)
  <2> USE <1>2
  <2>0. Atomic!Nothing = Nothing /\ Atomic!NoRequest = NoRequest
    BY DEF Nothing, NoRequest, None, Atomic!Nothing, Atomic!NoRequest, Atomic!None
  <2>1. ASSUME NEW e PROVE Store(e) <=> Atomic!Write(e)
    BY DEF Store, Atomic!Write
  <2>2. Exists(app) <=> Atomic!Exists(app)
    BY DEF Exists, Atomic!Exists
  <2>3. \A c \in Clients : req'[c] \in Atomic!Requests
    BY DEF Types, Request, Entry, Kinds, Atomic!Requests
  <2>4. ASSUME NEW c \in Clients, NEW code \in Nat, Answer(c, code)
        PROVE  \/ UNCHANGED req
               \/ req' = [req EXCEPT ![c] = NoRequest]
    BY <2>4 DEF Answer
  (* A step that leaves the object alone and touches one request only. *)
  <2>5. ASSUME NEW c \in Clients, NEW r, req' = [req EXCEPT ![c] = r],
               UNCHANGED <<app, version>>
        PROVE  Atomic!StoreNext
    <3>1. req'[c] = r
      BY <2>5 DEF Inv, Types
    <3>2. Atomic!Ask(c, req'[c])
      BY <2>5, <3>1 DEF Atomic!Ask
    <3> QED BY <2>3, <3>2 DEF Atomic!StoreNext
  <2>6. ASSUME NEW c \in Clients, NEW code \in Nat, Answer(c, code),
               UNCHANGED <<app, version>>
        PROVE  [Atomic!StoreNext]_(Atomic!storeVars)
    BY <2>4, <2>5, <2>6 DEF Atomic!storeVars
  <2>7. CASE UNCHANGED vars
    BY <2>7 DEF vars, Atomic!storeVars
  <2>8. CASE Controller
    BY <2>8, <2>1, <2>2 DEF Controller, Atomic!StoreNext, Atomic!Touched
  <2>9. CASE Removed
    BY <2>9, <2>0, <2>2 DEF Removed, Atomic!StoreNext, Atomic!Removed
  <2>10. ASSUME NEW n \in Names, NEW d \in 0..MaxData, Kubectl(n, d)
         PROVE  Atomic!StoreNext
    <3> DEFINE e == IF d = 0 THEN None ELSE [kind |-> "inline", data |-> d]
    <3>1. Atomic!Outside(n, e)
      BY <2>10, <2>1, <2>2 DEF Kubectl, Atomic!Outside
    <3>2. e \in {Atomic!None, Atomic!Ref} \cup {Atomic!Inline(x) : x \in 0..MaxData}
      BY DEF None, Atomic!None, Atomic!Inline
    <3> HIDE DEF e
    <3> QED BY <3>1, <3>2 DEF Atomic!StoreNext
  <2>11. ASSUME NEW c \in Clients, NEW verb, NEW n, NEW e, NEW v,
                Compose(c, verb, n, e, v)
         PROVE  Atomic!StoreNext
    BY <2>11, <2>5 DEF Compose
  <2>12. ASSUME NEW c \in Clients, Resend(c) PROVE UNCHANGED Atomic!storeVars
    BY <2>12 DEF Resend, Atomic!storeVars
  <2>13. ASSUME NEW c \in Clients, Middleware(c) \/ Get(c) \/ UpdateChecks(c)
                                     \/ DeleteChecks(c)
         PROVE  [Atomic!StoreNext]_(Atomic!storeVars)
    <3>1. \/ UNCHANGED req
          \/ \E code \in Nat : Answer(c, code)
      BY <2>13 DEF Middleware, Get, UpdateChecks, DeleteChecks
    <3>2. UNCHANGED <<app, version>>
      BY <2>13 DEF Middleware, Get, UpdateChecks, DeleteChecks
    <3> QED BY <3>1, <3>2, <2>6 DEF Atomic!storeVars
  <2>14. ASSUME NEW c \in Clients, Create(c)
         PROVE  [Atomic!StoreNext]_(Atomic!storeVars)
    <3>1. CASE UNCHANGED <<app, version>>
      BY <2>14, <2>6, <3>1 DEF Create
    <3>2. CASE /\ ~HasInlineData(req[c].entries) /\ HasSources(req[c].entries)
               /\ ~Exists(app) /\ Store(req[c].entries) /\ Answer(c, 201)
      <4>1. \A n \in Names : req[c].entries[n].kind \in {"none", "ref"}
        BY <3>2 DEF HasInlineData, HasSources, Inv, Types, Request, Entry, Kinds
      <4>2. req[c].verb = "create"
        BY <2>14 DEF Create
      <4>3. req' = [req EXCEPT ![c] = NoRequest]
        BY <3>2, <4>2 DEF Answer
      <4>4. Atomic!ServeCreate(c)
        BY <3>2, <4>1, <4>2, <4>3, <2>0, <2>1, <2>2 DEF Atomic!ServeCreate
      <4> QED BY <4>4 DEF Atomic!StoreNext
    <3> QED BY <2>14, <3>1, <3>2 DEF Create
  <2>15. ASSUME NEW c \in Clients, UpdateApplies(c)
         PROVE  [Atomic!StoreNext]_(Atomic!storeVars)
    <3>1. CASE ~Accepts(c)
      BY <2>15, <2>6, <3>1 DEF UpdateApplies
    <3>2. CASE Accepts(c)
      <4>1. /\ req[c].verb = "update" /\ pc[c] = "apply"
            /\ Store(read[c].entries) /\ \E code \in Nat : Answer(c, code)
        BY <2>15, <3>2 DEF UpdateApplies
      <4>2. Checked(c)
        BY DEF Inv
      <4>3. /\ app.rv = req[c].rv /\ Exists(app)
            /\ read[c].entries = Atomic!Merge(app.entries, req[c].entries)
        BY <3>2, <4>1, <4>2 DEF Accepts, Checked, Atomic!Merge,
                               PreserveInlineSecretData
      <4>4. \A n \in Names : /\ req[c].entries[n].kind # "inline"
                             /\ read[c].entries[n].kind # "bare"
        BY <4>1, <4>2 DEF Checked, HasInlineData, HasSources
      <4>5. Atomic!ServeUpdate(c)
        BY <4>1, <4>3, <4>4, <2>0, <2>1, <2>2, <2>4 DEF Atomic!ServeUpdate
      <4> QED BY <4>5 DEF Atomic!StoreNext
    <3> QED BY <3>1, <3>2
  <2>16. ASSUME NEW c \in Clients, DeleteApplies(c)
         PROVE  [Atomic!StoreNext]_(Atomic!storeVars)
    <3>1. CASE ~Exists(app)
      BY <2>16, <2>6, <3>1 DEF DeleteApplies
    <3>2. CASE Exists(app)
      <4>1. req[c].verb = "delete" /\ Answer(c, 204)
        BY <2>16, <3>2 DEF DeleteApplies
      <4>2. req' = [req EXCEPT ![c] = NoRequest]
        BY <4>1 DEF Answer
      <4>3. (app' = Nothing /\ UNCHANGED version) \/ Store(app.entries)
        BY <2>16, <3>2 DEF DeleteApplies
      <4>4. Atomic!ServeDelete(c)
        BY <3>2, <4>1, <4>2, <4>3, <2>0, <2>1, <2>2 DEF Atomic!ServeDelete
      <4> QED BY <4>4 DEF Atomic!StoreNext
    <3> QED BY <3>1, <3>2
  <2> QED
    BY <2>7, <2>8, <2>9, <2>10, <2>11, <2>12, <2>13, <2>14, <2>15, <2>16 DEF Next
<1>3. Inv /\ [Next]_vars => Types'
  BY TypesInductive DEF Inv
<1> QED
  BY <1>1, <1>2, <1>3, InvInductive, PTL
  DEF Spec, ServesAtomically, Atomic!StoreSpec
-----------------------------------------------------------------------------
(* What is stored, shown and asked for. *)

(* The objects that may be stored, and those that may be shown: the sets
   TypeOK speaks of. *)
StoredObject == [rv : 0..MaxVersion, entries : [Names -> Entry \ {Bare}]]

ShownObject ==
  [rv : 0..MaxVersion, entries : [Names -> {e \in Entry : e.kind # "inline"}]]

BoundedRequest ==
  [verb : {"none", "get", "create", "update", "delete"}, rv : 0..MaxVersion,
   entries : [Names -> Entry]]

(* Nothing may be stored and shown, and NoRequest be asked for. *)
LEMMA NothingTypes ==
  /\ Nothing \in StoredObject /\ Nothing \in ShownObject
  /\ NoRequest \in BoundedRequest
  BY ConstantsAssumption
  DEF Nothing, NoRequest, None, Bare, Entry, Kinds, StoredObject, ShownObject,
      BoundedRequest

(* sanitizeAppDefinition leaves no inline data in what is shown. *)
LEMMA SanitizeShows ==
  ASSUME NEW a \in StoredObject
  PROVE  Sanitize(a) \in ShownObject
<1>1. Bare \in {e \in Entry : e.kind # "inline"}
  BY EntryTypes DEF Bare
<1> QED BY <1>1 DEF Sanitize, StoredObject, ShownObject

(* Entries that all have a source may be stored. *)
LEMMA SourcesStored ==
  ASSUME NEW e \in [Names -> Entry], HasSources(e)
  PROVE  e \in [Names -> Entry \ {Bare}]
<1>1. Bare.kind = "bare"
  BY DEF Bare
<1>2. \A n \in Names : e[n] \in Entry /\ e[n].kind # "bare"
  BY DEF HasSources
<1>3. \A n \in Names : e[n] \in Entry \ {Bare}
  BY <1>1, <1>2
<1> QED BY <1>3

(* Every variable keeps its type, whatever the interleaving: no answer of any
   handler shows inline data, and no write of any of them stores an entry
   without a source, although updateAppDefinition receives such entries and
   merges them with an object that others change. *)
THEOREM TypeCorrect == Spec => []TypeOK
<1>1. Init => TypeOK
  BY NothingTypes, ConstantsAssumption
  DEF Init, TypeOK, StoredObject, ShownObject, BoundedRequest
<1>2. TypeOK /\ [Next]_vars => TypeOK'
  <2> SUFFICES ASSUME TypeOK, [Next]_vars PROVE TypeOK'
    OBVIOUS
  <2> USE ConstantsAssumption, NothingTypes
  <2>a. /\ app \in StoredObject /\ version \in 0..MaxVersion
        /\ view \in [Clients -> ShownObject] /\ read \in [Clients -> StoredObject]
        /\ req \in [Clients -> BoundedRequest]
        /\ pc \in [Clients -> {"idle", "sent", "handler", "apply"}]
        /\ done \in [Clients -> Nat]
    BY DEF TypeOK, StoredObject, ShownObject, BoundedRequest
  <2>b. SUFFICES
        /\ app' \in StoredObject /\ version' \in 0..MaxVersion
        /\ view' \in [Clients -> ShownObject] /\ read' \in [Clients -> StoredObject]
        /\ req' \in [Clients -> BoundedRequest]
        /\ pc' \in [Clients -> {"idle", "sent", "handler", "apply"}]
        /\ done' \in [Clients -> Nat]
    BY DEF TypeOK, StoredObject, ShownObject, BoundedRequest
  <2>c. ASSUME NEW c \in Clients, NEW code \in Nat, Answer(c, code)
        PROVE  /\ req' \in [Clients -> BoundedRequest]
               /\ pc' \in [Clients -> {"idle", "sent", "handler", "apply"}]
               /\ read' \in [Clients -> StoredObject]
    BY <2>a, <2>c DEF Answer
  <2>d. ASSUME NEW e \in [Names -> Entry \ {Bare}], Store(e)
        PROVE  /\ app' \in StoredObject /\ version' \in 0..MaxVersion
               /\ Sanitize(app') \in ShownObject
    <3>1. version + 1 \in 0..MaxVersion
      BY <2>a, <2>d DEF Store
    <3>2. app' \in StoredObject /\ version' \in 0..MaxVersion
      BY <3>1, <2>d DEF Store, StoredObject
    <3> QED BY <3>2, SanitizeShows
  <2>e. app.entries \in [Names -> Entry \ {Bare}]
    BY <2>a DEF StoredObject
  <2>f. ASSUME NEW c \in Clients
        PROVE  /\ req[c].entries \in [Names -> Entry]
               /\ read[c].entries \in [Names -> Entry \ {Bare}]
    BY <2>a DEF StoredObject, BoundedRequest
  <2>1. CASE UNCHANGED vars
    BY <2>a, <2>1 DEF vars
  <2>2. CASE Controller
    BY <2>a, <2>2, <2>d, <2>e DEF Controller
  <2>3. CASE Removed
    BY <2>a, <2>3 DEF Removed
  <2>4. ASSUME NEW n \in Names, NEW d \in 0..MaxData, Kubectl(n, d)
        PROVE  <2>b!1
    <3> DEFINE i == [kind |-> "inline", data |-> d]
               e == [app.entries EXCEPT ![n] = IF d = 0 THEN None ELSE i]
    <3>1. None \in Entry \ {Bare} /\ i \in Entry /\ i.kind # Bare.kind
      BY EntryTypes DEF None, Bare, Entry, Kinds
    <3>2. e \in [Names -> Entry \ {Bare}]
      BY <3>1, <2>e
    <3>3. Store(e)
      BY <2>4 DEF Kubectl
    <3> QED BY <3>2, <3>3, <2>a, <2>d, <2>4 DEF Kubectl
  <2>5. ASSUME NEW c \in Clients,
               NEW verb \in {"get", "create", "update", "delete"},
               NEW n \in Names,
               NEW e \in {None, Ref, Bare, [kind |-> "inline", data |-> 1]},
               NEW v \in {0, view[c].rv}, Compose(c, verb, n, e, v)
        PROVE  <2>b!1
    <3> DEFINE base == IF verb = "update" THEN view[c].entries ELSE Nothing.entries
    <3>1. e \in Entry
      BY EntryTypes DEF Entry, Kinds
    <3>2. base \in [Names -> Entry] /\ v \in 0..MaxVersion
      BY <2>a DEF ShownObject
    <3>3. [verb |-> verb, rv |-> v, entries |-> [base EXCEPT ![n] = e]]
            \in BoundedRequest
      BY <3>1, <3>2 DEF BoundedRequest
    <3> QED BY <3>3, <2>a, <2>5 DEF Compose
  <2>6. ASSUME NEW c \in Clients, Resend(c) PROVE <2>b!1
    BY <2>a, <2>6 DEF Resend
  <2>7. ASSUME NEW c \in Clients, Middleware(c) PROVE <2>b!1
    BY <2>a, <2>c, <2>7 DEF Middleware
  <2>8. ASSUME NEW c \in Clients, Get(c) PROVE <2>b!1
    BY <2>a, <2>c, <2>8, SanitizeShows DEF Get
  <2>9. ASSUME NEW c \in Clients, Create(c) PROVE <2>b!1
    <3>1. HasSources(req[c].entries) =>
            req[c].entries \in [Names -> Entry \ {Bare}]
      BY <2>f, SourcesStored
    <3> QED BY <2>a, <2>c, <2>d, <2>9, <3>1 DEF Create
  <2>10. ASSUME NEW c \in Clients, UpdateChecks(c) PROVE <2>b!1
    <3>1. Merged(c) \in [Names -> Entry]
      BY <2>e, <2>f, PreserveType DEF Merged
    <3>2. Acceptable(c) => Merged(c) \in [Names -> Entry \ {Bare}]
      BY <3>1, SourcesStored DEF Acceptable
    <3>3. Acceptable(c) => [rv |-> app.rv, entries |-> Merged(c)] \in StoredObject
      BY <2>a, <3>2 DEF StoredObject
    <3> QED BY <2>a, <2>c, <2>10, <3>3 DEF UpdateChecks
  <2>11. ASSUME NEW c \in Clients, UpdateApplies(c) PROVE <2>b!1
    BY <2>a, <2>c, <2>d, <2>f, <2>11 DEF UpdateApplies
  <2>12. ASSUME NEW c \in Clients, DeleteChecks(c) PROVE <2>b!1
    BY <2>a, <2>c, <2>12 DEF DeleteChecks
  <2>13. ASSUME NEW c \in Clients, DeleteApplies(c) PROVE <2>b!1
    BY <2>a, <2>c, <2>d, <2>e, <2>13 DEF DeleteApplies
  <2> QED
    BY <2>1, <2>2, <2>3, <2>4, <2>5, <2>6, <2>7, <2>8, <2>9, <2>10, <2>11,
       <2>12, <2>13 DEF Next
<1> QED BY <1>1, <1>2, PTL DEF Spec

-----------------------------------------------------------------------------
(* A PUT that is sent again. *)

(* The versions clients have seen have been handed out. *)
VersionsSeen ==
  \A c \in Clients : view[c].rv <= version /\ req[c].rv <= version

(* A PUT that took effect and may still be repeated names a version that the
   object has left for good. *)
Spent(c) ==
  /\ done[c] \in {0, 1}
  /\ done[c] = 1 /\ req[c].verb = "update" => app.rv = 0 \/ app.rv > req[c].rv

(* The invariant behind AtMostOnce, next to Inv. *)
OnceInv == VersionsSeen /\ \A c \in Clients : Spent(c)

(* A lost answer costs nothing: updateAppDefinition refuses the repetition,
   because the write that was made gave the object a later version and no
   other write takes it back, a deletion and a new creation included. *)
THEOREM PutsApplyOnce == Spec => []AtMostOnce
<1> DEFINE DoneType == done \in [Clients -> Nat]
<1>1. Init => OnceInv /\ DoneType
  <2> SUFFICES ASSUME Init PROVE OnceInv /\ DoneType
    OBVIOUS
  <2>1. \A c \in Clients : /\ view[c].rv = 0 /\ req[c].rv = 0 /\ done[c] = 0
                           /\ req[c].verb = "none"
    BY DEF Init, Nothing, NoRequest
  <2>2. version = 0 /\ done \in [Clients -> Nat]
    BY DEF Init
  <2> QED BY <2>1, <2>2 DEF OnceInv, VersionsSeen, Spent
<1>2. Inv /\ OnceInv /\ DoneType /\ Types' /\ [Next]_vars => OnceInv' /\ DoneType'
  <2> SUFFICES ASSUME Inv, OnceInv, DoneType, Types', [Next]_vars
               PROVE  OnceInv' /\ DoneType'
    OBVIOUS
  <2>a. /\ version \in Nat /\ app.rv \in Nat /\ app.rv <= version
        /\ version' \in Nat /\ app'.rv \in Nat
        /\ req \in [Clients -> Request] /\ pc \in [Clients -> {"idle", "sent", "handler", "apply"}]
        /\ view \in [Clients -> Object] /\ done \in [Clients -> Nat]
        /\ \A c \in Clients : view[c].rv \in Nat /\ req[c].rv \in Nat
        /\ app \in Object
    BY DEF Inv, Types, VersionsKnown, Object, Request
  <2>b. ASSUME NEW c \in Clients PROVE view[c].rv <= version /\ req[c].rv <= version /\ Spent(c)
    BY DEF OnceInv, VersionsSeen
  (* The object stays, goes, or gets a version later than any other. *)
  <2> DEFINE Moves == \/ UNCHANGED <<app, version>>
                      \/ app'.rv = 0 /\ UNCHANGED version
                      \/ app'.rv = version + 1 /\ version' = version + 1
  <2>c. ASSUME NEW e, Store(e) PROVE Moves
    BY <2>c DEF Store
  <2>d. app' = Nothing /\ UNCHANGED version => Moves
    BY DEF Nothing
  <2>e. ASSUME NEW c \in Clients, Moves, req'[c] = req[c], done'[c] = done[c]
        PROVE  req'[c].rv <= version' /\ Spent(c)'
    BY <2>a, <2>b, <2>e DEF Spent
  <2>f. ASSUME NEW c \in Clients, Moves, view'[c] = view[c] PROVE view'[c].rv <= version'
    BY <2>a, <2>b, <2>f
  <2>g. NoRequest.rv = 0 /\ NoRequest.verb = "none"
    BY DEF NoRequest
  (* An answer: the request is as it was or gone. *)
  <2>h. ASSUME NEW c \in Clients, NEW code \in Nat, Answer(c, code), Moves,
               UNCHANGED done
        PROVE  \A d \in Clients : req'[d].rv <= version' /\ Spent(d)'
    <3> SUFFICES ASSUME NEW d \in Clients PROVE req'[d].rv <= version' /\ Spent(d)'
      OBVIOUS
    <3>1. req'[d] = req[d] \/ req'[d] = NoRequest
      BY <2>a, <2>h DEF Answer
    <3>2. CASE req'[d] = NoRequest
      BY <3>2, <2>a, <2>b, <2>g, <2>h DEF Spent
    <3> QED BY <3>1, <3>2, <2>e, <2>h
  <2>i. app \in Object => Sanitize(app).rv <= version
    BY <2>a, SanitizeType
  <2>j. ASSUME NEW e, Store(e) PROVE Sanitize(app').rv <= version'
    BY <2>j, <2>a, SanitizeType DEF Store, Types
  <2>1. CASE UNCHANGED vars
    BY <2>1, <2>b DEF vars, OnceInv, VersionsSeen, Spent
  <2>2. CASE Controller
    BY <2>2, <2>c, <2>e, <2>f DEF Controller, OnceInv, VersionsSeen
  <2>3. CASE Removed
    BY <2>3, <2>d, <2>e, <2>f DEF Removed, OnceInv, VersionsSeen
  <2>4. ASSUME NEW n \in Names, NEW d \in 0..MaxData, Kubectl(n, d)
        PROVE  OnceInv' /\ DoneType'
    BY <2>4, <2>c, <2>e, <2>f DEF Kubectl, OnceInv, VersionsSeen
  <2>5. ASSUME NEW c \in Clients, NEW verb, NEW n, NEW e, NEW v \in {0, view[c].rv},
               Compose(c, verb, n, e, v)
        PROVE  OnceInv' /\ DoneType'
    <3>1. /\ UNCHANGED <<app, version, view>> /\ Moves
          /\ done' = [done EXCEPT ![c] = 0]
          /\ req' = [req EXCEPT ![c] = req'[c]] /\ req'[c].rv = v
      BY <2>5, <2>a DEF Compose
    <3>2. Spent(c)' /\ req'[c].rv <= version' /\ DoneType'
      BY <3>1, <2>a, <2>b DEF Spent
    <3>3. ASSUME NEW d \in Clients, d # c PROVE Spent(d)' /\ req'[d].rv <= version'
      BY <3>1, <3>3, <2>a, <2>e
    <3>4. \A d \in Clients : view'[d].rv <= version'
      BY <3>1, <2>f
    <3> QED BY <3>2, <3>3, <3>4 DEF OnceInv, VersionsSeen
  <2>6. ASSUME NEW c \in Clients, Resend(c) PROVE OnceInv' /\ DoneType'
    BY <2>6, <2>e, <2>f DEF Resend, OnceInv, VersionsSeen
  <2>7. ASSUME NEW c \in Clients, Middleware(c) \/ UpdateChecks(c) \/ DeleteChecks(c)
                                    \/ DeleteApplies(c)
        PROVE  OnceInv' /\ DoneType'
    <3>1. UNCHANGED req \/ \E code \in Nat : Answer(c, code)
      BY <2>7 DEF Middleware, UpdateChecks, DeleteChecks, DeleteApplies
    <3>2. Moves
      BY <2>7, <2>c, <2>d DEF Middleware, UpdateChecks, DeleteChecks, DeleteApplies
    <3>3. UNCHANGED <<view, done>>
      BY <2>7 DEF Middleware, UpdateChecks, DeleteChecks, DeleteApplies
    <3>4. \A d \in Clients : req'[d].rv <= version' /\ Spent(d)'
      BY <3>1, <3>2, <3>3, <2>e, <2>h
    <3> QED BY <3>2, <3>3, <3>4, <2>f DEF OnceInv, VersionsSeen
  <2>8. ASSUME NEW c \in Clients, Get(c) \/ Create(c) PROVE OnceInv' /\ DoneType'
    <3>1. (\E code \in Nat : Answer(c, code)) /\ UNCHANGED done
      BY <2>8 DEF Get, Create
    <3>2. Moves
      BY <2>8, <2>c DEF Get, Create
    <3>3. \/ UNCHANGED view
          \/ /\ Sanitize(app').rv <= version'
             /\ view' = [view EXCEPT ![c] = Sanitize(app')]
      BY <2>8, <2>a, <2>i, <2>j DEF Get, Create
    <3>4. \A d \in Clients : view'[d].rv <= version'
      BY <3>2, <3>3, <2>a, <2>f
    <3>5. \A d \in Clients : req'[d].rv <= version' /\ Spent(d)'
      BY <3>1, <3>2, <2>h
    <3> QED BY <3>1, <3>4, <3>5 DEF OnceInv, VersionsSeen
  <2>9. ASSUME NEW c \in Clients, UpdateApplies(c) PROVE OnceInv' /\ DoneType'
    <3>1. CASE ~Accepts(c)
      <4>1. UNCHANGED <<app, version, view, done>> /\ \E code \in Nat : Answer(c, code)
        BY <2>9, <3>1 DEF UpdateApplies
      <4>2. \A d \in Clients : req'[d].rv <= version' /\ Spent(d)'
        BY <4>1, <2>h
      <4> QED BY <4>1, <4>2, <2>f DEF OnceInv, VersionsSeen
    <3>2. CASE Accepts(c)
      <4>1. /\ pc[c] = "apply" /\ req[c].verb = "update"
            /\ Store(read[c].entries) /\ done' = [done EXCEPT ![c] = @ + 1]
            /\ \E code \in Nat : Answer(c, code)
        BY <2>9, <3>2 DEF UpdateApplies
      <4>2. Checked(c)
        BY DEF Inv
      <4>3. app.rv = req[c].rv /\ app.rv # 0
        BY <3>2, <4>1, <4>2 DEF Accepts, Checked
      (* So this is the first time. *)
      <4>4. done[c] = 0
        BY <4>1, <4>3, <2>a, <2>b DEF Spent
      <4>5. app'.rv = version + 1 /\ version' = version + 1
        BY <4>1 DEF Store
      <4>6. done'[c] = 1 /\ DoneType'
        BY <4>1, <4>4, <2>a
      <4>7. \A d \in Clients : d # c => done'[d] = done[d] /\ req'[d] = req[d]
        BY <4>1, <2>a DEF Answer
      <4>8. req'[c] = req[c] \/ req'[c] = NoRequest
        BY <4>1, <2>a DEF Answer
      <4>9. Spent(c)' /\ req'[c].rv <= version'
        BY <4>5, <4>6, <4>8, <2>a, <2>b, <2>g DEF Spent
      <4>10. ASSUME NEW d \in Clients, d # c PROVE Spent(d)' /\ req'[d].rv <= version'
        BY <4>10, <4>5, <4>7, <2>e
      <4>11. \/ UNCHANGED view
             \/ view' = [view EXCEPT ![c] = Sanitize(app')]
        BY <2>9, <3>2 DEF UpdateApplies
      <4>12. \A d \in Clients : view'[d].rv <= version'
        BY <4>1, <4>5, <4>11, <2>a, <2>f, <2>j
      <4> QED BY <4>6, <4>9, <4>10, <4>12 DEF OnceInv, VersionsSeen
    <3> QED BY <3>1, <3>2
  <2> QED
    BY <2>1, <2>2, <2>3, <2>4, <2>5, <2>6, <2>7, <2>8, <2>9 DEF Next
<1>3. OnceInv => AtMostOnce
  <2> SUFFICES ASSUME OnceInv, NEW c \in Clients PROVE done[c] <= 1
    BY DEF AtMostOnce
  <2>1. done[c] = 0 \/ done[c] = 1
    BY DEF OnceInv, Spent
  <2> QED BY <2>1
<1>4. Inv /\ [Next]_vars => Types'
  BY TypesInductive DEF Inv
<1> QED BY <1>1, <1>2, <1>3, <1>4, InvInductive, PTL DEF Spec
=============================================================================
