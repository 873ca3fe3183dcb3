----------------------------- MODULE ApiServer -----------------------------
(***************************************************************************)
(* The REST API in front of the AppDefinitions: the handlers of            *)
(* internal/apiserver, run for several clients at once, next to kubectl    *)
(* and the controller, who write the same object.                          *)
(*                                                                         *)
(* One AppDefinition is modelled.  Its spec is reduced to spec.secrets,    *)
(* the part the handlers look into: entry n is absent ("none"), refers to  *)
(* an existing Secret ("ref"), or carries inline data ("inline").  In a    *)
(* request an entry may also come without either ("bare"), which is how    *)
(* sanitizeAppDefinition shows inline entries.  A client edits the view    *)
(* it was last given; while a request is open it may lose the answer, and  *)
(* it may send the same request again.                                     *)
(***************************************************************************)
EXTENDS Naturals, TLC

CONSTANTS
  Clients,     \* users of the REST API
  Names,       \* names of entries of spec.secrets
  MaxVersion,  \* bound: versions the object goes through
  MaxData      \* bound: versions of inline data

ASSUME ConstantsAssumption ==
  MaxVersion \in Nat \ {0} /\ MaxData \in Nat \ {0}

Kinds == {"none", "ref", "inline", "bare"}
Entry == [kind : Kinds, data : 0..MaxData]

None == [kind |-> "none", data |-> 0]
Ref  == [kind |-> "ref", data |-> 0]
Bare == [kind |-> "bare", data |-> 0]

VARIABLES
  app,      \* the stored object: resourceVersion (0: absent) and entries
  version,  \* the last resourceVersion handed out
  view,     \* per client: the object as last shown to it
  req,      \* per client: the request under way, or one worth repeating
  pc,       \* per client: where its request is
  read,     \* per client: existing, as the handler read it
  done      \* per client: how often its PUT took effect

vars == <<app, version, view, req, pc, read, done>>

Nothing == [rv |-> 0, entries |-> [n \in Names |-> None]]
NoRequest == [verb |-> "none", rv |-> 0, entries |-> Nothing.entries]

Exists(a) == a.rv # 0

Init ==
  /\ app = Nothing /\ version = 0
  /\ view = [c \in Clients |-> Nothing]
  /\ req = [c \in Clients |-> NoRequest]
  /\ pc = [c \in Clients |-> "idle"]
  /\ read = [c \in Clients |-> Nothing]
  /\ done = [c \in Clients |-> 0]

-----------------------------------------------------------------------------
(* Kubernetes and the others who write to it. *)

(* A write is accepted and makes a new version. *)
Store(entries) ==
  /\ version < MaxVersion
  /\ version' = version + 1
  /\ app' = [rv |-> version + 1, entries |-> entries]

(* kubectl declares entry n with inline data, or drops it. *)
Kubectl(n, d) ==
  /\ Exists(app)
  /\ Store([app.entries EXCEPT ![n] = IF d = 0 THEN None
                                      ELSE [kind |-> "inline", data |-> d]])
  /\ UNCHANGED <<view, req, pc, read, done>>

(* The controller writes a status or the finalizer. *)
Controller ==
  /\ Exists(app)
  /\ Store(app.entries)
  /\ UNCHANGED <<view, req, pc, read, done>>

(* The object goes: it was deleted, by kubectl or through the API, and the
   controller has taken its finalizer off. *)
Removed ==
  /\ Exists(app)
  /\ app' = Nothing
  /\ UNCHANGED <<version, view, req, pc, read, done>>

-----------------------------------------------------------------------------
(* A client. *)

(* It composes a new request: a read, a creation from scratch, a deletion, or
   an update of its view in one entry. The UI sends the version it has. *)
Compose(c, verb, n, e, v) ==
  LET base == IF verb = "update" THEN view[c].entries ELSE Nothing.entries IN
  /\ pc[c] = "idle"
  /\ v \in {0, view[c].rv}
  /\ verb \in {"get", "delete"} => e = None /\ v = 0
  /\ verb = "create" => v = 0
  /\ verb = "update" => Exists(view[c])
  /\ req' = [req EXCEPT ![c] = [verb |-> verb, rv |-> v,
                                entries |-> [base EXCEPT ![n] = e]]]
  /\ done' = [done EXCEPT ![c] = 0]
  /\ pc' = [pc EXCEPT ![c] = "sent"]
  /\ UNCHANGED <<app, version, view, read>>

(* It never saw the answer, or an error, and sends the same request again. *)
Resend(c) ==
  /\ pc[c] = "idle" /\ req[c].verb = "update"
  /\ pc' = [pc EXCEPT ![c] = "sent"]
  /\ UNCHANGED <<app, version, view, req, read, done>>

-----------------------------------------------------------------------------
(* The handlers. *)

(* The status code ends the request. The client only knows that a PUT may be
   worth repeating if the server failed. *)
Answer(c, code) ==
  /\ pc' = [pc EXCEPT ![c] = "idle"]
  /\ read' = [read EXCEPT ![c] = Nothing]
  /\ IF code >= 500 /\ req[c].verb = "update"
     THEN UNCHANGED req
     ELSE req' = [req EXCEPT ![c] = NoRequest]

(* Faulty variant: the copy still carries the data. *)
SanitizeNothing(a) == a

(* sanitizeAppDefinition: inline entries are shown without their data. *)
Sanitize(a) ==
  [a EXCEPT !.entries = [n \in Names |-> IF a.entries[n].kind = "inline"
                                         THEN Bare ELSE a.entries[n]]]

(* The middleware before every handler: the rate limit, TokenReview and
   SubjectAccessReview. Each can end the request, and an unavailable review
   ends it too. *)
Middleware(c) ==
  /\ pc[c] = "sent"
  /\ \/ pc' = [pc EXCEPT ![c] = "handler"] /\ UNCHANGED <<read, req>>
     \/ \E code \in {401, 403, 429, 503} : Answer(c, code)
  /\ UNCHANGED <<app, version, view, done>>

(* getAppDefinition and the lists. *)
Get(c) ==
  /\ pc[c] = "handler" /\ req[c].verb = "get"
  /\ IF Exists(app)
     THEN Answer(c, 200) /\ view' = [view EXCEPT ![c] = Sanitize(app)]
     ELSE Answer(c, 404) /\ UNCHANGED view
  /\ UNCHANGED <<app, version, done>>

(* rejectInlineSecretData. *)
HasInlineData(entries) == \E n \in Names : entries[n].kind = "inline"

(* requireSecretSources. *)
HasSources(entries) == \A n \in Names : entries[n].kind # "bare"

Create(c) ==
  LET entries == req[c].entries IN
  /\ pc[c] = "handler" /\ req[c].verb = "create"
  /\ \/ /\ HasInlineData(entries) \/ ~HasSources(entries)
        /\ Answer(c, 422) /\ UNCHANGED <<app, version, view>>
     \/ /\ ~HasInlineData(entries) /\ HasSources(entries) /\ Exists(app)
        /\ Answer(c, 409) /\ UNCHANGED <<app, version, view>>
     \/ /\ ~HasInlineData(entries) /\ HasSources(entries) /\ ~Exists(app)
        /\ Store(entries)
        /\ Answer(c, 201) /\ view' = [view EXCEPT ![c] = Sanitize(app')]
  /\ UNCHANGED done

(* Faulty variant: bare entries get empty data, not the stored data. *)
PreserveEmptyData(existing, entries) ==
  [n \in Names |-> IF entries[n].kind = "bare" /\ existing[n].kind = "inline"
                   THEN [kind |-> "inline", data |-> 0] ELSE entries[n]]

(* preserveInlineSecretData: a bare entry keeps the data stored for it. *)
PreserveInlineSecretData(existing, entries) ==
  [n \in Names |-> IF entries[n].kind = "bare" /\ existing[n].kind = "inline"
                   THEN existing[n] ELSE entries[n]]

(* Faulty variant: the client's version is not compared. *)
SameVersionAlways(c) == TRUE

(* update.ResourceVersion = existing.ResourceVersion. *)
SameVersion(c) == req[c].rv = app.rv

(* The entries as updateAppDefinition would store them. *)
Merged(c) == PreserveInlineSecretData(app.entries, req[c].entries)

Acceptable(c) == ~HasInlineData(req[c].entries) /\ HasSources(Merged(c))

(* updateAppDefinition up to its Update: read the object, check the request
   against it, and merge. *)
UpdateChecks(c) ==
  /\ pc[c] = "handler" /\ req[c].verb = "update"
  /\ \/ ~Exists(app) /\ Answer(c, 404)
     \/ Exists(app) /\ req[c].rv = 0 /\ Answer(c, 428)
     \/ /\ Exists(app) /\ req[c].rv # 0 /\ ~SameVersion(c)
        /\ Answer(c, 409)
     \/ /\ Exists(app) /\ req[c].rv # 0 /\ SameVersion(c) /\ ~Acceptable(c)
        /\ Answer(c, 422)
     \/ /\ Exists(app) /\ req[c].rv # 0 /\ SameVersion(c) /\ Acceptable(c)
        /\ pc' = [pc EXCEPT ![c] = "apply"]
        /\ read' = [read EXCEPT ![c] = [rv |-> app.rv, entries |-> Merged(c)]]
        /\ UNCHANGED req
  /\ UNCHANGED <<app, version, view, done>>

(* Faulty variant: the update is sent without a resourceVersion. *)
AcceptsAnyVersion(c) == Exists(app)

(* Kubernetes accepts the update of the version the handler read. *)
Accepts(c) == Exists(app) /\ app.rv = read[c].rv

(* s.client.Update. The answer may be lost after the write was made. *)
UpdateApplies(c) ==
  /\ pc[c] = "apply" /\ req[c].verb = "update"
  /\ IF Accepts(c)
     THEN /\ Store(read[c].entries)
          /\ done' = [done EXCEPT ![c] = @ + 1]
          /\ \/ Answer(c, 200) /\ view' = [view EXCEPT ![c] = Sanitize(app')]
             \/ Answer(c, 500) /\ UNCHANGED view
     ELSE /\ Answer(c, IF Exists(app) THEN 409 ELSE 404)
          /\ UNCHANGED <<app, version, view, done>>

(* deleteAppDefinition: Get, then Delete of whatever has the name by then. The
   object is gone at once if the controller had not yet put its finalizer on,
   and otherwise gets a new version, with a deletionTimestamp. *)
DeleteChecks(c) ==
  /\ pc[c] = "handler" /\ req[c].verb = "delete"
  /\ IF Exists(app) THEN pc' = [pc EXCEPT ![c] = "apply"] /\ UNCHANGED <<read, req>>
                    ELSE Answer(c, 404)
  /\ UNCHANGED <<app, version, view, done>>

DeleteApplies(c) ==
  /\ pc[c] = "apply" /\ req[c].verb = "delete"
  /\ \/ /\ Exists(app) /\ Answer(c, 204)
        /\ app' = Nothing /\ UNCHANGED version
     \/ Exists(app) /\ Answer(c, 204) /\ Store(app.entries)
     \/ ~Exists(app) /\ Answer(c, 404) /\ UNCHANGED <<app, version>>
  /\ UNCHANGED <<view, done>>

-----------------------------------------------------------------------------

Next ==
  \/ Controller \/ Removed
  \/ \E n \in Names, d \in 0..MaxData : Kubectl(n, d)
  \/ \E c \in Clients :
       \/ \E verb \in {"get", "create", "update", "delete"}, n \in Names,
             e \in {None, Ref, Bare, [kind |-> "inline", data |-> 1]},
             v \in {0, view[c].rv} : Compose(c, verb, n, e, v)
       \/ Resend(c) \/ Middleware(c) \/ Get(c) \/ Create(c)
       \/ UpdateChecks(c) \/ UpdateApplies(c)
       \/ DeleteChecks(c) \/ DeleteApplies(c)

Spec == Init /\ [][Next]_vars

(* Clients are interchangeable. *)
Symmetry == Permutations(Clients)

-----------------------------------------------------------------------------
(* Properties. *)

(* Every variable keeps its type; in particular no view, whichever handler
   answered, holds inline data, and no stored entry is without a source. *)
TypeOK ==
  LET Stored == [rv : 0..MaxVersion, entries : [Names -> Entry \ {Bare}]]
      Shown  == [rv : 0..MaxVersion,
                 entries : [Names -> {e \in Entry : e.kind # "inline"}]] IN
  /\ app \in Stored /\ version \in 0..MaxVersion
  /\ view \in [Clients -> Shown] /\ read \in [Clients -> Stored]
  /\ req \in [Clients -> [verb : {"none", "get", "create", "update", "delete"},
                          rv : 0..MaxVersion, entries : [Names -> Entry]]]
  /\ pc \in [Clients -> {"idle", "sent", "handler", "apply"}]
  /\ done \in [Clients -> Nat]

(* A PUT only takes effect on the version its client was looking at: nobody's
   change in between, kubectl's and the controller's included, is overwritten,
   although the handler's check and its write are two separate calls. *)
NoLostUpdate ==
  [][\A c \in Clients :
       UpdateApplies(c) /\ app' # app => app.rv = req[c].rv]_vars

(* The data of an inline entry, which no client can see, survives every PUT
   that does not drop the entry or turn it into a reference. *)
InlineSurvives ==
  [][\A c \in Clients, n \in Names :
       UpdateApplies(c) /\ app' # app /\ app.entries[n].kind = "inline"
         /\ req[c].entries[n].kind \notin {"none", "ref"}
       => app'.entries[n] = app.entries[n]]_vars

(* What the API promises; an open request is one its client may still repeat. *)
Atomic == INSTANCE AppStore WITH asked <- req

(* The handlers, whose checks, merging and writes are calls of their own with
   other writers in between, implement the atomic requests of AppStore: each
   takes effect in one step, on the object as it is then, or not at all. *)
ServesAtomically == Atomic!StoreSpec

(* A PUT that is sent again because its answer was lost takes effect once. *)
AtMostOnce == \A c \in Clients : done[c] <= 1
=============================================================================
