------------------------------- MODULE UiForm -------------------------------
(***************************************************************************)
(* The edit form of the web UI (ui/src/pages/AppForm.tsx) in one browser,  *)
(* on top of the REST API as AppStore specifies it, which ApiServer        *)
(* implements.                                                             *)
(*                                                                         *)
(* The browser keeps the object in react-query's cache (existing), from    *)
(* which the form is filled, and fetches it again whenever it likes.  Each *)
(* member of Clients is a connection of the browser: a save that the       *)
(* browser has given up on may still be served while the user saves again. *)
(* Everybody else who writes the object takes steps of AppStore.           *)
(*                                                                         *)
(* A field of several kinds (Flattened and Switched, say) stands for a     *)
(* group of fields, of which the value tells the one that matters.         *)
(***************************************************************************)
EXTENDS AppStore, TLC

CONSTANTS
  Hidden,    \* fields of the spec the form has no input for
  Filled,    \* fields whose input shows a default where the spec has nothing
  Flattened, \* fields whose input cannot show every value: command and args
             \* as one text, env without valueFrom, a remoteRef's version
  Switched   \* sections sent only while they are on: autoscaling, the
             \* metrics of a port, a partition, which is on with a subPath

ASSUME ConstantsAssumption ==
  /\ Hidden \subseteq Names
  /\ Filled \cup Flattened \cup Switched \subseteq Names \ Hidden
  /\ Filled \cap Switched = {}
  /\ MaxVersion \in Nat \ {0} /\ MaxData \in Nat \ {0}

Shown == Names \ Hidden

VARIABLES
  page,      \* "away", or "edit": the form is mounted
  existing,  \* data of the query, Nothing: undefined
  fetched,   \* the answer of a fetch under way, Nothing: no fetch
  form,      \* FormValues
  typed,     \* history: inputs the user has changed since the form was filled
  saving,    \* the connection of the pending mutation, or NoClient
  meant      \* history, per connection: typed, when its request was sent

uiVars == <<page, existing, fetched, form, typed, saving, meant>>
vars == <<storeVars, uiVars>>

NoClient == "none"

ASSUME ClientsAssumption == NoClient \notin Clients

(* Faulty variant: the API shows the inline data. *)
NotSanitized(a) == a

(* The object as the API shows it: no inline data. *)
Sanitized(a) ==
  [a EXCEPT !.entries = [n \in Names |-> IF a.entries[n].kind = "inline"
                                         THEN Bare ELSE a.entries[n]]]

(* A value with more to it than its input shows: a list in which an element
   has a blank, as in ["sh", "-c", "echo hi"]; an env entry with valueFrom. *)
Rich == [kind |-> "rich", data |-> 0]

(* A section that is there and switched off: "enabled: false". *)
Off == [kind |-> "off", data |-> 0]

(* What the input of field n shows for value e. "p.expose ?? true" is true for
   the false that Go leaves out of its JSON; join(' ') makes the text of a
   list without blanks of every list; a section that is missing is shown like
   one that is off. *)
Input(n, e) ==
  CASE n \in Filled /\ e = None    -> Ref
    [] n \in Flattened /\ e = Rich -> Ref
    [] n \in Switched /\ e = None  -> Off
    [] OTHER                       -> e

(* What buildSpec makes of the input: split(/\s+/) makes a list without blanks
   of every text, and a section that is off is left out. *)
Output(n, e) == IF n \in Switched /\ e = Off THEN None ELSE e

(* appToForm: every field but the hidden ones has an input. *)
AppToForm(a) == [n \in Shown |-> Input(n, a.entries[n])]

(* buildSpec: the spec is made of the inputs alone. *)
BuildSpec(f) == [n \in Names |-> IF n \in Shown THEN Output(n, f[n]) ELSE None]

Init ==
  /\ StoreInit
  /\ page = "away" /\ existing = Nothing /\ fetched = Nothing
  /\ form = AppToForm(Nothing) /\ typed = {}
  /\ saving = NoClient /\ meant = [c \in Clients |-> {}]

-----------------------------------------------------------------------------
(* The others. *)

(* kubectl or another user creates the object, perhaps not for the first time. *)
Created(entries) ==
  /\ ~Exists(app) /\ Write(entries)
  /\ UNCHANGED <<asked, uiVars>>

Others ==
  \/ \E entries \in [Names -> {None, Ref}] : Created(entries)
  \/ /\ \/ Touched \/ Removed
        \/ \E n \in Names, e \in {None, Ref} : Outside(n, e)
        \/ \E n \in Shown \ Filled : Outside(n, Inline(1))
        \/ \E n \in Flattened : Outside(n, Rich)
        \/ \E n \in Switched : Outside(n, Off)
     /\ UNCHANGED uiVars

-----------------------------------------------------------------------------
(* The query. *)

FetchReads ==
  /\ fetched = Nothing /\ Exists(app)
  /\ fetched' = Sanitized(app)
  /\ UNCHANGED <<storeVars, page, existing, form, typed, saving, meant>>

FetchFails ==
  /\ fetched # Nothing /\ fetched' = Nothing
  /\ UNCHANGED <<storeVars, page, existing, form, typed, saving, meant>>

(* Faulty variant: the form is filled once, when the first data is there. *)
RefillsOnce(old, new) == old = Nothing

(* useEffect(..., [existing]): new data fills the form again. *)
Refills(old, new) == old # new

(* The query gets its data. The effect runs before the user's next event. *)
FetchArrives ==
  /\ fetched # Nothing
  /\ existing' = fetched /\ fetched' = Nothing
  /\ IF page = "edit" /\ Refills(existing, fetched)
     THEN form' = AppToForm(fetched) /\ typed' = {}
     ELSE UNCHANGED <<form, typed>>
  /\ UNCHANGED <<storeVars, page, saving, meant>>

(* Unused data leaves the cache, or the browser is reloaded. *)
Forget ==
  /\ page = "away" /\ existing # Nothing /\ existing' = Nothing
  /\ UNCHANGED <<storeVars, page, fetched, form, typed, saving, meant>>

-----------------------------------------------------------------------------
(* The user. *)

OpenForm ==
  /\ page = "away" /\ page' = "edit"
  /\ form' = AppToForm(existing) /\ typed' = {}
  /\ UNCHANGED <<storeVars, existing, fetched, saving, meant>>

Blank == form' = AppToForm(Nothing) /\ typed' = {}

LeaveForm ==
  /\ page = "edit" /\ page' = "away" /\ Blank
  /\ UNCHANGED <<storeVars, existing, fetched, saving, meant>>

(* An input is changed: an entry of spec.secrets may be left without a
   secretRef, a section is switched off and not removed. Without data there is
   no form, or one that lacks the name. *)
Type(n, e) ==
  /\ page = "edit" /\ Exists(existing) /\ n \in Shown /\ form[n] # e
  /\ e = Bare => n \notin Filled
  /\ e = Off => n \in Switched
  /\ e = None => n \notin Switched
  /\ form' = [form EXCEPT ![n] = e] /\ typed' = typed \cup {n}
  /\ UNCHANGED <<storeVars, page, existing, fetched, saving, meant>>

(* onSubmit. *)
Submit(c) ==
  /\ page = "edit" /\ Exists(existing) /\ saving = NoClient
  /\ asked[c] = NoRequest
  /\ Ask(c, [verb |-> "update", rv |-> existing.rv, entries |-> BuildSpec(form)])
  /\ saving' = c /\ meant' = [meant EXCEPT ![c] = typed]
  /\ UNCHANGED <<page, existing, fetched, form, typed>>

-----------------------------------------------------------------------------
(* How a save ends. *)

(* The request is over, and so is what the user meant by it. *)
Over(c) ==
  /\ asked'[c] = NoRequest
  /\ meant' = [meant EXCEPT ![c] = {}]

(* onSuccess: the queries are invalidated, which drops the fetch under way,
   and the browser goes to the page of the app. *)
Saved(c) ==
  /\ saving = c
  /\ ServeUpdate(c) /\ Over(c)
  /\ saving' = NoClient
  /\ page' = "away" /\ Blank
  /\ fetched' = IF page = "edit" THEN Nothing ELSE fetched
  /\ UNCHANGED existing

(* The server serves a save, and the browser does not, or not yet, know. *)
ServedUnseen(c) ==
  /\ ServeUpdate(c) /\ asked' = asked
  /\ UNCHANGED uiVars

(* An error answer. The page stays, with an alert. Besides the conflicts and
   the missing sources that AppStore does not serve, decodeJSONBody refuses
   the fields it does not know: those that buildContainer makes of container
   resources, for one, unless the user has rewritten their input. *)
SaveFails(c) ==
  /\ asked[c] # NoRequest
  /\ Ask(c, NoRequest) /\ Over(c)
  /\ saving' = IF saving = c THEN NoClient ELSE saving
  /\ UNCHANGED <<page, existing, fetched, form, typed>>

(* The connection breaks. The server may not have noticed. *)
GiveUp ==
  /\ saving # NoClient /\ saving' = NoClient
  /\ UNCHANGED <<storeVars, page, existing, fetched, form, typed, meant>>

-----------------------------------------------------------------------------

Next ==
  \/ Others
  \/ FetchReads \/ FetchFails \/ FetchArrives \/ Forget
  \/ OpenForm \/ LeaveForm
  \/ \E n \in Names, e \in {None, Ref, Bare, Off} : Type(n, e)
  \/ \E c \in Clients :
       Submit(c) \/ Saved(c) \/ ServedUnseen(c) \/ SaveFails(c)
  \/ GiveUp

Spec == Init /\ [][Next]_vars

(* Connections are interchangeable. *)
Symmetry == Permutations(Clients)

-----------------------------------------------------------------------------
(* Properties. *)

(* Every variable keeps its type; the browser never holds inline data, and
   never counts as typed what the form has no input for. *)
TypeOK ==
  LET Stored == {None, Ref, Rich, Off} \cup {Inline(d) : d \in 0..MaxData}
      Seen   == {None, Ref, Rich, Off, Bare}
      Object(E) == [rv : 0..MaxVersion, entries : [Names -> E]] IN
  /\ app \in Object(Stored) /\ version \in 0..MaxVersion
  /\ asked \in [Clients -> [verb : {"none", "update"}, rv : 0..MaxVersion,
                            entries : [Names -> Seen]]]
  /\ page \in {"away", "edit"}
  /\ existing \in Object(Seen) /\ fetched \in Object(Seen)
  /\ form \in [Shown -> Seen] /\ typed \subseteq Shown
  /\ saving \in Clients \cup {NoClient} /\ meant \in [Clients -> SUBSET Shown]

(* A save, whenever it is served, changes a field its user had not typed in
   only where the form cannot give back what it was filled with, and then in
   one way: what the form does not show goes, as does a section that is off; a
   default that is shown for nothing, and the plain list that the text of a
   richer one reads as, are written. All else that others have written since,
   and inline data the browser never saw, stays. The resourceVersion that is
   sent and the inputs are of the same object, although a fetch in the
   background replaces the one without asking. *)
OnlyTypedChanges ==
  [][\A c \in Clients, n \in Names :
       asked[c].verb = "update" /\ ServeUpdate(c) /\ n \notin meant[c]
         => LET old == app.entries[n]
                new == app'.entries[n] IN
            \/ new = old
            \/ n \in Hidden /\ new = None
            \/ n \in Filled /\ old = None /\ new = Ref
            \/ n \in Flattened /\ old = Rich /\ new = Ref
            \/ n \in Switched /\ old = Off /\ new = None]_vars
=============================================================================
