------------------------------ MODULE AppStore ------------------------------
(***************************************************************************)
(* What the REST API promises its clients about one AppDefinition: every   *)
(* request that changes it takes effect in one step, on the object as it   *)
(* is at that step, or not at all.  An update names the version it was     *)
(* made from and is served only while that version is the stored one, and  *)
(* inline data the client was not shown stays as it is.                    *)
(*                                                                         *)
(* ApiServer is shown to implement this specification, and UiForm is built *)
(* on it.  The fields of the spec that matter are called Names; a field is *)
(* absent, has a value everybody may see ("ref"), or is an entry of        *)
(* spec.secrets with inline data, which the API shows as "bare".           *)
(***************************************************************************)
EXTENDS Naturals

CONSTANTS
  Clients,     \* users of the REST API
  Names,       \* fields of the spec
  MaxVersion,  \* bound: versions the object goes through
  MaxData      \* bound: versions of inline data

VARIABLES
  app,      \* the stored object: resourceVersion (0: absent) and fields
  version,  \* the last resourceVersion handed out
  asked     \* per client: the request that is open

storeVars == <<app, version, asked>>

None == [kind |-> "none", data |-> 0]
Ref  == [kind |-> "ref", data |-> 0]
Bare == [kind |-> "bare", data |-> 0]
Inline(d) == [kind |-> "inline", data |-> d]

Nothing == [rv |-> 0, entries |-> [n \in Names |-> None]]
NoRequest == [verb |-> "none", rv |-> 0, entries |-> Nothing.entries]

Exists(a) == a.rv # 0

StoreInit ==
  /\ app = Nothing /\ version = 0
  /\ asked = [c \in Clients |-> NoRequest]

(* A new version of the object. *)
Write(entries) ==
  /\ version < MaxVersion
  /\ version' = version + 1
  /\ app' = [rv |-> version + 1, entries |-> entries]

(* Somebody who does not use the API changes a field. *)
Outside(n, e) ==
  /\ Exists(app)
  /\ Write([app.entries EXCEPT ![n] = e])
  /\ UNCHANGED asked

(* The controller writes a status or a finalizer. *)
Touched ==
  /\ Exists(app)
  /\ Write(app.entries)
  /\ UNCHANGED asked

(* The object goes. *)
Removed ==
  /\ Exists(app) /\ app' = Nothing
  /\ UNCHANGED <<version, asked>>

(* A client opens request r; with NoRequest, one ends without an effect. *)
Ask(c, r) ==
  /\ asked' = [asked EXCEPT ![c] = r]
  /\ UNCHANGED <<app, version>>

Merge(stored, entries) ==
  [n \in Names |-> IF entries[n].kind = "bare" /\ stored[n].kind = "inline"
                   THEN stored[n] ELSE entries[n]]

ServeCreate(c) ==
  /\ asked[c].verb = "create" /\ ~Exists(app)
  /\ \A n \in Names : asked[c].entries[n].kind \in {"none", "ref"}
  /\ Write(asked[c].entries)
  /\ asked' = [asked EXCEPT ![c] = NoRequest]

(* The client may not get to know that its update was served, and keeps it. *)
ServeUpdate(c) ==
  /\ asked[c].verb = "update"
  /\ Exists(app) /\ app.rv = asked[c].rv
  /\ \A n \in Names : /\ asked[c].entries[n].kind # "inline"
                      /\ Merge(app.entries, asked[c].entries)[n].kind # "bare"
  /\ Write(Merge(app.entries, asked[c].entries))
  /\ \/ UNCHANGED asked
     \/ asked' = [asked EXCEPT ![c] = NoRequest]

(* The object is gone at once, or first gets a deletionTimestamp. *)
ServeDelete(c) ==
  /\ asked[c].verb = "delete" /\ Exists(app)
  /\ asked' = [asked EXCEPT ![c] = NoRequest]
  /\ \/ app' = Nothing /\ UNCHANGED version
     \/ Write(app.entries)

Requests ==
  [verb : {"none", "get", "create", "update", "delete"}, rv : Nat,
   entries : [Names -> [kind : {"none", "ref", "inline", "bare"},
                        data : 0..MaxData]]]

StoreNext ==
  \/ Touched \/ Removed
  \/ \E n \in Names, e \in {None, Ref} \cup {Inline(d) : d \in 0..MaxData} :
       Outside(n, e)
  \/ \E c \in Clients : \/ asked'[c] \in Requests /\ Ask(c, asked'[c])
                        \/ ServeCreate(c) \/ ServeUpdate(c) \/ ServeDelete(c)

StoreSpec == StoreInit /\ [][StoreNext]_storeVars
=============================================================================
