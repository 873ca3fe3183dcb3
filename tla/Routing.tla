------------------------------ MODULE Routing ------------------------------
(***************************************************************************)
(* The way into an app: one Ingress per entry of spec.domains, the Traefik *)
(* Middlewares an entry asks for, and the conditions that report on them.  *)
(*                                                                         *)
(* Objects are known by names computed from host and path, so names are    *)
(* modelled as what they are, sequences of characters; the "<app>-" they   *)
(* all begin with is left out.  Middlewares are not watched and are read   *)
(* from the API server; Ingresses are watched and read from the informer   *)
(* cache.  An Ingress is reduced to the entry it routes to, the Middleware *)
(* chain of its annotation and whether it has an address; a Middleware to  *)
(* the entry it was rendered from.                                         *)
(***************************************************************************)
EXTENDS Naturals, FiniteSetsExt, SequencesExt

CONSTANTS
  Domains,    \* the entries the user may declare, in order: host and path
  KindsUsed,  \* the kinds of middleware the user may ask for
  RefsUsed,   \* the references an entry may carry in its own annotation
  MaxEdits,   \* bound: edits of the spec
  MaxFaults   \* bound: failed calls and Ingresses deleted by hand

Entries == DOMAIN Domains

(* The chain order that enabledMiddlewareKinds is documented to apply. *)
Chain == <<"redirectscheme", "ipallow", "ratelimit", "forwardauth",
           "basicauth", "headers", "compress", "rewrite">>

-----------------------------------------------------------------------------
(* Names. *)

Lower == [c \in {"A", "B"} |-> IF c = "A" THEN "a" ELSE "b"]

(* A character of a host or path as sanitizeDNS writes it: in lower case, and
   a dash for everything DNS labels do not have. *)
SafeChar(c) ==
  CASE c \in {"a", "b", "-"} -> c
    [] c \in DOMAIN Lower    -> Lower[c]
    [] OTHER                 -> "-"

(* sanitizeDNS: character by character, without the dashes at the ends. *)
SanitizeDNS(s) ==
  LET t    == [i \in DOMAIN s |-> SafeChar(s[i])]
      kept == {i \in DOMAIN t : t[i] # "-"} IN
  IF kept = {} THEN <<>> ELSE SubSeq(t, Min(kept), Max(kept))

(* Faulty variant: the path is not part of the name. *)
DomainIngressNameHostOnly == [d \in Entries |-> SanitizeDNS(Domains[d].host)]

(* domainIngressName of each entry. *)
DomainIngressName ==
  [d \in Entries |->
     LET path == SanitizeDNS(Domains[d].path) IN
     SanitizeDNS(Domains[d].host)
       \o (IF path = <<>> THEN <<>> ELSE <<"-">> \o path)]

(* middlewareName; no kind contains a dash. *)
MiddlewareName(d, k) == <<DomainIngressName[d], k>>

Names == Range(DomainIngressName)

(* No host and path is declared twice, which the README warns against. *)
ASSUME ConstantsAssumption ==
  /\ Domains \in Seq(ToSet(Domains)) /\ Domains # <<>> /\ IsInjective(Domains)
  /\ KindsUsed \subseteq ToSet(Chain)
  /\ \A r \in RefsUsed : r \in Seq(ToSet(r))
  /\ MaxEdits \in Nat /\ MaxFaults \in Nat

-----------------------------------------------------------------------------

VARIABLES
  spec,    \* per entry: declared, its middleware kinds, its own references
  crd,     \* a Middleware CRD is installed
  mw,      \* the Middlewares: name and the entry they were rendered from
  ing,     \* per name: the stored Ingress (entry 0: none)
  seen,    \* per name: the informer's copy
  lag,     \* per name: the copy is not the stored version
  queued,  \* the app's key is queued or about to be added again
  pc,      \* where the pass is
  snap,    \* the spec the pass works from
  at,      \* the entry the current loop has come to
  todo,    \* kinds or names the current loop still has to visit
  failed,  \* reconcileErr # nil
  status,  \* the IngressReady and MiddlewaresReady conditions
  edits, faults

passVars == <<pc, snap, at, todo, failed>>
vars == <<spec, crd, mw, ing, seen, lag, queued, passVars, status, edits, faults>>

(* Somebody else's middleware. *)
External == <<<<"x">>, "external">>

DomainSpecs == [declared : BOOLEAN, kinds : SUBSET KindsUsed, refs : RefsUsed]

NoIngress == [entry |-> 0, refs |-> <<>>, addr |-> FALSE]

Exists(i) == i.entry # 0

Declared(s) == {d \in Entries : s[d].declared}

Init ==
  /\ \E K \in {{}, KindsUsed} :
       spec = [d \in Entries |-> [declared |-> TRUE, kinds |-> K, refs |-> <<>>]]
  /\ snap = spec
  /\ crd \in BOOLEAN
  /\ mw = {}
  /\ ing = [n \in Names |-> NoIngress] /\ seen = ing
  /\ lag = [n \in Names |-> FALSE]
  /\ queued = TRUE /\ pc = "idle" /\ at = 1 /\ todo = {} /\ failed = FALSE
  /\ status = [ingress |-> "Absent", middlewares |-> "Absent"]
  /\ edits = 0 /\ faults = 0

-----------------------------------------------------------------------------
(* Around the operator. *)

UserEdit(d, s) ==
  /\ edits < MaxEdits
  /\ s # spec[d]
  /\ spec' = [spec EXCEPT ![d] = s]
  /\ edits' = edits + 1 /\ queued' = TRUE
  /\ UNCHANGED <<crd, mw, ing, seen, lag, passVars, status, faults>>

(* The stored Ingress n becomes i, which the informer has yet to see. *)
Put(n, i) ==
  /\ ing' = [ing EXCEPT ![n] = i]
  /\ lag' = [lag EXCEPT ![n] = TRUE]

(* The ingress controller gives an Ingress its address. *)
AssignAddress(n) ==
  /\ Exists(ing[n]) /\ ~ing[n].addr
  /\ Put(n, [ing[n] EXCEPT !.addr = TRUE])
  /\ UNCHANGED <<spec, crd, mw, seen, queued, passVars, status, edits, faults>>

Fault ==
  /\ faults < MaxFaults
  /\ faults' = faults + 1

DeleteIngress(n) ==
  /\ Fault
  /\ Exists(ing[n])
  /\ Put(n, NoIngress)
  /\ UNCHANGED <<spec, crd, mw, seen, queued, passVars, status, edits>>

(* Owns(Ingress). *)
Deliver(n) ==
  /\ lag[n]
  /\ seen' = [seen EXCEPT ![n] = ing[n]]
  /\ lag' = [lag EXCEPT ![n] = FALSE]
  /\ queued' = TRUE
  /\ UNCHANGED <<spec, crd, mw, ing, passVars, status, edits, faults>>

-----------------------------------------------------------------------------
(* What an entry asks for. *)

(* enabledMiddlewareKinds appends one kind after the other. *)
EnabledMiddlewareKinds(s) ==
  LET If(k) == IF k \in s.kinds THEN <<k>> ELSE <<>> IN
  If("redirectscheme") \o If("ipallow") \o If("ratelimit") \o If("forwardauth")
    \o If("basicauth") \o If("headers") \o If("compress") \o If("rewrite")

(* Faulty variant: nothing is dropped. *)
KeepAll(s) == s

(* The sequence without the repetitions of what it has had before: each
   reference is appended unless it has been seen. *)
FirstOnly(s) ==
  LET upTo[i \in 0..Len(s)] ==
        IF i = 0 THEN <<>>
        ELSE LET sofar == upTo[i - 1] IN
             IF s[i] \in ToSet(sofar) THEN sofar
             ELSE Append(sofar, s[i])
  IN upTo[Len(s)]

(* The references the operator generates for entry d. *)
GeneratedRefs(d, s) ==
  LET kinds == EnabledMiddlewareKinds(s) IN
  [i \in DOMAIN kinds |-> MiddlewareName(d, kinds[i])]

(* The router.middlewares annotation: the entry's own references and then the
   generated ones, each once. Without generated ones it is left as it is. *)
Refs(d, s) ==
  IF s.kinds = {} THEN s.refs ELSE FirstOnly(s.refs \o GeneratedRefs(d, s))

Wanted(s) == UNION {ToSet(GeneratedRefs(d, s[d])) : d \in Declared(s)}

-----------------------------------------------------------------------------
(* A pass, reduced to reconcileMiddlewares, reconcileIngress, updateStatus. *)

(* The first entry declared in s from d on; past the end if there is none. *)
NextEntry(s, d) == Min({e \in Declared(s) : e >= d} \cup {Len(Domains) + 1})

(* Faulty variant: only the first entry gets its Middlewares. *)
KindsAtFirst(s, d) == IF d = 1 THEN s[d].kinds ELSE {}

(* The kinds of middleware the loop is to visit for entry d. *)
KindsAt(s, d) == IF d \in Entries THEN s[d].kinds ELSE {}

(* reconcileMiddlewares is skipped when the CRD is not installed. *)
Begin ==
  /\ pc = "idle" /\ queued
  /\ queued' = FALSE /\ failed' = FALSE
  /\ snap' = spec
  /\ at' = NextEntry(spec, 1)
  /\ \/ crd /\ pc' = "middlewares" /\ todo' = KindsAt(spec, NextEntry(spec, 1))
     \/ ~crd /\ pc' = "ingresses" /\ todo' = {}
  /\ UNCHANGED <<spec, crd, mw, ing, seen, lag, status, edits, faults>>

StepFails ==
  /\ pc' = "updateStatus" /\ failed' = TRUE /\ todo' = {}
  /\ UNCHANGED <<snap, at>>

(* buildMiddlewareSpec: kind k as entry d configures it. *)
Rendered(d, k) == [name |-> MiddlewareName(d, k), entry |-> d]

(* One Middleware: it is created, or replaced. *)
ReconcileMiddleware(k) ==
  /\ pc = "middlewares" /\ at \in Entries /\ k \in todo
  /\ mw' = {m \in mw : m.name # MiddlewareName(at, k)}
             \cup {Rendered(at, k)}
  /\ todo' = todo \ {k}
  /\ UNCHANGED <<spec, crd, ing, seen, lag, queued, pc, snap, at, failed, status,
                 edits, faults>>

(* On to the next entry; after the last one the stale Middlewares are listed. *)
NextMiddlewares ==
  /\ pc = "middlewares" /\ todo = {}
  /\ \/ /\ at \in Entries
        /\ pc' = pc /\ at' = NextEntry(snap, at + 1)
        /\ todo' = KindsAt(snap, NextEntry(snap, at + 1))
     \/ /\ at \notin Entries
        /\ pc' = "pruneMiddlewares" /\ at' = at
        /\ todo' = {m \in mw : m.name \notin Wanted(snap)}
  /\ UNCHANGED <<spec, crd, mw, ing, seen, lag, queued, snap, failed, status,
                 edits, faults>>

PruneMiddleware(m) ==
  /\ pc = "pruneMiddlewares" /\ m \in todo
  /\ mw' = mw \ {m} /\ todo' = todo \ {m}
  /\ UNCHANGED <<spec, crd, ing, seen, lag, queued, pc, snap, at, failed, status,
                 edits, faults>>

MiddlewaresDone ==
  /\ pc = "pruneMiddlewares" /\ todo = {}
  /\ pc' = "ingresses" /\ at' = NextEntry(snap, 1)
  /\ UNCHANGED <<spec, crd, mw, ing, seen, lag, queued, snap, todo, failed,
                 status, edits, faults>>

(* CreateOrUpdate on the cached copy: it creates, which fails if the Ingress
   is there after all; leaves alone a copy that is as desired; and updates,
   which fails if the copy is stale. The address is not the operator's. *)
ReconcileIngress ==
  LET n    == DomainIngressName[at]
      want == [seen[n] EXCEPT !.entry = at, !.refs = Refs(at, snap[at])] IN
  /\ pc = "ingresses" /\ at \in Entries
  /\ \/ /\ seen[n] = want
        /\ UNCHANGED <<ing, lag>>
        /\ at' = NextEntry(snap, at + 1) /\ UNCHANGED <<pc, snap, todo, failed>>
     \/ /\ seen[n] # want /\ IF Exists(seen[n]) THEN ~lag[n] ELSE ~Exists(ing[n])
        /\ Put(n, want)
        /\ at' = NextEntry(snap, at + 1) /\ UNCHANGED <<pc, snap, todo, failed>>
     \/ /\ seen[n] # want /\ IF Exists(seen[n]) THEN lag[n] ELSE Exists(ing[n])
        /\ UNCHANGED <<ing, lag>>
        /\ StepFails
  /\ UNCHANGED <<spec, crd, mw, seen, queued, status, edits, faults>>

(* Faulty variant: nothing is ever stale. *)
StaleIngressesNone == {}

(* The cached Ingresses of the app that no declared entry has the name of. *)
StaleIngresses ==
  {n \in Names : Exists(seen[n])} \ {DomainIngressName[d] : d \in Declared(snap)}

ListIngresses ==
  /\ pc = "ingresses" /\ at \notin Entries
  /\ pc' = "pruneIngresses" /\ todo' = StaleIngresses
  /\ UNCHANGED <<spec, crd, mw, ing, seen, lag, queued, snap, at, failed, status,
                 edits, faults>>

PruneIngress(n) ==
  /\ pc = "pruneIngresses" /\ n \in todo
  /\ IF Exists(ing[n]) THEN Put(n, NoIngress) ELSE UNCHANGED <<ing, lag>>
  /\ todo' = todo \ {n}
  /\ UNCHANGED <<spec, crd, mw, seen, queued, pc, snap, at, failed, status, edits,
                 faults>>

IngressesDone ==
  /\ pc = "pruneIngresses" /\ todo = {}
  /\ pc' = "updateStatus"
  /\ UNCHANGED <<spec, crd, mw, ing, seen, lag, queued, snap, at, todo, failed,
                 status, edits, faults>>

(* Any call may fail for other reasons. *)
CallFails ==
  /\ Fault
  /\ pc \in {"middlewares", "pruneMiddlewares", "ingresses", "pruneIngresses"}
  /\ StepFails
  /\ UNCHANGED <<spec, crd, mw, ing, seen, lag, queued, status, edits>>

(* Faulty variant: one address is enough. *)
IngressReadyAny(s) ==
  IF Declared(s) = {} THEN "Absent"
  ELSE IF \E d \in Declared(s) : seen[DomainIngressName[d]].addr THEN "True"
  ELSE "False"

(* The IngressReady condition: every entry's Ingress has an address. *)
IngressReady(s) ==
  IF Declared(s) = {} THEN "Absent"
  ELSE IF \A d \in Declared(s) : seen[DomainIngressName[d]].addr THEN "True"
  ELSE "False"

(* updateMiddlewaresStatus: every Middleware that is wanted exists. *)
MiddlewaresReady(s) ==
  IF Wanted(s) = {} THEN "Absent"
  ELSE IF crd /\ Wanted(s) \subseteq {m.name : m \in mw} THEN "True"
  ELSE "False"

(* updateStatusOnce: IngressReady goes by the spec of the pass, the
   Middlewares by that of the AppDefinition read again. The app is taken to be
   Available, so that only an error brings the key back. *)
UpdateStatus ==
  /\ pc = "updateStatus"
  /\ status' = [ingress |-> IngressReady(snap),
                middlewares |-> MiddlewaresReady(spec)]
  /\ queued' = (queued \/ failed)
  /\ pc' = "idle"
  /\ UNCHANGED <<spec, crd, mw, ing, seen, lag, snap, at, todo, failed, edits,
                 faults>>

-----------------------------------------------------------------------------

Pass ==
  \/ Begin \/ NextMiddlewares \/ MiddlewaresDone
  \/ ReconcileIngress \/ ListIngresses \/ IngressesDone \/ UpdateStatus
  \/ \E k \in KindsUsed : ReconcileMiddleware(k)
  \/ \E m \in mw : PruneMiddleware(m)
  \/ \E n \in Names : PruneIngress(n)

Next ==
  \/ Pass \/ CallFails
  \/ \E d \in Entries, s \in DomainSpecs : UserEdit(d, s)
  \/ \E n \in Names : AssignAddress(n) \/ DeleteIngress(n) \/ Deliver(n)

Spec == Init /\ [][Next]_vars

(* The worker and the informer keep going. *)
Fairness == WF_vars(Pass) /\ \A n \in Names : WF_vars(Deliver(n))

FairSpec == Spec /\ Fairness

-----------------------------------------------------------------------------
(* Properties. *)

Quiescent == pc = "idle" /\ ~queued /\ \A n \in Names : ~lag[n]

(* The Middlewares that Ingress n refers to and the operator is to provide. *)
Referenced(n) == {r \in ToSet(ing[n].refs) : r # External}

(* When the operator falls silent there is exactly one Ingress per declared
   entry and one Middleware per kind it asks for, and nothing is left of what
   the spec has dropped, although stale Ingresses are looked for in a cache
   that may not have heard of them yet; without the CRD there are none. *)
SettledRouting ==
  Quiescent =>
    /\ {ing[n].entry : n \in {m \in Names : Exists(ing[m])}} = Declared(spec)
    /\ {m.name : m \in mw} = IF crd THEN Wanted(spec) ELSE {}
    /\ \A m \in mw : m.name[1] = DomainIngressName[m.entry]

(* The place of kind k in the chain order. *)
Pos(k) == CHOOSE i \in DOMAIN Chain : Chain[i] = k

(* When the operator falls silent every chain runs the entry's own references
   first, then the kinds it asks for, redirection before filters before
   authentication before everything else, and names nothing twice. *)
SettledChains ==
  Quiescent =>
    \A d \in Declared(spec) :
      LET refs == ing[DomainIngressName[d]].refs
          own  == ToSet(spec[d].refs) IN
      /\ ToSet(refs) = own \cup {MiddlewareName(d, k) : k \in spec[d].kinds}
      /\ spec[d].kinds # {} => IsInjective(refs)
      /\ \A i, j \in DOMAIN refs : i < j =>
           \/ refs[i] \in own
           \/ refs[j] \notin own /\ Pos(refs[i][2]) < Pos(refs[j][2])

(* When the operator falls silent the conditions are true of the cluster. *)
SettledConditions ==
  Quiescent =>
    /\ status.ingress = "True" <=>
         /\ Declared(spec) # {}
         /\ \A d \in Declared(spec) : ing[DomainIngressName[d]].addr
    /\ status.middlewares = "True" <=>
         Wanted(spec) # {} /\ Wanted(spec) \subseteq {m.name : m \in mw}

(* Middlewares are deleted before the Ingresses that name them are rewritten,
   and a failure or a stale cache may leave it at that for a while; but in the
   end no route refers to a Middleware that is gone. *)
NoDanglingRoute ==
  <>[](crd => \A n \in Names : Referenced(n) \subseteq {m.name : m \in mw})

(* No other entry has a path that sanitizeDNS writes like that of d, and all
   are of one host. *)
PathOfItsOwn(d) ==
  \A e \in Entries \ {d} :
    /\ Domains[e].host = Domains[d].host
    /\ SanitizeDNS(Domains[e].path) # SanitizeDNS(Domains[d].path)

(* Entries of one host have each an Ingress of their own in the end, with no
   other entry's, as long as sanitizeDNS leaves their paths different. *)
EveryEntryRouted ==
  <>[](\A d \in Declared(spec) :
         PathOfItsOwn(d) => ing[DomainIngressName[d]].entry = d)

(* What README.md and the comment on domainIngressName promise: entries of one
   host with different paths do not collide, so each has an Ingress of its own
   in the end. sanitizeDNS is not injective, so some do. *)
DifferentPathsRouted ==
  <>[](\A d \in Declared(spec) : ing[DomainIngressName[d]].entry = d)
=============================================================================
