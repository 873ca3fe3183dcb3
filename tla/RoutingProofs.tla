--------------------------- MODULE RoutingProofs ---------------------------
(***************************************************************************)
(* Proofs that Routing falls silent only when Ingresses, Middlewares and   *)
(* conditions are what the spec asks for, for any domains, kinds and       *)
(* references, whether or not the names of two entries coincide.           *)
(*                                                                         *)
(* Nobody but the operator touches Middlewares, so what the pass has done  *)
(* about them stays done.  Ingresses are touched by others, but each touch *)
(* leaves the cached copy behind, and the delivery queues the key.         *)
(***************************************************************************)
EXTENDS Routing, WellFoundedInduction, SequenceTheorems, TLAPS

(* The names of the Middlewares that exist. *)
MwNames == {m.name : m \in mw}

(* The Middlewares of kinds K for entry d are there. *)
Provided(d, K) == \A k \in K : MiddlewareName(d, k) \in MwNames

(* What an entry may be: as it starts out, or as the user may edit it. *)
EntrySpecs ==
  [declared : BOOLEAN, kinds : SUBSET KindsUsed, refs : RefsUsed \cup {<<>>}]

(* The annotations and the Ingresses there may be. *)
Annotations == {<<>>} \cup {Refs(d, s) : d \in Entries, s \in EntrySpecs}

Ingresses == [entry : Nat, refs : Annotations, addr : BOOLEAN]

(* A Middleware is named after the entry it was rendered from. *)
Rendering ==
  \A m \in mw : m.entry \in Entries /\ m.name[1] = DomainIngressName[m.entry]

(* Types, as far as the proofs need them. *)
TypeInv ==
  /\ spec \in [Entries -> EntrySpecs] /\ snap \in [Entries -> EntrySpecs]
  /\ crd \in BOOLEAN /\ queued \in BOOLEAN /\ failed \in BOOLEAN
  /\ ing \in [Names -> Ingresses] /\ seen \in [Names -> Ingresses]
  /\ lag \in [Names -> BOOLEAN]
  /\ Rendering
  /\ at \in 1..(Len(Domains) + 1)
  /\ pc \in {"idle", "middlewares", "pruneMiddlewares", "ingresses",
             "pruneIngresses", "updateStatus"}
  /\ failed => pc \in {"updateStatus", "idle"}

(* A copy that does not lag is the stored Ingress. *)
Copies == \A n \in Names : ~lag[n] => seen[n] = ing[n]

(* A pass nobody has asked to repeat works from the stored spec. *)
Current == ~queued => snap = spec

(* The pass, or the last one, has come to its end without an error. *)
Passed == (pc = "updateStatus" /\ ~failed) \/ (pc = "idle" /\ ~queued)

(* Without the CRD there are no Middlewares. With it, those of the entries
   and kinds that the loop has come past are there; then nothing is left to
   prune but what no entry wants, and in the end nothing else is there. *)
Provisioned ==
  /\ ~crd => mw = {} /\ pc \notin {"middlewares", "pruneMiddlewares"}
  /\ pc = "middlewares" =>
       /\ \A d \in Declared(snap) : d < at => Provided(d, snap[d].kinds)
       /\ todo \subseteq KindsAt(snap, at)
       /\ at \in Entries => at \in Declared(snap) /\ Provided(at, snap[at].kinds \ todo)
  /\ pc = "pruneMiddlewares" =>
       Wanted(snap) \subseteq MwNames /\ todo = {m \in mw : m.name \notin Wanted(snap)}
  /\ crd /\ (Passed \/ pc \in {"ingresses", "pruneIngresses"}) => MwNames = Wanted(snap)

(* The Ingress of entry d is as the pass wants it, or there is news of it. *)
Routed(d) ==
  LET n == DomainIngressName[d] IN
  ~queued /\ ~lag[n] => ing[n].entry = d /\ ing[n].refs = Refs(d, snap[d])

(* No entry of the pass has an Ingress of this name. *)
Unwanted(n) == n \notin {DomainIngressName[d] : d \in Declared(snap)}

(* The loop over the entries has dealt with those before the current one, and
   the pruning has removed, or will, what the cache shows. *)
Exposed ==
  /\ pc = "ingresses" => \A d \in Declared(snap) : d < at => Routed(d)
  /\ Passed \/ pc = "pruneIngresses" => \A d \in Declared(snap) : Routed(d)
  /\ Passed \/ pc = "pruneIngresses" =>
       \A n \in Names : Unwanted(n) /\ ~queued /\ ~lag[n] =>
         ~Exists(ing[n]) \/ (pc = "pruneIngresses" /\ n \in todo)

(* The conditions are those of the last pass. *)
Reported ==
  pc = "idle" /\ ~queued =>
    status = [ingress |-> IngressReady(snap), middlewares |-> MiddlewaresReady(spec)]

(* What is known at every moment of a pass and between passes. *)
Inv == Copies /\ Current /\ Provisioned /\ Exposed /\ Reported

-----------------------------------------------------------------------------
(* The operators. *)

(* Every set of natural numbers that is not empty has a least member. *)
LEMMA Least ==
  ASSUME NEW T, T \subseteq Nat, T # {}
  PROVE  \E x \in T : \A y \in T : x <= y
<1> DEFINE R == {ss \in Nat \X Nat : ss[1] < ss[2]}
<1>0. IsWellFoundedOn(R, Nat)
    BY NatLessThanWellFounded DEF OpToRel
<1>1. \E x \in T : \A y \in T : ~ (<<y, x>> \in R)
  <2> HIDE DEF R
  <2> QED BY <1>0, WFMin, Zenon
<1>2. \A x, y \in T : ~ (<<y, x>> \in R) => x <= y
  OBVIOUS
<1> QED BY <1>1, <1>2

(* Induction, for properties given as the set of numbers that have them. *)
LEMMA InductionUpTo ==
  ASSUME NEW n \in Nat, NEW P, 0 \in P, \A i \in 0..(n - 1) : i \in P => i + 1 \in P
  PROVE  \A i \in 0..n : i \in P
<1> DEFINE T == {i \in 0..n : i \notin P}
<1>1. SUFFICES ASSUME T # {} PROVE FALSE
  OBVIOUS
<1>2. T \subseteq Nat
  OBVIOUS
<1>3. PICK x \in T : \A y \in T : x <= y
  <2> HIDE DEF T
  <2> QED BY <1>1, <1>2, Least
<1>4. x \in 0..n /\ x \notin P /\ x # 0
  BY <1>3
<1>5. x - 1 \in 0..(n - 1) /\ x - 1 \in 0..n
  BY <1>4
<1>6. x - 1 \in P
  BY <1>3, <1>5
<1>7. (x - 1) + 1 \in P
  BY <1>5, <1>6
<1> QED BY <1>4, <1>7

(* One step of FirstOnly. *)
Added(t, x) == IF x \in ToSet(t) THEN t ELSE Append(t, x)

(* g is what FirstOnly has after each of the first n references. *)
Accumulates(g, s, n) ==
  g = [i \in 0..n |-> IF i = 0 THEN <<>> ELSE Added(g[i - 1], s[i])]

(* There is such a function. *)
LEMMA AccumulatesExists ==
  ASSUME NEW s, NEW n \in Nat
  PROVE  \E g : Accumulates(g, s, n)
<1> DEFINE P == {k \in Nat : \E g : Accumulates(g, s, k)}
<1>1. 0 \in P
  <2> DEFINE g == [i \in 0..0 |-> <<>>]
  <2>1. Accumulates(g, s, 0)
    BY DEF Accumulates
  <2> QED BY <2>1
<1>2. ASSUME NEW k \in 0..(n - 1), k \in P PROVE k + 1 \in P
  <2>1. PICK g : Accumulates(g, s, k)
    BY <1>2
  <2> DEFINE h == [i \in 0..(k + 1) |-> IF i = k + 1 THEN Added(g[k], s[k + 1]) ELSE g[i]]
  <2>2. /\ DOMAIN g = 0..k
        /\ \A i \in 0..k : g[i] = IF i = 0 THEN <<>> ELSE Added(g[i - 1], s[i])
    BY <2>1 DEF Accumulates
  <2>3. \A i \in 0..(k + 1) : h[i] = IF i = 0 THEN <<>> ELSE Added(h[i - 1], s[i])
    <3> SUFFICES ASSUME NEW i \in 0..(k + 1)
                 PROVE  h[i] = IF i = 0 THEN <<>> ELSE Added(h[i - 1], s[i])
      OBVIOUS
    <3>1. CASE i = k + 1
      <4>1. h[i] = Added(g[k], s[k + 1]) /\ h[k] = g[k]
        BY <3>1
      <4> QED BY <3>1, <4>1
    <3>2. CASE i # k + 1
      <4>1. i \in 0..k /\ h[i] = g[i]
        BY <3>2
      <4>2. i # 0 => h[i - 1] = g[i - 1]
        BY <4>1
      <4> QED BY <4>1, <4>2, <2>2
    <3> QED BY <3>1, <3>2
  <2>4. Accumulates(h, s, k + 1)
    <3> DEFINE f == [i \in 0..(k + 1) |-> IF i = 0 THEN <<>> ELSE Added(h[i - 1], s[i])]
    <3>1. h = f
      <4>1. DOMAIN h = 0..(k+1) /\ DOMAIN f = 0..(k+1)
        OBVIOUS
      <4>2. \A i \in 0..(k+1) : h[i] = f[i]
        BY <2>3
      <4> QED BY <4>2
    <3> QED BY <3>1 DEF Accumulates
  <2> HIDE DEF h
  <2> QED BY <2>4
<1> HIDE DEF P
<1>3. n \in P
  BY <1>1, <1>2, InductionUpTo
<1> QED BY <1>3 DEF P

(* FirstOnly is what its recursion says. *)
LEMMA FirstOnlyIs ==
  ASSUME NEW s, Len(s) \in Nat
  PROVE  \E g : Accumulates(g, s, Len(s)) /\ FirstOnly(s) = g[Len(s)]
<1> DEFINE g == CHOOSE f : f =
                  [i \in 0..Len(s) |->
                     IF i = 0 THEN <<>>
                     ELSE IF s[i] \in ToSet(f[i - 1]) THEN f[i - 1]
                     ELSE Append(f[i - 1], s[i])]
<1>1. FirstOnly(s) = g[Len(s)]
  BY DEF FirstOnly
<1>2. Accumulates(g, s, Len(s))
  BY AccumulatesExists DEF Accumulates, Added
<1> QED BY <1>1, <1>2

(* t has what s has up to n, each once and in the order of its first
   occurrence. *)
Distinct(t, s, n) ==
  /\ t \in Seq(ToSet(s))
  /\ ToSet(t) = {s[i] : i \in 1..n}
  /\ \A p, q \in DOMAIN t : p < q =>
       \E j \in 1..n : /\ t[q] = s[j]
                       /\ \E i \in 1..(j - 1) : t[p] = s[i]
                       /\ \A i \in 1..(j - 1) : s[i] # s[j]

(* One more reference keeps it so. *)
LEMMA DistinctStep ==
  ASSUME NEW s, s \in Seq(ToSet(s)), NEW n \in 0..(Len(s) - 1), NEW t, Distinct(t, s, n)
  PROVE  Distinct(Added(t, s[n + 1]), s, n + 1)
<1> DEFINE x == s[n + 1]
<1>0. Len(s) \in Nat /\ DOMAIN s = 1..Len(s) /\ n + 1 \in DOMAIN s /\ n \in Nat
  OBVIOUS
<1>1. x \in ToSet(s)
  BY <1>0 DEF ToSet
<1>2. {s[i] : i \in 1..(n + 1)} = {s[i] : i \in 1..n} \cup {x}
  BY <1>0
<1>3. CASE x \in ToSet(t)
  <2>1. Added(t, x) = t
    BY <1>3 DEF Added
  <2>2. ToSet(t) = {s[i] : i \in 1..(n + 1)}
    BY <1>2, <1>3 DEF Distinct
  <2> QED BY <2>1, <2>2, <1>0 DEF Distinct
<1>4. CASE x \notin ToSet(t)
  <2> DEFINE u == Append(t, x)
  <2>1. Added(t, x) = u
    BY <1>4 DEF Added
  <2>2. t \in Seq(ToSet(s)) /\ Len(t) \in Nat /\ DOMAIN t = 1..Len(t)
    BY DEF Distinct
  <2>3. /\ u \in Seq(ToSet(s)) /\ DOMAIN u = 1..(Len(t) + 1)
        /\ \A i \in DOMAIN t : u[i] = t[i]
        /\ u[Len(t) + 1] = x
    BY <1>1, <2>2, AppendProperties
  <2> HIDE DEF u, x
  <2>4. ToSet(u) = ToSet(t) \cup {x}
    <3>1. ToSet(u) = {u[i] : i \in 1..(Len(t) + 1)} /\ ToSet(t) = {t[i] : i \in 1..Len(t)}
      BY <2>2, <2>3 DEF ToSet
    <3>2. 1..(Len(t) + 1) = 1..Len(t) \cup {Len(t) + 1}
      BY <2>2
    <3>3. {u[i] : i \in 1..(Len(t) + 1)} = {u[i] : i \in 1..Len(t)} \cup {x}
      BY <2>3, <3>2
    <3>4. {u[i] : i \in 1..Len(t)} = {t[i] : i \in 1..Len(t)}
      BY <2>2, <2>3
    <3> QED BY <3>1, <3>3, <3>4
  <2>5. ToSet(u) = {s[i] : i \in 1..(n + 1)}
    BY <2>4, <1>2 DEF Distinct
  <2>6. ASSUME NEW p \in DOMAIN u, NEW q \in DOMAIN u, p < q
        PROVE  \E j \in 1..(n + 1) :
                 /\ u[q] = s[j]
                 /\ \E i \in 1..(j - 1) : u[p] = s[i]
                 /\ \A i \in 1..(j - 1) : s[i] # s[j]
    <3>0. p \in DOMAIN t /\ u[p] = t[p]
      BY <2>2, <2>3, <2>6
    <3>1. CASE q = Len(t) + 1
      <4>1. u[q] = s[n + 1]
        BY <3>1, <2>3 DEF x
      <4>2. \A i \in 1..n : s[i] \in ToSet(t)
        BY DEF Distinct
      <4>3. \E i \in 1..n : t[p] = s[i]
        <5>1. t[p] \in ToSet(t)
          BY <3>0 DEF ToSet
        <5> QED BY <5>1 DEF Distinct
      <4>4. n + 1 \in 1..(n + 1) /\ (n + 1) - 1 = n
        BY <1>0
      <4> QED BY <4>1, <4>2, <4>3, <4>4, <1>4, <3>0 DEF x
    <3>2. CASE q # Len(t) + 1
      <4>1. q \in DOMAIN t /\ u[q] = t[q]
        BY <3>2, <2>2, <2>3
      <4>2. \E j \in 1..n :
              /\ t[q] = s[j]
              /\ \E i \in 1..(j - 1) : t[p] = s[i]
              /\ \A i \in 1..(j - 1) : s[i] # s[j]
        BY <4>1, <3>0, <2>6 DEF Distinct
      <4>3. 1..n \subseteq 1..(n + 1)
        BY <1>0
      <4> QED BY <4>1, <4>2, <4>3, <3>0
    <3> QED BY <3>1, <3>2
  <2> QED BY <2>1, <2>3, <2>5, <2>6 DEF Distinct, x
<1> QED BY <1>3, <1>4

(* So FirstOnly drops repetitions, and nothing else. *)
LEMMA FirstOnlyDistinct ==
  ASSUME NEW s, s \in Seq(ToSet(s))
  PROVE  Distinct(FirstOnly(s), s, Len(s))
<1>0. Len(s) \in Nat
  OBVIOUS
<1>1. PICK g : Accumulates(g, s, Len(s)) /\ FirstOnly(s) = g[Len(s)]
  BY <1>0, FirstOnlyIs
<1> DEFINE P == {i \in 0..Len(s) : Distinct(g[i], s, i)}
<1>2. g[0] = <<>> /\ \A i \in 1..Len(s) : g[i] = Added(g[i - 1], s[i])
  <2>1. \A i \in 0..Len(s) : g[i] = IF i = 0 THEN <<>> ELSE Added(g[i - 1], s[i])
    BY <1>1, Zenon DEF Accumulates
  <2> QED BY <2>1, <1>0
<1>3. 0 \in P
  <2>1. Distinct(<<>>, s, 0)
    BY DEF Distinct, ToSet
  <2> QED BY <2>1, <1>0, <1>2
<1>4. ASSUME NEW i \in 0..(Len(s) - 1), i \in P PROVE i + 1 \in P
  <2>1. Distinct(Added(g[i], s[i + 1]), s, i + 1)
    BY <1>4, DistinctStep
  <2>2. i + 1 \in 1..Len(s) /\ (i + 1) - 1 = i
    BY <1>0
  <2>3. g[i + 1] = Added(g[i], s[i + 1])
    BY <1>2, <2>2
  <2> QED BY <2>1, <2>2, <2>3, <1>0
<1>5. Len(s) \in P
  <2> HIDE DEF P
  <2>1. \A i \in 0..Len(s) : i \in P
    BY <1>0, <1>3, <1>4, InductionUpTo
  <2> QED BY <1>0, <2>1
<1> QED BY <1>1, <1>5

(* Entries are numbered from 1. *)
LEMMA EntriesAreNumbers ==
  Len(Domains) \in Nat \ {0} /\ Entries = 1..Len(Domains)
BY ConstantsAssumption DEF Entries

(* The loop goes on to a declared entry and skips none. *)
LEMMA NextEntryFacts ==
  ASSUME NEW s \in [Entries -> EntrySpecs], NEW d \in 1..(Len(Domains) + 1)
  PROVE  /\ NextEntry(s, d) \in 1..(Len(Domains) + 1)
         /\ NextEntry(s, d) \in Entries => NextEntry(s, d) \in Declared(s)
         /\ \A e \in Declared(s) : e < NextEntry(s, d) => e < d
<1> DEFINE T == {e \in Declared(s) : e >= d} \cup {Len(Domains) + 1}
<1>1. T \subseteq 1..(Len(Domains) + 1) /\ T # {} /\ T \subseteq Nat
  BY EntriesAreNumbers DEF Declared
<1>2. \E x \in T : \A y \in T : x <= y
  <2> HIDE DEF T
  <2> QED BY <1>1, Least
<1>3. NextEntry(s, d) \in T /\ \A y \in T : NextEntry(s, d) <= y
  <2> HIDE DEF T
  <2>1. Min(T) \in T /\ \A y \in T : Min(T) <= y
    BY <1>2 DEF Min
  <2> QED BY <2>1 DEF NextEntry, T
<1>4. NextEntry(s, d) \in Entries => NextEntry(s, d) \in Declared(s)
  BY <1>3, EntriesAreNumbers
<1>5. ASSUME NEW e \in Declared(s), e < NextEntry(s, d) PROVE e < d
  <2>1. e \in Nat /\ NextEntry(s, d) \in Nat /\ d \in Nat
    BY <1>1, <1>3, EntriesAreNumbers DEF Declared
  <2>2. e \notin T
    BY <1>3, <1>5, <2>1
  <2> QED BY <2>1, <2>2
<1> QED BY <1>1, <1>3, <1>4, <1>5

(* The kinds there are. *)
AllKinds == ToSet(Chain)

(* No kind is twice in the chain order. *)
LEMMA ChainFacts ==
  /\ DOMAIN Chain = 1..8
  /\ AllKinds = {"redirectscheme", "ipallow", "ratelimit", "forwardauth",
           "basicauth", "headers", "compress", "rewrite"}
  /\ \A i \in 1..8 : Chain[i] \in AllKinds /\ Pos(Chain[i]) = i
<1>1. DOMAIN Chain = 1..8
  BY DEF Chain
<1>2. AllKinds = {"redirectscheme", "ipallow", "ratelimit", "forwardauth",
           "basicauth", "headers", "compress", "rewrite"}
  <2>1. 1..8 = {1, 2, 3, 4, 5, 6, 7, 8}
    OBVIOUS
  <2>2. AllKinds = {Chain[i] : i \in {1, 2, 3, 4, 5, 6, 7, 8}}
    BY <1>1, <2>1 DEF AllKinds, ToSet
  <2> QED BY <2>2 DEF Chain
<1>3. \A i, j \in 1..8 : Chain[i] = Chain[j] => i = j
  BY DEF Chain
<1>4. ASSUME NEW i \in 1..8 PROVE Chain[i] \in AllKinds /\ Pos(Chain[i]) = i
  BY <1>1, <1>3 DEF Pos, AllKinds, ToSet
<1> QED BY <1>1, <1>2, <1>4

(* t has the kinds in K up to place p, in order. *)
Ordered(t, p, K) ==
  /\ t \in Seq(AllKinds)
  /\ ToSet(t) = {k \in K \cap AllKinds : Pos(k) <= p}
  /\ \A i, j \in DOMAIN t : i < j => Pos(t[i]) < Pos(t[j])

(* Appending the next kind if it is asked for keeps it so. *)
LEMMA OrderedStep ==
  ASSUME NEW t, NEW p \in 0..7, NEW K, Ordered(t, p, K)
  PROVE  Ordered(t \o (IF Chain[p + 1] \in K THEN <<Chain[p + 1]>> ELSE <<>>), p + 1, K)
<1> DEFINE x == Chain[p + 1]
<1>0. p + 1 \in 1..8 /\ p \in Nat
  OBVIOUS
<1>1. x \in AllKinds /\ Pos(x) = p + 1
  BY <1>0, ChainFacts
<1>2. \A k \in AllKinds : /\ Pos(k) \in 1..8
                          /\ Pos(k) <= p + 1 <=> Pos(k) <= p \/ k = x
  <2> SUFFICES ASSUME NEW k \in AllKinds
               PROVE  Pos(k) \in 1..8 /\ (Pos(k) <= p + 1 <=> Pos(k) <= p \/ k = x)
    OBVIOUS
  <2>1. PICK i \in 1..8 : k = Chain[i]
    BY ChainFacts DEF AllKinds, ToSet
  <2>2. Pos(k) = i
    BY <2>1, ChainFacts
  <2> QED BY <2>1, <2>2, <1>0, <1>1
<1>3. t \in Seq(AllKinds) /\ Len(t) \in Nat /\ DOMAIN t = 1..Len(t)
  BY DEF Ordered
<1> HIDE DEF x
<1>4. CASE x \in K
  <2> DEFINE u == t \o <<x>>
  <2>1. /\ u \in Seq(AllKinds) /\ DOMAIN u = 1..(Len(t) + 1)
        /\ \A i \in 1..Len(t) : u[i] = t[i]
        /\ u[Len(t) + 1] = x
    BY <1>1, <1>3
  <2> HIDE DEF u
  <2>2. ToSet(u) = ToSet(t) \cup {x}
    <3>1. ToSet(u) = {u[i] : i \in 1..(Len(t) + 1)} /\ ToSet(t) = {t[i] : i \in 1..Len(t)}
      BY <1>3, <2>1 DEF ToSet
    <3>2. 1..(Len(t) + 1) = 1..Len(t) \cup {Len(t) + 1}
      BY <1>3
    <3>3. {u[i] : i \in 1..(Len(t) + 1)} = {u[i] : i \in 1..Len(t)} \cup {x}
      BY <2>1, <3>2
    <3>4. {u[i] : i \in 1..Len(t)} = {t[i] : i \in 1..Len(t)}
      BY <2>1
    <3> QED BY <3>1, <3>3, <3>4
  <2>3. ToSet(u) = {k \in K \cap AllKinds : Pos(k) <= p + 1}
    BY <2>2, <1>1, <1>2, <1>4 DEF Ordered
  <2>4. ASSUME NEW i \in DOMAIN u, NEW j \in DOMAIN u, i < j
        PROVE  Pos(u[i]) < Pos(u[j])
    <3>1. i \in DOMAIN t /\ u[i] = t[i]
      BY <1>3, <2>1, <2>4
    <3>2. CASE j = Len(t) + 1
      <4>1. t[i] \in ToSet(t)
        BY <3>1 DEF ToSet
      <4>2. t[i] \in AllKinds /\ Pos(t[i]) <= p
        BY <4>1 DEF Ordered
      <4>3. Pos(t[i]) \in 1..8
        BY <1>2, <4>2
      <4> QED BY <1>0, <1>1, <2>1, <3>1, <3>2, <4>2, <4>3
    <3>3. CASE j # Len(t) + 1
      <4>1. j \in DOMAIN t /\ u[j] = t[j]
        BY <1>3, <2>1, <3>3
      <4> QED BY <2>4, <3>1, <4>1 DEF Ordered
    <3> QED BY <3>2, <3>3
  <2>5. Ordered(u, p + 1, K)
    BY <2>1, <2>3, <2>4 DEF Ordered
  <2> QED BY <1>4, <2>5 DEF u, x
<1>5. CASE x \notin K
  <2>1. t \o <<>> = t
    BY <1>3
  <2>2. {k \in K \cap AllKinds : Pos(k) <= p} = {k \in K \cap AllKinds : Pos(k) <= p + 1}
    BY <1>2, <1>5
  <2>3. Ordered(t, p + 1, K)
    BY <2>2 DEF Ordered
  <2> QED BY <1>5, <2>1, <2>3 DEF x
<1> QED BY <1>4, <1>5

(* enabledMiddlewareKinds returns the kinds an entry asks for, all of them and
   in the chain order. *)
LEMMA EnabledKinds ==
  ASSUME NEW s, s.kinds \subseteq AllKinds
  PROVE  /\ EnabledMiddlewareKinds(s) \in Seq(AllKinds)
         /\ ToSet(EnabledMiddlewareKinds(s)) = s.kinds
         /\ \A i, j \in DOMAIN EnabledMiddlewareKinds(s) :
              i < j => Pos(EnabledMiddlewareKinds(s)[i]) < Pos(EnabledMiddlewareKinds(s)[j])
<1> DEFINE If(k) == IF k \in s.kinds THEN <<k>> ELSE <<>>
           e == EnabledMiddlewareKinds(s)
           e0 == <<>>
<1>1. Ordered(e0, 0, s.kinds)
  <2>1. \A k \in AllKinds : Pos(k) \in 1..8
    <3>1. \A k \in AllKinds : \E i \in 1..8 : k = Chain[i]
      BY ChainFacts DEF AllKinds, ToSet
    <3> QED BY <3>1, ChainFacts
  <2> QED BY <2>1 DEF Ordered, ToSet
<1> DEFINE e1 == e0 \o If(Chain[1])
           e2 == e1 \o If(Chain[2])
           e3 == e2 \o If(Chain[3])
           e4 == e3 \o If(Chain[4])
           e5 == e4 \o If(Chain[5])
           e6 == e5 \o If(Chain[6])
           e7 == e6 \o If(Chain[7])
           e8 == e7 \o If(Chain[8])
<1>2. ASSUME NEW t, NEW p \in 0..7, Ordered(t, p, s.kinds)
      PROVE  Ordered(t \o If(Chain[p + 1]), p + 1, s.kinds)
  BY <1>2, OrderedStep
<1>3. e = e8
  BY DEF EnabledMiddlewareKinds, Chain
<1>4. Ordered(e8, 8, s.kinds)
  <2> HIDE DEF If, e0
  <2>1. Ordered(e1, 1, s.kinds)
    BY <1>1, <1>2
  <2> HIDE DEF e1
  <2>2. Ordered(e2, 2, s.kinds)
    BY <2>1, <1>2
  <2> HIDE DEF e2
  <2>3. Ordered(e3, 3, s.kinds)
    BY <2>2, <1>2
  <2> HIDE DEF e3
  <2>4. Ordered(e4, 4, s.kinds)
    BY <2>3, <1>2
  <2> HIDE DEF e4
  <2>5. Ordered(e5, 5, s.kinds)
    BY <2>4, <1>2
  <2> HIDE DEF e5
  <2>6. Ordered(e6, 6, s.kinds)
    BY <2>5, <1>2
  <2> HIDE DEF e6
  <2>7. Ordered(e7, 7, s.kinds)
    BY <2>6, <1>2
  <2> HIDE DEF e7
  <2> QED BY <2>7, <1>2
<1>5. \A k \in AllKinds : Pos(k) <= 8
    <2>1. \A k \in AllKinds : \E i \in 1..8 : k = Chain[i]
      BY ChainFacts DEF AllKinds, ToSet
    <2> QED BY <2>1, ChainFacts
<1> HIDE DEF e, e8
<1>6. ToSet(e) = s.kinds
  BY <1>3, <1>4, <1>5 DEF Ordered
<1>7. Ordered(e, 8, s.kinds)
  BY <1>3, <1>4
<1> QED BY <1>6, <1>7 DEF Ordered, e

(* The references generated for an entry are those of its kinds, in order. *)
LEMMA GeneratedFacts ==
  ASSUME NEW d, NEW s \in EntrySpecs
  PROVE  /\ GeneratedRefs(d, s) \in Seq(ToSet(GeneratedRefs(d, s)))
         /\ ToSet(GeneratedRefs(d, s)) = {MiddlewareName(d, k) : k \in s.kinds}
         /\ \A i, j \in DOMAIN GeneratedRefs(d, s) :
              i < j => Pos(GeneratedRefs(d, s)[i][2]) < Pos(GeneratedRefs(d, s)[j][2])
<1> DEFINE e == EnabledMiddlewareKinds(s)
           g == GeneratedRefs(d, s)
<1>1. s.kinds \subseteq AllKinds
  BY ConstantsAssumption DEF EntrySpecs, AllKinds
<1>2. /\ e \in Seq(AllKinds) /\ ToSet(e) = s.kinds
      /\ \A i, j \in DOMAIN e : i < j => Pos(e[i]) < Pos(e[j])
  BY <1>1, EnabledKinds
<1>3. g = [i \in DOMAIN e |-> MiddlewareName(d, e[i])]
  BY DEF GeneratedRefs
<1> HIDE DEF e
<1>4. Len(e) \in Nat /\ DOMAIN e = 1..Len(e)
  BY <1>2
<1> HIDE DEF g
<1>5. g \in [1..Len(e) -> ToSet(g)]
  BY <1>3, <1>4 DEF ToSet
<1>6. g \in Seq(ToSet(g))
  BY <1>4, <1>5, IsASeq
<1>7. ToSet(g) = {MiddlewareName(d, k) : k \in ToSet(e)}
  BY <1>3 DEF ToSet
<1>8. \A i \in DOMAIN e : g[i][2] = e[i]
  BY <1>3 DEF MiddlewareName
<1> QED BY <1>2, <1>3, <1>6, <1>7, <1>8 DEF g

(* What the annotation of an entry holds. *)
LEMMA RefsFacts ==
  ASSUME NEW d, NEW s \in EntrySpecs
  PROVE  /\ ToSet(Refs(d, s)) = ToSet(s.refs) \cup {MiddlewareName(d, k) : k \in s.kinds}
         /\ s.kinds # {} => IsInjective(Refs(d, s))
         /\ \A i, j \in DOMAIN Refs(d, s) : i < j =>
              \/ Refs(d, s)[i] \in ToSet(s.refs)
              \/ /\ Refs(d, s)[j] \notin ToSet(s.refs)
                 /\ Pos(Refs(d, s)[i][2]) < Pos(Refs(d, s)[j][2])
<1> DEFINE g == GeneratedRefs(d, s)
           o == s.refs
           f == o \o g
           r == Refs(d, s)
<1>1. o \in Seq(ToSet(o))
  <2>1. <<>> \in Seq(ToSet(<<>>))
    OBVIOUS
  <2> QED BY <2>1, ConstantsAssumption DEF EntrySpecs
<1>2. CASE s.kinds = {}
  <2>1. r = o
    BY <1>2 DEF Refs
  <2> QED BY <1>2, <2>1 DEF ToSet
<1>3. CASE s.kinds # {}
  <2>1. r = FirstOnly(f)
    BY <1>3 DEF Refs
  <2>2. /\ g \in Seq(ToSet(g))
        /\ ToSet(g) = {MiddlewareName(d, k) : k \in s.kinds}
        /\ \A i, j \in DOMAIN g : i < j => Pos(g[i][2]) < Pos(g[j][2])
    BY GeneratedFacts
  <2> HIDE DEF g, o
  <2>3. /\ Len(o) \in Nat /\ DOMAIN o = 1..Len(o)
        /\ Len(g) \in Nat /\ DOMAIN g = 1..Len(g)
    BY <1>1, <2>2
  <2>4. /\ f \in Seq(ToSet(o) \cup ToSet(g))
        /\ Len(f) = Len(o) + Len(g) /\ DOMAIN f = 1..(Len(o) + Len(g))
        /\ \A i \in 1..Len(o) : f[i] = o[i]
        /\ \A i \in 1..(Len(o) + Len(g)) : i > Len(o) => f[i] = g[i - Len(o)]
    <3>1. o \in Seq(ToSet(o) \cup ToSet(g)) /\ g \in Seq(ToSet(o) \cup ToSet(g))
      BY <1>1, <2>2
    <3> QED BY <2>3, <3>1, ConcatProperties
  <2> HIDE DEF f
  <2>5. ToSet(f) = ToSet(o) \cup ToSet(g)
    <3>1. ASSUME NEW i \in DOMAIN f PROVE f[i] \in ToSet(o) \cup ToSet(g)
      <4>1. CASE i \in 1..Len(o)
        BY <2>3, <2>4, <4>1 DEF ToSet
      <4>2. CASE i \notin 1..Len(o)
        <5>1. i - Len(o) \in DOMAIN g /\ f[i] = g[i - Len(o)]
          BY <2>3, <2>4, <4>2
        <5> QED BY <5>1 DEF ToSet
      <4> QED BY <4>1, <4>2
    <3>2. ASSUME NEW i \in DOMAIN o PROVE o[i] \in ToSet(f)
      BY <2>3, <2>4 DEF ToSet
    <3>3. ASSUME NEW i \in DOMAIN g PROVE g[i] \in ToSet(f)
      <4>1. i + Len(o) \in DOMAIN f /\ f[i + Len(o)] = g[i]
        BY <2>3, <2>4
      <4> QED BY <4>1 DEF ToSet
    <3> QED BY <3>1, <3>2, <3>3 DEF ToSet
  <2>6. f \in Seq(ToSet(f))
    BY <2>4, <2>5
  <2>7. Distinct(r, f, Len(f))
    BY <2>1, <2>6, FirstOnlyDistinct
  <2> HIDE DEF r
  <2>8. r \in Seq(ToSet(f)) /\ Len(r) \in Nat /\ DOMAIN r = 1..Len(r)
    BY <2>7 DEF Distinct
  <2>9. ToSet(r) = ToSet(f)
    BY <2>3, <2>4, <2>7 DEF Distinct, ToSet
  <2>10. ASSUME NEW p \in DOMAIN r, NEW q \in DOMAIN r, p < q
         PROVE  /\ r[p] # r[q]
                /\ r[p] \in ToSet(o) \/ (r[q] \notin ToSet(o) /\ Pos(r[p][2]) < Pos(r[q][2]))
    <3>1. PICK j \in 1..Len(f) :
             /\ r[q] = f[j]
             /\ \E i \in 1..(j - 1) : r[p] = f[i]
             /\ \A i \in 1..(j - 1) : f[i] # f[j]
      BY <2>7, <2>10 DEF Distinct
    <3>2. PICK i \in 1..(j - 1) : r[p] = f[i]
      BY <3>1
    <3>3. r[p] # r[q]
      BY <3>1, <3>2
    <3>4. ASSUME r[p] \notin ToSet(o)
          PROVE  r[q] \notin ToSet(o) /\ Pos(r[p][2]) < Pos(r[q][2])
      <4>1. i \notin 1..Len(o)
        BY <2>3, <2>4, <3>2, <3>4 DEF ToSet
      <4>2. i > Len(o) /\ j > Len(o) /\ i < j /\ i \in Nat /\ j \in Nat
        BY <2>3, <2>4, <4>1
      <4>3. ASSUME r[q] \in ToSet(o) PROVE FALSE
        <5>1. PICK c \in DOMAIN o : r[q] = o[c]
          BY <4>3 DEF ToSet
        <5>2. c \in 1..(j - 1) /\ f[c] = f[j]
          BY <2>3, <2>4, <3>1, <4>2, <5>1
        <5> QED BY <3>1, <5>2
      <4>4. /\ i - Len(o) \in DOMAIN g /\ j - Len(o) \in DOMAIN g
            /\ i - Len(o) < j - Len(o)
            /\ f[i] = g[i - Len(o)] /\ f[j] = g[j - Len(o)]
        BY <2>3, <2>4, <4>2
      <4>5. Pos(g[i - Len(o)][2]) < Pos(g[j - Len(o)][2])
        BY <2>2, <4>4
      <4> QED BY <3>1, <3>2, <4>3, <4>4, <4>5
    <3> QED BY <3>3, <3>4
  <2>11. IsInjective(r)
    <3>1. ASSUME NEW p \in DOMAIN r, NEW q \in DOMAIN r, r[p] = r[q] PROVE p = q
      <4>1. ~(p < q) /\ ~(q < p)
        BY <3>1, <2>10
      <4> QED BY <4>1, <2>8
    <3> QED BY <3>1 DEF IsInjective
  <2> QED BY <2>2, <2>5, <2>9, <2>10, <2>11 DEF o, r
<1> QED BY <1>2, <1>3

(* The Middlewares a spec asks for. *)
LEMMA WantedFacts ==
  ASSUME NEW s \in [Entries -> EntrySpecs]
  PROVE  \A n : n \in Wanted(s) <=>
                 \E d \in Declared(s) : \E k \in s[d].kinds : n = MiddlewareName(d, k)
<1>1. \A d \in Entries : ToSet(GeneratedRefs(d, s[d])) = {MiddlewareName(d, k) : k \in s[d].kinds}
  BY GeneratedFacts
<1> QED BY <1>1 DEF Wanted, Declared

-----------------------------------------------------------------------------
(* The invariant. *)

(* The name of an entry's Ingress is a name. *)
LEMMA NamesFacts == \A d \in Entries : DomainIngressName[d] \in Names
BY DEF Names, Range, DomainIngressName

(* Storing an Ingress keeps types, and leaves the copy behind. *)
LEMMA PutFacts ==
  ASSUME TypeInv, NEW n \in Names, NEW i \in Ingresses, Put(n, i)
  PROVE  /\ ing' \in [Names -> Ingresses] /\ lag' \in [Names -> BOOLEAN]
         /\ ing'[n] = i /\ lag'[n]
         /\ \A m \in Names \ {n} : ing'[m] = ing[m] /\ lag'[m] = lag[m]
BY DEF TypeInv, Put

(* The Ingresses anybody stores are Ingresses. *)
LEMMA StoredIngresses ==
  ASSUME TypeInv, NEW n \in Names
  PROVE  /\ NoIngress \in Ingresses
         /\ [ing[n] EXCEPT !.addr = TRUE] \in Ingresses
         /\ \A d \in Entries : LET w == [seen[n] EXCEPT !.entry = d, !.refs = Refs(d, snap[d])]
                               IN  w \in Ingresses /\ w.entry = d /\ w.refs = Refs(d, snap[d])
<1>1. NoIngress \in Ingresses
  BY DEF NoIngress, Ingresses, Annotations
<1>2. ing[n] \in Ingresses /\ seen[n] \in Ingresses
  BY DEF TypeInv
<1>3. [ing[n] EXCEPT !.addr = TRUE] \in Ingresses
  BY <1>2 DEF Ingresses
<1>4. ASSUME NEW d \in Entries
      PROVE  LET w == [seen[n] EXCEPT !.entry = d, !.refs = Refs(d, snap[d])]
             IN  w \in Ingresses /\ w.entry = d /\ w.refs = Refs(d, snap[d])
  <2>1. d \in Nat /\ snap[d] \in EntrySpecs
    BY EntriesAreNumbers DEF TypeInv
  <2>2. Refs(d, snap[d]) \in Annotations
    BY <2>1 DEF Annotations
  <2> QED BY <1>2, <2>1, <2>2 DEF Ingresses
<1> QED BY <1>1, <1>3, <1>4

(* The Ingress the pass wants for the entry it has come to. *)
Desired == [seen[DomainIngressName[at]] EXCEPT !.entry = at, !.refs = Refs(at, snap[at])]

(* What reconciling an Ingress may come to: it is as desired, it is written,
   or the step fails. *)
LEMMA IngressOutcomes ==
  ASSUME ReconcileIngress
  PROVE  /\ pc = "ingresses" /\ at \in Entries
         /\ UNCHANGED <<spec, crd, mw, seen, queued, status, edits, faults>>
         /\ \/ /\ seen[DomainIngressName[at]] = Desired
               /\ UNCHANGED <<ing, lag, pc, snap, todo, failed>>
               /\ at' = NextEntry(snap, at + 1)
            \/ /\ Put(DomainIngressName[at], Desired)
               /\ UNCHANGED <<pc, snap, todo, failed>>
               /\ at' = NextEntry(snap, at + 1)
            \/ /\ UNCHANGED <<ing, lag>>
               /\ StepFails
BY Zenon DEF ReconcileIngress, Desired

(* An Ingress is stored, or a copy delivered, or neither. *)
LEMMA Touches ==
  ASSUME TypeInv, [Next]_vars
  PROVE  \/ UNCHANGED <<ing, seen, lag>>
         \/ \E n \in Names, i \in Ingresses : Put(n, i) /\ UNCHANGED seen
         \/ \E n \in Names : Deliver(n)
<1> DEFINE Goal == \/ UNCHANGED <<ing, seen, lag>>
                   \/ \E n \in Names, i \in Ingresses : Put(n, i) /\ UNCHANGED seen
                   \/ \E n \in Names : Deliver(n)
<1>1. ASSUME NEW n \in Names, AssignAddress(n) \/ DeleteIngress(n) \/ PruneIngress(n)
      PROVE  Goal
  <2>1. UNCHANGED seen
    BY <1>1 DEF AssignAddress, DeleteIngress, PruneIngress
  <2>2. \/ UNCHANGED <<ing, lag>>
        \/ Put(n, NoIngress) \/ Put(n, [ing[n] EXCEPT !.addr = TRUE])
    BY <1>1 DEF AssignAddress, DeleteIngress, PruneIngress
  <2> QED BY <2>1, <2>2, StoredIngresses
<1>2. ASSUME ReconcileIngress PROVE Goal
  <2>1. UNCHANGED seen /\ at \in Entries
    BY <1>2, IngressOutcomes
  <2>2. DomainIngressName[at] \in Names
    BY <2>1, NamesFacts
  <2>3. \/ UNCHANGED <<ing, lag>>
        \/ Put(DomainIngressName[at], Desired)
    BY <1>2, IngressOutcomes
  <2>4. Desired \in Ingresses
    BY <2>1, <2>2, StoredIngresses, Zenon DEF Desired
  <2> QED BY <2>1, <2>2, <2>3, <2>4
<1>3. ASSUME NEW k, ReconcileMiddleware(k) PROVE Goal
  BY <1>3 DEF ReconcileMiddleware
<1>4. ASSUME NEW m, PruneMiddleware(m) PROVE Goal
  BY <1>4 DEF PruneMiddleware
<1>5. ASSUME NEW d, NEW s, UserEdit(d, s) PROVE Goal
  BY <1>5 DEF UserEdit
<1>6. ASSUME \/ Begin \/ NextMiddlewares \/ MiddlewaresDone \/ ListIngresses
             \/ IngressesDone \/ UpdateStatus \/ CallFails \/ UNCHANGED vars
      PROVE  Goal
  BY <1>6 DEF Begin, NextMiddlewares, MiddlewaresDone, ListIngresses, IngressesDone,
     UpdateStatus, CallFails, vars
<1> QED BY <1>1, <1>2, <1>3, <1>4, <1>5, <1>6 DEF Next, Pass

(* Every step keeps the types of the Ingresses and their copies. *)
LEMMA IngressTypes ==
  TypeInv /\ [Next]_vars
    => (ing \in [Names -> Ingresses] /\ seen \in [Names -> Ingresses]
          /\ lag \in [Names -> BOOLEAN])'
<1> SUFFICES ASSUME TypeInv, [Next]_vars
             PROVE  (ing \in [Names -> Ingresses] /\ seen \in [Names -> Ingresses]
                       /\ lag \in [Names -> BOOLEAN])'
  OBVIOUS
<1>0. ing \in [Names -> Ingresses] /\ seen \in [Names -> Ingresses]
        /\ lag \in [Names -> BOOLEAN]
  BY DEF TypeInv
<1>1. CASE UNCHANGED <<ing, seen, lag>>
  BY <1>0, <1>1
<1>2. CASE \E n \in Names, i \in Ingresses : Put(n, i) /\ UNCHANGED seen
  BY <1>0, <1>2, PutFacts
<1>3. CASE \E n \in Names : Deliver(n)
  BY <1>0, <1>3 DEF Deliver
<1> QED BY <1>1, <1>2, <1>3, Touches

(* Who neither has the key queued nor a copy behind has missed nothing. *)
LEMMA Quiet ==
  ASSUME TypeInv, [Next]_vars, NEW n \in Names, ~lag'[n]
  PROVE  /\ ing'[n] = ing[n]
         /\ ~queued' => ~lag[n] /\ seen'[n] = seen[n]
<1>0. ing \in [Names -> Ingresses] /\ seen \in [Names -> Ingresses]
        /\ lag \in [Names -> BOOLEAN]
  BY DEF TypeInv
<1>1. CASE UNCHANGED <<ing, seen, lag>>
  BY <1>1
<1>2. CASE \E m \in Names, i \in Ingresses : Put(m, i) /\ UNCHANGED seen
  BY <1>0, <1>2, PutFacts
<1>3. CASE \E m \in Names : Deliver(m)
  BY <1>0, <1>3 DEF Deliver
<1> QED BY <1>1, <1>2, <1>3, Touches

(* Storing leaves the copy behind, and delivering brings it up to date. *)
LEMMA CopiesStep == TypeInv /\ Copies /\ [Next]_vars => Copies'
<1> SUFFICES ASSUME TypeInv, Copies, [Next]_vars, NEW n \in Names, ~lag'[n]
             PROVE  seen'[n] = ing'[n]
  BY DEF Copies
<1>0. seen \in [Names -> Ingresses] /\ lag \in [Names -> BOOLEAN]
  BY DEF TypeInv
<1>1. CASE UNCHANGED <<ing, seen, lag>>
  BY <1>1 DEF Copies
<1>2. CASE \E m \in Names, i \in Ingresses : Put(m, i) /\ UNCHANGED seen
  BY <1>0, <1>2, PutFacts DEF Copies
<1>3. CASE \E m \in Names : Deliver(m)
  BY <1>0, <1>3 DEF Copies, Deliver
<1> QED BY <1>1, <1>2, <1>3, Touches

(* Every step keeps all types. *)
LEMMA TypeStep == TypeInv /\ [Next]_vars => TypeInv'
<1> SUFFICES ASSUME TypeInv, [Next]_vars PROVE TypeInv'
  OBVIOUS
<1> DEFINE Rest ==
      /\ spec \in [Entries -> EntrySpecs] /\ snap \in [Entries -> EntrySpecs]
      /\ crd \in BOOLEAN /\ queued \in BOOLEAN /\ failed \in BOOLEAN
      /\ Rendering
      /\ at \in 1..(Len(Domains) + 1)
      /\ pc \in {"idle", "middlewares", "pruneMiddlewares", "ingresses",
                 "pruneIngresses", "updateStatus"}
      /\ failed => pc \in {"updateStatus", "idle"}
<1>0. Rest
  BY DEF TypeInv
<1> SUFFICES Rest'
  BY IngressTypes DEF TypeInv
<1>a. \A t \in [Entries -> EntrySpecs] :
        /\ NextEntry(t, 1) \in 1..(Len(Domains) + 1)
        /\ at \in Entries => NextEntry(t, at + 1) \in 1..(Len(Domains) + 1)
  BY NextEntryFacts, EntriesAreNumbers
<1>b. mw' = mw => Rendering'
  BY <1>0 DEF Rendering
<1>1. ASSUME NEW d \in Entries, NEW s \in DomainSpecs, UserEdit(d, s) PROVE Rest'
  <2>1. s \in EntrySpecs
    BY DEF DomainSpecs, EntrySpecs
  <2> QED BY <1>0, <1>b, <1>1, <2>1 DEF UserEdit, passVars
<1>2. ASSUME NEW n \in Names, AssignAddress(n) \/ DeleteIngress(n) PROVE Rest'
  BY <1>0, <1>b, <1>2 DEF AssignAddress, DeleteIngress, passVars
<1>3. ASSUME NEW n \in Names, Deliver(n) PROVE Rest'
  BY <1>0, <1>b, <1>3 DEF Deliver, passVars
<1>4. CASE Begin
  BY <1>0, <1>b, <1>4, <1>a DEF Begin
<1>5. ASSUME NEW k \in KindsUsed, ReconcileMiddleware(k) PROVE Rest'
  <2>1. Rendering'
    <3>1. Rendered(at, k).entry = at /\ Rendered(at, k).name[1] = DomainIngressName[at]
      BY DEF Rendered, MiddlewareName
    <3> QED BY <1>0, <1>5, <3>1 DEF ReconcileMiddleware, Rendering
  <2> QED BY <1>0, <1>b, <1>5, <2>1 DEF ReconcileMiddleware
<1>6. CASE NextMiddlewares
  BY <1>0, <1>b, <1>6, <1>a DEF NextMiddlewares
<1>7. ASSUME NEW m \in mw, PruneMiddleware(m) PROVE Rest'
  <2>1. Rendering'
    BY <1>0, <1>7 DEF PruneMiddleware, Rendering
  <2> QED BY <1>0, <1>7, <2>1 DEF PruneMiddleware
<1>8. CASE MiddlewaresDone
  BY <1>0, <1>b, <1>8, <1>a DEF MiddlewaresDone
<1>9. CASE ReconcileIngress
  <2>1. /\ UNCHANGED <<spec, crd, mw, queued, snap>> /\ at \in Entries
        /\ \/ UNCHANGED <<pc, failed>> /\ at' = NextEntry(snap, at + 1)
           \/ pc' = "updateStatus" /\ failed' = TRUE /\ UNCHANGED at
    BY <1>9, IngressOutcomes DEF StepFails
  <2>2. at' \in 1..(Len(Domains) + 1)
    BY <1>0, <1>a, <2>1
  <2>3. failed' \in BOOLEAN /\ (failed => pc \in {"updateStatus", "idle"})'
    <3>1. CASE UNCHANGED <<pc, failed>>
      BY <1>0, <3>1
    <3>2. CASE pc' = "updateStatus" /\ failed' = TRUE
      BY <3>2
    <3> QED BY <2>1, <3>1, <3>2
  <2>4. pc' \in {"idle", "middlewares", "pruneMiddlewares", "ingresses",
                 "pruneIngresses", "updateStatus"}
    BY <1>0, <2>1
  <2> QED BY <1>0, <1>b, <2>1, <2>2, <2>3, <2>4
<1>10. CASE ListIngresses \/ IngressesDone
  BY <1>0, <1>b, <1>10 DEF ListIngresses, IngressesDone
<1>11. ASSUME NEW n \in Names, PruneIngress(n) PROVE Rest'
  BY <1>0, <1>b, <1>11 DEF PruneIngress
<1>12. CASE CallFails
  BY <1>0, <1>b, <1>12 DEF CallFails, StepFails
<1>13. CASE UpdateStatus
  BY <1>0, <1>b, <1>13 DEF UpdateStatus
<1>14. CASE UNCHANGED vars
  BY <1>0, <1>b, <1>14 DEF vars, passVars
<1> QED
  BY <1>1, <1>2, <1>3, <1>4, <1>5, <1>6, <1>7, <1>8, <1>9, <1>10, <1>11, <1>12,
     <1>13, <1>14 DEF Next, Pass

(* Outside the passes the state of the pass and the Middlewares stay as they
   are, and the key is only ever added to the queue. *)
Outside ==
  /\ UNCHANGED <<crd, mw, passVars, status>>
  /\ queued => queued'
  /\ ~queued' => UNCHANGED <<spec, seen>>

(* These are the steps outside the passes. *)
LEMMA OutsideSteps ==
  /\ \A d, s : UserEdit(d, s) => Outside
  /\ \A n : AssignAddress(n) \/ DeleteIngress(n) \/ Deliver(n) => Outside
  /\ UNCHANGED vars => Outside
BY DEF UserEdit, AssignAddress, DeleteIngress, Deliver, vars, Outside

(* An edit queues the key, and a pass begins by reading the spec. *)
LEMMA CurrentStep == TypeInv /\ Current /\ [Next]_vars => Current'
<1> SUFFICES ASSUME TypeInv, Current, [Next]_vars, ~queued' PROVE snap' = spec'
  BY DEF Current
<1> DEFINE Kept == UNCHANGED <<snap, spec>> /\ ~queued
<1>0. Kept => snap' = spec'
  BY DEF Current
<1>1. CASE Begin
  BY <1>1 DEF Begin
<1>2. ASSUME Outside PROVE Kept
  BY <1>2 DEF Outside, passVars
<1>3. ASSUME NEW k, ReconcileMiddleware(k) PROVE Kept
  BY <1>3 DEF ReconcileMiddleware
<1>4. ASSUME NEW m, PruneMiddleware(m) PROVE Kept
  BY <1>4 DEF PruneMiddleware
<1>5. ASSUME NEW n, PruneIngress(n) PROVE Kept
  BY <1>5 DEF PruneIngress
<1>6. ASSUME ReconcileIngress PROVE Kept
  <2>1. UNCHANGED <<snap, spec, queued>>
    BY <1>6, IngressOutcomes, Zenon DEF StepFails
  <2> QED BY <2>1
<1>7. ASSUME NextMiddlewares \/ MiddlewaresDone \/ ListIngresses \/ IngressesDone PROVE Kept
  BY <1>7 DEF NextMiddlewares, MiddlewaresDone, ListIngresses, IngressesDone
<1>8. ASSUME UpdateStatus PROVE Kept
  BY <1>8 DEF UpdateStatus
<1>9. ASSUME CallFails PROVE Kept
  BY <1>9 DEF CallFails, StepFails
<1> HIDE DEF Kept
<1> QED BY <1>0, <1>1, <1>2, <1>3, <1>4, <1>5, <1>6, <1>7, <1>8, <1>9,
           OutsideSteps DEF Next, Pass

(* Rendering a Middleware adds its name. *)
LEMMA MiddlewareAdded ==
  ASSUME NEW k, ReconcileMiddleware(k)
  PROVE  \A n : n \in MwNames' <=> n \in MwNames \/ n = MiddlewareName(at, k)
<1>1. Rendered(at, k).name = MiddlewareName(at, k)
  BY DEF Rendered
<1>2. mw' = {m \in mw : m.name # MiddlewareName(at, k)} \cup {Rendered(at, k)}
  BY DEF ReconcileMiddleware
<1> QED BY <1>1, <1>2 DEF MwNames

(* What the pass has done about Middlewares stays done. *)
LEMMA ProvisionedStep == TypeInv /\ Provisioned /\ [Next]_vars => Provisioned'
<1> SUFFICES ASSUME TypeInv, Provisioned, [Next]_vars PROVE Provisioned'
  OBVIOUS
<1>0. /\ spec \in [Entries -> EntrySpecs] /\ snap \in [Entries -> EntrySpecs]
      /\ at \in 1..(Len(Domains) + 1)
      /\ crd \in BOOLEAN /\ queued \in BOOLEAN /\ failed \in BOOLEAN
  BY DEF TypeInv
<1>n. Entries = 1..Len(Domains) /\ Len(Domains) \in Nat
  BY EntriesAreNumbers
<1>m. mw' = mw => MwNames' = MwNames
  BY DEF MwNames
<1>1. ASSUME Outside PROVE Provisioned'
  <2>1. UNCHANGED <<crd, mw, pc, snap, at, todo, failed>> /\ (queued => queued')
    BY <1>1 DEF Outside, passVars
  <2>2. Passed' => Passed
    BY <2>1 DEF Passed
  <2> QED BY <1>m, <2>1, <2>2 DEF Provisioned, Provided
<1>2. ASSUME Begin PROVE Provisioned'
  <2>1. /\ NextEntry(spec, 1) \in Entries => NextEntry(spec, 1) \in Declared(spec)
        /\ \A e \in Declared(spec) : ~(e < NextEntry(spec, 1))
    <3>1. 1 \in 1..(Len(Domains) + 1)
      BY <1>n
    <3>2. \A e \in Declared(spec) : ~(e < 1)
      BY <1>n DEF Declared
    <3> QED BY <1>0, <3>1, <3>2, NextEntryFacts
  <2>2. ~Passed'
    BY <1>2 DEF Begin, Passed
  <2>3. CASE crd
    <3>1. UNCHANGED <<crd, mw>> /\ snap' = spec /\ at' = NextEntry(spec, 1)
          /\ pc' = "middlewares" /\ todo' = KindsAt(spec, NextEntry(spec, 1))
      BY <1>2, <2>3 DEF Begin
    <3>2. at' \in Entries => KindsAt(spec, at') = spec[at'].kinds
      BY DEF KindsAt
    <3> QED BY <2>1, <2>2, <2>3, <3>1, <3>2 DEF Provisioned, Provided
  <2>4. CASE ~crd
    <3>1. UNCHANGED <<crd, mw>> /\ pc' = "ingresses"
      BY <1>2, <2>4 DEF Begin
    <3> QED BY <2>4, <3>1 DEF Provisioned
  <2> QED BY <2>3, <2>4
<1>3. ASSUME NEW k \in KindsUsed, ReconcileMiddleware(k) PROVE Provisioned'
  <2>1. /\ pc = "middlewares" /\ at \in Entries /\ k \in todo /\ todo' = todo \ {k}
        /\ UNCHANGED <<crd, pc, snap, at>>
    BY <1>3 DEF ReconcileMiddleware
  <2>2. \A n : n \in MwNames' <=> n \in MwNames \/ n = MiddlewareName(at, k)
    BY <1>3, MiddlewareAdded
  <2>3. crd /\ ~Passed'
    BY <1>0, <2>1 DEF Provisioned, Passed
  <2>4. /\ \A d \in Declared(snap) : d < at => Provided(d, snap[d].kinds)
        /\ todo \subseteq KindsAt(snap, at)
        /\ at \in Declared(snap) /\ Provided(at, snap[at].kinds \ todo)
    BY <2>1 DEF Provisioned
  <2>5. \A d, K : Provided(d, K) => Provided(d, K)'
    BY <2>2 DEF Provided, MiddlewareName
  <2>6. Provided(at, snap[at].kinds \ (todo \ {k}))'
    BY <2>1, <2>2, <2>4 DEF Provided, MiddlewareName
  <2> QED BY <2>1, <2>3, <2>4, <2>5, <2>6 DEF Provisioned
<1>4. ASSUME NextMiddlewares PROVE Provisioned'
  <2>1. pc = "middlewares" /\ todo = {} /\ UNCHANGED <<crd, mw, snap>>
    BY <1>4 DEF NextMiddlewares
  <2>2. /\ crd /\ MwNames' = MwNames
        /\ \A d \in Declared(snap) : d < at => Provided(d, snap[d].kinds)
        /\ at \in Entries => at \in Declared(snap) /\ Provided(at, snap[at].kinds)
    BY <1>0, <1>m, <2>1 DEF Provisioned
  <2>3. CASE at \in Entries
    <3>1. /\ pc' = "middlewares" /\ at' = NextEntry(snap, at + 1)
          /\ todo' = KindsAt(snap, NextEntry(snap, at + 1))
      BY <1>4, <2>1, <2>3 DEF NextMiddlewares
    <3>2. at + 1 \in 1..(Len(Domains) + 1)
      BY <1>n, <2>3
    <3>3. /\ at' \in Entries => at' \in Declared(snap)
          /\ \A e \in Declared(snap) : e < at' => e < at + 1
      BY <1>0, <3>1, <3>2, NextEntryFacts
    <3>4. \A e \in Declared(snap) : e < at' => Provided(e, snap[e].kinds)
      BY <1>n, <2>2, <2>3, <3>3 DEF Declared
    <3>5. at' \in Entries => KindsAt(snap, at') = snap[at'].kinds
      BY DEF KindsAt
    <3> QED BY <2>1, <2>2, <3>1, <3>3, <3>4, <3>5 DEF Provisioned, Provided, Passed
  <2>4. CASE at \notin Entries
    <3>1. pc' = "pruneMiddlewares" /\ todo' = {m \in mw : m.name \notin Wanted(snap)}
      BY <1>4, <2>1, <2>4 DEF NextMiddlewares
    <3>2. \A d \in Declared(snap) : Provided(d, snap[d].kinds)
      BY <1>0, <1>n, <2>2, <2>4 DEF Declared
    <3>3. Wanted(snap) \subseteq MwNames
      BY <1>0, <3>2, WantedFacts DEF Provided
    <3> QED BY <2>1, <2>2, <3>1, <3>3 DEF Provisioned, Passed
  <2> QED BY <2>3, <2>4
<1>5. ASSUME NEW m \in mw, PruneMiddleware(m) PROVE Provisioned'
  <2>1. /\ pc = "pruneMiddlewares" /\ m \in todo /\ mw' = mw \ {m} /\ todo' = todo \ {m}
        /\ UNCHANGED <<crd, pc, snap>>
    BY <1>5 DEF PruneMiddleware
  <2>2. /\ crd /\ Wanted(snap) \subseteq MwNames
        /\ todo = {x \in mw : x.name \notin Wanted(snap)}
    BY <1>0, <2>1 DEF Provisioned
  <2>3. Wanted(snap) \subseteq MwNames'
    BY <2>1, <2>2 DEF MwNames
  <2>4. todo' = {x \in mw' : x.name \notin Wanted(snap)}
    BY <2>1, <2>2
  <2> QED BY <2>1, <2>2, <2>3, <2>4 DEF Provisioned, Passed
<1>6. ASSUME MiddlewaresDone PROVE Provisioned'
  <2>1. /\ pc = "pruneMiddlewares" /\ todo = {} /\ pc' = "ingresses"
        /\ UNCHANGED <<crd, mw, snap>>
    BY <1>6 DEF MiddlewaresDone
  <2>2. /\ crd /\ Wanted(snap) \subseteq MwNames
        /\ todo = {x \in mw : x.name \notin Wanted(snap)}
    BY <1>0, <2>1 DEF Provisioned
  <2>3. MwNames' = Wanted(snap)
    BY <1>m, <2>1, <2>2 DEF MwNames
  <2> QED BY <2>1, <2>2, <2>3 DEF Provisioned
<1>7. ASSUME \/ ReconcileIngress \/ ListIngresses \/ IngressesDone \/ UpdateStatus
             \/ \E n \in Names : PruneIngress(n)
      PROVE  Provisioned'
  <2> DEFINE Late == {"ingresses", "pruneIngresses"}
  <2>1. /\ UNCHANGED <<crd, mw, snap>>
        /\ pc' \notin {"middlewares", "pruneMiddlewares"}
        /\ Passed' \/ pc' \in Late => Passed \/ pc \in Late
    <3>1. CASE ReconcileIngress
      <4>1. UNCHANGED <<crd, mw, snap>> /\ pc = "ingresses" /\ pc' \in {pc, "updateStatus"}
        BY <3>1, IngressOutcomes, Zenon DEF StepFails
      <4> QED BY <4>1
    <3>2. CASE ListIngresses
      BY <3>2 DEF ListIngresses
    <3>3. CASE IngressesDone
      BY <3>3 DEF IngressesDone
    <3>4. CASE UpdateStatus
      <4>1. /\ UNCHANGED <<crd, mw, snap, failed>> /\ pc = "updateStatus" /\ pc' = "idle"
            /\ queued' = (queued \/ failed)
        BY <3>4 DEF UpdateStatus
      <4>2. Passed' => ~failed
        BY <1>0, <4>1 DEF Passed
      <4> QED BY <4>1, <4>2 DEF Passed
    <3>5. CASE \E n \in Names : PruneIngress(n)
      BY <3>5 DEF PruneIngress
    <3> QED BY <1>7, <3>1, <3>2, <3>3, <3>4, <3>5
  <2> QED BY <1>m, <2>1 DEF Provisioned
<1>8. ASSUME CallFails PROVE Provisioned'
  <2>1. /\ UNCHANGED <<crd, mw>> /\ pc' = "updateStatus" /\ failed'
    BY <1>8 DEF CallFails, StepFails
  <2> QED BY <2>1 DEF Provisioned, Passed
<1> QED BY <1>1, <1>2, <1>3, <1>4, <1>5, <1>6, <1>7, <1>8, OutsideSteps DEF Next, Pass

(* While a pass lasts, what holds of an Ingress without news goes on to hold. *)
LEMMA Stays ==
  ASSUME TypeInv, [Next]_vars, UNCHANGED snap, queued => queued'
  PROVE  /\ \A d \in Entries : Routed(d) => Routed(d)'
         /\ \A n : Unwanted(n)' => Unwanted(n)
         /\ \A n \in Names : ~queued' /\ ~lag'[n] =>
              ~queued /\ ~lag[n] /\ ing'[n] = ing[n] /\ seen'[n] = seen[n]
<1>1. \A n \in Names : ~queued' /\ ~lag'[n] =>
        ~queued /\ ~lag[n] /\ ing'[n] = ing[n] /\ seen'[n] = seen[n]
  BY Quiet
<1>2. \A n : Unwanted(n)' => Unwanted(n)
  BY DEF Unwanted, Declared
<1>3. \A d \in Entries : Routed(d) => Routed(d)'
  BY <1>1, NamesFacts DEF Routed
<1> QED BY <1>1, <1>2, <1>3

(* Every Ingress the pass has dealt with is as it should be, or has news. *)
LEMMA ExposedStep == TypeInv /\ Copies /\ Exposed /\ [Next]_vars => Exposed'
<1> SUFFICES ASSUME TypeInv, Copies, Exposed, [Next]_vars PROVE Exposed'
  OBVIOUS
<1>0. /\ spec \in [Entries -> EntrySpecs] /\ snap \in [Entries -> EntrySpecs]
      /\ at \in 1..(Len(Domains) + 1)
      /\ queued \in BOOLEAN /\ failed \in BOOLEAN
  BY DEF TypeInv
<1>n. Entries = 1..Len(Domains) /\ Len(Domains) \in Nat
  BY EntriesAreNumbers
<1>d. Declared(snap) \subseteq Entries /\ Declared(spec) \subseteq Entries
  BY DEF Declared
<1>s. \A t \in [Entries -> EntrySpecs] : \A e \in Declared(t) : ~(e < NextEntry(t, 1))
  <2>1. 1 \in 1..(Len(Domains) + 1)
    BY <1>n
  <2>2. \A t \in [Entries -> EntrySpecs] : \A e \in Declared(t) : ~(e < 1)
    BY <1>n DEF Declared
  <2> QED BY <2>1, <2>2, NextEntryFacts
<1>1. ASSUME Outside PROVE Exposed'
  <2>1. UNCHANGED <<pc, snap, at, todo, failed>> /\ (queued => queued')
    BY <1>1 DEF Outside, passVars
  <2>2. Passed' => Passed
    BY <2>1 DEF Passed
  <2> QED BY <1>d, <2>1, <2>2, Stays DEF Exposed
<1>2. ASSUME Begin PROVE Exposed'
  <2>1. snap' = spec /\ at' = NextEntry(spec, 1) /\ pc' \in {"middlewares", "ingresses"}
    BY <1>2 DEF Begin
  <2> QED BY <1>0, <1>s, <2>1 DEF Exposed, Passed
<1>3. ASSUME MiddlewaresDone PROVE Exposed'
  <2>1. UNCHANGED snap /\ at' = NextEntry(snap, 1) /\ pc' = "ingresses"
    BY <1>3 DEF MiddlewaresDone
  <2> QED BY <1>0, <1>s, <2>1 DEF Exposed, Passed
<1>4. ASSUME ReconcileIngress PROVE Exposed'
  <2> DEFINE n == DomainIngressName[at]
  <2>1. at \in Entries /\ pc = "ingresses" /\ UNCHANGED <<snap, queued, seen>>
    BY <1>4, IngressOutcomes, Zenon DEF StepFails
  <2>2. n \in Names
    BY <2>1, NamesFacts
  <2>3. Desired \in Ingresses /\ Desired.entry = at /\ Desired.refs = Refs(at, snap[at])
    BY <2>1, <2>2, StoredIngresses, Zenon DEF Desired
  <2>4. CASE StepFails
    <3>1. pc' = "updateStatus" /\ failed'
      BY <2>4 DEF StepFails
    <3> QED BY <3>1 DEF Exposed, Passed
  <2>5. ASSUME UNCHANGED <<pc, failed>>, at' = NextEntry(snap, at + 1),
               \A d \in Entries : d = at => Routed(d)'
        PROVE  Exposed'
    <3>1. at + 1 \in 1..(Len(Domains) + 1)
      BY <1>n, <2>1
    <3>2. \A e \in Declared(snap) : e < at' => e < at + 1
      BY <1>0, <2>5, <3>1, NextEntryFacts
    <3>3. \A e \in Declared(snap) : e < at' => e < at \/ e = at
      BY <1>n, <1>d, <2>1, <3>2
    <3>4. \A e \in Declared(snap) : e < at => Routed(e)'
      BY <1>d, <2>1, Stays DEF Exposed
    <3> QED BY <1>d, <2>1, <2>5, <3>3, <3>4 DEF Exposed, Passed
  <2>6. CASE /\ seen[n] = Desired /\ UNCHANGED <<ing, lag, pc, failed>>
             /\ at' = NextEntry(snap, at + 1)
    <3>1. ~lag[n] => ing[n].entry = at /\ ing[n].refs = Refs(at, snap[at])
      BY <2>2, <2>3, <2>6 DEF Copies
    <3>2. ASSUME NEW d \in Entries, d = at PROVE Routed(d)'
      BY <2>1, <2>6, <3>1, <3>2 DEF Routed
    <3> QED BY <2>5, <2>6, <3>2
  <2>7. CASE /\ Put(n, Desired) /\ UNCHANGED <<pc, failed>>
             /\ at' = NextEntry(snap, at + 1)
    <3>1. lag'[n]
      BY <2>2, <2>3, <2>7, PutFacts
    <3>2. ASSUME NEW d \in Entries, d = at PROVE Routed(d)'
      BY <3>1, <3>2 DEF Routed
    <3> QED BY <2>5, <2>7, <3>2
  <2> QED BY <1>4, <2>4, <2>6, <2>7, IngressOutcomes
<1>5. ASSUME ListIngresses PROVE Exposed'
  <2>1. /\ pc = "ingresses" /\ at \notin Entries /\ pc' = "pruneIngresses"
        /\ todo' = StaleIngresses /\ UNCHANGED <<snap, ing, seen, lag, queued>>
    BY <1>5 DEF ListIngresses
  <2>2. \A d \in Declared(snap) : Routed(d)
    BY <1>0, <1>n, <1>d, <2>1 DEF Exposed
  <2>3. ASSUME NEW n \in Names, Unwanted(n), ~lag[n], Exists(ing[n]) PROVE n \in StaleIngresses
    BY <2>3 DEF Copies, StaleIngresses, Unwanted
  <2> QED BY <1>d, <2>1, <2>2, <2>3, Stays DEF Exposed
<1>6. ASSUME NEW n \in Names, PruneIngress(n) PROVE Exposed'
  <2>1. /\ pc = "pruneIngresses" /\ n \in todo /\ todo' = todo \ {n}
        /\ UNCHANGED <<pc, snap, queued>>
    BY <1>6 DEF PruneIngress
  <2>2. lag'[n] \/ ~Exists(ing[n])
    <3>1. CASE Exists(ing[n])
      BY <1>6, <3>1, PutFacts, StoredIngresses DEF PruneIngress
    <3> QED BY <3>1
  <2> QED BY <1>d, <2>1, <2>2, Stays DEF Exposed, Passed
<1>7. ASSUME IngressesDone PROVE Exposed'
  <2>1. /\ pc = "pruneIngresses" /\ todo = {} /\ pc' = "updateStatus"
        /\ UNCHANGED <<snap, queued>>
    BY <1>7 DEF IngressesDone
  <2> QED BY <1>d, <2>1, Stays DEF Exposed
<1>8. ASSUME UpdateStatus PROVE Exposed'
  <2>1. /\ UNCHANGED <<snap, failed>> /\ pc = "updateStatus" /\ pc' = "idle"
        /\ queued' = (queued \/ failed)
    BY <1>8 DEF UpdateStatus
  <2>2. Passed' => ~failed
    BY <1>0, <2>1 DEF Passed
  <2>3. Passed' => Passed
    BY <2>1, <2>2 DEF Passed
  <2>4. queued => queued'
    BY <2>1
  <2> QED BY <1>d, <2>1, <2>3, <2>4, Stays DEF Exposed
<1>9. ASSUME CallFails PROVE Exposed'
  <2>1. pc' = "updateStatus" /\ failed'
    BY <1>9 DEF CallFails, StepFails
  <2> QED BY <2>1 DEF Exposed, Passed
<1>10. ASSUME \/ NextMiddlewares \/ (\E k \in KindsUsed : ReconcileMiddleware(k))
              \/ \E m \in mw : PruneMiddleware(m)
       PROVE  Exposed'
  <2>1. pc' \in {"middlewares", "pruneMiddlewares"}
    BY <1>10 DEF NextMiddlewares, ReconcileMiddleware, PruneMiddleware
  <2> QED BY <2>1 DEF Exposed, Passed
<1> QED BY <1>1, <1>2, <1>3, <1>4, <1>5, <1>6, <1>7, <1>8, <1>9, <1>10, OutsideSteps
        DEF Next, Pass

(* The conditions are those of the last pass until the key is queued. *)
LEMMA ReportedStep == TypeInv /\ Reported /\ [Next]_vars => Reported'
<1> SUFFICES ASSUME TypeInv, Reported, [Next]_vars, pc' = "idle", ~queued'
             PROVE  status' = [ingress |-> IngressReady(snap)',
                               middlewares |-> MiddlewaresReady(spec)']
  BY DEF Reported
<1>0. UNCHANGED <<spec, snap, seen, crd, mw>>
        => IngressReady(snap)' = IngressReady(snap)
             /\ MiddlewaresReady(spec)' = MiddlewaresReady(spec)
  BY DEF IngressReady, MiddlewaresReady, Declared, Wanted
<1>1. CASE Outside
  <2>1. UNCHANGED <<crd, mw, pc, snap, status, spec, seen>> /\ ~queued
    BY <1>1 DEF Outside, passVars
  <2> QED BY <1>0, <2>1 DEF Reported
<1>2. CASE UpdateStatus
  <2>1. /\ UNCHANGED <<spec, snap, seen, crd, mw>>
        /\ status' = [ingress |-> IngressReady(snap),
                      middlewares |-> MiddlewaresReady(spec)]
    BY <1>2 DEF UpdateStatus
  <2> QED BY <1>0, <2>1
<1>3. ASSUME Begin \/ NextMiddlewares \/ MiddlewaresDone \/ ListIngresses \/ IngressesDone
      PROVE  FALSE
  BY <1>3 DEF Begin, NextMiddlewares, MiddlewaresDone, ListIngresses, IngressesDone
<1>4. ASSUME \/ \E k \in KindsUsed : ReconcileMiddleware(k)
             \/ \E m \in mw : PruneMiddleware(m)
             \/ \E n \in Names : PruneIngress(n)
      PROVE  FALSE
  BY <1>4 DEF ReconcileMiddleware, PruneMiddleware, PruneIngress
<1>5. ASSUME ReconcileIngress \/ CallFails PROVE FALSE
  <2>1. pc' \in {"ingresses", "updateStatus"}
    BY <1>5, IngressOutcomes, Zenon DEF CallFails, StepFails
  <2> QED BY <2>1
<1> QED BY <1>1, <1>2, <1>3, <1>4, <1>5, OutsideSteps DEF Next, Pass

(* The invariant holds at the start. *)
LEMMA InitInv == Init => TypeInv /\ Inv
<1> SUFFICES ASSUME Init PROVE TypeInv /\ Inv
  OBVIOUS
<1>1. PICK K \in {{}, KindsUsed} :
        spec = [d \in Entries |-> [declared |-> TRUE, kinds |-> K, refs |-> <<>>]]
  BY DEF Init
<1>2. spec \in [Entries -> EntrySpecs] /\ snap = spec
  <2>1. [declared |-> TRUE, kinds |-> K, refs |-> <<>>] \in EntrySpecs
    BY DEF EntrySpecs
  <2> QED BY <1>1, <2>1 DEF Init
<1>3. NoIngress \in Ingresses
  BY DEF NoIngress, Ingresses, Annotations
<1>4. TypeInv
  <2>1. /\ ing \in [Names -> Ingresses] /\ seen \in [Names -> Ingresses]
        /\ lag \in [Names -> BOOLEAN]
    BY <1>3 DEF Init
  <2>2. at \in 1..(Len(Domains) + 1)
    BY EntriesAreNumbers DEF Init
  <2>3. Rendering
    BY DEF Init, Rendering
  <2>4. /\ crd \in BOOLEAN /\ queued = TRUE /\ failed = FALSE /\ pc = "idle"
    BY DEF Init
  <2> QED BY <1>2, <2>1, <2>2, <2>3, <2>4 DEF TypeInv
<1>5. Copies /\ Current /\ Provisioned /\ Exposed /\ Reported
  BY <1>2 DEF Init, Copies, Current, Provisioned, Exposed, Reported, Passed
<1> QED BY <1>4, <1>5 DEF Inv

(* Types and invariant hold throughout. *)
LEMMA Invariance == Spec => [](TypeInv /\ Inv)
<1>1. TypeInv /\ Inv /\ [Next]_vars => (TypeInv /\ Inv)'
  BY TypeStep, CopiesStep, CurrentStep, ProvisionedStep, ExposedStep, ReportedStep DEF Inv
<1> QED BY <1>1, InitInv, PTL DEF Spec

-----------------------------------------------------------------------------
(* What the operator has achieved when it falls silent. *)

(* What the invariant comes to at rest. *)
LEMMA AtRest ==
  ASSUME TypeInv, Inv, Quiescent
  PROVE  /\ snap = spec /\ spec \in [Entries -> EntrySpecs]
         /\ \A n \in Names : seen[n] = ing[n]
         /\ MwNames = IF crd THEN Wanted(spec) ELSE {}
         /\ \A d \in Declared(spec) :
              /\ d \in Entries /\ DomainIngressName[d] \in Names
              /\ ing[DomainIngressName[d]].entry = d
              /\ ing[DomainIngressName[d]].refs = Refs(d, spec[d])
         /\ \A n \in Names : Exists(ing[n]) =>
              \E d \in Declared(spec) : n = DomainIngressName[d]
<1>1. pc = "idle" /\ ~queued /\ \A n \in Names : ~lag[n]
  BY DEF Quiescent
<1>2. snap = spec /\ spec \in [Entries -> EntrySpecs]
  BY <1>1 DEF Inv, Current, TypeInv
<1>3. Passed
  BY <1>1 DEF Passed
<1>4. \A n \in Names : seen[n] = ing[n]
  BY <1>1 DEF Inv, Copies
<1>5. MwNames = IF crd THEN Wanted(spec) ELSE {}
  BY <1>2, <1>3 DEF Inv, Provisioned, MwNames, TypeInv
<1>6. \A d \in Declared(spec) : d \in Entries /\ DomainIngressName[d] \in Names
  BY NamesFacts DEF Declared
<1>7. \A d \in Declared(spec) : /\ ing[DomainIngressName[d]].entry = d
                                /\ ing[DomainIngressName[d]].refs = Refs(d, spec[d])
  BY <1>1, <1>2, <1>3, <1>6 DEF Inv, Exposed, Routed
<1>8. \A n \in Names : Exists(ing[n]) =>
        \E d \in Declared(spec) : n = DomainIngressName[d]
  BY <1>1, <1>2, <1>3 DEF Inv, Exposed, Unwanted
<1> QED BY <1>2, <1>4, <1>5, <1>6, <1>7, <1>8

(* When the operator falls silent there is exactly one Ingress per declared
   entry and one Middleware per kind it asks for, and nothing else: every
   stale Ingress that the cache had not heard of yet is found by a later pass,
   because the news that reveals it also queues the key. *)
THEOREM RoutingSettles == Spec => []SettledRouting
<1>1. ASSUME TypeInv, Inv PROVE SettledRouting
  <2> SUFFICES ASSUME Quiescent
               PROVE  /\ {ing[n].entry : n \in {m \in Names : Exists(ing[m])}} = Declared(spec)
                      /\ {m.name : m \in mw} = IF crd THEN Wanted(spec) ELSE {}
                      /\ \A m \in mw : m.name[1] = DomainIngressName[m.entry]
    BY DEF SettledRouting
  <2>1. \A d \in Declared(spec) : Exists(ing[DomainIngressName[d]])
    BY <1>1, AtRest, EntriesAreNumbers DEF Exists
  <2>2. {ing[n].entry : n \in {m \in Names : Exists(ing[m])}} = Declared(spec)
    BY <1>1, <2>1, AtRest
  <2>3. {m.name : m \in mw} = IF crd THEN Wanted(spec) ELSE {}
    BY <1>1, AtRest DEF MwNames
  <2>4. \A m \in mw : m.name[1] = DomainIngressName[m.entry]
    BY <1>1 DEF TypeInv, Rendering
  <2> QED BY <2>2, <2>3, <2>4
<1> QED BY <1>1, Invariance, PTL

(* When the operator falls silent IngressReady and MiddlewaresReady are true
   of the cluster, although the one goes by the spec and the cache of the pass
   and the other by the AppDefinition read again. *)
THEOREM ConditionsSettle == Spec => []SettledConditions
<1>1. ASSUME TypeInv, Inv PROVE SettledConditions
  <2> SUFFICES ASSUME Quiescent
               PROVE  /\ status.ingress = "True" <=>
                           /\ Declared(spec) # {}
                           /\ \A d \in Declared(spec) : ing[DomainIngressName[d]].addr
                      /\ status.middlewares = "True" <=>
                           Wanted(spec) # {} /\ Wanted(spec) \subseteq {m.name : m \in mw}
    BY DEF SettledConditions
  <2>1. status.ingress = IngressReady(spec) /\ status.middlewares = MiddlewaresReady(spec)
    BY <1>1, AtRest DEF Inv, Reported, Quiescent
  <2>2. \A d \in Declared(spec) : seen[DomainIngressName[d]] = ing[DomainIngressName[d]]
    BY <1>1, AtRest
  <2>3. {m.name : m \in mw} = IF crd THEN Wanted(spec) ELSE {}
    BY <1>1, AtRest DEF MwNames
  <2>4. status.ingress = "True" <=>
          /\ Declared(spec) # {}
          /\ \A d \in Declared(spec) : ing[DomainIngressName[d]].addr
    BY <2>1, <2>2 DEF IngressReady
  <2>5. status.middlewares = "True" <=>
          Wanted(spec) # {} /\ Wanted(spec) \subseteq {m.name : m \in mw}
    BY <2>1, <2>3 DEF MiddlewaresReady
  <2> QED BY <2>4, <2>5
<1> QED BY <1>1, Invariance, PTL

(* When the operator falls silent every Ingress runs its entry's own
   references first, then the kinds it asks for in the documented order, and
   names nothing twice: for chains and annotations of any length. *)
THEOREM ChainsSettle == Spec => []SettledChains
<1>1. ASSUME TypeInv, Inv PROVE SettledChains
  <2> SUFFICES ASSUME Quiescent, NEW d \in Declared(spec)
               PROVE  LET refs == ing[DomainIngressName[d]].refs
                          own  == ToSet(spec[d].refs) IN
                      /\ ToSet(refs) = own \cup {MiddlewareName(d, k) : k \in spec[d].kinds}
                      /\ spec[d].kinds # {} => IsInjective(refs)
                      /\ \A i, j \in DOMAIN refs : i < j =>
                           \/ refs[i] \in own
                           \/ refs[j] \notin own /\ Pos(refs[i][2]) < Pos(refs[j][2])
    BY DEF SettledChains
  <2>1. ing[DomainIngressName[d]].refs = Refs(d, spec[d]) /\ spec[d] \in EntrySpecs
    BY <1>1, AtRest
  <2> HIDE DEF EntrySpecs
  <2> QED BY <2>1, RefsFacts, Zenon
<1> QED BY <1>1, Invariance, PTL

(* Every reference of a stored Ingress is its entry's own or that of a
   Middleware that exists. *)
NothingDangles ==
  Quiescent /\ crd =>
    \A n \in Names : Exists(ing[n]) =>
      \A r \in ToSet(ing[n].refs) : r \in ToSet(spec[ing[n].entry].refs) \/ r \in MwNames

(* When the operator falls silent no route names a Middleware that is gone,
   although a pass deletes Middlewares before it rewrites the Ingresses and
   may fail in between. *)
THEOREM RoutesSettle == Spec => []NothingDangles
<1>1. ASSUME TypeInv, Inv PROVE NothingDangles
  <2> SUFFICES ASSUME Quiescent, crd, NEW n \in Names, Exists(ing[n]),
                      NEW r \in ToSet(ing[n].refs)
               PROVE  r \in ToSet(spec[ing[n].entry].refs) \/ r \in MwNames
    BY DEF NothingDangles
  <2>1. PICK d \in Declared(spec) : n = DomainIngressName[d]
    BY <1>1, AtRest
  <2>2. /\ ing[n].entry = d /\ ing[n].refs = Refs(d, spec[d])
        /\ spec \in [Entries -> EntrySpecs] /\ spec[d] \in EntrySpecs
        /\ MwNames = Wanted(spec)
    BY <1>1, <2>1, AtRest
  <2>3. r \in ToSet(spec[d].refs) \/ \E k \in spec[d].kinds : r = MiddlewareName(d, k)
    BY <2>2, RefsFacts
  <2>4. (\E k \in spec[d].kinds : r = MiddlewareName(d, k)) => r \in Wanted(spec)
    BY <2>2, WantedFacts
  <2> QED BY <2>2, <2>3, <2>4
<1> QED BY <1>1, Invariance, PTL

(* Declared entries have different names. *)
NamesApart ==
  Quiescent =>
    \A d, e \in Declared(spec) : DomainIngressName[d] = DomainIngressName[e] => d = e

(* An app two of whose entries come to the same Ingress, as hosts a.b and a-b
   do, never falls silent: each pass writes the one over the other, and each
   write is an event. So at rest no entry is hidden by another. *)
THEOREM CollisionsNeverSettle == Spec => []NamesApart
<1>1. ASSUME TypeInv, Inv PROVE NamesApart
  BY <1>1, AtRest DEF NamesApart
<1> QED BY <1>1, Invariance, PTL
=============================================================================
