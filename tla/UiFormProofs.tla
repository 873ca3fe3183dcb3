---------------------------- MODULE UiFormProofs ----------------------------
(***************************************************************************)
(* Proof that a save from the edit form changes only what was typed.       *)
(*                                                                         *)
(* The argument goes through what the browser holds: everything with the   *)
(* resourceVersion of the stored object is a copy of it, up to inline data *)
(* (Copies), the inputs nobody has touched are those of existing           *)
(* (FormOfExisting), and hence the untouched fields of every request that  *)
(* can still be served are what the form gives back of the stored object   *)
(* (Requested).                                                            *)
(***************************************************************************)
EXTENDS UiForm, TLAPS

Copy(x) ==
  /\ x.rv <= version
  /\ x.rv = 0 => x = Nothing
  /\ x.rv = app.rv => x.entries = Sanitized(app).entries

Copies == Copy(existing) /\ Copy(fetched)

AppOfVersion == app.rv <= version /\ (app.rv = 0 => app = Nothing)

FormOfExisting ==
  page = "edit" => \A n \in Shown \ typed : form[n] = Input(n, existing.entries[n])

(* What the form makes of value e of an untouched field. *)
Back(n, e) == Output(n, Input(n, e))

Requested ==
  \A c \in Clients :
    asked[c].verb = "update" =>
      /\ asked[c].rv <= version /\ asked[c].rv # 0
      /\ \A n \in Hidden : asked[c].entries[n] = None
      /\ asked[c].rv = app.rv =>
           \A n \in Shown \ meant[c] :
             asked[c].entries[n] = Back(n, Sanitized(app).entries[n])

Inv == TypeOK /\ AppOfVersion /\ Copies /\ FormOfExisting /\ Requested

Stored == {None, Ref, Rich, Off} \cup {Inline(d) : d \in 0..MaxData}
Seen == {None, Ref, Rich, Off, Bare}
Object(E) == [rv : 0..MaxVersion, entries : [Names -> E]]

(* The kinds of values, as the provers need them. *)
LEMMA Kinds ==
  /\ None.kind = "none" /\ Ref.kind = "ref" /\ Bare.kind = "bare"
  /\ Rich.kind = "rich" /\ Off.kind = "off"
  /\ \A d : Inline(d).kind = "inline"
  /\ \A e \in Seen : e.kind # "inline"
  /\ \A e \in Stored : e.kind # "bare"
  /\ \A e \in Stored : e.kind # "inline" => e \in Seen
BY DEF None, Ref, Rich, Off, Bare, Inline, Seen, Stored

(* Nothing is an object, and a request without fields. *)
LEMMA Nothings ==
  /\ Nothing \in Object(Stored) /\ Nothing \in Object(Seen)
  /\ Sanitized(Nothing).entries = Nothing.entries
  /\ Nothing.rv = 0 /\ AppToForm(Nothing) \in [Shown -> Seen]
  /\ NoRequest \in [verb : {"none", "update"}, rv : 0..MaxVersion,
                    entries : [Names -> Seen]]
  /\ NoRequest.verb = "none"
BY Kinds, ConstantsAssumption
   DEF Nothing, Object, Stored, Seen, Sanitized, AppToForm, Input, Shown, NoRequest

(* What sanitizeAppDefinition shows of a stored object. *)
LEMMA SanitizedObject ==
  ASSUME NEW a \in Object(Stored)
  PROVE /\ Sanitized(a) \in Object(Seen) /\ Sanitized(a).rv = a.rv
        /\ \A n \in Names :
             Sanitized(a).entries[n] = IF a.entries[n].kind = "inline"
                                       THEN Bare ELSE a.entries[n]
<1>1. \A n \in Names : (IF a.entries[n].kind = "inline"
                        THEN Bare ELSE a.entries[n]) \in Seen
  BY Kinds DEF Object, Seen
<1> QED
  BY <1>1 DEF Sanitized, Object

(* What a write leaves: a new version, of which the browser has no copy. *)
LEMMA NewVersion ==
  ASSUME Inv, NEW entries \in [Names -> Stored], Write(entries)
  PROVE /\ app' \in Object(Stored) /\ version' \in 0..MaxVersion
        /\ AppOfVersion'
        /\ existing' = existing /\ fetched' = fetched => Copies'
        /\ asked' = asked /\ meant' = meant => Requested'
<1>1. app' = [rv |-> version + 1, entries |-> entries] /\ version' = version + 1
      /\ version \in 0..MaxVersion /\ version < MaxVersion
  BY DEF Write, Inv, TypeOK
<1>2. app' \in Object(Stored) /\ version' \in 0..MaxVersion
      /\ app'.rv = version + 1 /\ version' = version + 1
  BY <1>1, ConstantsAssumption DEF Object
<1>3. AppOfVersion'
  BY <1>1, <1>2 DEF AppOfVersion
<1>4. ASSUME NEW x \in Object(Seen), x.rv <= version, x.rv = 0 => x = Nothing
      PROVE x.rv <= version' /\ x.rv # app'.rv
  BY <1>1, <1>2, <1>4 DEF Object
<1>5. existing \in Object(Seen) /\ fetched \in Object(Seen) /\ Copies
  BY DEF Inv, TypeOK, Object, Seen
<1>6. existing' = existing /\ fetched' = fetched => Copies'
  BY <1>4, <1>5 DEF Copies, Copy
<1>7. asked' = asked /\ meant' = meant => Requested'
  BY <1>1, <1>2, ConstantsAssumption DEF Inv, TypeOK, Requested
<1> QED
  BY <1>2, <1>3, <1>6, <1>7

(* The object may go: the browser has no copy of nothing but nothing. *)
LEMMA Gone ==
  ASSUME Inv, app' = Nothing, version' = version,
         existing' = existing, fetched' = fetched, asked' = asked, meant' = meant
  PROVE /\ app' \in Object(Stored) /\ AppOfVersion' /\ Copies' /\ Requested'
<1>1. version \in 0..MaxVersion /\ Nothing.rv = 0
  BY Nothings DEF Inv, TypeOK
<1>2. app' \in Object(Stored) /\ AppOfVersion'
  BY <1>1, Nothings DEF AppOfVersion
<1>3. Copies'
  BY <1>1, Nothings DEF Inv, Copies, Copy
<1>4. Requested'
  BY <1>1 DEF Inv, Requested
<1> QED
  BY <1>2, <1>3, <1>4

(* Init establishes the invariant. *)
LEMMA InitInv == Init => Inv
<1> SUFFICES ASSUME Init PROVE Inv
  OBVIOUS
<1> USE DEF Init, StoreInit
<1>1. TypeOK
  BY Nothings, ConstantsAssumption DEF TypeOK, Object, Stored, Seen
<1>2. AppOfVersion /\ Copies /\ FormOfExisting /\ Requested
  BY Nothings DEF AppOfVersion, Copies, Copy, FormOfExisting, Requested
<1> QED
  BY <1>1, <1>2 DEF Inv

(* The types of what the browser holds, when no action has touched them. *)
LEMMA UiTypes ==
  ASSUME Inv
  PROVE /\ app \in Object(Stored) /\ version \in 0..MaxVersion
        /\ asked \in [Clients -> [verb : {"none", "update"}, rv : 0..MaxVersion,
                                  entries : [Names -> Seen]]]
        /\ existing \in Object(Seen) /\ fetched \in Object(Seen)
        /\ form \in [Shown -> Seen] /\ typed \subseteq Shown
        /\ meant \in [Clients -> SUBSET Shown]
        /\ page \in {"away", "edit"} /\ saving \in Clients \cup {NoClient}
BY DEF Inv, TypeOK, Object, Stored, Seen

(* The other way round, for the next state. *)
LEMMA TypesOK ==
  ASSUME (/\ app \in Object(Stored) /\ version \in 0..MaxVersion
          /\ asked \in [Clients -> [verb : {"none", "update"},
                                    rv : 0..MaxVersion,
                                    entries : [Names -> Seen]]]
          /\ existing \in Object(Seen) /\ fetched \in Object(Seen)
          /\ form \in [Shown -> Seen] /\ typed \subseteq Shown
          /\ meant \in [Clients -> SUBSET Shown]
          /\ page \in {"away", "edit"} /\ saving \in Clients \cup {NoClient})'
  PROVE TypeOK'
BY DEF TypeOK, Object, Stored, Seen

(* The steps of the others, and those the browser does not see. *)
LEMMA UnseenStep ==
  ASSUME Inv, UNCHANGED <<asked, uiVars>>,
         \/ app' = Nothing /\ version' = version
         \/ \E entries \in [Names -> Stored] : Write(entries)
  PROVE Inv'
<1>1. app' \in Object(Stored) /\ version' \in 0..MaxVersion
      /\ AppOfVersion' /\ Copies' /\ Requested'
  BY NewVersion, Gone, UiTypes DEF uiVars
<1>2. TypeOK'
  <2> USE UiTypes DEF uiVars
  <2> QED
    BY <1>1, TypesOK
<1>3. FormOfExisting'
  BY DEF Inv, FormOfExisting, uiVars
<1> QED
  BY <1>1, <1>2, <1>3 DEF Inv

(* AppStore's Merge stores what may be stored, whatever a request may hold. *)
LEMMA Merged ==
  ASSUME Inv, NEW c \in Clients, ServeUpdate(c)
  PROVE /\ Merge(app.entries, asked[c].entries) \in [Names -> Stored]
        /\ Write(Merge(app.entries, asked[c].entries))
<1> DEFINE m == Merge(app.entries, asked[c].entries)
<1>1. Write(m) /\ \A n \in Names : m[n].kind # "bare"
  BY DEF ServeUpdate
<1>2. m = [n \in Names |-> IF /\ asked[c].entries[n].kind = "bare"
                              /\ app.entries[n].kind = "inline"
                           THEN app.entries[n] ELSE asked[c].entries[n]]
  BY DEF Merge
<1>3. ASSUME NEW n \in Names PROVE m[n] \in Stored
  <2>1. app.entries[n] \in Stored /\ asked[c].entries[n] \in Seen
    BY UiTypes DEF Object
  <2>2. m[n] = app.entries[n] \/ m[n] = asked[c].entries[n]
    BY <1>2
  <2>3. \A e \in Seen : e.kind # "bare" => e \in Stored
    BY Kinds DEF Seen, Stored
  <2> QED
    BY <1>1, <2>1, <2>2, <2>3
<1> QED
  BY <1>1, <1>2, <1>3

(* Every step keeps the invariant. *)
LEMMA NextInv == Inv /\ [Next]_vars => Inv'
<1> SUFFICES ASSUME Inv, [Next]_vars PROVE Inv'
  OBVIOUS
<1>1. CASE Others
  <2>1. Nothing.entries \in [Names -> Stored] /\ app.entries \in [Names -> Stored]
    BY UiTypes, Nothings DEF Object
  <2>2. /\ None \in Stored /\ Ref \in Stored /\ Rich \in Stored
        /\ Off \in Stored /\ Inline(1) \in Stored
    BY ConstantsAssumption DEF Stored
  <2>3. CASE \E entries \in [Names -> {None, Ref}] : Created(entries)
    BY <2>3, <2>2, UnseenStep DEF Created
  <2>4. CASE Touched /\ UNCHANGED uiVars
    BY <2>4, <2>1, UnseenStep DEF Touched
  <2>5. CASE Removed /\ UNCHANGED uiVars
    BY <2>5, UnseenStep DEF Removed
  <2>6. CASE \E n \in Names, e \in Stored : Outside(n, e) /\ UNCHANGED uiVars
    BY <2>6, <2>1, UnseenStep DEF Outside
  <2>7. CASE \E n \in Names, e \in {None, Ref} : Outside(n, e) /\ UNCHANGED uiVars
    BY <2>7, <2>6, <2>2
  <2>8. CASE \E n \in Shown \ Filled : Outside(n, Inline(1)) /\ UNCHANGED uiVars
    BY <2>8, <2>6, <2>2 DEF Shown
  <2>9. CASE \E n \in Flattened : Outside(n, Rich) /\ UNCHANGED uiVars
    BY <2>9, <2>6, <2>2, ConstantsAssumption
  <2>10. CASE \E n \in Switched : Outside(n, Off) /\ UNCHANGED uiVars
    BY <2>10, <2>6, <2>2, ConstantsAssumption
  <2> QED
    BY <1>1, <2>3, <2>4, <2>5, <2>7, <2>8, <2>9, <2>10 DEF Others
<1>2. CASE FetchReads
  <2> USE <1>2 DEF FetchReads, storeVars
  <2>1. fetched' \in Object(Seen) /\ fetched'.rv = app.rv
        /\ fetched'.entries = Sanitized(app).entries
    BY UiTypes, SanitizedObject
  <2>2. TypeOK'
    BY <2>1, UiTypes, TypesOK
  <2>3. Sanitized(app)' = Sanitized(app)
    BY DEF Sanitized
  <2>4. Copies'
    BY <2>1, <2>3 DEF Inv, Copies, Copy, AppOfVersion, Exists
  <2>5. AppOfVersion' /\ FormOfExisting' /\ Requested'
    BY <2>3 DEF Inv, AppOfVersion, FormOfExisting, Requested
  <2> QED
    BY <2>2, <2>4, <2>5 DEF Inv
<1>3. CASE FetchFails
  <2> USE <1>3 DEF FetchFails, storeVars
  <2>1. TypeOK'
    BY Nothings, UiTypes, TypesOK
  <2>2. Sanitized(app)' = Sanitized(app)
    BY DEF Sanitized
  <2>3. Copies'
    BY <2>2, Nothings, UiTypes DEF Inv, Copies, Copy, AppOfVersion
  <2>4. AppOfVersion' /\ FormOfExisting' /\ Requested'
    BY <2>2 DEF Inv, AppOfVersion, FormOfExisting, Requested
  <2> QED
    BY <2>1, <2>3, <2>4 DEF Inv
<1>4. CASE FetchArrives
  <2> USE <1>4 DEF FetchArrives, storeVars
  <2>0. fetched \in Object(Seen) /\ AppToForm(fetched) \in [Shown -> Seen]
        /\ \A n \in Shown : AppToForm(fetched)[n] = Input(n, fetched.entries[n])
    BY UiTypes DEF AppToForm, Input, Object, Shown, Seen
  <2>1. TypeOK'
    BY <2>0, Nothings, UiTypes, TypesOK
  <2>2. Sanitized(app)' = Sanitized(app)
    BY DEF Sanitized
  <2>3. Copies'
    BY <2>2, Nothings, UiTypes DEF Inv, Copies, Copy, AppOfVersion
  <2>4. AppOfVersion' /\ Requested'
    BY <2>2 DEF Inv, AppOfVersion, Requested
  <2>5. FormOfExisting'
    BY <2>0 DEF Inv, FormOfExisting, Refills
  <2> QED
    BY <2>1, <2>3, <2>4, <2>5 DEF Inv
<1>5. CASE Forget
  <2> USE <1>5 DEF Forget, storeVars
  <2>1. TypeOK'
    BY Nothings, UiTypes, TypesOK
  <2>2. Sanitized(app)' = Sanitized(app)
    BY DEF Sanitized
  <2>3. Copies'
    BY <2>2, Nothings, UiTypes DEF Inv, Copies, Copy, AppOfVersion
  <2>4. AppOfVersion' /\ FormOfExisting' /\ Requested'
    BY <2>2 DEF Inv, AppOfVersion, FormOfExisting, Requested
  <2> QED
    BY <2>1, <2>3, <2>4 DEF Inv
<1>6. CASE OpenForm \/ LeaveForm \/ GiveUp
  <2> USE <1>6 DEF OpenForm, LeaveForm, GiveUp, Blank, storeVars
  <2>0. AppToForm(existing) \in [Shown -> Seen]
        /\ \A n \in Shown : AppToForm(existing)[n] = Input(n, existing.entries[n])
    BY UiTypes DEF AppToForm, Input, Object, Shown, Seen
  <2>1. TypeOK'
    BY <2>0, Nothings, UiTypes, TypesOK
  <2>2. Sanitized(app)' = Sanitized(app)
    BY DEF Sanitized
  <2>3. AppOfVersion' /\ Copies' /\ Requested'
    BY <2>2 DEF Inv, AppOfVersion, Copies, Copy, Requested, Back, Input, Output
  <2>4. FormOfExisting'
    BY <2>0 DEF Inv, FormOfExisting
  <2> QED
    BY <2>1, <2>3, <2>4 DEF Inv
<1>7. ASSUME NEW n \in Names, NEW e \in {None, Ref, Bare, Off}, Type(n, e)
      PROVE Inv'
  <2> USE <1>7 DEF Type, storeVars
  <2>1. TypeOK'
    BY UiTypes, TypesOK DEF Seen
  <2>2. Sanitized(app)' = Sanitized(app)
    BY DEF Sanitized
  <2>3. AppOfVersion' /\ Copies' /\ Requested'
    BY <2>2 DEF Inv, AppOfVersion, Copies, Copy, Requested, Back, Input, Output
  <2>4. FormOfExisting'
    BY UiTypes DEF Inv, FormOfExisting
  <2> QED
    BY <2>1, <2>3, <2>4 DEF Inv
<1>8. ASSUME NEW c \in Clients, Submit(c) PROVE Inv'
  <2> DEFINE r == [verb |-> "update", rv |-> existing.rv,
                   entries |-> BuildSpec(form)]
  <2> USE <1>8 DEF Submit, Ask
  <2>1. /\ BuildSpec(form) \in [Names -> Seen]
        /\ \A n \in Hidden : BuildSpec(form)[n] = None
        /\ \A n \in Shown : BuildSpec(form)[n] = Output(n, form[n])
    BY UiTypes, ConstantsAssumption DEF BuildSpec, Output, Shown, Seen
  <2>2. asked' = [asked EXCEPT ![c] = r]
        /\ r \in [verb : {"none", "update"}, rv : 0..MaxVersion,
                  entries : [Names -> Seen]]
    BY <2>1, UiTypes DEF Object
  <2>3. TypeOK'
    BY <2>2, UiTypes, TypesOK
  <2>4. Sanitized(app)' = Sanitized(app)
    BY DEF Sanitized
  <2>5. AppOfVersion' /\ Copies' /\ FormOfExisting'
    BY <2>4 DEF Inv, AppOfVersion, Copies, Copy, FormOfExisting
  <2>6. \A n \in Shown \ typed : r.entries[n] = Back(n, existing.entries[n])
    <3> TAKE n \in Shown \ typed
    <3>1. form[n] = Input(n, existing.entries[n])
      BY DEF Inv, FormOfExisting
    <3>2. r.entries[n] = Output(n, form[n])
      BY <2>1
    <3> QED
      BY <3>1, <3>2 DEF Back, Output
  <2>7. r.rv <= version /\ r.rv # 0 /\ (\A n \in Hidden : r.entries[n] = None)
        /\ (r.rv = app.rv => \A n \in Shown \ typed :
                               r.entries[n] = Back(n, Sanitized(app).entries[n]))
    BY <2>1, <2>6 DEF Inv, Copies, Copy, Exists
  <2>8. asked'[c] = r /\ meant'[c] = typed
        /\ \A d \in Clients \ {c} : asked'[d] = asked[d] /\ meant'[d] = meant[d]
    BY <2>2, UiTypes
  <2>9. Requested'
    <3> SUFFICES ASSUME NEW d \in Clients, asked'[d].verb = "update"
                 PROVE /\ asked'[d].rv <= version /\ asked'[d].rv # 0
                       /\ \A n \in Hidden : asked'[d].entries[n] = None
                       /\ asked'[d].rv = app.rv =>
                            \A n \in Shown \ meant'[d] :
                              asked'[d].entries[n] =
                                Back(n, Sanitized(app).entries[n])
      BY <2>4 DEF Requested, Back, Input, Output
    <3>1. CASE d = c
      BY <3>1, <2>7, <2>8
    <3>2. CASE d # c
      BY <3>2, <2>8 DEF Inv, Requested
    <3> QED
      BY <3>1, <3>2
  <2> QED
    BY <2>3, <2>5, <2>9 DEF Inv
<1>9. ASSUME NEW c \in Clients, Saved(c) PROVE Inv'
  <2> USE <1>9 DEF Saved, Over, Blank
  <2> DEFINE m == Merge(app.entries, asked[c].entries)
  <2>1. m \in [Names -> Stored] /\ Write(m)
    BY Merged
  <2>2. app' \in Object(Stored) /\ version' \in 0..MaxVersion /\ AppOfVersion'
    BY <2>1, NewVersion
  <2>3. version' = version + 1 /\ app'.rv = version + 1
    BY <2>1 DEF Write
  <2>4. asked' = [asked EXCEPT ![c] = NoRequest]
    BY UiTypes, Nothings DEF ServeUpdate
  <2>5. TypeOK'
    BY <2>2, <2>4, UiTypes, Nothings, TypesOK
  <2>6. FormOfExisting'
    BY DEF FormOfExisting
  <2>7. Copies'
    BY <2>3, Nothings, UiTypes DEF Inv, Copies, Copy, Object
  <2>8. Requested'
    BY <2>3, <2>4, Nothings, UiTypes DEF Inv, Requested
  <2> QED
    BY <2>2, <2>5, <2>6, <2>7, <2>8 DEF Inv
<1>10. ASSUME NEW c \in Clients, ServedUnseen(c) PROVE Inv'
  BY <1>10, Merged, UnseenStep DEF ServedUnseen
<1>11. ASSUME NEW c \in Clients, SaveFails(c) PROVE Inv'
  <2> USE <1>11 DEF SaveFails, Ask, Over
  <2>1. TypeOK'
    BY Nothings, UiTypes, TypesOK
  <2>2. Sanitized(app)' = Sanitized(app)
    BY DEF Sanitized
  <2>3. AppOfVersion' /\ Copies' /\ FormOfExisting'
    BY <2>2 DEF Inv, AppOfVersion, Copies, Copy, FormOfExisting
  <2>4. Requested'
    BY <2>2, Nothings, UiTypes DEF Inv, Requested
  <2> QED
    BY <2>1, <2>3, <2>4 DEF Inv
<1>12. CASE UNCHANGED vars
  <2> USE <1>12 DEF vars, storeVars, uiVars
  <2>1. TypeOK'
    BY UiTypes, TypesOK
  <2>2. Sanitized(app)' = Sanitized(app)
    BY DEF Sanitized
  <2>3. AppOfVersion' /\ Copies' /\ FormOfExisting' /\ Requested'
    BY <2>2 DEF Inv, AppOfVersion, Copies, Copy, FormOfExisting, Requested
  <2> QED
    BY <2>1, <2>3 DEF Inv
<1> QED
  BY <1>1, <1>2, <1>3, <1>4, <1>5, <1>6, <1>7, <1>8, <1>9, <1>10, <1>11, <1>12
     DEF Next

(* The browser keeps the types of what it holds, and never holds inline data. *)
THEOREM TypeCorrect == Spec => []TypeOK
<1>1. Inv => TypeOK
  BY DEF Inv
<1> QED
  BY <1>1, InitInv, NextInv, PTL DEF Spec

(* What comes back from the form is what went in, but for the three kinds of
   values that the form changes, and inline data, which comes back bare. *)
LEMMA WhatComesBack ==
  ASSUME NEW n \in Shown, NEW e \in Seen
  PROVE \/ Back(n, e) = e
        \/ n \in Filled /\ e = None /\ Back(n, e) = Ref
        \/ n \in Flattened /\ e = Rich /\ Back(n, e) = Ref
        \/ n \in Switched /\ e = Off /\ Back(n, e) = None
BY Kinds, ConstantsAssumption DEF Back, Input, Output

(* A save that is served changes a field that was not typed in, when it was
   sent, only if the form cannot give the field back, and then to what the
   form makes of it. *)
THEOREM SavesOnlyTyped == Spec => OnlyTypedChanges
<1> DEFINE Kept(c, n) ==
      LET old == app.entries[n]
          new == app'.entries[n] IN
      \/ new = old
      \/ n \in Hidden /\ new = None
      \/ n \in Filled /\ old = None /\ new = Ref
      \/ n \in Flattened /\ old = Rich /\ new = Ref
      \/ n \in Switched /\ old = Off /\ new = None
<1>1. ASSUME Inv
      PROVE  [\A c \in Clients, n \in Names :
                asked[c].verb = "update" /\ ServeUpdate(c) /\ n \notin meant[c]
                  => Kept(c, n)]_vars
  <2> SUFFICES ASSUME NEW c \in Clients, NEW n \in Names,
                      ServeUpdate(c), n \notin meant[c]
               PROVE Kept(c, n)
    OBVIOUS
  <2>1. app'.entries = Merge(app.entries, asked[c].entries)
    BY DEF ServeUpdate, Write
  <2>2. app'.entries[n] = IF /\ asked[c].entries[n].kind = "bare"
                             /\ app.entries[n].kind = "inline"
                          THEN app.entries[n] ELSE asked[c].entries[n]
    BY <2>1 DEF Merge
  <2>3. app.entries[n] \in Stored /\ app \in Object(Stored)
    BY <1>1, UiTypes DEF Object
  <2>4. CASE n \in Hidden
    <3>1. asked[c].entries[n] = None
      BY <1>1, <2>4 DEF Inv, Requested, ServeUpdate
    <3> QED
      BY <2>2, <2>4, <3>1, Kinds
  <2>5. CASE n \in Shown
    <3> DEFINE e == Sanitized(app).entries[n]
    <3>1. asked[c].entries[n] = Back(n, e)
      BY <1>1, <2>5 DEF Inv, Requested, ServeUpdate
    <3>2. e \in Seen /\ e = IF app.entries[n].kind = "inline"
                            THEN Bare ELSE app.entries[n]
      BY <2>3, SanitizedObject DEF Object
    <3>3. CASE app.entries[n].kind = "inline"
      BY <2>2, <2>5, <3>1, <3>2, <3>3, WhatComesBack, Kinds
    <3>4. CASE app.entries[n].kind # "inline"
      BY <2>2, <2>5, <3>1, <3>2, <3>4, WhatComesBack
    <3> QED
      BY <3>3, <3>4
  <2> QED
    BY <2>4, <2>5 DEF Shown
<1> QED
  BY <1>1, InitInv, NextInv, PTL DEF Spec, OnlyTypedChanges
=============================================================================
