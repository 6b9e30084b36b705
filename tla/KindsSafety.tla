---------------------------- MODULE KindsSafety ----------------------------
(***************************************************************************)
(* The list of bindable kinds loses no kind that is bindable, and has      *)
(* exactly the bindable kinds when the controller is at rest, for any      *)
(* definitions, versions, registry, failures and edits.                    *)
(***************************************************************************)
EXTENDS BindableKinds, TLAPS

VersionSet == {Versions[i] : i \in DOMAIN Versions}

LEMMA VersionsFacts ==
  /\ Len(Versions) \in Nat /\ DOMAIN Versions = 1..Len(Versions)
  /\ \A i \in 1..Len(Versions) : Versions[i] \in VersionSet
  /\ 1 \in 1..(Len(Versions) + 1)
BY KindsAssumption DEF KindsAssumption, VersionSet

\* The version that the worker visits, and what it may write.
LEMMA VisitFacts ==
  ASSUME TypeOK, Visiting
  PROVE  /\ next \in 1..Len(Versions) /\ next + 1 \in 1..(Len(Versions) + 1)
         /\ kind \in Kinds /\ kind[1] = crd /\ Registry[kind] \subseteq Annotations
         /\ copy \in Definitions /\ copy # None /\ pc # "idle"
<1>1. next \in 1..Len(Versions) /\ next + 1 \in 1..(Len(Versions) + 1)
  BY VersionsFacts DEF TypeOK, Visiting
<1>2. kind \in Kinds /\ kind[1] = crd
  BY <1>1, VersionsFacts, Zenon DEF TypeOK, kind, Kinds, VersionSet
<1>3. Registry[kind] \subseteq Annotations
  BY <1>2, KindsAssumption, Zenon DEF KindsAssumption
<1>4. copy \in Definitions /\ copy # None /\ pc # "idle"
  BY Zenon DEF TypeOK, Visiting
<1> QED BY <1>1, <1>2, <1>3, <1>4, Zenon

\* The API server stores a definition.
LEMMA PutTypes ==
  ASSUME TypeOK, NEW c \in Crds, NEW d \in Definitions \cup {None}, Put(c, d),
         UNCHANGED <<cache, queue, pc, crd, copy, next, toPersist, kinds, listVars, faults, restarts>>,
         edits' \in 0..MaxEdits
  PROVE  TypeOK'
<1>1. store' \in [Crds -> Definitions \cup {None}] /\ current' \subseteq Crds
  BY Zenon DEF TypeOK, Put
<1>2. isCurrent' \in BOOLEAN /\ (isCurrent' => copy' = store'[crd'])
  BY Zenon DEF TypeOK, Put
<1>3. \A e \in current' : cache'[e] = store'[e]
  BY Zenon DEF TypeOK, Put
<1> QED BY <1>1, <1>2, <1>3, Zenon DEF TypeOK, listVars

LEMMA ChangeTypes ==
  ASSUME TypeOK, NEW c \in Crds, NEW d \in Definitions \cup {None}, Change(c, d)
  PROVE  TypeOK'
<1>1. edits' \in 0..MaxEdits
  BY KindsAssumption DEF Change, TypeOK, KindsAssumption
<1> QED BY <1>1, PutTypes, Zenon DEF Change

LEMMA OutsideTypes ==
  ASSUME TypeOK, NEW c \in Crds,
         CreateCrd(c) \/ EditCrd(c) \/ DeleteCrd(c) \/ Gone(c) \/ Observe(c)
  PROVE  TypeOK'
<1>1. CASE CreateCrd(c) \/ EditCrd(c)
  <2>1. PICK d \in Contents : Change(c, d)
    BY <1>1, Zenon DEF CreateCrd, EditCrd
  <2>2. d \in Definitions
    BY KindsAssumption, Zenon DEF KindsAssumption
  <2> QED BY <2>1, <2>2, ChangeTypes, Zenon
<1>2. CASE DeleteCrd(c)
  <2>1. store[c] \in Definitions
    BY <1>2, Zenon DEF DeleteCrd, TypeOK
  <2>2. [store[c] EXCEPT !.deleting = TRUE] \in Definitions
    BY <2>1, Zenon DEF Definitions
  <2> QED BY <1>2, <2>2, ChangeTypes, Zenon DEF DeleteCrd
<1>3. CASE Gone(c)
  <2>1. Put(c, None) /\ edits' \in 0..MaxEdits
    BY <1>3, Zenon DEF Gone, bounds, TypeOK
  <2> QED BY <1>3, <2>1, PutTypes, Zenon DEF Gone, bounds
<1>4. CASE Observe(c)
  BY <1>4, Zenon DEF Observe, TypeOK, workVars, listVars, bounds
<1> QED BY <1>1, <1>2, <1>3, <1>4, Zenon

\* Reconcile returns, with everything else as it was but for the list.
LEMMA ReturnTypes ==
  ASSUME TypeOK, NEW failed \in BOOLEAN, Return(failed), UNCHANGED <<store, current, kinds>>,
         listed' \in {None} \cup (SUBSET Kinds), known' \in {"absent", "stale", "current"},
         faults' \in 0..MaxFaults, UNCHANGED <<edits, restarts>>
  PROVE  TypeOK'
<1>1. queue' \subseteq Crds
  BY Zenon DEF Return, TypeOK
<1>2. next' \in 1..(Len(Versions) + 1)
  BY VersionsFacts, Zenon DEF Return
<1>3. copy' = None /\ pc' = "idle" /\ ~isCurrent' /\ isCurrent' \in BOOLEAN
      /\ toPersist' \in BOOLEAN /\ draft' = "absent"
  BY Zenon DEF Return
<1> QED BY <1>1, <1>2, <1>3, Zenon DEF Return, TypeOK

LEMMA UpdateTypes == ASSUME TypeOK, UpdateCrd PROVE TypeOK'
<1> DEFINE d == [copy EXCEPT !.annotations = @ \cup Registry[kind]]
<1>1. Visiting
  BY Zenon DEF UpdateCrd
<1>2. d \in Definitions
  BY <1>1, VisitFacts, Zenon DEF Definitions
<1>3. CASE isCurrent /\ store' = [store EXCEPT ![crd] = d]
        /\ current' = (IF d = copy THEN current ELSE current \ {crd})
        /\ copy' = d /\ next' = next + 1
        /\ UNCHANGED <<cache, queue, pc, crd, isCurrent, toPersist, draft, faults>>
  <2> HIDE DEF d
  <2>1. UNCHANGED <<kinds, listed, known, edits, restarts>>
    BY Zenon DEF UpdateCrd
  <2>2. copy = store[crd] /\ crd \in Crds
    BY <1>3, Zenon DEF TypeOK
  <2>3. store' \in [Crds -> Definitions \cup {None}] /\ current' \subseteq Crds
    BY <1>2, <1>3, Zenon DEF TypeOK
  <2>4. \A c \in current' : cache'[c] = store'[c]
    BY <1>3, <2>2, Zenon DEF TypeOK
  <2>5. next' \in 1..(Len(Versions) + 1) /\ copy' \in Definitions /\ copy' # None /\ pc' # "idle"
    BY <1>1, <1>2, <1>3, VisitFacts, KindsAssumption, Zenon DEF KindsAssumption
  <2>6. copy' = store'[crd']
    BY <1>3, <2>2, Zenon DEF TypeOK
  <2> QED BY <1>3, <2>1, <2>3, <2>4, <2>5, <2>6, Zenon DEF TypeOK
<1>4. CASE Return(TRUE) /\ UNCHANGED <<store, current>> /\ (UNCHANGED faults \/ Fault)
  <2>1. faults' \in 0..MaxFaults /\ UNCHANGED <<kinds, listed, known, edits, restarts>>
    BY <1>4, KindsAssumption DEF UpdateCrd, Fault, TypeOK, KindsAssumption
  <2> QED BY <1>4, <2>1, ReturnTypes, Zenon DEF TypeOK
<1> QED BY <1>3, <1>4, Zenon DEF UpdateCrd

LEMMA NextTypes == TypeOK /\ [Next]_vars => TypeOK'
<1> SUFFICES ASSUME TypeOK, [Next]_vars PROVE TypeOK'
  BY Zenon
<1>1. CASE UNCHANGED vars
  BY <1>1, Zenon DEF TypeOK, vars, crdVars, workVars, listVars, bounds
<1>2. CASE \E c \in Crds : CreateCrd(c) \/ EditCrd(c) \/ DeleteCrd(c) \/ Gone(c) \/ Observe(c)
  BY <1>2, OutsideTypes, Zenon
<1>3. CASE ObserveList
  BY <1>3, Zenon DEF ObserveList, Known, TypeOK, crdVars, workVars, bounds
<1>4. CASE Restart
  <2>1. restarts' \in 0..MaxRestarts /\ next' \in 1..(Len(Versions) + 1)
    BY <1>4, VersionsFacts, KindsAssumption DEF Restart, TypeOK, KindsAssumption
  <2>2. cache' \in [Crds -> Definitions \cup {None}] /\ queue' \subseteq Crds /\ kinds' \subseteq Kinds
    BY <1>4, Zenon DEF Restart, TypeOK
  <2>3. known' \in {"absent", "stale", "current"}
    BY <1>4, Zenon DEF Restart, Known
  <2> QED BY <1>4, <2>1, <2>2, <2>3, Zenon DEF Restart, TypeOK
<1>5. CASE LookupFails
  <2>1. faults' \in 0..MaxFaults
    BY <1>5, KindsAssumption DEF LookupFails, Fault, TypeOK, KindsAssumption
  <2> QED BY <1>5, <2>1, ReturnTypes, Zenon DEF LookupFails, TypeOK
<1>6. ASSUME NEW c \in Crds, Begin(c) PROVE TypeOK'
  <2>1. CASE cache[c] = None
    BY <1>6, <2>1, Zenon DEF Begin, TypeOK, workVars, listVars, bounds
  <2>2. CASE cache[c] # None
    <3>1. /\ queue' = queue \ {c} /\ pc' = "visit" /\ crd' = c /\ copy' = cache[c]
          /\ isCurrent' = (c \in current) /\ UNCHANGED <<next, toPersist>>
      BY <1>6, <2>2, Zenon DEF Begin
    <3>2. queue' \subseteq Crds /\ copy' \in Definitions /\ copy' # None
      BY <2>2, <3>1, Zenon DEF TypeOK
    <3>a. isCurrent' \in BOOLEAN
      BY <3>1
    <3>b. c \in current => cache[c] = store[c]
      BY Zenon DEF TypeOK
    <3>3. isCurrent' \in BOOLEAN /\ (isCurrent' => copy' = store[c])
      BY <3>1, <3>a, <3>b, Zenon
    <3> QED BY <1>6, <3>1, <3>2, <3>3, Zenon DEF Begin, TypeOK, listVars, bounds
  <2> QED BY <2>1, <2>2, Zenon
<1>7. CASE Skip
  BY <1>7, VisitFacts, Zenon DEF Skip, TypeOK, crdVars, listVars, bounds
<1>8. CASE DeleteKind
  BY <1>8, VisitFacts, Zenon DEF DeleteKind, Forget, TypeOK, crdVars, listVars, bounds
<1>9. CASE StoreKind
  BY <1>9, VisitFacts, Zenon DEF StoreKind, TypeOK, crdVars, listVars, bounds
<1>10. CASE UpdateCrd
  BY <1>10, UpdateTypes, Zenon
<1>11. CASE Finish
  BY <1>11, ReturnTypes, Zenon DEF Finish, TypeOK, bounds
<1>12. CASE GetList
  BY <1>12, Zenon DEF GetList, Visited, TypeOK, crdVars, bounds
<1>13. CASE WriteList
  <2>1. listed' \in {None} \cup (SUBSET Kinds) /\ known' \in {"absent", "stale", "current"}
    BY <1>13, Zenon DEF WriteList, TypeOK
  <2>2. UNCHANGED faults \/ Fault
    BY <1>13, Zenon DEF WriteList
  <2>3. faults' \in 0..MaxFaults
    BY <2>2, KindsAssumption DEF Fault, TypeOK, KindsAssumption
  <2> QED BY <1>13, <2>1, <2>3, ReturnTypes, Zenon DEF WriteList
<1> QED
  BY <1>1, <1>2, <1>3, <1>4, <1>5, <1>6, <1>7, <1>8, <1>9, <1>10, <1>11, <1>12, <1>13, Zenon
     DEF Next, Reconcile

\* The state of the CRD controller has its types.
THEOREM KindsTypes == Spec => []TypeOK
<1>1. Init => TypeOK
  <2> SUFFICES ASSUME Init PROVE TypeOK
    BY Zenon
  <2>1. /\ next \in 1..(Len(Versions) + 1) /\ edits \in 0..MaxEdits /\ faults \in 0..MaxFaults
        /\ restarts \in 0..MaxRestarts
    BY VersionsFacts, KindsAssumption DEF Init, KindsAssumption
  <2>2. store \in [Crds -> Definitions \cup {None}] /\ queue \subseteq Crds /\ kinds \subseteq Kinds
    BY Zenon DEF Init
  <2> QED BY <2>1, <2>2, Zenon DEF Init, TypeOK
<1> QED
  BY <1>1, NextTypes, PTL DEF Spec

(***************************************************************************)
(* Removals follow deletions                                               *)
(***************************************************************************)

LEMMA ServedStep == ASSUME TypeOK, SomethingServed, [Next]_vars PROVE SomethingServed'
<1>1. ASSUME NEW c \in Crds, NEW d, Inhabited(d), Put(c, d), UNCHANGED <<cache, copy>>
      PROVE  SomethingServed'
  BY <1>1, Zenon DEF Put, SomethingServed, TypeOK
<1>2. ASSUME NEW c \in Crds, CreateCrd(c) \/ EditCrd(c) PROVE SomethingServed'
  <2>1. PICK d \in Contents : Change(c, d)
    BY <1>2, Zenon DEF CreateCrd, EditCrd
  <2>2. Inhabited(d)
    BY KindsAssumption, Zenon DEF KindsAssumption, Inhabited
  <2> QED BY <1>1, <2>1, <2>2, Zenon DEF Change
<1>3. ASSUME NEW c \in Crds, DeleteCrd(c) PROVE SomethingServed'
  <2>1. store[c] \in Definitions /\ store[c] # None /\ Inhabited(store[c])
    BY <1>3, Zenon DEF DeleteCrd, TypeOK, SomethingServed
  <2>2. Inhabited([store[c] EXCEPT !.deleting = TRUE])
    BY <2>1, Zenon DEF Definitions, Inhabited
  <2> QED BY <1>1, <1>3, <2>2, Zenon DEF DeleteCrd, Change
<1>4. ASSUME NEW c \in Crds, Gone(c) PROVE SomethingServed'
  <2>1. Inhabited(None)
    BY Zenon DEF Inhabited
  <2> QED BY <1>1, <1>4, <2>1, Zenon DEF Gone
<1>5. ASSUME NEW c \in Crds, Observe(c) PROVE SomethingServed'
  BY <1>5, Zenon DEF Observe, SomethingServed, TypeOK, workVars
<1>6. ASSUME NEW c \in Crds, Begin(c) PROVE SomethingServed'
  BY <1>6, Zenon DEF Begin, SomethingServed, workVars
<1>7. ASSUME UpdateCrd PROVE SomethingServed'
  <2> DEFINE d == [copy EXCEPT !.annotations = @ \cup Registry[kind]]
  <2>1. Inhabited(d)
    BY <1>7, VisitFacts, Zenon DEF UpdateCrd, SomethingServed, Definitions, Inhabited
  <2>2. CASE store' = [store EXCEPT ![crd] = d] /\ copy' = d /\ UNCHANGED cache
    <3> HIDE DEF d
    <3> QED BY <2>1, <2>2, Zenon DEF SomethingServed, TypeOK
  <2>3. CASE Return(TRUE) /\ UNCHANGED <<store, current>>
    BY <2>3, Zenon DEF Return, SomethingServed, Inhabited
  <2> QED BY <1>7, <2>2, <2>3, Zenon DEF UpdateCrd
<1>8. CASE Restart
  <2>1. Inhabited(None)
    BY Zenon DEF Inhabited
  <2> QED BY <1>8, <2>1, Zenon DEF Restart, SomethingServed
<1>9. CASE LookupFails \/ Finish \/ WriteList
  <2>1. Inhabited(None)
    BY Zenon DEF Inhabited
  <2> QED BY <1>9, <2>1, Zenon DEF LookupFails, Finish, WriteList, Return, SomethingServed
<1>10. CASE ObserveList \/ Skip \/ DeleteKind \/ StoreKind \/ GetList
  BY <1>10, Zenon
     DEF ObserveList, Skip, DeleteKind, StoreKind, GetList, SomethingServed, crdVars, workVars
<1>11. CASE UNCHANGED vars
  BY <1>11, Zenon DEF vars, SomethingServed, crdVars, workVars
<1> QED
  BY <1>2, <1>3, <1>4, <1>5, <1>6, <1>7, <1>8, <1>9, <1>10, <1>11, Zenon DEF Next, Reconcile

\* What the worker holds is older than what is cached, and that than what is
\* stored, as far as deletions are concerned.
LEMMA DeletionsStep == ASSUME TypeOK, DeletionsLast, [Next]_vars PROVE DeletionsLast'
<1>1. ASSUME NEW c \in Crds, NEW d, Put(c, d), UNCHANGED <<cache, queue, pc, crd, copy>>,
             c \in Unseen \/ ~Leaving(store[c]) \/ Leaving(d)
      PROVE  DeletionsLast'
  BY <1>1, Zenon DEF Put, DeletionsLast, Working, TypeOK
<1>2. ASSUME NEW c \in Crds, CreateCrd(c) \/ EditCrd(c) PROVE DeletionsLast'
  <2>1. PICK d \in Contents : Change(c, d)
    BY <1>2, Zenon DEF CreateCrd, EditCrd
  <2>2. ~Leaving(store[c])
    BY <1>2, Zenon DEF CreateCrd, EditCrd, Leaving
  <2> QED BY <1>1, <2>1, <2>2, Zenon DEF Change
<1>3. ASSUME NEW c \in Crds, DeleteCrd(c) PROVE DeletionsLast'
  <2>1. ~Leaving(store[c])
    BY <1>3, Zenon DEF DeleteCrd, Leaving
  <2> QED BY <1>1, <1>3, <2>1, Zenon DEF DeleteCrd, Change
<1>4. ASSUME NEW c \in Crds, Gone(c) PROVE DeletionsLast'
  <2>1. CASE c \in Unseen
    BY <1>1, <1>4, <2>1, Zenon DEF Gone
  <2>2. CASE c \notin Unseen
    BY <1>4, <2>2, Zenon DEF Gone, Put, DeletionsLast, Working, TypeOK
  <2> QED BY <2>1, <2>2, Zenon
<1>5. ASSUME NEW c \in Crds, Observe(c) PROVE DeletionsLast'
  BY <1>5, Zenon DEF Observe, DeletionsLast, Working, TypeOK, workVars
<1>6. ASSUME NEW c \in Crds, Begin(c) PROVE DeletionsLast'
  <2>1. c \in queue /\ queue' = queue \ {c} /\ UNCHANGED <<store, cache>> /\ pc = "idle"
    BY <1>6, Zenon DEF Begin
  <2>2. CASE UNCHANGED workVars
    BY <2>1, <2>2, Zenon DEF DeletionsLast, Working, workVars
  <2>3. CASE pc' = "visit" /\ crd' = c /\ copy' = cache[c]
    BY <2>1, <2>3, Zenon DEF DeletionsLast, Working
  <2> QED BY <1>6, <2>2, <2>3, Zenon DEF Begin
<1>7. ASSUME NEW failed \in BOOLEAN, Return(failed), UNCHANGED store, pc # "idle" PROVE DeletionsLast'
  BY <1>7, Zenon DEF Return, DeletionsLast, Working, TypeOK
<1>8. ASSUME UpdateCrd PROVE DeletionsLast'
  <2> DEFINE d == [copy EXCEPT !.annotations = @ \cup Registry[kind]]
  <2>1. CASE isCurrent /\ store' = [store EXCEPT ![crd] = d] /\ copy' = d
               /\ UNCHANGED <<cache, queue, pc, crd>>
    <3>1. ~Leaving(copy) /\ copy = store[crd] /\ crd \in Crds
      BY <1>8, <2>1, Zenon DEF UpdateCrd, Leaving, TypeOK
    <3>2. ~Leaving(d)
      BY <1>8, VisitFacts, Zenon DEF UpdateCrd, Leaving, Definitions
    <3> HIDE DEF d
    <3> QED BY <2>1, <3>1, <3>2, Zenon DEF DeletionsLast, Working, TypeOK
  <2>2. CASE Return(TRUE) /\ UNCHANGED <<store, current>>
    BY <1>7, <1>8, <2>2, Zenon DEF UpdateCrd, Visiting
  <2> QED BY <1>8, <2>1, <2>2, Zenon DEF UpdateCrd
<1>9. CASE Restart
  BY <1>9, Zenon DEF Restart, DeletionsLast, Working
<1>10. CASE LookupFails \/ Finish \/ WriteList
  BY <1>7, <1>10, Zenon DEF LookupFails, Finish, WriteList, Visiting, Visited
<1>11. CASE ObserveList \/ Skip \/ DeleteKind \/ StoreKind \/ GetList
  <2>1. UNCHANGED <<store, cache, queue, crd, copy>> /\ (pc # "idle" \/ UNCHANGED pc)
    BY <1>11, Zenon
       DEF ObserveList, Skip, DeleteKind, StoreKind, GetList, Visiting, Visited, crdVars, workVars
  <2> QED BY <2>1, Zenon DEF DeletionsLast, Working
<1>12. CASE UNCHANGED vars
  BY <1>12, Zenon DEF vars, DeletionsLast, Working, crdVars, workVars
<1> QED
  BY <1>2, <1>3, <1>4, <1>5, <1>6, <1>8, <1>9, <1>10, <1>11, <1>12, Zenon DEF Next, Reconcile

LEMMA ListedFacts ==
  ASSUME TypeOK
  PROVE  /\ Listed \subseteq Kinds /\ \A k \in Kinds : k[1] \in Crds
         /\ listed' = listed => Listed' = Listed
         /\ listed' = kinds => Listed' = kinds
<1>1. kinds # None
  BY KindsAssumption, Zenon DEF KindsAssumption, TypeOK
<1> QED BY <1>1, Zenon DEF TypeOK, Listed, Kinds

\* As long as the list and the map stay, so do the kinds on their way out, if
\* the deletions they rest on do.
LEMMA StillOnItsWay ==
  ASSUME TypeOK, Removals, UNCHANGED <<listed, restarts>>, Listed \ kinds' \subseteq Listed \ kinds,
         \A k \in Listed \ kinds : k[1] \in Crds \ Unseen /\ OnItsWay(k) => OnItsWay(k)'
  PROVE  Removals'
BY ListedFacts, Zenon DEF Removals

LEMMA RemovalsStep ==
  ASSUME TypeOK, SomethingServed, DeletionsLast, Removals, [Next]_vars
  PROVE  Removals'
<1>1. ASSUME NEW c \in Crds, NEW d, Put(c, d),
             UNCHANGED <<cache, queue, pc, crd, copy, next, toPersist, kinds, listed, restarts>>,
             c \in Unseen \/ ~Leaving(store[c]) \/ Leaving(d)
      PROVE  Removals'
  <2>1. ASSUME NEW k \in Listed \ kinds, k[1] \in Crds \ Unseen, OnItsWay(k) PROVE OnItsWay(k)'
    <3>1. Leaving(store[k[1]]) => Leaving(store'[k[1]])
      BY <1>1, <2>1, Zenon DEF Put, TypeOK
    <3> QED BY <1>1, <2>1, <3>1, Zenon DEF OnItsWay, Working, WillWrite
  <2> QED BY <1>1, <2>1, StillOnItsWay, Zenon
<1>2. ASSUME NEW c \in Crds, CreateCrd(c) \/ EditCrd(c) PROVE Removals'
  <2>1. PICK d \in Contents : Change(c, d)
    BY <1>2, Zenon DEF CreateCrd, EditCrd
  <2>2. ~Leaving(store[c])
    BY <1>2, Zenon DEF CreateCrd, EditCrd, Leaving
  <2> QED BY <1>1, <2>1, <2>2, Zenon DEF Change, listVars
<1>3. ASSUME NEW c \in Crds, DeleteCrd(c) PROVE Removals'
  <2>1. ~Leaving(store[c])
    BY <1>3, Zenon DEF DeleteCrd, Leaving
  <2> QED BY <1>1, <1>3, <2>1, Zenon DEF DeleteCrd, Change, listVars
<1>4. ASSUME NEW c \in Crds, Gone(c) PROVE Removals'
  <2>1. CASE c \in Unseen
    BY <1>1, <1>4, <2>1, Zenon DEF Gone, listVars, bounds
  <2>2. CASE c \notin Unseen
    <3>1. /\ c \notin queue /\ ~Working(c) /\ Put(c, None)
          /\ UNCHANGED <<cache, queue, pc, crd, copy, next, toPersist, kinds, listed, restarts>>
      BY <1>4, <2>2, Zenon DEF Gone, Working, listVars, bounds
    <3>2. ASSUME NEW k \in Listed \ kinds, k[1] \in Crds \ Unseen, OnItsWay(k) PROVE OnItsWay(k)'
      <4>1. k[1] # c
        BY <3>1, <3>2, Zenon DEF OnItsWay
      <4>2. store'[k[1]] = store[k[1]]
        BY <3>1, <3>2, <4>1, Zenon DEF Put, TypeOK
      <4> QED BY <3>1, <3>2, <4>2, Zenon DEF OnItsWay, Working, WillWrite
    <3> QED BY <3>1, <3>2, StillOnItsWay, Zenon
  <2> QED BY <2>1, <2>2, Zenon
<1>5. ASSUME NEW c \in Crds, Observe(c) PROVE Removals'
  <2>1. /\ cache' = [cache EXCEPT ![c] = store[c]] /\ queue' = queue \cup {c}
        /\ UNCHANGED <<store, pc, crd, copy, next, toPersist, kinds, listed, restarts>>
    BY <1>5, Zenon DEF Observe, workVars, listVars, bounds
  <2>2. ASSUME NEW k \in Listed \ kinds, k[1] \in Crds \ Unseen, OnItsWay(k) PROVE OnItsWay(k)'
    <3>1. Leaving(cache'[k[1]])
      BY <2>1, <2>2, Zenon DEF OnItsWay, TypeOK
    <3> QED BY <2>1, <2>2, <3>1, Zenon DEF OnItsWay, Working, WillWrite
  <2> QED BY <2>1, <2>2, StillOnItsWay, Zenon
<1>6. ASSUME NEW c \in Crds, Begin(c) PROVE Removals'
  <2>1. /\ pc = "idle" /\ queue' = queue \ {c}
        /\ UNCHANGED <<store, cache, kinds, listed, restarts>>
    BY <1>6, Zenon DEF Begin, listVars, bounds
  <2>2. ASSUME NEW k \in Listed \ kinds, k[1] \in Crds \ Unseen, OnItsWay(k) PROVE OnItsWay(k)'
    <3>1. k[1] \in queue /\ Leaving(store[k[1]]) /\ Leaving(cache[k[1]])
      BY <2>1, <2>2, Zenon DEF OnItsWay, Working
    <3>2. CASE k[1] # c
      BY <2>1, <3>1, <3>2, Zenon DEF OnItsWay
    <3>3. CASE k[1] = c
      <4>1. cache[c] # None /\ cache[c].served # {} /\ cache[c] \in Definitions
        BY <3>1, <3>3, Zenon DEF Leaving, SomethingServed, Inhabited, TypeOK
      <4>2. pc' = "visit" /\ crd' = c /\ copy' = cache[c] /\ next' = next
        BY <1>6, <4>1, Zenon DEF Begin
      <4>3. next = 1
        BY <2>1, Zenon DEF TypeOK
      <4>4. WillWrite'
        BY <4>1, <4>2, <4>3, VersionsFacts DEF WillWrite, Definitions, VersionSet
      <4> QED BY <2>1, <3>1, <3>3, <4>2, <4>4, Zenon DEF OnItsWay, Working
    <3> QED BY <3>2, <3>3, Zenon
  <2> QED BY <2>1, <2>2, StillOnItsWay, Zenon
<1>7. ASSUME Return(TRUE), UNCHANGED <<store, kinds, listed, restarts>> PROVE Removals'
  <2>1. ASSUME NEW k \in Listed \ kinds, k[1] \in Crds \ Unseen, OnItsWay(k) PROVE OnItsWay(k)'
    BY <1>7, <2>1, Zenon DEF OnItsWay, Return, Working
  <2> QED BY <1>7, <2>1, StillOnItsWay, Zenon
<1>8. ASSUME UpdateCrd PROVE Removals'
  <2>1. Visiting /\ ~Leaving(copy) /\ UNCHANGED <<kinds, listed, restarts>>
    BY <1>8, Zenon DEF UpdateCrd, Leaving
  <2>2. CASE Return(TRUE) /\ UNCHANGED <<store, current>>
    BY <1>7, <2>1, <2>2, Zenon
  <2>3. ASSUME isCurrent, store' = [store EXCEPT ![crd] =
                              [copy EXCEPT !.annotations = @ \cup Registry[kind]]],
               UNCHANGED <<cache, queue>>
        PROVE  Removals'
    <3>1. ASSUME NEW k \in Listed \ kinds, k[1] \in Crds \ Unseen, OnItsWay(k) PROVE OnItsWay(k)'
      <4>1. k[1] \in queue /\ k[1] # crd
        BY <2>1, <2>3, <3>1, Zenon DEF OnItsWay, TypeOK
      <4>2. store'[k[1]] = store[k[1]]
        BY <2>3, <3>1, <4>1, Zenon DEF TypeOK
      <4> QED BY <2>3, <3>1, <4>1, <4>2, Zenon DEF OnItsWay
    <3> QED BY <2>1, <3>1, StillOnItsWay, Zenon
  <2> QED BY <1>8, <2>2, <2>3, Zenon DEF UpdateCrd
<1>9. CASE LookupFails
  BY <1>7, <1>9, Zenon DEF LookupFails
<1>10. CASE Skip
  <2>1. /\ Visiting /\ next' = next + 1 /\ (~Served \/ ~copy.deleting)
        /\ UNCHANGED <<store, cache, queue, pc, crd, copy, toPersist, kinds, listed, restarts>>
    BY <1>10, Zenon DEF Skip, crdVars, listVars, bounds
  <2>2. ASSUME NEW k \in Listed \ kinds, k[1] \in Crds \ Unseen, OnItsWay(k) PROVE OnItsWay(k)'
    <3>1. CASE k[1] \in queue
      BY <2>1, <2>2, <3>1, Zenon DEF OnItsWay
    <3>2. CASE Working(k[1]) /\ Leaving(copy) /\ WillWrite
      <4>1. ~Served
        BY <2>1, <3>2, Zenon DEF Leaving
      <4>2. WillWrite'
        BY <2>1, <3>2, <4>1, VersionsFacts, VisitFacts DEF WillWrite, Served
      <4> QED BY <2>1, <2>2, <3>2, <4>2, Zenon DEF OnItsWay, Working
    <3> QED BY <2>2, <3>1, <3>2, Zenon DEF OnItsWay
  <2> QED BY <2>1, <2>2, StillOnItsWay, Zenon
<1>11. CASE DeleteKind
  <2>1. /\ Visiting /\ copy.deleting /\ kinds' = kinds \ {kind} /\ toPersist' = TRUE
        /\ UNCHANGED <<store, cache, queue, pc, crd, copy, listed, restarts>>
    BY <1>11, Zenon DEF DeleteKind, Forget, crdVars, listVars, bounds
  <2>2. Leaving(copy) /\ kind[1] = crd /\ Working(crd)
    BY <2>1, VisitFacts, Zenon DEF Leaving, Working
  <2>3. ASSUME restarts = 0, NEW k \in Listed \ kinds', k[1] \notin Unseen PROVE OnItsWay(k)'
    <3>1. k[1] \in Crds
      BY ListedFacts, Zenon
    <3>2. CASE k = kind
      <4>1. Leaving(store[crd]) /\ Leaving(cache[crd])
        BY <2>2, <2>3, <3>1, <3>2, Zenon DEF DeletionsLast
      <4> QED BY <2>1, <2>2, <3>2, <4>1, Zenon DEF OnItsWay, Working, WillWrite
    <3>3. CASE k # kind
      <4>1. OnItsWay(k)
        BY <2>1, <2>3, <3>3, Zenon DEF Removals
      <4> QED BY <2>1, <4>1, Zenon DEF OnItsWay, Working, WillWrite
    <3> QED BY <3>2, <3>3, Zenon
  <2> QED BY <2>1, <2>3, ListedFacts, Zenon DEF Removals
<1>12. CASE StoreKind
  <2>1. /\ Visiting /\ ~copy.deleting /\ kinds' = kinds \cup {kind}
        /\ UNCHANGED <<store, cache, queue, pc, crd, copy, listed, restarts>>
    BY <1>12, Zenon DEF StoreKind, crdVars, listVars, bounds
  <2>2. ASSUME NEW k \in Listed \ kinds, k[1] \in Crds \ Unseen, OnItsWay(k) PROVE OnItsWay(k)'
    BY <2>1, <2>2, Zenon DEF OnItsWay, Leaving
  <2> QED BY <2>1, <2>2, StillOnItsWay, Zenon
<1>13. CASE Finish
  <2>1. /\ Visited /\ ~toPersist /\ Return(FALSE) /\ UNCHANGED <<store, kinds, listed, restarts>>
    BY <1>13, Zenon DEF Finish, bounds
  <2>2. ~WillWrite
    BY <2>1, VersionsFacts DEF WillWrite, Visited, TypeOK
  <2>3. ASSUME NEW k \in Listed \ kinds, k[1] \in Crds \ Unseen, OnItsWay(k) PROVE OnItsWay(k)'
    BY <2>1, <2>2, <2>3, Zenon DEF OnItsWay, Return
  <2> QED BY <2>1, <2>3, StillOnItsWay, Zenon
<1>14. CASE GetList
  <2>1. /\ toPersist /\ pc' = "write" /\ pc # "idle"
        /\ UNCHANGED <<store, cache, queue, crd, copy, toPersist, kinds, listed, restarts>>
    BY <1>14, Zenon DEF GetList, Visited, crdVars, bounds
  <2>2. ASSUME NEW k \in Listed \ kinds, k[1] \in Crds \ Unseen, OnItsWay(k) PROVE OnItsWay(k)'
    BY <2>1, <2>2, Zenon DEF OnItsWay, Working, WillWrite
  <2> QED BY <2>1, <2>2, StillOnItsWay, Zenon
<1>15. CASE WriteList
  <2>1. CASE listed' = kinds
    BY <1>15, <2>1, ListedFacts, Zenon DEF WriteList, Removals
  <2>2. CASE Return(TRUE) /\ UNCHANGED listed
    BY <1>7, <1>15, <2>2, Zenon DEF WriteList
  <2> QED BY <1>15, <2>1, <2>2, Zenon DEF WriteList
<1>16. CASE ObserveList
  <2>1. UNCHANGED <<store, cache, queue, pc, crd, copy, next, toPersist, kinds, listed, restarts>>
    BY <1>16, Zenon DEF ObserveList, crdVars, workVars, bounds
  <2>2. ASSUME NEW k \in Listed \ kinds, k[1] \in Crds \ Unseen, OnItsWay(k) PROVE OnItsWay(k)'
    BY <2>1, <2>2, Zenon DEF OnItsWay, Working, WillWrite
  <2> QED BY <2>1, <2>2, StillOnItsWay, Zenon
<1>17. CASE Restart
  <2>1. restarts' = restarts + 1 /\ restarts \in 0..MaxRestarts /\ MaxRestarts \in Nat
    BY <1>17, KindsAssumption, Zenon DEF Restart, TypeOK, KindsAssumption
  <2>2. restarts' # 0
    BY <2>1
  <2> QED BY <2>2, Zenon DEF Removals
<1>18. CASE UNCHANGED vars
  <2>1. UNCHANGED <<store, cache, queue, pc, crd, copy, next, toPersist, kinds, listed, restarts>>
    BY <1>18, Zenon DEF vars, crdVars, workVars, listVars, bounds
  <2>2. ASSUME NEW k \in Listed \ kinds, k[1] \in Crds \ Unseen, OnItsWay(k) PROVE OnItsWay(k)'
    BY <2>1, <2>2, Zenon DEF OnItsWay, Working, WillWrite
  <2> QED BY <2>1, <2>2, StillOnItsWay, Zenon
<1> QED
  BY Zenon, <1>2, <1>3, <1>4, <1>5, <1>6, <1>8, <1>9, <1>10, <1>11, <1>12, <1>13, <1>14, <1>15,
     <1>16, <1>17, <1>18 DEF Next, Reconcile

\* A kind leaves the map only for a definition that is being deleted, and the
\* deletion lasts until the list has been written, for any definitions,
\* versions, registry, failures and edits.
THEOREM RemovalsInOrder == Spec => []RemovalsFollowDeletions
<1>1. Init => RemovalsFollowDeletions
  BY Zenon DEF Init, RemovalsFollowDeletions, SomethingServed, DeletionsLast, Removals, Inhabited,
         Working, Listed
<1>2. TypeOK /\ RemovalsFollowDeletions /\ [Next]_vars => RemovalsFollowDeletions'
  BY ServedStep, DeletionsStep, RemovalsStep, Zenon DEF RemovalsFollowDeletions
<1> QED
  BY <1>1, <1>2, KindsTypes, PTL DEF Spec

\* Until the operator is restarted, no write of bindable-kinds drops a kind that
\* is bindable: not with an old copy of a definition, not after a conflict or a
\* lookup that failed half way, and not on behalf of another definition.
THEOREM BindableKept == Spec => KeepsBindable
<1> DEFINE Kept == restarts' = 0 =>
                     \A k \in Listed \cap Bindable : k[1] \notin Unseen => k \in Listed'
<1>1. ASSUME TypeOK, RemovalsFollowDeletions, [Next]_vars PROVE Kept
  <2>1. listed' = listed \/ WriteList
    BY <1>1, Zenon
       DEF Next, Reconcile, CreateCrd, EditCrd, DeleteCrd, Change, Gone, Observe, ObserveList,
                Restart, LookupFails, Begin, Skip, DeleteKind, StoreKind, UpdateCrd, Finish, GetList,
                vars, listVars
  <2>2. CASE listed' = listed
    BY <1>1, <2>2, ListedFacts, Zenon
  <2>3. CASE WriteList /\ listed' = kinds
    <3>1. ASSUME restarts' = 0, NEW k \in Listed \cap Bindable, k[1] \notin Unseen, k \notin kinds
          PROVE  FALSE
      <4>1. restarts = 0
        BY <2>3, <3>1, Zenon DEF WriteList
      <4>2. Leaving(store[k[1]])
        BY <1>1, <3>1, <4>1, Zenon DEF RemovalsFollowDeletions, Removals, OnItsWay
      <4> QED BY <3>1, <4>2, Zenon DEF Bindable, Leaving
    <3> QED BY <1>1, <2>3, <3>1, ListedFacts, Zenon
  <2> QED BY <2>1, <2>2, <2>3, Zenon DEF WriteList
<1>2. ASSUME TypeOK, RemovalsFollowDeletions, [Next]_vars PROVE [Kept]_vars
  BY <1>1, <1>2, Zenon
<1> QED
  BY <1>2, KindsTypes, RemovalsInOrder, PTL DEF Spec, KeepsBindable

(***************************************************************************)
(* The list and the definitions                                            *)
(***************************************************************************)

LEMMA KeepsFacts ==
  /\ \A d : Follows(d, d) /\ Follows(None, d)
  /\ \A d, e, f : Follows(d, e) /\ Follows(e, f) => Follows(d, f)
  /\ \A d, e, v : Offers(d, v) /\ Follows(d, e) => Offers(e, v)
BY Zenon DEF Follows, Keeps, Offers

\* The changes of a stored definition c by users and by the API server.
StoreStep(c, d) ==
  /\ Put(c, d)
  /\ UNCHANGED <<cache, queue, pc, crd, copy, next, toPersist, kinds, listed>>
  /\ \/ store[c] = None /\ d # None
     \/ store[c] # None /\ ~Leaving(store[c]) /\ d # None /\ (c \in Lossy \/ Follows(store[c], d))
     \/ Leaving(store[c]) /\ d = None /\ (c \notin Unseen => ~News(c) /\ ~Working(c))

LEMMA StoreSteps ==
  ASSUME TypeOK, NEW c \in Crds, CreateCrd(c) \/ EditCrd(c) \/ DeleteCrd(c) \/ Gone(c)
  PROVE  \E d : StoreStep(c, d)
<1>1. CASE CreateCrd(c)
  <2>1. PICK d \in Contents : Change(c, d)
    BY <1>1, Zenon DEF CreateCrd
  <2>2. d # None
    BY KindsAssumption, Zenon DEF KindsAssumption
  <2> QED BY <1>1, <2>1, <2>2, Zenon DEF CreateCrd, Change, StoreStep, listVars
<1>2. CASE EditCrd(c)
  <2>1. PICK d \in Contents : Change(c, d) /\ (c \in Lossy \/ Keeps(store[c], d))
    BY <1>2, Zenon DEF EditCrd
  <2>2. d # None
    BY KindsAssumption, Zenon DEF KindsAssumption
  <2>3. store[c] # None /\ ~Leaving(store[c])
    BY <1>2, Zenon DEF EditCrd, Leaving
  <2> QED BY <2>1, <2>2, <2>3, Zenon DEF Change, StoreStep, Follows, listVars
<1>3. CASE DeleteCrd(c)
  <2> DEFINE d == [store[c] EXCEPT !.deleting = TRUE]
  <2>1. store[c] # None /\ ~Leaving(store[c]) /\ store[c] \in Definitions /\ Change(c, d)
    BY <1>3, Zenon DEF DeleteCrd, Leaving, TypeOK
  <2>2. d \in Definitions /\ d.served = store[c].served /\ d.schema = store[c].schema
        /\ d.annotations = store[c].annotations
    BY <2>1, Zenon DEF Definitions
  <2>3. d # None
    BY <2>2, KindsAssumption, Zenon DEF KindsAssumption
  <2>4. Follows(store[c], d)
    BY <2>2, <2>3, Zenon DEF Follows, Keeps, IsBindable
  <2> HIDE DEF d
  <2> QED BY <2>1, <2>3, <2>4, Zenon DEF Change, StoreStep, listVars
<1>4. CASE Gone(c)
  BY <1>4, Zenon DEF Gone, StoreStep, Leaving, News, Working, listVars
<1> QED BY <1>1, <1>2, <1>3, <1>4, Zenon

\* The worker's update of the definition succeeds, and adds annotations.
UpdateStep ==
  /\ Visiting /\ isCurrent /\ copy = store[crd] /\ ~IsBindable(copy) /\ ~Leaving(copy)
  /\ \E d : /\ store' = [store EXCEPT ![crd] = d] /\ copy' = d
            /\ current' = (IF d = copy THEN current ELSE current \ {crd})
            /\ d # None /\ ~Leaving(d) /\ Follows(copy, d)
  /\ next' = next + 1 /\ UNCHANGED <<cache, queue, pc, crd, toPersist, kinds, listed>>

\* Reconcile returns with an error.
FailStep == pc # "idle" /\ Return(TRUE) /\ UNCHANGED <<store, current, kinds, listed>>

LEMMA UpdateSteps == ASSUME TypeOK, UpdateCrd PROVE UpdateStep \/ FailStep
<1> DEFINE d == [copy EXCEPT !.annotations = @ \cup Registry[kind]]
<1>1. Visiting /\ ~copy.deleting /\ ~IsBindable(copy) /\ UNCHANGED <<kinds, listed>>
  BY Zenon DEF UpdateCrd
<1>2. copy \in Definitions /\ copy # None /\ pc # "idle" /\ Registry[kind] \subseteq Annotations
  BY <1>1, VisitFacts, Zenon
<1>3. d \in Definitions /\ d.served = copy.served /\ d.schema = copy.schema
      /\ copy.annotations \subseteq d.annotations /\ d.deleting = copy.deleting
  BY <1>2, Zenon DEF Definitions
<1>4. d # None /\ ~Leaving(d) /\ ~Leaving(copy)
  BY <1>1, <1>3, KindsAssumption, Zenon DEF KindsAssumption, Leaving
<1>5. Follows(copy, d)
  BY <1>3, <1>4, Zenon DEF Follows, Keeps, IsBindable
<1>6. CASE isCurrent /\ store' = [store EXCEPT ![crd] = d] /\ copy' = d
        /\ current' = (IF d = copy THEN current ELSE current \ {crd})
        /\ next' = next + 1 /\ UNCHANGED <<cache, queue, pc, crd, toPersist>>
  <2>1. copy = store[crd]
    BY <1>6, Zenon DEF TypeOK
  <2> HIDE DEF d
  <2> QED BY <1>1, <1>4, <1>5, <1>6, <2>1, Zenon DEF UpdateStep
<1>7. CASE Return(TRUE) /\ UNCHANGED <<store, current>>
  BY <1>1, <1>2, <1>7, Zenon DEF FailStep
<1> QED BY <1>6, <1>7, Zenon DEF UpdateCrd

LEMMA CopiesStep == ASSUME TypeOK, CopiesFollow, [Next]_vars PROVE CopiesFollow'
<1>0. Plain' = Plain /\ Plain \subseteq Crds
  BY Zenon DEF Plain
<1>1. ASSUME NEW c \in Crds, NEW d, StoreStep(c, d) PROVE CopiesFollow'
  <2>1. /\ store' = [store EXCEPT ![c] = d] /\ current' = current \ {c}
        /\ UNCHANGED <<cache, queue, pc, crd, copy>>
    BY <1>1, Zenon DEF StoreStep, Put
  <2>2. pc' # "idle" => copy' = store'[crd'] \/ News(crd)'
    BY <2>1, Zenon DEF CopiesFollow, News, TypeOK
  <2>3. ASSUME NEW e \in Plain, e # c
        PROVE  /\ e \in queue' \/ Working(e)' => Follows(cache'[e], store'[e])
               /\ Working(e)' => Follows(copy', store'[e])
    <3>1. store'[e] = store[e]
      BY <1>0, <2>1, <2>3, Zenon DEF TypeOK
    <3> QED BY <2>1, <3>1, Zenon DEF CopiesFollow, Working
  <2>4. ASSUME c \in Plain
        PROVE  /\ c \in queue' \/ Working(c)' => Follows(cache'[c], store'[c])
               /\ Working(c)' => Follows(copy', store'[c])
    <3>1. store'[c] = d
      BY <2>1, Zenon DEF TypeOK
    <3>2. c \notin Lossy /\ c \notin Unseen
      BY <2>4, Zenon DEF Plain
    <3>3. c \in queue \/ Working(c) => Follows(store[c], d)
      BY <1>1, <3>2, KeepsFacts, Zenon DEF StoreStep, News
    <3> QED BY <2>1, <2>4, <3>1, <3>3, KeepsFacts DEF CopiesFollow, Working
  <2> QED BY <1>0, <2>2, <2>3, <2>4, Zenon DEF CopiesFollow
<1>2. ASSUME NEW c \in Crds, Observe(c) PROVE CopiesFollow'
  <2>1. /\ cache' = [cache EXCEPT ![c] = store[c]] /\ queue' = queue \cup {c}
        /\ current' = current \cup {c} /\ UNCHANGED <<store, pc, crd, copy>>
    BY <1>2, Zenon DEF Observe, workVars
  <2>2. pc' # "idle" => copy' = store'[crd'] \/ News(crd)'
    BY <2>1, Zenon DEF CopiesFollow, News
  <2>3. ASSUME NEW e \in Plain
        PROVE  /\ e \in queue' \/ Working(e)' => Follows(cache'[e], store'[e])
               /\ Working(e)' => Follows(copy', store'[e])
    <3>1. cache'[e] = (IF e = c THEN store[e] ELSE cache[e])
      BY <1>0, <2>1, Zenon DEF TypeOK
    <3> QED BY <2>1, <3>1, KeepsFacts, Zenon DEF CopiesFollow, Working
  <2> QED BY <1>0, <2>2, <2>3, <2>1, Zenon DEF CopiesFollow, News
<1>3. ASSUME NEW c \in Crds, Begin(c) PROVE CopiesFollow'
  <2>1. c \in queue /\ queue' = queue \ {c} /\ UNCHANGED <<store, cache, current>> /\ pc = "idle"
    BY <1>3, Zenon DEF Begin
  <2>2. CASE UNCHANGED workVars
    BY <1>0, <2>1, <2>2, Zenon DEF CopiesFollow, Working, workVars
  <2>3. CASE pc' = "visit" /\ crd' = c /\ copy' = cache[c]
    <3>1. copy' = store'[crd'] \/ News(crd)'
      BY <2>1, <2>3 DEF News, TypeOK
    <3>2. ASSUME NEW e \in Plain
          PROVE  /\ e \in queue' \/ Working(e)' => Follows(cache'[e], store'[e])
                 /\ Working(e)' => Follows(copy', store'[e])
      BY <2>1, <2>3 DEF CopiesFollow, Working
    <3> QED BY <1>0, <3>1, <3>2, Zenon DEF CopiesFollow
  <2> QED BY <1>3, <2>2, <2>3, Zenon DEF Begin
<1>4. ASSUME NEW failed \in BOOLEAN, Return(failed), UNCHANGED store, pc # "idle" PROVE CopiesFollow'
  BY <1>0, <1>4 DEF Return, CopiesFollow, Working
<1>5. CASE UpdateStep
  <2>1. PICK d : /\ store' = [store EXCEPT ![crd] = d] /\ copy' = d /\ Follows(copy, d)
                 /\ copy = store[crd] /\ UNCHANGED <<cache, queue, pc, crd>>
    BY <1>5, Zenon DEF UpdateStep
  <2>2. crd \in Crds /\ store'[crd] = d /\ \A e \in Crds : e # crd => store'[e] = store[e]
    BY <2>1 DEF TypeOK
  <2>3. ASSUME NEW e \in Plain
        PROVE  /\ e \in queue' \/ Working(e)' => Follows(cache'[e], store'[e])
               /\ Working(e)' => Follows(copy', store'[e])
    <3>1. e \in Crds
      BY <1>0
    <3>2. CASE e # crd
      BY <2>1, <2>2, <3>1, <3>2 DEF CopiesFollow, Working
    <3>3. CASE e = crd
      BY <2>1, <2>2, <3>3, KeepsFacts DEF CopiesFollow, Working
    <3> QED BY <3>2, <3>3
  <2> QED BY <1>0, <2>1, <2>2, <2>3 DEF CopiesFollow
<1>6. CASE Restart
  BY <1>0, <1>6, KeepsFacts DEF Restart, CopiesFollow, Working
<1>7. ASSUME UNCHANGED <<store, cache, current, queue, crd, copy>>, pc # "idle" \/ UNCHANGED pc
      PROVE  CopiesFollow'
  BY <1>0, <1>7 DEF CopiesFollow, Working, News
<1>8. CASE LookupFails \/ Finish \/ WriteList
  BY <1>4, <1>8, Zenon DEF LookupFails, Finish, WriteList, Visiting, Visited
<1>9. CASE ObserveList \/ Skip \/ DeleteKind \/ StoreKind \/ GetList \/ UNCHANGED vars
  BY <1>7, <1>9 DEF ObserveList, Skip, DeleteKind, StoreKind, GetList, Visiting, Visited,
                    crdVars, workVars, vars
<1>10. CASE UpdateCrd
  BY <1>4, <1>5, <1>10, UpdateSteps, Zenon DEF FailStep
<1> QED
  BY <1>1, <1>2, <1>3, <1>6, <1>8, <1>9, <1>10, StoreSteps, Zenon DEF Next, Reconcile

LEMMA VisitSteps ==
  ASSUME TypeOK
  PROVE  /\ \A v : Visiting /\ ToVisit(v) /\ next' = next + 1 /\ pc' = pc
                     => v = Versions[next] \/ ToVisit(v)'
         /\ \A v : next > Len(Versions) \/ pc = "write" => ~ToVisit(v)
         /\ \A v \in VersionSet : next' = 1 /\ pc' = "visit" => ToVisit(v)'
         /\ \A k \in Kinds : k = <<k[1], k[2]>> /\ k[1] \in Crds /\ k[2] \in VersionSet
<1>1. ASSUME NEW v, Visiting, ToVisit(v), next' = next + 1, pc' = pc
      PROVE  v = Versions[next] \/ ToVisit(v)'
  BY <1>1, VersionsFacts DEF Visiting, ToVisit, TypeOK
<1>2. ASSUME NEW v, next > Len(Versions) \/ pc = "write" PROVE ~ToVisit(v)
  BY <1>2, VersionsFacts DEF ToVisit, TypeOK
<1>3. ASSUME NEW v \in VersionSet, next' = 1, pc' = "visit" PROVE ToVisit(v)'
  BY <1>3, VersionsFacts DEF ToVisit, VersionSet
<1>4. \A k \in Kinds : k = <<k[1], k[2]>> /\ k[1] \in Crds /\ k[2] \in VersionSet
  BY DEF Kinds, VersionSet
<1> QED BY <1>1, <1>2, <1>3, <1>4

\* A change of a stored definition, seen from another one.
LEMMA OtherDefinitions ==
  ASSUME TypeOK, NEW c \in Crds, NEW e \in Crds, e # c, NEW d, store' = [store EXCEPT ![c] = d],
         current' \in {current, current \ {c}}, UNCHANGED queue
  PROVE  store'[e] = store[e] /\ (News(e)' <=> News(e))
BY DEF TypeOK, News

LEMMA ListedStep ==
  ASSUME TypeOK, CopiesFollow, ListedOffered, [Next]_vars
  PROVE  ListedOffered'
<1>0. /\ Plain' = Plain /\ \A c \in Plain : c \in Crds /\ c \notin Lossy /\ c \notin Unseen
      /\ Listed \cup kinds \subseteq Kinds
  BY ListedFacts DEF Plain, TypeOK
<1> DEFINE StillRight == \A k \in Listed \cup kinds : k[1] \in Plain /\ RightlyListed(k) => RightlyListed(k)'
<1>a. ASSUME StillRight, Listed' \cup kinds' \subseteq Listed \cup kinds PROVE ListedOffered'
  BY <1>0, <1>a DEF ListedOffered
<1>1. ASSUME NEW c \in Crds, NEW d, StoreStep(c, d) PROVE ListedOffered'
  <2>1. /\ store' = [store EXCEPT ![c] = d] /\ current' = current \ {c}
        /\ UNCHANGED <<queue, pc, crd, copy, next, toPersist, kinds, listed>>
    BY <1>1 DEF StoreStep, Put
  <2>2. ASSUME NEW k \in Listed \cup kinds, k[1] \in Plain, RightlyListed(k) PROVE RightlyListed(k)'
    <3>1. CASE k[1] # c
      <4>1. store'[k[1]] = store[k[1]] /\ (News(k[1])' <=> News(k[1]))
        BY <1>0, <2>1, <2>2, <3>1, OtherDefinitions, Zenon
      <4>2. TakesOut(k)' <=> TakesOut(k)
        BY <2>1 DEF TakesOut, Working, ToVisit
      <4> QED BY <2>2, <4>1, <4>2 DEF RightlyListed
    <3>2. CASE k[1] = c
      <4>1. store'[c] = d /\ News(c)'
        BY <2>1 DEF TypeOK, News
      <4>2. store[c] # None
        BY <2>2, <3>2 DEF RightlyListed, Offers
      <4>3. ~(Leaving(store[c]) /\ ~News(c) /\ ~Working(c))
        BY <2>2, <3>2 DEF RightlyListed, TakesOut
      <4>4. Follows(store[c], d)
        BY <1>0, <1>1, <2>2, <3>2, <4>2, <4>3 DEF StoreStep
      <4>5. Offers(d, k[2])
        BY <2>2, <3>2, <4>4, KeepsFacts DEF RightlyListed
      <4> QED BY <3>2, <4>1, <4>5 DEF RightlyListed
    <3> QED BY <3>1, <3>2
  <2> QED BY <1>a, <2>1, <2>2, ListedFacts
<1>2. ASSUME UNCHANGED <<store, pc, crd, copy, next, toPersist, kinds, listed>>,
             \A c \in Crds : News(c) => News(c)'
      PROVE  ListedOffered'
  <2>1. ASSUME NEW k \in Listed \cup kinds, k[1] \in Plain, RightlyListed(k) PROVE RightlyListed(k)'
    <3>1. TakesOut(k)' <=> TakesOut(k)
      BY <1>2 DEF TakesOut, Working, ToVisit
    <3> QED BY <1>0, <1>2, <2>1, <3>1 DEF RightlyListed
  <2> QED BY <1>a, <1>2, <2>1, ListedFacts
<1>3. CASE Restart
  <2>1. ASSUME NEW k \in Listed, k[1] \in Plain, RightlyListed(k) PROVE RightlyListed(k)'
    <3>1. News(k[1])' /\ UNCHANGED store
      BY <1>0, <1>3, <2>1 DEF Restart, RightlyListed, Offers, News
    <3> QED BY <2>1, <3>1 DEF RightlyListed
  <2> QED BY <1>0, <1>3, <2>1, ListedFacts DEF Restart, ListedOffered
<1>4. CASE FailStep
  <2>1. ASSUME NEW k \in Listed \cup kinds, k[1] \in Plain, RightlyListed(k) PROVE RightlyListed(k)'
    BY <1>4, <2>1 DEF FailStep, Return, RightlyListed, News, TakesOut, Working
  <2> QED BY <1>a, <1>4, <2>1, ListedFacts DEF FailStep
<1>5. ASSUME NEW c \in Crds, Begin(c) PROVE ListedOffered'
  <2>1. /\ pc = "idle" /\ queue' = queue \ {c} /\ UNCHANGED <<store, cache, current, kinds, listed>>
    BY <1>5 DEF Begin, listVars
  <2>2. ASSUME NEW k \in Listed \cup kinds, k[1] \in Plain, RightlyListed(k) PROVE RightlyListed(k)'
    <3>1. SUFFICES ASSUME Leaving(store[k[1]]) PROVE News(k[1])' \/ TakesOut(k)'
      BY <2>1, <2>2 DEF RightlyListed
    <3>2. News(k[1])
      BY <2>1, <2>2, <3>1 DEF RightlyListed, TakesOut, Working
    <3>3. CASE k[1] # c \/ c \notin current
      BY <2>1, <3>2, <3>3 DEF News
    <3>4. CASE k[1] = c /\ c \in current
      <4>1. cache[c] = store[c] /\ cache[c] # None
        BY <3>1, <3>4 DEF TypeOK, Leaving
      <4>2. pc' = "visit" /\ crd' = c /\ copy' = store[c] /\ next' = 1
        BY <1>5, <2>1, <4>1 DEF Begin, TypeOK
      <4>3. ToVisit(k[2])'
        BY <1>0, <4>2, VisitSteps
      <4>4. k[2] \in store[c].served
        BY <2>2, <3>4 DEF RightlyListed, Offers
      <4> QED BY <3>1, <3>4, <4>2, <4>3, <4>4 DEF TakesOut, Working
    <3> QED BY <3>3, <3>4
  <2> QED BY <1>a, <2>1, <2>2, ListedFacts
<1>6. CASE Skip
  <2>1. /\ Visiting /\ next' = next + 1 /\ (~Served \/ ~copy.deleting)
        /\ UNCHANGED <<store, current, queue, pc, crd, copy, toPersist, kinds, listed>>
    BY <1>6 DEF Skip, crdVars, listVars
  <2>2. ASSUME NEW k \in Listed \cup kinds, k[1] \in Plain, RightlyListed(k) PROVE RightlyListed(k)'
    <3>1. ASSUME TakesOut(k) PROVE TakesOut(k)'
      <4>1. k[2] # Versions[next]
        BY <2>1, <3>1 DEF TakesOut, Served, Leaving
      <4>2. ToVisit(k[2]) => ToVisit(k[2])'
        BY <2>1, <4>1, VisitSteps
      <4> QED BY <2>1, <3>1, <4>2 DEF TakesOut, Working
    <3> QED BY <2>1, <2>2, <3>1 DEF RightlyListed, News
  <2> QED BY <1>a, <2>1, <2>2, ListedFacts
<1>7. CASE DeleteKind
  <2>1. /\ Visiting /\ next' = next + 1 /\ kinds' = kinds \ {kind} /\ toPersist' = TRUE
        /\ UNCHANGED <<store, current, queue, pc, crd, copy, listed>>
    BY <1>7 DEF DeleteKind, Forget, crdVars, listVars
  <2>2. ASSUME NEW k \in Listed \cup kinds, k[1] \in Plain, RightlyListed(k) PROVE RightlyListed(k)'
    <3>1. ASSUME TakesOut(k) PROVE TakesOut(k)'
      <4>1. k[1] = crd /\ k = <<k[1], k[2]>>
        BY <1>0, <3>1, VisitSteps DEF TakesOut, Working
      <4>2. CASE k[2] = Versions[next]
        BY <2>1, <3>1, <4>1, <4>2 DEF TakesOut, Working, kind
      <4>3. CASE k[2] # Versions[next]
        <5>1. ToVisit(k[2]) => ToVisit(k[2])'
          BY <2>1, <4>3, VisitSteps
        <5> QED BY <2>1, <3>1, <5>1 DEF TakesOut, Working
      <4> QED BY <4>2, <4>3
    <3> QED BY <2>1, <2>2, <3>1 DEF RightlyListed, News
  <2> QED BY <1>a, <2>1, <2>2, ListedFacts
<1>8. CASE StoreKind
  <2>1. /\ Visiting /\ Served /\ ~copy.deleting /\ IsBindable(copy) /\ kinds' = kinds \cup {kind}
        /\ UNCHANGED <<store, current, queue, pc, crd, copy, listed>>
    BY <1>8 DEF StoreKind, crdVars, listVars
  <2>2. ~Leaving(copy) /\ Working(crd) /\ kind[1] = crd /\ kind[2] = Versions[next] /\ Offers(copy, kind[2])
    BY <2>1, VisitFacts DEF Leaving, Working, Offers, Served, kind
  <2>3. ASSUME NEW k \in Listed \cup kinds, k[1] \in Plain, RightlyListed(k) PROVE RightlyListed(k)'
    BY <2>1, <2>2, <2>3 DEF RightlyListed, TakesOut, News
  <2>4. ASSUME crd \in Plain PROVE RightlyListed(kind) /\ (Leaving(store[crd]) => News(crd))
    <3>1. Offers(store[crd], kind[2])
      BY <2>2, <2>4, KeepsFacts DEF CopiesFollow
    <3>2. Leaving(store[crd]) => News(crd)
      BY <2>2 DEF CopiesFollow, Working
    <3> QED BY <2>2, <3>1, <3>2 DEF RightlyListed
  <2>5. ASSUME NEW k, k = kind, k[1] \in Plain PROVE RightlyListed(k)'
    <3>1. k[1] = crd /\ RightlyListed(k) /\ (Leaving(store[crd]) => News(crd))
      BY <2>2, <2>4, <2>5
    <3> QED BY <2>1, <3>1 DEF RightlyListed, News
  <2>6. Listed' \cup kinds' = Listed \cup kinds \cup {kind}
    BY <2>1, ListedFacts
  <2> QED BY <1>0, <2>3, <2>5, <2>6 DEF ListedOffered
<1>9. CASE UpdateStep
  <2>1. PICK d : /\ store' = [store EXCEPT ![crd] = d] /\ current' \in {current, current \ {crd}}
                 /\ copy = store[crd] /\ ~IsBindable(copy) /\ ~Leaving(copy)
                 /\ UNCHANGED <<queue, kinds, listed>>
    BY <1>9, Zenon DEF UpdateStep
  <2>2. ASSUME NEW k \in Listed \cup kinds, k[1] \in Plain, RightlyListed(k) PROVE RightlyListed(k)'
    <3>1. k[1] # crd
      BY <2>1, <2>2 DEF RightlyListed, Offers
    <3>2. crd \in Crds
      BY DEF TypeOK
    <3>3. store'[k[1]] = store[k[1]] /\ (News(k[1])' <=> News(k[1]))
      BY <1>0, <2>1, <2>2, <3>1, <3>2, OtherDefinitions, Zenon
    <3> QED BY <2>1, <2>2, <3>3 DEF RightlyListed, TakesOut
  <2> QED BY <1>a, <2>1, <2>2, ListedFacts
<1>10. CASE Finish
  <2>1. /\ ~toPersist /\ next > Len(Versions) /\ UNCHANGED <<store, current, queue, kinds, listed>>
    BY <1>10 DEF Finish, Visited, Return
  <2>2. ASSUME NEW k \in Listed \cup kinds, k[1] \in Plain, RightlyListed(k) PROVE RightlyListed(k)'
    <3>1. ~TakesOut(k)
      BY <2>1, VisitSteps DEF TakesOut
    <3> QED BY <2>1, <2>2, <3>1 DEF RightlyListed, News
  <2> QED BY <1>a, <2>1, <2>2, ListedFacts
<1>11. CASE GetList
  <2>1. /\ next > Len(Versions) /\ pc # "idle" /\ pc' = "write"
        /\ UNCHANGED <<store, current, queue, crd, copy, toPersist, kinds, listed>>
    BY <1>11 DEF GetList, Visited, crdVars
  <2>2. ASSUME NEW k \in Listed \cup kinds, k[1] \in Plain, RightlyListed(k) PROVE RightlyListed(k)'
    <3>1. ~ToVisit(k[2])
      BY <2>1, VisitSteps
    <3> QED BY <2>1, <2>2, <3>1 DEF RightlyListed, TakesOut, Working, News
  <2> QED BY <1>a, <2>1, <2>2, ListedFacts
<1>12. CASE pc = "write" /\ listed' = kinds /\ UNCHANGED <<store, current, queue, kinds>>
  <2>1. ASSUME NEW k \in kinds, k[1] \in Plain, RightlyListed(k) PROVE RightlyListed(k)'
    <3>1. ~TakesOut(k)
      BY <1>12, VisitSteps DEF TakesOut
    <3> QED BY <1>12, <2>1, <3>1 DEF RightlyListed, News
  <2> QED BY <1>0, <1>12, <2>1, ListedFacts DEF ListedOffered
<1>13. CASE WriteList
  BY <1>4, <1>12, <1>13, Zenon DEF WriteList, Return, FailStep
<1>14. CASE LookupFails \/ UpdateCrd
  BY <1>4, <1>9, <1>14, UpdateSteps, Zenon DEF LookupFails, FailStep, Visiting
<1>15. ASSUME NEW c \in Crds, Observe(c) PROVE ListedOffered'
  BY <1>2, <1>15 DEF Observe, workVars, listVars, News
<1>16. CASE ObserveList \/ UNCHANGED vars
  BY <1>2, <1>16 DEF ObserveList, vars, crdVars, workVars, listVars, News
<1> QED
  BY <1>1, <1>3, <1>5, <1>6, <1>7, <1>8, <1>10, <1>11, <1>13, <1>14, <1>15, <1>16, StoreSteps
     DEF Next, Reconcile

LEMMA OfferedStep ==
  ASSUME TypeOK, DeletionsLast, OfferedListed, [Next]_vars
  PROVE  OfferedListed'
<1> DEFINE Attended(k) == News(k[1]) \/ k \in kinds \cap Listed \/ PutsIn(k)
<1>0. \A k \in Kinds : k[1] \in Crds /\ k = <<k[1], k[2]>> /\ k[2] \in VersionSet
  BY VisitSteps
<1>a. ASSUME UNCHANGED store,
             \A k \in Kinds : k[1] \notin Unseen /\ OnOffer(k) /\ Attended(k) => Attended(k)'
      PROVE  OfferedListed'
  BY <1>a DEF OfferedListed, OnOffer
<1>1. ASSUME NEW c \in Crds, NEW d, StoreStep(c, d) PROVE OfferedListed'
  <2>1. /\ store' = [store EXCEPT ![c] = d] /\ current' = current \ {c}
        /\ UNCHANGED <<queue, pc, crd, copy, next, toPersist, kinds, listed>>
    BY <1>1 DEF StoreStep, Put
  <2>2. ASSUME NEW k \in Kinds, k[1] \notin Unseen, OnOffer(k)' PROVE Attended(k)'
    <3>1. CASE k[1] = c
      BY <2>1, <3>1 DEF News
    <3>2. CASE k[1] # c
      <4>1. store'[k[1]] = store[k[1]] /\ (News(k[1])' <=> News(k[1]))
        BY <1>0, <2>1, <3>2, OtherDefinitions, Zenon
      <4>2. Attended(k)
        BY <2>2, <4>1 DEF OfferedListed, OnOffer
      <4> QED BY <2>1, <4>1, <4>2, ListedFacts DEF PutsIn, Working, ToVisit
    <3> QED BY <3>1, <3>2
  <2> QED BY <2>2 DEF OfferedListed
<1>2. ASSUME UNCHANGED <<store, pc, crd, copy, next, toPersist, kinds, listed>>,
             \A c \in Crds : News(c) => News(c)'
      PROVE  OfferedListed'
  <2>1. ASSUME NEW k \in Kinds, Attended(k) PROVE Attended(k)'
    BY <1>0, <1>2, <2>1, ListedFacts DEF PutsIn, Working, ToVisit
  <2> QED BY <1>a, <1>2, <2>1
<1>3. CASE Restart
  <2>1. ASSUME NEW k \in Kinds, OnOffer(k) PROVE News(k[1])'
    BY <1>0, <1>3, <2>1 DEF Restart, OnOffer, Offers, News
  <2> QED BY <1>a, <1>3, <2>1 DEF Restart
<1>4. CASE FailStep
  <2>1. ASSUME NEW k \in Kinds, Attended(k) PROVE Attended(k)'
    BY <1>4, <2>1, ListedFacts DEF FailStep, Return, News, PutsIn, Working
  <2> QED BY <1>a, <1>4, <2>1 DEF FailStep
<1>5. ASSUME NEW c \in Crds, Begin(c) PROVE OfferedListed'
  <2>1. /\ pc = "idle" /\ queue' = queue \ {c} /\ UNCHANGED <<store, cache, current, kinds, listed>>
    BY <1>5 DEF Begin, listVars
  <2>2. ASSUME NEW k \in Kinds, OnOffer(k), Attended(k) PROVE Attended(k)'
    <3>1. News(k[1]) \/ k \in kinds \cap Listed
      BY <2>1, <2>2 DEF PutsIn, Working
    <3>2. CASE k[1] # c \/ c \notin current \/ k \in kinds \cap Listed
      BY <2>1, <3>1, <3>2, ListedFacts DEF News
    <3>3. CASE k[1] = c /\ c \in current
      <4>1. cache[c] = store[c] /\ cache[c] # None
        BY <2>2, <3>3 DEF TypeOK, OnOffer, Offers
      <4>2. pc' = "visit" /\ crd' = c /\ copy' = store[c] /\ next' = 1
        BY <1>5, <2>1, <4>1 DEF Begin, TypeOK
      <4>3. ToVisit(k[2])'
        BY <1>0, <4>2, VisitSteps
      <4>4. PutsIn(k)'
        BY <2>2, <3>3, <4>2, <4>3 DEF PutsIn, Working, OnOffer
      <4> QED BY <4>4
    <3> QED BY <3>2, <3>3
  <2> QED BY <1>a, <2>1, <2>2
<1>6. CASE Skip
  <2>1. /\ Visiting /\ next' = next + 1
        /\ UNCHANGED <<store, current, queue, pc, crd, copy, toPersist, kinds, listed>>
    BY <1>6 DEF Skip, crdVars, listVars
  <2>2. ~Served \/ ~IsBindable(copy)
    BY <1>6 DEF Skip
  <2>3. ASSUME NEW k \in Kinds, Attended(k) PROVE Attended(k)'
    <3>1. ASSUME PutsIn(k) PROVE PutsIn(k)'
      <4>1. k[2] # Versions[next]
        BY <2>2, <3>1 DEF PutsIn, Served, Offers
      <4>2. ToVisit(k[2]) => ToVisit(k[2])'
        BY <2>1, <4>1, VisitSteps
      <4> QED BY <2>1, <3>1, <4>2 DEF PutsIn, Working
    <3> QED BY <2>1, <2>3, <3>1, ListedFacts DEF News
  <2> QED BY <1>a, <2>1, <2>3
<1>7. CASE DeleteKind
  <2>1. /\ Visiting /\ copy.deleting /\ kinds' = kinds \ {kind}
        /\ UNCHANGED <<store, current, queue, listed>>
    BY <1>7 DEF DeleteKind, Forget, crdVars, listVars
  <2>2. Leaving(copy) /\ Working(crd) /\ kind[1] = crd /\ crd \in Crds
    BY <2>1, VisitFacts DEF Leaving, Working, TypeOK
  <2>3. ASSUME NEW k \in Kinds, k[1] \notin Unseen, OnOffer(k), Attended(k) PROVE Attended(k)'
    <3>1. ~PutsIn(k)
      BY <2>2 DEF PutsIn
    <3>2. k # kind
      BY <2>2, <2>3 DEF OnOffer, DeletionsLast
    <3> QED BY <2>1, <2>3, <3>1, <3>2, ListedFacts DEF News
  <2> QED BY <1>a, <2>1, <2>3
<1>8. CASE StoreKind
  <2>1. /\ Visiting /\ next' = next + 1 /\ kinds' = kinds \cup {kind} /\ toPersist' = TRUE
        /\ UNCHANGED <<store, current, queue, pc, crd, copy, listed>>
    BY <1>8 DEF StoreKind, crdVars, listVars
  <2>2. ASSUME NEW k \in Kinds, Attended(k) PROVE Attended(k)'
    <3>1. ASSUME PutsIn(k) PROVE PutsIn(k)'
      <4>1. k[1] = crd /\ k = <<k[1], k[2]>>
        BY <1>0, <3>1 DEF PutsIn, Working
      <4>2. CASE k[2] = Versions[next]
        BY <2>1, <3>1, <4>1, <4>2 DEF PutsIn, Working, kind
      <4>3. CASE k[2] # Versions[next]
        <5>1. ToVisit(k[2]) => ToVisit(k[2])'
          BY <2>1, <4>3, VisitSteps
        <5> QED BY <2>1, <3>1, <5>1 DEF PutsIn, Working
      <4> QED BY <4>2, <4>3
    <3> QED BY <2>1, <2>2, <3>1, ListedFacts DEF News
  <2> QED BY <1>a, <2>1, <2>2
<1>9. CASE UpdateStep
  <2>1. PICK d : /\ store' = [store EXCEPT ![crd] = d]
                 /\ current' = (IF d = copy THEN current ELSE current \ {crd})
                 /\ ~IsBindable(copy) /\ UNCHANGED <<queue, pc, crd, kinds, listed>>
    BY <1>9, Zenon DEF UpdateStep
  <2>2. crd \in Crds /\ store'[crd] = d /\ current' \in {current, current \ {crd}}
    BY <2>1 DEF TypeOK
  <2>3. ASSUME NEW k \in Kinds, k[1] \notin Unseen, OnOffer(k)' PROVE Attended(k)'
    <3>1. CASE k[1] = crd
      <4>1. d # copy
        BY <2>1, <2>2, <2>3, <3>1 DEF OnOffer, Offers
      <4> QED BY <2>1, <3>1, <4>1 DEF News
    <3>2. CASE k[1] # crd
      <4>1. store'[k[1]] = store[k[1]] /\ (News(k[1])' <=> News(k[1]))
        BY <1>0, <2>1, <2>2, <3>2, OtherDefinitions, Zenon
      <4>2. Attended(k)
        BY <2>3, <4>1 DEF OfferedListed, OnOffer
      <4> QED BY <2>1, <3>2, <4>1, <4>2, ListedFacts DEF PutsIn, Working
    <3> QED BY <3>1, <3>2
  <2> QED BY <2>3 DEF OfferedListed
<1>10. CASE Finish
  <2>1. /\ ~toPersist /\ next > Len(Versions) /\ UNCHANGED <<store, current, queue, kinds, listed>>
    BY <1>10 DEF Finish, Visited, Return
  <2>2. ASSUME NEW k \in Kinds, Attended(k) PROVE Attended(k)'
    <3>1. ~PutsIn(k)
      BY <2>1, VisitSteps DEF PutsIn
    <3> QED BY <2>1, <2>2, <3>1, ListedFacts DEF News
  <2> QED BY <1>a, <2>1, <2>2
<1>11. CASE GetList
  <2>1. /\ next > Len(Versions) /\ pc # "idle" /\ pc' = "write"
        /\ UNCHANGED <<store, current, queue, crd, copy, toPersist, kinds, listed>>
    BY <1>11 DEF GetList, Visited, crdVars
  <2>2. ASSUME NEW k \in Kinds, Attended(k) PROVE Attended(k)'
    <3>1. ~ToVisit(k[2])
      BY <2>1, VisitSteps
    <3> QED BY <2>1, <2>2, <3>1, ListedFacts DEF PutsIn, Working, News
  <2> QED BY <1>a, <2>1, <2>2
<1>12. CASE pc = "write" /\ listed' = kinds /\ UNCHANGED <<store, current, queue, kinds>>
  <2>1. ASSUME NEW k \in Kinds, Attended(k) PROVE Attended(k)'
    <3>1. PutsIn(k) => k \in kinds
      BY <1>12, VisitSteps DEF PutsIn
    <3> QED BY <1>12, <2>1, <3>1, ListedFacts DEF News
  <2> QED BY <1>a, <1>12, <2>1
<1>13. CASE WriteList
  BY <1>4, <1>12, <1>13, Zenon DEF WriteList, Return, FailStep
<1>14. CASE LookupFails \/ UpdateCrd
  BY <1>4, <1>9, <1>14, UpdateSteps, Zenon DEF LookupFails, FailStep, Visiting
<1>15. ASSUME NEW c \in Crds, Observe(c) PROVE OfferedListed'
  BY <1>2, <1>15 DEF Observe, workVars, listVars, News
<1>16. CASE ObserveList \/ UNCHANGED vars
  BY <1>2, <1>16 DEF ObserveList, vars, crdVars, workVars, listVars, News
<1> QED
  BY <1>1, <1>3, <1>5, <1>6, <1>7, <1>8, <1>10, <1>11, <1>13, <1>14, <1>15, <1>16, StoreSteps
     DEF Next, Reconcile

\* Whenever the list differs from what the definitions offer, an event, the
\* queue or the worker holds the difference: no conflict, failed call, restart
\* or change in the middle of a visit makes the controller lose it.
THEOREM Pending == Spec => []DifferencesPending
<1>1. Init => DifferencesPending
  <2> SUFFICES ASSUME Init PROVE DifferencesPending
    OBVIOUS
  <2>1. CopiesFollow
    BY DEF Init, CopiesFollow, Working
  <2>2. ListedOffered
    BY DEF Init, ListedOffered, Listed
  <2>3. ASSUME NEW k \in Kinds PROVE ~OnOffer(k)
    <3>1. k[1] \in Crds
      BY DEF Kinds
    <3> QED BY <3>1 DEF Init, OnOffer, Offers
  <2> QED BY <2>1, <2>2, <2>3 DEF DifferencesPending, OfferedListed
<1>2. TypeOK /\ RemovalsFollowDeletions /\ DifferencesPending /\ [Next]_vars => DifferencesPending'
  BY CopiesStep, ListedStep, OfferedStep DEF DifferencesPending, RemovalsFollowDeletions
<1> QED
  BY <1>1, <1>2, KindsTypes, RemovalsInOrder, PTL DEF Spec

\* When the controller is at rest, bindable-kinds has exactly the bindable kinds
\* of the definitions that never lost anything and were not gone unseen, for
\* any definitions, versions, registry, failures, edits and restarts.
THEOREM ListMatched == Spec => []ListMatches
<1>1. TypeOK /\ DifferencesPending => ListMatches
  <2> SUFFICES ASSUME TypeOK, DifferencesPending, AtRest, NEW k \in Kinds,
                      k[1] \notin Lossy \cup Unseen
               PROVE  k \in Listed <=> k \in Bindable
    BY DEF ListMatches
  <2>1. k[1] \in Crds /\ k[1] \in Plain /\ k = <<k[1], k[2]>>
    BY VisitSteps DEF Plain
  <2>2. ~News(k[1]) /\ ~Working(k[1])
    BY <2>1 DEF AtRest, News, Working
  <2>3. k \in Bindable <=> OnOffer(k)
    BY <2>1 DEF Bindable, KindsOf, OnOffer, Offers, Leaving
  <2>4. k \in Listed => OnOffer(k)
    BY <2>1, <2>2 DEF DifferencesPending, ListedOffered, RightlyListed, TakesOut, OnOffer
  <2>5. OnOffer(k) => k \in Listed
    BY <2>2 DEF DifferencesPending, OfferedListed, PutsIn
  <2> QED BY <2>3, <2>4, <2>5
<1> QED
  BY <1>1, KindsTypes, Pending, PTL

=============================================================================
