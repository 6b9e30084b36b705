--------------------------- MODULE MappingSafety ---------------------------
(***************************************************************************)
(* Proofs that no rebinding is lost, however updates of a mapping and      *)
(* reconciliations meet, and that bindings follow the mapping if updates   *)
(* take turns: for any bindings and mappings, and any number of updates    *)
(* and faults.                                                             *)
(***************************************************************************)
EXTENDS MappingRebind, TLAPS

\* What the variables are, as far as the proofs need it.
Shapes ==
  /\ stored \in Mappings /\ exists \subseteq Bindings
  /\ request \in [phase : {"none", "spec", "coreos"}, new : Mappings \cup {None},
                  todo : SUBSET Bindings, seen : SUBSET Bindings]
  /\ request.phase # "none" => request.new \in Mappings
  /\ request.phase = "none" => request.todo = {}
  /\ note \in [Bindings -> Mappings \cup {None}]
  /\ copy \in [Bindings -> Mappings \cup {None}]
  /\ pc \in [Bindings -> {"idle", "lookup", "write", "status", "save"}]
  /\ DOMAIN places = Bindings /\ DOMAIN target = Bindings
  /\ DOMAIN status = Bindings /\ DOMAIN outcome = Bindings
  /\ queue \subseteq exists /\ request.todo \subseteq exists
  /\ \A b \in Bindings \ exists : pc[b] = "idle" /\ note[b] = None /\ places[b] = {}

LEMMA InitShapes == Init => Shapes
  BY MappingAssumption DEF Init, Shapes, NoRequest, Valid

\* The step of a worker whose lookup is done.
LEMMA LookedUp ==
  ASSUME NEW b \in Bindings, Shapes, Lookup(b)
  PROVE  /\ b \in exists /\ pc[b] = "lookup" /\ pc'[b] \in {"write", "status"}
         /\ pc' \in [Bindings -> {"idle", "lookup", "write", "status", "save"}]
         /\ copy' \in [Bindings -> Mappings \cup {None}]
         /\ DOMAIN target' = Bindings /\ DOMAIN outcome' = Bindings
         /\ \A c \in Bindings \ {b} :
              /\ pc'[c] = pc[c] /\ copy'[c] = copy[c]
              /\ target'[c] = target[c] /\ outcome'[c] = outcome[c]
              /\ c \in named' <=> c \in named
              /\ c \in again' <=> c \in again
         /\ UNCHANGED <<stored, request, exists, note, bound, status, places, queue, current>>
<1>0. /\ b \in exists /\ pc[b] = "lookup"
      /\ UNCHANGED <<stored, request, exists, note, bound, status, places, queue, current>>
  BY Zenon DEF Lookup, Shapes, object
<1>1. CASE UnbindStops(b)
  BY <1>0, <1>1, Zenon DEF UnbindStops, ToWrite, Shapes
<1>2. CASE Unbind(b)
  BY <1>0, <1>2, ZenonT(30) DEF Unbind, ToWrite, ToStatus, Shapes
<1>3. CASE Bind(b)
  BY <1>0, <1>3, Zenon DEF Bind, ToWrite, Shapes
<1> QED BY <1>1, <1>2, <1>3, Zenon DEF Lookup

LEMMA StepShapes == Shapes /\ [Next]_vars => Shapes'
<1> SUFFICES ASSUME Shapes, [Next]_vars PROVE Shapes'
  BY Zenon
<1> USE MappingAssumption DEF Shapes, worker, object
<1>list. \A apis, phase, new :
           List(apis, phase, new) /\ phase \in {"spec", "coreos"} /\ new \in Mappings =>
             /\ request' \in [phase : {"none", "spec", "coreos"}, new : Mappings \cup {None},
                              todo : SUBSET Bindings, seen : SUBSET Bindings]
             /\ request'.new \in Mappings /\ request'.todo \subseteq exists
             /\ request'.phase # "none"
  BY DEF List
<1>1. ASSUME NEW m \in Mappings, ValidateUpdate(m) PROVE Shapes'
  BY <1>1, <1>list, Zenon DEF ValidateUpdate
<1>2. ASSUME NEW b \in Bindings, Annotate(b) PROVE Shapes'
  <2>1. b \in exists
    BY <1>2, Zenon DEF Annotate
  <2>2. note' = note \/ note' = [note EXCEPT ![b] = stored]
    BY <1>2, Zenon DEF Annotate, Annotation
  <2>3. request' = NoRequest \/ request' = [request EXCEPT !.todo = @ \ {b}]
    BY <1>2, Zenon DEF Annotate
  <2> QED BY <1>2, <2>1, <2>2, <2>3 DEF Annotate, NoRequest
<1>3. CASE ListCoreos
  BY <1>3, <1>list, Zenon DEF ListCoreos
<1>4. CASE Store
  BY <1>4, Zenon DEF Store, NoRequest
<1>5. CASE Refuse
  BY <1>5, Zenon DEF Refuse, NoRequest
<1>6. ASSUME NEW b \in Bindings, Begin(b) PROVE Shapes'
  BY <1>6, Zenon DEF Begin
<1>done. ASSUME NEW b \in Bindings, NEW requeue, Done(b, requeue), b \in exists
         PROVE  /\ copy' \in [Bindings -> Mappings \cup {None}]
                /\ pc' \in [Bindings -> {"idle", "lookup", "write", "status", "save"}]
                /\ DOMAIN target' = Bindings /\ DOMAIN outcome' = Bindings
                /\ queue' \subseteq exists /\ \A c \in Bindings : c # b => pc'[c] = pc[c]
  BY <1>done, Zenon DEF Done
<1>7. ASSUME NEW b \in Bindings, Lookup(b) PROVE Shapes'
  BY <1>7, LookedUp, Zenon
<1>8. ASSUME NEW b \in Bindings, WriteWorkload(b) PROVE Shapes'
  <2>1. /\ b \in exists /\ UNCHANGED <<stored, request, exists, note, status, queue, copy, target>>
        /\ pc' = [pc EXCEPT ![b] = "status"]
    BY <1>8, Zenon DEF WriteWorkload, ToStatus
  <2>2. \E said : outcome' = [outcome EXCEPT ![b] = said]
    BY <1>8, Zenon DEF WriteWorkload, ToStatus
  <2>3. places' = places \/ places' = [places EXCEPT ![b] = target[b]]
    BY <1>8, Zenon DEF WriteWorkload
  <2>4. /\ DOMAIN outcome' = Bindings /\ DOMAIN places' = Bindings
        /\ \A c \in Bindings \ {b} : places'[c] = places[c]
    BY <2>2, <2>3, Zenon
  <2> QED BY <2>1, <2>4, Zenon
<1>9. ASSUME NEW b \in Bindings, UpdateStatus(b) PROVE Shapes'
  <2>1. b \in exists
    BY <1>9, Zenon DEF UpdateStatus
  <2>2. CASE PersistFails(b) /\ UNCHANGED <<status, bound, request>>
    <3>1. Done(b, TRUE) /\ UNCHANGED <<stored, exists, note, places>>
      BY <1>9, <2>2, Zenon DEF UpdateStatus, PersistFails
    <3> QED BY <2>1, <2>2, <3>1, <1>done, Zenon
  <2>3. CASE ~(PersistFails(b) /\ UNCHANGED <<status, bound, request>>)
    <3>1. \E seen \in SUBSET Bindings : request' = [request EXCEPT !.seen = seen]
      BY <1>9, <2>3, Zenon DEF UpdateStatus
    <3>2. /\ request' \in [phase : {"none", "spec", "coreos"}, new : Mappings \cup {None},
                            todo : SUBSET Bindings, seen : SUBSET Bindings]
          /\ request'.phase = request.phase /\ request'.new = request.new
          /\ request'.todo = request.todo
      BY <3>1
    <3>3. /\ pc' = [pc EXCEPT ![b] = "save"] /\ status' = [status EXCEPT ![b] = outcome[b]]
          /\ UNCHANGED <<stored, exists, note, places, queue, copy, target, outcome>>
      BY <1>9, <2>3, Zenon DEF UpdateStatus
    <3>4. /\ pc' \in [Bindings -> {"idle", "lookup", "write", "status", "save"}]
          /\ DOMAIN status' = Bindings /\ \A c \in Bindings \ exists : pc'[c] = pc[c]
      BY <2>1, <3>3, Zenon
    <3> QED BY <2>1, <3>2, <3>3, <3>4, Zenon
  <2> QED BY <1>9, <2>2, <2>3, Zenon DEF UpdateStatus
<1>12. ASSUME NEW b \in Bindings, Save(b) PROVE Shapes'
  <2>1. b \in exists /\ UNCHANGED <<stored, exists, status, places>>
    BY <1>12, Zenon DEF Save
  <2>2. \E requeue : Done(b, requeue)
    BY <1>12, Zenon DEF Save, PersistFails
  <2>3. \/ UNCHANGED request
        \/ \E seen \in SUBSET Bindings : request' = [request EXCEPT !.seen = seen]
    BY <1>12, Zenon DEF Save
  <2>4. note' = note \/ note' = [note EXCEPT ![b] = copy[b]]
    BY <1>12, Zenon DEF Save
  <2>5. /\ request' \in [phase : {"none", "spec", "coreos"}, new : Mappings \cup {None},
                          todo : SUBSET Bindings, seen : SUBSET Bindings]
        /\ request'.phase = request.phase /\ request'.new = request.new
        /\ request'.todo = request.todo
    BY <2>3
  <2>6. /\ note' \in [Bindings -> Mappings \cup {None}]
        /\ \A c \in Bindings : c # b => note'[c] = note[c]
    BY <2>4, Zenon
  <2> QED BY <2>1, <2>2, <2>5, <2>6, <1>done, ZenonT(30)
<1>10. ASSUME NEW b \in Bindings, CreateBinding(b) PROVE Shapes'
  BY <1>10, Zenon DEF CreateBinding
<1>11. CASE UNCHANGED vars
  BY <1>11, Zenon DEF vars
<1> QED
  BY <1>1, <1>2, <1>3, <1>4, <1>5, <1>6, <1>7, <1>8, <1>9, <1>10, <1>11, <1>12, Zenon
     DEF Next, Webhook, Worker

(***************************************************************************)
(* No rebinding is given up half way                                       *)
(***************************************************************************)

\* The webhook only adds annotations, and takes no binding off the queue.
LEMMA WebhookKeeps ==
  ASSUME Shapes, NeverDropped, UNCHANGED <<exists, pc, copy, again, target, outcome, places>>,
         queue \subseteq queue', \A b \in exists : note'[b] = None => note[b] = None
  PROVE  NeverDropped'
  BY Zenon DEF NeverDropped, Retries

\* A worker changes nothing of the other bindings.
LEMMA OthersDropped ==
  ASSUME Shapes, NeverDropped, NEW b \in exists, UNCHANGED exists,
         \A c \in Bindings \ {b} :
           /\ note'[c] = note[c] /\ pc'[c] = pc[c] /\ copy'[c] = copy[c]
           /\ target'[c] = target[c] /\ places'[c] = places[c] /\ outcome'[c] = outcome[c]
           /\ c \in queue' <=> c \in queue
           /\ c \in again' <=> c \in again,
         pc'[b] = "write" /\ copy'[b] = None /\ b \notin again' => target'[b] # {},
         pc'[b] \in {"status", "save"} /\ copy'[b] = None /\ ~Retries(b)' => places'[b] # {},
         pc'[b] = "idle" /\ b \notin queue' /\ note'[b] = None => places'[b] # {}
  PROVE  NeverDropped'
<1> SUFFICES ASSUME NEW c \in exists, c # b
             PROVE  /\ pc'[c] = "write" /\ copy'[c] = None /\ c \notin again' => target'[c] # {}
                    /\ pc'[c] \in {"status", "save"} /\ copy'[c] = None /\ ~Retries(c)'
                       => places'[c] # {}
                    /\ pc'[c] = "idle" /\ c \notin queue' /\ note'[c] = None => places'[c] # {}
  BY Zenon DEF NeverDropped
<1> QED BY Zenon DEF NeverDropped, Retries, Shapes

LEMMA StepNeverDropped ==
  Shapes /\ NeverDropped /\ [Next]_vars => NeverDropped'
<1> SUFFICES ASSUME Shapes, NeverDropped, [Next]_vars PROVE NeverDropped'
  BY Zenon
<1> USE MappingAssumption DEF worker, object
<1>1. ASSUME NEW m \in Mappings, ValidateUpdate(m) PROVE NeverDropped'
  BY <1>1, WebhookKeeps, Zenon DEF ValidateUpdate
<1>2. ASSUME NEW b \in Bindings, Annotate(b) PROVE NeverDropped'
  BY <1>2, WebhookKeeps DEF Annotate, Annotation, Shapes
<1>3. CASE ListCoreos \/ Store \/ Refuse
  BY <1>3, WebhookKeeps, Zenon DEF ListCoreos, Store, Refuse
<1>4. ASSUME NEW b \in Bindings, Begin(b) PROVE NeverDropped'
  BY <1>4, OthersDropped, Zenon DEF Begin, Shapes
<1>5. ASSUME NEW b \in Bindings, Lookup(b) PROVE NeverDropped'
  <2>1. BindByStored(b) # {}
    BY Zenon DEF BindByStored
  <2>2. \/ copy'[b] # None
        \/ b \in again'
        \/ pc'[b] = "write" /\ target'[b] # {}
    BY <1>5, <2>1, Zenon DEF Lookup, UnbindStops, Unbind, Bind, ToWrite, Shapes
  <2> QED BY <1>5, <2>2, LookedUp, OthersDropped, Zenon DEF Retries
<1>6. ASSUME NEW b \in Bindings, WriteWorkload(b) PROVE NeverDropped'
  <2>1. /\ b \in exists /\ pc[b] = "write" /\ pc'[b] = "status"
        /\ UNCHANGED <<exists, note, queue, copy, again, target>>
        /\ \A c \in Bindings \ {b} : /\ pc'[c] = pc[c] /\ places'[c] = places[c]
                                     /\ outcome'[c] = outcome[c]
    BY <1>6, ZenonT(30) DEF WriteWorkload, ToStatus, Shapes
  <2>2. \/ places' = [places EXCEPT ![b] = target[b]]
        \/ \E m \in Messages : outcome' = [outcome EXCEPT ![b] = m]
    BY <1>6, Zenon DEF WriteWorkload, ToStatus
  <2>3. places'[b] = target[b] \/ outcome'[b] # "bound"
    BY <2>2, Zenon DEF Shapes
  <2> QED BY <2>1, <2>3, OthersDropped, Zenon DEF NeverDropped, Retries
<1>done. ASSUME NEW b \in Bindings, NEW requeue, Done(b, requeue)
         PROVE  /\ pc'[b] = "idle" /\ (requeue => b \in queue')
                /\ \A c \in Bindings \ {b} :
                     /\ pc'[c] = pc[c] /\ copy'[c] = copy[c]
                     /\ target'[c] = target[c] /\ outcome'[c] = outcome[c]
                     /\ c \in queue' <=> c \in queue
                     /\ c \in again' <=> c \in again
  BY <1>done, Zenon DEF Done, Shapes
<1>7. ASSUME NEW b \in Bindings, UpdateStatus(b) PROVE NeverDropped'
  <2>1. b \in exists /\ pc[b] = "status" /\ UNCHANGED <<exists, note, places>>
    BY <1>7, Zenon DEF UpdateStatus, Shapes
  <2>2. CASE PersistFails(b)
    BY <2>1, <2>2, <1>done, OthersDropped, Zenon DEF PersistFails
  <2>3. CASE ~PersistFails(b)
    <3>1. /\ pc'[b] = "save" /\ \A c \in Bindings \ {b} : pc'[c] = pc[c]
          /\ UNCHANGED <<queue, copy, again, target, outcome>>
      BY <1>7, <2>3, ZenonT(30) DEF UpdateStatus, Shapes
    <3> QED BY <2>1, <3>1, OthersDropped, Zenon DEF NeverDropped, Retries
  <2> QED BY <2>2, <2>3, Zenon
<1>8. ASSUME NEW b \in Bindings, Save(b) PROVE NeverDropped'
  <2>1. b \in exists /\ pc[b] = "save" /\ UNCHANGED <<exists, places>>
    BY <1>8, Zenon DEF Save, Shapes
  <2>2. CASE PersistFails(b) /\ UNCHANGED note
    BY <2>1, <2>2, <1>done, OthersDropped, Zenon DEF PersistFails
  <2>3. CASE Done(b, Retries(b) \/ copy[b] # note[b]) /\ note' = [note EXCEPT ![b] = copy[b]]
    <3>1. note'[b] = copy[b] /\ \A c \in Bindings \ {b} : note'[c] = note[c]
      BY <2>3, Zenon DEF Shapes
    <3>2. b \in queue' \/ ~Retries(b)
      BY <2>3, <1>done, Zenon
    <3>3. b \notin queue' /\ note'[b] = None => places'[b] # {}
      BY <2>1, <3>1, <3>2, Zenon DEF NeverDropped
    <3>4. /\ pc'[b] = "idle"
          /\ \A c \in Bindings \ {b} :
               /\ pc'[c] = pc[c] /\ copy'[c] = copy[c]
               /\ target'[c] = target[c] /\ outcome'[c] = outcome[c]
               /\ c \in queue' <=> c \in queue
               /\ c \in again' <=> c \in again
      BY <2>3, <1>done, Zenon
    <3> QED BY <2>1, <3>1, <3>3, <3>4, OthersDropped, Zenon
  <2> QED BY <1>8, <2>2, <2>3, Zenon DEF Save
<1>9. ASSUME NEW b \in Bindings, CreateBinding(b) PROVE NeverDropped'
  BY <1>9, Zenon DEF CreateBinding, NeverDropped, Retries, Shapes
<1>10. CASE UNCHANGED vars
  BY <1>10, Zenon DEF vars, NeverDropped, Retries
<1> QED
  BY <1>1, <1>2, <1>3, <1>4, <1>5, <1>6, <1>7, <1>8, <1>9, <1>10, Zenon DEF Next, Webhook, Worker

\* NeverLost: when nothing is left to do, a binding without the annotation is
\* projected, however updates, refusals, conflicts and new bindings met.
THEOREM NothingLost == Spec => []NeverLost
<1>1. Init => NeverDropped
  BY MappingAssumption, ZenonT(30) DEF Init, NeverDropped
<1>2. Shapes /\ NeverDropped => NeverLost
  BY Zenon DEF NeverDropped, NeverLost, Settled, Shapes
<1> QED
  BY <1>1, <1>2, InitShapes, StepShapes, StepNeverDropped, PTL DEF Spec

(***************************************************************************)
(* If updates take turns, bindings follow the mapping                      *)
(***************************************************************************)

\* In a set with one index, the first and the last are that one.
LEMMA OnlyIndex ==
  ASSUME NEW I \in SUBSET Nat, NEW i \in I, \A j \in I : j = i
  PROVE  Min(I) = i /\ Max(I) = i
<1>1. \A x \in I : (\A y \in I : x =< y) <=> x = i
  OBVIOUS
<1>2. \A x \in I : (\A y \in I : x >= y) <=> x = i
  OBVIOUS
<1>3. Min(I) = i
  BY <1>1, Zenon DEF Min
<1>4. Max(I) = i
  BY <1>2, Zenon DEF Max
<1> QED BY <1>3, <1>4, Zenon

\* In a valid mapping the loop over the versions finds the template that the
\* mapping has for the version, or else for the wildcard, or else the default.
LEMMA TemplateMeaning ==
  ASSUME stored \in Mappings, Valid(stored), NEW b
  PROVE  Template(stored, Version[b]) = Meaning(b)
<1> DEFINE I(v) == For(stored, v)
<1>1. DOMAIN stored = 1..Len(stored) /\ DOMAIN stored \subseteq Nat
  BY MappingAssumption
<1>2. \A v : I(v) \in SUBSET Nat
  BY <1>1, Zenon DEF For
<1>3. \A v, i, j : i \in I(v) /\ j \in I(v) => j = i
  BY <1>1, Zenon DEF For, Valid
<1>4. Meaning(b) =
        LET is == IF I(Version[b]) # {} THEN I(Version[b]) ELSE I("*")
        IN  IF is = {} THEN Default ELSE stored[CHOOSE i \in is : TRUE].place
  BY <1>1 DEF Meaning, For
<1> HIDE DEF I
<1>5. \A v, i : i \in I(v) => /\ Min(I(v)) = i /\ Max(I(v)) = i
                              /\ (CHOOSE j \in I(v) : TRUE) = i
  <2> SUFFICES ASSUME NEW v, NEW i \in I(v)
               PROVE  Min(I(v)) = i /\ Max(I(v)) = i /\ (CHOOSE j \in I(v) : TRUE) = i
    BY Zenon
  <2>1. Min(I(v)) = i /\ Max(I(v)) = i
    BY <1>2, <1>3, OnlyIndex, Zenon
  <2>2. (CHOOSE j \in I(v) : TRUE) \in I(v)
    BY Zenon
  <2> QED BY <1>3, <2>1, <2>2, Zenon
<1>6. Template(stored, Version[b]) =
        IF I(Version[b]) # {} THEN stored[Min(I(Version[b]))].place
        ELSE IF I("*") # {} THEN stored[Max(I("*"))].place ELSE Default
  BY Zenon DEF Template, I
<1> QED
  BY <1>4, <1>5, <1>6

\* Updates take turns: a mapping is updated when the bindings are at rest, and
\* it is stored before a worker looks it up.
InTurns == Prompt /\ Patient

\* Every mapping has a template for the version of every binding, so that the
\* webhook finds all the bindings relevant.
Accepting == \A m \in Mappings, b \in Bindings : AcceptsGVR(m, Version[b])

\* What a step on one binding keeps, if it does so for that binding.
LEMMA OneBinding ==
  ASSUME Shapes, TurnsTaken, NEW b \in Bindings,
         UNCHANGED <<stored, exists>>, request'.phase = request.phase,
         request'.new = request.new, request'.todo = request.todo,
         request'.todo \subseteq request'.seen,
         \A c \in Bindings \ {b} :
           /\ note'[c] = note[c] /\ pc'[c] = pc[c] /\ copy'[c] = copy[c]
           /\ target'[c] = target[c] /\ places'[c] = places[c]
           /\ outcome'[c] = outcome[c] /\ status'[c] = status[c]
           /\ c \in queue' <=> c \in queue
           /\ c \in bound' <=> c \in bound
           /\ c \in named' <=> c \in named
           /\ c \in current' <=> c \in current,
         (Unannotated(b) \/ Annotated(b))',
         pc'[b] \in {"lookup", "write", "status"} => b \in current',
         request.phase # "none" => InWebhook(b)'
  PROVE  TurnsTaken'
  BY DEF Shapes, TurnsTaken, Unannotated, Annotated, InWebhook, At, Closing

\* Serialize finds all the bindings of an API.
LEMMA AllListed ==
  ASSUME Accepting, Shapes
  PROVE  \A apis, phase, new : List(apis, phase, new) =>
           /\ request'.phase = phase /\ request'.new = new
           /\ request'.todo = exists \cap apis /\ request'.seen = exists \cap apis
<1> TAKE apis, phase, new
<1> DEFINE bs == {b \in exists \cap apis : AcceptsGVR(stored, Version[b])}
<1>1. bs = exists \cap apis
  BY Zenon DEF Accepting, Shapes
<1>2. List(apis, phase, new) =>
        request' = [phase |-> phase, new |-> new, todo |-> bs, seen |-> bs]
  BY Zenon DEF List
<1> QED BY <1>1, <1>2

\* The steps of the webhook.
LEMMA WebhookInTurns ==
  ASSUME InTurns, Accepting, Shapes, TurnsTaken,
         (\E m \in Mappings : ValidateUpdate(m)) \/ Webhook \/ Refuse
  PROVE  TurnsTaken'
<1> USE MappingAssumption DEF worker, object
<1>same. ASSUME UNCHANGED <<exists, object, places, worker>>,
                stored' = stored \/ \A b \in exists : note[b] # None
         PROVE  \A b \in exists' : /\ (Unannotated(b) \/ Annotated(b))'
                                   /\ pc'[b] \in {"lookup", "write", "status"} => b \in current'
  BY <1>same DEF Shapes, TurnsTaken, Unannotated, Annotated, At, Closing
<1>1. ASSUME NEW m \in Mappings, ValidateUpdate(m) PROVE TurnsTaken'
  <2>1. \A b \in exists : note[b] = None /\ b \in bound /\ places[b] = At(stored, b)
    BY <1>1, Zenon
       DEF InTurns, ValidateUpdate, Settled, Shapes, TurnsTaken, Unannotated, Annotated
  <2>2. CASE ~Valid(m)
    BY <1>1, <2>2, <1>same, Zenon DEF ValidateUpdate, TurnsTaken, InWebhook, At
  <2>3. CASE Valid(m)
    <3>1. /\ request'.phase = "spec" /\ request'.new = m
          /\ request'.todo = exists \cap Spec1 /\ request'.seen = request'.todo
      <4>1. List(Spec1, "spec", m)
        BY <1>1, <2>3, Zenon DEF ValidateUpdate
      <4> QED BY <4>1, AllListed, Zenon
    <3>2. \A b \in exists : InWebhook(b)'
      BY <1>1, <2>1, <3>1, Zenon
         DEF InTurns, ValidateUpdate, Settled, InWebhook, Shapes, At
    <3> QED BY <1>1, <1>same, <2>3, <3>1, <3>2, Zenon DEF ValidateUpdate, TurnsTaken
  <2> QED BY <2>2, <2>3, Zenon
<1>2. ASSUME NEW b \in Bindings, Annotate(b) PROVE TurnsTaken'
  <2>1. b \in exists /\ InWebhook(b) /\ b \in request.seen /\ request.phase # "none"
    BY <1>2, Zenon DEF Annotate, Shapes, TurnsTaken
  <2>2. /\ note' = [note EXCEPT ![b] = stored]
        /\ request' = [request EXCEPT !.todo = @ \ {b}]
        /\ note[b] = stored => queue' = queue /\ current' = current
        /\ note[b] # stored => queue' = queue \cup {b} /\ current' = current \ {b}
        /\ UNCHANGED <<stored, exists, bound, status, places, pc, copy, named, target, outcome>>
    BY <1>2, <2>1, Zenon DEF Annotate, Annotation, Shapes
  <2>3. (Annotated(b) /\ InWebhook(b))' /\ (pc'[b] \in {"lookup", "write", "status"} => b \in current')
    BY <2>1, <2>2 DEF Shapes, TurnsTaken, Unannotated, Annotated, InWebhook, At, Closing
  <2>4. \A c \in exists \ {b} : /\ (Unannotated(c) \/ Annotated(c))' /\ InWebhook(c)'
                                /\ pc'[c] \in {"lookup", "write", "status"} => c \in current'
    BY <2>1, <2>2 DEF Shapes, TurnsTaken, Unannotated, Annotated, InWebhook, At, Closing
  <2> QED BY <2>1, <2>2, <2>3, <2>4, Zenon DEF Shapes, TurnsTaken
<1>3. CASE ListCoreos
  <2>1. /\ request'.phase = "coreos" /\ request'.new = request.new
        /\ request'.todo = exists \ Spec1 /\ request'.seen = request'.todo
    <3>1. exists \cap (Bindings \ Spec1) = exists \ Spec1
      BY Zenon DEF Shapes
    <3>2. List(Bindings \ Spec1, "coreos", request.new)
      BY <1>3, Zenon DEF ListCoreos
    <3>3. /\ request'.phase = "coreos" /\ request'.new = request.new
          /\ request'.todo = exists \cap (Bindings \ Spec1) /\ request'.seen = request'.todo
      BY <3>2, AllListed, ZenonT(30)
    <3> QED BY <3>1, <3>3, Zenon
  <2>2. \A b \in exists : InWebhook(b)'
    BY <1>3, <2>1, Zenon DEF ListCoreos, InWebhook, TurnsTaken, At
  <2> QED BY <1>3, <1>same, <2>1, <2>2, Zenon DEF ListCoreos, TurnsTaken
<1>4. CASE Store
  <2>1. \A b \in exists : note[b] # None
    BY <1>4, Zenon DEF Store, TurnsTaken, InWebhook
  <2> QED BY <1>4, <1>same, <2>1, Zenon DEF Store, NoRequest, TurnsTaken
<1>5. CASE Refuse
  BY <1>5, <1>same, Zenon DEF Refuse, NoRequest, TurnsTaken
<1> QED
  BY <1>1, <1>2, <1>3, <1>4, <1>5, Zenon DEF Webhook

\* A reconciliation that ends with an error is taken up again.
LEMMA FailsInTurns ==
  ASSUME Shapes, TurnsTaken, NEW b \in exists, request.phase = "none", pc[b] \in {"status", "save"},
         PersistFails(b), UNCHANGED <<stored, request, exists, object, places>>
  PROVE  TurnsTaken'
<1>1. Done(b, TRUE)
  BY Zenon DEF PersistFails
<1>2. pc'[b] = "idle" /\ b \in queue' /\ b \in Bindings
  BY <1>1, Zenon DEF Done, Shapes
<1>3. (Unannotated(b) \/ Annotated(b))'
  BY <1>2, Zenon DEF object, TurnsTaken, Unannotated, Annotated, At, Closing
<1>4. \A c \in Bindings \ {b} : /\ pc'[c] = pc[c] /\ copy'[c] = copy[c]
                                /\ target'[c] = target[c] /\ outcome'[c] = outcome[c]
                                /\ c \in queue' <=> c \in queue
                                /\ c \in named' <=> c \in named
                                /\ c \in current' <=> c \in current
  BY <1>1, Zenon DEF Done, Shapes
<1> QED BY <1>2, <1>3, <1>4, OneBinding, Zenon DEF object, TurnsTaken

\* The steps of the workers, and new bindings.
LEMMA WorkersInTurns ==
  ASSUME InTurns, ~Repeats, Shapes, TurnsTaken, NEW b \in Bindings, Worker(b) \/ CreateBinding(b)
  PROVE  TurnsTaken'
<1> USE DEF object
<1>none. None \notin Mappings
  BY MappingAssumption, Zenon
<1>0. CreateBinding(b) \/ b \in exists
  BY Zenon DEF Worker, Begin, Lookup, WriteWorkload, UpdateStatus, Save, Shapes
<1>at. /\ UnbindByCopy(b) = places[b] \ At(copy[b], b)
       /\ BindByStored(b) = places[b] \cup At(stored, b)
  BY Zenon DEF UnbindByCopy, BindByStored, At
<1>1. CASE Begin(b)
  <2>1. /\ pc'[b] = "lookup" /\ copy'[b] = note[b] /\ current' = current \cup {b}
        /\ b \in bound => b \in named'
        /\ UNCHANGED <<stored, request, exists, note, bound, status, places, target, outcome>>
    BY <1>1, Zenon DEF Begin, Shapes
  <2>2. b \in exists /\ pc[b] = "idle"
    BY <1>0, <1>1, Zenon DEF Begin, CreateBinding, Shapes
  <2>3. (Unannotated(b) \/ Annotated(b))'
    BY <2>1, <2>2, Zenon DEF TurnsTaken, Unannotated, Annotated, At, Closing
  <2>4. request.phase # "none" => InWebhook(b)'
    BY <1>1, <2>1, <2>2, Zenon DEF Begin, TurnsTaken, InWebhook, At
  <2>5. \A c \in Bindings \ {b} : /\ pc'[c] = pc[c] /\ copy'[c] = copy[c]
                                  /\ c \in queue' <=> c \in queue
                                  /\ c \in named' <=> c \in named
    BY <1>1, Zenon DEF Begin, Shapes
  <2> QED BY <2>1, <2>2, <2>3, <2>4, <2>5, OneBinding, Zenon DEF TurnsTaken
<1>2. CASE Lookup(b)
  <2>1. request.phase = "none" /\ b \in exists /\ pc[b] = "lookup"
    BY <1>0, <1>2, Zenon DEF Lookup, InTurns, CreateBinding
  <2>2. UNCHANGED <<stored, request, exists, note, bound, status, places, queue, current>>
    BY <1>2, LookedUp, Zenon
  <2>3. \A c \in Bindings \ {b} : /\ pc'[c] = pc[c] /\ target'[c] = target[c]
                                  /\ copy'[c] = copy[c] /\ outcome'[c] = outcome[c]
                                  /\ c \in named' <=> c \in named
    BY <1>2, LookedUp, Zenon
  <2>4. CASE Unannotated(b)
    <3>1. Bind(b)
      BY <1>2, <2>1, <2>4, Zenon DEF Lookup, UnbindStops, Unbind, Unannotated
    <3>2. pc'[b] = "write" /\ target'[b] = BindByStored(b) /\ copy'[b] = None /\ b \in named'
      BY <3>1, Zenon DEF Bind, ToWrite, Shapes
    <3>3. BindByStored(b) = At(stored, b)
      BY <1>at, <2>4, Zenon DEF Unannotated
    <3>4. Unannotated(b)'
      BY <2>1, <2>2, <2>4, <3>2, <3>3, Zenon DEF Unannotated, At, Closing
    <3> QED BY <2>1, <2>2, <2>3, <3>4, OneBinding, Zenon DEF TurnsTaken
  <2>5. CASE Annotated(b)
    <3>1. Unbind(b)
      BY <1>2, <1>none, <2>1, <2>5, Zenon DEF Lookup, UnbindStops, Bind, Annotated
    <3>2. UnbindByCopy(b) = {}
      BY <1>at, <2>1, <2>5, Zenon DEF Annotated
    <3>3. /\ copy'[b] = None /\ b \in named'
          /\ \/ pc'[b] = "write" /\ target'[b] = {}
             \/ pc'[b] = "status" /\ outcome'[b] = "bound" /\ places[b] = {}
      BY <2>1, <2>5, <3>1, <3>2, Zenon DEF Unbind, ToWrite, ToStatus, Shapes, Annotated
    <3>4. Annotated(b)'
      BY <2>2, <2>5, <3>3, <2>1, Zenon DEF Annotated, At, Closing
    <3> QED BY <2>1, <2>2, <2>3, <3>4, OneBinding, Zenon DEF TurnsTaken
  <2> QED BY <2>1, <2>4, <2>5, Zenon DEF TurnsTaken
<1>3. CASE WriteWorkload(b)
  <2>1. /\ pc[b] = "write" /\ pc'[b] = "status"
        /\ \/ outcome'[b] = "bound" /\ places'[b] = target[b]
           \/ outcome'[b] # "bound" /\ outcome'[b] # status[b] /\ places'[b] = places[b]
        /\ UNCHANGED <<stored, request, exists, note, bound, status, queue, copy, named, current,
                        target>>
    <3>1. /\ pc[b] = "write" /\ pc' = [pc EXCEPT ![b] = "status"]
          /\ UNCHANGED <<stored, request, exists, note, bound, status, queue, copy, named, current,
                          target>>
      BY <1>3, Zenon DEF WriteWorkload, ToStatus
    <3>2. \/ /\ outcome' = [outcome EXCEPT ![b] = "bound"]
             /\ places' = [places EXCEPT ![b] = target[b]]
          \/ /\ \E m \in Messages : m # status[b] /\ outcome' = [outcome EXCEPT ![b] = m]
             /\ places' = places
      BY <1>3, Zenon DEF WriteWorkload, ToStatus
    <3> QED BY <3>1, <3>2, MappingAssumption, ZenonT(30) DEF Shapes
  <2>2. b \in exists /\ request.phase = "none"
    BY <1>0, <2>1, Zenon DEF CreateBinding, Shapes, TurnsTaken, InWebhook
  <2>3. (Unannotated(b) \/ Annotated(b))'
    <3>1. CASE Unannotated(b)
      BY <2>1, <3>1, Zenon DEF Unannotated, At, Closing
    <3>2. CASE Annotated(b)
      BY <2>1, <3>2, Zenon DEF Annotated, At, Closing
    <3> QED BY <2>2, <3>1, <3>2, Zenon DEF TurnsTaken
  <2>4. \A c \in Bindings \ {b} : /\ pc'[c] = pc[c] /\ places'[c] = places[c]
                                  /\ outcome'[c] = outcome[c]
    BY <1>3, Zenon DEF WriteWorkload, ToStatus, Shapes
  <2> QED BY <2>1, <2>2, <2>3, <2>4, OneBinding, Zenon DEF TurnsTaken
<1>4. CASE UpdateStatus(b)
  <2>1. b \in exists /\ pc[b] = "status" /\ request.phase = "none"
    BY <1>0, <1>4, Zenon DEF UpdateStatus, CreateBinding, Shapes, TurnsTaken, InWebhook
  <2>2. CASE PersistFails(b) /\ UNCHANGED <<status, bound, request>>
    BY <1>4, <2>1, <2>2, FailsInTurns, Zenon DEF UpdateStatus
  <2>3. CASE ~(PersistFails(b) /\ UNCHANGED <<status, bound, request>>)
    <3>1. /\ pc'[b] = "save" /\ status'[b] = outcome[b] /\ (b \in named => b \in bound')
          /\ b \in bound => b \in bound'
          /\ outcome[b] # status[b] => b \notin current'
          /\ UNCHANGED <<stored, exists, note, places, queue, copy, named, target, outcome>>
      BY <1>4, <2>3, Zenon DEF UpdateStatus, NewStatus, Shapes
    <3>2. (Unannotated(b) \/ Annotated(b))'
      <4>1. CASE Unannotated(b)
        BY <2>1, <3>1, <4>1, Zenon DEF Unannotated, At, Closing
      <4>2. CASE Annotated(b)
        BY <2>1, <3>1, <4>2, Zenon DEF Annotated, At, Closing
      <4> QED BY <2>1, <4>1, <4>2, Zenon DEF TurnsTaken
    <3>3. /\ request'.phase = request.phase /\ request'.new = request.new
          /\ request'.todo = request.todo /\ request'.todo \subseteq request'.seen
      BY <1>4, <2>1, <2>3, Zenon DEF UpdateStatus, Shapes
    <3>4. \A c \in Bindings \ {b} : /\ pc'[c] = pc[c] /\ status'[c] = status[c]
                                    /\ c \in bound' <=> c \in bound
                                    /\ c \in current' <=> c \in current
      <4>1. /\ pc' = [pc EXCEPT ![b] = "save"] /\ status' = [status EXCEPT ![b] = outcome[b]]
            /\ bound' = bound \/ bound' = bound \cup {b}
            /\ current' = current \/ current' = current \ {b}
        BY <1>4, <2>3, Zenon DEF UpdateStatus
      <4> QED BY <4>1, Zenon DEF Shapes
    <3> QED BY <2>1, <3>1, <3>2, <3>3, <3>4, OneBinding, Zenon
  <2> QED BY <1>4, <2>2, <2>3, Zenon DEF UpdateStatus
<1>5. CASE Save(b)
  <2>1. b \in exists /\ pc[b] = "save" /\ request.phase = "none"
    BY <1>0, <1>5, Zenon DEF Save, CreateBinding, Shapes, TurnsTaken, InWebhook
  <2>2. CASE PersistFails(b) /\ UNCHANGED <<note, request>>
    BY <1>5, <2>1, <2>2, FailsInTurns, Zenon DEF Save
  <2>3. CASE b \in current /\ Done(b, Retries(b) \/ copy[b] # note[b])
             /\ note' = [note EXCEPT ![b] = copy[b]]
             /\ request' = [request EXCEPT !.seen = IF copy[b] # note[b] THEN @ \ {b} ELSE @]
    <3>1. /\ pc'[b] = "idle" /\ note'[b] = copy[b]
          /\ outcome[b] # "bound" \/ copy[b] # note[b] => b \in queue'
          /\ UNCHANGED <<stored, exists, bound, status, places>>
      BY <1>5, <2>1, <2>3, Zenon DEF Save, Done, Retries, Shapes
    <3>2. Unannotated(b)'
      <4>1. CASE Unannotated(b)
        BY <2>1, <3>1, <4>1, Zenon DEF Unannotated, At, Closing
      <4>2. CASE Annotated(b)
        BY <1>none, <2>1, <2>3, <3>1, <4>2, Zenon DEF Annotated, Unannotated, At, Closing
      <4> QED BY <2>1, <4>1, <4>2, Zenon DEF TurnsTaken
    <3>3. \A c \in Bindings \ {b} : /\ pc'[c] = pc[c] /\ copy'[c] = copy[c] /\ note'[c] = note[c]
                                    /\ target'[c] = target[c] /\ outcome'[c] = outcome[c]
                                    /\ c \in queue' <=> c \in queue
                                    /\ c \in named' <=> c \in named
                                    /\ c \in current' <=> c \in current
      BY <2>3, Zenon DEF Done, Shapes
    <3>4. /\ request'.phase = request.phase /\ request'.new = request.new
          /\ request'.todo = request.todo /\ request'.todo \subseteq request'.seen
      BY <2>1, <2>3, Zenon DEF Shapes
    <3> QED BY <2>1, <3>1, <3>2, <3>3, <3>4, OneBinding, Zenon
  <2> QED BY <1>5, <2>2, <2>3, Zenon DEF Save
<1>6. CASE CreateBinding(b)
  BY <1>6 DEF CreateBinding, InTurns, Shapes, TurnsTaken, Unannotated, Annotated, InWebhook, At,
              Closing
<1> QED
  BY <1>1, <1>2, <1>3, <1>4, <1>5, <1>6, Zenon DEF Worker

\* If updates take turns, every mapping has a template for every version, and
\* no update of a workload is refused twice in the same words, TurnsTaken holds.
THEOREM TurnsInvariant ==
  ASSUME InTurns, Accepting, ~Repeats
  PROVE  Spec => [](Shapes /\ TurnsTaken)
<1>1. ASSUME Init PROVE TurnsTaken
  <2>1. /\ stored \in Mappings /\ Valid(stored) /\ exists \subseteq Bindings
        /\ request.phase = "none" /\ request.todo = {}
    BY <1>1, MappingAssumption DEF Init, NoRequest
  <2>2. \A b \in exists : /\ note[b] = None /\ places[b] = At(stored, b) /\ b \in bound
                          /\ pc[b] = "idle"
    BY <1>1, <2>1, Zenon DEF Init, At
  <2> QED BY <2>1, <2>2, Zenon DEF TurnsTaken, Unannotated, Closing
<1>2. Shapes /\ TurnsTaken /\ [Next]_vars => TurnsTaken'
  <2>1. TurnsTaken /\ UNCHANGED vars => TurnsTaken'
    BY DEF vars, worker, object, TurnsTaken, Unannotated, Annotated, InWebhook, At, Closing
  <2> QED BY <2>1, WebhookInTurns, WorkersInTurns, Zenon DEF Next
<1> QED
  BY <1>1, <1>2, InitShapes, StepShapes, PTL DEF Spec

\* FollowsMapping: under the same assumptions, at rest every binding is where
\* the stored mapping projects it, and nowhere else.
THEOREM MappingFollowed ==
  ASSUME InTurns, Accepting, ~Repeats
  PROVE  Spec => []FollowsMapping
<1>1. Shapes /\ TurnsTaken => FollowsMapping
  BY TemplateMeaning DEF Shapes, TurnsTaken, Unannotated, Annotated, At, Settled, FollowsMapping
<1> QED
  BY <1>1, TurnsInvariant, PTL

\* AnnotatedByOwn: under the same assumptions, an annotated binding is where
\* the mapping in its annotation says, so that Unbind finds all of it.
THEOREM AnnotatedOwn ==
  ASSUME InTurns, Accepting, ~Repeats
  PROVE  Spec => []AnnotatedByOwn
<1>1. Shapes /\ TurnsTaken => AnnotatedByOwn
  BY Zenon DEF Shapes, TurnsTaken, Unannotated, Annotated, At, AnnotatedByOwn
<1> QED
  BY <1>1, TurnsInvariant, PTL

=============================================================================
