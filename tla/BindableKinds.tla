--------------------------- MODULE BindableKinds ---------------------------
(***************************************************************************)
(* The CRD controller: one worker that reconciles the custom resource      *)
(* definitions of the cluster, keeps the bindable kinds in memory, and     *)
(* writes them to the object "bindable-kinds" for users to read.           *)
(*                                                                         *)
(* A kind is a definition and a version of it.  The worker reads from a    *)
(* cache; of a resourceVersion, only whether it is the stored one matters. *)
(***************************************************************************)
EXTENDS Naturals, FiniteSets, Sequences

CONSTANTS
  Crds,         \* the definitions
  Versions,     \* the versions, in the order in which a definition has them
  Registry,     \* Registry[k]: the annotations registered for the kind k
  Contents,     \* the definitions that users write
  None,         \* no definition
  Lossy,        \* the definitions that may cease to be bindable, or served
  Unseen,       \* those that may be gone before the worker has handled it
  MaxEdits,     \* bound on the changes of the definitions
  MaxFaults,    \* bound on the calls that fail
  MaxRestarts   \* bound on the restarts of the operator

Kinds == Crds \X {Versions[i] : i \in DOMAIN Versions}

\* The annotations, as far as they differ: those with binding data, and the
\* mark of a provisioned service.
Annotations == {"binding", "provisioned"}

Definitions ==
  [served : SUBSET {Versions[i] : i \in DOMAIN Versions},
   schema : BOOLEAN, annotations : SUBSET Annotations, deleting : BOOLEAN]

ASSUME KindsAssumption ==
  /\ Versions \in Seq({Versions[i] : i \in DOMAIN Versions})
  /\ None \notin Definitions /\ \A ks \in SUBSET Kinds : ks # None
  /\ Registry \in [Kinds -> SUBSET Annotations]
  /\ Contents \subseteq {d \in Definitions : d.served # {} /\ ~d.deleting}
  /\ Lossy \subseteq Crds /\ Unseen \subseteq Crds
  /\ MaxEdits \in Nat /\ MaxFaults \in Nat /\ MaxRestarts \in Nat

VARIABLES
  store,     \* store[c]: the definition that the API server has, or None
  cache,     \* cache[c]: the one in the informer's cache
  current,   \* the definitions whose cached copy has the stored resourceVersion
  queue,     \* the work queue
  pc,        \* the worker's next step
  crd, copy, \* the definition it works on, and its copy
  isCurrent, \* its copy has the stored resourceVersion
  next,      \* the version it visits next
  toPersist,
  kinds,     \* bindableKinds, the map in memory
  listed,    \* the kinds in the status of the stored "bindable-kinds", or None
  known,     \* the cache of that object: "absent", "stale" or "current"
  draft,     \* what the worker has read from it
  edits, faults, restarts

crdVars == <<store, cache, current, queue>>
workVars == <<pc, crd, copy, isCurrent, next, toPersist>>
listVars == <<listed, known, draft>>
bounds == <<edits, faults, restarts>>
vars == <<crdVars, workVars, kinds, listVars, bounds>>

KindsOf(c, d) == IF d = None THEN {} ELSE {<<c, v>> : v \in d.served}

\* customResourceDefinition.IsBindable: IsServiceBindingAnnotation does not
\* accept the mark of a provisioned service.
IsBindable(d) == d.schema \/ "binding" \in d.annotations

Init ==
  /\ store = [c \in Crds |-> None] /\ cache = store
  /\ current = Crds /\ queue = {}
  /\ pc = "idle" /\ crd \in Crds /\ copy = None /\ isCurrent = FALSE
  /\ next = 1 /\ toPersist = FALSE
  /\ kinds = {} /\ listed = None /\ known = "absent" /\ draft = "absent"
  /\ edits = 0 /\ faults = 0 /\ restarts = 0

(***************************************************************************)
(* The cluster                                                             *)
(***************************************************************************)

\* The API server stores d: other copies of c are out of date.
Put(c, d) ==
  /\ store' = [store EXCEPT ![c] = d]
  /\ current' = current \ {c}
  /\ isCurrent' = (isCurrent /\ crd # c)

Change(c, d) ==
  /\ edits < MaxEdits /\ edits' = edits + 1
  /\ Put(c, d)
  /\ UNCHANGED <<cache, queue, pc, crd, copy, next, toPersist, kinds, listVars, faults, restarts>>

CreateCrd(c) ==
  /\ store[c] = None
  /\ \E d \in Contents : Change(c, d)

\* The change from d to e takes nothing away.
Keeps(d, e) == d.served \subseteq e.served /\ (IsBindable(d) => IsBindable(e))

EditCrd(c) ==
  /\ store[c] # None /\ ~store[c].deleting
  /\ \E d \in Contents :
       /\ d # store[c]
       /\ c \in Lossy \/ Keeps(store[c], d)
       /\ Change(c, d)

DeleteCrd(c) ==
  /\ store[c] # None /\ ~store[c].deleting
  /\ Change(c, [store[c] EXCEPT !.deleting = TRUE])

\* The API server drops the definition when its instances are gone, whether
\* or not the worker has seen it being deleted.
Gone(c) ==
  /\ store[c] # None /\ store[c].deleting
  /\ c \notin Unseen => c \in current \ queue /\ (crd = c => pc = "idle")
  /\ Put(c, None)
  /\ UNCHANGED <<cache, queue, pc, crd, copy, next, toPersist, kinds, listVars, bounds>>

\* The informer catches up, and enqueues the definition.
Observe(c) ==
  /\ c \notin current
  /\ cache' = [cache EXCEPT ![c] = store[c]]
  /\ current' = current \cup {c}
  /\ queue' = queue \cup {c}
  /\ UNCHANGED <<store, workVars, kinds, listVars, bounds>>

Known == IF listed = None THEN "absent" ELSE "current"

ObserveList ==
  /\ known # Known /\ known' = Known
  /\ UNCHANGED <<crdVars, workVars, kinds, listed, draft, bounds>>

\* The operator starts again, with an empty map and with every definition in
\* its queue.
Restart ==
  /\ restarts < MaxRestarts /\ restarts' = restarts + 1
  /\ cache' = store /\ current' = Crds
  /\ queue' = {c \in Crds : store[c] # None}
  /\ pc' = "idle" /\ copy' = None /\ isCurrent' = FALSE
  /\ next' = 1 /\ toPersist' = FALSE
  /\ kinds' = {} /\ known' = Known /\ draft' = "absent"
  /\ UNCHANGED <<store, crd, listed, edits, faults>>

(***************************************************************************)
(* Reconcile                                                               *)
(***************************************************************************)

ReturnUnqueued(failed) ==
  /\ pc' = "idle" /\ copy' = None /\ isCurrent' = FALSE
  /\ next' = 1 /\ toPersist' = FALSE /\ draft' = "absent"
  /\ UNCHANGED <<queue, crd, cache>>

\* Reconcile returns; after an error the definition is enqueued again.
Return(failed) ==
  /\ pc' = "idle" /\ copy' = None /\ isCurrent' = FALSE
  /\ next' = 1 /\ toPersist' = FALSE /\ draft' = "absent"
  /\ queue' = IF failed THEN queue \cup {crd} ELSE queue
  /\ UNCHANGED <<crd, cache>>

Fault == faults < MaxFaults /\ faults' = faults + 1

\* Get: a definition that is not found is ignored.
Begin(c) ==
  /\ pc = "idle" /\ c \in queue
  /\ queue' = queue \ {c}
  /\ IF cache[c] = None
     THEN UNCHANGED workVars
     ELSE /\ pc' = "visit" /\ crd' = c /\ copy' = cache[c]
          /\ isCurrent' = (c \in current)
          /\ UNCHANGED <<next, toPersist>>
  /\ UNCHANGED <<store, cache, current, kinds, listVars, bounds>>

kind == <<crd, Versions[next]>>
Served == Versions[next] \in copy.served

Visiting == pc = "visit" /\ next <= Len(Versions)

\* A version that is not served is passed over, and so is one that is
\* neither bindable nor registered.
Skip ==
  /\ Visiting
  /\ ~Served \/ (~copy.deleting /\ ~IsBindable(copy) /\ Registry[kind] = {})
  /\ next' = next + 1
  /\ UNCHANGED <<crdVars, pc, crd, copy, isCurrent, toPersist, kinds, listVars, bounds>>

ForgetVersion == {k \in kinds : k[2] # kind[2]}

ForgetNone == kinds

\* bindableKinds.Delete
Forget == kinds \ {kind}

DeleteKind ==
  /\ Visiting /\ Served /\ copy.deleting
  /\ kinds' = Forget /\ toPersist' = TRUE /\ next' = next + 1
  /\ UNCHANGED <<crdVars, pc, crd, copy, isCurrent, listVars, bounds>>

StoreKind ==
  /\ Visiting /\ Served /\ ~copy.deleting /\ IsBindable(copy)
  /\ kinds' = kinds \cup {kind} /\ toPersist' = TRUE /\ next' = next + 1
  /\ UNCHANGED <<crdVars, pc, crd, copy, isCurrent, listVars, bounds>>

\* The RESTMapper may not know the kind, and then Build fails.
LookupFails ==
  /\ Visiting /\ Served /\ ~copy.deleting
  /\ Fault /\ Return(TRUE)
  /\ UNCHANGED <<store, current, kinds, listed, known, edits, restarts>>

\* The registered annotations are merged into the copy, and the copy is
\* written; the following versions are visited with the result.
UpdateCrd ==
  /\ Visiting /\ Served /\ ~copy.deleting /\ ~IsBindable(copy) /\ Registry[kind] # {}
  /\ LET d == [copy EXCEPT !.annotations = @ \cup Registry[kind]]
     IN \/ /\ isCurrent
           /\ store' = [store EXCEPT ![crd] = d]
           /\ current' = IF d = copy THEN current ELSE current \ {crd}
           /\ copy' = d /\ next' = next + 1
           /\ UNCHANGED <<cache, queue, pc, crd, isCurrent, toPersist, draft, faults>>
        \/ /\ \/ ~isCurrent /\ UNCHANGED faults
              \/ Fault
           /\ Return(TRUE) /\ UNCHANGED <<store, current>>
  /\ UNCHANGED <<kinds, listed, known, edits, restarts>>

Visited == pc = "visit" /\ next > Len(Versions)

Finish ==
  /\ Visited /\ ~toPersist /\ Return(FALSE)
  /\ UNCHANGED <<store, current, kinds, listed, known, bounds>>

GetList ==
  /\ Visited /\ toPersist
  /\ pc' = "write" /\ draft' = known
  /\ UNCHANGED <<crdVars, crd, copy, isCurrent, next, toPersist, kinds, listed, known, bounds>>

\* The list is created when the cache had none, and updated otherwise; either
\* fails if the cache was behind.
WriteList ==
  /\ pc = "write"
  /\ \/ /\ draft = Known
        /\ listed' = kinds
        /\ known' = IF known = "current" THEN "stale" ELSE known
        /\ Return(FALSE) /\ UNCHANGED faults
     \/ /\ \/ draft # Known /\ UNCHANGED faults
           \/ Fault
        /\ Return(TRUE) /\ UNCHANGED <<listed, known>>
  /\ UNCHANGED <<store, current, kinds, edits, restarts>>

Reconcile ==
  \/ \E c \in Crds : Begin(c)
  \/ Skip \/ DeleteKind \/ StoreKind \/ UpdateCrd \/ Finish \/ GetList \/ WriteList

Next ==
  \/ \E c \in Crds : CreateCrd(c) \/ EditCrd(c) \/ DeleteCrd(c) \/ Gone(c) \/ Observe(c)
  \/ ObserveList \/ Restart \/ LookupFails
  \/ Reconcile

Spec == Init /\ [][Next]_vars

\* The worker takes definitions from the queue in turn, and the informers
\* catch up.
FairSpec ==
  /\ Spec
  /\ WF_vars(ObserveList)
  /\ WF_vars(Skip \/ DeleteKind \/ StoreKind \/ UpdateCrd \/ Finish \/ GetList \/ WriteList)
  /\ \A c \in Crds : WF_vars(Observe(c)) /\ SF_vars(Begin(c))

(***************************************************************************)
(* Properties                                                              *)
(***************************************************************************)

\* Every variable has its type; nothing but served kinds is ever in memory.
TypeOK ==
  /\ store \in [Crds -> Definitions \cup {None}] /\ cache \in [Crds -> Definitions \cup {None}]
  /\ current \subseteq Crds /\ queue \subseteq Crds
  /\ pc \in {"idle", "visit", "write"} /\ crd \in Crds /\ copy \in Definitions \cup {None}
  /\ (copy = None) <=> (pc = "idle")
  /\ isCurrent \in BOOLEAN /\ next \in 1..(Len(Versions) + 1) /\ toPersist \in BOOLEAN
  /\ kinds \subseteq Kinds /\ listed \in {None} \cup (SUBSET Kinds)
  /\ known \in {"absent", "stale", "current"} /\ draft \in {"absent", "stale", "current"}
  /\ (pc = "idle" => draft = "absent" /\ next = 1) /\ (isCurrent => copy = store[crd])
  /\ \A c \in current : cache[c] = store[c]
  /\ edits \in 0..MaxEdits /\ faults \in 0..MaxFaults /\ restarts \in 0..MaxRestarts

Bindable == {k \in Kinds : /\ k \in KindsOf(k[1], store[k[1]])
                           /\ ~store[k[1]].deleting /\ IsBindable(store[k[1]])}

Listed == IF listed = None THEN {} ELSE listed

AtRest == pc = "idle" /\ queue = {} /\ current = Crds /\ known = Known

\* When the controller has nothing left to do, a kind is in bindable-kinds
\* exactly when it is bindable, provided its definition never lost anything
\* and was not gone unseen: the map in memory has followed every change of
\* the definitions (bindableKinds.Store and .Delete, and the write of the
\* whole map), also after a restart.
ListMatches ==
  AtRest => \A k \in Kinds :
    k[1] \notin Lossy \cup Unseen => (k \in Listed <=> k \in Bindable)

\* As long as the operator has not been restarted, which empties the map, a
\* write of bindable-kinds drops no kind that is bindable: a conflict, or a
\* lookup that fails half way through the versions, leaves the rest of the
\* map as it was, and no older copy of a definition undoes a newer one, but
\* for one that was deleted and created again unseen.
KeepsBindable ==
  [][restarts' = 0 =>
       \A k \in Listed \cap Bindable : k[1] \notin Unseen => k \in Listed']_vars

\* A kind that is bindable, or that the registry makes so, is listed in the
\* end, however the writes conflict and the calls fail, and again after a
\* restart, unless it ceases to be bindable (Reconcile's retries, and the
\* event that its own update of the definition causes).
EventuallyListed ==
  \A k \in Kinds :
    LET promised == /\ k \in KindsOf(k[1], store[k[1]]) /\ ~store[k[1]].deleting
                    /\ IsBindable(store[k[1]]) \/ "binding" \in Registry[k]
    IN  promised ~> (k \in Listed \/ ~promised)

(***************************************************************************)
(* The inductive invariant from which KeepsBindable follows                *)
(***************************************************************************)

Leaving(d) == d # None /\ d.deleting

Inhabited(d) == d # None => d.served # {}

Working(c) == pc # "idle" /\ crd = c

\* The worker is going to write the list.
WillWrite ==
  toPersist \/ (pc = "visit" /\ \E i \in next..Len(Versions) : Versions[i] \in copy.served)

SomethingServed ==
  Inhabited(copy) /\ \A c \in Crds : Inhabited(store[c]) /\ Inhabited(cache[c])

\* The worker does not know of a deletion that is over.
DeletionsLast ==
  \A c \in Crds \ Unseen :
    /\ (c \in queue \/ Working(c)) /\ Leaving(cache[c]) => Leaving(store[c])
    /\ Working(c) /\ Leaving(copy) => Leaving(store[c]) /\ Leaving(cache[c])

\* The kind is about to be taken out of the list as well.
OnItsWay(k) ==
  /\ Leaving(store[k[1]]) /\ Leaving(cache[k[1]])
  /\ k[1] \in queue \/ (Working(k[1]) /\ Leaving(copy) /\ WillWrite)

Removals ==
  restarts = 0 => \A k \in Listed \ kinds : k[1] \notin Unseen => OnItsWay(k)

\* A kind is taken out of the map only for a definition that is being deleted
\* and stays so until the list has been written without the kind: neither an
\* old copy of the definition nor a failed write gets in between.
RemovalsFollowDeletions == SomethingServed /\ DeletionsLast /\ Removals

(***************************************************************************)
(* The inductive invariant from which ListMatches follows                  *)
(***************************************************************************)

Plain == Crds \ (Lossy \cup Unseen)

\* The informer, or the queue, has news of c for the worker.
News(c) == c \notin current \/ c \in queue

Offers(d, v) == d # None /\ v \in d.served /\ IsBindable(d)

Follows(d, e) == d # None => e # None /\ Keeps(d, e)

ToVisit(v) == pc = "visit" /\ \E i \in next..Len(Versions) : Versions[i] = v

\* Copies are behind the stored definition only while there is news of it, and
\* a definition that loses nothing goes on offering what an old copy offers.
CopiesFollow ==
  /\ pc # "idle" => copy = store[crd] \/ News(crd)
  /\ \A c \in Plain :
       /\ c \in queue \/ Working(c) => Follows(cache[c], store[c])
       /\ Working(c) => Follows(copy, store[c])

\* The worker is going to take the kind out of the map and of the list.
TakesOut(k) ==
  /\ Working(k[1]) /\ Leaving(copy) /\ k[2] \in copy.served
  /\ ToVisit(k[2]) \/ (k \notin kinds /\ toPersist)

RightlyListed(k) ==
  /\ Offers(store[k[1]], k[2])
  /\ Leaving(store[k[1]]) => News(k[1]) \/ TakesOut(k)

\* What is listed, or about to be, is offered; when its definition is being
\* deleted, the worker is going to take it out of both.
ListedOffered == \A k \in Listed \cup kinds : k[1] \in Plain => RightlyListed(k)

\* The worker is going to put the kind into the list.
PutsIn(k) ==
  /\ Working(k[1]) /\ Offers(copy, k[2]) /\ ~Leaving(copy)
  /\ ToVisit(k[2]) \/ (k \in kinds /\ toPersist)

OnOffer(k) == Offers(store[k[1]], k[2]) /\ ~Leaving(store[k[1]])

\* What is offered is listed, or the worker is going to put it into the list.
OfferedListed ==
  \A k \in Kinds :
    k[1] \notin Unseen /\ OnOffer(k) => News(k[1]) \/ k \in kinds \cap Listed \/ PutsIn(k)

\* Whenever the list differs from what the definitions offer, the controller
\* has heard of the difference or is about to, and has not given up on it.
DifferencesPending == CopiesFollow /\ ListedOffered /\ OfferedListed

=============================================================================
