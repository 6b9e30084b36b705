--------------------------- MODULE MappingRebind ---------------------------
(***************************************************************************)
(* What an update of a ClusterWorkloadResourceMapping does to the bindings *)
(* that were projected by it.  The validating webhook of the mappings      *)
(* annotates every such binding with the old mapping, before the API       *)
(* server stores the new one; a worker that finds the annotation unbinds   *)
(* by the old mapping, takes the annotation off, and binds again by the    *)
(* mapping that is then stored.                                            *)
(*                                                                         *)
(* One mapping, updated by one administrator at a time.  The bindings'     *)
(* data and their workloads are there all the time, but an Update of a     *)
(* workload can be refused.  A copy of a binding is its annotation,        *)
(* whether its status names a secret, and whether its resourceVersion is   *)
(* still the stored one.                                                   *)
(***************************************************************************)
EXTENDS Naturals, Sequences, FiniteSetsExt, Functions

CONSTANTS
  Bindings,     \* the bindings of the mapping's resource
  Existing,     \* those that have been bound by the first mapping
  Spec1,        \* those of the servicebinding.io API, which come first
  Version,      \* Version[b]: the version by which b names its workload
  Mappings,     \* the contents of the mapping, as sequences of templates
  Default,      \* where the default template projects to
  None,         \* no mapping
  Prompt,       \* the new mapping is stored before any worker looks it up
  Patient,      \* updates, and the binding of new bindings, take turns
  Messages,     \* what the Ready condition can say of a refused workload
  Repeats,      \* an Update can be refused as the status says it was before
  Faults,       \* the calls that may fail for a reason of their own
  MaxUpdates,   \* bound on the updates
  MaxFaults     \* bound on those failures

ASSUME MappingAssumption ==
  /\ Spec1 \subseteq Bindings /\ Existing \subseteq Bindings /\ None \notin Mappings
  /\ \A m \in Mappings : m \in Seq(Range(m))
  /\ Prompt \in BOOLEAN /\ Patient \in BOOLEAN /\ Repeats \in BOOLEAN
  /\ "bound" \notin Messages
  /\ MaxUpdates \in Nat /\ MaxFaults \in Nat

VARIABLES
  stored,   \* the mapping that the API server has
  request,  \* the update that the webhook is working on
  exists,   \* the bindings that exist
  note,     \* note[b]: the mapping in the annotation of b
  bound,    \* the bindings whose status names a secret
  status,   \* status[b]: what the Ready condition of b says
  places,   \* places[b]: where the workload of b carries b
  queue,    \* the bindings in the controllers' work queues
  pc,       \* pc[b]: the next step of the worker on b
  copy,     \* copy[b]: the annotation in the worker's copy of b
  named,    \* the bindings whose worker's copy names a secret
  current,  \* the bindings whose worker's copy has the stored resourceVersion
  again,    \* the bindings whose handlers have asked for another run
  target,   \* target[b]: what the workload will carry when it is written
  outcome,  \* outcome[b]: what the Ready condition of b is going to say
  updates, faults

object == <<note, bound, status>>
worker == <<queue, pc, copy, named, current, again, target, outcome>>
vars == <<stored, request, exists, object, places, worker, updates, faults>>

(***************************************************************************)
(* WorkloadResourceTemplate and AcceptsGVR                                 *)
(***************************************************************************)

\* ClusterWorkloadResourceMapping.validate: no version twice.
Valid(m) == \A i, j \in DOMAIN m : i # j => m[i].version # m[j].version

\* The templates of a mapping for the version v.
For(m, v) == {i \in DOMAIN m : m[i].version = v}

\* The loop over the versions: the first one that is v, or else the last
\* wildcard, or else the default template.
Template(m, v) ==
  IF For(m, v) # {} THEN m[Min(For(m, v))].place
  ELSE IF For(m, "*") # {} THEN m[Max(For(m, "*"))].place
  ELSE Default

\* AcceptsGVR, for a mapping whose name is that of the resource.
AcceptsGVR(m, v) == \E i \in DOMAIN m : m[i].version \in {v, "*"}

NoRequest == [phase |-> "none", new |-> None, todo |-> {}, seen |-> {}]

Init ==
  /\ stored \in {m \in Mappings : Valid(m)} /\ request = NoRequest
  /\ exists = Existing /\ bound = Existing
  /\ note = [b \in Bindings |-> None]
  /\ status = [b \in Bindings |-> IF b \in Existing THEN "bound" ELSE "unset"]
  /\ places = [b \in Bindings |->
                 IF b \in Existing THEN {Template(stored, Version[b])} ELSE {}]
  /\ queue = {} /\ pc = [b \in Bindings |-> "idle"]
  /\ copy = [b \in Bindings |-> None] /\ named = {} /\ current = {} /\ again = {}
  /\ target = [b \in Bindings |-> {}] /\ outcome = [b \in Bindings |-> "bound"]
  /\ updates = 0 /\ faults = 0

Settled ==
  /\ request.phase = "none" /\ queue = {}
  /\ \A b \in Bindings : pc[b] = "idle"

Fails(call) == call \in Faults /\ faults < MaxFaults /\ faults' = faults + 1

(***************************************************************************)
(* The webhook: ValidateUpdate and Serialize                               *)
(***************************************************************************)

\* Serialize lists the bindings of one API and drops the irrelevant ones.
List(apis, phase, new) ==
  LET bs == {b \in exists \cap apis : AcceptsGVR(stored, Version[b])}
  IN  request' = [phase |-> phase, new |-> new, todo |-> bs, seen |-> bs]

\* An invalid mapping is refused before anything is done.
ValidateUpdate(m) ==
  /\ request.phase = "none" /\ updates < MaxUpdates /\ m # stored
  /\ Patient => Settled
  /\ updates' = updates + 1
  /\ IF Valid(m) THEN List(Spec1, "spec", m) ELSE UNCHANGED request
  /\ UNCHANGED <<stored, exists, object, places, worker, faults>>

AnnotateNew(b) == request.new

\* The annotation holds the old mapping.
Annotation(b) == stored

\* Serialize updates one binding, by the copy that it has listed: a binding
\* that has changed since is a conflict, with which the update is refused.
Annotate(b) ==
  /\ request.phase \in {"spec", "coreos"} /\ b \in request.todo
  /\ IF b \in request.seen
     THEN /\ note' = [note EXCEPT ![b] = Annotation(b)]
          /\ request' = [request EXCEPT !.todo = @ \ {b}]
          /\ current' = IF note'[b] = note[b] THEN current ELSE current \ {b}
          /\ queue' = IF note'[b] = note[b] THEN queue ELSE queue \cup {b}
     ELSE /\ request' = NoRequest
          /\ UNCHANGED <<note, current, queue>>
  /\ UNCHANGED <<stored, exists, bound, status, places, pc, copy, named, again, target,
                 outcome, updates, faults>>

ListCoreos ==
  /\ request.phase = "spec" /\ request.todo = {}
  /\ List(Bindings \ Spec1, "coreos", request.new)
  /\ UNCHANGED <<stored, exists, object, places, worker, updates, faults>>

\* A call of Serialize fails, or its lookup of some binding's kind does: the
\* bindings annotated so far stay annotated.
Refuse ==
  /\ request.phase # "none" /\ Fails("webhook")
  /\ request' = NoRequest
  /\ UNCHANGED <<stored, exists, object, places, worker, updates>>

\* The API server stores what the webhook has let pass.
Store ==
  /\ request.phase = "coreos" /\ request.todo = {}
  /\ stored' = request.new /\ request' = NoRequest
  /\ UNCHANGED <<exists, object, places, worker, updates, faults>>

(***************************************************************************)
(* The workers                                                             *)
(***************************************************************************)

Begin(b) ==
  /\ pc[b] = "idle" /\ b \in queue
  /\ queue' = queue \ {b} /\ pc' = [pc EXCEPT ![b] = "lookup"]
  /\ copy' = [copy EXCEPT ![b] = note[b]]
  /\ named' = IF b \in bound THEN named \cup {b} ELSE named
  /\ current' = current \cup {b}
  /\ UNCHANGED <<stored, request, exists, object, places, again, target, outcome, updates, faults>>

\* The reconciliation of b ends, and its context is dropped.
Done(b, requeue) ==
  /\ pc' = [pc EXCEPT ![b] = "idle"]
  /\ queue' = IF requeue THEN queue \cup {b} ELSE queue
  /\ copy' = [copy EXCEPT ![b] = None] /\ target' = [target EXCEPT ![b] = {}]
  /\ outcome' = [outcome EXCEPT ![b] = "bound"]
  /\ named' = named \ {b} /\ current' = current \ {b} /\ again' = again \ {b}

UnbindByStored(b) == places[b] \ {Template(stored, Version[b])}

\* Unbind removes what the mapping of the annotation leads to.
UnbindByCopy(b) == places[b] \ {Template(copy[b], Version[b])}

BindByStored(b) == places[b] \cup {Template(stored, Version[b])}

\* Close updates the workload, to carry b at ps.
ToWrite(b, ps) ==
  /\ pc' = [pc EXCEPT ![b] = "write"] /\ target' = [target EXCEPT ![b] = ps]
  /\ UNCHANGED outcome

\* Close goes on to persistBinding, with what it says of the workload.
ToStatus(b, said) ==
  /\ pc' = [pc EXCEPT ![b] = "status"] /\ outcome' = [outcome EXCEPT ![b] = said]
  /\ UNCHANGED target

\* Unbind without a secret in the status stops: the workload is written back
\* as it was read, and the annotation stays.
UnbindStops(b) ==
  /\ copy[b] # None /\ b \notin named
  /\ ToWrite(b, places[b])
  /\ UNCHANGED <<copy, named, again>>

\* Unbind, CleanAnnotations and the request for another run.  A workload in
\* which nothing was found to remove is not written.
Unbind(b) ==
  /\ copy[b] # None /\ b \in named
  /\ IF UnbindByCopy(b) = places[b] THEN ToStatus(b, "bound") ELSE ToWrite(b, UnbindByCopy(b))
  /\ copy' = [copy EXCEPT ![b] = None] /\ again' = again \cup {b}
  /\ UNCHANGED named

\* The handlers that collect and project.
Bind(b) ==
  /\ copy[b] = None
  /\ ToWrite(b, BindByStored(b))
  /\ named' = named \cup {b}
  /\ UNCHANGED <<copy, again>>

\* WorkloadResourceTemplate, then Unbind or the projection.
Lookup(b) ==
  /\ pc[b] = "lookup" /\ (Prompt => request.phase = "none")
  /\ UnbindStops(b) \/ Unbind(b) \/ Bind(b)
  /\ UNCHANGED <<stored, request, exists, object, places, queue, current, updates, faults>>

\* Close updates the workload first.  A refusal goes into the Ready condition,
\* and persistBinding is called all the same.
WriteWorkload(b) ==
  /\ pc[b] = "write"
  /\ \/ /\ ToStatus(b, "bound")
        /\ places' = [places EXCEPT ![b] = target[b]]
        /\ UNCHANGED faults
     \/ /\ Fails("workload")
        /\ \E m \in Messages : (Repeats \/ m # status[b]) /\ ToStatus(b, m)
        /\ UNCHANGED places
  /\ UNCHANGED <<stored, request, exists, object, queue, copy, named, current, again, updates>>

\* UpdateStatus changes the stored object.
NewStatus(b) == outcome[b] # status[b] \/ b \in named \ bound

\* A call of persistBinding answers with an error: a copy that is out of date
\* is a conflict.
PersistFails(b) ==
  /\ \/ b \notin current /\ UNCHANGED faults
     \/ Fails("update")
  /\ Done(b, TRUE)

\* The first call of persistBinding.  A status that has changed leaves the
\* worker with an old resourceVersion for the second call.
UpdateStatus(b) ==
  /\ pc[b] = "status"
  /\ \/ /\ b \in current
        /\ pc' = [pc EXCEPT ![b] = "save"]
        /\ status' = [status EXCEPT ![b] = outcome[b]]
        /\ bound' = IF b \in named THEN bound \cup {b} ELSE bound
        /\ current' = IF NewStatus(b) THEN current \ {b} ELSE current
        /\ request' = [request EXCEPT !.seen = IF NewStatus(b) THEN @ \ {b} ELSE @]
        /\ UNCHANGED <<queue, copy, named, again, target, outcome, faults>>
     \/ PersistFails(b) /\ UNCHANGED <<status, bound, request>>
  /\ UNCHANGED <<stored, exists, note, places, updates>>

OnlyWhenAsked(b) == b \in again
AlwaysRetry(b) == TRUE

\* Reconcile asks for another run when the handlers did, and when Close
\* answered with the error of the workload.
Retries(b) == b \in again \/ outcome[b] # "bound"

\* The second call: the object as the copy has it, with or without the
\* annotation.  A changed annotation passes the event filter.
Save(b) ==
  /\ pc[b] = "save"
  /\ \/ /\ b \in current
        /\ Done(b, Retries(b) \/ copy[b] # note[b])
        /\ note' = [note EXCEPT ![b] = copy[b]]
        /\ request' = [request EXCEPT !.seen = IF copy[b] # note[b] THEN @ \ {b} ELSE @]
        /\ UNCHANGED faults
     \/ PersistFails(b) /\ UNCHANGED <<note, request>>
  /\ UNCHANGED <<stored, exists, bound, status, places, updates>>

CreateBinding(b) ==
  /\ b \notin exists /\ (Patient => request.phase = "none")
  /\ exists' = exists \cup {b} /\ queue' = queue \cup {b}
  /\ UNCHANGED <<stored, request, object, places, pc, copy, named, current, again, target,
                 outcome, updates, faults>>

Worker(b) == Begin(b) \/ Lookup(b) \/ WriteWorkload(b) \/ UpdateStatus(b) \/ Save(b)

Webhook == (\E b \in Bindings : Annotate(b)) \/ ListCoreos \/ Store

Next ==
  \/ \E m \in Mappings : ValidateUpdate(m)
  \/ Webhook \/ Refuse
  \/ \E b \in Bindings : Worker(b) \/ CreateBinding(b)

Spec == Init /\ [][Next]_vars

\* The webhook answers, and a queued binding is eventually reconciled.
FairSpec == Spec /\ WF_vars(Webhook) /\ \A b \in Bindings : WF_vars(Worker(b))

(***************************************************************************)
(* Properties                                                              *)
(***************************************************************************)

\* Where the stored mapping projects b, in terms of what a mapping means: the
\* template of the version, or else of the wildcard, or else the default one.
Meaning(b) ==
  LET Of(v) == {i \in 1..Len(stored) : stored[i].version = v}
      is == IF Of(Version[b]) # {} THEN Of(Version[b]) ELSE Of("*")
  IN  IF is = {} THEN Default ELSE stored[CHOOSE i \in is : TRUE].place

\* When nothing is left to do, every binding is where the stored mapping
\* projects it, and nowhere else: the stale projections are gone and the new
\* ones are there, also when an update was refused half way.
FollowsMapping == Settled => \A b \in exists : places[b] = {Meaning(b)}

\* An annotated binding is annotated with the mapping that it was projected
\* by, so that Unbind finds what is to be removed.
AnnotatedByOwn ==
  \A b \in exists : note[b] # None /\ b \in bound /\ pc[b] = "idle"
    => places[b] \subseteq {Template(note[b], Version[b])}

\* A rebinding is never given up half way: when nothing is left to do, a
\* binding without the annotation is projected, however updates, refusals and
\* conflicting writes met (CleanAnnotations and the retry of Unbind).
NeverLost == Settled => \A b \in exists : note[b] = None => places[b] # {}

\* The updates and the reconciliations that they cause come to an end.
RebindCompletes == []<>Settled

(***************************************************************************)
(* The inductive invariants from which the safety properties follow        *)
(***************************************************************************)

\* A worker that binds leaves the binding somewhere, or says that it could
\* not; one that unbinds asks for another run.  Either way, a binding that is
\* nowhere is annotated or about to be reconciled.
NeverDropped ==
  \A b \in exists :
    /\ pc[b] = "write" /\ copy[b] = None /\ b \notin again => target[b] # {}
    /\ pc[b] \in {"status", "save"} /\ copy[b] = None /\ ~Retries(b) => places[b] # {}
    /\ pc[b] = "idle" /\ b \notin queue /\ note[b] = None => places[b] # {}

At(m, b) == {Template(m, Version[b])}

Closing == {"write", "status", "save"}

\* A binding that is not being annotated: where it is, and what the worker on
\* it makes of that.
Unannotated(b) ==
  /\ note[b] = None /\ places[b] \subseteq At(stored, b)
  /\ pc[b] = "idle" /\ b \notin queue => b \in bound /\ places[b] = At(stored, b)
  /\ pc[b] # "idle" => copy[b] = None
  /\ pc[b] \in Closing => b \in named
  /\ pc[b] = "write" => target[b] = At(stored, b)
  /\ pc[b] \in {"status", "save"} /\ outcome[b] = "bound" => places[b] = At(stored, b)
  /\ pc[b] = "save" => b \in bound

\* A binding with the annotation of the mapping that it was projected by.  The
\* worker's copy is without it as soon as Unbind has run, and is not saved if
\* the workload could not be written.
Annotated(b) ==
  /\ note[b] \in Mappings /\ b \in bound /\ places[b] \subseteq At(note[b], b)
  /\ pc[b] = "idle" => b \in queue
  /\ pc[b] # "idle" => b \in named
  /\ pc[b] = "lookup" => copy[b] = note[b]
  /\ pc[b] \in Closing => copy[b] = None
  /\ pc[b] = "write" => target[b] = {}
  /\ pc[b] \in {"status", "save"} /\ outcome[b] = "bound" => places[b] = {}
  /\ pc[b] = "status" /\ outcome[b] # "bound" => outcome[b] # status[b]
  /\ pc[b] = "save" /\ outcome[b] # "bound" => b \notin current

\* While an update is in the webhook every binding is at rest, or annotated
\* with the stored mapping and not yet looked at; those that the webhook has
\* passed are annotated.
InWebhook(b) ==
  /\ pc[b] \in {"idle", "lookup"} /\ b \in bound /\ places[b] = At(stored, b)
  /\ note[b] = None => pc[b] = "idle" /\ b \notin queue
  /\ note[b] # None => note[b] = stored
  /\ request.phase = "spec" /\ b \in Spec1 => note[b] # None \/ b \in request.todo
  /\ request.phase = "coreos" => note[b] # None \/ b \in request.todo \ Spec1

\* If updates take turns, no worker's copy is out of date until its own status
\* is written, and a binding is where its annotation or else the stored
\* mapping says.
TurnsTaken ==
  /\ stored \in Mappings /\ Valid(stored)
  /\ request.todo \subseteq request.seen
  /\ \A b \in exists :
       /\ Unannotated(b) \/ Annotated(b)
       /\ pc[b] \in {"lookup", "write", "status"} => b \in current
       /\ request.phase # "none" => InWebhook(b)
  /\ request.phase # "none" => request.new \in Mappings /\ Valid(request.new)

=============================================================================
