------------------------- MODULE BindingReconciler -------------------------
(***************************************************************************)
(* The reconciliation of ServiceBinding objects: the controller's queue    *)
(* and informer cache, one worker per binding that runs Reconcile and the  *)
(* handler pipeline down to each call on the API server, the objects the   *)
(* API server stores, and the users who change them meanwhile.             *)
(*                                                                         *)
(* A resourceVersion is only ever compared with the stored one, so a copy  *)
(* of an object is modelled by its content and by whether its              *)
(* resourceVersion is still the stored one (the sets cached, current and   *)
(* fresh).  A write whose content equals the stored object does not change *)
(* the resourceVersion.                                                    *)
(***************************************************************************)
EXTENDS Naturals, FiniteSets

CONSTANTS
  Bindings,      \* the ServiceBinding objects, by name
  Workloads,     \* the workloads of their namespace, by name
  Labelled,      \* the workloads that the label selector matches
  Opaque,        \* the workloads in which the mapping finds no container
  Volatile,      \* the workloads that are deleted and created again
  Data,          \* the contents that a service's binding data can have
  Incomplete,    \* the data in which a mandatory key is missing
  Provisioned,   \* the bindings whose data is one secret the service provides
  Provided,      \* Provided[b]: that secret, which bindings can have in common
  AsFiles,       \* the bindings with spec.bindAsFiles
  Volumes,       \* names of volumes
  VolumeName,    \* VolumeName[b]: spec.name of b, or else its metadata.name
  Selector,      \* a reference to the workloads by label
  NoRef,         \* a reference with neither a name nor a selector
  NoSecret,      \* the empty secret name
  NoData,        \* no binding item was collected
  Faults,        \* the calls that may fail for a reason of their own
  MaxFaults,     \* bound on those failures
  Environment,   \* the changes made from outside that are considered
  MaxEnv         \* bound on those changes

ASSUME ConstantsAssumption ==
  /\ Labelled \subseteq Workloads /\ Opaque \subseteq Workloads
  /\ Volatile \subseteq Workloads
  /\ Provisioned \subseteq Bindings /\ AsFiles \subseteq Bindings
  /\ VolumeName \in [Bindings -> Volumes]
  /\ Selector \notin Workloads /\ NoRef \notin Workloads /\ Selector # NoRef
  /\ NoSecret \notin Bindings \X Data
  /\ \A b \in Provisioned : Provided[b] \notin (Bindings \X Data) \cup {NoSecret}
  /\ Incomplete \subseteq Data /\ NoData \notin Data
  /\ MaxFaults \in Nat /\ MaxEnv \in Nat

VARIABLES
  sb,       \* sb[b]: the stored ServiceBinding b
  secrets,  \* the secrets that exist
  wl,       \* wl[w]: the stored workload w
  svc,      \* svc[b]: what collecting from the services of b yields
  cache,    \* cache[b]: the informer's copy of sb[b]
  cached,   \* the bindings whose cached copy has the stored resourceVersion
  dirty,    \* the bindings with an undelivered event that passes the filter
  queue,    \* the bindings in the controller's work queue
  pc,       \* pc[b]: the next call of the worker on b
  local,    \* local[b]: the worker's in-memory copy of b
  current,  \* the bindings whose local copy has the stored resourceVersion
  job,      \* job[b]: the pipeline context of the worker on b
  fresh,    \* <<b, w>>: b's copy of w has the stored resourceVersion
  faults,   \* number of failed calls so far
  env       \* number of changes from outside so far

cluster == <<sb, secrets, wl, svc>>
informer == <<cache, cached, dirty, queue>>
worker == <<pc, local, current, job, fresh>>
vars == <<cluster, informer, worker, faults, env>>

(***************************************************************************)
(* Objects                                                                 *)
(***************************************************************************)

ProvidedSecrets == {Provided[b] : b \in Provisioned}

\* A generated secret is named after its binding and the hash of its content;
\* one that a service provides has a name of its own.
SecretNames == (Bindings \X Data) \cup ProvidedSecrets

Refs == Workloads \cup {Selector, NoRef}

\* Each condition is told by its reason; "" is a condition without a reason.
Conditions ==
  [ready: {"Unset", "ApplicationsBound", "ProcessingError",
           "ApplicationUpdateError", "ErrorPersistingSecret"},
   collection: {"Unset", "DataCollected", "ErrorReading",
                "InvalidAnnotation", ""},
   injection: {"Unset", "ApplicationUpdated", "ApplicationNotFound",
               "EmptyApplication", "NoBindingData",
               "RequiredBindingNotFound", "Error"}]

NoConditions ==
  [ready |-> "Unset", collection |-> "Unset", injection |-> "Unset"]

Objects ==
  [exists: BOOLEAN, ref: Refs, deleting: BOOLEAN, finalizer: BOOLEAN,
   rebind: BOOLEAN, secret: SecretNames \cup {NoSecret},
   conditions: Conditions]

NewBinding(ref) ==
  [exists |-> TRUE, ref |-> ref, deleting |-> FALSE, finalizer |-> FALSE,
   rebind |-> FALSE, secret |-> NoSecret, conditions |-> NoConditions]

NoBinding == [NewBinding(NoRef) EXCEPT !.exists = FALSE]

Ready(o) == o.exists /\ o.conditions.ready = "ApplicationsBound"

\* What a binding has put into a workload: volumes, by name, and envFrom.
Contents == [volumes: [Volumes -> SecretNames \cup {NoSecret}],
             envFrom: SUBSET SecretNames]

Bare == [volumes |-> [n \in Volumes |-> NoSecret], envFrom |-> {}]

ProjectOverAny(b, s, c) ==
  LET used == {n \in Volumes : c.volumes[n] # NoSecret}
      name == IF used = {} THEN VolumeName[b] ELSE CHOOSE n \in used : TRUE
  IN  IF b \in AsFiles
      THEN [c EXCEPT !.volumes = [@ EXCEPT ![name] = s]]
      ELSE [c EXCEPT !.envFrom = @ \cup {s}]

\* MetaPodSpec.AddVolume replaces a volume of the same name;
\* MetaContainer.AddEnvFromVar replaces an envFrom of the same secret.
Project(b, s, c) ==
  IF b \in AsFiles
  THEN [c EXCEPT !.volumes = [@ EXCEPT ![VolumeName[b]] = s]]
  ELSE [c EXCEPT !.envFrom = @ \cup {s}]

UnprojectBySecret(b, s, c) ==
  [volumes |-> [c.volumes EXCEPT ![VolumeName[b]] = IF @ = s THEN NoSecret ELSE @],
   envFrom |-> c.envFrom \ {s}]

\* MetaPodSpec.RemoveVolume, by name, and MetaContainer.RemoveEnvFromVars,
\* by the secret, whoever has added them.
Unproject(b, s, c) ==
  [volumes |-> [c.volumes EXCEPT ![VolumeName[b]] = NoSecret],
   envFrom |-> c.envFrom \ {s}]

SecretName(b, d) == IF b \in Provisioned THEN Provided[b] ELSE <<b, d>>

\* The secrets by which b can be projected.
OwnSecrets(b) == IF b \in Provisioned THEN {Provided[b]} ELSE {b} \X Data

\* What b puts into a workload is there, whoever has put it there.
Carries(c, b) ==
  IF b \in AsFiles THEN c.volumes[VolumeName[b]] \in OwnSecrets(b)
  ELSE c.envFrom \cap OwnSecrets(b) # {}

\* Applications() of a reference, when its calls succeed.
Applications(ref) ==
  {w \in Workloads : wl[w].exists /\ (ref = w \/ (ref = Selector /\ w \in Labelled))}

\* What Applications() keeps when one of its calls fails: the workloads of a
\* selector are taken one by one, and a later call answers with those.
Partial(ref) ==
  IF ref = Selector
  THEN {ws \in SUBSET Applications(ref) : ws = {} \/ ws # Applications(ref)}
  ELSE {{}}

(***************************************************************************)
(* The worker's context                                                    *)
(***************************************************************************)

\* FlowStatus, by its Retry and Err: the flow was stopped or ran to its end,
\* asked to be run again, asked for a retry because of an error, or stopped
\* with an error that is not retried.
FlowStatus == {"done", "again", "retry", "error"}

Jobs ==
  [data: Data \cup {NoData}, todo: SUBSET Workloads,
   desired: [Workloads -> Contents], flow: FlowStatus,
   saving: {"close", "secretFailed", "appFailed"}]

NoJob ==
  [data |-> NoData, todo |-> {}, desired |-> [w \in Workloads |-> Bare],
   flow |-> "done", saving |-> "close"]

Steps == {"idle", "finalizer", "unbind", "collect", "secret", "preflight",
          "project", "workloads", "status", "save", "remove"}

UnbindRequested(o) == o.rebind \/ o.deleting

FirstHandler(o) == IF UnbindRequested(o) THEN "unbind" ELSE "collect"

Init ==
  /\ sb = [b \in Bindings |-> NoBinding]
  /\ secrets = ProvidedSecrets
  /\ wl = [w \in Workloads |-> [exists |-> TRUE, content |-> Bare]]
  /\ svc \in [Bindings -> Data]
  /\ cache = sb /\ cached = Bindings /\ dirty = {} /\ queue = {}
  /\ pc = [b \in Bindings |-> "idle"]
  /\ local = sb /\ current = {}
  /\ job = [b \in Bindings |-> NoJob] /\ fresh = {}
  /\ faults = 0 /\ env = 0

(***************************************************************************)
(* The API server                                                          *)
(***************************************************************************)

NoGenerationOnDelete(old, new) ==
  old.exists # new.exists \/ old.ref # new.ref \/ old.rebind # new.rebind

\* The event filter: creation, deletion, a new generation or new annotations.
PassesFilter(old, new) ==
  \/ old.exists # new.exists
  \/ old.ref # new.ref \/ old.deleting # new.deleting
  \/ old.rebind # new.rebind

Put(b, o) ==
  /\ sb' = [sb EXCEPT ![b] = o]
  /\ cached' = IF o = sb[b] THEN cached ELSE cached \ {b}
  /\ dirty' = IF PassesFilter(sb[b], o) THEN dirty \cup {b} ELSE dirty

NoVersionCheck(b) == FALSE

\* An Update or UpdateStatus of b by its worker answers Conflict or NotFound.
Stale(b) == b \notin current

NoWorkloadVersionCheck(b, w) == FALSE

\* So does an Update of the workload w by the worker on b.
StaleWorkload(b, w) == <<b, w>> \notin fresh

Fails(call) == call \in Faults /\ faults < MaxFaults /\ faults' = faults + 1

Succeeds == UNCHANGED faults

PutWorkload(w, c) ==
  /\ wl' = [wl EXCEPT ![w].content = c]
  /\ fresh' = IF c = wl[w].content THEN fresh ELSE fresh \ (Bindings \X {w})

(***************************************************************************)
(* Reconcile                                                               *)
(***************************************************************************)

DoneForGood(b, requeue) ==
  /\ pc' = [pc EXCEPT ![b] = "idle"]
  /\ local' = [local EXCEPT ![b] = NoBinding]
  /\ current' = current \ {b}
  /\ job' = [job EXCEPT ![b] = NoJob]
  /\ fresh' = fresh \ ({b} \X Workloads)
  /\ queue' = queue

Done(b, requeue) ==
  /\ pc' = [pc EXCEPT ![b] = "idle"]
  /\ local' = [local EXCEPT ![b] = NoBinding]
  /\ current' = current \ {b}
  /\ job' = [job EXCEPT ![b] = NoJob]
  /\ fresh' = fresh \ ({b} \X Workloads)
  /\ queue' = IF requeue THEN queue \cup {b} ELSE queue

Continue(b, step, o, j) ==
  /\ pc' = [pc EXCEPT ![b] = step]
  /\ local' = [local EXCEPT ![b] = o]
  /\ job' = [job EXCEPT ![b] = j]

SetReady(o, reason) == [o EXCEPT !.conditions = [@ EXCEPT !.ready = reason]]
SetCollection(o, reason) == [o EXCEPT !.conditions = [@ EXCEPT !.collection = reason]]
SetInjection(o, reason) == [o EXCEPT !.conditions = [@ EXCEPT !.injection = reason]]

OnlyWhenReady(o) == ~o.deleting /\ ~o.finalizer /\ Ready(o)

\* MaybeAddFinalizer changes an object that is not being deleted.
NeedsFinalizer(o) == ~o.deleting /\ ~o.finalizer

\* Reconcile reads the object from the cache; one that is gone is done with.
Begin(b) ==
  /\ pc[b] = "idle" /\ b \in queue
  /\ queue' = queue \ {b}
  /\ IF cache[b].exists
     THEN /\ Continue(b, IF NeedsFinalizer(cache[b])
                         THEN "finalizer" ELSE FirstHandler(cache[b]),
                      cache[b], NoJob)
          /\ current' = IF b \in cached THEN current \cup {b} ELSE current \ {b}
     ELSE UNCHANGED <<pc, local, job, current>>
  /\ UNCHANGED <<cluster, cache, cached, dirty, fresh, faults, env>>

\* The Update after MaybeAddFinalizer, before the pipeline runs.
AddFinalizer(b) ==
  /\ pc[b] = "finalizer"
  /\ LET o == [local[b] EXCEPT !.finalizer = TRUE]
     IN  \/ /\ ~Stale(b) /\ Succeeds
            /\ Put(b, o)
            /\ Continue(b, FirstHandler(o), o, job[b])
            /\ UNCHANGED <<queue, current, fresh>>
         \/ /\ \/ Stale(b) /\ Succeeds
               \/ Fails("update")
            /\ Done(b, TRUE)
            /\ UNCHANGED <<sb, cached, dirty>>
  /\ UNCHANGED <<secrets, wl, svc, cache, env>>

(***************************************************************************)
(* The pipeline.  Handlers run in memory between the calls they make, so   *)
(* a step is a call with the handlers from it up to the next call.         *)
(***************************************************************************)

\* Close, up to its first call: after an error only the conditions are
\* saved; otherwise the workloads that were read are updated first.
Close(b, o, j) ==
  /\ IF j.flow \in {"retry", "error"}
     THEN Continue(b, "status", SetReady(o, "ProcessingError"), j)
     ELSE IF j.todo = {}
          THEN Continue(b, "status", SetReady(o, "ApplicationsBound"), j)
          ELSE Continue(b, "workloads", o, j)
  /\ fresh' = fresh \cup ({b} \X j.todo)

Flow(b, status) == [job[b] EXCEPT !.flow = status]

\* The workloads ws have been read, to be written back with content f[w].
WithApplications(j, ws, f) ==
  [j EXCEPT !.todo = ws,
            !.desired = [w \in Workloads |-> IF w \in ws THEN f[w] ELSE Bare]]

\* The Unbind handler.  An error from Applications(), or an empty status
\* secret, stops the flow without an error; a workload without containers
\* makes BindablePods answer nil, and the nil dereference is a recovered
\* panic, which asks for a retry.  Close leaves out a workload in which
\* nothing was found to remove (IsUpdated), but not one that was only read.
Unbind(b) ==
  /\ pc[b] = "unbind"
  /\ LET o == local[b]
         ws == Applications(o.ref)
         updated == {w \in ws : Unproject(b, o.secret, wl[w].content) # wl[w].content}
         Stop == Flow(b, "done")
         Untouched(read) == WithApplications(Stop, read, [w \in read |-> wl[w].content])
     IN  \/ ws = {} /\ Succeeds /\ Close(b, o, Stop)
         \/ Fails("applications") /\ \E read \in Partial(o.ref) : Close(b, o, Untouched(read))
         \/ /\ ws # {} /\ o.secret = NoSecret /\ Succeeds
            /\ Close(b, o, Untouched(ws))
         \/ /\ ws \cap Opaque # {} /\ o.secret # NoSecret /\ Succeeds
            /\ Close(b, o, Flow(b, "retry"))
         \/ /\ ws # {} /\ ws \cap Opaque = {} /\ o.secret # NoSecret /\ Succeeds
            /\ Close(b, [o EXCEPT !.rebind = FALSE],
                     WithApplications(Flow(b, IF o.rebind THEN "again" ELSE "done"), updated,
                       [w \in updated |-> Unproject(b, o.secret, wl[w].content)]))
  /\ UNCHANGED <<cluster, informer, current, env>>

\* The collect handlers, with mapping and naming, summed up by what they
\* yield: data, an error that is retried, or one that is not.
Collect(b) ==
  /\ pc[b] = "collect"
  /\ \/ /\ \/ svc[b] = "missing" /\ Succeeds
           \/ Fails("services")
        /\ Close(b, SetCollection(local[b], "ErrorReading"), Flow(b, "retry"))
     \/ /\ svc[b] = "invalid" /\ Succeeds
        /\ Close(b, SetCollection(local[b], "InvalidAnnotation"), Flow(b, "error"))
     \/ /\ svc[b] \in Data \cup {NoData} /\ Succeeds
        /\ Continue(b, "secret", local[b], [job[b] EXCEPT !.data = svc[b]])
        /\ UNCHANGED fresh
  /\ UNCHANGED <<cluster, informer, current, env>>

AlwaysSomething(d) == FALSE

\* persistSecret has nothing to write.
Nothing(d) == d = NoData

WriteSecretOnce(b, name) ==
  secrets' = IF local[b].secret = NoSecret THEN secrets \cup {name} ELSE secrets

\* The Create, or the Update, of the secret.
WriteSecret(b, name) == secrets' = secrets \cup {name}

\* PersistSecret at the start of PreFlightCheck.  A failure is saved in the
\* conditions at once, and the flow then goes on to project.
PersistSecret(b) ==
  /\ pc[b] = "secret"
  /\ LET o == SetCollection(local[b], "DataCollected")
         name == SecretName(b, job[b].data)
         written == [o EXCEPT !.secret = name]
     IN  \/ /\ Nothing(job[b].data) /\ Succeeds
            /\ Continue(b, "preflight", o, job[b])
            /\ UNCHANGED secrets
         \/ /\ ~Nothing(job[b].data) /\ Succeeds
            /\ Continue(b, "preflight", written, job[b])
            /\ WriteSecret(b, name)
         \/ /\ ~Nothing(job[b].data) /\ b \notin Provisioned /\ Fails("secrets")
            /\ Continue(b, "status", SetReady(local[b], "ErrorPersistingSecret"),
                        [job[b] EXCEPT !.saving = "secretFailed"])
            /\ UNCHANGED secrets
  /\ UNCHANGED <<sb, wl, svc, informer, current, fresh, env>>

NeverAgain(o) == "done"

\* PostFlightCheck: the workloads of a label selector are looked up again.
AfterProjection(o) == IF o.ref = Selector THEN "again" ELSE "done"

\* InjectSecretRef, BindingsAsEnv, BindingsAsFiles and PostFlightCheck, on
\* the workloads ws: a workload without containers is an error that is not
\* retried.
ProjectAndClose(b, o, ws) ==
  IF ws \cap Opaque # {}
  THEN Close(b, SetInjection(o, "Error"), Flow(b, "error"))
  ELSE Close(b, SetInjection(o, "ApplicationUpdated"),
             WithApplications(Flow(b, AfterProjection(o)), ws,
               [w \in ws |-> Project(b, SecretName(b, job[b].data), wl[w].content)]))

\* The rest of PreFlightCheck and the projection.
PreFlightCheck(b) ==
  /\ pc[b] = "preflight"
  /\ LET o == local[b]
         ws == Applications(o.ref)
     IN  \/ /\ \/ ws = {} /\ o.ref # NoRef /\ Succeeds
               \/ Fails("applications")
            /\ Close(b, SetInjection(o, "ApplicationNotFound"), Flow(b, "retry"))
         \/ /\ o.ref = NoRef /\ Succeeds
            /\ Close(b, SetInjection(o, "EmptyApplication"), Flow(b, "done"))
         \/ /\ ws # {} /\ job[b].data = NoData /\ Succeeds
            /\ Close(b, SetInjection(o, "NoBindingData"), Flow(b, "retry"))
         \/ /\ ws # {} /\ job[b].data \in Incomplete /\ Succeeds
            /\ Close(b, SetInjection(o, "RequiredBindingNotFound"), Flow(b, "error"))
         \/ /\ ws # {} /\ job[b].data \notin Incomplete \cup {NoData} /\ Succeeds
            /\ ProjectAndClose(b, o, ws)
  /\ UNCHANGED <<cluster, informer, current, env>>

\* The projection after PersistSecret failed: PreFlightCheck returned early
\* and the errors of Applications() are ignored, so that what it has read by
\* then is what the later handlers project into.
ProjectRegardless(b) ==
  /\ pc[b] = "project"
  /\ LET o == local[b]
     IN  \/ Succeeds /\ ProjectAndClose(b, o, Applications(o.ref))
         \/ Fails("applications") /\ \E read \in Partial(o.ref) : ProjectAndClose(b, o, read)
  /\ UNCHANGED <<cluster, informer, current, env>>

ErrorIgnored(b, w) ==
  Continue(b, "status", SetReady(local[b], "ApplicationsBound"), job[b])

\* Close gives up at the first Update that fails.
UpdateFailed(b, w) ==
  Continue(b, "status", SetReady(local[b], "ApplicationUpdateError"),
           [job[b] EXCEPT !.saving = "appFailed"])

\* One iteration of the loop of Close over the applications.
UpdateWorkload(b, w) ==
  /\ pc[b] = "workloads" /\ w \in job[b].todo
  /\ \/ /\ ~StaleWorkload(b, w) /\ Succeeds
        /\ PutWorkload(w, job[b].desired[w])
        /\ LET j == [job[b] EXCEPT !.todo = @ \ {w},
                                   !.desired = [@ EXCEPT ![w] = Bare]]
           IN  IF j.todo = {}
               THEN Continue(b, "status", SetReady(local[b], "ApplicationsBound"), j)
               ELSE Continue(b, "workloads", local[b], j)
     \/ /\ \/ StaleWorkload(b, w) /\ Succeeds
           \/ Fails("workloads")
        /\ UpdateFailed(b, w)
        /\ UNCHANGED <<wl, fresh>>
  /\ UNCHANGED <<sb, secrets, svc, informer, current, env>>

(***************************************************************************)
(* persistBinding: UpdateStatus, then Update of the same copy              *)
(***************************************************************************)

\* What follows persistBinding, which answered with an error unless ok; cur
\* is what its last call leaves of current.
Persisted(b, ok, cur) ==
  LET saving == job[b].saving
      finished == saving = "close" /\ ok
      removable == local[b].deleting /\ local[b].finalizer /\ job[b].flow = "done"
  IN  \/ /\ saving = "secretFailed"
         /\ Continue(b, "project", SetCollection(local[b], ""),
                     [job[b] EXCEPT !.saving = "close"])
         /\ current' = cur /\ UNCHANGED <<queue, fresh>>
      \/ /\ saving # "secretFailed" /\ ~finished
         /\ Done(b, TRUE)
      \/ /\ finished /\ ~removable
         /\ Done(b, job[b].flow \in {"again", "retry"})
      \/ /\ finished /\ removable
         /\ Continue(b, "remove", local[b], job[b])
         /\ current' = cur /\ UNCHANGED <<queue, fresh>>

\* The copy keeps the old resourceVersion when a write of it went through.
AfterWrite(b, o) == IF o = sb[b] THEN current ELSE current \ {b}

\* The status as the copy has it.  The schema of the object refuses a
\* condition without a reason.
UpdateStatus(b) ==
  /\ pc[b] = "status"
  /\ LET o == [sb[b] EXCEPT !.secret = local[b].secret,
                            !.conditions = local[b].conditions]
         valid == local[b].conditions.collection # ""
     IN  \/ /\ ~Stale(b) /\ valid /\ Succeeds
            /\ Put(b, o)
            /\ Continue(b, "save", local[b], job[b])
            /\ current' = AfterWrite(b, o) /\ UNCHANGED <<queue, fresh>>
         \/ /\ \/ (Stale(b) \/ ~valid) /\ Succeeds
               \/ Fails("update")
            /\ Persisted(b, FALSE, current)
            /\ UNCHANGED <<sb, cached, dirty>>
  /\ UNCHANGED <<secrets, wl, svc, cache, env>>

\* Everything but the status as the copy has it.
SaveBinding(b) ==
  /\ pc[b] = "save"
  /\ LET o == [local[b] EXCEPT !.secret = sb[b].secret,
                               !.conditions = sb[b].conditions]
     IN  \/ /\ ~Stale(b) /\ Succeeds
            /\ Put(b, o)
            /\ Persisted(b, TRUE, AfterWrite(b, o))
         \/ /\ \/ Stale(b) /\ Succeeds
               \/ Fails("update")
            /\ Persisted(b, FALSE, current)
            /\ UNCHANGED <<sb, cached, dirty>>
  /\ UNCHANGED <<secrets, wl, svc, cache, env>>

\* MaybeRemoveFinalizer and its Update, after which the API server drops the
\* object.
RemoveFinalizer(b) ==
  /\ pc[b] = "remove"
  /\ \/ /\ ~Stale(b) /\ Succeeds
        /\ Put(b, NoBinding)
        /\ Done(b, FALSE)
     \/ /\ \/ Stale(b) /\ Succeeds
           \/ Fails("update")
        /\ Done(b, TRUE)
        /\ UNCHANGED <<sb, cached, dirty>>
  /\ UNCHANGED <<secrets, wl, svc, cache, env>>

\* The informer's watch delivers what is stored; events that pass the filter
\* put the binding into the queue.
SyncCache(b) ==
  /\ b \notin cached
  /\ cache' = [cache EXCEPT ![b] = sb[b]] /\ cached' = cached \cup {b}
  /\ dirty' = dirty \ {b}
  /\ queue' = IF b \in dirty THEN queue \cup {b} ELSE queue
  /\ UNCHANGED <<cluster, worker, faults, env>>

Reconcile(b) ==
  \/ Begin(b) \/ AddFinalizer(b)
  \/ Unbind(b) \/ Collect(b) \/ PersistSecret(b)
  \/ PreFlightCheck(b) \/ ProjectRegardless(b)
  \/ \E w \in Workloads : UpdateWorkload(b, w)
  \/ UpdateStatus(b) \/ SaveBinding(b) \/ RemoveFinalizer(b)

(***************************************************************************)
(* Changes from outside                                                    *)
(***************************************************************************)

Happens(change) == change \in Environment /\ env < MaxEnv /\ env' = env + 1

UserPut(b, o) ==
  /\ Put(b, o)
  /\ current' = AfterWrite(b, o)
  /\ UNCHANGED <<secrets, wl, svc, cache, queue, pc, local, job, fresh, faults>>

CreateBinding(b, ref) ==
  /\ ~sb[b].exists /\ Happens("create")
  /\ UserPut(b, NewBinding(ref))

\* An object without the finalizer goes at once.
DeleteBinding(b) ==
  /\ sb[b].exists /\ ~sb[b].deleting /\ Happens("delete")
  /\ UserPut(b, IF sb[b].finalizer THEN [sb[b] EXCEPT !.deleting = TRUE] ELSE NoBinding)

\* CanUpdateBinding, the validating webhook, refuses to change the spec of a
\* binding that is ready.
EditBinding(b, ref) ==
  /\ sb[b].exists /\ ref # sb[b].ref /\ ~Ready(sb[b]) /\ Happens("edit")
  /\ UserPut(b, [sb[b] EXCEPT !.ref = ref])

\* The webhook of the workload mappings annotates a binding (Serialize).
AnnotateBinding(b) ==
  /\ sb[b].exists /\ Happens("annotate")
  /\ UserPut(b, [sb[b] EXCEPT !.rebind = TRUE])

ChangeService(b, v) ==
  /\ v # svc[b] /\ Happens(IF v = "invalid" THEN "invalid" ELSE "service")
  /\ svc' = [svc EXCEPT ![b] = v]
  /\ UNCHANGED <<sb, secrets, wl, informer, worker, faults>>

\* Another writer changes, deletes or creates a workload.
ChangeWorkload(w, exists) ==
  /\ wl[w].exists \/ exists
  /\ wl[w].exists # exists => w \in Volatile
  /\ Happens(IF wl[w].exists = exists THEN "touch" ELSE "recreate")
  /\ wl' = [wl EXCEPT ![w] = IF wl[w].exists = exists THEN @
                             ELSE [exists |-> exists, content |-> Bare]]
  /\ fresh' = fresh \ (Bindings \X {w})
  /\ UNCHANGED <<sb, secrets, svc, informer, pc, local, current, job, faults>>

\* The operator's process dies and is started again: it lists every binding.
Restart ==
  /\ Happens("restart")
  /\ cache' = sb /\ cached' = Bindings /\ dirty' = {}
  /\ queue' = {b \in Bindings : sb[b].exists}
  /\ pc' = [b \in Bindings |-> "idle"]
  /\ local' = [b \in Bindings |-> NoBinding] /\ current' = {}
  /\ job' = [b \in Bindings |-> NoJob] /\ fresh' = {}
  /\ UNCHANGED <<cluster, faults>>

Outside ==
  \/ \E b \in Bindings :
       \/ \E ref \in Refs : CreateBinding(b, ref) \/ EditBinding(b, ref)
       \/ DeleteBinding(b) \/ AnnotateBinding(b)
       \/ \E v \in Data \cup {NoData, "missing", "invalid"} : ChangeService(b, v)
  \/ \E w \in Workloads, e \in BOOLEAN : ChangeWorkload(w, e)
  \/ Restart

Next == Outside \/ \E b \in Bindings : Reconcile(b) \/ SyncCache(b)

Spec == Init /\ [][Next]_vars

\* A queued binding is eventually reconciled, every call eventually answers,
\* and the watch eventually delivers.
Fairness == \A b \in Bindings : WF_vars(Reconcile(b)) /\ WF_vars(SyncCache(b))

FairSpec == Spec /\ Fairness

(***************************************************************************)
(* Properties                                                              *)
(***************************************************************************)

\* The stored objects, the informer's and the workers' copies and the pipeline
\* contexts have their types.
TypeOK ==
  /\ sb \in [Bindings -> Objects]
  /\ secrets \subseteq SecretNames
  /\ wl \in [Workloads -> [exists: BOOLEAN, content: Contents]]
  /\ svc \in [Bindings -> Data \cup {NoData, "missing", "invalid"}]
  /\ cache \in [Bindings -> Objects]
  /\ cached \subseteq Bindings /\ dirty \subseteq Bindings /\ queue \subseteq Bindings
  /\ pc \in [Bindings -> Steps]
  /\ local \in [Bindings -> Objects]
  /\ current \subseteq Bindings
  /\ job \in [Bindings -> Jobs]
  /\ fresh \subseteq Bindings \X Workloads
  /\ faults \in 0..MaxFaults /\ env \in 0..MaxEnv

Shares(b, c) == {b, c} \subseteq Provisioned /\ Provided[b] = Provided[c]

\* The other bindings that put the same into a workload as b does.
Twins[b \in Bindings] ==
  {c \in Bindings \ {b} : /\ Shares(b, c) /\ (b \in AsFiles <=> c \in AsFiles)
                          /\ c \in AsFiles => VolumeName[c] = VolumeName[b]}

\* The other bindings that b may push out of a workload: those whose volume has
\* the name of the volume of b, and those with the variables of its secret.
Rivals[b \in Bindings] ==
  {c \in Bindings \ {b} : IF c \in AsFiles THEN VolumeName[c] = VolumeName[b] ELSE Shares(b, c)}

\* A workload starts to carry a binding's secret only while the stored binding,
\* or one that puts the same there, has the finalizer, so that whoever deletes
\* the binding leaves Reconcile a chance to unbind (MaybeAddFinalizer before
\* the pipeline), however stale the cache is from which the worker took its
\* copy.
FinalizerGuardsProjection ==
  [][\A b \in Bindings, w \in Workloads :
       ~Carries(wl[w].content, b) /\ Carries(wl'[w].content, b)
         => \E c \in {b} \cup Twins[b] : sb[c].exists /\ sb[c].finalizer]_vars

\* Neither webhook nor worker lets a ready binding's spec change, and no
\* worker's whole-object Update takes back a deletion that a user asked for.
NoStaleOverwrite ==
  [][\A b \in Bindings : sb[b].exists /\ sb'[b].exists =>
       /\ sb[b].deleting => sb'[b].deleting
       /\ Ready(sb[b]) => sb'[b].ref = sb[b].ref]_vars

\* Two workers that update the same workload never undo each other's volume:
\* one write changes at most one volume (the resourceVersion of the copy that
\* Close writes back).
OneVolumePerWrite ==
  [][\A w \in Workloads : wl[w].exists /\ wl'[w].exists =>
       \A m, n \in Volumes :
         wl'[w].content.volumes[m] # wl[w].content.volumes[m]
           /\ wl'[w].content.volumes[n] # wl[w].content.volumes[n] => m = n]_vars

\* The secret that a binding's status names, by which it is unbound later,
\* has been written, whatever call failed on the way.
StatusSecretPersisted ==
  \A b \in Bindings : sb[b].secret # NoSecret => sb[b].secret \in secrets

\* No workload refers to a secret that has not been written.
ProjectedSecretPersisted ==
  \A w \in Workloads :
    /\ wl[w].content.envFrom \subseteq secrets
    /\ \A n \in Volumes :
         wl[w].content.volumes[n] # NoSecret => wl[w].content.volumes[n] \in secrets

\* When the finalizer of a binding whose status names its secret is removed,
\* none of the workloads it refers to still mounts that binding's volume.
UnbindBeforeRemoval ==
  [][\A b \in Bindings :
       sb[b].exists /\ sb[b].secret # NoSecret /\ ~sb'[b].exists
         => \A w \in Applications(sb[b].ref) :
              wl[w].content.volumes[VolumeName[b]] = NoSecret]_vars

Quiet(b) == pc[b] = "idle" /\ b \notin queue /\ b \in cached

\* A ready binding that nobody works on any more is projected into the
\* workload that it names, unless that was recreated.
ReadyMeansProjected ==
  \A b \in Bindings :
    Ready(sb[b]) /\ ~sb[b].deleting /\ Quiet(b) /\ sb[b].ref \in Workloads \ Volatile
      /\ wl[sb[b].ref].exists
    => Carries(wl[sb[b].ref].content, b)

\* No workload carries a binding that is gone.
NoOrphan ==
  \A b \in Bindings, w \in Workloads :
    Carries(wl[w].content, b) => sb[b].exists

Phase(o) ==
  IF ~o.exists THEN "absent" ELSE IF o.deleting THEN "leaving"
  ELSE IF o.finalizer THEN "guarded" ELSE "new"

Contract ==
  INSTANCE BindingContract WITH
    phase <- [b \in Bindings |-> Phase(sb[b])],
    carried <- [w \in Workloads |-> {b \in Bindings : Carries(wl[w].content, b)}],
    Rebinds <- "annotate" \in Environment

\* The queue, the stale copies, the conflicts, the failed calls and the restarts
\* of the operator keep what BindingContract promises: a binding enters a
\* workload only under its finalizer, leaves it only when it is being deleted
\* or bound anew, and never pushes out another one but by its volume name or
\* the secret that the services provide to both.
ImplementsContract == Contract!Spec

Bindable(b) ==
  /\ sb[b].exists /\ ~sb[b].deleting
  /\ svc[b] \in Data \ Incomplete
  /\ Applications(sb[b].ref) # {} /\ Applications(sb[b].ref) \cap Opaque = {}

\* Once the changes and failures stop, every binding of a named workload that
\* can be bound and was never recreated is ready and projected, through the
\* conflicts that the workers' own writes cause.
NamedSettles ==
  \A b \in Bindings :
    <>[](Bindable(b) /\ sb[b].ref \in Workloads \ Volatile
         => Ready(sb[b]) /\ Carries(wl[sb[b].ref].content, b))

\* A binding by label ends up in every workload that the selector matches,
\* those created or recreated after it was bound included.
SelectorSettles ==
  \A b \in Bindings :
    <>[](Bindable(b) /\ sb[b].ref = Selector
         => \A w \in Applications(Selector) : Carries(wl[w].content, b))

\* A binding that is being deleted eventually goes.
DeletionCompletes ==
  \A b \in Bindings : sb[b].deleting ~> ~sb[b].exists

(***************************************************************************)
(* The inductive invariant from which the safety properties follow         *)
(***************************************************************************)

Live(o) == o.exists /\ o.finalizer /\ ~o.deleting

BeforeClose == {"finalizer", "unbind", "collect", "secret", "preflight", "project"}

\* The worker on b is collecting and projecting, not unbinding.
Binding(b) ==
  \/ pc[b] \in {"collect", "secret", "preflight", "project"}
  \/ pc[b] \in {"status", "save"} /\ job[b].saving = "secretFailed"

\* How far the informer's copy of b may be behind the stored object.
CacheCoherent(b) ==
  /\ b \in cached => cache[b] = sb[b]
  /\ Live(cache[b]) => sb[b].exists /\ sb[b].finalizer
  /\ cache[b].exists /\ cache[b].deleting => ~Live(sb[b])

\* How far the worker's copy of b may be behind the stored object.
LocalCoherent(b) ==
  pc[b] # "idle" =>
    /\ local[b].exists
    /\ b \in current =>
         /\ sb[b].exists /\ local[b].ref = sb[b].ref
         /\ local[b].deleting = sb[b].deleting
         /\ local[b].finalizer = sb[b].finalizer
    /\ local[b].deleting => ~Live(sb[b]) /\ ~Live(cache[b])
    /\ pc[b] = "finalizer" =>
         /\ ~local[b].deleting
         /\ b \in current => b \in cached /\ local[b] = sb[b]
    /\ pc[b] # "finalizer" /\ ~local[b].deleting => sb[b].exists /\ sb[b].finalizer

\* What the worker on b has decided so far.
JobCoherent(b) ==
  /\ pc[b] \in BeforeClose => job[b].todo = {} /\ job[b].saving = "close"
  /\ pc[b] = "workloads" => job[b].saving = "close"
  /\ Binding(b) => ~local[b].deleting /\ job[b].todo = {}
  /\ pc[b] = "project" \/ job[b].saving = "secretFailed" => job[b].data \in Data
  /\ pc[b] = "remove" => local[b].deleting

\* A workload that b is about to write back gains only what b puts there, and
\* only when b is not being deleted; unless the write is going to be refused.
WriteCoherent(b, w) ==
  pc[b] = "workloads" /\ w \in job[b].todo /\ <<b, w>> \in fresh =>
    \A c \in Bindings :
      Carries(job[b].desired[w], c) /\ ~Carries(wl[w].content, c)
        => c \in {b} \cup Twins[b] /\ ~local[b].deleting

CoherentAt(b) ==
  /\ CacheCoherent(b) /\ LocalCoherent(b) /\ JobCoherent(b)
  /\ \A w \in Workloads : WriteCoherent(b, w)

\* Every copy of a binding that the informer or a worker holds is behind the
\* stored one only in ways that the optimistic concurrency of the API server
\* catches, and no pending write of a workload brings back another binding.
Coherent == \A b \in Bindings : CoherentAt(b)

\* A copy of b names a secret of b that exists, and asks for a rebind only
\* where somebody may have asked for one.
CopySound(b, o) ==
  /\ o.secret # NoSecret => o.secret \in OwnSecrets(b) \cap secrets
  /\ o.rebind => "annotate" \in Environment

\* Every copy of a status that is held anywhere names a secret that exists.
SecretsCoherent ==
  \A b \in Bindings : \A o \in {sb[b], cache[b], local[b]} : CopySound(b, o)

\* What a worker on b, which takes b to be deleted or not, makes of the content
\* of a workload when certain secrets are written: nothing, or b's own change.
OwnChange(b, deleting, written, old, new) ==
  \/ new = old
  \/ /\ ~deleting
     /\ \E s \in OwnSecrets(b) :
          new = Project(b, s, old) /\ (s \in written \/ "secrets" \in Faults)
  \/ /\ deleting \/ "annotate" \in Environment
     /\ \E s \in OwnSecrets(b) : new = Unproject(b, s, old)

\* A pending write of w by the worker on b is b's own change to what is stored,
\* unless it is going to be refused.
PendingOwn(b, w) ==
  pc[b] = "workloads" /\ w \in job[b].todo /\ <<b, w>> \in fresh =>
    OwnChange(b, local[b].deleting, secrets, wl[w].content, job[b].desired[w])

\* The worker on b unbinds only when asked to, and projects only what
\* PersistSecret wrote or failed to write.
WorkerIsolated(b) ==
  /\ pc[b] = "unbind" => UnbindRequested(local[b])
  /\ pc[b] = "preflight" /\ job[b].data # NoData => SecretName(b, job[b].data) \in secrets
  /\ pc[b] = "project" \/ job[b].saving = "secretFailed" => "secrets" \in Faults
  /\ \A w \in Workloads : PendingOwn(b, w)

\* A volume holds a secret of a binding that uses its name.
VolumesOwned ==
  \A w \in Workloads, n \in Volumes :
    wl[w].content.volumes[n] # NoSecret =>
      \E c \in Bindings : VolumeName[c] = n /\ wl[w].content.volumes[n] \in OwnSecrets(c)

\* Whatever is written on behalf of a binding concerns that binding: its own
\* secrets, under its own volume name.
Isolated ==
  SecretsCoherent /\ VolumesOwned /\ \A b \in Bindings : WorkerIsolated(b)

\* Only a binding with the finalizer is being deleted or names a secret.
Finalized(b) ==
  sb[b].exists /\ (sb[b].deleting \/ sb[b].secret # NoSecret) => sb[b].finalizer

\* The worker on b is on its way to remove the finalizer, if no call fails.
Unbinding(b) ==
  /\ pc[b] \in {"workloads", "status", "save", "remove"}
  /\ local[b].deleting /\ local[b].secret # NoSecret
  /\ job[b].flow = "done" /\ job[b].saving = "close"

\* The volume of b is gone from every workload that b refers to, or is going
\* to be with a write that is still to be made.
VolumeGone(b) ==
  /\ \A w \in job[b].todo : job[b].desired[w].volumes[VolumeName[b]] = NoSecret
  /\ \A w \in Applications(local[b].ref) \ job[b].todo :
       wl[w].content.volumes[VolumeName[b]] = NoSecret

UnbindCoherent(b) ==
  /\ pc[b] # "idle" /\ b \in current /\ local[b].deleting => local[b].secret = sb[b].secret
  /\ pc[b] = "remove" => job[b].flow = "done" /\ job[b].saving = "close"
  /\ Unbinding(b) => VolumeGone(b) /\ (pc[b] # "workloads" => job[b].todo = {})

\* Whatever the workloads, the other bindings and the users do between the
\* Unbind handler and the removal of the finalizer, no volume comes back.
Unbound == \A b \in Bindings : Finalized(b) /\ UnbindCoherent(b)

\* A copy of a binding that claims to have bound the workload it names, where
\* the workload is not one of those that are recreated.
Promised(o) == Ready(o) /\ ~o.deleting /\ o.ref \in Workloads \ Volatile

\* The stored status says ready only with the finalizer and with the workload
\* written.
StoredBacked(b) ==
  /\ Ready(sb[b]) => sb[b].finalizer
  /\ Promised(sb[b]) => Carries(wl[sb[b].ref].content, b)

\* So does a copy of the worker that can be stored; and the pending write of
\* the workload of a binding that is not being deleted carries the binding.
WorkerBacked(b) ==
  /\ pc[b] = "workloads" /\ ~local[b].deleting /\ local[b].ref \in Workloads =>
       job[b].todo = {local[b].ref} /\ Carries(job[b].desired[local[b].ref], b)
  /\ pc[b] = "project" => local[b].conditions.collection = ""
  /\ pc[b] = "status" /\ Promised(local[b]) /\ local[b].conditions.collection # "" =>
       Carries(wl[local[b].ref].content, b)

\* Ready is promised only for a projection that has been made and stays.
ReadyBacked == \A b \in Bindings : StoredBacked(b) /\ WorkerBacked(b)

=============================================================================
