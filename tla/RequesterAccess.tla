-------------------------- MODULE RequesterAccess --------------------------
(***************************************************************************)
(* On whose behalf the operator acts: the admission webhook records who    *)
(* created or last updated a binding, and a reconcile asks the API server  *)
(* before each object that it reads or is going to write whether that user *)
(* may do so.  Users change the binding and their permissions meanwhile,   *)
(* and the webhook of the workload mappings writes the binding as well.    *)
(*                                                                         *)
(* One binding is enough: reviews are about its own requester only.  The   *)
(* worker reads the stored binding and may then be slow, which includes    *)
(* the case of an informer cache that lags.                                *)
(***************************************************************************)
EXTENDS Naturals, Sequences, FiniteSets

CONSTANTS
  Users,         \* those who create and update bindings
  Operator,      \* the user that the operator's own requests are made as
  Auth,          \* how the operator authenticates: see ServiceAccountName
  NoUser,        \* a binding that does not record a requester
  Sources,       \* the services, and the secrets that they name, in the
                 \* order in which they are read
  Mapping,       \* the workload mapping of the workloads' kind
  Workloads,     \* the workloads in the namespace of the binding
  Selector,      \* a reference to the workloads by label, that is to all
  Policy,        \* <<user, verb, object>>: what the users may do at first
  Changing,      \* the permissions that are granted and revoked
  Faults,        \* the calls that may fail for a reason of their own
  MaxFaults,     \* bound on those failures
  Environment,   \* the changes made from outside that are considered
  MaxEnv         \* bound on those changes

Permissions ==
  Users \X {"get", "list", "update"} \X
    (Workloads \cup {Selector, Mapping} \cup {Sources[k] : k \in DOMAIN Sources})

ASSUME AccessAssumption ==
  /\ NoUser \notin Users /\ Operator \notin Users /\ Operator # NoUser
  /\ Selector \notin Workloads /\ Workloads # {}
  /\ Policy \subseteq Permissions /\ Changing \subseteq Permissions
  /\ Sources \in Seq({Sources[k] : k \in DOMAIN Sources}) /\ Sources # <<>>
  /\ MaxFaults \in Nat /\ MaxEnv \in Nat

VARIABLES
  sb,        \* the stored binding
  author,    \* the user who created or last updated it
  perms,     \* <<user, verb, object>>: what the users may do
  wl,        \* the workloads that the binding is projected into
  queue,     \* the binding is in the controller's work queue
  pc,        \* the next call of the worker
  copy,      \* the worker's copy of the binding
  current,   \* ... has the stored resourceVersion
  job,       \* the context of the worker
  granted,   \* the reviews that were answered with yes since it began
  hook,      \* the copy of the binding that Serialize has listed
  listed,    \* ... has the stored resourceVersion
  faults,    \* number of failed calls so far
  env        \* number of changes from outside so far

api == <<sb, author, queue, hook, listed>>
vars == <<api, perms, wl, pc, copy, current, job, granted, faults, env>>

Refs == Workloads \cup {Selector}

Objects ==
  [exists: BOOLEAN, ref: Refs, requester: Users \cup {NoUser},
   deleting: BOOLEAN, finalizer: BOOLEAN, rebind: BOOLEAN, ready: BOOLEAN,
   secret: BOOLEAN]

NewBinding(ref) ==
  [exists |-> TRUE, ref |-> ref, requester |-> NoUser, deleting |-> FALSE,
   finalizer |-> FALSE, rebind |-> FALSE, ready |-> FALSE, secret |-> FALSE]

NoBinding == [NewBinding(Selector) EXCEPT !.exists = FALSE]

UnbindRequested(o) == o.rebind \/ o.deleting

\* What a user is asked to be allowed before the binding is projected.
Needed(ref) ==
  {<<"get", Sources[k]>> : k \in DOMAIN Sources} \cup {<<"get", Mapping>>}
    \cup (IF ref = Selector
          THEN {<<"list", Selector>>} \cup {<<"update", w>> : w \in Workloads}
          ELSE {<<"get", ref>>, <<"update", ref>>})

Reviews == UNION {Needed(ref) : ref \in Refs}

Steps == {"idle", "finalizer", "reviewSource", "readSource", "secret", "reviewMapping",
          "reviewGet", "reviewUpdate", "getWorkload", "reviewList", "listWorkloads",
          "reviewItem", "update", "save", "remove"}

\* k: the next source; calls: the calls of Applications() after a failure of
\* PersistSecret; todo: the workloads that are to be reviewed, then those to
\* be written back; read: those in the context; change: what the handlers do
\* to them.
Jobs ==
  [k: DOMAIN Sources, calls: 0..2, todo: SUBSET Workloads, read: SUBSET Workloads,
   change: {"none", "project", "remove"}, flow: {"done", "again", "retry"}]

NoJob ==
  [k |-> 1, calls |-> 0, todo |-> {}, read |-> {}, change |-> "none", flow |-> "done"]

(***************************************************************************)
(* Who asks                                                                *)
(***************************************************************************)

\* WhoAmI: a token is reviewed, or the refusal to review it names the user;
\* for the other ways to authenticate the answer is a made up name.
ServiceAccountName ==
  IF Auth \in {"token", "forbidden"} THEN Operator ELSE "kubecfg"

RecordAlways(user, requester) == user

\* The annotation that the mutating webhook leaves in the object that user
\* sends, in which it is requester.
Handle(user, requester) ==
  IF user = ServiceAccountName THEN requester ELSE user

\* canPerform, when the review is answered.
CanPerform(verb, x) ==
  copy.requester = NoUser \/ <<copy.requester, verb, x>> \in perms

Fails(call) == call \in Faults /\ faults < MaxFaults /\ faults' = faults + 1

LookupFails == Fails("lookup") /\ UNCHANGED granted

Succeeds == UNCHANGED faults

Allowed(verb, x) ==
  CanPerform(verb, x) /\ Succeeds /\ granted' = granted \cup {<<verb, x>>}

\* A review that cannot be made counts as a refusal.
Refused(verb, x) ==
  /\ \/ ~CanPerform(verb, x) /\ Succeeds
     \/ copy.requester # NoUser /\ Fails("review")
  /\ UNCHANGED granted

SecretFailed == job.calls > 0

(***************************************************************************)
(* The API server                                                          *)
(***************************************************************************)

\* What is stored when user sends o: the mutating webhook comes first.
Admitted(user, o) == [o EXCEPT !.requester = Handle(user, @)]

\* The event filter: creation, deletion, a new generation or new annotations,
\* of which the requester is one.
PassesFilter(old, new) ==
  \/ old.exists # new.exists \/ old.ref # new.ref \/ old.deleting # new.deleting
  \/ old.rebind # new.rebind \/ old.requester # new.requester

Put(o, requeue) ==
  /\ sb' = o
  /\ listed' = (listed /\ o = sb)
  /\ queue' = (queue \/ requeue \/ PassesFilter(sb, o))

NoVersionCheck == FALSE

\* An Update by the worker answers Conflict or NotFound.
Stale == ~current

\* So does an Update by Serialize.
StaleList == ~listed

(***************************************************************************)
(* Reconcile                                                               *)
(***************************************************************************)

Go(step, j) == pc' = step /\ job' = j

\* Reconcile returns.
Return ==
  /\ pc' = "idle" /\ copy' = NoBinding /\ current' = FALSE /\ job' = NoJob

FirstHandler(o) == IF UnbindRequested(o) THEN "reviewMapping" ELSE "reviewSource"

Begin ==
  /\ pc = "idle" /\ queue
  /\ queue' = FALSE
  /\ IF sb.exists
     THEN /\ Go(IF ~sb.deleting /\ ~sb.finalizer THEN "finalizer" ELSE FirstHandler(sb), NoJob)
          /\ copy' = sb /\ current' = TRUE
     ELSE UNCHANGED <<pc, copy, current, job>>
  /\ granted' = {}
  /\ UNCHANGED <<sb, author, hook, listed, perms, wl, faults, env>>

\* The Update after MaybeAddFinalizer answers with what has been stored.
AddFinalizer ==
  /\ pc = "finalizer"
  /\ \/ /\ ~Stale /\ Succeeds
        /\ LET o == Admitted(Operator, [copy EXCEPT !.finalizer = TRUE])
           IN  Put(o, FALSE) /\ copy' = o /\ Go(FirstHandler(o), job)
        /\ UNCHANGED current
     \/ /\ (Stale /\ Succeeds) \/ Fails("update")
        /\ Put(sb, TRUE) /\ Return
  /\ UNCHANGED <<author, hook, perms, wl, granted, env>>

GiveUp == Go("save", [job EXCEPT !.todo = {}, !.read = {}])

\* A handler asks for a retry: Close only saves the conditions.
Retry == Go("save", [job EXCEPT !.flow = "retry", !.todo = {}, !.read = {}])

calling == <<api, perms, wl, copy, current, env>>

\* Services() and, for what the services name, ReadSecret and ReadConfigMap.
ReviewSource ==
  /\ pc = "reviewSource"
  /\ LET x == Sources[job.k]
     IN  \/ Allowed("get", x) /\ Go("readSource", job)
         \/ (Refused("get", x) \/ LookupFails) /\ Retry
  /\ UNCHANGED calling

ReadSource ==
  /\ pc = "readSource"
  /\ \/ /\ Succeeds
        /\ IF job.k < Len(Sources)
           THEN Go("reviewSource", [job EXCEPT !.k = @ + 1])
           ELSE Go("secret", job)
     \/ Fails("get") /\ Retry
  /\ UNCHANGED <<calling, granted>>

\* PersistSecret: after a failure the conditions are saved, and the later
\* handlers still run.
PersistSecret ==
  /\ pc = "secret"
  /\ \/ /\ Succeeds
        /\ Go("reviewMapping", job) /\ copy' = [copy EXCEPT !.secret = TRUE]
        /\ UNCHANGED <<sb, queue, listed, current>>
     \/ /\ Fails("secrets")
        /\ Go("reviewMapping", [job EXCEPT !.calls = 1])
        /\ copy' = [copy EXCEPT !.ready = FALSE]
        /\ LET o == IF Stale THEN sb ELSE Admitted(Operator, copy')
           IN  Put(o, FALSE) /\ current' = (current /\ o = sb)
  /\ UNCHANGED <<author, hook, perms, wl, granted, env>>

(***************************************************************************)
(* Applications() and the handlers that call it                            *)
(***************************************************************************)

\* Close: the workloads that were read are written back.
Close(j) == Go(IF j.todo = {} THEN "save" ELSE "update", j)

AfterProjection == IF copy.ref = Selector THEN "again" ELSE "done"

\* PreFlightCheck asks for a retry.  The handlers after a failure of
\* PersistSecret ignore the error: what a first call has kept is what the
\* second one answers with.
BindWithoutApplications ==
  IF ~SecretFailed
  THEN Retry
  ELSE IF job.read # {} /\ job.calls = 1
       THEN Close([job EXCEPT !.todo = job.read, !.change = "project",
                              !.flow = AfterProjection])
       ELSE IF job.calls = 1
            THEN Go("reviewMapping", [job EXCEPT !.calls = 2, !.todo = {}])
            ELSE Close([job EXCEPT !.todo = job.read, !.flow = AfterProjection])

RetryUnbind == IF UnbindRequested(copy) THEN Retry ELSE BindWithoutApplications

\* Applications() answers with an error.  Unbind stops, with what was read
\* left as it is.
NoApplications ==
  IF UnbindRequested(copy)
  THEN Close([job EXCEPT !.todo = job.read])
  ELSE BindWithoutApplications

\* Applications() answers with the workloads ws.
HaveApplications(ws) ==
  LET read == [job EXCEPT !.read = ws, !.todo = ws]
  IN  IF ~UnbindRequested(copy)
      THEN /\ Close([read EXCEPT !.change = "project", !.flow = AfterProjection])
           /\ UNCHANGED copy
      ELSE IF ~copy.secret
           THEN Close(read) /\ UNCHANGED copy
           ELSE /\ Close([read EXCEPT !.todo = ws \cap wl, !.change = "remove",
                                      !.flow = IF copy.rebind THEN "again" ELSE "done"])
                /\ copy' = [copy EXCEPT !.rebind = FALSE]

\* WorkloadResourceTemplate, after the lookup of the kind.  That its own Get of
\* the mapping fails has the effect of a failed lookup.
ReviewMapping ==
  /\ pc = "reviewMapping"
  /\ \/ /\ Allowed("get", Mapping)
        /\ Go(IF copy.ref = Selector THEN "reviewList" ELSE "reviewGet", job)
     \/ (Refused("get", Mapping) \/ LookupFails) /\ NoApplications
  /\ UNCHANGED calling

ReviewGet ==
  /\ pc = "reviewGet"
  /\ \/ Allowed("get", copy.ref) /\ Go("reviewUpdate", job)
     \/ Refused("get", copy.ref) /\ NoApplications
  /\ UNCHANGED calling

ReviewUpdate ==
  /\ pc = "reviewUpdate"
  /\ \/ Allowed("update", copy.ref) /\ Go("getWorkload", job)
     \/ Refused("update", copy.ref) /\ NoApplications
  /\ UNCHANGED calling

GetWorkload ==
  /\ pc = "getWorkload"
  /\ \/ Succeeds /\ HaveApplications({copy.ref})
     \/ Fails("get") /\ NoApplications /\ UNCHANGED copy
  /\ UNCHANGED <<api, perms, wl, current, granted, env>>

ReviewList ==
  /\ pc = "reviewList"
  /\ \/ Allowed("list", Selector) /\ Go("listWorkloads", job)
     \/ Refused("list", Selector) /\ NoApplications
  /\ UNCHANGED calling

ListWorkloads ==
  /\ pc = "listWorkloads"
  /\ \/ Succeeds /\ Go("reviewItem", [job EXCEPT !.todo = Workloads])
     \/ Fails("get") /\ NoApplications
  /\ UNCHANGED <<calling, granted>>

ListedAllowed(w) == Succeeds /\ UNCHANGED granted

ItemAllowed(w) == Allowed("update", w)

\* One iteration of the loop over the workloads of a selector.
ReviewItem(w) ==
  /\ pc = "reviewItem" /\ w \in job.todo
  /\ LET read == job.read \cup {w}
     IN  \/ /\ ItemAllowed(w)
            /\ IF job.todo = {w}
               THEN HaveApplications(read)
               ELSE /\ Go("reviewItem", [job EXCEPT !.todo = @ \ {w}, !.read = read])
                    /\ UNCHANGED copy
         \/ Refused("update", w) /\ NoApplications /\ UNCHANGED copy
  /\ UNCHANGED <<api, perms, wl, current, env>>

\* One iteration of the loop of Close over the workloads.  A conflict is one
\* of the ways in which the Update fails.
UpdateWorkload(w) ==
  /\ pc = "update" /\ w \in job.todo
  /\ \/ /\ Succeeds
        /\ wl' = CASE job.change = "project" -> wl \cup {w}
                   [] job.change = "remove" -> wl \ {w}
                   [] OTHER -> wl
        /\ Close([job EXCEPT !.todo = @ \ {w}])
     \/ Fails("workloads") /\ Retry /\ UNCHANGED wl
  /\ UNCHANGED <<api, perms, copy, current, granted, env>>

\* persistBinding and what follows it.  After a failure of PersistSecret the
\* status holds a condition without a reason, which the API server refuses.
Save ==
  /\ pc = "save"
  /\ \/ /\ ~Stale /\ ~SecretFailed /\ Succeeds
        /\ LET o == Admitted(Operator, [copy EXCEPT !.ready = (job.flow # "retry")])
           IN  IF copy.deleting /\ copy.finalizer /\ job.flow = "done"
               THEN /\ Put(o, FALSE) /\ Go("remove", job)
                    /\ current' = (o = sb) /\ UNCHANGED copy
               ELSE Put(o, job.flow # "done") /\ Return
     \/ /\ ((Stale \/ SecretFailed) /\ Succeeds) \/ Fails("update")
        /\ Put(sb, TRUE) /\ Return
  /\ UNCHANGED <<author, hook, perms, wl, granted, env>>

\* MaybeRemoveFinalizer and its Update.
RemoveFinalizer ==
  /\ pc = "remove"
  /\ \/ ~Stale /\ Succeeds /\ Put(NoBinding, FALSE) /\ Return
     \/ ((Stale /\ Succeeds) \/ Fails("update")) /\ Put(sb, TRUE) /\ Return
  /\ UNCHANGED <<author, hook, perms, wl, granted, env>>

Reconcile ==
  \/ Begin \/ AddFinalizer \/ ReviewSource \/ ReadSource \/ PersistSecret
  \/ ReviewMapping \/ ReviewGet \/ ReviewUpdate \/ GetWorkload
  \/ ReviewList \/ ListWorkloads
  \/ \E w \in Workloads : ReviewItem(w) \/ UpdateWorkload(w)
  \/ Save \/ RemoveFinalizer

(***************************************************************************)
(* Changes from outside                                                    *)
(***************************************************************************)

Happens(change) == change \in Environment /\ env < MaxEnv /\ env' = env + 1

\* A request by user that leaves o.
Request(user, o) ==
  /\ Put(Admitted(user, o), FALSE)
  /\ current' = (current /\ Admitted(user, o) = sb)
  /\ author' = user
  /\ UNCHANGED <<hook, perms, wl, pc, copy, job, granted, faults>>

Create(u, ref) ==
  ~sb.exists /\ Happens("create") /\ Request(u, NewBinding(ref))

\* ValidateUpdate refuses another spec while the binding is ready.
Update(u, ref) ==
  /\ sb.exists /\ (sb.ready => ref = sb.ref) /\ Happens("update")
  /\ Request(u, [sb EXCEPT !.ref = ref])

\* The webhook has no part in a deletion.
Delete ==
  /\ sb.exists /\ ~sb.deleting /\ Happens("delete")
  /\ LET o == IF sb.finalizer THEN [sb EXCEPT !.deleting = TRUE] ELSE NoBinding
     IN  Put(o, FALSE) /\ current' = FALSE
  /\ UNCHANGED <<author, hook, perms, wl, pc, copy, job, granted, faults>>

Grant(p) ==
  /\ p \notin perms /\ Happens("grant")
  /\ perms' = perms \cup {p}
  /\ UNCHANGED <<api, wl, pc, copy, current, job, granted, faults>>

Revoke(p) ==
  /\ p \in perms /\ Happens("revoke")
  /\ perms' = perms \ {p}
  /\ UNCHANGED <<api, wl, pc, copy, current, job, granted, faults>>

\* Serialize, called for an update of the mapping, lists the bindings.
List ==
  /\ ~hook.exists /\ sb.exists /\ Happens("mapping")
  /\ hook' = sb /\ listed' = TRUE
  /\ UNCHANGED <<sb, author, queue, perms, wl, pc, copy, current, job, granted, faults>>

\* It updates the binding that it has listed; a conflict refuses the mapping.
Annotate ==
  /\ hook.exists
  /\ LET o == IF StaleList THEN sb ELSE Admitted(Operator, [hook EXCEPT !.rebind = TRUE])
     IN  /\ sb' = o
         /\ queue' = (queue \/ PassesFilter(sb, o))
         /\ current' = (current /\ o = sb)
  /\ hook' = NoBinding /\ listed' = FALSE
  /\ UNCHANGED <<author, perms, wl, pc, copy, job, granted, faults, env>>

\* A binding from before the webhook was installed records no requester.
Init ==
  /\ sb \in {NoBinding} \cup {NewBinding(ref) : ref \in Refs}
  /\ author = NoUser /\ queue = sb.exists
  /\ hook = NoBinding /\ listed = FALSE
  /\ perms = Policy /\ wl = {}
  /\ pc = "idle" /\ copy = NoBinding /\ current = FALSE
  /\ job = NoJob /\ granted = {}
  /\ faults = 0 /\ env = 0

Outside ==
  \/ \E u \in Users, ref \in Refs : Create(u, ref) \/ Update(u, ref)
  \/ \E p \in Changing : Grant(p) \/ Revoke(p)
  \/ Delete \/ List

Next == Outside \/ Annotate \/ Reconcile

Spec == Init /\ [][Next]_vars

\* The controller works on its queue, and calls are answered.
FairSpec == Spec /\ WF_vars(Reconcile) /\ WF_vars(Annotate)

(***************************************************************************)
(* Properties                                                              *)
(***************************************************************************)

\* The stored binding, the copies of it and the context have their types.
TypeOK ==
  /\ {sb, copy, hook} \subseteq Objects
  /\ author \in Users \cup {NoUser} /\ perms \subseteq Permissions
  /\ wl \subseteq Workloads /\ {queue, current, listed} \subseteq BOOLEAN
  /\ pc \in Steps /\ job \in Jobs /\ granted \subseteq Reviews
  /\ faults \in 0..MaxFaults /\ env \in 0..MaxEnv

\* The recorded requester is the user who created or last updated the binding,
\* through the operator's own whole-object updates: those of the reconciler
\* and those of the mapping webhook, made from copies that users overtake.
RequesterIsAuthor == sb.exists => sb.requester = author

\* A workload is changed only after the worker's requester has been found to
\* be allowed all that its projection takes: to find the workload, to update
\* that very workload, and to read every source when it is bound; also when
\* only some of the workloads of a selector were allowed, or a call failed.
ChangesReviewed ==
  [][\A w \in Workloads : (w \in wl) # (w \in wl') =>
       /\ {<<"update", w>>, <<"get", Mapping>>} \subseteq granted
       /\ {<<"get", w>>, <<"list", Selector>>} \cap granted # {}
       /\ w \in wl' => \A k \in DOMAIN Sources : <<"get", Sources[k]>> \in granted]_vars

Permitted ==
  \/ sb.requester = NoUser
  \/ \A p \in Needed(sb.ref) : <<sb.requester, p[1], p[2]>> \in perms

\* A binding that was refused is bound once its requester is permitted, or
\* once a user who is permitted updates it: neither a refusal nor a failed
\* review is the last word (RetryProcessing of PreFlight and PreFlightCheck).
PermittedSettles ==
  <>[](sb.exists /\ ~UnbindRequested(sb) /\ Permitted =>
         IF sb.ref = Selector THEN wl = Workloads ELSE sb.ref \in wl)

\* A binding that is being deleted goes, whatever its requester may still do:
\* Unbind does not insist on a review that is refused.
RefusedDeletionCompletes == sb.deleting ~> ~sb.exists

(***************************************************************************)
(* The inductive invariants from which the safety properties follow        *)
(***************************************************************************)

\* A copy that would be accepted as an Update holds the stored requester, and
\* the binding that it is a copy of has not gone: what the operator writes
\* back, as Reconcile or as Serialize, is the requester that it has found.
Recorded ==
  /\ RequesterIsAuthor
  /\ current => sb.exists /\ copy.exists /\ copy.requester = sb.requester
  /\ listed => sb.exists /\ hook.requester = sb.requester

SourcesGranted == \A k \in DOMAIN Sources : <<"get", Sources[k]>> \in granted

FindingSteps == {"reviewGet", "reviewUpdate", "getWorkload", "reviewList", "listWorkloads",
                 "reviewItem"}

\* The reviews behind each step of the pipeline, and behind every workload
\* that Applications() has kept: an error on the way, a second call of it and
\* a failure of PersistSecret do not let the worker get ahead of them.
Reviewed ==
  /\ pc \in {"idle", "finalizer"} => job = NoJob
  /\ pc \in {"reviewSource", "readSource"} => \A k \in DOMAIN Sources :
       k < job.k \/ (k = job.k /\ pc = "readSource") => <<"get", Sources[k]>> \in granted
  /\ pc = "secret" => SourcesGranted
  /\ pc \in {"reviewSource", "readSource", "secret"} => job.change = "none"
  /\ pc \in FindingSteps \cup {"reviewMapping"} =>
       job.change = "none" /\ (UnbindRequested(copy) \/ SourcesGranted)
  /\ pc \in FindingSteps => <<"get", Mapping>> \in granted
  /\ pc \in {"reviewUpdate", "getWorkload"} => <<"get", copy.ref>> \in granted
  /\ pc = "getWorkload" => <<"update", copy.ref>> \in granted
  /\ pc \in {"listWorkloads", "reviewItem"} => <<"list", Selector>> \in granted
  /\ \A w \in job.read :
       /\ {<<"update", w>>, <<"get", Mapping>>} \subseteq granted
       /\ {<<"get", w>>, <<"list", Selector>>} \cap granted # {}
  /\ pc = "update" => job.todo \subseteq job.read
  /\ pc = "update" /\ job.change = "project" => SourcesGranted

\* A workload is looked up by its name only for a reference that has one.
Named == pc \in {"reviewGet", "reviewUpdate", "getWorkload"} => copy.ref # Selector

=============================================================================
