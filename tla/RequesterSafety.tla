-------------------------- MODULE RequesterSafety --------------------------
(***************************************************************************)
(* Proofs that the recorded requester is the binding's author, and that no *)
(* workload changes before the reviews it takes, for any users, policies,  *)
(* sources and workloads, and any number of faults and changes.            *)
(***************************************************************************)
EXTENDS RequesterAccess, TLAPS

\* The operator authenticates by a token, as it does in a cluster.
TokenAuth == Auth \in {"token", "forbidden"}

\* The copies of the binding are bindings.
Shapes == sb \in Objects /\ copy \in Objects /\ hook \in Objects

\* The mutating webhook lets the operator's own request pass as it is.
LEMMA OperatorAdmitted ==
  ASSUME TokenAuth, NEW o \in Objects
  PROVE  Admitted(Operator, o) = o
  BY Zenon DEF TokenAuth, Admitted, Handle, Objects, ServiceAccountName

\* It records any other user, and changes nothing else.
LEMMA UserAdmitted ==
  ASSUME TokenAuth, NEW o \in Objects, NEW u \in Users
  PROVE  /\ Admitted(u, o) \in Objects
         /\ Admitted(u, o).exists = o.exists
         /\ Admitted(u, o).requester = u
  BY AccessAssumption, Zenon DEF TokenAuth, Admitted, Handle, Objects, ServiceAccountName

\* The bindings that users create, and the absence of one.
LEMMA NewShape ==
  /\ \A ref \in Refs : NewBinding(ref) \in Objects
  /\ NoBinding \in Objects /\ ~NoBinding.exists
  BY Zenon DEF NewBinding, NoBinding, Objects, Refs

\* What a worker changes in its copy keeps it a binding with its requester.
LEMMA CopyChanges ==
  ASSUME NEW o \in Objects, NEW v \in BOOLEAN
  PROVE  \A n \in {[o EXCEPT !.finalizer = v], [o EXCEPT !.ready = v], [o EXCEPT !.secret = v],
                   [o EXCEPT !.rebind = v], [o EXCEPT !.deleting = v]} :
           n \in Objects /\ n.requester = o.requester /\ n.exists = o.exists
  BY Zenon DEF Objects

\* Every step of the worker leaves the stored binding, or replaces it by one
\* with the requester that it had, or removes it.
LEMMA WorkerRecords ==
  ASSUME TokenAuth, Shapes, Recorded, Reconcile
  PROVE  Shapes' /\ Recorded'
<1> USE DEF Shapes
<1> DEFINE Keeps(o) == o \in Objects /\ (o.exists => sb.exists /\ o.requester = sb.requester)
<1>put. ASSUME NEW o, NEW q, Keeps(o), Put(o, q), UNCHANGED <<author, hook>>, copy' \in Objects,
               current' => o.exists /\ copy'.exists /\ copy'.requester = o.requester
        PROVE  Shapes' /\ Recorded'
  BY <1>put, Zenon DEF Put, Recorded, RequesterIsAuthor
<1>same. Keeps(sb)
  BY Zenon
<1>none. Keeps(NoBinding)
  BY NewShape, Zenon
<1>frame. ASSUME UNCHANGED <<sb, author, hook, listed>>, copy' \in Objects,
                 current' => current /\ copy'.exists = copy.exists
                                     /\ copy'.requester = copy.requester
          PROVE  Shapes' /\ Recorded'
  BY <1>frame, Zenon DEF Recorded, RequesterIsAuthor
<1>return. Return => copy' \in Objects /\ ~current'
  BY NewShape, Zenon DEF Return
<1>calling. ASSUME UNCHANGED calling PROVE Shapes' /\ Recorded'
  BY <1>calling, <1>frame, Zenon DEF calling, api
<1>apps. ASSUME UNCHANGED <<api, current>>,
                \/ UNCHANGED copy
                \/ copy' = [copy EXCEPT !.rebind = FALSE]
         PROVE  Shapes' /\ Recorded'
  BY <1>apps, <1>frame, CopyChanges, Zenon DEF api
<1>1. CASE Begin
  BY <1>1, Zenon DEF Begin, Recorded, RequesterIsAuthor
<1>2. CASE AddFinalizer
  <2> DEFINE o == [copy EXCEPT !.finalizer = TRUE]
  <2>1. o \in Objects /\ o.requester = copy.requester /\ o.exists = copy.exists
    BY CopyChanges, Zenon
  <2>2. Admitted(Operator, o) = o
    BY <2>1, OperatorAdmitted, Zenon
  <2>3. CASE /\ ~Stale /\ Put(o, FALSE) /\ copy' = o /\ UNCHANGED <<current, author, hook>>
    <3>1. sb.exists /\ o.requester = sb.requester
      BY <2>3, <2>1, Zenon DEF Stale, Recorded
    <3> QED BY <2>3, <2>1, <3>1, Zenon DEF Put, Recorded, RequesterIsAuthor
  <2>4. CASE Put(sb, TRUE) /\ Return /\ UNCHANGED <<author, hook>>
    BY <2>4, <1>put, <1>same, <1>return, Zenon
  <2> HIDE DEF o
  <2> QED BY <1>2, <2>2, <2>3, <2>4, Zenon DEF AddFinalizer, o
<1>3. CASE PersistSecret
  <2> DEFINE n == [copy EXCEPT !.ready = FALSE]
             o == IF Stale THEN sb ELSE Admitted(Operator, n)
  <2>1. n \in Objects /\ n.requester = copy.requester /\ n.exists = copy.exists
    BY CopyChanges, Zenon
  <2>2. Admitted(Operator, n) = n
    BY <2>1, OperatorAdmitted, Zenon
  <2>3. Keeps(o)
    BY <2>1, <2>2, Zenon DEF Stale, Recorded
  <2>4. CASE /\ copy' = [copy EXCEPT !.secret = TRUE]
             /\ UNCHANGED <<sb, listed, current, author, hook>>
    BY <2>4, <1>frame, CopyChanges, Zenon
  <2>5. CASE /\ copy' = n /\ Put(o, FALSE) /\ current' = (current /\ o = sb)
             /\ UNCHANGED <<author, hook>>
    <3>1. current' => o.exists /\ n.exists /\ n.requester = o.requester
      BY <2>5, <2>1, Zenon DEF Recorded
    <3> QED BY <2>5, <2>1, <2>3, <3>1, <1>put, Zenon
  <2>6. PersistSecret =>
          \/ /\ copy' = [copy EXCEPT !.secret = TRUE]
             /\ UNCHANGED <<sb, listed, current, author, hook>>
          \/ /\ copy' = n /\ Put(o, FALSE) /\ current' = (current /\ o = sb)
             /\ UNCHANGED <<author, hook>>
    BY Zenon DEF PersistSecret
  <2> QED BY <1>3, <2>4, <2>5, <2>6, Zenon
<1>4. CASE ReviewSource \/ ReadSource \/ ReviewMapping \/ ReviewGet \/ ReviewUpdate
             \/ ReviewList \/ ListWorkloads
  BY <1>4, <1>calling, Zenon DEF ReviewSource, ReadSource, ReviewMapping, ReviewGet, ReviewUpdate,
     ReviewList, ListWorkloads
<1>5. CASE GetWorkload \/ \E w \in Workloads : ReviewItem(w)
  <2>1. \A ws : HaveApplications(ws) => UNCHANGED copy \/ copy' = [copy EXCEPT !.rebind = FALSE]
    BY Zenon DEF HaveApplications
  <2> QED BY <1>5, <2>1, <1>apps, Zenon DEF GetWorkload, ReviewItem
<1>6. CASE \E w \in Workloads : UpdateWorkload(w)
  BY <1>6, <1>apps, Zenon DEF UpdateWorkload
<1>7. CASE Save
  <2> DEFINE o == [copy EXCEPT !.ready = (job.flow # "retry")]
  <2>1. o \in Objects /\ o.requester = copy.requester /\ o.exists = copy.exists
    <3> DEFINE v == (job.flow # "retry")
    <3>1. v \in BOOLEAN
      BY Zenon
    <3> HIDE DEF v
    <3>2. LET n == [copy EXCEPT !.ready = v]
          IN  n \in Objects /\ n.requester = copy.requester /\ n.exists = copy.exists
      BY <3>1, CopyChanges, Zenon
    <3> QED BY <3>2, Zenon DEF v
  <2>2. Admitted(Operator, o) = o
    BY <2>1, OperatorAdmitted, Zenon
  <2>3. CASE Put(sb, TRUE) /\ Return /\ UNCHANGED <<author, hook>>
    BY <2>3, <1>put, <1>same, <1>return, Zenon
  <2>4. CASE /\ ~Stale /\ UNCHANGED <<author, hook>>
             /\ \/ Put(o, FALSE) /\ current' = (o = sb) /\ UNCHANGED copy
                \/ \E q : Put(o, q) /\ Return
    <3>1. Keeps(o) /\ sb.exists /\ copy.exists /\ copy.requester = sb.requester
      BY <2>4, <2>1, Zenon DEF Stale, Recorded
    <3> HIDE DEF Keeps, o
    <3> QED BY <2>4, <2>1, <3>1, <1>put, <1>return, Zenon
  <2>5. Save => \/ Put(sb, TRUE) /\ Return /\ UNCHANGED <<author, hook>>
                \/ /\ ~Stale /\ UNCHANGED <<author, hook>>
                   /\ \/ /\ Put(Admitted(Operator, o), FALSE)
                         /\ current' = (Admitted(Operator, o) = sb) /\ UNCHANGED copy
                      \/ \E q : Put(Admitted(Operator, o), q) /\ Return
    BY Zenon DEF Save
  <2> HIDE DEF o
  <2> QED BY <1>7, <2>2, <2>3, <2>4, <2>5, Zenon
<1>8. CASE RemoveFinalizer
  BY <1>8, <1>put, <1>same, <1>none, <1>return, Zenon DEF RemoveFinalizer
<1> QED
  BY <1>1, <1>2, <1>3, <1>4, <1>5, <1>6, <1>7, <1>8, Zenon DEF Reconcile

\* Users replace the requester together with the author, and Serialize writes
\* back the one that it has listed.
LEMMA OutsideRecords ==
  ASSUME TokenAuth, Shapes, Recorded, Outside \/ Annotate
  PROVE  Shapes' /\ Recorded'
<1> USE DEF Shapes
<1>1. ASSUME NEW u \in Users, NEW o \in Objects, Request(u, o)
      PROVE  Shapes' /\ Recorded'
  <2>1. /\ Admitted(u, o) \in Objects /\ Admitted(u, o).requester = u
    BY UserAdmitted, Zenon
  <2> QED BY <1>1, <2>1, Zenon DEF Request, Put, Recorded, RequesterIsAuthor
<1>2. CASE \E u \in Users, ref \in Refs : Create(u, ref)
  BY <1>1, <1>2, NewShape, Zenon DEF Create
<1>3. CASE \E u \in Users, ref \in Refs : Update(u, ref)
  <2>1. \A ref \in Refs : [sb EXCEPT !.ref = ref] \in Objects
    BY Zenon DEF Objects
  <2> QED BY <1>1, <1>3, <2>1, Zenon DEF Update
<1>4. CASE Delete
  <2>1. /\ [sb EXCEPT !.deleting = TRUE] \in Objects
        /\ [sb EXCEPT !.deleting = TRUE].requester = sb.requester
        /\ [sb EXCEPT !.deleting = TRUE].exists = sb.exists
    BY CopyChanges, Zenon
  <2> QED BY <1>4, <2>1, NewShape, Zenon DEF Delete, Put, Recorded, RequesterIsAuthor
<1>5. CASE (\E p \in Changing : Grant(p) \/ Revoke(p)) \/ List
  BY <1>5 DEF Grant, Revoke, List, api, Recorded, RequesterIsAuthor
<1>6. CASE Annotate
  <2> DEFINE n == [hook EXCEPT !.rebind = TRUE]
  <2>1. n \in Objects /\ n.requester = hook.requester /\ n.exists = hook.exists
    BY CopyChanges, Zenon
  <2>2. Admitted(Operator, n) = n
    BY <2>1, OperatorAdmitted, Zenon
  <2>3. PICK o \in {sb, n} : /\ sb' = o /\ (o = sb \/ ~StaleList)
                             /\ current' = (current /\ o = sb)
                             /\ hook' = NoBinding /\ ~listed' /\ UNCHANGED <<author, copy>>
    BY <1>6, <2>2, Zenon DEF Annotate
  <2> QED BY <2>1, <2>3, NewShape, Zenon DEF StaleList, Recorded, RequesterIsAuthor
<1> QED
  BY <1>2, <1>3, <1>4, <1>5, <1>6, Zenon DEF Outside

\* Whatever copy is held or stored is a binding, with the requester recorded.
LEMMA RecordedInvariant ==
  ASSUME TokenAuth
  PROVE  Spec => [](Shapes /\ Recorded)
<1>1. Init => Shapes /\ Recorded
  <2>1. \A ref : NewBinding(ref).requester = NoUser
    BY Zenon DEF NewBinding
  <2> QED BY <2>1, NewShape, Zenon DEF Init, Shapes, Recorded, RequesterIsAuthor
<1>2. Shapes /\ Recorded /\ [Next]_vars => Shapes' /\ Recorded'
  <2>1. CASE UNCHANGED vars
    BY <2>1, Zenon DEF vars, api, Shapes, Recorded, RequesterIsAuthor
  <2> QED BY <2>1, WorkerRecords, OutsideRecords, Zenon DEF Next
<1> QED
  BY <1>1, <1>2, PTL DEF Spec

\* The recorded requester is the user who created or last updated the binding
\* (Handle and SetRequester), with any number of users who overtake the
\* operator's own updates, when the operator authenticates by a token.
THEOREM RequesterRecorded ==
  ASSUME TokenAuth
  PROVE  Spec => [](Recorded /\ RequesterIsAuthor)
<1>1. Recorded => RequesterIsAuthor
  BY Zenon DEF Recorded
<1> QED
  BY <1>1, RecordedInvariant, PTL

\* The context of the worker, as far as its updates by field go.
Shape(j) ==
  /\ DOMAIN j = {"k", "calls", "todo", "read", "change", "flow"}
  /\ j = [f \in DOMAIN j |-> j[f]] /\ j.k \in Nat

JobShape == Shape(job)

\* The reviews g let the worker change the workload w.
MayChange(w, g) ==
  /\ {<<"update", w>>, <<"get", Mapping>>} \subseteq g
  /\ {<<"get", w>>, <<"list", Selector>>} \cap g # {}

\* Close writes back what was read, and that has been reviewed.
LEMMA CloseReviewed ==
  ASSUME NEW j, Close(j), j.todo \subseteq j.read,
         \A w \in j.read : MayChange(w, granted'),
         j.change = "project" => SourcesGranted'
  PROVE  Reviewed'
<1>1. job' = j /\ pc' \in {"save", "update"}
  BY Zenon DEF Close, Go
<1> QED
  BY <1>1, Zenon DEF Reviewed, MayChange, FindingSteps

\* Nothing is left to change after Retry and after Return.
LEMMA RetryReviewed ==
  ASSUME JobShape, Retry \/ Return
  PROVE  Reviewed'
<1>1. (pc' = "save" \/ (pc' = "idle" /\ job' = NoJob)) /\ job'.read = {}
  <2>1. CASE Retry
    BY <2>1, Zenon DEF Retry, Go, JobShape, Shape
  <2>2. CASE Return
    BY <2>2, Zenon DEF Return, NoJob
  <2> QED BY <2>1, <2>2, Zenon
<1> QED
  BY <1>1, Zenon DEF Reviewed, FindingSteps

\* The worker is about to find its workloads, or finding them.
Finding == pc \in FindingSteps \cup {"reviewMapping"}

\* An error of Applications() leaves the workloads that were kept, of which
\* each has been reviewed.
LEMMA NoApplicationsReviewed ==
  ASSUME JobShape, Reviewed, Finding, NoApplications, granted \subseteq granted',
         UNCHANGED copy
  PROVE  Reviewed'
<1>1. /\ \A w \in job.read : MayChange(w, granted')
      /\ job.change = "none" /\ (UnbindRequested(copy) \/ SourcesGranted')
  BY Zenon DEF Reviewed, Finding, MayChange, SourcesGranted
<1>2. CASE UnbindRequested(copy)
  <2> DEFINE j == [job EXCEPT !.todo = job.read]
  <2>1. j.todo = j.read /\ j.read = job.read /\ j.change = "none"
    BY <1>1, Zenon DEF JobShape, Shape
  <2>2. Close(j)
    BY <1>2, Zenon DEF NoApplications
  <2> HIDE DEF j
  <2> QED BY <1>1, <2>1, <2>2, CloseReviewed, Zenon
<1>3. CASE ~UnbindRequested(copy)
  <2>1. SourcesGranted' /\ BindWithoutApplications
    BY <1>1, <1>3, Zenon DEF NoApplications
  <2>2. CASE Retry
    BY <2>2, RetryReviewed, Zenon
  <2> DEFINE j == [job EXCEPT !.todo = job.read, !.change = "project",
                              !.flow = AfterProjection]
             n == [job EXCEPT !.todo = job.read, !.flow = AfterProjection]
             m == [job EXCEPT !.calls = 2, !.todo = {}]
  <2>3. /\ j.todo = j.read /\ j.read = job.read
        /\ n.todo = n.read /\ n.read = job.read
        /\ m.read = job.read /\ m.change = "none"
    BY <1>1, Zenon DEF JobShape, Shape
  <2>4. Retry \/ Close(j) \/ Close(n) \/ Go("reviewMapping", m)
    BY <2>1, Zenon DEF BindWithoutApplications
  <2> HIDE DEF j, n, m
  <2>5. CASE Close(j) \/ Close(n)
    BY <1>1, <2>1, <2>3, <2>5, CloseReviewed, Zenon
  <2>6. CASE Go("reviewMapping", m)
    BY <1>1, <2>1, <2>3, <2>6, Zenon DEF Go, Reviewed, MayChange, FindingSteps
  <2> QED BY <2>2, <2>4, <2>5, <2>6, Zenon
<1> QED BY <1>2, <1>3, Zenon

\* Applications() answers with workloads of which each has been reviewed.
LEMMA HaveApplicationsReviewed ==
  ASSUME JobShape, Reviewed, Finding, NEW ws, HaveApplications(ws),
         granted \subseteq granted', \A w \in ws : MayChange(w, granted')
  PROVE  Reviewed'
<1>1. UnbindRequested(copy) \/ SourcesGranted'
  BY Zenon DEF Reviewed, Finding, SourcesGranted
<1>c. job.change = "none"
  BY Zenon DEF Reviewed, Finding
<1> DEFINE read == [job EXCEPT !.read = ws, !.todo = ws]
           j1 == [read EXCEPT !.change = "project", !.flow = AfterProjection]
           j2 == [read EXCEPT !.todo = ws \cap wl, !.change = "remove",
                              !.flow = IF copy.rebind THEN "again" ELSE "done"]
<1>2. /\ read.todo = ws /\ read.read = ws /\ read.change = "none"
      /\ j1.todo = ws /\ j1.read = ws
      /\ j2.todo \subseteq ws /\ j2.read = ws /\ j2.change = "remove"
  BY <1>c, Zenon DEF JobShape, Shape
<1>3. (Close(j1) /\ ~UnbindRequested(copy)) \/ Close(read) \/ Close(j2)
  BY Zenon DEF HaveApplications
<1> HIDE DEF read, j1, j2
<1>4. CASE Close(j1) /\ ~UnbindRequested(copy)
  BY <1>1, <1>2, <1>4, CloseReviewed, Zenon
<1>5. CASE Close(read)
  BY <1>2, <1>5, CloseReviewed, Zenon
<1>6. CASE Close(j2)
  BY <1>2, <1>6, CloseReviewed, Zenon
<1> QED BY <1>3, <1>4, <1>5, <1>6, Zenon

\* Every step keeps the shape of the context.
LEMMA JobShapeStep ==
  ASSUME JobShape, Reconcile
  PROVE  JobShape'
<1>none. Shape(NoJob)
  BY Zenon DEF Shape, NoJob
<1>update. ASSUME NEW x, NEW y
           PROVE  /\ Shape([job EXCEPT !.k = @ + 1]) /\ Shape([job EXCEPT !.calls = x])
                  /\ Shape([job EXCEPT !.todo = x]) /\ Shape([job EXCEPT !.todo = @ \ x])
                  /\ Shape([job EXCEPT !.todo = @ \ x, !.read = y])
  <2>1. Shape([job EXCEPT !.k = @ + 1]) /\ Shape([job EXCEPT !.calls = x])
    BY DEF JobShape, Shape
  <2>2. Shape([job EXCEPT !.todo = x]) /\ Shape([job EXCEPT !.todo = @ \ x])
    BY Zenon DEF JobShape, Shape
  <2>3. Shape([job EXCEPT !.todo = @ \ x, !.read = y])
    BY Zenon DEF JobShape, Shape
  <2> QED BY <2>1, <2>2, <2>3, Zenon
<1>go. \A step, j : Go(step, j) /\ Shape(j) => JobShape'
  BY Zenon DEF Go, JobShape
<1>close. \A j : Close(j) /\ Shape(j) => JobShape'
  BY <1>go, Zenon DEF Close
<1>return. Return => JobShape'
  BY <1>none, Zenon DEF Return, JobShape
<1>job. Shape(job)
  BY Zenon DEF JobShape
<1>retry. Retry => JobShape'
  <2>1. Shape([job EXCEPT !.flow = "retry", !.todo = {}, !.read = {}])
    BY Zenon DEF JobShape, Shape
  <2> QED BY <1>go, <2>1, Zenon DEF Retry
<1>no. NoApplications => JobShape'
  <2>1. /\ Shape([job EXCEPT !.todo = job.read])
        /\ Shape([job EXCEPT !.todo = job.read, !.change = "project", !.flow = AfterProjection])
    BY Zenon DEF JobShape, Shape
  <2>2. /\ Shape([job EXCEPT !.todo = job.read, !.flow = AfterProjection])
        /\ Shape([job EXCEPT !.calls = 2, !.todo = {}])
    BY Zenon DEF JobShape, Shape
  <2> QED BY <1>go, <1>close, <1>retry, <2>1, <2>2, Zenon
          DEF NoApplications, BindWithoutApplications
<1>have. ASSUME NEW ws, HaveApplications(ws) PROVE JobShape'
  <2> DEFINE read == [job EXCEPT !.read = ws, !.todo = ws]
  <2>1. Shape(read)
    BY Zenon DEF JobShape, Shape
  <2>2. /\ Shape([read EXCEPT !.change = "project", !.flow = AfterProjection])
        /\ Shape([read EXCEPT !.todo = ws \cap wl, !.change = "remove",
                              !.flow = IF copy.rebind THEN "again" ELSE "done"])
    <3> HIDE DEF read
    <3> QED BY <2>1, Zenon DEF Shape
  <2> QED BY <1>have, <1>close, <2>1, <2>2, Zenon DEF HaveApplications
<1>1. CASE Begin
  BY <1>1, <1>go, <1>none, <1>job, Zenon DEF Begin, JobShape
<1>2. CASE AddFinalizer
  BY <1>2, <1>go, <1>job, <1>return, Zenon DEF AddFinalizer
<1>3. CASE ReviewSource \/ ReadSource
  BY <1>3, <1>retry, <1>go, <1>update, <1>job, Zenon DEF ReviewSource, ReadSource
<1>4. CASE PersistSecret
  BY <1>4, <1>go, <1>update, <1>job, Zenon DEF PersistSecret
<1>5. CASE ReviewMapping \/ ReviewGet \/ ReviewUpdate \/ ReviewList
  BY <1>5, <1>no, <1>go, <1>job, Zenon DEF ReviewMapping, ReviewGet, ReviewUpdate, ReviewList
<1>6. CASE GetWorkload \/ ListWorkloads
  BY <1>6, <1>no, <1>have, <1>go, <1>update, <1>job, Zenon DEF GetWorkload, ListWorkloads
<1>7. CASE \E w \in Workloads : ReviewItem(w)
  BY <1>7, <1>no, <1>have, <1>go, <1>update, <1>job, Zenon DEF ReviewItem
<1>8. CASE \E w \in Workloads : UpdateWorkload(w)
  BY <1>8, <1>retry, <1>close, <1>update, <1>job, Zenon DEF UpdateWorkload
<1>9. CASE Save \/ RemoveFinalizer
  BY <1>9, <1>return, <1>go, <1>job, Zenon DEF Save, RemoveFinalizer
<1> QED
  BY <1>1, <1>2, <1>3, <1>4, <1>5, <1>6, <1>7, <1>8, <1>9, Zenon DEF Reconcile

\* Every step of the worker keeps the reviews ahead of what they are for.
LEMMA WorkerReviewed ==
  ASSUME JobShape, Reviewed, Reconcile
  PROVE  Reviewed'
<1>no. ASSUME Finding, NoApplications, granted \subseteq granted', UNCHANGED copy
       PROVE  Reviewed'
  BY <1>no, NoApplicationsReviewed, Zenon
<1>allowed. \A verb, x : Allowed(verb, x) =>
              granted \subseteq granted' /\ <<verb, x>> \in granted'
  BY Zenon DEF Allowed
<1>refused. \A verb, x : Refused(verb, x) \/ LookupFails => UNCHANGED granted
  BY Zenon DEF Refused, LookupFails
<1>next. ASSUME Finding, granted \subseteq granted', UNCHANGED <<copy, job>>
         PROVE  /\ job'.change = "none"
                /\ UnbindRequested(copy') \/ SourcesGranted'
                /\ \A w \in job'.read : MayChange(w, granted')
  BY <1>next, Zenon DEF Reviewed, Finding, SourcesGranted, MayChange
<1>first. ASSUME NEW o, Go(FirstHandler(o), NoJob), copy' = o
          PROVE  Reviewed'
  <2>1. /\ job' = NoJob /\ NoJob.k = 1 /\ NoJob.read = {} /\ NoJob.change = "none"
        /\ \/ pc' = "reviewMapping" /\ UnbindRequested(copy')
           \/ pc' = "reviewSource"
    BY <1>first, Zenon DEF Go, FirstHandler, NoJob
  <2>2. \A k \in DOMAIN Sources : ~(k < 1)
    BY AccessAssumption
  <2> QED BY <2>1, <2>2, Zenon DEF Reviewed, FindingSteps
<1>1. CASE Begin
  <2>1. CASE UNCHANGED <<pc, job>>
    <3>1. pc' = "idle" /\ job' = NoJob /\ NoJob.read = {}
      BY <1>1, <2>1, Zenon DEF Begin, Reviewed, NoJob
    <3> QED BY <3>1, Zenon DEF Reviewed, FindingSteps
  <2>2. CASE Go("finalizer", NoJob)
    <3>1. NoJob.read = {}
      BY Zenon DEF NoJob
    <3> QED BY <2>2, <3>1, Zenon DEF Go, Reviewed, FindingSteps
  <2>3. CASE Go(FirstHandler(sb), NoJob) /\ copy' = sb
    BY <2>3, <1>first, Zenon
  <2> QED BY <1>1, <2>1, <2>2, <2>3, Zenon DEF Begin
<1>2. CASE AddFinalizer
  <2>1. CASE Return
    BY <2>1, RetryReviewed, Zenon
  <2>2. job = NoJob
    BY <1>2, Zenon DEF AddFinalizer, Reviewed
  <2>3. CASE \E o : copy' = o /\ Go(FirstHandler(o), job)
    BY <2>2, <2>3, <1>first, Zenon
  <2> QED BY <1>2, <2>1, <2>3, Zenon DEF AddFinalizer
<1>3. CASE ReviewSource
  <2>1. CASE Retry
    BY <2>1, RetryReviewed, Zenon
  <2>2. CASE Allowed("get", Sources[job.k]) /\ Go("readSource", job)
    BY <1>3, <2>2, <1>allowed, Zenon DEF ReviewSource, Go, Reviewed, FindingSteps
  <2> QED BY <1>3, <2>1, <2>2, Zenon DEF ReviewSource
<1>4. CASE ReadSource
  <2>1. CASE Retry
    BY <2>1, RetryReviewed, Zenon
  <2>2. granted' = granted /\ job.k \in Nat
        /\ (\A k \in DOMAIN Sources : k < job.k \/ k = job.k => <<"get", Sources[k]>> \in granted)
        /\ (\A w \in job.read : MayChange(w, granted)) /\ job.change = "none"
    BY <1>4, Zenon DEF ReadSource, Reviewed, JobShape, Shape, MayChange
  <2>3. CASE job.k < Len(Sources) /\ Go("reviewSource", [job EXCEPT !.k = @ + 1])
    <3>1. job' = [job EXCEPT !.k = @ + 1] /\ job'.k = job.k + 1 /\ job'.read = job.read
          /\ job'.change = job.change
      BY <2>3, Zenon DEF Go, JobShape, Shape
    <3>2. \A k \in DOMAIN Sources : k < job.k + 1 => k < job.k \/ k = job.k
      BY <2>2, AccessAssumption
    <3> QED BY <2>2, <2>3, <3>1, <3>2, Zenon DEF Go, Reviewed, FindingSteps, MayChange
  <2>4. CASE ~(job.k < Len(Sources)) /\ Go("secret", job)
    <3>1. \A k \in DOMAIN Sources : k < job.k \/ k = job.k
      BY <2>2, <2>4, AccessAssumption
    <3> QED BY <2>2, <2>4, <3>1, Zenon DEF Go, Reviewed, FindingSteps, MayChange, SourcesGranted
  <2> QED BY <1>4, <2>1, <2>3, <2>4, Zenon DEF ReadSource
<1>5. CASE PersistSecret
  <2> DEFINE j == [job EXCEPT !.calls = 1]
  <2>1. j.read = job.read /\ j.change = job.change
    BY Zenon DEF JobShape, Shape
  <2>2. granted' = granted /\ SourcesGranted /\ job.change = "none"
        /\ \A w \in job.read : MayChange(w, granted)
    BY <1>5, Zenon DEF PersistSecret, Reviewed, MayChange
  <2>3. pc' = "reviewMapping" /\ job' \in {job, j}
    BY <1>5, Zenon DEF PersistSecret, Go
  <2> HIDE DEF j
  <2> QED BY <2>1, <2>2, <2>3, Zenon DEF Reviewed, FindingSteps, MayChange, SourcesGranted
<1>6. CASE ReviewMapping \/ ReviewGet \/ ReviewUpdate \/ ReviewList
  <2>1. Finding /\ UNCHANGED copy
    BY <1>6, Zenon
       DEF ReviewMapping, ReviewGet, ReviewUpdate, ReviewList, Finding, FindingSteps, calling
  <2>2. CASE NoApplications /\ UNCHANGED granted
    BY <2>1, <2>2, <1>no, Zenon
  <2>3. ASSUME NEW verb, NEW x, Allowed(verb, x), UNCHANGED job
        PROVE  /\ job'.change = "none" /\ (UnbindRequested(copy') \/ SourcesGranted')
               /\ \A w \in job'.read : MayChange(w, granted')
               /\ granted \subseteq granted' /\ <<verb, x>> \in granted'
    BY <2>1, <2>3, <1>allowed, <1>next, Zenon
  <2>4. CASE /\ Allowed("get", Mapping) /\ UNCHANGED job
             /\ pc' \in {"reviewList", "reviewGet"}
    BY <2>3, <2>4, Zenon DEF Reviewed, FindingSteps, MayChange
  <2>5. CASE /\ pc = "reviewGet" /\ Allowed("get", copy.ref) /\ UNCHANGED job
             /\ pc' = "reviewUpdate"
    BY <2>1, <2>3, <2>5, Zenon DEF Reviewed, FindingSteps, MayChange
  <2>6. CASE /\ pc = "reviewUpdate" /\ Allowed("update", copy.ref) /\ UNCHANGED job
             /\ pc' = "getWorkload"
    BY <2>1, <2>3, <2>6, Zenon DEF Reviewed, FindingSteps, MayChange
  <2>7. CASE /\ pc = "reviewList" /\ Allowed("list", Selector) /\ UNCHANGED job
             /\ pc' = "listWorkloads"
    BY <2>1, <2>3, <2>7, Zenon DEF Reviewed, FindingSteps, MayChange
  <2> QED
    BY <1>6, <1>refused, <2>2, <2>4, <2>5, <2>6, <2>7, Zenon
    DEF ReviewMapping, ReviewGet, ReviewUpdate, ReviewList, Go
<1>7. CASE GetWorkload
  <2>1. Finding /\ granted' = granted /\ MayChange(copy.ref, granted)
    BY <1>7, Zenon DEF GetWorkload, Finding, FindingSteps, Reviewed, MayChange
  <2>2. CASE HaveApplications({copy.ref})
    BY <2>1, <2>2, HaveApplicationsReviewed, Zenon
  <2> QED BY <1>7, <2>1, <2>2, <1>no, Zenon DEF GetWorkload
<1>8. CASE ListWorkloads
  <2>1. Finding /\ granted' = granted /\ UNCHANGED copy
    BY <1>8, Zenon DEF ListWorkloads, Finding, FindingSteps, calling
  <2> DEFINE j == [job EXCEPT !.todo = Workloads]
  <2>2. j.read = job.read /\ j.change = job.change
    BY Zenon DEF JobShape, Shape
  <2>3. CASE Go("reviewItem", j)
    <3> HIDE DEF j
    <3> QED BY <1>8, <2>1, <2>2, <2>3, Zenon
            DEF ListWorkloads, Go, Reviewed, FindingSteps, MayChange, SourcesGranted
  <2> QED BY <1>8, <2>1, <2>3, <1>no, Zenon DEF ListWorkloads
<1>9. CASE \E w \in Workloads : ReviewItem(w)
  <2>1. PICK w \in Workloads : ReviewItem(w)
    BY <1>9, Zenon
  <2> DEFINE ws == job.read \cup {w}
             j == [job EXCEPT !.todo = @ \ {w}, !.read = ws]
  <2>2. Finding
    BY <2>1, Zenon DEF ReviewItem, Finding, FindingSteps
  <2>3. CASE Refused("update", w) /\ NoApplications /\ UNCHANGED copy
    BY <2>2, <2>3, <1>no, <1>refused, Zenon
  <2>4. ItemAllowed(w) => granted \subseteq granted' /\ \A v \in ws : MayChange(v, granted')
    <3>1. /\ {<<"get", Mapping>>, <<"list", Selector>>} \subseteq granted
          /\ \A v \in job.read : MayChange(v, granted)
      BY <2>1, Zenon DEF ReviewItem, Reviewed, FindingSteps, MayChange
    <3>2. ItemAllowed(w) => granted \subseteq granted' /\ <<"update", w>> \in granted'
      BY <1>allowed, Zenon DEF ItemAllowed
    <3> QED
      BY <3>1, <3>2, Zenon DEF MayChange
  <2>5. CASE ItemAllowed(w) /\ HaveApplications(ws)
    <3> HIDE DEF ws
    <3> QED BY <2>2, <2>4, <2>5, HaveApplicationsReviewed, Zenon
  <2>6. CASE ItemAllowed(w) /\ Go("reviewItem", j) /\ UNCHANGED copy
    <3>1. j.read = ws /\ j.change = job.change
      BY Zenon DEF JobShape, Shape
    <3> HIDE DEF j, ws
    <3> QED BY <2>1, <2>4, <2>6, <3>1, Zenon
            DEF ReviewItem, Go, Reviewed, FindingSteps, MayChange, SourcesGranted
  <2> QED BY <2>1, <2>3, <2>5, <2>6, Zenon DEF ReviewItem
<1>10. CASE \E w \in Workloads : UpdateWorkload(w)
  <2>1. PICK w \in Workloads : UpdateWorkload(w)
    BY <1>10, Zenon
  <2> DEFINE j == [job EXCEPT !.todo = @ \ {w}]
  <2>2. /\ j.read = job.read /\ j.change = job.change /\ j.todo = job.todo \ {w}
    BY Zenon DEF JobShape, Shape
  <2>3. CASE Retry
    BY <2>3, RetryReviewed, Zenon
  <2>4. /\ \A v \in job.read : MayChange(v, granted')
        /\ job.change = "project" => SourcesGranted'
        /\ job.todo \subseteq job.read
    BY <2>1, Zenon DEF UpdateWorkload, Reviewed, MayChange, SourcesGranted
  <2>5. CASE Close(j)
    <3> HIDE DEF j
    <3> QED BY <2>2, <2>4, <2>5, CloseReviewed, Zenon
  <2> QED BY <2>1, <2>3, <2>5, Zenon DEF UpdateWorkload
<1>11. CASE Save
  <2>1. CASE Return
    BY <2>1, RetryReviewed, Zenon
  <2>2. CASE Go("remove", job) /\ UNCHANGED granted
    BY <1>11, <2>2, Zenon DEF Save, Go, Reviewed, FindingSteps
  <2> QED BY <1>11, <2>1, <2>2, Zenon DEF Save
<1>12. CASE RemoveFinalizer
  BY <1>12, RetryReviewed, Zenon DEF RemoveFinalizer
<1> QED
  BY <1>1, <1>2, <1>3, <1>4, <1>5, <1>6, <1>7, <1>8, <1>9, <1>10, <1>11, <1>12, Zenon
     DEF Reconcile

\* A workload is changed only after the requester of the worker's copy was
\* found to be allowed to find it, to update it and, when it is bound, to read
\* every source (canPerform in Services and Applications), for any number of
\* sources and workloads and whichever call fails.
THEOREM ReviewedChanges ==
  Spec => ChangesReviewed
<1>1. Init => JobShape /\ Reviewed
  BY DEF Init, JobShape, Shape, NoJob, Reviewed, FindingSteps
<1>2. JobShape /\ Reviewed /\ [Next]_vars => JobShape' /\ Reviewed'
  <2>1. ASSUME JobShape, Reviewed, UNCHANGED <<pc, copy, job, granted>>
        PROVE  JobShape' /\ Reviewed'
    BY <2>1, Zenon DEF JobShape, Reviewed, SourcesGranted
  <2>2. (Outside \/ Annotate \/ UNCHANGED vars) => UNCHANGED <<pc, copy, job, granted>>
    BY Zenon DEF Outside, Annotate, Create, Update, Request, Delete, Grant, Revoke, List, vars
  <2> QED BY <2>1, <2>2, WorkerReviewed, JobShapeStep, Zenon DEF Next
<1>3. Reviewed /\ [Next]_vars =>
        [\A w \in Workloads : (w \in wl) # (w \in wl') =>
           /\ {<<"update", w>>, <<"get", Mapping>>} \subseteq granted
           /\ {<<"get", w>>, <<"list", Selector>>} \cap granted # {}
           /\ w \in wl' => \A k \in DOMAIN Sources : <<"get", Sources[k]>> \in granted]_vars
  <2>1. ASSUME Reviewed, NEW v \in Workloads, UpdateWorkload(v)
        PROVE  \A w \in Workloads : (w \in wl) # (w \in wl') =>
                 /\ w = v /\ w \in job.read
                 /\ w \in wl' => SourcesGranted
    BY <2>1 DEF UpdateWorkload, Reviewed
  <2>2. [Next]_vars => UNCHANGED wl \/ \E v \in Workloads : UpdateWorkload(v)
    BY Zenon
       DEF Next, Outside, Annotate, Create, Update, Request, Delete, Grant, Revoke, List, vars,
       Reconcile, Begin, AddFinalizer, ReviewSource, ReadSource, PersistSecret, ReviewMapping,
       ReviewGet, ReviewUpdate, GetWorkload, ReviewList, ListWorkloads, ReviewItem, Save,
       RemoveFinalizer, calling
  <2> QED BY <2>1, <2>2 DEF Reviewed, SourcesGranted
<1> QED
  BY <1>1, <1>2, <1>3, PTL DEF Spec, ChangesReviewed

\* The context of the worker, and the reviews that it has made.
WorkTypes ==
  pc \in Steps /\ job \in Jobs /\ granted \subseteq Reviews /\ Named

RestTypes ==
  /\ author \in Users \cup {NoUser} /\ perms \subseteq Permissions
  /\ wl \subseteq Workloads /\ {queue, current, listed} \subseteq BOOLEAN
  /\ faults \in 0..MaxFaults /\ env \in 0..MaxEnv

LEMMA ReviewTypes ==
  /\ \A k \in DOMAIN Sources : <<"get", Sources[k]>> \in Reviews
  /\ <<"get", Mapping>> \in Reviews /\ <<"list", Selector>> \in Reviews
  /\ \A w \in Workloads : <<"get", w>> \in Reviews /\ <<"update", w>> \in Reviews
<1>1. Selector \in Refs /\ \A w \in Workloads : w \in Refs /\ w # Selector
  BY AccessAssumption, Zenon DEF Refs
<1>2. \A ref \in Refs : Needed(ref) \subseteq Reviews
  BY Zenon DEF Reviews
<1>3. /\ \A k \in DOMAIN Sources : <<"get", Sources[k]>> \in Needed(Selector)
      /\ <<"get", Mapping>> \in Needed(Selector) /\ <<"list", Selector>> \in Needed(Selector)
  BY Zenon DEF Needed
<1>4. \A w \in Workloads : <<"get", w>> \in Needed(w) /\ <<"update", w>> \in Needed(w)
  BY <1>1, Zenon DEF Needed
<1> QED BY <1>1, <1>2, <1>3, <1>4, Zenon

\* Every step of the worker keeps the types of its context.
LEMMA WorkStep ==
  ASSUME Shapes, WorkTypes, RestTypes, Reconcile
  PROVE  WorkTypes'
<1>none. NoJob \in Jobs
  BY AccessAssumption DEF NoJob, Jobs
<1>go. \A step \in Steps, j \in Jobs :
         Go(step, j) /\ granted' \subseteq Reviews
           /\ (step \in {"reviewGet", "reviewUpdate", "getWorkload"} => copy'.ref # Selector)
           => WorkTypes'
  BY Zenon DEF Go, WorkTypes, Named
<1>other. \A step \in Steps \ {"reviewGet", "reviewUpdate", "getWorkload"}, j \in Jobs :
           Go(step, j) /\ granted' \subseteq Reviews => WorkTypes'
  BY <1>go, Zenon
<1>steps. {"idle", "finalizer", "reviewSource", "readSource", "secret", "reviewMapping",
           "reviewGet", "reviewUpdate", "getWorkload", "reviewList", "listWorkloads",
           "reviewItem", "update", "save", "remove"} \subseteq Steps
  BY Zenon DEF Steps
<1>job. job \in Jobs /\ job.read \subseteq Workloads /\ job.todo \subseteq Workloads
  BY Zenon DEF WorkTypes, Jobs
<1>granted. /\ UNCHANGED granted => granted' \subseteq Reviews
            /\ \A verb, x : Refused(verb, x) => granted' \subseteq Reviews
            /\ \A verb, x : Allowed(verb, x) /\ <<verb, x>> \in Reviews => granted' \subseteq Reviews
            /\ LookupFails => granted' \subseteq Reviews
  BY Zenon DEF WorkTypes, Refused, Allowed, LookupFails
<1>close. ASSUME NEW j \in Jobs, Close(j), granted' \subseteq Reviews
          PROVE  WorkTypes'
  BY <1>close, <1>go, <1>steps, Zenon DEF Close
<1>retry. ASSUME Retry, granted' \subseteq Reviews
          PROVE  WorkTypes'
  <2>1. [job EXCEPT !.flow = "retry", !.todo = {}, !.read = {}] \in Jobs
    BY <1>job, Zenon DEF Jobs
  <2> QED BY <1>retry, <1>other, <1>steps, <2>1, Zenon DEF Retry
<1>return. ASSUME Return, granted' \subseteq Reviews
           PROVE  WorkTypes'
  BY <1>return, <1>none, <1>steps, Zenon DEF Return, WorkTypes, Named
<1>after. AfterProjection \in {"done", "again", "retry"}
  BY Zenon DEF AfterProjection
<1>no. ASSUME NoApplications, granted' \subseteq Reviews
       PROVE  WorkTypes'
  <2>1. [job EXCEPT !.todo = job.read] \in Jobs
    BY <1>job, Zenon DEF Jobs
  <2>2. [job EXCEPT !.todo = job.read, !.flow = AfterProjection] \in Jobs
    BY <1>job, <1>after, Zenon DEF Jobs
  <2>3. [job EXCEPT !.todo = job.read, !.change = "project", !.flow = AfterProjection] \in Jobs
    BY <1>job, <1>after, Zenon DEF Jobs
  <2>4. [job EXCEPT !.calls = 2, !.todo = {}] \in Jobs
    <3>1. 2 \in 0..2
      OBVIOUS
    <3> QED BY <1>job, <3>1, Zenon DEF Jobs
  <2> QED
    BY <1>no, <1>go, <1>close, <1>retry, <1>steps, <2>1, <2>2, <2>3, <2>4, Zenon
       DEF NoApplications, BindWithoutApplications
<1>have. ASSUME NEW ws \in SUBSET Workloads, HaveApplications(ws), granted' \subseteq Reviews
         PROVE  WorkTypes'
  <2> DEFINE read == [job EXCEPT !.read = ws, !.todo = ws]
             fl == IF copy.rebind THEN "again" ELSE "done"
  <2>1. read \in Jobs
    BY <1>job, Zenon DEF Jobs
  <2> HIDE DEF read
  <2>2. [read EXCEPT !.change = "project", !.flow = AfterProjection] \in Jobs
    BY <1>after, <2>1, Zenon DEF Jobs
  <2>3. [read EXCEPT !.todo = ws \cap wl, !.change = "remove", !.flow = fl] \in Jobs
    <3>1. ws \cap wl \in SUBSET Workloads /\ fl \in {"done", "again", "retry"}
      BY Zenon
    <3> HIDE DEF fl
    <3> QED BY <2>1, <3>1, Zenon DEF Jobs
  <2> QED BY <1>have, <1>close, <2>1, <2>2, <2>3, Zenon DEF HaveApplications, read
<1>refs. copy.ref \in Workloads \cup {Selector}
  BY Zenon DEF Shapes, Objects, Refs
<1>1. CASE Begin
  BY <1>1, <1>none, <1>steps, <1>go, Zenon DEF Begin, FirstHandler, WorkTypes, Named
<1>2. CASE AddFinalizer
  BY <1>2, <1>go, <1>job, <1>return, <1>steps, <1>granted, Zenon DEF AddFinalizer, FirstHandler
<1>3. CASE ReviewSource
  <2>1. <<"get", Sources[job.k]>> \in Reviews
    BY <1>job, ReviewTypes, Zenon DEF Jobs
  <2> QED
    BY <1>3, <1>retry, <1>go, <1>job, <1>steps, <1>granted, <2>1, Zenon DEF ReviewSource
<1>4. CASE ReadSource
  <2>1. job.k < Len(Sources) => [job EXCEPT !.k = @ + 1] \in Jobs
    <3>1. DOMAIN Sources = 1..Len(Sources) /\ Len(Sources) \in Nat
      BY AccessAssumption
    <3>2. job.k < Len(Sources) => job.k + 1 \in DOMAIN Sources
      BY <1>job, <3>1 DEF Jobs
    <3> QED BY <1>job, <3>2, Zenon DEF Jobs
  <2> QED
    BY <1>4, <1>retry, <1>go, <1>job, <1>steps, <1>granted, <2>1, Zenon DEF ReadSource
<1>5. CASE PersistSecret
  <2>1. [job EXCEPT !.calls = 1] \in Jobs
    BY <1>job DEF Jobs
  <2> QED
    BY <1>5, <1>go, <1>job, <1>steps, <1>granted, <2>1, Zenon DEF PersistSecret
<1>6. CASE ReviewMapping
  <2>1. UNCHANGED copy
    BY <1>6, Zenon DEF ReviewMapping, calling
  <2> QED
    BY <1>6, <1>no, <1>go, <1>job, <1>steps, <1>granted, <2>1, ReviewTypes, Zenon
       DEF ReviewMapping
<1>7. CASE ReviewGet \/ ReviewUpdate
  <2>1. UNCHANGED copy /\ copy.ref # Selector /\ copy.ref \in Workloads
    BY <1>7, <1>refs, Zenon DEF ReviewGet, ReviewUpdate, calling, WorkTypes, Named
  <2>2. <<"get", copy.ref>> \in Reviews /\ <<"update", copy.ref>> \in Reviews
    BY <2>1, ReviewTypes, Zenon
  <2> QED
    BY <1>7, <1>no, <1>go, <1>job, <1>steps, <1>granted, <2>1, <2>2, Zenon
       DEF ReviewGet, ReviewUpdate
<1>8. CASE GetWorkload
  <2>1. {copy.ref} \in SUBSET Workloads
    BY <1>8, <1>refs, Zenon DEF GetWorkload, WorkTypes, Named
  <2> QED BY <1>8, <1>no, <1>have, <1>granted, <2>1, Zenon DEF GetWorkload
<1>9. CASE ReviewList \/ ListWorkloads
  <2>1. [job EXCEPT !.todo = Workloads] \in Jobs
    BY <1>job, Zenon DEF Jobs
  <2> QED
    BY <1>9, <1>no, <1>go, <1>job, <1>steps, <1>granted, <2>1, ReviewTypes, Zenon
       DEF ReviewList, ListWorkloads
<1>10. ASSUME NEW w \in Workloads, ReviewItem(w) PROVE WorkTypes'
  <2>1. [job EXCEPT !.todo = @ \ {w}, !.read = job.read \cup {w}] \in Jobs
        /\ job.read \cup {w} \in SUBSET Workloads
    BY <1>job, Zenon DEF Jobs
  <2> QED
    BY <1>10, <1>no, <1>have, <1>go, <1>steps, <1>granted, <2>1, ReviewTypes, Zenon
       DEF ReviewItem, ItemAllowed
<1>11. ASSUME NEW w \in Workloads, UpdateWorkload(w) PROVE WorkTypes'
  <2>1. [job EXCEPT !.todo = @ \ {w}] \in Jobs
    BY <1>job, Zenon DEF Jobs
  <2> QED BY <1>11, <1>retry, <1>close, <1>granted, <2>1, Zenon DEF UpdateWorkload
<1>12. CASE Save \/ RemoveFinalizer
  BY <1>12, <1>return, <1>go, <1>job, <1>steps, <1>granted, Zenon DEF Save, RemoveFinalizer
<1> QED
  BY <1>1, <1>2, <1>3, <1>4, <1>5, <1>6, <1>7, <1>8, <1>9, <1>10, <1>11, <1>12, Zenon
     DEF Reconcile

\* What the users, the webhooks and the API server hold keeps its types.
LEMMA RestStep ==
  ASSUME Shapes, WorkTypes, RestTypes, [Next]_vars
  PROVE  RestTypes'
<1> USE DEF RestTypes
<1>faults. /\ Succeeds => faults' \in 0..MaxFaults
           /\ \A call : Fails(call) => faults' \in 0..MaxFaults
           /\ \A verb, x : Allowed(verb, x) \/ Refused(verb, x) => faults' \in 0..MaxFaults
           /\ LookupFails => faults' \in 0..MaxFaults
  BY AccessAssumption DEF Succeeds, Fails, Allowed, Refused, LookupFails
<1>env. \A change : Happens(change) => env' \in 0..MaxEnv
  BY AccessAssumption DEF Happens
<1>put. \A o, q : Put(o, q) => queue' \in BOOLEAN /\ listed' \in BOOLEAN
  BY Zenon DEF Put
<1>return. Return => current' \in BOOLEAN
  BY Zenon DEF Return
<1>same. queue \in BOOLEAN /\ listed \in BOOLEAN /\ current \in BOOLEAN
  BY Zenon
<1>1. ASSUME Reconcile
      PROVE  {queue', current', listed'} \subseteq BOOLEAN /\ faults' \in 0..MaxFaults
  <2>1. CASE Begin
    BY <2>1, <1>same, Zenon DEF Begin
  <2>2. CASE AddFinalizer \/ Save \/ RemoveFinalizer
    <3>1. queue' \in BOOLEAN /\ listed' \in BOOLEAN
      BY <2>2, <1>put, Zenon DEF AddFinalizer, Save, RemoveFinalizer
    <3>2. current' \in BOOLEAN
      BY <2>2, <1>return, <1>same, Zenon DEF AddFinalizer, Save, RemoveFinalizer
    <3>3. faults' \in 0..MaxFaults
      BY <2>2, <1>faults, Zenon DEF AddFinalizer, Save, RemoveFinalizer
    <3> QED BY <3>1, <3>2, <3>3, Zenon
  <2>3. CASE PersistSecret
    <3>1. queue' \in BOOLEAN /\ listed' \in BOOLEAN
      BY <2>3, <1>put, <1>same, Zenon DEF PersistSecret
    <3>2. current' \in BOOLEAN
      BY <2>3, <1>same, Zenon DEF PersistSecret
    <3>3. faults' \in 0..MaxFaults
      BY <2>3, <1>faults, Zenon DEF PersistSecret
    <3> QED BY <3>1, <3>2, <3>3, Zenon
  <2>4. CASE \/ ReviewSource \/ ReadSource \/ ReviewMapping \/ ReviewGet \/ ReviewUpdate
             \/ GetWorkload \/ ReviewList \/ ListWorkloads
             \/ \E w \in Workloads : ReviewItem(w) \/ UpdateWorkload(w)
    <3>1. UNCHANGED <<queue, current, listed>>
      BY <2>4, Zenon
         DEF ReviewSource, ReadSource, ReviewMapping, ReviewGet, ReviewUpdate, GetWorkload,
                  ReviewList, ListWorkloads, ReviewItem, UpdateWorkload, calling, api
    <3>2. faults' \in 0..MaxFaults
      BY <2>4, <1>faults, Zenon
         DEF ReviewSource, ReadSource, ReviewMapping, ReviewGet, ReviewUpdate, GetWorkload,
             ReviewList, ListWorkloads, ReviewItem, ItemAllowed, UpdateWorkload
    <3> QED BY <1>same, <3>1, <3>2, Zenon
  <2> QED BY <1>1, <2>1, <2>2, <2>3, <2>4, Zenon DEF Reconcile
<1>2. ASSUME Reconcile
      PROVE  UNCHANGED <<author, perms, env>> /\ wl' \subseteq Workloads
  <2>1. CASE \E w \in Workloads : UpdateWorkload(w)
    BY <2>1, Zenon DEF UpdateWorkload, api
  <2>2. CASE ~\E w \in Workloads : UpdateWorkload(w)
    BY <1>2, <2>2, Zenon
       DEF Reconcile, Begin, AddFinalizer, ReviewSource, ReadSource, PersistSecret,
       ReviewMapping, ReviewGet, ReviewUpdate, GetWorkload, ReviewList, ListWorkloads, ReviewItem,
       Save, RemoveFinalizer, calling, api
  <2> QED BY <2>1, <2>2, Zenon
<1>3. ASSUME NEW u \in Users, NEW o, Request(u, o), env' \in 0..MaxEnv
      PROVE  RestTypes'
  <2>1. current' \in BOOLEAN
    BY <1>3, Zenon DEF Request
  <2> QED BY <1>3, <1>put, <2>1, Zenon DEF Request
<1>4. CASE \E u \in Users, ref \in Refs : Create(u, ref) \/ Update(u, ref)
  BY <1>3, <1>4, <1>env, Zenon DEF Create, Update
<1>5. CASE \E p \in Changing : Grant(p) \/ Revoke(p)
  BY <1>5, <1>env, AccessAssumption, Zenon DEF Grant, Revoke, api
<1>6. CASE Delete
  BY <1>6, <1>env, <1>put, Zenon DEF Delete
<1>7. CASE List
  BY <1>7, <1>env, Zenon DEF List
<1>8. CASE Annotate
  <2>1. queue' \in BOOLEAN /\ current' \in BOOLEAN
    BY <1>8, Zenon DEF Annotate
  <2> QED BY <1>8, <2>1, Zenon DEF Annotate
<1>9. CASE UNCHANGED vars
  BY <1>9, Zenon DEF vars, api
<1> QED
  BY <1>1, <1>2, <1>4, <1>5, <1>6, <1>7, <1>8, <1>9, Zenon DEF Next, Outside

\* The types of the access reviews: with token authentication nobody but a
\* user is ever recorded, and no review is made but those that a reference of
\* the binding calls for, a lookup by name only where there is a name.
THEOREM AccessTypes ==
  ASSUME TokenAuth
  PROVE  Spec => []TypeOK
<1>1. Init => WorkTypes /\ RestTypes
  <2>1. NoJob \in Jobs
    BY AccessAssumption DEF NoJob, Jobs
  <2>2. Init => WorkTypes
    BY <2>1, Zenon DEF Init, WorkTypes, Named, Steps
  <2>3. Init => sb \in Objects
    BY NewShape, Zenon DEF Init
  <2>4. Init => RestTypes
    <3> SUFFICES ASSUME Init PROVE RestTypes
      BY Zenon
    <3>1. queue \in BOOLEAN
      BY <2>3, Zenon DEF Init, Objects
    <3>2. {queue, current, listed} \subseteq BOOLEAN
      BY <3>1, Zenon DEF Init
    <3>3. faults \in 0..MaxFaults /\ env \in 0..MaxEnv
      BY AccessAssumption DEF Init
    <3>4. author \in Users \cup {NoUser} /\ perms \subseteq Permissions /\ wl \subseteq Workloads
      BY AccessAssumption, Zenon DEF Init
    <3> QED BY <3>2, <3>3, <3>4, Zenon DEF RestTypes
  <2> QED BY <2>2, <2>4, Zenon
<1>2. Shapes /\ WorkTypes /\ RestTypes /\ [Next]_vars => WorkTypes' /\ RestTypes'
  <2>1. ASSUME WorkTypes, UNCHANGED <<pc, copy, job, granted>>
        PROVE  WorkTypes'
    BY <2>1, Zenon DEF WorkTypes, Named
  <2>2. (Outside \/ Annotate \/ UNCHANGED vars) => UNCHANGED <<pc, copy, job, granted>>
    BY Zenon DEF Outside, Annotate, Create, Update, Request, Delete, Grant, Revoke, List, vars
  <2> QED BY <2>1, <2>2, WorkStep, RestStep, Zenon DEF Next
<1>3. Shapes /\ WorkTypes /\ RestTypes => TypeOK
  BY Zenon DEF Shapes, WorkTypes, RestTypes, TypeOK
<1> QED
  BY <1>1, <1>2, <1>3, RecordedInvariant, PTL DEF Spec

=============================================================================
