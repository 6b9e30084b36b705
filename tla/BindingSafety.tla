---------------------------- MODULE BindingSafety ---------------------------
(***************************************************************************)
(* The inductive invariant of BindingReconciler, TypeOK /\ Coherent, and   *)
(* the safety properties that follow from it; then the invariant Isolated, *)
(* and what it says of the writes to a shared workload.                    *)
(*                                                                         *)
(* First: every step keeps the variables well-typed, given that the        *)
(* worker's job is coherent (see Coherent), and the steps of a worker on   *)
(* binding b keep the copies of b that the informer and the worker hold    *)
(* coherent with the stored object.                                        *)
(***************************************************************************)
EXTENDS BindingReconciler, TLAPS

LEMMA BindingTypes ==
  /\ NoBinding \in Objects
  /\ \A ref \in Refs : NewBinding(ref) \in Objects
BY Zenon DEF NoBinding, NewBinding, Objects, Refs, Conditions, NoConditions

LEMMA JobTypes == Bare \in Contents /\ NoJob \in Jobs
BY Zenon DEF Bare, Contents, NoJob, Jobs, FlowStatus

LEMMA NoJobFields == NoJob.todo = {} /\ NoJob.saving = "close"
BY Zenon DEF NoJob

LEMMA SecretNameType ==
  ASSUME NEW b \in Bindings, NEW d \in Data
  PROVE  SecretName(b, d) \in SecretNames /\ SecretName(b, d) # NoSecret
<1>1. CASE b \in Provisioned
  <2>1. SecretName(b, d) = Provided[b]
    BY <1>1, Zenon DEF SecretName
  <2>2. Provided[b] \in ProvidedSecrets /\ Provided[b] # NoSecret
    BY <1>1, ConstantsAssumption, Zenon DEF ProvidedSecrets
  <2> QED BY <2>1, <2>2, Zenon DEF SecretNames
<1>2. CASE b \notin Provisioned
  <2>1. <<b, d>> \in Bindings \X Data
    OBVIOUS
  <2> QED BY <1>2, <2>1, ConstantsAssumption, Zenon DEF SecretName, SecretNames
<1> QED BY <1>1, <1>2, Zenon

LEMMA ProjectType ==
  ASSUME NEW b \in Bindings, NEW s \in SecretNames \cup {NoSecret}, NEW c \in Contents
  PROVE  /\ s # NoSecret => Project(b, s, c) \in Contents
         /\ Unproject(b, s, c) \in Contents
BY ConstantsAssumption, Zenon DEF Project, Unproject, Contents

LEMMA ConditionTypes ==
  ASSUME NEW o \in Objects
  PROVE  /\ \A r \in {"ApplicationsBound", "ProcessingError", "ApplicationUpdateError",
                      "ErrorPersistingSecret"} : SetReady(o, r) \in Objects
         /\ \A r \in {"DataCollected", "ErrorReading", "InvalidAnnotation", ""} :
               SetCollection(o, r) \in Objects
         /\ \A r \in {"ApplicationUpdated", "ApplicationNotFound", "EmptyApplication",
                      "NoBindingData",
                      "RequiredBindingNotFound", "Error"} : SetInjection(o, r) \in Objects
BY Zenon DEF SetReady, SetCollection, SetInjection, Objects, Conditions


(***************************************************************************)
(* Type correctness                                                        *)
(***************************************************************************)

WorkerType ==
  /\ pc \in [Bindings -> Steps]
  /\ local \in [Bindings -> Objects]
  /\ current \subseteq Bindings
  /\ job \in [Bindings -> Jobs]
  /\ fresh \subseteq Bindings \X Workloads

LEMMA ContinueType ==
  ASSUME WorkerType, NEW b \in Bindings, NEW step \in Steps, NEW o \in Objects,
         NEW j \in Jobs, Continue(b, step, o, j)
  PROVE  /\ pc' \in [Bindings -> Steps]
         /\ local' \in [Bindings -> Objects]
         /\ job' \in [Bindings -> Jobs]
BY Zenon DEF WorkerType, Continue

LEMMA DoneType ==
  ASSUME WorkerType, queue \subseteq Bindings, NEW b \in Bindings,
         NEW requeue \in BOOLEAN, Done(b, requeue)
  PROVE  WorkerType' /\ queue' \subseteq Bindings
BY BindingTypes, JobTypes, Zenon DEF WorkerType, Done, Steps

LEMMA CloseType ==
  ASSUME WorkerType, NEW b \in Bindings, NEW o \in Objects, NEW j \in Jobs,
         Close(b, o, j), UNCHANGED current
  PROVE  WorkerType'
<1>1. SetReady(o, "ProcessingError") \in Objects /\ SetReady(o, "ApplicationsBound") \in Objects
  BY ConditionTypes, Zenon
<1>2. j.todo \subseteq Workloads
  BY Zenon DEF Jobs
<1>3. fresh' \subseteq Bindings \X Workloads
  BY <1>2, Zenon DEF Close, WorkerType
<1>4. PICK step \in Steps, p \in Objects : Continue(b, step, p, j)
  BY <1>1, Zenon DEF Close, Steps
<1> QED
  BY <1>3, <1>4, ContinueType, Zenon DEF WorkerType

LEMMA PutType ==
  ASSUME sb \in [Bindings -> Objects], cached \subseteq Bindings, dirty \subseteq Bindings,
         NEW b \in Bindings, NEW o \in Objects, Put(b, o)
  PROVE  /\ sb' \in [Bindings -> Objects]
         /\ cached' \subseteq Bindings /\ dirty' \subseteq Bindings
BY Zenon DEF Put

LEMMA FlowType ==
  ASSUME WorkerType, NEW b \in Bindings, NEW status \in FlowStatus
  PROVE  Flow(b, status) \in Jobs
<1>1. job[b] \in Jobs
  BY Zenon DEF WorkerType
<1> QED
  BY <1>1, Zenon DEF Flow, Jobs

LEMMA WithApplicationsType ==
  ASSUME NEW j \in Jobs, NEW ws \in SUBSET Workloads, NEW f, \A w \in ws : f[w] \in Contents
  PROVE  WithApplications(j, ws, f) \in Jobs
BY JobTypes, Zenon DEF WithApplications, Jobs

LEMMA FaultsType ==
  ASSUME faults \in 0..MaxFaults
  PROVE  /\ Succeeds => faults' \in 0..MaxFaults
         /\ \A call : Fails(call) => faults' \in 0..MaxFaults
BY ConstantsAssumption DEF Succeeds, Fails


LEMMA TypeInit == Init => TypeOK
BY ConstantsAssumption, BindingTypes, JobTypes
   DEF Init, TypeOK, SecretName, SecretNames, Steps

LEMMA PersistedType ==
  ASSUME WorkerType, queue \subseteq Bindings, NEW b \in Bindings,
         NEW ok \in BOOLEAN, NEW cur \in SUBSET Bindings, Persisted(b, ok, cur)
  PROVE  WorkerType' /\ queue' \subseteq Bindings
<1>1. local[b] \in Objects /\ job[b] \in Jobs
  BY Zenon DEF WorkerType
<1>2. CASE Done(b, TRUE)
  BY <1>2, DoneType, Zenon
<1>6. CASE Done(b, job[b].flow \in {"again", "retry"})
  BY <1>6, BindingTypes, JobTypes, Zenon DEF WorkerType, Done, Steps
<1>3. SetCollection(local[b], "") \in Objects
  BY <1>1, ConditionTypes, Zenon
<1>4. [job[b] EXCEPT !.saving = "close"] \in Jobs
  BY <1>1, Zenon DEF Jobs
<1>5. CASE /\ \E step \in Steps, o \in Objects, j \in Jobs : Continue(b, step, o, j)
           /\ current' = cur /\ UNCHANGED <<queue, fresh>>
  BY <1>5, ContinueType, Zenon DEF WorkerType
<1>7. CASE Continue(b, "project", SetCollection(local[b], ""), [job[b] EXCEPT !.saving = "close"])
           /\ current' = cur /\ UNCHANGED <<queue, fresh>>
  BY <1>3, <1>4, <1>5, <1>7, Zenon DEF Steps
<1>8. CASE Continue(b, "remove", local[b], job[b])
           /\ current' = cur /\ UNCHANGED <<queue, fresh>>
  BY <1>1, <1>5, <1>8, Zenon DEF Steps
<1> QED
  BY <1>2, <1>6, <1>7, <1>8, Zenon DEF Persisted

LEMMA ReconcileType ==
  ASSUME TypeOK, NEW b \in Bindings, JobCoherent(b), Reconcile(b)
  PROVE  TypeOK'
<1> USE DEF cluster, informer, worker
<1>a. WorkerType /\ queue \subseteq Bindings /\ local[b] \in Objects /\ job[b] \in Jobs
      /\ faults \in 0..MaxFaults /\ cache[b] \in Objects /\ sb[b] \in Objects
  BY Zenon DEF TypeOK, WorkerType
<1>b. \A ref : Applications(ref) \subseteq Workloads
  BY Zenon DEF Applications
<1>c. \A w \in Workloads : wl[w].content \in Contents
  BY Zenon DEF TypeOK
<1>d. \A ref : \A read \in Partial(ref) : read \in SUBSET Applications(ref)
  BY Zenon DEF Partial
<1>1. CASE Begin(b)
  <2>1. WorkerType'
    <3>1. CASE cache[b].exists
      <4>1. PICK step \in Steps : Continue(b, step, cache[b], NoJob)
        BY <1>1, <3>1, Zenon DEF Begin, Steps, FirstHandler
      <4>2. current' \subseteq Bindings /\ fresh' = fresh
        BY <1>1, <3>1, <1>a, Zenon DEF Begin, WorkerType
      <4> QED
        BY <4>1, <4>2, <1>a, ContinueType, JobTypes, Zenon DEF WorkerType
    <3>2. CASE ~cache[b].exists
      BY <1>1, <1>a, <3>2, Zenon DEF Begin, WorkerType
    <3> QED BY <3>1, <3>2, Zenon
  <2> QED
    BY <1>1, <2>1, Zenon DEF Begin, TypeOK, WorkerType
<1>2. CASE AddFinalizer(b)
  <2> DEFINE o == [local[b] EXCEPT !.finalizer = TRUE]
  <2>1. o \in Objects
    BY <1>a, Zenon DEF Objects
  <2>2. CASE ~Stale(b) /\ Succeeds /\ Put(b, o) /\ Continue(b, FirstHandler(o), o, job[b])
             /\ UNCHANGED <<queue, current, fresh>>
    <3>1. FirstHandler(o) \in Steps
      BY Zenon DEF FirstHandler, Steps
    <3> HIDE DEF o
    <3>2. WorkerType'
      BY <2>1, <2>2, <3>1, <1>a, ContinueType, Zenon DEF WorkerType
    <3> QED
      BY <1>2, <2>1, <2>2, <3>2, PutType, Zenon DEF AddFinalizer, TypeOK, WorkerType, Succeeds
  <2>3. CASE Done(b, TRUE) /\ UNCHANGED <<sb, cached, dirty>>
    <3>1. faults' \in 0..MaxFaults
      BY <1>2, <1>a, FaultsType, Zenon DEF AddFinalizer
    <3>2. WorkerType' /\ queue' \subseteq Bindings
      BY <2>3, <1>a, DoneType, Zenon
    <3> QED
      BY <1>2, <2>3, <3>1, <3>2, Zenon DEF AddFinalizer, TypeOK, WorkerType
  <2> QED
    BY <1>2, <2>2, <2>3, Zenon DEF AddFinalizer
<1>3. CASE Unbind(b)
  <2> DEFINE o == local[b]
             ws == Applications(o.ref)
             cs == {w \in ws : Unproject(b, o.secret, wl[w].content) # wl[w].content}
             u == [w \in cs |-> Unproject(b, o.secret, wl[w].content)]
             K(read) == [w \in read |-> wl[w].content]
  <2>1. PICK p \in Objects, j \in Jobs : Close(b, p, j)
    <3>1. Flow(b, "done") \in Jobs /\ Flow(b, "again") \in Jobs /\ Flow(b, "retry") \in Jobs
      BY <1>a, FlowType, Zenon DEF FlowStatus
    <3>2. \A read \in SUBSET ws : WithApplications(Flow(b, "done"), read, K(read)) \in Jobs
      BY <1>b, <1>c, <3>1, WithApplicationsType, Zenon
    <3>3. \A w \in cs : u[w] \in Contents
      BY <1>a, <1>b, <1>c, ProjectType, Zenon DEF Objects
    <3>4. \A f \in {"again", "done"} : WithApplications(Flow(b, f), cs, u) \in Jobs
      BY <1>b, <3>1, <3>3, WithApplicationsType, Zenon
    <3>5. [o EXCEPT !.rebind = FALSE] \in Objects
      BY <1>a, Zenon DEF Objects
    <3> QED
      BY <1>3, <1>a, <1>d, <3>1, <3>2, <3>4, <3>5, Zenon DEF Unbind
  <2>2. WorkerType'
    BY <1>3, <1>a, <2>1, CloseType, Zenon DEF Unbind
  <2>3. faults' \in 0..MaxFaults
    BY <1>3, <1>a, FaultsType, Zenon DEF Unbind
  <2> QED
    BY <1>3, <2>2, <2>3, Zenon DEF Unbind, TypeOK, WorkerType
<1>4. CASE Collect(b)
  <2>1. WorkerType'
    <3>1. CASE \E p \in Objects, j \in Jobs : Close(b, p, j)
      BY <1>4, <1>a, <3>1, CloseType, Zenon DEF Collect
    <3>2. CASE /\ svc[b] \in Data \cup {NoData}
               /\ Continue(b, "secret", local[b], [job[b] EXCEPT !.data = svc[b]])
               /\ UNCHANGED fresh
      <4>1. [job[b] EXCEPT !.data = svc[b]] \in Jobs
        BY <1>a, <3>2, Zenon DEF Jobs
      <4> QED
        BY <1>4, <1>a, <3>2, <4>1, ContinueType, Zenon DEF WorkerType, Steps, Collect
    <3>3. SetCollection(local[b], "ErrorReading") \in Objects
          /\ SetCollection(local[b], "InvalidAnnotation") \in Objects
      BY <1>a, ConditionTypes, Zenon
    <3>4. Flow(b, "error") \in Jobs /\ Flow(b, "retry") \in Jobs
      BY <1>a, FlowType, Zenon DEF FlowStatus
    <3> QED
      BY <1>4, <3>1, <3>2, <3>3, <3>4, Zenon DEF Collect
  <2>2. faults' \in 0..MaxFaults
    BY <1>4, <1>a, FaultsType, Zenon DEF Collect
  <2> QED
    BY <1>4, <2>1, <2>2, Zenon DEF Collect, TypeOK, WorkerType
<1>5. CASE PersistSecret(b)
  <2> DEFINE o == SetCollection(local[b], "DataCollected")
             name == SecretName(b, job[b].data)
             written == [o EXCEPT !.secret = name]
  <2>1. job[b].data # NoData => name \in SecretNames
    BY <1>a, SecretNameType, Zenon DEF Jobs
  <2>2. o \in Objects
    BY <1>a, ConditionTypes, Zenon
  <2>3. job[b].data # NoData => written \in Objects
    <3> HIDE DEF name, o
    <3> QED BY <2>1, <2>2, Zenon DEF Objects
  <2>4. [job[b] EXCEPT !.saving = "secretFailed"] \in Jobs
    BY <1>a, Zenon DEF Jobs
  <2>5. SetReady(local[b], "ErrorPersistingSecret") \in Objects
    BY <1>a, ConditionTypes, Zenon
  <2>6. \E step \in Steps, p \in Objects, j \in Jobs : Continue(b, step, p, j)
    <3> HIDE DEF o, written
    <3> QED BY <1>5, <1>a, <2>2, <2>3, <2>4, <2>5, Zenon
               DEF PersistSecret, Nothing, Steps, o, written
  <2>7. secrets' \subseteq SecretNames
    BY <1>5, <2>1, Zenon DEF PersistSecret, Nothing, WriteSecret, TypeOK
  <2>8. WorkerType'
    BY <1>5, <1>a, <2>6, ContinueType, Zenon DEF PersistSecret, WorkerType
  <2>9. faults' \in 0..MaxFaults
    BY <1>5, <1>a, FaultsType, Zenon DEF PersistSecret
  <2> QED
    BY <1>5, <2>7, <2>8, <2>9, Zenon DEF PersistSecret, TypeOK, WorkerType
<1>6. ASSUME NEW ws \in SUBSET Workloads, job[b].data \in Data,
             ProjectAndClose(b, local[b], ws), UNCHANGED current
      PROVE  WorkerType'
  <2> DEFINE f == [w \in ws |-> Project(b, SecretName(b, job[b].data), wl[w].content)]
  <2>1. \A w \in ws : f[w] \in Contents
    BY <1>6, <1>c, SecretNameType, ProjectType, Zenon
  <2>2. \A st \in FlowStatus : Flow(b, st) \in Jobs
    BY <1>a, FlowType, Zenon
  <2>3. \A st \in FlowStatus : WithApplications(Flow(b, st), ws, f) \in Jobs
    BY <2>1, <2>2, WithApplicationsType, Zenon
  <2>4. SetInjection(local[b], "Error") \in Objects
        /\ SetInjection(local[b], "ApplicationUpdated") \in Objects
    BY <1>a, ConditionTypes, Zenon
  <2>5. PICK p \in Objects, j \in Jobs : Close(b, p, j)
    BY <1>6, <2>2, <2>3, <2>4, Zenon DEF ProjectAndClose, AfterProjection, FlowStatus
  <2> QED
    BY <1>6, <1>a, <2>5, CloseType, Zenon
<1>7. CASE PreFlightCheck(b)
  <2>1. \A st \in FlowStatus : Flow(b, st) \in Jobs
    BY <1>a, FlowType, Zenon
  <2>2. \A r \in {"ApplicationNotFound", "EmptyApplication", "NoBindingData",
                 "RequiredBindingNotFound"} :
           SetInjection(local[b], r) \in Objects
    BY <1>a, ConditionTypes, Zenon
  <2>5. WorkerType'
    <3>1. CASE \E p \in Objects, j \in Jobs : Close(b, p, j)
      BY <1>7, <1>a, <3>1, CloseType, Zenon DEF PreFlightCheck
    <3>2. CASE job[b].data # NoData /\ ProjectAndClose(b, local[b], Applications(local[b].ref))
      <4>1. job[b].data \in Data
        BY <1>a, <3>2, Zenon DEF Jobs
      <4> QED
        BY <1>7, <1>6, <1>b, <3>2, <4>1, Zenon DEF PreFlightCheck
    <3> QED
      BY <1>7, <2>1, <2>2, <3>1, <3>2, Zenon DEF PreFlightCheck, FlowStatus
  <2>6. faults' \in 0..MaxFaults
    BY <1>7, <1>a, FaultsType, Zenon DEF PreFlightCheck
  <2> QED
    BY <1>7, <2>5, <2>6, Zenon DEF PreFlightCheck, TypeOK, WorkerType
<1>8. CASE ProjectRegardless(b)
  <2>1. job[b].data \in Data
    BY <1>8, Zenon DEF ProjectRegardless, JobCoherent
  <2>2. WorkerType'
    BY <1>8, <1>6, <1>b, <1>d, <2>1 DEF ProjectRegardless
  <2>3. faults' \in 0..MaxFaults
    BY <1>8, <1>a, FaultsType, Zenon DEF ProjectRegardless
  <2> QED
    BY <1>8, <2>2, <2>3, Zenon DEF ProjectRegardless, TypeOK, WorkerType
<1>9. ASSUME NEW w \in Workloads, UpdateWorkload(b, w)
      PROVE  TypeOK'
  <2> DEFINE j == [job[b] EXCEPT !.todo = @ \ {w}, !.desired = [@ EXCEPT ![w] = Bare]]
             e == [job[b] EXCEPT !.saving = "appFailed"]
  <2>1. j \in Jobs /\ e \in Jobs /\ job[b].desired[w] \in Contents
    BY <1>a, JobTypes, Zenon DEF Jobs
  <2>2. SetReady(local[b], "ApplicationsBound") \in Objects
        /\ SetReady(local[b], "ApplicationUpdateError") \in Objects
    BY <1>a, ConditionTypes, Zenon
  <2>3. PICK step \in Steps, p \in Objects, k \in Jobs : Continue(b, step, p, k)
    <3> HIDE DEF j, e
    <3> QED BY <1>9, <1>a, <2>1, <2>2, Zenon
               DEF UpdateWorkload, UpdateFailed, StaleWorkload, Steps, j, e
  <2>4. /\ wl' \in [Workloads -> [exists: BOOLEAN, content: Contents]]
        /\ fresh' \subseteq Bindings \X Workloads
    BY <1>9, <2>1 DEF UpdateWorkload, UpdateFailed, StaleWorkload, PutWorkload, TypeOK
  <2>5. WorkerType'
    BY <1>9, <1>a, <2>3, <2>4, ContinueType, Zenon
       DEF UpdateWorkload, UpdateFailed, StaleWorkload, WorkerType
  <2>6. faults' \in 0..MaxFaults
    BY <1>9, <1>a, FaultsType, Zenon DEF UpdateWorkload, UpdateFailed, StaleWorkload
  <2> QED
    BY <1>9, <2>4, <2>5, <2>6, Zenon
       DEF UpdateWorkload, UpdateFailed, StaleWorkload, TypeOK, WorkerType
<1>10. CASE UpdateStatus(b)
  <2> DEFINE o == [sb[b] EXCEPT !.secret = local[b].secret, !.conditions = local[b].conditions]
  <2>1. o \in Objects
    BY <1>a, Zenon DEF Objects
  <2>2. WorkerType' /\ queue' \subseteq Bindings
    <3>1. CASE /\ Continue(b, "save", local[b], job[b])
               /\ current' = AfterWrite(b, o) /\ UNCHANGED <<queue, fresh>>
      <4>1. current' \subseteq Bindings
        BY <1>a, <3>1, Zenon DEF AfterWrite, WorkerType
      <4> QED
        BY <1>a, <3>1, <4>1, ContinueType, Zenon DEF WorkerType, Steps
    <3>2. CASE Persisted(b, FALSE, current)
      BY <1>a, <3>2, PersistedType, Zenon DEF WorkerType
    <3> QED
      BY <1>10, <3>1, <3>2, Zenon DEF UpdateStatus
  <2>3. sb' \in [Bindings -> Objects] /\ cached' \subseteq Bindings /\ dirty' \subseteq Bindings
    <3> HIDE DEF o
    <3> QED BY <1>10, <2>1, PutType, Zenon DEF UpdateStatus, TypeOK, o
  <2>4. faults' \in 0..MaxFaults
    BY <1>10, <1>a, FaultsType, Zenon DEF UpdateStatus
  <2> QED
    BY <1>10, <2>2, <2>3, <2>4, Zenon DEF UpdateStatus, TypeOK, WorkerType
<1>11. CASE SaveBinding(b)
  <2> DEFINE o == [local[b] EXCEPT !.secret = sb[b].secret, !.conditions = sb[b].conditions]
  <2>1. o \in Objects
    BY <1>a, Zenon DEF Objects
  <2>2. AfterWrite(b, o) \in SUBSET Bindings /\ current \in SUBSET Bindings
    BY <1>a, Zenon DEF AfterWrite, WorkerType
  <2>3. WorkerType' /\ queue' \subseteq Bindings
    BY <1>11, <1>a, <2>2, PersistedType, Zenon DEF SaveBinding
  <2>4. sb' \in [Bindings -> Objects] /\ cached' \subseteq Bindings /\ dirty' \subseteq Bindings
    <3> HIDE DEF o
    <3> QED BY <1>11, <2>1, PutType, Zenon DEF SaveBinding, TypeOK, o
  <2>5. faults' \in 0..MaxFaults
    BY <1>11, <1>a, FaultsType, Zenon DEF SaveBinding
  <2> QED
    BY <1>11, <2>3, <2>4, <2>5, Zenon DEF SaveBinding, TypeOK, WorkerType
<1>12. CASE RemoveFinalizer(b)
  <2>1. WorkerType' /\ queue' \subseteq Bindings
    BY <1>12, <1>a, DoneType, Zenon DEF RemoveFinalizer
  <2>2. sb' \in [Bindings -> Objects] /\ cached' \subseteq Bindings /\ dirty' \subseteq Bindings
    BY <1>12, BindingTypes, PutType, Zenon DEF RemoveFinalizer, TypeOK
  <2>3. faults' \in 0..MaxFaults
    BY <1>12, <1>a, FaultsType, Zenon DEF RemoveFinalizer
  <2> QED
    BY <1>12, <2>1, <2>2, <2>3, Zenon DEF RemoveFinalizer, TypeOK, WorkerType
<1> QED
  BY <1>1, <1>2, <1>3, <1>4, <1>5, <1>7, <1>8, <1>9, <1>10, <1>11, <1>12, Zenon DEF Reconcile

LEMMA OutsideType ==
  ASSUME TypeOK, Outside
  PROVE  TypeOK'
<1> USE DEF cluster, informer, worker
<1>1. \A change : Happens(change) => env' \in 0..MaxEnv
  BY ConstantsAssumption DEF Happens, TypeOK
<1>0. \A b \in Bindings : sb[b] \in Objects
  BY Zenon DEF TypeOK
<1>2. ASSUME NEW b \in Bindings, NEW o \in Objects, UserPut(b, o), env' \in 0..MaxEnv
      PROVE  TypeOK'
  <2>1. sb' \in [Bindings -> Objects] /\ cached' \subseteq Bindings /\ dirty' \subseteq Bindings
    BY <1>2, PutType, Zenon DEF UserPut, TypeOK
  <2>2. current' \subseteq Bindings
    BY <1>2, Zenon DEF UserPut, AfterWrite, TypeOK
  <2> QED
    BY <1>2, <2>1, <2>2, Zenon DEF UserPut, TypeOK
<1>3. ASSUME NEW b \in Bindings, NEW ref \in Refs, CreateBinding(b, ref)
      PROVE  TypeOK'
  BY <1>1, <1>2, <1>3, BindingTypes, Zenon DEF CreateBinding
<1>4. ASSUME NEW b \in Bindings, NEW ref \in Refs, EditBinding(b, ref)
      PROVE  TypeOK'
  <2>1. [sb[b] EXCEPT !.ref = ref] \in Objects
    BY <1>0, Zenon DEF Objects
  <2> QED
    BY <1>1, <1>2, <1>4, <2>1, Zenon DEF EditBinding
<1>5. ASSUME NEW b \in Bindings, DeleteBinding(b)
      PROVE  TypeOK'
  <2>1. [sb[b] EXCEPT !.deleting = TRUE] \in Objects
    BY <1>0, Zenon DEF Objects
  <2> QED
    BY <1>1, <1>2, <1>5, <2>1, BindingTypes, Zenon DEF DeleteBinding
<1>6. ASSUME NEW b \in Bindings, AnnotateBinding(b)
      PROVE  TypeOK'
  <2>1. [sb[b] EXCEPT !.rebind = TRUE] \in Objects
    BY <1>0, Zenon DEF Objects
  <2> QED
    BY <1>1, <1>2, <1>6, <2>1, Zenon DEF AnnotateBinding
<1>7. ASSUME NEW b \in Bindings, NEW v \in Data \cup {NoData, "missing", "invalid"},
             ChangeService(b, v)
      PROVE  TypeOK'
  <2>1. env' \in 0..MaxEnv
    BY <1>1, <1>7, Zenon DEF ChangeService
  <2> QED
    BY <1>7, <2>1, Zenon DEF ChangeService, TypeOK
<1>8. ASSUME NEW w \in Workloads, NEW e \in BOOLEAN, ChangeWorkload(w, e)
      PROVE  TypeOK'
  <2>1. env' \in 0..MaxEnv
    BY <1>1, <1>8, Zenon DEF ChangeWorkload
  <2>2. wl' \in [Workloads -> [exists: BOOLEAN, content: Contents]]
    BY <1>8, JobTypes, Zenon DEF ChangeWorkload, TypeOK
  <2> QED
    BY <1>8, <2>1, <2>2, Zenon DEF ChangeWorkload, TypeOK
<1>9. CASE Restart
  BY <1>1, <1>9, BindingTypes, JobTypes, Zenon DEF Restart, TypeOK, Steps
<1> QED
  BY <1>3, <1>4, <1>5, <1>6, <1>7, <1>8, <1>9, Zenon DEF Outside

LEMMA NextType ==
  ASSUME TypeOK, Coherent, [Next]_vars
  PROVE  TypeOK'
<1>1. CASE UNCHANGED vars
  BY <1>1, Zenon DEF TypeOK, vars, cluster, informer, worker
<1>2. ASSUME NEW b \in Bindings, SyncCache(b)
      PROVE  TypeOK'
  BY <1>2, Zenon DEF SyncCache, TypeOK, cluster, worker
<1> QED
  BY <1>1, <1>2, ReconcileType, OutsideType, Zenon DEF Next, Coherent, CoherentAt

(***************************************************************************)
(* Coherence of the copies                                                 *)
(***************************************************************************)

\* Two bindings refer to one secret only when it is one that a service provides.
LEMMA SecretShared ==
  ASSUME NEW b \in Bindings, NEW x \in Bindings, NEW s \in OwnSecrets(b), s \in OwnSecrets(x)
  PROVE  x = b \/ Shares(b, x)
<1>1. CASE b \in Provisioned /\ x \in Provisioned
  BY <1>1, Zenon DEF OwnSecrets, Shares
<1>2. CASE b \notin Provisioned /\ x \notin Provisioned
  <2>1. s \in {b} \X Data /\ s \in {x} \X Data
    BY <1>2, Zenon DEF OwnSecrets
  <2> QED BY <2>1
<1>3. ASSUME NEW y \in Bindings, NEW z \in Bindings, y \in Provisioned, z \notin Provisioned,
             s \in OwnSecrets(y), s \in OwnSecrets(z)
      PROVE  FALSE
  <2>1. s = Provided[y] /\ s \in {z} \X Data
    BY <1>3, Zenon DEF OwnSecrets
  <2>2. s \in Bindings \X Data
    BY <2>1
  <2> QED BY <1>3, <2>1, <2>2, ConstantsAssumption, Zenon
<1> QED BY <1>1, <1>2, <1>3, Zenon

LEMMA OwnSecretsType ==
  ASSUME NEW b \in Bindings
  PROVE  OwnSecrets(b) \subseteq SecretNames /\ NoSecret \notin OwnSecrets(b)
<1>1. CASE b \in Provisioned
  BY <1>1, ConstantsAssumption, Zenon DEF OwnSecrets, SecretNames, ProvidedSecrets
<1>2. CASE b \notin Provisioned
  <2>1. {b} \X Data \subseteq Bindings \X Data
    OBVIOUS
  <2> QED BY <1>2, <2>1, ConstantsAssumption, Zenon DEF OwnSecrets, SecretNames
<1> QED BY <1>1, <1>2, Zenon

\* What a projection of b puts into a workload is b, and what is the same as b
\* in it; taking b out of a workload puts nothing in.
LEMMA CarriesLemma ==
  ASSUME NEW b \in Bindings, NEW c \in Contents, NEW x \in Bindings
  PROVE  /\ \A s \in OwnSecrets(b) :
              Carries(Project(b, s, c), x) => x \in {b} \cup Twins[b] \/ Carries(c, x)
         /\ \A s : Carries(Unproject(b, s, c), x) => Carries(c, x)
<1>a. /\ VolumeName[b] \in Volumes /\ VolumeName[x] \in Volumes
      /\ c.volumes \in [Volumes -> SecretNames \cup {NoSecret}]
      /\ c.envFrom \in SUBSET SecretNames
      /\ c = [volumes |-> c.volumes, envFrom |-> c.envFrom]
  BY ConstantsAssumption, Zenon DEF Contents
<1>1. ASSUME NEW s \in OwnSecrets(b), Carries(Project(b, s, c), x), ~Carries(c, x), x # b
      PROVE  x \in Twins[b]
  <2>1. s \in OwnSecrets(x) /\ (b \in AsFiles <=> x \in AsFiles)
        /\ (x \in AsFiles => VolumeName[x] = VolumeName[b])
    <3>1. CASE b \in AsFiles
      <4>1. /\ Project(b, s, c).volumes = [c.volumes EXCEPT ![VolumeName[b]] = s]
            /\ Project(b, s, c).envFrom = c.envFrom
        BY <1>a, <3>1, Zenon DEF Project
      <4> QED BY <1>1, <1>a, <3>1, <4>1, Zenon DEF Carries
    <3>2. CASE b \notin AsFiles
      <4>1. /\ Project(b, s, c).volumes = c.volumes
            /\ Project(b, s, c).envFrom = c.envFrom \cup {s}
        BY <1>a, <3>2, Zenon DEF Project
      <4> QED BY <1>1, <1>a, <3>2, <4>1, Zenon DEF Carries
    <3> QED BY <3>1, <3>2, Zenon
  <2>2. Shares(b, x)
    BY <1>1, <2>1, SecretShared, Zenon
  <2> QED BY <1>1, <2>1, <2>2, Zenon DEF Twins
<1>2. ASSUME NEW s, Carries(Unproject(b, s, c), x)
      PROVE  Carries(c, x)
  <2>1. NoSecret \notin OwnSecrets(x)
    BY OwnSecretsType, Zenon
  <2>2. /\ Unproject(b, s, c).volumes = [c.volumes EXCEPT ![VolumeName[b]] = NoSecret]
        /\ Unproject(b, s, c).envFrom = c.envFrom \ {s}
    BY Zenon DEF Unproject
  <2> QED BY <1>2, <1>a, <2>1, <2>2, Zenon DEF Carries
<1> QED
  BY <1>1, <1>2, Zenon

LEMMA BareCarries == \A c \in Bindings : ~Carries(Bare, c)
<1> SUFFICES ASSUME NEW c \in Bindings PROVE ~Carries(Bare, c)
  BY Zenon
<1>1. Bare.volumes[VolumeName[c]] = NoSecret /\ Bare.envFrom = {}
  BY ConstantsAssumption, Zenon DEF Bare
<1> QED BY <1>1, OwnSecretsType, Zenon DEF Carries

LEMMA SecretNameOwn ==
  ASSUME NEW b \in Bindings, NEW d \in Data
  PROVE  SecretName(b, d) \in OwnSecrets(b)
<1>1. CASE b \notin Provisioned
  <2>1. <<b, d>> \in {b} \X Data
    OBVIOUS
  <2> QED BY <1>1, <2>1, Zenon DEF SecretName, OwnSecrets
<1> QED BY <1>1, Zenon DEF SecretName, OwnSecrets

\* A step that is not about binding c.
SameFor(c) ==
  /\ sb'[c] = sb[c] /\ cache'[c] = cache[c] /\ (c \in cached' <=> c \in cached)
  /\ pc'[c] = pc[c] /\ local'[c] = local[c] /\ job'[c] = job[c]
  /\ (c \in current' <=> c \in current)

\* A step after which c's copies of the workloads are as good as they were,
\* or known to be old.
SameWrites(c) ==
  \A w \in Workloads :
    <<c, w>> \in fresh' => <<c, w>> \in fresh /\ wl'[w].content = wl[w].content

LEMMA Frame ==
  ASSUME NEW c \in Bindings, CoherentAt(c), SameFor(c), SameWrites(c)
  PROVE  CoherentAt(c)'
<1>1. CacheCoherent(c)' /\ LocalCoherent(c)' /\ JobCoherent(c)'
  BY Zenon DEF CoherentAt, SameFor, CacheCoherent, LocalCoherent, JobCoherent, Binding
<1>2. \A w \in Workloads : WriteCoherent(c, w)'
  BY Zenon DEF CoherentAt, SameFor, SameWrites, WriteCoherent
<1> QED
  BY <1>1, <1>2, Zenon DEF CoherentAt

Agree(o, p) ==
  /\ o.exists = p.exists /\ o.ref = p.ref
  /\ o.deleting = p.deleting /\ o.finalizer = p.finalizer

LEMMA ConditionsAgree ==
  ASSUME NEW o \in Objects, NEW r
  PROVE  Agree(SetReady(o, r), o) /\ Agree(SetCollection(o, r), o) /\ Agree(SetInjection(o, r), o)
BY Zenon DEF Agree, SetReady, SetCollection, SetInjection, Objects

LEMMA LocalStep ==
  ASSUME WorkerType, NEW b \in Bindings, LocalCoherent(b),
         pc[b] \notin {"idle", "finalizer"},
         NEW step \in Steps \ {"idle", "finalizer"}, NEW o, NEW j, Agree(o, local[b]),
         Continue(b, step, o, j),
         Agree(sb'[b], sb[b]), cache'[b] = cache[b], b \in current' => b \in current
  PROVE  LocalCoherent(b)'
BY Zenon DEF WorkerType, LocalCoherent, Continue, Agree, Live

LEMMA DoneCoherent ==
  ASSUME WorkerType, NEW b \in Bindings, NEW requeue, Done(b, requeue)
  PROVE  LocalCoherent(b)' /\ JobCoherent(b)' /\ \A w \in Workloads : WriteCoherent(b, w)'
BY Zenon
   DEF WorkerType, Done, LocalCoherent, JobCoherent, WriteCoherent, NoJob, BeforeClose, Binding

LEMMA CloseCoherent ==
  ASSUME WorkerType, NEW b \in Bindings, LocalCoherent(b),
         pc[b] \notin {"idle", "finalizer"},
         NEW o \in Objects, NEW j \in Jobs, Agree(o, local[b]), j.saving = "close",
         \A w \in j.todo : \A c \in Bindings :
           Carries(j.desired[w], c) /\ ~Carries(wl[w].content, c)
             => c \in {b} \cup Twins[b] /\ ~o.deleting,
         Close(b, o, j), UNCHANGED <<sb, cache, current, wl>>
  PROVE  LocalCoherent(b)' /\ JobCoherent(b)' /\ \A w \in Workloads : WriteCoherent(b, w)'
<1>1. PICK r \in {"ProcessingError", "ApplicationsBound"}, step \in {"status", "workloads"} :
        /\ step = "status" => Continue(b, step, SetReady(o, r), j)
        /\ step = "workloads" => Continue(b, step, o, j)
  BY Zenon DEF Close
<1>2. PICK p : Continue(b, step, p, j) /\ Agree(p, o) /\ Agree(p, local[b])
  BY <1>1, ConditionsAgree DEF Agree
<1>3. LocalCoherent(b)'
  BY <1>2, LocalStep, Zenon DEF Agree, Steps
<1>4. pc'[b] = step /\ local'[b] = p /\ job'[b] = j
  BY <1>2, Zenon DEF Continue, WorkerType
<1>5. JobCoherent(b)'
  BY <1>4, Zenon DEF JobCoherent, BeforeClose, Binding
<1>6. \A w \in Workloads : WriteCoherent(b, w)'
  BY <1>2, <1>4, Zenon DEF WriteCoherent, Agree
<1> QED
  BY <1>3, <1>5, <1>6, Zenon

LEMMA PutCoherent ==
  ASSUME sb \in [Bindings -> Objects], NEW b \in Bindings, CacheCoherent(b),
         NEW o \in Objects, Put(b, o), Agree(o, sb[b]), cache' = cache
  PROVE  CacheCoherent(b)' /\ Agree(sb'[b], sb[b])
<1>1. sb'[b] = o /\ (b \in cached' => b \in cached /\ o = sb[b])
  BY Zenon DEF Put
<1> QED
  BY <1>1, Zenon DEF CacheCoherent, Agree, Live

LEMMA PersistedCoherent ==
  ASSUME WorkerType, NEW b \in Bindings, LocalCoherent(b), JobCoherent(b),
         pc[b] \in {"status", "save"}, NEW ok, NEW cur, b \in cur => b \in current,
         Persisted(b, ok, cur), Agree(sb'[b], sb[b]), cache'[b] = cache[b]
  PROVE  LocalCoherent(b)' /\ JobCoherent(b)' /\ \A w \in Workloads : WriteCoherent(b, w)'
<1>1. local[b] \in Objects /\ job[b] \in Jobs
  BY Zenon DEF WorkerType
<1>2. CASE \E requeue : Done(b, requeue)
  BY <1>2, DoneCoherent, Zenon
<1>3. CASE /\ job[b].saving = "secretFailed" /\ current' = cur
           /\ Continue(b, "project", SetCollection(local[b], ""), [job[b] EXCEPT !.saving = "close"])
  <2> DEFINE p == SetCollection(local[b], "")
             j == [job[b] EXCEPT !.saving = "close"]
  <2>1. Agree(p, local[b])
    BY <1>1, ConditionsAgree, Zenon
  <2>2. j.todo = job[b].todo /\ j.data = job[b].data /\ j.saving = "close"
    BY <1>1, Zenon DEF Jobs
  <2> HIDE DEF p, j
  <2>3. pc'[b] = "project" /\ local'[b] = p /\ job'[b] = j
    BY <1>3, Zenon DEF Continue, WorkerType, p, j
  <2>4. LocalCoherent(b)'
    BY <1>3, <2>1, LocalStep, Zenon DEF Steps, p, j
  <2>5. JobCoherent(b)' /\ \A w \in Workloads : WriteCoherent(b, w)'
    BY <1>3, <2>1, <2>2, <2>3, Zenon DEF JobCoherent, WriteCoherent, Binding, BeforeClose, Agree
  <2> QED BY <2>4, <2>5, Zenon
<1>4. CASE /\ local[b].deleting /\ job[b].saving = "close" /\ current' = cur
           /\ Continue(b, "remove", local[b], job[b])
  <2>1. pc'[b] = "remove" /\ local'[b] = local[b] /\ job'[b] = job[b]
    BY <1>4, Zenon DEF Continue, WorkerType
  <2>2. LocalCoherent(b)'
    BY <1>4, LocalStep, Zenon DEF Steps, Agree
  <2>3. JobCoherent(b)' /\ \A w \in Workloads : WriteCoherent(b, w)'
    BY <1>4, <2>1, Zenon DEF JobCoherent, WriteCoherent, Binding, BeforeClose
  <2> QED BY <2>2, <2>3, Zenon
<1> QED
  BY <1>2, <1>3, <1>4, Zenon DEF Persisted

\* Each step of the worker on b keeps b's own copies coherent ...
LEMMA OwnStep ==
  ASSUME TypeOK, NEW b \in Bindings, CoherentAt(b), Reconcile(b)
  PROVE  CoherentAt(b)'
<1> USE DEF cluster, informer, worker
<1>a. /\ WorkerType /\ local[b] \in Objects /\ job[b] \in Jobs
      /\ cache[b] \in Objects /\ sb[b] \in Objects
      /\ CacheCoherent(b) /\ LocalCoherent(b) /\ JobCoherent(b)
      /\ \A w \in Workloads : WriteCoherent(b, w)
  BY Zenon DEF TypeOK, WorkerType, CoherentAt
<1>b. \A ref : Applications(ref) \subseteq Workloads
  BY Zenon DEF Applications
<1>c. \A w \in Workloads : wl[w].content \in Contents
  BY Zenon DEF TypeOK
<1>g. \A ref : \A read \in Partial(ref) : read \in SUBSET Applications(ref)
  BY Zenon DEF Partial
<1>d. \A st \in FlowStatus : /\ Flow(b, st) \in Jobs
                             /\ Flow(b, st).todo = job[b].todo
                             /\ Flow(b, st).saving = job[b].saving
  BY <1>a, FlowType, Zenon DEF Flow, Jobs
<1>e. UNCHANGED <<sb, cache, cached>> => CacheCoherent(b)'
  BY <1>a, Zenon DEF CacheCoherent
<1>f. ASSUME pc[b] \in BeforeClose \ {"finalizer"}, NEW o \in Objects, Agree(o, local[b]),
             NEW st \in FlowStatus, Close(b, o, Flow(b, st)),
             UNCHANGED <<sb, cache, cached, current, wl>>
      PROVE  CoherentAt(b)'
  <2>1. Flow(b, st).todo = {} /\ Flow(b, st).saving = "close"
    BY <1>a, <1>d, <1>f, Zenon DEF JobCoherent
  <2> QED
    BY <1>a, <1>d, <1>e, <1>f, <2>1, CloseCoherent, Zenon DEF CoherentAt, BeforeClose
<1>1. CASE Begin(b)
  <2>1. CASE cache[b].exists
    <3>1. /\ local'[b] = cache[b] /\ job'[b] = NoJob
          /\ pc'[b] = IF NeedsFinalizer(cache[b])
                      THEN "finalizer" ELSE FirstHandler(cache[b])
          /\ b \in current' <=> b \in cached
      BY <1>1, <1>a, <2>1, Zenon DEF Begin, Continue, WorkerType
    <3>2. pc'[b] = "unbind" \/ (pc'[b] \in {"finalizer", "collect"} /\ ~cache[b].deleting)
      BY <3>1, Zenon DEF FirstHandler, UnbindRequested, NeedsFinalizer
    <3>3. CacheCoherent(b)'
      BY <1>1, <1>e, Zenon DEF Begin
    <3>4. LocalCoherent(b)'
      BY <1>1, <1>a, <2>1, <3>1, <3>2, Zenon
         DEF Begin, LocalCoherent, CacheCoherent, Live, Objects, NeedsFinalizer
    <3>5. JobCoherent(b)' /\ \A w \in Workloads : WriteCoherent(b, w)'
      BY <3>1, <3>2 DEF JobCoherent, WriteCoherent, Binding, BeforeClose, NoJob
    <3> QED
      BY <3>3, <3>4, <3>5, Zenon DEF CoherentAt
  <2>2. CASE ~cache[b].exists
    <3>1. SameFor(b) /\ SameWrites(b)
      BY <1>1, <2>2, Zenon DEF Begin, SameFor, SameWrites
    <3> QED BY <3>1, Frame, Zenon
  <2> QED BY <2>1, <2>2, Zenon
<1>2. CASE AddFinalizer(b)
  <2> DEFINE o == [local[b] EXCEPT !.finalizer = TRUE]
  <2>1. CASE b \in current /\ Put(b, o) /\ Continue(b, FirstHandler(o), o, job[b])
             /\ UNCHANGED <<queue, current, fresh>>
    <3>1. /\ sb'[b] = o /\ local'[b] = o /\ job'[b] = job[b]
          /\ pc'[b] = FirstHandler(o) /\ cache'[b] = cache[b]
      BY <1>2, <1>a, <2>1, Zenon DEF AddFinalizer, Put, Continue, WorkerType, TypeOK
    <3>2. /\ local[b] = sb[b] /\ cache[b] = sb[b] /\ ~sb[b].deleting
          /\ pc[b] = "finalizer" /\ sb[b].exists
      BY <1>2, <1>a, <2>1, Zenon DEF AddFinalizer, LocalCoherent, CacheCoherent
    <3>3. o.exists /\ o.finalizer /\ ~o.deleting /\ o.ref = sb[b].ref
      BY <1>a, <3>2, Zenon DEF Objects
    <3>4. pc'[b] \in {"unbind", "collect"}
      BY <3>1, Zenon DEF FirstHandler
    <3>5. b \in cached' => o = sb[b]
      BY <2>1, Zenon DEF Put
    <3> HIDE DEF o
    <3>6. CacheCoherent(b)'
      BY <3>1, <3>2, <3>3, <3>5, Zenon DEF CacheCoherent, Live
    <3>7. LocalCoherent(b)'
      BY <3>1, <3>3, <3>4, Zenon DEF LocalCoherent
    <3>8. JobCoherent(b)' /\ \A w \in Workloads : WriteCoherent(b, w)'
      BY <1>a, <3>1, <3>2, <3>3, <3>4, Zenon DEF JobCoherent, WriteCoherent, Binding, BeforeClose
    <3> QED
      BY <3>6, <3>7, <3>8, Zenon DEF CoherentAt
  <2>2. CASE Done(b, TRUE) /\ UNCHANGED <<sb, cached, dirty>>
    BY <1>2, <1>a, <1>e, <2>2, DoneCoherent, Zenon DEF AddFinalizer, CoherentAt
  <2> QED
    BY <1>2, <2>1, <2>2, Zenon DEF AddFinalizer, Stale
<1>3. CASE Unbind(b)
  <2> DEFINE o == local[b]
             ws == Applications(o.ref)
             cs == {w \in ws : Unproject(b, o.secret, wl[w].content) # wl[w].content}
             u == [w \in cs |-> Unproject(b, o.secret, wl[w].content)]
             K(read) == [w \in read |-> wl[w].content]
             q == [o EXCEPT !.rebind = FALSE]
  <2>1. pc[b] \in BeforeClose \ {"finalizer"} /\ UNCHANGED <<sb, cache, cached, current, wl>>
    BY <1>3, Zenon DEF Unbind, BeforeClose
  <2>2. Agree(o, local[b]) /\ q \in Objects /\ Agree(q, local[b])
    BY <1>a, Zenon DEF Agree, Objects
  <2>3. ASSUME NEW st \in {"done", "again"}, NEW p \in Objects, Agree(p, local[b]),
               NEW vs \in SUBSET ws, NEW f, f \in {u, K(vs)}, vs = DOMAIN f,
               Close(b, p, WithApplications(Flow(b, st), vs, f))
        PROVE  CoherentAt(b)'
    <3>1. \A w \in vs : f[w] \in Contents
                        /\ \A c \in Bindings : Carries(f[w], c) => Carries(wl[w].content, c)
      <4> SUFFICES ASSUME NEW w \in vs
                   PROVE  /\ f[w] \in Contents
                          /\ \A c \in Bindings : Carries(f[w], c) => Carries(wl[w].content, c)
        BY Zenon
      <4>1. w \in Workloads /\ wl[w].content \in Contents
        BY <1>b, <1>c, Zenon
      <4>2. o.secret \in SecretNames \cup {NoSecret}
        BY <1>a, Zenon DEF Objects
      <4>3. f[w] = Unproject(b, o.secret, wl[w].content) \/ f[w] = wl[w].content
        BY <2>3, Zenon
      <4> HIDE DEF o, ws, u, K
      <4> QED
        BY <4>1, <4>2, <4>3, ProjectType, CarriesLemma
    <3> DEFINE j == WithApplications(Flow(b, st), vs, f)
    <3>2. st \in FlowStatus
      BY Zenon DEF FlowStatus
    <3>3. j \in Jobs
      BY <1>b, <1>d, <3>1, <3>2, WithApplicationsType, Zenon
    <3>4. j.todo = vs /\ j.saving = "close" /\ \A w \in vs : j.desired[w] = f[w]
      BY <1>a, <1>b, <1>d, <2>1, <3>2, Zenon DEF WithApplications, Jobs, JobCoherent
    <3> HIDE DEF j, ws, u, K
    <3>5. \A w \in j.todo : \A c \in Bindings :
            Carries(j.desired[w], c) /\ ~Carries(wl[w].content, c) => c = b /\ ~p.deleting
      BY <3>1, <3>4, Zenon
    <3>6. Close(b, p, j)
      BY <2>3, Zenon DEF j
    <3> QED
      BY <1>a, <1>e, <2>1, <2>3, <3>3, <3>4, <3>5, <3>6, CloseCoherent, Zenon
         DEF CoherentAt, BeforeClose
  <2>4. CASE \E st \in FlowStatus : Close(b, o, Flow(b, st))
    BY <1>a, <1>f, <2>1, <2>2, <2>4, Zenon
  <2>5. CASE \E read \in SUBSET ws : Close(b, o, WithApplications(Flow(b, "done"), read, K(read)))
    BY <1>a, <2>2, <2>3, <2>5, Zenon
  <2>6. CASE Close(b, q, WithApplications(Flow(b, IF o.rebind THEN "again" ELSE "done"), cs, u))
    BY <2>2, <2>3, <2>6, Zenon
  <2> QED
    BY <1>3, <1>g, <2>4, <2>5, <2>6, Zenon DEF Unbind, FlowStatus
<1>4. CASE Collect(b)
  <2>1. pc[b] \in BeforeClose \ {"finalizer"} /\ UNCHANGED <<sb, cache, cached, current, wl>>
    BY <1>4, Zenon DEF Collect, BeforeClose
  <2>2. CASE \E r \in {"ErrorReading", "InvalidAnnotation"}, st \in FlowStatus :
               Close(b, SetCollection(local[b], r), Flow(b, st))
    BY <1>a, <1>f, <2>1, <2>2, ConditionTypes, ConditionsAgree, Zenon
  <2>3. CASE Continue(b, "secret", local[b], [job[b] EXCEPT !.data = svc[b]]) /\ UNCHANGED fresh
    <3> DEFINE j == [job[b] EXCEPT !.data = svc[b]]
    <3>1. j.todo = job[b].todo /\ j.saving = job[b].saving
      BY <1>a, Zenon DEF Jobs
    <3>2. pc'[b] = "secret" /\ local'[b] = local[b] /\ job'[b] = j /\ pc[b] = "collect"
      BY <1>4, <1>a, <2>3, Zenon DEF Continue, WorkerType, Collect
    <3> HIDE DEF j
    <3>3. LocalCoherent(b)'
      BY <1>a, <2>1, <2>3, <3>2, LocalStep, Zenon DEF Steps, Agree, j
    <3>4. JobCoherent(b)' /\ \A w \in Workloads : WriteCoherent(b, w)'
      BY <1>a, <3>1, <3>2, Zenon DEF JobCoherent, WriteCoherent, Binding, BeforeClose
    <3> QED
      BY <1>e, <2>1, <3>3, <3>4, Zenon DEF CoherentAt
  <2> QED
    BY <1>4, <2>2, <2>3, Zenon DEF Collect, FlowStatus
<1>5. CASE PersistSecret(b)
  <2> DEFINE o == SetCollection(local[b], "DataCollected")
             name == SecretName(b, job[b].data)
             written == [o EXCEPT !.secret = name]
             e == SetReady(local[b], "ErrorPersistingSecret")
             j == [job[b] EXCEPT !.saving = "secretFailed"]
  <2>1. /\ pc[b] = "secret" /\ UNCHANGED <<sb, cache, cached, current, wl, fresh>>
    BY <1>5, Zenon DEF PersistSecret
  <2>2. o \in Objects /\ Agree(o, local[b]) /\ Agree(e, local[b])
    BY <1>a, ConditionTypes, ConditionsAgree, Zenon
  <2>3. Agree(written, local[b])
    <3> HIDE DEF o, name
    <3> QED BY <2>2, Zenon DEF Agree, Objects
  <2>4. j.todo = job[b].todo /\ j.saving = "secretFailed" /\ j.data = job[b].data
    BY <1>a, Zenon DEF Jobs
  <2> HIDE DEF o, name, written, e, j
  <2>5. PICK step, p, k :
          /\ step \in {"preflight", "status"}
          /\ Continue(b, step, p, k) /\ Agree(p, local[b])
          /\ step = "preflight" => k = job[b]
          /\ step = "status" => k = j /\ job[b].data # NoData
    BY <1>5, <2>2, <2>3 DEF PersistSecret, Nothing, o, name, written, e, j
  <2>6. pc'[b] = step /\ local'[b] = p /\ job'[b] = k
    BY <1>a, <2>5, Zenon DEF Continue, WorkerType
  <2>7. LocalCoherent(b)'
    BY <1>a, <2>1, <2>5, LocalStep, Zenon DEF Steps, Agree
  <2>8. job[b].data # NoData => job[b].data \in Data
    BY <1>a, Zenon DEF Jobs
  <2>9. JobCoherent(b)' /\ \A w \in Workloads : WriteCoherent(b, w)'
    BY <1>a, <2>1, <2>4, <2>5, <2>6, <2>8, Zenon
       DEF JobCoherent, WriteCoherent, Binding, BeforeClose, Agree
  <2> QED
    BY <1>e, <2>1, <2>7, <2>9, Zenon DEF CoherentAt
<1>6. ASSUME NEW ws \in SUBSET Workloads, job[b].data \in Data,
             pc[b] \in {"preflight", "project"}, ProjectAndClose(b, local[b], ws),
             UNCHANGED <<sb, cache, cached, current, wl>>
      PROVE  CoherentAt(b)'
  <2> DEFINE f == [w \in ws |-> Project(b, SecretName(b, job[b].data), wl[w].content)]
             p == SetInjection(local[b], "ApplicationUpdated")
  <2>1. /\ p \in Objects /\ Agree(p, local[b])
        /\ SetInjection(local[b], "Error") \in Objects
        /\ Agree(SetInjection(local[b], "Error"), local[b])
    BY <1>a, ConditionTypes, ConditionsAgree, Zenon
  <2>2. CASE Close(b, SetInjection(local[b], "Error"), Flow(b, "error"))
    BY <1>6, <1>f, <2>1, <2>2, Zenon DEF BeforeClose, FlowStatus
  <2>3. ASSUME NEW st \in FlowStatus, Close(b, p, WithApplications(Flow(b, st), ws, f))
        PROVE  CoherentAt(b)'
    <3> DEFINE j == WithApplications(Flow(b, st), ws, f)
    <3>1. \A w \in ws : /\ f[w] \in Contents
                        /\ \A c \in Bindings : Carries(f[w], c) => c \in {b} \cup Twins[b] \/ Carries(wl[w].content, c)
      BY <1>6, <1>c, SecretNameType, SecretNameOwn, ProjectType, CarriesLemma, Zenon
    <3>2. j \in Jobs
      BY <1>d, <3>1, WithApplicationsType, Zenon
    <3>3. j.todo = ws /\ j.saving = "close" /\ \A w \in ws : j.desired[w] = f[w]
      BY <1>6, <1>a, <1>d, Zenon DEF WithApplications, Jobs, JobCoherent, BeforeClose
    <3>4. ~p.deleting
      BY <1>6, <1>a, <2>1, Zenon DEF JobCoherent, Binding, Agree
    <3> HIDE DEF j, f, p
    <3>5. \A w \in j.todo : \A c \in Bindings :
            Carries(j.desired[w], c) /\ ~Carries(wl[w].content, c)
              => c \in {b} \cup Twins[b] /\ ~p.deleting
      BY <3>1, <3>3, <3>4, Zenon
    <3>6. Close(b, p, j)
      BY <2>3, Zenon DEF j
    <3> QED
      BY <1>6, <1>a, <1>e, <2>1, <3>2, <3>3, <3>5, <3>6, CloseCoherent, Zenon DEF CoherentAt
  <2> QED
    BY <1>6, <2>2, <2>3, Zenon DEF ProjectAndClose, AfterProjection, FlowStatus
<1>7. CASE PreFlightCheck(b)
  <2>1. pc[b] = "preflight" /\ UNCHANGED <<sb, cache, cached, current, wl>>
    BY <1>7, Zenon DEF PreFlightCheck
  <2>2. CASE \E r \in {"ApplicationNotFound", "EmptyApplication", "NoBindingData",
                 "RequiredBindingNotFound"}, st \in FlowStatus :
               Close(b, SetInjection(local[b], r), Flow(b, st))
    BY <1>a, <1>f, <2>1, <2>2, ConditionTypes, ConditionsAgree, Zenon DEF BeforeClose
  <2>3. CASE job[b].data # NoData /\ ProjectAndClose(b, local[b], Applications(local[b].ref))
    <3>1. job[b].data \in Data
      BY <1>a, <2>3, Zenon DEF Jobs
    <3> QED
      BY <1>b, <1>6, <2>1, <2>3, <3>1, Zenon
  <2> QED
    BY <1>7, <2>2, <2>3, Zenon DEF PreFlightCheck, FlowStatus
<1>8. CASE ProjectRegardless(b)
  <2>1. pc[b] = "project" /\ UNCHANGED <<sb, cache, cached, current, wl>>
    BY <1>8, Zenon DEF ProjectRegardless
  <2>2. job[b].data \in Data
    BY <1>a, <2>1, Zenon DEF JobCoherent
  <2> QED
    BY <1>8, <1>b, <1>g, <1>6, <2>1, <2>2 DEF ProjectRegardless
<1>9. ASSUME NEW v \in Workloads, UpdateWorkload(b, v)
      PROVE  CoherentAt(b)'
  <2>1. /\ pc[b] = "workloads" /\ UNCHANGED <<sb, cache, cached, current>>
        /\ job[b].saving = "close"
    BY <1>9, <1>a, Zenon DEF UpdateWorkload, UpdateFailed, StaleWorkload, JobCoherent
  <2> DEFINE j == [job[b] EXCEPT !.todo = @ \ {v}, !.desired = [@ EXCEPT ![v] = Bare]]
             e == [job[b] EXCEPT !.saving = "appFailed"]
  <2>2. /\ j.saving = "close" /\ j.todo = job[b].todo \ {v}
        /\ \A w \in j.todo : j.desired[w] = job[b].desired[w]
        /\ e.saving = "appFailed"
    BY <1>a, <2>1, Zenon DEF Jobs
  <2> HIDE DEF j, e
  <2>3. PICK step, p, k :
          /\ step \in {"workloads", "status"}
          /\ Continue(b, step, p, k) /\ Agree(p, local[b])
          /\ step = "workloads" => k = j
          /\ k.saving \in {"close", "appFailed"}
    <3>1. \A r : Agree(SetReady(local[b], r), local[b])
      BY <1>a, ConditionsAgree, Zenon
    <3>2. \/ Continue(b, "status", SetReady(local[b], "ApplicationsBound"), j)
          \/ Continue(b, "workloads", local[b], j)
          \/ Continue(b, "status", SetReady(local[b], "ApplicationUpdateError"), e)
      BY <1>9, Zenon DEF UpdateWorkload, UpdateFailed, StaleWorkload, j, e
    <3>3. CASE Continue(b, "status", SetReady(local[b], "ApplicationsBound"), j)
      BY <2>2, <3>1, <3>3
    <3>4. CASE Continue(b, "workloads", local[b], j)
      BY <2>2, <3>4 DEF Agree
    <3>5. CASE Continue(b, "status", SetReady(local[b], "ApplicationUpdateError"), e)
      BY <2>2, <3>1, <3>5
    <3> QED
      BY <3>2, <3>3, <3>4, <3>5, Zenon
  <2>4. pc'[b] = step /\ local'[b] = p /\ job'[b] = k
    BY <1>a, <2>3, Zenon DEF Continue, WorkerType
  <2>5. LocalCoherent(b)'
    BY <1>a, <2>1, <2>3, LocalStep, Zenon DEF Steps, Agree
  <2>6. JobCoherent(b)'
    BY <2>2, <2>3, <2>4, Zenon DEF JobCoherent, Binding, BeforeClose
  <2>7. ASSUME NEW w \in Workloads PROVE WriteCoherent(b, w)'
    <3>1. w # v => wl'[w].content = wl[w].content /\ (<<b, w>> \in fresh' => <<b, w>> \in fresh)
      BY <1>9, Zenon DEF UpdateWorkload, UpdateFailed, StaleWorkload, PutWorkload, TypeOK
    <3> QED
      BY <1>a, <2>1, <2>2, <2>3, <2>4, <3>1 DEF WriteCoherent, Agree
  <2> QED
    BY <1>e, <2>1, <2>5, <2>6, <2>7, Zenon DEF CoherentAt
<1>10. CASE UpdateStatus(b)
  <2> DEFINE o == [sb[b] EXCEPT !.secret = local[b].secret, !.conditions = local[b].conditions]
  <2>1. o \in Objects /\ Agree(o, sb[b])
    BY <1>a, Zenon DEF Objects, Agree
  <2>2. pc[b] = "status" /\ cache' = cache
    BY <1>10, Zenon DEF UpdateStatus
  <2>3. CASE /\ Put(b, o) /\ Continue(b, "save", local[b], job[b])
             /\ current' = AfterWrite(b, o) /\ UNCHANGED <<queue, fresh>>
    <3> HIDE DEF o
    <3>1. CacheCoherent(b)' /\ Agree(sb'[b], sb[b])
      BY <1>a, <2>1, <2>2, <2>3, PutCoherent, Zenon DEF TypeOK
    <3>2. pc'[b] = "save" /\ local'[b] = local[b] /\ job'[b] = job[b]
      BY <1>a, <2>3, Zenon DEF Continue, WorkerType
    <3>3. b \in current' => b \in current
      BY <2>3, Zenon DEF AfterWrite
    <3>4. LocalCoherent(b)'
      BY <1>a, <2>2, <2>3, <3>1, <3>3, LocalStep, Zenon DEF Steps, Agree
    <3>5. JobCoherent(b)' /\ \A w \in Workloads : WriteCoherent(b, w)'
      BY <1>a, <2>2, <3>2, Zenon DEF JobCoherent, WriteCoherent, Binding, BeforeClose
    <3> QED
      BY <3>1, <3>4, <3>5, Zenon DEF CoherentAt
  <2>4. CASE Persisted(b, FALSE, current) /\ UNCHANGED <<sb, cached, dirty>>
    BY <1>a, <1>e, <2>2, <2>4, PersistedCoherent, Zenon DEF CoherentAt, Agree
  <2> QED
    BY <1>10, <2>3, <2>4, Zenon DEF UpdateStatus
<1>11. CASE SaveBinding(b)
  <2> DEFINE o == [local[b] EXCEPT !.secret = sb[b].secret, !.conditions = sb[b].conditions]
  <2>1. o \in Objects /\ Agree(o, local[b])
    BY <1>a, Zenon DEF Objects, Agree
  <2>2. pc[b] = "save" /\ cache' = cache
    BY <1>11, Zenon DEF SaveBinding
  <2>3. CASE ~Stale(b) /\ Put(b, o) /\ Persisted(b, TRUE, AfterWrite(b, o))
    <3> HIDE DEF o
    <3>1. Agree(o, sb[b])
      BY <1>a, <2>1, <2>2, <2>3, Zenon DEF Stale, LocalCoherent, Agree
    <3>2. CacheCoherent(b)' /\ Agree(sb'[b], sb[b])
      BY <1>a, <2>1, <2>2, <2>3, <3>1, PutCoherent, Zenon DEF TypeOK
    <3>3. b \in AfterWrite(b, o) => b \in current
      BY Zenon DEF AfterWrite
    <3> QED
      BY <1>a, <2>2, <2>3, <3>2, <3>3, PersistedCoherent, Zenon DEF CoherentAt
  <2>4. CASE Persisted(b, FALSE, current) /\ UNCHANGED <<sb, cached, dirty>>
    BY <1>a, <1>e, <2>2, <2>4, PersistedCoherent, Zenon DEF CoherentAt, Agree
  <2> QED
    BY <1>11, <2>3, <2>4, Zenon DEF SaveBinding
<1>12. CASE RemoveFinalizer(b)
  <2>1. pc[b] = "remove" /\ local[b].deleting /\ cache' = cache /\ ~Live(cache[b])
    BY <1>12, <1>a, Zenon DEF RemoveFinalizer, JobCoherent, LocalCoherent
  <2>2. CASE Put(b, NoBinding) /\ Done(b, FALSE)
    <3>1. sb'[b] = NoBinding /\ (b \in cached' => b \in cached /\ NoBinding = sb[b])
      BY <2>2, Zenon DEF Put, TypeOK
    <3>2. CacheCoherent(b)'
      BY <1>a, <2>1, <3>1, Zenon DEF CacheCoherent, Live, NoBinding, NewBinding
    <3> QED
      BY <1>a, <2>2, <3>2, DoneCoherent, Zenon DEF CoherentAt
  <2>3. CASE Done(b, TRUE) /\ UNCHANGED <<sb, cached, dirty>>
    BY <1>a, <1>e, <2>1, <2>3, DoneCoherent, Zenon DEF CoherentAt
  <2> QED
    BY <1>12, <2>2, <2>3, Zenon DEF RemoveFinalizer
<1> QED
  BY <1>1, <1>2, <1>3, <1>4, <1>5, <1>7, <1>8, <1>9, <1>10, <1>11, <1>12, Zenon DEF Reconcile


\* ... and touches nothing that belongs to another binding.
LEMMA OthersUntouched ==
  ASSUME TypeOK, NEW b \in Bindings, NEW c \in Bindings \ {b}, Reconcile(b) \/ SyncCache(b)
  PROVE  SameFor(c) /\ SameWrites(c)
<1> USE DEF cluster, informer, worker
<1>1. \A step, o, j : Continue(b, step, o, j) =>
        pc'[c] = pc[c] /\ local'[c] = local[c] /\ job'[c] = job[c]
  BY Zenon DEF Continue, TypeOK
<1>2. \A requeue : Done(b, requeue) =>
        /\ pc'[c] = pc[c] /\ local'[c] = local[c] /\ job'[c] = job[c]
        /\ c \in current' <=> c \in current
        /\ \A w \in Workloads : <<c, w>> \in fresh' <=> <<c, w>> \in fresh
  BY Zenon DEF Done, TypeOK
<1>3. \A o : Put(b, o) => sb'[c] = sb[c] /\ (c \in cached' <=> c \in cached)
  BY Zenon DEF Put, TypeOK
<1>4. \A o, j : Close(b, o, j) =>
        /\ pc'[c] = pc[c] /\ local'[c] = local[c] /\ job'[c] = job[c]
        /\ \A w \in Workloads : <<c, w>> \in fresh' <=> <<c, w>> \in fresh
  BY <1>1, Zenon DEF Close
<1>5. \A o : c \in AfterWrite(b, o) <=> c \in current
  BY Zenon DEF AfterWrite
<1>6. \A ok, cur : Persisted(b, ok, cur) /\ (c \in cur <=> c \in current) =>
        /\ pc'[c] = pc[c] /\ local'[c] = local[c] /\ job'[c] = job[c]
        /\ c \in current' <=> c \in current
        /\ \A w \in Workloads : <<c, w>> \in fresh' <=> <<c, w>> \in fresh
  BY <1>1, <1>2, Zenon DEF Persisted
<1>7. CASE Begin(b)
  BY <1>7, <1>1, Zenon DEF Begin, SameFor, SameWrites
<1>8. CASE AddFinalizer(b)
  BY <1>8, <1>1, <1>2, <1>3, Zenon DEF AddFinalizer, SameFor, SameWrites
<1>9. CASE Unbind(b) \/ Collect(b) \/ PreFlightCheck(b) \/ ProjectRegardless(b)
  <2>1. \A o, ws : ProjectAndClose(b, o, ws) =>
          /\ pc'[c] = pc[c] /\ local'[c] = local[c] /\ job'[c] = job[c]
          /\ \A w \in Workloads : <<c, w>> \in fresh' <=> <<c, w>> \in fresh
    BY <1>4, Zenon DEF ProjectAndClose
  <2>2. UNCHANGED <<cluster, informer, current>>
    BY <1>9, Zenon DEF Unbind, Collect, PreFlightCheck, ProjectRegardless
  <2>3. /\ pc'[c] = pc[c] /\ local'[c] = local[c] /\ job'[c] = job[c]
        /\ \A w \in Workloads : <<c, w>> \in fresh' <=> <<c, w>> \in fresh
    <3>1. CASE Unbind(b)
      BY <3>1, <1>4, Zenon DEF Unbind
    <3>2. CASE Collect(b)
      BY <3>2, <1>1, <1>4, Zenon DEF Collect
    <3>3. CASE PreFlightCheck(b)
      BY <3>3, <1>4, <2>1, ZenonT(30) DEF PreFlightCheck
    <3>4. CASE ProjectRegardless(b)
      BY <3>4, <2>1, Zenon DEF ProjectRegardless
    <3> QED BY <1>9, <3>1, <3>2, <3>3, <3>4, Zenon
  <2> QED
    BY <2>2, <2>3, Zenon DEF SameFor, SameWrites
<1>10. CASE PersistSecret(b)
  BY <1>10, <1>1, Zenon DEF PersistSecret, SameFor, SameWrites
<1>11. ASSUME NEW v \in Workloads, UpdateWorkload(b, v)
       PROVE  SameFor(c) /\ SameWrites(c)
  <2>1. SameFor(c)
    BY <1>11, <1>1, Zenon DEF UpdateWorkload, UpdateFailed, StaleWorkload, SameFor
  <2>2. SameWrites(c)
    BY <1>11 DEF UpdateWorkload, UpdateFailed, StaleWorkload, PutWorkload, SameWrites, TypeOK
  <2> QED BY <2>1, <2>2, Zenon
<1>12. CASE UpdateStatus(b)
  BY <1>12, <1>1, <1>3, <1>5, <1>6, Zenon DEF UpdateStatus, SameFor, SameWrites
<1>13. CASE SaveBinding(b)
  BY <1>13, <1>3, <1>5, <1>6, Zenon DEF SaveBinding, SameFor, SameWrites
<1>14. CASE RemoveFinalizer(b)
  BY <1>14, <1>2, <1>3, Zenon DEF RemoveFinalizer, SameFor, SameWrites
<1>15. CASE SyncCache(b)
  BY <1>15, Zenon DEF SyncCache, SameFor, SameWrites, TypeOK
<1> QED
  BY <1>7, <1>8, <1>9, <1>10, <1>11, <1>12, <1>13, <1>14, <1>15, Zenon DEF Reconcile

LEMMA OtherStep ==
  ASSUME TypeOK, NEW b \in Bindings, NEW c \in Bindings \ {b}, CoherentAt(c),
         Reconcile(b) \/ SyncCache(b)
  PROVE  CoherentAt(c)'
BY OthersUntouched, Frame, Zenon

LEMMA SyncCoherent ==
  ASSUME TypeOK, NEW b \in Bindings, CoherentAt(b), SyncCache(b)
  PROVE  CoherentAt(b)'
<1> USE DEF cluster, worker
<1>1. cache'[b] = sb[b] /\ UNCHANGED <<sb, wl, pc, local, current, job, fresh>>
      /\ cached' = cached \cup {b}
  BY Zenon DEF SyncCache, TypeOK
<1>2. CacheCoherent(b)'
  BY <1>1, Zenon DEF CacheCoherent, Live
<1>3. LocalCoherent(b)'
  BY <1>1, Zenon DEF CoherentAt, LocalCoherent
<1>4. JobCoherent(b)' /\ \A w \in Workloads : WriteCoherent(b, w)'
  BY <1>1, Zenon DEF CoherentAt, JobCoherent, WriteCoherent, Binding
<1> QED
  BY <1>2, <1>3, <1>4, Zenon DEF CoherentAt

\* What a user may do to a stored binding that others hold copies of.
UserMay(o, p) ==
  /\ o.exists /\ o.finalizer => p.exists /\ p.finalizer
  /\ Live(p) => Live(o)

LEMMA UserPutCoherent ==
  ASSUME TypeOK, Coherent, NEW b \in Bindings, NEW o \in Objects, UserMay(sb[b], o), UserPut(b, o)
  PROVE  Coherent'
<1>1. /\ UNCHANGED <<wl, cache, pc, local, job, fresh>>
      /\ sb' = [sb EXCEPT ![b] = o]
      /\ b \in cached' => o = sb[b] /\ b \in cached
      /\ b \in current' => o = sb[b] /\ b \in current
      /\ o = sb[b] => cached' = cached
      /\ \A c \in Bindings \ {b} : (c \in cached' <=> c \in cached) /\ (c \in current' <=> c \in current)
  BY Zenon DEF UserPut, Put, AfterWrite
<1>2. ASSUME NEW c \in Bindings \ {b}
      PROVE  CoherentAt(c)'
  <2>1. SameFor(c) /\ SameWrites(c)
    BY <1>1, Zenon DEF SameFor, SameWrites, TypeOK
  <2> QED BY <2>1, Frame, Zenon DEF Coherent
<1>3. sb'[b] = o /\ CoherentAt(b)
  BY <1>1, Zenon DEF TypeOK, Coherent
<1>4. CacheCoherent(b)'
  BY <1>1, <1>3, Zenon DEF CoherentAt, CacheCoherent, UserMay, Live
<1>5. LocalCoherent(b)'
  BY <1>1, <1>3, Zenon DEF CoherentAt, LocalCoherent, UserMay, Live
<1>6. JobCoherent(b)' /\ \A w \in Workloads : WriteCoherent(b, w)'
  BY <1>1, <1>3, Zenon DEF CoherentAt, JobCoherent, WriteCoherent, Binding
<1> QED
  BY <1>2, <1>4, <1>5, <1>6, Zenon DEF Coherent, CoherentAt

LEMMA OutsideCoherent ==
  ASSUME TypeOK, Coherent, Outside
  PROVE  Coherent'
<1> USE DEF cluster, informer, worker
<1>0. \A b \in Bindings : sb[b] \in Objects
  BY Zenon DEF TypeOK
<1>1. ASSUME NEW b \in Bindings, NEW ref \in Refs, CreateBinding(b, ref)
      PROVE  Coherent'
  <2>1. UserMay(sb[b], NewBinding(ref))
    BY <1>1, Zenon DEF CreateBinding, UserMay, NewBinding, Live
  <2> QED BY <1>1, <2>1, BindingTypes, UserPutCoherent, Zenon DEF CreateBinding
<1>2. ASSUME NEW b \in Bindings, NEW ref \in Refs, EditBinding(b, ref)
      PROVE  Coherent'
  <2> DEFINE o == [sb[b] EXCEPT !.ref = ref]
  <2>1. o \in Objects /\ UserMay(sb[b], o)
    BY <1>0, Zenon DEF UserMay, Objects, Live
  <2> HIDE DEF o
  <2> QED BY <1>2, <2>1, UserPutCoherent, Zenon DEF EditBinding, o
<1>3. ASSUME NEW b \in Bindings, DeleteBinding(b)
      PROVE  Coherent'
  <2> DEFINE o == [sb[b] EXCEPT !.deleting = TRUE]
  <2>1. o \in Objects /\ UserMay(sb[b], o)
    BY <1>0, Zenon DEF UserMay, Objects, Live
  <2>2. ~sb[b].finalizer => UserMay(sb[b], NoBinding)
    BY Zenon DEF UserMay, NoBinding, NewBinding, Live
  <2> HIDE DEF o
  <2> QED BY <1>3, <2>1, <2>2, BindingTypes, UserPutCoherent, Zenon DEF DeleteBinding, o
<1>4. ASSUME NEW b \in Bindings, AnnotateBinding(b)
      PROVE  Coherent'
  <2> DEFINE o == [sb[b] EXCEPT !.rebind = TRUE]
  <2>1. o \in Objects /\ UserMay(sb[b], o)
    BY <1>0, Zenon DEF UserMay, Objects, Live
  <2> HIDE DEF o
  <2> QED BY <1>4, <2>1, UserPutCoherent, Zenon DEF AnnotateBinding, o
<1>5. ASSUME NEW b \in Bindings, NEW v, ChangeService(b, v)
      PROVE  Coherent'
  <2>1. \A c \in Bindings : SameFor(c) /\ SameWrites(c)
    BY <1>5, Zenon DEF ChangeService, SameFor, SameWrites
  <2> QED BY <2>1, Frame, Zenon DEF Coherent
<1>6. ASSUME NEW v \in Workloads, NEW e \in BOOLEAN, ChangeWorkload(v, e)
      PROVE  Coherent'
  <2>1. \A c \in Bindings : SameFor(c)
    BY <1>6, Zenon DEF ChangeWorkload, SameFor
  <2>2. \A c \in Bindings : SameWrites(c)
    BY <1>6, Zenon DEF ChangeWorkload, SameWrites, TypeOK
  <2> QED BY <2>1, <2>2, Frame, Zenon DEF Coherent
<1>7. CASE Restart
  <2> SUFFICES ASSUME NEW b \in Bindings PROVE CoherentAt(b)'
    BY Zenon DEF Coherent
  <2>1. /\ pc'[b] = "idle" /\ job'[b] = NoJob /\ sb' = sb /\ cache' = sb
    BY <1>7, Zenon DEF Restart
  <2>2. CacheCoherent(b)'
    BY <2>1, ZenonT(30) DEF CacheCoherent, Live
  <2>3. LocalCoherent(b)' /\ JobCoherent(b)' /\ \A w \in Workloads : WriteCoherent(b, w)'
    BY <2>1, NoJobFields, Zenon
       DEF LocalCoherent, JobCoherent, WriteCoherent, Binding, BeforeClose
  <2> QED BY <2>2, <2>3, Zenon DEF CoherentAt
<1> QED
  BY <1>1, <1>2, <1>3, <1>4, <1>5, <1>6, <1>7, Zenon DEF Outside

LEMMA CoherentInit == Init => Coherent
<1> SUFFICES ASSUME Init, NEW b \in Bindings PROVE CoherentAt(b)
  BY Zenon DEF Coherent
<1>1. pc[b] = "idle" /\ job[b] = NoJob /\ sb[b] = NoBinding /\ cache[b] = NoBinding
  BY Zenon DEF Init
<1>2. CacheCoherent(b)
  BY <1>1, Zenon DEF CacheCoherent, Live, NoBinding, NewBinding
<1>3. LocalCoherent(b) /\ JobCoherent(b) /\ \A w \in Workloads : WriteCoherent(b, w)
  BY <1>1 DEF LocalCoherent, JobCoherent, WriteCoherent, Binding, BeforeClose, NoJob
<1> QED BY <1>2, <1>3, Zenon DEF CoherentAt

LEMMA NextCoherent ==
  ASSUME TypeOK, Coherent, [Next]_vars
  PROVE  Coherent'
<1>1. CASE UNCHANGED vars
  <2>1. \A c \in Bindings : SameFor(c) /\ SameWrites(c)
    BY <1>1, Zenon DEF vars, cluster, informer, worker, SameFor, SameWrites
  <2> QED BY <2>1, Frame, Zenon DEF Coherent
<1>2. ASSUME NEW b \in Bindings, Reconcile(b)
      PROVE  Coherent'
  BY <1>2, OwnStep, OtherStep, Zenon DEF Coherent
<1>3. ASSUME NEW b \in Bindings, SyncCache(b)
      PROVE  Coherent'
  BY <1>3, SyncCoherent, OtherStep, Zenon DEF Coherent
<1> QED
  BY <1>1, <1>2, <1>3, OutsideCoherent, Zenon DEF Next

\* Every step of the system keeps the variables well-typed and the copies
\* that informer and workers hold coherent with the stored objects: the two
\* facts are inductive only together, since a worker's job is well-typed
\* because it projects nothing but collected data.
THEOREM Invariance == Spec => [](TypeOK /\ Coherent)
<1>1. Init => TypeOK /\ Coherent
  BY TypeInit, CoherentInit, Zenon
<1>2. TypeOK /\ Coherent /\ [Next]_vars => TypeOK' /\ Coherent'
  BY NextType, NextCoherent, Zenon
<1> QED
  BY <1>1, <1>2, PTL DEF Spec

(***************************************************************************)
(* The safety properties                                                   *)
(***************************************************************************)

\* The variables keep their types: in particular the pipeline never projects a
\* secret for which nothing was collected.
THEOREM TypeCorrect == Spec => []TypeOK
BY Invariance, PTL

\* Who writes workloads, and what.
Writes(b, w) ==
  /\ UpdateWorkload(b, w)
  /\ pc[b] = "workloads" /\ w \in job[b].todo /\ <<b, w>> \in fresh
  /\ wl' = [wl EXCEPT ![w].content = job[b].desired[w]]

LEMMA WorkloadWriters ==
  ASSUME [Next]_vars, wl' # wl
  PROVE  \/ \E b \in Bindings, w \in Workloads : Writes(b, w)
         \/ \E w \in Workloads, e \in BOOLEAN : ChangeWorkload(w, e)
<1>1. \/ \E b \in Bindings, w \in Workloads : UpdateWorkload(b, w)
      \/ \E w \in Workloads, e \in BOOLEAN : ChangeWorkload(w, e)
  BY ZenonT(30)
     DEF Next, vars, cluster, informer, worker, Outside, CreateBinding, EditBinding,
         DeleteBinding, AnnotateBinding, UserPut, ChangeService, Restart, SyncCache,
         Reconcile, Begin, AddFinalizer, Unbind, Collect, PersistSecret, PreFlightCheck,
         ProjectRegardless, UpdateStatus, SaveBinding, RemoveFinalizer
<1>2. ASSUME NEW b \in Bindings, NEW w \in Workloads, UpdateWorkload(b, w)
      PROVE  Writes(b, w)
  BY <1>2, Zenon DEF Writes, UpdateWorkload, StaleWorkload, PutWorkload
<1> QED BY <1>1, <1>2, Zenon

\* A workload starts to carry a binding only while the stored binding, or one
\* that puts the same into the workload, has the finalizer: for any number of
\* bindings, workloads, failures and outside changes, and however far the
\* informer's cache lags behind.
THEOREM FinalizerFirst == Spec => FinalizerGuardsProjection
<1> DEFINE Guarded == \A b \in Bindings, w \in Workloads :
                        ~Carries(wl[w].content, b) /\ Carries(wl'[w].content, b)
                          => \E c \in {b} \cup Twins[b] : sb[c].exists /\ sb[c].finalizer
<1>1. ASSUME TypeOK, Coherent, [Next]_vars
      PROVE  Guarded
  <2> SUFFICES ASSUME NEW c \in Bindings, NEW w \in Workloads,
                      ~Carries(wl[w].content, c), Carries(wl'[w].content, c)
               PROVE  \E b \in {c} \cup Twins[c] : sb[b].exists /\ sb[b].finalizer
    BY Zenon
  <2>1. ~Carries(Bare, c)
    BY BareCarries, Zenon
  <2>2. wl'[w].content # wl[w].content
    BY Zenon
  <2>3. ASSUME NEW v \in Workloads, NEW e \in BOOLEAN, ChangeWorkload(v, e)
        PROVE  FALSE
    BY <1>1, <2>1, <2>3, Zenon DEF ChangeWorkload, TypeOK
  <2>4. wl' # wl
    BY <2>2, Zenon
  <2>5. PICK b \in Bindings, v \in Workloads : Writes(b, v)
    BY <1>1, <2>3, <2>4, WorkloadWriters, Zenon
  <2>6. /\ v = w /\ pc[b] = "workloads" /\ w \in job[b].todo /\ <<b, w>> \in fresh
        /\ wl'[w].content = job[b].desired[w]
    <3>1. wl \in [Workloads -> [exists: BOOLEAN, content: Contents]]
      BY <1>1, Zenon DEF TypeOK
    <3> QED BY <2>2, <2>5, <3>1, Zenon DEF Writes
  <2>7. c \in {b} \cup Twins[b] /\ ~local[b].deleting
    BY <1>1, <2>6, Zenon DEF Coherent, CoherentAt, WriteCoherent
  <2>8. b \in {c} \cup Twins[c]
    BY <2>7, Zenon DEF Twins, Shares
  <2>9. sb[b].exists /\ sb[b].finalizer
    BY <1>1, <2>6, <2>7, Zenon DEF Coherent, CoherentAt, LocalCoherent
  <2> QED
    BY <2>8, <2>9, Zenon
<1>2. ASSUME TypeOK, Coherent, [Next]_vars
      PROVE  [Guarded]_vars
  BY <1>1, <1>2, Zenon
<1> QED
  BY <1>2, Invariance, PTL DEF Spec, FinalizerGuardsProjection

\* No write, by a worker with an old copy or by a user, takes a requested
\* deletion back or changes the spec of a ready binding.
THEOREM DeletionSticks == Spec => NoStaleOverwrite
<1> DEFINE Kept == \A b \in Bindings : sb[b].exists /\ sb'[b].exists =>
                     /\ sb[b].deleting => sb'[b].deleting
                     /\ Ready(sb[b]) => sb'[b].ref = sb[b].ref
<1>1. ASSUME TypeOK, Coherent, [Next]_vars
      PROVE  Kept
  <2> USE DEF cluster, informer, worker
  <2> SUFFICES ASSUME NEW c \in Bindings, sb[c].exists, sb'[c].exists
               PROVE  /\ sb[c].deleting => sb'[c].deleting
                      /\ Ready(sb[c]) => sb'[c].ref = sb[c].ref
    BY Zenon
  <2>a. sb \in [Bindings -> Objects] /\ local[c] \in Objects /\ sb[c] \in Objects
        /\ LocalCoherent(c)
    BY <1>1, Zenon DEF TypeOK, Coherent, CoherentAt
  <2>b. CASE sb'[c] = sb[c]
    BY <2>b, Zenon
  <2>c. \A b \in Bindings \ {c} : \A o : Put(b, o) => sb'[c] = sb[c]
    BY <2>a, Zenon DEF Put
  <2>d. \A o : Put(c, o) => sb'[c] = o
    BY <2>a, Zenon DEF Put
  <2>1. ASSUME NEW b \in Bindings, AddFinalizer(b), sb'[c] # sb[c]
        PROVE  sb'[c].deleting = sb[c].deleting /\ sb'[c].ref = sb[c].ref
    <3>1. b = c /\ b \in current /\ pc[c] = "finalizer"
          /\ sb'[c] = [local[c] EXCEPT !.finalizer = TRUE]
      BY <2>1, <2>c, <2>d, Zenon DEF AddFinalizer, Stale
    <3> QED
      BY <2>a, <3>1, Zenon DEF LocalCoherent, Objects
  <2>2. ASSUME NEW b \in Bindings, UpdateStatus(b), sb'[c] # sb[c]
        PROVE  sb'[c].deleting = sb[c].deleting /\ sb'[c].ref = sb[c].ref
    <3>1. sb'[c] = [sb[c] EXCEPT !.secret = local[c].secret, !.conditions = local[c].conditions]
      BY <2>2, <2>c, <2>d, Zenon DEF UpdateStatus
    <3> QED
      BY <2>a, <3>1, Zenon DEF Objects
  <2>3. ASSUME NEW b \in Bindings, SaveBinding(b), sb'[c] # sb[c]
        PROVE  sb'[c].deleting = sb[c].deleting /\ sb'[c].ref = sb[c].ref
    <3>1. b = c /\ b \in current /\ pc[c] = "save"
          /\ sb'[c] = [local[c] EXCEPT !.secret = sb[c].secret, !.conditions = sb[c].conditions]
      BY <2>3, <2>c, <2>d, Zenon DEF SaveBinding, Stale
    <3> QED
      BY <2>a, <3>1, Zenon DEF LocalCoherent, Objects
  <2>4. ASSUME NEW b \in Bindings, RemoveFinalizer(b), sb'[c] # sb[c]
        PROVE  FALSE
    BY <2>4, <2>c, <2>d, Zenon DEF RemoveFinalizer, NoBinding, NewBinding
  <2>5. ASSUME NEW b \in Bindings, NEW ref \in Refs, CreateBinding(b, ref), sb'[c] # sb[c]
        PROVE  FALSE
    BY <2>5, <2>c, Zenon DEF CreateBinding, UserPut
  <2>6. ASSUME NEW b \in Bindings, NEW ref \in Refs, EditBinding(b, ref), sb'[c] # sb[c]
        PROVE  sb'[c].deleting = sb[c].deleting /\ ~Ready(sb[c])
    <3>1. b = c /\ sb'[c] = [sb[c] EXCEPT !.ref = ref] /\ ~Ready(sb[c])
      BY <2>6, <2>c, <2>d, Zenon DEF EditBinding, UserPut
    <3> QED
      BY <2>a, <3>1, Zenon DEF Objects
  <2>7. ASSUME NEW b \in Bindings, DeleteBinding(b), sb'[c] # sb[c]
        PROVE  sb'[c].deleting /\ sb'[c].ref = sb[c].ref
    <3>1. sb'[c] = [sb[c] EXCEPT !.deleting = TRUE] \/ sb'[c] = NoBinding
      BY <2>7, <2>c, <2>d, Zenon DEF DeleteBinding, UserPut
    <3> QED
      BY <2>a, <3>1, Zenon DEF Objects, NoBinding, NewBinding
  <2>8. ASSUME NEW b \in Bindings, AnnotateBinding(b), sb'[c] # sb[c]
        PROVE  sb'[c].deleting = sb[c].deleting /\ sb'[c].ref = sb[c].ref
    <3>1. sb'[c] = [sb[c] EXCEPT !.rebind = TRUE]
      BY <2>8, <2>c, <2>d, Zenon DEF AnnotateBinding, UserPut
    <3> QED
      BY <2>a, <3>1, Zenon DEF Objects
  <2>9. CASE sb' # sb
    <3>1. \/ \E b \in Bindings : AddFinalizer(b) \/ UpdateStatus(b) \/ SaveBinding(b)
                                 \/ RemoveFinalizer(b) \/ DeleteBinding(b) \/ AnnotateBinding(b)
          \/ \E b \in Bindings, ref \in Refs : CreateBinding(b, ref) \/ EditBinding(b, ref)
      BY <1>1, <2>9, ZenonT(30)
         DEF Next, vars, Outside, ChangeService, ChangeWorkload, Restart, SyncCache, Reconcile,
             Begin, Unbind, Collect, PersistSecret, PreFlightCheck, ProjectRegardless,
             UpdateWorkload
    <3> QED
      BY <2>b, <2>1, <2>2, <2>3, <2>4, <2>5, <2>6, <2>7, <2>8, <3>1, Zenon
  <2> QED
    BY <2>b, <2>9, Zenon
<1>2. ASSUME TypeOK, Coherent, [Next]_vars
      PROVE  [Kept]_vars
  BY <1>1, <1>2, Zenon
<1> QED
  BY <1>2, Invariance, PTL DEF Spec, NoStaleOverwrite

\* A copy that was made of o.
MadeOf(p, o) == p.secret \in {o.secret, NoSecret} /\ (p.rebind => o.rebind)

LEMMA CopiesStep ==
  ASSUME TypeOK, SecretsCoherent, NEW b \in Bindings, secrets \subseteq secrets',
         NEW o, NEW p, NEW q, CopySound(b, o), CopySound(b, p), CopySound(b, q),
         sb' = [sb EXCEPT ![b] = o], cache' = [cache EXCEPT ![b] = p],
         local' = [local EXCEPT ![b] = q]
  PROVE  SecretsCoherent'
BY DEF TypeOK, SecretsCoherent, CopySound

LEMMA SecretsStep ==
  ASSUME TypeOK, SecretsCoherent, [Next]_vars
  PROVE  SecretsCoherent'
<1> USE DEF cluster, informer, worker
<1>a. /\ sb \in [Bindings -> Objects] /\ cache \in [Bindings -> Objects]
      /\ local \in [Bindings -> Objects] /\ job \in [Bindings -> Jobs]
  BY Zenon DEF TypeOK
<1>b. \A b \in Bindings : /\ CopySound(b, sb[b]) /\ CopySound(b, cache[b]) /\ CopySound(b, local[b])
                          /\ CopySound(b, NoBinding)
                          /\ \A ref \in Refs : CopySound(b, NewBinding(ref))
  BY Zenon DEF SecretsCoherent, CopySound, NoBinding, NewBinding
<1>c. \A b \in Bindings : \A p, o : CopySound(b, o) /\ MadeOf(p, o) => CopySound(b, p)
  BY Zenon DEF CopySound, MadeOf
<1>d. \A o \in Objects : /\ MadeOf(o, o) /\ MadeOf(NoBinding, o)
                        /\ \A r : MadeOf(SetReady(o, r), o) /\ MadeOf(SetCollection(o, r), o)
                               /\ MadeOf(SetInjection(o, r), o)
  BY Zenon DEF SetReady, SetCollection, SetInjection, Objects, MadeOf, NoBinding, NewBinding
<1>e. \A b \in Bindings : /\ sb = [sb EXCEPT ![b] = sb[b]]
                          /\ cache = [cache EXCEPT ![b] = cache[b]]
                          /\ local = [local EXCEPT ![b] = local[b]]
  BY <1>a, Zenon
<1>f. \A b \in Bindings : \A step, o, j : Continue(b, step, o, j) =>
        local' = [local EXCEPT ![b] = o]
  BY Zenon DEF Continue
<1>g. \A b \in Bindings : \A requeue : Done(b, requeue) => local' = [local EXCEPT ![b] = NoBinding]
  BY Zenon DEF Done
<1>h. ASSUME NEW b \in Bindings, NEW p, MadeOf(p, local[b]), local' = [local EXCEPT ![b] = p],
             UNCHANGED <<sb, cache>>, secrets \subseteq secrets'
      PROVE  SecretsCoherent'
  BY <1>h, <1>b, <1>c, <1>e, CopiesStep, Zenon
<1>i. ASSUME NEW b \in Bindings, NEW o \in Objects, NEW j, Close(b, o, j), MadeOf(o, local[b]),
             UNCHANGED <<sb, cache, secrets>>
      PROVE  SecretsCoherent'
  <2>1. PICK p : local' = [local EXCEPT ![b] = p] /\ (p = o \/ \E r : p = SetReady(o, r))
    BY <1>i, <1>f DEF Close
  <2>2. MadeOf(p, local[b])
    BY <1>d, <1>i, <2>1 DEF MadeOf
  <2> QED BY <1>h, <1>i, <2>1, <2>2, Zenon
<1>1. ASSUME NEW b \in Bindings, Begin(b)
      PROVE  SecretsCoherent'
  <2>1. local' = local \/ local' = [local EXCEPT ![b] = cache[b]]
    BY <1>1, <1>f, Zenon DEF Begin
  <2> QED BY <1>1, <1>b, <1>e, <2>1, CopiesStep, Zenon DEF Begin
<1>2. ASSUME NEW b \in Bindings, SyncCache(b)
      PROVE  SecretsCoherent'
  BY <1>2, <1>b, <1>e, CopiesStep, Zenon DEF SyncCache
<1>3. ASSUME NEW b \in Bindings, AddFinalizer(b)
      PROVE  SecretsCoherent'
  <2> DEFINE o == [local[b] EXCEPT !.finalizer = TRUE]
  <2>1. MadeOf(o, local[b])
    BY <1>a, Zenon DEF Objects, MadeOf
  <2> HIDE DEF o
  <2>2. \/ sb' = [sb EXCEPT ![b] = o] /\ local' = [local EXCEPT ![b] = o]
        \/ sb' = sb /\ local' = [local EXCEPT ![b] = NoBinding]
    <3>1. \/ Put(b, o) /\ Continue(b, FirstHandler(o), o, job[b])
          \/ Done(b, TRUE) /\ sb' = sb
      BY <1>3, Zenon DEF AddFinalizer, o
    <3> QED BY <3>1, Zenon DEF Put, Continue, Done
  <2>3. UNCHANGED <<cache, secrets>>
    BY <1>3, Zenon DEF AddFinalizer
  <2> QED
    BY <1>b, <1>c, <1>e, <2>1, <2>2, <2>3, CopiesStep, Zenon
<1>4. ASSUME NEW b \in Bindings, Unbind(b)
      PROVE  SecretsCoherent'
  <2> DEFINE q == [local[b] EXCEPT !.rebind = FALSE]
  <2>1. q \in Objects /\ MadeOf(q, local[b]) /\ local[b] \in Objects /\ MadeOf(local[b], local[b])
    <3>1. local[b] \in Objects
      BY <1>a, Zenon
    <3> QED BY <1>d, <3>1, Zenon DEF Objects, MadeOf
  <2> HIDE DEF q
  <2>2. \E j : Close(b, local[b], j) \/ Close(b, q, j)
    BY <1>4, Zenon DEF Unbind, q
  <2> QED BY <1>4, <1>i, <2>1, <2>2, Zenon DEF Unbind
<1>5. ASSUME NEW b \in Bindings, Collect(b)
      PROVE  SecretsCoherent'
  <2>0. local[b] \in Objects
    BY <1>a, Zenon
  <2>1. CASE \E r \in {"ErrorReading", "InvalidAnnotation"} : \E j : Close(b, SetCollection(local[b], r), j)
    <3>1. \A r \in {"ErrorReading", "InvalidAnnotation"} :
            SetCollection(local[b], r) \in Objects /\ MadeOf(SetCollection(local[b], r), local[b])
      BY <1>d, <2>0, ConditionTypes, Zenon
    <3> QED BY <1>i, <1>5, <2>1, <3>1, Zenon DEF Collect
  <2>2. CASE \E step, j : Continue(b, step, local[b], j)
    BY <1>5, <1>d, <1>f, <1>h, <2>0, <2>2, Zenon DEF Collect
  <2> QED BY <1>5, <2>1, <2>2, Zenon DEF Collect
<1>6. ASSUME NEW b \in Bindings, PersistSecret(b)
      PROVE  SecretsCoherent'
  <2> DEFINE o == SetCollection(local[b], "DataCollected")
             name == SecretName(b, job[b].data)
             written == [o EXCEPT !.secret = name]
             e == SetReady(local[b], "ErrorPersistingSecret")
  <2>1. o \in Objects /\ MadeOf(o, local[b]) /\ MadeOf(e, local[b])
    BY <1>a, <1>d, ConditionTypes, Zenon
  <2>2. job[b].data # NoData => name \in OwnSecrets(b)
    BY <1>a, Zenon DEF SecretName, OwnSecrets, Jobs
  <2> HIDE DEF o, e, name
  <2>3. written.secret = name /\ written.rebind = o.rebind
    BY <2>1, Zenon DEF Objects
  <2> HIDE DEF written
  <2>4. UNCHANGED <<sb, cache>> /\ secrets \subseteq secrets'
    BY <1>6, Zenon DEF PersistSecret, WriteSecret
  <2>5. CASE \E step, j : Continue(b, step, o, j) \/ Continue(b, step, e, j)
    BY <1>f, <1>h, <2>1, <2>4, <2>5, Zenon
  <2>6. CASE \E step, j : Continue(b, step, written, j) /\ name \in secrets' /\ job[b].data # NoData
    <3>1. local' = [local EXCEPT ![b] = written]
      BY <1>f, <2>6, Zenon
    <3>2. /\ written.secret \in OwnSecrets(b) \cap secrets'
          /\ written.rebind => "annotate" \in Environment
      BY <1>b, <2>1, <2>2, <2>3, <2>6, Zenon DEF MadeOf, CopySound
    <3> QED
      BY <1>a, <2>4, <3>1, <3>2, Zenon DEF SecretsCoherent, CopySound
  <2> QED
    BY <1>6, <2>5, <2>6, Zenon DEF PersistSecret, WriteSecret, Nothing, o, e, name, written
<1>7. ASSUME NEW b \in Bindings, PreFlightCheck(b) \/ ProjectRegardless(b)
      PROVE  SecretsCoherent'
  <2> DEFINE Reasons == {"ApplicationUpdated", "ApplicationNotFound", "EmptyApplication",
                         "NoBindingData", "RequiredBindingNotFound", "Error"}
  <2>1. \A r \in Reasons :
          SetInjection(local[b], r) \in Objects /\ MadeOf(SetInjection(local[b], r), local[b])
    BY <1>a, <1>d, ConditionTypes, Zenon
  <2>2. \E r \in Reasons : \E j : Close(b, SetInjection(local[b], r), j)
    BY <1>7, Zenon DEF PreFlightCheck, ProjectRegardless, ProjectAndClose
  <2> QED BY <1>i, <1>7, <2>1, <2>2, Zenon DEF PreFlightCheck, ProjectRegardless
<1>8. ASSUME NEW b \in Bindings, NEW w \in Workloads, UpdateWorkload(b, w)
      PROVE  SecretsCoherent'
  <2>1. PICK p : local' = [local EXCEPT ![b] = p] /\ (p = local[b] \/ \E r : p = SetReady(local[b], r))
    BY <1>8, <1>f, Zenon DEF UpdateWorkload, UpdateFailed, StaleWorkload
  <2>2. MadeOf(p, local[b])
    BY <1>a, <1>d, <2>1, Zenon
  <2> QED BY <1>8, <1>h, <2>1, <2>2, Zenon DEF UpdateWorkload, UpdateFailed, StaleWorkload
<1>9. ASSUME NEW b \in Bindings, UpdateStatus(b) \/ SaveBinding(b) \/ RemoveFinalizer(b)
      PROVE  SecretsCoherent'
  <2>0. local[b] \in Objects
    BY <1>a, Zenon
  <2>1. \E p : local' = [local EXCEPT ![b] = p] /\ MadeOf(p, local[b])
    <3>1. \A ok, cur : Persisted(b, ok, cur) =>
            \/ local' = [local EXCEPT ![b] = SetCollection(local[b], "")]
            \/ local' = [local EXCEPT ![b] = NoBinding]
            \/ local' = [local EXCEPT ![b] = local[b]]
      BY <1>f, <1>g, Zenon DEF Persisted
    <3>2. \/ local' = [local EXCEPT ![b] = local[b]]
          \/ local' = [local EXCEPT ![b] = NoBinding]
          \/ \E ok, cur : Persisted(b, ok, cur)
      BY <1>9, <1>f, <1>g, Zenon DEF UpdateStatus, SaveBinding, RemoveFinalizer
    <3> QED BY <1>d, <2>0, <3>1, <3>2, Zenon
  <2> DEFINE o == [sb[b] EXCEPT !.secret = local[b].secret, !.conditions = local[b].conditions]
             q == [local[b] EXCEPT !.secret = sb[b].secret, !.conditions = sb[b].conditions]
  <2>2. /\ o.secret = local[b].secret /\ o.rebind = sb[b].rebind
        /\ q.secret = sb[b].secret /\ q.rebind = local[b].rebind
    BY <1>a, Zenon DEF Objects
  <2> HIDE DEF o, q
  <2>3. CopySound(b, o) /\ CopySound(b, q)
    BY <1>b, <2>2, Zenon DEF CopySound
  <2>4. sb' = sb \/ sb' = [sb EXCEPT ![b] = o] \/ sb' = [sb EXCEPT ![b] = q]
        \/ sb' = [sb EXCEPT ![b] = NoBinding]
    BY <1>9, Zenon DEF UpdateStatus, SaveBinding, RemoveFinalizer, Put, o, q
  <2>5. UNCHANGED <<cache, secrets>>
    BY <1>9, Zenon DEF UpdateStatus, SaveBinding, RemoveFinalizer
  <2> QED
    BY <1>b, <1>c, <1>e, <2>1, <2>3, <2>4, <2>5, CopiesStep, Zenon
<1>10. ASSUME NEW b \in Bindings, NEW o, UserPut(b, o), CopySound(b, o)
       PROVE  SecretsCoherent'
  BY <1>10, <1>b, <1>e, CopiesStep, Zenon DEF UserPut, Put
<1>11. CASE Outside
  <2>1. ASSUME NEW b \in Bindings,
               \/ \E ref \in Refs : CreateBinding(b, ref) \/ EditBinding(b, ref)
               \/ DeleteBinding(b) \/ AnnotateBinding(b)
        PROVE  SecretsCoherent'
    <3>1. \A v : /\ CopySound(b, [sb[b] EXCEPT !.ref = v])
                 /\ CopySound(b, [sb[b] EXCEPT !.deleting = v])
                 /\ "annotate" \in Environment => CopySound(b, [sb[b] EXCEPT !.rebind = v])
      BY <1>a, <1>b DEF CopySound, Objects
    <3>2. \E o : UserPut(b, o) /\ CopySound(b, o)
      BY <2>1, <1>b, <3>1, Zenon
         DEF CreateBinding, EditBinding, DeleteBinding, AnnotateBinding, Happens
    <3> QED BY <1>10, <3>2, Zenon
  <2>2. ASSUME \/ \E b \in Bindings : \E v : ChangeService(b, v)
               \/ \E w \in Workloads : \E e : ChangeWorkload(w, e)
        PROVE  SecretsCoherent'
    <3>1. UNCHANGED <<sb, cache, local, secrets>>
      BY <2>2, Zenon DEF ChangeService, ChangeWorkload
    <3> QED BY <3>1, Zenon DEF CopySound, SecretsCoherent
  <2>3. CASE Restart
    <3>1. \A b \in Bindings : /\ sb'[b] = sb[b] /\ cache'[b] = sb[b] /\ local'[b] = NoBinding
                              /\ secrets' = secrets
      BY <2>3, Zenon DEF Restart
    <3> QED BY <1>b, <3>1, Zenon DEF CopySound, SecretsCoherent
  <2> QED BY <1>11, <2>1, <2>2, <2>3, Zenon DEF Outside
<1>12. CASE UNCHANGED vars
  BY <1>12, Zenon DEF vars, CopySound, SecretsCoherent
<1> QED
  BY <1>1, <1>2, <1>3, <1>4, <1>5, <1>6, <1>7, <1>8, <1>9, <1>11, <1>12, Zenon DEF Next, Reconcile

\* The secret that the status of a binding names has been written before:
\* neither a failed PersistSecret nor an old copy of the status put back by a
\* worker leaves a name behind that Unbind could not use.
THEOREM SecretFirst == Spec => []StatusSecretPersisted
<1>1. Init => SecretsCoherent
  BY DEF Init, SecretsCoherent, CopySound, NoBinding, NewBinding
<1>2. TypeOK /\ SecretsCoherent /\ [Next]_vars => SecretsCoherent'
  BY SecretsStep, Zenon
<1>3. SecretsCoherent => StatusSecretPersisted
  BY Zenon DEF SecretsCoherent, CopySound, StatusSecretPersisted
<1> QED
  BY <1>1, <1>2, <1>3, TypeCorrect, PTL DEF Spec

(***************************************************************************)
(* Isolation: what a worker writes on behalf of a binding is that          *)
(* binding's own change.  From it follow what the writes to a shared       *)
(* workload leave alone, and that the secrets they name exist.             *)
(***************************************************************************)

LEMMA SecretsGrow ==
  ASSUME [Next]_vars
  PROVE  secrets \subseteq secrets'
<1>1. CASE \E b \in Bindings : PersistSecret(b)
  BY <1>1, Zenon DEF PersistSecret, WriteSecret
<1>2. secrets' = secrets \/ \E b \in Bindings : PersistSecret(b)
  BY ZenonT(30)
     DEF Next, vars, cluster, informer, worker, Outside, CreateBinding, EditBinding,
         DeleteBinding, AnnotateBinding, UserPut, ChangeService, ChangeWorkload, Restart,
         SyncCache, Reconcile, Begin, AddFinalizer, Unbind, Collect, PreFlightCheck,
         ProjectRegardless, UpdateWorkload, UpdateStatus, SaveBinding, RemoveFinalizer
<1> QED BY <1>1, <1>2, Zenon

LEMMA OwnChangeKept ==
  ASSUME NEW b, NEW deleting, NEW ss, NEW tt, ss \subseteq tt, NEW old, NEW new,
         OwnChange(b, deleting, ss, old, new)
  PROVE  OwnChange(b, deleting, tt, old, new)
BY Zenon DEF OwnChange

LEMMA IsolationFrame ==
  ASSUME secrets \subseteq secrets', NEW c \in Bindings, WorkerIsolated(c), SameFor(c), SameWrites(c)
  PROVE  WorkerIsolated(c)'
<1>1. ASSUME NEW w \in Workloads PROVE PendingOwn(c, w)'
  BY OwnChangeKept, Zenon DEF SameFor, SameWrites, WorkerIsolated, PendingOwn
<1> QED
  BY <1>1, Zenon DEF SameFor, WorkerIsolated, UnbindRequested

LEMMA CloseIsolated ==
  ASSUME WorkerType, NEW b \in Bindings, NEW o \in Objects, NEW j \in Jobs, j.saving = "close",
         \A w \in j.todo : OwnChange(b, o.deleting, secrets, wl[w].content, j.desired[w]),
         Close(b, o, j), UNCHANGED <<wl, secrets>>
  PROVE  WorkerIsolated(b)'
<1>1. PICK step, p : /\ step \in {"status", "workloads"}
                     /\ Continue(b, step, p, j) /\ p.deleting = o.deleting
  <2>1. \A r : SetReady(o, r).deleting = o.deleting
    BY ConditionsAgree, Zenon DEF Agree
  <2>2. \/ \E r : Continue(b, "status", SetReady(o, r), j)
        \/ Continue(b, "workloads", o, j)
    BY Zenon DEF Close
  <2> QED BY <2>1, <2>2
<1>2. pc'[b] = step /\ local'[b] = p /\ job'[b] = j
  BY <1>1, Zenon DEF Continue, WorkerType
<1>3. \A w \in Workloads : PendingOwn(b, w)'
  BY <1>1, <1>2, Zenon DEF PendingOwn
<1> QED
  BY <1>1, <1>2, <1>3, Zenon DEF WorkerIsolated

LEMMA ContinueIsolated ==
  ASSUME WorkerType, NEW b \in Bindings,
         NEW step \in Steps \ {"preflight", "project", "workloads"}, NEW o, NEW j,
         step = "unbind" => UnbindRequested(o),
         Continue(b, step, o, j), j.saving # "secretFailed"
  PROVE  WorkerIsolated(b)'
<1>1. pc'[b] = step /\ job'[b] = j /\ local'[b] = o
  BY Zenon DEF Continue, WorkerType
<1> QED
  BY <1>1, Zenon DEF WorkerIsolated, PendingOwn, UnbindRequested

LEMMA DoneIsolated ==
  ASSUME WorkerType, NEW b \in Bindings, NEW requeue, Done(b, requeue)
  PROVE  WorkerIsolated(b)'
BY Zenon DEF WorkerType, Done, WorkerIsolated, PendingOwn, NoJob

LEMMA PersistedIsolated ==
  ASSUME WorkerType, NEW b \in Bindings, WorkerIsolated(b),
         NEW ok, NEW cur, Persisted(b, ok, cur)
  PROVE  WorkerIsolated(b)'
<1>1. CASE \E requeue : Done(b, requeue)
  BY <1>1, DoneIsolated, ZenonT(30)
<1>2. CASE /\ job[b].saving = "secretFailed"
           /\ Continue(b, "project", SetCollection(local[b], ""), [job[b] EXCEPT !.saving = "close"])
  <2>1. pc'[b] = "project"
    BY <1>2, Zenon DEF Continue, WorkerType
  <2>2. "secrets" \in Faults
    BY <1>2, Zenon DEF WorkerIsolated
  <2> QED
    BY <2>1, <2>2, Zenon DEF WorkerIsolated, PendingOwn
<1>3. CASE job[b].saving = "close" /\ Continue(b, "remove", local[b], job[b])
  BY <1>3, ContinueIsolated, Zenon DEF Steps
<1> QED
  BY <1>1, <1>2, <1>3, Zenon DEF Persisted

\* Each step of the worker on b makes b's own changes only.
LEMMA OwnIsolated ==
  ASSUME TypeOK, SecretsCoherent, NEW b \in Bindings, CoherentAt(b), WorkerIsolated(b), Reconcile(b)
  PROVE  WorkerIsolated(b)'
<1> USE DEF cluster, informer, worker
<1>a. /\ WorkerType /\ local[b] \in Objects /\ job[b] \in Jobs /\ cache[b] \in Objects
      /\ JobCoherent(b) /\ CopySound(b, local[b])
  BY Zenon DEF TypeOK, WorkerType, CoherentAt, SecretsCoherent
<1>b. \A ref : /\ Applications(ref) \subseteq Workloads
               /\ \A read \in Partial(ref) : read \in SUBSET Applications(ref)
  BY Zenon DEF Applications, Partial
<1>c. \A w \in Workloads : wl[w].content \in Contents
  BY Zenon DEF TypeOK
<1>d. \A st \in FlowStatus : /\ Flow(b, st) \in Jobs
                             /\ Flow(b, st).todo = job[b].todo
                             /\ Flow(b, st).saving = job[b].saving
  BY <1>a, FlowType, Zenon DEF Flow, Jobs
<1>e. ASSUME pc[b] \in BeforeClose, NEW o \in Objects, NEW st \in FlowStatus,
             Close(b, o, Flow(b, st)), UNCHANGED <<wl, secrets>>
      PROVE  WorkerIsolated(b)'
  <2>1. Flow(b, st).todo = {} /\ Flow(b, st).saving = "close"
    BY <1>a, <1>d, <1>e, Zenon DEF JobCoherent
  <2> QED
    BY <1>a, <1>d, <1>e, <2>1, CloseIsolated, Zenon
<1>f. ASSUME pc[b] \in BeforeClose, NEW o \in Objects, NEW st \in FlowStatus,
             NEW ws \in SUBSET Workloads, NEW f,
             \A w \in ws : f[w] \in Contents /\ OwnChange(b, o.deleting, secrets, wl[w].content, f[w]),
             Close(b, o, WithApplications(Flow(b, st), ws, f)), UNCHANGED <<wl, secrets>>
      PROVE  WorkerIsolated(b)'
  <2> DEFINE j == WithApplications(Flow(b, st), ws, f)
  <2>1. j \in Jobs
    BY <1>d, <1>f, WithApplicationsType, Zenon
  <2>2. j.todo = ws /\ j.saving = "close" /\ \A w \in ws : j.desired[w] = f[w]
    BY <1>a, <1>d, <1>f, Zenon DEF WithApplications, Jobs, JobCoherent
  <2> HIDE DEF j
  <2>3. Close(b, o, j)
    BY <1>f, ZenonT(30) DEF j
  <2>4. \A w \in j.todo : OwnChange(b, o.deleting, secrets, wl[w].content, j.desired[w])
    BY <1>f, <2>2, Zenon
  <2> QED
    BY <1>a, <1>f, <2>1, <2>2, <2>3, <2>4, CloseIsolated, Zenon
<1>1. CASE Begin(b)
  <2>1. CASE cache[b].exists
    <3>1. \E step \in {"finalizer", "unbind", "collect"} :
            /\ step = "unbind" => UnbindRequested(cache[b])
            /\ Continue(b, step, cache[b], NoJob)
      BY <1>1, <2>1, Zenon DEF Begin, FirstHandler
    <3>2. {"finalizer", "unbind", "collect"} \subseteq Steps \ {"preflight", "project", "workloads"}
      BY Zenon DEF Steps
    <3> QED BY <1>a, <3>1, <3>2, NoJobFields, ContinueIsolated, Zenon
  <2>2. CASE ~cache[b].exists
    <3>1. SameFor(b) /\ SameWrites(b) /\ secrets \subseteq secrets'
      BY <1>1, <2>2, Zenon DEF Begin, SameFor, SameWrites
    <3> QED BY <3>1, IsolationFrame, Zenon
  <2> QED BY <2>1, <2>2, Zenon
<1>2. CASE AddFinalizer(b)
  <2>1. pc[b] = "finalizer" /\ job[b].saving = "close"
    BY <1>2, <1>a, Zenon DEF AddFinalizer, JobCoherent, BeforeClose
  <2>2. \/ \E o : \E step \in {"unbind", "collect"} :
               (step = "unbind" => UnbindRequested(o)) /\ Continue(b, step, o, job[b])
        \/ Done(b, TRUE)
    BY <1>2, Zenon DEF AddFinalizer, FirstHandler
  <2> QED
    BY <1>a, <2>1, <2>2, ContinueIsolated, DoneIsolated, Zenon DEF Steps
<1>3. CASE Unbind(b)
  <2> DEFINE o == local[b]
             ws == Applications(o.ref)
             cs == {w \in ws : Unproject(b, o.secret, wl[w].content) # wl[w].content}
             u == [w \in cs |-> Unproject(b, o.secret, wl[w].content)]
             K(read) == [w \in read |-> wl[w].content]
             q == [o EXCEPT !.rebind = FALSE]
  <2>1. pc[b] \in BeforeClose /\ UNCHANGED <<wl, secrets>>
    BY <1>3, Zenon DEF Unbind, BeforeClose
  <2>2. q \in Objects /\ q.deleting = o.deleting
    BY <1>a, Zenon DEF Objects
  <2>3. CASE \E st \in FlowStatus : Close(b, o, Flow(b, st))
    BY <1>a, <1>e, <2>1, <2>3, Zenon
  <2>4. CASE \E read \in SUBSET ws : Close(b, o, WithApplications(Flow(b, "done"), read, K(read)))
    <3>1. PICK read \in SUBSET ws : Close(b, o, WithApplications(Flow(b, "done"), read, K(read)))
      BY <2>4, Zenon
    <3>2. read \in SUBSET Workloads /\ "done" \in FlowStatus
      BY <1>b, Zenon DEF FlowStatus
    <3>3. \A w \in read : /\ K(read)[w] \in Contents
                          /\ OwnChange(b, o.deleting, secrets, wl[w].content, K(read)[w])
      BY <1>c, <3>2, Zenon DEF OwnChange
    <3> HIDE DEF K
    <3> QED BY <1>a, <1>f, <2>1, <3>1, <3>2, <3>3, Zenon
  <2>5. CASE /\ o.secret # NoSecret
             /\ Close(b, q, WithApplications(Flow(b, IF o.rebind THEN "again" ELSE "done"), cs, u))
    <3>1. o.secret \in OwnSecrets(b) /\ (o.deleting \/ "annotate" \in Environment)
      BY <1>a, <1>3, <2>5, Zenon DEF CopySound, WorkerIsolated, UnbindRequested, Unbind
    <3>2. \A w \in cs : /\ u[w] \in Contents
                        /\ OwnChange(b, q.deleting, secrets, wl[w].content, u[w])
      <4>1. \A w \in cs : u[w] = Unproject(b, o.secret, wl[w].content) /\ w \in Workloads
        BY <1>b, Zenon
      <4>2. o.secret \in SecretNames \cup {NoSecret}
        BY <1>a, Zenon DEF Objects
      <4> HIDE DEF cs, u
      <4> QED BY <1>c, <2>2, <3>1, <4>1, <4>2, ProjectType, Zenon DEF OwnChange
    <3>3. cs \in SUBSET Workloads
      BY <1>b, Zenon
    <3>4. PICK st \in FlowStatus : Close(b, q, WithApplications(Flow(b, st), cs, u))
      BY <2>5, Zenon DEF FlowStatus
    <3> HIDE DEF cs, u, q
    <3> QED BY <1>f, <2>1, <2>2, <3>2, <3>3, <3>4, Zenon
  <2> QED
    BY <1>3, <1>b, <2>3, <2>4, <2>5, Zenon DEF Unbind, FlowStatus
<1>4. CASE Collect(b)
  <2>1. pc[b] \in BeforeClose /\ UNCHANGED <<wl, secrets>> /\ job[b].saving = "close"
    BY <1>4, <1>a, Zenon DEF Collect, BeforeClose, JobCoherent
  <2>2. CASE \E r \in {"ErrorReading", "InvalidAnnotation"}, st \in FlowStatus :
               Close(b, SetCollection(local[b], r), Flow(b, st))
    BY <1>a, <1>e, <2>1, <2>2, ConditionTypes, Zenon
  <2>3. CASE Continue(b, "secret", local[b], [job[b] EXCEPT !.data = svc[b]])
    <3> DEFINE j == [job[b] EXCEPT !.data = svc[b]]
    <3>1. j.saving = "close"
      BY <1>a, <2>1, Zenon DEF Jobs
    <3> HIDE DEF j
    <3>2. Continue(b, "secret", local[b], j)
      BY <2>3, Zenon DEF j
    <3> QED BY <1>a, <3>1, <3>2, ContinueIsolated, Zenon DEF Steps
  <2> QED
    BY <1>4, <2>2, <2>3, Zenon DEF Collect, FlowStatus
<1>5. CASE PersistSecret(b)
  <2>1. pc[b] = "secret" /\ job[b].saving = "close"
    BY <1>5, <1>a, Zenon DEF PersistSecret, JobCoherent, BeforeClose
  <2>2. CASE \E p : /\ Continue(b, "preflight", p, job[b])
                    /\ job[b].data # NoData => SecretName(b, job[b].data) \in secrets'
    <3>1. pc'[b] = "preflight" /\ job'[b] = job[b]
      BY <1>a, <2>2, Zenon DEF Continue, WorkerType
    <3> QED
      BY <2>1, <2>2, <3>1, Zenon DEF WorkerIsolated, PendingOwn, SecretName
  <2>3. CASE /\ "secrets" \in Faults
             /\ Continue(b, "status", SetReady(local[b], "ErrorPersistingSecret"),
                         [job[b] EXCEPT !.saving = "secretFailed"])
    <3>1. pc'[b] = "status"
      BY <1>a, <2>3, Zenon DEF Continue, WorkerType
    <3> QED
      BY <2>3, <3>1, Zenon DEF WorkerIsolated, PendingOwn
  <2> QED
    BY <1>5, <2>2, <2>3, Zenon DEF PersistSecret, Nothing, WriteSecret, Fails
<1>6. ASSUME NEW ws \in SUBSET Workloads, job[b].data \in Data,
             pc[b] \in {"preflight", "project"}, ProjectAndClose(b, local[b], ws),
             UNCHANGED <<wl, secrets>>
      PROVE  WorkerIsolated(b)'
  <2> DEFINE s == SecretName(b, job[b].data)
             f == [w \in ws |-> Project(b, s, wl[w].content)]
             p == SetInjection(local[b], "ApplicationUpdated")
  <2>1. /\ p \in Objects /\ Agree(p, local[b]) /\ SetInjection(local[b], "Error") \in Objects
    BY <1>a, ConditionTypes, ConditionsAgree, Zenon
  <2>2. ~p.deleting
    BY <1>6, <1>a, <2>1, Zenon DEF JobCoherent, Binding, Agree
  <2>3. s \in OwnSecrets(b) /\ (s \in secrets \/ "secrets" \in Faults)
    BY <1>6, ConstantsAssumption, Zenon DEF WorkerIsolated, SecretName, OwnSecrets
  <2>4. \A w \in ws : f[w] \in Contents
    BY <1>6, <1>c, SecretNameType, ProjectType, Zenon
  <2>5. \A w \in ws : OwnChange(b, p.deleting, secrets, wl[w].content, f[w])
    <3>1. \A w \in ws : f[w] = Project(b, s, wl[w].content)
      BY Zenon
    <3> HIDE DEF f, s, p
    <3> QED BY <2>2, <2>3, <3>1, Zenon DEF OwnChange
  <2>6. CASE Close(b, SetInjection(local[b], "Error"), Flow(b, "error"))
    BY <1>6, <1>e, <2>1, <2>6, Zenon DEF BeforeClose, FlowStatus
  <2>7. CASE \E st \in FlowStatus : Close(b, p, WithApplications(Flow(b, st), ws, f))
    <3> HIDE DEF f, p
    <3> QED BY <1>6, <1>f, <2>1, <2>4, <2>5, <2>7, Zenon DEF BeforeClose
  <2> QED
    BY <1>6, <2>6, <2>7, Zenon DEF ProjectAndClose, AfterProjection, FlowStatus
<1>7. CASE PreFlightCheck(b)
  <2>1. pc[b] = "preflight" /\ UNCHANGED <<wl, secrets>>
    BY <1>7, Zenon DEF PreFlightCheck
  <2>2. CASE \E r \in {"ApplicationNotFound", "EmptyApplication", "NoBindingData",
                 "RequiredBindingNotFound"}, st \in FlowStatus :
               Close(b, SetInjection(local[b], r), Flow(b, st))
    BY <1>a, <1>e, <2>1, <2>2, ConditionTypes, Zenon DEF BeforeClose
  <2>3. CASE job[b].data # NoData /\ ProjectAndClose(b, local[b], Applications(local[b].ref))
    <3>1. job[b].data \in Data
      BY <1>a, <2>3, Zenon DEF Jobs
    <3>2. Applications(local[b].ref) \in SUBSET Workloads
      BY <1>b, Zenon
    <3> QED
      BY <1>6, <2>1, <2>3, <3>1, <3>2, Zenon
  <2> QED
    BY <1>7, <2>2, <2>3, Zenon DEF PreFlightCheck, FlowStatus
<1>8. CASE ProjectRegardless(b)
  <2>1. pc[b] = "project" /\ UNCHANGED <<wl, secrets>>
    BY <1>8, Zenon DEF ProjectRegardless
  <2>2. job[b].data \in Data
    BY <1>a, <2>1, Zenon DEF JobCoherent
  <2> QED
    BY <1>8, <1>b, <1>6, <2>1, <2>2 DEF ProjectRegardless
<1>9. ASSUME NEW v \in Workloads, UpdateWorkload(b, v)
      PROVE  WorkerIsolated(b)'
  <2> DEFINE j == [job[b] EXCEPT !.todo = @ \ {v}, !.desired = [@ EXCEPT ![v] = Bare]]
             e == [job[b] EXCEPT !.saving = "appFailed"]
  <2>1. /\ pc[b] = "workloads" /\ job[b].saving = "close" /\ secrets' = secrets
    BY <1>9, <1>a, Zenon DEF UpdateWorkload, UpdateFailed, StaleWorkload, JobCoherent
  <2>2. /\ j.saving = "close" /\ j.todo = job[b].todo \ {v}
        /\ \A w \in j.todo : j.desired[w] = job[b].desired[w]
        /\ e.saving = "appFailed"
    BY <1>a, <2>1, Zenon DEF Jobs
  <2> HIDE DEF j, e
  <2>3. \/ \E p : \E k \in {j, e} : Continue(b, "status", p, k)
        \/ Continue(b, "workloads", local[b], j)
    BY <1>9, Zenon DEF UpdateWorkload, UpdateFailed, j, e
  <2>4. CASE \E p : \E k \in {j, e} : Continue(b, "status", p, k)
    BY <1>a, <2>2, <2>4, ContinueIsolated, Zenon DEF Steps
  <2>5. CASE Continue(b, "workloads", local[b], j)
    <3>1. pc'[b] = "workloads" /\ local'[b] = local[b] /\ job'[b] = j
      BY <1>a, <2>5, Zenon DEF Continue, WorkerType
    <3>2. ASSUME NEW w \in Workloads PROVE PendingOwn(b, w)'
      <4>1. w # v => wl'[w].content = wl[w].content /\ (<<b, w>> \in fresh' => <<b, w>> \in fresh)
        BY <1>9, Zenon DEF UpdateWorkload, UpdateFailed, StaleWorkload, PutWorkload, TypeOK
      <4> QED
        BY <2>1, <2>2, <3>1, <4>1, Zenon DEF WorkerIsolated, PendingOwn
    <3> QED
      BY <2>2, <3>1, <3>2, Zenon DEF WorkerIsolated
  <2> QED
    BY <2>3, <2>4, <2>5, Zenon
<1>10. CASE UpdateStatus(b) \/ SaveBinding(b) \/ RemoveFinalizer(b)
  <2>1. \/ pc[b] = "status" /\ Continue(b, "save", local[b], job[b])
        \/ \E requeue : Done(b, requeue)
        \/ \E ok, cur : Persisted(b, ok, cur)
    BY <1>10, ZenonT(30) DEF UpdateStatus, SaveBinding, RemoveFinalizer
  <2>2. CASE pc[b] = "status" /\ Continue(b, "save", local[b], job[b])
    <3>1. pc'[b] = "save" /\ job'[b] = job[b]
      BY <1>a, <2>2, Zenon DEF Continue, WorkerType
    <3> QED
      BY <3>1, Zenon DEF WorkerIsolated, PendingOwn
  <2> QED
    BY <1>a, <2>1, <2>2, DoneIsolated, PersistedIsolated, Zenon
<1> QED
  BY <1>1, <1>2, <1>3, <1>4, <1>5, <1>7, <1>8, <1>9, <1>10, Zenon DEF Reconcile

LEMMA NextIsolated ==
  ASSUME TypeOK, Coherent, SecretsCoherent, [Next]_vars, \A b \in Bindings : WorkerIsolated(b)
  PROVE  \A b \in Bindings : WorkerIsolated(b)'
<1> USE DEF cluster, informer, worker
<1>1. secrets \subseteq secrets'
  BY SecretsGrow, Zenon
<1>2. ASSUME NEW c \in Bindings, SameFor(c), SameWrites(c)
      PROVE  WorkerIsolated(c)'
  BY <1>1, <1>2, IsolationFrame, Zenon
<1>3. ASSUME NEW b \in Bindings, Reconcile(b)
      PROVE  \A c \in Bindings : WorkerIsolated(c)'
  BY <1>2, <1>3, OwnIsolated, OthersUntouched, Zenon DEF Coherent
<1>4. ASSUME NEW b \in Bindings, SyncCache(b)
      PROVE  \A c \in Bindings : WorkerIsolated(c)'
  <2>1. UNCHANGED <<pc, local, job, fresh, wl>>
    BY <1>4, Zenon DEF SyncCache
  <2>2. \A c \in Bindings, w \in Workloads : PendingOwn(c, w)'
    BY <1>1, <2>1, OwnChangeKept, Zenon DEF WorkerIsolated, PendingOwn
  <2> QED
    BY <1>1, <2>1, <2>2, Zenon DEF WorkerIsolated, UnbindRequested, SecretName
<1>5. ASSUME NEW b \in Bindings, NEW o, UserPut(b, o)
      PROVE  \A c \in Bindings : WorkerIsolated(c)'
  <2>1. UNCHANGED <<pc, local, job, fresh, wl>>
    BY <1>5, Zenon DEF UserPut
  <2>2. \A c \in Bindings, w \in Workloads : PendingOwn(c, w)'
    BY <1>1, <2>1, OwnChangeKept, Zenon DEF WorkerIsolated, PendingOwn
  <2> QED
    BY <1>1, <2>1, <2>2, Zenon DEF WorkerIsolated, UnbindRequested, SecretName
<1>6. ASSUME NEW b \in Bindings, NEW v, ChangeService(b, v)
      PROVE  \A c \in Bindings : WorkerIsolated(c)'
  BY <1>2, <1>6, Zenon DEF ChangeService, SameFor, SameWrites
<1>7. ASSUME NEW v \in Workloads, NEW e \in BOOLEAN, ChangeWorkload(v, e)
      PROVE  \A c \in Bindings : WorkerIsolated(c)'
  <2>1. \A c \in Bindings : SameFor(c)
    BY <1>7, Zenon DEF ChangeWorkload, SameFor
  <2>2. \A c \in Bindings : SameWrites(c)
    BY <1>7, ZenonT(30) DEF ChangeWorkload, SameWrites, TypeOK
  <2> QED BY <1>2, <2>1, <2>2, Zenon
<1>8. CASE Restart
  <2> SUFFICES ASSUME NEW c \in Bindings PROVE WorkerIsolated(c)'
    BY Zenon
  <2>1. pc'[c] = "idle" /\ job'[c] = NoJob
    BY <1>8, Zenon DEF Restart
  <2> QED BY <2>1, NoJobFields, Zenon DEF WorkerIsolated, PendingOwn
<1>9. CASE UNCHANGED vars
  BY <1>2, <1>9, Zenon DEF vars, SameFor, SameWrites
<1>10. CASE Outside
  <2>1. \/ \E b \in Bindings : \E o : UserPut(b, o)
        \/ \E b \in Bindings : \E v : ChangeService(b, v)
        \/ \E v \in Workloads, e \in BOOLEAN : ChangeWorkload(v, e)
        \/ Restart
    BY <1>10, Zenon DEF Outside, CreateBinding, EditBinding, DeleteBinding, AnnotateBinding
  <2> QED BY <1>5, <1>6, <1>7, <1>8, <2>1, Zenon
<1> QED
  BY <1>3, <1>4, <1>9, <1>10, Zenon DEF Next

\* What a binding's own change leaves alone, and what it may put in.
LEMMA OwnChangeEffect ==
  ASSUME NEW b \in Bindings, NEW deleting, NEW ss, NEW old \in Contents, NEW new,
         OwnChange(b, deleting, ss, old, new)
  PROVE  /\ \A n \in Volumes \ {VolumeName[b]} : new.volumes[n] = old.volumes[n]
         /\ new.volumes[VolumeName[b]] \in {old.volumes[VolumeName[b]], NoSecret} \cup OwnSecrets(b)
         /\ "secrets" \notin Faults =>
              /\ new.envFrom \subseteq old.envFrom \cup ss
              /\ new.volumes[VolumeName[b]] \in {old.volumes[VolumeName[b]], NoSecret} \cup ss
<1>1. VolumeName[b] \in Volumes /\ old.volumes \in [Volumes -> SecretNames \cup {NoSecret}]
  BY ConstantsAssumption, Zenon DEF Contents
<1>2. CASE new = old
  BY <1>2, Zenon
<1>3. ASSUME NEW s \in OwnSecrets(b), new = Project(b, s, old), s \in ss \/ "secrets" \in Faults
      PROVE  /\ \A n \in Volumes \ {VolumeName[b]} : new.volumes[n] = old.volumes[n]
             /\ new.volumes[VolumeName[b]] \in {old.volumes[VolumeName[b]], s}
             /\ new.envFrom \subseteq old.envFrom \cup {s}
  BY <1>1, <1>3, Zenon DEF Project, Contents
<1>4. ASSUME NEW s \in OwnSecrets(b), new = Unproject(b, s, old)
      PROVE  /\ \A n \in Volumes \ {VolumeName[b]} : new.volumes[n] = old.volumes[n]
             /\ new.volumes[VolumeName[b]] = NoSecret
             /\ new.envFrom \subseteq old.envFrom
  BY <1>1, <1>4, Zenon DEF Unproject, Contents
<1> QED
  BY <1>2, <1>3, <1>4, Zenon DEF OwnChange

\* The two ways in which a workload changes.
LEMMA ContentStep ==
  ASSUME TypeOK, \A b \in Bindings : WorkerIsolated(b), [Next]_vars, NEW w \in Workloads
  PROVE  \/ wl'[w].content = wl[w].content
         \/ wl'[w].content = Bare /\ ~(wl[w].exists /\ wl'[w].exists)
         \/ \E b \in Bindings :
              /\ pc[b] = "workloads" /\ w \in job[b].todo /\ <<b, w>> \in fresh
              /\ wl'[w].content = job[b].desired[w]
              /\ OwnChange(b, local[b].deleting, secrets, wl[w].content, wl'[w].content)
<1>a. wl \in [Workloads -> [exists: BOOLEAN, content: Contents]]
  BY Zenon DEF TypeOK
<1>1. CASE wl' = wl
  BY <1>1, Zenon
<1>2. ASSUME NEW v \in Workloads, NEW e \in BOOLEAN, ChangeWorkload(v, e)
      PROVE  \/ wl'[w].content = wl[w].content
             \/ wl'[w].content = Bare /\ ~(wl[w].exists /\ wl'[w].exists)
  <2>1. wl' = [wl EXCEPT ![v] = IF wl[v].exists = e THEN @
                                ELSE [exists |-> e, content |-> Bare]]
    BY <1>2, Zenon DEF ChangeWorkload
  <2>2. wl[v].exists \in BOOLEAN
    BY <1>a, Zenon
  <2>3. CASE v = w /\ wl[v].exists # e
    <3>1. wl'[w] = [exists |-> e, content |-> Bare]
      BY <1>a, <2>1, <2>3, Zenon
    <3> QED BY <2>2, <2>3, <3>1
  <2> QED BY <1>a, <2>1, <2>3, Zenon
<1>3. ASSUME NEW b \in Bindings, NEW v \in Workloads, Writes(b, v), v = w
      PROVE  /\ pc[b] = "workloads" /\ w \in job[b].todo /\ <<b, w>> \in fresh
             /\ wl'[w].content = job[b].desired[w]
             /\ OwnChange(b, local[b].deleting, secrets, wl[w].content, wl'[w].content)
  <2>1. wl'[w].content = job[b].desired[w]
    BY <1>a, <1>3, Zenon DEF Writes
  <2> QED
    BY <1>3, <2>1, Zenon DEF Writes, WorkerIsolated, PendingOwn
<1>4. ASSUME NEW b \in Bindings, NEW v \in Workloads, Writes(b, v), v # w
      PROVE  wl'[w].content = wl[w].content
  BY <1>a, <1>4, Zenon DEF Writes
<1> QED
  BY <1>1, <1>2, <1>3, <1>4, WorkloadWriters, Zenon

\* The same, of the workload w as it is stored before and after a step.
LEMMA StoredChange ==
  ASSUME TypeOK, NEW w \in Workloads, NEW b \in Bindings,
         OwnChange(b, local[b].deleting, secrets, wl[w].content, wl'[w].content)
  PROVE  /\ \A n \in Volumes \ {VolumeName[b]} : wl'[w].content.volumes[n] = wl[w].content.volumes[n]
         /\ wl'[w].content.volumes[VolumeName[b]]
              \in {wl[w].content.volumes[VolumeName[b]], NoSecret} \cup OwnSecrets(b)
         /\ "secrets" \notin Faults =>
              /\ wl'[w].content.envFrom \subseteq wl[w].content.envFrom \cup secrets
              /\ wl'[w].content.volumes[VolumeName[b]]
                   \in {wl[w].content.volumes[VolumeName[b]], NoSecret} \cup secrets
<1> DEFINE old == wl[w].content
           new == wl'[w].content
           d == local[b].deleting
<1>1. old \in Contents
  BY Zenon DEF TypeOK
<1>2. OwnChange(b, d, secrets, old, new)
  BY Zenon
<1> HIDE DEF old, new, d
<1>3. /\ \A n \in Volumes \ {VolumeName[b]} : new.volumes[n] = old.volumes[n]
      /\ new.volumes[VolumeName[b]] \in {old.volumes[VolumeName[b]], NoSecret} \cup OwnSecrets(b)
      /\ "secrets" \notin Faults =>
           /\ new.envFrom \subseteq old.envFrom \cup secrets
           /\ new.volumes[VolumeName[b]] \in {old.volumes[VolumeName[b]], NoSecret} \cup secrets
  BY <1>1, <1>2, OwnChangeEffect, Zenon
<1> QED BY <1>3, Zenon DEF old, new

LEMMA NextOwned ==
  ASSUME TypeOK, \A b \in Bindings : WorkerIsolated(b), VolumesOwned, [Next]_vars
  PROVE  VolumesOwned'
<1> SUFFICES ASSUME NEW w \in Workloads, NEW n \in Volumes, wl'[w].content.volumes[n] # NoSecret
             PROVE  \E c \in Bindings : VolumeName[c] = n /\ wl'[w].content.volumes[n] \in OwnSecrets(c)
  BY Zenon DEF VolumesOwned, OwnSecrets
<1>1. CASE wl'[w].content.volumes[n] = wl[w].content.volumes[n]
  BY <1>1, Zenon DEF VolumesOwned
<1>2. wl'[w].content # Bare
  BY DEF Bare
<1>3. ASSUME NEW b \in Bindings,
             OwnChange(b, local[b].deleting, secrets, wl[w].content, wl'[w].content),
             wl'[w].content.volumes[n] # wl[w].content.volumes[n]
      PROVE  VolumeName[b] = n /\ wl'[w].content.volumes[n] \in OwnSecrets(b)
  <2>1. /\ \A m \in Volumes \ {VolumeName[b]} : wl'[w].content.volumes[m] = wl[w].content.volumes[m]
        /\ wl'[w].content.volumes[VolumeName[b]]
             \in {wl[w].content.volumes[VolumeName[b]], NoSecret} \cup OwnSecrets(b)
    BY <1>3, StoredChange, Zenon
  <2> QED BY <1>3, <2>1, Zenon
<1> QED
  BY <1>1, <1>2, <1>3, ContentStep, Zenon

\* Whatever the operator writes on behalf of a binding, after whatever failures
\* and with copies however old, is about that binding's own secrets and its own
\* volume name.  It takes the coherence of the copies: a worker must not unbind
\* with the status of a binding that has meanwhile been made anew.
THEOREM Isolation == Spec => []Isolated
<1>1. Init => Isolated
  <2> SUFFICES ASSUME Init PROVE Isolated
    BY Zenon
  <2>1. SecretsCoherent
    BY ZenonT(30) DEF Init, SecretsCoherent, CopySound, NoBinding, NewBinding
  <2>2. VolumesOwned
    BY Zenon DEF Init, VolumesOwned, Bare
  <2>3. \A b \in Bindings : WorkerIsolated(b)
    BY Zenon DEF Init, WorkerIsolated, PendingOwn, NoJob
  <2> QED BY <2>1, <2>2, <2>3, Zenon DEF Isolated
<1>2. TypeOK /\ Coherent /\ Isolated /\ [Next]_vars => Isolated'
  BY SecretsStep, NextOwned, NextIsolated, Zenon DEF Isolated
<1> QED
  BY <1>1, <1>2, Invariance, PTL DEF Spec

\* Two workers that write the same workload never undo each other's volumes:
\* for any number of bindings and workloads, one write changes one volume.
THEOREM SharedWorkload == Spec => OneVolumePerWrite
<1> DEFINE One == \A w \in Workloads : wl[w].exists /\ wl'[w].exists =>
                    \A m, n \in Volumes :
                      wl'[w].content.volumes[m] # wl[w].content.volumes[m]
                        /\ wl'[w].content.volumes[n] # wl[w].content.volumes[n] => m = n
<1>1. ASSUME TypeOK, Isolated, [Next]_vars
      PROVE  One
  <2> SUFFICES ASSUME NEW w \in Workloads, wl[w].exists, wl'[w].exists,
                      NEW m \in Volumes, NEW n \in Volumes,
                      wl'[w].content.volumes[m] # wl[w].content.volumes[m],
                      wl'[w].content.volumes[n] # wl[w].content.volumes[n]
               PROVE  m = n
    BY Zenon
  <2>1. PICK b \in Bindings : OwnChange(b, local[b].deleting, secrets, wl[w].content, wl'[w].content)
    BY <1>1, ContentStep, Zenon DEF Isolated
  <2>2. \A k \in Volumes \ {VolumeName[b]} : wl'[w].content.volumes[k] = wl[w].content.volumes[k]
    BY <1>1, <2>1, StoredChange, Zenon
  <2> QED BY <2>2, Zenon
<1>2. ASSUME TypeOK, Isolated, [Next]_vars
      PROVE  [One]_vars
  BY <1>1, <1>2, Zenon
<1> QED
  BY <1>2, Isolation, TypeCorrect, PTL DEF Spec, OneVolumePerWrite

\* As long as no write of a secret fails, no workload ever refers to a secret
\* that has not been written: PersistSecret comes before the projection, and no
\* other step takes a secret away.
THEOREM SecretBeforeMount ==
  ASSUME "secrets" \notin Faults
  PROVE  Spec => []ProjectedSecretPersisted
<1>1. Init => ProjectedSecretPersisted
  BY DEF Init, ProjectedSecretPersisted, Bare
<1>2. ASSUME TypeOK, Isolated, ProjectedSecretPersisted, [Next]_vars
      PROVE  ProjectedSecretPersisted'
  <2>0. secrets \subseteq secrets'
    BY <1>2, SecretsGrow, Zenon
  <2> SUFFICES ASSUME NEW w \in Workloads
               PROVE  /\ wl'[w].content.envFrom \subseteq secrets'
                      /\ \A n \in Volumes : wl'[w].content.volumes[n] # NoSecret
                                             => wl'[w].content.volumes[n] \in secrets'
    BY Zenon DEF ProjectedSecretPersisted
  <2>1. CASE wl'[w].content = wl[w].content
    BY <1>2, <2>0, <2>1, Zenon DEF ProjectedSecretPersisted
  <2>2. CASE wl'[w].content = Bare
    BY <2>2 DEF Bare
  <2>3. ASSUME NEW b \in Bindings,
               OwnChange(b, local[b].deleting, secrets, wl[w].content, wl'[w].content)
        PROVE  /\ wl'[w].content.envFrom \subseteq secrets
               /\ \A n \in Volumes : wl'[w].content.volumes[n] # NoSecret
                                      => wl'[w].content.volumes[n] \in secrets
    <3>1. VolumeName[b] \in Volumes
      BY ConstantsAssumption, Zenon
    <3>2. /\ \A n \in Volumes \ {VolumeName[b]} : wl'[w].content.volumes[n] = wl[w].content.volumes[n]
          /\ wl'[w].content.volumes[VolumeName[b]]
               \in {wl[w].content.volumes[VolumeName[b]], NoSecret} \cup secrets
          /\ wl'[w].content.envFrom \subseteq wl[w].content.envFrom \cup secrets
      BY <1>2, <2>3, StoredChange, Zenon
    <3> QED
      BY <1>2, <3>1, <3>2, Zenon DEF ProjectedSecretPersisted
  <2> QED
    BY <1>2, <2>0, <2>1, <2>2, <2>3, ContentStep, Zenon DEF Isolated
<1> QED
  BY <1>1, <1>2, Isolation, TypeCorrect, PTL DEF Spec

=============================================================================
