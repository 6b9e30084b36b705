# Service Binding Operator in TLA+

The operator watches `ServiceBinding` objects of two APIs
(`binding.operators.coreos.com` and `servicebinding.io`). For each one it collects
binding data from services, writes them to a secret, and projects the secret into
workloads as files or environment variables. It undoes this when the binding is
deleted. These modules model the operator from its Go source, TLC checks them on
small instances, and TLAPS proves the main safety properties of the core, of the
projection into a workload, of the collection of data, of the access reviews, of the
mappings and of the list of bindable kinds for every instance.

## Parts and interactions

| Part | State | Operations | Module |
|---|---|---|---|
| Binding controllers (`controllers/common.go`) | queue, informer cache, stored bindings and finalizers | `Reconcile` | `BindingReconciler` |
| Pipeline and context (`pipeline/builder`, `pipeline/context`) | copy of the binding, flow status, workloads read | handlers, `PersistSecret`, `Close`, `persistBinding` | `BindingReconciler` |
| Projection (`handler/project`, `mapping.go`, `application.go`) | volumes, mounts, env and envFrom of a manifest | bind, unbind | `BindingReconciler`, in detail `WorkloadProjection` |
| Collection (`handler/collect`, `mapping`, `naming`) | items collected, secret shared or generated | one handler per step | `Collection` |
| Binding annotations (`pkg/binding`) | none | parse, choose a definition, extract | `BindingAnnotations`, `BindingItemTrees` |
| Workload resource mappings (`apis/webhooks/validator.go`) | stored mapping, annotations on bindings | update webhook, rebind | `MappingRebind` |
| Requester and access reviews (`apis/webhooks/admission.go`, `whoami.go`, `context/impl.go`) | recorded requester, permissions, reviews made | mutating webhook, a review before each read and write | `RequesterAccess` |
| Bindable kinds (`controllers/crd`) | map in memory, object `bindable-kinds` | `Reconcile` of definitions | `BindableKinds` |

The controllers run concurrently with each other, with webhooks and with users. They
share nothing but the API server, which refuses a write whose resourceVersion is not
the stored one. Reads of bindings come from a cache that lags behind. Between reading
an object and writing it back, a worker makes several calls, each of which can fail.
The operator can be restarted between any two of them. That is where the hard
behaviours are; `PROJECT.json` lists them as hazards, each at its source line.

## Modules

**`BindingReconciler`** is the core. `sb`, `wl` and `secrets` are the objects that the API
server stores, `cache` and `queue` the controller's, `local` and `job` the worker's copy of
the binding and its pipeline context. One action is one call on the API server with
the handlers up to the next call:

| Action | Code |
|---|---|
| `Begin`, `AddFinalizer`, `RemoveFinalizer` | `Reconcile`, `MaybeAddFinalizer`, `MaybeRemoveFinalizer` |
| `Unbind` | `project.Unbind`, to the first call of `Close` |
| `Collect` | the collect, mapping and naming handlers, by their outcome |
| `PersistSecret`, `PreFlightCheck`, `ProjectRegardless` | `project.PreFlightCheck` to `PostFlightCheck`; the last one after the secret could not be written |
| `UpdateWorkload` | one iteration of the loop in `Close` |
| `UpdateStatus`, `SaveBinding` | the two calls of `persistBinding` |

A resourceVersion is only ever compared with the stored one, so a copy is its content
and whether it is current. Users create, delete, edit and annotate bindings, change
services, and touch or recreate workloads; the operator restarts.

**`BindingContract`** is what the core promises, without queues, caches, copies and
conflicts. A binding is absent, new, guarded by its finalizer, or leaving; a workload
carries a set of bindings. `ImplementsContract` maps the core to it: the phase is read off
the stored binding, and a workload carries the bindings whose secrets it refers to. The
contract lets a binding in only under its finalizer, and takes it out only when it is
leaving (or bound anew, where `Rebinds` allows it). A write for one binding leaves the
others alone, but for its `Rivals`: those with the same volume name, and those whose
variables come from the same provided Secret. What it puts in, it puts in for its `Twins`
too, which have the same reference. Only a workload in `Volatile` is emptied by others.

**`RequesterAccess`** has one binding with its requester. `Handle` is the mutating webhook.
The worker asks for each permission by an action of its own, before the call that the
permission guards, and keeps what `Applications()` had found when a review is refused.
Users create, update and delete the binding and gain and lose permissions in between;
`List` and `Annotate` are the mapping webhook, which writes the binding as well.

**`WorkloadProjection`** has the manifest of one workload and the handlers on it. One action
is a whole reconciliation of one binding, or an edit by the owner of the workload. Bindings
have volume names of their own, but may refer to one Secret, and the owner has variables
from the Secrets in `sources`: `Private(b)` are the secrets that only `b` refers to. Its lists
are those of **`PodLists`**, which has what the methods of `MetaPodSpec` and `MetaContainer` do
to a list, with their index arithmetic.

**`MappingRebind`** has the update webhook (`ValidateUpdate`, then `Annotate` per binding,
then `Store` or `Refuse`) and the workers that unbind by the annotated mapping and
bind again by the stored one. `WriteWorkload` can be refused; the worker then stores its
copy of the binding, status first, and the annotation is gone if that status is no change.

**`BindableKinds`** has the CRD controller, version by version of a definition, with its
calls that fail, its two caches and its restarts.

**`BindingAnnotations`** has what an annotation means: the model that `newModel` makes
of it, the definition that the mapper chooses, and the value that the definition has for
a service. Strings are small tokens, and names are sequences of parts.
**`BindingItemTrees`** takes a value apart into items, as `collectItems` does, recursively.
**`Collection`** runs the handlers of one of the two flows on scenarios: a list of services
with annotations, owned resources, mappings and a naming strategy. The template of a mapping
is a variable, an item or a service by its id, and a path in it; a strict one fails where
there is no value. Every loop over a Go map is a walk in any order. The items of a value
come to it as a constant, `ItemsOf`, for which the run takes `collectItems`: what is proved
about `Collection` holds however values are taken apart, and the recursion stays out of the
proofs.

The `MC*` modules give the constants for the runs. The proofs are in modules of their own:
`BindingSafety` and `BindingPromises` are about the core, `RequesterSafety` about
`RequesterAccess`, `KindsSafety` about `BindableKinds`, `MappingSafety` about
`MappingRebind`, `ProjectionSafety` about `WorkloadProjection`, and `CollectionSteps` and
`CollectionSafety` about `Collection`.

## Runs

Each run is `tlc -config <run>.cfg <module>`.

| Run | Checks | Shows |
|---|---|---|
| `reconciler_copies` | `TypeOK`, `Coherent`, `StatusSecretPersisted`, `FinalizerGuardsProjection`, `NoStaleOverwrite` | with every change from outside and every failing call, copies are stale only in ways the resourceVersion catches |
| `reconciler_unbinds` | `ProjectedSecretPersisted`, `ReadyMeansProjected`, `UnbindBeforeRemoval` | a removed finalizer means an unbound workload, a ready binding at rest is projected |
| `reconciler_shared` | `Isolated`, `Unbound`, `OneVolumePerWrite`, `ImplementsContract` | two workers on one workload, whose updates may be refused, do not undo each other, nor bring back what the other has unbound, nor take a live binding out |
| `reconciler_settles` | `DeletionCompletes`, `NamedSettles`, `SelectorSettles` | deletions end, named workloads are bound, a label selector reaches later workloads |
| `projection` | `NoDuplicates`, `BoundEverywhere`, `UnbindRemoves`, `OthersKept`, `ReprojectionIdle` | the list operations keep what is not theirs, a projection is whole or not at all, bind and unbind agree |
| `requester_access` | `TypeOK`, `RequesterIsAuthor`, `ChangesReviewed`, `PermittedSettles`, `RefusedDeletionCompletes` | the requester is the last author, no workload is changed without the reviews it takes, and a refusal is not the last word |
| `mapping_rebinds` | `FollowsMapping`, `AnnotatedByOwn` | orderly updates move every projection |
| `mapping_races` | `NeverLost`, `RebindCompletes` | no rebind is lost or endless, however the actors interleave and workloads refuse updates |
| `kinds_list` | `ListMatches`, `RemovalsFollowDeletions`, `DifferencesPending`, `KeepsBindable`, `EventuallyListed` | the list of bindable kinds follows the definitions, and no difference is forgotten |
| `collection` | `TypeOK`, `Complete`, `SharedIsTheData`, `Repeatable`, `GivesUpOnlyForGood`, `EventuallyCollects` | what is collected is complete and repeatable, and failures that pass are retried |

Two runs end in a violation, where the code differs from what the repository says:

- `orphan_after_early_delete` (`NoOrphan`): `Close` updates the workload before `status.secret`
  is written, and `Unbind` does nothing without it. A binding deleted in between leaves
  the workload bound, although the user guide says that deleting it unbinds.
- `mapping_stored_late` (`FollowsMapping`): the webhook annotates the bindings before the
  API server stores the new mapping. A worker that is faster binds again by the old one,
  although the acceptance test says that stale projections are removed.

### Where a passing run leaves something out

The code has more behaviours that break a property. The passing runs exclude them by
a constant or by their scenarios, or the property leaves out the bindings, workloads
or definitions that meet them (`Volatile`, `Rescoped`, `Undone`, `Private`, `TemplateFails`,
`Lossy`, `Unseen`). They are
named here with the line that is responsible. TLC reports each violation when the
circumstance is put back: the constant or the scenario changed, and the restriction
taken out of the property where it has one.

| Property | Excluded | Why it fails otherwise |
|---|---|---|
| `UnbindBeforeRemoval`, `Unbound` | `"applications"` in `Faults` | `Unbind` takes a failed lookup for an empty one (`project/impl.go:194`) |
| `UnbindBeforeRemoval`, `Unbound` | two bindings with one volume name | the volume that one takes away the other puts back (`project/impl.go:165`) |
| `ProjectedSecretPersisted` | `"secrets"` in `Faults` | `PreFlightCheck` does not stop the flow (`project/impl.go:16`) |
| `ReadyMeansProjected` | `"annotate"` in `Environment` | `Unbind` stops without a secret, and `Close` sets Ready (`project/impl.go:201`) |
| `ReadyMeansProjected` | two bindings with one volume name | one that is deleted takes the other's volume along (`project/impl.go:209`) |
| `ReadyMeansProjected` | two bindings of one provided Secret as variables | one that is deleted takes the other's `envFrom` along, and the other stays Ready (`project/impl.go:222`) |
| `ReadyMeansProjected`, `NamedSettles` | named workloads in `Volatile` | a recreated workload is not bound again, as documented |
| `DeletionCompletes` | workloads in `Opaque` | `Unbind` uses the nil result of `BindablePods` (`project/impl.go:207`) |
| `NoDuplicates`, `BoundEverywhere`, `UnbindRemoves`, `ReprojectionIdle` | a volume of the owner with the name of a binding | it is taken for the binding's (`mapping.go:348`) |
| `NoDuplicates` | two variables of one name in a binding | all are appended (`mapping.go:206`) |
| `BoundEverywhere` | a variable that another binding or the owner has too | the last one written stays (`mapping.go:214`) |
| `OthersKept` | a variable with a name that another binding or the owner uses | it is replaced where it stands (`mapping.go:214`) |
| `OthersKept` | a key with such a name | unbinding removes variables by key (`project/impl.go:217`) |
| `ReprojectionIdle` | an edited binding with files and a `secretPath` | bound by the field alone it has no volume, and a mount of an earlier edit may be left (`project/impl.go:72`) |
| `BoundEverywhere`, `OthersKept` | variables of a secret that another binding or the owner refers to | unbinding one removes the `envFrom` of all (`project/impl.go:222`) |
| `UnbindRemoves` | the references to such a secret | they may be another's |
| `BoundEverywhere`, `UnbindRemoves`, `ReprojectionIdle` | two bindings with one volume name | each takes the other's volume for its own (`mapping.go:348`) |
| `UnbindRemoves` | two secrets of a binding as variables | the earlier `envFrom` stays (`project/impl.go:222`) |
| `UnbindRemoves` | variables named differently from their key | they are removed by key (`project/impl.go:217`) |
| `UnbindRemoves` | `secretPath` | nothing removes the name (`project/impl.go:72`) |
| `UnbindRemoves`, `BoundEverywhere` | bindings in `Rescoped` | containers off the list are not visited |
| `FollowsMapping`, `AnnotatedByOwn` | `Prompt` false | a worker binds by the mapping that is still stored (`validator.go:62`) |
| `FollowsMapping`, `AnnotatedByOwn` | `Patient` false | a second update overwrites the annotation (`validator.go:120`) |
| `FollowsMapping`, `AnnotatedByOwn` | `Repeats` true | when the update that unbinds is refused twice in the same words, `Close` stores the binding without its annotation (`context/impl.go:508`) |
| `FollowsMapping`, `AnnotatedByOwn` | mappings that do not accept the version | the old mapping is asked (`validator.go:109`) |
| `RequesterIsAuthor`, `TypeOK` | basic or certificate authentication (`Auth`) | `WhoAmI` answers a made-up name, so the operator's updates record the operator (`whoami.go:108`) |
| `PermittedSettles` | bindings with the mapping annotation | `Unbind` stops at a refused review without a retry and keeps the annotation (`project/impl.go:194`) |
| `ListMatches` | definitions in `Lossy` or `Unseen` | only a definition seen being deleted is taken out (`crd_controller.go:69`, `:84`) |
| `KeepsBindable` | definitions in `Unseen`, restarts | a kind is listed again only when it is handled again |
| `Complete` | a Secret after an annotated one | `DirectSecretReference` returns (`collect/impl.go:147`) |
| `Complete` | a named annotation whose value is an empty map or list | it has no items (`collect/impl.go:252`, `:264`) |
| `Complete` | a `sourceKey` that does not exist | no entry matches, without an error (`definition.go:227`) |
| `Complete` | `objectType=Secret` with `elementType=string` | the item has an empty name (`definition.go:166`) |
| `SharedIsTheData` | a naming that folds two keys into one | only names are compared (`secretbackedbindings.go:62`) |
| `GivesUpOnlyForGood`, `EventuallyCollects` | a mapping whose template fails (`TemplateFails`) | `mapping.Handle` stops without a retry on what is there so far (`mapping/impl.go:34`), and `Reconcile` drops the error (`common.go:123`) |
| `Complete` | annotations that ask for a whole object (`Whole`) | their items have the names of its keys |
| `Repeatable` | two items of one name | the last one in map order wins (`collect/impl.go:57`) |

## Bounds

- The core has one or two bindings, one or two workloads and one or two contents of the
  data. A hazard between copies needs one binding and an actor outside; one between
  workers needs two bindings on one workload.
- `MaxEnv` is three or four changes from outside, and `MaxFaults` one failed call: enough to
  create, edit or annotate, delete and restart around one reconciliation.
- `WorkloadProjection` has no bound on its steps. Its lists are finite because no list
  gets an entry twice.
- `RequesterAccess` has one binding, since reviews are about its own requester only; two
  users, each of whom lacks a permission; two sources, so that one can be refused after
  the other was read; and two workloads, so that a selector can be allowed in part.
  `MaxEnv` is three and `MaxFaults` one. `Save` is both calls of `persistBinding`, which
  the core has as separate actions.
- `MappingRebind` has up to three updates and one refused call, `BindableKinds` two
  definitions of two versions, three edits, one failed call and one restart.
- `Collection` runs over a table of scenarios; each has the kinds of service and
  annotation of `pkg/binding`, and names of one or two parts.

Deadlock is not checked where the bounded changes from outside run out and the
operator has nothing left to do. `Collection` checks it.

## Fairness

- A queued binding or definition is eventually handled, and every call on the API server
  answers: controller-runtime's workers take keys from the queue in turn, and requests
  time out with an error.
- A watch eventually delivers: informers reconnect and list again.
- `BindableKinds` has one worker for all definitions; `Begin` of each is strongly fair
  because the queue is first in, first out.
- `RequesterAccess` has weak fairness of the worker as a whole and of the mapping webhook's
  write. Its worker takes the stored binding and may then be slow, which includes a cache
  that lags.
- `Collection` assumes that late services appear in the end. It is about the operator
  noticing it.
- Nothing is assumed about users, and failures may happen up to their bound.

## Proofs

The theorems hold for any sets of bindings, workloads, users, definitions, mappings and
lists, for any failing calls and any bounds that satisfy the assumption on the constants of
the module (`ConstantsAssumption`, `AccessAssumption`, `KindsAssumption`, `MappingAssumption`,
`SetupsAssumption`, `CollectionAssumption`), and under the conditions that the table names.

| Module | Theorem | States |
|---|---|---|
| `BindingSafety` | `Invariance` | `Spec => [](TypeOK /\ Coherent)` |
| | `TypeCorrect` | `Spec => []TypeOK` |
| | `FinalizerFirst` | `Spec => FinalizerGuardsProjection` |
| | `DeletionSticks` | `Spec => NoStaleOverwrite` |
| | `SecretFirst` | `Spec => []StatusSecretPersisted` |
| | `Isolation` | `Spec => []Isolated` |
| | `SharedWorkload` | `Spec => OneVolumePerWrite` |
| | `SecretBeforeMount` | `Spec => []ProjectedSecretPersisted`, if `"secrets"` is not in `Faults` |
| `BindingPromises` | `Refinement` | `Spec => ImplementsContract` |
| | `NothingComesBack` | `Spec => []Unbound`, if volume names are distinct and `"applications"` is not in `Faults` |
| | `UnboundOnRemoval` | `Spec => UnbindBeforeRemoval`, under the same two assumptions |
| | `ReadyKept` | `Spec => []ReadyBacked`, if no binding has `Rivals` and `"annotate"` is not in `Environment` |
| | `ReadyIsProjected` | `Spec => []ReadyMeansProjected`, under the same two assumptions |
| `RequesterSafety` | `RequesterRecorded` | `Spec => [](Recorded /\ RequesterIsAuthor)`, with token authentication |
| | `ReviewedChanges` | `Spec => ChangesReviewed` |
| | `AccessTypes` | `Spec => []TypeOK`, with token authentication |
| `KindsSafety` | `KindsTypes` | `Spec => []TypeOK` |
| | `RemovalsInOrder` | `Spec => []RemovalsFollowDeletions` |
| | `BindableKept` | `Spec => KeepsBindable` |
| | `Pending` | `Spec => []DifferencesPending` |
| | `ListMatched` | `Spec => []ListMatches` |
| `MappingSafety` | `NothingLost` | `Spec => []NeverLost` |
| | `TurnsInvariant` | `Spec => [](Shapes /\ TurnsTaken)`, under `InTurns`, `Accepting` and `~Repeats` |
| | `MappingFollowed` | `Spec => []FollowsMapping`, under the same three |
| | `AnnotatedOwn` | `Spec => []AnnotatedByOwn`, under the same three |
| `ProjectionSafety` | `EntriesSingle` | `Spec => []NoDuplicates`, under `OwnNames` and `DistinctVars` |
| | `UnbindLeavesNothing` | `Spec => []UnbindRemoves`, under `OwnNames`, `DistinctVars` and `OneSource` |
| | `ProjectedEverywhere` | `Spec => []BoundEverywhere`, under `OwnNames` and `SeparateVars` |
| | `ReprojectionChangesNothing` | `Spec => ReprojectionIdle`, under `OwnNames`, `DistinctVars` and `PathsFixed` |
| | `OthersLeftAlone` | `Spec => OthersKept`, under `SeparateVars` and `SeparateKeys` |
| `CollectionSteps` | `CollectionInvariant` | `Spec => [](Control /\ Data /\ Applied)` |
| | `CollectionTyped` | `Spec => []TypeOK` |
| | `GivenUpOnlyForGood` | `Spec => []GivesUpOnlyForGood` |
| `CollectionSafety` | `SharedSecretIsTheData` | `Spec => []SharedIsTheData`, under `KeysKept` |
| | `CollectedIsComplete` | `Spec => []Complete`, under `SecretsFirst` and `ValuesHaveItems` |
| | `CollectedAgain` | `Spec => []Repeatable`, under `OneValueEach` |

The assumptions are needed: without each of them TLC finds a violation (see the table
of what the runs leave out), with one exception. `DistinctVars` is there for
`UnbindLeavesNothing` and `ReprojectionChangesNothing` only because their argument goes
through `NoDuplicates`. The cases of the `projection` run satisfy all six of its conditions,
and the scenarios of the `collection` run all four of theirs.

**Core.** `FinalizerGuardsProjection` is not inductive: when a worker writes a workload it
has only its own copy of the binding. `Coherent` is the strengthening. It says, for each
binding, how far the cache and the worker's copy may be behind: a copy that is current
agrees on reference, deletion and finalizer; a worker past the finalizer step that
does not see a deletion works on a binding that is stored with its finalizer; and a
pending write of a workload that would be accepted adds no other binding.
`BindingSafety` proves the types, then that the worker's own steps keep `Coherent`, then the
same of the steps of others.

`Isolated` adds what a pending write is: nothing, or the binding's own change to what is
stored, with a secret of its own, unless the write is going to be refused. From it follow
`OneVolumePerWrite` and the refinement, where every write of a workload becomes `Bind`,
`Unbind`, `Recreate` or a stutter of `BindingContract`. `Unbound` adds that from the Unbind
handler to the removal of the finalizer the volume is absent from each workload, or going
to be absent with a write still to be made; other workers cannot bring it back, because
their writes are their own and volume names are distinct.

A worker writes Ready after the workloads, from what its own copy said when it began, so
`ReadyMeansProjected` rests on what happens to be in the workloads by then. `ReadyBacked` is
the strengthening: wherever Ready is written down - in the store, in the cache, in the
worker's copy - or about to be, each workload that the binding names, and that is not
recreated, carries the binding or is still going to be written with it. Deletion ends the
promise, and only the binding's own worker can break it before: another worker's write is
its own change (`Isolated`) to another volume or another secret.

**Requester.** `Recorded` says that a copy which would be accepted as an update, in the
worker or in the mapping webhook, holds the stored requester. `Reviewed` lists, for each
step of the pipeline, the reviews that have been answered with yes by then, and those
behind each workload that `Applications()` has kept. `Named` adds, for the types, that
whatever the worker asks or does is on behalf of a user: the operator's name is never
recorded, since the webhook lets the operator's own updates pass. Such invariants are in no
cfg: they are stated for the proofs, and the run checks what follows from them.

**Bindable kinds.** `RemovalsFollowDeletions` says that a kind which is listed but no longer
in the map belongs to a definition that is being deleted and stays so until the list is
written. `DifferencesPending` has three parts: copies are behind the store only while there
is news of the definition (`CopiesFollow`); what is listed is offered, or on its way out
(`ListedOffered`); what is offered is listed, or on its way in (`OfferedListed`). At rest
there is no news and no worker, so the list is exact.

**Mappings.** A rebinding is two reconciliations with a write between them, and a worker
may work on a copy that an update of the mapping has overtaken. `NeverDropped` says what
survives all of that: a worker with an annotated copy works on a binding that is still
annotated, a worker without one has somewhere to put the binding, and so a binding that is
nowhere is annotated or in the queue. Where the binding is put is a matter of order.
`TurnsTaken` is about updates that take turns: each binding is where its annotation says, or
where the stored mapping says, or in the hands of the webhook, which annotates all the
bindings before the mapping is stored; and no worker's copy is out of date. A worker whose
update of the workload was refused keeps the annotation as long as the message is a new one,
since its own update of the status makes the one after it a conflict.

**Projection.** The lemmas on lists say, for lists of any length, which entries an
operation adds, removes and keeps. The loop over the variables of a binding is a recursive
function, and what it computes is proved by the least number of variables that would be a
counterexample (`Least`, from `WFMin`). They give what binding and unbinding do to a
container (`Added`, `Taken`) and what a step changes. `OwnMounts` is the strengthening for
`NoDuplicates`: the owner's volume is mounted only while it is there, so that the owner adds
it once. `Traceable` is the one for `UnbindRemoves`: what is in the workload with the name of
a binding, or with a secret that only it refers to, was put there with the secret that is in
its status, and in a container that the binding still names. `Projected` says what is there
of a bound binding, and `VolumeCurrent` that its volume has the secret of its status, from
which a second projection finds every entry in its place.

`OthersKept` compares whole lists before and after a step: what is left of a list without
the entries of one binding is the same, in the same order. `Without` keeps the positions of
the other entries in ascending order, and `Climbs` says that such an enumeration is unique,
so that an operation is followed entry by entry. Variables are replaced and removed by name,
so the argument needs that whoever uses a name owns it. `VarsOwned` is that invariant: a
variable by the name, or by the key, of one of a binding comes from that binding.

**Collection.** Most of what a handler does depends on what the handlers before it have put
into `bindings` and `items`, and on the orders in which Go has walked its maps until then.
`CollectionInvariant` has three parts. `Control` says which combinations of program counter,
flow status and result occur, and that a flow which was stopped without a retry has met
something permanent, or ended at a template that fails on what it had. `Data` says for each handler how the two lists are composed when it
runs: one entry per bound secret in the order of the services, with the keys in some walk;
then the items of the annotations, service by service; those of the owned resources; those
of the mappings, each made from the data up to there; and, after `Naming`, the same under
their final names. `Applied` says that every definition that is no longer pending had its
final value, or is optional and missing in the copy of the service.

`GivesUpOnlyForGood` needs that values only appear: what an early copy of a service gives,
and is not an error, is what the service has in the end. `SharedIsTheData` follows from the
form of `bindings` with one secret and no items. For `Complete`, each key and each value is
followed through the merges, in which a name may be taken over by another item but never
lost. `Repeatable` compares two attempts. Any two lists of items that `Data` allows for the
same services give the same map, because items that collide come from different services or
resources, which are walked in the same order each time, or have the same value
(`OneValueEach`). The mappings are made from that map and so agree as well.

The four conditions are about what users write: the naming template (`KeysKept`), the order
of services (`SecretsFirst`), and the annotations and the values that they name
(`ValuesHaveItems`, `OneValueEach`). The code checks none of them.

Only model-checked: all liveness (`DeletionCompletes`, `NamedSettles`, `SelectorSettles`,
`PermittedSettles`, `RefusedDeletionCompletes`, `RebindCompletes`, `EventuallyListed`,
`EventuallyCollects`), which is out of the prover's reach. What `collectItems` computes is a
recursion over values, about which nothing can be proved here either: the run checks it, in
the scenarios whose values are maps and lists.

## Not modelled

- The groups of a user and the answers of the authorizer: a permission is there or not.
- In the core, a refused access is a failed lookup; `RequesterAccess` has it in detail.
- Delays and the rate limiter: a retry is a retry.
- Garbage collection of secrets by owner reference, and deletion of secrets by users.
- JSONPath, Go templates and encodings, other than by what they yield on small tables.
- Deletion of a mapping, which no webhook handles.
- API types, generated code, the start of the operator, and `crddescription.go` and
  `pkg/binding/spec.go`, which no handler uses.

## Plan

Done: the core with its contract, projection, mappings, requester and access reviews,
bindable kinds and collection, with the proofs above. What would come next:

1. A composition of `MappingRebind` with the core's worker, and the deletion of a mapping.
2. Services that change while a binding is being collected, other than by what shows up
   late: the proofs of `Collection` rest on values that only appear.
