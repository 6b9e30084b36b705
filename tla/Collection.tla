----------------------------- MODULE Collection -----------------------------
(***************************************************************************)
(* How the binding data are collected: the handlers of the pipeline from   *)
(* collect.PreFlight to the point where the secret is named, for one       *)
(* binding, over any number of attempts.  Each attempt reads the services  *)
(* afresh; some of what it reads shows up only later, and calls may fail.  *)
(*                                                                         *)
(* A scenario is what the binding and its services say.  A service is a    *)
(* Secret itself, or a custom resource; its annotations are those that     *)
(* BindingAnnotations describes, and their values are taken apart as       *)
(* BindingItemTrees describes.  Maps are walked in any order.              *)
(***************************************************************************)
EXTENDS BindingAnnotations, Functions

CONSTANTS
  Scenarios,     \* flow, services, mappings and naming of the binding
  Unavailable,   \* those whose services never have what an annotation names
  Objects,       \* Objects[t, n]: the data of the Secret or ConfigMap n
  Late,          \* the objects and paths that show up later
  None,          \* not a Secret, or no id
  ItemsOf(_, _), \* ItemsOf(n, t): the items, as names with values, of t under n
  HasHole(_),    \* HasHole(t): some map in t has a key without a value
  MaxFaults      \* bound on the calls that fail

(***************************************************************************)
(* The flows, up to the point where the secret is named                    *)
(***************************************************************************)

DefaultFlow ==
  <<"PreFlight", "ProvisionedService", "DirectSecretReference", "BindingDefinitions",
    "BindingItems", "OwnedResources", "Mapping", "Naming", "Persist">>

SpecFlow ==
  <<"PreFlight", "ProvisionedService", "DirectSecretReference", "BindingDefinitions",
    "BindingItems", "Persist">>

VARIABLES
  scenario,
  ready,     \* what has shown up
  pc,        \* the handler that runs next, "closed" at the end
  seen,      \* what had shown up when the services were read
  bindings,  \* the secrets that are bound as they are
  pending,   \* the definitions that have not been applied
  items,     \* bindingItems
  flow,      \* flowCtrl
  result,    \* what this attempt has collected
  results,   \* what attempts have collected since something showed up
  faults

vars == <<scenario, ready, pc, seen, bindings, pending, items, flow, result, results, faults>>

services == scenario.services
Flow == scenario.flow
NoResult == [data |-> <<>>, shared |-> FALSE]
Running == [stop |-> FALSE, retry |-> FALSE]

Init ==
  /\ scenario \in Scenarios
  /\ ready = {} /\ faults = 0 /\ results = {}
  /\ pc = Flow[1] /\ seen = {} /\ bindings = <<>> /\ pending = {} /\ items = <<>>
  /\ flow = Running /\ result = NoResult

\* The orders in which a walk over a map may meet the members of S.
Walks(S) == {q \in [1..Cardinality(S) -> S] : Range(q) = S}

\* The loop over the services in S.
InOrder(S) == {q \in Walks(S) : \A j, k \in DOMAIN q : j < k => q[j] < q[k]}

Shown(x, shown) == x \in Late => x \in shown

\* What a copy of the service has if it is read when the things in shown are
\* there, and which objects can be read then.
ValuesIn(s, shown) == [p \in {p \in DOMAIN s.values : Shown(<<"path", p>>, shown)} |-> s.values[p]]
ObjectsIn(shown) == [r \in {r \in DOMAIN Objects : Shown(r, shown)} |-> Objects[r]]

Readable == DOMAIN ObjectsIn(ready)

SecretOf(n) == <<"Secret", n>>
Keys(n) == DOMAIN Objects[SecretOf(n)]

(***************************************************************************)
(* The control of the flow                                                 *)
(***************************************************************************)

After(h) ==
  LET k == CHOOSE k \in DOMAIN Flow : Flow[k] = h
  IN  IF k = Len(Flow) THEN "closed" ELSE Flow[k + 1]

RetryUnstopped(f) == [f EXCEPT !.retry = TRUE]

StopAll(f) == [stop |-> TRUE, retry |-> FALSE]

\* RetryProcessing
Retry(f) == [stop |-> TRUE, retry |-> TRUE]

\* Error and StopProcessing: a retry that has been asked for stays.
Stop(f) == [f EXCEPT !.stop = TRUE]

\* The handler returns; Process goes on with the next one, if it may.
Leave(f) ==
  /\ flow' = f
  /\ pc' = IF f.stop THEN "closed" ELSE After(pc)

Fault == faults < MaxFaults /\ faults' = faults + 1

\* requestRetry
RequestRetry == Leave(Retry(flow)) /\ UNCHANGED <<scenario, ready, seen, bindings, pending, items, result, results>>

\* A call that the handler makes fails: a read of a service, of a definition
\* of a custom resource, of a secret, or a list of owned resources.
CallFails ==
  /\ pc \in {"PreFlight", "ProvisionedService", "DirectSecretReference", "BindingDefinitions",
             "BindingItems", "OwnedResources"}
  /\ Fault /\ RequestRetry

Reads == UNCHANGED <<scenario, ready, seen, result, results, faults>>

PreFlight ==
  /\ pc = "PreFlight"
  /\ seen' = ready /\ Leave(flow)
  /\ UNCHANGED <<scenario, ready, bindings, pending, items, result, results, faults>>

(***************************************************************************)
(* Secrets that are bound as they are                                      *)
(***************************************************************************)

Item(name, value, service) == [name |-> name, value |-> value, service |-> service]

\* SecretBackedBindings, whose items are in the order of a walk over a map.
SecretBindings(n, i, ks) ==
  [secret |-> n, service |-> i,
   items |-> [j \in DOMAIN ks |-> Item(ks[j], Str(Objects[SecretOf(n)][ks[j]]), i)]]

\* One SecretBackedBindings for each of the services in S.
AddBindings(S, secretOf) ==
  \E is \in InOrder(S) :
    \E ks \in [DOMAIN is -> UNION {Walks(Keys(secretOf[i])) : i \in S}] :
      /\ \A j \in DOMAIN is : ks[j] \in Walks(Keys(secretOf[is[j]]))
      /\ bindings' = bindings \o [j \in DOMAIN is |-> SecretBindings(secretOf[is[j]], is[j], ks[j])]

\* The annotations of the definition, with the registered ones if it is not
\* bindable by itself.
CrdBindings(s) ==
  IF ~s.crd.exists THEN <<>>
  ELSE IF s.crd.schema \/ DOMAIN s.crd.bindings # {} THEN s.crd.bindings
  ELSE s.crd.registered

\* The services whose status names a secret.
Provisioned(ss) == {i \in DOMAIN ss : ss[i].binding \notin {"unset", ""}}

ProvisionedService ==
  /\ pc = "ProvisionedService"
  /\ LET fails == \/ \E i \in DOMAIN services :
                       services[i].binding = "unset" /\ services[i].crd.exists /\ services[i].crd.provisioned
                  \/ \E i \in Provisioned(services) : SecretOf(services[i].binding) \notin Readable
     IN  IF fails THEN RequestRetry /\ UNCHANGED faults
         ELSE /\ AddBindings(Provisioned(services), [i \in DOMAIN services |-> services[i].binding])
              /\ Leave(flow) /\ Reads /\ UNCHANGED <<pending, items>>

HasBindingAnnotation(s) == DOMAIN s.bindings # {} \/ s.malformed

\* The Secrets among the services, up to the first with an annotation for
\* binding: there the handler returns.
DirectSecrets(ss) ==
  LET secrets == {i \in DOMAIN ss : ss[i].secret # None}
  IN  {i \in secrets : \A j \in secrets : HasBindingAnnotation(ss[j]) => i < j}

DirectSecretReference ==
  /\ pc = "DirectSecretReference"
  /\ IF \E i \in DirectSecrets(services) : SecretOf(services[i].secret) \notin Readable
     THEN RequestRetry /\ UNCHANGED faults
     ELSE /\ AddBindings(DirectSecrets(services), [i \in DOMAIN services |-> services[i].secret])
          /\ Leave(flow) /\ Reads /\ UNCHANGED <<pending, items>>

(***************************************************************************)
(* Annotations                                                             *)
(***************************************************************************)

\* The annotations of the service replace those of the definition.
Merged(s) == s.bindings @@ CrdBindings(s)

Malformed(s) ==
  \/ s.malformed \/ (s.crd.exists /\ s.crd.malformed)
  \/ \E n \in DOMAIN Merged(s) : Invalid(Merged(s)[n])

\* The definitions of the services, each with the service that it is for.
Definitions(ss) ==
  UNION {{<<i, Build(n, Merged(ss[i])[n])>> : n \in {n \in DOMAIN Merged(ss[i]) : ~Invalid(Merged(ss[i])[n])}}
           : i \in DOMAIN ss}

\* Definitions are built even after one that is invalid.
BindingDefinitions ==
  /\ pc = "BindingDefinitions"
  /\ pending' = Definitions(services)
  /\ Leave(IF \E i \in DOMAIN services : Malformed(services[i]) THEN Stop(flow) ELSE flow)
  /\ Reads /\ UNCHANGED <<bindings, items>>

\* The items of the entries that were found for the service i.
EntryItems(i, entries) ==
  {Item(x[1], x[2], i) : x \in UNION {ItemsOf(n, entries[n]) : n \in DOMAIN entries}}

\* collectItems appends the items of a value in the order of a walk over its
\* maps.  The value itself must be there, or the handler panics; a key without
\* a value further down stops the flow, and then the items are of no use.
CollectItems(i, entries, rest) ==
  IF \E n \in DOMAIN entries : entries[n].type = "nil" THEN RequestRetry /\ UNCHANGED faults
  ELSE /\ \E q \in Walks(EntryItems(i, entries)) : items' = items \o q
       /\ pending' = rest
       /\ flow' = IF \E n \in DOMAIN entries : HasHole(entries[n]) THEN Stop(flow) ELSE flow
       /\ Reads /\ UNCHANGED <<pc, bindings>>

\* The value of a definition p for the copy of its service.
ValueOf(ss, p, copied, shown) == Apply(p[2], ValuesIn(ss[p[1]], copied), ObjectsIn(shown))

\* BindingItems applies the definitions of each service in any order.
ApplyDefinition ==
  /\ pc = "BindingItems"
  /\ \E p \in pending :
       /\ \A q \in pending : p[1] <= q[1]
       /\ LET v == ValueOf(services, p, seen, ready)
          IN  \/ v.status = "error" /\ RequestRetry /\ UNCHANGED faults
              \/ /\ v.status = "absent" /\ pending' = pending \ {p}
                 /\ Reads /\ UNCHANGED <<pc, bindings, items, flow>>
              \/ v.status = "found" /\ CollectItems(p[1], v.of, pending \ {p})

BindingItems ==
  /\ pc = "BindingItems" /\ pending = {}
  /\ Leave(flow) /\ Reads /\ UNCHANGED <<bindings, pending, items>>

(***************************************************************************)
(* Owned resources, mappings and names                                     *)
(***************************************************************************)

\* Each owned resource contributes what bindableResources says: all the data
\* of a Secret or ConfigMap, the address of a Service, the host of a Route.
OwnedItems(ss) ==
  UNION {UNION {{[of |-> o, item |-> Item(x[1], x[2], i)]
                   : x \in ItemsOf(ss[i].owned[o].output, ss[i].owned[o].value)}
                : o \in DOMAIN ss[i].owned} : i \in DOMAIN ss}

\* The loop over the services and, for each, over the resources that it owns.
OwnedWalks(ss) ==
  {q \in Walks(OwnedItems(ss)) : \A j, k \in DOMAIN q : j < k =>
     \/ q[j].item.service < q[k].item.service
     \/ q[j].item.service = q[k].item.service /\ q[j].of <= q[k].of}

OwnedResources ==
  /\ pc = "OwnedResources"
  /\ IF \E i \in DOMAIN services : \E o \in DOMAIN services[i].owned :
          services[i].owned[o].value.type = "nil"
     THEN RequestRetry /\ UNCHANGED faults
     ELSE /\ \E q \in OwnedWalks(services) : items' = items \o [j \in DOMAIN q |-> q[j].item]
          /\ Leave(flow) /\ Reads /\ UNCHANGED <<bindings, pending>>

\* AsMap: of two items with a name, the last counts.
AsMap(is) ==
  [n \in {is[j].name : j \in DOMAIN is} |-> is[Max({j \in DOMAIN is : is[j].name = n})].value]

\* MergeMaps: of two maps with a key, the last counts.
MergeMaps(ms) ==
  [n \in UNION {DOMAIN ms[j] : j \in DOMAIN ms} |-> ms[Max({j \in DOMAIN ms : n \in DOMAIN ms[j]})][n]]

\* The data of the secrets, and then of the other items.
bindingItemMap(bs, is) == MergeMaps(Append([b \in DOMAIN bs |-> AsMap(bs[b].items)], AsMap(is)))

\* templateVars: what a template can reach from a variable, by its path in it.
\* A variable is an item, or the copy of the service that has it as its id.
TemplateVar(ss, copied, data, var) ==
  LET ids == {i \in DOMAIN ss : ss[i].id = var}
      values == ValuesIn(ss[Max(ids)], copied)
  IN  IF var \in DOMAIN data THEN "" :> data[var]
      ELSE IF ids = {} THEN <<>>
      ELSE [p \in {p \in DOMAIN values : values[p][1].type # "nil"} |-> Str(values[p][1].of)]

\* Parse refuses the template, or Execute does: an item has no fields, and a
\* strict template (an index into a list) fails without a value.
Fails(sc, copied, data, n) ==
  LET m == sc.mappings[n]
  IN  \/ ~m.valid
      \/ /\ m.path \notin DOMAIN TemplateVar(sc.services, copied, data, m.var)
         /\ m.strict \/ m.var \in DOMAIN data

\* The item of a mapping: what its template finds, or no value.
MappedItem(sc, copied, data, n) ==
  LET m == sc.mappings[n]
      fields == TemplateVar(sc.services, copied, data, m.var)
  IN  Item(n, IF m.path \in DOMAIN fields THEN fields[m.path] ELSE Str("<no value>"), 0)

\* mapping.Handle adds an item for each mapping.  It stops, without a retry, at
\* a template that fails on what the services have now.
Mapping ==
  /\ pc = "Mapping"
  /\ LET ns == DOMAIN scenario.mappings
         data == bindingItemMap(bindings, items)
     IN  IF \E n \in ns : Fails(scenario, seen, data, n)
         THEN Leave(Stop(flow)) /\ UNCHANGED items
         ELSE /\ \E q \in Walks(ns) :
                   items' = items \o [j \in DOMAIN q |-> MappedItem(scenario, seen, data, q[j])]
              /\ Leave(flow)
  /\ Reads /\ UNCHANGED <<bindings, pending>>

\* The naming template, for the items that come from a service.
Rename(sc, it) ==
  IF it.service # 0 /\ it.name \in DOMAIN sc.naming THEN [it EXCEPT !.name = sc.naming[@]] ELSE it

Renamed(sc, is) == [j \in DOMAIN is |-> Rename(sc, is[j])]

\* naming.Handle renames the items in place, those of the secrets too.
Naming ==
  /\ pc = "Naming"
  /\ IF /\ ~scenario.validNaming
        /\ \E is \in {items} \cup {bindings[b].items : b \in DOMAIN bindings} :
             \E j \in DOMAIN is : is[j].service # 0
     THEN Leave(Stop(flow)) /\ UNCHANGED <<bindings, items>>
     ELSE /\ items' = Renamed(scenario, items)
          /\ bindings' = [b \in DOMAIN bindings |->
                            [bindings[b] EXCEPT !.items = Renamed(scenario, @)]]
          /\ Leave(flow)
  /\ Reads /\ UNCHANGED pending

SourceUnchecked(b) == TRUE

\* SecretBackedBindings.Source: the items still have names of the secret.
Source(b) == \A j \in DOMAIN b.items : b.items[j].name \in Keys(b.secret)

\* The only secret itself, if nothing was added to it, or a new one, whose
\* name depends on the data alone.
bindingSecretName(ss, bs, is) ==
  [data |-> bindingItemMap(bs, is),
   shared |-> is = <<>> /\ Len(bs) = 1 /\ Source(bs[1]) /\ ~ss[bs[1].service].foreign]

Persist ==
  /\ pc = "Persist"
  /\ result' = bindingSecretName(services, bindings, items)
  /\ results' = IF seen = ready THEN results \cup {result'} ELSE results
  /\ Leave(flow)
  /\ UNCHANGED <<scenario, ready, seen, bindings, pending, items, faults>>

(***************************************************************************)
(* Attempts                                                                *)
(***************************************************************************)

\* Reconcile runs again: because a retry was asked for, or for an event.
Again ==
  /\ pc = "closed"
  /\ pc' = Flow[1] /\ seen' = {} /\ bindings' = <<>> /\ pending' = {} /\ items' = <<>>
  /\ flow' = Running /\ result' = NoResult
  /\ UNCHANGED <<scenario, ready, results, faults>>

Appear ==
  /\ \E x \in Late \ ready : ready' = ready \cup {x}
  /\ results' = {}
  /\ UNCHANGED <<scenario, pc, seen, bindings, pending, items, flow, result, faults>>

Handle ==
  \/ PreFlight \/ ProvisionedService \/ DirectSecretReference \/ BindingDefinitions
  \/ ApplyDefinition \/ BindingItems \/ OwnedResources \/ Mapping \/ Naming \/ Persist

Next == Handle \/ CallFails \/ Again \/ Appear

Spec == Init /\ [][Next]_vars

\* The worker goes on, the queue runs what asked for a retry, and the services
\* are provisioned in the end.
FairSpec == Spec /\ WF_vars(Handle) /\ WF_vars(flow.retry /\ Again) /\ WF_vars(Appear)

\* What a definition says in the end, with everything there.
FinalValue(ss, p) == Apply(p[2], ss[p[1]].values, Objects)

\* The flow is one of the two, and everything is finite.
ASSUME CollectionAssumption ==
  /\ MaxFaults \in Nat /\ Unavailable \subseteq Scenarios
  /\ \A r \in DOMAIN Objects : IsFiniteSet(DOMAIN Objects[r])
  /\ \A sc \in Scenarios :
       LET ss == sc.services
       IN  /\ sc.flow \in {DefaultFlow, SpecFlow}
           /\ ss \in Seq(Range(ss)) /\ IsFiniteSet(DOMAIN sc.mappings)
           /\ \A i \in DOMAIN ss : ss[i].owned \in Seq(Range(ss[i].owned))
           /\ IsFiniteSet(OwnedItems(ss))
           /\ \A p \in Definitions(ss) :
                FinalValue(ss, p).status = "found" => IsFiniteSet(EntryItems(p[1], FinalValue(ss, p).of))

(***************************************************************************)
(* Properties                                                              *)
(***************************************************************************)

\* Every variable has its type, and nothing is collected by a flow that was
\* stopped.
TypeOK ==
  /\ scenario \in Scenarios /\ ready \subseteq Late /\ seen \subseteq ready
  /\ pc \in Range(Flow) \cup {"closed"} /\ flow \in [stop : BOOLEAN, retry : BOOLEAN]
  /\ \A b \in DOMAIN bindings :
       bindings[b].service \in DOMAIN services /\ SecretOf(bindings[b].secret) \in DOMAIN Objects
  /\ \A j \in DOMAIN items : items[j].service \in 0..Len(services)
  /\ \A p \in pending : p[1] \in DOMAIN services
  /\ flow.retry => flow.stop
  /\ flow.stop => result = NoResult /\ pc \in {"closed", "BindingItems"}
  /\ faults \in 0..MaxFaults

Collected == pc = "closed" /\ ~flow.stop

\* What an item of a service is called in the end.
FinalName(sc, name) ==
  IF sc.flow = DefaultFlow THEN Rename(sc, Item(name, Nil, 1)).name ELSE name

HasKeys(n) == \A k \in Keys(n) : FinalName(scenario, k) \in DOMAIN result.data

\* An annotation whose parameters ask for the whole of an object.
Whole(a) == a.objectType \in DataTypes /\ a.sourceKey = "" /\ a.sourceValue = ""

StartsWith(name, prefix) == SubSeq(name, 1, Len(prefix)) = prefix

\* The data hold an item whose name is the annotation's, or starts with it.
HasItem(prefix) ==
  \E n \in DOMAIN result.data \cup DOMAIN scenario.naming :
    StartsWith(n, prefix) /\ FinalName(scenario, n) \in DOMAIN result.data

\* What is collected is complete: when no handler has stopped the flow, the
\* data have every key of every Secret that is a service and has no binding
\* annotation, every key of a provisioned service's secret, and an item for
\* every named annotation, except for an optional one without a value and for
\* one that asks for the whole of an object, whose items have their own names.
Complete ==
  Collected =>
    \A i \in DOMAIN services :
      LET s == services[i]
      IN  /\ s.secret # None /\ ~HasBindingAnnotation(s) => HasKeys(s.secret)
          /\ s.binding \notin {"unset", ""} => HasKeys(s.binding)
          /\ \A n \in DOMAIN Merged(s) \ {NoName} :
               LET a == Merged(s)[n]
               IN  \/ Whole(a) \/ HasItem(n)
                   \/ a.optional /\ a.path \notin DOMAIN ValuesIn(s, seen)

\* A secret that the workload gets as it is has exactly the data that were
\* collected: no name was changed, and nothing was added or left out.
SharedIsTheData ==
  Collected /\ result.shared =>
    result.data = [k \in Keys(bindings[1].secret) |-> Str(Objects[SecretOf(bindings[1].secret)][k])]

\* Reconciling again, with nothing changed, collects the same data again, in
\* whatever order Go walks its maps: the secret keeps its name, and the
\* workload is not rolled out once more.
Repeatable == Cardinality(results) <= 1

\* Something that no later attempt can get past.
Permanent ==
  \/ Flow = DefaultFlow /\ ~scenario.validNaming
  \/ Flow = DefaultFlow /\ \E n \in DOMAIN scenario.mappings : ~scenario.mappings[n].valid
  \/ \E i \in DOMAIN services : Malformed(services[i])
  \/ \E p \in Definitions(services) :
       LET v == FinalValue(services, p)
       IN  v.status = "found" /\ \E n \in DOMAIN v.of : HasHole(v.of[n])

\* Given up for a template that cannot be executed on what the services have.
TemplateFails ==
  /\ pc = "closed" /\ Flow = DefaultFlow
  /\ \E n \in DOMAIN scenario.mappings :
       scenario.mappings[n].valid /\ Fails(scenario, seen, bindingItemMap(bindings, items), n)

\* The flow is given up only for what no later attempt can get past, and for a
\* template that cannot be executed: a failed call, or a value or a secret that
\* is not there yet, always asks for a retry, even after an annotation that is
\* invalid.  Only mapping.Handle does not ask for one.
GivesUpOnlyForGood ==
  pc = "closed" /\ flow.stop /\ ~flow.retry => Permanent \/ TemplateFails

\* What is there in the end is collected in the end: the retries of Reconcile
\* outlast failed calls and services that are slow to be provisioned, where no
\* template fails on what there is so far.
EventuallyCollects ==
  []<>(\/ Collected \/ Permanent \/ scenario \in Unavailable
       \/ flow.stop /\ ~flow.retry /\ TemplateFails)

=============================================================================
