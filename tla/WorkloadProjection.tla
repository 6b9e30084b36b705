------------------------ MODULE WorkloadProjection ------------------------
(***************************************************************************)
(* What binding and unbinding do to the manifest of one workload: its      *)
(* volumes, and the env, envFrom and volumeMounts lists of its containers. *)
(* Several bindings share the workload, and its owner edits it meanwhile.  *)
(* One action is one reconciliation of one binding, from the copy of the   *)
(* workload that it reads to the Update that the API server accepts; for a *)
(* custom resource it accepts any manifest.                                *)
(*                                                                         *)
(* An absent list and an empty one are not told apart.                     *)
(***************************************************************************)
EXTENDS PodLists

CONSTANTS
  Bindings,     \* the bindings of this workload
  Containers,   \* the containers that the workload's mapping finds, by name
  Names,        \* the container names that a spec can list
  Secrets,      \* the secrets there are
  NoSecret,
  Setups        \* the cases considered; in each of them
                \*   config[b]: the projection that the spec of b asks for, with
                \*     the secrets that b has, one after the other; bindings of
                \*     one service that provides a secret have that one
                \*   sources: the secrets that the owner has variables from
                \*   rescoped: the bindings edited after they were bound
                \*   malformed: the containers with an unreadable list
                \*   edits: what the owners of workload and bindings may do

ASSUME SetupsAssumption ==
  /\ Containers \subseteq Names /\ NoSecret \notin Secrets
  /\ \A u \in Setups :
       /\ u.rescoped \subseteq Bindings /\ u.malformed \subseteq Containers
       /\ \A b \in Bindings :
            /\ u.config[b].files \in BOOLEAN /\ u.config[b].secretPath \in BOOLEAN
            /\ u.config[b].secrets \subseteq Secrets
            /\ u.config[b].env \in Seq([var : STRING, key : STRING])
       /\ \A b, c \in Bindings : b # c =>
            u.config[b].name # u.config[c].name

VARIABLES
  setup,      \* the case, which does not change
  volumes,    \* the volumes of the pod template
  lists,      \* lists[c]: env, envFrom and mounts of container c
  secretRef,  \* the field at bindingPath.secretPath
  scope,      \* scope[b]: the containers named in the spec of b; {} is all
  bound       \* bound[b]: the secret in the status of b

vars == <<setup, volumes, lists, secretRef, scope, bound>>

Config == setup.config
Sources == setup.sources
Rescoped == setup.rescoped
Malformed == setup.malformed
Edits == setup.edits

BindingRoot == "SERVICE_BINDING_ROOT"
OwnVar == "OWN"
OwnVolume == "own"

EnvVar(name, from, value) == [name |-> name, from |-> from, value |-> value]

Init ==
  /\ setup \in Setups
  /\ volumes = <<>> /\ secretRef = NoSecret
  /\ lists = [c \in Containers |-> [env |-> <<>>, envFrom |-> <<>>, mounts |-> <<>>]]
  /\ scope = [b \in Bindings |-> {}]
  /\ bound = [b \in Bindings |-> NoSecret]

(***************************************************************************)
(* MetaPodSpec and MetaContainer                                           *)
(***************************************************************************)

\* MountPath: the root is the first SERVICE_BINDING_ROOT of the container, or
\* else the default one, which is then added to its variables.
HasRoot(env) == HasName(env, BindingRoot)

RootOf(env) ==
  IF HasRoot(env) THEN env[FirstOf(env, BindingRoot)].value ELSE "/bindings"

WithRoot(env) ==
  IF HasRoot(env) THEN env
  ELSE Append(env, EnvVar(BindingRoot, NoSecret, "/bindings"))

(***************************************************************************)
(* The handlers of the projection                                          *)
(***************************************************************************)

\* BindablePods: the containers found, less those the binding does not name.
Bindable(b) == IF scope[b] = {} THEN Containers ELSE Containers \cap scope[b]

EnvBindings(b, s) ==
  [i \in DOMAIN Config[b].env |-> EnvVar(Config[b].env[i].var, s, Config[b].env[i].key)]

\* BindingsAsEnv on one container.
BindAsEnv(b, s, l) ==
  [l EXCEPT !.envFrom = IF Config[b].files THEN @ ELSE AddEnvFromVar(@, s),
            !.env = AddEnvVars(@, EnvBindings(b, s))]

\* BindingsAsFiles on one container.
BindAsFiles(b, l) ==
  IF Config[b].files
  THEN [l EXCEPT !.env = WithRoot(@),
                 !.mounts = Replace(@, [name |-> Config[b].name, root |-> RootOf(l.env)])]
  ELSE l

Binds(b, c) == c \in Bindable(b) \ Malformed

SkipMalformed(b) == Bindable(b) \subseteq Malformed

\* The handlers give up at a list that they cannot read, and Close then
\* leaves the workload alone.
Unreadable(b) == Bindable(b) \cap Malformed # {}

\* InjectSecretRef, BindingsAsEnv and BindingsAsFiles, then Close.  A workload
\* without a container to bind is an error, unless there is a secretPath.
Bind(b, s) ==
  /\ s \in Config[b].secrets
  /\ \/ Bindable(b) # {} /\ ~Unreadable(b)
     \/ Bindable(b) = {} /\ Config[b].secretPath
  /\ secretRef' = IF Config[b].secretPath THEN s ELSE secretRef
  /\ volumes' = IF Config[b].files /\ Bindable(b) # {}
                THEN Replace(volumes, [name |-> Config[b].name, secret |-> s])
                ELSE volumes
  /\ lists' = [c \in Containers |->
                 IF Binds(b, c) THEN BindAsFiles(b, BindAsEnv(b, s, lists[c])) ELSE lists[c]]
  /\ bound' = [bound EXCEPT ![b] = s]
  /\ UNCHANGED scope

Keys(b) == [i \in DOMAIN Config[b].env |-> Config[b].env[i].key]

UnbindNoMounts(b, s, l) ==
  [l EXCEPT !.env = RemoveEach(@, Keys(b)),
            !.envFrom = RemoveSource(@, s)]

\* Unbind on one container.  The variables are looked up by the key that they
\* were made from, not by their name.
UnbindContainer(b, s, l) ==
  [l EXCEPT !.env = RemoveEach(@, Keys(b)),
            !.envFrom = RemoveSource(@, s),
            !.mounts = RemoveNamed(@, Config[b].name)]

\* Unbind, then Close.  Without a container to unbind there is no result
\* (BindablePods answers nil), and the workload keeps what it has.
Unbind(b) ==
  /\ bound[b] # NoSecret /\ Bindable(b) # {} /\ ~Unreadable(b)
  /\ volumes' = RemoveNamed(volumes, Config[b].name)
  /\ lists' = [c \in Containers |->
                 IF Binds(b, c) THEN UnbindContainer(b, bound[b], lists[c]) ELSE lists[c]]
  /\ bound' = [bound EXCEPT ![b] = NoSecret]
  /\ UNCHANGED <<secretRef, scope>>

(***************************************************************************)
(* The owners of the workload and of the bindings                          *)
(***************************************************************************)

\* A variable of the workload's own is set or taken away.
EditVar(c, name, value) ==
  /\ "var" \in Edits /\ c \notin Malformed
  /\ lists' = [lists EXCEPT ![c].env =
       IF HasName(@, name)
       THEN RemoveNamed(@, name) ELSE Append(@, EnvVar(name, NoSecret, value))]
  /\ UNCHANGED <<volumes, secretRef, scope, bound>>

\* A secret, as a source of variables of the workload's own, comes or goes.
EditSource(c, s) ==
  /\ s \in Sources /\ c \notin Malformed
  /\ lists' = [lists EXCEPT ![c].envFrom =
       IF s \in Range(@) THEN RemoveSource(@, s) ELSE Append(@, s)]
  /\ UNCHANGED <<volumes, secretRef, scope, bound>>

\* A volume of the workload's own, mounted in container c, comes or goes.
EditVolume(c) ==
  /\ "volume" \in Edits /\ c \notin Malformed
  /\ IF HasName(volumes, OwnVolume)
     THEN /\ volumes' = RemoveNamed(volumes, OwnVolume)
          /\ lists' = [x \in Containers |->
               [lists[x] EXCEPT !.mounts = RemoveNamed(@, OwnVolume)]]
     ELSE /\ volumes' = Append(volumes, [name |-> OwnVolume, secret |-> NoSecret])
          /\ lists' = [lists EXCEPT ![c].mounts =
               Append(@, [name |-> OwnVolume, root |-> "/custom"])]
  /\ UNCHANGED <<secretRef, scope, bound>>

\* The spec of a binding that is not ready is edited: other containers.  A
\* binding that has been projected is not ready after a later error.
Rescope(b, cs) ==
  /\ "scope" \in Edits /\ (bound[b] # NoSecret => b \in Rescoped)
  /\ cs # scope[b]
  /\ scope' = [scope EXCEPT ![b] = cs]
  /\ UNCHANGED <<volumes, lists, secretRef, bound>>

Operator == \E b \in Bindings : Unbind(b) \/ \E s \in Secrets : Bind(b, s)

Next ==
  /\ \/ Operator
     \/ \E c \in Containers :
          \/ EditVar(c, OwnVar, "x") \/ EditVar(c, BindingRoot, "/custom")
          \/ EditVolume(c) \/ \E s \in Secrets : EditSource(c, s)
     \/ \E b \in Bindings, cs \in SUBSET Names : Rescope(b, cs)
  /\ UNCHANGED setup

Spec == Init /\ [][Next]_vars

(***************************************************************************)
(* Properties                                                              *)
(***************************************************************************)

OtherNamed(b, s) == Without(s, {x \in Range(s) : x.name = Config[b].name})
OtherVars(b, s) == Without(s, {x \in Range(s) : x.from \in Config[b].secrets})
OtherSources(b, s) == Without(s, Config[b].secrets)

LeavesOthers(b) ==
  /\ OtherNamed(b, volumes') = OtherNamed(b, volumes)
  /\ \A c \in Containers :
       /\ OtherNamed(b, lists'[c].mounts) = OtherNamed(b, lists[c].mounts)
       /\ OtherSources(b, lists'[c].envFrom) = OtherSources(b, lists[c].envFrom)
       /\ OtherVars(b, lists'[c].env) \in
            {OtherVars(b, lists[c].env), WithRoot(OtherVars(b, lists[c].env))}

\* Binding or unbinding leaves what the owner of the workload and the other
\* bindings put into it as it is and in its order, but for the default
\* SERVICE_BINDING_ROOT and for what refers to the binding's own secret,
\* whoever put it there (the index arithmetic of the Add and Remove methods).
OthersKept ==
  [][\A b \in Bindings :
       Unbind(b) \/ (\E s \in Secrets : Bind(b, s)) => LeavesOthers(b)]_vars

\* However often the bindings are projected, with whichever secrets, no list
\* gets two entries of one name: the API server refuses such volumes, and of
\* such variables the last one wins.
NoDuplicates ==
  /\ Distinct(volumes)
  /\ \A c \in Containers :
       /\ Distinct(lists[c].mounts) /\ Distinct(lists[c].env)
       /\ IsInjective(lists[c].envFrom)

\* The secrets of b that neither another binding nor the owner of the workload
\* refers to.  RemoveEnvFromVars goes by the secret alone: with one of another
\* binding, Unbind takes that binding's source of variables away.
Private(b) ==
  {s \in Config[b].secrets \ Sources :
     \A c \in Bindings \ {b} : s \notin Config[c].secrets}

\* The volume and the mounts of b, and what refers to a secret of b alone.
Traces(b) ==
  \/ HasName(volumes, Config[b].name) \/ secretRef \in Private(b)
  \/ \E c \in Containers :
       \/ HasName(lists[c].mounts, Config[b].name)
       \/ Range(lists[c].envFrom) \cap Private(b) # {}
       \/ \E v \in Range(lists[c].env) : v.from \in Private(b)

\* A field at secretPath, and a variable that is not named as its key, are not
\* undone.
Undone(b) ==
  ~Config[b].secretPath /\ \A e \in Range(Config[b].env) : e.var = e.key

\* Unbind leaves nothing of the binding in the workload, unless its spec was
\* edited in between to name other containers.
UnbindRemoves ==
  \A b \in Bindings \ Rescoped : Undone(b) /\ bound[b] = NoSecret => ~Traces(b)

ProjectedInto(b, c) ==
  IF Config[b].files
  THEN /\ HasName(lists[c].mounts, Config[b].name)
       /\ [name |-> Config[b].name, secret |-> bound[b]] \in Range(volumes)
  ELSE bound[b] \in Range(lists[c].envFrom)

\* A binding whose secret is in its status is in every container it is for,
\* with that secret, whatever was bound and unbound after it; never in some
\* of the containers only.  As variables, only a secret that nobody else
\* refers to is safe from the others.
BoundEverywhere ==
  \A b \in Bindings \ Rescoped :
    bound[b] # NoSecret /\ (Config[b].files \/ bound[b] \in Private(b)) =>
    \A c \in Bindable(b) :
      /\ ProjectedInto(b, c)
      /\ Range(EnvBindings(b, bound[b])) \subseteq Range(lists[c].env)

\* Projecting files again where they are, with the secret and under the root
\* that they have, changes nothing: the periodic reprocessing of a binding by
\* label does not roll the pods.
ReprojectionIdle ==
  [][\A b \in Bindings :
       /\ Config[b].files /\ Config[b].env = <<>>
       /\ \A c \in Bindable(b) :
            HasRoot(lists[c].env) /\ [name |-> Config[b].name,
                                     root |-> RootOf(lists[c].env)] \in Range(lists[c].mounts)
       /\ Bind(b, bound[b])
       => UNCHANGED <<volumes, lists>>]_vars

(***************************************************************************)
(* The inductive invariants behind these properties                        *)
(***************************************************************************)

\* The state is well formed, and a binding has a secret of its own.
Shapes ==
  /\ setup \in Setups /\ scope \in [Bindings -> SUBSET Names]
  /\ bound \in [Bindings -> Secrets \cup {NoSecret}]
  /\ \A b \in Bindings : bound[b] # NoSecret => bound[b] \in Config[b].secrets
  /\ Listed(volumes)
  /\ lists = [c \in Containers |-> lists[c]]
  /\ \A c \in Containers :
       /\ lists[c] = [env |-> lists[c].env, envFrom |-> lists[c].envFrom,
                      mounts |-> lists[c].mounts]
       /\ Listed(lists[c].env) /\ Listed(lists[c].envFrom) /\ Listed(lists[c].mounts)

\* The mount of the workload's own volume does not outlive the volume.
OwnMounts ==
  \A c \in Containers :
    HasName(lists[c].mounts, OwnVolume) => HasName(volumes, OwnVolume)

\* What a binding leaves in a workload it leaves in the containers that Unbind
\* will visit, and under the names and the secret that it will look for.
TracesOf(b) ==
  /\ secretRef \notin Private(b)
  /\ HasName(volumes, Config[b].name) => bound[b] # NoSecret
  /\ \A c \in Containers :
       /\ HasName(lists[c].mounts, Config[b].name) => bound[b] # NoSecret /\ c \in Bindable(b)
       /\ \A s \in Range(lists[c].envFrom) \cap Private(b) :
            ~Config[b].files /\ s = bound[b] /\ c \in Bindable(b)
       /\ \A v \in Range(lists[c].env) : v.from \in Private(b) =>
            /\ bound[b] # NoSecret /\ c \in Bindable(b)
            /\ \E e \in Range(Config[b].env) : v.name = e.key

Traceable == \A b \in Bindings \ Rescoped : Undone(b) => TracesOf(b)

\* A variable by the name, or by the key, of one of binding b comes from it.
VarsOwned ==
  \A c \in Containers, b \in Bindings :
    \A v \in Range(lists[c].env), e \in Range(Config[b].env) :
      v.name \in {e.var, e.key} => v.from \in Config[b].secrets

\* The volume of a binding holds the secret in its status.
VolumeCurrent ==
  \A b \in Bindings :
    Config[b].files /\ bound[b] # NoSecret
      /\ (Config[b].secretPath => b \notin Rescoped /\ Bindable(b) # {})
    => [name |-> Config[b].name, secret |-> bound[b]] \in Range(volumes)

=============================================================================
